--------------------------- MODULE ModelBenchmark ---------------------------
(***************************************************************************)
(* One process of model_benchmark on the device (benchmark_main.cc and     *)
(* benchmark.cc): it reads the model's description, creates the executor   *)
(* and the benchmark, drives the executor through Init, Prepare, Run and   *)
(* Finish, and appends one line to result.txt.                             *)
(*                                                                         *)
(* A performance benchmark warms up twice and then times runs; a precision *)
(* benchmark runs over the images of a directory.  Failed checks and       *)
(* LOG(FATAL) abort the process, and so does a null executor; main returns *)
(* 0 whatever Main returned.                                               *)
(*                                                                         *)
(* The durations are counted per value, for the code sorts them before it  *)
(* looks at them.                                                          *)
(***************************************************************************)
EXTENDS Executors, Integers, FiniteSets, FiniteSetsExt

CONSTANTS
    Options,    \* the values of --benchmark_option
    Flagged,    \* the values of --executor
    Built,      \* the executors a binary may be built for
    OnDevice,   \* the values of --device_type
    KMinIters,  \* the timed runs there are at least,
    KMaxIters,  \* and at most,
    KMinTime,   \* unless they have taken this long
    Durations,  \* what a run may take
    IntRange,   \* 2^32, the number of values of an int
    MaxEntries  \* bound: the entries of the input directory

ASSUME ModelBenchmarkAssumption ==
    /\ Options \subseteq {"Performance", "Precision"}
    /\ Flagged \subseteq ExecutorType /\ Built \subseteq ExecutorType
    /\ OnDevice \subseteq DeviceType
    /\ KMinIters \in Nat \ {0, 1} /\ KMaxIters \in Nat
    /\ KMinIters <= KMaxIters
    /\ KMinTime \in Nat
    /\ Durations \subseteq Nat /\ IsFiniteSet(Durations)
    /\ IntRange \in Nat \ {0}
    /\ MaxEntries \in Nat

VARIABLES
    args,       \* the command line, and what the binary was built for
    pc,         \* where the process is
    engine,     \* the state of the executor's engine
    status,     \* the last status
    warm,       \* warm-up runs done
    iters,      \* benchmark_iters
    total,      \* total_duration
    durations,  \* how often each duration was measured
    left,       \* entries of the directory not read yet
    seen,       \* total_count_
    correct,    \* correct_count_
    mean,       \* run_ms, as <<total_duration, valid_iters>>
    line,       \* result.txt has the line of this process
    \* the variables below only observe
    idle,       \* timed runs or counted images that inferred nothing
    accepted    \* images the pre-processor accepted

run     == <<warm, iters, total, durations, mean>>
images  == <<left, seen, correct, accepted>>
vars    == <<args, pc, engine, status, run, images, line, idle>>

Precision == args.option = "Precision"

Goto(l) == pc' = l

\* abort(), or a null pointer: no Finish, no line.
Crash == Goto("crashed") /\ UNCHANGED <<args, engine, status, run, images, line, idle>>

\* A call that succeeded leads on; one that failed leads to Finish.
Checked_NoFinish(s, next) == Goto(IF s = "SUCCESS" THEN next ELSE "report")
Checked(s, next) == Goto(IF s = "SUCCESS" THEN next ELSE "finish")

Init ==
    /\ args \in [option : Options, executor : Flagged, built : Built, device : OnDevice]
    /\ pc = "read"
    /\ engine = "none"
    /\ status = "SUCCESS"
    /\ warm = 0 /\ iters = 0 /\ total = 0
    /\ durations = [d \in Durations |-> 0]
    /\ left \in 0..MaxEntries
    /\ seen = 0 /\ correct = 0 /\ accepted = 0
    /\ mean = <<0, 1>>
    /\ line = FALSE
    /\ idle = 0

-----------------------------------------------------------------------------
(***************************************************************************)
(* Before the executor's first call.                                       *)
(***************************************************************************)

\* model.pb and benchmark.pb: a file that is missing and a model that is not
\* in it are fatal.
ReadInfo ==
    /\ pc = "read"
    /\ \/ Goto("create") /\ UNCHANGED <<args, engine, status, run, images, line, idle>>
       \/ Crash

\* The executor exists only in a binary built for it, and GetBenchmarkInfo
\* uses it first.  The sizes of the shapes, and the files of the processors,
\* are checked.
Create ==
    /\ pc = "create"
    /\ \/ /\ args.executor = args.built
          /\ Goto("init")
          /\ UNCHANGED <<args, engine, status, run, images, line, idle>>
       \/ Crash

-----------------------------------------------------------------------------
(***************************************************************************)
(* The calls both benchmarks make.                                         *)
(***************************************************************************)

InitExecutor ==
    /\ pc = "init"
    /\ \E s \in InitOutcomes(args.executor, args.device) :
          \/ /\ s # "CRASH"
             /\ status' = s
             /\ Checked(s, "prepare")
             /\ UNCHANGED <<args, engine, run, images, line, idle>>
          \/ s = "CRASH" /\ Crash

PrepareExecutor ==
    /\ pc = "prepare"
    /\ \E o \in PrepareOutcomes(args.executor, args.device) :
          \/ /\ o.status # "CRASH"
             /\ status' = o.status
             /\ engine' = o.engine
             /\ Checked(o.status, IF Precision THEN "images" ELSE "warmup")
             /\ UNCHANGED <<args, run, images, line, idle>>
          \/ o.status = "CRASH" /\ Crash

Finish ==
    /\ pc = "finish"
    /\ engine' = AfterFinish(args.executor, engine)
    /\ Goto("report")
    /\ UNCHANGED <<args, status, run, images, line, idle>>

\* LogResult, on success only; a result.txt that cannot be opened is fatal.
Report ==
    /\ pc = "report"
    /\ \/ /\ line' = (status = "SUCCESS")
          /\ Goto("exited")
          /\ UNCHANGED <<args, engine, status, run, images, idle>>
       \/ status = "SUCCESS" /\ Crash

-----------------------------------------------------------------------------
(***************************************************************************)
(* PerformanceBenchmark::Run.                                              *)
(***************************************************************************)

\* The status of the first of the two runs is overwritten.
WarmedUp_UntilSuccess(s) == s = "SUCCESS"
WarmedUp(s) == warm = 1

WarmUp ==
    /\ pc = "warmup"
    /\ \E o \in RunOutcomes(args.executor, engine) :
          \/ /\ o.status # "CRASH"
             /\ status' = o.status
             /\ IF WarmedUp(o.status)
                THEN Checked(o.status, "timed") /\ warm' = 2
                ELSE Goto("warmup") /\ warm' = 1
             /\ UNCHANGED <<args, engine, iters, total, durations, mean, images, line, idle>>
          \/ o.status = "CRASH" /\ Crash

MoreRuns_NoMax == iters < KMinIters \/ total < KMinTime
MoreRuns == iters < KMinIters \/ (total < KMinTime /\ iters < KMaxIters)

\* A timed run; one that fails ends the benchmark.
Failed_Ignored(s) == FALSE
Failed(s) == s # "SUCCESS"

TimedRun ==
    /\ pc = "timed"
    /\ MoreRuns
    /\ \E o \in RunOutcomes(args.executor, engine), d \in Durations :
          \/ /\ o.status # "CRASH"
             /\ status' = o.status
             /\ durations' = [durations EXCEPT ![d] = @ + 1]
             /\ total' = total + d
             /\ IF Failed(o.status)
                THEN Goto("finish") /\ UNCHANGED <<iters, idle>>
                ELSE /\ iters' = iters + 1
                     /\ idle' = IF o.inferred THEN idle ELSE idle + 1
                     /\ UNCHANGED pc
             /\ UNCHANGED <<args, engine, warm, mean, images, line>>
          \/ o.status = "CRASH" /\ Crash

\* The middle four fifths of n sorted durations: valid_iters, start_iter.
ValidIters_All(n) == n
ValidIters(n) == IF (4 * n) \div 5 > 1 THEN (4 * n) \div 5 ELSE 1

StartIter(n) == (n - ValidIters(n)) \div 2

\* An int's worth of x.
Wrap(x) == ((x + IntRange \div 2) % IntRange) - (IntRange \div 2)

\* How many of the durations d are at the sorted positions first + 1 .. last.
Below(d) == MapThenSumSet(LAMBDA e : durations[e], {e \in Durations : e < d})
Kept(d, first, last) ==
    Cardinality(((first + 1)..last) \cap ((Below(d) + 1)..(Below(d) + durations[d])))

\* std::accumulate over the kept positions, which adds up in an int.
KeptSum(first, last) ==
    LET share == [d \in Durations |-> d * Kept(d, first, last)]
    IN  MapThenSumSet(LAMBDA d : share[d], Durations)

EndTiming ==
    /\ pc = "timed"
    /\ ~MoreRuns
    /\ LET valid == ValidIters(iters)
           start == StartIter(iters)
       IN  mean' = <<Wrap(KeptSum(start, start + valid)), valid>>
    /\ Goto("finish")
    /\ UNCHANGED <<args, engine, status, warm, iters, total, durations, images, line, idle>>

-----------------------------------------------------------------------------
(***************************************************************************)
(* PrecisionBenchmark::Evaluate.                                           *)
(***************************************************************************)

\* An entry that is no image of ImageNet, or is blacklisted, is passed over;
\* an image that cannot be read, run or judged is fatal.
Accepted_Any(valid) == TRUE
Accepted(valid) == valid

Image ==
    /\ pc = "images"
    /\ left > 0
    /\ \E valid, right \in BOOLEAN, o \in RunOutcomes(args.executor, engine) :
          \/ /\ ~Accepted(valid)
             /\ left' = left - 1
             /\ UNCHANGED <<args, pc, engine, status, run, seen, correct, accepted, line, idle>>
          \/ /\ Accepted(valid)
             /\ o.status = "SUCCESS"
             /\ left' = left - 1
             /\ seen' = seen + 1
             /\ correct' = IF right THEN correct + 1 ELSE correct
             /\ accepted' = IF valid THEN accepted + 1 ELSE accepted
             /\ idle' = IF o.inferred THEN idle ELSE idle + 1
             /\ UNCHANGED <<args, pc, engine, status, run, line>>
          \/ Accepted(valid) /\ Crash

\* The end of the directory, or no directory at all.
EndImages ==
    /\ pc = "images"
    /\ left = 0
    /\ Goto("finish")
    /\ UNCHANGED <<args, engine, status, run, images, line, idle>>

-----------------------------------------------------------------------------

Next ==
    \/ ReadInfo \/ Create
    \/ InitExecutor \/ PrepareExecutor \/ Finish \/ Report
    \/ WarmUp \/ TimedRun \/ EndTiming
    \/ Image \/ EndImages

\* The calls into the libraries return.
Spec == Init /\ [][Next]_vars /\ WF_vars(Next)

-----------------------------------------------------------------------------
(***************************************************************************)
(* Properties.                                                             *)
(***************************************************************************)

Pc == {"read", "create", "init", "prepare", "warmup", "timed", "images",
       "finish", "report", "exited", "crashed"}

\* The types, with the bounds of the loops: at most kMaxIters runs, no more
\* correct answers than images, and no mean of no runs (benchmark.cc:172-196,
\* imagenet_postprocessor.cc:81-84).
TypeOK ==
    /\ args \in [option : Options, executor : Flagged, built : Built, device : OnDevice]
    /\ pc \in Pc
    /\ engine \in EngineState
    /\ status \in Status
    /\ warm \in 0..2
    /\ iters \in 0..KMaxIters
    /\ total \in Nat
    /\ durations \in [Durations -> Nat]
    /\ left \in 0..MaxEntries
    /\ seen \in Nat /\ accepted \in Nat
    /\ correct \in 0..seen
    /\ mean[2] \in Nat \ {0}
    /\ line \in BOOLEAN
    /\ idle \in Nat

\* The calls of the executor, and the line, are as the README and
\* base_executor.h promise: Finish comes once, after every failure but a
\* fatal one, and a process that dies leaves no line.
Phase ==
    CASE pc \in {"read", "create", "init"}      -> "created"
      [] pc = "prepare"                         -> "initialized"
      [] pc \in {"warmup", "timed", "images"}   -> "prepared"
      [] pc = "finish" /\ status = "SUCCESS"    -> "prepared"
      [] pc = "finish" /\ status # "SUCCESS"    -> "failed"
      [] pc = "report"                          -> "finished"
      [] OTHER                                  -> "ended"

Contract == INSTANCE ExecutorContract WITH
    phase <- Phase,
    ok    <- status = "SUCCESS" /\ pc # "crashed",
    lines <- IF line THEN 1 ELSE 0

ContractRefinement == Contract!Spec

\* A time is reported after both warm-up runs, from enough timed runs, and
\* one slow run among them cannot lift it above all the others: as long as
\* the sum fits an int, it lies between the fastest and the second slowest.
MeanIsRobust ==
    line /\ ~Precision =>
        /\ warm = 2
        /\ iters >= KMinIters
        /\ total >= KMinTime \/ iters = KMaxIters
        /\ total < IntRange \div 2 =>
              \A d \in Durations :
                  /\ Below(d) = 0 => mean[1] >= d * mean[2]
                  /\ Below(d) + durations[d] >= iters - 1 => mean[1] <= d * mean[2]

\* An accuracy is of the whole directory, of every image in it that the
\* pre-processor accepted, each once, and of nothing else: what stops half-way
\* leaves no line (benchmark.cc:265-281, imagenet_postprocessor.cc:84).
PrecisionExact == line /\ Precision => left = 0 /\ seen = accepted

\* With an executor that returns the status of the inference, every run or
\* image that counts for the line was inferred.
InferenceChecked ==
    line /\ args.executor \in ChecksInference => idle = 0

\* The process comes to an end.
Exits == <>(pc \in {"exited", "crashed"})

=============================================================================
