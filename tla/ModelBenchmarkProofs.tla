------------------------ MODULE ModelBenchmarkProofs ------------------------
(***************************************************************************)
(* Theorems about ModelBenchmark for every executor, every limit on the    *)
(* number and the time of the runs and every directory of images.          *)
(***************************************************************************)
EXTENDS ModelBenchmark, DataLemmas, TLAPS

-----------------------------------------------------------------------------
(***************************************************************************)
(* What the executors' calls return.                                       *)
(***************************************************************************)

LEMMA InitOutcomesType ==
    \A x, d : InitOutcomes(x, d) \subseteq Status \cup {"CRASH"}
BY DEF InitOutcomes, MaceInit, MnnInit, Status

LEMMA PrepareOutcomesType ==
    ASSUME NEW x \in ExecutorType, NEW d
    PROVE  PrepareOutcomes(x, d) \subseteq PrepareOutcome
<1>1. \A s \in Status \cup {"CRASH"}, g \in EngineState : Prepared(s, g) \in PrepareOutcome
  BY DEF Prepared, PrepareOutcome
<1>2. /\ MacePrepare \subseteq PrepareOutcome
      /\ SnpePrepare \subseteq PrepareOutcome
      /\ TflitePrepare(d) \subseteq PrepareOutcome
  BY <1>1 DEF MacePrepare, SnpePrepare, TflitePrepare, Status, EngineState
<1>3. /\ NcnnPrepare \subseteq PrepareOutcome
      /\ HiaiPrepare \subseteq PrepareOutcome
      /\ MnnPrepare \subseteq PrepareOutcome
      /\ TnnPrepare \subseteq PrepareOutcome
  BY <1>1 DEF NcnnPrepare, HiaiPrepare, MnnPrepare, TnnPrepare, Status, EngineState
<1>4. QED
  BY <1>2, <1>3 DEF PrepareOutcomes, ExecutorType

LEMMA RunOutcomesType ==
    ASSUME NEW x \in ExecutorType, NEW g
    PROVE  RunOutcomes(x, g) \subseteq RunOutcome
<1>1. \A s \in Status \cup {"CRASH"}, b \in BOOLEAN : Ran(s, b) \in RunOutcome
  BY DEF Ran, RunOutcome
<1>2. MaceRun(g) \subseteq RunOutcome /\ SnpeRun \subseteq RunOutcome /\ TfliteRun(g) \subseteq RunOutcome
  BY <1>1 DEF MaceRun, SnpeRun, TfliteRun, Status
<1>3. NcnnRun \subseteq RunOutcome /\ HiaiRun \subseteq RunOutcome
      /\ MnnRun(g) \subseteq RunOutcome /\ TnnRun \subseteq RunOutcome
  BY <1>1 DEF NcnnRun, HiaiRun, MnnRun, TnnRun, SnpeRun, Status
<1>4. QED
  BY <1>2, <1>3 DEF RunOutcomes, ExecutorType

\* A success of MACE, TFLITE or HIAI is an inference.
LEMMA SuccessIsInference ==
    ASSUME NEW x \in ChecksInference, NEW g, NEW o \in RunOutcomes(x, g),
           o.status = "SUCCESS"
    PROVE  o.inferred
<1>1. CASE x = "MACE"
  BY <1>1 DEF RunOutcomes, MaceRun, Ran
<1>2. CASE x = "TFLITE"
  BY <1>2 DEF RunOutcomes, TfliteRun, Ran
<1>3. CASE x = "HIAI"
  BY <1>3 DEF RunOutcomes, HiaiRun, Ran
<1>4. QED
  BY <1>1, <1>2, <1>3 DEF ChecksInference

LEMMA AfterFinishType ==
    ASSUME NEW x, NEW g \in EngineState
    PROVE  AfterFinish(x, g) \in EngineState
BY DEF AfterFinish, EngineState

-----------------------------------------------------------------------------
(***************************************************************************)
(* The arithmetic of the mean.                                             *)
(***************************************************************************)

\* Of n sorted durations, n > 1, the kept ones begin and end inside, the
\* slowest is never one of them, the fastest only if one alone is left out,
\* and the last std::min of benchmark.cc:191 changes nothing.
THEOREM WindowTheorem ==
    ASSUME NEW n \in Nat, n > 1
    PROVE  /\ ValidIters(n) \in 1..n
           /\ StartIter(n) \in 0..n
           /\ StartIter(n) + ValidIters(n) < n
           /\ ValidIters(n) <= n - StartIter(n)
           /\ StartIter(n) = 0 <=> n - ValidIters(n) = 1
<1>1. (4 * n) \div 5 \in Nat /\ 5 * ((4 * n) \div 5) <= 4 * n
  OBVIOUS
<1>2. ValidIters(n) \in Nat /\ ValidIters(n) >= 1 /\ ValidIters(n) < n
  BY <1>1 DEF ValidIters
<1>3. ASSUME NEW k \in Nat, k >= 1
      PROVE  k \div 2 \in Nat /\ 2 * (k \div 2) <= k /\ k < 2 * (k \div 2) + 2
  BY <1>3
<1>4. n - ValidIters(n) \in Nat /\ n - ValidIters(n) >= 1
  BY <1>2
<1>5. /\ StartIter(n) \in Nat
      /\ 2 * StartIter(n) <= n - ValidIters(n)
      /\ n - ValidIters(n) < 2 * StartIter(n) + 2
  BY <1>3, <1>4 DEF StartIter
<1>6. QED
  BY <1>2, <1>4, <1>5

-----------------------------------------------------------------------------
(***************************************************************************)
(* Type correctness.                                                       *)
(***************************************************************************)

LEMMA Constants ==
    /\ Flagged \subseteq ExecutorType
    /\ KMinIters \in Nat /\ KMinIters > 1
    /\ KMaxIters \in Nat /\ KMinIters <= KMaxIters
    /\ KMinTime \in Nat /\ MaxEntries \in Nat
    /\ Durations \subseteq Nat
BY ModelBenchmarkAssumption DEF ModelBenchmarkAssumption

LEMMA ExecutorOfArgs == TypeOK => args.executor \in ExecutorType
BY Constants DEF TypeOK

LEMMA TypeInit == Init => TypeOK
<1> SUFFICES ASSUME Init PROVE TypeOK
  OBVIOUS
<1>1. iters \in 0..KMaxIters /\ warm \in 0..2 /\ correct \in 0..seen
  BY Constants DEF Init
<1>2. mean[2] \in Nat \ {0}
  BY DEF Init
<1>3. durations \in [Durations -> Nat]
  BY DEF Init
<1>4. QED
  BY <1>1, <1>2, <1>3 DEF Init, TypeOK, Pc, EngineState, Status

\* Every call leads to a place the process can be at.
LEMMA CheckedType ==
    ASSUME NEW s, NEW next \in Pc, Checked(s, next)
    PROVE  pc' \in Pc
BY DEF Checked, Goto, Pc

LEMMA CrashType == TypeOK /\ Crash => TypeOK'
BY DEF TypeOK, Crash, Goto, run, images, Pc

LEMMA TypeStep == TypeOK /\ [Next]_vars => TypeOK'
<1> SUFFICES ASSUME TypeOK, [Next]_vars PROVE TypeOK'
  OBVIOUS
<1>1. CASE ReadInfo \/ Create
  BY <1>1, CrashType DEF TypeOK, ReadInfo, Create, Goto, run, images, Pc
<1>2. CASE InitExecutor
  <2>1. PICK s \in InitOutcomes(args.executor, args.device) :
          \/ /\ s # "CRASH" /\ status' = s /\ Checked(s, "prepare")
             /\ UNCHANGED <<args, engine, run, images, line, idle>>
          \/ s = "CRASH" /\ Crash
    BY <1>2 DEF InitExecutor
  <2>2. s \in Status \cup {"CRASH"} /\ "prepare" \in Pc
    BY InitOutcomesType DEF Pc
  <2>3. QED
    BY <2>1, <2>2, CrashType, CheckedType DEF TypeOK, run, images
<1>3. CASE PrepareExecutor
  <2>1. PICK o \in PrepareOutcomes(args.executor, args.device) :
          \/ /\ o.status # "CRASH" /\ status' = o.status /\ engine' = o.engine
             /\ Checked(o.status, IF Precision THEN "images" ELSE "warmup")
             /\ UNCHANGED <<args, run, images, line, idle>>
          \/ o.status = "CRASH" /\ Crash
    BY <1>3 DEF PrepareExecutor
  <2>2. o \in PrepareOutcome
    BY PrepareOutcomesType, ExecutorOfArgs
  <2>3. (IF Precision THEN "images" ELSE "warmup") \in Pc
    BY DEF Pc
  <2>4. QED
    BY <2>1, <2>2, <2>3, CrashType, CheckedType DEF TypeOK, PrepareOutcome, run, images
<1>4. CASE Finish
  BY <1>4, AfterFinishType DEF TypeOK, Finish, Goto, run, images, Pc
<1>5. CASE Report
  BY <1>5, CrashType DEF TypeOK, Report, Goto, run, images, Pc
<1>6. CASE WarmUp
  <2>1. PICK o \in RunOutcomes(args.executor, engine) :
          \/ /\ o.status # "CRASH" /\ status' = o.status
             /\ IF WarmedUp(o.status)
                THEN Checked(o.status, "timed") /\ warm' = 2
                ELSE Goto("warmup") /\ warm' = 1
             /\ UNCHANGED <<args, engine, iters, total, durations, mean, images, line, idle>>
          \/ o.status = "CRASH" /\ Crash
    BY <1>6 DEF WarmUp
  <2>2. o \in RunOutcome
    BY RunOutcomesType, ExecutorOfArgs
  <2>3. "timed" \in Pc /\ "warmup" \in Pc
    BY DEF Pc
  <2>4. CASE o.status = "CRASH"
    BY <2>1, <2>4, CrashType
  <2>5. CASE o.status # "CRASH"
    <3>1. pc' \in Pc /\ warm' \in 0..2
      BY <2>1, <2>3, <2>5, CheckedType DEF Goto, Crash
    <3>2. QED
      BY <2>1, <2>2, <2>5, <3>1 DEF TypeOK, RunOutcome, images
  <2>6. QED
    BY <2>4, <2>5
<1>7. CASE TimedRun
  <2>1. PICK o \in RunOutcomes(args.executor, engine), d \in Durations :
          \/ /\ o.status # "CRASH" /\ status' = o.status
             /\ durations' = [durations EXCEPT ![d] = @ + 1]
             /\ total' = total + d
             /\ IF Failed(o.status)
                THEN Goto("finish") /\ UNCHANGED <<iters, idle>>
                ELSE /\ iters' = iters + 1
                     /\ idle' = IF o.inferred THEN idle ELSE idle + 1
                     /\ UNCHANGED pc
             /\ UNCHANGED <<args, engine, warm, mean, images, line>>
          \/ o.status = "CRASH" /\ Crash
    BY <1>7 DEF TimedRun
  <2>2. o \in RunOutcome /\ d \in Nat
    BY RunOutcomesType, ExecutorOfArgs, Constants
  <2>3. iters < KMaxIters
    BY <1>7, Constants DEF TimedRun, MoreRuns, TypeOK
  <2>4. CASE o.status = "CRASH"
    BY <2>1, <2>4, CrashType
  <2>5. CASE o.status # "CRASH"
    <3>1. /\ pc' \in Pc
          /\ iters' \in 0..KMaxIters
          /\ idle' \in Nat
      BY <2>1, <2>3, <2>5, Constants DEF TypeOK, Goto, Pc
    <3>2. total' \in Nat /\ durations' \in [Durations -> Nat]
      BY <2>1, <2>2, <2>5 DEF TypeOK
    <3>3. QED
      BY <2>1, <2>2, <2>5, <3>1, <3>2 DEF TypeOK, RunOutcome, images
  <2>6. QED
    BY <2>4, <2>5
<1>8. CASE EndTiming
  <2>1. iters \in Nat /\ iters > 1
    BY <1>8, Constants DEF EndTiming, MoreRuns, TypeOK
  <2>2. ValidIters(iters) \in Nat \ {0}
    BY <2>1, WindowTheorem
  <2>3. mean'[2] \in Nat \ {0}
    BY <1>8, <2>2 DEF EndTiming
  <2>4. QED
    BY <1>8, <2>3 DEF TypeOK, EndTiming, Goto, images, Pc
<1>9. CASE Image
  <2>1. PICK valid \in BOOLEAN, right \in BOOLEAN, o \in RunOutcomes(args.executor, engine) :
          \/ /\ ~Accepted(valid) /\ left' = left - 1
             /\ UNCHANGED <<args, pc, engine, status, run, seen, correct, accepted, line, idle>>
          \/ /\ Accepted(valid) /\ o.status = "SUCCESS" /\ left' = left - 1 /\ seen' = seen + 1
             /\ correct' = IF right THEN correct + 1 ELSE correct
             /\ accepted' = IF valid THEN accepted + 1 ELSE accepted
             /\ idle' = IF o.inferred THEN idle ELSE idle + 1
             /\ UNCHANGED <<args, pc, engine, status, run, line>>
          \/ Accepted(valid) /\ Crash
    BY <1>9 DEF Image
  <2>2. left - 1 \in 0..MaxEntries
    BY <1>9, Constants DEF Image, TypeOK
  <2>3. CASE Accepted(valid) /\ Crash
    BY <2>3, CrashType
  <2>4. CASE ~(Accepted(valid) /\ Crash)
    <3>1. left' \in 0..MaxEntries /\ seen' \in Nat /\ accepted' \in Nat
          /\ correct' \in 0..seen' /\ idle' \in Nat
      BY <2>1, <2>2, <2>4 DEF TypeOK
    <3>2. UNCHANGED <<args, pc, engine, status, run, line>>
      BY <2>1, <2>4
    <3>3. QED
      BY <3>1, <3>2 DEF TypeOK, run
  <2>5. QED
    BY <2>3, <2>4
<1>10. CASE EndImages \/ UNCHANGED vars
  BY <1>10 DEF TypeOK, EndImages, vars, Goto, run, images, Pc
<1>11. QED
  BY <1>1, <1>2, <1>3, <1>4, <1>5, <1>6, <1>7, <1>8, <1>9, <1>10 DEF Next

\* No benchmark exceeds the limits on its runs, counts more right answers than
\* images or divides by no runs, for any limits and any executor.
THEOREM TypeCorrect == Spec => []TypeOK
BY TypeInit, TypeStep, PTL DEF Spec

-----------------------------------------------------------------------------
(***************************************************************************)
(* What a line stands for.                                                 *)
(***************************************************************************)

\* The counters agree all along; and a precision benchmark that comes to
\* Finish or the line with a success has been through the directory.
DirectoryRead ==
    /\ seen = accepted
    /\ Precision =>
          /\ pc \notin {"warmup", "timed"}
          /\ pc \in {"finish", "report"} /\ status = "SUCCESS" => left = 0
          /\ line => left = 0

LEMMA DirectoryStep == TypeOK /\ DirectoryRead /\ [Next]_vars => DirectoryRead'
<1> SUFFICES ASSUME TypeOK, DirectoryRead, [Next]_vars PROVE DirectoryRead'
  OBVIOUS
<1>1. Precision' = Precision
  BY DEF Precision, Next, ReadInfo, Create, InitExecutor, PrepareExecutor, Finish, Report, WarmUp,
         TimedRun, EndTiming, Image, EndImages, Crash, vars
<1>2. CASE Crash
  BY <1>1, <1>2 DEF Crash, Goto, images, DirectoryRead
<1>3. CASE ReadInfo \/ Create
  BY <1>1, <1>2, <1>3 DEF ReadInfo, Create, Goto, images, DirectoryRead
<1>4. CASE InitExecutor
  <2>1. CASE ~Crash
    <3>1. PICK s \in InitOutcomes(args.executor, args.device) :
            /\ status' = s
            /\ pc' = (IF s = "SUCCESS" THEN "prepare" ELSE "finish")
            /\ UNCHANGED <<images, line>>
      BY <1>4, <2>1 DEF InitExecutor, Checked, Goto
    <3>2. QED
      BY <3>1, <1>1 DEF images, DirectoryRead
  <2>2. QED
    BY <2>1, <1>2
<1>5. CASE PrepareExecutor
  <2>1. CASE ~Crash
    <3>1. PICK o \in PrepareOutcomes(args.executor, args.device) :
            /\ status' = o.status
            /\ pc' = (IF o.status = "SUCCESS" THEN (IF Precision THEN "images" ELSE "warmup")
                      ELSE "finish")
            /\ UNCHANGED <<images, line>>
      BY <1>5, <2>1 DEF PrepareExecutor, Checked, Goto
    <3>2. QED
      BY <3>1, <1>1 DEF images, DirectoryRead
  <2>2. QED
    BY <2>1, <1>2
<1>6. CASE Finish
  BY <1>6, <1>1 DEF Finish, Goto, images, DirectoryRead
<1>7. CASE Report
  BY <1>7, <1>1, <1>2 DEF Report, Goto, images, DirectoryRead
<1>8. CASE WarmUp \/ TimedRun \/ EndTiming
  <2>1. pc \in {"warmup", "timed"}
    BY <1>8 DEF WarmUp, TimedRun, EndTiming
  <2>2. ~Precision
    BY <2>1 DEF DirectoryRead
  <2>3. UNCHANGED images
    BY <1>8 DEF WarmUp, TimedRun, EndTiming, Crash
  <2>4. QED
    BY <1>1, <2>2, <2>3 DEF images, DirectoryRead
<1>9. CASE Image
  <2>1. CASE ~Crash
    <3>1. pc = "images" /\ left > 0 /\ pc' = pc /\ line' = line /\ status' = status
      BY <1>9, <2>1 DEF Image
    <3>2. Precision => ~line
      BY <3>1 DEF DirectoryRead, TypeOK
    <3>3. PICK valid \in BOOLEAN :
            \/ UNCHANGED <<seen, accepted>>
            \/ /\ Accepted(valid) /\ seen' = seen + 1
               /\ accepted' = IF valid THEN accepted + 1 ELSE accepted
      BY <1>9, <2>1 DEF Image
    <3>4. seen' = accepted'
      BY <3>3 DEF Accepted, DirectoryRead
    <3>5. QED
      BY <1>1, <3>1, <3>2, <3>4 DEF DirectoryRead
  <2>2. QED
    BY <2>1, <1>2
<1>10. CASE EndImages
  BY <1>10, <1>1 DEF EndImages, Goto, images, DirectoryRead
<1>11. CASE UNCHANGED vars
  BY <1>11, <1>1 DEF vars, images, DirectoryRead
<1>12. QED
  BY <1>3, <1>4, <1>5, <1>6, <1>7, <1>8, <1>9, <1>10, <1>11 DEF Next

\* An accuracy is of the whole directory, and of nothing else.
THEOREM PrecisionTheorem == Spec => []PrecisionExact
<1>1. Init => DirectoryRead
  BY DEF Init, DirectoryRead
<1>2. DirectoryRead => PrecisionExact
  BY DEF DirectoryRead, PrecisionExact
<1>3. QED
  BY <1>1, <1>2, TypeInit, TypeStep, DirectoryStep, PTL DEF Spec

\* With MACE, TFLITE or HIAI nothing counts that was not inferred, line or not.
CountsInferred == args.executor \in ChecksInference => idle = 0

LEMMA CountsInferredStep == CountsInferred /\ [Next]_vars => CountsInferred'
<1> SUFFICES ASSUME CountsInferred, [Next]_vars, args'.executor \in ChecksInference
             PROVE  idle' = 0
  BY DEF CountsInferred
<1>1. args' = args
  BY DEF Next, ReadInfo, Create, InitExecutor, PrepareExecutor, Finish, Report, WarmUp,
         TimedRun, EndTiming, Image, EndImages, Crash, vars
<1>2. idle = 0 /\ args.executor \in ChecksInference
  BY <1>1 DEF CountsInferred
<1>3. CASE TimedRun
  <2>1. PICK o \in RunOutcomes(args.executor, engine), d \in Durations :
          \/ idle' = idle
          \/ /\ ~Failed(o.status)
             /\ idle' = IF o.inferred THEN idle ELSE idle + 1
    BY <1>3 DEF TimedRun, Crash
  <2>2. QED
    BY <2>1, <1>2, SuccessIsInference DEF Failed
<1>4. CASE Image
  <2>1. PICK valid \in BOOLEAN, right \in BOOLEAN, o \in RunOutcomes(args.executor, engine) :
          \/ idle' = idle
          \/ /\ o.status = "SUCCESS"
             /\ idle' = IF o.inferred THEN idle ELSE idle + 1
    BY <1>4 DEF Image, Crash
  <2>2. QED
    BY <2>1, <1>2, SuccessIsInference
<1>5. CASE ReadInfo \/ Create \/ InitExecutor \/ PrepareExecutor \/ Finish \/ Report
  BY <1>5, <1>2 DEF ReadInfo, Create, InitExecutor, PrepareExecutor, Finish, Report, Crash
<1>6. CASE WarmUp \/ EndTiming \/ EndImages \/ UNCHANGED vars
  BY <1>6, <1>2 DEF WarmUp, EndTiming, EndImages, Crash, vars
<1>7. QED
  BY <1>3, <1>4, <1>5, <1>6 DEF Next

\* A line of MACE, TFLITE or HIAI stands for inferences only.
THEOREM InferenceTheorem == Spec => []InferenceChecked
<1>1. Init => CountsInferred
  BY DEF Init, CountsInferred
<1>2. CountsInferred => InferenceChecked
  BY DEF CountsInferred, InferenceChecked
<1>3. QED
  BY <1>1, <1>2, CountsInferredStep, PTL DEF Spec

-----------------------------------------------------------------------------
(***************************************************************************)
(* The contract of the executors.                                          *)
(***************************************************************************)

\* Before the report there is no line, and no call has failed when the next
\* one is made, but for the warm-up.
LineInv ==
    /\ line => pc = "exited"
    /\ pc \in {"read", "create", "init", "prepare", "timed", "images"} => status = "SUCCESS"

LEMMA LineStep == TypeOK /\ LineInv /\ [Next]_vars => LineInv'
<1> SUFFICES ASSUME TypeOK, LineInv, [Next]_vars PROVE LineInv'
  OBVIOUS
<1>1. CASE Crash /\ pc # "exited"
  BY <1>1 DEF LineInv, Crash, Goto
<1>2. CASE ReadInfo \/ Create \/ Finish \/ Report
  BY <1>2, <1>1 DEF LineInv, ReadInfo, Create, Finish, Report, Goto
<1>3. CASE InitExecutor \/ PrepareExecutor
  BY <1>3, <1>1 DEF LineInv, InitExecutor, PrepareExecutor, Checked, Goto
<1>4. CASE WarmUp
  BY <1>4, <1>1 DEF LineInv, WarmUp, Checked, Goto
<1>5. CASE TimedRun
  BY <1>5, <1>1 DEF LineInv, TimedRun, Failed, Goto
<1>6. CASE Image
  BY <1>6, <1>1 DEF LineInv, Image
<1>7. CASE EndTiming \/ EndImages \/ UNCHANGED vars
  BY <1>7 DEF LineInv, EndTiming, EndImages, Goto, vars
<1>8. QED
  BY <1>2, <1>3, <1>4, <1>5, <1>6, <1>7 DEF Next

LEMMA ContractStep ==
    TypeOK /\ LineInv /\ [Next]_vars => [Contract!Next]_Contract!vars
<1> SUFFICES ASSUME TypeOK, LineInv, [Next]_vars
             PROVE  Contract!Next \/ UNCHANGED Contract!vars
  BY DEF Contract!vars
<1> DEFINE Ok == status = "SUCCESS" /\ pc # "crashed"
           Lines == IF line THEN 1 ELSE 0
<1>1. CASE Crash /\ pc # "exited" /\ pc # "crashed"
  <2>1. Phase # "ended" /\ Phase' = "ended" /\ Ok' = FALSE /\ Lines' = Lines
    BY <1>1 DEF Crash, Goto, Phase, TypeOK, Pc
  <2>2. QED
    BY <2>1 DEF Contract!Next, Contract!Die
<1>2. CASE (ReadInfo \/ Create) /\ ~Crash
  BY <1>2 DEF ReadInfo, Create, Goto, Phase, Contract!vars
<1>3. CASE InitExecutor /\ ~Crash
  <2>1. Phase = "created" /\ Lines' = Lines
    BY <1>3 DEF InitExecutor, Phase
  <2>2. \/ Phase' = "initialized" /\ Ok' = TRUE
        \/ Phase' = "failed" /\ Ok' = FALSE
    BY <1>3 DEF InitExecutor, Checked, Goto, Phase
  <2>3. QED
    BY <2>1, <2>2 DEF Contract!Next, Contract!InitCall, Contract!Call
<1>4. CASE PrepareExecutor /\ ~Crash
  <2>1. Phase = "initialized" /\ Lines' = Lines
    BY <1>4 DEF PrepareExecutor, Phase
  <2>2. \/ Phase' = "prepared" /\ Ok' = TRUE
        \/ Phase' = "failed" /\ Ok' = FALSE
    BY <1>4 DEF PrepareExecutor, Checked, Goto, Phase
  <2>3. QED
    BY <2>1, <2>2 DEF Contract!Next, Contract!PrepareCall, Contract!Call
<1>5. CASE WarmUp /\ ~Crash
  <2>1. Phase = "prepared" /\ Lines' = Lines
    BY <1>5 DEF WarmUp, Phase
  <2>2. \/ Phase' = "prepared"
        \/ Phase' = "failed" /\ Ok' = FALSE
    BY <1>5 DEF WarmUp, Checked, Goto, Phase
  <2>3. Ok' \in BOOLEAN
    OBVIOUS
  <2>4. QED
    BY <2>1, <2>2, <2>3 DEF Contract!Next, Contract!RunCall, Contract!RunAgain, Contract!Call
<1>6. CASE TimedRun /\ ~Crash
  <2>1. Phase = "prepared" /\ Lines' = Lines
    BY <1>6 DEF TimedRun, Phase
  <2>2. \/ Phase' = "prepared" /\ Ok' = TRUE
        \/ Phase' = "failed" /\ Ok' = FALSE
    BY <1>6 DEF TimedRun, Failed, Goto, Phase
  <2>3. QED
    BY <2>1, <2>2 DEF Contract!Next, Contract!RunCall, Contract!Call
<1>7. CASE (Image \/ EndTiming \/ EndImages) /\ ~Crash
  <2>1. status = "SUCCESS" /\ status' = status /\ Lines' = Lines
    BY <1>7 DEF Image, EndTiming, EndImages, LineInv
  <2>2. pc \in {"images", "timed"} /\ (pc' = pc \/ pc' = "finish")
    BY <1>7 DEF Image, EndTiming, EndImages, Goto
  <2>3. Phase = "prepared" /\ Phase' = "prepared"
    BY <2>1, <2>2 DEF Phase
  <2>4. Ok' = Ok
    BY <2>1, <2>2
  <2>5. QED
    BY <2>1, <2>3, <2>4 DEF Contract!vars
<1>8. CASE Finish
  <2>1. Phase' = "finished" /\ Lines' = Lines /\ Ok' = Ok
    BY <1>8 DEF Finish, Goto, Phase
  <2>2. Phase \in {"prepared", "failed"} /\ Ok = (Phase = "prepared")
    BY <1>8 DEF Finish, Phase
  <2>3. QED
    BY <2>1, <2>2 DEF Contract!Next, Contract!FinishCall
<1>9. CASE Report /\ ~Crash
  <2>1. Phase = "finished" /\ Phase' = "ended" /\ Ok' = Ok
    BY <1>9 DEF Report, Goto, Phase
  <2>2. Lines' = IF Ok THEN 1 ELSE 0
    BY <1>9 DEF Report, Goto
  <2>3. QED
    BY <2>1, <2>2 DEF Contract!Next, Contract!End
<1>10. CASE UNCHANGED vars
  BY <1>10 DEF vars, Phase, Contract!vars
<1>11. Next => pc # "exited" /\ pc # "crashed"
  BY DEF Next, ReadInfo, Create, InitExecutor, PrepareExecutor, Finish, Report, WarmUp,
         TimedRun, EndTiming, Image, EndImages
<1>12. QED
  BY <1>1, <1>2, <1>3, <1>4, <1>5, <1>6, <1>7, <1>8, <1>9, <1>10, <1>11 DEF Next

\* Every process of model_benchmark keeps the contract of the executors: no
\* call comes out of order, Finish is not forgotten on any path but a fatal
\* one, and there is a line exactly if the last call succeeded.
THEOREM ContractTheorem == Spec => ContractRefinement
<1>1. Init => LineInv /\ Contract!Init
  BY DEF Init, LineInv, Contract!Init, Phase
<1>2. QED
  BY <1>1, TypeInit, TypeStep, LineStep, ContractStep, PTL
     DEF Spec, ContractRefinement, Contract!Spec

-----------------------------------------------------------------------------
(***************************************************************************)
(* The mean.  The sorted durations are laid out over the positions         *)
(* 1 .. iters, one value after the other, so that the kept positions hold  *)
(* as many values as there are of them; each is at least the fastest and   *)
(* at most the second slowest, and so is their mean.                       *)
(***************************************************************************)

Upto(n) == {e \in Durations : e < n}

\* The value d takes the positions Below(d) + 1 .. Below(d) + durations[d].
Counts == [d \in Durations |-> durations[d]]
Times  == [d \in Durations |-> d * durations[d]]

Counted == iters = SumOf(Counts, Durations) /\ total = SumOf(Times, Durations)

LEMMA DurationsFinite ==
    /\ Durations \subseteq Nat
    /\ IsFiniteSet(Durations)
    /\ \A n : Upto(n) \subseteq Durations /\ IsFiniteSet(Upto(n))
<1>1. Durations \subseteq Nat /\ IsFiniteSet(Durations)
  BY ModelBenchmarkAssumption
<1>2. \A n : Upto(n) \in SUBSET Durations
  BY DEF Upto
<1>3. QED
  BY <1>1, <1>2, FS_Subset

LEMMA BelowIs ==
    ASSUME TypeOK, NEW n
    PROVE  Below(n) = SumOf(Counts, Upto(n)) /\ Below(n) \in Nat
<1>1. Below(n) = SumOf(durations, Upto(n))
  BY Zenon DEF Below, SumOf, Upto
<1>2. \A d \in Durations : Counts[d] \in Nat /\ Counts[d] = durations[d]
  BY DEF Counts, TypeOK
<1>3. SumOf(Counts, Upto(n)) = SumOf(durations, Upto(n))
  BY <1>2, DurationsFinite, SumSame
<1>4. SumOf(Counts, Upto(n)) \in Nat
  BY <1>2, DurationsFinite, SumAdds
<1>5. QED
  BY <1>1, <1>3, <1>4

\* The next value's positions come behind.
LEMMA BelowNext ==
    ASSUME TypeOK, NEW n \in Nat
    PROVE  /\ n \in Durations => /\ Upto(n + 1) = Upto(n) \cup {n} /\ n \notin Upto(n)
                                 /\ Below(n + 1) = Below(n) + durations[n]
           /\ n \notin Durations => Upto(n + 1) = Upto(n) /\ Below(n + 1) = Below(n)
<1>1. \A d \in Durations : d \in Nat
  BY DurationsFinite
<1>2. CASE n \in Durations
  <2>0. \A d \in Durations : (d < n + 1 <=> d < n \/ d = n) /\ ~(n < n)
    BY <1>1
  <2>1. Upto(n + 1) = Upto(n) \cup {n} /\ n \notin Upto(n)
    BY <1>2, <2>0 DEF Upto
  <2>2. \A d \in Durations : Counts[d] \in Nat /\ Counts[d] = durations[d]
    BY DEF Counts, TypeOK
  <2>3. SumOf(Counts, Upto(n) \cup {n}) = Counts[n] + SumOf(Counts, Upto(n))
    <3>1. IsFiniteSet(Durations) /\ Upto(n) \in SUBSET Durations
      BY DurationsFinite
    <3>2. \A x \in Durations : x \notin Upto(n) =>
              SumOf(Counts, Upto(n) \cup {x}) = Counts[x] + SumOf(Counts, Upto(n))
      BY <2>2, <3>1, SumAdds
    <3>3. QED
      BY <1>2, <2>1, <3>2
  <2>4. Below(n + 1) = durations[n] + Below(n) /\ durations[n] \in Nat /\ Below(n) \in Nat
    BY <1>2, <2>1, <2>2, <2>3, BelowIs
  <2>5. QED
    BY <1>2, <2>1, <2>4
<1>3. CASE n \notin Durations
  <2>1. Upto(n + 1) = Upto(n)
    BY <1>1, <1>3 DEF Upto
  <2>2. QED
    BY <1>3, <2>1, BelowIs
<1>4. QED
  BY <1>2, <1>3

LEMMA BelowGrows ==
    ASSUME TypeOK, NEW m \in Nat, NEW n \in Nat, m <= n
    PROVE  Below(m) <= Below(n)
<1> DEFINE T == {k \in Nat : m <= k => Below(m) <= Below(k)}
<1>1. 0 \in T
  <2>1. m <= 0 => m = 0
    OBVIOUS
  <2>2. Below(m) \in Nat
    BY BelowIs
  <2>3. QED
    BY <2>1, <2>2
<1>2. ASSUME NEW k \in T PROVE k + 1 \in T
  <2>1. k \in Nat /\ (m <= k => Below(m) <= Below(k))
    OBVIOUS
  <2>2. Below(k) \in Nat /\ Below(k + 1) \in Nat /\ Below(m) \in Nat
    BY BelowIs
  <2>3. Below(k) <= Below(k + 1)
    <3>1. k \in Durations => durations[k] \in Nat
      BY DEF TypeOK
    <3>2. QED
      BY <2>1, <2>2, <3>1, BelowNext
  <2>4. m <= k + 1 => m <= k \/ m = k + 1
    BY <2>1
  <2>5. m <= k + 1 => Below(m) <= Below(k + 1)
    BY <2>1, <2>2, <2>3, <2>4
  <2>6. QED
    BY <2>1, <2>5
<1>3. T \in SUBSET Nat
  OBVIOUS
<1> HIDE DEF T
<1>4. n \in T
  BY <1>1, <1>2, <1>3, Induction
<1>5. QED
  BY <1>4 DEF T

LEMMA AllBelow ==
    ASSUME TypeOK
    PROVE  \E b \in Nat : Upto(b) = Durations /\ Below(b) = SumOf(Counts, Durations)
<1>1. PICK b \in Nat : \A d \in Durations : d < b
  BY DurationsFinite, Bounded
<1>2. Upto(b) = Durations
  BY <1>1 DEF Upto
<1>3. QED
  BY <1>2, BelowIs

\* How many positions of a value are kept.
LEMMA KeptType ==
    ASSUME TypeOK, NEW d \in Durations, NEW first \in Nat, NEW last \in Nat
    PROVE  /\ Kept(d, first, last) \in Nat
           /\ Kept(d, first, last) <= durations[d]
           /\ last <= Below(d) => Kept(d, first, last) = 0
<1> DEFINE a == Below(d)
           b == a + durations[d]
           K == ((first + 1)..last) \cap ((a + 1)..b)
<1>1. a \in Nat /\ durations[d] \in Nat /\ b \in Nat
  BY BelowIs DEF TypeOK
<1>2. K = ((first + 1)..last) \cap ((a + 1)..b) /\ Kept(d, first, last) = Cardinality(K)
  BY DEF Kept
<1>3. b - a = durations[d] /\ a <= b
  BY <1>1
<1> HIDE DEF a, b, K
<1>4. IsFiniteSet((a + 1)..b) /\ Cardinality((a + 1)..b) = b - a
  <2>1. a + 1 \in Int /\ b \in Int
    BY <1>1
  <2>2. Cardinality((a + 1)..b) = IF a + 1 > b THEN 0 ELSE b - (a + 1) + 1
    BY <2>1, FS_Interval
  <2>3. IF a + 1 > b THEN b - a = 0 ELSE b - (a + 1) + 1 = b - a
    BY <1>1, <1>3
  <2>4. QED
    BY <2>1, <2>2, <2>3, FS_Interval
<1>5. IsFiniteSet(K) /\ Cardinality(K) <= b - a
  BY <1>2, <1>4, FS_Subset
<1>6. Cardinality(K) \in Nat
  BY <1>5, FS_CardinalityType
<1>7. last <= a => Cardinality(K) = 0
  <2>1. last <= a => K = {}
    BY <1>1, <1>2
  <2>2. QED
    BY <2>1, FS_EmptySet
<1>8. QED
  BY <1>2, <1>3, <1>5, <1>6, <1>7 DEF a

\* Up to any value, as many are kept as there are kept positions.
LEMMA Tiling ==
    ASSUME TypeOK, NEW first \in Nat, NEW last \in Nat, NEW n \in Nat
    PROVE  SumOf([d \in Durations |-> Kept(d, first, last)], Upto(n))
              = Cardinality(((first + 1)..last) \cap (1..Below(n)))
<1> DEFINE W == (first + 1)..last
           kept == [d \in Durations |-> Kept(d, first, last)]
           T == {k \in Nat : SumOf(kept, Upto(k)) = Cardinality(W \cap (1..Below(k)))}
<1>0. /\ \A d \in Durations : kept[d] \in Nat /\ kept[d] = Kept(d, first, last)
      /\ IsFiniteSet(W)
  <2>1. first + 1 \in Int /\ last \in Int
    OBVIOUS
  <2>2. QED
    BY <2>1, KeptType, FS_Interval
<1>a. \A d : Kept(d, first, last) = Cardinality(W \cap ((Below(d) + 1)..(Below(d) + durations[d])))
  BY DEF Kept
<1> HIDE DEF W, kept
<1>1. 0 \in T
  <2>1. Upto(0) = {}
    <3>1. \A d \in Durations : ~(d < 0)
      BY DurationsFinite
    <3>2. QED
      BY <3>1 DEF Upto
  <2>2. Below(0) = 0
    BY <2>1, BelowIs, SumEmpty
  <2>3. W \cap (1..Below(0)) = {}
    BY <2>2
  <2>4. QED
    BY <2>1, <2>3, SumEmpty, FS_EmptySet
<1>2. ASSUME NEW k \in T PROVE k + 1 \in T
  <2>1. k \in Nat /\ k + 1 \in Nat /\ SumOf(kept, Upto(k)) = Cardinality(W \cap (1..Below(k)))
    OBVIOUS
  <2>2. CASE k \notin Durations
    BY <2>1, <2>2, BelowNext
  <2>3. CASE k \in Durations
    <3> DEFINE a == Below(k)
               b == Below(k + 1)
               A == W \cap (1..a)
               B == W \cap ((a + 1)..b)
    <3>1. a \in Nat /\ b \in Nat /\ a <= b /\ b = a + durations[k]
      <4>1. a \in Nat /\ durations[k] \in Nat
        BY <2>3, BelowIs DEF TypeOK
      <4>2. b = a + durations[k]
        BY <2>1, <2>3, BelowNext
      <4>3. QED
        BY <4>1, <4>2
    <3>2. SumOf(kept, Upto(k + 1)) = kept[k] + SumOf(kept, Upto(k))
      <4>1. Upto(k + 1) = Upto(k) \cup {k} /\ k \notin Upto(k)
        BY <2>1, <2>3, BelowNext
      <4>2. IsFiniteSet(Durations) /\ Upto(k) \in SUBSET Durations
        BY DurationsFinite
      <4>3. \A x \in Durations : x \notin Upto(k) =>
                SumOf(kept, Upto(k) \cup {x}) = kept[x] + SumOf(kept, Upto(k))
        BY <1>0, <4>2, SumAdds
      <4>4. QED
        BY <2>3, <4>1, <4>3
    <3>3. kept[k] = Cardinality(B)
      BY <1>0, <1>a, <2>3, <3>1
    <3> HIDE DEF a, b
    <3>4. A \cup B = W \cap (1..b) /\ A \cap B = {}
      BY <3>1
    <3>5. IsFiniteSet(A) /\ IsFiniteSet(B)
      BY <1>0, FS_Subset
    <3> HIDE DEF A, B
    <3>6. Cardinality(A \cup B) = Cardinality(A) + Cardinality(B) - Cardinality(A \cap B)
      BY <3>5, FS_Union
    <3>7. Cardinality(A \cap B) = 0 /\ Cardinality(A) \in Nat /\ Cardinality(B) \in Nat
      BY <3>4, <3>5, FS_EmptySet, FS_CardinalityType
    <3>8. SumOf(kept, Upto(k)) = Cardinality(A)
      BY <2>1 DEF A, a
    <3>9. SumOf(kept, Upto(k + 1)) = Cardinality(W \cap (1..b))
      <4>1. Cardinality(A \cup B) = Cardinality(B) + Cardinality(A)
        BY <3>6, <3>7
      <4>2. SumOf(kept, Upto(k + 1)) = Cardinality(B) + Cardinality(A)
        BY <3>2, <3>3, <3>8
      <4>3. QED
        BY <3>4, <4>1, <4>2
    <3>10. QED
      BY <2>1, <3>9 DEF b
  <2>4. QED
    BY <2>2, <2>3
<1>3. T \in SUBSET Nat
  OBVIOUS
<1> HIDE DEF T
<1>4. n \in T
  BY <1>1, <1>2, <1>3, Induction
<1>5. QED
  BY <1>4 DEF T, kept, W

LEMMA KeptAll ==
    ASSUME TypeOK, Counted, NEW first \in Nat, NEW last \in Nat, first <= last, last <= iters
    PROVE  SumOf([d \in Durations |-> Kept(d, first, last)], Durations) = last - first
<1>1. PICK b \in Nat : Upto(b) = Durations /\ Below(b) = SumOf(Counts, Durations)
  BY AllBelow
<1>2. Below(b) = iters /\ iters \in Nat
  BY <1>1 DEF Counted, TypeOK
<1>3. ((first + 1)..last) \cap (1..Below(b)) = (first + 1)..last
  BY <1>2
<1>4. Cardinality((first + 1)..last) = last - first
  <2>1. first + 1 \in Int /\ last \in Int
    OBVIOUS
  <2>2. Cardinality((first + 1)..last) = IF first + 1 > last THEN 0 ELSE last - (first + 1) + 1
    BY <2>1, FS_Interval
  <2>3. IF first + 1 > last THEN last - first = 0 ELSE last - (first + 1) + 1 = last - first
    OBVIOUS
  <2>4. QED
    BY <2>2, <2>3
<1>5. QED
  BY <1>1, <1>3, <1>4, Tiling

\* What the mean is of, and between what it lies.
Between ==
    total < IntRange \div 2 =>
        \A d \in Durations :
            /\ Below(d) = 0 => mean[1] >= d * mean[2]
            /\ Below(d) + durations[d] >= iters - 1 => mean[1] <= d * mean[2]

LEMMA Products ==
    /\ \A a, b \in Nat : a * b \in Nat /\ a * 0 = 0
    /\ \A a, b, c \in Nat : b <= c => a * b <= a * c /\ b * a <= c * a
<1>1. \A a, b \in Nat : a * b \in Nat /\ a * 0 = 0
  OBVIOUS
<1>2. ASSUME NEW a \in Nat, NEW b \in Nat, NEW c \in Nat, b <= c
      PROVE  a * b <= a * c /\ b * a <= c * a
  <2>1. PICK k \in Nat : c = b + k
    <3>1. c - b \in Nat /\ c = b + (c - b)
      BY <1>2
    <3>2. QED
      BY <3>1
  <2>2. a * (b + k) = a * b + a * k /\ (b + k) * a = b * a + k * a
    OBVIOUS
  <2>3. a * b \in Nat /\ a * k \in Nat /\ b * a \in Nat /\ k * a \in Nat
    OBVIOUS
  <2>4. QED
    BY <2>1, <2>2, <2>3
<1>3. QED
  BY <1>1, <1>2

LEMMA WrapFits ==
    ASSUME NEW x \in Nat, x < IntRange \div 2
    PROVE  Wrap(x) = x
<1>1. IntRange \in Nat /\ IntRange > 0
  BY ModelBenchmarkAssumption
<1> DEFINE h == IntRange \div 2
<1>2. h \in Nat /\ 2 * h <= IntRange
  BY <1>1
<1>3. x < h
  OBVIOUS
<1>4. Wrap(x) = ((x + h) % IntRange) - h
  BY DEF Wrap
<1> HIDE DEF h
<1>5. x + h \in 0..(IntRange - 1)
  BY <1>1, <1>2, <1>3
<1>6. (x + h) % IntRange = x + h
  BY <1>1, <1>5
<1>7. QED
  BY <1>2, <1>4, <1>6

LEMMA MeanLies ==
    ASSUME TypeOK, Counted, iters > 1, total < IntRange \div 2,
           NEW valid, valid = ValidIters(iters), NEW start, start = StartIter(iters),
           NEW d \in Durations
    PROVE  /\ Below(d) = 0 => Wrap(KeptSum(start, start + valid)) >= d * valid
           /\ Below(d) + durations[d] >= iters - 1 => Wrap(KeptSum(start, start + valid)) <= d * valid
<1> DEFINE last == start + valid
           kept == [e \in Durations |-> Kept(e, start, last)]
           share == [e \in Durations |-> e * Kept(e, start, last)]
<1>1. valid \in Nat /\ start \in Nat /\ last \in Nat /\ last < iters /\ start <= last
      /\ last - start = valid /\ iters \in Nat
  <2>1. iters \in Nat
    BY DEF TypeOK
  <2>2. valid \in 1..iters /\ start \in 0..iters /\ start + valid < iters
    BY <2>1, WindowTheorem
  <2>3. QED
    BY <2>1, <2>2
<1>2. KeptSum(start, last) = SumOf(share, Durations)
  BY Zenon DEF KeptSum, SumOf
<1>3. \A e \in Durations : kept[e] = Kept(e, start, last) /\ share[e] = e * kept[e]
  OBVIOUS
<1> HIDE DEF last
<1>4. \A e \in Durations :
         /\ e \in Nat /\ kept[e] \in Nat /\ share[e] \in Nat
         /\ durations[e] \in Nat /\ kept[e] <= durations[e]
  <2>1. \A e \in Durations : e \in Nat /\ durations[e] \in Nat
    BY DurationsFinite DEF TypeOK
  <2>2. \A e \in Durations : kept[e] \in Nat /\ kept[e] <= durations[e]
    BY <1>1, <1>3, KeptType
  <2>3. QED
    BY <1>3, <2>1, <2>2, Products
<1>5. SumOf(kept, Durations) = valid
  <2>1. last <= iters
    BY <1>1
  <2>2. SumOf(kept, Durations) = last - start
    BY <1>1, <2>1, KeptAll
  <2>3. QED
    BY <1>1, <2>2
<1> HIDE DEF kept, share
<1>6. SumOf(share, Durations) \in Nat
  BY <1>4, DurationsFinite, SumAdds
<1>7. SumOf(share, Durations) <= total
  <2>1. \A e \in Durations : Times[e] \in Nat /\ share[e] <= 1 * Times[e]
    <3>1. \A e \in Durations : Times[e] = e * durations[e]
      BY DEF Times
    <3>2. \A e \in Durations : Times[e] \in Nat /\ share[e] <= Times[e]
      BY <1>3, <1>4, <3>1, Products
    <3>3. QED
      BY <1>4, <3>2
  <2>2. SumOf(share, Durations) <= 1 * SumOf(Times, Durations)
    BY <1>4, <2>1, DurationsFinite, SumAtMost
  <2>3. total \in Nat /\ total = SumOf(Times, Durations)
    BY DEF TypeOK, Counted
  <2>4. QED
    BY <2>2, <2>3
<1>8. Wrap(KeptSum(start, last)) = SumOf(share, Durations)
  <2>1. total \in Nat /\ IntRange \div 2 \in Nat
    BY ModelBenchmarkAssumption DEF TypeOK
  <2>2. SumOf(share, Durations) < IntRange \div 2
    BY <1>6, <1>7, <2>1
  <2>3. QED
    BY <1>2, <1>6, <2>2, WrapFits
<1>9. d \in Nat
  BY DurationsFinite
<1>10. ASSUME Below(d) = 0 PROVE d * valid <= SumOf(share, Durations)
  <2>1. ASSUME NEW e \in Durations PROVE d * kept[e] <= share[e]
    <3>1. CASE e >= d
      BY <1>3, <1>4, <1>9, <3>1, Products
    <3>2. CASE e < d
      <4>1. e + 1 \in Nat /\ e + 1 <= d
        BY <1>4, <1>9, <3>2
      <4>2. Below(e + 1) <= Below(d) /\ Below(e + 1) = Below(e) + durations[e] /\ Below(e) \in Nat
        BY <1>4, <1>9, <4>1, BelowGrows, BelowNext, BelowIs
      <4>3. durations[e] = 0
        BY <1>4, <1>10, <4>2
      <4>4. kept[e] = 0
        BY <1>4, <4>3
      <4>5. QED
        BY <1>4, <1>9, <4>4, Products
    <3>3. QED
      BY <1>4, <1>9, <3>1, <3>2
  <2>2. d * SumOf(kept, Durations) <= SumOf(share, Durations)
    BY <1>4, <1>9, <2>1, DurationsFinite, SumAtLeast
  <2>3. QED
    BY <1>5, <2>2
<1>11. ASSUME Below(d) + durations[d] >= iters - 1 PROVE SumOf(share, Durations) <= d * valid
  <2>1. ASSUME NEW e \in Durations PROVE share[e] <= d * kept[e]
    <3>1. CASE e <= d
      BY <1>3, <1>4, <1>9, <3>1, Products
    <3>2. CASE e > d
      <4>1. d + 1 \in Nat /\ d + 1 <= e /\ e \in Nat
        BY <1>4, <1>9, <3>2
      <4>2. Below(d + 1) <= Below(e) /\ Below(d + 1) = Below(d) + durations[d]
            /\ Below(e) \in Nat /\ Below(d) \in Nat
        BY <1>4, <1>9, <4>1, BelowGrows, BelowNext, BelowIs
      <4>3. last <= Below(e)
        BY <1>1, <1>4, <1>11, <4>2
      <4>4. kept[e] = 0
        BY <1>1, <1>3, <4>3, KeptType
      <4>5. QED
        BY <1>3, <1>4, <1>9, <4>4, Products
    <3>3. QED
      BY <1>4, <1>9, <3>1, <3>2
  <2>2. SumOf(share, Durations) <= d * SumOf(kept, Durations)
    BY <1>4, <1>9, <2>1, DurationsFinite, SumAtMost
  <2>3. QED
    BY <1>5, <2>2
<1>12. QED
  <2>1. d * valid \in Nat
    BY <1>1, <1>9
  <2>2. QED
    BY <1>6, <1>8, <1>10, <1>11, <2>1 DEF last

LEMMA BelowSame ==
    ASSUME UNCHANGED durations
    PROVE  \A d : Below(d)' = Below(d)
BY Zenon DEF Below, MapThenSumSet, MapThenFoldSet

\* A run more that was measured.
LEMMA CountedMore ==
    ASSUME TypeOK, Counted, NEW d \in Durations,
           durations' = [durations EXCEPT ![d] = @ + 1],
           iters' = iters + 1, total' = total + d
    PROVE  Counted'
<1>1. d \in Nat /\ \A x \in Durations : x \in Nat /\ durations[x] \in Nat
  BY DurationsFinite DEF TypeOK
<1>2. \A x \in Durations : durations'[x] = IF x = d THEN durations[d] + 1 ELSE durations[x]
  BY DEF TypeOK
<1>3. SumOf(Counts', Durations) = SumOf(Counts, Durations) + 1
  <2>1. \A x \in Durations : Counts[x] \in Nat
    BY <1>1 DEF Counts
  <2>2. \A x \in Durations : Counts'[x] = IF x = d THEN Counts[d] + 1 ELSE Counts[x]
    BY <1>2 DEF Counts
  <2>3. 1 \in Nat
    OBVIOUS
  <2>4. QED
    BY <2>1, <2>2, <2>3, DurationsFinite, SumMore, ZenonT(40)
<1>4. SumOf(Times', Durations) = SumOf(Times, Durations) + d
  <2>1. \A x \in Durations : Times[x] \in Nat
    BY <1>1, Products DEF Times
  <2>2. d * (durations[d] + 1) = d * durations[d] + d
    BY <1>1
  <2>3. \A x \in Durations : Times'[x] = IF x = d THEN Times[d] + d ELSE Times[x]
    BY <1>2, <2>2 DEF Times
  <2>4. QED
    BY <1>1, <2>1, <2>3, DurationsFinite, SumMore
<1>5. QED
  BY <1>3, <1>4 DEF Counted

\* Until the timing ends the counts and the total are of the runs there were;
\* and what comes to the report with a success has been through all of it.
Timing == {"read", "create", "init", "prepare", "warmup", "timed", "images"}

Robust ==
    /\ warm = 2
    /\ iters >= KMinIters
    /\ total >= KMinTime \/ iters = KMaxIters
    /\ Between

RobustInv ==
    /\ pc \in Timing => Counted
    /\ pc = "timed" => warm = 2
    /\ pc = "images" => Precision
    /\ ~Precision /\ ((pc \in {"finish", "report"} /\ status = "SUCCESS") \/ line) => Robust

LEMMA InitRobust == Init => RobustInv
<1> SUFFICES ASSUME Init PROVE RobustInv
  OBVIOUS
<1>1. pc = "read" /\ line = FALSE
  BY DEF Init
<1>2. \A d \in Durations : Counts[d] \in Nat /\ Counts[d] = 0 /\ Times[d] \in Nat /\ Times[d] = 0
  <2>1. \A d \in Durations : durations[d] = 0
    BY DEF Init
  <2>2. QED
    BY <2>1, DurationsFinite, Products DEF Counts, Times
<1>3. SumOf(Counts, Durations) = 0 /\ SumOf(Times, Durations) = 0
  <2>1. /\ 0 \in Nat
        /\ \A d \in Durations : Counts[d] <= 0 * Counts[d] /\ Times[d] <= 0 * Times[d]
    BY <1>2
  <2>2. SumOf(Counts, Durations) <= 0 * SumOf(Counts, Durations)
    BY <1>2, <2>1, DurationsFinite, SumAtMost
  <2>3. SumOf(Times, Durations) <= 0 * SumOf(Times, Durations)
    BY <1>2, <2>1, DurationsFinite, SumAtMost
  <2>4. SumOf(Counts, Durations) \in Nat /\ SumOf(Times, Durations) \in Nat
    BY <1>2, DurationsFinite, SumAdds
  <2>5. QED
    BY <2>2, <2>3, <2>4
<1>4. Counted
  BY <1>3 DEF Init, Counted
<1>5. QED
  BY <1>1, <1>4 DEF RobustInv

\* A step that measures nothing and leads to no report.
LEMMA RobustSame ==
    ASSUME RobustInv, UNCHANGED <<args, iters, total, durations, mean, line>>,
           pc \in Timing \/ pc' \notin Timing,
           pc' = "timed" => warm' = 2,
           pc' = "images" => Precision,
           line => warm' = warm,
           ~Precision /\ pc' \in {"finish", "report"} /\ status' = "SUCCESS" =>
               /\ pc \in {"finish", "report"} /\ status = "SUCCESS"
               /\ warm' = warm
    PROVE  RobustInv'
<1>1. Precision' = Precision
  BY DEF Precision
<1>2. Counted => Counted'
  BY DEF Counted, Counts, Times
<1>3. Between => Between'
  <2>1. \A d : Below(d)' = Below(d)
    BY BelowSame
  <2>2. QED
    BY <2>1 DEF Between
<1>4. ASSUME warm' = warm, Robust PROVE Robust'
  BY <1>3, <1>4 DEF Robust
<1>5. ~Precision' /\ ((pc' \in {"finish", "report"} /\ status' = "SUCCESS") \/ line') => Robust'
  BY <1>1, <1>4 DEF RobustInv
<1>6. pc' \in Timing => Counted'
  BY <1>2 DEF RobustInv
<1>7. QED
  BY <1>1, <1>5, <1>6 DEF RobustInv

LEMMA RobustStep == TypeOK /\ DirectoryRead /\ LineInv /\ RobustInv /\ [Next]_vars => RobustInv'
<1> SUFFICES ASSUME TypeOK, DirectoryRead, LineInv, RobustInv, [Next]_vars PROVE RobustInv'
  OBVIOUS
<1> USE DEF run
<1>1. CASE Crash
  <2>1. pc' = "crashed" /\ pc' \notin Timing
    BY <1>1 DEF Crash, Goto, Timing
  <2>2. QED
    BY <1>1, <2>1, RobustSame DEF Crash
<1>2. CASE (ReadInfo \/ Create) /\ ~Crash
  <2>1. pc \in Timing /\ pc' \in {"create", "init"} /\ UNCHANGED <<args, run, line>>
    BY <1>2 DEF ReadInfo, Create, Goto, Timing
  <2>2. QED
    BY <2>1, RobustSame
<1>3. CASE InitExecutor /\ ~Crash
  <2>1. pc \in Timing /\ UNCHANGED <<args, run, line>>
        /\ (pc' = "prepare" \/ (pc' = "finish" /\ status' # "SUCCESS"))
    BY <1>3 DEF InitExecutor, Checked, Goto, Timing
  <2>2. QED
    BY <2>1, RobustSame
<1>4. CASE PrepareExecutor /\ ~Crash
  <2>1. pc \in Timing /\ UNCHANGED <<args, run, line>>
        /\ \/ pc' = (IF Precision THEN "images" ELSE "warmup")
           \/ pc' = "finish" /\ status' # "SUCCESS"
    BY <1>4 DEF PrepareExecutor, Checked, Goto, Timing
  <2>2. QED
    BY <2>1, RobustSame
<1>5. CASE Finish
  <2>1. pc = "finish" /\ pc' = "report" /\ UNCHANGED <<args, status, run, line>>
    BY <1>5 DEF Finish, Goto
  <2>2. QED
    BY <2>1, RobustSame DEF Timing
<1>6. CASE Report /\ ~Crash
  <2>1. pc = "report" /\ pc' = "exited" /\ line' = (status = "SUCCESS")
        /\ UNCHANGED <<args, status, run>>
    BY <1>6 DEF Report, Goto
  <2>2. Precision' = Precision /\ (Robust => Robust')
    <3>1. \A d : Below(d)' = Below(d)
      BY <2>1, BelowSame
    <3>2. QED
      BY <2>1, <3>1 DEF Precision, Robust, Between
  <2>3. QED
    BY <2>1, <2>2 DEF RobustInv, Timing
<1>7. CASE WarmUp /\ ~Crash
  <2>1. pc = "warmup" /\ UNCHANGED <<args, iters, total, durations, mean, line>>
        /\ \/ pc' = "timed" /\ warm' = 2
           \/ pc' = "finish" /\ status' # "SUCCESS"
           \/ pc' = "warmup"
    BY <1>7 DEF WarmUp, Checked, Goto
  <2>2. ~line
    BY <2>1 DEF LineInv, TypeOK
  <2>3. QED
    BY <2>1, <2>2, RobustSame DEF Timing
<1>8. CASE TimedRun /\ ~Crash
  <2>1. pc = "timed" /\ UNCHANGED <<args, warm, mean, line>>
    BY <1>8 DEF TimedRun
  <2>2. ~line /\ Counted /\ warm = 2
    BY <2>1 DEF LineInv, TypeOK, RobustInv, Timing
  <2>3. PICK d \in Durations :
          /\ durations' = [durations EXCEPT ![d] = @ + 1] /\ total' = total + d
          /\ \/ pc' = "finish" /\ status' # "SUCCESS"
             \/ pc' = pc /\ iters' = iters + 1
    BY <1>8 DEF TimedRun, Failed, Goto
  <2>4. CASE pc' = "finish" /\ status' # "SUCCESS"
    BY <2>1, <2>2, <2>4 DEF RobustInv, Timing
  <2>5. CASE pc' = pc /\ iters' = iters + 1
    <3>1. Counted'
      BY <2>2, <2>3, <2>5, CountedMore
    <3>2. QED
      BY <2>1, <2>2, <2>5, <3>1 DEF RobustInv
  <2>6. QED
    BY <2>3, <2>4, <2>5
<1>9. CASE EndTiming
  <2> DEFINE valid == ValidIters(iters)
             start == StartIter(iters)
  <2>1. pc = "timed" /\ ~MoreRuns /\ pc' = "finish"
        /\ mean' = <<Wrap(KeptSum(start, start + valid)), valid>>
        /\ UNCHANGED <<args, warm, iters, total, durations, line>>
    BY <1>9 DEF EndTiming, Goto
  <2>2. ~line /\ Counted /\ warm = 2
    BY <2>1 DEF LineInv, TypeOK, RobustInv, Timing
  <2>3. iters \in Nat /\ iters >= KMinIters /\ iters > 1 /\ (total >= KMinTime \/ iters = KMaxIters)
    <3>1. iters \in 0..KMaxIters /\ total \in Nat
      BY DEF TypeOK
    <3>2. ~(iters < KMinIters) /\ ~(total < KMinTime /\ iters < KMaxIters)
      BY <2>1 DEF MoreRuns
    <3>3. QED
      BY <3>1, <3>2, Constants
  <2>4. ASSUME total < IntRange \div 2, NEW d \in Durations
        PROVE  /\ Below(d) = 0 => mean'[1] >= d * mean'[2]
               /\ Below(d) + durations[d] >= iters - 1 => mean'[1] <= d * mean'[2]
    <3>1. mean'[1] = Wrap(KeptSum(start, start + valid)) /\ mean'[2] = valid
      BY <2>1
    <3> HIDE DEF valid, start
    <3>2. /\ Below(d) = 0 => Wrap(KeptSum(start, start + valid)) >= d * valid
          /\ Below(d) + durations[d] >= iters - 1 => Wrap(KeptSum(start, start + valid)) <= d * valid
      BY <2>2, <2>3, <2>4, MeanLies DEF valid, start
    <3>3. QED
      BY <3>1, <3>2
  <2>5. Between'
    <3>1. \A d : Below(d)' = Below(d)
      BY <2>1, BelowSame
    <3>2. QED
      BY <2>1, <2>4, <3>1 DEF Between
  <2>6. Robust'
    BY <2>1, <2>2, <2>3, <2>5 DEF Robust
  <2>7. QED
    BY <2>1, <2>6 DEF RobustInv, Timing
<1>10. CASE Image /\ ~Crash
  <2>1. pc = "images" /\ UNCHANGED <<args, pc, status, run, line>>
    BY <1>10 DEF Image
  <2>2. QED
    BY <2>1, RobustSame DEF RobustInv
<1>11. CASE EndImages
  <2>1. pc = "images" /\ pc' = "finish" /\ UNCHANGED <<args, status, run, line>>
    BY <1>11 DEF EndImages, Goto
  <2>2. QED
    BY <2>1, RobustSame DEF RobustInv, Timing
<1>12. CASE UNCHANGED vars
  <2>1. UNCHANGED <<args, pc, status, run, line>>
    BY <1>12 DEF vars
  <2>2. QED
    BY <2>1, RobustSame DEF RobustInv
<1>13. QED
  BY <1>1, <1>2, <1>3, <1>4, <1>5, <1>6, <1>7, <1>8, <1>9, <1>10, <1>11, <1>12 DEF Next

\* For any limits on the runs and any durations: a time is reported after both
\* warm-up runs and enough timed ones, and, as long as the sum fits an int, the
\* mean is no less than the fastest and no more than the second slowest of them.
\* The runs before and behind the kept ones are left out by their position in
\* the sorted durations (benchmark.cc:172-197).
THEOREM RobustTheorem == Spec => []MeanIsRobust
<1>1. RobustInv => MeanIsRobust
  BY DEF RobustInv, Robust, Between, MeanIsRobust
<1>2. Init => DirectoryRead /\ LineInv
  BY DEF Init, DirectoryRead, LineInv
<1>3. QED
  BY <1>1, <1>2, InitRobust, RobustStep, TypeInit, TypeStep, DirectoryStep, LineStep, PTL DEF Spec

-----------------------------------------------------------------------------
(***************************************************************************)
(* How long a process can go on.                                           *)
(***************************************************************************)

\* The most steps that are left to a process.
StepsLeft ==
    CASE pc = "read"    -> KMaxIters + MaxEntries + 9
      [] pc = "create"  -> KMaxIters + MaxEntries + 8
      [] pc = "init"    -> KMaxIters + MaxEntries + 7
      [] pc = "prepare" -> KMaxIters + MaxEntries + 6
      [] pc = "warmup"  -> KMaxIters + (IF warm = 1 THEN 4 ELSE 5)
      [] pc = "timed"   -> KMaxIters - iters + 3
      [] pc = "images"  -> left + 3
      [] pc = "finish"  -> 2
      [] pc = "report"  -> 1
      [] OTHER          -> 0

LEMMA StepsAreNat == TypeOK => StepsLeft \in 0..(KMaxIters + MaxEntries + 9)
<1> SUFFICES ASSUME TypeOK PROVE StepsLeft \in 0..(KMaxIters + MaxEntries + 9)
  OBVIOUS
<1>1. /\ KMaxIters \in Nat /\ MaxEntries \in Nat
      /\ iters \in Nat /\ iters <= KMaxIters
      /\ left \in Nat /\ left <= MaxEntries
  BY Constants DEF TypeOK
<1>2. QED
  BY <1>1 DEF StepsLeft

LEMMA StepsFewer == TypeOK /\ Next => StepsLeft' < StepsLeft
<1> SUFFICES ASSUME TypeOK, Next PROVE StepsLeft' < StepsLeft
  OBVIOUS
<1>1. /\ KMaxIters \in Nat /\ MaxEntries \in Nat
      /\ iters \in Nat /\ iters <= KMaxIters
      /\ left \in Nat /\ left <= MaxEntries
  BY Constants DEF TypeOK
<1>2. ASSUME pc' = "crashed", pc \in Pc \ {"exited", "crashed"} PROVE StepsLeft' < StepsLeft
  <2>1. StepsLeft' = 0 /\ StepsLeft > 0
    BY <1>1, <1>2 DEF StepsLeft, Pc
  <2>2. QED
    BY <2>1
<1>3. CASE ReadInfo \/ Create
  BY <1>1, <1>2, <1>3 DEF ReadInfo, Create, Crash, Goto, StepsLeft, Pc
<1>4. CASE InitExecutor
  <2>1. pc = "init" /\ pc' \in {"prepare", "finish", "crashed"}
    BY <1>4 DEF InitExecutor, Checked, Crash, Goto
  <2>2. QED
    BY <1>1, <2>1 DEF StepsLeft
<1>5. CASE PrepareExecutor
  <2>1. /\ pc = "prepare"
        /\ pc' \in {"images", "warmup", "finish", "crashed"}
        /\ left' = left
    BY <1>5 DEF PrepareExecutor, Checked, Crash, Goto, images
  <2>2. QED
    BY <1>1, <2>1 DEF StepsLeft
<1>6. CASE Finish \/ Report \/ EndTiming \/ EndImages
  <2>1. \/ pc = "finish" /\ pc' = "report"
        \/ pc = "report" /\ pc' \in {"exited", "crashed"}
        \/ pc \in {"timed", "images"} /\ pc' = "finish"
    BY <1>6 DEF Finish, Report, EndTiming, EndImages, Crash, Goto
  <2>2. QED
    BY <1>1, <2>1 DEF StepsLeft
<1>7. CASE WarmUp
  <2>1. /\ pc = "warmup" /\ iters' = iters
        /\ \/ warm # 1 /\ pc' = "warmup" /\ warm' = 1
           \/ warm = 1 /\ pc' \in {"timed", "finish"}
           \/ pc' = "crashed"
    BY <1>7 DEF WarmUp, WarmedUp, Checked, Crash, Goto, run
  <2>2. QED
    BY <1>1, <2>1 DEF StepsLeft
<1>8. CASE TimedRun
  <2>1. iters < KMaxIters
    BY <1>1, <1>8, Constants DEF TimedRun, MoreRuns
  <2>2. /\ pc = "timed"
        /\ pc' \in {"finish", "crashed"} \/ (pc' = "timed" /\ iters' = iters + 1)
    BY <1>8 DEF TimedRun, Crash, Goto
  <2>3. QED
    BY <1>1, <2>1, <2>2 DEF StepsLeft
<1>9. CASE Image
  <2>1. /\ pc = "images" /\ left > 0
        /\ pc' = "crashed" \/ (pc' = "images" /\ left' = left - 1)
    BY <1>9 DEF Image, Crash, Goto
  <2>2. QED
    BY <1>1, <2>1 DEF StepsLeft
<1>10. QED
  BY <1>3, <1>4, <1>5, <1>6, <1>7, <1>8, <1>9 DEF Next

\* Every step of a process, whatever its calls return, leaves it fewer steps
\* than before, and there are at most KMaxIters + MaxEntries + 9 of them: no
\* loop of the program goes on for ever, for any limits and any directory.
THEOREM StepsTheorem ==
    Spec => [][StepsLeft' < StepsLeft /\ StepsLeft \in 0..(KMaxIters + MaxEntries + 9)]_vars
<1>1. TypeOK /\ [Next]_vars =>
          [StepsLeft' < StepsLeft /\ StepsLeft \in 0..(KMaxIters + MaxEntries + 9)]_vars
  BY StepsAreNat, StepsFewer
<1>2. QED
  BY <1>1, TypeInit, TypeStep, PTL DEF Spec

=============================================================================
