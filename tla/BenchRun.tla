------------------------------ MODULE BenchRun ------------------------------
(***************************************************************************)
(* One device shared by the pipelines of several runs of benchmark.py.     *)
(*                                                                         *)
(* A pipeline walks over its executors (benchmark.run_on_device); for each *)
(* it builds model_benchmark and calls bench_engine.bench_run, which walks *)
(* over the benchmark list in windows: take the file lock of the device,   *)
(* set the device up, run models until max_time_per_lock is used up, pull  *)
(* result.txt, append it to the result file, release the lock, sleep.      *)
(* model_benchmark itself is one step: it appends one line to result.txt   *)
(* or fails without telling (its exit code is 0 either way), or the        *)
(* command that runs it raises and the worker leaves through sys.exit.     *)
(*                                                                         *)
(* A results file is a sequence of lines.  result.txt is created by its    *)
(* first line, so on the device <<>> is the absent file; a copy on the     *)
(* host may exist and be empty.  Time is counted in the unit of the        *)
(* constants and advances only while the holder of the lock is busy on the *)
(* device: the other steps take seconds.                                   *)
(*                                                                         *)
(* An operator named X_Y is a wrong form of the operator X that follows    *)
(* it.  Nothing uses it: it shows what a property would catch.             *)
(***************************************************************************)
EXTENDS Transfer

CONSTANTS
    Pipelines,       \* the runs of benchmark.py that use this device
    NoOne,           \* holder of a free lock
    ExecutorType,    \* MACE, TFLITE, ... (base.proto)
    DeviceType,      \* CPU, GPU, ... (base.proto)
    Executors,       \* per pipeline, the executors it goes through, in order
    BenchmarkList,   \* per pipeline, the list made by prepare_all_models
    Supports,        \* the <<executor, device type>> pairs the device can run
    Transport,       \* "adb" or "ssh", how the device is reached
    MaxTimePerLock,  \* --max_time_per_lock
    LockTimeout,     \* the timeout of the file lock
    RunInterval,     \* --run_interval, the sleep after a window
    SetupTime,       \* the longest time the device takes to be set up
    ItemTime,        \* the longest time a run of model_benchmark takes
    MayRaise,        \* commands on the host or the device may raise
    MayLosePull,     \* copying result.txt to the host may fail
    MayOrphan,       \* model_benchmark may outlive the command that started it
    EarlierFile      \* output_dir may hold the copy made by an earlier run

ASSUME BenchRunAssumption ==
    /\ NoOne \notin Pipelines
    /\ Executors \in [Pipelines -> Seq(ExecutorType) \ {<<>>}]
    /\ BenchmarkList \in
          [Pipelines -> Seq([executor : ExecutorType, device : DeviceType])]
    /\ Transport \in {"adb", "ssh"}
    /\ {MaxTimePerLock, LockTimeout, RunInterval, SetupTime, ItemTime} \subseteq Nat
    /\ {MayRaise, MayLosePull, MayOrphan, EarlierFile} \subseteq BOOLEAN

VARIABLES
    pc,        \* per pipeline, where its worker is
    ex,        \* per pipeline, the executor it is at (index)
    i,         \* per pipeline, the next item of the list (index)
    holder,    \* the pipeline that holds the device lock, or NoOne
    waited,    \* per pipeline, the time since it began to wait for the lock
    held,      \* time since the holder's start_time
    elapse,    \* elapse_minutes of the holder
    spent,     \* time since the holder's current command began
    env,       \* whose libraries and binary are on the device: <<pipeline, executor>>
    result,    \* result.txt on the device
    tmp,       \* per pipeline, output_dir/<address>_result.txt
    copies,    \* the pipelines that have such a file
    dest,      \* per pipeline, its result file
    orphans,   \* lines of runs whose worker is gone, still running on the device
    \* the variables below only observe
    logged,    \* per pipeline, the lines its runs wrote, in order
    unpulled   \* the pipelines one of whose pulls failed

worker  == <<pc, ex, i>>
clocks  == <<waited, held, elapse, spent>>
files   == <<env, result, tmp, copies, dest, orphans>>
history == <<logged, unpulled>>
vars    == <<worker, holder, clocks, files, history>>

-----------------------------------------------------------------------------

\* A line of a results file stands for the run it came from: pipeline,
\* executor and item.
Line == UNION {[p : {p}, e : 0..Len(Executors[p]), i : 0..Len(BenchmarkList[p]),
                whole : BOOLEAN] : p \in Pipelines}

\* The line of the item a pipeline took last.
Current(p) == [p |-> p, e |-> ex[p], i |-> i[p] - 1, whole |-> TRUE]

\* A line left in the host's copy by an earlier run in the same output_dir.
Earlier(p) == [p |-> p, e |-> 0, i |-> 0, whole |-> TRUE]

PcInLock == {"setup", "run", "exec", "pull", "append"}
PcFree   == {"build", "lock", "sleep", "done", "dead"}

Alive(p) == pc[p] \notin {"done", "dead"}
Dead     == {p \in Pipelines : pc[p] = "dead"}

More(p) == i[p] <= Len(BenchmarkList[p])

LastExecutor_OffByOne(p) == ex[p] = Len(Executors[p]) + 1
LastExecutor(p) == ex[p] = Len(Executors[p])

LockFree_NeverAsked == TRUE
LockFree == holder = NoOne

\* elapse_minutes, computed from start_time when a model has finished.
Elapsed_SinceCommand == spent
Elapsed == held

InTime == elapse < MaxTimePerLock

\* Item k of p's list is for the executor p is at, on a device type it has.
Matches(p, k) ==
    LET item == BenchmarkList[p][k]
    IN  /\ item.executor = Executors[p][ex[p]]
        /\ <<item.executor, item.device>> \in Supports

Waiters == {p \in Pipelines : pc[p] = "lock"}

\* A waiter polls the lock twenty times a second, so it has a free lock before
\* a sleeper of whole seconds is up.
SleepOver_NoSleep == TRUE
SleepOver == RunInterval > 0 /\ LockFree => Waiters = {}

\* rm -rf result.txt
Cleared_Kept(file) == file
Cleared(file) == <<>>

\* open(dest_path, "a")
Extended_Overwritten(file, copy) == copy
Extended(file, copy) == file \o copy

\* SshDevice.pull removes the old copy first; adb_pull leaves that to adb, which
\* removes or overwrites it only once there is something to transfer.
OldCopyStays_Always == TRUE
OldCopyStays == Transport = "adb"

NextItem_Same(p) == i' = i
NextItem(p) == i' = [i EXCEPT ![p] = @ + 1]

Goto(p, l) == pc' = [pc EXCEPT ![p] = l]

Init ==
    /\ pc = [p \in Pipelines |-> "build"]
    /\ ex = [p \in Pipelines |-> 1]
    /\ i = [p \in Pipelines |-> 1]
    /\ holder = NoOne
    /\ waited = [p \in Pipelines |-> 0]
    /\ held = 0 /\ elapse = 0 /\ spent = 0
    /\ env = <<NoOne, 0>>
    /\ result = <<>>
    /\ copies \in IF EarlierFile THEN SUBSET Pipelines ELSE {{}}
    /\ tmp = [p \in Pipelines |-> IF p \in copies THEN <<Earlier(p)>> ELSE <<>>]
    /\ dest = [p \in Pipelines |-> <<>>]
    /\ orphans = {}
    /\ logged = [p \in Pipelines |-> <<>>]
    /\ unpulled = {}

-----------------------------------------------------------------------------
(***************************************************************************)
(* Outside the lock.                                                       *)
(***************************************************************************)

\* The head of the while loop of bench_run, and what follows its end: the
\* next executor of run_on_device, or the end of the worker.
NextWindow(p) ==
    \/ /\ More(p)
       /\ Goto(p, "lock")
       /\ waited' = [waited EXCEPT ![p] = 0]
       /\ UNCHANGED <<ex, i>>
    \/ /\ ~More(p)
       /\ ~LastExecutor(p)
       /\ Goto(p, "build")
       /\ ex' = [ex EXCEPT ![p] = @ + 1]
       /\ i' = [i EXCEPT ![p] = 1]
       /\ UNCHANGED waited
    \/ /\ ~More(p)
       /\ LastExecutor(p)
       /\ Goto(p, "done")
       /\ UNCHANGED <<ex, i, waited>>

\* bazel_build for the executor, and the call of bench_run.
Build(p) ==
    /\ pc[p] = "build"
    /\ NextWindow(p)
    /\ UNCHANGED <<holder, held, elapse, spent, files, history>>

\* The end of time.sleep(run_interval).
Wake(p) ==
    /\ pc[p] = "sleep"
    /\ SleepOver
    /\ NextWindow(p)
    /\ UNCHANGED <<holder, held, elapse, spent, files, history>>

\* "with device_lock": one of the waiters has the lock, no matter which.
Acquire(p) ==
    /\ pc[p] = "lock"
    /\ LockFree
    /\ holder' = p
    /\ held' = 0 /\ spent' = 0
    /\ Goto(p, "setup")
    /\ UNCHANGED <<ex, i, waited, elapse, files, history>>

\* A poll of a lock that is taken, after the timeout: filelock.Timeout leaves
\* bench_run and ends the worker.
Timeout(p) ==
    /\ pc[p] = "lock"
    /\ holder # NoOne
    /\ waited[p] > LockTimeout
    /\ Goto(p, "dead")
    /\ UNCHANGED <<ex, i, holder, clocks, files, history>>

-----------------------------------------------------------------------------
(***************************************************************************)
(* Under the lock.                                                         *)
(***************************************************************************)

\* result.txt is removed, libraries and binary are pushed, elapse_minutes = 0.
Setup(p) ==
    /\ pc[p] = "setup"
    /\ result' = Cleared(result)
    /\ env' = <<p, ex[p]>>
    /\ elapse' = 0
    /\ Goto(p, "run")
    /\ UNCHANGED <<ex, i, holder, waited, held, spent, tmp, copies, dest, orphans, history>>

\* An item of another executor, or for a device type it cannot have.
Skip_SameItem(p) ==
    /\ pc[p] = "run"
    /\ InTime /\ More(p)
    /\ ~Matches(p, i[p])
    /\ UNCHANGED vars

Skip(p) ==
    /\ pc[p] = "run"
    /\ InTime /\ More(p)
    /\ ~Matches(p, i[p])
    /\ NextItem(p)
    /\ UNCHANGED <<pc, ex, holder, clocks, files, history>>

StartModel(p) ==
    /\ pc[p] = "run"
    /\ InTime /\ More(p)
    /\ Matches(p, i[p])
    /\ NextItem(p)
    /\ spent' = 0
    /\ Goto(p, "exec")
    /\ UNCHANGED <<ex, holder, waited, held, elapse, files, history>>

\* model_benchmark has exited with 0: it logged its line, or its benchmark
\* failed and it logged none.
FinishModel(p) ==
    /\ pc[p] = "exec"
    /\ elapse' = Elapsed
    /\ Goto(p, "run")
    /\ \/ /\ result' = Append(result, Current(p))
          /\ logged' = [logged EXCEPT ![p] = Append(@, Current(p))]
       \/ UNCHANGED <<result, logged>>
    /\ UNCHANGED <<ex, i, holder, waited, held, spent, env, tmp, copies, dest, orphans, unpulled>>

EndWindow(p) ==
    /\ pc[p] = "run"
    /\ ~(InTime /\ More(p))
    /\ Goto(p, "pull")
    /\ UNCHANGED <<ex, i, holder, clocks, files, history>>

\* A copy with these lines is made.
Copy(p, lines) ==
    /\ tmp' = [tmp EXCEPT ![p] = lines]
    /\ copies' = copies \cup {p}

\* A transfer that fails leaves no copy, or a piece of the file, or what was
\* there before.
PullFails(p) ==
    \/ tmp' = [tmp EXCEPT ![p] = <<>>] /\ copies' = copies \ {p}
    \/ result # <<>> /\ \E piece \in Pieces(result) : Copy(p, piece)
    \/ OldCopyStays /\ UNCHANGED <<tmp, copies>>

\* device.pull: adb_pull and SshDevice.pull both swallow a failure, which is
\* certain when no line was logged.
Pull(p) ==
    /\ pc[p] = "pull"
    /\ \/ /\ result # <<>>
          /\ Copy(p, result)
          /\ UNCHANGED unpulled
       \/ /\ result = <<>> \/ MayLosePull
          /\ PullFails(p)
          /\ unpulled' = unpulled \cup {p}
    /\ Goto(p, "append")
    /\ UNCHANGED <<ex, i, holder, clocks, env, result, dest, orphans, logged>>

\* The copy, whatever is in it, is appended to the result file, and the lock is
\* released.
Publish(p) ==
    /\ pc[p] = "append"
    /\ p \in copies
    /\ dest' = [dest EXCEPT ![p] = Extended(@, tmp[p])]
    /\ holder' = NoOne
    /\ Goto(p, "sleep")
    /\ UNCHANGED <<ex, i, clocks, env, result, tmp, copies, orphans, history>>

\* There is no copy to open.
PublishRaises(p) ==
    /\ pc[p] = "append"
    /\ p \notin copies
    /\ holder' = NoOne
    /\ Goto(p, "dead")
    /\ UNCHANGED <<ex, i, clocks, files, history>>

-----------------------------------------------------------------------------
(***************************************************************************)
(* Failures, and time.                                                     *)
(***************************************************************************)

\* A command on the host or the device raises, and sys.exit or the exception
\* ends the worker; or its process is killed.  The lock goes with it, but
\* model_benchmark may go on.
Raise(p) ==
    /\ MayRaise /\ Alive(p)
    /\ Goto(p, "dead")
    /\ holder' = IF holder = p THEN NoOne ELSE holder
    /\ \/ UNCHANGED orphans
       \/ MayOrphan /\ pc[p] = "exec" /\ orphans' = orphans \cup {Current(p)}
    /\ UNCHANGED <<ex, i, clocks, env, result, tmp, copies, dest, history>>

\* A run nobody waits for ends, with or without a line.
OrphanEnds ==
    \E l \in orphans :
        /\ orphans' = orphans \ {l}
        /\ result' \in {result, Append(result, l)}
        /\ UNCHANGED <<worker, holder, clocks, env, tmp, copies, dest, history>>

\* Time passes while the holder's command runs, up to the command's limit; a
\* waiter that is past its timeout has noticed by then.
Tick ==
    /\ holder # NoOne
    /\ \/ pc[holder] = "setup" /\ spent < SetupTime
       \/ pc[holder] = "exec" /\ spent < ItemTime
    /\ \A p \in Waiters : waited[p] <= LockTimeout
    /\ held' = held + 1
    /\ spent' = spent + 1
    /\ waited' = [p \in Pipelines |-> IF p \in Waiters THEN waited[p] + 1 ELSE waited[p]]
    /\ UNCHANGED <<worker, holder, elapse, files, history>>

Work(p) ==
    \/ Build(p) \/ Wake(p) \/ Acquire(p) \/ Timeout(p)
    \/ Setup(p) \/ Skip(p) \/ StartModel(p) \/ FinishModel(p) \/ EndWindow(p)
    \/ Pull(p) \/ Publish(p) \/ PublishRaises(p)

Next ==
    \/ \E p \in Pipelines : Work(p) \/ Raise(p)
    \/ OrphanEnds
    \/ Tick

\* Each worker runs on its own, and model_benchmark, whose loops are bounded,
\* comes to an end.
Fairness == \A p \in Pipelines : WF_vars(Work(p))

Spec == Init /\ [][Next]_vars /\ Fairness

-----------------------------------------------------------------------------
(***************************************************************************)
(* Properties.                                                             *)
(***************************************************************************)

WorkerTypeOK ==
    /\ pc \in [Pipelines -> PcInLock \cup PcFree]
    /\ ex \in [Pipelines -> Nat]
    /\ i \in [Pipelines -> Nat]
    /\ \A p \in Pipelines : ex[p] \in 1..Len(Executors[p])
    /\ \A p \in Pipelines : i[p] \in 1..(Len(BenchmarkList[p]) + 1)
    /\ holder \in Pipelines \cup {NoOne}

ClockTypeOK ==
    /\ waited \in [Pipelines -> Nat]
    /\ held \in Nat
    /\ elapse \in Nat
    /\ spent \in Nat

FileTypeOK ==
    /\ env \in (Pipelines \cup {NoOne}) \X Nat
    /\ result \in Seq(Line)
    /\ tmp \in [Pipelines -> Seq(Line)]
    /\ copies \subseteq Pipelines
    /\ dest \in [Pipelines -> Seq(Line)]
    /\ orphans \subseteq Line
    /\ logged \in [Pipelines -> Seq(Line)]
    /\ unpulled \subseteq Pipelines

\* The types, with the bounds that matter: no worker reads past the end of its
\* executors (benchmark.py:258) or of its benchmark list (line 480).
TypeOK == WorkerTypeOK /\ ClockTypeOK /\ FileTypeOK

\* The lock is held by exactly the worker that is inside the with statement
\* of bench_run, whichever way the others left it, and a model runs with the
\* libraries and the binary its own pipeline pushed for its own executor
\* (lines 432-464).
DeviceIsMine ==
    \A p \in Pipelines :
        /\ pc[p] \in PcInLock <=> holder = p
        /\ pc[p] \in {"run", "exec"} => env = <<p, ex[p]>>

\* All or the beginning of a line that p's model_benchmark wrote; or one the
\* earlier run left; or one of the very run during which the worker of another
\* pipeline ended.
MayReport(p, l) ==
    \/ \E k \in 1..Len(logged[p]) : logged[p][k] = Whole(l)
    \/ EarlierFile /\ Whole(l) = Earlier(p)
    \/ MayOrphan /\ pc[l.p] = "dead" /\ Whole(l) = Current(l.p)

\* result.txt on the device is shared by all pipelines; what a pipeline
\* appends to its result file (lines 516-520) is all the same its own, or the
\* work of a model_benchmark that outlived its worker.
OwnResultsOnly ==
    \A p \in Pipelines : \A k \in 1..Len(dest[p]) : MayReport(p, dest[p][k])

\* Outside its windows, a pipeline whose pulls all succeeded has in its result
\* file every line its runs logged, once and in order, and nothing else: not
\* the copy of a window before, of an earlier run or of another executor
\* (lines 452-454 and 516-520).
LedgerExact ==
    ~MayOrphan => \A p \in Pipelines :
        pc[p] \in PcFree \ {"dead"} /\ p \notin unpulled => dest[p] = logged[p]

Before(l, m) == l.e < m.e \/ (l.e = m.e /\ l.i < m.i)

InOrder(file) ==
    \A k \in 1..Len(file) : \A j \in 1..(k - 1) : Before(file[j], file[k])

\* No run is logged twice, however the windows cut the list into pieces.
LoggedOnce == \A p \in Pipelines : InOrder(logged[p])

\* Over ssh a result file has no run twice and all in their order, whichever
\* pulls fail and whatever they leave behind (ssh_device.py:55-68): a copy is
\* never appended again in a later window.
ReportedOnce ==
    Transport = "ssh" /\ ~MayOrphan => \A p \in Pipelines : InOrder(dest[p])

\* The longest time a window can take: a model is started only before
\* max_time_per_lock is over, except for the first one, which is started
\* right after the setup (lines 477-479 and 514).
LastStart == IF SetupTime < MaxTimePerLock THEN MaxTimePerLock - 1 ELSE SetupTime
MaxHold == LastStart + ItemTime

HoldBounded == held <= MaxHold

\* Of two pipelines that sleep between windows (line 522), none waits for more
\* than one window of the other: it cannot lose the lock twice in a row.
AtMostTwo == \A p, q, r \in Pipelines : p = q \/ q = r \/ p = r
WaitsOneWindow ==
    AtMostTwo /\ RunInterval > 0 => \A p \in Waiters : waited[p] <= MaxHold

\* Every worker ends: no wait for the lock is for ever, and every window takes
\* the list further.
Termination == \A p \in Pipelines : <>(~Alive(p))

\* What the holder's runs have logged in this window, until it ends.
Fresh ==
    IF holder # NoOne /\ pc[holder] \in {"run", "exec", "pull", "append"}
    THEN result ELSE <<>>

\* The holder is left with something else than its lines.
Broken == holder # NoOne /\ pc[holder] = "append" /\ tmp[holder] # result

\* What the lock around the device promises (lines 432-522).  Over ssh a window
\* adds to the result file what it logged itself and nothing older, whatever
\* its pull leaves as the copy; all of it, once and in order, unless the pull
\* failed, and then the beginning.
Lease == INSTANCE DeviceLease WITH
    Result <- {l \in Line : l.whole}, owner <- holder, gone <- Dead,
    fresh <- Fresh, broken <- Broken, lost <- unpulled, measured <- logged, ledger <- dest

LeaseRefinement == Lease!Spec

\* The help of --max_time_per_lock: "Max run time(in minutes) after every
\* device lock for other pipelines to get device lock."
OthersGetTheDevice == \A p \in Waiters : waited[p] <= LockTimeout

=============================================================================
