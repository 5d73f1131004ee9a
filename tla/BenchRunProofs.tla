--------------------------- MODULE BenchRunProofs ---------------------------
(***************************************************************************)
(* Theorems about BenchRun for every set of pipelines, every list of       *)
(* executors and items and every value of the bounds.                      *)
(***************************************************************************)
EXTENDS BenchRun, TLAPS

\* The operators of one line are expanded everywhere.
USE DEF LastExecutor, LockFree, SleepOver, Elapsed, Cleared, Extended, NextItem

-----------------------------------------------------------------------------
(***************************************************************************)
(* Facts about the constants and the lines.                                *)
(***************************************************************************)

LEMMA ListLengths ==
    \A p \in Pipelines : Len(Executors[p]) \in Nat /\ Len(BenchmarkList[p]) \in Nat
<1> SUFFICES ASSUME NEW p \in Pipelines
             PROVE  Len(Executors[p]) \in Nat /\ Len(BenchmarkList[p]) \in Nat
  OBVIOUS
<1>1. Executors[p] \in Seq(ExecutorType)
  BY BenchRunAssumption DEF BenchRunAssumption
<1>2. BenchmarkList[p] \in Seq([executor : ExecutorType, device : DeviceType])
  BY BenchRunAssumption DEF BenchRunAssumption
<1>3. QED
  BY <1>1, <1>2

LEMMA SomeExecutor == \A p \in Pipelines : Len(Executors[p]) > 0
<1> SUFFICES ASSUME NEW p \in Pipelines PROVE Len(Executors[p]) > 0
  OBVIOUS
<1>1. Executors[p] \in Seq(ExecutorType) /\ Executors[p] # <<>>
  BY BenchRunAssumption DEF BenchRunAssumption
<1>2. QED
  BY <1>1

LEMMA NoOneIsNoPipeline == NoOne \notin Pipelines
BY BenchRunAssumption DEF BenchRunAssumption

\* The run of the item taken last has a line of its own.
LEMMA CurrentIsLine ==
    ASSUME WorkerTypeOK, NEW p \in Pipelines
    PROVE  Current(p) \in Line
<1>1. ex[p] \in 1..Len(Executors[p]) /\ i[p] \in 1..(Len(BenchmarkList[p]) + 1)
  BY DEF WorkerTypeOK
<1>2. ex[p] \in 0..Len(Executors[p]) /\ i[p] - 1 \in 0..Len(BenchmarkList[p])
  BY <1>1, ListLengths
<1>3. Current(p) \in [p : {p}, e : 0..Len(Executors[p]), i : 0..Len(BenchmarkList[p]),
                      whole : BOOLEAN]
  BY <1>2 DEF Current
<1>4. QED
  BY <1>3 DEF Line

LEMMA EarlierIsLine == \A p \in Pipelines : Earlier(p) \in Line
<1> SUFFICES ASSUME NEW p \in Pipelines PROVE Earlier(p) \in Line
  OBVIOUS
<1>1. 0 \in 0..Len(Executors[p]) /\ 0 \in 0..Len(BenchmarkList[p])
  BY ListLengths
<1>2. Earlier(p) \in [p : {p}, e : 0..Len(Executors[p]), i : 0..Len(BenchmarkList[p]),
                      whole : BOOLEAN]
  BY <1>1 DEF Earlier
<1>3. QED
  BY <1>2 DEF Line

LEMMA TornRecord ==
    ASSUME NEW P, NEW E, NEW I, NEW l \in [p : P, e : E, i : I, whole : BOOLEAN]
    PROVE  /\ Torn(l) \in [p : P, e : E, i : I, whole : BOOLEAN]
           /\ Torn(l).p = l.p /\ Torn(l).e = l.e /\ Torn(l).i = l.i
           /\ Whole(Torn(l)) = Whole(l)
BY DEF Torn, Whole

\* A torn line is a line of the same run.
LEMMA TornLine ==
    ASSUME NEW l \in Line
    PROVE  /\ Torn(l) \in Line
           /\ Torn(l).p = l.p /\ Torn(l).e = l.e /\ Torn(l).i = l.i
           /\ Whole(Torn(l)) = Whole(l)
<1>1. PICK p \in Pipelines :
         l \in [p : {p}, e : 0..Len(Executors[p]), i : 0..Len(BenchmarkList[p]), whole : BOOLEAN]
  BY DEF Line
<1> DEFINE P == {p}
           E == 0..Len(Executors[p])
           I == 0..Len(BenchmarkList[p])
<1>2. l \in [p : P, e : E, i : I, whole : BOOLEAN]
  BY <1>1
<1> HIDE DEF P, E, I
<1>3. /\ Torn(l) \in [p : P, e : E, i : I, whole : BOOLEAN]
      /\ Torn(l).p = l.p /\ Torn(l).e = l.e /\ Torn(l).i = l.i
      /\ Whole(Torn(l)) = Whole(l)
  BY <1>2, TornRecord
<1>4. Torn(l) \in Line
  BY <1>3 DEF Line, P, E, I
<1>5. QED
  BY <1>3, <1>4

\* A piece of a file begins as the file does, but for a last line that is torn.
LEMMA PieceLines ==
    ASSUME NEW file \in Seq(Line), NEW piece \in Pieces(file)
    PROVE  /\ piece \in Seq(Line)
           /\ Len(piece) \in Nat /\ Len(file) \in Nat /\ Len(piece) <= Len(file)
           /\ \A k \in 1..Len(piece) : piece[k] = file[k] \/ piece[k] = Torn(file[k])
<1>1. Len(file) \in Nat /\ \A k \in 1..Len(file) : file[k] \in Line
  OBVIOUS
<1>2. ASSUME NEW n \in 0..Len(file)
      PROVE  /\ SubSeq(file, 1, n) \in Seq(Line) /\ Len(SubSeq(file, 1, n)) = n
             /\ \A k \in 1..n : SubSeq(file, 1, n)[k] = file[k]
  BY <1>1
<1>3. CASE \E n \in 0..Len(file) : piece = SubSeq(file, 1, n)
  BY <1>1, <1>2, <1>3
<1>4. ASSUME NEW n \in 1..Len(file), piece = Append(SubSeq(file, 1, n - 1), Torn(file[n]))
      PROVE  /\ piece \in Seq(Line)
             /\ Len(piece) \in Nat /\ Len(piece) <= Len(file)
             /\ \A k \in 1..Len(piece) : piece[k] = file[k] \/ piece[k] = Torn(file[k])
  <2> DEFINE front == SubSeq(file, 1, n - 1)
  <2>1. n - 1 \in 0..Len(file) /\ n \in Nat
    BY <1>1
  <2>2. front \in Seq(Line) /\ Len(front) = n - 1 /\ \A k \in 1..(n - 1) : front[k] = file[k]
    BY <2>1, <1>2
  <2>3. Torn(file[n]) \in Line /\ piece = Append(front, Torn(file[n]))
    BY <1>1, <1>4, TornLine
  <2> HIDE DEF front
  <2>4. /\ piece \in Seq(Line) /\ Len(piece) = n
        /\ \A k \in 1..(n - 1) : piece[k] = front[k]
        /\ piece[n] = Torn(file[n])
    BY <2>1, <2>2, <2>3
  <2>5. ASSUME NEW k \in 1..n PROVE k \in 1..(n - 1) \/ k = n
    BY <2>1
  <2>6. QED
    BY <1>1, <2>1, <2>2, <2>4, <2>5
<1>5. QED
  BY <1>1, <1>3, <1>4 DEF Pieces

\* Where a worker can be.
LEMMA PcFacts ==
    /\ {"setup", "run", "exec", "pull", "append"} \subseteq PcInLock \cup PcFree
    /\ {"build", "lock", "sleep", "done", "dead"} \subseteq PcInLock \cup PcFree
BY DEF PcInLock, PcFree

-----------------------------------------------------------------------------
(***************************************************************************)
(* Type correctness, one lemma for each of its three parts.                *)
(***************************************************************************)

LEMMA TypeInit == Init => TypeOK
<1> SUFFICES ASSUME Init PROVE TypeOK
  OBVIOUS
<1>1. WorkerTypeOK
  <2>1. \A p \in Pipelines : 1 \in 1..Len(Executors[p])
    <3>1. ASSUME NEW n \in Nat, n > 0 PROVE 1 \in 1..n
      BY <3>1
    <3>2. QED
      BY <3>1, ListLengths, SomeExecutor
  <2>2. \A p \in Pipelines : 1 \in 1..(Len(BenchmarkList[p]) + 1)
    <3>1. ASSUME NEW n \in Nat PROVE 1 \in 1..(n + 1)
      OBVIOUS
    <3>2. QED
      BY <3>1, ListLengths
  <2>3. QED
    BY <2>1, <2>2, PcFacts DEF Init, WorkerTypeOK
<1>2. ClockTypeOK
  BY DEF Init, ClockTypeOK
<1>3. FileTypeOK
  <2>1. \A p \in Pipelines : <<Earlier(p)>> \in Seq(Line)
    <3>1. \A l \in Line : <<l>> \in Seq(Line)
      OBVIOUS
    <3>2. QED
      BY <3>1, EarlierIsLine
  <2>2. tmp \in [Pipelines -> Seq(Line)] /\ copies \subseteq Pipelines
    <3>1. <<>> \in Seq(Line)
      OBVIOUS
    <3>2. tmp = [p \in Pipelines |-> IF p \in copies THEN <<Earlier(p)>> ELSE <<>>]
      BY DEF Init
    <3>3. tmp \in [Pipelines -> Seq(Line)]
      BY <2>1, <3>1, <3>2
    <3>4. copies \subseteq Pipelines
      BY DEF Init
    <3>5. QED
      BY <3>3, <3>4
  <2>3. QED
    BY <2>2 DEF Init, FileTypeOK
<1>4. QED
  BY <1>1, <1>2, <1>3 DEF TypeOK

\* From one window, or one executor, to the next.
LEMMA NextWindowType ==
    ASSUME WorkerTypeOK, NEW p \in Pipelines, NextWindow(p), UNCHANGED holder
    PROVE  WorkerTypeOK'
<1>1. CASE More(p) /\ Goto(p, "lock") /\ UNCHANGED <<ex, i>>
  BY <1>1, PcFacts DEF WorkerTypeOK, Goto
<1>2. CASE /\ ex[p] # Len(Executors[p])
           /\ Goto(p, "build")
           /\ ex' = [ex EXCEPT ![p] = @ + 1]
           /\ i' = [i EXCEPT ![p] = 1]
  <2>1. \A q \in Pipelines : ex'[q] \in 1..Len(Executors[q])
    BY <1>2, ListLengths DEF WorkerTypeOK
  <2>2. \A q \in Pipelines : i'[q] \in 1..(Len(BenchmarkList[q]) + 1)
    BY <1>2, ListLengths DEF WorkerTypeOK
  <2>3. QED
    BY <1>2, <2>1, <2>2, PcFacts DEF WorkerTypeOK, Goto
<1>3. CASE Goto(p, "done") /\ UNCHANGED <<ex, i>>
  BY <1>3, PcFacts DEF WorkerTypeOK, Goto
<1>4. QED
  BY <1>1, <1>2, <1>3 DEF NextWindow

\* An item is taken from the list.
LEMMA TakeItemType ==
    ASSUME WorkerTypeOK, NEW p \in Pipelines, More(p),
           i' = [i EXCEPT ![p] = @ + 1]
    PROVE  /\ i' \in [Pipelines -> Nat]
           /\ \A q \in Pipelines : i'[q] \in 1..(Len(BenchmarkList[q]) + 1)
<1>1. i' \in [Pipelines -> Nat]
  BY DEF WorkerTypeOK
<1>2. ASSUME NEW q \in Pipelines
      PROVE  i'[q] \in 1..(Len(BenchmarkList[q]) + 1)
  <2>1. i[q] \in 1..(Len(BenchmarkList[q]) + 1)
    BY DEF WorkerTypeOK
  <2>2. CASE q = p
    BY <2>1, <2>2, ListLengths DEF More, WorkerTypeOK
  <2>3. CASE q # p
    BY <2>1, <2>3 DEF WorkerTypeOK
  <2>4. QED
    BY <2>2, <2>3
<1>3. QED
  BY <1>1, <1>2

LEMMA WorkerTypeStep == WorkerTypeOK /\ [Next]_vars => WorkerTypeOK'
<1> SUFFICES ASSUME WorkerTypeOK, [Next]_vars PROVE WorkerTypeOK'
  OBVIOUS
<1>1. ASSUME NEW p \in Pipelines, Build(p) \/ Wake(p) PROVE WorkerTypeOK'
  BY <1>1, NextWindowType DEF Build, Wake
<1>2. ASSUME NEW p \in Pipelines, Acquire(p) PROVE WorkerTypeOK'
  BY <1>2, PcFacts DEF Acquire, Goto, WorkerTypeOK
<1>3. ASSUME NEW p \in Pipelines, Skip(p) PROVE WorkerTypeOK'
  BY <1>3, TakeItemType DEF Skip, WorkerTypeOK
<1>4. ASSUME NEW p \in Pipelines, StartModel(p) PROVE WorkerTypeOK'
  BY <1>4, TakeItemType, PcFacts DEF StartModel, Goto, WorkerTypeOK
<1>5. ASSUME NEW p \in Pipelines, Publish(p) \/ PublishRaises(p) \/ Raise(p)
      PROVE  WorkerTypeOK'
  BY <1>5, PcFacts DEF Publish, PublishRaises, Raise, Goto, WorkerTypeOK
<1>6. ASSUME NEW p \in Pipelines, Timeout(p) \/ Setup(p) \/ FinishModel(p)
                                  \/ EndWindow(p) \/ Pull(p)
      PROVE  WorkerTypeOK'
  BY <1>6, PcFacts DEF Timeout, Setup, FinishModel, EndWindow, Pull, Goto, WorkerTypeOK
<1>7. CASE OrphanEnds \/ Tick \/ UNCHANGED vars
  BY <1>7 DEF OrphanEnds, Tick, vars, worker, WorkerTypeOK
<1>8. QED
  BY <1>1, <1>2, <1>3, <1>4, <1>5, <1>6, <1>7 DEF Next, Work

LEMMA ClockTypeStep == WorkerTypeOK /\ ClockTypeOK /\ [Next]_vars => ClockTypeOK'
<1> SUFFICES ASSUME WorkerTypeOK, ClockTypeOK, [Next]_vars PROVE ClockTypeOK'
  OBVIOUS
<1>1. ASSUME NEW p \in Pipelines, Build(p) \/ Wake(p) PROVE ClockTypeOK'
  BY <1>1 DEF Build, Wake, NextWindow, history, ClockTypeOK
<1>2. ASSUME NEW p \in Pipelines, Acquire(p) PROVE ClockTypeOK'
  BY <1>2 DEF Acquire, ClockTypeOK, WorkerTypeOK
<1>3. ASSUME NEW p \in Pipelines, Timeout(p) \/ Skip(p) \/ EndWindow(p) \/ Pull(p)
                                  \/ Publish(p) \/ PublishRaises(p) \/ Raise(p)
      PROVE  ClockTypeOK'
  BY <1>3 DEF Timeout, Skip, EndWindow, Pull, Publish, PublishRaises, Raise,
              clocks, history, ClockTypeOK
<1>4. ASSUME NEW p \in Pipelines, Setup(p) \/ StartModel(p) \/ FinishModel(p)
      PROVE  ClockTypeOK'
  BY <1>4 DEF Setup, StartModel, FinishModel, history, ClockTypeOK
<1>5. CASE Tick
  BY <1>5 DEF Tick, history, ClockTypeOK
<1>6. CASE OrphanEnds \/ UNCHANGED vars
  BY <1>6 DEF OrphanEnds, vars, clocks, history, ClockTypeOK
<1>7. QED
  BY <1>1, <1>2, <1>3, <1>4, <1>5, <1>6 DEF Next, Work

LEMMA FileTypeStep == WorkerTypeOK /\ FileTypeOK /\ [Next]_vars => FileTypeOK'
<1> SUFFICES ASSUME WorkerTypeOK, FileTypeOK, [Next]_vars PROVE FileTypeOK'
  OBVIOUS
<1>1. ASSUME NEW p \in Pipelines, Setup(p) PROVE FileTypeOK'
  <2>1. env' \in (Pipelines \cup {NoOne}) \X Nat
    <3>1. ex[p] \in Nat
      BY DEF WorkerTypeOK
    <3>2. QED
      BY <1>1, <3>1 DEF Setup
  <2>2. result' \in Seq(Line)
    BY <1>1 DEF Setup
  <2>3. QED
    BY <1>1, <2>1, <2>2 DEF Setup, history, FileTypeOK
<1>2. ASSUME NEW p \in Pipelines, FinishModel(p) PROVE FileTypeOK'
  <2>1. CASE UNCHANGED <<result, logged>>
    BY <1>2, <2>1 DEF FinishModel, FileTypeOK
  <2>2. CASE /\ result' = Append(result, Current(p))
             /\ logged' = [logged EXCEPT ![p] = Append(@, Current(p))]
    <3>1. result' \in Seq(Line) /\ logged' \in [Pipelines -> Seq(Line)]
      BY <2>2, CurrentIsLine DEF FileTypeOK
    <3>2. QED
      BY <1>2, <3>1 DEF FinishModel, FileTypeOK
  <2>3. QED
    BY <1>2, <2>1, <2>2 DEF FinishModel
<1>3. ASSUME NEW p \in Pipelines, Pull(p) PROVE FileTypeOK'
  <2>1. result \in Seq(Line) /\ tmp[p] \in Seq(Line) /\ <<>> \in Seq(Line)
    BY DEF FileTypeOK
  <2>2. ASSUME NEW lines \in Seq(Line), tmp' = [tmp EXCEPT ![p] = lines]
        PROVE  tmp' \in [Pipelines -> Seq(Line)]
    BY <2>2 DEF FileTypeOK
  <2>3. tmp' \in [Pipelines -> Seq(Line)]
    BY <1>3, <2>1, <2>2, PieceLines DEF Pull, PullFails, Copy, FileTypeOK
  <2>4. copies' \subseteq Pipelines
    BY <1>3 DEF Pull, PullFails, Copy, FileTypeOK
  <2>5. unpulled' \subseteq Pipelines
    BY <1>3 DEF Pull, FileTypeOK
  <2>6. QED
    BY <1>3, <2>3, <2>4, <2>5 DEF Pull, FileTypeOK
<1>4. ASSUME NEW p \in Pipelines, Publish(p) PROVE FileTypeOK'
  BY <1>4 DEF Publish, history, FileTypeOK
<1>5. ASSUME NEW p \in Pipelines, Raise(p) PROVE FileTypeOK'
  BY <1>5, CurrentIsLine DEF Raise, history, FileTypeOK
<1>6. ASSUME NEW p \in Pipelines, Build(p) \/ Wake(p) \/ Timeout(p) \/ Skip(p)
                                  \/ StartModel(p) \/ EndWindow(p) \/ PublishRaises(p)
      PROVE  FileTypeOK'
  BY <1>6 DEF Build, Wake, Timeout, Skip, StartModel, EndWindow, PublishRaises,
              files, history, FileTypeOK
<1>7. ASSUME NEW p \in Pipelines, Acquire(p) PROVE FileTypeOK'
  BY <1>7 DEF Acquire, files, history, FileTypeOK
<1>8. CASE OrphanEnds
  <2>1. PICK l \in orphans : /\ orphans' = orphans \ {l}
                             /\ result' \in {result, Append(result, l)}
    BY <1>8 DEF OrphanEnds
  <2>2. result \in Seq(Line) /\ l \in Line
    BY DEF FileTypeOK
  <2>3. Append(result, l) \in Seq(Line)
    BY <2>2
  <2>4. result' \in Seq(Line)
    BY <2>1, <2>2, <2>3
  <2>5. QED
    BY <1>8, <2>1, <2>4 DEF OrphanEnds, history, FileTypeOK
<1>9. CASE Tick \/ UNCHANGED vars
  BY <1>9 DEF Tick, vars, files, history, FileTypeOK
<1>10. QED
  BY <1>1, <1>2, <1>3, <1>4, <1>5, <1>6, <1>7, <1>8, <1>9 DEF Next, Work

\* Every variable keeps its type, and no worker reads past the end of its
\* executors or of its benchmark list (run_on_device and bench_run).
THEOREM TypeCorrect == Spec => []TypeOK
<1>1. TypeOK /\ [Next]_vars => TypeOK'
  BY WorkerTypeStep, ClockTypeStep, FileTypeStep DEF TypeOK
<1>2. QED
  BY TypeInit, <1>1, PTL DEF Spec

-----------------------------------------------------------------------------
(***************************************************************************)
(* The lock.                                                               *)
(***************************************************************************)

\* What a worker does while it does not have the lock leaves the lock, the
\* device and its own files alone.
LEMMA NextWindowFree ==
    ASSUME WorkerTypeOK, NEW p \in Pipelines, NextWindow(p)
    PROVE  /\ pc' = [pc EXCEPT ![p] = pc'[p]]
           /\ pc'[p] \in {"build", "lock", "done"}
           /\ \A q \in Pipelines \ {p} : ex'[q] = ex[q] /\ i'[q] = i[q]
BY DEF NextWindow, Goto, WorkerTypeOK

LEMMA DeviceIsMineInit == Init => DeviceIsMine
BY NoOneIsNoPipeline DEF Init, DeviceIsMine, PcInLock

LEMMA DeviceIsMineStep == WorkerTypeOK /\ DeviceIsMine /\ [Next]_vars => DeviceIsMine'
<1> SUFFICES ASSUME WorkerTypeOK, DeviceIsMine, [Next]_vars,
                    NEW q \in Pipelines
             PROVE  /\ pc'[q] \in PcInLock <=> holder' = q
                    /\ pc'[q] \in {"run", "exec"} => env' = <<q, ex'[q]>>
  BY DEF DeviceIsMine
<1>0. /\ pc[q] \in PcInLock <=> holder = q
      /\ pc[q] \in {"run", "exec"} => env = <<q, ex[q]>>
  BY DEF DeviceIsMine
<1> USE NoOneIsNoPipeline DEF PcInLock
<1>1. ASSUME NEW p \in Pipelines, Build(p) \/ Wake(p)
      PROVE  /\ pc'[q] \in PcInLock <=> holder' = q
             /\ pc'[q] \in {"run", "exec"} => env' = <<q, ex'[q]>>
  <2>1. NextWindow(p) /\ pc[p] \in {"build", "sleep"} /\ UNCHANGED <<holder, env>>
    BY <1>1 DEF Build, Wake, files
  <2>2. CASE p = q
    BY <2>1, <2>2, <1>0, NextWindowFree
  <2>3. CASE p # q
    BY <2>1, <2>3, <1>0, NextWindowFree DEF WorkerTypeOK
  <2>4. QED
    BY <2>2, <2>3
<1>2. ASSUME NEW p \in Pipelines, Acquire(p) \/ Timeout(p)
      PROVE  /\ pc'[q] \in PcInLock <=> holder' = q
             /\ pc'[q] \in {"run", "exec"} => env' = <<q, ex'[q]>>
  BY <1>2, <1>0 DEF Acquire, Timeout, Goto, files, WorkerTypeOK
<1>3. ASSUME NEW p \in Pipelines, Setup(p)
      PROVE  /\ pc'[q] \in PcInLock <=> holder' = q
             /\ pc'[q] \in {"run", "exec"} => env' = <<q, ex'[q]>>
  <2>1. holder = p /\ holder' = holder
    BY <1>3 DEF Setup, DeviceIsMine
  <2>2. QED
    BY <1>3, <1>0, <2>1 DEF Setup, Goto, WorkerTypeOK
<1>4. ASSUME NEW p \in Pipelines, Skip(p) \/ StartModel(p) \/ FinishModel(p)
                                  \/ EndWindow(p) \/ Pull(p)
      PROVE  /\ pc'[q] \in PcInLock <=> holder' = q
             /\ pc'[q] \in {"run", "exec"} => env' = <<q, ex'[q]>>
  BY <1>4, <1>0 DEF Skip, StartModel, FinishModel, EndWindow, Pull, Goto, files, WorkerTypeOK
<1>5. ASSUME NEW p \in Pipelines, Publish(p) \/ PublishRaises(p)
      PROVE  /\ pc'[q] \in PcInLock <=> holder' = q
             /\ pc'[q] \in {"run", "exec"} => env' = <<q, ex'[q]>>
  <2>1. holder = p
    BY <1>5 DEF Publish, PublishRaises, DeviceIsMine
  <2>2. QED
    BY <1>5, <1>0, <2>1 DEF Publish, PublishRaises, Goto, files, WorkerTypeOK
<1>6. ASSUME NEW p \in Pipelines, Raise(p)
      PROVE  /\ pc'[q] \in PcInLock <=> holder' = q
             /\ pc'[q] \in {"run", "exec"} => env' = <<q, ex'[q]>>
  BY <1>6, <1>0 DEF Raise, Goto, WorkerTypeOK
<1>7. CASE OrphanEnds \/ Tick \/ UNCHANGED vars
  BY <1>7, <1>0 DEF OrphanEnds, Tick, vars, worker, files
<1>8. QED
  BY <1>1, <1>2, <1>3, <1>4, <1>5, <1>6, <1>7 DEF Next, Work

\* The lock is held by the one worker that is inside the with statement, and
\* the environment on the device is the holder's (bench_run, lines 432-464).
THEOREM LockTheorem == Spec => []DeviceIsMine
<1>1. Init => WorkerTypeOK /\ DeviceIsMine
  BY TypeInit, DeviceIsMineInit DEF TypeOK
<1>2. WorkerTypeOK /\ DeviceIsMine /\ [Next]_vars => (WorkerTypeOK /\ DeviceIsMine)'
  BY WorkerTypeStep, DeviceIsMineStep
<1>3. QED
  BY <1>1, <1>2, PTL DEF Spec

-----------------------------------------------------------------------------
(***************************************************************************)
(* The length of a window.  elapse_minutes is older than the clock while a *)
(* model runs, and it is 0 until the first one has finished: HoldInv says  *)
(* how far the holder's clock can be ahead of it.                          *)
(***************************************************************************)

HoldInv ==
    /\ held <= MaxHold
    /\ holder # NoOne =>
          /\ pc[holder] = "setup" => held = spent /\ spent <= SetupTime
          /\ pc[holder] = "run" => elapse = held \/ held <= SetupTime
          /\ pc[holder] = "exec" => held <= LastStart + spent /\ spent <= ItemTime

LEMMA TimeConstants ==
    /\ MaxTimePerLock \in Nat /\ SetupTime \in Nat /\ ItemTime \in Nat
    /\ LastStart \in Nat /\ MaxHold \in Nat
    /\ SetupTime <= LastStart /\ LastStart <= MaxHold
    /\ MaxTimePerLock - 1 <= LastStart
    /\ MaxHold = LastStart + ItemTime
<1>1. MaxTimePerLock \in Nat /\ SetupTime \in Nat /\ ItemTime \in Nat
  BY BenchRunAssumption DEF BenchRunAssumption
<1>2. QED
  BY <1>1 DEF LastStart, MaxHold

LEMMA HoldInit == Init => HoldInv
BY TimeConstants DEF Init, HoldInv

LEMMA HoldStep ==
    WorkerTypeOK /\ ClockTypeOK /\ DeviceIsMine /\ HoldInv /\ [Next]_vars => HoldInv'
<1> SUFFICES ASSUME WorkerTypeOK, ClockTypeOK, DeviceIsMine, HoldInv, [Next]_vars
             PROVE  HoldInv'
  OBVIOUS
<1> USE TimeConstants, NoOneIsNoPipeline
<1>1. ASSUME NEW p \in Pipelines, Build(p) \/ Wake(p) PROVE HoldInv'
  <2>1. NextWindow(p) /\ pc[p] \in {"build", "sleep"} /\ UNCHANGED <<holder, held, elapse, spent>>
    BY <1>1 DEF Build, Wake
  <2>2. holder # p
    BY <2>1 DEF DeviceIsMine, PcInLock
  <2>3. holder # NoOne => pc'[holder] = pc[holder]
    BY <2>1, <2>2, NextWindowFree DEF WorkerTypeOK
  <2>4. QED
    BY <2>1, <2>3 DEF HoldInv
<1>2. ASSUME NEW p \in Pipelines, Acquire(p) PROVE HoldInv'
  BY <1>2 DEF Acquire, Goto, HoldInv, WorkerTypeOK
<1>3. ASSUME NEW p \in Pipelines, Timeout(p) PROVE HoldInv'
  <2>1. holder # p
    BY <1>3 DEF Timeout, DeviceIsMine, PcInLock
  <2>2. QED
    BY <1>3, <2>1 DEF Timeout, Goto, clocks, HoldInv, WorkerTypeOK
<1>4. ASSUME NEW p \in Pipelines,
             pc[p] \in PcInLock, pc' = [pc EXCEPT ![p] = pc'[p]], holder' = holder
      PROVE  holder' = p /\ pc'[holder'] = pc'[p] /\ pc[holder] = pc[p]
  BY <1>4 DEF DeviceIsMine
<1>5. ASSUME NEW p \in Pipelines, Setup(p) PROVE HoldInv'
  <2>1. holder = p /\ holder' = p /\ pc'[p] = "run" /\ pc[p] = "setup"
    BY <1>5 DEF Setup, Goto, DeviceIsMine, PcInLock, WorkerTypeOK
  <2>2. QED
    BY <1>5, <2>1 DEF Setup, HoldInv
<1>6. ASSUME NEW p \in Pipelines, Skip(p) PROVE HoldInv'
  BY <1>6 DEF Skip, clocks, HoldInv
<1>7. ASSUME NEW p \in Pipelines, StartModel(p) PROVE HoldInv'
  <2>1. holder = p /\ holder' = p /\ pc'[p] = "exec" /\ pc[p] = "run"
    BY <1>7 DEF StartModel, Goto, DeviceIsMine, PcInLock, WorkerTypeOK
  <2>2. elapse < MaxTimePerLock /\ spent' = 0 /\ held' = held
    BY <1>7 DEF StartModel, InTime
  <2>3. held <= LastStart
    BY <2>1, <2>2 DEF HoldInv, ClockTypeOK
  <2>4. QED
    BY <2>1, <2>2, <2>3 DEF HoldInv, ClockTypeOK
<1>8. ASSUME NEW p \in Pipelines, FinishModel(p) PROVE HoldInv'
  <2>1. holder = p /\ holder' = p /\ pc'[p] = "run" /\ pc[p] = "exec"
    BY <1>8 DEF FinishModel, Goto, DeviceIsMine, PcInLock, WorkerTypeOK
  <2>2. QED
    BY <1>8, <2>1 DEF FinishModel, HoldInv
<1>9. ASSUME NEW p \in Pipelines, EndWindow(p) \/ Pull(p) PROVE HoldInv'
  <2>1. holder = p /\ holder' = p /\ pc'[p] \in {"pull", "append"}
    BY <1>9 DEF EndWindow, Pull, Goto, DeviceIsMine, PcInLock, WorkerTypeOK
  <2>2. QED
    BY <1>9, <2>1 DEF EndWindow, Pull, clocks, HoldInv
<1>10. ASSUME NEW p \in Pipelines, Publish(p) \/ PublishRaises(p) PROVE HoldInv'
  BY <1>10 DEF Publish, PublishRaises, clocks, HoldInv
<1>11. ASSUME NEW p \in Pipelines, Raise(p) PROVE HoldInv'
  BY <1>11 DEF Raise, Goto, clocks, HoldInv, WorkerTypeOK
<1>12. CASE Tick
  <2>1. CASE pc[holder] = "setup" /\ spent < SetupTime
    BY <1>12, <2>1 DEF Tick, worker, HoldInv, ClockTypeOK
  <2>2. CASE pc[holder] = "exec" /\ spent < ItemTime
    BY <1>12, <2>2 DEF Tick, worker, HoldInv, ClockTypeOK
  <2>3. QED
    BY <1>12, <2>1, <2>2 DEF Tick
<1>13. CASE OrphanEnds \/ UNCHANGED vars
  BY <1>13 DEF OrphanEnds, vars, worker, clocks, HoldInv
<1>14. QED
  BY <1>1, <1>2, <1>3, <1>5, <1>6, <1>7, <1>8, <1>9, <1>10, <1>11, <1>12, <1>13
     DEF Next, Work

\* No window is longer than the time at which its last model may start and
\* the time that model takes (bench_run, lines 477-479 and 514).
THEOREM HoldTheorem == Spec => []HoldBounded
<1> DEFINE HoldAll == WorkerTypeOK /\ ClockTypeOK /\ DeviceIsMine /\ HoldInv
<1>1. Init => HoldAll
  BY TypeInit, DeviceIsMineInit, HoldInit DEF TypeOK
<1>2. HoldAll /\ [Next]_vars => HoldAll'
  BY WorkerTypeStep, ClockTypeStep, DeviceIsMineStep, HoldStep
<1>3. HoldAll => HoldBounded
  BY DEF HoldInv, HoldBounded
<1>4. QED
  BY <1>1, <1>2, <1>3, PTL DEF Spec

-----------------------------------------------------------------------------
(***************************************************************************)
(* The wait of two pipelines.  While the lock is taken, a waiter has not   *)
(* waited longer than the lock has been held; when a waiter with time on   *)
(* its clock meets a free lock, the other pipeline sleeps or is dead.      *)
(***************************************************************************)

WaitInv ==
    \A p \in Waiters :
        /\ holder # NoOne => waited[p] <= held
        /\ holder = NoOne =>
              /\ waited[p] <= MaxHold
              /\ waited[p] > 0 => \A q \in Pipelines \ {p} : pc[q] \in {"sleep", "dead"}

LEMMA WaitInit == Init => WaitInv
BY DEF Init, WaitInv, Waiters

LEMMA WaitStep ==
    ASSUME AtMostTwo, RunInterval > 0
    PROVE  WorkerTypeOK /\ ClockTypeOK /\ DeviceIsMine /\ HoldInv /\ WaitInv /\ [Next]_vars
           => WaitInv'
<1> SUFFICES ASSUME WorkerTypeOK, ClockTypeOK, DeviceIsMine, HoldInv, WaitInv, [Next]_vars,
                    NEW p \in Pipelines, pc'[p] = "lock"
             PROVE  /\ holder' # NoOne => waited'[p] <= held'
                    /\ holder' = NoOne =>
                          /\ waited'[p] <= MaxHold
                          /\ waited'[p] > 0 =>
                                \A q \in Pipelines \ {p} : pc'[q] \in {"sleep", "dead"}
  BY DEF WaitInv, Waiters
<1> DEFINE Goal == /\ holder' # NoOne => waited'[p] <= held'
                   /\ holder' = NoOne =>
                         /\ waited'[p] <= MaxHold
                         /\ waited'[p] > 0 =>
                               \A q \in Pipelines \ {p} : pc'[q] \in {"sleep", "dead"}
<1>0. waited[p] \in Nat /\ held \in Nat /\ held <= MaxHold
  BY DEF ClockTypeOK, HoldInv
<1> USE TimeConstants, NoOneIsNoPipeline
<1>1. ASSUME pc[p] = "lock"
      PROVE  /\ holder # NoOne => waited[p] <= held
             /\ holder = NoOne =>
                   /\ waited[p] <= MaxHold
                   /\ waited[p] > 0 => \A q \in Pipelines \ {p} : pc[q] \in {"sleep", "dead"}
  BY <1>1 DEF WaitInv, Waiters
<1>2. ASSUME NEW q \in Pipelines, Build(q) \/ Wake(q) PROVE Goal
  <2>1. /\ NextWindow(q) /\ pc[q] \in {"build", "sleep"} /\ UNCHANGED <<holder, held>>
        /\ pc[q] = "sleep" /\ holder = NoOne => Waiters = {}
    BY <1>2, RunInterval > 0 DEF Build, Wake
  <2>2. CASE q = p
    <3>1. waited'[p] = 0
      BY <2>1, <2>2 DEF NextWindow, Goto, WorkerTypeOK, ClockTypeOK
    <3>2. QED
      BY <3>1, <2>1, <1>0
  <2>3. CASE q # p
    <3>1. pc[p] = "lock" /\ waited'[p] = waited[p]
      BY <2>1, <2>3, NextWindowFree DEF NextWindow, WorkerTypeOK, ClockTypeOK
    <3>2. holder = NoOne => pc[q] # "sleep"
      BY <2>1, <3>1 DEF Waiters
    <3>3. holder = NoOne => ~(waited[p] > 0)
      BY <3>1, <3>2, <2>1, <2>3, <1>1
    <3>4. QED
      BY <3>1, <3>3, <2>1, <1>1
  <2>4. QED
    BY <2>2, <2>3
<1>3. ASSUME NEW q \in Pipelines, Acquire(q) PROVE Goal
  <2>1. q # p /\ pc[p] = "lock" /\ waited'[p] = waited[p] /\ holder = NoOne
        /\ pc[q] = "lock" /\ held' = 0 /\ holder' = q
    BY <1>3 DEF Acquire, Goto, WorkerTypeOK
  <2>2. ~(waited[p] > 0)
    BY <2>1, <1>1
  <2>3. QED
    BY <2>1, <2>2, <1>0
<1>4. ASSUME NEW q \in Pipelines, Timeout(q) PROVE Goal
  <2>1. q # p /\ pc[p] = "lock" /\ waited' = waited /\ holder # NoOne /\ UNCHANGED <<holder, held>>
    BY <1>4 DEF Timeout, Goto, clocks, WorkerTypeOK
  <2>2. QED
    BY <2>1, <1>1
<1>5. ASSUME NEW q \in Pipelines,
             Setup(q) \/ Skip(q) \/ StartModel(q) \/ FinishModel(q) \/ EndWindow(q) \/ Pull(q)
      PROVE  Goal
  <2>1. q # p /\ pc[p] = "lock" /\ waited' = waited /\ UNCHANGED <<holder, held>>
    BY <1>5 DEF Setup, Skip, StartModel, FinishModel, EndWindow, Pull, Goto, clocks, WorkerTypeOK
  <2>2. holder = q
    BY <1>5 DEF Setup, Skip, StartModel, FinishModel, EndWindow, Pull, DeviceIsMine, PcInLock
  <2>3. QED
    BY <2>1, <2>2, <1>1
<1>6. ASSUME NEW q \in Pipelines, q # p, UNCHANGED <<waited, held>>, pc[p] = "lock",
             pc' = [pc EXCEPT ![q] = pc'[q]], pc'[q] \in {"sleep", "dead"},
             \/ holder = q /\ holder' = NoOne
             \/ holder # q /\ holder' = holder
      PROVE  Goal
  <2>1. CASE holder = q /\ holder' = NoOne
    <3>1. waited'[p] <= MaxHold
      BY <1>6, <2>1, <1>0, <1>1
    <3>2. ASSUME NEW r \in Pipelines \ {p} PROVE pc'[r] \in {"sleep", "dead"}
      BY <1>6, AtMostTwo DEF AtMostTwo
    <3>3. QED
      BY <2>1, <3>1, <3>2
  <2>2. CASE holder # q /\ holder' = holder
    <3>1. ASSUME NEW r \in Pipelines \ {p} PROVE r = q
      BY <1>6, AtMostTwo DEF AtMostTwo
    <3>2. QED
      BY <1>6, <2>2, <3>1, <1>1
  <2>3. QED
    BY <1>6, <2>1, <2>2
<1>7. ASSUME NEW q \in Pipelines, Publish(q) \/ PublishRaises(q) \/ Raise(q) PROVE Goal
  <2>1. q # p /\ pc[p] = "lock" /\ UNCHANGED <<waited, held>>
        /\ pc' = [pc EXCEPT ![q] = pc'[q]] /\ pc'[q] \in {"sleep", "dead"}
    BY <1>7 DEF Publish, PublishRaises, Raise, Goto, clocks, WorkerTypeOK
  <2>2. \/ holder = q /\ holder' = NoOne
        \/ holder # q /\ holder' = holder
    BY <1>7 DEF Publish, PublishRaises, Raise, DeviceIsMine, PcInLock
  <2>3. QED
    BY <2>1, <2>2, <1>6
<1>8. CASE Tick
  <2>1. /\ holder # NoOne /\ UNCHANGED <<pc, holder>>
        /\ held' = held + 1 /\ waited'[p] = waited[p] + 1
    BY <1>8 DEF Tick, worker, Waiters
  <2>2. QED
    BY <2>1, <1>1, <1>0
<1>9. CASE OrphanEnds \/ UNCHANGED vars
  <2>1. UNCHANGED <<pc, holder, waited, held>>
    BY <1>9 DEF OrphanEnds, vars, worker, clocks
  <2>2. QED
    BY <2>1, <1>1
<1>10. QED
  BY <1>2, <1>3, <1>4, <1>5, <1>7, <1>8, <1>9 DEF Next, Work

\* Two pipelines that sleep between their windows take turns: none waits for
\* more than one window of the other (bench_run, line 522).
THEOREM WaitTheorem == Spec => []WaitsOneWindow
<1> DEFINE HoldAll == WorkerTypeOK /\ ClockTypeOK /\ DeviceIsMine /\ HoldInv
<1>1. Init => HoldAll
  BY TypeInit, DeviceIsMineInit, HoldInit DEF TypeOK
<1>2. HoldAll /\ [Next]_vars => HoldAll'
  BY WorkerTypeStep, ClockTypeStep, DeviceIsMineStep, HoldStep
<1>3. CASE AtMostTwo /\ RunInterval > 0
  <2>1. HoldAll /\ WaitInv /\ [Next]_vars => WaitInv'
    BY <1>3, WaitStep
  <2>2. HoldAll /\ WaitInv => WaitsOneWindow
    <3> SUFFICES ASSUME HoldAll, WaitInv, NEW p \in Waiters PROVE waited[p] <= MaxHold
      BY DEF WaitsOneWindow
    <3>1. waited[p] \in Nat
      BY DEF ClockTypeOK, Waiters
    <3>2. QED
      BY <3>1, TimeConstants DEF WaitInv, HoldInv, ClockTypeOK
  <2>3. QED
    BY <1>1, <1>2, WaitInit, <2>1, <2>2, PTL DEF Spec
<1>4. CASE ~(AtMostTwo /\ RunInterval > 0)
  <2>1. WaitsOneWindow
    BY <1>4 DEF WaitsOneWindow
  <2>2. QED
    BY <2>1, PTL
<1>5. QED
  BY <1>3, <1>4

-----------------------------------------------------------------------------
(***************************************************************************)
(* Every window takes the list further.                                    *)
(***************************************************************************)

ItemsLeft(p) == Len(BenchmarkList[p]) + 1 - i[p]

\* The window of p starts one more item, or passes it over.
GoesOn(p) == pc[p] = "run" /\ InTime /\ More(p)

\* The most steps that are left to a worker with the executor it is at: an
\* item takes at most eight, if each window has but one.
StepsLeft(p) ==
    CASE pc[p] \in {"done", "dead"} -> 0
      [] GoesOn(p)                  -> 8 * ItemsLeft(p)
      [] pc[p] = "setup"            -> 8 * ItemsLeft(p) + 1
      [] pc[p] = "lock"             -> 8 * ItemsLeft(p) + 2
      [] pc[p] \in {"build", "sleep"} -> 8 * ItemsLeft(p) + 3
      [] pc[p] = "append"           -> 8 * ItemsLeft(p) + 4
      [] pc[p] = "pull"             -> 8 * ItemsLeft(p) + 5
      [] pc[p] = "run" /\ ~GoesOn(p) -> 8 * ItemsLeft(p) + 6
      [] pc[p] = "exec"             -> 8 * ItemsLeft(p) + 7

\* p comes to its next executor, or nearer to the end of this one.
Nearer(p) ==
    \/ ex'[p] > ex[p]
    \/ ex'[p] = ex[p] /\ StepsLeft(p) \in Nat /\ StepsLeft(p)' < StepsLeft(p)

Still(p) == ex'[p] = ex[p] /\ StepsLeft(p)' = StepsLeft(p)

\* A worker waits for the lock, and has it, only when there is an item left.
ItemWaits == \A p \in Pipelines : pc[p] \in {"lock", "setup"} => More(p)

LEMMA ItemWaitsStep == WorkerTypeOK /\ ItemWaits /\ [Next]_vars => ItemWaits'
<1> SUFFICES ASSUME WorkerTypeOK, ItemWaits, [Next]_vars, NEW q \in Pipelines,
                    pc'[q] \in {"lock", "setup"}
             PROVE  More(q)'
  BY DEF ItemWaits
<1>0. pc[q] \in {"lock", "setup"} => More(q)
  BY DEF ItemWaits
<1>1. ASSUME NEW p \in Pipelines, Build(p) \/ Wake(p) PROVE More(q)'
  <2>1. NextWindow(p)
    BY <1>1 DEF Build, Wake
  <2>2. CASE p = q
    BY <2>1, <2>2 DEF NextWindow, Goto, More, WorkerTypeOK
  <2>3. CASE p # q
    BY <1>0, <2>1, <2>3, NextWindowFree DEF More, WorkerTypeOK
  <2>4. QED
    BY <2>2, <2>3
<1>2. ASSUME NEW p \in Pipelines, Acquire(p) \/ Timeout(p) \/ Raise(p) PROVE More(q)'
  BY <1>0, <1>2 DEF Acquire, Timeout, Raise, Goto, More, WorkerTypeOK
<1>3. ASSUME NEW p \in Pipelines, Setup(p) \/ FinishModel(p) \/ EndWindow(p) \/ Pull(p)
                                  \/ Publish(p) \/ PublishRaises(p)
      PROVE  More(q)'
  BY <1>0, <1>3 DEF Setup, FinishModel, EndWindow, Pull, Publish, PublishRaises, Goto, More, WorkerTypeOK
<1>4. ASSUME NEW p \in Pipelines, Skip(p) \/ StartModel(p) PROVE More(q)'
  <2>1. pc[p] = "run" /\ pc'[p] \in {"run", "exec"}
    BY <1>4 DEF Skip, StartModel, Goto, WorkerTypeOK
  <2>2. p # q
    BY <2>1
  <2>3. pc'[q] = pc[q] /\ i'[q] = i[q]
    BY <1>4, <2>2 DEF Skip, StartModel, NextItem, Goto, WorkerTypeOK
  <2>4. QED
    BY <1>0, <2>3 DEF More
<1>5. CASE OrphanEnds \/ Tick \/ UNCHANGED vars
  BY <1>0, <1>5 DEF OrphanEnds, Tick, vars, worker, More
<1>6. QED
  BY <1>1, <1>2, <1>3, <1>4, <1>5 DEF Next, Work

LEMMA ItemsAreNat ==
    ASSUME WorkerTypeOK, NEW p \in Pipelines
    PROVE  /\ ItemsLeft(p) \in Nat
           /\ More(p) <=> ItemsLeft(p) > 0
           /\ pc[p] \in PcInLock \cup PcFree
           /\ ex[p] \in Nat
<1>1. Len(BenchmarkList[p]) \in Nat
  BY ListLengths
<1>2. i[p] \in 1..(Len(BenchmarkList[p]) + 1)
  BY DEF WorkerTypeOK
<1>3. QED
  BY <1>1, <1>2 DEF ItemsLeft, More, WorkerTypeOK

LEMMA StepsAreNat ==
    ASSUME WorkerTypeOK, NEW p \in Pipelines
    PROVE  /\ StepsLeft(p) \in Nat
           /\ Alive(p) => StepsLeft(p) > 0
<1>1. GoesOn(p) => pc[p] = "run" /\ ItemsLeft(p) > 0
  BY ItemsAreNat DEF GoesOn
<1> HIDE DEF GoesOn
<1>2. QED
  BY <1>1, ItemsAreNat DEF StepsLeft, Alive, PcInLock, PcFree

LEMMA EndIsNearer ==
    ASSUME WorkerTypeOK, NEW p \in Pipelines, Alive(p), pc'[p] \in {"done", "dead"}, ex'[p] = ex[p]
    PROVE  Nearer(p)
<1>1. ~GoesOn(p)'
  BY DEF GoesOn
<1>2. StepsLeft(p)' = 0
  <2> HIDE DEF GoesOn
  <2>1. QED
    BY <1>1 DEF StepsLeft
<1>3. QED
  BY <1>2, StepsAreNat DEF Nearer

LEMMA WorkIsNearer ==
    ASSUME WorkerTypeOK, ItemWaits, MaxTimePerLock > 0,
           NEW p \in Pipelines, Work(p) \/ Raise(p)
    PROVE  Nearer(p)
<1>a. ItemsLeft(p) \in Nat /\ (More(p) <=> ItemsLeft(p) > 0) /\ StepsLeft(p) \in Nat
  BY ItemsAreNat, StepsAreNat
<1>b. ASSUME i'[p] = i[p] PROVE ItemsLeft(p)' = ItemsLeft(p) /\ More(p)' = More(p)
  BY <1>b DEF ItemsLeft, More
<1>c. ASSUME i'[p] = i[p] + 1 PROVE ItemsLeft(p)' = ItemsLeft(p) - 1
  <2>1. Len(BenchmarkList[p]) \in Nat /\ i[p] \in Nat
    BY ListLengths DEF WorkerTypeOK
  <2>2. QED
    BY <1>c, <2>1 DEF ItemsLeft
<1>d. ASSUME ex'[p] = ex[p], StepsLeft(p)' < StepsLeft(p) PROVE Nearer(p)
  BY <1>a, <1>d DEF Nearer
<1>e. pc[p] # "run" => ~GoesOn(p)
  BY DEF GoesOn
<1>f. pc'[p] # "run" => ~GoesOn(p)'
  BY DEF GoesOn
<1>1. CASE Build(p) \/ Wake(p)
  <2>1. NextWindow(p) /\ pc[p] \in {"build", "sleep"}
    BY <1>1 DEF Build, Wake
  <2>2. CASE More(p)
    <3>1. pc'[p] = "lock" /\ UNCHANGED <<ex, i>>
      BY <2>1, <2>2 DEF NextWindow, Goto, WorkerTypeOK
    <3> HIDE DEF GoesOn
    <3>2. QED
      BY <1>a, <1>b, <1>d, <1>e, <1>f, <2>1, <3>1 DEF StepsLeft
  <2>3. CASE ~More(p) /\ ~LastExecutor(p)
    <3>1. ex' = [ex EXCEPT ![p] = @ + 1]
      BY <2>1, <2>3 DEF NextWindow
    <3>2. QED
      BY <3>1 DEF Nearer, WorkerTypeOK
  <2>4. CASE ~More(p) /\ LastExecutor(p)
    <3>1. pc'[p] = "done" /\ UNCHANGED ex
      BY <2>1, <2>4 DEF NextWindow, Goto, WorkerTypeOK
    <3>2. QED
      BY <2>1, <3>1, EndIsNearer DEF Alive
  <2>5. QED
    BY <2>2, <2>3, <2>4
<1>2. CASE Acquire(p)
  <2>1. pc[p] = "lock" /\ pc'[p] = "setup" /\ UNCHANGED <<ex, i>>
    BY <1>2 DEF Acquire, Goto, WorkerTypeOK
  <2> HIDE DEF GoesOn
  <2>2. QED
    BY <1>a, <1>b, <1>d, <1>e, <1>f, <2>1 DEF StepsLeft
<1>3. CASE Timeout(p) \/ PublishRaises(p) \/ Raise(p)
  <2>1. Alive(p) /\ pc'[p] = "dead" /\ UNCHANGED ex
    BY <1>3 DEF Timeout, PublishRaises, Raise, Goto, Alive, WorkerTypeOK
  <2>2. QED
    BY <2>1, EndIsNearer
<1>4. CASE Setup(p)
  <2>1. pc[p] = "setup" /\ pc'[p] = "run" /\ UNCHANGED <<ex, i>> /\ elapse' = 0
    BY <1>4 DEF Setup, Goto, WorkerTypeOK
  <2>2. GoesOn(p)'
    BY <1>b, <2>1 DEF GoesOn, InTime, ItemWaits
  <2> HIDE DEF GoesOn
  <2>3. QED
    BY <1>a, <1>b, <1>d, <1>e, <2>1, <2>2 DEF StepsLeft
<1>5. CASE Skip(p) \/ StartModel(p)
  <2>1. /\ GoesOn(p) /\ pc[p] = "run"
        /\ pc'[p] \in {"run", "exec"} /\ UNCHANGED ex /\ i'[p] = i[p] + 1
    BY <1>5 DEF Skip, StartModel, NextItem, Goto, GoesOn, WorkerTypeOK
  <2>2. ItemsLeft(p)' \in Int /\ ItemsLeft(p)' = ItemsLeft(p) - 1
    BY <1>a, <1>c, <2>1
  <2>3. StepsLeft(p) = 8 * ItemsLeft(p)
    <3> HIDE DEF GoesOn
    <3>1. QED
      BY <2>1 DEF StepsLeft
  <2>4. StepsLeft(p)' <= 8 * ItemsLeft(p)' + 7 /\ StepsLeft(p)' \in Int
    <3> HIDE DEF GoesOn
    <3>1. QED
      BY <2>1, <2>2, <1>f DEF StepsLeft
  <2>5. QED
    BY <1>a, <1>d, <2>1, <2>2, <2>3, <2>4
<1>6. CASE FinishModel(p)
  <2>1. pc[p] = "exec" /\ pc'[p] = "run" /\ UNCHANGED <<ex, i>>
    BY <1>6 DEF FinishModel, Goto, WorkerTypeOK
  <2> HIDE DEF GoesOn
  <2>2. QED
    BY <1>a, <1>b, <1>d, <1>e, <2>1 DEF StepsLeft
<1>7. CASE EndWindow(p)
  <2>1. pc[p] = "run" /\ ~GoesOn(p) /\ pc'[p] = "pull" /\ UNCHANGED <<ex, i>>
    BY <1>7 DEF EndWindow, GoesOn, Goto, WorkerTypeOK
  <2> HIDE DEF GoesOn
  <2>2. QED
    BY <1>a, <1>b, <1>d, <1>f, <2>1 DEF StepsLeft
<1>8. CASE Pull(p) \/ Publish(p)
  <2>1. /\ \/ pc[p] = "pull" /\ pc'[p] = "append"
           \/ pc[p] = "append" /\ pc'[p] = "sleep"
        /\ UNCHANGED <<ex, i>>
    BY <1>8 DEF Pull, Publish, Goto, WorkerTypeOK
  <2> HIDE DEF GoesOn
  <2>2. QED
    BY <1>a, <1>b, <1>d, <1>e, <1>f, <2>1 DEF StepsLeft
<1>9. QED
  BY <1>1, <1>2, <1>3, <1>4, <1>5, <1>6, <1>7, <1>8 DEF Work

\* Others do not set p back: the clock of the window is the holder's.
LEMMA OthersStill ==
    ASSUME WorkerTypeOK, DeviceIsMine, NEW p \in Pipelines, Next, ~(Work(p) \/ Raise(p))
    PROVE  Still(p)
<1>1. ASSUME UNCHANGED <<pc[p], ex[p], i[p]>>, pc[p] = "run" => UNCHANGED elapse
      PROVE  Still(p)
  <2>1. More(p)' = More(p) /\ ItemsLeft(p)' = ItemsLeft(p)
    BY <1>1 DEF More, ItemsLeft
  <2>2. GoesOn(p)' = GoesOn(p)
    BY <1>1, <2>1 DEF GoesOn, InTime
  <2> HIDE DEF GoesOn
  <2>3. QED
    BY <1>1, <2>1, <2>2 DEF Still, StepsLeft
<1>2. CASE OrphanEnds \/ Tick
  BY <1>1, <1>2 DEF OrphanEnds, Tick, worker, clocks
<1>3. ASSUME NEW q \in Pipelines, q # p, Work(q) \/ Raise(q) PROVE Still(p)
  <2>1. CASE Build(q) \/ Wake(q)
    <3>1. NextWindow(q) /\ UNCHANGED elapse
      BY <2>1 DEF Build, Wake
    <3>2. QED
      BY <1>1, <1>3, <3>1, NextWindowFree DEF WorkerTypeOK
  <2>2. CASE Acquire(q) \/ Timeout(q) \/ Skip(q) \/ StartModel(q) \/ EndWindow(q)
             \/ Pull(q) \/ Publish(q) \/ PublishRaises(q) \/ Raise(q)
    BY <1>1, <1>3, <2>2 DEF Acquire, Timeout, Skip, StartModel, NextItem, EndWindow, Pull, Publish,
                            PublishRaises, Raise, Goto, clocks, WorkerTypeOK
  <2>3. CASE Setup(q) \/ FinishModel(q)
    <3>1. pc[q] \in {"setup", "exec"} /\ UNCHANGED <<pc[p], ex[p], i[p]>>
      BY <1>3, <2>3 DEF Setup, FinishModel, Goto, WorkerTypeOK
    <3>2. pc[p] # "run"
      BY <1>3, <3>1 DEF DeviceIsMine, PcInLock
    <3>3. QED
      BY <1>1, <3>1, <3>2
  <2>4. QED
    BY <1>3, <2>1, <2>2, <2>3 DEF Work
<1>4. QED
  BY <1>2, <1>3 DEF Next

\* As long as a window may take any time at all, every step of a worker brings
\* it nearer to the end of its list or to its next executor, and nothing that
\* the others, the device or the clock do sets it back: no list goes on for
\* ever, however the windows cut it (lines 432-522).
THEOREM StepsTheorem ==
    ASSUME MaxTimePerLock > 0
    PROVE  Spec => [][\A p \in Pipelines : IF Work(p) \/ Raise(p) THEN Nearer(p) ELSE Still(p)]_vars
<1> DEFINE Steps == \A p \in Pipelines : IF Work(p) \/ Raise(p) THEN Nearer(p) ELSE Still(p)
<1>1. Init => ItemWaits
  BY DEF Init, ItemWaits
<1>2. WorkerTypeOK /\ DeviceIsMine /\ ItemWaits /\ [Next]_vars => [Steps]_vars
  BY WorkIsNearer, OthersStill
<1>3. Init => WorkerTypeOK /\ DeviceIsMine
  BY TypeInit, DeviceIsMineInit DEF TypeOK
<1>4. QED
  BY <1>1, <1>2, <1>3, ItemWaitsStep, WorkerTypeStep, DeviceIsMineStep, PTL DEF Spec

=============================================================================
