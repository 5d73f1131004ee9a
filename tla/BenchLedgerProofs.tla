------------------------- MODULE BenchLedgerProofs -------------------------
(***************************************************************************)
(* Theorems about what reaches the result files in BenchRun, and the proof *)
(* that the loop of bench_run implements DeviceLease over ssh.             *)
(***************************************************************************)
EXTENDS BenchRunProofs, SequenceTheorems

USE DEF LastExecutor, LockFree, SleepOver, Elapsed, Cleared, Extended, NextItem

LEMMA ConcatAppend ==
    ASSUME NEW S, NEW s \in Seq(S), NEW t \in Seq(S), NEW x \in S
    PROVE  s \o Append(t, x) = Append(s \o t, x)
OBVIOUS

\* As long as every run ends with its worker.
NoOrphans == orphans = {}

LEMMA NoOrphansStep ==
    ASSUME ~MayOrphan
    PROVE  TypeOK /\ NoOrphans /\ [Next]_vars => NoOrphans'
<1> SUFFICES ASSUME NoOrphans, [Next]_vars PROVE NoOrphans'
  OBVIOUS
<1>1. ASSUME NEW p \in Pipelines, Work(p) PROVE UNCHANGED orphans
  BY <1>1 DEF Work, Build, Wake, Acquire, Timeout, Setup, Skip, StartModel, FinishModel,
              EndWindow, Pull, Publish, PublishRaises, files
<1>2. ASSUME NEW p \in Pipelines, Raise(p) PROVE UNCHANGED orphans
  BY <1>2, ~MayOrphan DEF Raise
<1>3. QED
  BY <1>1, <1>2 DEF Next, OrphanEnds, Tick, vars, files, NoOrphans

-----------------------------------------------------------------------------
(***************************************************************************)
(* No line is lost or repeated while pulls succeed.  LedgerInv says where  *)
(* the lines of a window are at every point of it: in result.txt until the *)
(* pull, in the copy until the copy is appended.                           *)
(***************************************************************************)

Accounted(p) ==
    /\ pc[p] \in {"build", "lock", "setup", "sleep", "done"} => dest[p] = logged[p]
    /\ pc[p] \in {"run", "exec", "pull"} => dest[p] \o result = logged[p]
    /\ pc[p] = "append" => dest[p] \o tmp[p] = logged[p]

LedgerInv ==
    /\ NoOrphans
    /\ \A p \in Pipelines : p \notin unpulled => Accounted(p)

LEMMA LedgerInit == Init => LedgerInv
BY DEF Init, LedgerInv, NoOrphans, Accounted

LEMMA LedgerStep ==
    ASSUME ~MayOrphan
    PROVE  TypeOK /\ DeviceIsMine /\ LedgerInv /\ [Next]_vars => LedgerInv'
<1> SUFFICES ASSUME TypeOK, DeviceIsMine, LedgerInv, [Next]_vars PROVE LedgerInv'
  OBVIOUS
<1> USE DEF TypeOK
<1>0. NoOrphans'
  BY NoOrphansStep, ~MayOrphan DEF LedgerInv
<1> SUFFICES ASSUME NEW q \in Pipelines, q \notin unpulled' PROVE Accounted(q)'
  BY <1>0 DEF LedgerInv
\* A step that leaves q, its files and the device's file alone, and does not
\* make up for a pull that failed.
<1>1. ASSUME unpulled \subseteq unpulled', pc'[q] = pc[q],
             dest'[q] = dest[q], tmp'[q] = tmp[q], logged'[q] = logged[q],
             holder = q => result' = result
      PROVE  Accounted(q)'
  <2>1. Accounted(q)
    BY <1>1 DEF LedgerInv
  <2>2. pc[q] \in {"run", "exec", "pull"} => result' = result
    BY <1>1 DEF DeviceIsMine, PcInLock
  <2>3. QED
    BY <1>1, <2>1, <2>2 DEF Accounted
<1>2. ASSUME NEW p \in Pipelines, Build(p) \/ Wake(p) PROVE Accounted(q)'
  <2>1. /\ NextWindow(p) /\ pc[p] \in {"build", "sleep"}
        /\ UNCHANGED <<result, tmp, dest, logged, unpulled>>
    BY <1>2 DEF Build, Wake, files, history
  <2>2. CASE p = q
    BY <2>1, <2>2, NextWindowFree DEF LedgerInv, Accounted
  <2>3. CASE p # q
    BY <2>1, <2>3, <1>1, NextWindowFree DEF WorkerTypeOK
  <2>4. QED
    BY <2>2, <2>3
<1>3. ASSUME NEW p \in Pipelines, Acquire(p) \/ Timeout(p) PROVE Accounted(q)'
  <2>1. UNCHANGED <<result, tmp, dest, logged, unpulled>>
        /\ pc' = [pc EXCEPT ![p] = pc'[p]]
    BY <1>3 DEF Acquire, Timeout, Goto, files, history, WorkerTypeOK
  <2>2. CASE p = q
    BY <1>3, <2>1, <2>2 DEF Acquire, Timeout, Goto, LedgerInv, Accounted, WorkerTypeOK
  <2>3. CASE p # q
    BY <2>1, <2>3, <1>1 DEF WorkerTypeOK
  <2>4. QED
    BY <2>2, <2>3
<1>4. ASSUME NEW p \in Pipelines, Setup(p) PROVE Accounted(q)'
  <2>1. holder = p /\ UNCHANGED <<tmp, dest, logged, unpulled>> /\ result' = <<>>
    BY <1>4 DEF Setup, history, DeviceIsMine, PcInLock
  <2>2. CASE p = q
    <3>1. dest[q] = logged[q] /\ dest[q] \in Seq(Line) /\ pc'[q] = "run"
      BY <1>4, <2>1, <2>2 DEF Setup, Goto, LedgerInv, Accounted, WorkerTypeOK, FileTypeOK
    <3>2. dest[q] \o <<>> = dest[q]
      BY <3>1, ConcatEmptySeq
    <3>3. QED
      BY <2>1, <3>1, <3>2 DEF Accounted
  <2>3. CASE p # q
    BY <1>4, <2>1, <2>3, <1>1 DEF Setup, Goto, WorkerTypeOK
  <2>4. QED
    BY <2>2, <2>3
<1>5. ASSUME NEW p \in Pipelines, Skip(p) \/ StartModel(p) \/ EndWindow(p)
      PROVE  Accounted(q)'
  <2>1. UNCHANGED <<result, tmp, dest, logged, unpulled>>
        /\ pc[p] = "run" /\ pc'[p] \in {"run", "exec", "pull"} /\ pc' = [pc EXCEPT ![p] = pc'[p]]
    BY <1>5 DEF Skip, StartModel, EndWindow, Goto, files, history, WorkerTypeOK
  <2>2. CASE p = q
    BY <2>1, <2>2 DEF LedgerInv, Accounted
  <2>3. CASE p # q
    BY <2>1, <2>3, <1>1 DEF WorkerTypeOK
  <2>4. QED
    BY <2>2, <2>3
<1>6. ASSUME NEW p \in Pipelines, FinishModel(p) PROVE Accounted(q)'
  <2>1. /\ holder = p /\ UNCHANGED <<tmp, dest, unpulled>>
        /\ pc[p] = "exec" /\ pc'[p] = "run" /\ pc' = [pc EXCEPT ![p] = "run"]
    BY <1>6 DEF FinishModel, Goto, DeviceIsMine, PcInLock, WorkerTypeOK
  <2>2. CASE p = q
    <3>1. dest[q] \o result = logged[q] /\ dest'[q] = dest[q]
      BY <2>1, <2>2 DEF LedgerInv, Accounted
    <3>2. CASE UNCHANGED <<result, logged>>
      BY <2>1, <2>2, <3>1, <3>2 DEF Accounted
    <3>3. CASE /\ result' = Append(result, Current(p))
               /\ logged' = [logged EXCEPT ![p] = Append(@, Current(p))]
      <4>1. /\ dest[q] \in Seq(Line) /\ result \in Seq(Line) /\ Current(p) \in Line
            /\ logged'[q] = Append(logged[q], Current(p))
        BY <3>3, <2>2, CurrentIsLine DEF FileTypeOK
      <4>2. dest[q] \o Append(result, Current(p)) = Append(dest[q] \o result, Current(p))
        <5>1. \A s, t \in Seq(Line) : \A x \in Line : s \o Append(t, x) = Append(s \o t, x)
          BY ConcatAppend
        <5>2. QED
          BY <4>1, <5>1
      <4>3. QED
        BY <2>1, <2>2, <3>1, <3>3, <4>1, <4>2 DEF Accounted
    <3>4. QED
      BY <1>6, <3>2, <3>3 DEF FinishModel
  <2>3. CASE p # q
    <3>1. logged'[q] = logged[q]
      BY <1>6, <2>3 DEF FinishModel, FileTypeOK
    <3>2. QED
      BY <2>1, <2>3, <3>1, <1>1 DEF WorkerTypeOK
  <2>4. QED
    BY <2>2, <2>3
<1>7. ASSUME NEW p \in Pipelines, Pull(p) PROVE Accounted(q)'
  <2>1. /\ holder = p /\ UNCHANGED <<result, dest, logged>>
        /\ pc[p] = "pull" /\ pc' = [pc EXCEPT ![p] = "append"]
        /\ unpulled \subseteq unpulled'
    BY <1>7 DEF Pull, Goto, DeviceIsMine, PcInLock
  <2>2. CASE p = q
    <3>1. tmp' = [tmp EXCEPT ![p] = result]
      BY <1>7, <2>2 DEF Pull, Copy
    <3>2. tmp'[q] = result /\ pc'[q] = "append"
      BY <3>1, <2>1, <2>2 DEF FileTypeOK, WorkerTypeOK
    <3>3. dest[q] \o result = logged[q]
      BY <2>1, <2>2 DEF LedgerInv, Accounted
    <3>4. QED
      BY <2>1, <3>2, <3>3 DEF Accounted
  <2>3. CASE p # q
    <3>1. tmp'[q] = tmp[q] /\ pc'[q] = pc[q]
      BY <1>7, <2>1, <2>3 DEF Pull, PullFails, Copy, FileTypeOK, WorkerTypeOK
    <3>2. QED
      BY <2>1, <3>1, <1>1
  <2>4. QED
    BY <2>2, <2>3
<1>8. ASSUME NEW p \in Pipelines, Publish(p) PROVE Accounted(q)'
  <2>1. /\ UNCHANGED <<result, tmp, logged, unpulled>>
        /\ dest' = [dest EXCEPT ![p] = @ \o tmp[p]]
        /\ pc[p] = "append" /\ pc' = [pc EXCEPT ![p] = "sleep"]
    BY <1>8 DEF Publish, Goto, history
  <2>2. CASE p = q
    <3>1. dest'[q] = dest[q] \o tmp[q] /\ pc'[q] = "sleep"
      BY <2>1, <2>2 DEF FileTypeOK, WorkerTypeOK
    <3>2. QED
      BY <2>1, <2>2, <3>1 DEF LedgerInv, Accounted
  <2>3. CASE p # q
    BY <2>1, <2>3, <1>1 DEF FileTypeOK, WorkerTypeOK
  <2>4. QED
    BY <2>2, <2>3
<1>9. ASSUME NEW p \in Pipelines, PublishRaises(p) \/ Raise(p) PROVE Accounted(q)'
  <2>1. UNCHANGED <<result, tmp, dest, logged, unpulled>> /\ pc' = [pc EXCEPT ![p] = "dead"]
    BY <1>9 DEF PublishRaises, Raise, Goto, files, history
  <2>2. CASE p = q
    BY <2>1, <2>2 DEF Accounted, WorkerTypeOK
  <2>3. CASE p # q
    BY <2>1, <2>3, <1>1 DEF WorkerTypeOK
  <2>4. QED
    BY <2>2, <2>3
<1>10. CASE OrphanEnds
  BY <1>10 DEF OrphanEnds, LedgerInv, NoOrphans
<1>11. CASE Tick \/ UNCHANGED vars
  BY <1>11, <1>1 DEF Tick, vars, worker, files, history
<1>12. QED
  BY <1>2, <1>3, <1>4, <1>5, <1>6, <1>7, <1>8, <1>9, <1>10, <1>11 DEF Next, Work

\* A pipeline whose pulls succeed reports each line its runs logged, once and
\* in order, whatever the other pipelines do on the device and however they
\* end (bench_run, lines 452-454 and 516-520).
THEOREM LedgerTheorem == Spec => []LedgerExact
<1>1. Init => TypeOK /\ DeviceIsMine /\ LedgerInv
  BY TypeInit, DeviceIsMineInit, LedgerInit
<1>2. TypeOK /\ DeviceIsMine /\ [Next]_vars => (TypeOK /\ DeviceIsMine)'
  BY WorkerTypeStep, ClockTypeStep, FileTypeStep, DeviceIsMineStep DEF TypeOK
<1>3. CASE ~MayOrphan
  <2>1. TypeOK /\ DeviceIsMine /\ LedgerInv /\ [Next]_vars => LedgerInv'
    BY <1>3, LedgerStep
  <2>2. LedgerInv => LedgerExact
    BY DEF LedgerInv, LedgerExact, Accounted, PcFree
  <2>3. QED
    BY <1>1, <1>2, <2>1, <2>2, PTL DEF Spec
<1>4. CASE MayOrphan
  <2>1. LedgerExact
    BY <1>4 DEF LedgerExact
  <2>2. QED
    BY <2>1, PTL
<1>5. QED
  BY <1>3, <1>4

-----------------------------------------------------------------------------
(***************************************************************************)
(* No run is logged twice: the lines of a pipeline are behind the place it *)
(* has come to, and while a model runs, behind the line of that model.     *)
(***************************************************************************)

Behind(p, l) ==
    /\ \/ l.e < ex[p]
       \/ l.e = ex[p] /\ l.i < i[p]
    /\ pc[p] = "exec" => Before(l, Current(p))

OrderInv == \A p \in Pipelines : \A k \in 1..Len(logged[p]) : Behind(p, logged[p][k])

LEMMA LineFields ==
    ASSUME NEW l \in Line
    PROVE  l.p \in Pipelines /\ l.e \in Nat /\ l.i \in Nat
BY ListLengths DEF Line

LEMMA LoggedLine ==
    ASSUME FileTypeOK, NEW p \in Pipelines, NEW k \in 1..Len(logged[p])
    PROVE  /\ logged[p] \in Seq(Line) /\ Len(logged[p]) \in Nat
           /\ logged[p][k] \in Line
<1>1. logged[p] \in Seq(Line)
  BY DEF FileTypeOK
<1>2. QED
  BY <1>1, ElementOfSeq

LEMMA OrderInit == Init => OrderInv /\ LoggedOnce
BY DEF Init, OrderInv, LoggedOnce, InOrder

\* A step on the way through executors and items leaves behind what was behind.
LEMMA BehindKept ==
    ASSUME TypeOK, NEW p \in Pipelines, NEW l \in Line, Behind(p, l),
           \/ ex'[p] = ex[p] + 1
           \/ ex'[p] = ex[p] /\ i'[p] = i[p]
           \/ ex'[p] = ex[p] /\ i'[p] = i[p] + 1,
           pc'[p] = "exec" => \/ ex'[p] = ex[p] /\ i'[p] = i[p] /\ pc[p] = "exec"
                              \/ ex'[p] = ex[p] /\ i'[p] = i[p] + 1
    PROVE  Behind(p, l)'
<1>1. l.e \in Nat /\ l.i \in Nat /\ ex[p] \in Nat /\ i[p] \in Nat
  BY LineFields DEF TypeOK, WorkerTypeOK
<1>2. /\ Current(p).e = ex[p] /\ Current(p).i = i[p] - 1
      /\ Current(p)'.e = ex'[p] /\ Current(p)'.i = i'[p] - 1
  BY DEF Current
<1>3. QED
  BY <1>1, <1>2 DEF Behind, Before

LEMMA OrderStep == TypeOK /\ OrderInv /\ LoggedOnce /\ [Next]_vars => (OrderInv /\ LoggedOnce)'
<1> SUFFICES ASSUME TypeOK, OrderInv, LoggedOnce, [Next]_vars PROVE (OrderInv /\ LoggedOnce)'
  OBVIOUS
<1>1. ASSUME logged' = logged,
             \A q \in Pipelines :
                /\ \/ ex'[q] = ex[q] + 1
                   \/ ex'[q] = ex[q] /\ i'[q] = i[q]
                   \/ ex'[q] = ex[q] /\ i'[q] = i[q] + 1
                /\ pc'[q] = "exec" => \/ ex'[q] = ex[q] /\ i'[q] = i[q] /\ pc[q] = "exec"
                                      \/ ex'[q] = ex[q] /\ i'[q] = i[q] + 1
      PROVE  (OrderInv /\ LoggedOnce)'
  <2>1. OrderInv'
    <3> SUFFICES ASSUME NEW q \in Pipelines, NEW k \in 1..Len(logged[q])
                 PROVE  Behind(q, logged[q][k])'
      BY <1>1 DEF OrderInv
    <3>1. logged[q][k] \in Line /\ Behind(q, logged[q][k])
      BY LoggedLine DEF OrderInv, TypeOK
    <3>2. ASSUME NEW l \in Line, Behind(q, l) PROVE Behind(q, l)'
      BY <1>1, <3>2, BehindKept
    <3>3. QED
      BY <1>1, <3>1, <3>2 DEF Behind
  <2>2. LoggedOnce'
    BY <1>1 DEF LoggedOnce
  <2>3. QED
    BY <2>1, <2>2
<1>2. ASSUME NEW p \in Pipelines, Build(p) \/ Wake(p) PROVE (OrderInv /\ LoggedOnce)'
  <2>1. NextWindow(p) /\ logged' = logged
    BY <1>2 DEF Build, Wake, history
  <2>2. ASSUME NEW q \in Pipelines
        PROVE  /\ \/ ex'[q] = ex[q] + 1
                  \/ ex'[q] = ex[q] /\ i'[q] = i[q]
               /\ pc'[q] = "exec" => q # p
    BY <2>1 DEF NextWindow, Goto, TypeOK, WorkerTypeOK
  <2>3. ASSUME NEW q \in Pipelines, q # p
        PROVE  ex'[q] = ex[q] /\ i'[q] = i[q] /\ pc'[q] = pc[q]
    BY <2>1, <2>3, NextWindowFree DEF TypeOK, WorkerTypeOK
  <2>4. QED
    BY <2>1, <2>2, <2>3, <1>1
<1>3. ASSUME NEW p \in Pipelines, Skip(p) \/ StartModel(p) PROVE (OrderInv /\ LoggedOnce)'
  <2>1. /\ logged' = logged /\ ex' = ex /\ i' = [i EXCEPT ![p] = @ + 1]
        /\ pc' = [pc EXCEPT ![p] = pc'[p]]
    BY <1>3 DEF Skip, StartModel, Goto, history, TypeOK, WorkerTypeOK
  <2>2. ASSUME NEW q \in Pipelines
        PROVE  ex'[q] = ex[q] /\ (q = p => i'[q] = i[q] + 1) /\ (q # p => i'[q] = i[q] /\ pc'[q] = pc[q])
    BY <2>1 DEF TypeOK, WorkerTypeOK
  <2>3. QED
    BY <2>1, <2>2, <1>1
<1>4. ASSUME NEW p \in Pipelines,
             Acquire(p) \/ Timeout(p) \/ Setup(p) \/ EndWindow(p) \/ Pull(p)
             \/ Publish(p) \/ PublishRaises(p) \/ Raise(p)
      PROVE  (OrderInv /\ LoggedOnce)'
  <2>1. UNCHANGED <<ex, i, logged>> /\ pc' = [pc EXCEPT ![p] = pc'[p]] /\ pc'[p] # "exec"
    BY <1>4 DEF Acquire, Timeout, Setup, EndWindow, Pull, Publish, PublishRaises, Raise, Goto,
                history, TypeOK, WorkerTypeOK
  <2>2. \A q \in Pipelines : pc'[q] = "exec" => pc[q] = "exec"
    BY <2>1 DEF TypeOK, WorkerTypeOK
  <2>3. QED
    BY <2>1, <2>2, <1>1
<1>5. ASSUME NEW p \in Pipelines, FinishModel(p) PROVE (OrderInv /\ LoggedOnce)'
  <2>1. UNCHANGED <<ex, i>> /\ pc' = [pc EXCEPT ![p] = "run"] /\ pc[p] = "exec"
    BY <1>5 DEF FinishModel, Goto
  <2>2. \A q \in Pipelines : pc'[q] = "exec" => pc[q] = "exec" /\ q # p
    BY <2>1 DEF TypeOK, WorkerTypeOK
  <2>3. CASE logged' = logged
    BY <2>1, <2>2, <2>3, <1>1
  <2>4. CASE logged' = [logged EXCEPT ![p] = Append(@, Current(p))]
    <3>1. ASSUME NEW q \in Pipelines, q # p
          PROVE  /\ logged'[q] = logged[q] /\ pc'[q] = pc[q]
                 /\ ex'[q] = ex[q] /\ i'[q] = i[q] /\ Current(q)' = Current(q)
      BY <3>1, <2>1, <2>4 DEF Current, TypeOK, WorkerTypeOK, FileTypeOK
    <3>2. /\ logged[p] \in Seq(Line) /\ Len(logged[p]) \in Nat /\ Current(p) \in Line
          /\ logged'[p] = Append(logged[p], Current(p))
      BY <2>4, CurrentIsLine DEF TypeOK, FileTypeOK
    <3>3. /\ Len(logged'[p]) = Len(logged[p]) + 1
          /\ \A k \in 1..Len(logged[p]) : logged'[p][k] = logged[p][k]
          /\ logged'[p][Len(logged[p]) + 1] = Current(p)
      BY <3>2, AppendProperties
    <3>4. Current(p).e = ex[p] /\ Current(p).i = i[p] - 1 /\ i[p] \in Nat
      BY DEF Current, TypeOK, WorkerTypeOK
    <3>5. OrderInv'
      <4> SUFFICES ASSUME NEW q \in Pipelines, NEW k \in 1..Len(logged'[q])
                   PROVE  /\ \/ logged'[q][k].e < ex'[q]
                             \/ logged'[q][k].e = ex'[q] /\ logged'[q][k].i < i'[q]
                          /\ pc'[q] = "exec" => Before(logged'[q][k], Current(q)')
        BY DEF OrderInv, Behind
      <4>1. CASE q # p
        BY <4>1, <3>1 DEF OrderInv, Behind
      <4>2. CASE q = p /\ k \in 1..Len(logged[p])
        BY <4>2, <3>3, <2>1, <2>2 DEF OrderInv, Behind
      <4>3. CASE q = p /\ k = Len(logged[p]) + 1
        BY <4>3, <3>3, <3>4, <2>1, <2>2
      <4>4. QED
        BY <4>1, <4>2, <4>3, <3>2, <3>3
    <3>6. LoggedOnce'
      <4> SUFFICES ASSUME NEW q \in Pipelines, NEW k \in 1..Len(logged'[q]), NEW j \in 1..(k - 1)
                   PROVE  Before(logged'[q][j], logged'[q][k])
        BY DEF LoggedOnce, InOrder
      <4>1. CASE q # p
        BY <4>1, <3>1 DEF LoggedOnce, InOrder
      <4>2. CASE q = p /\ k \in 1..Len(logged[p])
        <5>1. j \in 1..Len(logged[p])
          BY <4>2, <3>2
        <5>2. QED
          BY <4>2, <5>1, <3>3 DEF LoggedOnce, InOrder
      <4>3. CASE q = p /\ k = Len(logged[p]) + 1
        <5>1. j \in 1..Len(logged[p])
          BY <4>3, <3>2
        <5>2. Before(logged[p][j], Current(p))
          BY <5>1, <2>1 DEF OrderInv, Behind
        <5>3. QED
          BY <4>3, <5>1, <5>2, <3>3
      <4>4. QED
        BY <4>1, <4>2, <4>3, <3>2, <3>3
    <3>7. QED
      BY <3>5, <3>6
  <2>5. QED
    BY <1>5, <2>3, <2>4 DEF FinishModel
<1>6. CASE OrphanEnds \/ Tick \/ UNCHANGED vars
  <2>1. UNCHANGED <<pc, ex, i, logged>>
    BY <1>6 DEF OrphanEnds, Tick, vars, worker, history
  <2>2. QED
    BY <2>1, <1>1
<1>7. QED
  BY <1>2, <1>3, <1>4, <1>5, <1>6 DEF Next, Work

\* No run of a model is logged twice, however the windows cut the list into
\* pieces (bench_run, lines 429-431 and 478-485).
THEOREM OrderTheorem == Spec => []LoggedOnce
<1>1. Init => TypeOK /\ OrderInv /\ LoggedOnce
  BY TypeInit, OrderInit
<1>2. TypeOK /\ OrderInv /\ LoggedOnce /\ [Next]_vars => (TypeOK /\ OrderInv /\ LoggedOnce)'
  BY WorkerTypeStep, ClockTypeStep, FileTypeStep, OrderStep DEF TypeOK
<1>3. QED
  BY <1>1, <1>2, PTL DEF Spec

-----------------------------------------------------------------------------
(***************************************************************************)
(* Whose lines a pipeline reports.  OwnInv follows a line from the device  *)
(* to the result file.                                                     *)
(***************************************************************************)

In(l, file) == \E k \in 1..Len(file) : file[k] = l

OwnInv ==
    /\ \A l \in orphans : MayOrphan /\ pc[l.p] = "dead" /\ l = Current(l.p)
    /\ \A p \in Pipelines : \A l \in Line :
          \/ In(l, dest[p])
          \/ In(l, tmp[p])
          \/ pc[p] \in {"run", "exec", "pull"} /\ In(l, result)
          => MayReport(p, l)

LEMMA InEmpty == \A l : ~In(l, <<>>)
BY DEF In

LEMMA InSingle == \A l, m : In(l, <<m>>) => l = m
BY DEF In

LEMMA InConcat ==
    ASSUME NEW f \in Seq(Line), NEW g \in Seq(Line), NEW l, In(l, f \o g)
    PROVE  In(l, f) \/ In(l, g)
<1>1. PICK k \in 1..Len(f \o g) : (f \o g)[k] = l
  BY DEF In
<1>2. /\ k \in 1..(Len(f) + Len(g))
      /\ (f \o g)[k] = IF k <= Len(f) THEN f[k] ELSE g[k - Len(f)]
      /\ Len(f) \in Nat /\ Len(g) \in Nat
  BY ConcatProperties, LenProperties
<1>3. QED
  BY <1>1, <1>2 DEF In

LEMMA InAppend ==
    ASSUME NEW f \in Seq(Line), NEW m \in Line, NEW l, In(l, Append(f, m))
    PROVE  In(l, f) \/ l = m
<1>1. PICK k \in 1..Len(Append(f, m)) : Append(f, m)[k] = l
  BY DEF In
<1>2. /\ Len(Append(f, m)) = Len(f) + 1 /\ Len(f) \in Nat
      /\ \A j \in 1..Len(f) : Append(f, m)[j] = f[j]
      /\ Append(f, m)[Len(f) + 1] = m
  BY AppendProperties, LenProperties
<1>3. QED
  BY <1>1, <1>2 DEF In

\* The lines of runs are whole.
LEMMA WholeLines ==
    \A p \in Pipelines : Whole(Current(p)) = Current(p) /\ Whole(Earlier(p)) = Earlier(p)
<1>1. ASSUME NEW P, NEW E, NEW I, NEW m \in [p : P, e : E, i : I, whole : BOOLEAN],
             m.whole = TRUE
      PROVE  Whole(m) = m
  BY <1>1 DEF Whole
<1>2. ASSUME NEW p, NEW e, NEW k
      PROVE  Whole([p |-> p, e |-> e, i |-> k, whole |-> TRUE])
             = [p |-> p, e |-> e, i |-> k, whole |-> TRUE]
  <2> DEFINE m == [p |-> p, e |-> e, i |-> k, whole |-> TRUE]
             P == {p}
             E == {e}
             I == {k}
  <2>1. m \in [p : P, e : E, i : I, whole : BOOLEAN] /\ m.whole = TRUE
    OBVIOUS
  <2> HIDE DEF m, P, E, I
  <2>2. Whole(m) = m
    BY <2>1, <1>1
  <2>3. QED
    BY <2>2 DEF m
<1>3. QED
  BY <1>2 DEF Current, Earlier

LEMMA OwnInit == Init => OwnInv
<1> SUFFICES ASSUME Init, NEW p \in Pipelines, NEW l \in Line, In(l, tmp[p])
             PROVE  MayReport(p, l)
  BY InEmpty DEF Init, OwnInv
<1>1. tmp[p] = <<>> \/ (EarlierFile /\ tmp[p] = <<Earlier(p)>>)
  BY DEF Init
<1>2. EarlierFile /\ l = Earlier(p)
  BY <1>1, InEmpty, InSingle
<1>3. QED
  BY <1>2, WholeLines DEF MayReport

\* A dead worker stays where it died.
LEMMA DeadStays ==
    ASSUME WorkerTypeOK, [Next]_vars, NEW p \in Pipelines, pc[p] = "dead"
    PROVE  pc'[p] = "dead" /\ Current(p)' = Current(p)
<1> SUFFICES pc'[p] = "dead" /\ ex'[p] = ex[p] /\ i'[p] = i[p]
  BY DEF Current
<1>1. ASSUME NEW q \in Pipelines, Build(q) \/ Wake(q)
      PROVE  pc'[p] = "dead" /\ ex'[p] = ex[p] /\ i'[p] = i[p]
  <2>1. NextWindow(q) /\ q # p
    BY <1>1 DEF Build, Wake
  <2>2. QED
    BY <2>1, NextWindowFree DEF WorkerTypeOK
<1>2. ASSUME NEW q \in Pipelines, Acquire(q) \/ Timeout(q) \/ Setup(q) \/ Skip(q) \/ StartModel(q)
                                  \/ FinishModel(q) \/ EndWindow(q)
      PROVE  pc'[p] = "dead" /\ ex'[p] = ex[p] /\ i'[p] = i[p]
  BY <1>2 DEF Acquire, Timeout, Setup, Skip, StartModel, FinishModel, EndWindow, Goto, WorkerTypeOK
<1>3. ASSUME NEW q \in Pipelines, Pull(q) \/ Publish(q) \/ PublishRaises(q) \/ Raise(q)
      PROVE  pc'[p] = "dead" /\ ex'[p] = ex[p] /\ i'[p] = i[p]
  BY <1>3 DEF Pull, Publish, PublishRaises, Raise, Goto, WorkerTypeOK
<1>4. CASE OrphanEnds \/ Tick \/ UNCHANGED vars
  BY <1>4 DEF OrphanEnds, Tick, vars, worker
<1>5. QED
  BY <1>1, <1>2, <1>3, <1>4 DEF Next, Work

\* Only FinishModel logs, and it adds its line to the lines there are.
LEMMA LoggedGrows ==
    ASSUME TypeOK, [Next]_vars, NEW p \in Pipelines, NEW k \in 1..Len(logged[p])
    PROVE  k \in 1..Len(logged'[p]) /\ logged'[p][k] = logged[p][k]
<1>1. CASE logged' = logged
  BY <1>1
<1>2. ASSUME NEW q \in Pipelines, logged' = [logged EXCEPT ![q] = Append(@, Current(q))]
      PROVE  k \in 1..Len(logged'[p]) /\ logged'[p][k] = logged[p][k]
  <2>1. logged[p] \in Seq(Line) /\ Len(logged[p]) \in Nat /\ Current(p) \in Line
    BY CurrentIsLine DEF TypeOK, FileTypeOK
  <2>2. CASE q = p
    <3>1. logged'[p] = Append(logged[p], Current(p))
      BY <1>2, <2>2 DEF TypeOK, FileTypeOK
    <3>2. QED
      BY <2>1, <3>1, AppendProperties
  <2>3. CASE q # p
    BY <1>2, <2>3 DEF TypeOK, FileTypeOK
  <2>4. QED
    BY <2>2, <2>3
<1>3. \/ logged' = logged
      \/ \E q \in Pipelines : logged' = [logged EXCEPT ![q] = Append(@, Current(q))]
  <2>1. ASSUME NEW q \in Pipelines, FinishModel(q)
        PROVE  \/ logged' = logged
               \/ logged' = [logged EXCEPT ![q] = Append(@, Current(q))]
    BY <2>1 DEF FinishModel
  <2>2. ASSUME NEW q \in Pipelines, Work(q), ~FinishModel(q) PROVE logged' = logged
    BY <2>2 DEF Work, Build, Wake, Acquire, Timeout, Setup, Skip, StartModel, EndWindow,
                Pull, Publish, PublishRaises, history
  <2>3. CASE OrphanEnds \/ Tick \/ UNCHANGED vars \/ \E q \in Pipelines : Raise(q)
    BY <2>3 DEF OrphanEnds, Tick, vars, Raise, history
  <2>4. QED
    BY <2>1, <2>2, <2>3 DEF Next
<1>4. QED
  BY <1>1, <1>2, <1>3

\* What a pipeline may report it may report ever after.
LEMMA MayReportStays ==
    ASSUME TypeOK, [Next]_vars, NEW p \in Pipelines, NEW l \in Line, MayReport(p, l)
    PROVE  MayReport(p, l)'
<1>1. CASE \E k \in 1..Len(logged[p]) : logged[p][k] = Whole(l)
  BY <1>1, LoggedGrows DEF MayReport
<1>2. CASE EarlierFile /\ Whole(l) = Earlier(p)
  BY <1>2 DEF MayReport, Earlier
<1>3. CASE MayOrphan /\ pc[l.p] = "dead" /\ Whole(l) = Current(l.p)
  <2>1. l.p \in Pipelines
    BY LineFields
  <2>2. QED
    BY <1>3, <2>1, DeadStays DEF MayReport, TypeOK
<1>4. QED
  BY <1>1, <1>2, <1>3 DEF MayReport

LEMMA OwnStep == TypeOK /\ DeviceIsMine /\ OwnInv /\ [Next]_vars => OwnInv'
<1> SUFFICES ASSUME TypeOK, DeviceIsMine, OwnInv, [Next]_vars PROVE OwnInv'
  OBVIOUS
<1>1. ASSUME NEW q \in Pipelines, NEW l \in Line, MayReport(q, l) PROVE MayReport(q, l)'
  BY <1>1, MayReportStays
<1>2. ASSUME NEW l \in orphans PROVE (MayOrphan /\ pc[l.p] = "dead" /\ l = Current(l.p))'
  <2>1. l \in Line /\ MayOrphan /\ pc[l.p] = "dead" /\ l = Current(l.p)
    BY DEF OwnInv, TypeOK, FileTypeOK
  <2>2. l.p \in Pipelines
    BY <2>1, LineFields
  <2>3. QED
    BY <2>1, <2>2, DeadStays DEF TypeOK
\* A step that leaves the files of q alone.
<1>3. ASSUME NEW q \in Pipelines, NEW l \in Line, dest'[q] = dest[q], tmp'[q] = tmp[q],
             \/ In(l, dest'[q])
             \/ In(l, tmp'[q])
             \/ pc'[q] \in {"run", "exec", "pull"} /\ In(l, result'),
             pc'[q] \in {"run", "exec", "pull"} =>
                result' = result /\ pc[q] \in {"run", "exec", "pull"}
      PROVE  MayReport(q, l)'
  BY <1>3, <1>1 DEF OwnInv
<1>4. ASSUME orphans' \subseteq orphans,
             \A q \in Pipelines :
                /\ dest'[q] = dest[q] /\ tmp'[q] = tmp[q]
                /\ pc'[q] \in {"run", "exec", "pull"} =>
                      result' = result /\ pc[q] \in {"run", "exec", "pull"}
      PROVE  OwnInv'
  <2>1. \A l \in orphans' : (MayOrphan /\ pc[l.p] = "dead" /\ l = Current(l.p))'
    BY <1>4, <1>2
  <2>2. \A q \in Pipelines : \A l \in Line :
          \/ In(l, dest'[q])
          \/ In(l, tmp'[q])
          \/ pc'[q] \in {"run", "exec", "pull"} /\ In(l, result')
          => MayReport(q, l)'
    BY <1>4, <1>3
  <2>3. QED
    BY <2>1, <2>2 DEF OwnInv
<1>5. ASSUME NEW p \in Pipelines, Build(p) \/ Wake(p) PROVE OwnInv'
  <2>1. NextWindow(p) /\ UNCHANGED <<result, tmp, dest, orphans>>
    BY <1>5 DEF Build, Wake, files
  <2>2. \A q \in Pipelines : pc'[q] \in {"run", "exec", "pull"} => pc[q] = pc'[q]
    BY <2>1, NextWindowFree DEF TypeOK, WorkerTypeOK
  <2>3. QED
    BY <2>1, <2>2, <1>4
<1>6. ASSUME NEW p \in Pipelines,
             Acquire(p) \/ Timeout(p) \/ Skip(p) \/ StartModel(p) \/ EndWindow(p) \/ PublishRaises(p)
      PROVE  OwnInv'
  <2>1. UNCHANGED <<result, tmp, dest, orphans>> /\ pc' = [pc EXCEPT ![p] = pc'[p]]
        /\ (pc'[p] \in {"run", "exec", "pull"} => pc[p] = "run")
    BY <1>6 DEF Acquire, Timeout, Skip, StartModel, EndWindow, PublishRaises, Goto, files,
                TypeOK, WorkerTypeOK
  <2>2. \A q \in Pipelines : q # p => pc'[q] = pc[q]
    BY <2>1 DEF TypeOK, WorkerTypeOK
  <2>3. QED
    BY <2>1, <2>2, <1>4
<1>7. ASSUME NEW p \in Pipelines, Setup(p) PROVE OwnInv'
  <2>1. /\ UNCHANGED <<tmp, dest, orphans>> /\ result' = <<>>
        /\ pc' = [pc EXCEPT ![p] = "run"] /\ holder = p
    BY <1>7 DEF Setup, Goto, DeviceIsMine, PcInLock
  <2>2. ASSUME NEW q \in Pipelines, NEW l \in Line,
               \/ In(l, dest'[q])
               \/ In(l, tmp'[q])
               \/ pc'[q] \in {"run", "exec", "pull"} /\ In(l, result')
        PROVE  MayReport(q, l)'
    BY <2>1, <2>2, <1>1, InEmpty DEF OwnInv
  <2>3. QED
    BY <2>1, <2>2, <1>2 DEF OwnInv
<1>8. ASSUME NEW p \in Pipelines, FinishModel(p) PROVE OwnInv'
  <2>1. /\ UNCHANGED <<tmp, dest, orphans>>
        /\ pc' = [pc EXCEPT ![p] = "run"] /\ holder = p /\ pc[p] = "exec"
    BY <1>8 DEF FinishModel, Goto, DeviceIsMine, PcInLock
  <2>2. CASE UNCHANGED <<result, logged>>
    <3>1. \A q \in Pipelines : pc'[q] \in {"run", "exec", "pull"}
                               => pc[q] \in {"run", "exec", "pull"}
      BY <2>1 DEF TypeOK, WorkerTypeOK
    <3>2. QED
      BY <2>1, <2>2, <3>1, <1>4
  <2>3. CASE /\ result' = Append(result, Current(p))
             /\ logged' = [logged EXCEPT ![p] = Append(@, Current(p))]
    <3>1. /\ Current(p) \in Line /\ result \in Seq(Line) /\ logged[p] \in Seq(Line)
          /\ logged'[p] = Append(logged[p], Current(p))
      BY <2>3, CurrentIsLine DEF TypeOK, FileTypeOK
    <3>2. ASSUME NEW q \in Pipelines, NEW l \in Line, q # p,
                 \/ In(l, dest'[q])
                 \/ In(l, tmp'[q])
                 \/ pc'[q] \in {"run", "exec", "pull"} /\ In(l, result')
          PROVE  MayReport(q, l)'
      <4>1. pc'[q] \notin {"run", "exec", "pull"}
        BY <2>1, <3>2 DEF DeviceIsMine, PcInLock, TypeOK, WorkerTypeOK
      <4>2. QED
        BY <2>1, <3>2, <4>1, <1>3
    <3>3. ASSUME NEW l \in Line,
                 \/ In(l, dest'[p])
                 \/ In(l, tmp'[p])
                 \/ pc'[p] \in {"run", "exec", "pull"} /\ In(l, result')
          PROVE  MayReport(p, l)'
      <4>1. In(l, dest[p]) \/ In(l, tmp[p]) \/ In(l, result) \/ l = Current(p)
        BY <2>1, <2>3, <3>1, <3>3, InAppend
      <4>2. CASE l = Current(p)
        <5>1. Len(logged'[p]) \in 1..Len(logged'[p]) /\ logged'[p][Len(logged'[p])] = l
          BY <3>1, <4>2, AppendProperties, LenProperties
        <5>2. QED
          BY <5>1, <4>2, WholeLines DEF MayReport
      <4>3. CASE In(l, dest[p]) \/ In(l, tmp[p]) \/ In(l, result)
        BY <4>3, <2>1, <1>1 DEF OwnInv
      <4>4. QED
        BY <4>1, <4>2, <4>3
    <3>4. QED
      BY <2>1, <3>2, <3>3, <1>2 DEF OwnInv
  <2>4. QED
    BY <1>8, <2>2, <2>3 DEF FinishModel
<1>9. ASSUME NEW p \in Pipelines, Pull(p) PROVE OwnInv'
  <2>1. /\ UNCHANGED <<result, dest, orphans>>
        /\ pc' = [pc EXCEPT ![p] = "append"] /\ pc[p] = "pull"
    BY <1>9 DEF Pull, Goto
  <2>2. PICK copy : /\ copy = <<>> \/ copy = tmp[p] \/ copy = result \/ copy \in Pieces(result)
                    /\ tmp' = [tmp EXCEPT ![p] = copy]
    <3>1. tmp = [tmp EXCEPT ![p] = tmp[p]]
      BY DEF TypeOK, FileTypeOK
    <3>2. QED
      BY <1>9, <3>1 DEF Pull, PullFails, Copy
  <2>3. ASSUME NEW l \in Line, In(l, copy)
        PROVE  MayReport(p, l)
    <3>1. CASE copy \in Pieces(result)
      <4>1. PICK k \in 1..Len(copy) : copy[k] = l
        BY <2>3 DEF In
      <4>2. /\ result \in Seq(Line) /\ k \in 1..Len(result)
            /\ l = result[k] \/ l = Torn(result[k])
        <5>1. result \in Seq(Line)
          BY DEF TypeOK, FileTypeOK
        <5>2. /\ Len(copy) \in Nat /\ Len(result) \in Nat /\ Len(copy) <= Len(result)
              /\ copy[k] = result[k] \/ copy[k] = Torn(result[k])
          BY <3>1, <4>1, <5>1, PieceLines
        <5>3. QED
          BY <4>1, <5>1, <5>2
      <4>3. result[k] \in Line /\ In(result[k], result)
        BY <4>2, ElementOfSeq DEF In
      <4>4. MayReport(p, result[k])
        BY <4>3, <2>1 DEF OwnInv
      <4>5. QED
        BY <4>2, <4>3, <4>4, TornLine DEF MayReport
    <3>2. QED
      BY <2>1, <2>2, <2>3, <3>1, InEmpty DEF OwnInv
  <2>4. ASSUME NEW q \in Pipelines, NEW l \in Line,
               \/ In(l, dest'[q])
               \/ In(l, tmp'[q])
               \/ pc'[q] \in {"run", "exec", "pull"} /\ In(l, result')
        PROVE  MayReport(q, l)'
    <3>1. CASE q = p
      <4>1. tmp'[p] = copy /\ pc'[p] = "append"
        BY <2>1, <2>2 DEF TypeOK, WorkerTypeOK, FileTypeOK
      <4>2. In(l, dest[p]) \/ In(l, copy)
        BY <4>1, <2>1, <2>4, <3>1
      <4>3. QED
        BY <4>2, <3>1, <2>1, <2>3, <1>1 DEF OwnInv
    <3>2. CASE q # p
      BY <2>1, <2>2, <2>4, <3>2, <1>3 DEF TypeOK, WorkerTypeOK, FileTypeOK
    <3>3. QED
      BY <3>1, <3>2
  <2>5. QED
    BY <2>1, <2>4, <1>2 DEF OwnInv
<1>10. ASSUME NEW p \in Pipelines, Publish(p) PROVE OwnInv'
  <2>1. /\ UNCHANGED <<result, tmp, orphans>>
        /\ dest' = [dest EXCEPT ![p] = @ \o tmp[p]]
        /\ pc' = [pc EXCEPT ![p] = "sleep"] /\ pc[p] = "append"
    BY <1>10 DEF Publish, Goto
  <2>2. ASSUME NEW q \in Pipelines, NEW l \in Line,
               \/ In(l, dest'[q])
               \/ In(l, tmp'[q])
               \/ pc'[q] \in {"run", "exec", "pull"} /\ In(l, result')
        PROVE  MayReport(q, l)'
    <3>1. CASE q = p
      <4>1. /\ dest'[p] = dest[p] \o tmp[p] /\ pc'[p] = "sleep"
            /\ dest[p] \in Seq(Line) /\ tmp[p] \in Seq(Line)
        BY <2>1 DEF TypeOK, WorkerTypeOK, FileTypeOK
      <4>2. In(l, dest[p]) \/ In(l, tmp[p])
        BY <4>1, <2>1, <2>2, <3>1, InConcat
      <4>3. QED
        BY <4>2, <3>1, <1>1 DEF OwnInv
    <3>2. CASE q # p
      BY <2>1, <2>2, <3>2, <1>3 DEF TypeOK, WorkerTypeOK, FileTypeOK
    <3>3. QED
      BY <3>1, <3>2
  <2>3. QED
    BY <2>1, <2>2, <1>2 DEF OwnInv
<1>11. ASSUME NEW p \in Pipelines, Raise(p) PROVE OwnInv'
  <2>1. /\ UNCHANGED <<result, tmp, dest, ex, i>> /\ pc' = [pc EXCEPT ![p] = "dead"]
        /\ \/ orphans' = orphans
           \/ MayOrphan /\ orphans' = orphans \cup {Current(p)}
    BY <1>11 DEF Raise, Goto
  <2>2. \A q \in Pipelines : pc'[q] \in {"run", "exec", "pull"} => pc[q] = pc'[q]
    BY <2>1 DEF TypeOK, WorkerTypeOK
  <2>3. ASSUME NEW q \in Pipelines, NEW l \in Line,
               \/ In(l, dest'[q])
               \/ In(l, tmp'[q])
               \/ pc'[q] \in {"run", "exec", "pull"} /\ In(l, result')
        PROVE  MayReport(q, l)'
    BY <2>1, <2>2, <2>3, <1>3
  <2>4. ASSUME NEW l \in orphans' PROVE (MayOrphan /\ pc[l.p] = "dead" /\ l = Current(l.p))'
    <3>1. CASE l \in orphans
      BY <3>1, <1>2
    <3>2. CASE MayOrphan /\ l = Current(p)
      <4>1. l.p = p /\ pc'[p] = "dead" /\ Current(p)' = Current(p)
        BY <3>2, <2>1 DEF Current, TypeOK, WorkerTypeOK
      <4>2. QED
        BY <3>2, <4>1
    <3>3. QED
      BY <2>1, <3>1, <3>2
  <2>5. QED
    BY <2>3, <2>4 DEF OwnInv
<1>12. CASE OrphanEnds
  <2>1. PICK m \in orphans : orphans' = orphans \ {m} /\ result' \in {result, Append(result, m)}
    BY <1>12 DEF OrphanEnds
  <2>2. UNCHANGED <<pc, tmp, dest>> /\ m \in Line /\ result \in Seq(Line)
    BY <1>12 DEF OrphanEnds, worker, TypeOK, FileTypeOK
  <2>3. ASSUME NEW q \in Pipelines, NEW l \in Line,
               \/ In(l, dest'[q])
               \/ In(l, tmp'[q])
               \/ pc'[q] \in {"run", "exec", "pull"} /\ In(l, result')
        PROVE  MayReport(q, l)'
    <3>1. \/ In(l, dest[q]) \/ In(l, tmp[q])
          \/ pc[q] \in {"run", "exec", "pull"} /\ In(l, result)
          \/ l = m
      BY <2>1, <2>2, <2>3, InAppend
    <3>2. l = m => MayReport(q, l)
      <4>1. MayOrphan /\ pc[m.p] = "dead" /\ m = Current(m.p) /\ m.p \in Pipelines
        BY <2>2, LineFields DEF OwnInv
      <4>2. QED
        BY <4>1, WholeLines DEF MayReport
    <3>3. QED
      BY <3>1, <3>2, <1>1 DEF OwnInv
  <2>4. QED
    BY <2>1, <2>3, <1>2 DEF OwnInv
<1>13. CASE Tick \/ UNCHANGED vars
  BY <1>13, <1>4 DEF Tick, vars, worker, files
<1>14. QED
  BY <1>5, <1>6, <1>7, <1>8, <1>9, <1>10, <1>11, <1>12, <1>13 DEF Next, Work

\* Every line a pipeline reports is one its own runs logged, one an earlier
\* run left in its output directory, or the work of a model_benchmark that
\* outlived its worker (bench_run, lines 452-454 and 516-520).
THEOREM OwnTheorem == Spec => []OwnResultsOnly
<1>1. Init => TypeOK /\ DeviceIsMine /\ OwnInv
  BY TypeInit, DeviceIsMineInit, OwnInit
<1>2. TypeOK /\ DeviceIsMine /\ OwnInv /\ [Next]_vars => (TypeOK /\ DeviceIsMine /\ OwnInv)'
  BY WorkerTypeStep, ClockTypeStep, FileTypeStep, DeviceIsMineStep, OwnStep DEF TypeOK
<1>3. TypeOK /\ OwnInv => OwnResultsOnly
  <2> SUFFICES ASSUME TypeOK, OwnInv, NEW p \in Pipelines, NEW k \in 1..Len(dest[p])
               PROVE  MayReport(p, dest[p][k])
    BY DEF OwnResultsOnly
  <2>1. dest[p] \in Seq(Line)
    BY DEF TypeOK, FileTypeOK
  <2>2. dest[p][k] \in Line
    BY <2>1, ElementOfSeq
  <2>3. QED
    BY <2>2 DEF OwnInv, In
<1>4. QED
  BY <1>1, <1>2, <1>3, PTL DEF Spec

-----------------------------------------------------------------------------
(***************************************************************************)
(* Over ssh, a copy that exists after the pull is the result.txt of this   *)
(* window or a piece of it: the old copy was removed before the transfer.  *)
(***************************************************************************)

InWindow == {"run", "exec", "pull", "append"}

SshInv ==
    \A p \in Pipelines : pc[p] = "append" /\ p \in copies =>
        tmp[p] = result \/ tmp[p] \in Pieces(result)

\* Only who has the lock touches result.txt, and only its owner a copy.
LEMMA ResultKept ==
    ASSUME TypeOK, DeviceIsMine, NoOrphans, [Next]_vars,
           NEW q \in Pipelines, pc[q] \in InWindow,
           \A p \in Pipelines : Setup(p) \/ FinishModel(p) \/ Pull(p) => p # q
    PROVE  /\ result' = result /\ tmp'[q] = tmp[q]
           /\ q \in copies' <=> q \in copies
<1> USE DEF TypeOK, WorkerTypeOK, FileTypeOK
<1>0. holder = q
  BY DEF DeviceIsMine, InWindow, PcInLock
<1>1. ASSUME NEW p \in Pipelines, Setup(p) \/ FinishModel(p) \/ Pull(p) PROVE FALSE
  <2>1. holder = p
    BY <1>1 DEF Setup, FinishModel, Pull, DeviceIsMine, PcInLock
  <2>2. QED
    BY <1>0, <1>1, <2>1
<1>2. ASSUME NEW p \in Pipelines, Build(p) \/ Wake(p) \/ Acquire(p) \/ Timeout(p) \/ Skip(p)
                                  \/ StartModel(p) \/ EndWindow(p) \/ Publish(p) \/ PublishRaises(p)
      PROVE  UNCHANGED <<result, tmp, copies>>
  BY <1>2 DEF Build, Wake, Acquire, Timeout, Skip, StartModel, EndWindow, Publish, PublishRaises, files
<1>3. ASSUME NEW p \in Pipelines, Raise(p) PROVE UNCHANGED <<result, tmp, copies>>
  BY <1>3 DEF Raise
<1>4. CASE Tick \/ UNCHANGED vars
  BY <1>4 DEF Tick, vars, files
<1>5. CASE OrphanEnds
  BY <1>5 DEF OrphanEnds, NoOrphans
<1>6. QED
  BY <1>1, <1>2, <1>3, <1>4, <1>5 DEF Next, Work

\* How a worker comes to the append, and where the steps of others leave it.
LEMMA SshStep ==
    ASSUME Transport = "ssh"
    PROVE  TypeOK /\ DeviceIsMine /\ NoOrphans /\ SshInv /\ [Next]_vars => SshInv'
<1> SUFFICES ASSUME TypeOK, DeviceIsMine, NoOrphans, SshInv, [Next]_vars, NEW q \in Pipelines,
                    pc'[q] = "append", q \in copies'
             PROVE  tmp'[q] = result' \/ tmp'[q] \in Pieces(result')
  BY DEF SshInv
<1> USE DEF TypeOK, WorkerTypeOK, FileTypeOK
<1>1. CASE Pull(q)
  <2>1. result' = result /\ ~OldCopyStays
    BY <1>1, Transport = "ssh" DEF Pull, OldCopyStays
  <2>2. CASE Copy(q, result)
    BY <2>1, <2>2 DEF Copy
  <2>3. CASE PullFails(q)
    <3>1. CASE tmp' = [tmp EXCEPT ![q] = <<>>] /\ copies' = copies \ {q}
      BY <3>1
    <3>2. CASE \E piece \in Pieces(result) : Copy(q, piece)
      BY <2>1, <3>2 DEF Copy
    <3>3. QED
      BY <2>1, <2>3, <3>1, <3>2 DEF PullFails
  <2>4. QED
    BY <1>1, <2>2, <2>3 DEF Pull
<1>2. CASE ~Pull(q)
  <2>1. pc[q] = "append"
    <3>1. ASSUME NEW p \in Pipelines, p # q,
                 Setup(p) \/ Skip(p) \/ StartModel(p) \/ FinishModel(p) \/ EndWindow(p) \/ Pull(p)
                 \/ Acquire(p) \/ Timeout(p)
          PROVE  pc'[q] = pc[q]
      BY <3>1 DEF Acquire, Timeout, Setup, Skip, StartModel, FinishModel, EndWindow, Pull, Goto
    <3>2. ASSUME NEW p \in Pipelines, p # q, Publish(p) \/ PublishRaises(p) \/ Raise(p)
          PROVE  pc'[q] = pc[q]
      BY <3>2 DEF Publish, PublishRaises, Raise, Goto
    <3>3. ASSUME NEW p \in Pipelines, Build(p) \/ Wake(p) PROVE pc'[q] = pc[q]
      BY <3>3, NextWindowFree DEF Build, Wake
    <3>4. CASE Setup(q) \/ Skip(q) \/ StartModel(q) \/ FinishModel(q) \/ EndWindow(q)
               \/ Acquire(q) \/ Timeout(q) \/ Publish(q) \/ PublishRaises(q) \/ Raise(q)
      BY <3>4 DEF Acquire, Timeout, Setup, Skip, StartModel, FinishModel, EndWindow, Publish,
                  PublishRaises, Raise, Goto
    <3>5. CASE OrphanEnds \/ Tick \/ UNCHANGED vars
      BY <3>5 DEF OrphanEnds, Tick, vars, worker
    <3>6. QED
      BY <1>2, <3>1, <3>2, <3>3, <3>4, <3>5 DEF Next, Work
  <2>2. /\ result' = result /\ tmp'[q] = tmp[q]
        /\ q \in copies' <=> q \in copies
    BY <1>2, <2>1, ResultKept DEF InWindow, Setup, FinishModel
  <2>3. QED
    BY <2>1, <2>2 DEF SshInv
<1>3. QED
  BY <1>1, <1>2

-----------------------------------------------------------------------------
(***************************************************************************)
(* Over ssh, no run is reported twice.  ThisFar is what a result file will *)
(* be made of: its lines, and in a window those in result.txt.  They are   *)
(* in order and behind the place the pipeline has come to.                 *)
(***************************************************************************)

ThisFar(p) == IF pc[p] \in InWindow THEN dest[p] \o result ELSE dest[p]

Sound(p, file) == InOrder(file) /\ \A k \in 1..Len(file) : Behind(p, file[k])

ReportInv == \A p \in Pipelines : Sound(p, ThisFar(p))

LEMMA ThisFarType ==
    ASSUME FileTypeOK, NEW p \in Pipelines
    PROVE  /\ dest[p] \in Seq(Line) /\ result \in Seq(Line) /\ dest[p] \o result \in Seq(Line)
           /\ ThisFar(p) \in Seq(Line)
<1>1. dest[p] \in Seq(Line) /\ result \in Seq(Line)
  BY DEF FileTypeOK
<1>2. dest[p] \o result \in Seq(Line)
  BY <1>1, ConcatProperties
<1>3. QED
  BY <1>1, <1>2 DEF ThisFar

\* A file whose lines are, as far as they go, those of a sound one or torn.
LEMMA SoundPart ==
    ASSUME NEW p \in Pipelines, NEW g \in Seq(Line), NEW h \in Seq(Line), Sound(p, g),
           Len(h) <= Len(g),
           \A k \in 1..Len(h) : h[k].e = g[k].e /\ h[k].i = g[k].i
    PROVE  Sound(p, h)
<1>1. Len(g) \in Nat /\ Len(h) \in Nat
  BY LenProperties
<1>2. ASSUME NEW k \in 1..Len(h) PROVE k \in 1..Len(g)
  BY <1>1
<1>3. ASSUME NEW k \in 1..Len(h), NEW j \in 1..(k - 1) PROVE Before(h[j], h[k])
  <2>1. j \in 1..Len(h)
    BY <1>1
  <2>2. Before(g[j], g[k])
    BY <1>2 DEF Sound, InOrder
  <2>3. QED
    BY <2>1, <2>2 DEF Before
<1>4. ASSUME NEW k \in 1..Len(h) PROVE Behind(p, h[k])
  <2>1. Behind(p, g[k])
    BY <1>2 DEF Sound
  <2>2. QED
    BY <2>1 DEF Behind, Before
<1>5. QED
  BY <1>3, <1>4 DEF Sound, InOrder

\* The first of two files that are sound one after the other.
LEMMA SoundFront ==
    ASSUME NEW p \in Pipelines, NEW f \in Seq(Line), NEW g \in Seq(Line), Sound(p, f \o g)
    PROVE  Sound(p, f)
<1>1. /\ f \o g \in Seq(Line) /\ Len(f \o g) = Len(f) + Len(g)
      /\ Len(f) \in Nat /\ Len(g) \in Nat
      /\ \A k \in 1..Len(f) : (f \o g)[k] = f[k]
  BY ConcatProperties, LenProperties
<1> DEFINE both == f \o g
<1>2. /\ both \in Seq(Line) /\ Sound(p, both) /\ Len(f) <= Len(both)
      /\ \A k \in 1..Len(f) : f[k].e = both[k].e /\ f[k].i = both[k].i
  BY <1>1
<1> HIDE DEF both
<1>3. QED
  BY <1>2, SoundPart

\* A piece in the place of the whole.
LEMMA SoundPiece ==
    ASSUME NEW p \in Pipelines, NEW f \in Seq(Line), NEW g \in Seq(Line), NEW h \in Pieces(g),
           Sound(p, f \o g)
    PROVE  Sound(p, f \o h)
<1>1. /\ h \in Seq(Line) /\ Len(h) \in Nat /\ Len(g) \in Nat /\ Len(f) \in Nat
      /\ Len(h) <= Len(g)
      /\ \A k \in 1..Len(h) : h[k] = g[k] \/ h[k] = Torn(g[k])
  BY PieceLines, LenProperties
<1>2. /\ f \o g \in Seq(Line) /\ Len(f \o g) = Len(f) + Len(g)
      /\ \A k \in 1..(Len(f) + Len(g)) :
            (f \o g)[k] = IF k <= Len(f) THEN f[k] ELSE g[k - Len(f)]
  BY ConcatProperties
<1>3. /\ f \o h \in Seq(Line) /\ Len(f \o h) = Len(f) + Len(h)
      /\ \A k \in 1..(Len(f) + Len(h)) :
            (f \o h)[k] = IF k <= Len(f) THEN f[k] ELSE h[k - Len(f)]
  BY <1>1, ConcatProperties
<1>4. ASSUME NEW k \in 1..Len(h) PROVE h[k].e = g[k].e /\ h[k].i = g[k].i
  <2>1. k \in 1..Len(g)
    BY <1>1
  <2>2. g[k] \in Line
    BY <2>1, ElementOfSeq
  <2>3. QED
    BY <1>1, <2>2, TornLine
<1>5. ASSUME NEW k \in 1..Len(f \o h)
      PROVE  (f \o h)[k].e = (f \o g)[k].e /\ (f \o h)[k].i = (f \o g)[k].i
  <2>1. CASE k <= Len(f)
    BY <1>1, <1>2, <1>3, <2>1
  <2>2. CASE k > Len(f)
    <3>1. k - Len(f) \in 1..Len(h) /\ k \in 1..(Len(f) + Len(g))
      BY <1>1, <1>3, <2>2
    <3>2. (f \o h)[k] = h[k - Len(f)] /\ (f \o g)[k] = g[k - Len(f)]
      BY <1>1, <1>2, <1>3, <2>2, <3>1
    <3>3. QED
      BY <1>4, <3>1, <3>2
  <2>3. QED
    BY <1>1, <1>3, <2>1, <2>2
<1> DEFINE both == f \o g
           part == f \o h
<1>6. /\ both \in Seq(Line) /\ part \in Seq(Line) /\ Sound(p, both) /\ Len(part) <= Len(both)
      /\ \A k \in 1..Len(part) : part[k].e = both[k].e /\ part[k].i = both[k].i
  BY <1>1, <1>2, <1>3, <1>5
<1>7. Sound(p, part)
  <2> HIDE DEF both, part
  <2>1. QED
    BY <1>6, SoundPart
<1>8. QED
  BY <1>7

\* A sound file stays so, while its pipeline goes on.
LEMMA SoundKept ==
    ASSUME TypeOK, NEW p \in Pipelines, NEW f \in Seq(Line), Sound(p, f),
           \/ ex'[p] = ex[p] + 1
           \/ ex'[p] = ex[p] /\ i'[p] = i[p]
           \/ ex'[p] = ex[p] /\ i'[p] = i[p] + 1,
           pc'[p] = "exec" => \/ ex'[p] = ex[p] /\ i'[p] = i[p] /\ pc[p] = "exec"
                              \/ ex'[p] = ex[p] /\ i'[p] = i[p] + 1
    PROVE  /\ InOrder(f)
           /\ \A k \in 1..Len(f) : Behind(p, f[k])'
<1>1. ASSUME NEW k \in 1..Len(f) PROVE Behind(p, f[k])'
  <2>1. f[k] \in Line /\ Behind(p, f[k])
    BY ElementOfSeq DEF Sound
  <2>2. ASSUME NEW l \in Line, Behind(p, l) PROVE Behind(p, l)'
    BY <2>2, BehindKept
  <2>3. QED
    BY <2>1, <2>2
<1>2. QED
  BY <1>1 DEF Sound

\* A line behind the last one, when the pipeline has come to it.
LEMMA SoundAppend ==
    ASSUME NEW p \in Pipelines, NEW f \in Seq(Line), NEW l \in Line, InOrder(f),
           \A k \in 1..Len(f) : Before(f[k], l)
    PROVE  InOrder(Append(f, l))
<1> DEFINE g == Append(f, l)
<1>1. /\ Len(f) \in Nat /\ Len(g) = Len(f) + 1
      /\ \A k \in 1..Len(f) : g[k] = f[k]
      /\ g[Len(f) + 1] = l
  BY AppendProperties, LenProperties
<1> HIDE DEF g
<1>2. ASSUME NEW k \in 1..Len(g), NEW j \in 1..(k - 1) PROVE Before(g[j], g[k])
  <2>1. j \in 1..Len(f)
    BY <1>1
  <2>2. CASE k \in 1..Len(f)
    BY <1>1, <2>1, <2>2 DEF InOrder
  <2>3. CASE k = Len(f) + 1
    BY <1>1, <2>1, <2>3
  <2>4. QED
    BY <1>1, <2>2, <2>3
<1>3. QED
  BY <1>2 DEF InOrder, g

LEMMA ReportInit == Init => ReportInv
BY DEF Init, ReportInv, ThisFar, InWindow, Sound, InOrder

LEMMA ReportStep ==
    TypeOK /\ DeviceIsMine /\ NoOrphans /\ SshInv /\ ReportInv /\ [Next]_vars => ReportInv'
<1> SUFFICES ASSUME TypeOK, DeviceIsMine, NoOrphans, SshInv, ReportInv, [Next]_vars,
                    NEW q \in Pipelines
             PROVE  Sound(q, ThisFar(q))'
  BY DEF ReportInv
<1>0. /\ dest[q] \in Seq(Line) /\ result \in Seq(Line) /\ dest[q] \o result \in Seq(Line)
      /\ ThisFar(q) \in Seq(Line) /\ Sound(q, ThisFar(q))
  BY ThisFarType DEF ReportInv, TypeOK
\* A step of q that makes of the file a sound one, seen from where q was.
<1>1. ASSUME NEW f \in Seq(Line), Sound(q, f), ThisFar(q)' = f,
             \/ ex'[q] = ex[q] + 1
             \/ ex'[q] = ex[q] /\ i'[q] = i[q]
             \/ ex'[q] = ex[q] /\ i'[q] = i[q] + 1,
             pc'[q] = "exec" => \/ ex'[q] = ex[q] /\ i'[q] = i[q] /\ pc[q] = "exec"
                                \/ ex'[q] = ex[q] /\ i'[q] = i[q] + 1
      PROVE  Sound(q, ThisFar(q))'
  <2>1. InOrder(f) /\ \A k \in 1..Len(f) : Behind(q, f[k])'
    BY <1>1, SoundKept
  <2>2. QED
    BY <1>1, <2>1 DEF Sound, InOrder, Behind
\* A step that is not q's.
<1>2. ASSUME pc'[q] = pc[q], ex'[q] = ex[q], i'[q] = i[q], dest'[q] = dest[q],
             pc[q] \in InWindow => result' = result
      PROVE  Sound(q, ThisFar(q))'
  <2>1. ThisFar(q)' = ThisFar(q)
    BY <1>2 DEF ThisFar
  <2>2. QED
    BY <1>0, <1>1, <1>2, <2>1
<1>3. ASSUME NEW p \in Pipelines, p # q, Work(p) \/ Raise(p) PROVE Sound(q, ThisFar(q))'
  <2>1. /\ pc'[q] = pc[q] /\ ex'[q] = ex[q] /\ i'[q] = i[q] /\ dest'[q] = dest[q]
    <3>1. CASE Build(p) \/ Wake(p)
      BY <1>3, <3>1, NextWindowFree DEF Build, Wake, files, TypeOK, WorkerTypeOK
    <3>2. CASE Acquire(p) \/ Timeout(p) \/ Setup(p) \/ Skip(p) \/ StartModel(p) \/ FinishModel(p)
      BY <1>3, <3>2 DEF Acquire, Timeout, Setup, Skip, StartModel, FinishModel, Goto, files,
                        TypeOK, WorkerTypeOK
    <3>3. CASE EndWindow(p) \/ Pull(p) \/ Publish(p) \/ PublishRaises(p) \/ Raise(p)
      BY <1>3, <3>3 DEF EndWindow, Pull, Publish, PublishRaises, Raise, Goto, files,
                        TypeOK, WorkerTypeOK, FileTypeOK
    <3>4. QED
      BY <1>3, <3>1, <3>2, <3>3 DEF Work
  <2>2. pc[q] \in InWindow => result' = result
    <3>1. ASSUME pc[q] \in InWindow, Setup(p) \/ FinishModel(p) PROVE FALSE
      BY <1>3, <3>1 DEF Setup, FinishModel, DeviceIsMine, InWindow, PcInLock
    <3>2. ASSUME ~(Setup(p) \/ FinishModel(p)) PROVE result' = result
      BY <1>3, <3>2 DEF Work, Build, Wake, Acquire, Timeout, Skip, StartModel, EndWindow, Pull,
                        Publish, PublishRaises, Raise, files
    <3>3. QED
      BY <3>1, <3>2
  <2>3. QED
    BY <1>2, <2>1, <2>2
<1>4. CASE Build(q) \/ Wake(q)
  <2>1. NextWindow(q) /\ dest' = dest /\ pc[q] \in {"build", "sleep"}
    BY <1>4 DEF Build, Wake, files
  <2>2. pc'[q] \in {"build", "lock", "done"} /\ (ex'[q] = ex[q] + 1 \/ (ex'[q] = ex[q] /\ i'[q] = i[q]))
    BY <2>1 DEF NextWindow, Goto, TypeOK, WorkerTypeOK
  <2>3. ThisFar(q)' = ThisFar(q)
    BY <2>1, <2>2 DEF ThisFar, InWindow
  <2>4. QED
    BY <1>0, <1>1, <2>2, <2>3
<1>5. CASE Acquire(q) \/ Timeout(q)
  <2>1. /\ UNCHANGED <<dest, result, ex, i>> /\ pc[q] = "lock" /\ pc'[q] \in {"setup", "dead"}
    BY <1>5 DEF Acquire, Timeout, Goto, files, TypeOK, WorkerTypeOK
  <2>2. ThisFar(q)' = ThisFar(q)
    BY <2>1 DEF ThisFar, InWindow
  <2>3. QED
    BY <1>0, <1>1, <2>1, <2>2
<1>6. CASE Setup(q)
  <2>1. UNCHANGED <<dest, ex, i>> /\ result' = <<>> /\ pc[q] = "setup" /\ pc'[q] = "run"
    BY <1>6 DEF Setup, Goto, TypeOK, WorkerTypeOK
  <2>2. dest[q] \o <<>> = dest[q]
    BY <1>0, ConcatEmptySeq
  <2>3. ThisFar(q)' = ThisFar(q)
    BY <2>1, <2>2 DEF ThisFar, InWindow
  <2>4. QED
    BY <1>0, <1>1, <2>1, <2>3
<1>7. CASE Skip(q) \/ StartModel(q) \/ EndWindow(q)
  <2>1. /\ UNCHANGED <<dest, result, ex>> /\ pc[q] = "run" /\ pc'[q] \in {"run", "exec", "pull"}
        /\ i'[q] = i[q] \/ i'[q] = i[q] + 1
        /\ pc'[q] = "exec" => i'[q] = i[q] + 1
    BY <1>7 DEF Skip, StartModel, EndWindow, Goto, files, TypeOK, WorkerTypeOK
  <2>2. ThisFar(q)' = ThisFar(q)
    BY <2>1 DEF ThisFar, InWindow
  <2>3. QED
    BY <1>0, <1>1, <2>1, <2>2
<1>8. CASE FinishModel(q)
  <2>1. UNCHANGED <<dest, ex, i>> /\ pc[q] = "exec" /\ pc'[q] = "run"
    BY <1>8 DEF FinishModel, Goto, TypeOK, WorkerTypeOK
  <2>2. CASE result' = result
    <3>1. ThisFar(q)' = ThisFar(q)
      BY <2>1, <2>2 DEF ThisFar, InWindow
    <3>2. QED
      BY <1>0, <1>1, <2>1, <3>1
  <2>3. CASE result' = Append(result, Current(q))
    <3> DEFINE f == ThisFar(q)
               l == Current(q)
    <3>1. f = dest[q] \o result /\ l \in Line
      BY <2>1, CurrentIsLine DEF ThisFar, InWindow, TypeOK
    <3>2. ThisFar(q)' = Append(f, l)
      <4>1. ThisFar(q)' = dest[q] \o Append(result, l)
        BY <2>1, <2>3 DEF ThisFar, InWindow
      <4>2. \A x \in Line : dest[q] \o Append(result, x) = Append(dest[q] \o result, x)
        <5>1. \A s, t \in Seq(Line) : \A x \in Line : s \o Append(t, x) = Append(s \o t, x)
          BY ConcatAppend
        <5>2. QED
          BY <1>0, <5>1
      <4>3. dest[q] \o Append(result, l) = Append(dest[q] \o result, l)
        BY <3>1, <4>2
      <4>4. QED
        BY <3>1, <4>1, <4>3
    <3>3. InOrder(Append(f, l))
      BY <1>0, <2>1, <3>1, SoundAppend DEF Sound, Behind
    <3>4. l.e = ex[q] /\ l.i = i[q] - 1 /\ i[q] \in Nat /\ ex[q] \in Nat
      BY DEF Current, TypeOK, WorkerTypeOK
    <3>5. /\ Len(f) \in Nat /\ Len(Append(f, l)) = Len(f) + 1
          /\ \A k \in 1..Len(f) : Append(f, l)[k] = f[k]
          /\ Append(f, l)[Len(f) + 1] = l
      BY <1>0, <3>1, AppendProperties, LenProperties
    <3>6. \A k \in 1..Len(f) : Behind(q, f[k])
      BY <1>0 DEF Sound
    <3> HIDE DEF f, l
    <3>7. ASSUME NEW k \in 1..Len(Append(f, l))
          PROVE  \/ Append(f, l)[k].e < ex[q]
                 \/ Append(f, l)[k].e = ex[q] /\ Append(f, l)[k].i < i[q]
      <4>1. CASE k \in 1..Len(f)
        BY <3>5, <3>6, <4>1 DEF Behind
      <4>2. CASE k = Len(f) + 1
        BY <3>4, <3>5, <4>2
      <4>3. QED
        BY <3>5, <4>1, <4>2
    <3>8. QED
      BY <2>1, <3>2, <3>3, <3>7 DEF Sound, InOrder, Behind
  <2>4. QED
    BY <1>8, <2>2, <2>3 DEF FinishModel
<1>9. CASE Pull(q)
  <2>1. UNCHANGED <<dest, result, ex, i>> /\ pc[q] = "pull" /\ pc'[q] = "append"
    BY <1>9 DEF Pull, Goto, TypeOK, WorkerTypeOK
  <2>2. ThisFar(q)' = ThisFar(q)
    BY <2>1 DEF ThisFar, InWindow
  <2>3. QED
    BY <1>0, <1>1, <2>1, <2>2
<1>10. CASE Publish(q)
  <2>1. /\ UNCHANGED <<ex, i>> /\ pc[q] = "append" /\ pc'[q] = "sleep"
        /\ q \in copies /\ dest'[q] = dest[q] \o tmp[q] /\ tmp[q] \in Seq(Line)
    BY <1>10 DEF Publish, Goto, TypeOK, WorkerTypeOK, FileTypeOK
  <2>2. ThisFar(q) = dest[q] \o result /\ ThisFar(q)' = dest[q] \o tmp[q]
    BY <2>1 DEF ThisFar, InWindow
  <2>3. tmp[q] = result \/ tmp[q] \in Pieces(result)
    BY <2>1 DEF SshInv
  <2>4. Sound(q, dest[q] \o tmp[q])
    BY <1>0, <2>2, <2>3, SoundPiece
  <2>5. dest[q] \o tmp[q] \in Seq(Line)
    BY <1>0, <2>1, ConcatProperties
  <2>6. QED
    BY <1>1, <2>1, <2>2, <2>4, <2>5
<1>11. CASE PublishRaises(q) \/ Raise(q)
  <2>1. UNCHANGED <<dest, ex, i>> /\ pc'[q] = "dead"
    BY <1>11 DEF PublishRaises, Raise, Goto, files, TypeOK, WorkerTypeOK
  <2>2. ThisFar(q)' = dest[q]
    BY <2>1 DEF ThisFar, InWindow
  <2>3. Sound(q, dest[q])
    BY <1>0, SoundFront DEF ThisFar
  <2>4. QED
    BY <1>0, <1>1, <2>1, <2>2, <2>3
<1>12. CASE OrphanEnds \/ Tick \/ UNCHANGED vars
  BY <1>12, <1>2 DEF OrphanEnds, NoOrphans, Tick, vars, worker, files
<1>13. QED
  BY <1>3, <1>4, <1>5, <1>6, <1>7, <1>8, <1>9, <1>10, <1>11, <1>12 DEF Next, Work

\* The types and the lock go along with every invariant over ssh.
SshAll == TypeOK /\ DeviceIsMine /\ NoOrphans /\ SshInv

LEMMA SshInit == Init => SshAll
BY TypeInit, DeviceIsMineInit DEF Init, SshAll, NoOrphans, SshInv

LEMMA SshAllStep ==
    ASSUME Transport = "ssh", ~MayOrphan
    PROVE  SshAll /\ [Next]_vars => SshAll'
<1>1. TypeOK /\ DeviceIsMine /\ [Next]_vars => (TypeOK /\ DeviceIsMine)'
  BY WorkerTypeStep, ClockTypeStep, FileTypeStep, DeviceIsMineStep DEF TypeOK
<1>2. QED
  BY <1>1, NoOrphansStep, SshStep, Transport = "ssh", ~MayOrphan DEF SshAll

\* Over ssh, whatever failed pulls leave as the copy, a result file has no run
\* twice and all in their order (ssh_device.py:55-68, bench_run, lines 516-520).
THEOREM ReportedTheorem == Spec => []ReportedOnce
<1>1. CASE Transport = "ssh" /\ ~MayOrphan
  <2>1. Init => SshAll /\ ReportInv
    BY SshInit, ReportInit
  <2>2. SshAll /\ ReportInv /\ [Next]_vars => (SshAll /\ ReportInv)'
    BY <1>1, SshAllStep, ReportStep DEF SshAll
  <2>3. SshAll /\ ReportInv => ReportedOnce
    <3> SUFFICES ASSUME SshAll, ReportInv, NEW p \in Pipelines PROVE InOrder(dest[p])
      BY DEF ReportedOnce
    <3>1. dest[p] \in Seq(Line) /\ result \in Seq(Line) /\ Sound(p, ThisFar(p))
      BY ThisFarType DEF ReportInv, SshAll, TypeOK
    <3>2. Sound(p, dest[p])
      BY <3>1, SoundFront DEF ThisFar
    <3>3. QED
      BY <3>2 DEF Sound
  <2>4. QED
    BY <2>1, <2>2, <2>3, PTL DEF Spec
<1>2. CASE ~(Transport = "ssh" /\ ~MayOrphan)
  <2>1. ReportedOnce
    BY <1>2 DEF ReportedOnce
  <2>2. QED
    BY <2>1, PTL
<1>3. QED
  BY <1>1, <1>2

-----------------------------------------------------------------------------
(***************************************************************************)
(* Over ssh, the loop of bench_run keeps what DeviceLease promises.        *)
(***************************************************************************)

\* While p has the lock, the lease is what its window has come to.
LEMMA LeaseOf ==
    ASSUME NEW p \in Pipelines, holder = p
    PROVE  /\ Fresh = IF pc[p] \in InWindow THEN result ELSE <<>>
           /\ Broken = (pc[p] = "append" /\ tmp[p] # result)
BY NoOneIsNoPipeline DEF Fresh, Broken, InWindow

LEMMA LeaseOfNext ==
    ASSUME NEW p \in Pipelines, holder' = p
    PROVE  /\ Fresh' = IF pc'[p] \in InWindow THEN result' ELSE <<>>
           /\ Broken' = (pc'[p] = "append" /\ tmp'[p] # result')
BY NoOneIsNoPipeline DEF Fresh, Broken, InWindow

\* And when nobody has it, there is none.
LEMMA NoLease ==
    /\ holder = NoOne => Fresh = <<>> /\ Broken = FALSE
    /\ holder' = NoOne => Fresh' = <<>> /\ Broken' = FALSE
BY DEF Fresh, Broken

\* A step that is not the holder's leaves the lease alone.
LEMMA LeaseKept ==
    ASSUME TypeOK, DeviceIsMine, NoOrphans, [Next]_vars, holder' = holder,
           \A p \in Pipelines : Setup(p) \/ FinishModel(p) \/ Pull(p) => p # holder,
           holder # NoOne => pc'[holder] = pc[holder]
    PROVE  Fresh' = Fresh /\ Broken' = Broken
<1>1. CASE holder = NoOne
  BY <1>1, NoLease
<1>2. CASE holder # NoOne
  <2>1. holder \in Pipelines
    BY <1>2 DEF TypeOK, WorkerTypeOK
  <2>2. CASE pc[holder] \in InWindow
    <3>1. result' = result /\ tmp'[holder] = tmp[holder]
      BY <2>1, <2>2, ResultKept
    <3>2. QED
      BY <1>2, <3>1 DEF Fresh, Broken
  <2>3. CASE pc[holder] \notin InWindow
    BY <1>2, <2>3 DEF Fresh, Broken, InWindow
  <2>4. QED
    BY <2>2, <2>3
<1>3. QED
  BY <1>1, <1>2

LEMMA LeaseInit == Init => Lease!Init
BY NoLease DEF Init, Lease!Init, Dead

\* The pull of a window is what the lease calls a failed transfer, or nothing.
LEMMA PullFailsLease ==
    ASSUME TypeOK, DeviceIsMine, NEW p \in Pipelines, Pull(p)
    PROVE  Lease!Fail(p) \/ UNCHANGED Lease!vars
<1>1. /\ holder = p /\ holder' = p /\ UNCHANGED <<result, logged, dest>>
      /\ pc[p] = "pull" /\ pc'[p] = "append"
  BY DEF Pull, Goto, DeviceIsMine, PcInLock, TypeOK, WorkerTypeOK
<1>2. Dead' = Dead
  BY DEF Pull, Goto, Dead, TypeOK, WorkerTypeOK
<1>3. Fresh' = Fresh /\ Broken = FALSE
  BY <1>1, LeaseOf, LeaseOfNext DEF InWindow
<1>4. Broken' = (tmp'[p] # result)
  BY <1>1, LeaseOfNext
<1>5. CASE unpulled' = unpulled \cup {p}
  BY <1>1, <1>2, <1>3, <1>4, <1>5 DEF Lease!Fail
<1>6. CASE Copy(p, result) /\ unpulled' = unpulled
  <2>1. tmp'[p] = result
    BY <1>6 DEF Copy, TypeOK, FileTypeOK
  <2>2. QED
    BY <1>1, <1>2, <1>3, <1>4, <1>6, <2>1 DEF Lease!vars
<1>7. QED
  BY <1>5, <1>6 DEF Pull

\* The append is the publication: of the whole result.txt, or of a piece of it.
LEMMA PublishKeepsLease ==
    ASSUME TypeOK, DeviceIsMine, SshInv, NEW p \in Pipelines, Publish(p)
    PROVE  Lease!Publish(p)
<1>1. /\ holder = p /\ holder' = NoOne /\ UNCHANGED <<logged, unpulled>>
      /\ pc[p] = "append" /\ p \in copies
      /\ dest' = [dest EXCEPT ![p] = @ \o tmp[p]]
  BY DEF Publish, history, DeviceIsMine, PcInLock, Extended
<1>2. Dead' = Dead
  BY DEF Publish, Goto, Dead, TypeOK, WorkerTypeOK
<1>3. Fresh = result /\ Broken = (tmp[p] # result)
  BY <1>1, LeaseOf DEF InWindow
<1>4. Fresh' = <<>> /\ Broken' = FALSE
  BY <1>1, NoLease
<1>5. Lease!Pieces(result) = Pieces(result)
  BY DEF Lease!Pieces, Lease!Torn, Pieces, Torn
<1>6. tmp[p] \in IF Broken THEN Lease!Pieces(Fresh) ELSE {Fresh}
  BY <1>1, <1>3, <1>5 DEF SshInv
<1>7. Lease!Release
  BY <1>1, <1>4 DEF Lease!Release
<1>8. QED
  BY <1>1, <1>2, <1>6, <1>7 DEF Lease!Publish

\* A run that has logged its line is a measurement.
LEMMA FinishMeasures ==
    ASSUME TypeOK, DeviceIsMine, OrderInv, NEW p \in Pipelines, FinishModel(p)
    PROVE  Lease!Measure(p) \/ UNCHANGED Lease!vars
<1>1. /\ holder = p /\ holder' = p /\ pc[p] = "exec" /\ pc'[p] = "run"
      /\ UNCHANGED <<dest, unpulled>>
  BY DEF FinishModel, Goto, DeviceIsMine, PcInLock, TypeOK, WorkerTypeOK
<1>2. Dead' = Dead
  BY DEF FinishModel, Goto, Dead, TypeOK, WorkerTypeOK
<1>3. Broken = FALSE /\ Broken' = FALSE /\ Fresh = result /\ Fresh' = result'
  BY <1>1, LeaseOf, LeaseOfNext DEF InWindow
<1>4. CASE UNCHANGED <<result, logged>>
  BY <1>1, <1>2, <1>3, <1>4 DEF Lease!vars
<1>5. CASE /\ result' = Append(result, Current(p))
           /\ logged' = [logged EXCEPT ![p] = Append(@, Current(p))]
  <2>1. /\ Current(p) \in Line /\ Current(p).whole
        /\ Current(p).e \in Nat /\ Current(p).i \in Int
    BY CurrentIsLine, LineFields DEF TypeOK, Current
  <2>2. ASSUME NEW k \in 1..Len(logged[p]) PROVE logged[p][k] # Current(p)
    BY <1>1, <2>1 DEF OrderInv, Behind, Before
  <2> DEFINE r == Current(p)
  <2>3. /\ r \in {l \in Line : l.whole}
        /\ \A k \in 1..Len(logged[p]) : logged[p][k] # r
        /\ logged' = [logged EXCEPT ![p] = Append(@, r)]
        /\ Fresh' = Append(Fresh, r)
    BY <1>3, <1>5, <2>1, <2>2
  <2> HIDE DEF r
  <2>4. QED
    BY <1>1, <1>2, <1>3, <2>3 DEF Lease!Measure
<1>6. QED
  BY <1>4, <1>5 DEF FinishModel

LEMMA LeaseStep ==
    ASSUME TypeOK, DeviceIsMine, NoOrphans, SshInv, OrderInv, [Next]_vars
    PROVE  Lease!Next \/ UNCHANGED Lease!vars
<1> USE DEF TypeOK, WorkerTypeOK
<1>1. ASSUME NEW p \in Pipelines, Acquire(p) PROVE Lease!Acquire(p)
  <2>1. /\ holder = NoOne /\ holder' = p /\ pc'[p] = "setup"
        /\ UNCHANGED <<logged, dest, unpulled>>
    BY <1>1 DEF Acquire, LockFree, Goto, files, history
  <2>2. p \notin Dead /\ Dead' = Dead
    BY <1>1 DEF Acquire, Goto, Dead
  <2>3. Fresh = <<>> /\ Broken = FALSE /\ Fresh' = <<>> /\ Broken' = FALSE
    BY <2>1, NoLease, LeaseOfNext DEF InWindow
  <2>4. QED
    BY <2>1, <2>2, <2>3 DEF Lease!Acquire
<1>2. ASSUME NEW p \in Pipelines, Setup(p) \/ Skip(p) \/ StartModel(p) \/ EndWindow(p)
      PROVE  UNCHANGED Lease!vars
  <2>1. /\ holder = p /\ holder' = p /\ UNCHANGED <<logged, dest, unpulled>>
        /\ pc[p] \in {"setup", "run"} /\ pc'[p] \in {"run", "exec", "pull"}
        /\ IF pc[p] = "setup" THEN result' = <<>> ELSE result' = result
    BY <1>2 DEF Setup, Cleared, Skip, StartModel, EndWindow, Goto, files, history, DeviceIsMine, PcInLock
  <2>2. Dead' = Dead
    BY <1>2 DEF Setup, Skip, StartModel, EndWindow, Goto, Dead
  <2>3. Fresh' = Fresh /\ Broken = FALSE /\ Broken' = FALSE
    BY <2>1, LeaseOf, LeaseOfNext DEF InWindow
  <2>4. QED
    BY <2>1, <2>2, <2>3 DEF Lease!vars
<1>3. ASSUME NEW p \in Pipelines, Timeout(p) \/ PublishRaises(p) \/ Raise(p)
      PROVE  Lease!Abandon(p)
  <2>1. /\ pc' = [pc EXCEPT ![p] = "dead"] /\ pc[p] # "dead"
        /\ UNCHANGED <<logged, dest, unpulled>>
        /\ holder' = IF holder = p THEN NoOne ELSE holder
    BY <1>3 DEF Timeout, PublishRaises, Raise, Alive, Goto, files, history, DeviceIsMine, PcInLock
  <2>2. p \notin Dead /\ Dead' = Dead \cup {p}
    BY <2>1 DEF Dead
  <2>3. CASE holder = p
    <3>1. holder' = NoOne /\ Fresh' = <<>> /\ Broken' = FALSE
      BY <2>1, <2>3, NoLease
    <3>2. QED
      BY <2>1, <2>2, <2>3, <3>1 DEF Lease!Abandon, Lease!Release
  <2>4. CASE holder # p
    <3>1. holder' = holder /\ (holder # NoOne => pc'[holder] = pc[holder])
      BY <2>1, <2>4
    <3>2. \A q \in Pipelines : Setup(q) \/ FinishModel(q) \/ Pull(q) => q # holder
      <4> SUFFICES ASSUME NEW q \in Pipelines, q = holder,
                          Setup(q) \/ FinishModel(q) \/ Pull(q)
                   PROVE  FALSE
        OBVIOUS
      <4>1. pc'[q] \in {"run", "append"} /\ pc'[q] = pc[q] /\ pc[q] \in {"setup", "exec", "pull"}
        BY <2>1, <2>4 DEF Setup, FinishModel, Pull, Goto
      <4>2. QED
        BY <4>1
    <3>3. Fresh' = Fresh /\ Broken' = Broken
      BY <3>1, <3>2, LeaseKept
    <3>4. QED
      BY <2>1, <2>2, <2>4, <3>1, <3>3 DEF Lease!Abandon
  <2>5. QED
    BY <2>3, <2>4
<1>4. ASSUME UNCHANGED <<holder, logged, dest, unpulled>>, Dead' = Dead,
             holder # NoOne => pc'[holder] = pc[holder]
      PROVE  UNCHANGED Lease!vars
  <2>1. \A q \in Pipelines : Setup(q) \/ FinishModel(q) \/ Pull(q) => q # holder
    <3> SUFFICES ASSUME NEW q \in Pipelines, q = holder,
                        Setup(q) \/ FinishModel(q) \/ Pull(q)
                 PROVE  FALSE
      OBVIOUS
    <3>1. pc'[q] \in {"run", "append"} /\ pc'[q] = pc[q] /\ pc[q] \in {"setup", "exec", "pull"}
      BY <1>4, NoOneIsNoPipeline DEF Setup, FinishModel, Pull, Goto
    <3>2. QED
      BY <3>1
  <2>2. Fresh' = Fresh /\ Broken' = Broken
    BY <1>4, <2>1, LeaseKept
  <2>3. QED
    BY <1>4, <2>2 DEF Lease!vars
<1>5. ASSUME NEW p \in Pipelines, Build(p) \/ Wake(p) PROVE UNCHANGED Lease!vars
  <2>1. /\ NextWindow(p) /\ UNCHANGED <<holder, logged, dest, unpulled>>
        /\ pc[p] \in {"build", "sleep"} /\ p # holder
    BY <1>5 DEF Build, Wake, files, history, DeviceIsMine, PcInLock
  <2>2. \A q \in Pipelines : (pc'[q] = "dead" <=> pc[q] = "dead") /\ (q # p => pc'[q] = pc[q])
    BY <2>1, NextWindowFree
  <2>3. Dead' = Dead
    BY <2>2 DEF Dead
  <2>4. holder # NoOne => pc'[holder] = pc[holder]
    BY <2>1, <2>2
  <2>5. QED
    BY <1>4, <2>1, <2>3, <2>4
<1>6. CASE OrphanEnds \/ Tick \/ UNCHANGED vars
  <2>1. UNCHANGED <<holder, logged, dest, unpulled, pc>>
    BY <1>6 DEF OrphanEnds, Tick, vars, worker, files, history
  <2>2. Dead' = Dead
    BY <2>1 DEF Dead
  <2>3. QED
    BY <1>4, <2>1, <2>2
<1>7. QED
  BY <1>1, <1>2, <1>3, <1>5, <1>6, FinishMeasures, PullFailsLease, PublishKeepsLease
  DEF Next, Work, Lease!Next

\* Over ssh, and when no run outlives its worker, the loop of bench_run keeps
\* what the lock around the device promises (lines 432-520, and
\* ssh_device.py:55-68): what a window adds to a result file is what it
\* measured itself, all of it or, when its pull failed, a piece of it.
THEOREM LeaseTheorem ==
    ASSUME Transport = "ssh", ~MayOrphan
    PROVE  Spec => LeaseRefinement
<1> DEFINE Inv == SshAll /\ OrderInv /\ LoggedOnce
<1>1. Init => Inv
  BY SshInit, OrderInit
<1>2. Inv /\ [Next]_vars => Inv'
  BY SshAllStep, OrderStep, Transport = "ssh", ~MayOrphan DEF SshAll
<1>3. Inv /\ [Next]_vars => [Lease!Next]_Lease!vars
  BY LeaseStep DEF SshAll
<1>4. QED
  BY <1>1, <1>2, <1>3, LeaseInit, PTL DEF Spec, LeaseRefinement, Lease!Spec

=============================================================================
