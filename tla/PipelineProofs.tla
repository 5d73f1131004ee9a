--------------------------- MODULE PipelineProofs ---------------------------
(***************************************************************************)
(* Theorems about Pipeline, for any devices, executors, ABIs and number of *)
(* windows.                                                                *)
(***************************************************************************)
EXTENDS Pipeline, DataLemmas, TLAPS

-----------------------------------------------------------------------------
(***************************************************************************)
(* Types.                                                                  *)
(***************************************************************************)

LEMMA Executors ==
    ASSUME NEW d \in Device, NEW a \in Abi
    PROVE  /\ Available[<<d, a>>] \in Seq(ExecutorType)
           /\ Len(Available[<<d, a>>]) \in Nat
           /\ \A e \in 1..Len(Available[<<d, a>>]) : Available[<<d, a>>][e] \in ExecutorType
  <1>1. Available[<<d, a>>] \in Seq(ExecutorType)
    BY PipelineAssumption DEF Abi
  <1> QED
    BY <1>1

LEMMA Targets ==
    /\ Len(TargetDevices) \in Nat
    /\ \A k \in 1..Len(TargetDevices) : TargetDevices[k] \in Device
  BY PipelineAssumption

LEMMA Grown ==
    ASSUME NEW S, NEW s \in Seq(S), NEW e \in S
    PROVE  Append(s, e) \in Seq(S)
  OBVIOUS

LEMMA Joined2 ==
    ASSUME NEW S, NEW s \in Seq(S), NEW t \in Seq(S)
    PROVE  s \o t \in Seq(S)
  OBVIOUS

LEMMA InitType == Init => TypeOK
  <1> SUFFICES ASSUME Init PROVE TypeOK
    OBVIOUS
  <1>1. atOnce \in BOOLEAN /\ product \in [Device -> Product]
    BY PipelineAssumption DEF Init
  <1>2. abi \in Abi /\ next \in 1..(Len(TargetDevices) + 1)
    BY PipelineAssumption, Targets DEF Init, Abi
  <1>3. window \in [Device -> 1..MaxWindows] /\ ex \in [Device -> Nat \ {0}]
    BY PipelineAssumption DEF Init
  <1>4. tmp \in [Device -> Seq(Line \cup {Old})] /\ dest \in [ResultFile -> Seq(Line \cup {Old})]
    <2>1. <<Old>> \in Seq(Line \cup {Old}) /\ <<>> \in Seq(Line \cup {Old})
      OBVIOUS
    <2> QED
      BY <2>1 DEF Init
  <1>5. exists \subseteq ResultFile
    BY PipelineAssumption DEF Init, ResultFile
  <1>6. /\ result_files \in Seq(ResultFile)
        /\ logged \in [Device -> Seq(Line)]
    BY DEF Init
  <1>7. \A d \in Device : pc[d] = "idle"
    BY DEF Init
  <1> QED
    BY <1>1, <1>2, <1>3, <1>4, <1>5, <1>6, <1>7 DEF Init, TypeOK, Running, Binary

LEMMA MainType == TypeOK /\ Main => TypeOK'
  <1> SUFFICES ASSUME TypeOK, Main PROVE TypeOK'
    OBVIOUS
  <1> USE DEF args, worker, files
  <1>1. CASE Visit
    <2> DEFINE d == TargetDevices[next]
    <2>1. d \in Device /\ Len(TargetDevices) \in Nat /\ next \in Nat
      BY <1>1, Targets DEF Visit, TypeOK
    <2>2. CASE TheExecutors(d) = <<>>
      BY <1>1, <2>1, <2>2, SMTT(30) DEF Visit, TypeOK, Running, TheExecutors
    <2>3. CASE TheExecutors(d) # <<>>
      <3>1. /\ pc' = [pc EXCEPT ![d] = "start"]
            /\ ex' = [ex EXCEPT ![d] = 1]
            /\ UNCHANGED window
            /\ next' \in {next, next + 1}
            /\ main' \in {main, "call"}
        BY <1>1, <2>3 DEF Visit
      <3>2. Len(TheExecutors(d)) \in Nat
        BY <2>1, Executors DEF TypeOK, TheExecutors
      <3>3. pc' \in [Device -> {"idle", "start", "executor", "push", "run", "ended", "dead"}]
        BY <3>1 DEF TypeOK
      <3>4. ex' \in [Device -> Nat \ {0}]
        <4>1. 1 \in Nat \ {0} /\ ex \in [Device -> Nat \ {0}]
          BY DEF TypeOK
        <4> QED
          BY <3>1, <4>1
      <3>5. UNCHANGED abi
        BY <1>1 DEF Visit
      <3>6. \A c \in Device : Running(c)' => ex'[c] <= Len(TheExecutors(c))' + 1
        BY <2>1, <3>1, <3>2, <3>5, SMTT(30) DEF TypeOK, Running, TheExecutors
      <3>7. \A c \in Device : pc'[c] \in {"push", "run"} => ex'[c] <= Len(TheExecutors(c))'
        BY <2>1, <3>1, <3>5 DEF TypeOK, TheExecutors
      <3>8. next' \in 1..(Len(TargetDevices) + 1) /\ (main' = "call" => next' <= Len(TargetDevices))
        BY <1>1, <2>1, <3>1 DEF Visit, TypeOK
      <3> QED
        BY <1>1, <3>1, <3>3, <3>4, <3>5, <3>6, <3>7, <3>8 DEF Visit, TypeOK
    <2> QED
      BY <2>2, <2>3
  <1>2. CASE Return
    <2>1. next' \in 1..(Len(TargetDevices) + 1) /\ main' = "devices"
      <3>1. next \in 1..(Len(TargetDevices) + 1) /\ Len(TargetDevices) \in Nat
        BY Targets DEF TypeOK
      <3> QED
        BY <1>2, <3>1 DEF Return, TypeOK
    <2> QED
      BY <1>2, <2>1 DEF Return, TypeOK, Running, TheExecutors
  <1>3. CASE AllVisited
    BY <1>3 DEF AllVisited, TypeOK, Running, TheExecutors
  <1>4. CASE Join
    <2>1. \A d \in Device : pc[d] \notin {"start", "executor", "push", "run"}
      BY <1>4 DEF Join, Joined, Running
    <2>2. abi' \in Abi /\ next' \in 1..(Len(TargetDevices) + 1)
      BY <1>4, Targets, PipelineAssumption DEF Join, TypeOK, Abi
    <2> QED
      BY <1>4, <2>1, <2>2 DEF Join, TypeOK, Running
  <1>5. CASE Report
    BY <1>5 DEF Report, TypeOK, Running, TheExecutors
  <1> QED
    BY <1>1, <1>2, <1>3, <1>4, <1>5 DEF Main

\* The conjuncts of TypeOK about the threads.
WorkerOK ==
    /\ pc \in [Device -> {"idle", "start", "executor", "push", "run", "ended", "dead"}]
    /\ ex \in [Device -> Nat \ {0}]
    /\ \A d \in Device : Running(d) => ex[d] <= Len(TheExecutors(d)) + 1
    /\ \A d \in Device : pc[d] \in {"push", "run"} => ex[d] <= Len(TheExecutors(d))
    /\ window \in [Device -> 1..MaxWindows]

\* What a thread writes of its own: where it is, its executor and its window.
LEMMA WorkerType ==
    ASSUME TypeOK, NEW d \in Device, Running(d),
           UNCHANGED <<args, abi>>,
           \E l \in {"executor", "push", "run", "ended", "dead"} : Goto(d, l),
           \E e \in Nat \ {0} : ex' = [ex EXCEPT ![d] = e],
           ex'[d] <= Len(TheExecutors(d)) + 1,
           pc'[d] \in {"push", "run"} => ex'[d] <= Len(TheExecutors(d)),
           \E w \in 1..MaxWindows : window' = [window EXCEPT ![d] = w]
    PROVE  WorkerOK'
  <1>1. pc' \in [Device -> {"idle", "start", "executor", "push", "run", "ended", "dead"}]
    BY DEF Goto, TypeOK
  <1>2. ex' \in [Device -> Nat \ {0}]
    BY DEF TypeOK
  <1>3. window' \in [Device -> 1..MaxWindows]
    BY DEF TypeOK
  <1>4. \A c \in Device : TheExecutors(c)' = TheExecutors(c)
    BY DEF TheExecutors, args
  <1>5. \A c \in Device : c # d => pc'[c] = pc[c] /\ ex'[c] = ex[c]
    BY DEF Goto, TypeOK
  <1>6. \A c \in Device : Running(c)' => ex'[c] <= Len(TheExecutors(c))' + 1
    BY <1>4, <1>5 DEF Running, TypeOK
  <1>7. \A c \in Device : pc'[c] \in {"push", "run"} => ex'[c] <= Len(TheExecutors(c))'
    BY <1>4, <1>5 DEF TypeOK
  <1> QED
    BY <1>1, <1>2, <1>3, <1>6, <1>7 DEF WorkerOK

LEMMA Same ==
    ASSUME TypeOK, NEW d \in Device
    PROVE  /\ \E e \in Nat \ {0} : ex = [ex EXCEPT ![d] = e]
           /\ \E w \in 1..MaxWindows : window = [window EXCEPT ![d] = w]
  <1>1. ex[d] \in Nat \ {0} /\ ex = [ex EXCEPT ![d] = ex[d]]
    BY DEF TypeOK
  <1>2. window[d] \in 1..MaxWindows /\ window = [window EXCEPT ![d] = window[d]]
    BY DEF TypeOK
  <1> QED
    BY <1>1, <1>2

LEMMA PathType ==
    ASSUME TypeOK, NEW d \in Device
    PROVE  ResultPath(d) \in ResultFile
  BY DEF TypeOK, ResultPath, ResultFile

LEMMA EndsType ==
    ASSUME TypeOK, NEW d \in Device, Running(d), Ends(d),
           UNCHANGED <<args, binary, pushed, files, logged>>, clean' \in BOOLEAN
    PROVE  TypeOK'
  <1>1. /\ pc' = [pc EXCEPT ![d] = "dead"]
        /\ main' \in {main, "exit"}
        /\ UNCHANGED <<abi, next, ex, window>>
    BY DEF Ends, Goto
  <1>2. pc' \in [Device -> {"idle", "start", "executor", "push", "run", "ended", "dead"}]
    BY <1>1 DEF TypeOK
  <1>3. \A c \in Device : TheExecutors(c)' = TheExecutors(c) /\ (Running(c)' => Running(c))
    BY <1>1 DEF TheExecutors, Running, TypeOK
  <1>4. \A c \in Device : pc'[c] \in {"push", "run"} => pc'[c] = pc[c]
    BY <1>1 DEF TypeOK
  <1> QED
    BY <1>1, <1>2, <1>3, <1>4 DEF TypeOK, args, files

\* The list of executors goes on.
LEMMA OnwardType ==
    ASSUME TypeOK, NEW d \in Device, pc[d] = "run", Onward(d), UNCHANGED <<args, abi>>
    PROVE  WorkerOK'
  <1>1. Len(TheExecutors(d)) \in Nat
    BY Executors DEF TypeOK, TheExecutors
  <1>2. ex[d] \in Nat \ {0} /\ ex[d] <= Len(TheExecutors(d)) /\ Running(d)
    BY DEF TypeOK, Running
  <1>3. CASE window[d] < MaxWindows /\ window' = [window EXCEPT ![d] = @ + 1]
             /\ Goto(d, "push") /\ UNCHANGED ex
    <2>1. \E w \in 1..MaxWindows : window' = [window EXCEPT ![d] = w]
      <3>1. window[d] \in 1..MaxWindows /\ MaxWindows \in Nat
        BY PipelineAssumption DEF TypeOK
      <3>2. window[d] + 1 \in 1..MaxWindows
        BY <1>3, <3>1
      <3> QED
        BY <1>3, <3>2
    <2>2. \E e \in Nat \ {0} : ex' = [ex EXCEPT ![d] = e]
      BY <1>3, Same
    <2>3. ex'[d] <= Len(TheExecutors(d)) + 1
      BY <1>1, <1>2, <1>3
    <2>4. ex'[d] <= Len(TheExecutors(d))
      BY <1>2, <1>3
    <2> QED
      BY <1>2, <1>3, <2>1, <2>2, <2>3, <2>4, WorkerType
  <1>4. CASE ex' = [ex EXCEPT ![d] = @ + 1] /\ Goto(d, "executor") /\ UNCHANGED window
    <2>1. \E w \in 1..MaxWindows : window' = [window EXCEPT ![d] = w]
      BY <1>4, Same
    <2>2. ex[d] + 1 \in Nat \ {0}
      BY <1>2
    <2>3. \E e \in Nat \ {0} : ex' = [ex EXCEPT ![d] = e]
      BY <1>4, <2>2
    <2>4. ex'[d] <= Len(TheExecutors(d)) + 1
      BY <1>1, <1>2, <1>4 DEF TypeOK
    <2>5. pc'[d] = "executor"
      BY <1>4 DEF Goto, TypeOK
    <2> QED
      BY <1>2, <1>4, <2>1, <2>3, <2>4, <2>5, WorkerType
  <1> QED
    BY <1>3, <1>4 DEF Onward

\* What is appended to the result file.
LEMMA ExtendedType ==
    ASSUME TypeOK, NEW d \in Device, NEW copy \in Seq(Line \cup {Old}), Extended(d, copy)
    PROVE  dest' \in [ResultFile -> Seq(Line \cup {Old})] /\ exists' \subseteq ResultFile
  <1>1. ResultPath(d) \in ResultFile
    BY PathType
  <1>2. dest[ResultPath(d)] \o copy \in Seq(Line \cup {Old})
    BY <1>1, Joined2 DEF TypeOK
  <1> QED
    BY <1>1, <1>2 DEF Extended, TypeOK

LEMMA WorkType == ASSUME TypeOK, NEW d \in Device, Work(d) PROVE TypeOK'
  <1> USE DEF args, driver, worker, files
  <1>0. Len(TheExecutors(d)) \in Nat /\ ex[d] \in Nat \ {0}
    BY Executors DEF TypeOK, TheExecutors
  <1>1. CASE Start(d)
    <2>1. dest' \in [ResultFile -> Seq(Line \cup {Old})] /\ exists' \subseteq ResultFile
      <3>1. <<>> \in Seq(Line \cup {Old})
        OBVIOUS
      <3> QED
        BY <1>1, <3>1, PathType DEF Start, Removed, TypeOK
    <2>2. Running(d) /\ UNCHANGED <<args, abi, ex, window>> /\ Goto(d, "executor") /\ pc'[d] = "executor"
      BY <1>1 DEF Start, Running, Goto, TypeOK
    <2>3. ex'[d] <= Len(TheExecutors(d)) + 1
      BY <2>2 DEF TypeOK
    <2>4. /\ \E e \in Nat \ {0} : ex' = [ex EXCEPT ![d] = e]
          /\ \E w \in 1..MaxWindows : window' = [window EXCEPT ![d] = w]
      BY <2>2, Same
    <2>5. WorkerOK'
      BY <2>2, <2>3, <2>4, WorkerType
    <2> QED
      BY <1>1, <2>1, <2>5 DEF Start, TypeOK, WorkerOK
  <1>2. CASE SkipExecutor(d)
    <2>1. ex' = [ex EXCEPT ![d] = @ + 1] /\ pc[d] = "executor" /\ ex[d] <= Len(TheExecutors(d))
          /\ UNCHANGED <<args, driver, pc, window, binary, pushed, files, logged, clean>>
      BY <1>2 DEF SkipExecutor
    <2>2. ex[d] + 1 \in Nat \ {0} /\ ex[d] + 1 <= Len(TheExecutors(d)) + 1
      BY <1>0, <2>1
    <2>3. ex' \in [Device -> Nat \ {0}]
      BY <2>1, <2>2 DEF TypeOK
    <2>4. \A c \in Device : Running(c)' => ex'[c] <= Len(TheExecutors(c))' + 1
      BY <2>1, <2>2 DEF Running, TheExecutors, TypeOK
    <2>5. \A c \in Device : pc'[c] \in {"push", "run"} => ex'[c] <= Len(TheExecutors(c))'
      BY <2>1 DEF TheExecutors, TypeOK
    <2> QED
      BY <2>1, <2>3, <2>4, <2>5 DEF TypeOK
  <1>3. CASE Build(d)
    <2>1. binary' \in Binary
      <3>1. TheExecutor(d) \in ExecutorType
        BY <1>0, <1>3, Executors DEF Build, TypeOK, TheExecutor, TheExecutors
      <3> QED
        BY <1>3, <3>1 DEF Build, Binary, TypeOK
    <2>2. Running(d) /\ UNCHANGED <<args, abi, ex>> /\ Goto(d, "push")
          /\ ex[d] <= Len(TheExecutors(d)) /\ window' = [window EXCEPT ![d] = 1]
      BY <1>3 DEF Build, Running
    <2>3. /\ \E e \in Nat \ {0} : ex' = [ex EXCEPT ![d] = e]
          /\ \E w \in 1..MaxWindows : window' = [window EXCEPT ![d] = w]
      <3>1. 1 \in 1..MaxWindows
        BY PipelineAssumption
      <3> QED
        BY <2>2, <3>1, Same
    <2>4. ex'[d] <= Len(TheExecutors(d)) + 1 /\ ex'[d] <= Len(TheExecutors(d))
      BY <1>0, <2>2
    <2>5. WorkerOK'
      BY <2>2, <2>3, <2>4, WorkerType
    <2> QED
      BY <1>3, <2>1, <2>5 DEF Build, TypeOK, WorkerOK
  <1>4. CASE Note(d)
    <2>1. result_files' \in Seq(ResultFile)
      BY <1>4, PathType, Grown DEF Note, Noted, TypeOK
    <2>2. Running(d) /\ UNCHANGED <<args, abi, ex, window>> /\ Goto(d, "ended") /\ pc'[d] = "ended"
      BY <1>4 DEF Note, Running, Goto, TypeOK
    <2>3. ex'[d] <= Len(TheExecutors(d)) + 1
      BY <2>2 DEF TypeOK
    <2>4. /\ \E e \in Nat \ {0} : ex' = [ex EXCEPT ![d] = e]
          /\ \E w \in 1..MaxWindows : window' = [window EXCEPT ![d] = w]
      BY <2>2, Same
    <2>5. WorkerOK'
      BY <2>2, <2>3, <2>4, WorkerType
    <2> QED
      BY <1>4, <2>1, <2>5 DEF Note, TypeOK, WorkerOK
  <1>5. CASE Push(d)
    <2>1. pushed' \in [Device -> Binary]
      BY <1>5 DEF Push, TypeOK
    <2>2. Running(d) /\ UNCHANGED <<args, abi, ex, window>> /\ Goto(d, "run") /\ ex[d] <= Len(TheExecutors(d))
      BY <1>5 DEF Push, Running, TypeOK
    <2>3. ex'[d] <= Len(TheExecutors(d)) + 1 /\ ex'[d] <= Len(TheExecutors(d))
      BY <1>0, <2>2
    <2>4. /\ \E e \in Nat \ {0} : ex' = [ex EXCEPT ![d] = e]
          /\ \E w \in 1..MaxWindows : window' = [window EXCEPT ![d] = w]
      BY <2>2, Same
    <2>5. WorkerOK'
      BY <2>2, <2>3, <2>4, WorkerType
    <2> QED
      BY <1>5, <2>1, <2>5 DEF Push, TypeOK, WorkerOK
  <1>6. CASE Run(d)
    <2> DEFINE line == [device |-> d, abi |-> abi, ex |-> ex[d], window |-> window[d]]
    <2>1. line \in Line
      BY <1>0, PipelineAssumption DEF Line, TypeOK
    <2>2. logged[d] \in Seq(Line)
      BY DEF TypeOK
    <2>3. logged' = [logged EXCEPT ![d] = Append(logged[d], line)]
      BY <1>6 DEF Run, TypeOK
    <2>4. logged' \in [Device -> Seq(Line)]
      BY <2>1, <2>2, <2>3, Grown DEF TypeOK
    <2>5. <<line>> \in Seq(Line \cup {Old})
      BY <2>1
    <2>6. tmp' \in [Device -> Seq(Line \cup {Old})]
      BY <1>6, <2>5 DEF Run, TypeOK
    <2>7. Extended(d, <<line>>)
      BY <1>6 DEF Run
    <2>8. dest' \in [ResultFile -> Seq(Line \cup {Old})] /\ exists' \subseteq ResultFile
      BY <2>5, <2>7, ExtendedType
    <2>9. pc[d] = "run" /\ Onward(d) /\ UNCHANGED <<args, driver, binary, pushed, result_files, clean>>
      BY <1>6 DEF Run
    <2>10. WorkerOK'
      BY <2>9, OnwardType
    <2> QED
      BY <2>4, <2>6, <2>8, <2>9, <2>10 DEF TypeOK, WorkerOK
  <1>7. CASE RunForNothing(d)
    <2>1. /\ pc[d] = "run" /\ Onward(d) /\ Extended(d, tmp[d]) /\ clean' = FALSE
          /\ UNCHANGED <<args, driver, binary, pushed, tmp, result_files, logged>>
      BY <1>7 DEF RunForNothing
    <2>2. dest' \in [ResultFile -> Seq(Line \cup {Old})] /\ exists' \subseteq ResultFile
      BY <2>1, ExtendedType DEF TypeOK
    <2>3. WorkerOK'
      BY <2>1, OnwardType
    <2> QED
      BY <2>1, <2>2, <2>3 DEF TypeOK, WorkerOK
  <1>8. CASE RunToTheEnd(d)
    BY <1>8, EndsType DEF RunToTheEnd, Running
  <1> QED
    BY <1>1, <1>2, <1>3, <1>4, <1>5, <1>6, <1>7, <1>8 DEF Work

LEMMA NextType == TypeOK /\ [Next]_vars => TypeOK'
  <1> SUFFICES ASSUME TypeOK, [Next]_vars PROVE TypeOK'
    OBVIOUS
  <1>1. CASE Main
    BY <1>1, MainType
  <1>2. ASSUME NEW d \in Device, Work(d) PROVE TypeOK'
    BY <1>2, WorkType
  <1>3. ASSUME NEW d \in Device, Raise(d) PROVE TypeOK'
    BY <1>3, EndsType DEF Raise
  <1>4. CASE UNCHANGED vars
    BY <1>4 DEF vars, args, driver, worker, files, TypeOK, Running, TheExecutors
  <1> QED
    BY <1>1, <1>2, <1>3, <1>4 DEF Next

\* Whatever devices, executors and ABIs there are and however the threads
\* interleave, no thread is at an executor its device has not, nor main at an
\* ABI or a device there is not (benchmark.py:310-355).
THEOREM TypeCorrect == Spec => []TypeOK
  BY InitType, NextType, PTL DEF Spec

-----------------------------------------------------------------------------
(***************************************************************************)
(* The binaries.  Threads run for the ABI main is at only, and without     *)
(* threads only one device is being worked on.                             *)
(***************************************************************************)

\* Main waits: in the one mode in its call, in the other before the next ABI.
WaitsInv ==
    /\ main \in {"report", "done"} => \A d \in Device : ~Running(d)
    /\ atOnce => main \notin {"call", "exit"}
    /\ ~atOnce => \A d \in Device : Running(d) => main = "call" /\ d = TargetDevices[next]

BinaryInv ==
    \A d \in Device :
        /\ pc[d] \in {"push", "run"} => binary # <<>> /\ binary[1] = abi
        /\ pc[d] \in {"push", "run"} /\ ~atOnce => binary = <<abi, TheExecutor(d)>>
        /\ pc[d] = "run" => pushed[d] # <<>> /\ pushed[d][1] = abi
        /\ pc[d] = "run" /\ ~atOnce => RightBinary(d)

BuildInv == WaitsInv /\ BinaryInv

LEMMA InitBuild == Init => BuildInv
  <1> SUFFICES ASSUME Init PROVE BuildInv
    OBVIOUS
  <1>1. \A d \in Device : pc[d] = "idle"
    BY DEF Init
  <1> QED
    BY <1>1 DEF Init, BuildInv, WaitsInv, BinaryInv, Running

LEMMA MainBuild == TypeOK /\ BuildInv /\ Main => BuildInv'
  <1> SUFFICES ASSUME TypeOK, BuildInv, Main PROVE BuildInv'
    OBVIOUS
  <1> USE DEF args, worker, files
  <1>1. CASE Visit
    <2> DEFINE d == TargetDevices[next]
    <2>1. d \in Device
      BY <1>1, Targets DEF Visit, TypeOK
    <2>2. UNCHANGED <<atOnce, abi, binary, pushed>>
      BY <1>1 DEF Visit
    <2>3. CASE TheExecutors(d) = <<>>
      <3>1. UNCHANGED <<main, pc, ex>>
        BY <1>1, <2>3 DEF Visit
      <3>2. main = "devices"
        BY <1>1 DEF Visit
      <3>3. WaitsInv'
        BY <2>2, <3>1, <3>2 DEF BuildInv, WaitsInv, Running
      <3>4. BinaryInv'
        BY <1>1, <2>2, <3>1 DEF Visit, BuildInv, BinaryInv, RightBinary, TheExecutor, TheExecutors
      <3> QED
        BY <3>3, <3>4 DEF BuildInv
    <2>4. CASE TheExecutors(d) # <<>>
      <3>1. /\ pc' = [pc EXCEPT ![d] = "start"]
            /\ ex' = [ex EXCEPT ![d] = 1]
            /\ atOnce => main' = "devices"
            /\ ~atOnce => main' = "call" /\ next' = next
            /\ main = "devices"
        BY <1>1, <2>4 DEF Visit
      <3>2. WaitsInv'
        <4>1. ~atOnce => \A c \in Device : Running(c)' => c = d
          BY <3>1 DEF BuildInv, WaitsInv, Running, TypeOK
        <4> QED
          BY <2>2, <3>1, <4>1 DEF WaitsInv
      <3>3. BinaryInv'
        <4>1. \A c \in Device : pc'[c] \in {"push", "run"} => pc'[c] = pc[c] /\ ex'[c] = ex[c]
          BY <3>1 DEF TypeOK
        <4> QED
          BY <2>2, <4>1 DEF BuildInv, BinaryInv, RightBinary, TheExecutor, TheExecutors
      <3> QED
        BY <3>2, <3>3 DEF BuildInv
    <2> QED
      BY <2>3, <2>4
  <1>2. CASE Return
    <2>1. ~Running(TargetDevices[next]) /\ main = "call" /\ main' = "devices"
          /\ UNCHANGED <<atOnce, abi, pc, ex, binary, pushed>>
      BY <1>2 DEF Return, Running
    <2>2. WaitsInv'
      BY <2>1 DEF BuildInv, WaitsInv, Running
    <2>3. BinaryInv'
      BY <2>1 DEF BuildInv, BinaryInv, RightBinary, TheExecutor, TheExecutors
    <2> QED
      BY <2>2, <2>3 DEF BuildInv
  <1>3. CASE AllVisited
    <2>1. main = "devices" /\ main' = "join" /\ UNCHANGED <<atOnce, abi, next, pc, ex, binary, pushed>>
      BY <1>3 DEF AllVisited
    <2>2. WaitsInv'
      BY <2>1 DEF BuildInv, WaitsInv, Running
    <2>3. BinaryInv'
      BY <2>1 DEF BuildInv, BinaryInv, RightBinary, TheExecutor, TheExecutors
    <2> QED
      BY <2>2, <2>3 DEF BuildInv
  <1>4. CASE Join
    <2>1. /\ \A d \in Device : ~Running(d) /\ ~Running(d)'
          /\ main' \in {"devices", "report"}
          /\ UNCHANGED atOnce
      BY <1>4 DEF Join, Joined, Running
    <2>2. WaitsInv'
      BY <2>1 DEF WaitsInv
    <2>3. BinaryInv'
      BY <2>1 DEF BinaryInv, Running
    <2> QED
      BY <2>2, <2>3 DEF BuildInv
  <1>5. CASE Report
    <2>1. main = "report" /\ main' = "done" /\ UNCHANGED <<atOnce, abi, next, pc, ex, binary, pushed>>
      BY <1>5 DEF Report
    <2>2. WaitsInv'
      BY <2>1 DEF BuildInv, WaitsInv, Running
    <2>3. BinaryInv'
      BY <2>1 DEF BuildInv, BinaryInv, RightBinary, TheExecutor, TheExecutors
    <2> QED
      BY <2>2, <2>3 DEF BuildInv
  <1> QED
    BY <1>1, <1>2, <1>3, <1>4, <1>5 DEF Main

\* A running thread that goes on, or stops, leaves main where it is.
LEMMA GoesOn ==
    ASSUME TypeOK, WaitsInv, NEW d \in Device, Running(d), NEW l, Goto(d, l),
           UNCHANGED <<atOnce, main, next>>
    PROVE  WaitsInv'
  <1>1. \A c \in Device : Running(c)' => Running(c)
    BY DEF Goto, Running, TypeOK
  <1> QED
    BY <1>1 DEF WaitsInv

LEMMA EndsBuild ==
    ASSUME TypeOK, BuildInv, NEW d \in Device, Running(d), Ends(d),
           UNCHANGED <<args, binary, pushed>>
    PROVE  BuildInv'
  <1>1. /\ pc' = [pc EXCEPT ![d] = "dead"]
        /\ UNCHANGED <<abi, next, ex, atOnce>>
        /\ atOnce => main' = main
        /\ ~atOnce => main' = "exit"
    BY DEF Ends, Goto, args
  <1>2. \A c \in Device : Running(c)' => Running(c) /\ c # d
    BY <1>1 DEF Running, TypeOK
  <1>3. ~atOnce => \A c \in Device : Running(c) => c = d
    BY DEF BuildInv, WaitsInv
  <1>4. WaitsInv'
    BY <1>1, <1>2, <1>3 DEF BuildInv, WaitsInv
  <1>5. \A c \in Device : pc'[c] \in {"push", "run"} => pc'[c] = pc[c]
    BY <1>1 DEF TypeOK
  <1>6. BinaryInv'
    BY <1>1, <1>5 DEF BuildInv, BinaryInv, RightBinary, TheExecutor, TheExecutors
  <1> QED
    BY <1>4, <1>6 DEF BuildInv

\* A step that builds and pushes nothing, after which only threads that had a
\* binary already are at a window.
LEMMA NothingBuilt ==
    ASSUME TypeOK, BinaryInv, NEW d \in Device, UNCHANGED <<args, abi, binary, pushed>>,
           \A c \in Device : c # d => pc'[c] = pc[c] /\ ex'[c] = ex[c],
           pc'[d] # "run",
           pc'[d] = "push" => pc[d] = "run" /\ ex'[d] = ex[d]
    PROVE  BinaryInv'
  BY DEF BinaryInv, RightBinary, TheExecutor, TheExecutors, args

LEMMA OnwardBuild ==
    ASSUME TypeOK, BuildInv, NEW d \in Device, pc[d] = "run", Onward(d),
           UNCHANGED <<args, driver, binary, pushed>>
    PROVE  BuildInv'
  <1>1. WaitsInv'
    <2>1. \E l \in {"push", "executor"} : Goto(d, l)
      BY DEF Onward
    <2> QED
      BY <2>1, GoesOn DEF BuildInv, Running, args, driver
  <1>2. /\ \A c \in Device : c # d => pc'[c] = pc[c] /\ ex'[c] = ex[c]
        /\ pc'[d] # "run"
        /\ pc'[d] = "push" => ex'[d] = ex[d]
    BY DEF Onward, Goto, TypeOK
  <1>3. BinaryInv'
    BY <1>2, NothingBuilt DEF BuildInv, driver
  <1> QED
    BY <1>1, <1>3 DEF BuildInv

LEMMA WorkBuild == ASSUME TypeOK, BuildInv, NEW d \in Device, Work(d) PROVE BuildInv'
  <1> USE DEF args, driver, worker, files
  <1>1. CASE Start(d)
    <2>1. pc[d] = "start" /\ Goto(d, "executor") /\ UNCHANGED <<args, driver, ex, binary, pushed>>
      BY <1>1 DEF Start
    <2>2. pc'[d] = "executor" /\ \A c \in Device : c # d => pc'[c] = pc[c] /\ ex'[c] = ex[c]
      BY <2>1 DEF Goto, TypeOK
    <2> QED
      BY <2>1, <2>2, GoesOn, NothingBuilt DEF BuildInv, Running
  <1>2. CASE SkipExecutor(d)
    <2>1. pc[d] = "executor" /\ UNCHANGED <<args, driver, pc, binary, pushed>>
          /\ ex' = [ex EXCEPT ![d] = @ + 1]
      BY <1>2 DEF SkipExecutor
    <2>2. WaitsInv'
      BY <2>1 DEF BuildInv, WaitsInv, Running
    <2>3. \A c \in Device : c # d => pc'[c] = pc[c] /\ ex'[c] = ex[c]
      BY <2>1 DEF TypeOK
    <2> QED
      BY <2>1, <2>2, <2>3, NothingBuilt DEF BuildInv
  <1>3. CASE Build(d)
    <2>1. /\ pc[d] = "executor" /\ binary' = <<abi, TheExecutor(d)>>
          /\ Goto(d, "push") /\ UNCHANGED <<args, driver, ex, pushed>>
      BY <1>3 DEF Build
    <2>2. WaitsInv'
      BY <2>1, GoesOn DEF BuildInv, Running
    <2>3. /\ \A c \in Device : TheExecutor(c)' = TheExecutor(c) /\ pushed'[c] = pushed[c]
          /\ \A c \in Device : c # d => pc'[c] = pc[c]
          /\ pc'[d] = "push"
      BY <2>1 DEF TheExecutor, TheExecutors, Goto, TypeOK
    <2>4. ~atOnce => \A c \in Device : c # d => pc[c] \notin {"push", "run"}
      BY <2>1 DEF BuildInv, WaitsInv, Running
    <2>5. binary' # <<>> /\ binary'[1] = abi
      BY <2>1
    <2>6. \A c \in Device : pc'[c] = "run" => pc[c] = "run"
      BY <2>3
    <2>7. BinaryInv'
      BY <2>1, <2>3, <2>4, <2>5, <2>6 DEF BuildInv, BinaryInv, RightBinary
    <2> QED
      BY <2>2, <2>7 DEF BuildInv
  <1>4. CASE Note(d)
    <2>1. pc[d] = "executor" /\ Goto(d, "ended") /\ UNCHANGED <<args, driver, ex, binary, pushed>>
      BY <1>4 DEF Note
    <2>2. pc'[d] = "ended" /\ \A c \in Device : c # d => pc'[c] = pc[c] /\ ex'[c] = ex[c]
      BY <2>1 DEF Goto, TypeOK
    <2> QED
      BY <2>1, <2>2, GoesOn, NothingBuilt DEF BuildInv, Running
  <1>5. CASE Push(d)
    <2>1. /\ pc[d] = "push" /\ pushed' = [pushed EXCEPT ![d] = binary]
          /\ Goto(d, "run") /\ UNCHANGED <<args, driver, ex, binary>>
      BY <1>5 DEF Push
    <2>2. WaitsInv'
      BY <2>1, GoesOn DEF BuildInv, Running
    <2>3. /\ \A c \in Device : TheExecutor(c)' = TheExecutor(c)
          /\ \A c \in Device : c # d => pc'[c] = pc[c] /\ pushed'[c] = pushed[c]
          /\ pushed'[d] = binary
      BY <2>1 DEF TheExecutor, TheExecutors, Goto, TypeOK
    <2>4. BinaryInv'
      BY <2>1, <2>3 DEF BuildInv, BinaryInv, RightBinary
    <2> QED
      BY <2>2, <2>4 DEF BuildInv
  <1>6. CASE Run(d)
    BY <1>6, OnwardBuild DEF Run
  <1>7. CASE RunForNothing(d)
    BY <1>7, OnwardBuild DEF RunForNothing
  <1>8. CASE RunToTheEnd(d)
    BY <1>8, EndsBuild DEF RunToTheEnd, Running
  <1> QED
    BY <1>1, <1>2, <1>3, <1>4, <1>5, <1>6, <1>7, <1>8 DEF Work

LEMMA NextBuild == TypeOK /\ BuildInv /\ [Next]_vars => BuildInv'
  <1> SUFFICES ASSUME TypeOK, BuildInv, [Next]_vars PROVE BuildInv'
    OBVIOUS
  <1>1. CASE Main
    BY <1>1, MainBuild
  <1>2. ASSUME NEW d \in Device, Work(d) PROVE BuildInv'
    BY <1>2, WorkBuild
  <1>3. ASSUME NEW d \in Device, Raise(d) PROVE BuildInv'
    BY <1>3, EndsBuild DEF Raise
  <1>4. CASE UNCHANGED vars
    <2>1. UNCHANGED <<atOnce, main, abi, next, pc, ex, binary, pushed>>
      BY <1>4 DEF vars, args, driver, worker
    <2>2. WaitsInv'
      BY <2>1 DEF BuildInv, WaitsInv, Running
    <2>3. BinaryInv'
      BY <2>1 DEF BuildInv, BinaryInv, RightBinary, TheExecutor, TheExecutors
    <2> QED
      BY <2>2, <2>3 DEF BuildInv
  <1> QED
    BY <1>1, <1>2, <1>3, <1>4 DEF Next

\* However many devices, ABIs and executors there are and however the threads
\* interleave, what a device runs was built for the ABI main is at, and without
\* threads for its executor: every build of a device comes between its visit and
\* its windows, and the next ABI only after all threads of this one
\* (benchmark.py:264-271, 354-356).
THEOREM BuiltTheorem == Spec => []BuiltForThis
  <1>1. BuildInv => BuiltForThis
    BY DEF BuildInv, BinaryInv, BuiltForThis
  <1>2. Init => BuildInv
    BY InitBuild
  <1>3. TypeOK /\ BuildInv /\ [Next]_vars => BuildInv'
    BY NextBuild
  <1> QED
    BY <1>1, <1>2, <1>3, TypeCorrect, PTL DEF Spec

-----------------------------------------------------------------------------
(***************************************************************************)
(* The result files.  As long as nothing was for nothing, the files that   *)
(* are listed, or being written, are of what they are named after.         *)
(***************************************************************************)

Listed(r) == \E j \in 1..Len(result_files) : result_files[j] = r
Written(r) == \E d \in Device : pc[d] \in {"executor", "push", "run"} /\ ResultPath(d) = r
Labelled(r) ==
    \A k \in 1..Len(dest[r]) :
        dest[r][k] # Old /\ r = <<product[dest[r][k].device], dest[r][k].abi>>

LabelInv == clean => \A r \in ResultFile : Listed(r) \/ Written(r) => Labelled(r)

LEMMA LabelSame ==
    ASSUME TypeOK, LabelInv, UNCHANGED <<product, dest, result_files>>, clean' => clean,
           \A r \in ResultFile : Written(r)' => Written(r)
    PROVE  LabelInv'
  BY DEF LabelInv, Listed, Labelled

\* A thread that has the file already, or ends, writes no other one.
LEMMA WrittenSame ==
    ASSUME TypeOK, NEW d \in Device, NEW l, Goto(d, l), UNCHANGED <<product, abi>>,
           l \in {"executor", "push", "run"} => pc[d] \in {"executor", "push", "run"}
    PROVE  \A r \in ResultFile : Written(r)' => Written(r)
  <1> SUFFICES ASSUME NEW r \in ResultFile, Written(r)' PROVE Written(r)
    OBVIOUS
  <1>1. PICK c \in Device : pc'[c] \in {"executor", "push", "run"} /\ ResultPath(c)' = r
    BY DEF Written
  <1>2. ResultPath(c) = r
    BY <1>1 DEF ResultPath
  <1>3. pc[c] \in {"executor", "push", "run"}
    BY <1>1 DEF Goto, TypeOK
  <1> QED
    BY <1>2, <1>3 DEF Written

\* The line of this window is of what the file is named after.
LEMMA LabelGrows ==
    ASSUME TypeOK, LabelInv, NEW d \in Device, pc[d] = "run", Onward(d),
           Extended(d, <<[device |-> d, abi |-> abi, ex |-> ex[d], window |-> window[d]]>>),
           UNCHANGED <<product, abi, result_files, clean>>
    PROVE  LabelInv'
  <1> DEFINE line == [device |-> d, abi |-> abi, ex |-> ex[d], window |-> window[d]]
             p == ResultPath(d)
  <1>1. line # Old
    <2>1. line.abi # Old.abi
      BY PipelineAssumption DEF TypeOK, Abi, Old
    <2> QED
      BY <2>1
  <1>2. p \in ResultFile /\ dest[p] \in Seq(Line \cup {Old})
    BY PathType DEF TypeOK
  <1>3. dest' = [dest EXCEPT ![p] = dest[p] \o <<line>>]
    BY <1>2 DEF Extended, TypeOK
  <1> SUFFICES ASSUME clean', NEW r \in ResultFile, (Listed(r) \/ Written(r))' PROVE Labelled(r)'
    BY DEF LabelInv
  <1>4. \E l \in {"push", "executor"} : Goto(d, l)
    BY DEF Onward
  <1>5. Listed(r) \/ Written(r)
    BY <1>4, WrittenSame DEF Listed
  <1>6. Labelled(r)
    BY <1>5 DEF LabelInv
  <1>7. CASE r # p
    <2>1. dest'[r] = dest[r]
      BY <1>2, <1>3, <1>7 DEF TypeOK
    <2> QED
      BY <1>6, <2>1 DEF Labelled
  <1>8. CASE r = p
    <2>1. dest'[r] = dest[r] \o <<line>>
      BY <1>2, <1>3, <1>8 DEF TypeOK
    <2>2. Len(dest'[r]) = Len(dest[r]) + 1 /\ Len(dest[r]) \in Nat
          /\ dest'[r][Len(dest[r]) + 1] = line
          /\ \A k \in 1..Len(dest[r]) : dest'[r][k] = dest[r][k]
      BY <1>2, <1>8, <2>1
    <2>3. r = <<product[line.device], line.abi>>
      BY <1>8 DEF ResultPath
    <2>4. ASSUME NEW k \in 1..Len(dest'[r])
          PROVE  dest'[r][k] # Old /\ r = <<product[dest'[r][k].device], dest'[r][k].abi>>
      <3>1. CASE k \in 1..Len(dest[r])
        BY <1>6, <2>2, <3>1 DEF Labelled
      <3>2. CASE k = Len(dest[r]) + 1
        BY <1>1, <2>2, <2>3, <3>2
      <3> QED
        BY <2>2, <3>1, <3>2
    <2> QED
      BY <2>4 DEF Labelled
  <1> QED
    BY <1>7, <1>8

LEMMA WorkLabel == ASSUME TypeOK, LabelInv, NEW d \in Device, Work(d) PROVE LabelInv'
  <1> USE DEF args, driver, files
  <1>1. CASE Start(d)
    <2>1. /\ dest' = [dest EXCEPT ![ResultPath(d)] = <<>>]
          /\ Goto(d, "executor")
          /\ UNCHANGED <<product, abi, result_files, clean>>
      BY <1>1 DEF Start, Removed
    <2> SUFFICES ASSUME clean', NEW r \in ResultFile, (Listed(r) \/ Written(r))' PROVE Labelled(r)'
      BY DEF LabelInv
    <2>2. CASE r = ResultPath(d)
      <3>1. dest'[r] = <<>>
        BY <2>1, <2>2 DEF TypeOK
      <3> QED
        BY <3>1 DEF Labelled
    <2>3. CASE r # ResultPath(d)
      <3>1. dest'[r] = dest[r]
        BY <2>1, <2>3 DEF TypeOK
      <3>2. Listed(r)' => Listed(r)
        BY <2>1 DEF Listed
      <3>3. Written(r)' => Written(r)
        <4>1. \A c \in Device : ResultPath(c)' = ResultPath(c) /\ (c # d => pc'[c] = pc[c])
          BY <2>1 DEF ResultPath, Goto, TypeOK
        <4> QED
          BY <2>3, <4>1 DEF Written
      <3> QED
        BY <2>1, <3>1, <3>2, <3>3 DEF LabelInv, Labelled
    <2> QED
      BY <2>2, <2>3
  <1>2. CASE SkipExecutor(d)
    <2>1. UNCHANGED <<product, abi, pc, dest, result_files, clean>>
      BY <1>2 DEF SkipExecutor
    <2> QED
      BY <2>1, LabelSame DEF Written, ResultPath
  <1>3. CASE Build(d)
    <2>1. pc[d] = "executor" /\ Goto(d, "push") /\ UNCHANGED <<product, abi, dest, result_files, clean>>
      BY <1>3 DEF Build
    <2> QED
      BY <2>1, LabelSame, WrittenSame
  <1>4. CASE Note(d)
    <2>1. /\ pc[d] = "executor" /\ Goto(d, "ended") /\ UNCHANGED <<product, abi, dest, clean>>
          /\ result_files' \in {result_files, Append(result_files, ResultPath(d))}
      BY <1>4 DEF Note, Noted
    <2>2. \A r \in ResultFile : Written(r)' => Written(r)
      BY <2>1, WrittenSame
    <2>3. Written(ResultPath(d))
      BY <2>1 DEF Written
    <2>4. \A r \in ResultFile : Listed(r)' => Listed(r) \/ r = ResultPath(d)
      <3>1. result_files \in Seq(ResultFile)
        BY DEF TypeOK
      <3> QED
        BY <2>1, <3>1 DEF Listed
    <2> QED
      BY <2>1, <2>2, <2>3, <2>4 DEF LabelInv, Labelled
  <1>5. CASE Push(d)
    <2>1. pc[d] = "push" /\ Goto(d, "run") /\ UNCHANGED <<product, abi, dest, result_files, clean>>
      BY <1>5 DEF Push
    <2> QED
      BY <2>1, LabelSame, WrittenSame
  <1>6. CASE Run(d)
    BY <1>6, LabelGrows DEF Run
  <1>7. CASE RunForNothing(d)
    BY <1>7 DEF RunForNothing, LabelInv
  <1>8. CASE RunToTheEnd(d)
    BY <1>8 DEF RunToTheEnd, LabelInv
  <1> QED
    BY <1>1, <1>2, <1>3, <1>4, <1>5, <1>6, <1>7, <1>8 DEF Work

LEMMA MainLabel == TypeOK /\ LabelInv /\ Main => LabelInv'
  <1> SUFFICES ASSUME TypeOK, LabelInv, Main PROVE LabelInv'
    OBVIOUS
  <1>1. UNCHANGED <<product, dest, result_files, clean>>
    BY DEF Main, Visit, Return, AllVisited, Join, Report, args, files
  <1>2. CASE Visit
    <2>1. abi' = abi /\ \A d \in Device : pc'[d] \in {"executor", "push", "run"} => pc'[d] = pc[d]
      BY <1>2, Targets DEF Visit, worker, TypeOK
    <2> QED
      BY <1>1, <2>1, LabelSame DEF Written, ResultPath
  <1>3. CASE Return \/ AllVisited \/ Report
    <2>1. UNCHANGED <<abi, pc>>
      BY <1>3 DEF Return, AllVisited, Report, worker
    <2> QED
      BY <1>1, <2>1, LabelSame DEF Written, ResultPath
  <1>4. CASE Join
    <2>1. \A d \in Device : pc'[d] \notin {"executor", "push", "run"}
      BY <1>4 DEF Join, Joined, Running, worker
    <2> QED
      BY <1>1, <2>1, LabelSame DEF Written
  <1> QED
    BY <1>2, <1>3, <1>4 DEF Main

LEMMA InitLabel == Init => LabelInv
  BY DEF Init, LabelInv, Listed, Written

LEMMA NextLabel == TypeOK /\ LabelInv /\ [Next]_vars => LabelInv'
  <1> SUFFICES ASSUME TypeOK, LabelInv, [Next]_vars PROVE LabelInv'
    OBVIOUS
  <1>1. ASSUME NEW d \in Device, Raise(d) PROVE LabelInv'
    BY <1>1 DEF Raise, LabelInv
  <1>2. CASE UNCHANGED vars
    BY <1>2, LabelSame DEF vars, args, driver, worker, files, Written, ResultPath
  <1> QED
    BY <1>1, <1>2, MainLabel, WorkLabel DEF Next

\* Whatever devices share a product and however the threads interleave: as long
\* as every window logged a line, a listed file holds none of an earlier run, of
\* another product or of another ABI.  The file is removed before the executors,
\* and extended only by devices of its name (benchmark.py:249-252).
THEOREM LabelTheorem == Spec => []LabelledRight
  <1>1. TypeOK /\ LabelInv => LabelledRight
    <2>1. TypeOK => \A j \in 1..Len(result_files) : result_files[j] \in ResultFile
      BY DEF TypeOK
    <2> QED
      BY <2>1 DEF LabelInv, LabelledRight, Listed, Labelled
  <1> QED
    BY <1>1, InitLabel, NextLabel, TypeCorrect, PTL DEF Spec

-----------------------------------------------------------------------------
(***************************************************************************)
(* The list.  What is on it is of devices that are through with the ABI,   *)
(* whose files nobody else removes if their products differ.               *)
(***************************************************************************)

\* Main has called run_on_device for this device, or started its thread.
Called(k) == k < next \/ (main \in {"call", "exit"} /\ k = next)

CalledInv ==
    \A d \in Device : Running(d) =>
        \E k \in 1..Len(TargetDevices) : TargetDevices[k] = d /\ Called(k)

\* A listed file is of an earlier ABI, or of a device through with this one.
Through(r) ==
    \E k \in 1..Len(TargetDevices), a \in Abi :
        /\ r = <<product[TargetDevices[k]], a>>
        /\ a <= abi
        /\ a = abi => Called(k) /\ ~Running(TargetDevices[k])

ThroughInv ==
    \A j \in 1..Len(result_files) : result_files[j] \in exists /\ Through(result_files[j])

ListInv == CalledInv /\ (AllApart => ThroughInv)

LEMMA InitList == Init => ListInv
  BY DEF Init, ListInv, CalledInv, ThroughInv, Running

\* A step of main that starts no device, and after which all that were called
\* count as called.
LEMMA MainGoesOn ==
    ASSUME TypeOK, ListInv, UNCHANGED <<product, abi, pc, exists, result_files>>,
           \A k \in 1..Len(TargetDevices) : Called(k) => Called(k)'
    PROVE  ListInv'
  <1>1. CalledInv'
    BY DEF ListInv, CalledInv, Running
  <1>2. ASSUME AllApart, NEW j \in 1..Len(result_files)
        PROVE  result_files[j] \in exists /\ Through(result_files[j])'
    BY <1>2 DEF ListInv, ThroughInv, Through, Running
  <1> QED
    BY <1>1, <1>2 DEF ListInv, ThroughInv, AllApart

LEMMA MainList == TypeOK /\ ListInv /\ Main => ListInv'
  <1> SUFFICES ASSUME TypeOK, ListInv, Main PROVE ListInv'
    OBVIOUS
  <1>0. next \in Nat /\ Len(TargetDevices) \in Nat
    BY Targets DEF TypeOK
  <1> USE DEF args, worker, files
  <1>1. CASE Visit
    <2> DEFINE d == TargetDevices[next]
    <2>1. /\ main = "devices" /\ next \in 1..Len(TargetDevices) /\ d \in Device
          /\ UNCHANGED <<product, abi, exists, result_files>>
      BY <1>0, <1>1, Targets DEF Visit, TypeOK
    <2>2. \/ next' = next + 1 /\ UNCHANGED <<main, pc>>
          \/ /\ pc' = [pc EXCEPT ![d] = "start"]
             /\ \/ next' = next + 1 /\ main' = main
                \/ next' = next /\ main' = "call"
      BY <1>1 DEF Visit
    <2>3. /\ \A k \in 1..Len(TargetDevices) : Called(k) => k < next
          /\ \A k \in 1..Len(TargetDevices) : Called(k) => Called(k)'
      BY <1>0, <2>1, <2>2 DEF Called
    <2>4. CASE UNCHANGED pc
      BY <2>1, <2>3, <2>4, MainGoesOn
    <2>5. CASE pc' = [pc EXCEPT ![d] = "start"]
      <3>1. PICK m \in 1..Len(TargetDevices) : m = next
        BY <2>1
      <3>a. Called(m)'
        <4>1. CASE next' = next + 1
          BY <1>0, <3>1, <4>1 DEF Called
        <4>2. CASE next' = next /\ main' = "call"
          BY <3>1, <4>2 DEF Called
        <4>3. next' = next + 1 \/ (next' = next /\ main' = "call")
          BY <2>2
        <4> QED
          BY <4>1, <4>2, <4>3
      <3>2. \A c \in Device : c # d => Running(c)' = Running(c)
        BY <2>5 DEF Running, TypeOK
      <3>3. CalledInv'
        <4> SUFFICES ASSUME NEW c \in Device, Running(c)'
                     PROVE  \E k \in 1..Len(TargetDevices) : TargetDevices[k] = c /\ Called(k)'
          BY DEF CalledInv
        <4>1. CASE c = d
          BY <2>1, <3>1, <3>a, <4>1
        <4>2. CASE c # d
          <5>1. PICK k \in 1..Len(TargetDevices) : TargetDevices[k] = c /\ Called(k)
            BY <3>2, <4>2 DEF ListInv, CalledInv
          <5> QED
            BY <2>3, <5>1
        <4> QED
          BY <4>1, <4>2
      <3>4. \A k \in 1..Len(TargetDevices) : k < next => TargetDevices[k] \in Device /\ TargetDevices[k] # d
        BY <1>0, <2>1, Targets, PipelineAssumption
      <3>5. ASSUME AllApart, NEW j \in 1..Len(result_files)
            PROVE  result_files[j] \in exists /\ Through(result_files[j])'
        <4>1. result_files[j] \in exists /\ Through(result_files[j])
          BY <3>5 DEF ListInv, ThroughInv
        <4>2. PICK k \in 1..Len(TargetDevices), a \in Abi :
                /\ result_files[j] = <<product[TargetDevices[k]], a>>
                /\ a <= abi
                /\ a = abi => Called(k) /\ ~Running(TargetDevices[k])
          BY <4>1 DEF Through
        <4>3. a = abi => Called(k)' /\ ~Running(TargetDevices[k])'
          BY <2>3, <3>2, <3>4, <4>2
        <4> QED
          BY <2>1, <4>1, <4>2, <4>3 DEF Through
      <3> QED
        BY <2>1, <3>3, <3>5 DEF ListInv, ThroughInv, AllApart
    <2> QED
      BY <2>2, <2>4, <2>5
  <1>2. CASE Return
    <2>1. \A k \in 1..Len(TargetDevices) : Called(k) => Called(k)'
      BY <1>0, <1>2 DEF Return, Called
    <2> QED
      BY <1>2, <2>1, MainGoesOn DEF Return
  <1>3. CASE AllVisited
    <2>1. \A k \in 1..Len(TargetDevices) : Called(k) => Called(k)'
      BY <1>0, <1>3 DEF AllVisited, Called
    <2> QED
      BY <1>3, <2>1, MainGoesOn DEF AllVisited
  <1>4. CASE Join
    <2>1. /\ \A d \in Device : ~Running(d) /\ ~Running(d)'
          /\ UNCHANGED <<product, exists, result_files>>
      BY <1>4 DEF Join, Joined, Running
    <2>2. \/ abi' = abi + 1
          \/ abi' = abi /\ next' = next /\ main = "join"
      BY <1>4 DEF Join
    <2>3. CalledInv'
      BY <2>1 DEF CalledInv
    <2>4. ASSUME AllApart, NEW j \in 1..Len(result_files)
          PROVE  result_files[j] \in exists /\ Through(result_files[j])'
      <3>1. result_files[j] \in exists /\ Through(result_files[j])
        BY <2>4 DEF ListInv, ThroughInv
      <3>2. PICK k \in 1..Len(TargetDevices), a \in Abi :
              /\ result_files[j] = <<product[TargetDevices[k]], a>>
              /\ a <= abi
              /\ a = abi => Called(k) /\ ~Running(TargetDevices[k])
        BY <3>1 DEF Through
      <3>3. a \in Int /\ abi \in Int
        BY PipelineAssumption DEF TypeOK, Abi
      <3>4. TargetDevices[k] \in Device
        BY Targets
      <3>5. a <= abi' /\ (a = abi' => Called(k)' /\ ~Running(TargetDevices[k])')
        BY <2>1, <2>2, <3>2, <3>3, <3>4 DEF Called
      <3> QED
        BY <2>1, <3>1, <3>2, <3>5 DEF Through
    <2> QED
      BY <2>1, <2>3, <2>4 DEF ListInv, ThroughInv, AllApart
  <1>5. CASE Report
    <2>1. \A k \in 1..Len(TargetDevices) : Called(k) => Called(k)'
      BY <1>0, <1>5 DEF Report, Called
    <2> QED
      BY <1>5, <2>1, MainGoesOn DEF Report
  <1> QED
    BY <1>1, <1>2, <1>3, <1>4, <1>5 DEF Main

\* A step of a thread that lists no file and removes none that is listed.
LEMMA ThreadGoesOn ==
    ASSUME TypeOK, ListInv, UNCHANGED <<product, abi, next, result_files>>,
           main' \in {main, "exit"},
           \A d \in Device : Running(d)' => Running(d),
           \A j \in 1..Len(result_files) :
               AllApart /\ result_files[j] \in exists => result_files[j] \in exists'
    PROVE  ListInv'
  <1>1. \A k \in 1..Len(TargetDevices) : Called(k) => Called(k)'
    BY DEF Called
  <1>2. CalledInv'
    BY <1>1 DEF ListInv, CalledInv
  <1>3. ASSUME AllApart, NEW j \in 1..Len(result_files)
        PROVE  result_files[j] \in exists' /\ Through(result_files[j])'
    <2>1. result_files[j] \in exists /\ Through(result_files[j])
      BY <1>3 DEF ListInv, ThroughInv
    <2>2. Through(result_files[j])'
      BY <1>1, <2>1, Targets DEF Through
    <2> QED
      BY <1>3, <2>1, <2>2
  <1> QED
    BY <1>2, <1>3 DEF ListInv, ThroughInv, AllApart

\* A device that is running removes no file that is listed.
LEMMA NotListed ==
    ASSUME TypeOK, ListInv, AllApart, NEW d \in Device, Running(d),
           NEW j \in 1..Len(result_files)
    PROVE  result_files[j] # ResultPath(d)
  <1> SUFFICES ASSUME result_files[j] = ResultPath(d) PROVE FALSE
    OBVIOUS
  <1>1. PICK k \in 1..Len(TargetDevices), a \in Abi :
          /\ result_files[j] = <<product[TargetDevices[k]], a>>
          /\ a = abi => ~Running(TargetDevices[k])
    <2>1. Through(result_files[j])
      BY DEF ListInv, ThroughInv
    <2> QED
      BY <2>1 DEF Through
  <1>2. a = abi /\ product[TargetDevices[k]] = product[d]
    BY <1>1 DEF ResultPath
  <1>3. TargetDevices[k] = d
    BY <1>2, Targets DEF AllApart
  <1> QED
    BY <1>1, <1>2, <1>3

LEMMA WorkList == ASSUME TypeOK, ListInv, NEW d \in Device, Work(d) \/ Raise(d) PROVE ListInv'
  <1> USE DEF args, driver, worker, files
  <1>1. CASE Start(d)
    <2>1. /\ Running(d)
          /\ exists' = exists \ {ResultPath(d)}
          /\ UNCHANGED <<product, abi, next, main, result_files>>
          /\ Goto(d, "executor")
      BY <1>1 DEF Start, Removed, Running
    <2>2. \A c \in Device : Running(c)' => Running(c)
      BY <2>1 DEF Goto, Running, TypeOK
    <2>3. \A j \in 1..Len(result_files) :
              AllApart /\ result_files[j] \in exists => result_files[j] \in exists'
      BY <2>1, NotListed
    <2> QED
      BY <2>1, <2>2, <2>3, ThreadGoesOn
  <1>2. CASE Note(d)
    <2>1. /\ Running(d) /\ Goto(d, "ended")
          /\ UNCHANGED <<product, abi, next, main, exists>>
      BY <1>2 DEF Note, Running
    <2>2. \A c \in Device : Running(c)' => Running(c) /\ c # d
      BY <2>1 DEF Goto, Running, TypeOK
    <2>3. CASE UNCHANGED result_files
      BY <2>1, <2>2, <2>3, ThreadGoesOn
    <2>4. CASE ResultPath(d) \in exists /\ result_files' = Append(result_files, ResultPath(d))
      <3>1. CalledInv'
        BY <2>1, <2>2 DEF ListInv, CalledInv, Called
      <3>2. \A r : Through(r) => Through(r)'
        BY <2>1, <2>2, Targets DEF Through, Called
      <3>3. Through(ResultPath(d))'
        <4>1. PICK k \in 1..Len(TargetDevices) : TargetDevices[k] = d /\ Called(k)
          BY <2>1 DEF ListInv, CalledInv
        <4>2. abi \in Abi /\ abi <= abi
          BY PipelineAssumption DEF TypeOK, Abi
        <4>3. Called(k)' /\ ~Running(TargetDevices[k])'
          BY <2>1, <2>2, <4>1 DEF Called
        <4> QED
          BY <2>1, <4>1, <4>2, <4>3 DEF Through, ResultPath
      <3>4. result_files \in Seq(ResultFile)
        BY DEF TypeOK
      <3>5. ASSUME AllApart, NEW j \in 1..Len(result_files')
            PROVE  (result_files[j] \in exists /\ Through(result_files[j]))'
        <4>1. CASE j \in 1..Len(result_files)
          <5>1. result_files'[j] = result_files[j]
            BY <2>4, <3>4, <4>1
          <5>2. result_files[j] \in exists /\ Through(result_files[j])
            BY <3>5, <4>1 DEF ListInv, ThroughInv
          <5>3. Through(result_files[j])'
            BY <3>2, <5>1, <5>2
          <5> QED
            BY <2>1, <5>1, <5>2, <5>3
        <4>2. CASE j = Len(result_files) + 1
          <5>1. result_files'[j] = ResultPath(d) /\ ResultPath(d)' = ResultPath(d)
            BY <2>1, <2>4, <3>4, <4>2 DEF ResultPath
          <5>2. Through(result_files[j])'
            BY <3>3, <5>1
          <5> QED
            BY <2>1, <2>4, <5>1, <5>2
        <4> QED
          BY <2>4, <3>4, <4>1, <4>2
      <3> QED
        BY <2>1, <3>1, <3>5 DEF ListInv, ThroughInv, AllApart
    <2> QED
      BY <1>2, <2>3, <2>4 DEF Note, Noted
  <1>3. CASE SkipExecutor(d) \/ Build(d) \/ Push(d) \/ Run(d) \/ RunForNothing(d)
    <2>1. /\ UNCHANGED <<product, abi, next, main, result_files>>
          /\ exists \subseteq exists'
      BY <1>3 DEF SkipExecutor, Build, Push, Run, RunForNothing, Extended
    <2>2. Running(d)
      BY <1>3 DEF SkipExecutor, Build, Push, Run, RunForNothing, Running
    <2>3. UNCHANGED pc \/ \E l \in {"executor", "push", "run"} : Goto(d, l)
      BY <1>3 DEF SkipExecutor, Build, Push, Run, RunForNothing, Onward
    <2>4. \A c \in Device : Running(c)' => Running(c)
      BY <2>2, <2>3 DEF Goto, Running, TypeOK
    <2> QED
      BY <2>1, <2>4, ThreadGoesOn
  <1>4. CASE RunToTheEnd(d) \/ Raise(d)
    <2>1. /\ UNCHANGED <<product, abi, next, result_files, exists>>
          /\ main' \in {main, "exit"}
          /\ Goto(d, "dead")
      BY <1>4 DEF RunToTheEnd, Raise, Ends
    <2>2. \A c \in Device : Running(c)' => Running(c)
      BY <2>1 DEF Goto, Running, TypeOK
    <2> QED
      BY <2>1, <2>2, ThreadGoesOn
  <1> QED
    BY <1>1, <1>2, <1>3, <1>4 DEF Work

LEMMA NextList == TypeOK /\ ListInv /\ [Next]_vars => ListInv'
  <1> SUFFICES ASSUME TypeOK, ListInv, [Next]_vars PROVE ListInv'
    OBVIOUS
  <1>1. CASE UNCHANGED vars
    <2>1. UNCHANGED <<product, abi, pc, exists, result_files, main, next>>
      BY <1>1 DEF vars, args, driver, worker, files
    <2> QED
      BY <2>1, MainGoesOn DEF Called
  <1> QED
    BY <1>1, MainList, WorkList DEF Next

\* Whatever ABIs and executors there are, whichever devices are lost and however
\* the threads interleave: if the products differ, every listed file is there to
\* be read.  A file is listed when its device is through with the ABI, and is
\* removed only at the start of one of its name (benchmark.py:252, 272-273).
THEOREM ListedTheorem == Spec => []ListedExist
  <1>1. ListInv => ListedExist
    BY DEF ListInv, ThroughInv, ListedExist
  <1> QED
    BY <1>1, InitList, NextList, TypeCorrect, PTL DEF Spec

-----------------------------------------------------------------------------
(***************************************************************************)
(* The lines.  If the products differ, what a device logged stays in the   *)
(* file of its ABI, and once the device is through, the file is listed.    *)
(***************************************************************************)

Lines(s) == {s[k] : k \in 1..Len(s)}
File(d, l) == <<product[d], l.abi>>

\* A line d logged: in its file and, if it is of the ABI main is at, of a device
\* that was called and removes the file no more.
Kept(d, l) ==
    /\ l.device = d /\ l.abi <= abi
    /\ File(d, l) \in exists
    /\ l \in Lines(dest[File(d, l)])
    /\ l.abi = abi =>
         /\ \E k \in 1..Len(TargetDevices) : TargetDevices[k] = d /\ Called(k)
         /\ pc[d] \notin {"idle", "start"}
         /\ pc[d] = "ended" => Listed(File(d, l))

SavedInv == AllApart => \A d \in Device : \A l \in Lines(logged[d]) : Kept(d, l)

LEMMA LinesAppend ==
    ASSUME NEW S, NEW s \in Seq(S), NEW e \in S
    PROVE  Lines(Append(s, e)) = Lines(s) \cup {e}
  <1>1. /\ Len(s) \in Nat /\ Len(Append(s, e)) = Len(s) + 1
        /\ \A k \in 1..Len(s) : Append(s, e)[k] = s[k]
        /\ Append(s, e)[Len(s) + 1] = e
    OBVIOUS
  <1>2. \A k : k \in 1..(Len(s) + 1) <=> k \in 1..Len(s) \/ k = Len(s) + 1
    BY <1>1
  <1> QED
    BY <1>1, <1>2 DEF Lines

LEMMA LinesBoth ==
    ASSUME NEW S, NEW s \in Seq(S), NEW t \in Seq(S)
    PROVE  Lines(s) \subseteq Lines(s \o t)
  <1>1. /\ Len(s) \in Nat /\ Len(t) \in Nat /\ Len(s \o t) = Len(s) + Len(t)
        /\ \A k \in 1..Len(s) : (s \o t)[k] = s[k]
    OBVIOUS
  <1>2. \A k \in 1..Len(s) : k \in 1..Len(s \o t)
    BY <1>1
  <1> QED
    BY <1>1, <1>2 DEF Lines

LEMMA ExtendedLines ==
    ASSUME TypeOK, NEW d \in Device, NEW copy \in Seq(Line \cup {Old}), Extended(d, copy)
    PROVE  /\ \A r \in ResultFile : Lines(dest[r]) \subseteq Lines(dest'[r])
           /\ \A r \in ResultFile : r # ResultPath(d) => dest'[r] = dest[r]
           /\ dest'[ResultPath(d)] = dest[ResultPath(d)] \o copy
           /\ exists' = exists \cup {ResultPath(d)}
  <1> DEFINE p == ResultPath(d)
  <1>1. p \in ResultFile /\ dest[p] \in Seq(Line \cup {Old})
    BY PathType DEF TypeOK
  <1>2. dest' = [dest EXCEPT ![p] = dest[p] \o copy] /\ exists' = exists \cup {p}
    BY <1>1 DEF Extended, TypeOK
  <1>3. Lines(dest[p]) \subseteq Lines(dest[p] \o copy)
    BY <1>1, LinesBoth
  <1> QED
    BY <1>1, <1>2, <1>3 DEF TypeOK

\* Whom main has called stays called for the ABI.
LEMMA CalledStays ==
    ASSUME TypeOK, Main, abi' = abi, NEW k \in 1..Len(TargetDevices), Called(k)
    PROVE  Called(k)'
  <1>0. next \in Nat /\ abi \in Nat
    BY Targets, PipelineAssumption DEF TypeOK, Abi
  <1>1. CASE Visit
    BY <1>0, <1>1 DEF Visit, Called
  <1>2. CASE Return \/ AllVisited \/ Report
    BY <1>0, <1>2 DEF Return, AllVisited, Report, Called
  <1>3. CASE Join
    <2>1. main = "join" /\ next' = next
      BY <1>0, <1>3 DEF Join
    <2> QED
      BY <2>1 DEF Called
  <1> QED
    BY <1>1, <1>2, <1>3 DEF Main

LEMMA DriverStays ==
    ASSUME NEW d \in Device, Work(d) \/ Raise(d)
    PROVE  /\ UNCHANGED <<product, abi, next>>
           /\ main' \in {main, "exit"}
           /\ \A k : Called(k) => Called(k)'
  <1>1. UNCHANGED <<product, abi, next>> /\ main' \in {main, "exit"}
    BY DEF Work, Raise, Start, SkipExecutor, Build, Note, Push, Run, RunForNothing, RunToTheEnd,
           Ends, args, driver
  <1> QED
    BY <1>1 DEF Called

\* A line that is still there.
LEMMA KeptStays ==
    ASSUME NEW d \in Device, NEW l, Kept(d, l), UNCHANGED <<product, abi>>,
           \A k \in 1..Len(TargetDevices) : Called(k) => Called(k)',
           File(d, l) \in exists', l \in Lines(dest'[File(d, l)]),
           l.abi = abi =>
               pc'[d] \notin {"idle", "start"} /\ (pc'[d] = "ended" => Listed(File(d, l))')
    PROVE  Kept(d, l)'
  <1>1. File(d, l)' = File(d, l)
    BY DEF File
  <1>2. l.device = d /\ l.abi <= abi'
    BY DEF Kept
  <1>3. l.abi = abi =>
          \E k \in 1..Len(TargetDevices) : TargetDevices[k] = d /\ Called(k)'
    BY DEF Kept
  <1>4. Listed(File(d, l)') <=> Listed(File(d, l))
    BY <1>1
  <1> QED
    BY <1>1, <1>2, <1>3 DEF Kept, Listed

LEMMA LinesType ==
    ASSUME TypeOK, NEW d \in Device, NEW l \in Lines(logged[d])
    PROVE  l \in Line /\ l.abi \in Abi /\ l.abi \in Int /\ File(d, l) \in ResultFile
  <1>1. logged[d] \in Seq(Line)
    BY DEF TypeOK
  <1>2. l \in Line
    BY <1>1 DEF Lines
  <1>3. l.abi \in Abi /\ l.abi \in Int
    BY <1>2, PipelineAssumption DEF Line, Abi
  <1> QED
    BY <1>2, <1>3 DEF File, ResultFile, TypeOK

LEMMA MainSaved == TypeOK /\ SavedInv /\ Main => SavedInv'
  <1> SUFFICES ASSUME TypeOK, SavedInv, Main, AllApart,
                      NEW d \in Device, NEW l \in Lines(logged[d])
               PROVE  Kept(d, l)'
    BY DEF SavedInv, AllApart, Main, Visit, Return, AllVisited, Join, Report, args
  <1>1. Kept(d, l) /\ l.abi \in Int /\ l.abi <= abi
    BY LinesType DEF SavedInv, Kept
  <1>2. UNCHANGED <<product, dest, exists, result_files>>
    BY DEF Main, Visit, Return, AllVisited, Join, Report, args, files
  <1>3. File(d, l) \in exists' /\ l \in Lines(dest'[File(d, l)])
    BY <1>1, <1>2 DEF Kept
  <1>4. CASE abi' = abi /\ pc'[d] = pc[d]
    <2>1. l.abi = abi =>
              pc'[d] \notin {"idle", "start"} /\ (pc'[d] = "ended" => Listed(File(d, l))')
      BY <1>1, <1>2, <1>4 DEF Kept, Listed, File
    <2> QED
      BY <1>1, <1>2, <1>3, <1>4, <2>1, CalledStays, KeptStays
  <1>5. CASE Visit /\ pc'[d] # pc[d]
    <2>1. main = "devices" /\ next \in 1..Len(TargetDevices) /\ d = TargetDevices[next] /\ abi' = abi
      BY <1>5, Targets, SMTT(30) DEF Visit, worker, TypeOK
    <2>2. l.abi # abi
      <3> SUFFICES ASSUME l.abi = abi PROVE FALSE
        OBVIOUS
      <3>1. PICK k \in 1..Len(TargetDevices) : TargetDevices[k] = d /\ Called(k)
        BY <1>1 DEF Kept
      <3>2. k < next
        BY <2>1, <3>1 DEF Called
      <3>3. k = next
        BY <2>1, <3>1, PipelineAssumption
      <3> QED
        BY <2>1, <3>2, <3>3
    <2> QED
      BY <1>1, <1>2, <1>3, <2>1, <2>2, CalledStays, KeptStays
  <1>6. CASE Join /\ abi' # abi
    <2>1. abi' = abi + 1 /\ abi \in Int
      BY <1>6, PipelineAssumption DEF Join, TypeOK, Abi
    <2>2. l.abi <= abi' /\ l.abi # abi'
      BY <1>1, <2>1
    <2>3. File(d, l)' = File(d, l)
      BY <1>2 DEF File
    <2> QED
      BY <1>1, <1>3, <2>2, <2>3 DEF Kept
  <1>7. CASE Visit
    <2>1. abi' = abi
      BY <1>7 DEF Visit
    <2> QED
      BY <1>4, <1>5, <1>7, <2>1
  <1>8. CASE Join
    <2>1. pc' = pc
      BY <1>8 DEF Join, worker
    <2> QED
      BY <1>4, <1>6, <1>8, <2>1
  <1>9. CASE Return \/ AllVisited \/ Report
    <2>1. abi' = abi /\ pc' = pc
      BY <1>9 DEF Return, AllVisited, Report, worker
    <2> QED
      BY <1>4, <2>1
  <1> QED
    BY <1>7, <1>8, <1>9 DEF Main

\* A window in which d logs nothing new removes no line.
LEMMA WindowSaved ==
    ASSUME TypeOK, AllApart, SavedInv, NEW d \in Device, Running(d),
           NEW copy \in Seq(Line \cup {Old}), Extended(d, copy), Onward(d),
           UNCHANGED <<product, abi, next, main, result_files>>,
           NEW c \in Device, NEW l \in Lines(logged[c])
    PROVE  Kept(c, l)'
  <1>1. Kept(c, l) /\ File(c, l) \in ResultFile
    BY LinesType DEF SavedInv
  <1>2. \A k \in 1..Len(TargetDevices) : Called(k) => Called(k)'
    BY DEF Called
  <1>3. File(c, l) \in exists' /\ l \in Lines(dest'[File(c, l)])
    BY <1>1, ExtendedLines DEF Kept
  <1>4. pc'[c] = pc[c] \/ pc'[c] \in {"push", "executor"}
    BY DEF Onward, Goto, TypeOK
  <1>5. l.abi = abi =>
            pc'[c] \notin {"idle", "start"} /\ (pc'[c] = "ended" => Listed(File(c, l))')
    BY <1>1, <1>4 DEF Kept, Listed, File
  <1> QED
    BY <1>1, <1>2, <1>3, <1>5, KeptStays

LEMMA WorkSaved ==
    ASSUME TypeOK, ListInv, SavedInv, NEW d \in Device, Work(d) \/ Raise(d)
    PROVE  SavedInv'
  <1>0. /\ UNCHANGED <<product, abi, next>>
        /\ \A k \in 1..Len(TargetDevices) : Called(k) => Called(k)'
    BY DriverStays
  <1> SUFFICES ASSUME AllApart, NEW c \in Device, NEW l \in Lines(logged'[c])
               PROVE  Kept(c, l)'
    BY <1>0 DEF SavedInv, AllApart
  <1> USE DEF args, driver, worker, files
  <1>1. CASE Start(d)
    <2>1. /\ pc[d] = "start" /\ Goto(d, "executor")
          /\ dest' = [dest EXCEPT ![ResultPath(d)] = <<>>]
          /\ exists' = exists \ {ResultPath(d)}
          /\ UNCHANGED <<result_files, logged>>
      BY <1>1 DEF Start, Removed
    <2>2. Kept(c, l) /\ File(c, l) \in ResultFile
      BY <2>1, LinesType DEF SavedInv
    <2>3. File(c, l) # ResultPath(d)
      BY <2>1, <2>2 DEF AllApart, File, ResultPath, Kept
    <2>4. File(c, l) \in exists' /\ l \in Lines(dest'[File(c, l)])
      BY <2>1, <2>2, <2>3 DEF Kept, TypeOK
    <2>5. pc'[c] = pc[c] \/ pc'[c] = "executor"
      BY <2>1 DEF Goto, TypeOK
    <2>6. l.abi = abi =>
              pc'[c] \notin {"idle", "start"} /\ (pc'[c] = "ended" => Listed(File(c, l))')
      BY <1>0, <2>1, <2>2, <2>5 DEF Kept, Listed, File
    <2> QED
      BY <1>0, <2>2, <2>4, <2>6, KeptStays
  <1>2. CASE Note(d)
    <2>1. /\ Goto(d, "ended") /\ UNCHANGED <<dest, exists, logged>>
          /\ result_files' = Noted(d)
      BY <1>2 DEF Note
    <2>2. Kept(c, l) /\ File(c, l) \in exists
      BY <2>1 DEF SavedInv, Kept
    <2>3. result_files \in Seq(ResultFile) /\ ResultPath(d) \in ResultFile
      BY PathType DEF TypeOK
    <2>4. \A r : Listed(r) => Listed(r)'
      BY <2>1, <2>3 DEF Listed, Noted
    <2>5. ResultPath(d) \in exists => Listed(ResultPath(d))'
      <3> SUFFICES ASSUME ResultPath(d) \in exists
                   PROVE  \E j \in 1..Len(result_files') : result_files'[j] = ResultPath(d)
        BY <1>0 DEF Listed, ResultPath
      <3>1. result_files' = Append(result_files, ResultPath(d))
        BY <2>1 DEF Noted
      <3> DEFINE j == Len(result_files) + 1
      <3>2. j \in 1..Len(result_files') /\ result_files'[j] = ResultPath(d)
        BY <2>3, <3>1
      <3> QED
        BY <3>2
    <2>6. c # d => pc'[c] = pc[c]
      BY <2>1 DEF Goto, TypeOK
    <2>7. c = d /\ l.abi = abi => File(c, l) = ResultPath(d)
      BY DEF File, ResultPath
    <2>8. File(c, l)' = File(c, l) /\ ResultPath(d)' = ResultPath(d)
      BY <1>0 DEF File, ResultPath
    <2>9. l.abi = abi => pc'[c] \notin {"idle", "start"}
      BY <2>1, <2>2, <2>6 DEF Kept, Goto, TypeOK
    <2>10. l.abi = abi /\ pc'[c] = "ended" => Listed(File(c, l))'
      <3>1. CASE c = d
        <4>1. l.abi = abi => File(c, l) = ResultPath(d) /\ ResultPath(d) \in exists
          BY <2>2, <2>7, <3>1
        <4> QED
          BY <2>5, <2>8, <4>1 DEF Listed
      <3>2. CASE c # d
        <4>1. l.abi = abi /\ pc'[c] = "ended" => Listed(File(c, l))
          BY <2>2, <2>6, <3>2 DEF Kept
        <4> QED
          BY <2>4, <2>8, <4>1 DEF Listed
      <3> QED
        BY <3>1, <3>2
    <2>11. File(c, l) \in exists' /\ l \in Lines(dest'[File(c, l)])
      BY <2>1, <2>2 DEF Kept
    <2> QED
      BY <1>0, <2>2, <2>9, <2>10, <2>11, KeptStays
  <1>3. CASE Run(d)
    <2> DEFINE line == [device |-> d, abi |-> abi, ex |-> ex[d], window |-> window[d]]
    <2>1. /\ pc[d] = "run" /\ Running(d) /\ Onward(d) /\ Extended(d, <<line>>)
          /\ UNCHANGED <<main, result_files>>
          /\ logged' = [logged EXCEPT ![d] = Append(@, line)]
      BY <1>3 DEF Run, Running
    <2>2. line \in Line /\ line \in Line \cup {Old}
      BY PipelineAssumption DEF Line, TypeOK
    <2>3. <<line>> \in Seq(Line \cup {Old}) /\ logged[d] \in Seq(Line)
      BY <2>2 DEF TypeOK
    <2>4. CASE l \in Lines(logged[c])
      BY <1>0, <2>1, <2>3, <2>4, WindowSaved
    <2>5. CASE c = d /\ l = line
      <3>1. File(d, l) = ResultPath(d) /\ ResultPath(d) \in ResultFile
        BY <2>5, PathType DEF File, ResultPath
      <3>2. ResultPath(d) \in exists'
            /\ dest'[ResultPath(d)] = dest[ResultPath(d)] \o <<line>>
        BY <2>1, <2>3, ExtendedLines
      <3>3. l \in Lines(dest'[ResultPath(d)])
        <4> DEFINE s == dest[ResultPath(d)]
        <4>1. s \in Seq(Line \cup {Old})
          BY <3>1 DEF TypeOK
        <4>2. s \o <<line>> = Append(s, line)
          BY <2>2, <4>1
        <4>3. line \in Lines(Append(s, line))
          BY <2>2, <4>1, LinesAppend
        <4> QED
          BY <2>5, <3>2, <4>2, <4>3
      <3>4. PICK k \in 1..Len(TargetDevices) : TargetDevices[k] = d /\ Called(k)
        BY <2>1 DEF ListInv, CalledInv
      <3>5. pc'[d] \in {"push", "executor"}
        BY <2>1 DEF Onward, Goto, TypeOK
      <3>6. l.device = d /\ l.abi = abi /\ abi <= abi
        BY <2>5, PipelineAssumption DEF TypeOK, Abi
      <3>7. File(d, l)' = ResultPath(d)
        BY <1>0, <3>1 DEF File
      <3> QED
        BY <1>0, <2>5, <3>2, <3>3, <3>4, <3>5, <3>6, <3>7 DEF Kept
    <2>6. l \in Lines(logged[c]) \/ (c = d /\ l = line)
      <3>1. CASE c = d
        <4>1. logged'[c] = Append(logged[d], line)
          BY <2>1, <3>1 DEF TypeOK
        <4> QED
          BY <2>2, <2>3, <3>1, <4>1, LinesAppend
      <3>2. CASE c # d
        BY <2>1, <3>2 DEF TypeOK
      <3> QED
        BY <3>1, <3>2
    <2> QED
      BY <2>4, <2>5, <2>6
  <1>4. CASE RunForNothing(d)
    <2>1. /\ Running(d) /\ Onward(d) /\ Extended(d, tmp[d]) /\ tmp[d] \in Seq(Line \cup {Old})
          /\ UNCHANGED <<main, result_files, logged>>
      BY <1>4 DEF RunForNothing, Running, TypeOK
    <2> QED
      BY <1>0, <2>1, WindowSaved
  <1>5. CASE SkipExecutor(d) \/ Build(d) \/ Push(d) \/ RunToTheEnd(d) \/ Raise(d)
    <2>1. UNCHANGED <<dest, exists, result_files, logged>>
      BY <1>5 DEF SkipExecutor, Build, Push, RunToTheEnd, Raise
    <2>2. UNCHANGED pc \/ \E m \in {"push", "run", "dead"} : Goto(d, m)
      BY <1>5 DEF SkipExecutor, Build, Push, RunToTheEnd, Raise, Ends
    <2>3. pc'[c] = pc[c] \/ pc'[c] \in {"push", "run", "dead"}
      BY <2>2 DEF Goto, TypeOK
    <2>4. Kept(c, l)
      BY <2>1 DEF SavedInv
    <2>5. File(c, l) \in exists' /\ l \in Lines(dest'[File(c, l)])
      BY <2>1, <2>4 DEF Kept
    <2>6. l.abi = abi =>
              pc'[c] \notin {"idle", "start"} /\ (pc'[c] = "ended" => Listed(File(c, l))')
      BY <1>0, <2>1, <2>3, <2>4 DEF Kept, Listed, File
    <2> QED
      BY <1>0, <2>4, <2>5, <2>6, KeptStays
  <1> QED
    BY <1>1, <1>2, <1>3, <1>4, <1>5 DEF Work

LEMMA InitSaved == Init => SavedInv
  <1>1. Init => \A d \in Device : Lines(logged[d]) = {}
    BY DEF Init, Lines
  <1> QED
    BY <1>1 DEF SavedInv

LEMMA NextSaved == TypeOK /\ ListInv /\ SavedInv /\ [Next]_vars => SavedInv'
  <1> SUFFICES ASSUME TypeOK, ListInv, SavedInv, [Next]_vars PROVE SavedInv'
    OBVIOUS
  <1>1. CASE UNCHANGED vars
    <2>1. UNCHANGED <<product, main, abi, next, pc, dest, exists, result_files, logged>>
      BY <1>1 DEF vars, args, driver, worker, files
    <2> SUFFICES ASSUME AllApart, NEW d \in Device, NEW l \in Lines(logged[d])
                 PROVE  Kept(d, l)'
      BY <2>1 DEF SavedInv, AllApart
    <2>2. Kept(d, l)
      BY DEF SavedInv
    <2>3. \A k : Called(k) => Called(k)'
      BY <2>1 DEF Called
    <2>4. /\ File(d, l) \in exists' /\ l \in Lines(dest'[File(d, l)])
          /\ l.abi = abi =>
                 pc'[d] \notin {"idle", "start"} /\ (pc'[d] = "ended" => Listed(File(d, l))')
      BY <2>1, <2>2 DEF Kept, Listed, File
    <2> QED
      BY <2>1, <2>2, <2>3, <2>4, KeptStays
  <1> QED
    BY <1>1, MainSaved, WorkSaved DEF Next

\* Whatever ABIs and executors there are, however the threads interleave and
\* whichever devices are lost: if the products differ, a device that came to the
\* end of its executors has all it logged for the ABI in a file that is listed.
\* Its file is removed before its first window only, and listed after its last
\* (benchmark.py:249-252, 272-273).
THEOREM SurviveTheorem == Spec => []OthersSurvive
  <1>1. TypeOK /\ SavedInv => OthersSurvive
    <2> SUFFICES ASSUME TypeOK, SavedInv, AllApart, NEW d \in Device, pc[d] = "ended",
                        NEW k \in 1..Len(logged[d]), logged[d][k].abi = abi
                 PROVE  /\ \E j \in 1..Len(result_files) : result_files[j] = ResultPath(d)
                        /\ \E j \in 1..Len(dest[ResultPath(d)]) : dest[ResultPath(d)][j] = logged[d][k]
      BY DEF OthersSurvive
    <2> DEFINE l == logged[d][k]
    <2>1. l \in Lines(logged[d])
      BY DEF Lines
    <2>2. Kept(d, l) /\ File(d, l) = ResultPath(d)
      BY <2>1 DEF SavedInv, File, ResultPath
    <2> QED
      BY <2>2 DEF Kept, Listed, Lines
  <1> QED
    BY <1>1, InitSaved, NextSaved, InitList, NextList, TypeCorrect, PTL DEF Spec

-----------------------------------------------------------------------------
(***************************************************************************)
(* The report.  As long as every window logs a line, no device is lost; if *)
(* the products differ too, a file is listed once, holds a line once, and  *)
(* is listed before main goes on to the next ABI.                          *)
(***************************************************************************)

Injective(s) == \A i, j \in 1..Len(s) : s[i] = s[j] => i = j

Writing(d) == pc[d] \in {"executor", "push", "run"}

\* The windows of a device come one after another.
Before(l, d) ==
    \/ l.ex < ex[d]
    \/ l.ex = ex[d] /\ pc[d] \in {"push", "run"} /\ l.window < window[d]

NoneLost == main # "exit" /\ \A d \in Device : pc[d] # "dead"
ListedOnce == Injective(result_files)
LinesOnce ==
    /\ \A r \in ResultFile : Listed(r) \/ Written(r) => Injective(dest[r])
    /\ \A d \in Device : Writing(d) => \A l \in Lines(dest[ResultPath(d)]) : Before(l, d)
LinesListed == \A d \in Device : \A l \in Lines(logged[d]) : l.abi < abi => Listed(File(d, l))

OnceInv == AllApart /\ clean => NoneLost /\ ListedOnce /\ LinesOnce /\ LinesListed

LEMMA InjectiveAppend ==
    ASSUME NEW S, NEW s \in Seq(S), NEW e \in S, Injective(s), e \notin Lines(s)
    PROVE  Injective(Append(s, e))
  <1> DEFINE t == Append(s, e)
             n == Len(s)
  <1>1. n \in Nat /\ Len(t) = n + 1 /\ t[n + 1] = e /\ \A k \in 1..n : t[k] = s[k] /\ s[k] # e
    BY DEF Lines
  <1> HIDE DEF t, n
  <1>2. \A k \in 1..Len(t) : k \in 1..n \/ k = n + 1
    BY <1>1
  <1>3. \A i, j \in 1..n : s[i] = s[j] => i = j
    BY DEF Injective, n
  <1>4. ASSUME NEW i \in 1..Len(t), NEW j \in 1..Len(t), t[i] = t[j] PROVE i = j
    BY <1>1, <1>2, <1>3, <1>4
  <1> QED
    BY <1>4 DEF Injective, t

\* A step that writes no file, lists none and logs nothing.
LEMMA OnceSame ==
    ASSUME TypeOK, OnceInv, UNCHANGED <<product, abi, dest, result_files, logged>>, clean' => clean,
           clean' => main' # "exit" /\ \A d \in Device : pc'[d] # "dead",
           \A r \in ResultFile : Written(r)' => Written(r),
           \A d \in Device, l \in Line \cup {Old} :
               Writing(d)' => Writing(d) /\ (Before(l, d) => Before(l, d)')
    PROVE  OnceInv'
  <1> SUFFICES ASSUME AllApart, clean' PROVE (NoneLost /\ ListedOnce /\ LinesOnce /\ LinesListed)'
    BY DEF OnceInv, AllApart
  <1>1. NoneLost' /\ ListedOnce'
    BY DEF OnceInv, NoneLost, ListedOnce
  <1>2. \A r \in ResultFile : (Listed(r) \/ Written(r))' => Injective(dest[r])'
    BY DEF OnceInv, LinesOnce, Listed
  <1>3. ASSUME NEW d \in Device, Writing(d)', NEW l \in Lines(dest'[ResultPath(d)'])
        PROVE  Before(l, d)'
    <2>1. ResultPath(d)' = ResultPath(d) /\ dest' = dest /\ ResultPath(d) \in ResultFile
      BY PathType DEF ResultPath
    <2>2. l \in Line \cup {Old}
      BY <1>3, <2>1 DEF TypeOK, Lines
    <2>3. Writing(d) /\ Before(l, d)
      BY <1>3, <2>1, <2>2 DEF OnceInv, LinesOnce
    <2> QED
      BY <1>3, <2>2, <2>3
  <1>4. LinesListed'
    BY DEF OnceInv, LinesListed, Listed, File
  <1> QED
    BY <1>1, <1>2, <1>3, <1>4 DEF LinesOnce

LEMMA InitOnce == Init => OnceInv
  <1> SUFFICES ASSUME Init PROVE OnceInv
    OBVIOUS
  <1>1. /\ main = "devices" /\ result_files = <<>>
        /\ \A d \in Device : pc[d] = "idle" /\ logged[d] = <<>>
    BY DEF Init
  <1>2. NoneLost
    BY <1>1 DEF NoneLost
  <1>3. ListedOnce
    BY <1>1 DEF ListedOnce, Injective
  <1>4. LinesOnce
    BY <1>1 DEF LinesOnce, Listed, Written, Writing
  <1>5. LinesListed
    BY <1>1 DEF LinesListed, Lines
  <1> QED
    BY <1>2, <1>3, <1>4, <1>5 DEF OnceInv

LEMMA MainOnce == TypeOK /\ SavedInv /\ OnceInv /\ Main => OnceInv'
  <1> SUFFICES ASSUME TypeOK, SavedInv, OnceInv, Main PROVE OnceInv'
    OBVIOUS
  <1>1. /\ UNCHANGED <<product, dest, result_files, logged, clean>>
        /\ main' # "exit"
    BY DEF Main, Visit, Return, AllVisited, Join, Report, args, files
  <1>2. CASE abi' = abi
    <2>1. \A d \in Device :
              \/ pc'[d] = pc[d] /\ ex'[d] = ex[d] /\ window'[d] = window[d]
              \/ pc'[d] = "start"
      BY DEF Main, Visit, Return, AllVisited, Join, Report, worker, TypeOK
    <2>2. \A d \in Device : ResultPath(d)' = ResultPath(d)
      BY <1>1, <1>2 DEF ResultPath
    <2>3. \A r \in ResultFile : Written(r)' => Written(r)
      BY <2>1, <2>2 DEF Written
    <2>4. \A d \in Device, l \in Line \cup {Old} :
              Writing(d)' => Writing(d) /\ (Before(l, d) => Before(l, d)')
      BY <2>1 DEF Writing, Before
    <2>5. ASSUME clean' PROVE \A d \in Device : AllApart => pc'[d] # "dead"
      BY <1>1, <2>1, <2>5 DEF OnceInv, NoneLost
    <2>6. CASE AllApart
      BY <1>1, <1>2, <2>3, <2>4, <2>5, <2>6, OnceSame
    <2>7. CASE ~AllApart
      BY <1>1, <2>7 DEF OnceInv, AllApart
    <2> QED
      BY <2>6, <2>7
  <1>3. CASE abi' # abi
    <2>1. abi' = abi + 1 /\ UNCHANGED <<pc, ex, window>> /\ \A d \in Device : ~Running(d)
      BY <1>3 DEF Main, Visit, Return, AllVisited, Join, Joined, Report, worker
    <2> SUFFICES ASSUME AllApart, clean PROVE (NoneLost /\ ListedOnce /\ LinesOnce /\ LinesListed)'
      BY <1>1 DEF OnceInv, AllApart
    <2>2. NoneLost /\ ListedOnce /\ LinesOnce /\ LinesListed
      BY DEF OnceInv
    <2>3. NoneLost' /\ ListedOnce'
      BY <1>1, <2>1, <2>2 DEF NoneLost, ListedOnce
    <2>4. LinesOnce'
      <3>1. \A d \in Device : ~Writing(d)'
        BY <2>1 DEF Running, Writing
      <3>2. \A r : ~Written(r)'
        BY <3>1 DEF Written, Writing
      <3>3. \A r \in ResultFile : Listed(r)' => Injective(dest[r])'
        BY <1>1, <2>2 DEF LinesOnce, Listed
      <3> QED
        BY <3>1, <3>2, <3>3 DEF LinesOnce
    <2>5. ASSUME NEW d \in Device, NEW l \in Lines(logged[d]), l.abi < abi'
          PROVE  Listed(File(d, l))'
      <3>1. l.abi \in Int /\ abi \in Int
        BY LinesType, PipelineAssumption, SMTT(30) DEF TypeOK, Abi
      <3>2. l.abi < abi => Listed(File(d, l))
        BY <2>2 DEF LinesListed
      <3>3. ASSUME l.abi = abi PROVE Listed(File(d, l))
        <4>1. pc[d] \notin {"idle", "start"} /\ (pc[d] = "ended" => Listed(File(d, l)))
          BY <3>3 DEF SavedInv, Kept
        <4>2. pc[d] = "ended"
          BY <2>1, <2>2, <4>1 DEF Running, NoneLost, TypeOK
        <4> QED
          BY <4>1, <4>2
      <3>4. Listed(File(d, l))
        BY <2>1, <2>5, <3>1, <3>2, <3>3
      <3> QED
        BY <1>1, <3>4 DEF Listed, File
    <2> QED
      BY <1>1, <2>3, <2>4, <2>5 DEF LinesListed
  <1> QED
    BY <1>2, <1>3

LEMMA WorkOnce ==
    ASSUME TypeOK, ListInv, LabelInv, SavedInv, OnceInv, NEW d \in Device, Work(d) \/ Raise(d)
    PROVE  OnceInv'
  <1>0. UNCHANGED <<product, abi, next>> /\ main' \in {main, "exit"}
    BY DriverStays
  <1>a. \A c \in Device : ResultPath(c)' = ResultPath(c)
    BY <1>0 DEF ResultPath
  <1> SUFFICES ASSUME AllApart, clean', clean PROVE OnceInv'
    BY <1>0 DEF OnceInv, AllApart, Work, Raise, Start, SkipExecutor, Build, Note, Push, Run,
                RunForNothing, RunToTheEnd
  <1>b. NoneLost /\ ListedOnce /\ LinesOnce /\ LinesListed
    BY DEF OnceInv
  <1>c. /\ ex[d] \in Nat /\ window[d] \in Nat
        /\ \A l \in Line \cup {Old} : l.ex \in Nat
        /\ \A l \in Line : l.window \in Nat
    <2>1. window[d] \in Nat
      <3>1. window \in [Device -> 1..MaxWindows]
        BY DEF TypeOK
      <3> QED
        BY <3>1
    <2>3. \A l \in Line : l.window \in Nat
      BY DEF Line
    <2>2. \A l \in Line \cup {Old} : l.ex \in Nat
      BY DEF Line, Old
    <2>4. ex[d] \in Nat
      BY DEF TypeOK
    <2> QED
      BY <2>1, <2>2, <2>3, <2>4
  <1>d. \A c \in Device : c # d => ResultPath(c) # ResultPath(d)
    BY DEF ResultPath, AllApart
  <1>e. ResultPath(d) \in ResultFile /\ dest[ResultPath(d)] \in Seq(Line \cup {Old})
    BY PathType DEF TypeOK
  <1>f. Writing(d) => Written(ResultPath(d))
    BY DEF Writing, Written
  <1> USE DEF args, driver, worker, files
  <1>1. CASE Start(d)
    <2>1. /\ pc[d] = "start" /\ Goto(d, "executor")
          /\ dest' = [dest EXCEPT ![ResultPath(d)] = <<>>]
          /\ UNCHANGED <<main, ex, window, result_files, logged>>
      BY <1>1 DEF Start, Removed
    <2>2. /\ \A c \in Device : c # d => pc'[c] = pc[c]
          /\ pc'[d] = "executor"
      BY <2>1 DEF Goto, TypeOK
    <2>3. /\ dest'[ResultPath(d)] = <<>>
          /\ \A r \in ResultFile : r # ResultPath(d) => dest'[r] = dest[r]
      BY <1>e, <2>1 DEF TypeOK
    <2>4. NoneLost' /\ ListedOnce'
      BY <1>b, <2>1, <2>2 DEF NoneLost, ListedOnce
    <2>5. ASSUME NEW r \in ResultFile, Listed(r)' \/ Written(r)' PROVE Injective(dest'[r])
      <3>1. CASE r = ResultPath(d)
        BY <2>3, <3>1 DEF Injective
      <3>2. CASE r # ResultPath(d)
        <4>1. Listed(r) \/ Written(r)
          BY <1>a, <2>1, <2>2, <2>5, <3>2 DEF Listed, Written
        <4> QED
          BY <1>b, <2>3, <3>2, <4>1 DEF LinesOnce
      <3> QED
        BY <3>1, <3>2
    <2>6. ASSUME NEW c \in Device, Writing(c)', NEW l \in Lines(dest'[ResultPath(c)])
          PROVE  Before(l, c)'
      <3>1. CASE c = d
        BY <2>3, <2>6, <3>1 DEF Lines
      <3>2. CASE c # d
        <4>1. dest'[ResultPath(c)] = dest[ResultPath(c)] /\ Writing(c)
          BY <1>d, <2>2, <2>3, <2>6, <3>2, PathType DEF Writing
        <4>2. Before(l, c)
          BY <1>b, <2>6, <4>1 DEF LinesOnce
        <4> QED
          BY <2>1, <2>2, <3>2, <4>2 DEF Before
      <3> QED
        BY <3>1, <3>2
    <2>7. LinesListed'
      BY <1>0, <1>b, <2>1 DEF LinesListed, Listed, File
    <2>8. LinesOnce'
      BY <1>a, <2>5, <2>6 DEF LinesOnce
    <2> QED
      BY <2>4, <2>7, <2>8 DEF OnceInv
  <1>2. CASE Note(d)
    <2>1. /\ Writing(d) /\ Running(d) /\ Goto(d, "ended")
          /\ UNCHANGED <<main, ex, window, dest, logged>>
          /\ \/ UNCHANGED result_files
             \/ result_files' = Append(result_files, ResultPath(d))
      BY <1>2 DEF Note, Noted, Writing, Running
    <2>2. /\ \A c \in Device : c # d => pc'[c] = pc[c]
          /\ pc'[d] = "ended"
      BY <2>1 DEF Goto, TypeOK
    <2>3. result_files \in Seq(ResultFile)
      BY DEF TypeOK
    <2>4. NoneLost'
      BY <1>b, <2>1, <2>2 DEF NoneLost
    <2>5. ListedOnce'
      <3>1. ResultPath(d) \notin Lines(result_files)
        BY <2>1, NotListed DEF Lines
      <3>2. Injective(Append(result_files, ResultPath(d)))
        BY <1>b, <1>e, <2>3, <3>1, InjectiveAppend DEF ListedOnce
      <3> QED
        BY <1>b, <2>1, <3>2 DEF ListedOnce
    <2>6. \A r : (Listed(r)' => Listed(r) \/ r = ResultPath(d)) /\ (Listed(r) => Listed(r)')
      <3>1. CASE UNCHANGED result_files
        BY <3>1 DEF Listed
      <3>2. CASE result_files' = Append(result_files, ResultPath(d))
        BY <1>e, <2>3, <3>2, LinesAppend DEF Listed
      <3> QED
        BY <2>1, <3>1, <3>2
    <2>7. \A r \in ResultFile : Listed(r)' \/ Written(r)' => Injective(dest'[r])
      <3>1. \A r \in ResultFile : Written(r)' => Written(r)
        BY <1>a, <2>2 DEF Written
      <3> QED
        BY <1>b, <1>f, <2>1, <2>6, <3>1 DEF LinesOnce
    <2>8. \A c \in Device : Writing(c)' => \A l \in Lines(dest'[ResultPath(c)]) : Before(l, c)'
      <3> SUFFICES ASSUME NEW c \in Device, Writing(c)', NEW l \in Lines(dest[ResultPath(c)])
                   PROVE  Before(l, c)'
        BY <2>1
      <3>1. c # d /\ Writing(c)
        BY <2>2 DEF Writing
      <3>2. Before(l, c)
        BY <1>b, <3>1 DEF LinesOnce
      <3> QED
        BY <2>1, <2>2, <3>1, <3>2 DEF Before
    <2>9. LinesOnce'
      BY <1>a, <2>7, <2>8 DEF LinesOnce
    <2>10. LinesListed'
      <3> SUFFICES ASSUME NEW c \in Device, NEW l \in Lines(logged[c]), l.abi < abi
                   PROVE  Listed(File(c, l))'
        BY <1>0, <2>1 DEF LinesListed
      <3>1. Listed(File(c, l)) /\ File(c, l)' = File(c, l)
        BY <1>0, <1>b DEF LinesListed, File
      <3> QED
        BY <2>6, <3>1 DEF Listed
    <2> QED
      BY <2>4, <2>5, <2>9, <2>10 DEF OnceInv
  <1>3. CASE Run(d)
    <2> DEFINE line == [device |-> d, abi |-> abi, ex |-> ex[d], window |-> window[d]]
               p == ResultPath(d)
    <2>1. /\ pc[d] = "run" /\ Onward(d) /\ Extended(d, <<line>>)
          /\ UNCHANGED <<main, result_files>>
          /\ logged' = [logged EXCEPT ![d] = Append(@, line)]
      BY <1>3 DEF Run
    <2>2. line \in Line /\ line \in Line \cup {Old}
      BY PipelineAssumption DEF Line, TypeOK
    <2>3. /\ <<line>> \in Seq(Line \cup {Old})
          /\ dest[p] \o <<line>> = Append(dest[p], line)
      BY <1>e, <2>2
    <2>4. /\ dest'[p] = Append(dest[p], line)
          /\ \A r \in ResultFile : r # p => dest'[r] = dest[r]
      BY <2>1, <2>3, ExtendedLines
    <2>5. /\ \A c \in Device : c # d => pc'[c] = pc[c] /\ ex'[c] = ex[c] /\ window'[c] = window[c]
          /\ \/ pc'[d] = "push" /\ ex'[d] = ex[d] /\ window'[d] = window[d] + 1
             \/ pc'[d] = "executor" /\ ex'[d] = ex[d] + 1
      BY <2>1 DEF Onward, Goto, TypeOK
    <2>6. Writing(d) /\ Written(p)
      BY <1>f, <2>1 DEF Writing
    <2>7. NoneLost' /\ ListedOnce'
      BY <1>b, <2>1, <2>5 DEF NoneLost, ListedOnce
    <2>8. \A l \in Lines(dest[p]) : Before(l, d) /\ l \in Line
      <3>1. \A l \in Lines(dest[p]) : l \in Line \cup {Old} /\ l # Old
        BY <1>e, <2>6 DEF LabelInv, Labelled, Lines
      <3> QED
        BY <1>b, <2>6, <3>1 DEF LinesOnce
    <2>9. line \notin Lines(dest[p])
      <3> SUFFICES ASSUME line \in Lines(dest[p]) PROVE FALSE
        OBVIOUS
      <3>1. Before(line, d)
        BY <2>8
      <3> QED
        BY <1>c, <3>1 DEF Before
    <2>10. Injective(dest'[p])
      <3>1. Injective(dest[p])
        BY <1>b, <1>e, <2>6 DEF LinesOnce
      <3> QED
        BY <1>e, <2>2, <2>4, <2>9, <3>1, InjectiveAppend
    <2>11. \A r \in ResultFile : Listed(r)' \/ Written(r)' => Injective(dest'[r])
      <3> SUFFICES ASSUME NEW r \in ResultFile, Listed(r)' \/ Written(r)', r # p
                   PROVE  Injective(dest'[r])
        BY <2>10
      <3>1. Written(r)' => Written(r)
        BY <1>a, <2>5 DEF Written
      <3>2. Listed(r) \/ Written(r)
        BY <2>1, <3>1 DEF Listed
      <3> QED
        BY <1>b, <2>4, <3>2 DEF LinesOnce
    <2>12. ASSUME NEW c \in Device, Writing(c)', NEW l \in Lines(dest'[ResultPath(c)])
           PROVE  Before(l, c)'
      <3>1. CASE c = d
        <4>0. Lines(dest'[p]) = Lines(dest[p]) \cup {line}
          BY <1>e, <2>2, <2>4, LinesAppend
        <4>1. l \in Lines(dest[p]) \/ l = line
          BY <2>12, <3>1, <4>0
        <4>2. l.ex \in Nat /\ l.window \in Nat /\ (l.ex < ex[d] \/ (l.ex = ex[d] /\ l.window <= window[d]))
          BY <1>c, <2>2, <2>8, <4>1 DEF Before
        <4> QED
          BY <1>c, <2>5, <3>1, <4>2 DEF Before
      <3>2. CASE c # d
        <4>1. dest'[ResultPath(c)] = dest[ResultPath(c)] /\ Writing(c)
          BY <1>d, <2>4, <2>5, <2>12, <3>2, PathType DEF Writing
        <4>2. Before(l, c)
          BY <1>b, <2>12, <4>1 DEF LinesOnce
        <4> QED
          BY <2>5, <3>2, <4>2 DEF Before
      <3> QED
        BY <3>1, <3>2
    <2>13. LinesOnce'
      BY <1>a, <2>11, <2>12 DEF LinesOnce
    <2>14. LinesListed'
      <3> SUFFICES ASSUME NEW c \in Device, NEW l \in Lines(logged'[c]), l.abi < abi
                   PROVE  Listed(File(c, l))'
        BY <1>0 DEF LinesListed
      <3>1. l \in Lines(logged[c])
        <4>1. CASE c # d
          BY <2>1, <4>1 DEF TypeOK
        <4>2. CASE c = d
          <5>1. logged[d] \in Seq(Line) /\ logged'[d] = Append(logged[d], line)
            BY <2>1 DEF TypeOK
          <5>2. l \in Lines(logged[d]) \/ l = line
            BY <2>2, <4>2, <5>1, LinesAppend
          <5>3. line.abi = abi /\ abi \in Int
            BY PipelineAssumption DEF TypeOK, Abi
          <5> QED
            BY <4>2, <5>2, <5>3
        <4> QED
          BY <4>1, <4>2
      <3>2. Listed(File(c, l)) /\ File(c, l)' = File(c, l)
        BY <1>0, <1>b, <3>1 DEF LinesListed, File
      <3> QED
        BY <2>1, <3>2 DEF Listed
    <2> QED
      BY <2>7, <2>13, <2>14 DEF OnceInv
  <1>4. CASE SkipExecutor(d) \/ Build(d) \/ Push(d)
    <2>1. UNCHANGED <<main, dest, result_files, logged>> /\ Writing(d) /\ Writing(d)'
      BY <1>4 DEF SkipExecutor, Build, Push, Writing, Goto, TypeOK
    <2>2. /\ \A c \in Device : c # d => pc'[c] = pc[c] /\ ex'[c] = ex[c] /\ window'[c] = window[c]
          /\ \/ pc[d] = "executor" /\ pc'[d] = pc[d] /\ ex'[d] = ex[d] + 1
             \/ pc[d] = "executor" /\ ex'[d] = ex[d]
             \/ pc[d] = "push" /\ pc'[d] = "run" /\ ex'[d] = ex[d] /\ window'[d] = window[d]
      BY <1>4 DEF SkipExecutor, Build, Push, Goto, TypeOK
    <2>3. \A r \in ResultFile : Written(r)' => Written(r)
      BY <1>a, <2>1, <2>2 DEF Written, Writing
    <2>4. \A c \in Device, l \in Line \cup {Old} :
              Writing(c)' => Writing(c) /\ (Before(l, c) => Before(l, c)')
      BY <1>c, <2>1, <2>2 DEF Writing, Before
    <2>5. main' # "exit" /\ \A c \in Device : pc'[c] # "dead"
      BY <1>b, <2>1, <2>2 DEF NoneLost, Writing
    <2> QED
      BY <1>0, <2>1, <2>3, <2>4, <2>5, OnceSame
  <1>5. CASE RunForNothing(d) \/ RunToTheEnd(d) \/ Raise(d)
    BY <1>5 DEF RunForNothing, RunToTheEnd, Raise
  <1> QED
    BY <1>1, <1>2, <1>3, <1>4, <1>5 DEF Work

LEMMA NextOnce == TypeOK /\ ListInv /\ LabelInv /\ SavedInv /\ OnceInv /\ [Next]_vars => OnceInv'
  <1> SUFFICES ASSUME TypeOK, ListInv, LabelInv, SavedInv, OnceInv, [Next]_vars PROVE OnceInv'
    OBVIOUS
  <1>1. CASE UNCHANGED vars
    <2>1. UNCHANGED <<product, main, abi, pc, ex, window, dest, result_files, logged, clean>>
      BY <1>1 DEF vars, args, driver, worker, files
    <2>2. AllApart' <=> AllApart
      BY <2>1 DEF AllApart
    <2>3. NoneLost /\ ListedOnce => (NoneLost /\ ListedOnce)'
      BY <2>1 DEF NoneLost, ListedOnce
    <2>4. LinesOnce => LinesOnce'
      BY <2>1 DEF LinesOnce, Listed, Written, Writing, Before, ResultPath
    <2>5. LinesListed => LinesListed'
      BY <2>1 DEF LinesListed, Listed, File
    <2> QED
      BY <2>1, <2>2, <2>3, <2>4, <2>5 DEF OnceInv
  <1> QED
    BY <1>1, MainOnce, WorkOnce DEF Next

\* A line that was logged, once main is through, comes once in what is reported.
LEMMA TimesOnce ==
    ASSUME TypeOK, WaitsInv, LabelInv, SavedInv, OnceInv, main = "done", clean, AllApart,
           NEW d \in Device, NEW l \in Lines(logged[d])
    PROVE  Times(l, Reported) = 1
  <1> DEFINE seqs == [k \in 1..Len(result_files) |-> dest[result_files[k]]]
             S == Line \cup {Old}
             r == File(d, l)
  <1>1. result_files \in Seq(ResultFile)
    BY DEF TypeOK
  <1>2. /\ seqs \in Seq(Seq(S)) /\ Len(seqs) = Len(result_files)
        /\ \A k \in 1..Len(result_files) :
               seqs[k] = dest[result_files[k]] /\ result_files[k] \in ResultFile
    BY <1>1 DEF TypeOK
  <1>3. Kept(d, l) /\ l \in Lines(dest[r]) /\ r \in ResultFile
    BY LinesType DEF SavedInv, Kept
  <1>4. Listed(r)
    <2>1. l.abi \in Int /\ abi \in Int /\ l.abi <= abi
      <3>1. l.abi \in Int /\ l.abi <= abi
        BY <1>3, LinesType DEF Kept
      <3>2. abi \in Int
        BY PipelineAssumption DEF TypeOK, Abi
      <3> QED
        BY <3>1, <3>2
    <2>2. CASE l.abi < abi
      BY <2>2 DEF OnceInv, LinesListed
    <2>3. CASE l.abi = abi
      <3>1. pc[d] = "ended"
        BY <1>3, <2>3 DEF Kept, WaitsInv, Running, OnceInv, NoneLost, TypeOK
      <3> QED
        BY <1>3, <2>3, <3>1 DEF Kept
    <2> QED
      BY <2>1, <2>2, <2>3
  <1>5. PICK j \in 1..Len(result_files) : result_files[j] = r
    BY <1>4 DEF Listed
  <1>6. PICK i \in 1..Len(dest[r]) : dest[r][i] = l
    BY <1>3 DEF Lines
  <1>7. dest[r] \in Seq(S) /\ i \in Nat \ {0}
    BY <1>3 DEF TypeOK
  <1> DEFINE p == <<j, i>>
  <1>8. p \in Places(seqs) /\ At(seqs)[p] = l
    <2>1. p \in (1..Len(seqs)) \X (Nat \ {0}) /\ seqs[j] = dest[r]
      BY <1>2, <1>5, <1>7
    <2>2. i <= Len(seqs[j])
      BY <1>6, <1>7, <2>1
    <2>3. p \in Places(seqs)
      BY <2>1, <2>2 DEF Places
    <2> QED
      BY <1>6, <2>1, <2>3 DEF At
  <1>9. ASSUME NEW q \in Places(seqs), At(seqs)[q] = l PROVE q = p
    <2> DEFINE k == q[1]
               m == q[2]
               s == dest[result_files[k]]
    <2>1. /\ q = <<k, m>> /\ k \in 1..Len(result_files) /\ m \in Nat \ {0} /\ m <= Len(seqs[k])
          /\ seqs[k][m] = l
      BY <1>2, <1>9 DEF Places, At
    <2>2. seqs[k] = s /\ result_files[k] \in ResultFile
      BY <1>2, <2>1
    <2>3. s \in Seq(S) /\ m \in 1..Len(s) /\ s[m] = l
      <3>1. s \in Seq(S)
        BY <2>2 DEF TypeOK
      <3>2. Len(s) \in Nat
        BY <3>1
      <3>3. m \in Nat \ {0} /\ m <= Len(s) /\ s[m] = l
        BY <2>1, <2>2
      <3> QED
        BY <3>1, <3>2, <3>3
    <2>4. result_files[k] = r
      <3>1. Labelled(result_files[k])
        BY <2>1, <2>2 DEF LabelInv, Listed
      <3>2. result_files[k] = <<product[l.device], l.abi>>
        BY <2>3, <3>1 DEF Labelled
      <3> QED
        BY <1>3, <3>2 DEF Kept, File
    <2>5. k = j
      BY <1>5, <2>1, <2>4 DEF OnceInv, ListedOnce, Injective
    <2>6. m = i
      <3>1. Injective(dest[r])
        BY <1>3, <1>4 DEF OnceInv, LinesOnce
      <3> QED
        BY <1>6, <2>3, <2>4, <3>1 DEF Injective
    <2> QED
      BY <2>1, <2>5, <2>6
  <1>10. Reported = FlattenSeq(seqs)
    BY DEF Reported
  <1> HIDE DEF seqs, S, p
  <1>11. Cardinality({n \in 1..Len(FlattenSeq(seqs)) : FlattenSeq(seqs)[n] = l}) = 1
    <2>1. seqs \in Seq(Seq(S))
      BY <1>2
    <2>2. \A q \in Places(seqs) : At(seqs)[q] = l => q = p
      BY <1>9
    <2> QED
      BY <1>8, <2>1, <2>2, FlattenOnce, Zenon
  <1> QED
    BY <1>10, <1>11 DEF Times

\* Whatever ABIs and executors there are and however the threads interleave: if
\* every window logged a line and the products differ, every line that was logged
\* is reported at the end, and once.  A window appends its line behind those of
\* the earlier ones, to a file that is emptied before and listed after all of
\* them, and main waits for the devices before the next ABI and the report
\* (benchmark.py:249-273, 354-358, bench_engine.py:519-520).
THEOREM OnceTheorem == Spec => []ReportedOnce
  <1>1. TypeOK /\ BuildInv /\ LabelInv /\ SavedInv /\ OnceInv => ReportedOnce
    <2> SUFFICES ASSUME TypeOK, WaitsInv, LabelInv, SavedInv, OnceInv, main = "done", clean, AllApart,
                        NEW d \in Device, NEW k \in 1..Len(logged[d])
                 PROVE  Times(logged[d][k], Reported) = 1
      BY DEF ReportedOnce, BuildInv
    <2>1. logged[d][k] \in Lines(logged[d])
      BY DEF Lines
    <2> QED
      BY <2>1, TimesOnce
  <1> QED
    BY <1>1, InitBuild, NextBuild, InitLabel, NextLabel, InitList, NextList, InitSaved, NextSaved,
       InitOnce, NextOnce, TypeCorrect, PTL DEF Spec

-----------------------------------------------------------------------------
(***************************************************************************)
(* Main and its threads only go forward.                                   *)
(***************************************************************************)

VisitsLeft == Len(TargetDevices) + 1 - next

\* The most steps of main that are left with this ABI.
MainLeft ==
    CASE main = "devices" -> 2 * VisitsLeft + 3
      [] main = "call"    -> 2 * VisitsLeft + 2
      [] main = "join"    -> 2
      [] main = "report"  -> 1
      [] OTHER            -> 0

\* The most steps of run_on_device that are left with this executor.
ThreadLeft(d) ==
    CASE pc[d] = "start"    -> 2 * MaxWindows + 2
      [] pc[d] = "executor" -> 2 * MaxWindows + 1
      [] pc[d] = "push"     -> 2 * (MaxWindows - window[d]) + 2
      [] pc[d] = "run"      -> 2 * (MaxWindows - window[d]) + 1
      [] OTHER              -> 0

MainOn ==
    \/ abi' > abi
    \/ abi' = abi /\ MainLeft \in Nat /\ MainLeft' < MainLeft

MainStill == UNCHANGED <<abi, next>> /\ MainLeft' = MainLeft

ThreadOn(d) ==
    \/ ex'[d] > ex[d]
    \/ ex'[d] = ex[d] /\ ThreadLeft(d) \in Nat /\ ThreadLeft(d)' < ThreadLeft(d)

ThreadStill(d) == ex'[d] = ex[d] /\ ThreadLeft(d)' = ThreadLeft(d)

\* Main goes on; or it stays where it is, and one thread goes on.
Forward ==
    \/ MainOn
    \/ /\ MainStill
       /\ \E d \in Device : ThreadOn(d) /\ \A c \in Device \ {d} : ThreadStill(c)

LEMMA LeftAreNat ==
    ASSUME TypeOK
    PROVE  /\ VisitsLeft \in Nat
           /\ MainLeft \in Nat
           /\ \A d \in Device : ThreadLeft(d) \in Nat /\ (Running(d) => ThreadLeft(d) > 0)
<1>1. VisitsLeft \in Nat
  <2>1. next \in 1..(Len(TargetDevices) + 1) /\ Len(TargetDevices) \in Nat
    BY PipelineAssumption DEF TypeOK
  <2>2. QED
    BY <2>1 DEF VisitsLeft
<1>2. MainLeft \in Nat
  BY <1>1 DEF MainLeft
<1>3. ASSUME NEW d \in Device
      PROVE  ThreadLeft(d) \in Nat /\ (Running(d) => ThreadLeft(d) > 0)
  <2>1. MaxWindows \in Nat /\ window[d] \in 1..MaxWindows
    BY PipelineAssumption DEF TypeOK
  <2>2. MaxWindows - window[d] \in Nat
    BY <2>1
  <2>3. QED
    BY <2>1, <2>2 DEF ThreadLeft, Running
<1>4. QED
  BY <1>1, <1>2, <1>3

LEMMA MainGoesOnward == ASSUME TypeOK, Main PROVE MainOn
<1>0. /\ VisitsLeft \in Nat /\ MainLeft \in Nat
      /\ next \in Nat /\ Len(TargetDevices) \in Nat /\ abi \in Nat
      /\ next <= Len(TargetDevices) + 1
      /\ main = "call" => next <= Len(TargetDevices)
  <2>1. /\ next \in 1..(Len(TargetDevices) + 1) /\ Len(TargetDevices) \in Nat
        /\ abi \in Abi /\ (main = "call" => next <= Len(TargetDevices))
    BY PipelineAssumption DEF TypeOK
  <2>2. QED
    BY <2>1, LeftAreNat, PipelineAssumption DEF Abi
<1>1. \/ main = "devices" /\ next <= Len(TargetDevices) /\ main' = main /\ next' = next + 1 /\ abi' = abi
      \/ main = "devices" /\ next <= Len(TargetDevices) /\ main' = "call" /\ next' = next /\ abi' = abi
      \/ main = "call" /\ main' = "devices" /\ next' = next + 1 /\ abi' = abi
      \/ main = "devices" /\ main' = "join" /\ UNCHANGED <<abi, next>>
      \/ main = "join" /\ abi' = abi + 1
      \/ main = "join" /\ main' = "report" /\ UNCHANGED <<abi, next>>
      \/ main = "report" /\ main' = "done" /\ UNCHANGED <<abi, next>>
  BY DEF Main, Visit, Return, AllVisited, Join, Report
<1>2. next' = next + 1 => VisitsLeft' = VisitsLeft - 1
  BY <1>0 DEF VisitsLeft
<1>3. next' = next => VisitsLeft' = VisitsLeft
  BY DEF VisitsLeft
<1>4. abi' = abi + 1 => MainOn
  BY <1>0 DEF MainOn
<1>5. abi' = abi /\ MainLeft' < MainLeft => MainOn
  BY <1>0 DEF MainOn
<1> HIDE DEF VisitsLeft
<1>6. CASE next' = next + 1 /\ main \in {"devices", "call"} /\ main' = "devices" /\ abi' = abi
  BY <1>0, <1>2, <1>5, <1>6 DEF MainLeft
<1>7. CASE next' = next /\ abi' = abi
  BY <1>0, <1>1, <1>3, <1>5, <1>7 DEF MainLeft
<1>8. QED
  BY <1>1, <1>4, <1>6, <1>7

LEMMA EndsOn ==
    ASSUME TypeOK, NEW d \in Device, Running(d), Ends(d)
    PROVE  ThreadOn(d) /\ (MainOn \/ MainStill)
<1>1. pc'[d] = "dead" /\ abi' = abi /\ next' = next /\ ex' = ex
  BY DEF Ends, Goto, TypeOK
<1>2. ThreadLeft(d)' = 0
  BY <1>1 DEF ThreadLeft
<1>3. ThreadOn(d)
  BY <1>1, <1>2, LeftAreNat DEF ThreadOn
<1>4. CASE main' = main
  <2>1. VisitsLeft' = VisitsLeft
    BY <1>1 DEF VisitsLeft
  <2> HIDE DEF VisitsLeft
  <2>2. MainLeft' = MainLeft
    BY <1>4, <2>1 DEF MainLeft
  <2> HIDE DEF MainLeft
  <2>3. QED
    BY <1>1, <1>3, <2>2 DEF MainStill
<1>5. CASE main' # main
  <2>1. main' = "exit" /\ main # "exit"
    BY <1>5 DEF Ends
  <2>2. MainLeft' = 0
    BY <2>1 DEF MainLeft
  <2>3. MainLeft \in Nat
    BY LeftAreNat
  <2> HIDE DEF MainLeft
  <2>4. CASE MainLeft > 0
    BY <1>1, <1>3, <2>2, <2>3, <2>4 DEF MainOn
  <2>5. CASE MainLeft = 0
    BY <1>1, <1>3, <2>2, <2>5 DEF MainStill
  <2>6. QED
    BY <2>3, <2>4, <2>5
<1>6. QED
  BY <1>4, <1>5

LEMMA ThreadGoesOnward ==
    ASSUME TypeOK, NEW d \in Device, Work(d) \/ Raise(d)
    PROVE  ThreadOn(d) /\ (MainOn \/ MainStill)
<1>0. MaxWindows \in Nat /\ window[d] \in Nat /\ window[d] > 0 /\ window[d] <= MaxWindows /\ ex[d] \in Nat
  <2>1. window[d] \in 1..MaxWindows /\ MaxWindows \in Nat
    BY PipelineAssumption DEF TypeOK
  <2>2. ex[d] \in Nat
    BY DEF TypeOK
  <2>3. QED
    BY <2>1, <2>2
<1>a. UNCHANGED driver => MainStill
  BY DEF driver, MainStill, MainLeft, VisitsLeft
<1>b. ASSUME ex'[d] = ex[d], ThreadLeft(d)' < ThreadLeft(d) PROVE ThreadOn(d)
  BY <1>b, LeftAreNat DEF ThreadOn
<1>c. ex'[d] = ex[d] + 1 => ThreadOn(d)
  BY <1>0 DEF ThreadOn
<1>1. CASE Start(d)
  <2>1. pc[d] = "start" /\ pc'[d] = "executor" /\ UNCHANGED <<driver, ex>>
    BY <1>1 DEF Start, Goto, TypeOK
  <2>2. QED
    BY <1>0, <1>a, <1>b, <2>1 DEF ThreadLeft
<1>2. CASE SkipExecutor(d)
  <2>1. ex'[d] = ex[d] + 1 /\ UNCHANGED driver
    BY <1>2 DEF SkipExecutor, TypeOK
  <2>2. QED
    BY <1>a, <1>c, <2>1
<1>3. CASE Build(d)
  <2>1. pc[d] = "executor" /\ pc'[d] = "push" /\ window'[d] = 1 /\ UNCHANGED <<driver, ex>>
    BY <1>3 DEF Build, Goto, TypeOK
  <2>2. QED
    BY <1>0, <1>a, <1>b, <2>1 DEF ThreadLeft
<1>4. CASE Note(d)
  <2>1. pc[d] = "executor" /\ pc'[d] = "ended" /\ UNCHANGED <<driver, ex>>
    BY <1>4 DEF Note, Goto, TypeOK
  <2>2. QED
    BY <1>0, <1>a, <1>b, <2>1 DEF ThreadLeft
<1>5. CASE Push(d)
  <2>1. pc[d] = "push" /\ pc'[d] = "run" /\ UNCHANGED <<driver, ex, window>>
    BY <1>5 DEF Push, Goto, TypeOK
  <2>2. QED
    BY <1>0, <1>a, <1>b, <2>1 DEF ThreadLeft
<1>6. CASE Run(d) \/ RunForNothing(d)
  <2>1. pc[d] = "run" /\ Onward(d) /\ UNCHANGED driver
    BY <1>6 DEF Run, RunForNothing
  <2>2. \/ pc'[d] = "push" /\ window'[d] = window[d] + 1 /\ ex' = ex
        \/ ex'[d] = ex[d] + 1
    BY <2>1 DEF Onward, Goto, TypeOK
  <2>3. CASE pc'[d] = "push" /\ window'[d] = window[d] + 1 /\ ex' = ex
    BY <1>0, <1>a, <1>b, <2>1, <2>3 DEF ThreadLeft
  <2>4. QED
    BY <1>a, <1>c, <2>1, <2>2, <2>3
<1>7. CASE RunToTheEnd(d) \/ Raise(d)
  <2>1. Running(d) /\ Ends(d)
    BY <1>7 DEF RunToTheEnd, Raise, Running
  <2>2. QED
    BY <2>1, EndsOn
<1>8. QED
  BY <1>1, <1>2, <1>3, <1>4, <1>5, <1>6, <1>7 DEF Work

LEMMA OthersStill ==
    ASSUME TypeOK, NEW d \in Device, Work(d) \/ Raise(d), NEW c \in Device \ {d}
    PROVE  ThreadStill(c)
<1>1. UNCHANGED <<pc[c], ex[c], window[c]>>
  <2> USE DEF TypeOK, Goto
  <2>1. CASE Start(d) \/ SkipExecutor(d) \/ Build(d) \/ Note(d) \/ Push(d)
    BY <2>1 DEF Start, SkipExecutor, Build, Note, Push
  <2>2. CASE Run(d) \/ RunForNothing(d)
    <3>1. Onward(d)
      BY <2>2 DEF Run, RunForNothing
    <3>2. QED
      BY <3>1 DEF Onward
  <2>3. CASE RunToTheEnd(d) \/ Raise(d)
    <3>1. Ends(d)
      BY <2>3 DEF RunToTheEnd, Raise
    <3>2. QED
      BY <3>1 DEF Ends
  <2>4. QED
    BY <2>1, <2>2, <2>3 DEF Work
<1>2. QED
  BY <1>1 DEF ThreadStill, ThreadLeft

\* Every step takes main further through its ABIs and devices, or leaves it
\* where it is and takes one thread further through its executors and windows
\* and no other one back, whatever raises and whatever is logged: neither the
\* loops of main nor those of run_on_device go on for ever.
THEOREM StepsTheorem == Spec => [][Forward]_vars
<1>1. TypeOK /\ [Next]_vars => [Forward]_vars
  <2> SUFFICES ASSUME TypeOK, Next PROVE Forward
    OBVIOUS
  <2>1. CASE Main
    BY <2>1, MainGoesOnward DEF Forward
  <2>2. ASSUME NEW d \in Device, Work(d) \/ Raise(d) PROVE Forward
    <3>1. ThreadOn(d) /\ (MainOn \/ MainStill)
      BY <2>2, ThreadGoesOnward
    <3>2. \A c \in Device \ {d} : ThreadStill(c)
      BY <2>2, OthersStill
    <3>3. QED
      BY <3>1, <3>2 DEF Forward
  <2>3. QED
    BY <2>1, <2>2 DEF Next
<1>2. QED
  BY <1>1, TypeCorrect, PTL DEF Spec

=============================================================================
