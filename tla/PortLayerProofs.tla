-------------------------- MODULE PortLayerProofs --------------------------
(***************************************************************************)
(* Theorems about PortLayer, for any levels, cores, limits and number of   *)
(* calls, and any size of the pages.                                       *)
(***************************************************************************)
EXTENDS PortLayer, TLAPS

USE DEF INVALID_MIN, INFO, WARNING, ERROR, FATAL

-----------------------------------------------------------------------------
(***************************************************************************)
(* Types.                                                                  *)
(***************************************************************************)

LEMMA LevelTypes ==
    ASSUME LoggingOK
    PROVE  /\ MinLogLevelFromEnv \in 0..4
           /\ MinVLogLevelFromEnv \in Int
           /\ <<MinLogLevelFromEnv>> \in {<<>>} \cup {<<l>> : l \in 0..4}
           /\ <<MinVLogLevelFromEnv>> \in {<<>>} \cup {<<s.vlog>> : s \in Settings}
  <1>1. environ \in Settings /\ environ.vlog \in Int
        /\ environ.min \in {"info", "warning", "error", "fatal", "other"}
    BY PortAssumption DEF LoggingOK
  <1>2. LogLevelFromStr(environ.min) \in 0..4
    BY <1>1 DEF LogLevelFromStr
  <1>3. MinLogLevelFromEnv \in 0..4
    <2>1. CASE minLevel = <<>>
      BY <2>1, <1>2 DEF MinLogLevelFromEnv
    <2>2. CASE minLevel # <<>>
      <3>1. PICK l \in 0..4 : minLevel = <<l>>
        BY <2>2 DEF LoggingOK
      <3> QED
        BY <2>2, <3>1 DEF MinLogLevelFromEnv
    <2> QED
      BY <2>1, <2>2
  <1>4. \E s \in Settings : MinVLogLevelFromEnv = s.vlog
    <2>1. CASE minVlog = <<>>
      BY <2>1, <1>1 DEF MinVLogLevelFromEnv
    <2>2. CASE minVlog # <<>>
      <3>1. PICK s \in Settings : minVlog = <<s.vlog>>
        BY <2>2 DEF LoggingOK
      <3> QED
        BY <2>2, <3>1 DEF MinVLogLevelFromEnv
    <2> QED
      BY <2>1, <2>2
  <1>5. \A s \in Settings : s.vlog \in Int
    BY PortAssumption
  <1> QED
    BY <1>3, <1>4, <1>5

LEMMA MessageType ==
    ASSUME LoggingOK, NEW l \in LogLevel
    PROVE  Message(l) \in [level : LogLevel, to : {{}, Sinks}, timed : BOOLEAN]
  BY DEF Message

\* What the logging of a call leaves alone and what it types.
LEMMA SaysTypes ==
    ASSUME LoggingOK, NEW L \in SUBSET LogLevel, NEW V, Says(L, V)
    PROVE  /\ env' \in Envs /\ environ' \in Settings /\ env' = env /\ environ' = environ
           /\ minLevel' \in {<<>>} \cup {<<l>> : l \in 0..FATAL}
           /\ minVlog' \in {<<>>} \cup {<<s.vlog>> : s \in Settings}
           /\ messages' \subseteq [level : LogLevel, to : {{}, Sinks}, timed : BOOLEAN]
           /\ Sinks' = Sinks
  <1>1. minLevel' \in {<<>>} \cup {<<l>> : l \in 0..FATAL}
    BY LevelTypes DEF Says, LoggingOK
  <1>2. minVlog' \in {<<>>} \cup {<<s.vlog>> : s \in Settings}
    BY LevelTypes DEF Says, LoggingOK
  <1>3. messages' \subseteq [level : LogLevel, to : {{}, Sinks}, timed : BOOLEAN]
    <2>1. \A l \in L : Message(l) \in [level : LogLevel, to : {{}, Sinks}, timed : BOOLEAN]
      BY MessageType
    <2>2. Message(INFO) \in [level : LogLevel, to : {{}, Sinks}, timed : BOOLEAN]
      BY MessageType DEF LogLevel
    <2>3. messages \subseteq [level : LogLevel, to : {{}, Sinks}, timed : BOOLEAN]
      BY DEF LoggingOK
    <2>4. messages' = messages \cup {Message(l) : l \in L}
                      \cup {Message(INFO) : v \in {v \in V : VlogOn(v)}}
      BY DEF Says
    <2> QED
      BY <2>1, <2>2, <2>3, <2>4
  <1>4. env' = env /\ environ' = environ
    BY DEF Says
  <1>5. Sinks' = Sinks
    BY <1>4 DEF Sinks, Android
  <1> QED
    BY <1>1, <1>2, <1>3, <1>4, <1>5 DEF LoggingOK

\* A call that logs and changes neither the scopes nor the backtrace.
LEMMA SaysKeeps ==
    ASSUME LoggingOK, NEW L \in SUBSET LogLevel, NEW V, Says(L, V), UNCHANGED <<scopes, trace>>
    PROVE  LoggingOK'
  BY SaysTypes DEF LoggingOK

LEMMA HeadTailTypes ==
    ASSUME NEW S, NEW s \in Seq(S), s # <<>>
    PROVE  /\ Head(s) \in S
           /\ Tail(s) \in Seq(S)
           /\ \A i \in DOMAIN Tail(s) : i + 1 \in DOMAIN s /\ Tail(s)[i] = s[i + 1]
           /\ Head(s) = s[1] /\ 1 \in DOMAIN s
  OBVIOUS

LEMMA InitTypes == Init => TypeOK
  BY PortAssumption DEF Init, TypeOK, LoggingOK, CoresOK, MemoryOK, Core

LEMMA LoggingKept == LoggingOK /\ UNCHANGED <<env, logging>> => LoggingOK'
  BY DEF LoggingOK, logging, Sinks, Android

LEMMA CoresKept == CoresOK /\ UNCHANGED cores => CoresOK'
  BY DEF CoresOK, cores

LEMMA MemoryKept == MemoryOK /\ UNCHANGED memory => MemoryOK'
  BY DEF MemoryOK, memory

LEMMA Called == calls \in 0..MaxCalls /\ Idle => calls' \in 0..MaxCalls
  BY PortAssumption DEF Idle

-----------------------------------------------------------------------------
LEMMA LoggingTypes ==
    ASSUME TypeOK,
           \/ \E l \in LogLevel : Log(l)
           \/ Unwind \/ Abort
           \/ \E v \in VLevels : VLog(v) \/ OpenLatency(v)
           \/ CloseLatency
           \/ ChangeEnvironment
    PROVE  TypeOK'
  <1>1. LoggingOK /\ CoresOK /\ MemoryOK /\ calls \in 0..MaxCalls
        /\ pc \in {"idle", "freq", "fatal", "aborted"}
    BY DEF TypeOK
  <1>2. ASSUME UNCHANGED <<cores, memory>> PROVE CoresOK' /\ MemoryOK'
    BY <1>1, <1>2, CoresKept, MemoryKept
  <1>3. ASSUME NEW l \in LogLevel, Log(l) PROVE TypeOK'
    <2>1. Says({l}, {}) /\ {l} \in SUBSET LogLevel /\ UNCHANGED <<scopes, trace>>
      BY <1>3 DEF Log
    <2>2. LoggingOK'
      BY <1>1, <2>1, SaysKeeps
    <2>3. pc' \in {"idle", "freq", "fatal", "aborted"} /\ UNCHANGED <<cores, memory>> /\ Idle
      BY <1>1, <1>3 DEF Log
    <2> QED
      BY <1>1, <1>2, <2>2, <2>3, Called DEF TypeOK
  <1>4. ASSUME Unwind PROVE TypeOK'
    <2>1. PICK a \in Frames : trace' = Append(trace, a)
      BY <1>4 DEF Unwind
    <2>2. a \in Nat /\ trace \in Seq(Nat) /\ Len(trace) < MaxSteps
      BY <1>1, <1>4, PortAssumption DEF Unwind, LoggingOK
    <2>3. trace' \in Seq(Nat) /\ Len(trace') = Len(trace) + 1
      BY <2>1, <2>2
    <2>4. trace' \in Seq(Nat) /\ Len(trace') <= MaxSteps
      BY <2>2, <2>3, PortAssumption
    <2>5. LoggingOK'
      BY <1>1, <1>4, <2>4 DEF Unwind, LoggingOK, Sinks, Android
    <2> QED
      BY <1>1, <1>2, <1>4, <2>5 DEF Unwind, TypeOK
  <1>5. ASSUME Abort PROVE TypeOK'
    <2>1. trace' \in {trace, <<>>}
      BY <1>5 DEF Abort, GetBackTraceUnsafe, PosixBackTrace
    <2>2. trace' \in Seq(Nat) /\ Len(trace') <= MaxSteps
      <3>1. trace \in Seq(Nat) /\ Len(trace) <= MaxSteps
        BY <1>1 DEF LoggingOK
      <3>2. <<>> \in Seq(Nat) /\ Len(<<>>) = 0 /\ MaxSteps \in Nat
        BY PortAssumption
      <3>3. CASE trace' = trace
        BY <3>1, <3>3
      <3>4. CASE trace' = <<>>
        BY <3>2, <3>4
      <3> QED
        BY <2>1, <3>3, <3>4
    <2>3. LoggingOK'
      BY <1>1, <1>5, <2>2 DEF Abort, LoggingOK, Sinks, Android
    <2> QED
      BY <1>1, <1>2, <1>5, <2>3 DEF Abort, TypeOK
  <1>6. ASSUME NEW v \in VLevels, VLog(v) PROVE TypeOK'
    <2>1. Says({}, {v}) /\ {} \in SUBSET LogLevel /\ UNCHANGED <<scopes, trace>>
      BY <1>6 DEF VLog
    <2>2. LoggingOK'
      BY <1>1, <2>1, SaysKeeps
    <2> QED
      BY <1>1, <1>2, <1>6, <2>2, Called DEF VLog, TypeOK
  <1>7. ASSUME NEW v \in VLevels, OpenLatency(v) PROVE TypeOK'
    <2>1. Says({}, {v}) /\ {} \in SUBSET LogLevel /\ UNCHANGED trace
      BY <1>7 DEF OpenLatency
    <2>2. VlogOn(v) \in BOOLEAN
      BY DEF VlogOn
    <2>3. scopes' \in Seq([vlog : VLevels, timed : BOOLEAN])
      BY <1>1, <1>7, <2>2 DEF OpenLatency, LoggingOK
    <2>4. LoggingOK'
      BY <1>1, <2>1, <2>3, SaysTypes DEF LoggingOK
    <2> QED
      BY <1>1, <1>2, <1>7, <2>4, Called DEF OpenLatency, TypeOK
  <1>8. ASSUME CloseLatency PROVE TypeOK'
    <2>1. scopes \in Seq([vlog : VLevels, timed : BOOLEAN]) /\ scopes # <<>>
      BY <1>1, <1>8 DEF CloseLatency, LoggingOK
    <2>2. Head(scopes) \in [vlog : VLevels, timed : BOOLEAN]
      BY <2>1, HeadTailTypes
    <2>3. Tail(scopes) \in Seq([vlog : VLevels, timed : BOOLEAN])
      BY <2>1, HeadTailTypes
    <2>4. Latency(Head(scopes).timed) \in [level : LogLevel, to : {{}, Sinks}, timed : BOOLEAN]
      BY <1>1, <2>2, MessageType DEF Latency, LogLevel
    <2>5. messages' \subseteq [level : LogLevel, to : {{}, Sinks}, timed : BOOLEAN]
      BY <1>1, <1>8, <2>4 DEF CloseLatency, LoggingOK
    <2>6. /\ minLevel' \in {<<>>} \cup {<<l>> : l \in 0..FATAL}
          /\ minVlog' \in {<<>>} \cup {<<s.vlog>> : s \in Settings}
      BY <1>1, <1>8, LevelTypes DEF CloseLatency
    <2>7. LoggingOK'
      BY <1>1, <1>8, <2>3, <2>5, <2>6 DEF CloseLatency, LoggingOK, Sinks, Android
    <2> QED
      BY <1>1, <1>2, <1>8, <2>7 DEF CloseLatency, TypeOK
  <1>9. ASSUME ChangeEnvironment PROVE TypeOK'
    <2>1. LoggingOK'
      BY <1>1, <1>9 DEF ChangeEnvironment, LoggingOK, Sinks, Android
    <2> QED
      BY <1>1, <1>2, <1>9, <2>1 DEF ChangeEnvironment, TypeOK
  <1> QED
    BY <1>3, <1>4, <1>5, <1>6, <1>7, <1>8, <1>9

-----------------------------------------------------------------------------
LEMMA CoreTypes ==
    ASSUME TypeOK, StartFreq \/ ReadFreq \/ EndFreq \/ SchedSetAffinity
    PROVE  TypeOK'
  <1>1. /\ LoggingOK /\ CoresOK /\ MemoryOK /\ calls \in 0..MaxCalls
        /\ pc \in {"idle", "freq", "fatal", "aborted"}
    BY DEF TypeOK
  <1>2. /\ freqs \in Seq(Nat) /\ answer.list \in Seq(Nat)
        /\ reading \in [count : 0..Len(MaxFreq), next : Nat \ {0}, fresh : BOOLEAN]
        /\ reading.next <= reading.count + 1
        /\ MaxFreq \in Seq(Nat) /\ Len(MaxFreq) \in Nat
    BY <1>1, PortAssumption DEF CoresOK
  <1>3. ASSUME UNCHANGED memory PROVE MemoryOK'
    BY <1>1, <1>3, MemoryKept
  <1>4. ASSUME NEW L \in SUBSET LogLevel, NEW V, Says(L, V), UNCHANGED <<scopes, trace>> PROVE LoggingOK'
    BY <1>1, <1>4, SaysKeeps
  <1>5. ASSUME StartFreq PROVE TypeOK'
    <2>1. PICK L, V : L \in SUBSET LogLevel /\ Says(L, V)
      BY <1>5 DEF StartFreq, Fails, LogLevel
    <2>2. freqs' \in Seq(Nat)
      <3>1. freqs' = <<>> \/ freqs' = freqs
        BY <1>5 DEF StartFreq
      <3>2. <<>> \in Seq(Nat)
        OBVIOUS
      <3> QED
        BY <1>2, <3>1, <3>2
    <2>3. pc' \in {"idle", "freq"} /\ answer'.list \in Seq(Nat)
      BY <1>2, <1>5, <2>2 DEF StartFreq, Fails, Returns
    <2>4. /\ reading' \in [count : 0..Len(MaxFreq), next : Nat \ {0}, fresh : BOOLEAN]
          /\ reading'.next <= reading'.count + 1
      <3>1. PICK n \in 0..Len(MaxFreq) : reading' = [count |-> n, next |-> 1, fresh |-> freqs' = <<>>]
        <4>1. 0 \in 0..Len(MaxFreq)
          BY <1>2
        <4> QED
          BY <1>5, <4>1 DEF StartFreq
      <3> DEFINE new == freqs' = <<>>
      <3>2. new \in BOOLEAN /\ reading' = [count |-> n, next |-> 1, fresh |-> new]
        BY <3>1
      <3> HIDE DEF new
      <3> QED
        BY <1>2, <3>2
    <2>5. CoresOK'
      BY <1>1, <1>5, <2>2, <2>3, <2>4 DEF StartFreq, CoresOK
    <2>6. LoggingOK'
      BY <1>4, <1>5, <2>1 DEF StartFreq
    <2> QED
      BY <1>1, <1>3, <1>5, <2>3, <2>5, <2>6, Called DEF StartFreq, TypeOK
  <1>6. ASSUME ReadFreq PROVE TypeOK'
    <2>1. PICK L, V : L \in SUBSET LogLevel /\ Says(L, V)
      BY <1>6 DEF ReadFreq, Fails, LogLevel
    <2>2. reading.next \in 1..Len(MaxFreq)
      BY <1>2, <1>6 DEF ReadFreq
    <2>3. MaxFreq[reading.next] \in Nat
      BY <1>2, <2>2
    <2>4. Append(freqs, MaxFreq[reading.next]) \in Seq(Nat)
      BY <1>2, <2>3
    <2>5. freqs' \in Seq(Nat)
      BY <1>2, <1>6, <2>4 DEF ReadFreq
    <2>6. pc' \in {"idle", "freq"} /\ answer'.list \in Seq(Nat)
      BY <1>2, <1>6, <2>5 DEF ReadFreq, Fails, Returns
    <2>7. reading' = reading \/ reading' = [reading EXCEPT !.next = @ + 1]
      BY <1>6 DEF ReadFreq
    <2>8. /\ reading' \in [count : 0..Len(MaxFreq), next : Nat \ {0}, fresh : BOOLEAN]
          /\ reading'.next <= reading'.count + 1
      <3>1. reading.next <= reading.count
        BY <1>6 DEF ReadFreq
      <3>2. CASE reading' = [reading EXCEPT !.next = @ + 1]
        <4>1. reading'.next = reading.next + 1 /\ reading'.count = reading.count
          BY <1>2, <3>2
        <4>2. reading.next \in Nat /\ reading.count \in Nat
          BY <1>2
        <4>3. reading.next + 1 \in Nat \ {0} /\ reading.next + 1 <= reading.count + 1
          BY <3>1, <4>2
        <4> QED
          BY <1>2, <3>2, <4>1, <4>3
      <3>3. CASE reading' = reading
        BY <1>2, <3>3
      <3> QED
        BY <2>7, <3>2, <3>3
    <2>9. CoresOK'
      BY <1>1, <1>6, <2>5, <2>6, <2>8 DEF ReadFreq, CoresOK
    <2>10. LoggingOK'
      BY <1>4, <1>6, <2>1 DEF ReadFreq
    <2> QED
      BY <1>1, <1>3, <1>6, <2>6, <2>9, <2>10 DEF ReadFreq, TypeOK
  <1>7. ASSUME EndFreq PROVE TypeOK'
    <2>1. Says({}, {1}) /\ {} \in SUBSET LogLevel
      BY <1>7 DEF EndFreq
    <2>2. PICK isolated \in SUBSET Core :
            /\ freqs' = [i \in 1..Len(freqs) |-> IF Android /\ CpuIsolate(isolated, i) THEN 0 ELSE freqs[i]]
            /\ Returns("SUCCESS", isolated)
      BY <1>7 DEF EndFreq
    <2>3. \A i \in 1..Len(freqs) : (IF Android /\ CpuIsolate(isolated, i) THEN 0 ELSE freqs[i]) \in Nat
      BY <1>2
    <2>4. freqs' \in Seq(Nat)
      BY <1>2, <2>2, <2>3
    <2>5. pc' = "idle" /\ answer'.list \in Seq(Nat)
      BY <2>2, <2>4 DEF Returns
    <2>6. CoresOK'
      BY <1>1, <1>7, <2>4, <2>5 DEF EndFreq, CoresOK
    <2>7. LoggingOK'
      BY <1>4, <1>7, <2>1 DEF EndFreq
    <2> QED
      BY <1>1, <1>3, <1>7, <2>5, <2>6, <2>7 DEF EndFreq, TypeOK
  <1>8. ASSUME SchedSetAffinity PROVE TypeOK'
    <2>1. PICK L, V : L \in SUBSET LogLevel /\ Says(L, V)
      BY <1>8 DEF SchedSetAffinity, BaseAffinity, LinuxAffinity, LogLevel
    <2>2. affinity' \subseteq Core
      BY <1>1, <1>8 DEF SchedSetAffinity, BaseAffinity, LinuxAffinity, CoresOK
    <2>3. CoresOK'
      BY <1>1, <1>8, <2>2 DEF SchedSetAffinity, CoresOK
    <2>4. LoggingOK'
      BY <1>4, <1>8, <2>1 DEF SchedSetAffinity
    <2> QED
      BY <1>1, <1>3, <1>8, <2>3, <2>4, Called DEF SchedSetAffinity, TypeOK
  <1> QED
    BY <1>5, <1>6, <1>7, <1>8

LEMMA MemoryTypes ==
    ASSUME TypeOK, MapFile \/ AdviseFree
    PROVE  TypeOK'
  <1>1. /\ LoggingOK /\ CoresOK /\ MemoryOK /\ calls \in 0..MaxCalls
        /\ pc \in {"idle", "freq", "fatal", "aborted"}
    BY DEF TypeOK
  <1>2. ASSUME UNCHANGED cores PROVE CoresOK'
    BY <1>1, <1>2, CoresKept
  <1>3. ASSUME MapFile PROVE TypeOK'
    <2>1. MemoryOK'
      BY <1>1, <1>3, PortAssumption DEF MapFile, Unmapped, MemoryOK
    <2>2. LoggingOK'
      BY <1>1, <1>3, LoggingKept DEF MapFile
    <2> QED
      BY <1>1, <1>2, <1>3, <2>1, <2>2, Called DEF MapFile, TypeOK
  <1>4. ASSUME AdviseFree PROVE TypeOK'
    <2>1. PICK L, V : L \in SUBSET LogLevel /\ Says(L, V)
      BY <1>4 DEF AdviseFree, LogLevel
    <2>2. LoggingOK'
      BY <1>1, <1>4, <2>1, SaysKeeps DEF AdviseFree
    <2>3. MemoryOK'
      BY <1>1, <1>4 DEF AdviseFree, MemoryOK
    <2> QED
      BY <1>1, <1>2, <1>4, <2>2, <2>3, Called DEF AdviseFree, TypeOK
  <1> QED
    BY <1>3, <1>4

LEMMA StutterTypes == TypeOK /\ UNCHANGED vars => TypeOK'
  BY LoggingKept, CoresKept, MemoryKept DEF vars, TypeOK

\* A log level that was read is a level, a call of GetCPUMaxFreq never looks
\* past the cores it counted, a backtrace has no more than max_steps addresses,
\* and the region the thread holds is the one mapping of the process, whatever
\* files it maps (logger.h:43-53, linux_base/env.cc:80, android/env.cc:56-67,
\* posix/file_system.cc:32-79).
THEOREM TypeCorrect == Spec => []TypeOK
  <1>1. TypeOK /\ [Next]_vars => TypeOK'
    BY LoggingTypes, CoreTypes, MemoryTypes, StutterTypes DEF Next
  <1> QED
    BY InitTypes, <1>1, PTL DEF Spec

-----------------------------------------------------------------------------
(***************************************************************************)
(* The log.  The levels that were read tell which messages were written    *)
(* and which scopes had taken their start.                                 *)
(***************************************************************************)

MessagesInv ==
    /\ messages # {} => minLevel # <<>>
    /\ \A m \in messages : m.timed /\ m.to = IF m.level >= minLevel[1] THEN Sinks ELSE {}

ScopesInv ==
    \A i \in DOMAIN scopes :
        /\ minLevel # <<>> /\ minVlog # <<>>
        /\ scopes[i].timed <=> INFO >= minLevel[1] /\ scopes[i].vlog <= minVlog[1]

FatalInv == \A m \in messages : m.level = FATAL => pc \in {"fatal", "aborted"}

LogInv == MessagesInv /\ ScopesInv /\ FatalInv

LEMMA LevelsKept ==
    ASSUME LoggingOK
    PROVE  /\ minLevel # <<>> => minLevel = <<MinLogLevelFromEnv>>
           /\ minVlog # <<>> => minVlog = <<MinVLogLevelFromEnv>>
  <1>1. ASSUME minLevel # <<>> PROVE minLevel = <<MinLogLevelFromEnv>>
    <2>1. PICK l \in 0..4 : minLevel = <<l>>
      BY <1>1 DEF LoggingOK
    <2> QED
      BY <1>1, <2>1 DEF MinLogLevelFromEnv
  <1>2. ASSUME minVlog # <<>> PROVE minVlog = <<MinVLogLevelFromEnv>>
    <2>1. PICK s \in Settings : minVlog = <<s.vlog>>
      BY <1>2 DEF LoggingOK
    <2> QED
      BY <1>2, <2>1 DEF MinVLogLevelFromEnv
  <1> QED
    BY <1>1, <1>2

\* What any action does to the messages, from what Says does.
LEMMA SaysMessages ==
    ASSUME LoggingOK, MessagesInv, NEW L \in SUBSET LogLevel, NEW V, Says(L, V)
    PROVE  MessagesInv'
  <1>1. MinLogLevelFromEnv \in 0..4
    BY LevelTypes
  <1>2. Sinks' = Sinks
    BY SaysTypes
  <1>3. /\ messages' = messages \cup {Message(l) : l \in L} \cup {Message(INFO) : v \in {v \in V : VlogOn(v)}}
        /\ minLevel' = IF L \cup V = {} THEN minLevel ELSE <<MinLogLevelFromEnv>>
    BY DEF Says
  <1>4. CASE L \cup V = {}
    <2>1. messages' = messages /\ minLevel' = minLevel
      BY <1>3, <1>4
    <2> QED
      BY <1>2, <2>1 DEF MessagesInv
  <1>5. CASE L \cup V # {}
    <2>1. minLevel' = <<MinLogLevelFromEnv>> /\ minLevel' # <<>>
      BY <1>3, <1>5
    <2>2. \A m \in messages : m.timed /\ m.to = IF m.level >= MinLogLevelFromEnv THEN Sinks ELSE {}
      <3>1. ASSUME NEW m \in messages
            PROVE  m.timed /\ m.to = IF m.level >= MinLogLevelFromEnv THEN Sinks ELSE {}
        <4>1. minLevel = <<MinLogLevelFromEnv>>
          BY <3>1, LevelsKept DEF MessagesInv
        <4>2. minLevel[1] = MinLogLevelFromEnv
          BY <4>1
        <4> QED
          BY <3>1, <4>2 DEF MessagesInv
      <3> QED
        BY <3>1
    <2>3. \A l : /\ Message(l).timed
                 /\ Message(l).to = IF Message(l).level >= MinLogLevelFromEnv THEN Sinks ELSE {}
      BY DEF Message, Passes
    <2>4. \A m \in messages' : m.timed /\ m.to = IF m.level >= MinLogLevelFromEnv THEN Sinks ELSE {}
      BY <1>3, <2>2, <2>3
    <2> QED
      BY <1>2, <2>1, <2>4 DEF MessagesInv
  <1> QED
    BY <1>4, <1>5

LEMMA SaysScopes ==
    ASSUME LoggingOK, ScopesInv, NEW L \in SUBSET LogLevel, NEW V, Says(L, V)
    PROVE  \A i \in DOMAIN scopes :
              /\ minLevel' # <<>> /\ minVlog' # <<>>
              /\ scopes[i].timed <=> INFO >= minLevel'[1] /\ scopes[i].vlog <= minVlog'[1]
  <1>1. ASSUME NEW i \in DOMAIN scopes PROVE minLevel' = minLevel /\ minVlog' = minVlog
    <2>1. minLevel = <<MinLogLevelFromEnv>> /\ minVlog = <<MinVLogLevelFromEnv>>
      BY <1>1, LevelsKept DEF ScopesInv
    <2> QED
      BY <2>1 DEF Says
  <1> QED
    BY <1>1 DEF ScopesInv

\* A call that logs nothing fatal.
LEMMA SaysInv ==
    ASSUME LoggingOK, LogInv, pc \notin {"fatal", "aborted"},
           NEW L \in SUBSET {INFO, WARNING, ERROR}, NEW V, Says(L, V), UNCHANGED scopes
    PROVE  LogInv'
  <1>1. L \in SUBSET LogLevel
    BY DEF LogLevel
  <1>2. MessagesInv'
    BY <1>1, SaysMessages DEF LogInv
  <1>3. ScopesInv'
    BY <1>1, SaysScopes DEF LogInv, ScopesInv
  <1>4. \A m \in messages' : m.level # FATAL
    <2>1. \A m \in messages : m.level # FATAL
      BY DEF LogInv, FatalInv
    <2>2. \A l : Message(l).level = l
      BY DEF Message
    <2> QED
      BY <2>1, <2>2 DEF Says
  <1> QED
    BY <1>2, <1>3, <1>4 DEF LogInv, FatalInv

LEMMA LogKept ==
    ASSUME LogInv, UNCHANGED <<env, minLevel, minVlog, messages, scopes>>,
           pc \in {"fatal", "aborted"} => pc' \in {"fatal", "aborted"}
    PROVE  LogInv'
  BY DEF LogInv, MessagesInv, ScopesInv, FatalInv, Sinks, Android

-----------------------------------------------------------------------------
LEMMA LogStep ==
    ASSUME TypeOK, LogInv, [Next]_vars
    PROVE  LogInv'
  <1>1. LoggingOK
    BY DEF TypeOK
  <1>2. ASSUME NEW l \in LogLevel, Log(l) PROVE LogInv'
    <2>1. Says({l}, {}) /\ {l} \in SUBSET LogLevel /\ UNCHANGED scopes /\ pc = "idle"
      BY <1>2 DEF Log, Idle
    <2>2. CASE l = FATAL
      <3>1. pc' = "fatal"
        BY <1>1, <1>2, <2>2, LevelTypes DEF Log, Passes
      <3>2. MessagesInv'
        BY <1>1, <2>1, SaysMessages DEF LogInv
      <3>3. ScopesInv'
        BY <1>1, <2>1, SaysScopes DEF LogInv, ScopesInv
      <3> QED
        BY <3>1, <3>2, <3>3 DEF LogInv, FatalInv
    <2>3. CASE l # FATAL
      <3>1. {l} \in SUBSET {INFO, WARNING, ERROR}
        BY <2>3 DEF LogLevel
      <3> QED
        BY <1>1, <2>1, <3>1, SaysInv
    <2> QED
      BY <2>2, <2>3
  <1>3. ASSUME Unwind \/ Abort PROVE LogInv'
    BY <1>3, LogKept DEF Unwind, Abort
  <1>4. ASSUME NEW v \in VLevels, VLog(v) PROVE LogInv'
    <2>1. Says({}, {v}) /\ UNCHANGED scopes /\ pc = "idle"
      BY <1>4 DEF VLog, Idle
    <2> QED
      BY <1>1, <2>1, SaysInv
  <1>5. ASSUME NEW v \in VLevels, OpenLatency(v) PROVE LogInv'
    <2>1. Says({}, {v}) /\ {} \in SUBSET LogLevel /\ pc = "idle"
      BY <1>5 DEF OpenLatency, Idle
    <2>2. MessagesInv'
      BY <1>1, <2>1, SaysMessages DEF LogInv
    <2>3. \A m \in messages' : m.level # FATAL
      <3>1. \A m \in messages : m.level # FATAL
        BY <2>1 DEF LogInv, FatalInv
      <3>2. Message(INFO).level = INFO
        BY DEF Message
      <3> QED
        BY <2>1, <3>1, <3>2 DEF Says
    <2>4. minLevel' = <<MinLogLevelFromEnv>> /\ minVlog' = <<MinVLogLevelFromEnv>>
      BY <2>1 DEF Says
    <2>5. scopes \in Seq([vlog : VLevels, timed : BOOLEAN])
      BY <1>1 DEF LoggingOK
    <2> DEFINE new == [vlog |-> v, timed |-> VlogOn(v)]
    <2>6. scopes' = <<new>> \o scopes
      BY <1>5 DEF OpenLatency
    <2>7. new.timed <=> INFO >= minLevel'[1] /\ new.vlog <= minVlog'[1]
      BY <2>4 DEF VlogOn, Passes
    <2> HIDE DEF new
    <2>8. \A i \in DOMAIN scopes' : scopes'[i] = new \/ (i - 1 \in DOMAIN scopes /\ scopes'[i] = scopes[i - 1])
      BY <2>5, <2>6
    <2>9. minLevel' # <<>> /\ minVlog' # <<>>
      BY <2>4
    <2>10. \A i \in DOMAIN scopes :
              scopes[i].timed <=> INFO >= minLevel'[1] /\ scopes[i].vlog <= minVlog'[1]
      BY <1>1, <2>1, SaysScopes DEF LogInv
    <2>11. ScopesInv'
      BY <2>7, <2>8, <2>9, <2>10 DEF ScopesInv
    <2> QED
      BY <2>2, <2>3, <2>11 DEF LogInv, FatalInv
  <1>6. ASSUME CloseLatency PROVE LogInv'
    <2>1. /\ scopes \in Seq([vlog : VLevels, timed : BOOLEAN]) /\ scopes # <<>>
          /\ pc = "idle" /\ scopes' = Tail(scopes) /\ env' = env
      BY <1>1, <1>6 DEF CloseLatency, LoggingOK
    <2>2. /\ Head(scopes) = scopes[1] /\ 1 \in DOMAIN scopes
          /\ \A i \in DOMAIN scopes' : i + 1 \in DOMAIN scopes /\ scopes'[i] = scopes[i + 1]
      BY <2>1, HeadTailTypes
    <2>3. minLevel = <<MinLogLevelFromEnv>> /\ minVlog = <<MinVLogLevelFromEnv>>
      BY <1>1, <2>2, LevelsKept DEF LogInv, ScopesInv
    <2>4. minLevel' = minLevel /\ minVlog' = minVlog
      BY <1>6, <2>3 DEF CloseLatency
    <2>5. ScopesInv'
      BY <2>2, <2>4 DEF LogInv, ScopesInv
    <2> DEFINE last == Latency(Head(scopes).timed)
    <2>6. VlogOn(Head(scopes).vlog) =>
              /\ last.timed /\ last.level = INFO
              /\ last.to = IF last.level >= minLevel[1] THEN Sinks ELSE {}
      <3>1. VlogOn(Head(scopes).vlog) => INFO >= minLevel[1] /\ scopes[1].vlog <= minVlog[1]
        BY <2>2, <2>3 DEF VlogOn, Passes
      <3>2. VlogOn(Head(scopes).vlog) => Head(scopes).timed
        BY <2>2, <3>1 DEF LogInv, ScopesInv
      <3>3. last.timed = Head(scopes).timed /\ last.level = INFO
            /\ last.to = IF Passes(INFO) THEN Sinks ELSE {}
        BY DEF Latency, Message
      <3> QED
        BY <2>3, <3>2, <3>3 DEF Passes
    <2>7. messages' \subseteq messages \cup {last} /\ (last \in messages' => VlogOn(Head(scopes).vlog) \/ last \in messages)
      BY <1>6 DEF CloseLatency
    <2> HIDE DEF last
    <2>8. Sinks' = Sinks
      BY <2>1 DEF Sinks, Android
    <2>9. MessagesInv'
      BY <2>3, <2>4, <2>6, <2>7, <2>8 DEF LogInv, MessagesInv
    <2>10. FatalInv'
      BY <2>1, <2>6, <2>7 DEF LogInv, FatalInv
    <2> QED
      BY <2>5, <2>9, <2>10 DEF LogInv
  <1>7. ASSUME ChangeEnvironment PROVE LogInv'
    BY <1>7, LogKept DEF ChangeEnvironment
  <1>8. ASSUME StartFreq \/ ReadFreq \/ EndFreq \/ SchedSetAffinity \/ AdviseFree PROVE LogInv'
    <2>1. pc \notin {"fatal", "aborted"} /\ UNCHANGED scopes
      BY <1>8 DEF StartFreq, ReadFreq, EndFreq, SchedSetAffinity, AdviseFree, Idle
    <2>2. \E L, V : L \in SUBSET {INFO, WARNING, ERROR} /\ Says(L, V)
      BY <1>8 DEF StartFreq, ReadFreq, EndFreq, SchedSetAffinity, AdviseFree, Fails, BaseAffinity, LinuxAffinity
    <2> QED
      BY <1>1, <2>1, <2>2, SaysInv
  <1>9. ASSUME MapFile PROVE LogInv'
    BY <1>9, LogKept DEF MapFile, logging
  <1>10. ASSUME UNCHANGED vars PROVE LogInv'
    BY <1>10, LogKept DEF vars, logging
  <1> QED
    BY <1>2, <1>3, <1>4, <1>5, <1>6, <1>7, <1>8, <1>9, <1>10 DEF Next

LEMMA LogInvRight ==
    ASSUME LoggingOK, LogInv
    PROVE  LogRight
  <1>1. \A m \in messages : m.level \in 1..4 /\ minLevel[1] \in 0..4
    <2>1. messages # {} => \E l \in 0..4 : minLevel = <<l>>
      BY DEF LoggingOK, LogInv, MessagesInv
    <2>2. \A m \in messages : m.level \in 1..4
      BY DEF LoggingOK, LogLevel
    <2> QED
      BY <2>1, <2>2
  <1>2. OneThreshold
    BY <1>1 DEF OneThreshold, LogInv, MessagesInv
  <1>3. FatalEnds
    BY <1>1 DEF FatalEnds, LogInv, MessagesInv, FatalInv
  <1>4. LatencyFromStart
    BY DEF LatencyFromStart, LogInv, MessagesInv
  <1> QED
    BY <1>2, <1>3, <1>4 DEF LogRight

\* Every message goes where its level sends it, by levels read once; a fatal one
\* is always written and ends the process; no latency counts from an unset start
\* (logger.cc:33-52, 81-112, logger.h:43-53, logging.h:46-55, 99-114).
THEOREM LogTheorem == Spec => []LogRight
  <1>1. Init => LogInv
    BY DEF Init, LogInv, MessagesInv, ScopesInv, FatalInv
  <1>2. TypeOK /\ LogInv /\ [Next]_vars => LogInv'
    BY LogStep
  <1>3. TypeOK /\ LogInv => LogRight
    BY LogInvRight DEF TypeOK
  <1> QED
    BY TypeCorrect, <1>1, <1>2, <1>3, PTL DEF Spec

-----------------------------------------------------------------------------
(***************************************************************************)
(* The frequencies.  While they are read into a vector that was empty, it  *)
(* has no more entries than cores were passed, and if it has as many, they *)
(* are those of the cores.                                                 *)
(***************************************************************************)

VectorInv ==
    pc = "freq" /\ reading.fresh =>
        /\ Len(freqs) <= reading.next - 1
        /\ Len(freqs) = reading.next - 1 => \A i \in 1..Len(freqs) : freqs[i] = MaxFreq[i]

FreqInv == VectorInv /\ FreqOfEachCore

LEMMA FreqKept ==
    ASSUME FreqInv, UNCHANGED <<env, freqs, reading, answer>>, pc' = "freq" => pc = "freq"
    PROVE  FreqInv'
  BY DEF FreqInv, VectorInv, FreqOfEachCore, Android

\* A call that fails says nothing of frequencies.
LEMMA FailsInv ==
    ASSUME Fails
    PROVE  FreqInv'
  BY DEF Fails, Returns, FreqInv, VectorInv, FreqOfEachCore

LEMMA FreqStep ==
    ASSUME TypeOK, FreqInv, [Next]_vars
    PROVE  FreqInv'
  <1>1. /\ freqs \in Seq(Nat) /\ Len(freqs) \in Nat
        /\ reading \in [count : 0..Len(MaxFreq), next : Nat \ {0}, fresh : BOOLEAN]
        /\ reading.next <= reading.count + 1
        /\ MaxFreq \in Seq(Nat) /\ Len(MaxFreq) \in Nat
    BY PortAssumption DEF TypeOK, CoresOK
  <1>2. ASSUME StartFreq PROVE FreqInv'
    <2>1. CASE Fails
      BY <2>1, FailsInv
    <2>2. CASE ~Fails
      <3>1. PICK n \in 0..Len(MaxFreq) : reading' = [count |-> n, next |-> 1, fresh |-> freqs' = <<>>]
        BY <1>2, <2>2 DEF StartFreq
      <3>2. reading'.next = 1 /\ (reading'.fresh => freqs' = <<>>)
        BY <3>1
      <3>3. Len(<<>>) = 0
        OBVIOUS
      <3>4. VectorInv'
        BY <3>2, <3>3 DEF VectorInv
      <3>5. env' = env /\ answer' = answer
        BY <1>2, <2>2 DEF StartFreq, Says
      <3> QED
        BY <3>4, <3>5 DEF FreqInv, FreqOfEachCore, Android
    <2> QED
      BY <2>1, <2>2
  <1>3. ASSUME ReadFreq PROVE FreqInv'
    <2>1. CASE Fails
      BY <2>1, FailsInv
    <2>2. CASE ~Fails
      <3>1. /\ reading' = [reading EXCEPT !.next = @ + 1]
            /\ pc = "freq" /\ answer' = answer /\ env' = env
            /\ freqs' = freqs \/ freqs' = Append(freqs, MaxFreq[reading.next])
        BY <1>3, <2>2 DEF ReadFreq, Says
      <3>2. reading'.next = reading.next + 1 /\ reading'.fresh = reading.fresh
        BY <1>1, <3>1
      <3>3. reading.next \in Nat \ {0} /\ reading.next \in 1..Len(MaxFreq)
        BY <1>1, <1>3 DEF ReadFreq
      <3>4. MaxFreq[reading.next] \in Nat
        BY <1>1, <3>3
      <3>5. CASE freqs' = freqs
        BY <1>1, <3>1, <3>2, <3>3, <3>5 DEF FreqInv, VectorInv, FreqOfEachCore, Android
      <3>6. CASE freqs' = Append(freqs, MaxFreq[reading.next])
        <4>1. /\ Len(freqs') = Len(freqs) + 1
              /\ freqs'[Len(freqs) + 1] = MaxFreq[reading.next]
              /\ \A i \in 1..Len(freqs) : freqs'[i] = freqs[i]
          BY <1>1, <3>4, <3>6
        <4>2. ASSUME reading'.fresh
              PROVE  /\ Len(freqs') <= reading'.next - 1
                     /\ Len(freqs') = reading'.next - 1 =>
                            \A i \in 1..Len(freqs') : freqs'[i] = MaxFreq[i]
          <5>1. /\ Len(freqs) <= reading.next - 1
                /\ Len(freqs) = reading.next - 1 => \A i \in 1..Len(freqs) : freqs[i] = MaxFreq[i]
            BY <3>1, <3>2, <4>2 DEF FreqInv, VectorInv
          <5>2. ASSUME Len(freqs') = reading'.next - 1, NEW i \in 1..Len(freqs')
                PROVE  freqs'[i] = MaxFreq[i]
            <6>1. Len(freqs) = reading.next - 1
              BY <1>1, <3>2, <3>3, <4>1, <5>2
            <6>2. CASE i = Len(freqs) + 1
              BY <1>1, <3>3, <4>1, <6>1, <6>2
            <6>3. CASE i # Len(freqs) + 1
              <7>1. i \in 1..Len(freqs)
                BY <1>1, <4>1, <5>2, <6>3
              <7> QED
                BY <4>1, <5>1, <6>1, <7>1
            <6> QED
              BY <6>2, <6>3
          <5> QED
            BY <1>1, <3>2, <3>3, <4>1, <5>1, <5>2
        <4>3. VectorInv'
          BY <4>2 DEF VectorInv
        <4> QED
          BY <3>1, <4>3 DEF FreqInv, FreqOfEachCore, Android
      <3> QED
        BY <3>1, <3>5, <3>6
    <2> QED
      BY <2>1, <2>2
  <1>4. ASSUME EndFreq PROVE FreqInv'
    <2>1. PICK isolated \in SUBSET Core :
            /\ freqs' = [i \in 1..Len(freqs) |-> IF Android /\ CpuIsolate(isolated, i) THEN 0 ELSE freqs[i]]
            /\ Returns("SUCCESS", isolated)
      BY <1>4 DEF EndFreq
    <2>2. pc = "freq" /\ reading.next = reading.count + 1 /\ reading' = reading /\ env' = env
      BY <1>1, <1>4 DEF EndFreq, Says
    <2>3. /\ pc' = "idle" /\ answer'.status = "SUCCESS" /\ answer'.count = reading.count
          /\ answer'.fresh = reading.fresh /\ answer'.list = freqs' /\ answer'.isolated = isolated
      BY <2>1, <2>2 DEF Returns
    <2>4. Len(freqs') = Len(freqs)
      BY <1>1, <2>1
    <2>5. ASSUME reading.fresh, Len(freqs') = reading.count, NEW c \in 1..reading.count
          PROVE  freqs'[c] = IF Android /\ c \in isolated THEN 0 ELSE MaxFreq[c]
      <3>1. c \in 1..Len(freqs) /\ Len(freqs) = reading.next - 1
        BY <1>1, <2>2, <2>4, <2>5
      <3>2. freqs[c] = MaxFreq[c]
        BY <2>2, <2>5, <3>1 DEF FreqInv, VectorInv
      <3> QED
        BY <2>1, <3>1, <3>2 DEF CpuIsolate
    <2>6. FreqOfEachCore'
      BY <2>2, <2>3, <2>5 DEF FreqOfEachCore, Android
    <2> QED
      BY <2>3, <2>6 DEF FreqInv, VectorInv
  <1>5. ASSUME NEW l \in LogLevel, Log(l) PROVE FreqInv'
    BY <1>5, FreqKept DEF Log, Says, cores, Idle
  <1>6. ASSUME NEW v \in VLevels, VLog(v) \/ OpenLatency(v) PROVE FreqInv'
    BY <1>6, FreqKept DEF VLog, OpenLatency, Says, cores, Idle
  <1>7. ASSUME Unwind \/ Abort \/ CloseLatency \/ ChangeEnvironment PROVE FreqInv'
    BY <1>7, FreqKept DEF Unwind, Abort, CloseLatency, ChangeEnvironment, cores
  <1>8. ASSUME SchedSetAffinity PROVE FreqInv'
    BY <1>8, FreqKept DEF SchedSetAffinity, BaseAffinity, LinuxAffinity, Says
  <1>9. ASSUME MapFile \/ AdviseFree PROVE FreqInv'
    BY <1>9, FreqKept DEF MapFile, AdviseFree, Says, cores
  <1>10. ASSUME UNCHANGED vars PROVE FreqInv'
    BY <1>10, FreqKept DEF vars, cores
  <1> QED
    BY <1>2, <1>3, <1>4, <1>5, <1>6, <1>7, <1>8, <1>9, <1>10 DEF Next

\* Though cores come, go and are isolated while GetCPUMaxFreq reads them, a list
\* that was asked for in an empty vector and is as long as the count has every
\* core's frequency at its place (linux_base/env.cc:74-104, android/env.cc:96-109).
THEOREM FreqTheorem == Spec => []FreqOfEachCore
  <1>1. Init => FreqInv
    BY DEF Init, FreqInv, VectorInv, FreqOfEachCore
  <1>2. TypeOK /\ FreqInv /\ [Next]_vars => FreqInv'
    BY FreqStep
  <1>3. FreqInv => FreqOfEachCore
    BY DEF FreqInv
  <1> QED
    BY TypeCorrect, <1>1, <1>2, <1>3, PTL DEF Spec

-----------------------------------------------------------------------------
(***************************************************************************)
(* The pages.                                                              *)
(***************************************************************************)

LEMMA DivFloor ==
    ASSUME NEW P \in Nat \ {0}, NEW x \in Nat
    PROVE  /\ x \div P \in Nat
           /\ (x \div P) * P <= x
           /\ x < (x \div P) * P + P
  OBVIOUS

\* One more page is at least a page further.
LEMMA NextPage ==
    ASSUME NEW P \in Nat \ {0}, NEW m \in Int, NEW n \in Int, m < n
    PROVE  m * P + P <= n * P
  <1>1. n * P = m * P + (n - m) * P
    OBVIOUS
  <1>2. (n - m) * P >= P
    <2>1. (n - m - 1) * P >= 0
      OBVIOUS
    <2> QED
      BY <2>1
  <1> QED
    BY <1>1, <1>2

\* The whole pages of the addresses from first to before end, as madvise must be
\* told them.
WholePages(first, end) ==
    UNION {(n * PageSize)..((n + 1) * PageSize - 1) :
            n \in {n \in 0..end : first <= n * PageSize /\ (n + 1) * PageSize <= end}}

LEMMA InWholePages ==
    ASSUME NEW first \in Nat, NEW end \in Nat, NEW y
    PROVE  y \in WholePages(first, end) <=>
              \E n \in 0..end : /\ first <= n * PageSize /\ (n + 1) * PageSize <= end
                                /\ y \in (n * PageSize)..((n + 1) * PageSize - 1)
  BY DEF WholePages

LEMMA AdviseRight ==
    ASSUME NEW addr \in Nat, NEW length \in Nat
    PROVE  Advise(addr, length) = WholePages(addr, addr + length)
  <1> DEFINE P == PageSize
             q == (addr + P - 1) \div P
             end == addr + length
  <1>1. P \in Nat \ {0}
    BY PortAssumption
  <1>2. end \in Nat /\ addr + P - 1 \in Nat
    BY <1>1
  <1>3. q \in Nat /\ q * P <= addr + P - 1 /\ addr + P - 1 < q * P + P
    BY <1>1, <1>2, DivFloor
  <1>4. AlignedUp(addr) = q * P /\ Delta(addr) = q * P - addr
    BY DEF AlignedUp, Delta
  <1>5. q * P \in Nat /\ addr <= q * P /\ q * P < addr + P
    BY <1>1, <1>3
  <1>6. length >= Delta(addr) + P <=> q * P + P <= end
    BY <1>1, <1>4, <1>5
  <1> HIDE DEF q
  \* No page that begins in the buffer begins before the q-th.
  <1>7. ASSUME NEW n \in Nat, addr <= n * P PROVE q <= n
    <2>1. CASE n < q
      <3>1. n * P + P <= q * P
        BY <1>1, <1>3, <2>1, NextPage
      <3>2. n * P \in Nat
        BY <1>1
      <3> QED
        BY <1>1, <1>5, <1>7, <3>1, <3>2
    <2> QED
      BY <1>3, <2>1
  <1>8. CASE ~(q * P + P <= end)
    <2>1. Advise(addr, length) = {}
      BY <1>6, <1>8 DEF Advise
    <2>2. ASSUME NEW n \in 0..end, addr <= n * P, (n + 1) * P <= end PROVE FALSE
      <3>1. n \in Nat /\ q < n + 1 /\ n + 1 \in Int /\ q \in Int
        BY <1>2, <1>3, <1>7, <2>2
      <3>2. q * P + P <= (n + 1) * P
        BY <1>1, <3>1, NextPage
      <3>3. (n + 1) * P \in Nat
        BY <1>1, <3>1
      <3> QED
        BY <1>1, <1>2, <1>5, <1>8, <2>2, <3>2, <3>3
    <2>3. \A y : y \notin WholePages(addr, end)
      BY <1>2, <2>2, InWholePages
    <2> QED
      BY <2>1, <2>3
  <1>9. CASE q * P + P <= end
    <2> DEFINE k == (length - Delta(addr)) \div P
    <2>1. length - Delta(addr) = end - q * P /\ end - q * P \in Nat
      BY <1>1, <1>2, <1>4, <1>5, <1>9
    <2>2. k \in Nat /\ k * P <= end - q * P /\ end - q * P < k * P + P
      BY <1>1, <2>1, DivFloor
    <2>3. LenAligned(addr, length) = k * P
      BY DEF LenAligned
    <2>4. Advise(addr, length) = (q * P)..(q * P + k * P - 1)
      BY <1>4, <1>6, <1>9, <2>3 DEF Advise
    <2> HIDE DEF k
    <2>5. (q + k) * P = q * P + k * P /\ k * P \in Nat /\ q + k \in Nat
      BY <1>1, <1>3, <2>2
    <2>6. ASSUME NEW y \in (q * P)..(q * P + k * P - 1)
          PROVE  y \in WholePages(addr, end)
      <3> DEFINE n == y \div P
      <3>1. y \in Nat
        BY <1>5, <2>5, <2>6
      <3>2. n \in Nat /\ n * P <= y /\ y < n * P + P
        BY <1>1, <3>1, DivFloor
      <3> HIDE DEF n
      <3>3. n * P \in Nat /\ (n + 1) * P = n * P + P
        BY <1>1, <3>2
      <3>4. q <= n
        <4>1. CASE n < q
          <5>1. n * P + P <= q * P
            BY <1>1, <1>3, <3>2, <4>1, NextPage
          <5> QED
            BY <1>1, <1>5, <2>6, <3>1, <3>2, <3>3, <5>1
        <4> QED
          BY <1>3, <3>2, <4>1
      <3>5. n < q + k
        <4>1. CASE q + k <= n
          <5>1. (q + k) * P <= n * P
            <6>1. CASE q + k = n
              BY <6>1, <3>3
            <6>2. CASE q + k < n
              <7>1. (q + k) * P + P <= n * P
                BY <1>1, <2>5, <3>2, <6>2, NextPage
              <7> QED
                BY <1>1, <1>5, <2>5, <3>3, <7>1
            <6> QED
              BY <2>5, <3>2, <4>1, <6>1, <6>2
          <5> QED
            BY <1>5, <2>5, <2>6, <3>1, <3>2, <3>3, <5>1
        <4> QED
          BY <2>5, <3>2, <4>1
      <3>6. addr <= n * P
        <4>1. CASE q = n
          BY <1>5, <4>1
        <4>2. CASE q < n
          <5>1. q * P + P <= n * P
            BY <1>1, <1>3, <3>2, <4>2, NextPage
          <5> QED
            BY <1>1, <1>5, <3>3, <5>1
        <4> QED
          BY <1>3, <3>2, <3>4, <4>1, <4>2
      <3>7. (n + 1) * P <= end
        <4>1. n * P + P <= (q + k) * P
          BY <1>1, <2>5, <3>2, <3>5, NextPage
        <4> QED
          BY <1>1, <1>2, <1>5, <2>2, <2>5, <3>3, <4>1
      <3>8. n \in 0..end
        <4>1. n <= n * P
          <5>1. n * (P - 1) >= 0 /\ n * P = n * (P - 1) + n
            BY <1>1, <3>2
          <5> QED
            BY <1>1, <3>2, <3>3, <5>1
        <4> QED
          BY <1>1, <1>2, <3>2, <3>3, <3>7, <4>1
      <3>9. y \in (n * P)..((n + 1) * P - 1)
        BY <1>1, <3>1, <3>2, <3>3
      <3> QED
        BY <1>2, <3>6, <3>7, <3>8, <3>9, InWholePages
    <2>7. ASSUME NEW y, NEW n \in 0..end, addr <= n * P, (n + 1) * P <= end,
                 y \in (n * P)..((n + 1) * P - 1)
          PROVE  y \in (q * P)..(q * P + k * P - 1)
      <3>1. n \in Nat /\ n * P \in Nat /\ (n + 1) * P = n * P + P /\ y \in Nat
        <4>1. n \in Nat
          BY <1>2
        <4>2. n * P \in Nat /\ (n + 1) * P = n * P + P
          BY <1>1, <4>1
        <4> QED
          BY <1>1, <2>7, <4>1, <4>2
      <3>2. q * P <= n * P
        <4>1. q <= n
          BY <1>7, <2>7, <3>1
        <4>2. CASE q = n
          BY <3>1, <4>2
        <4>3. CASE q < n
          <5>1. q * P + P <= n * P
            BY <1>1, <1>3, <3>1, <4>3, NextPage
          <5> QED
            BY <1>1, <1>5, <3>1, <5>1
        <4> QED
          BY <1>3, <3>1, <4>1, <4>2, <4>3
      <3>3. n < q + k
        <4>1. CASE q + k <= n
          <5>1. q + k < n + 1 /\ q + k \in Int /\ n + 1 \in Int
            BY <2>5, <3>1, <4>1
          <5>2. (q + k) * P + P <= (n + 1) * P
            BY <1>1, <5>1, NextPage
          <5> QED
            BY <1>1, <1>2, <1>5, <2>2, <2>5, <2>7, <3>1, <5>2
        <4> QED
          BY <2>5, <3>1, <4>1
      <3>4. n * P + P <= (q + k) * P
        BY <1>1, <2>5, <3>1, <3>3, NextPage
      <3> QED
        BY <1>1, <1>5, <2>5, <2>7, <3>1, <3>2, <3>4
    <2>8. \A y : y \in Advise(addr, length) <=> y \in WholePages(addr, end)
      BY <1>2, <2>4, <2>6, <2>7, InWholePages
    <2> QED
      BY <2>8
  <1> QED
    BY <1>8, <1>9

PagesInv ==
    advised # <<>> =>
        \E addr \in Nat, length \in Nat : advised = <<addr, length, Advise(addr, length)>>

LEMMA PagesStep == PagesInv /\ [Next]_vars => PagesInv'
  <1> SUFFICES ASSUME PagesInv, [Next]_vars PROVE PagesInv'
    OBVIOUS
  <1>1. ASSUME UNCHANGED advised PROVE PagesInv'
    BY <1>1 DEF PagesInv, Advise, AlignedUp, Delta, LenAligned
  <1>2. ASSUME NEW l \in LogLevel, Log(l) PROVE PagesInv'
    BY <1>1, <1>2 DEF Log, memory
  <1>3. ASSUME NEW v \in VLevels, VLog(v) \/ OpenLatency(v) PROVE PagesInv'
    BY <1>1, <1>3 DEF VLog, OpenLatency, memory
  <1>4. ASSUME Unwind \/ Abort \/ CloseLatency \/ ChangeEnvironment PROVE PagesInv'
    BY <1>1, <1>4 DEF Unwind, Abort, CloseLatency, ChangeEnvironment, memory
  <1>5. ASSUME StartFreq \/ ReadFreq \/ EndFreq \/ SchedSetAffinity PROVE PagesInv'
    BY <1>1, <1>5 DEF StartFreq, ReadFreq, EndFreq, SchedSetAffinity, memory
  <1>6. ASSUME MapFile PROVE PagesInv'
    BY <1>1, <1>6 DEF MapFile
  <1>7. ASSUME AdviseFree PROVE PagesInv'
    <2>1. PICK b \in Buffers :
            advised' = <<b[1], b[2], Advise(b[1], b[2])>> \/ UNCHANGED advised
      BY <1>7 DEF AdviseFree
    <2>2. b[1] \in Nat /\ b[2] \in Nat
      BY PortAssumption
    <2>3. CASE advised' = <<b[1], b[2], Advise(b[1], b[2])>>
      BY <2>2, <2>3 DEF PagesInv, Advise, AlignedUp, Delta, LenAligned
    <2> QED
      BY <1>1, <2>1, <2>3
  <1>8. ASSUME UNCHANGED vars PROVE PagesInv'
    BY <1>1, <1>8 DEF vars, memory
  <1> QED
    BY <1>2, <1>3, <1>4, <1>5, <1>6, <1>7, <1>8 DEF Next

\* AdviseFree tells madvise every page that lies in the buffer and no other byte,
\* for any size of the pages, address and length (linux_base/env.cc:125-143).
THEOREM PagesTheorem == Spec => []FreesWholePages
  <1>1. Init => PagesInv
    BY DEF Init, PagesInv
  <1>2. PagesInv => FreesWholePages
    <2>1. ASSUME PagesInv, advised # <<>> PROVE FreesWholePages
      <3>1. PICK addr \in Nat, length \in Nat : advised = <<addr, length, Advise(addr, length)>>
        BY <2>1 DEF PagesInv
      <3>2. advised[1] = addr /\ advised[2] = length /\ advised[3] = WholePages(addr, addr + length)
        BY <3>1, AdviseRight
      <3> QED
        BY <3>2 DEF FreesWholePages, WholePages
    <2> QED
      BY <2>1 DEF FreesWholePages
  <1> QED
    BY <1>1, <1>2, PagesStep, PTL DEF Spec

=============================================================================
