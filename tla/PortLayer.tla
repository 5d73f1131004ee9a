----------------------------- MODULE PortLayer -----------------------------
(***************************************************************************)
(* What a thread of model_benchmark finds under it: the messages of        *)
(* logging.h, which a fatal one ends, with the levels that are read once   *)
(* from the environment; and the calls of Env and its file system: files   *)
(* mapped to memory, the frequencies of the cores, pages given back.       *)
(*                                                                         *)
(* The thread is any: it makes calls in any order and nests the scopes     *)
(* whose latency is logged.  What is around it is not the program's: other *)
(* code may set a variable, and cores come, go and are isolated at any     *)
(* time, so each reading of /proc and /sys may find what it likes.         *)
(***************************************************************************)
EXTENDS Integers, Sequences, FiniteSets

CONSTANTS
    Settings,  \* the values the two variables of the environment may have
    VLevels,   \* the levels VLOG is called with
    Envs,      \* what Env::Default() may be
    MaxFreq,   \* the maximal frequency of each core
    PageSize,
    Buffers,   \* the memory that may be given back: address and length
    Frames,    \* the return addresses there may be on the stack
    MaxSteps,  \* how many of them a backtrace takes
    MaxOpen,   \* the limit on open files
    MaxCalls   \* bound: calls of the thread

INVALID_MIN == 0
INFO        == 1
WARNING     == 2
ERROR       == 3
FATAL       == 4
LogLevel    == {INFO, WARNING, ERROR, FATAL}

Core == 1..Len(MaxFreq)

\* A variable of the environment is what it spells: min is the name of a
\* level, in full or its first letter, or "other"; vlog is its number, 0 if it
\* is not set or no number.
ASSUME PortAssumption ==
    /\ Settings \subseteq [min : {"info", "warning", "error", "fatal", "other"}, vlog : Int]
    /\ VLevels \subseteq Int
    /\ Envs \subseteq {"android", "linux"}
    /\ MaxFreq \in Seq(Nat)
    /\ PageSize \in Nat \ {0}
    /\ Buffers \subseteq Nat \X Nat
    /\ Frames \subseteq Nat \ {0}
    /\ MaxSteps \in Nat
    /\ MaxOpen \in Nat
    /\ MaxCalls \in Nat

VARIABLES
    env,       \* the Env the program was built with
    environ,   \* the environment of the process
    minLevel,  \* log_level of MinLogLevelFromEnv: <<>> until it is read
    minVlog,   \* vlog_level of MinVLogLevelFromEnv, likewise
    messages,  \* only observes: the messages made, and whether they were written
    scopes,    \* the LatencyLoggers, the innermost first
    trace,     \* the backtrace of a fatal message
    pc,        \* "idle", "freq" in GetCPUMaxFreq, "fatal" in DealWithFatal, "aborted"
    freqs,     \* the caller's vector
    reading,   \* GetCPUMaxFreq: cpu_count, cpu_id, and whether the vector was empty
    answer,    \* what it last returned, and the cores it found isolated
    affinity,  \* the cores the thread may run on
    region,    \* the file the thread has mapped, if any
    mappings,  \* the mappings of the process
    open,      \* its open files
    advised,   \* the last buffer of AdviseFree, and the pages it gave back
    calls

logging == <<environ, minLevel, minVlog, messages, scopes, trace>>
cores   == <<freqs, reading, answer, affinity>>
memory  == <<region, mappings, open, advised>>
vars    == <<env, logging, pc, cores, memory, calls>>

Android == env = "android"

Init ==
    /\ env \in Envs
    /\ environ \in Settings
    /\ minLevel = <<>> /\ minVlog = <<>>
    /\ messages = {} /\ scopes = <<>> /\ trace = <<>>
    /\ pc = "idle"
    /\ freqs = <<>>
    /\ reading = [count |-> 0, next |-> 1, fresh |-> TRUE]
    /\ answer = [status |-> "none", count |-> 0, fresh |-> TRUE, list |-> <<>>, isolated |-> {}]
    /\ affinity = Core
    /\ region = "none" /\ mappings = 0 /\ open = 0
    /\ advised = <<>>
    /\ calls = 0

-----------------------------------------------------------------------------
(***************************************************************************)
(* Levels and messages.                                                    *)
(***************************************************************************)

LogLevelFromStr_Off(s) ==
    CASE s = "info" -> INFO [] s = "warning" -> WARNING [] s = "error" -> ERROR [] OTHER -> FATAL + 1

\* What is not the name of a level is below all of them: everything is written.
LogLevelFromStr(s) ==
    CASE s = "info"    -> INFO
      [] s = "warning" -> WARNING
      [] s = "error"   -> ERROR
      [] s = "fatal"   -> FATAL
      [] OTHER         -> INVALID_MIN

MinLogLevelFromEnv == IF minLevel = <<>> THEN LogLevelFromStr(environ.min) ELSE minLevel[1]

MinVLogLevelFromEnv == IF minVlog = <<>> THEN environ.vlog ELSE minVlog[1]

Passes(l) == l >= MinLogLevelFromEnv

\* VLOG_IS_ON reads both levels.
VlogOn(v) == Passes(INFO) /\ v <= MinVLogLevelFromEnv

\* Where the LogWriter writes: AndroidLogWriter to the log of the system too.
Sinks == IF Android THEN {"logcat", "stdout"} ELSE {"stdout"}

\* A message of LOG(l); latency messages say whether they had a start.
Message(l)     == [level |-> l, to |-> IF Passes(l) THEN Sinks ELSE {}, timed |-> TRUE]
Latency(timed) == [Message(INFO) EXCEPT !.timed = timed]

\* The messages of LOG at the levels L, and of VLOG at those of V that are on.
\* The first message and the first VLOG read the levels for good.
Says(L, V) ==
    /\ messages' = messages \cup {Message(l) : l \in L} \cup {Message(INFO) : v \in {v \in V : VlogOn(v)}}
    /\ minLevel' = IF L \cup V = {} THEN minLevel ELSE <<MinLogLevelFromEnv>>
    /\ minVlog' = IF V = {} THEN minVlog ELSE <<MinVLogLevelFromEnv>>
    /\ UNCHANGED <<env, environ>>

Idle == pc = "idle" /\ calls < MaxCalls /\ calls' = calls + 1

\* LOG(l); a failed AIBENCH_CHECK, AIBENCH_CHECK_NOTNULL or AIBENCH_CHECK_SUCCESS
\* is LOG(FATAL).
Log(l) ==
    /\ Idle
    /\ Says({l}, {})
    /\ pc' = IF Passes(l) /\ l = FATAL THEN "fatal" ELSE pc
    /\ UNCHANGED <<scopes, trace, cores, memory>>

\* A frame without an address is passed over; the walk ends where the stack or
\* the buffer does.
Unwind ==
    /\ pc = "fatal" /\ Len(trace) < MaxSteps
    /\ \E a \in Frames : trace' = Append(trace, a)
    /\ UNCHANGED <<env, environ, minLevel, minVlog, messages, scopes, pc, cores, memory, calls>>

\* There may be no memory for the symbols.
PosixBackTrace == {trace, <<>>}

GetBackTraceUnsafe == IF Android THEN {trace} ELSE PosixBackTrace

\* The backtrace is written, if there is one, and the process aborts.
Abort ==
    /\ pc = "fatal"
    /\ trace' \in GetBackTraceUnsafe
    /\ pc' = "aborted"
    /\ UNCHANGED <<env, environ, minLevel, minVlog, messages, scopes, cores, memory, calls>>

\* VLOG(v), and the VLOG(0) of AIBENCH_RETURN_IF_ERROR.
VLog(v) ==
    /\ Idle
    /\ Says({}, {v})
    /\ UNCHANGED <<scopes, trace, pc, cores, memory>>

\* AIBENCH_LATENCY_LOGGER(v): start_micros_ is set only if the level is on.
OpenLatency(v) ==
    /\ Idle
    /\ Says({}, {v})
    /\ scopes' = <<[vlog |-> v, timed |-> VlogOn(v)]>> \o scopes
    /\ UNCHANGED <<trace, pc, cores, memory>>

\* The destructor asks again whether the level is on; the end of the process
\* runs no destructor.
CloseLatency ==
    /\ pc = "idle" /\ scopes # <<>>
    /\ messages' = messages \cup (IF VlogOn(Head(scopes).vlog) THEN {Latency(Head(scopes).timed)} ELSE {})
    /\ minLevel' = <<MinLogLevelFromEnv>>
    /\ minVlog' = <<MinVLogLevelFromEnv>>
    /\ scopes' = Tail(scopes)
    /\ UNCHANGED <<env, environ, trace, pc, cores, memory, calls>>

\* External: other code of the process calls setenv.
ChangeEnvironment ==
    /\ pc # "aborted"
    /\ environ' \in Settings \ {environ}
    /\ UNCHANGED <<env, minLevel, minVlog, messages, scopes, trace, pc, cores, memory, calls>>

-----------------------------------------------------------------------------
(***************************************************************************)
(* Cores: GetCPUMaxFreq and SchedSetAffinity.                              *)
(***************************************************************************)

Returns(status, isolated) ==
    /\ pc' = "idle"
    /\ answer' = [status |-> status, count |-> reading'.count, fresh |-> reading'.fresh,
                  list |-> freqs', isolated |-> isolated]

\* What fails says so, and AndroidEnv's AIBENCH_RETURN_IF_ERROR once more.
Fails == Says({ERROR}, IF Android THEN {0} ELSE {}) /\ Returns("RUNTIME_ERROR", {})

\* GetCPUCount counts the cores that are on line, some if it cannot read on;
\* it may not be able to open the list.  The vector is the caller's, who may
\* have used it before.
StartFreq ==
    /\ Idle
    /\ freqs' \in {<<>>, freqs}
    /\ \/ /\ \E n \in 0..Len(MaxFreq) :
                reading' = [count |-> n, next |-> 1, fresh |-> freqs' = <<>>]
          /\ \E L \in {{}, {ERROR}} : Says(L, {1})
          /\ pc' = "freq"
          /\ UNCHANGED answer
       \/ /\ reading' = [count |-> 0, next |-> 1, fresh |-> freqs' = <<>>]
          /\ Fails
    /\ UNCHANGED <<affinity, scopes, trace, memory>>

\* The first cores are read, as many as were counted.  What cannot be opened
\* ends the call and leaves the vector as it is; what has no line is left out.
ReadFreq ==
    /\ pc = "freq" /\ reading.next <= reading.count
    /\ \/ /\ freqs' = Append(freqs, MaxFreq[reading.next])
          /\ reading' = [reading EXCEPT !.next = @ + 1]
          /\ Says({}, {})
          /\ UNCHANGED <<pc, answer>>
       \/ /\ reading' = [reading EXCEPT !.next = @ + 1]
          /\ \E L \in {{}, {ERROR}} : Says(L, {})
          /\ UNCHANGED <<freqs, pc, answer>>
       \/ /\ UNCHANGED <<freqs, reading>>
          /\ Fails
    /\ UNCHANGED <<affinity, scopes, trace, memory, calls>>

\* On Android an isolated core counts as one without a frequency.
CpuIsolate(isolated, i) == i \in isolated

EndFreq ==
    /\ pc = "freq" /\ reading.next > reading.count
    /\ \E isolated \in SUBSET Core :
        /\ freqs' = [i \in 1..Len(freqs) |-> IF Android /\ CpuIsolate(isolated, i) THEN 0 ELSE freqs[i]]
        /\ UNCHANGED reading
        /\ Returns("SUCCESS", isolated)
    /\ Says({}, {1})
    /\ UNCHANGED <<affinity, scopes, trace, memory, calls>>

\* LinuxEnv overrides it to do nothing, and says it did.
LinuxAffinity == UNCHANGED affinity /\ Says({}, {})

\* The system may refuse the cores.
BaseAffinity ==
    \/ affinity' \in SUBSET Core /\ Says({}, {})
    \/ UNCHANGED affinity /\ Says({WARNING}, {})

SchedSetAffinity ==
    /\ Idle
    /\ IF Android THEN BaseAffinity ELSE LinuxAffinity
    /\ UNCHANGED <<scopes, trace, pc, freqs, reading, answer, memory>>

-----------------------------------------------------------------------------
(***************************************************************************)
(* Memory.                                                                 *)
(***************************************************************************)

\* The destructor of a region unmaps what it has mapped.
Unmapped == IF region = "mapped" THEN mappings - 1 ELSE mappings

\* NewReadOnlyMemoryRegionFromFile, into the pointer the thread keeps: what it
\* held is unmapped when it gets another region.  An empty file has a region of
\* no length, an error, and stays open.
MapFile ==
    /\ Idle
    /\ \/ UNCHANGED <<region, mappings, open>>                       \* not opened or not mapped
       \/ /\ open < MaxOpen
          /\ region' = "mapped"
          /\ mappings' = Unmapped + 1
          /\ UNCHANGED open
       \/ /\ open < MaxOpen
          /\ region' = "empty"
          /\ mappings' = Unmapped
          /\ open' = open + 1
    /\ UNCHANGED <<env, logging, pc, cores, advised>>

\* Where a buffer's first whole page begins, and how far it is.  A page has a
\* power of two bytes, for which the code's masks are divisions.
AlignedUp(addr) == ((addr + PageSize - 1) \div PageSize) * PageSize
Delta(addr)     == AlignedUp(addr) - addr

LenAligned_WithoutDelta(addr, length) == (length \div PageSize) * PageSize

LenAligned(addr, length) == ((length - Delta(addr)) \div PageSize) * PageSize

\* The addresses madvise is told, or none.
Advise(addr, length) ==
    IF length >= Delta(addr) + PageSize
    THEN AlignedUp(addr)..(AlignedUp(addr) + LenAligned(addr, length) - 1)
    ELSE {}

AdviseFree ==
    /\ Idle
    /\ \E b \in Buffers :
        \/ advised' = <<b[1], b[2], Advise(b[1], b[2])>> /\ Says({}, {})
        \/ Advise(b[1], b[2]) # {} /\ Says({ERROR}, {}) /\ UNCHANGED advised
    /\ UNCHANGED <<scopes, trace, pc, cores, region, mappings, open>>

Next ==
    \/ \E l \in LogLevel : Log(l)
    \/ Unwind \/ Abort
    \/ \E v \in VLevels : VLog(v) \/ OpenLatency(v)
    \/ CloseLatency
    \/ StartFreq \/ ReadFreq \/ EndFreq \/ SchedSetAffinity
    \/ MapFile \/ AdviseFree
    \/ ChangeEnvironment

Spec == Init /\ [][Next]_vars

-----------------------------------------------------------------------------
(***************************************************************************)
(* Properties.                                                             *)
(***************************************************************************)

\* Whether a message is written depends on its level alone, for the whole life
\* of the process, whatever happens to the environment meanwhile.
OneThreshold ==
    \A m, n \in messages : m.level <= n.level => m.to \subseteq n.to

\* A fatal message is written, at whatever level, and the process ends there.
FatalEnds == \A m \in messages : m.level = FATAL => m.to = Sinks /\ pc \in {"fatal", "aborted"}

\* No latency is written that was counted from a start that was never taken.
LatencyFromStart == \A m \in messages : m.timed

\* The log can be trusted: AIBENCH_CHECK "dies with a fatal error" whatever the
\* environment says, levels are read once, and no latency is of an unset start
\* (logger.cc:33-52, 86-112, logger.h:43-53, logging.h:46-55, 99-114).
LogRight == OneThreshold /\ FatalEnds /\ LatencyFromStart

\* A list of frequencies that was asked for in an empty vector, and has as many
\* entries as cores were counted, has each core's own at its place, on Android 0
\* for the isolated ones, though cores came and went while it was read
\* (linux_base/env.cc:74-104, android/env.cc:96-109).
FreqOfEachCore ==
    answer.status = "SUCCESS" /\ answer.fresh /\ Len(answer.list) = answer.count =>
        \A c \in 1..answer.count :
            answer.list[c] = IF Android /\ c \in answer.isolated THEN 0 ELSE MaxFreq[c]

\* AdviseFree gives back every page that lies in the buffer, and no byte of any
\* other, wherever the buffer begins and ends (linux_base/env.cc:125-143).
FreesWholePages ==
    advised # <<>> =>
        LET first == advised[1]
            end   == advised[1] + advised[2]
        IN  advised[3] = UNION {(n * PageSize)..((n + 1) * PageSize - 1) :
                n \in {n \in 0..end : first <= n * PageSize /\ (n + 1) * PageSize <= end}}

LoggingOK ==
    /\ env \in Envs /\ environ \in Settings
    /\ minLevel \in {<<>>} \cup {<<l>> : l \in 0..FATAL}
    /\ minVlog \in {<<>>} \cup {<<s.vlog>> : s \in Settings}
    /\ messages \subseteq [level : LogLevel, to : {{}, Sinks}, timed : BOOLEAN]
    /\ scopes \in Seq([vlog : VLevels, timed : BOOLEAN])
    /\ trace \in Seq(Nat) /\ Len(trace) <= MaxSteps

CoresOK ==
    /\ freqs \in Seq(Nat)
    /\ reading \in [count : 0..Len(MaxFreq), next : Nat \ {0}, fresh : BOOLEAN]
    /\ reading.next <= reading.count + 1
    /\ answer.list \in Seq(Nat)
    /\ affinity \subseteq Core

MemoryOK ==
    /\ region \in {"none", "mapped", "empty"}
    /\ mappings = IF region = "mapped" THEN 1 ELSE 0
    /\ open \in 0..MaxOpen

\* The types; and the one region the thread holds is the one mapping there is.
TypeOK ==
    /\ LoggingOK /\ CoresOK /\ MemoryOK
    /\ pc \in {"idle", "freq", "fatal", "aborted"}
    /\ calls \in 0..MaxCalls

=============================================================================
