------------------------------ MODULE Pipeline ------------------------------
(***************************************************************************)
(* One run of benchmark.py: main goes through the ABIs, and for each ABI   *)
(* through the devices, runs run_on_device for each, in a thread of its    *)
(* own or one after another, and at last hands the result files to         *)
(* process_result.                                                         *)
(*                                                                         *)
(* All of them build model_benchmark into the same bazel-bin (bazel itself *)
(* runs one build at a time), and push the binary from there at the start  *)
(* of every window of bench_run.  A binary that was built for another      *)
(* executor logs nothing.  A window is here one step for the push and one  *)
(* for the rest; BenchRun has it in detail, with the lock that keeps other *)
(* runs of benchmark.py out.                                               *)
(*                                                                         *)
(* The result file of a device is named after its product and the ABI, and *)
(* an earlier run may have left one, and a copy of what it pulled.         *)
(***************************************************************************)
EXTENDS Integers, Sequences, SequencesExt, FiniteSets

CONSTANTS
    Device,         \* the devices
    Product,        \* product models, with their SoCs
    ExecutorType,   \* MACE, TFLITE, ...
    TargetDevices,  \* target_devices, in order
    NumAbis,        \* the number of --target_abis
    Available,      \* the executors a device can run with an ABI, in order
    Usable,         \* the <<device, executor>> with a device type to run on
    Namings,        \* the products the devices may be
    AtOnce,         \* the values of --all_devices_at_once
    OldFiles,       \* the result files an earlier run left in output_dir
    OldCopies,      \* the devices it left a copy of
    MaxWindows,     \* bound: the windows per executor
    MayRaise,       \* commands, builds and pushes may raise
    MayLogNothing   \* all models of a window may fail

Abi == 1..NumAbis

ASSUME PipelineAssumption ==
    /\ TargetDevices \in Seq(Device)
    /\ \A j, k \in 1..Len(TargetDevices) : TargetDevices[j] = TargetDevices[k] => j = k
    /\ NumAbis \in Nat \ {0}
    /\ Available \in [Device \X Abi -> Seq(ExecutorType)]
    /\ Usable \subseteq Device \X ExecutorType
    /\ Namings \subseteq [Device -> Product]
    /\ AtOnce \subseteq BOOLEAN
    /\ OldFiles \subseteq Product \X Abi
    /\ OldCopies \subseteq Device
    /\ MaxWindows \in Nat \ {0}
    /\ {MayRaise, MayLogNothing} \subseteq BOOLEAN

VARIABLES
    atOnce,        \* --all_devices_at_once
    product,       \* per device, its product
    main,          \* where main is: devices, call, join, report, done, exit
    abi,           \* target_abi (index)
    next,          \* the next device (index)
    pc,            \* per device, where its run_on_device is
    ex,            \* per device, the executor it is at (index)
    window,        \* per device, the window it is in
    binary,        \* what is in bazel-bin: <<ABI, executor>>, or <<>>
    pushed,        \* per device, the binary on it
    tmp,           \* per device, output_dir/<address>_result.txt
    dest,          \* per product and ABI, the result file
    exists,        \* the result files there are
    result_files,  \* the list handed to process_result
    \* the variables below only observe
    logged,        \* per device, the lines its models logged and its pulls brought
    clean          \* no command raised, and every window brought a line

args    == <<atOnce, product>>
driver  == <<main, abi, next>>
worker  == <<pc, ex, window>>
files   == <<tmp, dest, exists, result_files>>
vars    == <<args, driver, worker, binary, pushed, files, logged, clean>>

ResultFile == Product \X Abi

\* A line: which device logged it, with which ABI and executor, in which window.
Line == [device : Device, abi : Abi, ex : Nat \ {0}, window : Nat \ {0}]

\* A line of an earlier run.
Old == [abi |-> 0, ex |-> 0]

TheExecutors(d) == Available[<<d, abi>>]
TheExecutor(d)  == TheExecutors(d)[ex[d]]
ResultPath(d)   == <<product[d], abi>>

Running(d) == pc[d] \in {"start", "executor", "push", "run"}

Init ==
    /\ atOnce \in AtOnce
    /\ product \in Namings
    /\ main = "devices" /\ abi = 1 /\ next = 1
    /\ pc = [d \in Device |-> "idle"]
    /\ ex = [d \in Device |-> 1]
    /\ window = [d \in Device |-> 1]
    /\ binary = <<>>
    /\ pushed = [d \in Device |-> <<>>]
    /\ tmp = [d \in Device |-> IF d \in OldCopies THEN <<Old>> ELSE <<>>]
    /\ dest = [r \in ResultFile |-> IF r \in OldFiles THEN <<Old>> ELSE <<>>]
    /\ exists = OldFiles
    /\ result_files = <<>>
    /\ logged = [d \in Device |-> <<>>]
    /\ clean = TRUE

-----------------------------------------------------------------------------
(***************************************************************************)
(* main.                                                                   *)
(***************************************************************************)

\* A device that has not the ABI, or none of the executors, is passed over.
Visit ==
    /\ main = "devices"
    /\ next <= Len(TargetDevices)
    /\ LET d == TargetDevices[next]
       IN  IF TheExecutors(d) = <<>>
           THEN next' = next + 1 /\ UNCHANGED <<main, worker>>
           ELSE /\ pc' = [pc EXCEPT ![d] = "start"]
                /\ ex' = [ex EXCEPT ![d] = 1]
                /\ IF atOnce
                   THEN next' = next + 1 /\ UNCHANGED main
                   ELSE main' = "call" /\ UNCHANGED next
                /\ UNCHANGED window
    /\ UNCHANGED <<args, abi, binary, pushed, files, logged, clean>>

\* Without threads, run_on_device returns.
Return ==
    /\ main = "call"
    /\ pc[TargetDevices[next]] = "ended"
    /\ main' = "devices"
    /\ next' = next + 1
    /\ UNCHANGED <<args, abi, worker, binary, pushed, files, logged, clean>>

AllVisited ==
    /\ main = "devices"
    /\ next > Len(TargetDevices)
    /\ main' = "join"
    /\ UNCHANGED <<args, abi, next, worker, binary, pushed, files, logged, clean>>

\* Every thread is joined, then comes the next ABI.
Joined_Not == TRUE

Joined == \A d \in Device : ~Running(d)

Join ==
    /\ main = "join"
    /\ Joined
    /\ IF abi < NumAbis
       THEN main' = "devices" /\ abi' = abi + 1 /\ next' = 1
       ELSE main' = "report" /\ UNCHANGED <<abi, next>>
    /\ UNCHANGED <<args, worker, binary, pushed, files, logged, clean>>

\* process_result, if there are result files; ResultReport has it in detail.
Report ==
    /\ main = "report"
    /\ main' = "done"
    /\ UNCHANGED <<args, abi, next, worker, binary, pushed, files, logged, clean>>

-----------------------------------------------------------------------------
(***************************************************************************)
(* run_on_device.                                                          *)
(***************************************************************************)

Goto(d, l) == pc' = [pc EXCEPT ![d] = l]

\* An exception, or sys.exit, ends a thread; in the main thread, all.
Ends_All(d) ==
    /\ Goto(d, "dead")
    /\ main' = "exit"
    /\ UNCHANGED <<abi, next, ex, window>>

Ends(d) ==
    /\ Goto(d, "dead")
    /\ main' = IF atOnce THEN main ELSE "exit"
    /\ UNCHANGED <<abi, next, ex, window>>

\* The result file is removed; the models are pushed.
Removed_Not(d) == UNCHANGED <<dest, exists>>

Removed_All(d) ==
    /\ dest' = [r \in ResultFile |-> <<>>]
    /\ exists' = {}

Removed(d) ==
    /\ dest' = [dest EXCEPT ![ResultPath(d)] = <<>>]
    /\ exists' = exists \ {ResultPath(d)}

Start(d) ==
    /\ pc[d] = "start"
    /\ Removed(d)
    /\ Goto(d, "executor")
    /\ UNCHANGED <<args, driver, ex, window, binary, pushed, tmp, result_files, logged, clean>>

\* The head of the loop over the executors.
SkipExecutor(d) ==
    /\ pc[d] = "executor"
    /\ ex[d] <= Len(TheExecutors(d))
    /\ <<d, TheExecutor(d)>> \notin Usable
    /\ ex' = [ex EXCEPT ![d] = @ + 1]
    /\ UNCHANGED <<args, driver, pc, window, binary, pushed, files, logged, clean>>

Build(d) ==
    /\ pc[d] = "executor"
    /\ ex[d] <= Len(TheExecutors(d))
    /\ <<d, TheExecutor(d)>> \in Usable
    /\ binary' = <<abi, TheExecutor(d)>>
    /\ window' = [window EXCEPT ![d] = 1]
    /\ Goto(d, "push")
    /\ UNCHANGED <<args, driver, ex, pushed, files, logged, clean>>

\* The end of the loop: the result file, if there is one, is reported.
Noted_Always(d) == Append(result_files, ResultPath(d))

Noted(d) == IF ResultPath(d) \in exists THEN Append(result_files, ResultPath(d)) ELSE result_files

Note(d) ==
    /\ pc[d] = "executor"
    /\ ex[d] > Len(TheExecutors(d))
    /\ result_files' = Noted(d)
    /\ Goto(d, "ended")
    /\ UNCHANGED <<args, driver, ex, window, binary, pushed, tmp, dest, exists, logged, clean>>

-----------------------------------------------------------------------------
(***************************************************************************)
(* A window of bench_run.                                                  *)
(***************************************************************************)

\* The binary on the device is replaced by the one in bazel-bin.
Push(d) ==
    /\ pc[d] = "push"
    /\ pushed' = [pushed EXCEPT ![d] = binary]
    /\ Goto(d, "run")
    /\ UNCHANGED <<args, driver, ex, window, binary, files, logged, clean>>

RightBinary(d) == pushed[d] = <<abi, TheExecutor(d)>>

\* The list is through, or it is not and another window follows.
Onward(d) ==
    \/ /\ window[d] < MaxWindows
       /\ window' = [window EXCEPT ![d] = @ + 1]
       /\ Goto(d, "push")
       /\ UNCHANGED ex
    \/ /\ ex' = [ex EXCEPT ![d] = @ + 1]
       /\ Goto(d, "executor")
       /\ UNCHANGED window

\* open(dest_path, "a")
Extended_Over(d, copy) ==
    /\ dest' = [dest EXCEPT ![ResultPath(d)] = copy]
    /\ exists' = exists \cup {ResultPath(d)}

Extended(d, copy) ==
    /\ dest' = [dest EXCEPT ![ResultPath(d)] = @ \o copy]
    /\ exists' = exists \cup {ResultPath(d)}

\* The models log their lines, here one of each window, which are pulled and
\* appended.
Run(d) ==
    /\ pc[d] = "run"
    /\ RightBinary(d)
    /\ LET line == [device |-> d, abi |-> abi, ex |-> ex[d], window |-> window[d]]
       IN  /\ logged' = [logged EXCEPT ![d] = Append(@, line)]
           /\ tmp' = [tmp EXCEPT ![d] = <<line>>]
           /\ Extended(d, <<line>>)
    /\ Onward(d)
    /\ UNCHANGED <<args, driver, binary, pushed, result_files, clean>>

\* Nothing came of it: the models failed, or the binary is of another executor,
\* and adb said nothing; or what was logged could not be pulled.  What is
\* appended is the copy of an earlier window, which may be of another ABI.
RunForNothing(d) ==
    /\ pc[d] = "run"
    /\ MayLogNothing \/ ~RightBinary(d)
    /\ tmp[d] # <<>>
    /\ Extended(d, tmp[d])
    /\ Onward(d)
    /\ clean' = FALSE
    /\ UNCHANGED <<args, driver, binary, pushed, tmp, result_files, logged>>

\* There is no such copy to open, or adb told how the binary ended.
RunToTheEnd(d) ==
    /\ pc[d] = "run"
    /\ \/ ~RightBinary(d)
       \/ MayLogNothing /\ tmp[d] = <<>>
    /\ Ends(d)
    /\ clean' = FALSE
    /\ UNCHANGED <<args, binary, pushed, files, logged>>

\* Any command, build or push may raise.
Raise(d) ==
    /\ MayRaise
    /\ Running(d)
    /\ Ends(d)
    /\ clean' = FALSE
    /\ UNCHANGED <<args, binary, pushed, files, logged>>

Main == Visit \/ Return \/ AllVisited \/ Join \/ Report

Work(d) ==
    \/ Start(d) \/ SkipExecutor(d) \/ Build(d) \/ Note(d)
    \/ Push(d) \/ Run(d) \/ RunForNothing(d) \/ RunToTheEnd(d)

Next == Main \/ \E d \in Device : Work(d) \/ Raise(d)

\* The main program and its threads run on their own; builds and windows end.
Spec == Init /\ [][Next]_vars /\ WF_vars(Main) /\ \A d \in Device : WF_vars(Work(d))

-----------------------------------------------------------------------------
(***************************************************************************)
(* Properties.                                                             *)
(***************************************************************************)

Binary == {<<>>} \cup (Abi \X ExecutorType)

\* The types, with the bounds of the loops over ABIs, devices and executors.
TypeOK ==
    /\ atOnce \in BOOLEAN
    /\ product \in [Device -> Product]
    /\ main \in {"devices", "call", "join", "report", "done", "exit"}
    /\ abi \in Abi
    /\ next \in 1..(Len(TargetDevices) + 1)
    /\ main = "call" => next <= Len(TargetDevices)
    /\ pc \in [Device -> {"idle", "start", "executor", "push", "run", "ended", "dead"}]
    /\ ex \in [Device -> Nat \ {0}]
    /\ \A d \in Device : Running(d) => ex[d] <= Len(TheExecutors(d)) + 1
    /\ \A d \in Device : pc[d] \in {"push", "run"} => ex[d] <= Len(TheExecutors(d))
    /\ window \in [Device -> 1..MaxWindows]
    /\ binary \in Binary
    /\ pushed \in [Device -> Binary]
    /\ tmp \in [Device -> Seq(Line \cup {Old})]
    /\ dest \in [ResultFile -> Seq(Line \cup {Old})]
    /\ exists \subseteq ResultFile
    /\ result_files \in Seq(ResultFile)
    /\ logged \in [Device -> Seq(Line)]
    /\ clean \in BOOLEAN

\* What runs on a device was built for the ABI that main is at: no thread
\* lives on into the next ABI, in either mode.  One device after another, it
\* was built for the device's executor too, which with threads is not so
\* (benchmark.py:264-271, bench_engine.py:461-464).
BuiltForThis ==
    \A d \in Device : pc[d] = "run" =>
        /\ pushed[d][1] = abi
        /\ ~atOnce => RightBinary(d)

\* As long as no window was for nothing, what is in a listed file was logged in
\* this run, by a device of that product, with that ABI; also where two phones of
\* one model share a file, which each removes and the other goes on appending to
\* (benchmark.py:249-252).
LabelledRight ==
    clean => \A j \in 1..Len(result_files) :
        LET r == result_files[j]
        IN  \A k \in 1..Len(dest[r]) :
                /\ dest[r][k] # Old
                /\ r = <<product[dest[r][k].device], dest[r][k].abi>>

\* The lines process_result gets to see.
Reported == FlattenSeq([k \in 1..Len(result_files) |-> dest[result_files[k]]])

Times(l, s) == Cardinality({k \in 1..Len(s) : s[k] = l})
AllApart == \A c, d \in Device : product[c] = product[d] => c = d

\* If every window logged a line and no two devices are of one product, then
\* at the end every line that was logged is reported, and once.
ReportedOnce ==
    main = "done" /\ clean /\ AllApart =>
        \A d \in Device : \A k \in 1..Len(logged[d]) : Times(logged[d][k], Reported) = 1

\* A device of a product of its own that came to the end of its executors has
\* every line it logged with this ABI in a file that is listed, whatever the
\* others did and whichever of them were lost.  Whether main gets to report it
\* is another question: one device after another, a loss is the end of main
\* (benchmark.py:264-273, bench_engine.py:519-520).
OthersSurvive ==
    AllApart => \A d \in Device :
        pc[d] = "ended" =>
            \A k \in 1..Len(logged[d]) : logged[d][k].abi = abi =>
                /\ \E j \in 1..Len(result_files) : result_files[j] = ResultPath(d)
                /\ \E j \in 1..Len(dest[ResultPath(d)]) : dest[ResultPath(d)][j] = logged[d][k]

\* If no two devices are of one product, process_result finds every file it is
\* to read: none is listed that no window wrote, and none is removed after
\* (benchmark.py:252, 272-273).
ListedExist == AllApart => \A k \in 1..Len(result_files) : result_files[k] \in exists

\* The program ends, whatever is lost on the way, and with threads not before
\* what there is has been reported (benchmark.py:354-358).
Terminates == <>(main = "done" \/ (main = "exit" /\ ~atOnce))

\* The help of --all_devices_at_once, "whether to benchmark all devices
\* simultaneously.", and of --num_targets, "number of targets to benchmark,
\* default all connected targets.": with all commands successful, every
\* executor of every device ends up in the report.
AllBenchmarked ==
    main = "done" =>
        \A d \in {TargetDevices[k] : k \in 1..Len(TargetDevices)}, a \in Abi :
            \A e \in 1..Len(Available[<<d, a>>]) :
                <<d, Available[<<d, a>>][e]>> \in Usable =>
                    \E k \in 1..Len(Reported) :
                        Reported[k] # Old /\ Reported[k].device = d /\ Reported[k].abi = a /\ Reported[k].ex = e

=============================================================================
