------------------------------ MODULE Delivery ------------------------------
(***************************************************************************)
(* How what a run needs comes from the server over the host to the device: *)
(* downloads and archives, each checked by its checksum; the pushes of     *)
(* models, which skip what is there already, before the device is locked;  *)
(* the pushes of libraries, binary inputs and images, and the choice of    *)
(* cores, in every window under the lock.                                  *)
(*                                                                         *)
(* Several pipelines, each with a checkout and an output_dir of its own,   *)
(* share the device.  Each may be lost at any step and started again; what *)
(* is on the host and on the device then is what it finds.  BenchRun has   *)
(* the windows and the lock in detail, Pipeline the executors, of which a  *)
(* pipeline here has one.                                                  *)
(***************************************************************************)
EXTENDS Preparation

CONSTANTS
    Pipeline,
    Image,       \* the names of images
    Remote,      \* the model files with a URL
    Version,     \* the contents a model, proto or image may have
    Cases,       \* the devices there may be, with what each pipeline is to do
    Freq,        \* the maximal frequency of each core
    Readable,    \* how many of the cores may be read, from the first on
    NumThreads,  \* --num_threads
    MaxWindows,  \* bound: windows per run
    MaxRestarts  \* bound: how often pipelines are started again

Generated == ToSet(Protos)
HostFile  == Model \cup Archive
Library   == {"labels"} \cup UNION {Environment(x, a) : x \in ExecutorType, a \in AndroidAbi \cup LinuxAbi}

\* Nothing is called what something else is called.
ASSUME DeliveryAssumption ==
    /\ Model \cap Archive = {}
    /\ Model \cap (Image \cup Library) = {} /\ Image \cap Library = {}
    /\ Remote \subseteq Model \ Generated
    /\ {"absent", "part", "wrong"} \cap (Version \cup AndroidAbi \cup LinuxAbi) = {}
    /\ Freq \in Seq(Nat)
    /\ Readable \subseteq 0..Len(Freq)
    /\ NumThreads \in Nat
    /\ MaxWindows \in Nat \ {0}
    /\ MaxRestarts \in Nat
    /\ \A x \in Cases : x = <<x[1], x[2]>>
    /\ \A x \in Cases : \A p \in Pipeline :
        LET j == x[2][p]
        IN  /\ j.executor \in ExecutorType /\ j.executor \in j.asked.executors
            /\ j.push = PushList(j.asked)
            /\ j.local \in {"right", "wrong"}
            /\ j.abi \in AndroidAbi \cup LinuxAbi
            /\ j.images \subseteq Image
            /\ j.version \in [Model \cup Image -> Version]

VARIABLES
    target,   \* the device
    job,      \* per pipeline, its command line and what its checkout says; push is
              \* the list prepare_all_models makes of it
    pc,       \* per pipeline, where it is
    at,       \* per pipeline, the file it is at
    window,   \* per pipeline, the window it is in
    restarts, \* how often one was started again
    host,     \* per pipeline, the files in its output_dir
    tree,     \* per pipeline, the archives it has unpacked
    device,   \* the files on the device
    cores,    \* per pipeline, how many cores get_cpu_mask could read
    threads,  \* per pipeline, num_threads
    touched   \* per pipeline, the models others pushed since it looked

args     == <<target, job>>
hosts    == <<host, tree>>
starting == <<cores, threads>>
vars     == <<args, pc, at, window, restarts, hosts, device, starting, touched>>

Preparing == {"fetch", "download", "verify", "unpack"}
InLock    == {"setup", "run"}
Ended     == {"done", "dead"}
ToPush(p) == job[p].push
Tasks(p)  == ToPush(p) \o Archives(job[p].asked, job[p].input)
Task(p)   == Tasks(p)[at[p]]
Pushed(p) == ToPush(p)[at[p]]

\* What p's checkout says should be on the device.
Wanted(p, f) ==
    CASE f = "dsp"                  -> "dsp"
      [] f \in Library \ {"dsp"}    -> job[p].abi
      [] OTHER                      -> job[p].version[f]

\* push_precision_files and prepare_device_env.
Staged(p) ==
    Environment(job[p].executor, job[p].abi)
    \cup (IF job[p].precision THEN {"labels"} \cup job[p].images ELSE {})

\* The archive a file comes from, if any.
ArchiveOf(p, f) ==
    CASE f \in {"mace", "hexagon_controller"}           -> {"mace"}
      [] f = "tensorflowlite"                           -> {"tensorflow"}
      [] f \in {"MNN", "MNN_Express"}                   -> {"MNN"}
      [] f \in Image /\ job[p].input = "url"            -> {"imagenet_less"}
      [] OTHER                                          -> {}

\* What p's host has to offer.
Offered(p, f) ==
    IF \/ f \in Model /\ host[p][f] # "right"
       \/ \E a \in ArchiveOf(p, f) : tree[p][a] # "whole"
    THEN "wrong" ELSE Wanted(p, f)

\* main's choice: an ABI and an executor the device has, and a device type.
MayRun(d, j) ==
    /\ j.abi \in d.abis
    /\ j.executor \in AvailableExecutors(d, j.asked.executors, j.abi)
    /\ AvailableDeviceTypes(d, j.asked.types, j.abi, j.executor) # {}

Init ==
    /\ \E x \in Cases :
        /\ \A p \in Pipeline : MayRun(x[1], x[2][p])
        /\ target = x[1]
        /\ job = x[2]
    /\ pc = [p \in Pipeline |-> "fetch"]
    /\ at = [p \in Pipeline |-> 1]
    /\ window = [p \in Pipeline |-> 1]
    /\ restarts = 0
    /\ host = [p \in Pipeline |-> [f \in HostFile |->
            IF f \in Remote \cup Generated \cup Archive THEN "absent" ELSE job[p].local]]
    /\ tree = [p \in Pipeline |-> [a \in Archive |-> "absent"]]
    /\ device = [f \in Model \cup Image \cup Library |-> "absent"]
    /\ cores = [p \in Pipeline |-> 0]
    /\ threads = [p \in Pipeline |-> NumThreads]
    /\ touched = [p \in Pipeline |-> {}]

Goto(p, l) == pc' = [pc EXCEPT ![p] = l]

\* The program ends: what it had in memory is gone.
Stop(p, l) ==
    /\ Goto(p, l)
    /\ at' = [at EXCEPT ![p] = 1]
    /\ window' = [window EXCEPT ![p] = 1]
    /\ cores' = [cores EXCEPT ![p] = 0]
    /\ threads' = [threads EXCEPT ![p] = NumThreads]
    /\ touched' = [touched EXCEPT ![p] = {}]

-----------------------------------------------------------------------------
(***************************************************************************)
(* prepare_all_models, prepare_datasets, get_mace, get_tflite, get_mnn.    *)
(***************************************************************************)

Fetching(p) == at[p] <= Len(Tasks(p))

\* Not there, or not what its checksum says: the download begins with an
\* empty file.  The protos are written anew in every run.
Missing_Always(p) == TRUE

Missing(p) == host[p][Task(p)] # "right"

StartDownload(p) ==
    /\ pc[p] = "fetch" /\ Fetching(p)
    /\ \/ Task(p) \in Generated
       \/ Task(p) \in Remote \cup Archive /\ Missing(p)
    /\ host' = [host EXCEPT ![p][Task(p)] = "part"]
    /\ Goto(p, "download")
    /\ UNCHANGED <<args, at, window, restarts, tree, device, starting, touched>>

\* The server may have another file under that name.
EndDownload(p) ==
    /\ pc[p] = "download"
    /\ \E c \in {"right"} \cup (IF Task(p) \in Generated THEN {} ELSE {"wrong"}) :
        host' = [host EXCEPT ![p][Task(p)] = c]
    /\ Goto(p, "verify")
    /\ UNCHANGED <<args, at, window, restarts, tree, device, starting, touched>>

\* Where the checksum is looked at, with no download or after it.
AtCheck(p) ==
    \/ pc[p] = "verify"
    \/ /\ pc[p] = "fetch" /\ Fetching(p)
       /\ Task(p) \notin Generated
       /\ Task(p) \in Remote \cup Archive => ~Missing(p)

Verified(p) == host[p][Task(p)] = "right"

\* An archive is unpacked in every run.
ToUnpack_Once(p) == Task(p) \in Archive /\ tree[p][Task(p)] = "absent"

ToUnpack(p) == Task(p) \in Archive

Accept(p) ==
    /\ AtCheck(p)
    /\ Verified(p)
    /\ IF ToUnpack(p)
       THEN /\ tree' = [tree EXCEPT ![p][Task(p)] = "part"]
            /\ Goto(p, "unpack")
            /\ UNCHANGED at
       ELSE /\ at' = [at EXCEPT ![p] = @ + 1]
            /\ Goto(p, "fetch")
            /\ UNCHANGED tree
    /\ UNCHANGED <<args, window, restarts, host, device, starting, touched>>

\* exit(1)
Refuse(p) ==
    /\ AtCheck(p)
    /\ ~Verified(p)
    /\ Stop(p, "dead")
    /\ UNCHANGED <<args, restarts, hosts, device>>

EndUnpack(p) ==
    /\ pc[p] = "unpack"
    /\ tree' = [tree EXCEPT ![p][Task(p)] = "whole"]
    /\ at' = [at EXCEPT ![p] = @ + 1]
    /\ Goto(p, "fetch")
    /\ UNCHANGED <<args, window, restarts, host, device, starting, touched>>

AllPrepared_NoReset(p) ==
    /\ pc[p] = "fetch" /\ ~Fetching(p)
    /\ Goto(p, "push")
    /\ UNCHANGED <<args, at, window, restarts, hosts, device, starting, touched>>

AllPrepared(p) ==
    /\ pc[p] = "fetch" /\ ~Fetching(p)
    /\ at' = [at EXCEPT ![p] = 1]
    /\ Goto(p, "push")
    /\ UNCHANGED <<args, window, restarts, hosts, device, starting, touched>>

-----------------------------------------------------------------------------
(***************************************************************************)
(* push_all_models: before the lock is taken.                              *)
(***************************************************************************)

Pushing(p) == at[p] <= Len(ToPush(p))

\* A push of a file that is under way.
Copying(p, f) == pc[p] = "copy" /\ Pushed(p) = f

\* p has looked at a file, or begun to push it; but another may be writing it.
Seen(p, f) ==
    IF \E q \in Pipeline : Copying(q, f) THEN touched[p] \cup {f} ELSE touched[p] \ {f}

\* Others now have a file on the device that they did not look at.
Touch(p, f) == [q \in Pipeline |-> IF q = p THEN Seen(p, f) ELSE touched[q] \cup {f}]

\* adb_push_file and ssh_push_file ask the device for the checksum first.
SameOnDevice_IfThere(p) == device[Pushed(p)] # "absent"

SameOnDevice_Never(p) == FALSE

SameOnDevice(p) == device[Pushed(p)] = Offered(p, Pushed(p))

SkipPush_Again(p) ==
    /\ pc[p] = "push" /\ Pushing(p)
    /\ SameOnDevice(p)
    /\ touched' = [touched EXCEPT ![p] = Seen(p, Pushed(p))]
    /\ UNCHANGED <<args, at, pc, window, restarts, hosts, device, starting>>

SkipPush(p) ==
    /\ pc[p] = "push" /\ Pushing(p)
    /\ SameOnDevice(p)
    /\ at' = [at EXCEPT ![p] = @ + 1]
    /\ touched' = [touched EXCEPT ![p] = Seen(p, Pushed(p))]
    /\ UNCHANGED <<args, pc, window, restarts, hosts, device, starting>>

\* The md5sum of the device tells another checksum, or that there is no file.
Compare(p) ==
    /\ pc[p] = "push" /\ Pushing(p)
    /\ ~SameOnDevice(p)
    /\ Goto(p, "differs")
    /\ UNCHANGED <<args, at, window, restarts, hosts, device, starting, touched>>

\* A command of its own: the file is replaced, whatever has come of it since.
StartPush(p) ==
    /\ pc[p] = "differs"
    /\ device' = [device EXCEPT ![Pushed(p)] = "part"]
    /\ touched' = Touch(p, Pushed(p))
    /\ Goto(p, "copy")
    /\ UNCHANGED <<args, at, window, restarts, hosts, starting>>

\* Two that push one file at a time: over adb the later one has a new file,
\* over ssh both write into the same, which is a mixture if they differ.
Copied(p, f) ==
    {Offered(p, f)}
    \cup (IF f \in touched[p]
          THEN {device[f]} \cup {"part" : q \in {q \in Pipeline : Wanted(q, f) # Wanted(p, f)}}
          ELSE {})

EndPush(p) ==
    /\ pc[p] = "copy"
    /\ \E c \in Copied(p, Pushed(p)) : device' = [device EXCEPT ![Pushed(p)] = c]
    /\ touched' = [q \in Pipeline |-> IF q = p THEN touched[p] ELSE touched[q] \cup {Pushed(p)}]
    /\ at' = [at EXCEPT ![p] = @ + 1]
    /\ Goto(p, "push")
    /\ UNCHANGED <<args, window, restarts, hosts, starting>>

\* bench_run is called.
AllPushed(p) ==
    /\ pc[p] = "push" /\ ~Pushing(p)
    /\ Goto(p, "lock")
    /\ UNCHANGED <<args, at, window, restarts, hosts, device, starting, touched>>

-----------------------------------------------------------------------------
(***************************************************************************)
(* The windows of bench_run.                                               *)
(***************************************************************************)

LockFree_NeverAsked == TRUE

LockFree == \A q \in Pipeline : pc[q] \notin InLock

\* Directories go over ssh into one of their own and are moved from there.
Moved(f) == target.bus = "ssh" /\ f \in Image \cup {"mace", "opencv"}

\* The setup begins; what has another checksum is being replaced.
Acquire(p) ==
    /\ pc[p] = "lock"
    /\ LockFree
    /\ device' = [f \in DOMAIN device |->
        IF f \in Staged(p) /\ device[f] # Offered(p, f) /\ ~Moved(f) THEN "part" ELSE device[f]]
    /\ Goto(p, "setup")
    /\ UNCHANGED <<args, at, window, restarts, hosts, starting, touched>>

\* The frequencies get_cpu_mask can read: it stops at the first core that is
\* off line.
Read(n) == SubSeq(Freq, 1, n)

\* Nothing to read is no number, and taskset takes no empty mask.
CannotStart(p, n) ==
    \/ n = 0
    \/ job[p].executor = "TFLITE" /\ BigCores(Read(n)) = 0

AtMost(m, n) == IF m < n THEN m ELSE n

\* num_threads = min(big_core_num, num_threads)
ThreadsFor(p, n) == AtMost(BigCores(Read(n)), threads[p])

EndSetup(p) ==
    /\ pc[p] = "setup"
    /\ device' = [f \in DOMAIN device |-> IF f \in Staged(p) THEN Offered(p, f) ELSE device[f]]
    /\ \E n \in Readable :
        \/ CannotStart(p, n) /\ Stop(p, "dead")
        \/ /\ ~CannotStart(p, n)
           /\ cores' = [cores EXCEPT ![p] = n]
           /\ threads' = [threads EXCEPT ![p] = ThreadsFor(p, n)]
           /\ Goto(p, "run")
           /\ UNCHANGED <<at, window, touched>>
    /\ UNCHANGED <<args, restarts, hosts>>

EndWindow(p) ==
    /\ pc[p] = "run"
    /\ \/ /\ window[p] < MaxWindows
          /\ window' = [window EXCEPT ![p] = @ + 1]
          /\ cores' = [cores EXCEPT ![p] = 0]
          /\ Goto(p, "lock")
          /\ UNCHANGED <<at, threads, touched>>
       \/ Stop(p, "done")
    /\ UNCHANGED <<args, restarts, hosts, device>>

\* Any command may raise, any transfer break off, and the program be killed.
Raise(p) ==
    /\ pc[p] \notin Ended
    /\ Stop(p, "dead")
    /\ UNCHANGED <<args, restarts, hosts, device>>

\* benchmark.py is run again.
Restart(p) ==
    /\ pc[p] \in Ended
    /\ restarts < MaxRestarts
    /\ restarts' = restarts + 1
    /\ Goto(p, "fetch")
    /\ UNCHANGED <<args, at, window, hosts, device, starting, touched>>

Prepare(p) ==
    \/ StartDownload(p) \/ EndDownload(p) \/ Accept(p) \/ Refuse(p) \/ EndUnpack(p)
    \/ AllPrepared(p)

Push(p) == SkipPush(p) \/ Compare(p) \/ StartPush(p) \/ EndPush(p) \/ AllPushed(p)

Work(p) == Prepare(p) \/ Push(p) \/ Acquire(p) \/ EndSetup(p) \/ EndWindow(p)

Next == \E p \in Pipeline : Work(p) \/ Raise(p) \/ Restart(p)

\* A pipeline goes on as long as nothing stops it; transfers and runs end.
Spec == Init /\ [][Next]_vars /\ \A p \in Pipeline : WF_vars(Work(p))

-----------------------------------------------------------------------------
(***************************************************************************)
(* Properties.                                                             *)
(***************************************************************************)

HostState == {"absent", "part", "wrong", "right"}
Content   == {"absent", "part", "wrong", "dsp"} \cup Version \cup AndroidAbi \cup LinuxAbi

IndexOK(p) ==
    /\ at[p] <= Len(IF pc[p] \in Preparing THEN Tasks(p) ELSE ToPush(p)) + 1
    /\ pc[p] \in {"download", "verify", "unpack"} => Fetching(p)
    /\ pc[p] \in {"differs", "copy"} => Pushing(p)
    /\ pc[p] = "unpack" => Task(p) \in Archive

ControlOK ==
    /\ pc \in [Pipeline -> Preparing \cup {"push", "differs", "copy", "lock"} \cup InLock \cup Ended]
    /\ at \in [Pipeline -> Nat \ {0}]
    /\ window \in [Pipeline -> 1..MaxWindows]
    /\ restarts \in 0..MaxRestarts
    /\ \A p \in Pipeline : IndexOK(p)

FilesOK ==
    /\ host \in [Pipeline -> [HostFile -> HostState]]
    /\ tree \in [Pipeline -> [Archive -> {"absent", "part", "whole"}]]
    /\ device \in [Model \cup Image \cup Library -> Content]

StartOK ==
    /\ cores \in [Pipeline -> 0..Len(Freq)]
    /\ threads \in [Pipeline -> 0..NumThreads]
    /\ touched \in [Pipeline -> SUBSET Model]

\* The types; and no pipeline runs off its list of files, in either of the two
\* loops over it (bench_engine.py:336-362, benchmark.py:303-313).
TypeOK == <<target, job>> \in Cases /\ ControlOK /\ FilesOK /\ StartOK

\* A file that was once downloaded with the right checksum is never fetched
\* again and never lost, however often the pipeline is interrupted and started
\* again (bench_engine.py:72-83, 277-283).
HostKeepsGood ==
    [][\A p \in Pipeline, f \in HostFile \ Generated :
        host[p][f] = "right" => host'[p][f] = "right"]_vars

\* What an interrupted download, a wrong server or an interrupted unpacking
\* left on some host never gets to the device: not as a model, not as a library
\* and not as an image (bench_engine.py:80-82, 282, 365-369).
NothingUnverified == \A f \in DOMAIN device : device[f] # "wrong"

\* After its pushes a pipeline has its own version of every model on the
\* device, unless another one pushed that file since it looked: the pushes of
\* models come before the lock (benchmark.py:255, sh_commands.py:33-55).  With
\* pipelines that agree on the file, such a file is at worst half pushed.
OwnUnlessTouched ==
    \A p \in Pipeline : pc[p] \in {"lock"} \cup InLock =>
        \A f \in ToSet(ToPush(p)) :
            \/ device[f] = Wanted(p, f)
            \/ /\ f \in touched[p]
               /\ (\A q \in Pipeline : Wanted(q, f) = Wanted(p, f)) => device[f] = "part"

\* A model is on the device as all who push it want it, and none of them is
\* about to push it: neither on the way, nor between the comparison and the push.
Delivered(f) ==
    \A p \in Pipeline : f \in ToSet(ToPush(p)) =>
        /\ device[f] = Wanted(p, f)
        /\ ~(pc[p] \in {"differs", "copy"} /\ Pushed(p) = f)

\* Once a model has been delivered to all of them it is never pushed again: from
\* then on what a run reads does not change under it, however many pipelines
\* come, are lost and start again.  The exception is a pipeline that compared
\* before the file was right: it pushes it once more under those that already
\* run it (sh_commands.py:40-54).
QuietOnceDelivered == [][\A f \in Model : Delivered(f) => Delivered(f)']_vars

\* While models run, everything the window's setup pushes is on the device, as
\* the pipeline wants it, though other pipelines with other ABIs and other
\* images used the same names, and may have been lost while they pushed
\* (bench_engine.py:434-461).
SetupIntact ==
    \A p \in Pipeline : pc[p] = "run" => \A f \in Staged(p) : device[f] = Wanted(p, f)

\* Whatever executor and ABI main chooses for a device, every library the
\* binary is linked with is on the device while it runs, for that ABI; but for
\* libcdsprpc.so, which must come with the device (bench_engine.py:151-269,
\* executors/BUILD, third_party/mace/BUILD:44).
LibrariesThere ==
    \A p \in Pipeline : pc[p] = "run" =>
        \A l \in Linked(job[p].executor, job[p].abi) \ {"cdsprpc"} : device[l] = job[p].abi

\* taskset and the threads get cores that are faster than the slowest one that
\* could be read, all of these and no others; and TFLite, which is bound to
\* them, gets at least one (bench_engine.py:392-408, 467-476).
BoundToBigCores ==
    \A p \in Pipeline : pc[p] = "run" =>
        LET fast == {c \in 1..cores[p] : \E e \in 1..cores[p] : Freq[c] > Freq[e]}
        IN  /\ CoresOf(CpuMask(Read(cores[p])), Len(Freq)) = fast
            /\ threads[p] <= Cardinality(fast)
            /\ job[p].executor = "TFLITE" => fast # {}

\* The benchmark list has each model that was asked for once for each of its
\* device types that was asked for, and nothing else; and what is pushed is
\* what these need, and nothing else (bench_engine.py:336-358).
ListedAsAsked ==
    \A p \in Pipeline : pc[p] = "push" =>
        LET asked == job[p].asked
            list  == BenchmarkList(asked)
            wants == {x \in (1..Len(Benchmarks)) \X asked.types :
                        /\ AskedFor(asked, Benchmarks[x[1]])
                        /\ x[2] \in ToSet(Benchmarks[x[1]].devices)}
        IN  /\ Len(list) = Cardinality(wants)
            /\ \A x \in wants : \E k \in 1..Len(list) :
                /\ list[k].type = x[2]
                /\ LET m == Benchmarks[x[1]]
                   IN  <<list[k].executor, list[k].name, list[k].quantize>> = <<m.executor, m.name, m.quantize>>
            /\ ToSet(ToPush(p)) = Generated \cup UNION {ToSet(Benchmarks[x[1]].files) : x \in wants}

\* Every run of every pipeline ends.
Ends == \A p \in Pipeline : pc[p] \notin Ended ~> pc[p] \in Ended

\* README.md:185 of --input_dir: "Input data directory for precision benchmark."
OnlyOwnImages ==
    \A p \in Pipeline : pc[p] = "run" /\ job[p].precision =>
        \A i \in Image \ job[p].images : device[i] = "absent"

\* README.md:49 and 184: "we use only available big cores", "The number of
\* threads.": as many threads as were asked for, or one for each available big
\* core if these are fewer.
ThreadsAsAsked ==
    \A p \in Pipeline : pc[p] = "run" =>
        threads[p] = AtMost(BigCores(Read(cores[p])), NumThreads)

=============================================================================
