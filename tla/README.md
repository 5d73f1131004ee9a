# Verification of mobile-ai-bench

MobileAIBench measures how fast, and how exactly, AI executors run models on
phones and boards. `benchmark.py` builds the C++ program `model_benchmark` once
per executor, pushes it to each device, runs it once per model, pulls the result
files and writes a table. This directory holds TLA+ specifications of that
program, the TLC configurations that check them, and theorems about them with
proofs for TLAPS.

Contents: 1 inventory, 2 modules and how they correspond to the code, 3 runs,
4 bounds, 5 fairness, 6 proofs, 7 disagreements found, 8 what is not modelled,
9 plan.

All paths below are under `src/`; `python/` stands for `aibench/python/`.

## 1. Inventory

| component | code | state it keeps | operations |
|---|---|---|---|
| pipeline driver | `python/benchmark.py` `main`, `run_on_device` | list of result files, threads, the shared `bazel-bin` | choose devices, prepare, one thread or call per device and ABI, one build and `bench_run` per executor, `process_result` |
| device lock and benchmark loop | `python/bench_engine.py` `device_lock`, `bench_run` | the file lock, item index, `start_time`, `elapse_minutes`; files on host and device | windows: lock, set up, run, pull, append, unlock, sleep |
| device environment | `bench_engine.py` `prepare_device_env`, `push_precision_files`, `executors/BUILD` | libraries, labels and images on the device | push what the executor needs |
| preparation | `bench_engine.py` `prepare_all_models`, `get_model`, `download_file`, `prepare_datasets`, `get_mace`..., `push_all_models` | downloaded files and archives, `model.pb`, `benchmark.pb` | download and compare checksums, unpack, make the benchmark list, push |
| devices and transports | `python/device/*`, `python/utils/sh_commands.py` | files on the device | run, push (if checksums differ), pull, over adb or ssh |
| capabilities | `qualcomm_adb_device.py`, `huawei_adb_device.py`, `get_cpu_mask`, `port/*/env.cc` | none | what a product can run, which cores are fast |
| `model_benchmark` | `aibench/benchmark/benchmark_main.cc`, `benchmark.cc` | executor, durations, `result.txt` | read the description, create, Init, Prepare, Run..., Finish, log a line |
| executors | `aibench/executors/*` | the engine of the library | Init, Prepare, Run, Finish |
| image processing | `aibench/benchmark/imagenet/*` | two counters | accept a file name, fill the input, judge the output |
| result table | `benchmark.py` `process_result`, `ResultProcessorUtil` | records, row and column | read lines, sort, fill rows, write |
| port layer, status, logging | `aibench/port`, `aibench/utils`, `include` | levels read once, open scopes, the caller's vector, mappings | log, abort on a failed check, measure a latency, read frequencies, map a file, give pages back |
| build files, vendored code, report page | `WORKSPACE`, `third_party`, `tools`, `report` | - | - |

How they interact. Several runs of `benchmark.py` (pipelines) on one host share a
device only through the file lock `/tmp/device-lock-<serial>` and the device's
own directory, in which models, libraries, images, the binary and `result.txt`
lie. Models and protos are pushed there before the lock is taken, everything else
under it. The
worker of a pipeline calls `model_benchmark` through adb or ssh and waits for it
without a timeout; `model_benchmark` answers with nothing but a line in
`result.txt`, for `main` returns 0 whatever `Main` returned. The result file of a
window is pulled to `<output_dir>/<address>_result.txt` and appended to the
pipeline's result file, from which `process_result` makes the table.

What is hard: who has the device, and for how long; results of one pipeline, of
an earlier window or of an earlier run that get into another's file; a worker
that ends, or is killed, at any point of a window while what it started goes on;
pulls that fail without anyone noticing; early returns after a failed call; an
executor that does not say that it failed; downloads, unpackings and pushes that
break off half-way, in a program that is simply run again; a device directory that
two pipelines write into at once; a trimmed mean in machine arithmetic;
a table filled by a loop that moves its own index. What each component must
guarantee is stated as properties in section 2. The list of hazards, each with
its line and its properties, is in `PROJECT.json`.

## 2. Modules

An operator named `X_Y` is a wrong form of the operator `X` after it. Nothing
uses it; it documents which mistake the property for it would catch.

### BenchRun: one device and its pipelines (`bench_engine.py:53-58, 411-522`)

A worker per pipeline walks over its executors (`ex`) and over the benchmark list
(`i`). `pc` is where it is: `build` and `lock` are before the `with` statement,
`setup`, `run`, `exec`, `pull`, `append` inside it, `sleep` after it; `done` and
`dead` are the two ends. The lock is `holder`. `held`, `elapse`, `spent` and
`waited` are `time.time() - start_time`, `elapse_minutes`, the time of the
current command, and the time a waiter has polled the lock. `result`, `tmp` and
`dest` are `result.txt`, its copy on the host and the pipeline's result file, each
a sequence of lines that say which run they came from; `copies` says who has such
a copy at all, for one may be there and be empty; `env` says whose libraries and
binary are on the device. `Transfer` says what a broken transfer makes of a file:
some of its lines, perhaps with the beginning of one more (a line that is not
`whole`), or nothing, or all of it if only the end of the transfer failed.

| action | code |
|---|---|
| `Build`, `NextWindow` | `bazel_build`, the head of `while i < len(benchmark_list)`, the next executor of `run_on_device` |
| `Acquire`, `Timeout` | `with device_lock(...)`; `filelock.Timeout` ends the worker |
| `Setup` | lines 436-477: clear `result.txt`, push, `elapse_minutes = 0` |
| `Skip`, `StartModel`, `FinishModel`, `EndWindow` | the loop 478-514 |
| `Pull`, `PullFails` | line 518, `adb_pull`, `SshDevice.pull`: a failure is printed and forgotten. It leaves no copy, or a piece of `result.txt`, or, over adb only, the copy that was there: ssh removes that first |
| `Publish`, `PublishRaises` | lines 519-520: whatever the copy holds is appended; without one `open` raises |
| `Wake` | `time.sleep(run_interval)` |
| `Raise` | any command raises, or the process is killed: `sys.exit` in lines 134, 513; the lock is released |
| `OrphanEnds` | a `model_benchmark` whose worker is gone ends later |
| `Tick` | time, while the holder's command runs |

Properties. `DeviceIsMine`: the lock belongs to exactly the worker inside the
`with`, and a model runs with its own pipeline's libraries and binary.
`OwnResultsOnly`: what a pipeline appends is its own or, if runs may outlive
their worker, the one run that was in progress when a worker was lost.
`LedgerExact`: unless a pull failed, the result file is exactly what was logged.
`LoggedOnce`: no run is logged twice however the windows cut the list.
`ReportedOnce`: over ssh a result file has no run twice and all in order, whichever
pulls fail and whatever they leave.
`HoldBounded` and `WaitsOneWindow`: how long a window lasts, and that of two
pipelines none waits for more than one window of the other. `Termination`: every
worker ends. `DeviceLease` is the abstract specification: take the device, measure
new results, and give the device back with all of them published, or a piece if the
transfer failed, or abandon; nothing of another lease or another pipeline is ever
published. `LeaseRefinement` says that BenchRun over ssh implements it. That a
piece may be published, and the lock released as if nothing had happened, is what
the code does: `SshDevice.pull` only prints the error of a broken `scp`
(`ssh_device.py:62-68`), and `open` finds a file.

### ModelBenchmark: one process on the device (`benchmark.cc`, `benchmark_main.cc`)

`pc` goes through `read`, `create`, `init`, `prepare`, then `warmup` and `timed`
(performance) or `images` (precision), `finish`, `report`, and ends in `exited` or
`crashed`. `args` is the command line and the executor the binary was built for.
`warm`, `iters`, `total` and `durations` are the two warm-up runs,
`benchmark_iters`, `total_duration` and the vector of durations, the latter as
the number of times each duration was measured, since the code sorts it before
it reads it. `mean` is the pair of `total_duration` after the `accumulate` and
`valid_iters`. `left`, `seen`, `correct` count directory entries, `total_count_`
and `correct_count_`.

`Executors` holds the seven executors: for each call, the statuses, engine states
and deaths its code allows. `ExecutorContract` is the abstract specification: what
`README.md:235-260` and `base_executor.h` promise to who writes an executor
(Init once, Prepare once, Run, Finish once) and what a reader of `result.txt`
relies on (one line, and only after success).

Properties. `ContractRefinement`: the process implements that contract.
`MeanIsRobust`: a reported time stands on both warm-ups and enough runs, and
as long as the sum fits an int it lies between the fastest and the second slowest
run. `PrecisionExact`: an accuracy is of the whole directory. `InferenceChecked`:
with executors that return the library's status nothing is counted that was not
inferred. `Exits`: the process ends, which the worker that holds the lock
relies on.

### ResultReport: the table (`benchmark.py:29-142`)

`f` and `n` are the two loops of `process_result`; `records` is the processor's
list. `i`, `model_index`, `executor`, `cells` and `rows` are the variables of
`format_with_executor`, one column of one row a step. The values in the cells are
the numbers of the records they come from, so that one can ask where a record
went. The code sorts records by all their columns joined to one string; a constant
`Joined` gives each key its place in that order, and two keys may share one.
Records that agree up to the value are sorted either way.

Properties. `RecordsAreLines`: the records are the wanted lines, each once, with
the product of their own file. `EveryResultOnce`: each record is in one cell, of
its own row and column. `EveryRowShows`: each row takes a record, so that the loop
ends. `OneRowPerKey`: without doubled results and look-alike keys, all results of
a key are in one row.

### Pipeline: one run of benchmark.py (`benchmark.py:234-358`, `bench_engine.py:101-135, 461-464, 516-520`)

`main` is where the program is (`devices` and `call` in the loop over the devices,
`join`, `report`), `abi` and `next` are its loop variables. `pc`, `ex` and `window`
say where `run_on_device` is for each device, the executor it is at and the window
of `bench_run`. `binary` is what lies in `bazel-bin`, `pushed` what was pushed from
there to each device. `tmp`, `dest` and `exists` are the copies, the result files
and which of these exist; `result_files` is the list. With
`--all_devices_at_once` (`atOnce`) each device is a process of its own; otherwise
main is in `call` while the one device works. A window is two steps here, the push
and the rest; `BenchRun` has its inside, and the lock, which here belongs to
nobody else.

| action | code |
|---|---|
| `Visit`, `Return`, `AllVisited`, `Join`, `Report` | `main`: the loops, the call or thread, `t.join()`, `process_result` |
| `Start`, `SkipExecutor`, `Build`, `Note` | `run_on_device`: `rm -rf result_path`, the loop over executors, `bazel_build`, the append to `result_files` |
| `Push`, `Run`, `RunForNothing`, `RunToTheEnd` | a window: the push of the binary; lines logged, pulled and appended; nothing logged and the copy of an earlier window appended; the end by `sys.exit` or by a missing copy |
| `Raise` | any command, build or push raises: in a thread the thread ends, otherwise the program |

Properties. `BuiltForThis`: what runs on a device was built for the current ABI and,
one device after another, for its executor. `LabelledRight`: unless a window was
for nothing, a listed file holds only lines of this run, its product and its ABI.
`ReportedOnce`: with different products, every line that was logged is reported
exactly once. `OthersSurvive`: whoever comes to its end has all its lines in a
listed file, whatever others did or lost. `ListedExist`: with different products,
`process_result` finds each file it opens. `Terminates`: the program ends, and with
threads only after the report.

### Delivery: from the server to the device (`bench_engine.py:72-98, 272-408, 434-476`, `benchmark.py:247-315`, `sh_commands.py:33-108`)

Pipelines, each with its own checkout and `output_dir`, prepare, push and run on
one device, are lost at any step, and are started again on what they left.
`host` and `tree` are the files and the unpacked archives of each host, `device`
the files on the device. A file is `absent`, `part` (a transfer broke off or is under
way), `wrong` (on a host: not what the checksum says), or somebody's: its version,
or for a library its ABI. `at` is the index into the list of files, first the models to
fetch and the archives, then the models to push. `job` is the command line, `target`
the device; `cores` and `threads` are what `get_cpu_mask` could read, and
`num_threads`. `touched` says which models others pushed since the pipeline looked
at them, or were writing while it looked; besides the properties, only the outcome
of two pushes into one file at a time (`Copied`) depends on it.

| action | code |
|---|---|
| `StartDownload`, `EndDownload` | `get_model_file`, `get_proto`, `download_file`: nothing is fetched that is there with its checksum, and the protos always are |
| `Accept`, `Refuse` | the checksum after the download: `exit(1)` if it is wrong |
| `EndUnpack` | `unzip` and `tar`, in every run |
| `AllPrepared`, `AllPushed` | the loop over the devices; `bench_run` is called |
| `SkipPush`, `Compare` | `adb_push_file`, `ssh_push_file`: the `md5sum` on the device says the same, or not |
| `StartPush`, `EndPush` | the `push` or `scp` that follows, a command of its own: it replaces what is there by then, right or not |
| `Acquire`, `EndSetup` | the lock; `prepare_device_env`, `push_precision_files`, `get_cpu_mask` and the threads |
| `EndWindow` | the end of a window (`BenchRun` has its inside) |
| `Raise`, `Restart` | a command raises, or the program is killed; it is run again |

`Preparation` computes the list of benchmarks and of files to push;
`Capabilities` holds what the classes of devices can run, which libraries an
executor is linked with and which are pushed for it, and the mask of the fast
cores.

Properties. `HostKeepsGood`: what was downloaded with the right checksum is never
fetched again nor lost. `NothingUnverified`: what an interruption or a wrong server
left on a host never gets to the device. `OwnUnlessTouched`: after its pushes a
pipeline has its own models there, unless another pushed them since it looked; and
where all agree on a file it is at worst half pushed. `QuietOnceDelivered`: once a
model is there as all who push it want it, and none of them is between its
comparison and the end of its push, it is never pushed again. The exception is real:
who found the file different pushes it after another has delivered it, under a run
that reads it (`sh_commands.py:40-54`). `SetupIntact`: while models run,
everything the setup pushes is there as this pipeline wants it. `LibrariesThere`:
for whatever executor and ABI `main` chooses, every library the binary is linked
with is there. `BoundToBigCores`: `taskset` and the threads get the cores that are
faster than the slowest. `ListedAsAsked`: the lists have what was asked for and
nothing else. `Ends`: every run ends. `OnlyOwnImages` and `ThreadsAsAsked` are
what the documentation says of two options; they do not hold, see 7.

### PortLayer: what a thread finds under it (`aibench/port`, `include/aibench`)

A thread makes calls in any order while the environment changes around it.
`minLevel` and `minVlog` are the two function-local statics of `logger.h`, empty
until they are read; `messages` the kinds of messages made, with where they were
written; `scopes` the open `LatencyLogger`s; `trace` the backtrace of a fatal
message. `freqs` is the vector given to `GetCPUMaxFreq`, `reading` its counters,
`answer` what it last returned. `region`, `mappings` and `open` are the file that is
mapped, `advised` the pages given back.

| action | code |
|---|---|
| `Log`, `VLog` | `LOG`, `AIBENCH_CHECK...`; `VLOG`, `AIBENCH_RETURN_IF_ERROR` |
| `Unwind`, `Abort` | `DealWithFatal`: the backtrace, then `abort` |
| `OpenLatency`, `CloseLatency` | `AIBENCH_LATENCY_LOGGER` and the end of its scope |
| `StartFreq`, `ReadFreq`, `EndFreq` | `GetCPUCount`, the loop over the cores, and on Android the isolated ones |
| `SchedSetAffinity` | both versions |
| `MapFile`, `AdviseFree` | `NewReadOnlyMemoryRegionFromFile`; `madvise` |
| `ChangeEnvironment` | other code of the process calls `setenv` |

Properties. `LogRight`: whether a message is written depends on its level alone,
a fatal one is written and is the end whatever the environment says, and no
latency counts from a start that was not taken. The second part is what
`ModelBenchmark` relies on when it takes `AIBENCH_CHECK` for the end of the process.
`FreqOfEachCore`: a complete list, read without an error into an empty vector, has
every core's own frequency at its place; of any other list nothing is promised.
`FreesWholePages`: exactly the whole pages of a buffer are given back. `TypeOK`, with
one mapping for one region held, and `FreqOfEachCore` are proved and not in the run.
Of all this
`model_benchmark` calls the log and maps files; no code of the repository calls
`GetCPUMaxFreq`, `SchedSetAffinity`, `AdviseFree` or the latency log, which are a
library.

## 3. Runs

| run | question | answer |
|---|---|---|
| `BenchRun_adb` | two pipelines, two executors, skipped items, failed pulls; nothing raises, and no wait reaches the timeout | `TypeOK`, `DeviceIsMine`, `LedgerExact`, `LoggedOnce`, `HoldBounded`, `WaitsOneWindow` hold |
| `BenchRun_ssh` | the same over ssh, with raised commands, and pulls that leave no copy, which ends the worker, or a piece, which is published | `ReportedOnce`, `LeaseRefinement` and `Termination` hold |
| `BenchRun_orphans` | three pipelines, workers that are lost while their run goes on, and timeouts of the lock | `OwnResultsOnly` holds |
| `BenchRun_timeout` | the help of `--max_time_per_lock` | violated, see 7 |
| `ModelBenchmark_all` | all executors, both benchmarks, all outcomes | all six properties hold |
| `ResultReport_all` | all small contents of two files | all five properties hold |
| `Pipeline_all` | two devices of different products, with and without threads, with losses, empty windows and files of an earlier run | all seven properties hold |
| `Pipeline_threads` | "benchmark all devices simultaneously", nothing failing | violated, see 7 |
| `Delivery_all` | two pipelines with every executor and ABI, comparisons that are stale when the push begins, wrong and broken downloads, restarts, two versions of the models, cores that are off line | all ten properties hold |
| `Delivery_inputs` | the help of `--input_dir` | violated, see 7 |
| `Delivery_threads` | the help of `--num_threads` | violated, see 7 |
| `PortLayer_all` | both kinds of `Env`, three calls in any order, a changing environment | `LogRight`, `FreesWholePages` hold |

## 4. Bounds

- BenchRun: two or three pipelines, because two are enough for one to disturb the
  other and a third for a line to come from a pipeline that is neither the holder
  nor lost. Lists of one to three items, with an item for another executor, one
  for a device type that is not available, and one that matches, in an order
  where a window can end before, between and after them. The limits on time (1
  to 3 units) are such that a window ends by the time and by the list, that the setup
  alone may use the time up, and, in `BenchRun_orphans`, that a waiter passes its
  timeout. `MaxTimePerLock` is more than 0 in every run: with 0 `Termination` does
  not hold (see 7). In `BenchRun_timeout` the window may be longer than the timeout,
  as with the defaults of the code.
- ModelBenchmark: the limits of the code (5 and 20 runs). `KMinTime` is 24 and
  durations are 1, 3 and 9, so that the loop ends by the time after 5 or more
  runs, and by the count. An int has 64 values, so that the kept sum both fits
  and does not. Three directory entries.
- ResultReport: two files of up to three and one lines, two models, two
  products, lines of all three executors, one pair of keys that look the same. That
  is enough for doubled results, for rows without a record in the first or the last
  column, and for keys that alternate after sorting.
- Pipeline: two devices, because all they share is shared by two, and three ABIs:
  one that both have, with two executors on the first device, so that each builds
  between the other's build and push; one that only the second has, so that an
  unjoined thread and the copy of an earlier ABI could show; one for which it has
  only an executor without a device type, so that no file is written. Two windows
  per executor, so that the binary is pushed again after another's build. One line
  per window: nothing depends on more. The devices are of two products. Two phones of
  one model share a file, in which each removes the other's lines and appends between
  them: `ReportedOnce`, `OthersSurvive` and `ListedExist` are not true of them, and say
  so in their premise; `LabelledRight` is, which only the theorem shows, for with both
  in one instance there are six million states.
- Delivery: two pipelines, which is what it takes to disturb one another, with two
  windows each and one restart between them. The cases go through every executor
  and ABI on a device that has them; through a download of two files and three
  archives; through common models of the same version, of two versions, and
  one that is not what its checksum says; and through images under the same
  names, over adb and over ssh. Of four cores with three frequencies one or all can be
  read, so that a mask is empty, and not.
- PortLayer: three calls, of which two are enough for a vector that is used again
  and for two messages around a change of the environment. Two cores, one file
  limit of 1, pages of four bytes, and buffers that begin and end on, before and
  behind the bounds of pages.

## 5. Fairness

`BenchRun` assumes weak fairness of each worker: it is a thread or a process of
the host that nothing but the lock and the commands it waits for can stop. This
includes that `model_benchmark` ends, which is what `Exits` shows, and that adb
and ssh return. Nothing is assumed of `Raise` and `OrphanEnds`. `Tick` needs no
fairness. `Acquire` is not assumed strongly fair: file locks are not.
`ModelBenchmark` assumes that the calls into the libraries return. `ResultReport`
makes no such assumption and states no liveness. `Pipeline` assumes weak fairness
of main and of each device's work, without `Raise`: builds and windows end, the
latter by `Termination` and `Exits`. `Delivery` assumes weak fairness of each
pipeline's work, for transfers and runs end; nothing of `Raise` and `Restart`.
`PortLayer` states no liveness: its callers may stop calling.

## 6. Proofs

TLAPS checks every step for all values of the constants that meet the
assumptions in the modules: every type invariant, every safety invariant and
every action property that a run checks, and both refinements, are theorems. Those
assumptions say what the code guarantees of its inputs: names that differ, lists
that are lists, no device type listed twice for a model in `benchmark.meta`, and
finitely many durations, which are 64-bit numbers of microseconds.

`DataLemmas`
- The prover has neither induction over data nor the folds of the libraries, so
  this module derives what the other proofs need of both. `Induction` and
  `SetInduction` are stated of a set of numbers and of a set of sets, the ones
  that have the property, and follow from the least element of a set of finite sets
  (`SmallestSubset`). The library defines its folds by a function that some
  `CHOOSE` picks, so that each time one must first show by induction that there is
  such a function.
- `FlattenPlaces`: the places of a flattened list and those of its parts, (part,
  index), are in one-to-one correspondence, so that it has nothing twice that the
  parts do not (`FlattenOnce`), and has what any of them has (`FlattenHas`).
- `SumAdds`, `SumAtLeast`, `SumAtMost`, `SumMore`: a sum over a finite set takes
  its terms in any order, is bounded if each term is, and grows by what one term
  grows.
- `FoldExists`: a fold from the left goes from prefix to prefix; `Halved`: what is
  shifted into a number last is shifted out first.

`BenchRunProofs`
- `TypeCorrect`: `TypeOK`.
- `LockTheorem`: `DeviceIsMine`. Inductive with `TypeOK`: every action that leaves
  the `with` sets `holder` free, `Acquire` needs it free, and only the holder sets
  `env`.
- `HoldTheorem`: `HoldBounded`. The invariant adds what `held` is when the current
  command began: at most `SetupTime` in the setup, at most `LastStart` when a
  model starts, plus `spent`.
- `WaitTheorem`: `WaitsOneWindow`. The invariant says that while the lock is taken
  a waiter has waited no longer than it has been held; while it is free, no longer
  than `MaxHold`, and if it has waited at all every other pipeline sleeps or has
  ended.
- `StepsTheorem`: each step of a worker brings it nearer to the end of its list or to
  its next executor (`Nearer`), and no other step sets it back (`Still`). The invariant
  `ItemWaits`: who waits for the lock has an item left, so a window, which runs or
  passes over at least one, makes up for the steps it takes. This needs
  `MaxTimePerLock > 0` (see 7).

`BenchLedgerProofs`
- `OrderTheorem`: `LoggedOnce`. Every logged line is before the worker's current
  position (executor, item).
- `LedgerTheorem`: `LedgerExact`. Outside a window and in its setup, the result
  file is what was logged; while models run and are pulled, the result file followed
  by `result.txt` is; before the append, followed by the copy.
- `OwnTheorem`: `OwnResultsOnly`. The same statement is shown for `result.txt`,
  for the copy and for the runs that outlived their workers.
- `ReportedTheorem`: `ReportedOnce`, over ssh and without such runs. The invariant
  `ReportInv` is of the result file and, in a window, of `result.txt` behind it
  (`ThisFar`): its lines are in order and behind the place the worker has come to. A
  piece of what follows keeps that (`SoundPiece`), and the old copy is gone before
  there is a new one (`SshInv`).
- `LeaseTheorem`: `LeaseRefinement`, over ssh and without such runs: there a copy that
  exists is `result.txt` of this window, or a piece of it and then the pull failed.
  That a measurement is new is `OrderInv` again.

`ModelBenchmarkProofs`
- `TypeCorrect`, `PrecisionTheorem`, `InferenceTheorem`, `ContractTheorem`:
  `TypeOK`, `PrecisionExact`, `InferenceChecked`, `ContractRefinement`, for all
  limits, durations and directories. The refinement needs only that a line exists
  in no state but the last; the precision theorem, that a benchmark of images
  that comes to Finish with a success has no entry left.
- `WindowTheorem`: the arithmetic of the trimmed window: it is not empty, lies
  in the vector, and leaves as many out above as below, or one more.
- `RobustTheorem`: `MeanIsRobust`. The kept parts of the durations tile the window
  (`Tiling`, by induction over the durations), so what is kept of each adds up to the
  number of runs the mean is of, and the sum of the durations kept lies between that
  number times the smallest and times the largest of them. The invariant
  `RobustInv`: while runs are timed the counts of the durations add up to `iters`
  and the durations to `total`; the property holds from the moment the benchmark
  has succeeded, before there is a line.
- `StepsTheorem`: each step makes `StepsLeft` smaller, a number that is at most
  `KMaxIters + MaxEntries + 9`.

`ResultReportProofs`
- `TypeCorrect`: no index leaves the records.
- `OnceTheorem`, `RowTheorem`: `EveryResultOnce`, `EveryRowShows`. The invariant
  `TableInv`: finished rows hold exactly the records before `start`, the row in
  progress exactly those from `model_index` to `i - 1`, in columns already
  passed; and while it holds none, the column of its first record is still ahead.
- `LinesTheorem`: `RecordsAreLines`. The invariant `ReadInv`: the records are the
  wanted lines before the line to be read next; sorting is a bijection.
- `OneRowTheorem`: `OneRowPerKey`. The invariant `RowInv`: keys of rows increase,
  and all records of the current key that are left are at the column or beyond.
- `StepsTheorem`: each step reads on or fills on; a row that ends has shown the record
  it began with (`TableInv`), so the next one begins with a later one.

`PipelineProofs`
- `TypeCorrect`: no loop leaves its list.
- `BuiltTheorem`: `BuiltForThis`. The invariant `BuildInv`: without threads only the
  device main is calling works; whoever is past its build finds a binary of the
  current ABI, since main leaves an ABI only when nobody works.
- `LabelTheorem`: `LabelledRight`, also for devices that share a product. The
  invariant `LabelInv`: the same holds of the files being written, not only of the
  listed ones.
- `ListedTheorem`: `ListedExist`. The invariant `ListInv`: a listed file is of an
  earlier ABI or of a device that is through with this one, so no device that still
  works removes it.
- `SurviveTheorem`: `OthersSurvive`. The invariant `SavedInv`: every line logged is
  in its result file, which exists; one of the current ABI belongs to a device that
  main has called and that is past its `rm -rf`, so that nothing removes it, and its
  file is listed once the device is through.
- `OnceTheorem`: `ReportedOnce`. The invariant `OnceInv`, while no window was for
  nothing: nobody is lost, no file is listed twice, no file holds a line twice (what
  a device appends is always of a later window than what is there), and a line of an
  earlier ABI is in a listed file. With `FlattenOnce` the listed files, one after
  another, then have each line once.
- `StepsTheorem`: each step takes main further through ABIs and devices, or leaves it
  where it is, takes one thread further through executors and windows and leaves the
  others where they are; also when commands raise.

`DeliveryProofs`
- `TypeCorrect`: no index leaves its list.
- `HostTheorem`: `HostKeepsGood`. The invariant `HostInv`: a file before the index
  is as its checksum says, and an archive before it is unpacked.
- `VerifiedTheorem`, `SetupTheorem`: `NothingUnverified`, `SetupIntact`. The
  invariant `DeviceInv`: one pipeline has the lock, and what is past the preparation
  has only right files to offer; the models pushed outside the lock are no
  files of a setup.
- `LibrariesTheorem`: `LibrariesThere`, from `SetupIntact` and the three tables.
- `OwnTheorem`: `OwnUnlessTouched`. The invariant `ModelsInv`: a file before the index
  is the pipeline's own or touched by another; a file that was touched is not absent;
  a file on which all agree is absent, half there, or right.
- `QuietTheorem`: `QuietOnceDelivered`, from `HostInv`: whoever compares has a right
  file to offer, so that a delivered one is the same and passed over; and nobody who
  is already past the comparison is at that file, by the premise, which says this of
  every pipeline that pushes it.
- `ListTheorem`: `ListedAsAsked`. `ListTells`: the items of the benchmark list and the
  wanted pairs of a model and a device type are in one-to-one correspondence,
  since no model lists a type twice; `PushHas`: the files of a model are pushed
  if and only if one of its types is wanted.
- `BoundTheorem`: `BoundToBigCores`. `BitsAre`: the string of bits has the bit of the
  first core last, whatever their number; `MaskCores`: each halving of the mask
  gives back the number it was made of; `FastIs`: not as slow as the slowest is
  faster than some other. The invariant `BoundInv`: what a window found out about the
  cores lets it start, and `threads` is no more than the big cores of this window,
  whatever earlier windows left in it.
- `StepsTheorem`: each step and each failure of a pipeline makes its `StepsLeft` smaller
  and leaves those of the others as they are; only `Restart` makes it larger.

`PortLayerProofs`
- `TypeCorrect`: levels, the index of the cores, the length of a backtrace, and that
  the one region held is the one mapping there is.
- `LogTheorem`: `LogRight`. The invariant `LogInv`: the level that was read tells which
  messages were written, and both levels tell which open scopes have a start.
- `FreqTheorem`: `FreqOfEachCore`. The invariant `VectorInv`: while cores are read
  into what was an empty vector, it has no more entries than cores were passed,
  and if it has as many they are those of the cores.
- `PagesTheorem`: `FreesWholePages`, for every page size, by the arithmetic of division.

Only model-checked: `Termination`, `Exits`, `Terminates` and `Ends`. They are
liveness under fairness, which needs ENABLED, and that the prover cannot reason about.
What of them is safety is proved: the five `StepsTheorem`s say that no loop goes on for
ever, for they count down in the natural numbers, or in pairs of them (main before its
threads, the executor before the steps that are left with it), which the type
invariants bound. What is left to the runs is that nobody is stuck half-way. The
measures themselves were checked as invariants and action properties of the instances
before they were proved, as were `FreqOfEachCore` and `TypeOK` of `PortLayer`. None of
these is a property of a run now: the liveness properties say more than the measures.

## 7. Where code and documentation disagree

- `benchmark.py:225` "Max run time(in minutes) after every device lock for other
  pipelines to get device lock.": the default of 300 minutes is longer than the
  lock's timeout of 3600 s, so another pipeline may end instead of getting the
  device (`BenchRun_timeout`).
- `benchmark.py:230` "whether to benchmark all devices simultaneously.": all threads
  build into one `bazel-bin`, and each pushes from there what was built last, under
  the lock of its own device only. A device may get the binary of another executor,
  whose models it then does not benchmark (`Pipeline_threads`).
- `README.md:185` "Input data directory for precision benchmark.": `inputs/` on the
  device is added to and never cleared, so an accuracy is also over the images of
  earlier runs with other directories (`Delivery_inputs`).
- `README.md:184` "The number of threads.": `bench_engine.py:468` overwrites
  `num_threads` inside the loop over the windows. After a window in which a core
  was off line all later ones have fewer threads (`Delivery_threads`).

Observations without a run:

- `bench_engine.py:477` "run at least one model": with only items for other
  executors or device types left, a window takes the lock, sets the device up and
  runs none.
- `benchmark.cc:102` "inference time": SNPE, NCNN, MNN and TNN drop the status of
  the library's inference, so the time may be of calls that failed
  (`InferenceChecked` is about the others).
- `bench_engine.py:477` again: with a `--max_time_per_lock` of 0 no window runs
  anything. The worker then ends at its first append, or, when the copy of an
  earlier run is in `output_dir`, appends that for ever. The `StepsTheorem` of
  `BenchRun` asks for more than 0; `TypeCorrect` and the rest do not.
- `README.md:253` "It will be called more than once.": without images Run is never
  called, and a line is logged all the same.
- `benchmark.py:205` "default all connected targets.": of two devices with the same
  product and SoC the second removes the result file of the first, and the file is
  listed twice (why `ReportedOnce` and `ListedExist` ask for different products).
- `bench_engine.py:68`: with `--target_socs` a device
  object is passed to `extend`, which raises.
- MACE for arm64-v8a is linked with `libcdsprpc.so`, which `prepare_device_env` does
  not push: it must come with the device (excepted in `LibrariesThere`).
- `README.md:49` speaks of big cores for MACE, NCNN and TFLite; only TFLite is
  bound to them by `taskset`.
- `file_system.cc:72-76`: the descriptor of an empty file is not closed (in
  PortLayer, `open` grows).
- `android/logger.cc:53` "Also log to stderr ... and abort": the base class writes to
  stdout and does not abort.
- `status.cc:69-82`: a copy of a status takes the other's `information()`, which
  begins with the name of its code, so each copy repeats the name.

## 8. Not modelled

- The choice of targets from the command line, and listing the devices: it is done
  once, before anything else, and fails before anything is changed.
- What the processors of the table make of a line that broke off in a transfer: they
  may fail to read it, and end `process_result`. In Pipeline a pull brings all lines
  of its window or none, and what is `logged` there is what was pulled too; in BenchRun
  the append of the copy is one step.
- Two pipelines in one `output_dir` or one checkout: nothing in the code keeps them
  apart, so nothing can be promised.
- Data: pixels, labels, tensors, what is in the protos, how names and numbers are
  spelled in lines and tables. That a line can be read back by the processors
  is assumed.
- `download_and_extract_dataset` and the COCO evaluator: no benchmark runs it.
- In ResultReport, two keys may be joined to the same string, but not one to a
  beginning of another: the device type at their ends rules that out except for
  product names made for it.
- In PortLayer: the clock, `Memalign`, `GetEnv`, the text of messages, backtraces and
  statuses, and the malloc logger, whose macro nothing enables. Messages of several
  threads: the two statics are initialised once under C++11 whichever thread comes
  first, which is one atomic step here.
- `report/`, `tools/`, `third_party/` and the build files.

## 9. Plan

Done, in this order: `DeviceLease`, `BenchRun` and their proofs; `Executors`,
`ExecutorContract`, `ModelBenchmark` and their proofs; `ResultReport` and its
proofs; `Pipeline` and its proofs; `Capabilities`, `Preparation`, `Delivery` and its
proofs; `PortLayer` and its proofs; `DataLemmas` and the theorems about lists,
sums and masks that rest on it; the measures of termination; `Transfer`, with the
pieces that a broken pull leaves, and the comparison and the push of a file as two
steps. Next:

1. An abstract specification of the whole run (every executor of every device is
   benchmarked and reported once) that Pipeline without threads implements, and
   Pipeline's windows refined by BenchRun's.
2. That the table of ResultReport is made of what BenchRun's ledger holds
   (composition of the two modules).
