---------------------------- MODULE Preparation ----------------------------
(***************************************************************************)
(* prepare_all_models: from benchmark.meta and what was asked for on the   *)
(* command line, the list of benchmarks and the list of files to push.     *)
(***************************************************************************)
EXTENDS Capabilities

CONSTANTS
    Model,       \* the files of models, and the two protos
    Protos,      \* benchmark.pb and model.pb, in order
    Benchmarks   \* the models in bench_factory.benchmarks, in order: what each is
                 \* called, its files (its weights may be missing) and its device
                 \* types, none of them twice

ASSUME PreparationAssumption ==
    /\ Protos \in Seq(Model)
    /\ Benchmarks \in Seq(ToSet(Benchmarks))
    /\ \A k \in 1..Len(Benchmarks) :
        LET m == Benchmarks[k]
        IN  /\ m.executor \in ExecutorType
            /\ m.files \in Seq(Model)
            /\ m.devices \in Seq(DeviceType) /\ IsInjective(m.devices)

AskedFor(asked, m) == m.executor \in asked.executors /\ m.name \in asked.names

TypesAsked(asked, m) ==
    IF AskedFor(asked, m)
    THEN FlattenSeq([k \in 1..Len(m.devices) |->
            IF m.devices[k] \in asked.types THEN <<m.devices[k]>> ELSE <<>>])
    ELSE <<>>

\* A model's files are fetched with the first of its device types.
ModelFiles_PerModel(asked, m) == IF AskedFor(asked, m) THEN m.files ELSE <<>>

ModelFiles(asked, m) == IF TypesAsked(asked, m) = <<>> THEN <<>> ELSE m.files

Items(asked, m) ==
    [k \in 1..Len(TypesAsked(asked, m)) |->
        [executor |-> m.executor, name |-> m.name, quantize |-> m.quantize,
         type |-> TypesAsked(asked, m)[k]]]

BenchmarkList(asked) ==
    FlattenSeq([k \in 1..Len(Benchmarks) |-> Items(asked, Benchmarks[k])])

PushList(asked) ==
    Protos \o FlattenSeq([k \in 1..Len(Benchmarks) |-> ModelFiles(asked, Benchmarks[k])])

\* The archives that main has unpacked, after the models.
Archive == {"imagenet_less", "mace", "tensorflow", "MNN"}

Archives(asked, input) ==
       (IF input = "url" THEN <<"imagenet_less">> ELSE <<>>)
    \o (IF "MACE" \in asked.executors THEN <<"mace">> ELSE <<>>)
    \o (IF "TFLITE" \in asked.executors THEN <<"tensorflow">> ELSE <<>>)
    \o (IF "MNN" \in asked.executors THEN <<"MNN">> ELSE <<>>)

=============================================================================
