----------------------------- MODULE MCDelivery -----------------------------
(***************************************************************************)
(* Instances of Delivery: two pipelines.  Busy jobs have models in common, *)
(* of the same and of different versions, archives and images; plain jobs  *)
(* go through the devices, ABIs and executors, one after another.          *)
(***************************************************************************)
EXTENDS Delivery

MCPipeline == {"p", "q"}
MCModel == {"model.pb", "net", "weights", "own"}
MCProtos == <<"model.pb">>
MCImage == {"i1", "i2"}
MCRemote == {"net", "weights"}
MCVersion == {"v1", "v2"}

Bench(x, n, q, f, d) == [executor |-> x, name |-> n, quantize |-> q, files |-> f, devices |-> d]

\* MACE's model has two files to download; the first of SNPE's is the user's.
MCBenchmarks == <<
    Bench("MACE", "MobileNetV1", FALSE, <<"net", "weights">>, <<"CPU", "GPU">>),
    Bench("SNPE", "MobileNetV1", TRUE, <<"own">>, <<"DSP", "CPU">>),
    Bench("SNPE", "MobileNetV2", FALSE, <<"net">>, <<"NPU">>)>>

MCFreq == <<1, 1, 2, 3>>

Snapdragon == TheDevice("adb", "sdm", 845, AndroidAbi, TRUE)
Msmnile    == TheDevice("adb", "msmnile", 0, AndroidAbi, TRUE)
Kirin970   == TheDevice("adb", "kirin", 970, AndroidAbi, FALSE)
Kirin980   == TheDevice("adb", "kirin", 980, AndroidAbi, FALSE)
Board      == TheDevice("ssh", "rk", 3399, LinuxAbi, FALSE)

Asked(executors, names, types) == [executors |-> executors, names |-> names, types |-> types]

Job(x, abi, asked, precision, input, images, version, local) ==
    [executor |-> x, abi |-> abi, asked |-> asked, push |-> PushList(asked), precision |-> precision,
     input |-> input, images |-> images, version |-> [f \in Model \cup Image |-> version],
     local |-> local]

\* No models: the libraries and cores only.
Plain(x, abi) ==
    Job(x, abi, Asked({x}, {}, {"CPU", "NPU"}), FALSE, "none", {}, "v1", "right")

Busy(x, abi, types, input, images, version, local) ==
    Job(x, abi, Asked({x}, {"MobileNetV1", "MobileNetV2"}, types), images # {}, input, images, version, local)

Case(d, j, k) == <<d, [r \in Pipeline |-> IF r = "p" THEN j ELSE k]>>

\* Every executor on every ABI, against another of another ABI: MayRun leaves
\* those that a device has.
PlainCases ==
    {Case(d, Plain(x, a), Plain("NCNN", b)) :
        x \in ExecutorType,
        <<d, a, b>> \in {<<Msmnile, "arm64-v8a", "armeabi-v7a">>, <<Board, "aarch64", "armhf">>}}
    \cup {Case(Kirin980, Plain("HIAI", "arm64-v8a"), Plain("NCNN", "armeabi-v7a"))}

\* Downloads and archives.
FetchCases ==
    {Case(Kirin970, Busy("MACE", "arm64-v8a", {"CPU", "GPU"}, "url", {"i1"}, "v1", "right"),
          Plain("TNN", "armeabi-v7a"))}

\* The same models; two versions of them; a model that is not its checksum.
PushCases ==
    {Case(Snapdragon, Busy("SNPE", "arm64-v8a", {"CPU", "DSP"}, "none", {}, "v1", local),
          Busy("SNPE", "armeabi-v7a", {"CPU"}, "none", {}, v, "right")) :
        <<local, v>> \in {<<"right", "v1">>, <<"right", "v2">>, <<"wrong", "v1">>}}

\* Images of the user's, some under the same names.
ImageCases ==
    {Case(d, Busy("NCNN", a, {"CPU"}, "local", {"i1", "i2"}, "v1", "right"),
          Busy("NCNN", b, {"CPU"}, "local", {"i2"}, "v2", "right")) :
        <<d, a, b>> \in {<<Snapdragon, "arm64-v8a", "armeabi-v7a">>, <<Board, "armhf", "aarch64">>}}

MCCases == PlainCases \cup FetchCases \cup PushCases \cup ImageCases

=============================================================================
