---------------------------- MODULE Capabilities ----------------------------
(***************************************************************************)
(* What a device can run, what an executor needs there, and which of the   *)
(* cores are fast: the functions of a device's properties that decide what *)
(* a window of bench_run sets up.                                          *)
(*                                                                         *)
(* A device is reached over adb or over ssh.  Its SoC is a family with a   *)
(* number, which is what the patterns on ro.board.platform look at:        *)
(* sdm845 is <<"sdm", 845>>, msmnile is <<"msmnile", 0>>.                  *)
(***************************************************************************)
EXTENDS Executors, Integers, FiniteSets, Sequences, SequencesExt, FiniteSetsExt

AndroidAbi == {"armeabi-v7a", "arm64-v8a"}
LinuxAbi   == {"armhf", "aarch64"}

-----------------------------------------------------------------------------
(***************************************************************************)
(* Devices.  hexagon says that libhexagon_nn_skel.so is on the device.     *)
(***************************************************************************)

TheDevice(bus, family, number, abis, hexagon) ==
    [bus |-> bus, soc |-> <<family, number>>, abis |-> abis, hexagon |-> hexagon]

\* The class of an adb device follows from its SoC.
IsQualcomm(d) == d.bus = "adb" /\ d.soc[1] \in {"sdm", "msm", "msmnile", "kona"}
IsHuawei(d)   == d.bus = "adb" /\ d.soc[1] = "kirin"

SupportsHiaiDdk200(d) == IsHuawei(d) /\ d.soc[2] >= 980

SupportsDsp(d, x) ==
    /\ d.soc # <<"sdm", 660>> \/ x # "SNPE"
    /\ d.soc[1] # "msmnile"
    /\ d.hexagon

AvailableDeviceTypes(d, types, abi, x) ==
    types \cap
        ({"CPU"}
         \cup (IF d.bus = "adb" THEN {"GPU"} ELSE {})
         \cup (IF IsQualcomm(d) /\ SupportsDsp(d, x) THEN {"DSP"} ELSE {})
         \cup (IF \/ IsQualcomm(d) /\ d.soc[1] = "msmnile"
                  \/ SupportsHiaiDdk200(d) /\ abi = "arm64-v8a"
               THEN {"NPU"} ELSE {}))

\* The executors of class Device: three of them not on Linux.
CommonExecutors_Everywhere(abi) == {"MACE", "NCNN", "TFLITE", "MNN", "TNN"}

CommonExecutors(abi) ==
    {"MACE", "NCNN"} \cup (IF abi \in LinuxAbi THEN {} ELSE {"TFLITE", "MNN", "TNN"})

AvailableExecutors(d, executors, abi) ==
    executors \cap
        (CommonExecutors(abi)
         \cup (IF IsQualcomm(d) THEN {"SNPE"} ELSE {})
         \cup (IF SupportsHiaiDdk200(d) /\ abi = "arm64-v8a" THEN {"HIAI"} ELSE {}))

-----------------------------------------------------------------------------
(***************************************************************************)
(* Libraries, named without lib and .so.  "c++" is libc++_shared.so, which *)
(* the NDK has for Android only; a file that is missing is not pushed.     *)
(***************************************************************************)

ExecutorLibraries(x, abi) ==
    LET android == abi \in AndroidAbi
    IN  CASE x = "SNPE"   -> {"SNPE", "dsp"} \cup (IF android THEN {"c++"} ELSE {})
          [] x = "MACE"   -> {"mace"} \cup (IF android THEN {"c++", "hexagon_controller"} ELSE {})
          [] x = "TFLITE" -> IF android THEN {"tensorflowlite"} ELSE {}
          [] x = "HIAI"   -> IF abi = "arm64-v8a" THEN {"hiai"} ELSE {}
          [] x = "MNN"    -> IF android THEN {"MNN", "MNN_Express"} ELSE {}
          [] x = "TNN"    -> IF android THEN {"TNN"} ELSE {}
          [] OTHER        -> {}

\* What prepare_device_env pushes.
Environment(x, abi) == {"opencv"} \cup ExecutorLibraries(x, abi)

\* What model_benchmark is linked with when it is built for this executor;
\* NCNN is linked statically.
Linked(x, abi) ==
    {"opencv"} \cup
    CASE x = "SNPE"   -> {"SNPE"} \cup (IF abi \in AndroidAbi THEN {"c++"} ELSE {})
      [] x = "MACE"   -> {"mace"}
                         \cup (IF abi \in AndroidAbi THEN {"c++", "hexagon_controller"} ELSE {})
                         \cup (IF abi = "arm64-v8a" THEN {"cdsprpc"} ELSE {})
      [] x = "TFLITE" -> {"tensorflowlite"}
      [] x = "HIAI"   -> {"hiai"}
      [] x = "MNN"    -> {"MNN", "MNN_Express"}
      [] x = "TNN"    -> {"TNN"}
      [] OTHER        -> {}

-----------------------------------------------------------------------------
(***************************************************************************)
(* get_cpu_mask, for the maximal frequencies of the cores that could be    *)
(* read: a string of bits that starts with the last core, as a number.     *)
(***************************************************************************)

Slowest(freqs) == Min(ToSet(freqs))

\* The bit of each core is put before those of the cores before it.
CpuBits_InOrder(freqs) == [c \in 1..Len(freqs) |-> IF freqs[c] # Slowest(freqs) THEN 1 ELSE 0]

CpuBits(freqs) ==
    FoldLeft(LAMBDA bits, freq : <<IF freq # Slowest(freqs) THEN 1 ELSE 0>> \o bits, <<>>, freqs)

CpuMask(freqs) == FoldLeft(LAMBDA n, bit : 2 * n + bit, 0, CpuBits(freqs))

\* cpu_mask.count('1')
BigCores(freqs) == Cardinality({c \in 1..Len(freqs) : freqs[c] # Slowest(freqs)})

\* The cores a mask names: taskset takes the lowest bit for core 0, and shifts
\* the mask for the next.
CoresOf(mask, n) ==
    LET shifted[k \in 0..n] == IF k = 0 THEN mask ELSE shifted[k - 1] \div 2
    IN  {c \in 1..n : shifted[c - 1] % 2 = 1}

=============================================================================
