----------------------------- MODULE MCBenchRun -----------------------------
(***************************************************************************)
(* Small instances of BenchRun: who runs what, and on what.                *)
(***************************************************************************)
EXTENDS BenchRun, TLC

CONSTANTS p1, p2, p3

Entry(e, d) == [executor |-> e, device |-> d]

MCExecutorType == {"MACE", "TFLITE"}
MCDeviceType == {"CPU", "GPU"}

\* The device runs MACE on both processors and TFLITE on the CPU only.
MCSupports == {<<"MACE", "CPU">>, <<"MACE", "GPU">>, <<"TFLITE", "CPU">>}

\* p1 has two executors, and a list that ends in an item for the second one
\* and one for a device type it cannot have; p2 has one executor and a list
\* all of which matches; p3 has a single model.
AllExecutors == (p1 :> <<"MACE", "TFLITE">>) @@ (p2 :> <<"MACE">>) @@ (p3 :> <<"TFLITE">>)
AllLists ==
    (p1 :> <<Entry("MACE", "CPU"), Entry("TFLITE", "CPU"), Entry("TFLITE", "GPU")>>)
    @@ (p2 :> <<Entry("MACE", "CPU"), Entry("MACE", "GPU")>>)
    @@ (p3 :> <<Entry("TFLITE", "CPU")>>)

MCExecutors == [p \in Pipelines |-> AllExecutors[p]]
MCBenchmarkList == [p \in Pipelines |-> AllLists[p]]

=============================================================================
