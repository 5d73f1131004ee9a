-------------------------- MODULE MCModelBenchmark --------------------------
(***************************************************************************)
(* Instances of ModelBenchmark: all executors, and the limits of the code  *)
(* on the number of runs.  A unit of time is a tenth of a second or so; an *)
(* int holds so few of them that the sum of the slowest runs leaves it.    *)
(***************************************************************************)
EXTENDS ModelBenchmark

MCOptions == {"Performance", "Precision"}
MCOnDevice == {"CPU", "GPU", "DSP"}
MCBuilt == {"MACE", "SNPE", "TFLITE", "NCNN", "HIAI", "MNN", "TNN"}
MCDurations == {1, 3, 9}

=============================================================================
