----------------------------- MODULE Executors -----------------------------
(***************************************************************************)
(* The seven implementations of BaseExecutor, each as the outcomes of its  *)
(* calls on a device type d and an engine state g.                         *)
(*                                                                         *)
(* An engine is "none", "part" (a model that was read but cannot be run)   *)
(* or "ready".  A call returns a status, or ends the process: a failed     *)
(* check, an unreadable file (LOG(FATAL)) and the use of a null pointer    *)
(* are all "CRASH".  A run also says whether the model was inferred: most  *)
(* executors drop the status of the library's own call.                    *)
(*                                                                         *)
(* What the libraries answer is any answer their callers provide for.      *)
(***************************************************************************)

ExecutorType == {"MACE", "SNPE", "TFLITE", "NCNN", "HIAI", "MNN", "TNN"}
DeviceType   == {"CPU", "GPU", "DSP", "NPU", "VULKAN", "OPENGL"}
EngineState  == {"none", "part", "ready"}
Status       == {"SUCCESS", "UNSUPPORTED", "RUNTIME_ERROR"}

Prepared(s, g) == [status |-> s, engine |-> g]
Ran(s, b)      == [status |-> s, inferred |-> b]

PrepareOutcome == [status : Status \cup {"CRASH"}, engine : EngineState]
RunOutcome     == [status : Status \cup {"CRASH"}, inferred : BOOLEAN]

-----------------------------------------------------------------------------
(***************************************************************************)
(* Init.  Most only keep the number of threads.                            *)
(***************************************************************************)

\* On the GPU an engine is built and dropped, to have the kernels compiled.
MaceInit(d) == {"SUCCESS"} \cup (IF d = "GPU" THEN {"CRASH"} ELSE {})

MnnInit(d) == IF d \in {"CPU", "GPU", "VULKAN"} THEN {"SUCCESS"} ELSE {"UNSUPPORTED"}

InitOutcomes(x, d) ==
    CASE x = "MACE" -> MaceInit(d)
      [] x = "MNN"  -> MnnInit(d)
      [] OTHER      -> {"SUCCESS"}

-----------------------------------------------------------------------------
(***************************************************************************)
(* Prepare.                                                                *)
(***************************************************************************)

\* The status of CreateEngine is dropped; a file that is missing is fatal.
MacePrepare ==
    {Prepared("SUCCESS", "ready"), Prepared("SUCCESS", "none"), Prepared("CRASH", "none")}

\* No runtime for the device type, or a model that does not build.
SnpePrepare == {Prepared("SUCCESS", "ready"), Prepared("UNSUPPORTED", "none")}

\* With a GPU delegate nobody allocates the tensors, so that one which could
\* not be applied leaves an interpreter that cannot be invoked.
TflitePrepare(d) ==
    {Prepared("SUCCESS", "ready"), Prepared("RUNTIME_ERROR", "none"),
     Prepared("RUNTIME_ERROR", "part")}
    \cup (IF d = "GPU" THEN {Prepared("SUCCESS", "part")} ELSE {})

NcnnPrepare ==
    {Prepared("SUCCESS", "ready"), Prepared("UNSUPPORTED", "none"),
     Prepared("RUNTIME_ERROR", "part")}

HiaiPrepare == {Prepared("SUCCESS", "ready"), Prepared("CRASH", "none")}

\* No net to make a session of crashes; no session is not noticed.
MnnPrepare ==
    {Prepared("SUCCESS", "ready"), Prepared("SUCCESS", "part"), Prepared("CRASH", "none")}

\* The instance is used before the error is looked at.
TnnPrepare ==
    {Prepared("SUCCESS", "ready"), Prepared("RUNTIME_ERROR", "part"),
     Prepared("CRASH", "none")}

PrepareOutcomes(x, d) ==
    CASE x = "MACE"   -> MacePrepare
      [] x = "SNPE"   -> SnpePrepare
      [] x = "TFLITE" -> TflitePrepare(d)
      [] x = "NCNN"   -> NcnnPrepare
      [] x = "HIAI"   -> HiaiPrepare
      [] x = "MNN"    -> MnnPrepare
      [] x = "TNN"    -> TnnPrepare

-----------------------------------------------------------------------------
(***************************************************************************)
(* Run.                                                                    *)
(***************************************************************************)

\* There is no null check on the engine.
MaceRun(g) ==
    IF g = "none" THEN {Ran("CRASH", FALSE)}
    ELSE {Ran("SUCCESS", TRUE), Ran("RUNTIME_ERROR", FALSE)}

\* Names are checked before and after; what execute returns is not.
SnpeRun ==
    {Ran("SUCCESS", TRUE), Ran("SUCCESS", FALSE),
     Ran("RUNTIME_ERROR", FALSE), Ran("RUNTIME_ERROR", TRUE)}

TfliteRun(g) ==
    {Ran("RUNTIME_ERROR", FALSE)} \cup (IF g = "ready" THEN {Ran("SUCCESS", TRUE)} ELSE {})

\* Only the name of the input is checked.
NcnnRun == {Ran("SUCCESS", TRUE), Ran("SUCCESS", FALSE), Ran("RUNTIME_ERROR", FALSE)}

\* Everything is checked, and every failure is fatal.
HiaiRun == {Ran("SUCCESS", TRUE), Ran("CRASH", FALSE)}

\* Nothing is checked.
MnnRun(g) ==
    IF g = "part" THEN {Ran("CRASH", FALSE)}
    ELSE {Ran("SUCCESS", TRUE), Ran("SUCCESS", FALSE)}

\* Names are checked before and after; what Forward returns is not.
TnnRun == SnpeRun

RunOutcomes(x, g) ==
    CASE x = "MACE"   -> MaceRun(g)
      [] x = "SNPE"   -> SnpeRun
      [] x = "TFLITE" -> TfliteRun(g)
      [] x = "NCNN"   -> NcnnRun
      [] x = "HIAI"   -> HiaiRun
      [] x = "MNN"    -> MnnRun(g)
      [] x = "TNN"    -> TnnRun

\* The executors that return what the library's inference returned.
ChecksInference == {"MACE", "TFLITE", "HIAI"}

-----------------------------------------------------------------------------

\* Finish: TFLITE drops the interpreter and keeps the model, MNN does nothing,
\* the others drop what they have.
AfterFinish(x, g) ==
    CASE x = "MNN"                   -> g
      [] x = "TFLITE" /\ g = "ready" -> "part"
      [] x = "TFLITE" /\ g # "ready" -> g
      [] OTHER                       -> "none"

=============================================================================
