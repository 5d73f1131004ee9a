----------------------------- MODULE MCPipeline -----------------------------
(***************************************************************************)
(* Instances of Pipeline: two devices and three ABIs.  With the first the  *)
(* first device has two executors and the second one has one; with the     *)
(* second only the second device has one; with the third it has one it has *)
(* no device type for.  An earlier run left all its result files.          *)
(***************************************************************************)
EXTENDS Pipeline

MCDevice == {"d1", "d2"}
MCProduct == {"phone", "tablet"}
MCExecutorType == {"MACE", "SNPE", "TFLITE"}
MCTargetDevices == <<"d1", "d2">>
MCAvailable == [x \in Device \X Abi |->
    CASE x = <<"d1", 1>> -> <<"TFLITE", "MACE">>
      [] x = <<"d2", 1>> -> <<"MACE">>
      [] x = <<"d2", 2>> -> <<"MACE">>
      [] x = <<"d2", 3>> -> <<"SNPE">>
      [] OTHER           -> <<>>]
MCOldFiles == MCProduct \X Abi
MCUsable == Device \X {"MACE", "TFLITE"}

Apart == {[d \in Device |-> IF d = "d1" THEN "phone" ELSE "tablet"]}

=============================================================================
