---------------------------- MODULE MCPortLayer ----------------------------
(***************************************************************************)
(* An instance of PortLayer: both kinds of Env, two cores, and buffers     *)
(* that begin and end on, before and behind the bounds of pages.           *)
(***************************************************************************)
EXTENDS PortLayer

MCSettings == {[min |-> "other", vlog |-> 1], [min |-> "warning", vlog |-> 1], [min |-> "fatal", vlog |-> 0]}

MCVLevels == {1}

MCMaxFreq == <<2, 3>>

MCBuffers == (0..4) \X {3, 4, 5, 8, 11}

MCFrames == {5, 6}

=============================================================================
