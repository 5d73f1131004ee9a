-------------------------- MODULE ExecutorContract --------------------------
(***************************************************************************)
(* What the authors of an executor are promised (README, "Adding a new AI  *)
(* executor", and base_executor.h), and what the readers of result.txt     *)
(* are: Init once, then Prepare once, then Run, each only if the call      *)
(* before it succeeded, then Finish once, whatever happened; and after     *)
(* that one line, if the last call before Finish succeeded.  A process may *)
(* die at any time; then it leaves no line.                                *)
(*                                                                         *)
(* ModelBenchmark (benchmark.cc) is compared with this specification.      *)
(***************************************************************************)
EXTENDS Naturals

VARIABLES
    phase,  \* how far the calls have gone
    ok,     \* the last call succeeded
    lines   \* lines written to result.txt

vars == <<phase, ok, lines>>

Init ==
    /\ phase = "created"
    /\ ok = TRUE
    /\ lines = 0

\* A call succeeds and leads on, or fails: then nothing but Finish is left.
Call(before, after) ==
    /\ phase = before
    /\ \/ phase' = after /\ ok' = TRUE
       \/ phase' = "failed" /\ ok' = FALSE
    /\ UNCHANGED lines

InitCall    == Call("created", "initialized")
PrepareCall == Call("initialized", "prepared")
RunCall     == Call("prepared", "prepared")

\* A warm-up run that failed may be repeated.
RunAgain ==
    /\ phase = "prepared"
    /\ ok' = FALSE
    /\ UNCHANGED <<phase, lines>>

FinishCall ==
    /\ phase \in {"prepared", "failed"}
    /\ ok = (phase = "prepared")
    /\ phase' = "finished"
    /\ UNCHANGED <<ok, lines>>

End ==
    /\ phase = "finished"
    /\ phase' = "ended"
    /\ lines' = IF ok THEN 1 ELSE 0
    /\ UNCHANGED ok

Die ==
    /\ phase # "ended"
    /\ phase' = "ended"
    /\ UNCHANGED lines
    /\ ok' = FALSE

Next == InitCall \/ PrepareCall \/ RunCall \/ RunAgain \/ FinishCall \/ End \/ Die

Spec == Init /\ [][Next]_vars

=============================================================================
