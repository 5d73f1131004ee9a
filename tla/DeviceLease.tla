---------------------------- MODULE DeviceLease ----------------------------
(***************************************************************************)
(* What the lock around a device promises to the pipelines that share it.  *)
(* A pipeline measures only while it owns the device, and when it gives    *)
(* the device back it adds to its ledger (the result file in its output    *)
(* directory) what it measured under this lease: all of it, once and in    *)
(* order, or, if the transfer broke, a piece of it.  What was measured     *)
(* under another lease, or by another pipeline, is never added.  A         *)
(* pipeline that ends inside its lease takes no part any more.             *)
(*                                                                         *)
(* BenchRun (the loop of bench_engine.bench_run) is compared with this     *)
(* specification.                                                          *)
(***************************************************************************)
EXTENDS Transfer

CONSTANTS
    Pipelines,  \* the pipelines that share the device
    NoOne,      \* the owner of a free device, not a pipeline
    Result      \* what a pipeline can measure

VARIABLES
    owner,      \* the pipeline that holds the device, or NoOne
    gone,       \* the pipelines that ended early
    fresh,      \* what the owner measured under this lease, in order
    broken,     \* the transfer of it broke, and brought a piece
    lost,       \* the pipelines of which a transfer failed
    measured,   \* per pipeline, all it measured, in order
    ledger      \* per pipeline, what it published

vars == <<owner, gone, fresh, broken, lost, measured, ledger>>

Init ==
    /\ owner = NoOne
    /\ gone = {}
    /\ fresh = <<>>
    /\ broken = FALSE
    /\ lost = {}
    /\ measured = [p \in Pipelines |-> <<>>]
    /\ ledger = [p \in Pipelines |-> <<>>]

Acquire(p) ==
    /\ owner = NoOne
    /\ p \notin gone
    /\ owner' = p
    /\ UNCHANGED <<gone, fresh, broken, lost, measured, ledger>>

\* A measurement is new: no result is measured twice.
Measure(p) ==
    /\ owner = p /\ ~broken
    /\ \E r \in Result :
          /\ \A k \in 1..Len(measured[p]) : measured[p][k] # r
          /\ measured' = [measured EXCEPT ![p] = Append(@, r)]
          /\ fresh' = Append(fresh, r)
    /\ UNCHANGED <<owner, gone, broken, lost, ledger>>

\* The transfer fails; for all that, everything may have come through.
Fail(p) ==
    /\ owner = p /\ ~broken
    /\ broken' \in BOOLEAN
    /\ lost' = lost \cup {p}
    /\ UNCHANGED <<owner, gone, fresh, measured, ledger>>

Release ==
    /\ owner' = NoOne
    /\ fresh' = <<>>
    /\ broken' = FALSE

\* The lease ends: all that was measured under it is published at once, and
\* no less, unless the transfer broke.
Publish(p) ==
    /\ owner = p
    /\ \E copy \in (IF broken THEN Pieces(fresh) ELSE {fresh}) :
          ledger' = [ledger EXCEPT ![p] = @ \o copy]
    /\ Release
    /\ UNCHANGED <<gone, lost, measured>>

\* The pipeline ends, with or without the device in its hands.
Abandon(p) ==
    /\ p \notin gone
    /\ gone' = gone \cup {p}
    /\ IF owner = p THEN Release ELSE UNCHANGED <<owner, fresh, broken>>
    /\ UNCHANGED <<lost, measured, ledger>>

Next == \E p \in Pipelines : Acquire(p) \/ Measure(p) \/ Fail(p) \/ Publish(p) \/ Abandon(p)

Spec == Init /\ [][Next]_vars

=============================================================================
