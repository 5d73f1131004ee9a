------------------------------ MODULE Transfer ------------------------------
(***************************************************************************)
(* What scp and adb make of a results file: the whole file or, when the    *)
(* connection breaks, a piece of it.  A file is a sequence of lines, each  *)
(* a record with a field "whole"; a line of which only the beginning came  *)
(* through is not whole, and whatever is written behind it stands on it.   *)
(***************************************************************************)
EXTENDS Integers, Sequences

Torn(l)  == [l EXCEPT !.whole = FALSE]
Whole(l) == [l EXCEPT !.whole = TRUE]

\* What can have arrived of a file: nothing, some lines, the beginning of one
\* more, or everything, when it is only the end of the transfer that failed.
Pieces(file) ==
    {SubSeq(file, 1, n) : n \in 0..Len(file)}
    \cup {Append(SubSeq(file, 1, n - 1), Torn(file[n])) : n \in 1..Len(file)}

=============================================================================
