--------------------------- MODULE MCResultReport ---------------------------
(***************************************************************************)
(* Instances of ResultReport: two models and two products whose keys are   *)
(* joined to the same string, or not, and all ways to fill two files with  *)
(* lines of two executors, doubled ones and ones of the other option.      *)
(***************************************************************************)
EXTENDS ResultReport

MCModel == {"m1", "m2"}
MCProduct == {"phone", "tablet"}

\* The products cannot be told apart in the string of m1.
MCJoined == [k \in Key |->
    IF k[1] = "m1" THEN 1 ELSE IF k[2] = "phone" THEN 2 ELSE 3]

Wanted1 == [option : {"Precision"}, executor : Executor, model : Model, known : {TRUE}]
Other == [option : {"Performance"}, executor : {1}, model : {"m1"}, known : {FALSE}]
     \cup [option : {"Precision"}, executor : {2}, model : {"m2"}, known : {FALSE}]

Upto(len, S) == UNION {[1..k -> S] : k \in 0..len}

MCInputs ==
    {<<[product |-> "phone", lines |-> l], [product |-> q, lines |-> m]>> :
        l \in Upto(3, Wanted1), q \in Product, m \in Upto(1, Wanted1 \cup Other)}
    \cup {<<[product |-> "phone", lines |-> l]>> : l \in Upto(2, Wanted1 \cup Other)}

=============================================================================
