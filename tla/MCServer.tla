------------------------------ MODULE MCServer ------------------------------
(***************************************************************************)
(* A small instance of Server: nothing is configured, or one variable is;  *)
(* two processes, the second of which takes over from the first.           *)
(***************************************************************************)
EXTENDS Server

CONSTANTS p1, p2, r1, r2

Variables == {<<"", FALSE, 0>>, <<"spaces", FALSE, 0>>, <<"text", FALSE, 0>>,
              <<"text", TRUE, 0>>, <<"text", TRUE, 1>>}
Absent == [text |-> "", parses |-> FALSE, number |-> 0]
Settings == {[text |-> v[1], parses |-> v[2], number |-> v[3]] : v \in Variables}

OneVariable == {[n \in Names |-> IF n = name THEN v ELSE Absent] : name \in Names, v \in Settings}

\* Bound, on each step: the second process is started when the first is about
\* to close its stores, or later (all that it could do earlier is open stores,
\* in vain, or wait for the file), and the second request comes second. No
\* fairness is assumed of the steps this takes away.
TakesOver == /\ stage'[p2] # "off" => stage'[p1] \in {"close", "exited", "dead"}
             /\ pc'[r2] # "idle" => pc'[r1] # "idle"
=============================================================================
