------------------------------- MODULE MCTasks -------------------------------
(***************************************************************************)
(* Small instances of Tasks: the first user has a task at the start.       *)
(***************************************************************************)
EXTENDS Tasks, TLC

CONSTANTS u1, u2, x1

FirstUserHasOne == <<u1>>

\* A body that claims to be the second user's, one without a status, and one
\* that does not validate.
SomeBodies == {[text |-> x1, status |-> "done", claims |-> u2],
               [text |-> x1, status |-> "", claims |-> u1],
               [text |-> Blank, status |-> "", claims |-> u1]}

RequestSymmetry == Permutations(Requests)
=============================================================================
