-------------------------------- MODULE Stats --------------------------------
(***************************************************************************)
(* computeStats (stats.go): the statuses of a user's tasks are encoded as  *)
(* bytes and counted by countStatuses, here the amd64 one (count_amd64.s): *)
(* Lanes bytes per round of the simd loop, the rest one by one. The        *)
(* variables are its registers; one step is one round of one loop.         *)
(***************************************************************************)
EXTENDS Integers, Sequences, FiniteSets

CONSTANTS
    Lanes,    \* bytes in a register of SSE2 (16)
    MaxTasks  \* bound: the length of the list

ASSUME LanesAssumption == Lanes \in Nat \ {0}
ASSUME MaxTasksAssumption == MaxTasks \in Nat

Statuses == {"todo", "in_progress", "done"}

VARIABLES
    tasks,   \* the statuses of ListByUser
    bytes,   \* the encoded ones
    si,      \* SI: the bytes already passed
    cx,      \* CX: the bytes left
    todo,    \* R8
    inProg,  \* R9
    done,    \* R10
    pc

registers == <<si, cx, todo, inProg, done>>
vars == <<tasks, bytes, registers, pc>>

\* Mistake: the bytes start at one.
CodeFromOne(s) == CASE s = "todo" -> 1
                    [] s = "in_progress" -> 2
                    [] s = "done" -> 3

Code(s) == CASE s = "todo" -> 0
             [] s = "in_progress" -> 1
             [] s = "done" -> 2

Init == /\ \E n \in 0..MaxTasks : tasks \in [1..n -> Statuses]
        /\ bytes = <<>>
        /\ si = 0
        /\ cx = 0
        /\ todo = 0
        /\ inProg = 0
        /\ done = 0
        /\ pc = "encode"

\* Mistake: off by one.
EnoughButOne(left) == left >= Lanes - 1

Enough(left) == left >= Lanes

\* Where the compare with the length leads.
Branch(left) == pc' = IF Enough(left) THEN "simd" ELSE "tail"

Encode == /\ pc = "encode"
          /\ bytes' = [i \in DOMAIN tasks |-> Code(tasks[i])]
          /\ cx' = Len(tasks)
          /\ Branch(Len(tasks))
          /\ UNCHANGED <<tasks, si, todo, inProg, done>>

\* PCMPEQB, PMOVMSKB, POPCNTL: how many of the bytes first..last are c.
Matches(c, first, last) == Cardinality({i \in first..last : bytes[i] = c})

Count(first, last) == /\ todo' = todo + Matches(0, first, last)
                      /\ inProg' = inProg + Matches(1, first, last)
                      /\ done' = done + Matches(2, first, last)

Pass(n) == si' = si + n /\ cx' = cx - n

\* Mistake: the loop is left before the length is compared again.
SimdOnce == /\ pc = "simd"
            /\ Count(si + 1, si + Lanes)
            /\ Pass(Lanes)
            /\ pc' = "end"
            /\ UNCHANGED <<tasks, bytes>>

Simd == /\ pc = "simd"
        /\ Count(si + 1, si + Lanes)
        /\ Pass(Lanes)
        /\ Branch(cx - Lanes)
        /\ UNCHANGED <<tasks, bytes>>

Rest == /\ pc = "tail"
        /\ pc' = IF cx = 0 THEN "end" ELSE "scalar"
        /\ UNCHANGED <<tasks, bytes, registers>>

\* Mistake: the jumps to advance lead to scalar.
ScalarSpins == pc = "scalar" /\ UNCHANGED vars

Scalar == /\ pc = "scalar"
          /\ Count(si + 1, si + 1)
          /\ Pass(1)
          /\ pc' = IF cx = 1 THEN "end" ELSE "scalar"
          /\ UNCHANGED <<tasks, bytes>>

Returned == pc = "end" /\ UNCHANGED vars

Round == Encode \/ Simd \/ Rest \/ Scalar

Next == Round \/ Returned

Spec == Init /\ [][Next]_vars

\* The routine runs.
FairSpec == Spec /\ WF_vars(Round)

-----------------------------------------------------------------------------
(* Properties.                                                             *)

\* Every variable has its type.
TypeOK == /\ \E n \in 0..MaxTasks : tasks \in [1..n -> Statuses]
          /\ pc # "encode" => bytes \in [1..Len(tasks) -> {0, 1, 2}]
          /\ si \in Nat
          /\ cx \in Int
          /\ todo \in Nat /\ inProg \in Nat /\ done \in Nat
          /\ pc \in {"encode", "simd", "tail", "scalar", "end"}

\* No byte is loaded from outside of the slice, by the 16-byte loads of the
\* simd loop neither (count_amd64.s:37,71).
LoadsInBounds ==
    /\ pc = "simd" => si + Lanes <= Len(tasks)
    /\ pc = "scalar" => si + 1 <= Len(tasks)

Having(s) == {i \in DOMAIN tasks : tasks[i] = s}

\* Each count is the number of tasks with that status, whatever the length of
\* the list leaves to the tail, so the percentages are of the same total
\* (stats.go:33). The tests count four tasks, which never enter the simd loop.
CountsExact ==
    pc = "end" => /\ todo = Cardinality(Having("todo"))
                  /\ inProg = Cardinality(Having("in_progress"))
                  /\ done = Cardinality(Having("done"))

\* The three counts make up Total.
CountsAddUp == pc = "end" => todo + inProg + done = Len(tasks)

\* The routine returns.
Returns == <>(pc = "end")
=============================================================================
