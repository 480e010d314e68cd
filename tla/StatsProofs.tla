----------------------------- MODULE StatsProofs -----------------------------
(***************************************************************************)
(* countStatuses is right for lists of every length and registers of every *)
(* width: each register holds the count of the bytes passed so far. A      *)
(* round adds the count of the bytes it passes, which are none of those.   *)
(***************************************************************************)
EXTENDS Stats, FiniteSetTheorems, TLAPS

USE LanesAssumption, MaxTasksAssumption

\* The bytes passed and left, and what the registers hold of the former.
Positions == /\ si + cx = Len(tasks) /\ cx \in Nat
             /\ pc = "simd" => cx >= Lanes
             /\ pc = "scalar" => cx > 0
             /\ pc = "end" => cx = 0

Counted == /\ todo = Matches(0, 1, si)
           /\ inProg = Matches(1, 1, si)
           /\ done = Matches(2, 1, si)

IInv == /\ TypeOK
        /\ pc = "encode" => si = 0 /\ todo = 0 /\ inProg = 0 /\ done = 0
        /\ pc # "encode" => /\ Positions
                            /\ Counted
                            /\ bytes = [i \in DOMAIN tasks |-> Code(tasks[i])]

LEMMA TasksType ==
    ASSUME TypeOK
    PROVE  /\ Len(tasks) \in Nat /\ DOMAIN tasks = 1..Len(tasks)
           /\ \A i \in 1..Len(tasks) : tasks[i] \in Statuses
BY DEF TypeOK

LEMMA DisjointUnion ==
    ASSUME NEW S, NEW T, IsFiniteSet(S), IsFiniteSet(T), S \cap T = {}
    PROVE  /\ IsFiniteSet(S \cup T)
           /\ Cardinality(S \cup T) = Cardinality(S) + Cardinality(T)
           /\ Cardinality(S) \in Nat /\ Cardinality(T) \in Nat
<1>1. Cardinality(S) \in Nat /\ Cardinality(T) \in Nat
  BY FS_CardinalityType
<1>2. IsFiniteSet(S \cup T)
      /\ Cardinality(S \cup T) = Cardinality(S) + Cardinality(T) - Cardinality(S \cap T)
  BY FS_Union
<1>3. Cardinality(S \cap T) = 0
  BY FS_EmptySet
<1>4. QED BY <1>1, <1>2, <1>3

\* Counts over adjacent intervals add up.
LEMMA MatchesAdd ==
    ASSUME NEW c, NEW m \in Nat, NEW n \in Nat
    PROVE  /\ Matches(c, 1, m) \in Nat /\ Matches(c, m + 1, m + n) \in Nat
           /\ Matches(c, 1, m + n) = Matches(c, 1, m) + Matches(c, m + 1, m + n)
<1> DEFINE S == {i \in 1..m : bytes[i] = c}
           T == {i \in (m + 1)..(m + n) : bytes[i] = c}
<1>1. IsFiniteSet(1..m) /\ IsFiniteSet((m + 1)..(m + n))
  BY FS_Interval
<1>2. S \in SUBSET (1..m) /\ T \in SUBSET ((m + 1)..(m + n))
  OBVIOUS
<1>3. S \cap T = {} /\ S \cup T = {i \in 1..(m + n) : bytes[i] = c}
  OBVIOUS
<1>4. /\ Matches(c, 1, m) = Cardinality(S) /\ Matches(c, m + 1, m + n) = Cardinality(T)
      /\ Matches(c, 1, m + n) = Cardinality(S \cup T)
  BY <1>3 DEF Matches
<1> HIDE DEF S, T
<1>5. IsFiniteSet(S) /\ IsFiniteSet(T)
  BY <1>1, <1>2, FS_Subset
<1>6. /\ Cardinality(S \cup T) = Cardinality(S) + Cardinality(T)
      /\ Cardinality(S) \in Nat /\ Cardinality(T) \in Nat
  BY <1>3, <1>5, DisjointUnion
<1>7. QED BY <1>4, <1>6

LEMMA MatchesNone == \A c : Matches(c, 1, 0) = 0
<1> SUFFICES ASSUME NEW c PROVE Matches(c, 1, 0) = 0
  OBVIOUS
<1>1. {i \in 1..0 : bytes[i] = c} = {}
  OBVIOUS
<1>2. QED BY <1>1, FS_EmptySet DEF Matches

\* A round over n bytes keeps the registers at the count of what is passed.
LEMMA RoundCounts ==
    ASSUME NEW n \in Nat, si \in Nat, Counted, Count(si + 1, si + n), si' = si + n,
           UNCHANGED bytes
    PROVE  Counted' /\ todo' \in Nat /\ inProg' \in Nat /\ done' \in Nat
<1>1. \A c : Matches(c, 1, si)' = Matches(c, 1, si + n)
  BY DEF Matches
<1>2. \A c : /\ Matches(c, 1, si + n) = Matches(c, 1, si) + Matches(c, si + 1, si + n)
             /\ Matches(c, 1, si) \in Nat /\ Matches(c, si + 1, si + n) \in Nat
  BY MatchesAdd
<1>3. /\ todo' = Matches(0, 1, si) + Matches(0, si + 1, si + n)
      /\ inProg' = Matches(1, 1, si) + Matches(1, si + 1, si + n)
      /\ done' = Matches(2, 1, si) + Matches(2, si + 1, si + n)
  BY DEF Count, Counted
<1>4. Counted'
  BY <1>1, <1>2, <1>3 DEF Counted
<1>5. QED BY <1>2, <1>3, <1>4

-----------------------------------------------------------------------------

LEMMA InitIInv == Init => IInv
<1> SUFFICES ASSUME Init PROVE IInv
  OBVIOUS
<1>1. TypeOK
  BY DEF Init, TypeOK
<1>2. QED BY <1>1 DEF Init, IInv

LEMMA NextIInv == IInv /\ [Next]_vars => IInv'
<1> SUFFICES ASSUME IInv, [Next]_vars PROVE IInv'
  OBVIOUS
<1>0. TypeOK /\ Len(tasks) \in Nat /\ DOMAIN tasks = 1..Len(tasks)
  BY TasksType DEF IInv
<1>1. CASE Encode
  <2>1. bytes' = [i \in DOMAIN tasks |-> Code(tasks[i])] /\ bytes' \in [1..Len(tasks) -> {0, 1, 2}]
    BY <1>0, <1>1, TasksType DEF Encode, Code, Statuses
  <2>2. si' = 0 /\ todo' = 0 /\ inProg' = 0 /\ done' = 0
    BY <1>1 DEF Encode, IInv
  <2>3. Counted'
    <3>1. \A c : Matches(c, 1, si)' = 0
      BY <2>2, MatchesNone DEF Matches
    <3>2. QED BY <2>2, <3>1 DEF Counted
  <2>4. Positions'
    BY <1>0, <1>1, <2>2 DEF Encode, Branch, Enough, Positions
  <2>5. TypeOK' /\ pc' # "encode"
    BY <1>0, <1>1, <2>1, <2>2 DEF TypeOK, Encode, Branch
  <2>6. QED BY <1>1, <2>1, <2>3, <2>4, <2>5 DEF IInv, Encode
<1>2. CASE Simd
  <2>1. Positions /\ Counted /\ bytes = [i \in DOMAIN tasks |-> Code(tasks[i])]
    BY <1>2 DEF Simd, IInv
  <2>2. Counted' /\ todo' \in Nat /\ inProg' \in Nat /\ done' \in Nat
    BY <1>0, <1>2, <2>1, RoundCounts DEF Simd, Pass, TypeOK
  <2>3. Positions'
    BY <1>0, <1>2, <2>1 DEF Simd, Pass, Branch, Enough, Positions, TypeOK
  <2>4. TypeOK' /\ pc' # "encode"
    <3>1. UNCHANGED <<tasks, bytes>> /\ Len(tasks)' = Len(tasks) /\ pc # "encode"
      BY <1>2 DEF Simd
    <3>2. si' \in Nat /\ cx' \in Int /\ pc' \in {"simd", "tail", "scalar", "end"}
      BY <1>0, <1>2 DEF TypeOK, Simd, Pass, Branch
    <3>3. QED BY <1>0, <2>2, <3>1, <3>2 DEF TypeOK
  <2>5. QED BY <1>2, <2>1, <2>2, <2>3, <2>4 DEF IInv, Simd
<1>3. CASE Rest
  BY <1>0, <1>3 DEF Rest, IInv, TypeOK, Positions, Counted, Matches, registers
<1>4. CASE Scalar
  <2>1. Positions /\ Counted /\ bytes = [i \in DOMAIN tasks |-> Code(tasks[i])]
    BY <1>4 DEF Scalar, IInv
  <2>2. Counted' /\ todo' \in Nat /\ inProg' \in Nat /\ done' \in Nat
    BY <1>0, <1>4, <2>1, RoundCounts DEF Scalar, Pass, TypeOK
  <2>3. Positions'
    BY <1>0, <1>4, <2>1 DEF Scalar, Pass, Positions, TypeOK
  <2>4. TypeOK' /\ pc' # "encode"
    <3>1. UNCHANGED <<tasks, bytes>> /\ Len(tasks)' = Len(tasks) /\ pc # "encode"
      BY <1>4 DEF Scalar
    <3>2. si' \in Nat /\ cx' \in Int /\ pc' \in {"simd", "tail", "scalar", "end"}
      BY <1>0, <1>4 DEF TypeOK, Scalar, Pass
    <3>3. QED BY <1>0, <2>2, <3>1, <3>2 DEF TypeOK
  <2>5. QED BY <1>4, <2>1, <2>2, <2>3, <2>4 DEF IInv, Scalar
<1>5. CASE UNCHANGED vars
  BY <1>5 DEF vars, registers, IInv, TypeOK, Positions, Counted, Matches
<1>6. QED
  BY <1>1, <1>2, <1>3, <1>4, <1>5 DEF Next, Round, Returned

\* The strengthened invariant.
THEOREM Inductive == Spec => []IInv
<1>1. QED BY InitIInv, NextIInv, PTL DEF Spec

\* Every variable has its type.
THEOREM TypeCorrect == Spec => []TypeOK
<1>1. IInv => TypeOK
  BY DEF IInv
<1>2. QED BY <1>1, Inductive, PTL

\* The loads of both loops stay within the slice.
THEOREM LoadsAreInBounds == Spec => []LoadsInBounds
<1>1. IInv => LoadsInBounds
  BY DEF IInv, TypeOK, Positions, LoadsInBounds
<1>2. QED BY <1>1, Inductive, PTL

\* At the end a register counts the tasks whose status has its byte.
LEMMA MatchesAreTasks ==
    ASSUME IInv, pc = "end"
    PROVE  /\ todo = Cardinality(Having("todo"))
           /\ inProg = Cardinality(Having("in_progress"))
           /\ done = Cardinality(Having("done"))
<1>1. /\ si = Len(tasks) /\ DOMAIN tasks = 1..si
      /\ \A i \in 1..si : tasks[i] \in Statuses /\ bytes[i] = Code(tasks[i])
  BY TasksType DEF IInv, TypeOK, Positions
<1>2. /\ {i \in 1..si : bytes[i] = 0} = Having("todo")
      /\ {i \in 1..si : bytes[i] = 1} = Having("in_progress")
      /\ {i \in 1..si : bytes[i] = 2} = Having("done")
  BY <1>1 DEF Having, Statuses, Code
<1>3. QED
  BY <1>2 DEF IInv, Counted, Matches

\* The counts of the assembler are those of the definition.
THEOREM CountsAreExact == Spec => []CountsExact
<1>1. IInv => CountsExact
  BY MatchesAreTasks DEF CountsExact
<1>2. QED BY <1>1, Inductive, PTL

\* No task is counted twice or not at all.
THEOREM CountsAddUpToTotal == Spec => []CountsAddUp
<1>1. IInv => CountsAddUp
  <2> SUFFICES ASSUME IInv, pc = "end" PROVE todo + inProg + done = Len(tasks)
    BY DEF CountsAddUp
  <2> DEFINE A == Having("todo")  B == Having("in_progress")  C == Having("done")
  <2>1. Len(tasks) \in Nat /\ DOMAIN tasks = 1..Len(tasks)
        /\ \A i \in 1..Len(tasks) : tasks[i] \in Statuses
    BY TasksType DEF IInv
  <2>2. IsFiniteSet(1..Len(tasks)) /\ Cardinality(1..Len(tasks)) = Len(tasks)
    BY <2>1, FS_Interval
  <2>3. A \cup B \cup C = 1..Len(tasks) /\ A \cap B = {} /\ (A \cup B) \cap C = {}
    BY <2>1 DEF Having, Statuses
  <2>4. IsFiniteSet(A) /\ IsFiniteSet(B) /\ IsFiniteSet(C)
    <3>1. A \in SUBSET (1..Len(tasks)) /\ B \in SUBSET (1..Len(tasks)) /\ C \in SUBSET (1..Len(tasks))
      BY <2>3
    <3>2. QED BY <2>2, <3>1, FS_Subset
  <2>5. todo = Cardinality(A) /\ inProg = Cardinality(B) /\ done = Cardinality(C)
    BY MatchesAreTasks
  <2> HIDE DEF A, B, C
  <2>6. /\ IsFiniteSet(A \cup B) /\ Cardinality(A \cup B) = Cardinality(A) + Cardinality(B)
        /\ Cardinality(A) \in Nat /\ Cardinality(B) \in Nat
    BY <2>3, <2>4, DisjointUnion
  <2>7. Cardinality((A \cup B) \cup C) = Cardinality(A \cup B) + Cardinality(C)
    BY <2>3, <2>4, <2>6, DisjointUnion
  <2>8. QED
    BY <2>2, <2>3, <2>5, <2>6, <2>7
<1>2. QED BY <1>1, Inductive, PTL

-----------------------------------------------------------------------------
(* How long it takes: the bytes left, and the loops still to come.         *)

StepsLeft == CASE pc = "encode" -> Len(tasks) + 3
               [] pc = "simd" -> cx + 2
               [] pc = "tail" -> cx + 2
               [] pc = "scalar" -> cx + 1
               [] pc = "end" -> 0

LEMMA RoundsAdvance ==
    ASSUME IInv, Round
    PROVE  StepsLeft' \in Nat /\ StepsLeft \in Nat /\ StepsLeft' < StepsLeft
<1>1. Len(tasks) \in Nat
  BY TasksType DEF IInv
<1>2. CASE Encode
  BY <1>1, <1>2 DEF Encode, Branch, StepsLeft
<1>3. CASE Simd
  <2>1. cx \in Nat /\ cx >= Lanes /\ pc = "simd"
    BY <1>3 DEF IInv, Positions, Simd
  <2>2. cx' = cx - Lanes /\ pc' \in {"simd", "tail"}
    BY <1>3 DEF Simd, Pass, Branch
  <2>3. QED BY <2>1, <2>2 DEF StepsLeft
<1>4. CASE Rest
  <2>1. cx \in Nat /\ pc = "tail" /\ cx' = cx /\ pc' \in {"scalar", "end"}
    BY <1>4 DEF IInv, Positions, Rest, registers
  <2>2. QED BY <2>1 DEF StepsLeft
<1>5. CASE Scalar
  <2>1. /\ cx \in Nat /\ cx > 0 /\ pc = "scalar"
        /\ cx' = cx - 1 /\ pc' \in {"scalar", "end"}
    BY <1>5 DEF IInv, Positions, Scalar, Pass
  <2>2. QED BY <2>1 DEF StepsLeft
<1>6. QED BY <1>2, <1>3, <1>4, <1>5 DEF Round

\* No list keeps the routine in its loops: every round takes it closer to the
\* return, from the start in at most Len(tasks) + 3 of them. (That a round can
\* be taken until then is Returns, which TLC checks.)
THEOREM RoundsAreBounded ==
    Spec => [][StepsLeft' \in Nat /\ StepsLeft' < StepsLeft /\ StepsLeft <= MaxTasks + 3]_vars
<1>1. IInv /\ [Next]_vars =>
          [StepsLeft' \in Nat /\ StepsLeft' < StepsLeft /\ StepsLeft <= MaxTasks + 3]_vars
  <2> SUFFICES ASSUME IInv, Round
               PROVE  StepsLeft' \in Nat /\ StepsLeft' < StepsLeft /\ StepsLeft <= MaxTasks + 3
    BY DEF Next, Returned
  <2>1. Len(tasks) \in Nat /\ Len(tasks) <= MaxTasks
    BY DEF IInv, TypeOK
  <2>2. pc # "encode" => cx \in Nat /\ si \in Nat /\ si + cx = Len(tasks)
    BY DEF IInv, TypeOK, Positions
  <2>3. StepsLeft <= MaxTasks + 3
    <3>1. pc \in {"encode", "simd", "tail", "scalar", "end"}
      BY DEF IInv, TypeOK
    <3>2. QED BY <2>1, <2>2, <3>1 DEF StepsLeft
  <2>4. QED BY <2>3, RoundsAdvance
<1>2. QED BY <1>1, Inductive, PTL DEF Spec
=============================================================================
