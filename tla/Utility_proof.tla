--------------------------- MODULE Utility_proof ----------------------------
(***************************************************************************)
(* Proofs about utility.hpp: ScopeRunner, for any number of handlers and   *)
(* stoppers, and the parsers, for lines of any length and of any bytes.    *)
(***************************************************************************)
EXTENDS ScopeRunner, HttpParsers, FiniteSetTheorems, SequenceTheorems,
        WellFoundedInduction, TLAPS

-----------------------------------------------------------------------------
(* ScopeRunner *)

\* -1 is final: a stopper that returned, and a handler that has read a negative
\* count, may rely on it.
StopIsFinal == /\ \A s \in Stoppers : pc[s] = "returned" => count = -1
               /\ \A h \in Handlers : expected[h] < 0 => count = -1

IInv == TypeOK /\ CountMatches /\ StopIsFinal

\* The count after Enter and Release is that of the handlers inside.
LEMMA InsideGrows ==
  ASSUME TypeOK, CountMatches, NEW h \in Handlers, pc[h] # "inside",
         Goto(h, "inside"), count >= 0
  PROVE  /\ Inside' = Inside \cup {h}
         /\ IsFiniteSet(Inside')
         /\ Cardinality(Inside') = count + 1
<1>1. Inside' = Inside \cup {h}
  BY DEF Inside, TypeOK, Goto
<1>2. h \notin Inside
  BY DEF Inside
<1>3. IsFiniteSet(Inside) /\ count = Cardinality(Inside)
  BY DEF CountMatches
<1> QED
  BY <1>1, <1>2, <1>3, FS_AddElement

LEMMA InsideShrinks ==
  ASSUME TypeOK, CountMatches, NEW h \in Handlers, pc[h] = "inside",
         Goto(h, "done")
  PROVE  /\ Inside' = Inside \ {h}
         /\ IsFiniteSet(Inside')
         /\ Cardinality(Inside') = count - 1
         /\ count > 0
<1>1. Inside' = Inside \ {h}
  BY DEF Inside, TypeOK, Goto
<1>2. h \in Inside
  BY DEF Inside
<1>3. IsFiniteSet(Inside) /\ count = Cardinality(Inside)
  BY <1>2 DEF CountMatches
<1>4. Inside # {}
  BY <1>2
<1>5. Cardinality(Inside) \in Nat /\ Cardinality(Inside) # 0
  BY <1>3, <1>4, FS_CardinalityType, FS_EmptySet
<1> QED
  BY <1>1, <1>2, <1>3, <1>5, FS_RemoveElement

\* A step that enters or leaves nobody does not change who is inside.
LEMMA InsideSame ==
  ASSUME TypeOK, NEW p \in Handlers \cup Stoppers, NEW label,
         p \in Handlers => pc[p] # "inside" /\ label # "inside",
         Goto(p, label)
  PROVE  Inside' = Inside
BY SeparateAssumption DEF Inside, TypeOK, Goto

LEMMA TypePreserved == TypeOK /\ CountMatches /\ [Next]_vars => TypeOK'
<1> SUFFICES ASSUME TypeOK, CountMatches, [Next]_vars PROVE TypeOK'
  OBVIOUS
<1> USE SeparateAssumption DEF TypeOK, HandlerPc, StopperPc, Goto
<1>1. ASSUME NEW h \in Handlers, Handler(h) PROVE TypeOK'
  <2>1. CASE LoadCount(h) BY <2>1 DEF LoadCount
  <2>2. CASE GiveUp(h) BY <2>2 DEF GiveUp
  <2>3. CASE CasEnter(h) BY <2>3 DEF CasEnter
  <2>4. CASE CasRetry(h) BY <2>4 DEF CasRetry
  <2>5. CASE Release(h)
    <3>1. count > 0
      BY <2>5, InsideShrinks DEF Release
    <3> QED
      BY <2>5, <3>1 DEF Release
  <2> QED BY <1>1, <2>1, <2>2, <2>3, <2>4, <2>5 DEF Handler
<1>2. ASSUME NEW s \in Stoppers, Stopper(s) PROVE TypeOK'
  <2>1. CASE CallStop(s) BY <2>1 DEF CallStop
  <2>2. CASE CasStop(s) BY <2>2 DEF CasStop
  <2>3. CASE FindStopped(s) BY <2>3 DEF FindStopped
  <2> QED BY <1>2, <2>1, <2>2, <2>3 DEF Stopper
<1>3. CASE UNCHANGED vars
  BY <1>3 DEF vars
<1> QED
  BY <1>1, <1>2, <1>3 DEF Next

LEMMA InitIInv == Init => IInv
<1> SUFFICES ASSUME Init PROVE IInv
  OBVIOUS
<1>1. TypeOK
  BY SeparateAssumption DEF Init, TypeOK, HandlerPc, StopperPc
<1>2. Inside = {} /\ count = 0
  BY DEF Init, Inside
<1>3. CountMatches
  BY <1>2, FS_EmptySet DEF CountMatches
<1>4. StopIsFinal
  BY SeparateAssumption DEF Init, StopIsFinal
<1> QED
  BY <1>1, <1>3, <1>4 DEF IInv

LEMMA NextIInv == IInv /\ [Next]_vars => IInv'
<1> SUFFICES ASSUME IInv, [Next]_vars PROVE IInv'
  OBVIOUS
<1>1. TypeOK /\ CountMatches /\ StopIsFinal /\ TypeOK'
  BY TypePreserved DEF IInv
<1> SUFFICES CountMatches' /\ StopIsFinal'
  BY <1>1 DEF IInv
<1>2. ASSUME NEW h \in Handlers, Handler(h) PROVE CountMatches' /\ StopIsFinal'
  <2>1. CASE LoadCount(h)
    <3>1. Inside' = Inside
      BY <1>1, <2>1, InsideSame DEF LoadCount
    <3>2. count < 0 => count = -1
      BY <1>1, FS_CardinalityType DEF CountMatches
    <3> QED
      BY <1>1, <2>1, <3>1, <3>2, SeparateAssumption
         DEF LoadCount, CountMatches, StopIsFinal, TypeOK, Goto
  <2>2. CASE GiveUp(h)
    <3>1. Inside' = Inside
      BY <1>1, <2>2, InsideSame DEF GiveUp
    <3> QED
      BY <1>1, <2>2, <3>1, SeparateAssumption
         DEF GiveUp, CountMatches, StopIsFinal, TypeOK, Goto
  <2>3. CASE CasEnter(h)
    <3>1. IsFiniteSet(Inside') /\ Cardinality(Inside') = count'
      BY <1>1, <2>3, InsideGrows DEF CasEnter
    <3>2. count # -1 /\ \A s \in Stoppers : pc[s] # "returned"
      BY <1>1, <2>3 DEF CasEnter, StopIsFinal, TypeOK
    <3>3. StopIsFinal'
      BY <1>1, <2>3, <3>2, SeparateAssumption DEF CasEnter, StopIsFinal, TypeOK, Goto
    <3> QED
      BY <3>1, <3>3 DEF CountMatches
  <2>4. CASE CasRetry(h)
    <3>1. Inside' = Inside
      BY <2>4 DEF CasRetry, Inside
    <3>2. count < 0 => count = -1
      BY <1>1, FS_CardinalityType DEF CountMatches
    <3> QED
      BY <1>1, <2>4, <3>1, <3>2 DEF CasRetry, CountMatches, StopIsFinal, TypeOK
  <2>5. CASE Release(h)
    <3>1. IsFiniteSet(Inside') /\ Cardinality(Inside') = count' /\ count > 0
      BY <1>1, <2>5, InsideShrinks DEF Release
    <3>2. StopIsFinal'
      BY <1>1, <2>5, <3>1, SeparateAssumption DEF Release, StopIsFinal, TypeOK, Goto
    <3> QED
      BY <3>1, <3>2 DEF CountMatches
  <2> QED
    BY <1>2, <2>1, <2>2, <2>3, <2>4, <2>5 DEF Handler
<1>3. ASSUME NEW s \in Stoppers, Stopper(s) PROVE CountMatches' /\ StopIsFinal'
  <2>0. s \notin Handlers
    BY SeparateAssumption
  <2>1. CASE CallStop(s)
    <3>1. Inside' = Inside
      BY <1>1, <2>0, <2>1, InsideSame DEF CallStop
    <3> QED
      BY <1>1, <2>1, <3>1, SeparateAssumption
         DEF CallStop, CountMatches, StopIsFinal, TypeOK, Goto
  <2>2. CASE CasStop(s)
    <3>1. Inside' = Inside
      BY <1>1, <2>0, <2>2, InsideSame DEF CasStop
    <3>2. Inside = {}
      BY <1>1, <2>2, FS_EmptySet DEF CasStop, CountMatches
    <3>3. StopIsFinal'
      BY <2>2 DEF CasStop, StopIsFinal
    <3> QED
      BY <2>2, <3>1, <3>2, <3>3, FS_EmptySet DEF CasStop, CountMatches
  <2>3. CASE FindStopped(s)
    <3>1. Inside' = Inside
      BY <1>1, <2>0, <2>3, InsideSame DEF FindStopped
    <3>2. count = -1
      BY <1>1, <2>3, FS_CardinalityType DEF FindStopped, CountMatches
    <3> QED
      BY <1>1, <2>3, <3>1, <3>2 DEF FindStopped, CountMatches, StopIsFinal
  <2> QED
    BY <1>3, <2>1, <2>2, <2>3 DEF Stopper
<1>4. CASE UNCHANGED vars
  BY <1>1, <1>4 DEF vars, CountMatches, StopIsFinal, Inside
<1> QED
  BY <1>2, <1>3, <1>4 DEF Next

\* The counter counts the handlers inside, and a stop that returned has left -1: the atomic
\* accesses of continue_lock, ~SharedLock and stop keep this, in any order.
THEOREM Invariant == Spec => []IInv
BY InitIInv, NextIInv, PTL DEF Spec

\* The count and the program counters keep their types.
THEOREM TypeCorrect == Spec => []TypeOK
<1>1. IInv => TypeOK
  BY DEF IInv
<1> QED
  BY <1>1, Invariant, PTL

\* count is the number of SharedLocks alive, or -1 when there is none.
THEOREM CountCorrect == Spec => []CountMatches
<1>1. IInv => CountMatches
  BY DEF IInv
<1> QED
  BY <1>1, Invariant, PTL

\* Once stop has returned no handler is inside.
THEOREM StopCorrect == Spec => []StopExcludes
<1>1. IInv => StopExcludes
  <2> SUFFICES ASSUME IInv, \E s \in Stoppers : pc[s] = "returned"
               PROVE  Inside = {}
    BY DEF StopExcludes
  <2>1. count = -1
    BY DEF IInv, StopIsFinal
  <2>2. IsFiniteSet(Inside) => Cardinality(Inside) # -1
    BY FS_CardinalityType
  <2> QED
    BY <2>1, <2>2 DEF IInv, CountMatches
<1> QED
  BY <1>1, Invariant, PTL

-----------------------------------------------------------------------------
(* The runner implements the abstract gate *)

Over == {h \in Handlers : pc[h] \in {"done", "skipped"}}

LEMMA GateInit == Init => Gate!Init
BY SeparateAssumption DEF Init, Gate!Init, Inside

LEMMA GateStep == IInv /\ [Next]_vars => [Gate!Next]_(Gate!vars)
<1> SUFFICES ASSUME IInv, [Next]_vars PROVE [Gate!Next]_(Gate!vars)
  OBVIOUS
<1>1. TypeOK /\ CountMatches /\ StopIsFinal
  BY DEF IInv
<1>2. count < 0 => count = -1
  BY <1>1, FS_CardinalityType DEF CountMatches
<1>3. ASSUME NEW h \in Handlers, Handler(h) PROVE [Gate!Next]_(Gate!vars)
  <2>1. CASE LoadCount(h)
    <3>1. Inside' = Inside /\ Over' = Over /\ count' = count
      BY <1>1, <2>1, SeparateAssumption DEF LoadCount, Inside, Over, TypeOK, Goto
    <3> QED
      BY <3>1 DEF Gate!vars, Over
  <2>2. CASE GiveUp(h)
    <3>1. Inside' = Inside /\ Over' = Over \cup {h} /\ count' = count
      BY <1>1, <2>2 DEF GiveUp, Inside, Over, TypeOK, Goto
    <3>2. count = -1 /\ h \notin Inside \cup Over
      BY <1>1, <2>2 DEF GiveUp, StopIsFinal, Inside, Over
    <3>3. Gate!TurnAway(h)
      BY <3>1, <3>2 DEF Gate!TurnAway, Over
    <3> QED
      BY <3>3 DEF Gate!Next
  <2>3. CASE CasEnter(h)
    <3>1. Inside' = Inside \cup {h} /\ Over' = Over
      BY <1>1, <2>3 DEF CasEnter, Inside, Over, TypeOK, Goto
    <3>2. count >= 0 /\ count' >= 0 /\ h \notin Inside \cup Over
      BY <1>1, <2>3 DEF CasEnter, Inside, Over, TypeOK
    <3>3. Gate!Enter(h)
      BY <3>1, <3>2 DEF Gate!Enter, Over
    <3> QED
      BY <3>3 DEF Gate!Next
  <2>4. CASE CasRetry(h)
    BY <2>4 DEF CasRetry, Gate!vars, Inside
  <2>5. CASE Release(h)
    <3>1. Inside' = Inside \ {h} /\ Over' = Over \cup {h} /\ h \in Inside
      BY <1>1, <2>5 DEF Release, Inside, Over, TypeOK, Goto
    <3>2. count > 0
      BY <1>1, <2>5, InsideShrinks DEF Release
    <3>3. (count >= 0)' = (count >= 0)
      BY <1>1, <2>5, <3>2 DEF Release, TypeOK
    <3>4. Gate!Leave(h)
      BY <3>1, <3>3 DEF Gate!Leave, Over
    <3> QED
      BY <3>4 DEF Gate!Next
  <2> QED
    BY <1>3, <2>1, <2>2, <2>3, <2>4, <2>5 DEF Handler
<1>4. ASSUME NEW s \in Stoppers, Stopper(s) PROVE [Gate!Next]_(Gate!vars)
  <2>1. Inside' = Inside /\ Over' = Over
    BY <1>1, <1>4, SeparateAssumption
       DEF Stopper, CallStop, CasStop, FindStopped, Inside, Over, TypeOK, Goto
  <2>2. CASE CasStop(s)
    <3>1. Inside = {} /\ count = 0 /\ count' = -1
      BY <1>1, <2>2, FS_EmptySet DEF CasStop, CountMatches
    <3>2. Gate!Close
      BY <2>1, <3>1 DEF Gate!Close, Over
    <3> QED
      BY <3>2 DEF Gate!Next
  <2>3. CASE CallStop(s) \/ FindStopped(s)
    BY <2>1, <2>3 DEF CallStop, FindStopped, Gate!vars, Over
  <2> QED
    BY <1>4, <2>2, <2>3 DEF Stopper
<1>5. CASE UNCHANGED vars
  BY <1>5 DEF vars, Gate!vars, Inside
<1> QED
  BY <1>3, <1>4, <1>5 DEF Next

\* ScopeRunner implements HandlerGate.
THEOREM RunnerIsGate == Spec => GateSpec
<1>1. Init => Gate!Init
  BY GateInit
<1>2. IInv /\ [Next]_vars => [Gate!Next]_(Gate!vars)
  BY GateStep
<1> QED
  BY <1>1, <1>2, Invariant, PTL DEF Spec, GateSpec, Gate!Spec

-----------------------------------------------------------------------------
(* Induction over a set of numbers *)

Before == {p \in Nat \X Nat : p[1] < p[2]}

LEMMA BeforeWellFounded == IsWellFoundedOn(Before, Nat)
<1>1. OpToRel(<, Nat) = Before
  BY DEF OpToRel, Before
<1> QED
  BY <1>1, NatLessThanWellFounded

LEMMA LeastNumber ==
  ASSUME NEW T, T \subseteq Nat, T # {}
  PROVE  \E x \in T : \A y \in T : x <= y
<1>1. PICK x \in T : \A y \in T : <<y, x>> \notin Before
  BY BeforeWellFounded, WFMin, Zenon
<1>2. ASSUME NEW y \in T PROVE x <= y
  <2>1. x \in Nat /\ y \in Nat /\ <<y, x>> \notin Before
    BY <1>1
  <2> QED
    BY <2>1 DEF Before
<1> QED
  BY <1>2

LEMMA SetInduction ==
  ASSUME NEW S, 0 \in S, \A n \in Nat : n \in S => n + 1 \in S
  PROVE  Nat \subseteq S
<1> DEFINE T == Nat \ S
<1>1. SUFFICES ASSUME T # {} PROVE FALSE
  OBVIOUS
<1>2. T \subseteq Nat
  OBVIOUS
<1>3. PICK x \in T : \A y \in T : x <= y
  <2> HIDE DEF T
  <2> QED
    BY <1>1, <1>2, LeastNumber
<1>4. x - 1 \in Nat /\ x - 1 + 1 = x
  OBVIOUS
<1>5. x - 1 \in S
  BY <1>3, <1>4
<1> QED
  BY <1>4, <1>5

LEMMA RangeInduction ==
  ASSUME NEW a \in Nat, NEW b \in Nat, NEW S, a \in S,
         \A n \in a..(b - 1) : n \in S => n + 1 \in S
  PROVE  a..b \subseteq S
<1> DEFINE T == {n \in Nat : a + n <= b => a + n \in S}
<1>1. 0 \in T
  OBVIOUS
<1>2. ASSUME NEW n \in Nat, n \in T PROVE n + 1 \in T
  <2>1. ASSUME a + (n + 1) <= b PROVE a + (n + 1) \in S
    <3>1. a + n \in a..(b - 1) /\ a + n <= b /\ (a + n) + 1 = a + (n + 1)
      BY <2>1
    <3>2. a + n \in S
      BY <1>2, <3>1
    <3>3. (a + n) + 1 \in S
      BY <3>1, <3>2
    <3> QED
      BY <3>1, <3>3
  <2> QED
    BY <2>1
<1> HIDE DEF T
<1>3. Nat \subseteq T
  BY <1>1, <1>2, SetInduction
<1>4. ASSUME NEW x \in a..b PROVE x \in S
  <2>1. x - a \in T /\ a + (x - a) = x
    BY <1>3
  <2> QED
    BY <2>1 DEF T
<1> QED
  BY <1>4

-----------------------------------------------------------------------------
(* Texts, and the parts of a text *)

Text == Seq(Int)

\* The text t stands in s behind the first p characters.
Part(s, p, t) == p + Len(t) <= Len(s) /\ \A j \in 1..Len(t) : s[p + j] = t[j]

LEMMA TextType ==
  ASSUME NEW s \in Text
  PROVE  /\ Len(s) \in Nat /\ DOMAIN s = 1..Len(s)
         /\ \A i \in 1..Len(s) : s[i] \in Int
         /\ (Len(s) = 0 <=> s = <<>>)
<1>1. Len(s) \in Nat /\ DOMAIN s = 1..Len(s)
  BY LenProperties DEF Text
<1>2. ASSUME NEW i \in 1..Len(s) PROVE s[i] \in Int
  BY ElementOfSeq DEF Text
<1>3. Len(s) = 0 <=> s = <<>>
  BY EmptySeq DEF Text
<1> QED
  BY <1>1, <1>2, <1>3

LEMMA NoText == <<>> \in Text /\ Len(<<>>) = 0
BY EmptySeq DEF Text

LEMMA OneCharacter ==
  ASSUME NEW c \in Int
  PROVE  <<c>> \in Text /\ Len(<<c>>) = 1 /\ <<c>>[1] = c
BY DEF Text

LEMMA Concat ==
  ASSUME NEW s \in Text, NEW t \in Text
  PROVE  /\ s \o t \in Text /\ Len(s \o t) = Len(s) + Len(t)
         /\ \A i \in 1..Len(s) + Len(t) :
              (s \o t)[i] = IF i <= Len(s) THEN s[i] ELSE t[i - Len(s)]
BY ConcatProperties DEF Text

LEMMA WholePart ==
  ASSUME NEW s \in Text
  PROVE  Part(s, 0, s)
BY TextType DEF Part

LEMMA PartsOf ==
  ASSUME NEW s \in Text, NEW p \in Nat, NEW t \in Text, NEW u \in Text, Part(s, p, t \o u)
  PROVE  Part(s, p, t) /\ Part(s, p + Len(t), u)
<1>1. Len(t) \in Nat /\ Len(u) \in Nat /\ Len(s) \in Nat /\ Len(t \o u) = Len(t) + Len(u)
  BY TextType, Concat
<1>2. p + Len(t) <= Len(s) /\ (p + Len(t)) + Len(u) <= Len(s)
  BY <1>1 DEF Part
<1>3. ASSUME NEW j \in 1..Len(t) PROVE s[p + j] = t[j]
  <2>1. j \in 1..Len(t) + Len(u) /\ j \in 1..Len(t \o u) /\ j <= Len(t)
    BY <1>1
  <2>2. s[p + j] = (t \o u)[j]
    BY <2>1 DEF Part
  <2>3. (t \o u)[j] = t[j]
    BY <2>1, Concat
  <2> QED
    BY <2>2, <2>3
<1>4. ASSUME NEW j \in 1..Len(u) PROVE s[(p + Len(t)) + j] = u[j]
  <2> DEFINE i == Len(t) + j
  <2>1. i \in 1..Len(t) + Len(u) /\ i \in 1..Len(t \o u) /\ ~(i <= Len(t)) /\ i - Len(t) = j
        /\ p + i = (p + Len(t)) + j
    BY <1>1
  <2> HIDE DEF i
  <2>2. s[p + i] = (t \o u)[i]
    BY <2>1 DEF Part
  <2>3. (t \o u)[i] = u[j]
    BY <2>1, Concat
  <2> QED
    BY <2>1, <2>2, <2>3
<1> QED
  BY <1>2, <1>3, <1>4 DEF Part

LEMMA OnePart ==
  ASSUME NEW s \in Text, NEW p \in Nat, NEW c \in Int, Part(s, p, <<c>>)
  PROVE  p + 1 <= Len(s) /\ s[p + 1] = c
BY OneCharacter DEF Part

LEMMA SubSeqPart ==
  ASSUME NEW s \in Text, NEW p \in Nat, NEW t \in Text, Part(s, p, t)
  PROVE  SubSeq(s, p + 1, p + Len(t)) = t
<1> DEFINE n == Len(t)
           u == SubSeq(s, p + 1, p + n)
<1>1. n \in Nat /\ Len(s) \in Nat /\ p + n <= Len(s)
  BY TextType DEF Part
<1>2. \A i \in (p + 1)..(p + n) : s[i] \in Int
  BY <1>1, TextType
<1>3. p + 1 \in Int /\ p + n \in Int
  BY <1>1
<1>4. /\ u \in Seq(Int) /\ Len(u) = IF p + 1 <= p + n THEN (p + n) - (p + 1) + 1 ELSE 0
      /\ \A i \in 1..(p + n) - (p + 1) + 1 : u[i] = s[(p + 1) + i - 1]
  <2> HIDE DEF n
  <2> QED
    BY <1>2, <1>3, SubSeqProperties
<1>5. Len(u) = n
  <2> HIDE DEF u, n
  <2> QED
    BY <1>1, <1>4
<1>6. ASSUME NEW i \in 1..Len(u) PROVE u[i] = t[i]
  <2>1. i \in 1..(p + n) - (p + 1) + 1 /\ (p + 1) + i - 1 = p + i /\ i \in 1..n
    BY <1>1, <1>5
  <2>2. u[i] = s[p + i]
    <3> HIDE DEF u
    <3> QED
      BY <1>4, <2>1
  <2>3. s[p + i] = t[i]
    BY <2>1 DEF Part
  <2> QED
    BY <2>2, <2>3
<1> HIDE DEF u, n
<1>7. t \in Seq(Int) /\ n = Len(t)
  BY DEF Text, n
<1>8. u = t
  BY <1>4, <1>5, <1>6, <1>7, SeqEqual
<1> QED
  BY <1>8 DEF u, n

\* substr takes what stands there.
LEMMA SubstrPart ==
  ASSUME NEW s \in Text, NEW p \in Nat, NEW t \in Text, Part(s, p, t)
  PROVE  Substr(s, p, Len(t)) = t
<1>1. Len(t) \in Nat /\ Len(s) \in Nat /\ p + Len(t) <= Len(s)
  BY TextType DEF Part
<1>2. ~(p > Len(s)) /\ ~(Len(t) < 0 \/ p + Len(t) > Len(s))
  BY <1>1
<1> QED
  BY <1>2, SubSeqPart DEF Substr

LEMMA LeastIs ==
  ASSUME NEW T, T \subseteq Nat, NEW x \in T, \A y \in T : x <= y
  PROVE  Min(T) = x
<1> DEFINE m == CHOOSE x_1 \in T : \A y \in T : x_1 <= y
<1>1. m \in T /\ \A y \in T : m <= y
  OBVIOUS
<1>2. m \in Nat /\ x \in Nat /\ m <= x /\ x <= m
  BY <1>1
<1>3. m = x
  BY <1>2
<1> QED
  BY <1>3 DEF Min

LEMMA FoundAt ==
  ASSUME NEW s \in Text, NEW chr \in Int, NEW from \in Nat, NEW p \in Nat, from <= p,
         p + 1 <= Len(s), s[p + 1] = chr,
         \A q \in (from + 1)..p : s[q] # chr
  PROVE  Find(s, chr, from) = p
<1> DEFINE found == {c \in Positions(s) : c >= from /\ At(s, c) = chr}
<1>1. Len(s) \in Nat
  BY TextType
<1>2. p \in found
  BY <1>1 DEF Positions, At
<1>3. found \subseteq Nat
  BY <1>1 DEF Positions
<1>4. ASSUME NEW y \in found PROVE p <= y
  <2>1. y \in Nat /\ y >= from /\ s[y + 1] = chr
    BY <1>3 DEF At
  <2>2. ASSUME ~(p <= y) PROVE FALSE
    <3>1. y + 1 \in (from + 1)..p
      BY <2>1, <2>2
    <3> QED
      BY <2>1, <3>1
  <2> QED
    BY <2>2
<1> HIDE DEF found
<1>5. Min(found) = p
  BY <1>2, <1>3, <1>4, LeastIs
<1> QED
  BY <1>2, <1>5 DEF Find, found

\* What find returns.
LEMMA FindType ==
  ASSUME NEW s \in Text, NEW chr \in Int, NEW from \in Nat
  PROVE  \/ /\ Find(s, chr, from) = npos
            /\ \A q \in (from + 1)..Len(s) : s[q] # chr
         \/ /\ Find(s, chr, from) \in Nat /\ Find(s, chr, from) >= from
            /\ Find(s, chr, from) + 1 <= Len(s)
<1> DEFINE found == {c \in Positions(s) : c >= from /\ At(s, c) = chr}
<1>1. Len(s) \in Nat
  BY TextType
<1>2. found \subseteq Nat
  BY <1>1 DEF Positions
<1>3. CASE found = {}
  <2>1. ASSUME NEW q \in (from + 1)..Len(s) PROVE s[q] # chr
    <3>1. q - 1 \in Positions(s) /\ q - 1 >= from /\ (q - 1) + 1 = q
      BY <1>1 DEF Positions
    <3> QED
      BY <1>3, <3>1 DEF At
  <2> QED
    BY <1>3, <2>1 DEF Find
<1>4. CASE found # {}
  <2> HIDE DEF found
  <2>1. PICK x \in found : \A y \in found : x <= y
    BY <1>2, <1>4, LeastNumber
  <2>2. Min(found) = x
    BY <1>2, <2>1, LeastIs
  <2>3. Find(s, chr, from) = x
    BY <1>4, <2>2 DEF Find, found
  <2>4. x \in Nat /\ x >= from /\ x + 1 <= Len(s)
    BY <1>1, <2>1 DEF found, Positions
  <2> QED
    BY <2>3, <2>4
<1> QED
  BY <1>3, <1>4

LEMMA HasNot ==
  ASSUME NEW s \in Text, NEW chr \in Int
  PROVE  ~Has(s, chr) <=> \A q \in 1..Len(s) : s[q] # chr
<1>1. ASSUME Has(s, chr) PROVE \E q \in 1..Len(s) : s[q] = chr
  <2> DEFINE found == {c \in Positions(s) : c >= 0 /\ At(s, c) = chr}
  <2>1. found # {}
    BY <1>1 DEF Has, Find
  <2>2. PICK c \in found : TRUE
    BY <2>1
  <2>3. c + 1 \in 1..Len(s) /\ s[c + 1] = chr
    BY <2>2, TextType DEF Positions, At
  <2> QED
    BY <2>3
<1>2. ASSUME ~Has(s, chr) PROVE \A q \in 1..Len(s) : s[q] # chr
  <2>1. Find(s, chr, 0) = npos /\ npos \notin Nat /\ 0 + 1 = 1
    BY <1>2 DEF Has, npos
  <2> QED
    BY <2>1, FindType
<1> QED
  BY <1>1, <1>2
LEMMA ConcatNothing ==
  ASSUME NEW s \in Text
  PROVE  s \o <<>> = s /\ <<>> \o s = s
BY ConcatEmptySeq DEF Text

-----------------------------------------------------------------------------
(* FlattenSeq: what the first so many of some texts make *)

Texts == Seq(Text)

\* f is the recursive function inside FlattenSeq, for the first n of them.
Flattens(f, s, n) == f = [i \in 1..n |-> IF i = 1 THEN s[i] ELSE f[i - 1] \o s[i]]

LEMMA FlattenExists ==
  ASSUME NEW s
  PROVE  \A n \in Nat : \E f : Flattens(f, s, n)
<1> DEFINE T == {n \in Nat : \E f : Flattens(f, s, n)}
<1>1. 0 \in T
  <2>1. Flattens([i \in 1..0 |-> 0], s, 0)
    BY DEF Flattens
  <2> QED
    BY <2>1
<1>2. ASSUME NEW n \in Nat, n \in T PROVE n + 1 \in T
  <2>1. PICK f : Flattens(f, s, n)
    BY <1>2
  <2> DEFINE next == IF n = 0 THEN s[1] ELSE f[n] \o s[n + 1]
             g == [i \in 1..n + 1 |-> IF i = n + 1 THEN next ELSE f[i]]
  <2>2. ASSUME NEW i \in 1..n + 1 PROVE g[i] = IF i = 1 THEN s[i] ELSE g[i - 1] \o s[i]
    <3>1. CASE i = n + 1 /\ n = 0
      BY <3>1
    <3>2. CASE i = n + 1 /\ n # 0
      <4>1. n \in 1..n + 1 /\ n # n + 1 /\ i - 1 = n /\ i # 1
        BY <3>2
      <4>2. g[n] = f[n] /\ g[i] = f[n] \o s[n + 1]
        BY <4>1, <3>2
      <4> HIDE DEF g
      <4> QED
        BY <4>1, <4>2, <3>2, Zenon
    <3>3. CASE i # n + 1
      <4>1. i \in 1..n
        BY <3>3
      <4>2. f[i] = IF i = 1 THEN s[i] ELSE f[i - 1] \o s[i]
        BY <2>1, <4>1 DEF Flattens
      <4>3. i # 1 => i - 1 \in 1..n + 1 /\ i - 1 # n + 1
        BY <4>1
      <4> QED
        BY <3>3, <4>2, <4>3
    <3> QED
      BY <3>1, <3>2, <3>3
  <2>3. g = [i \in 1..n + 1 |-> IF i = 1 THEN s[i] ELSE g[i - 1] \o s[i]]
    <3> DEFINE h == [i \in 1..n + 1 |-> IF i = 1 THEN s[i] ELSE g[i - 1] \o s[i]]
    <3>1. DOMAIN g = 1..n + 1 /\ g = [i \in DOMAIN g |-> g[i]]
      OBVIOUS
    <3> HIDE DEF g
    <3> QED
      BY <2>2, <3>1, Zenon
  <2>4. \E h : Flattens(h, s, n + 1)
    BY <2>3, Zenon DEF Flattens
  <2> QED
    BY <2>4
<1> HIDE DEF T
<1>3. Nat \subseteq T
  BY <1>1, <1>2, SetInduction
<1> QED
  BY <1>3 DEF T

\* The first n texts, joined.
Joined(s) ==
  [n \in 0..Len(s) |-> IF n = 0 THEN <<>>
                       ELSE (CHOOSE f : Flattens(f, s, Len(s)))[n]]

LEMMA JoinedRun ==
  ASSUME NEW s \in Texts
  PROVE  /\ Len(s) \in Nat
         /\ Joined(s)[0] = <<>> /\ FlattenSeq(s) = Joined(s)[Len(s)]
         /\ \A n \in 1..Len(s) : /\ s[n] \in Text
                                 /\ Joined(s)[n - 1] \in Text /\ Joined(s)[n] \in Text
                                 /\ Joined(s)[n] = Joined(s)[n - 1] \o s[n]
<1> DEFINE N == Len(s)
           f == CHOOSE f : Flattens(f, s, N)
           J == Joined(s)
<1>1. N \in Nat /\ \A n \in 1..N : s[n] \in Text
  BY LenProperties, ElementOfSeq DEF Texts
<1>2. Flattens(f, s, N)
  BY <1>1, FlattenExists, Zenon
<1>3. J[0] = <<>> /\ \A n \in 1..N : J[n] = f[n]
  BY <1>1 DEF Joined
<1>4. FlattenSeq(s) = J[N]
  <2>1. CASE N = 0
    <3>1. s = <<>>
      BY <2>1, EmptySeq DEF Texts
    <3> QED
      BY <1>3, <2>1, <3>1 DEF FlattenSeq
  <2>2. CASE N # 0
    <3>1. FlattenSeq(s) = f[N]
      BY <2>2 DEF FlattenSeq, Flattens
    <3> QED
      BY <1>1, <1>3, <2>2, <3>1
  <2> QED
    BY <2>1, <2>2
<1> HIDE DEF f, J
<1>5. \A n \in 1..N : f[n] = IF n = 1 THEN s[n] ELSE f[n - 1] \o s[n]
  <2> HIDE DEF N
  <2> QED
    BY <1>2 DEF Flattens
<1>6. ASSUME NEW n \in 1..N, J[n - 1] \in Text PROVE J[n] = J[n - 1] \o s[n]
  <2>1. CASE n = 1
    <3>1. J[n - 1] = <<>> /\ J[n] = s[1] /\ s[1] \in Text
      BY <1>1, <1>3, <1>5, <2>1
    <3>2. <<>> \o s[1] = s[1]
      BY <3>1, ConcatNothing
    <3> QED
      BY <2>1, <3>1, <3>2, Zenon
  <2>2. CASE n # 1
    <3>1. n - 1 \in 1..N
      BY <1>1, <2>2
    <3>2. J[n - 1] = f[n - 1] /\ J[n] = f[n]
      BY <1>3, <3>1
    <3> QED
      BY <1>5, <2>2, <3>2, Zenon
  <2> QED
    BY <2>1, <2>2
<1> DEFINE T == {n \in Nat : n <= N => J[n] \in Text}
<1>7. Nat \subseteq T
  <2>1. 0 \in T
    BY <1>3, NoText
  <2>2. ASSUME NEW n \in Nat, n \in T, NEW m, m = n + 1, m <= N PROVE J[m] \in Text
    <3>1. m \in 1..N /\ m - 1 = n
      BY <1>1, <2>2
    <3>2. J[m - 1] \in Text
      BY <1>1, <2>2, <3>1
    <3> HIDE DEF T
    <3>3. J[m] = J[m - 1] \o s[m] /\ s[m] \in Text
      BY <1>1, <1>6, <3>1, <3>2
    <3> QED
      BY <3>2, <3>3, Concat, Zenon
  <2>3. ASSUME NEW n \in Nat, n \in T PROVE n + 1 \in T
    BY <2>2, <2>3
  <2> HIDE DEF T
  <2> QED
    BY <2>1, <2>3, SetInduction
<1>8. \A n \in 1..N : J[n - 1] \in Text /\ J[n] \in Text
  BY <1>1, <1>7
<1> QED
  BY <1>1, <1>3, <1>4, <1>6, <1>8 DEF J

LEMMA JoinedType ==
  ASSUME NEW s \in Texts, NEW n \in 0..Len(s)
  PROVE  Joined(s)[n] \in Text
<1>1. Len(s) \in Nat /\ Joined(s)[0] = <<>>
  BY JoinedRun
<1>2. CASE n = 0
  BY <1>1, <1>2, NoText
<1>3. CASE n # 0
  <2>1. n \in 1..Len(s)
    BY <1>1, <1>3
  <2> QED
    BY <2>1, JoinedRun
<1> QED
  BY <1>2, <1>3

LEMMA PartGrows ==
  ASSUME NEW s \in Text, NEW p \in Nat, NEW t \in Text, Part(s, p, t), NEW u \in Text
  PROVE  Part(s \o u, p, t)
<1>1. Len(s) \in Nat /\ Len(t) \in Nat /\ Len(u) \in Nat /\ Len(s \o u) = Len(s) + Len(u)
  BY TextType, Concat
<1>2. ASSUME NEW j \in 1..Len(t) PROVE (s \o u)[p + j] = t[j]
  <2> DEFINE i == p + j
  <2>1. i \in 1..Len(s) + Len(u) /\ i <= Len(s)
    BY <1>1 DEF Part
  <2> HIDE DEF i
  <2>2. (s \o u)[i] = s[i]
    BY <2>1, Concat
  <2>3. s[i] = t[j]
    BY DEF Part, i
  <2> QED
    BY <2>2, <2>3 DEF i
<1>3. p + Len(t) <= Len(s \o u)
  BY <1>1 DEF Part
<1> QED
  BY <1>2, <1>3 DEF Part

LEMMA PartAtEnd ==
  ASSUME NEW s \in Text, NEW t \in Text
  PROVE  Part(s \o t, Len(s), t)
<1>1. s \o t \in Text /\ 0 \in Nat /\ Len(s) \in Nat /\ 0 + Len(s) = Len(s)
  BY TextType, Concat
<1>2. Part(s \o t, 0, s \o t)
  BY <1>1, WholePart
<1>3. Part(s \o t, 0 + Len(s), t)
  BY <1>1, <1>2, PartsOf
<1> QED
  BY <1>1, <1>3

\* Each text stands behind those before it.
LEMMA JoinedParts ==
  ASSUME NEW s \in Texts, NEW n \in 1..Len(s)
  PROVE  /\ Len(Joined(s)[n - 1]) \in Nat
         /\ Len(Joined(s)[n]) = Len(Joined(s)[n - 1]) + Len(s[n])
         /\ Part(FlattenSeq(s), Len(Joined(s)[n - 1]), s[n])
<1> DEFINE N == Len(s)
           J == Joined(s)
           p == Len(J[n - 1])
           T == {m \in Nat : Part(J[m], p, s[n])}
<1>1. /\ N \in Nat /\ FlattenSeq(s) = J[N]
      /\ \A m \in 1..N : /\ s[m] \in Text /\ J[m - 1] \in Text /\ J[m] \in Text
                         /\ J[m] = J[m - 1] \o s[m]
  BY JoinedRun
<1> HIDE DEF J, N
<1>2. n \in 1..N
  BY DEF N
<1>3. /\ s[n] \in Text /\ J[n - 1] \in Text /\ J[n] = J[n - 1] \o s[n] /\ p \in Nat
      /\ n \in Nat /\ Len(s[n]) \in Nat
  <2>1. s[n] \in Text /\ J[n - 1] \in Text /\ J[n] = J[n - 1] \o s[n]
    BY <1>1, <1>2
  <2>2. p \in Nat /\ Len(s[n]) \in Nat
    BY <2>1, TextType
  <2> QED
    BY <1>1, <1>2, <2>1, <2>2
<1>4. n \in T
  BY <1>3, PartAtEnd
<1>5. ASSUME NEW m \in n..(N - 1), m \in T PROVE m + 1 \in T
  <2>1. m + 1 \in 1..N /\ (m + 1) - 1 = m /\ m + 1 \in Nat
    BY <1>1, <1>2
  <2>2. s[m + 1] \in Text /\ J[m] \in Text /\ J[m + 1] = J[m] \o s[m + 1]
    BY <1>1, <2>1
  <2>3. Part(J[m], p, s[n])
    BY <1>5
  <2> HIDE DEF p
  <2>4. Part(J[m] \o s[m + 1], p, s[n])
    BY <1>3, <2>2, <2>3, PartGrows
  <2> QED
    BY <2>1, <2>2, <2>4
<1> HIDE DEF T
<1>6. n..N \subseteq T
  BY <1>1, <1>3, <1>4, <1>5, RangeInduction
<1>7. N \in T
  BY <1>1, <1>2, <1>6
<1>8. Part(J[N], p, s[n])
  BY <1>7 DEF T
<1>9. Len(J[n]) = p + Len(s[n])
  BY <1>3, Concat
<1> QED
  BY <1>1, <1>3, <1>8, <1>9 DEF J, N, p

LEMMA FlattenType ==
  ASSUME NEW s \in Texts
  PROVE  FlattenSeq(s) \in Text
<1>1. Len(s) \in Nat /\ FlattenSeq(s) = Joined(s)[Len(s)]
  BY JoinedRun
<1>2. Len(s) \in 0..Len(s)
  BY <1>1
<1> QED
  BY <1>1, <1>2, JoinedType

LEMMA FlattenTwo ==
  ASSUME NEW s \in Texts, Len(s) = 2
  PROVE  FlattenSeq(s) = s[1] \o s[2] /\ s[1] \in Text /\ s[2] \in Text
<1>1. 1 \in 1..Len(s) /\ 1 - 1 = 0 /\ 2 \in 1..Len(s) /\ 2 - 1 = 1
  OBVIOUS
<1>2. /\ FlattenSeq(s) = Joined(s)[2] /\ s[1] \in Text /\ s[2] \in Text
      /\ Joined(s)[1] = <<>> \o s[1]
      /\ Joined(s)[2] = Joined(s)[1] \o s[2]
  BY <1>1, JoinedRun
<1> QED
  BY <1>2, ConcatNothing

LEMMA FlattenNone == FlattenSeq(<<>>) = <<>>
BY NoText DEF FlattenSeq

-----------------------------------------------------------------------------
(* Percent *)

Byte == 0..255

\* What Percent::encode writes.
Safe == {c \in Byte : Unreserved(c)} \cup {PERCENT}

LEMMA HexPair ==
  ASSUME NEW c \in Byte
  PROVE  /\ HexChar(c \div 16) \in Safe /\ HexChar(c % 16) \in Safe
         /\ StrToL(HexChar(c \div 16), HexChar(c % 16)) = c
<1> DEFINE h == c \div 16
           l == c % 16
<1>1. h \in 0..15 /\ l \in 0..15 /\ 16 * h + l = c
  BY DEF Byte
<1> HIDE DEF h, l
<1>2. ASSUME NEW d \in 0..15 PROVE HexChar(d) \in Safe /\ Hex(HexChar(d)) = d
  <2>1. CASE d < 10
    BY <2>1 DEF HexChar, Hex, Safe, Byte, Unreserved, Digit, Letter
  <2>2. CASE ~(d < 10)
    BY <2>2 DEF HexChar, Hex, Safe, Byte, Unreserved, Digit, Letter
  <2> QED
    BY <2>1, <2>2
<1>3. StrToL(HexChar(h), HexChar(l)) = 16 * h + l
  <2> DEFINE a == HexChar(h)
             b == HexChar(l)
  <2>1. Hex(a) = h /\ Hex(b) = l
    BY <1>1, <1>2
  <2> HIDE DEF a, b
  <2>2. Hex(a) >= 0 /\ Hex(b) >= 0 /\ ~(Hex(b) < 0)
    BY <1>1, <2>1
  <2>3. a \notin (9..13) \cup {SPACE, PLUS} /\ a # MINUS
    BY <1>1 DEF a, HexChar, SPACE, PLUS, MINUS
  <2>4. StrToL(a, b) = 16 * Hex(a) + Hex(b)
    BY <2>2, <2>3, Zenon DEF StrToL
  <2> QED
    BY <2>1, <2>4 DEF a, b
<1> QED
  BY <1>1, <1>2, <1>3 DEF h, l

LEMMA SafeBytes ==
  /\ Safe \subseteq Byte
  /\ \A c \in Safe : c \notin {SPACE, QUOTE, AMPERSAND, PLUS, SEMICOLON, EQUALS}
BY DEF Safe, Byte, Unreserved, Digit, Letter, PERCENT, SPACE, QUOTE, AMPERSAND, PLUS,
       SEMICOLON, EQUALS

LEMMA EncodedType ==
  ASSUME NEW c \in Byte
  PROVE  /\ Encoded(c) \in Seq(Safe) /\ Encoded(c) \in Text
         /\ \/ /\ Encoded(c) = <<c>> /\ Unreserved(c) /\ Len(Encoded(c)) = 1
               /\ c # PERCENT /\ c # PLUS
            \/ /\ ~Unreserved(c)
               /\ Encoded(c) = <<PERCENT, HexChar(c \div 16), HexChar(c % 16)>>
               /\ Len(Encoded(c)) = 3
<1>1. CASE Unreserved(c)
  <2>1. Encoded(c) = <<c>> /\ c \in Safe
    BY <1>1 DEF Encoded, Safe
  <2>2. c # PERCENT /\ c # PLUS
    BY <1>1 DEF Unreserved, Digit, Letter, PERCENT, PLUS, Byte
  <2>3. <<c>> \in Seq(Safe) /\ <<c>> \in Text /\ Len(<<c>>) = 1
    BY <2>1 DEF Text, Byte
  <2> QED
    BY <1>1, <2>1, <2>2, <2>3
<1>2. CASE ~Unreserved(c)
  <2> DEFINE a == HexChar(c \div 16)
             b == HexChar(c % 16)
  <2>1. Encoded(c) = <<PERCENT, a, b>>
    BY <1>2 DEF Encoded
  <2>2. a \in Safe /\ b \in Safe /\ PERCENT \in Safe
    BY HexPair DEF Safe
  <2> HIDE DEF a, b
  <2>3. a \in Int /\ b \in Int /\ PERCENT \in Int
    BY <2>2, SafeBytes DEF Byte
  <2>4. <<PERCENT, a, b>> \in Seq(Safe) /\ <<PERCENT, a, b>> \in Text /\ Len(<<PERCENT, a, b>>) = 3
    BY <2>2, <2>3 DEF Text
  <2> QED
    BY <1>2, <2>1, <2>4 DEF a, b
<1> QED
  BY <1>1, <1>2

\* The codes of the bytes of s.
Codes(s) == [i \in DOMAIN s |-> Encoded(s[i])]

LEMMA CodesType ==
  ASSUME NEW s \in Seq(Byte)
  PROVE  /\ s \in Text /\ Len(s) \in Nat /\ \A i \in 1..Len(s) : s[i] \in Byte
         /\ Codes(s) \in Texts /\ Len(Codes(s)) = Len(s)
         /\ \A i \in 1..Len(s) : Codes(s)[i] = Encoded(s[i])
         /\ Encode(s) = FlattenSeq(Codes(s)) /\ Encode(s) \in Text
<1>1. Len(s) \in Nat /\ DOMAIN s = 1..Len(s) /\ \A i \in 1..Len(s) : s[i] \in Byte
  BY LenProperties, ElementOfSeq
<1>2. s \in Text
  <2>1. Byte \subseteq Int
    BY DEF Byte
  <2> QED
    BY <2>1, SeqMonotonic, Zenon DEF Text
<1>3. \A i \in 1..Len(s) : Encoded(s[i]) \in Text
  BY <1>1, EncodedType
<1> DEFINE t == [i \in 1..Len(s) |-> Encoded(s[i])]
<1>4. t \in Seq(Text)
  BY <1>1, <1>3
<1>5. Len(t) = Len(s) /\ \A i \in 1..Len(s) : t[i] = Encoded(s[i])
  BY <1>1
<1>6. Codes(s) = t
  BY <1>1 DEF Codes
<1>7. Encode(s) = FlattenSeq(Codes(s))
  BY DEF Encode, Codes
<1> HIDE DEF t
<1>8. Codes(s) \in Texts
  BY <1>4, <1>6 DEF Texts
<1>9. Encode(s) \in Text
  BY <1>7, <1>8, FlattenType
<1> QED
  BY <1>1, <1>2, <1>5, <1>6, <1>7, <1>8, <1>9

\* What the recursive function inside Percent::decode has at i, when it is f.
DecodeAt(f, s, i) ==
  IF i > Len(s) THEN <<>>
  ELSE IF s[i] = PERCENT /\ TwoFollow(s, i)
       THEN <<StrToL(s[i + 1], s[i + 2])>> \o f[i + 3]
       ELSE <<IF s[i] = PLUS THEN SPACE ELSE s[i]>> \o f[i + 1]
Decodes(f, s, a) == f = [i \in a..(Len(s) + 1) |-> DecodeAt(f, s, i)]

LEMMA DecodeExists ==
  ASSUME NEW s \in Text
  PROVE  \E f : Decodes(f, s, 1)
<1> DEFINE N == Len(s)
           T == {n \in Nat : n <= N => \E f : Decodes(f, s, N + 1 - n)}
<1>1. N \in Nat
  BY TextType
<1>2. 0 \in T
  <2> DEFINE g == [i \in (N + 1)..(N + 1) |-> <<>>]
  <2>1. \A i \in (N + 1)..(N + 1) : DecodeAt(g, s, i) = <<>>
    BY <1>1 DEF DecodeAt
  <2>2. g = [i \in (N + 1)..(N + 1) |-> DecodeAt(g, s, i)]
    BY <2>1
  <2> HIDE DEF g
  <2>3. Decodes(g, s, N + 1)
    BY <2>2 DEF Decodes
  <2>4. N + 1 - 0 = N + 1
    BY <1>1
  <2>5. \E f : Decodes(f, s, N + 1 - 0)
    BY <2>3, <2>4, Zenon
  <2> QED
    BY <2>5
<1>3. ASSUME NEW n \in Nat, n \in T, n + 1 <= N PROVE \E f : Decodes(f, s, N + 1 - (n + 1))
  <2> DEFINE a == N + 1 - n
             b == N + 1 - (n + 1)
  <2>1. a \in 2..(N + 1) /\ b \in 1..N /\ a = b + 1 /\ n <= N
    BY <1>1, <1>3
  <2>2. PICK f : Decodes(f, s, a)
    BY <1>3, <2>1
  <2> HIDE DEF a, b
  <2>3. \A i \in a..(N + 1) : f[i] = DecodeAt(f, s, i)
    BY <2>2 DEF Decodes
  <2> DEFINE v == DecodeAt(f, s, b)
             g == [i \in b..(N + 1) |-> IF i = b THEN v ELSE f[i]]
  <2> HIDE DEF v
  <2>4. ASSUME NEW i \in b..(N + 1) PROVE g[i] = DecodeAt(g, s, i)
    <3>1. g[i] = DecodeAt(f, s, i)
      BY <2>1, <2>3 DEF v
    <3>2. i <= N => g[i + 1] = f[i + 1]
      BY <2>1
    <3>3. i + 1 < N => g[i + 3] = f[i + 3]
      BY <1>1, <2>1
    <3> HIDE DEF g
    <3>4. CASE i > N
      BY <3>1, <3>4 DEF DecodeAt
    <3>5. CASE ~(i > N)
      <4>1. i <= N
        BY <1>1, <2>1, <3>5
      <4> QED
        BY <3>1, <3>2, <3>3, <3>5, <4>1 DEF DecodeAt, TwoFollow
    <3> QED
      BY <3>4, <3>5
  <2>5. g = [i \in b..(N + 1) |-> DecodeAt(g, s, i)]
    <3> DEFINE h == [i \in b..(N + 1) |-> DecodeAt(g, s, i)]
    <3>1. DOMAIN g = b..(N + 1) /\ g = [i \in DOMAIN g |-> g[i]]
      OBVIOUS
    <3> HIDE DEF g
    <3> QED
      BY <2>4, <3>1, Zenon
  <2>6. Decodes(g, s, b)
    <3> HIDE DEF g
    <3> QED
      BY <2>5 DEF Decodes
  <2> QED
    BY <2>6 DEF b
<1>4. ASSUME NEW n \in Nat, n \in T PROVE n + 1 \in T
  BY <1>3, <1>4
<1> HIDE DEF T
<1>5. Nat \subseteq T
  BY <1>2, <1>4, SetInduction
<1>6. N \in T
  BY <1>1, <1>5
<1>7. N + 1 - N = 1 /\ N <= N
  BY <1>1
<1> QED
  BY <1>6, <1>7 DEF T

LEMMA DecodeRun ==
  ASSUME NEW s \in Text
  PROVE  \E f : /\ Decode(s) = f[1]
                /\ \A i \in 1..(Len(s) + 1) : f[i] = DecodeAt(f, s, i)
<1> DEFINE f == CHOOSE f : Decodes(f, s, 1)
<1>1. Decodes(f, s, 1)
  BY DecodeExists, Zenon
<1>2. Decode(s) = f[1]
  BY Zenon DEF Decode, Decodes, DecodeAt
<1> HIDE DEF f
<1>3. \A i \in 1..(Len(s) + 1) : f[i] = DecodeAt(f, s, i)
  BY <1>1 DEF Decodes
<1> QED
  BY <1>2, <1>3

LEMMA SubSeqFrom ==
  ASSUME NEW s \in Text, NEW n \in 1..Len(s)
  PROVE  SubSeq(s, n, Len(s)) = <<s[n]>> \o SubSeq(s, n + 1, Len(s))
<1>1. Len(s) \in n..Len(s)
  BY TextType
<1> QED
  BY <1>1, SubSeqRecursiveFirst, Zenon DEF Text

\* What Percent::encode has written, Percent::decode reads.
LEMMA DecodeEncode ==
  ASSUME NEW s \in Seq(Byte)
  PROVE  Decode(Encode(s)) = s
<1> DEFINE N == Len(s)
           e == Encode(s)
           J == Joined(Codes(s))
           at(n) == Len(J[n]) + 1
<1>1. /\ s \in Text /\ N \in Nat /\ Codes(s) \in Texts /\ Len(Codes(s)) = N
      /\ e = FlattenSeq(Codes(s)) /\ e \in Text
      /\ \A i \in 1..N : s[i] \in Byte /\ Codes(s)[i] = Encoded(s[i])
  BY CodesType
<1>2. e = J[N] /\ J[0] = <<>>
  BY <1>1, JoinedRun
<1>3. PICK f : Decode(e) = f[1] /\ \A i \in 1..(Len(e) + 1) : f[i] = DecodeAt(f, e, i)
  BY <1>1, DecodeRun
<1>4. \A n \in 1..N : /\ Len(J[n - 1]) \in Nat
                      /\ Len(J[n]) = Len(J[n - 1]) + Len(Encoded(s[n]))
                      /\ Part(e, Len(J[n - 1]), Encoded(s[n]))
  BY <1>1, JoinedParts
<1> HIDE DEF e, J
<1>5. Len(e) \in Nat
  BY <1>1, TextType
<1> DEFINE S == {n \in Nat : f[at(N - n)] = SubSeq(s, (N - n) + 1, N)}
<1>6. 0 \in S
  <2>1. at(N - 0) = Len(e) + 1
    BY <1>1, <1>2
  <2>2. f[Len(e) + 1] = <<>>
    <3>1. Len(e) + 1 \in 1..(Len(e) + 1) /\ Len(e) + 1 > Len(e)
      BY <1>5
    <3>2. f[Len(e) + 1] = DecodeAt(f, e, Len(e) + 1)
      BY <1>3, <3>1
    <3> QED
      BY <3>1, <3>2, Zenon DEF DecodeAt
  <2>3. SubSeq(s, N + 1, N) = <<>>
    <3>1. N + 1 \in Int /\ N \in Int /\ N < N + 1
      BY <1>1
    <3> HIDE DEF N
    <3> QED
      BY <3>1, SubSeqEmpty, Zenon
  <2>4. (N - 0) + 1 = N + 1
    BY <1>1
  <2> QED
    BY <2>1, <2>2, <2>3, <2>4, Zenon
<1>7. ASSUME NEW n \in 0..(N - 1), n \in S PROVE n + 1 \in S
  <2> DEFINE m == N - n
             p == Len(J[m - 1])
             c == s[m]
  <2>1. m \in 1..N /\ N - (n + 1) = m - 1 /\ (m - 1) + 1 = m /\ n + 1 \in Nat
    BY <1>1
  <2>2. f[at(m)] = SubSeq(s, m + 1, N)
    BY <1>7
  <2> HIDE DEF m
  <2>3. c \in Byte /\ p \in Nat /\ Len(J[m]) = p + Len(Encoded(c)) /\ Part(e, p, Encoded(c))
    BY <1>1, <1>4, <2>1
  <2>4. SubSeq(s, m, N) = <<c>> \o SubSeq(s, m + 1, N)
    BY <1>1, <2>1, SubSeqFrom
  <2> HIDE DEF c, p
  <2>5. f[p + 1] = <<c>> \o f[at(m)]
    <3>1. CASE Encoded(c) = <<c>> /\ Len(Encoded(c)) = 1 /\ c # PERCENT /\ c # PLUS
      <4>1. Part(e, p, <<c>>) /\ c \in Int
        BY <2>3, <3>1 DEF Byte
      <4>2. p + 1 <= Len(e) /\ e[p + 1] = c
        BY <1>1, <2>3, <4>1, OnePart
      <4>3. f[p + 1] = DecodeAt(f, e, p + 1) /\ ~(p + 1 > Len(e))
        BY <1>3, <1>5, <2>3, <4>2
      <4>4. DecodeAt(f, e, p + 1) = <<c>> \o f[(p + 1) + 1]
        BY <3>1, <4>2, <4>3 DEF DecodeAt
      <4>5. (p + 1) + 1 = at(m)
        BY <2>3, <3>1
      <4> QED
        BY <4>3, <4>4, <4>5, Zenon
    <3>2. CASE Encoded(c) = <<PERCENT, HexChar(c \div 16), HexChar(c % 16)>> /\ Len(Encoded(c)) = 3
      <4> DEFINE a == HexChar(c \div 16)
                 b == HexChar(c % 16)
      <4>1. StrToL(a, b) = c
        BY <2>3, HexPair
      <4> HIDE DEF a, b
      <4>2. p + 3 <= Len(e) /\ \A j \in 1..3 : e[p + j] = <<PERCENT, a, b>>[j]
        BY <2>3, <3>2 DEF Part, a, b
      <4>3. e[p + 1] = PERCENT /\ e[p + 2] = a /\ e[p + 3] = b
        BY <4>2
      <4>4. f[p + 1] = DecodeAt(f, e, p + 1) /\ ~(p + 1 > Len(e)) /\ TwoFollow(e, p + 1)
        BY <1>3, <1>5, <2>3, <4>2 DEF TwoFollow
      <4>5. (p + 1) + 1 = p + 2 /\ (p + 1) + 2 = p + 3 /\ (p + 1) + 3 = at(m)
        BY <2>3, <3>2
      <4>6. DecodeAt(f, e, p + 1) = <<StrToL(e[(p + 1) + 1], e[(p + 1) + 2])>> \o f[(p + 1) + 3]
        BY <4>3, <4>4, Zenon DEF DecodeAt
      <4>7. StrToL(e[(p + 1) + 1], e[(p + 1) + 2]) = c
        BY <4>1, <4>3, <4>5, Zenon
      <4> QED
        BY <4>4, <4>5, <4>6, <4>7, Zenon
    <3> QED
      BY <2>3, <3>1, <3>2, EncodedType
  <2>6. at(m - 1) = p + 1
    BY DEF p
  <2>7. f[at(m - 1)] = SubSeq(s, m, N)
    BY <2>2, <2>4, <2>5, <2>6, Zenon
  <2>8. f[at(N - (n + 1))] = SubSeq(s, (N - (n + 1)) + 1, N)
    BY <2>1, <2>7, Zenon
  <2> QED
    BY <2>1, <2>8
<1> HIDE DEF S
<1>8. 0..N \subseteq S
  <2> HIDE DEF N
  <2>1. 0 \in Nat
    OBVIOUS
  <2> QED
    BY <1>1, <1>6, <1>7, <2>1, RangeInduction
<1>9. N \in S
  BY <1>1, <1>8
<1>10. N - N = 0 /\ 0 + 1 = 1
  BY <1>1
<1>11. f[at(0)] = SubSeq(s, 1, N)
  BY <1>9, <1>10, Zenon DEF S
<1>12. at(0) = 1
  BY <1>2, NoText
<1>13. SubSeq(s, 1, N) = s
  BY <1>1, SubSeqFull DEF Text
<1> QED
  BY <1>3, <1>11, <1>12, <1>13, Zenon DEF e

LEMMA EncodeSafe ==
  ASSUME NEW s \in Seq(Byte)
  PROVE  /\ Encode(s) \in Text /\ \A i \in 1..Len(Encode(s)) : Encode(s)[i] \in Safe
         /\ Encode(s) = <<>> <=> s = <<>>
<1> DEFINE N == Len(s)
           J == Joined(Codes(s))
           T == {n \in Nat : J[n] \in Seq(Safe)}
<1>1. /\ s \in Text /\ N \in Nat /\ Codes(s) \in Texts /\ Len(Codes(s)) = N
      /\ Encode(s) = FlattenSeq(Codes(s)) /\ Encode(s) \in Text
      /\ \A i \in 1..N : s[i] \in Byte /\ Codes(s)[i] = Encoded(s[i])
  BY CodesType
<1>2. /\ Encode(s) = J[N] /\ J[0] = <<>>
      /\ \A n \in 1..N : J[n] = J[n - 1] \o Codes(s)[n]
  BY <1>1, JoinedRun
<1>3. \A n \in 1..N : Len(J[n - 1]) \in Nat /\ Part(Encode(s), Len(J[n - 1]), Encoded(s[n]))
  BY <1>1, JoinedParts
<1> HIDE DEF J
<1>4. 0 \in T
  BY <1>2, EmptySeq
<1>5. ASSUME NEW n \in 0..(N - 1), n \in T PROVE n + 1 \in T
  <2>1. n + 1 \in 1..N /\ (n + 1) - 1 = n /\ n + 1 \in Nat
    BY <1>1
  <2>2. J[n + 1] = J[n] \o Encoded(s[n + 1]) /\ s[n + 1] \in Byte
    BY <1>1, <1>2, <2>1
  <2>3. Encoded(s[n + 1]) \in Seq(Safe) /\ J[n] \in Seq(Safe)
    BY <1>5, <2>2, EncodedType
  <2>4. J[n + 1] \in Seq(Safe)
    BY <2>2, <2>3, ConcatProperties
  <2> QED
    BY <2>1, <2>4
<1> HIDE DEF T
<1>6. 0..N \subseteq T
  <2>1. 0 \in Nat
    OBVIOUS
  <2> HIDE DEF N
  <2> QED
    BY <1>1, <1>4, <1>5, <2>1, RangeInduction
<1>7. Encode(s) \in Seq(Safe)
  BY <1>1, <1>2, <1>6 DEF T
<1>8. \A i \in 1..Len(Encode(s)) : Encode(s)[i] \in Safe
  BY <1>7, ElementOfSeq
<1>9. ASSUME s = <<>> PROVE Encode(s) = <<>>
  <2>1. N = 0
    BY <1>9, NoText
  <2> QED
    BY <1>2, <2>1
<1>10. ASSUME s # <<>> PROVE Encode(s) # <<>>
  <2>1. 1 \in 1..N /\ 1 - 1 = 0
    BY <1>1, <1>10, TextType
  <2>2. Part(Encode(s), Len(J[0]), Encoded(s[1])) /\ s[1] \in Byte /\ Len(J[0]) \in Nat
    BY <1>1, <1>3, <2>1
  <2> DEFINE a == Len(J[0])
             b == Len(Encoded(s[1]))
             c == Len(Encode(s))
  <2>3. b = 1 \/ b = 3
    BY <2>2, EncodedType, Zenon
  <2>4. a \in Nat /\ c \in Nat /\ a + b <= c
    BY <1>1, <2>2, TextType DEF Part
  <2> HIDE DEF a, b, c
  <2>5. c # 0
    BY <2>3, <2>4
  <2> QED
    BY <2>5, NoText DEF c
<1> QED
  BY <1>1, <1>8, <1>9, <1>10

LEMMA StrToLByte ==
  ASSUME NEW a, NEW b
  PROVE  StrToL(a, b) \in Byte
<1>1. \A c : Hex(c) \in -1..15
  BY DEF Hex, Digit
<1> DEFINE x == Hex(a)
           y == Hex(b)
<1>2. x \in -1..15 /\ y \in -1..15
  BY <1>1
<1> HIDE DEF x, y
<1>3. /\ x >= 0 /\ y >= 0 => 16 * x + y \in Byte
      /\ x >= 0 => x \in Byte
      /\ y >= 0 => y \in Byte /\ (256 - y) % 256 \in Byte
      /\ 0 \in Byte
  BY <1>2 DEF Byte
<1> QED
  BY <1>3 DEF StrToL, x, y

\* What Percent::decode makes is bytes again.
LEMMA DecodeType ==
  ASSUME NEW s \in Seq(Byte)
  PROVE  Decode(s) \in Seq(Byte)
<1> DEFINE N == Len(s)
<1>1. s \in Text /\ N \in Nat /\ \A i \in 1..N : s[i] \in Byte
  BY CodesType
<1>2. PICK f : Decode(s) = f[1] /\ \A i \in 1..(N + 1) : f[i] = DecodeAt(f, s, i)
  BY <1>1, DecodeRun
<1> HIDE DEF N
<1> DEFINE T == {n \in Nat : \A i \in (N + 1 - n)..(N + 1) : f[i] \in Seq(Byte)}
<1>3. 0 \in T
  <2>1. N + 1 \in 1..(N + 1) /\ N + 1 > N
    BY <1>1
  <2>2. f[N + 1] = DecodeAt(f, s, N + 1)
    BY <1>2, <2>1
  <2>3. f[N + 1] = <<>>
    BY <2>1, <2>2, Zenon DEF DecodeAt, N
  <2>4. f[N + 1] \in Seq(Byte)
    BY <2>3, EmptySeq
  <2>5. \A i \in (N + 1 - 0)..(N + 1) : i = N + 1
    BY <1>1
  <2> QED
    BY <2>4, <2>5
<1>4. ASSUME NEW n \in 0..(N - 1), n \in T PROVE n + 1 \in T
  <2> DEFINE i == N - n
  <2>1. /\ i \in 1..N /\ N + 1 - (n + 1) = i /\ n + 1 \in Nat /\ N + 1 - n = i + 1
        /\ ~(i > N) /\ i \in 1..(N + 1)
    BY <1>1
  <2> HIDE DEF i
  <2>2. \A j \in (i + 1)..(N + 1) : f[j] \in Seq(Byte)
    BY <1>4, <2>1
  <2>3. f[i + 1] \in Seq(Byte) /\ (TwoFollow(s, i) => f[i + 3] \in Seq(Byte))
    BY <1>1, <2>1, <2>2 DEF TwoFollow, N
  <2>4. f[i] = DecodeAt(f, s, i)
    BY <1>2, <2>1
  <2>5. ASSUME s[i] = PERCENT /\ TwoFollow(s, i) PROVE f[i] \in Seq(Byte)
    <3> DEFINE c == StrToL(s[i + 1], s[i + 2])
    <3>1. f[i] = <<c>> \o f[i + 3]
      BY <2>1, <2>4, <2>5, Zenon DEF DecodeAt, N
    <3>2. c \in Byte
      BY StrToLByte
    <3> HIDE DEF c
    <3>3. <<c>> \in Seq(Byte)
      BY <3>2
    <3> QED
      BY <2>3, <2>5, <3>1, <3>3, ConcatProperties
  <2>6. ASSUME ~(s[i] = PERCENT /\ TwoFollow(s, i)) PROVE f[i] \in Seq(Byte)
    <3> DEFINE c == IF s[i] = PLUS THEN SPACE ELSE s[i]
    <3>1. f[i] = <<c>> \o f[i + 1]
      BY <2>1, <2>4, <2>6, Zenon DEF DecodeAt, N
    <3>2. c \in Byte
      BY <1>1, <2>1 DEF SPACE, Byte
    <3> HIDE DEF c
    <3>3. <<c>> \in Seq(Byte)
      BY <3>2
    <3> QED
      BY <2>3, <3>1, <3>3, ConcatProperties
  <2>7. f[i] \in Seq(Byte)
    BY <2>5, <2>6
  <2>8. \A j \in i..(N + 1) : f[j] \in Seq(Byte)
    BY <1>1, <2>1, <2>2, <2>7
  <2> QED
    BY <2>1, <2>8
<1> HIDE DEF T
<1>5. 0..N \subseteq T
  <2>1. 0 \in Nat
    OBVIOUS
  <2> QED
    BY <1>1, <1>3, <1>4, <2>1, RangeInduction
<1>6. f[1] \in Seq(Byte)
  <2>1. N \in T /\ 1 \in (N + 1 - N)..(N + 1)
    BY <1>1, <1>5
  <2> QED
    BY <2>1 DEF T
<1> QED
  BY <1>2, <1>6

-----------------------------------------------------------------------------
(* RequestMessage *)

LEMMA GreatestIs ==
  ASSUME NEW T, T \subseteq Nat, NEW x \in T, \A y \in T : x >= y
  PROVE  Max(T) = x
<1> DEFINE m == CHOOSE x_1 \in T : \A y \in T : x_1 >= y
<1>1. m \in T /\ \A y \in T : m >= y
  OBVIOUS
<1>2. m \in Nat /\ x \in Nat /\ m <= x /\ x <= m
  BY <1>1
<1>3. m = x
  BY <1>2
<1> QED
  BY <1>3 DEF Max

\* A request line, its query with the question mark.
LineWith(method, path, mark) ==
  method \o <<SPACE>> \o path \o mark \o <<SPACE>> \o HTTP \o <<SLASH, 49, 46, 49, CR>>

LEMMA LenType ==
  ASSUME NEW s \in Text
  PROVE  Len(s) \in Nat
BY TextType

\* Where its parts stand.
LEMMA RequestLineParts ==
  ASSUME NEW method \in Text, NEW path \in Text, NEW mark \in Text,
         NEW text, text = LineWith(method, path, mark),
         NEW m, m = Len(method), NEW p, p = Len(path), NEW e, e = m + 1 + p + Len(mark)
  PROVE  /\ text \in Text /\ m \in Nat /\ p \in Nat /\ Len(mark) \in Nat /\ e \in Nat
         /\ Len(text) = e + 10
         /\ Part(text, 0, method) /\ text[m + 1] = SPACE /\ Part(text, m + 1, path)
         /\ Part(text, m + 1 + p, mark) /\ text[e + 1] = SPACE /\ Part(text, e + 1, HTTP)
         /\ text[e + 6] = SLASH /\ Part(text, e + 6, <<49, 46, 49>>)
<1> DEFINE S == <<SPACE>>
           V == <<SLASH, 49, 46, 49, CR>>
           a == method \o S
           b == a \o path
           c == b \o mark
           d == c \o S
           f == d \o HTTP
           g == f \o V
<1>1. /\ S \in Text /\ HTTP \in Text /\ V \in Text /\ SPACE \in Int
      /\ Len(S) = 1 /\ Len(HTTP) = 4 /\ Len(V) = 5
  BY DEF Text, SPACE, HTTP, SLASH, CR
<1>2. text = g
  BY DEF LineWith
<1>3. m \in Nat /\ p \in Nat /\ Len(mark) \in Nat /\ e \in Nat
  BY LenType
<1> HIDE DEF S, V
<1>4. a \in Text /\ Len(a) = m + 1
  <2>1. Len(method) + Len(S) = m + 1
    BY <1>1, <1>3
  <2> QED
    BY <1>1, <2>1, Concat, Zenon
<1> HIDE DEF a
<1>5. b \in Text /\ Len(b) = m + 1 + p
  <2>1. Len(a) + Len(path) = m + 1 + p
    BY <1>3, <1>4
  <2> QED
    BY <1>4, <2>1, Concat, Zenon
<1> HIDE DEF b
<1>6. c \in Text /\ Len(c) = e
  <2>1. Len(b) + Len(mark) = e
    BY <1>3, <1>5
  <2> QED
    BY <1>5, <2>1, Concat, Zenon
<1> HIDE DEF c
<1>7. d \in Text /\ Len(d) = e + 1
  <2>1. Len(c) + Len(S) = e + 1
    BY <1>1, <1>3, <1>6
  <2> QED
    BY <1>1, <1>6, <2>1, Concat, Zenon
<1> HIDE DEF d
<1>8. f \in Text /\ Len(f) = e + 5
  <2>1. Len(d) + Len(HTTP) = e + 5
    BY <1>1, <1>3, <1>7
  <2> QED
    BY <1>1, <1>7, <2>1, Concat, Zenon
<1> HIDE DEF f
<1>9. g \in Text /\ Len(g) = e + 10
  <2>1. Len(f) + Len(V) = e + 10
    BY <1>1, <1>3, <1>8
  <2> QED
    BY <1>1, <1>8, <2>1, Concat, Zenon
<1>10. Part(text, 0, f) /\ Part(text, e + 5, V)
  <2>1. Part(g, 0, g) /\ 0 + Len(f) = e + 5 /\ 0 \in Nat
    BY <1>3, <1>8, <1>9, WholePart
  <2>2. Part(text, 0, f \o V) /\ text \in Text
    BY <1>2, <1>9, <2>1
  <2> QED
    BY <1>1, <1>8, <2>1, <2>2, PartsOf
<1> HIDE DEF g
<1>11. text \in Text /\ 0 \in Nat
  BY <1>2, <1>9
<1>12. Part(text, 0, d) /\ Part(text, e + 1, HTTP)
  <2>1. Part(text, 0, d \o HTTP) /\ 0 + Len(d) = e + 1
    BY <1>3, <1>7, <1>10 DEF f
  <2> QED
    BY <1>1, <1>7, <1>11, <2>1, PartsOf
<1>13. Part(text, 0, c) /\ Part(text, e, S)
  <2>1. Part(text, 0, c \o S) /\ 0 + Len(c) = e
    BY <1>3, <1>6, <1>12 DEF d
  <2> QED
    BY <1>1, <1>6, <1>11, <2>1, PartsOf
<1>14. Part(text, 0, b) /\ Part(text, m + 1 + p, mark)
  <2>1. Part(text, 0, b \o mark) /\ 0 + Len(b) = m + 1 + p
    BY <1>3, <1>5, <1>13 DEF c
  <2> QED
    BY <1>5, <1>11, <2>1, PartsOf
<1>15. Part(text, 0, a) /\ Part(text, m + 1, path)
  <2>1. Part(text, 0, a \o path) /\ 0 + Len(a) = m + 1
    BY <1>3, <1>4, <1>14 DEF b
  <2> QED
    BY <1>4, <1>11, <2>1, PartsOf
<1>16. Part(text, 0, method) /\ Part(text, m, S)
  <2>1. Part(text, 0, method \o S) /\ 0 + Len(method) = m
    BY <1>3, <1>15 DEF a
  <2> QED
    BY <1>1, <1>11, <2>1, PartsOf
<1>17. text[m + 1] = SPACE /\ text[e + 1] = SPACE
  BY <1>1, <1>3, <1>11, <1>13, <1>16, OnePart DEF S
<1>18. (e + 5) + 5 <= Len(text) /\ \A j \in 1..5 : text[(e + 5) + j] = V[j]
  BY <1>1, <1>10 DEF Part
<1>19. /\ text[(e + 5) + 1] = SLASH /\ text[(e + 5) + 2] = 49
       /\ text[(e + 5) + 3] = 46 /\ text[(e + 5) + 4] = 49
  BY <1>18 DEF V
<1>20. /\ (e + 5) + 1 = e + 6 /\ (e + 5) + 2 = (e + 6) + 1
       /\ (e + 5) + 3 = (e + 6) + 2 /\ (e + 5) + 4 = (e + 6) + 3
  BY <1>3
<1>21. Part(text, e + 6, <<49, 46, 49>>)
  <2> DEFINE v == <<49, 46, 49>>
  <2>1. Len(v) = 3 /\ v[1] = 49 /\ v[2] = 46 /\ v[3] = 49
    OBVIOUS
  <2> HIDE DEF v
  <2>2. (e + 6) + 3 <= Len(text)
    BY <1>2, <1>3, <1>9
  <2>3. /\ text[(e + 6) + 1] = v[1] /\ text[(e + 6) + 2] = v[2] /\ text[(e + 6) + 3] = v[3]
    BY <1>19, <1>20, <2>1
  <2>4. \A j \in 1..Len(v) : text[(e + 6) + j] = v[j]
    <3>1. \A j \in 1..Len(v) : j = 1 \/ j = 2 \/ j = 3
      BY <2>1
    <3> QED
      BY <2>3, <3>1
  <2> QED
    BY <2>1, <2>2, <2>4 DEF Part, v
<1> QED
  BY <1>2, <1>3, <1>9, <1>10, <1>11, <1>12, <1>14, <1>15, <1>16, <1>17, <1>19, <1>20, <1>21

\* The characters of s behind the first so many, up to to, are all others.
Lacks(s, from, to, chr) == \A q \in (from + 1)..to : s[q] # chr

\* What lacks a character lacks it wherever it stands.
LEMMA PartLacks ==
  ASSUME NEW s \in Text, NEW p \in Nat, NEW t \in Text, Part(s, p, t), NEW chr \in Int,
         ~Has(t, chr)
  PROVE  Lacks(s, p, p + Len(t), chr)
<1>1. \A j \in 1..Len(t) : t[j] # chr
  BY HasNot
<1>2. Len(t) \in Nat
  BY LenType
<1>3. ASSUME NEW q \in (p + 1)..(p + Len(t)) PROVE s[q] # chr
  <2> DEFINE j == q - p
  <2>1. j \in 1..Len(t) /\ p + j = q
    BY <1>2
  <2> HIDE DEF j
  <2>2. s[p + j] = t[j] /\ t[j] # chr
    BY <1>1, <2>1 DEF Part
  <2> QED
    BY <2>1, <2>2
<1> QED
  BY <1>3 DEF Lacks

LEMMA LacksOn ==
  ASSUME NEW s, NEW chr, NEW a \in Int, NEW b \in Int, NEW c \in Int,
         Lacks(s, a, b, chr), Lacks(s, b, c, chr)
  PROVE  Lacks(s, a, c, chr)
<1>1. ASSUME NEW q \in (a + 1)..c PROVE q \in (a + 1)..b \/ q \in (b + 1)..c
  OBVIOUS
<1> QED
  BY <1>1 DEF Lacks

LEMMA FoundBehind ==
  ASSUME NEW s \in Text, NEW chr \in Int, NEW from \in Nat, NEW p \in Nat, from <= p,
         p + 1 <= Len(s), s[p + 1] = chr, Lacks(s, from, p, chr)
  PROVE  Find(s, chr, from) = p
BY FoundAt DEF Lacks

\* Where the parts of a request line stand: n behind the method, e behind the query.
LineAt(text, method, path, mark, n, p, e) ==
  /\ text \in Text /\ n \in Nat /\ p \in Nat /\ e \in Nat
  /\ Len(method) = n /\ p = n + 1 + Len(path) /\ e = p + Len(mark) /\ Len(text) = e + 10
  /\ Part(text, 0, method) /\ text[n + 1] = SPACE /\ Part(text, n + 1, path)
  /\ Part(text, p, mark) /\ text[e + 1] = SPACE /\ Part(text, e + 1, HTTP)
  /\ text[e + 6] = SLASH /\ Part(text, e + 6, <<49, 46, 49>>)

LEMMA RequestLineAt ==
  ASSUME NEW method \in Text, NEW path \in Text, NEW mark \in Text
  PROVE  LineAt(LineWith(method, path, mark), method, path, mark, Len(method),
                Len(method) + 1 + Len(path), Len(method) + 1 + Len(path) + Len(mark))
<1> DEFINE text == LineWith(method, path, mark)
           n == Len(method)
           l == Len(path)
           e == n + 1 + l + Len(mark)
<1>1. /\ text \in Text /\ n \in Nat /\ l \in Nat /\ Len(mark) \in Nat /\ e \in Nat
      /\ Len(text) = e + 10
      /\ Part(text, 0, method) /\ text[n + 1] = SPACE /\ Part(text, n + 1, path)
      /\ Part(text, n + 1 + l, mark) /\ text[e + 1] = SPACE /\ Part(text, e + 1, HTTP)
      /\ text[e + 6] = SLASH /\ Part(text, e + 6, <<49, 46, 49>>)
  BY RequestLineParts, Zenon
<1>2. n + 1 + l \in Nat
  BY <1>1
<1> QED
  BY <1>1, <1>2, Zenon DEF LineAt

\* What a request line is read as.
Understood(method, path, query) ==
  [ok |-> TRUE, method |-> method, path |-> path, query |-> query, version |-> <<49, 46, 49>>]

\* The path ends in front of start, or of the end of the query, and the query is what is behind.
QueryLies(text, path, query, n, e, start) ==
  /\ Substr(text, n + 1, (IF start = npos THEN e + 1 ELSE start) - n - 2) = path
  /\ query = IF start = npos THEN <<>> ELSE Substr(text, start, e - start)

\* What RequestMessage::parse finds in it, when the only space behind the method is in front
\* of the protocol.
LEMMA LineParsed ==
  ASSUME NEW method \in Text, NEW path \in Text, NEW mark \in Text,
         NEW text, NEW n, NEW p, NEW e, LineAt(text, method, path, mark, n, p, e),
         ~Has(method, SPACE), ~Has(path, SPACE), ~Has(mark, SPACE),
         NEW query, QueryLies(text, path, query, n, e, QueryStart(text, n + 1, e - 1))
  PROVE  ParseRequest(text) = Understood(method, path, query)
<1>1. /\ text \in Text /\ n \in Nat /\ p \in Nat /\ e \in Nat
      /\ Len(method) = n /\ p = n + 1 + Len(path) /\ e = p + Len(mark) /\ Len(text) = e + 10
      /\ Part(text, 0, method) /\ text[n + 1] = SPACE /\ Part(text, n + 1, path)
      /\ Part(text, p, mark) /\ text[e + 1] = SPACE /\ Part(text, e + 1, HTTP)
      /\ text[e + 6] = SLASH /\ Part(text, e + 6, <<49, 46, 49>>)
  BY Zenon DEF LineAt
<1>2. /\ SPACE \in Int /\ SLASH \in Int /\ 0 \in Nat /\ n + 1 \in Nat
      /\ e + 1 \in Nat /\ e + 5 \in Nat /\ e + 6 \in Nat /\ 0 + n = n
      /\ Len(path) \in Nat /\ Len(mark) \in Nat
  BY <1>1, LenType DEF SPACE, SLASH
<1>3. Find(text, SPACE, 0) = n
  <2>1. Lacks(text, 0, n, SPACE)
    BY <1>1, <1>2, PartLacks, Zenon
  <2>2. 0 <= n /\ n + 1 <= Len(text)
    BY <1>1, <1>2
  <2> QED
    BY <1>1, <1>2, <2>1, <2>2, FoundBehind, Zenon
<1>4. Find(text, SPACE, n + 1) = e
  <2>1. Lacks(text, n + 1, p, SPACE) /\ Lacks(text, p, e, SPACE)
    BY <1>1, <1>2, PartLacks, Zenon
  <2>2. n + 1 \in Int /\ p \in Int /\ e \in Int
    BY <1>1
  <2>3. Lacks(text, n + 1, e, SPACE)
    BY <2>1, <2>2, LacksOn, Zenon
  <2>4. n + 1 <= e /\ e + 1 <= Len(text)
    BY <1>1, <1>2
  <2> QED
    BY <1>1, <1>2, <2>3, <2>4, FoundBehind, Zenon
<1>5. Find(text, SLASH, e + 1) = e + 5
  <2>1. HTTP \in Text /\ Len(HTTP) = 4 /\ ~Has(HTTP, SLASH)
    <3>1. HTTP \in Text /\ Len(HTTP) = 4 /\ \A j \in 1..4 : HTTP[j] # SLASH
      BY DEF HTTP, SLASH, Text
    <3> QED
      BY <1>2, <3>1, HasNot
  <2>2. Lacks(text, e + 1, (e + 1) + 4, SLASH)
    BY <1>1, <1>2, <2>1, PartLacks, Zenon
  <2>3. (e + 1) + 4 = e + 5 /\ e + 1 <= e + 5 /\ (e + 5) + 1 = e + 6 /\ e + 6 <= Len(text)
    BY <1>1
  <2> QED
    BY <1>1, <1>2, <2>2, <2>3, FoundBehind, Zenon
<1>6. Substr(text, e + 1, 4) = HTTP
  <2>1. HTTP \in Text /\ Len(HTTP) = 4
    BY DEF HTTP, Text
  <2> QED
    BY <1>1, <1>2, <2>1, SubstrPart, Zenon
<1>7. Substr(text, e + 6, 3) = <<49, 46, 49>>
  <2>1. <<49, 46, 49>> \in Text /\ Len(<<49, 46, 49>>) = 3
    BY DEF Text
  <2> QED
    BY <1>1, <1>2, <2>1, SubstrPart, Zenon
<1>8. Substr(text, 0, n) = method
  BY <1>1, <1>2, SubstrPart, Zenon
<1>9. /\ (e + 5) - e - 1 = 4 /\ (e + 5) + 1 = e + 6 /\ Len(text) - (e + 5) - 2 = 3
      /\ npos # n /\ npos # e /\ npos # e + 5
  BY <1>1 DEF npos
<1> HIDE DEF HTTP
<1> QED
  BY <1>3, <1>4, <1>5, <1>6, <1>7, <1>8, <1>9 DEF ParseRequest, QueryLies, Understood

LEMMA QueryNone ==
  ASSUME NEW text, NEW from \in Nat, NEW end \in Nat, Lacks(text, from, end, QUESTION)
  PROVE  QueryStart(text, from, end - 1) = npos
<1>1. ASSUME NEW c \in from..(end - 1) PROVE At(text, c) # QUESTION
  <2>1. c + 1 \in (from + 1)..end
    OBVIOUS
  <2> QED
    BY <2>1 DEF Lacks, At
<1>2. {c \in from..(end - 1) : At(text, c) = QUESTION /\ c + 1 < Len(text)} = {}
  BY <1>1
<1> QED
  BY <1>2 DEF QueryStart

LEMMA QueryAt ==
  ASSUME NEW text, NEW from \in Nat, NEW end \in Nat, NEW p \in Nat, from <= p, p < end,
         text[p + 1] = QUESTION, p + 1 < Len(text), Lacks(text, p + 1, end, QUESTION)
  PROVE  QueryStart(text, from, end - 1) = p + 1
<1> DEFINE found == {c \in from..(end - 1) : At(text, c) = QUESTION /\ c + 1 < Len(text)}
<1>1. p \in found
  BY DEF At
<1>2. found \subseteq Nat
  OBVIOUS
<1>3. ASSUME NEW c \in found PROVE p >= c
  <2>1. c \in from..(end - 1) /\ text[c + 1] = QUESTION
    BY DEF At
  <2>2. ASSUME ~(p >= c) PROVE FALSE
    <3>1. c + 1 \in ((p + 1) + 1)..end
      BY <2>1, <2>2
    <3> QED
      BY <2>1, <3>1 DEF Lacks
  <2> QED
    BY <2>2
<1> HIDE DEF found
<1>4. Max(found) = p
  BY <1>1, <1>2, <1>3, GreatestIs
<1> QED
  BY <1>1, <1>4 DEF QueryStart, found

\* A request line is understood: its query has no question mark, and its path none either
\* when there is no query.
LEMMA RequestRead ==
  ASSUME NEW method \in Text, NEW path \in Text, NEW query \in Text,
         ~Has(method, SPACE), ~Has(path, SPACE), ~Has(query, SPACE),
         ~Has(query, QUESTION), Has(path, QUESTION) => query # <<>>
  PROVE  ParseRequest(RequestLine(method, path, query)) =
           Understood(method, path, query)
<1> DEFINE mark == IF query = <<>> THEN <<>> ELSE <<QUESTION>> \o query
           text == LineWith(method, path, mark)
           n == Len(method)
           p == n + 1 + Len(path)
           e == p + Len(mark)
           start == QueryStart(text, n + 1, e - 1)
<1>1. RequestLine(method, path, query) = text
  BY DEF RequestLine, LineWith
<1>2. /\ QUESTION \in Int /\ SPACE \in Int /\ SPACE # QUESTION
      /\ <<QUESTION>> \in Text /\ Len(<<QUESTION>>) = 1 /\ <<QUESTION>>[1] = QUESTION
  BY DEF QUESTION, SPACE, Text
<1>3. Len(query) \in Nat /\ Len(path) \in Nat /\ (query = <<>> <=> Len(query) = 0)
  BY TextType
<1>4. mark \in Text
  BY <1>2, NoText, Concat
<1>5. ~Has(mark, SPACE)
  <2>1. CASE query = <<>>
    BY <2>1
  <2>2. ASSUME query # <<>> PROVE ~Has(mark, SPACE)
    <3> DEFINE q == <<QUESTION>> \o query
    <3>1. /\ q \in Text /\ Len(q) = 1 + Len(query)
          /\ \A i \in 1..(1 + Len(query)) : q[i] = IF i <= 1 THEN QUESTION ELSE query[i - 1]
      BY <1>2, Concat
    <3>2. \A j \in 1..Len(query) : query[j] # SPACE
      BY <1>2, HasNot
    <3> HIDE DEF q
    <3>3. \A i \in 1..Len(q) : q[i] # SPACE
      BY <1>2, <1>3, <3>1, <3>2
    <3>4. ~Has(q, SPACE)
      BY <1>2, <3>1, <3>3, HasNot
    <3> QED
      BY <2>2, <3>4 DEF q
  <2> QED
    BY <2>1, <2>2
<1> HIDE DEF mark
<1>6. LineAt(text, method, path, mark, n, p, e)
  BY <1>4, RequestLineAt, Zenon
<1> HIDE DEF text, n, p, e
<1>8. /\ text \in Text /\ n \in Nat /\ p \in Nat /\ e \in Nat
      /\ p = n + 1 + Len(path) /\ e = p + Len(mark) /\ Len(text) = e + 10
      /\ Part(text, n + 1, path) /\ Part(text, p, mark)
  BY <1>6, Zenon DEF LineAt
<1>9. n + 1 \in Nat /\ Substr(text, n + 1, Len(path)) = path
  <2>1. n + 1 \in Nat
    BY <1>8
  <2> QED
    BY <1>8, <2>1, SubstrPart, Zenon
<1>10. QueryLies(text, path, query, n, e, start)
  <2>1. ASSUME query = <<>>
        PROVE  QueryLies(text, path, query, n, e, start)
    <3>1. Len(mark) = 0 /\ e = p
      BY <1>3, <1>8, <2>1 DEF mark
    <3>2. (n + 1) + Len(path) = e
      BY <1>3, <1>8, <3>1
    <3>3. ~Has(path, QUESTION)
      BY <2>1
    <3>4. Lacks(text, n + 1, (n + 1) + Len(path), QUESTION)
      BY <1>2, <1>8, <1>9, <3>3, PartLacks, Zenon
    <3>5. Lacks(text, n + 1, e, QUESTION)
      BY <3>2, <3>4
    <3>6. start = npos
      BY <1>8, <1>9, <3>5, QueryNone, Zenon
    <3>7. (e + 1) - n - 2 = Len(path)
      BY <1>3, <1>8, <3>2
    <3>8. (IF start = npos THEN e + 1 ELSE start) = e + 1
      BY <3>6, Zenon
    <3> QED
      BY <1>9, <2>1, <3>6, <3>7, <3>8, Zenon DEF QueryLies
  <2>2. ASSUME query # <<>>
        PROVE  QueryLies(text, path, query, n, e, start)
    <3>1. mark = <<QUESTION>> \o query
      BY <2>2 DEF mark
    <3>2. Part(text, p, <<QUESTION>> \o query)
      BY <1>8, <3>1
    <3>3. Part(text, p, <<QUESTION>>) /\ Part(text, p + 1, query)
      BY <1>2, <1>8, <3>2, PartsOf
    <3>4. text[p + 1] = QUESTION
      BY <1>2, <1>8, <3>3, OnePart
    <3>5. Len(mark) = 1 + Len(query)
      BY <1>2, <3>1, Concat
    <3>6. e = (p + 1) + Len(query) /\ p + 1 \in Nat /\ n + 1 <= p /\ p < e /\ p + 1 < Len(text)
      BY <1>3, <1>8, <3>5
    <3>7. Lacks(text, p + 1, e, QUESTION)
      BY <1>2, <1>8, <3>3, <3>6, PartLacks, Zenon
    <3>8. start = p + 1
      <4>1. n + 1 \in Nat /\ e \in Nat /\ p \in Nat
        BY <1>8, <1>9
      <4>2. n + 1 <= p /\ p < e /\ p + 1 < Len(text)
        BY <3>6
      <4> QED
        BY <3>4, <3>7, <4>1, <4>2, QueryAt
    <3>9. start # npos /\ start - n - 2 = Len(path) /\ e - start = Len(query)
      BY <1>3, <1>8, <3>6, <3>8 DEF npos
    <3>10. Substr(text, p + 1, Len(query)) = query
      BY <1>8, <3>3, <3>6, SubstrPart, Zenon
    <3>11. (IF start = npos THEN e + 1 ELSE start) = start
      BY <3>9, Zenon
    <3> QED
      BY <1>9, <3>8, <3>9, <3>10, <3>11, Zenon DEF QueryLies
  <2> QED
    BY <2>1, <2>2
<1> QED
  <2>1. ParseRequest(text) = Understood(method, path, query)
    BY <1>4, <1>5, <1>6, <1>10, LineParsed
  <2> QED
    BY <1>1, <2>1

-----------------------------------------------------------------------------
(* What is cut from a text of bytes *)

LEMMA ByteText ==
  ASSUME NEW s \in Seq(Byte)
  PROVE  s \in Text
BY CodesType

\* The characters behind the first a, up to the first b.
Slice(s, a, b) == SubSeq(s, a + 1, b)

LEMMA SliceType ==
  ASSUME NEW s \in Seq(Byte), NEW a \in Nat, NEW b \in Nat, a <= b, b <= Len(s)
  PROVE  /\ Slice(s, a, b) \in Seq(Byte) /\ Slice(s, a, b) \in Text
         /\ Len(Slice(s, a, b)) = b - a
         /\ \A j \in 1..(b - a) : Slice(s, a, b)[j] = s[a + j]
<1> DEFINE u == SubSeq(s, a + 1, b)
           c == a + 1
<1>1. Len(s) \in Nat /\ \A i \in 1..Len(s) : s[i] \in Byte
  BY CodesType
<1>2. \A i \in c..b : s[i] \in Byte
  BY <1>1
<1>3. c \in Int /\ b \in Int /\ c <= b + 1
  OBVIOUS
<1>4. /\ u \in Seq(Byte) /\ Len(u) = IF c <= b THEN b - c + 1 ELSE 0
      /\ \A i \in 1..b - c + 1 : u[i] = s[c + i - 1]
  <2> HIDE DEF c
  <2>1. /\ SubSeq(s, c, b) \in Seq(Byte)
        /\ Len(SubSeq(s, c, b)) = IF c <= b THEN b - c + 1 ELSE 0
        /\ \A i \in 1..b - c + 1 : SubSeq(s, c, b)[i] = s[c + i - 1]
    BY <1>2, <1>3, SubSeqProperties
  <2> QED
    BY <2>1 DEF c
<1> HIDE DEF u
<1>5. Len(u) = b - a
  BY <1>4
<1>6. ASSUME NEW j \in 1..(b - a) PROVE u[j] = s[a + j]
  <2>1. j \in 1..b - c + 1 /\ c + j - 1 = a + j
    OBVIOUS
  <2> QED
    BY <1>4, <2>1
<1>7. u \in Text
  BY <1>4, ByteText
<1> QED
  BY <1>4, <1>5, <1>6, <1>7 DEF Slice, u

\* A part of what lacks a character lacks it.
LEMMA SliceHasNot ==
  ASSUME NEW s \in Seq(Byte), NEW a \in Nat, NEW b \in Nat, a <= b, b <= Len(s),
         NEW chr \in Int, ~Has(s, chr)
  PROVE  ~Has(Slice(s, a, b), chr)
<1> DEFINE u == Slice(s, a, b)
<1>1. s \in Text /\ Len(s) \in Nat
  BY CodesType
<1>2. \A q \in 1..Len(s) : s[q] # chr
  BY <1>1, HasNot
<1>3. u \in Text /\ Len(u) = b - a /\ \A j \in 1..(b - a) : u[j] = s[a + j]
  BY SliceType
<1> HIDE DEF u
<1>4. ASSUME NEW j \in 1..Len(u) PROVE u[j] # chr
  <2>1. j \in 1..(b - a) /\ a + j \in 1..Len(s)
    BY <1>1, <1>3
  <2> QED
    BY <1>2, <1>3, <2>1
<1>5. ~Has(u, chr)
  BY <1>3, <1>4, HasNot
<1> QED
  BY <1>5 DEF u

LEMMA RequestsUnderstood ==
  ASSUME line \in Seq(Byte)
  PROVE  RequestUnderstood
<1>1. line \in Text /\ Len(line) \in Nat
  BY CodesType
<1>2. ASSUME ~Has(line, SPACE), NEW i \in 0..Len(line),
             ~Has(Cut(i, Len(line)), QUESTION),
             Has(Cut(0, i), QUESTION) => Cut(i, Len(line)) # <<>>
      PROVE  ParseRequest(RequestLine(<<65>>, Cut(0, i), Cut(i, Len(line)))) =
               Understood(<<65>>, Cut(0, i), Cut(i, Len(line)))
  <2> DEFINE path  == Cut(0, i)
             query == Cut(i, Len(line))
             method == <<65>>
  <2>1. path = Slice(line, 0, i) /\ query = Slice(line, i, Len(line))
    BY DEF Cut, Slice
  <2>2. i \in Nat /\ 0 \in Nat /\ 0 <= i /\ i <= Len(line) /\ Len(line) <= Len(line)
        /\ SPACE \in Int
    BY <1>1 DEF SPACE
  <2>3. path \in Text /\ query \in Text
    BY <1>1, <2>1, <2>2, SliceType
  <2>4. ~Has(path, SPACE) /\ ~Has(query, SPACE)
    BY <1>1, <1>2, <2>1, <2>2, SliceHasNot
  <2>5. method \in Text /\ ~Has(method, SPACE)
    <3>1. method \in Text /\ Len(method) = 1 /\ method[1] # SPACE
      BY DEF Text, SPACE
    <3>2. \A q \in 1..1 : q = 1
      OBVIOUS
    <3> HIDE DEF method
    <3> QED
      BY <2>2, <3>1, <3>2, HasNot
  <2>6. ~Has(query, QUESTION) /\ (Has(path, QUESTION) => query # <<>>)
    BY <1>2
  <2> HIDE DEF path, query, method
  <2>7. ParseRequest(RequestLine(method, path, query)) = Understood(method, path, query)
    BY <2>3, <2>4, <2>5, <2>6, RequestRead
  <2> QED
    BY <2>7 DEF path, query, method
<1> QED
  BY <1>2 DEF RequestUnderstood, Understood

LEMMA SubstrType ==
  ASSUME NEW s \in Seq(Byte), NEW pos \in Nat, pos <= Len(s), NEW len \in Int
  PROVE  Substr(s, pos, len) \in Seq(Byte)
<1>1. Len(s) \in Nat
  BY CodesType
<1>2. CASE len < 0 \/ pos + len > Len(s)
  <2>1. Slice(s, pos, Len(s)) \in Seq(Byte)
    BY <1>1, SliceType
  <2> QED
    BY <1>1, <1>2, <2>1 DEF Substr, Slice
<1>3. CASE ~(len < 0 \/ pos + len > Len(s))
  <2> DEFINE b == pos + len
  <2>1. b \in Nat /\ pos <= b /\ b <= Len(s)
    BY <1>1, <1>3
  <2>2. Substr(s, pos, len) = SubSeq(s, pos + 1, b)
    BY <1>1, <1>3 DEF Substr
  <2> HIDE DEF b
  <2>3. Slice(s, pos, b) \in Seq(Byte)
    BY <2>1, SliceType
  <2> QED
    BY <2>2, <2>3 DEF Slice
<1> QED
  BY <1>2, <1>3

-----------------------------------------------------------------------------
(* HttpHeader *)

\* One sequence is its own join.
LEMMA FlattenSingle ==
  ASSUME NEW s, Len(s) = 1
  PROVE  FlattenSeq(s) = s[1]
<1> DEFINE f == CHOOSE f : Flattens(f, s, 1)
<1>1. Flattens(f, s, 1)
  BY FlattenExists, Zenon
<1>2. FlattenSeq(s) = f[1]
  BY DEF FlattenSeq, Flattens
<1> HIDE DEF f
<1>3. f[1] = s[1]
  BY <1>1 DEF Flattens
<1> QED
  BY <1>2, <1>3

\* Where the parts of the line of a field stand: n is in front of the colon, v of the end.
FieldAt(text, name, value, n, v) ==
  /\ text \in Text /\ n \in Nat /\ v \in Nat /\ Len(name) = n /\ v = n + 2 + Len(value)
  /\ Len(text) = v + 1 /\ Part(text, 0, name) /\ text[n + 1] = COLON /\ text[n + 2] = SPACE
  /\ Part(text, n + 2, value) /\ text[v + 1] = CR

LEMMA HeaderLineAt ==
  ASSUME NEW name \in Text, NEW value \in Text
  PROVE  FieldAt(HeaderLine(<<name, value>>), name, value, Len(name),
                 Len(name) + 2 + Len(value))
<1> DEFINE S == <<COLON, SPACE>>
           E == <<CR>>
           n == Len(name)
           l == Len(value)
           v == n + 2 + l
           a == name \o S
           b == a \o value
           c == b \o E
           text == HeaderLine(<<name, value>>)
<1>1. /\ S \in Text /\ E \in Text /\ CR \in Int /\ Len(S) = 2 /\ Len(E) = 1
      /\ S[1] = COLON /\ S[2] = SPACE
  BY DEF Text, COLON, SPACE, CR
<1>2. text = c
  BY DEF HeaderLine
<1>3. n \in Nat /\ l \in Nat /\ v \in Nat
  BY LenType
<1> HIDE DEF S
<1>4. a \in Text /\ Len(a) = n + 2
  <2>1. Len(name) + Len(S) = n + 2
    BY <1>1, <1>3
  <2> QED
    BY <1>1, <2>1, Concat, Zenon
<1> HIDE DEF a
<1>5. b \in Text /\ Len(b) = v
  <2>1. Len(a) + Len(value) = v
    BY <1>3, <1>4
  <2> QED
    BY <1>4, <2>1, Concat, Zenon
<1> HIDE DEF b
<1>6. c \in Text /\ Len(c) = v + 1
  <2>1. Len(b) + Len(E) = v + 1
    BY <1>1, <1>3, <1>5
  <2> QED
    BY <1>1, <1>5, <2>1, Concat, Zenon
<1>7. Part(text, 0, b) /\ Part(text, v, E)
  <2>1. Part(c, 0, c) /\ 0 + Len(b) = v /\ 0 \in Nat
    BY <1>3, <1>5, <1>6, WholePart
  <2>2. Part(text, 0, b \o E) /\ text \in Text
    BY <1>2, <1>6, <2>1
  <2> QED
    BY <1>1, <1>5, <2>1, <2>2, PartsOf
<1> HIDE DEF c
<1>8. text \in Text /\ Len(text) = v + 1 /\ 0 \in Nat
  BY <1>2, <1>6
<1> HIDE DEF text
<1>9. Part(text, 0, a) /\ Part(text, n + 2, value)
  <2>1. Part(text, 0, a \o value) /\ 0 + Len(a) = n + 2
    BY <1>3, <1>4, <1>7 DEF b
  <2> QED
    BY <1>4, <1>8, <2>1, PartsOf
<1>10. Part(text, 0, name) /\ Part(text, n, S)
  <2>1. Part(text, 0, name \o S) /\ 0 + Len(name) = n
    BY <1>3, <1>9 DEF a
  <2> QED
    BY <1>1, <1>8, <2>1, PartsOf
<1>11. text[n + 1] = COLON /\ text[n + 2] = SPACE
  BY <1>1, <1>10 DEF Part
<1>12. text[v + 1] = CR
  BY <1>1, <1>3, <1>7, <1>8, OnePart
<1> HIDE DEF n, v
<1>13. n = Len(name) /\ v = n + 2 + Len(value)
  BY DEF n, v
<1> QED
  BY <1>3, <1>8, <1>9, <1>10, <1>11, <1>12, <1>13, Zenon DEF FieldAt, n, v, text

LEMMA HeaderOne ==
  ASSUME NEW text
  PROVE  ParseHeader(<<text>>) = IF Find(text, COLON, 0) = npos THEN <<>> ELSE ParseField(text)
<1> DEFINE lines == <<text>>
           ends == {i \in DOMAIN lines : Find(lines[i], COLON, 0) = npos}
           last == IF ends = {} THEN Len(lines) ELSE Min(ends) - 1
           fields == [i \in 1..last |-> ParseField(lines[i])]
<1>1. ParseHeader(lines) = FlattenSeq(fields)
  BY DEF ParseHeader
<1>2. DOMAIN lines = {1} /\ Len(lines) = 1 /\ lines[1] = text
  OBVIOUS
<1>3. ASSUME Find(text, COLON, 0) = npos PROVE FlattenSeq(fields) = <<>>
  <2>1. ends = {1}
    BY <1>2, <1>3
  <2>2. Min({1}) = 1
    <3>1. {1} \subseteq Nat /\ 1 \in {1} /\ \A y \in {1} : 1 <= y
      OBVIOUS
    <3> QED
      BY <3>1, LeastIs
  <2>3. last = 0
    BY <2>1, <2>2
  <2> HIDE DEF last
  <2>4. fields = <<>>
    BY <2>3
  <2> QED
    BY <2>4, FlattenNone
<1>4. ASSUME Find(text, COLON, 0) # npos PROVE FlattenSeq(fields) = ParseField(text)
  <2>1. ends = {}
    BY <1>2, <1>4
  <2>2. last = 1
    BY <1>2, <2>1
  <2> HIDE DEF last, lines
  <2>3. Len(fields) = 1 /\ fields[1] = ParseField(lines[1])
    BY <2>2
  <2> QED
    BY <1>2, <2>3, FlattenSingle
<1> QED
  BY <1>1, <1>3, <1>4

\* What HttpHeader::parse finds in the line of a field.
LEMMA FieldRead ==
  ASSUME NEW name \in Text, NEW value \in Text, NEW text, NEW n, NEW v,
         FieldAt(text, name, value, n, v), ~Has(name, COLON),
         value = <<>> \/ Head(value) # SPACE
  PROVE  Find(text, COLON, 0) # npos /\ ParseField(text) = << <<name, value>> >>
<1>1. /\ text \in Text /\ n \in Nat /\ v \in Nat /\ Len(name) = n /\ v = n + 2 + Len(value)
      /\ Len(text) = v + 1 /\ Part(text, 0, name) /\ text[n + 1] = COLON /\ text[n + 2] = SPACE
      /\ Part(text, n + 2, value) /\ text[v + 1] = CR
  BY Zenon DEF FieldAt
<1>2. /\ COLON \in Int /\ 0 \in Nat /\ 0 + n = n /\ Len(value) \in Nat
      /\ (value = <<>> <=> Len(value) = 0)
  BY <1>1, TextType DEF COLON
<1>3. Find(text, COLON, 0) = n
  <2>1. Lacks(text, 0, n, COLON)
    BY <1>1, <1>2, PartLacks, Zenon
  <2>2. 0 <= n /\ n + 1 <= Len(text)
    BY <1>1, <1>2
  <2> QED
    BY <1>1, <1>2, <2>1, <2>2, FoundBehind, Zenon
<1>4. ValueStart(text, n) = n + 2
  <2> DEFINE places == {p \in (n + 1)..Len(text) : p + 1 >= Len(text) \/ At(text, p) # SPACE}
  <2>1. places \subseteq Nat
    BY <1>1
  <2>2. n + 2 \in (n + 1)..Len(text)
    BY <1>1, <1>2
  <2>3. (n + 2) + 1 >= Len(text) \/ At(text, n + 2) # SPACE
    <3>1. ASSUME value = <<>> PROVE (n + 2) + 1 >= Len(text)
      BY <1>1, <1>2, <3>1
    <3>2. ASSUME value # <<>> PROVE At(text, n + 2) # SPACE
      <4>1. 1 \in 1..Len(value) /\ value[1] # SPACE
        BY <1>2, <3>2
      <4>2. text[(n + 2) + 1] = value[1]
        BY <1>1, <4>1 DEF Part
      <4> QED
        BY <4>1, <4>2 DEF At
    <3> QED
      BY <3>1, <3>2
  <2>4. n + 2 \in places
    BY <2>2, <2>3
  <2>5. ASSUME NEW p \in places PROVE n + 2 <= p
    <3>1. p # n + 1
      <4>1. ASSUME p = n + 1 PROVE FALSE
        <5>1. At(text, p) = SPACE /\ ~(p + 1 >= Len(text))
          BY <1>1, <1>2, <4>1 DEF At
        <5> QED
          BY <5>1
      <4> QED
        BY <4>1
    <3>2. p \in (n + 1)..Len(text)
      OBVIOUS
    <3> QED
      BY <1>1, <3>1, <3>2
  <2> HIDE DEF places
  <2>6. n + 2 \in Nat
    BY <1>1
  <2>7. Min(places) = n + 2
    BY <2>1, <2>4, <2>5, <2>6, LeastIs
  <2> QED
    BY <2>7 DEF ValueStart, places
<1>5. Substr(text, 0, n) = name
  BY <1>1, <1>2, SubstrPart, Zenon
<1>6. Substr(text, n + 2, Len(value)) = value
  <2>1. n + 2 \in Nat
    BY <1>1
  <2> QED
    BY <1>1, <2>1, SubstrPart, Zenon
<1>7. Last(text) = CR
  BY <1>1 DEF Last
<1>8. Len(text) - (n + 2) - 1 = Len(value) /\ ~(n + 2 >= Len(text)) /\ npos # n
  BY <1>1, <1>2 DEF npos
<1>9. Len(text) - (n + 2) - (IF Last(text) = CR THEN 1 ELSE 0) = Len(value)
  BY <1>7, <1>8
<1> QED
  BY <1>3, <1>4, <1>5, <1>6, <1>8, <1>9 DEF ParseField

LEMMA HeadersUnderstood ==
  ASSUME line \in Seq(Byte)
  PROVE  HeaderUnderstood
<1>1. line \in Text /\ Len(line) \in Nat
  BY CodesType
<1>2. ASSUME NEW i \in 0..Len(line), ~Has(Cut(0, i), COLON),
             Cut(i, Len(line)) = <<>> \/ Head(Cut(i, Len(line))) # SPACE
      PROVE  ParseHeader(<<HeaderLine(<<Cut(0, i), Cut(i, Len(line))>>)>>) =
               << <<Cut(0, i), Cut(i, Len(line))>> >>
  <2> DEFINE name  == Cut(0, i)
             value == Cut(i, Len(line))
             text  == HeaderLine(<<name, value>>)
  <2>1. name = Slice(line, 0, i) /\ value = Slice(line, i, Len(line))
    BY DEF Cut, Slice
  <2>2. i \in Nat /\ 0 \in Nat /\ 0 <= i /\ i <= Len(line) /\ Len(line) <= Len(line)
    BY <1>1
  <2>3. name \in Text /\ value \in Text
    BY <1>1, <2>1, <2>2, SliceType
  <2>4. ~Has(name, COLON) /\ (value = <<>> \/ Head(value) # SPACE)
    BY <1>2
  <2> HIDE DEF name, value
  <2>5. FieldAt(text, name, value, Len(name), Len(name) + 2 + Len(value))
    BY <2>3, HeaderLineAt, Zenon
  <2> HIDE DEF text
  <2>6. Find(text, COLON, 0) # npos /\ ParseField(text) = << <<name, value>> >>
    BY <2>3, <2>4, <2>5, FieldRead, Zenon
  <2>7. ParseHeader(<<text>>) = << <<name, value>> >>
    BY <2>6, HeaderOne, Zenon
  <2> QED
    BY <2>7, Zenon DEF name, value, text
<1> QED
  BY <1>2 DEF HeaderUnderstood

-----------------------------------------------------------------------------
(* QueryString *)

\* scan is the recursive function inside QueryString::parse, for the first n characters.
QueryScans(scan, s, n) ==
  scan = [i \in 0..n |-> IF i = 0 THEN NoField ELSE QueryStep(scan[i - 1], s, i - 1)]

LEMMA QueryScanExists ==
  ASSUME NEW s
  PROVE  \A n \in Nat : \E f : QueryScans(f, s, n)
<1> DEFINE T == {n \in Nat : \E f : QueryScans(f, s, n)}
<1>1. 0 \in T
  <2> DEFINE f == [i \in 0..0 |-> NoField]
  <2>1. f = [i \in 0..0 |-> IF i = 0 THEN NoField ELSE QueryStep(f[i - 1], s, i - 1)]
    OBVIOUS
  <2> HIDE DEF f
  <2>2. QueryScans(f, s, 0)
    BY <2>1 DEF QueryScans
  <2> QED
    BY <2>2
<1>2. ASSUME NEW n \in Nat, n \in T PROVE n + 1 \in T
  <2>1. PICK f : QueryScans(f, s, n)
    BY <1>2
  <2> DEFINE next == QueryStep(f[n], s, n)
             g == [i \in 0..n + 1 |-> IF i = n + 1 THEN next ELSE f[i]]
  <2>2. ASSUME NEW i \in 0..n + 1
        PROVE  g[i] = IF i = 0 THEN NoField ELSE QueryStep(g[i - 1], s, i - 1)
    <3>1. CASE i = n + 1
      <4>1. n \in 0..n + 1 /\ n # n + 1 /\ i - 1 = n /\ i # 0
        BY <3>1
      <4>2. g[n] = f[n] /\ g[i] = next
        BY <4>1, <3>1
      <4> HIDE DEF g
      <4> QED
        BY <4>1, <4>2, <3>1, Zenon
    <3>2. CASE i # n + 1
      <4>1. i \in 0..n
        BY <3>2
      <4>2. f[i] = IF i = 0 THEN NoField ELSE QueryStep(f[i - 1], s, i - 1)
        BY <2>1, <4>1 DEF QueryScans
      <4>3. i # 0 => i - 1 \in 0..n + 1 /\ i - 1 # n + 1
        BY <4>1
      <4>4. g[i] = f[i] /\ (i # 0 => g[i - 1] = f[i - 1])
        BY <3>2, <4>3
      <4> HIDE DEF g
      <4> QED
        BY <4>2, <4>4, Zenon
    <3> QED
      BY <3>1, <3>2
  <2>3. g = [i \in 0..n + 1 |-> IF i = 0 THEN NoField ELSE QueryStep(g[i - 1], s, i - 1)]
    <3> DEFINE h == [i \in 0..n + 1 |-> IF i = 0 THEN NoField ELSE QueryStep(g[i - 1], s, i - 1)]
    <3>1. DOMAIN g = 0..n + 1 /\ g = [i \in DOMAIN g |-> g[i]]
      OBVIOUS
    <3> HIDE DEF g
    <3> QED
      BY <2>2, <3>1, Zenon
  <2>4. \E h : QueryScans(h, s, n + 1)
    BY <2>3, Zenon DEF QueryScans
  <2> QED
    BY <2>4
<1> HIDE DEF T
<1>3. Nat \subseteq T
  BY <1>1, <1>2, SetInduction
<1> QED
  BY <1>3 DEF T

\* What the scan has behind each character.
QueryScan(s) == CHOOSE f : QueryScans(f, s, Len(s))

LEMMA QueryRun ==
  ASSUME NEW s, Len(s) \in Nat
  PROVE  /\ QueryScan(s)[0] = NoField
         /\ \A c \in 0..(Len(s) - 1) :
              QueryScan(s)[c + 1] = QueryStep(QueryScan(s)[c], s, c)
<1> DEFINE f == QueryScan(s)
           n == Len(s)
<1>1. QueryScans(f, s, n)
  BY QueryScanExists, Zenon DEF QueryScan
<1> HIDE DEF f, n
<1>2. n \in Nat
  BY DEF n
<1>3. f[0] = NoField
  BY <1>1, <1>2 DEF QueryScans
<1>4. ASSUME NEW c \in 0..(n - 1) PROVE f[c + 1] = QueryStep(f[c], s, c)
  <2> DEFINE i == c + 1
  <2>1. i \in 0..n /\ i # 0 /\ i - 1 = c
    BY <1>2
  <2> HIDE DEF i
  <2>2. f[i] = QueryStep(f[i - 1], s, i - 1)
    BY <1>1, <2>1 DEF QueryScans
  <2> QED
    BY <2>1, <2>2 DEF i
<1> QED
  BY <1>3, <1>4, Zenon DEF f, n

\* What the scan returns when it is k at the end.
QueryEnd(k, s) == (IF k.name < Len(s) THEN Add(k, s, Len(s)) ELSE k).fields

LEMMA QueryResult ==
  ASSUME NEW s
  PROVE  ParseQuery(s) = QueryEnd(QueryScan(s)[Len(s)], s)
BY Zenon DEF ParseQuery, QueryEnd, QueryScan, QueryScans

Fields == Seq(Seq(Byte) \X Seq(Byte))

\* Where something is, or npos.
Place(i) == {npos} \cup 0..i

LEMMA Places ==
  ASSUME NEW c \in Nat
  PROVE  /\ 0..c \subseteq 0..(c + 1) /\ Place(c) \subseteq Place(c + 1) /\ npos \in Place(c)
         /\ npos \in Int /\ c \in Int /\ c \in Place(c) /\ c + 1 \in 0..(c + 1)
         /\ c + 1 \in Place(c + 1) /\ Place(c) \subseteq Int /\ 0..c \subseteq Place(c)
BY DEF Place, npos

\* The scan behind the first i characters.
QueryState(k, i) == k \in [name : 0..i, name_end : Int, value : Place(i), fields : Fields]

LEMMA AddType ==
  ASSUME NEW s \in Seq(Byte), NEW i \in Nat, i <= Len(s), NEW c \in Nat, NEW k,
         QueryState(k, i)
  PROVE  QueryState(Add(k, s, c), i)
<1> DEFINE name == Substr(s, k.name, (IF k.name_end = npos THEN c ELSE k.name_end) - k.name)
           value == IF k.value = npos THEN <<>> ELSE Substr(s, k.value, c - k.value)
           entry == <<name, Decode(value)>>
<1>1. /\ k.name \in 0..i /\ k.name_end \in Int /\ k.value \in Place(i) /\ k.fields \in Fields
      /\ Len(s) \in Nat
  BY CodesType DEF QueryState
<1>2. name \in Seq(Byte)
  <2> DEFINE b == IF k.name_end = npos THEN c ELSE k.name_end
  <2>1. b \in Int
    BY <1>1, Places, Zenon
  <2> HIDE DEF b
  <2>2. k.name \in Nat /\ k.name <= Len(s) /\ b - k.name \in Int
    BY <1>1, <2>1
  <2>3. Substr(s, k.name, b - k.name) \in Seq(Byte)
    BY <2>2, SubstrType
  <2> QED
    BY <2>3 DEF b
<1>3. value \in Seq(Byte)
  <2>1. CASE k.value = npos
    <3>1. <<>> \in Seq(Byte)
      OBVIOUS
    <3> QED
      BY <2>1, <3>1
  <2>2. ASSUME k.value # npos PROVE value \in Seq(Byte)
    <3>1. k.value \in 0..i
      BY <1>1, <2>2 DEF Place
    <3>2. k.value \in Nat /\ k.value <= Len(s) /\ c - k.value \in Int
      BY <1>1, <3>1
    <3>3. Substr(s, k.value, c - k.value) \in Seq(Byte)
      BY <3>2, SubstrType
    <3> QED
      BY <2>2, <3>3
  <2> QED
    BY <2>1, <2>2
<1> HIDE DEF name, value
<1>4. entry \in Seq(Byte) \X Seq(Byte)
  BY <1>2, <1>3, DecodeType
<1> HIDE DEF entry
<1>5. Append(k.fields, entry) \in Fields
  BY <1>1, <1>4, AppendProperties DEF Fields
<1>6. Add(k, s, c) = IF name = <<>> THEN k ELSE [k EXCEPT !.fields = Append(@, entry)]
  BY DEF Add, name, value, entry
<1> QED
  BY <1>5, <1>6 DEF QueryState

LEMMA QueryStepType ==
  ASSUME NEW s \in Seq(Byte), NEW c \in Nat, c <= Len(s), NEW k, QueryState(k, c)
  PROVE  QueryState(QueryStep(k, s, c), c + 1)
<1> DEFINE j == c + 1
<1>1. /\ 0..c \subseteq 0..j /\ Place(c) \subseteq Place(j) /\ npos \in Place(j)
      /\ npos \in Int /\ c \in Int /\ j \in 0..j /\ j \in Place(j)
  BY Places
<1>2. QueryState(Add(k, s, c), c)
  BY AddType
<1>3. ASSUME NEW a, QueryState(a, c) PROVE QueryState(NextName(a, c), j)
  <2>1. NextName(a, c) = [a EXCEPT !.name = j, !.name_end = npos, !.value = npos]
    BY DEF NextName
  <2> HIDE DEF j
  <2> QED
    BY <1>1, <1>3, <2>1 DEF QueryState
<1>4. QueryState(k, j) /\ QueryState([k EXCEPT !.name_end = c, !.value = j], j)
  <2> HIDE DEF j
  <2> QED
    BY <1>1 DEF QueryState
<1> QED
  BY <1>2, <1>3, <1>4 DEF QueryStep, NextValue

LEMMA QueryType ==
  ASSUME NEW s \in Seq(Byte)
  PROVE  ParseQuery(s) \in Fields
<1> DEFINE n == Len(s)
           scan == QueryScan(s)
           T == {i \in Nat : QueryState(scan[i], i)}
<1>1. /\ n \in Nat /\ scan[0] = NoField
      /\ \A c \in 0..(n - 1) : scan[c + 1] = QueryStep(scan[c], s, c)
  <2>1. n \in Nat
    BY CodesType
  <2> QED
    BY <2>1, QueryRun
<1> HIDE DEF scan
<1>2. 0 \in T
  <2>1. <<>> \in Fields
    BY DEF Fields
  <2>2. QueryState(NoField, 0)
    BY <2>1 DEF QueryState, NoField, Place, npos
  <2> QED
    BY <1>1, <2>2
<1>3. ASSUME NEW i \in 0..(n - 1), i \in T PROVE i + 1 \in T
  <2>1. i \in Nat /\ i <= n /\ QueryState(scan[i], i)
    BY <1>1, <1>3
  <2>2. QueryState(QueryStep(scan[i], s, i), i + 1)
    BY <2>1, QueryStepType
  <2>3. scan[i + 1] = QueryStep(scan[i], s, i)
    BY <1>1
  <2> QED
    BY <2>1, <2>2, <2>3
<1> HIDE DEF T
<1>4. n \in T
  <2>1. 0..n \subseteq T
    <3>1. 0 \in Nat
      OBVIOUS
    <3> QED
      BY <1>1, <1>2, <1>3, <3>1, RangeInduction
  <2> QED
    BY <1>1, <2>1
<1> DEFINE k == scan[n]
<1>5. QueryState(k, n)
  BY <1>4 DEF T
<1> HIDE DEF k
<1>6. QueryState(Add(k, s, n), n)
  BY <1>1, <1>5, AddType
<1>7. QueryEnd(k, s) \in Fields
  BY <1>5, <1>6 DEF QueryEnd, QueryState
<1> QED
  BY <1>7, QueryResult DEF k, scan

-----------------------------------------------------------------------------
(* SemicolonSeparatedAttributes *)

\* scan is the recursive function inside SemicolonSeparatedAttributes::parse, for the first
\* n characters.
AttributeScans(scan, s, n) ==
  scan = [i \in 0..n |-> IF i = 0 THEN NoAttribute ELSE AttributeStep(scan[i - 1], s, i - 1)]

LEMMA AttributeScanExists ==
  ASSUME NEW s
  PROVE  \A n \in Nat : \E f : AttributeScans(f, s, n)
<1> DEFINE T == {n \in Nat : \E f : AttributeScans(f, s, n)}
<1>1. 0 \in T
  <2> DEFINE f == [i \in 0..0 |-> NoAttribute]
  <2>1. f = [i \in 0..0 |-> IF i = 0 THEN NoAttribute ELSE AttributeStep(f[i - 1], s, i - 1)]
    OBVIOUS
  <2> HIDE DEF f
  <2>2. AttributeScans(f, s, 0)
    BY <2>1 DEF AttributeScans
  <2> QED
    BY <2>2
<1>2. ASSUME NEW n \in Nat, n \in T PROVE n + 1 \in T
  <2>1. PICK f : AttributeScans(f, s, n)
    BY <1>2
  <2> DEFINE next == AttributeStep(f[n], s, n)
             g == [i \in 0..n + 1 |-> IF i = n + 1 THEN next ELSE f[i]]
  <2>2. ASSUME NEW i \in 0..n + 1
        PROVE  g[i] = IF i = 0 THEN NoAttribute ELSE AttributeStep(g[i - 1], s, i - 1)
    <3>1. CASE i = n + 1
      <4>1. n \in 0..n + 1 /\ n # n + 1 /\ i - 1 = n /\ i # 0
        BY <3>1
      <4>2. g[n] = f[n] /\ g[i] = next
        BY <4>1, <3>1
      <4> HIDE DEF g
      <4> QED
        BY <4>1, <4>2, <3>1, Zenon
    <3>2. CASE i # n + 1
      <4>1. i \in 0..n
        BY <3>2
      <4>2. f[i] = IF i = 0 THEN NoAttribute ELSE AttributeStep(f[i - 1], s, i - 1)
        BY <2>1, <4>1 DEF AttributeScans
      <4>3. i # 0 => i - 1 \in 0..n + 1 /\ i - 1 # n + 1
        BY <4>1
      <4>4. g[i] = f[i] /\ (i # 0 => g[i - 1] = f[i - 1])
        BY <3>2, <4>3
      <4> HIDE DEF g
      <4> QED
        BY <4>2, <4>4, Zenon
    <3> QED
      BY <3>1, <3>2
  <2>3. g = [i \in 0..n + 1 |-> IF i = 0 THEN NoAttribute ELSE AttributeStep(g[i - 1], s, i - 1)]
    <3> DEFINE h == [i \in 0..n + 1 |->
                       IF i = 0 THEN NoAttribute ELSE AttributeStep(g[i - 1], s, i - 1)]
    <3>1. DOMAIN g = 0..n + 1 /\ g = [i \in DOMAIN g |-> g[i]]
      OBVIOUS
    <3> HIDE DEF g
    <3> QED
      BY <2>2, <3>1, Zenon
  <2>4. \E h : AttributeScans(h, s, n + 1)
    BY <2>3, Zenon DEF AttributeScans
  <2> QED
    BY <2>4
<1> HIDE DEF T
<1>3. Nat \subseteq T
  BY <1>1, <1>2, SetInduction
<1> QED
  BY <1>3 DEF T

\* What the scan has behind each character.
AttributeScan(s) == CHOOSE f : AttributeScans(f, s, Len(s))

LEMMA AttributeRun ==
  ASSUME NEW s, Len(s) \in Nat
  PROVE  /\ AttributeScan(s)[0] = NoAttribute
         /\ \A c \in 0..(Len(s) - 1) :
              AttributeScan(s)[c + 1] = AttributeStep(AttributeScan(s)[c], s, c)
<1> DEFINE f == AttributeScan(s)
           n == Len(s)
<1>1. AttributeScans(f, s, n)
  BY AttributeScanExists, Zenon DEF AttributeScan
<1> HIDE DEF f, n
<1>2. n \in Nat
  BY DEF n
<1>3. f[0] = NoAttribute
  BY <1>1, <1>2 DEF AttributeScans
<1>4. ASSUME NEW c \in 0..(n - 1) PROVE f[c + 1] = AttributeStep(f[c], s, c)
  <2> DEFINE i == c + 1
  <2>1. i \in 0..n /\ i # 0 /\ i - 1 = c
    BY <1>2
  <2> HIDE DEF i
  <2>2. f[i] = AttributeStep(f[i - 1], s, i - 1)
    BY <1>1, <2>1 DEF AttributeScans
  <2> QED
    BY <2>1, <2>2 DEF i
<1> QED
  BY <1>3, <1>4, Zenon DEF f, n

\* What the scan returns when it is k at the end.
AttributeEnd(k, s) ==
  CASE k.start = npos -> k.fields
    [] k.start # npos /\ k.name_end = npos -> Append(k.fields, Flag(k, s, Len(s)))
    [] k.start # npos /\ k.name_end # npos /\ k.value # npos ->
         Append(k.fields, Attribute(k, s, Len(s)))
    [] OTHER -> k.fields

LEMMA AttributeResult ==
  ASSUME NEW s
  PROVE  ParseAttributes(s) = AttributeEnd(AttributeScan(s)[Len(s)], s)
BY Zenon DEF ParseAttributes, AttributeEnd, AttributeScan, AttributeScans

\* The scan behind the first i characters.
AttributeState(k, i) ==
  k \in [start : Place(i), name_end : Int, value : Place(i), fields : Fields]

LEMMA FieldsType ==
  ASSUME NEW s \in Seq(Byte), NEW i \in Nat, i <= Len(s), NEW c \in Nat, NEW k,
         AttributeState(k, i), k.start # npos
  PROVE  /\ Append(k.fields, Flag(k, s, c)) \in Fields
         /\ k.value # npos => Append(k.fields, Attribute(k, s, c)) \in Fields
<1> DEFINE name == Substr(s, k.start, k.name_end - k.start)
           flag == Substr(s, k.start, c - k.start)
           value == Substr(s, k.value, c - k.value)
<1>1. /\ k.start \in Place(i) /\ k.name_end \in Int /\ k.value \in Place(i) /\ k.fields \in Fields
      /\ Len(s) \in Nat
  BY CodesType DEF AttributeState
<1>2. k.start \in 0..i
  BY <1>1 DEF Place
<1>3. k.start \in Nat /\ k.start <= Len(s) /\ k.name_end - k.start \in Int /\ c - k.start \in Int
  BY <1>1, <1>2
<1>4. name \in Seq(Byte) /\ flag \in Seq(Byte) /\ <<>> \in Seq(Byte)
  <2>1. name \in Seq(Byte)
    BY <1>3, SubstrType
  <2>2. flag \in Seq(Byte)
    BY <1>3, SubstrType
  <2> QED
    BY <2>1, <2>2
<1>5. ASSUME k.value # npos PROVE Decode(value) \in Seq(Byte)
  <2>1. k.value \in 0..i
    BY <1>1, <1>5 DEF Place
  <2>2. k.value \in Nat /\ k.value <= Len(s) /\ c - k.value \in Int
    BY <1>1, <2>1
  <2>3. value \in Seq(Byte)
    BY <2>2, SubstrType
  <2> HIDE DEF value
  <2> QED
    BY <2>3, DecodeType
<1>6. Flag(k, s, c) = <<flag, <<>>>> /\ Attribute(k, s, c) = <<name, Decode(value)>>
  BY DEF Flag, Attribute
<1> HIDE DEF name, flag, value
<1>7. /\ Flag(k, s, c) \in Seq(Byte) \X Seq(Byte)
      /\ k.value # npos => Attribute(k, s, c) \in Seq(Byte) \X Seq(Byte)
  <2>1. <<flag, <<>>>> \in Seq(Byte) \X Seq(Byte)
    BY <1>4
  <2>2. ASSUME k.value # npos PROVE <<name, Decode(value)>> \in Seq(Byte) \X Seq(Byte)
    BY <1>4, <1>5, <2>2
  <2> QED
    BY <1>6, <2>1, <2>2
<1> QED
  BY <1>1, <1>7, AppendProperties DEF Fields

LEMMA AttributeStepType ==
  ASSUME NEW s \in Seq(Byte), NEW c \in Nat, c <= Len(s), NEW k, AttributeState(k, c)
  PROVE  AttributeState(AttributeStep(k, s, c), c + 1)
<1> DEFINE j == c + 1
           q == IF At(s, c) = QUOTE /\ c + 1 < Len(s) THEN c + 1 ELSE c
<1>1. /\ Place(c) \subseteq Place(j) /\ npos \in Place(j) /\ npos \in Int /\ c \in Int
      /\ c \in Place(j) /\ j \in Place(j)
  BY Places
<1>2. q \in Place(j)
  BY <1>1
<1> HIDE DEF j, q
<1>3. AttributeState(k, j)
  BY <1>1 DEF AttributeState
<1>4. /\ AttributeState([k EXCEPT !.start = c], j)
      /\ AttributeState([k EXCEPT !.name_end = c], j)
      /\ AttributeState([k EXCEPT !.value = q], j)
  BY <1>1, <1>2, <1>3 DEF AttributeState
<1>5. ASSUME NEW field, Append(k.fields, field) \in Fields
      PROVE  AttributeState(Known(k, field), j)
  <2>1. AttributeState(NoAttribute, j)
    <3>1. <<>> \in Fields
      BY DEF Fields
    <3> QED
      BY <1>1, <3>1 DEF AttributeState, NoAttribute
  <2>2. Known(k, field) = [NoAttribute EXCEPT !.fields = Append(k.fields, field)]
    BY DEF Known
  <2> QED
    BY <1>5, <2>1, <2>2 DEF AttributeState
<1>6. CASE k.start = npos
  <2>1. AttributeStep(k, s, c) = IF At(s, c) \in {SPACE, SEMICOLON} THEN k
                                 ELSE [k EXCEPT !.start = c]
    BY <1>6 DEF AttributeStep
  <2> QED
    BY <1>3, <1>4, <2>1 DEF j
<1>7. CASE k.start # npos /\ k.name_end = npos
  <2>1. \/ AttributeStep(k, s, c) = Known(k, Flag(k, s, c))
        \/ AttributeStep(k, s, c) = [k EXCEPT !.name_end = c]
        \/ AttributeStep(k, s, c) = k
    BY <1>7 DEF AttributeStep
  <2>2. Append(k.fields, Flag(k, s, c)) \in Fields
    BY <1>7, FieldsType
  <2> QED
    BY <1>3, <1>4, <1>5, <2>1, <2>2 DEF j
<1>8. CASE k.start # npos /\ k.name_end # npos /\ k.value = npos
  <2>1. AttributeStep(k, s, c) = [k EXCEPT !.value = q]
    BY <1>8 DEF AttributeStep, q
  <2> QED
    BY <1>4, <2>1 DEF j
<1>9. CASE k.start # npos /\ k.name_end # npos /\ k.value # npos
  <2>1. AttributeStep(k, s, c) = IF At(s, c) \in {QUOTE, SEMICOLON}
                                 THEN Known(k, Attribute(k, s, c)) ELSE k
    BY <1>9 DEF AttributeStep
  <2>2. Append(k.fields, Attribute(k, s, c)) \in Fields
    BY <1>9, FieldsType
  <2> QED
    BY <1>3, <1>5, <2>1, <2>2 DEF j
<1> QED
  BY <1>6, <1>7, <1>8, <1>9

LEMMA AttributeType ==
  ASSUME NEW s \in Seq(Byte)
  PROVE  ParseAttributes(s) \in Fields
<1> DEFINE n == Len(s)
           scan == AttributeScan(s)
           T == {i \in Nat : AttributeState(scan[i], i)}
<1>1. /\ n \in Nat /\ scan[0] = NoAttribute
      /\ \A c \in 0..(n - 1) : scan[c + 1] = AttributeStep(scan[c], s, c)
  <2>1. n \in Nat
    BY CodesType
  <2> QED
    BY <2>1, AttributeRun
<1> HIDE DEF scan
<1>2. 0 \in T
  <2>1. <<>> \in Fields
    BY DEF Fields
  <2>2. AttributeState(NoAttribute, 0)
    BY <2>1 DEF AttributeState, NoAttribute, Place, npos
  <2> QED
    BY <1>1, <2>2
<1>3. ASSUME NEW i \in 0..(n - 1), i \in T PROVE i + 1 \in T
  <2>1. i \in Nat /\ i <= n /\ AttributeState(scan[i], i)
    BY <1>1, <1>3
  <2>2. AttributeState(AttributeStep(scan[i], s, i), i + 1)
    BY <2>1, AttributeStepType
  <2>3. scan[i + 1] = AttributeStep(scan[i], s, i)
    BY <1>1
  <2> QED
    BY <2>1, <2>2, <2>3
<1> HIDE DEF T
<1>4. n \in T
  <2>1. 0..n \subseteq T
    <3>1. 0 \in Nat
      OBVIOUS
    <3> QED
      BY <1>1, <1>2, <1>3, <3>1, RangeInduction
  <2> QED
    BY <1>1, <2>1
<1> DEFINE k == scan[n]
<1>5. AttributeState(k, n) /\ k.fields \in Fields
  BY <1>4 DEF T, AttributeState
<1> HIDE DEF k
<1>6. k.start # npos => /\ Append(k.fields, Flag(k, s, n)) \in Fields
                        /\ k.value # npos => Append(k.fields, Attribute(k, s, n)) \in Fields
  BY <1>1, <1>5, FieldsType
<1>7. AttributeEnd(k, s) \in Fields
  BY <1>5, <1>6 DEF AttributeEnd
<1> QED
  BY <1>7, AttributeResult DEF k, scan

-----------------------------------------------------------------------------
(* NeverThrows: every part that is taken is a text of bytes *)

LEMMA GreatestNumber ==
  ASSUME NEW n \in Nat, NEW T, T \subseteq 0..n, T # {}
  PROVE  \E x \in T : \A y \in T : x >= y
<1> DEFINE U == {n - y : y \in T}
<1>1. U \subseteq Nat /\ U # {}
  <2>1. PICK y \in T : TRUE
    OBVIOUS
  <2>2. n - y \in U
    OBVIOUS
  <2>3. \A z \in T : n - z \in Nat
    OBVIOUS
  <2> QED
    BY <2>2, <2>3
<1>2. PICK u \in U : \A v \in U : u <= v
  <2> HIDE DEF U
  <2> QED
    BY <1>1, LeastNumber
<1>3. \E x \in T : u = n - x
  BY <1>2
<1>5. PICK x \in T : u = n - x
  BY <1>3
<1>4. ASSUME NEW y \in T PROVE x >= y
  <2>1. n - x <= n - y
    BY <1>2, <1>5
  <2>2. x \in Int /\ y \in Int
    OBVIOUS
  <2> QED
    BY <2>1, <2>2
<1> QED
  BY <1>4

LEMMA QueryStartType ==
  ASSUME NEW text, Len(text) \in Nat, NEW from \in Nat, NEW to \in Int
  PROVE  \/ QueryStart(text, from, to) = npos
         \/ QueryStart(text, from, to) \in Nat /\ QueryStart(text, from, to) <= Len(text)
<1> DEFINE found == {c \in from..to : At(text, c) = QUESTION /\ c + 1 < Len(text)}
<1>1. found \subseteq 0..Len(text) /\ \A c \in found : c + 1 <= Len(text)
  OBVIOUS
<1>2. found \subseteq Nat
  OBVIOUS
<1>3. CASE found = {}
  BY <1>3 DEF QueryStart
<1>4. CASE found # {}
  <2> HIDE DEF found
  <2>1. PICK x \in found : \A y \in found : x >= y
    BY <1>1, <1>4, GreatestNumber
  <2>2. Max(found) = x
    BY <1>2, <2>1, GreatestIs
  <2>3. QueryStart(text, from, to) = x + 1
    BY <1>4, <2>2 DEF QueryStart, found
  <2> QED
    BY <1>1, <1>2, <2>3
<1> QED
  BY <1>3, <1>4

LEMMA RequestType ==
  ASSUME NEW s \in Seq(Byte), ParseRequest(s).ok
  PROVE  {ParseRequest(s).method, ParseRequest(s).path, ParseRequest(s).query,
          ParseRequest(s).version} \subseteq Seq(Byte)
<1> DEFINE method_end == Find(s, SPACE, 0)
           end        == Find(s, SPACE, method_end + 1)
           start      == QueryStart(s, method_end + 1, end - 1)
           protocol   == Find(s, SLASH, end + 1)
           size       == (IF start = npos THEN end + 1 ELSE start) - method_end - 2
           method     == Substr(s, 0, method_end)
           path       == Substr(s, method_end + 1, size)
           query      == IF start = npos THEN <<>> ELSE Substr(s, start, end - start)
           version    == Substr(s, protocol + 1, Len(s) - protocol - 2)
<1>1. s \in Text /\ Len(s) \in Nat /\ SPACE \in Int /\ SLASH \in Int /\ 0 \in Nat
  BY CodesType DEF SPACE, SLASH
<1>2. method_end # npos /\ end # npos /\ protocol # npos
  BY DEF ParseRequest, NotParsed
<1>3. /\ ParseRequest(s).method = method /\ ParseRequest(s).path = path
      /\ ParseRequest(s).query = query /\ ParseRequest(s).version = version
  BY DEF ParseRequest, NotParsed
<1>4. method_end \in Nat /\ method_end + 1 <= Len(s)
  BY <1>1, <1>2, FindType
<1> HIDE DEF method_end
<1>5. end \in Nat /\ end + 1 <= Len(s)
  <2>1. method_end + 1 \in Nat
    BY <1>4
  <2> QED
    BY <1>1, <1>2, <2>1, FindType
<1> HIDE DEF end
<1>6. protocol \in Nat /\ protocol + 1 <= Len(s)
  <2>1. end + 1 \in Nat
    BY <1>5
  <2> QED
    BY <1>1, <1>2, <2>1, FindType
<1> HIDE DEF protocol
<1>7. start = npos \/ (start \in Nat /\ start <= Len(s))
  <2>1. method_end + 1 \in Nat /\ end - 1 \in Int
    BY <1>4, <1>5
  <2> QED
    BY <1>1, <2>1, QueryStartType
<1> HIDE DEF start
<1>8. size \in Int
  <2> DEFINE b == IF start = npos THEN end + 1 ELSE start
  <2>1. b \in Int
    BY <1>5, <1>7
  <2> HIDE DEF b
  <2>2. b - method_end - 2 \in Int
    BY <1>4, <2>1
  <2> QED
    BY <2>2 DEF b
<1> HIDE DEF size
<1>9. method \in Seq(Byte)
  <2>1. 0 <= Len(s) /\ method_end \in Int
    BY <1>1, <1>4
  <2> QED
    BY <1>1, <2>1, SubstrType
<1>10. path \in Seq(Byte)
  <2>1. method_end + 1 \in Nat
    BY <1>4
  <2> QED
    BY <1>4, <1>8, <2>1, SubstrType
<1>11. query \in Seq(Byte)
  <2>1. CASE start = npos
    <3>1. <<>> \in Seq(Byte)
      OBVIOUS
    <3> QED
      BY <2>1, <3>1
  <2>2. ASSUME start # npos PROVE query \in Seq(Byte)
    <3>1. start \in Nat /\ start <= Len(s) /\ end - start \in Int
      BY <1>5, <1>7, <2>2
    <3>2. Substr(s, start, end - start) \in Seq(Byte)
      BY <3>1, SubstrType
    <3> QED
      BY <2>2, <3>2
  <2> QED
    BY <2>1, <2>2
<1>12. version \in Seq(Byte)
  <2>1. protocol + 1 \in Nat /\ Len(s) - protocol - 2 \in Int
    BY <1>1, <1>6
  <2> QED
    BY <1>6, <2>1, SubstrType
<1> HIDE DEF method, path, query, version
<1> QED
  BY <1>3, <1>9, <1>10, <1>11, <1>12

LEMMA ResponseType ==
  ASSUME NEW s \in Seq(Byte), ParseResponse(s).ok
  PROVE  {ParseResponse(s).version, ParseResponse(s).status} \subseteq Seq(Byte)
<1> DEFINE version_end == Find(s, SPACE, 0)
           version == Substr(s, 5, version_end - 5)
           status  == Substr(s, version_end + 1, Len(s) - (version_end + 1) - 1)
<1>1. s \in Text /\ Len(s) \in Nat /\ SPACE \in Int /\ 0 \in Nat
  BY CodesType DEF SPACE
<1>2. version_end # npos /\ ~(Len(s) <= 5)
  BY DEF ParseResponse, NotParsed
<1>3. ParseResponse(s).version = version /\ ParseResponse(s).status = status
  BY DEF ParseResponse, NotParsed
<1>4. version_end \in Nat /\ version_end + 1 <= Len(s)
  BY <1>1, <1>2, FindType
<1> HIDE DEF version_end
<1>5. version \in Seq(Byte)
  <2>1. 5 \in Nat /\ 5 <= Len(s) /\ version_end - 5 \in Int
    BY <1>1, <1>2, <1>4
  <2> QED
    BY <2>1, SubstrType
<1>6. status \in Seq(Byte)
  <2>1. version_end + 1 \in Nat /\ Len(s) - (version_end + 1) - 1 \in Int
    BY <1>1, <1>4
  <2> QED
    BY <1>4, <2>1, SubstrType
<1> HIDE DEF version, status
<1> QED
  BY <1>3, <1>5, <1>6

LEMMA HeaderType ==
  ASSUME NEW s \in Seq(Byte)
  PROVE  ParseHeader(<<s>>) \in Fields
<1> DEFINE colon == Find(s, COLON, 0)
           start == ValueStart(s, colon)
           size  == Len(s) - start - (IF Last(s) = CR THEN 1 ELSE 0)
           name  == Substr(s, 0, colon)
           value == Substr(s, start, size)
<1>1. s \in Text /\ Len(s) \in Nat /\ COLON \in Int /\ 0 \in Nat /\ <<>> \in Fields
  BY CodesType DEF COLON, Fields
<1>2. ParseHeader(<<s>>) = IF colon = npos THEN <<>> ELSE ParseField(s)
  BY HeaderOne
<1>3. ParseField(s) = IF start >= Len(s) THEN <<>> ELSE << <<name, value>> >>
  BY DEF ParseField
<1>4. ASSUME colon # npos PROVE ParseField(s) \in Fields
  <2>1. colon \in Nat /\ colon + 1 <= Len(s)
    BY <1>1, <1>4, FindType
  <2> HIDE DEF colon
  <2>2. start \in Nat
    <3> DEFINE places == {p \in (colon + 1)..Len(s) : p + 1 >= Len(s) \/ At(s, p) # SPACE}
    <3>1. places \subseteq Nat /\ Len(s) \in places
      BY <1>1, <2>1
    <3> HIDE DEF places
    <3>2. PICK x \in places : \A y \in places : x <= y
      BY <3>1, LeastNumber
    <3>3. Min(places) = x
      BY <3>1, <3>2, LeastIs
    <3> QED
      BY <3>1, <3>3 DEF ValueStart, places
  <2> HIDE DEF start
  <2>3. size \in Int /\ 0 <= Len(s) /\ colon \in Int
    <3> DEFINE b == IF Last(s) = CR THEN 1 ELSE 0
    <3>1. b \in Int
      OBVIOUS
    <3> HIDE DEF b
    <3>2. Len(s) - start - b \in Int
      BY <1>1, <2>2, <3>1
    <3> QED
      BY <1>1, <2>1, <3>2 DEF b
  <2> HIDE DEF size
  <2>4. name \in Seq(Byte)
    BY <1>1, <2>3, SubstrType
  <2>5. ASSUME ~(start >= Len(s)) PROVE value \in Seq(Byte)
    <3>1. start <= Len(s)
      BY <1>1, <2>2, <2>5
    <3> QED
      BY <2>2, <2>3, <3>1, SubstrType
  <2> HIDE DEF name, value
  <2>6. ASSUME ~(start >= Len(s)) PROVE << <<name, value>> >> \in Fields
    <3>1. <<name, value>> \in Seq(Byte) \X Seq(Byte)
      BY <2>4, <2>5, <2>6
    <3> DEFINE entry == <<name, value>>
    <3> HIDE DEF entry
    <3>2. <<entry>> \in Seq(Seq(Byte) \X Seq(Byte))
      BY <3>1 DEF entry
    <3> QED
      BY <3>2 DEF Fields, entry
  <2> QED
    BY <1>1, <1>3, <2>6
<1> QED
  BY <1>1, <1>2, <1>4

LEMMA Unthrown ==
  /\ Threw \notin Seq(Byte)
  /\ \A fields \in Fields :
       Threw \notin {fields[i][1] : i \in DOMAIN fields} \cup {fields[i][2] : i \in DOMAIN fields}
<1>1. Threw \notin Seq(Byte)
  <2>1. ASSUME Threw \in Seq(Byte) PROVE FALSE
    <3>1. Len(Threw) = 1 /\ Threw[1] = -1
      BY DEF Threw
    <3>2. Threw[1] \in Byte
      BY <2>1, <3>1, ElementOfSeq
    <3> QED
      BY <3>1, <3>2 DEF Byte
  <2> QED
    BY <2>1
<1>2. ASSUME NEW fields \in Fields, NEW i \in DOMAIN fields
      PROVE  fields[i][1] \in Seq(Byte) /\ fields[i][2] \in Seq(Byte)
  <2>1. fields[i] \in Seq(Byte) \X Seq(Byte)
    BY <1>2, LenProperties, ElementOfSeq DEF Fields
  <2> QED
    BY <2>1
<1> QED
  BY <1>1, <1>2

LEMMA NothingThrows ==
  ASSUME line \in Seq(Byte)
  PROVE  NeverThrows
<1> DEFINE texts(fields) == {fields[i][1] : i \in DOMAIN fields} \cup
                            {fields[i][2] : i \in DOMAIN fields}
           request  == ParseRequest(line)
           response == ParseResponse(line)
<1>1. /\ Threw \notin texts(ParseQuery(line)) /\ Threw \notin texts(ParseHeader(<<line>>))
      /\ Threw \notin texts(ParseAttributes(line))
  BY QueryType, HeaderType, AttributeType, Unthrown
<1>2. request.ok => Threw \notin {request.method, request.path, request.query, request.version}
  BY RequestType, Unthrown
<1>3. response.ok => Threw \notin {response.version, response.status}
  BY ResponseType, Unthrown
<1> QED
  BY <1>1, <1>2, <1>3 DEF NeverThrows

-----------------------------------------------------------------------------
(* QueryRoundTrip *)

\* The scan has these values.
QueryIs(k, name, name_end, value, fields) ==
  k \in [name : {name}, name_end : {name_end}, value : {value}, fields : {fields}]

\* scan is the scan of text.
QueryRuns(scan, text) ==
  \A c \in 0..(Len(text) - 1) : scan[c + 1] = QueryStep(scan[c], text, c)

\* A character that is neither changes nothing, and an equals sign only where the name ends.
LEMMA QuerySteps ==
  ASSUME NEW scan, NEW text, QueryRuns(scan, text), Len(text) \in Nat,
         NEW c \in Nat, c + 1 <= Len(text)
  PROVE  /\ text[c + 1] = AMPERSAND =>
              scan[c + 1] = NextName(Add(scan[c], text, c), c)
         /\ text[c + 1] = EQUALS =>
              scan[c + 1] = NextValue(scan[c], c)
         /\ text[c + 1] # AMPERSAND /\ text[c + 1] # EQUALS => scan[c + 1] = scan[c]
<1>1. c \in 0..(Len(text) - 1)
  OBVIOUS
<1>2. scan[c + 1] = QueryStep(scan[c], text, c)
  BY <1>1 DEF QueryRuns
<1>3. At(text, c) = text[c + 1] /\ AMPERSAND # EQUALS
  BY DEF At, AMPERSAND, EQUALS
<1> QED
  BY <1>2, <1>3 DEF QueryStep

LEMMA QueryStays ==
  ASSUME NEW scan, NEW text, QueryRuns(scan, text), Len(text) \in Nat,
         NEW a \in Nat, NEW e \in Nat, a <= e, e <= Len(text),
         Lacks(text, a, e, AMPERSAND), Lacks(text, a, e, EQUALS)
  PROVE  scan[e] = scan[a]
<1> DEFINE T == {j \in Nat : scan[j] = scan[a]}
<1>1. a \in T
  OBVIOUS
<1>2. ASSUME NEW j \in a..(e - 1), j \in T PROVE j + 1 \in T
  <2>1. j \in Nat /\ j + 1 <= Len(text) /\ j + 1 \in (a + 1)..e /\ scan[j] = scan[a]
    BY <1>2
  <2>2. text[j + 1] # AMPERSAND /\ text[j + 1] # EQUALS
    BY <2>1 DEF Lacks
  <2>3. scan[j + 1] = scan[j]
    BY <2>1, <2>2, QuerySteps
  <2> QED
    BY <2>1, <2>3
<1> HIDE DEF T
<1>3. a..e \subseteq T
  BY <1>1, <1>2, RangeInduction
<1>4. e \in T
  BY <1>3
<1> QED
  BY <1>4 DEF T

LEMMA QueryNames ==
  ASSUME NEW scan, NEW text, QueryRuns(scan, text), Len(text) \in Nat,
         NEW a \in Nat, NEW e \in Nat, a <= e, e <= Len(text),
         Lacks(text, a, e, AMPERSAND), NEW b, NEW fields,
         \E n, v : QueryIs(scan[a], b, n, v, fields)
  PROVE  \E n, v : QueryIs(scan[e], b, n, v, fields)
<1> DEFINE T == {j \in Nat : \E n, v : QueryIs(scan[j], b, n, v, fields)}
<1>1. a \in T
  OBVIOUS
<1>2. ASSUME NEW j \in a..(e - 1), j \in T PROVE j + 1 \in T
  <2>1. j \in Nat /\ j + 1 <= Len(text) /\ j + 1 \in (a + 1)..e /\ j + 1 \in Nat
    BY <1>2
  <2>2. PICK n, v : QueryIs(scan[j], b, n, v, fields)
    BY <1>2
  <2>3. text[j + 1] # AMPERSAND
    BY <2>1 DEF Lacks
  <2>4. \/ scan[j + 1] = scan[j]
        \/ scan[j + 1] = NextValue(scan[j], j)
    BY <2>1, <2>3, QuerySteps
  <2>5. QueryIs(NextValue(scan[j], j), b, j, j + 1, fields)
    BY <2>2 DEF QueryIs, NextValue
  <2>6. \E n_1, v_1 : QueryIs(scan[j + 1], b, n_1, v_1, fields)
    BY <2>2, <2>4, <2>5
  <2> QED
    BY <2>1, <2>6
<1> HIDE DEF T
<1>3. a..e \subseteq T
  BY <1>1, <1>2, RangeInduction
<1>4. e \in T
  BY <1>3
<1> QED
  BY <1>4 DEF T

\* The characters behind the first b, up to e, are a field: a name, or a name and a value.
Named(text, b, e, name, value) ==
  /\ b \in Nat /\ e \in Nat /\ e <= Len(text) /\ name # <<>> /\ ~Has(name, AMPERSAND)
  /\ Part(text, b, name)
  /\ \/ e = b + Len(name) /\ ~Has(name, EQUALS) /\ value = <<>>
     \/ \E q \in Nat : /\ q = b + Len(name) /\ text[q + 1] = EQUALS
                       /\ Part(text, q + 1, Encode(value)) /\ e = q + 1 + Len(Encode(value))

LEMMA QueryField ==
  ASSUME NEW scan, NEW text \in Text, QueryRuns(scan, text),
         NEW name \in Text, NEW value \in Seq(Byte), NEW b, NEW e,
         Named(text, b, e, name, value), NEW fields, QueryIs(scan[b], b, npos, npos, fields)
  PROVE  \E n, v : /\ QueryIs(scan[e], b, n, v, fields)
                   /\ QueryIs(Add(scan[e], text, e), b, n, v, Append(fields, <<name, value>>))
<1>1. /\ b \in Nat /\ e \in Nat /\ e <= Len(text) /\ name # <<>> /\ ~Has(name, AMPERSAND)
      /\ Part(text, b, name)
  BY DEF Named
<1>2. /\ AMPERSAND \in Int /\ EQUALS \in Int /\ Len(text) \in Nat /\ Len(name) \in Nat
      /\ AMPERSAND # EQUALS
  BY LenType DEF AMPERSAND, EQUALS
<1>3. Substr(text, b, Len(name)) = name
  BY <1>1, SubstrPart, Zenon
<1>4. Lacks(text, b, b + Len(name), AMPERSAND)
  BY <1>1, <1>2, PartLacks, Zenon
<1>5. ASSUME e = b + Len(name), ~Has(name, EQUALS), value = <<>>
      PROVE  /\ QueryIs(scan[e], b, npos, npos, fields)
             /\ QueryIs(Add(scan[e], text, e), b, npos, npos, Append(fields, <<name, value>>))
  <2>1. Lacks(text, b, b + Len(name), EQUALS)
    BY <1>1, <1>2, <1>5, PartLacks, Zenon
  <2>2. b <= e /\ e - b = Len(name)
    BY <1>1, <1>2, <1>5
  <2>3. scan[e] = scan[b]
    BY <1>1, <1>2, <1>4, <1>5, <2>1, <2>2, QueryStays
  <2> DEFINE k == scan[b]
  <2>4. k.name = b /\ k.name_end = npos /\ k.value = npos
    BY DEF QueryIs
  <2>5. Decode(<<>>) = <<>>
    <3>1. Encode(value) = <<>>
      BY <1>5, EncodeSafe
    <3>2. Decode(Encode(value)) = value
      BY DecodeEncode
    <3> QED
      BY <1>5, <3>1, <3>2
  <2> HIDE DEF k
  <2>6. Add(k, text, e) = [k EXCEPT !.fields = Append(@, <<name, value>>)]
    <3>1. Substr(text, k.name, (IF k.name_end = npos THEN e ELSE k.name_end) - k.name) = name
      BY <1>3, <2>2, <2>4
    <3> QED
      BY <1>1, <1>5, <2>4, <2>5, <3>1 DEF Add
  <2> QED
    BY <2>3, <2>6 DEF QueryIs, k
<1>6. ASSUME NEW q \in Nat, q = b + Len(name), text[q + 1] = EQUALS,
             Part(text, q + 1, Encode(value)), e = q + 1 + Len(Encode(value))
      PROVE  /\ QueryIs(scan[e], b, q, q + 1, fields)
             /\ QueryIs(Add(scan[e], text, e), b, q, q + 1, Append(fields, <<name, value>>))
  <2> DEFINE code == Encode(value)
             p == q + 1
  <2>1. code \in Text /\ ~Has(code, AMPERSAND) /\ ~Has(code, EQUALS)
    <3>1. code \in Text /\ \A i \in 1..Len(code) : code[i] \in Safe
      BY EncodeSafe
    <3> HIDE DEF code
    <3> QED
      BY <1>2, <3>1, SafeBytes, HasNot
  <2>2. Len(code) \in Nat
    BY <2>1, LenType
  <2>3. /\ p \in Nat /\ b <= q /\ p <= e /\ e = p + Len(code) /\ q - b = Len(name)
        /\ e - p = Len(code) /\ q <= Len(text) /\ q + 1 <= Len(text)
    BY <1>1, <1>2, <1>6, <2>2
  <2>4. \E n, v : QueryIs(scan[q], b, n, v, fields)
    <3>1. \E n, v : QueryIs(scan[b], b, n, v, fields)
      OBVIOUS
    <3>2. Lacks(text, b, q, AMPERSAND)
      BY <1>4, <1>6
    <3> QED
      BY <1>1, <1>2, <2>3, <3>1, <3>2, QueryNames
  <2>5. scan[p] = NextValue(scan[q], q)
    BY <1>2, <1>6, <2>3, QuerySteps
  <2>6. QueryIs(scan[p], b, q, p, fields)
    <3>1. NextValue(scan[q], q) = [scan[q] EXCEPT !.name_end = q, !.value = p]
      BY DEF NextValue
    <3> HIDE DEF p
    <3> QED
      BY <2>4, <2>5, <3>1 DEF QueryIs
  <2> HIDE DEF p
  <2>7. Part(text, p, code)
    BY <1>6 DEF p
  <2> HIDE DEF code
  <2>8. Lacks(text, p, e, AMPERSAND) /\ Lacks(text, p, e, EQUALS)
    BY <1>2, <2>1, <2>3, <2>7, PartLacks
  <2>9. scan[e] = scan[p]
    BY <1>1, <1>2, <2>3, <2>8, QueryStays
  <2> DEFINE k == scan[p]
  <2>10. k.name = b /\ k.name_end = q /\ k.value = p
    BY <2>6 DEF QueryIs
  <2>11. Substr(text, p, Len(code)) = code /\ Decode(code) = value /\ q # npos /\ p # npos
    <3>1. Substr(text, p, Len(code)) = code
      BY <2>1, <2>3, <2>7, SubstrPart
    <3>2. Decode(code) = value
      BY DecodeEncode DEF code
    <3> QED
      BY <2>3, <3>1, <3>2 DEF npos
  <2> HIDE DEF k
  <2>12. Add(k, text, e) = [k EXCEPT !.fields = Append(@, <<name, value>>)]
    <3>1. Substr(text, k.name, (IF k.name_end = npos THEN e ELSE k.name_end) - k.name) = name
      BY <1>3, <2>3, <2>10, <2>11
    <3>2. (IF k.value = npos THEN <<>> ELSE Substr(text, k.value, e - k.value)) = code
      BY <2>3, <2>10, <2>11
    <3> QED
      BY <1>1, <2>11, <3>1, <3>2 DEF Add
  <2>13. QueryIs([k EXCEPT !.fields = Append(@, <<name, value>>)], b, q, p,
                 Append(fields, <<name, value>>))
    BY <2>6 DEF QueryIs, k
  <2> QED
    BY <2>6, <2>9, <2>12, <2>13 DEF k, p
<1> QED
  BY <1>5, <1>6 DEF Named

LEMMA Associate ==
  ASSUME NEW s \in Text, NEW t \in Text, NEW u \in Text
  PROVE  (s \o t) \o u = s \o (t \o u)
BY ConcatAssociative DEF Text

\* A field is written as its name, or as its name and its value.
Form(p, name, value) ==
  \/ p = name /\ ~Has(name, EQUALS) /\ value = <<>>
  \/ p = name \o (<<EQUALS>> \o Encode(value))

LEMMA FormNamed ==
  ASSUME NEW text \in Text, NEW b \in Nat, NEW p \in Text, Part(text, b, p),
         NEW name \in Text, NEW value \in Seq(Byte), Form(p, name, value),
         name # <<>>, ~Has(name, AMPERSAND)
  PROVE  Named(text, b, b + Len(p), name, value)
<1> DEFINE code == Encode(value)
           S == <<EQUALS>>
           q == b + Len(name)
           e == b + Len(p)
<1>1. /\ code \in Text /\ EQUALS \in Int /\ S \in Text /\ Len(S) = 1
  BY EncodeSafe DEF EQUALS, Text
<1>2. /\ Len(text) \in Nat /\ Len(p) \in Nat /\ Len(name) \in Nat /\ Len(code) \in Nat
      /\ q \in Nat /\ e \in Nat
  BY <1>1, LenType
<1>3. e <= Len(text)
  BY DEF Part
<1>4. ASSUME p = name, ~Has(name, EQUALS), value = <<>>
      PROVE  Named(text, b, e, name, value)
  <2>1. Part(text, b, name) /\ e = b + Len(name)
    BY <1>4
  <2> HIDE DEF e
  <2> QED
    BY <1>2, <1>3, <1>4, <2>1 DEF Named
<1>5. ASSUME p = name \o (S \o code) PROVE Named(text, b, e, name, value)
  <2> DEFINE t == S \o code
  <2>1. t \in Text /\ Len(t) = 1 + Len(code)
    BY <1>1, Concat
  <2>2. Part(text, b, name \o t)
    BY <1>5
  <2>3. Part(text, b, name) /\ Part(text, q, t)
    <3> HIDE DEF t
    <3> QED
      BY <2>1, <2>2, PartsOf
  <2>4. Len(p) = Len(name) + Len(t)
    <3> HIDE DEF t
    <3> QED
      BY <1>5, <2>1, Concat DEF t
  <2> HIDE DEF S, code
  <2>5. Part(text, q, S) /\ Part(text, q + 1, code)
    <3>1. Part(text, q, S \o code)
      BY <2>3
    <3>2. Part(text, q, S) /\ Part(text, q + Len(S), code)
      BY <1>1, <1>2, <3>1, PartsOf
    <3> QED
      BY <1>1, <3>2
  <2>6. text[q + 1] = EQUALS
    BY <1>1, <1>2, <2>5, OnePart DEF S
  <2> HIDE DEF t
  <2>7. e = q + 1 + Len(code)
    BY <1>1, <1>2, <2>1, <2>4
  <2> HIDE DEF q, e
  <2>8. \E r \in Nat : /\ r = b + Len(name) /\ text[r + 1] = EQUALS
                       /\ Part(text, r + 1, code) /\ e = r + 1 + Len(code)
    <3>1. q = b + Len(name)
      BY DEF q
    <3> QED
      BY <1>2, <2>5, <2>6, <2>7, <3>1
  <2> QED
    BY <1>2, <1>3, <2>3, <2>8 DEF Named, code
<1> QED
  BY <1>4, <1>5 DEF Form

\* Two texts with an ampersand between them.
Parted(text, p, r) == text = p \o (<<AMPERSAND>> \o r)

\* p is a field, written.
Writes(p, n, v) ==
  p \in Text /\ n \in Text /\ Form(p, n, v) /\ n # <<>> /\ ~Has(n, AMPERSAND)

BothFields(n, v, m, w) == << <<n, v>>, <<m, w>> >>

LEMMA BothAre ==
  ASSUME NEW n, NEW v, NEW m, NEW w
  PROVE  Append(<< <<n, v>> >>, <<m, w>>) = BothFields(n, v, m, w)
<1> DEFINE f == <<n, v>>
           g == <<m, w>>
<1>1. BothFields(n, v, m, w) = <<f, g>>
  BY DEF BothFields
<1> HIDE DEF f, g
<1>2. Append(<<f>>, g) = <<f, g>>
  <2> DEFINE S == {f, g}
             a == Append(<<f>>, g)
             c == <<f, g>>
  <2>1. <<f>> \in Seq(S) /\ g \in S /\ Len(<<f>>) = 1 /\ <<f>>[1] = f
    OBVIOUS
  <2>2. c \in Seq(S) /\ Len(c) = 2 /\ c[1] = f /\ c[2] = g
    OBVIOUS
  <2> HIDE DEF S, c
  <2>3. a \in Seq(S) /\ Len(a) = 2 /\ a[1] = f /\ a[2] = g
    BY <2>1, AppendProperties
  <2> HIDE DEF a
  <2>4. \A i \in 1..Len(a) : a[i] = c[i]
    BY <2>2, <2>3
  <2> QED
    BY <2>2, <2>3, <2>4, SeqEqual DEF a, c
<1> QED
  BY <1>1, <1>2 DEF f, g

\* Two such fields are read.
LEMMA FieldsRead ==
  ASSUME NEW p, NEW r, NEW n, NEW m, NEW v \in Seq(Byte), NEW w \in Seq(Byte),
         Writes(p, n, v), Writes(r, m, w), NEW text, Parted(text, p, r)
  PROVE  ParseQuery(text) = BothFields(n, v, m, w)
<1> DEFINE S == <<AMPERSAND>>
           t == S \o r
           a == Len(p)
           b == a + 1
           e == b + Len(r)
           scan == QueryScan(text)
           first == << <<n, v>> >>
<1>0. /\ p \in Text /\ n \in Text /\ Form(p, n, v) /\ n # <<>> /\ ~Has(n, AMPERSAND)
      /\ r \in Text /\ m \in Text /\ Form(r, m, w) /\ m # <<>> /\ ~Has(m, AMPERSAND)
  BY DEF Writes
<1>1. S \in Text /\ Len(S) = 1 /\ AMPERSAND \in Int
  BY DEF Text, AMPERSAND
<1>2. t \in Text /\ Len(t) = 1 + Len(r)
  BY <1>0, <1>1, Concat
<1>3. a \in Nat /\ Len(r) \in Nat /\ b \in Nat /\ e \in Nat
  BY <1>0, LenType
<1>4. text \in Text /\ Len(text) = e /\ Part(text, 0, p) /\ Part(text, a, t)
  <2>1. text = p \o t
    BY DEF Parted
  <2> HIDE DEF t
  <2>2. text \in Text /\ Len(text) = Len(p) + Len(t)
    BY <1>0, <1>2, <2>1, Concat
  <2>3. Part(text, 0, p \o t) /\ 0 \in Nat /\ 0 + Len(p) = a
    <3>1. Part(text, 0, text)
      BY <2>2, WholePart
    <3>2. 0 \in Nat /\ 0 + Len(p) = a
      BY <1>3
    <3> QED
      BY <2>1, <3>1, <3>2, Zenon
  <2>4. Part(text, 0, p) /\ Part(text, a, t)
    BY <1>0, <1>2, <2>2, <2>3, PartsOf
  <2> QED
    BY <1>2, <1>3, <2>2, <2>4
<1> HIDE DEF S
<1>5. Part(text, a, S) /\ Part(text, b, r)
  BY <1>0, <1>1, <1>3, <1>4, PartsOf
<1>6. text[b] = AMPERSAND
  BY <1>1, <1>3, <1>4, <1>5, OnePart DEF S
<1> HIDE DEF t
<1>7. Named(text, 0, a, n, v)
  <2>1. Named(text, 0, 0 + a, n, v) /\ 0 + a = a
    BY <1>0, <1>3, <1>4, FormNamed
  <2> QED
    BY <2>1
<1>8. Named(text, b, e, m, w)
  BY <1>0, <1>3, <1>4, <1>5, FormNamed
<1>9. QueryRuns(scan, text) /\ scan[0] = NoField /\ Len(text) \in Nat
  <2>1. Len(text) \in Nat
    BY <1>3, <1>4
  <2> QED
    BY <2>1, QueryRun DEF QueryRuns
<1>10. QueryIs(scan[0], 0, npos, npos, <<>>)
  BY <1>9 DEF QueryIs, NoField
<1> HIDE DEF scan
<1>11. PICK x, y : QueryIs(Add(scan[a], text, a), 0, x, y, Append(<<>>, <<n, v>>))
  BY <1>4, <1>7, <1>9, <1>10, <1>0, QueryField
<1>12. scan[b] = NextName(Add(scan[a], text, a), a)
  <2>1. a + 1 <= Len(text) /\ text[a + 1] = AMPERSAND
    BY <1>3, <1>4, <1>6
  <2> QED
    BY <1>3, <1>9, <2>1, QuerySteps
<1>13. QueryIs(scan[b], b, npos, npos, first)
  <2>1. Append(<<>>, <<n, v>>) = first
    OBVIOUS
  <2> DEFINE k == Add(scan[a], text, a)
  <2>2. QueryIs(k, 0, x, y, first)
    BY <1>11, <2>1
  <2> HIDE DEF k, first
  <2>3. QueryIs(NextName(k, a), b, npos, npos, first)
    BY <2>2 DEF QueryIs, NextName
  <2> QED
    BY <1>12, <2>3 DEF k
<1> HIDE DEF first
<1>14. PICK x_1, y_1 : /\ QueryIs(scan[e], b, x_1, y_1, first)
                       /\ QueryIs(Add(scan[e], text, e), b, x_1, y_1, Append(first, <<m, w>>))
  BY <1>4, <1>8, <1>9, <1>13, <1>0, QueryField
<1>15. b < e
  <2>1. Len(r) # 0
    <3>1. Part(text, b, m) /\ Len(m) \in Nat /\ Len(m) # 0
      BY <1>0, <1>8, TextType DEF Named
    <3>2. b + Len(m) <= e
      BY <1>4, <3>1 DEF Part
    <3> QED
      BY <1>3, <3>1, <3>2
  <2> QED
    BY <1>3, <2>1
<1>16. scan[e].name = b
  BY <1>14 DEF QueryIs
<1>17. ParseQuery(text) = Append(first, <<m, w>>)
  <2>1. ParseQuery(text) = QueryEnd(scan[e], text)
    BY <1>4, QueryResult DEF scan
  <2>2. QueryEnd(scan[e], text) = Add(scan[e], text, e).fields
    BY <1>4, <1>15, <1>16 DEF QueryEnd
  <2>3. Add(scan[e], text, e).fields = Append(first, <<m, w>>)
    BY <1>14 DEF QueryIs
  <2> QED
    BY <2>1, <2>2, <2>3
<1>18. Append(first, <<m, w>>) = BothFields(n, v, m, w)
  BY BothAre DEF first
<1> QED
  BY <1>17, <1>18

\* What QueryString::create writes for one field.
LEMMA CreateOne ==
  ASSUME NEW n \in Text, NEW v \in Seq(Byte)
  PROVE  Create(<< <<n, v>> >>) = n \o (<<EQUALS>> \o Encode(v))
<1> DEFINE fields == << <<n, v>> >>
           code == Encode(v)
           E == <<EQUALS>>
           piece(i) == (IF i > 1 THEN <<AMPERSAND>> ELSE <<>>) \o fields[i][1] \o E
                         \o Encode(fields[i][2])
           t == [i \in DOMAIN fields |-> piece(i)]
<1>1. code \in Text /\ E \in Text
  BY EncodeSafe DEF EQUALS, Text
<1>2. Create(fields) = FlattenSeq(t)
  BY DEF Create
<1>3. DOMAIN fields = 1..1 /\ fields[1][1] = n /\ fields[1][2] = v
  OBVIOUS
<1>4. piece(1) = <<>> \o n \o E \o code
  BY <1>3
<1> HIDE DEF fields, piece, E
<1>5. Len(t) = 1 /\ t[1] = piece(1)
  BY <1>3
<1> HIDE DEF t, code
<1>6. <<>> \o n = n /\ (n \o E) \o code = n \o (E \o code)
  BY <1>1, ConcatNothing, Associate
<1> QED
  BY <1>2, <1>4, <1>5, <1>6, FlattenSingle DEF fields, E, code

\* Texts in a row are a text, wherever they are put together first.
Four(a, b, c, d) ==
  ((a \o b) \o c) \o d = a \o (b \o (c \o d)) /\ a \o (b \o (c \o d)) \in Text

LEMMA FourTexts ==
  ASSUME NEW a \in Text, NEW b \in Text, NEW c \in Text, NEW d \in Text
  PROVE  Four(a, b, c, d)
<1> DEFINE x == a \o b
           y == c \o d
           z == b \o y
<1>1. x \in Text /\ y \in Text
  BY Concat
<1>2. (x \o c) \o d = x \o y
  <2> HIDE DEF x
  <2> QED
    BY <1>1, Associate
<1> HIDE DEF y
<1>3. x \o y = a \o z
  BY <1>1, Associate
<1>4. z \in Text
  BY <1>1, Concat
<1> HIDE DEF z
<1>5. a \o z \in Text
  BY <1>4, Concat
<1> QED
  BY <1>2, <1>3, <1>5, Zenon DEF Four, x, y, z

LEMMA CreateTwo ==
  ASSUME NEW n \in Text, NEW v \in Seq(Byte), NEW m \in Text, NEW w \in Seq(Byte)
  PROVE  Create(<< <<n, v>>, <<m, w>> >>) =
           (n \o (<<EQUALS>> \o Encode(v)))
             \o (<<AMPERSAND>> \o (m \o (<<EQUALS>> \o Encode(w))))
<1> DEFINE fields == << <<n, v>>, <<m, w>> >>
           c == Encode(v)
           d == Encode(w)
           E == <<EQUALS>>
           A == <<AMPERSAND>>
           piece(i) == (IF i > 1 THEN <<AMPERSAND>> ELSE <<>>) \o fields[i][1] \o E
                         \o Encode(fields[i][2])
           t == [i \in DOMAIN fields |-> piece(i)]
<1>1. c \in Text /\ d \in Text /\ E \in Text /\ A \in Text
  BY EncodeSafe DEF EQUALS, AMPERSAND, Text
<1>2. Create(fields) = FlattenSeq(t)
  BY DEF Create
<1>3. /\ DOMAIN fields = 1..2 /\ fields[1][1] = n /\ fields[1][2] = v
      /\ fields[2][1] = m /\ fields[2][2] = w
  OBVIOUS
<1>4. piece(1) = <<>> \o n \o E \o c
  BY <1>3
<1>5. piece(2) = A \o m \o E \o d
  BY <1>3
<1> HIDE DEF fields, piece, A, E
<1>6. Len(t) = 2 /\ t[1] = piece(1) /\ t[2] = piece(2) /\ DOMAIN t = 1..2
  BY <1>3
<1> HIDE DEF c, d
<1>7. piece(1) = n \o (E \o c) /\ piece(1) \in Text
  <2>1. <<>> \o n = n
    BY ConcatNothing
  <2>2. (n \o E) \o c = n \o (E \o c)
    BY <1>1, Associate, Zenon
  <2>3. n \o E \in Text
    BY <1>1, Concat, Zenon
  <2>4. (n \o E) \o c \in Text
    BY <1>1, <2>3, Concat, Zenon
  <2> QED
    BY <1>4, <2>1, <2>2, <2>4, Zenon
<1>8. piece(2) = A \o (m \o (E \o d)) /\ piece(2) \in Text
  <2>1. A \o m \o E \o d = A \o (m \o (E \o d)) /\ A \o (m \o (E \o d)) \in Text
    <3>1. Four(A, m, E, d)
      BY <1>1, FourTexts
    <3> QED
      BY <3>1, Zenon DEF Four
  <2> QED
    BY <1>5, <2>1, Zenon
<1>9. t \in Texts
  <2>1. t = [i \in 1..2 |-> piece(i)]
    BY <1>3
  <2>2. \A i \in 1..2 : piece(i) \in Text
    <3>1. \A i \in 1..2 : i = 1 \/ i = 2
      OBVIOUS
    <3> QED
      BY <1>7, <1>8, <3>1
  <2> HIDE DEF t
  <2>3. t \in Seq(Text)
    BY <2>1, <2>2
  <2> QED
    BY <2>3 DEF Texts
<1> HIDE DEF t
<1>10. FlattenSeq(t) = piece(1) \o piece(2)
  BY <1>6, <1>9, FlattenTwo
<1> QED
  BY <1>2, <1>7, <1>8, <1>10 DEF fields, E, A, c, d

\* The same without an equals sign where none is needed.
TersePiece(n, v) ==
  IF v = <<>> /\ EQUALS \notin ToSet(n) THEN n ELSE Create(<< <<n, v>> >>)

LEMMA TerseForm ==
  ASSUME NEW n \in Text, NEW v \in Seq(Byte)
  PROVE  TersePiece(n, v) \in Text /\ Form(TersePiece(n, v), n, v)
<1> DEFINE E == <<EQUALS>>
           c == Encode(v)
<1>1. E \in Text /\ c \in Text /\ EQUALS \in Int
  BY EncodeSafe DEF EQUALS, Text
<1>2. CASE v = <<>> /\ EQUALS \notin ToSet(n)
  <2>1. DOMAIN n = 1..Len(n)
    BY TextType
  <2>2. \A q \in 1..Len(n) : n[q] # EQUALS
    BY <1>2, <2>1 DEF ToSet
  <2>3. ~Has(n, EQUALS)
    BY <1>1, <2>2, HasNot
  <2> QED
    BY <1>2, <2>3 DEF TersePiece, Form
<1>3. CASE ~(v = <<>> /\ EQUALS \notin ToSet(n))
  <2>1. TersePiece(n, v) = n \o (E \o c)
    BY <1>3, CreateOne DEF TersePiece
  <2> HIDE DEF E, c
  <2>2. E \o c \in Text /\ n \o (E \o c) \in Text
    <3>1. E \o c \in Text
      BY <1>1, Concat
    <3> QED
      BY <3>1, Concat
  <2> QED
    BY <2>1, <2>2 DEF Form, E, c
<1> QED
  BY <1>2, <1>3

LEMMA TerseTwo ==
  ASSUME NEW n \in Text, NEW v \in Seq(Byte), NEW m \in Text, NEW w \in Seq(Byte)
  PROVE  Terse(<< <<n, v>>, <<m, w>> >>) =
           TersePiece(n, v) \o (<<AMPERSAND>> \o TersePiece(m, w))
<1> DEFINE fields == << <<n, v>>, <<m, w>> >>
           A == <<AMPERSAND>>
           part(i) == IF fields[i][2] = <<>> /\ EQUALS \notin ToSet(fields[i][1])
                      THEN fields[i][1] ELSE Create(<<fields[i]>>)
           piece(i) == (IF i > 1 THEN <<AMPERSAND>> ELSE <<>>) \o part(i)
           t == [i \in DOMAIN fields |-> piece(i)]
<1>1. A \in Text
  BY DEF AMPERSAND, Text
<1>2. Terse(fields) = FlattenSeq(t)
  BY DEF Terse
<1>3. /\ DOMAIN fields = 1..2 /\ fields[1] = <<n, v>> /\ fields[2] = <<m, w>>
      /\ fields[1][1] = n /\ fields[1][2] = v /\ fields[2][1] = m /\ fields[2][2] = w
  OBVIOUS
<1>4. part(1) = TersePiece(n, v) /\ part(2) = TersePiece(m, w)
  <2> HIDE DEF fields
  <2>1. part(1) = TersePiece(n, v)
    BY <1>3 DEF TersePiece
  <2>2. part(2) = TersePiece(m, w)
    BY <1>3 DEF TersePiece
  <2> QED
    BY <2>1, <2>2
<1> HIDE DEF fields, part
<1>5. piece(1) = <<>> \o part(1) /\ piece(2) = A \o part(2)
  OBVIOUS
<1> HIDE DEF piece, A
<1>6. Len(t) = 2 /\ t[1] = piece(1) /\ t[2] = piece(2) /\ t = [i \in 1..2 |-> piece(i)]
  BY <1>3
<1>7. part(1) \in Text /\ part(2) \in Text
  BY <1>4, TerseForm
<1>8. piece(1) = part(1) /\ piece(2) \in Text /\ piece(1) \in Text
  BY <1>1, <1>5, <1>7, ConcatNothing, Concat
<1> HIDE DEF t
<1>9. t \in Texts
  <2>1. \A i \in 1..2 : piece(i) \in Text
    <3>1. \A i \in 1..2 : i = 1 \/ i = 2
      OBVIOUS
    <3> QED
      BY <1>8, <3>1
  <2>2. t \in Seq(Text)
    BY <1>6, <2>1
  <2> QED
    BY <2>2 DEF Texts
<1>10. FlattenSeq(t) = piece(1) \o piece(2)
  BY <1>6, <1>9, FlattenTwo
<1> QED
  BY <1>2, <1>4, <1>5, <1>8, <1>10 DEF fields, A

LEMMA TwoFieldsAre ==
  ASSUME line \in Seq(Byte), NEW fields \in TwoFields
  PROVE  \E n, v, m, w \in Seq(Byte) : fields = << <<n, v>>, <<m, w>> >>
<1>1. Len(line) \in Nat
  BY CodesType
<1>2. PICK a \in 0..Len(line), b \in 0..Len(line), c \in 0..Len(line) :
        /\ a <= b /\ b <= c
        /\ fields = << <<Cut(0, a), Cut(a, b)>>, <<Cut(b, c), Cut(c, Len(line))>> >>
  <2> DEFINE N == 0..Len(line)
             ordered == {p \in N \X N \X N : p[1] <= p[2] /\ p[2] <= p[3]}
  <2>1. PICK p \in ordered :
          fields = << <<Cut(0, p[1]), Cut(p[1], p[2])>>,
                      <<Cut(p[2], p[3]), Cut(p[3], Len(line))>> >>
    BY DEF TwoFields
  <2>2. p[1] \in N /\ p[2] \in N /\ p[3] \in N /\ p[1] <= p[2] /\ p[2] <= p[3]
    OBVIOUS
  <2> QED
    BY <2>1, <2>2
<1>3. /\ 0 \in Nat /\ a \in Nat /\ b \in Nat /\ c \in Nat /\ 0 <= a /\ a <= Len(line)
      /\ b <= Len(line) /\ c <= Len(line) /\ Len(line) <= Len(line)
  BY <1>1
<1>4. Slice(line, 0, a) \in Seq(Byte) /\ Slice(line, a, b) \in Seq(Byte)
  BY <1>1, <1>2, <1>3, SliceType
<1>5. Slice(line, b, c) \in Seq(Byte) /\ Slice(line, c, Len(line)) \in Seq(Byte)
  BY <1>1, <1>2, <1>3, SliceType
<1>6. /\ Cut(0, a) \in Seq(Byte) /\ Cut(a, b) \in Seq(Byte) /\ Cut(b, c) \in Seq(Byte)
      /\ Cut(c, Len(line)) \in Seq(Byte)
  BY <1>4, <1>5 DEF Cut, Slice
<1> QED
  BY <1>2, <1>6

LEMMA QueriesRead ==
  ASSUME line \in Seq(Byte)
  PROVE  QueryRoundTrip
<1>1. ASSUME NEW fields \in TwoFields,
             \A i \in 1..2 : fields[i][1] # <<>> /\ ~Has(fields[i][1], AMPERSAND)
      PROVE  ParseQuery(Create(fields)) = fields /\ ParseQuery(Terse(fields)) = fields
  <2>1. PICK n, v, m, w \in Seq(Byte) : fields = << <<n, v>>, <<m, w>> >>
    BY TwoFieldsAre
  <2>2. n \in Text /\ m \in Text
    BY ByteText
  <2>3. n # <<>> /\ m # <<>> /\ ~Has(n, AMPERSAND) /\ ~Has(m, AMPERSAND)
    <3>1. fields[1][1] = n /\ fields[2][1] = m /\ 1 \in 1..2 /\ 2 \in 1..2
      BY <2>1
    <3> QED
      BY <1>1, <3>1
  <2>4. ParseQuery(Create(fields)) = fields
    <3> DEFINE p == n \o (<<EQUALS>> \o Encode(v))
               r == m \o (<<EQUALS>> \o Encode(w))
    <3>1. p \in Text /\ r \in Text
      <4>1. <<EQUALS>> \in Text /\ Encode(v) \in Text /\ Encode(w) \in Text
        BY EncodeSafe DEF EQUALS, Text
      <4>2. <<EQUALS>> \o Encode(v) \in Text /\ <<EQUALS>> \o Encode(w) \in Text
        BY <4>1, Concat
      <4> QED
        BY <2>2, <4>2, Concat
    <3>2. Form(p, n, v) /\ Form(r, m, w)
      BY DEF Form
    <3>3. Create(fields) = p \o (<<AMPERSAND>> \o r)
      BY <2>1, <2>2, CreateTwo
    <3>6. Writes(p, n, v) /\ Writes(r, m, w)
      BY <2>2, <2>3, <3>1, <3>2 DEF Writes
    <3> HIDE DEF p, r
    <3> DEFINE text == Create(fields)
    <3>4. Parted(text, p, r)
      BY <3>3 DEF Parted
    <3> HIDE DEF text
    <3>5. ParseQuery(text) = BothFields(n, v, m, w)
      BY <3>4, <3>6, FieldsRead
    <3> QED
      BY <2>1, <3>5 DEF text, BothFields
  <2>5. ParseQuery(Terse(fields)) = fields
    <3> DEFINE p == TersePiece(n, v)
               r == TersePiece(m, w)
    <3>1. p \in Text /\ r \in Text /\ Form(p, n, v) /\ Form(r, m, w)
      BY <2>2, TerseForm
    <3>2. Terse(fields) = p \o (<<AMPERSAND>> \o r)
      BY <2>1, <2>2, TerseTwo
    <3>6. Writes(p, n, v) /\ Writes(r, m, w)
      BY <2>2, <2>3, <3>1 DEF Writes
    <3> HIDE DEF p, r
    <3> DEFINE text == Terse(fields)
    <3>4. Parted(text, p, r)
      BY <3>2 DEF Parted
    <3> HIDE DEF text
    <3>5. ParseQuery(text) = BothFields(n, v, m, w)
      BY <3>4, <3>6, FieldsRead
    <3> QED
      BY <2>1, <3>5 DEF text, BothFields
  <2> QED
    BY <2>4, <2>5
<1> QED
  BY <1>1 DEF QueryRoundTrip

-----------------------------------------------------------------------------
(* AttributesUnderstood *)

\* The scan has these values.
AttributeIs(k, start, name_end, value, fields) ==
  k \in [start : {start}, name_end : {name_end}, value : {value}, fields : {fields}]

\* Between two attributes.
Between(k, fields) == AttributeIs(k, npos, npos, npos, fields)

\* What a step makes of them.
LEMMA StepBetween ==
  ASSUME NEW k, NEW text, NEW c \in Nat, NEW fields, Between(k, fields),
         NEW next, next = AttributeStep(k, text, c)
  PROVE  /\ text[c + 1] \in {SPACE, SEMICOLON} => next = k
         /\ text[c + 1] \notin {SPACE, SEMICOLON} => AttributeIs(next, c, npos, npos, fields)
<1>1. k.start = npos
  BY DEF Between, AttributeIs
<1>2. next = IF text[c + 1] \in {SPACE, SEMICOLON} THEN k ELSE [k EXCEPT !.start = c]
  BY <1>1 DEF AttributeStep, At
<1>3. AttributeIs([k EXCEPT !.start = c], c, npos, npos, fields)
  BY DEF Between, AttributeIs
<1> QED
  BY <1>2, <1>3

LEMMA StepName ==
  ASSUME NEW k, NEW text, NEW c \in Nat, NEW b \in Nat, NEW fields,
         AttributeIs(k, b, npos, npos, fields), NEW next, next = AttributeStep(k, text, c)
  PROVE  /\ text[c + 1] = EQUALS => AttributeIs(next, b, c, npos, fields)
         /\ text[c + 1] \notin {SEMICOLON, EQUALS} => next = k
<1>1. k.start # npos /\ k.name_end = npos
  BY DEF AttributeIs, npos
<1>2. /\ text[c + 1] = EQUALS => next = [k EXCEPT !.name_end = c]
      /\ text[c + 1] \notin {SEMICOLON, EQUALS} => next = k
  BY <1>1 DEF AttributeStep, At, SEMICOLON, EQUALS
<1>3. AttributeIs([k EXCEPT !.name_end = c], b, c, npos, fields)
  BY DEF AttributeIs
<1> QED
  BY <1>2, <1>3

LEMMA StepBegins ==
  ASSUME NEW k, NEW text, NEW c \in Nat, NEW b \in Nat, NEW q \in Nat, NEW fields,
         AttributeIs(k, b, q, npos, fields), NEW next, next = AttributeStep(k, text, c),
         NEW v, v = IF text[c + 1] = QUOTE /\ c + 1 < Len(text) THEN c + 1 ELSE c
  PROVE  AttributeIs(next, b, q, v, fields)
<1>1. k.start # npos /\ k.name_end # npos /\ k.value = npos
  BY DEF AttributeIs, npos
<1>2. next = [k EXCEPT !.value = v]
  BY <1>1 DEF AttributeStep, At
<1>3. AttributeIs([k EXCEPT !.value = v], b, q, v, fields)
  BY DEF AttributeIs
<1> QED
  BY <1>2, <1>3

LEMMA StepValue ==
  ASSUME NEW k, NEW text, NEW c \in Nat, NEW b \in Nat, NEW q \in Nat, NEW v \in Nat, NEW fields,
         AttributeIs(k, b, q, v, fields), NEW next, next = AttributeStep(k, text, c)
  PROVE  /\ text[c + 1] \in {QUOTE, SEMICOLON} =>
              Between(next, Append(fields, Attribute(k, text, c)))
         /\ text[c + 1] \notin {QUOTE, SEMICOLON} => next = k
<1> DEFINE field == Attribute(k, text, c)
<1>1. k.start # npos /\ k.name_end # npos /\ k.value # npos /\ k.fields = fields
  BY DEF AttributeIs, npos
<1>2. next = IF text[c + 1] \in {QUOTE, SEMICOLON} THEN Known(k, field) ELSE k
  BY <1>1 DEF AttributeStep, At
<1> HIDE DEF field
<1>3. Between(Known(k, field), Append(fields, field))
  BY <1>1 DEF Known, NoAttribute, Between, AttributeIs
<1> QED
  BY <1>2, <1>3 DEF field

\* scan is the scan of text.
AttributeRuns(scan, text) ==
  \A c \in 0..(Len(text) - 1) : scan[c + 1] = AttributeStep(scan[c], text, c)

LEMMA AttributeNext ==
  ASSUME NEW scan, NEW text, AttributeRuns(scan, text), Len(text) \in Nat,
         NEW c \in Nat, c + 1 <= Len(text)
  PROVE  scan[c + 1] = AttributeStep(scan[c], text, c)
<1>1. c \in 0..(Len(text) - 1)
  OBVIOUS
<1> QED
  BY <1>1 DEF AttributeRuns

LEMMA NameStays ==
  ASSUME NEW scan, NEW text, AttributeRuns(scan, text), Len(text) \in Nat,
         NEW a \in Nat, NEW e \in Nat, a <= e, e <= Len(text),
         Lacks(text, a, e, SEMICOLON), Lacks(text, a, e, EQUALS),
         NEW b \in Nat, NEW fields, AttributeIs(scan[a], b, npos, npos, fields)
  PROVE  AttributeIs(scan[e], b, npos, npos, fields)
<1> DEFINE T == {j \in Nat : scan[j] = scan[a]}
<1>1. a \in T
  OBVIOUS
<1>2. ASSUME NEW j \in a..(e - 1), j \in T PROVE j + 1 \in T
  <2>1. /\ j \in Nat /\ j + 1 <= Len(text) /\ j + 1 \in (a + 1)..e /\ scan[j] = scan[a]
        /\ j + 1 \in Nat
    BY <1>2
  <2>2. text[j + 1] \notin {SEMICOLON, EQUALS}
    BY <2>1 DEF Lacks
  <2>3. AttributeIs(scan[j], b, npos, npos, fields)
    BY <2>1
  <2>4. scan[j + 1] = AttributeStep(scan[j], text, j)
    BY <2>1, AttributeNext
  <2>5. scan[j + 1] = scan[j]
    BY <2>1, <2>2, <2>3, <2>4, StepName
  <2> QED
    BY <2>1, <2>5
<1> HIDE DEF T
<1>3. a..e \subseteq T
  BY <1>1, <1>2, RangeInduction
<1>4. e \in T
  BY <1>3
<1> QED
  BY <1>4 DEF T

LEMMA ValueStays ==
  ASSUME NEW scan, NEW text, AttributeRuns(scan, text), Len(text) \in Nat,
         NEW a \in Nat, NEW e \in Nat, a <= e, e <= Len(text),
         Lacks(text, a, e, QUOTE), Lacks(text, a, e, SEMICOLON),
         NEW b \in Nat, NEW q \in Nat, NEW v \in Nat, NEW fields,
         AttributeIs(scan[a], b, q, v, fields)
  PROVE  AttributeIs(scan[e], b, q, v, fields)
<1> DEFINE T == {j \in Nat : scan[j] = scan[a]}
<1>1. a \in T
  OBVIOUS
<1>2. ASSUME NEW j \in a..(e - 1), j \in T PROVE j + 1 \in T
  <2>1. /\ j \in Nat /\ j + 1 <= Len(text) /\ j + 1 \in (a + 1)..e /\ scan[j] = scan[a]
        /\ j + 1 \in Nat
    BY <1>2
  <2>2. text[j + 1] \notin {QUOTE, SEMICOLON}
    BY <2>1 DEF Lacks
  <2>3. AttributeIs(scan[j], b, q, v, fields)
    BY <2>1
  <2>4. scan[j + 1] = AttributeStep(scan[j], text, j)
    BY <2>1, AttributeNext
  <2>5. scan[j + 1] = scan[j]
    BY <2>1, <2>2, <2>3, <2>4, StepValue
  <2> QED
    BY <2>1, <2>5
<1> HIDE DEF T
<1>3. a..e \subseteq T
  BY <1>1, <1>2, RangeInduction
<1>4. e \in T
  BY <1>3
<1> QED
  BY <1>4 DEF T

\* The fields are known, or all but the last one, which ends here.
Done(k, text, e, fields) ==
  \/ Between(k, fields)
  \/ \E b, q, v \in Nat : \E before :
       AttributeIs(k, b, q, v, before) /\ fields = Append(before, Attribute(k, text, e))

LEMMA DoneGoesOn ==
  ASSUME NEW k, NEW text, NEW e \in Nat, NEW fields, Done(k, text, e, fields),
         text[e + 1] = SEMICOLON
  PROVE  Between(AttributeStep(k, text, e), fields)
<1>1. CASE Between(k, fields)
  BY <1>1, StepBetween
<1>2. ASSUME NEW b \in Nat, NEW q \in Nat, NEW v \in Nat, NEW before,
             AttributeIs(k, b, q, v, before), fields = Append(before, Attribute(k, text, e))
      PROVE  Between(AttributeStep(k, text, e), fields)
  BY <1>2, StepValue
<1> QED
  BY <1>1, <1>2 DEF Done

LEMMA DoneEnds ==
  ASSUME NEW k, NEW text, NEW fields, Done(k, text, Len(text), fields)
  PROVE  AttributeEnd(k, text) = fields
<1>1. CASE Between(k, fields)
  BY <1>1 DEF Between, AttributeIs, AttributeEnd
<1>2. ASSUME NEW b \in Nat, NEW q \in Nat, NEW v \in Nat, NEW before,
             AttributeIs(k, b, q, v, before),
             fields = Append(before, Attribute(k, text, Len(text)))
      PROVE  AttributeEnd(k, text) = fields
  <2>1. k.start # npos /\ k.name_end # npos /\ k.value # npos /\ k.fields = before
    BY <1>2 DEF AttributeIs, npos
  <2> QED
    BY <1>2, <2>1 DEF AttributeEnd
<1> QED
  BY <1>1, <1>2 DEF Done

NameGiven(name) == name \in Text /\ name # <<>> /\
                   \A c \in {SPACE, SEMICOLON, EQUALS} : ~Has(name, c)

\* The characters behind the first b, up to e, are an attribute: q is in front of its equals
\* sign, v of its value.
Assigned(text, b, q, v, e, name, value) ==
  /\ b \in Nat /\ q \in Nat /\ v \in Nat /\ e \in Nat /\ e <= Len(text) /\ NameGiven(name)
  /\ Part(text, b, name) /\ q = b + Len(name) /\ text[q + 1] = EQUALS
  /\ Part(text, v, Encode(value))
  /\ \/ v = q + 1 /\ value # <<>> /\ e = v + Len(Encode(value))
     \/ /\ v = q + 2 /\ text[v] = QUOTE /\ e = v + Len(Encode(value)) + 1 /\ text[e] = QUOTE

LEMMA AttributeField ==
  ASSUME NEW scan, NEW text \in Text, AttributeRuns(scan, text),
         NEW name, NEW value \in Seq(Byte), NEW b, NEW q, NEW v, NEW e,
         Assigned(text, b, q, v, e, name, value), NEW fields, Between(scan[b], fields)
  PROVE  Done(scan[e], text, e, Append(fields, <<name, value>>))
<1> DEFINE code == Encode(value)
           z == v + Len(code)
<1>1. /\ b \in Nat /\ q \in Nat /\ v \in Nat /\ e \in Nat /\ e <= Len(text)
      /\ Part(text, b, name) /\ q = b + Len(name) /\ text[q + 1] = EQUALS /\ Part(text, v, code)
  BY DEF Assigned
<1>2. /\ name \in Text /\ name # <<>>
      /\ ~Has(name, SPACE) /\ ~Has(name, SEMICOLON) /\ ~Has(name, EQUALS)
  BY DEF Assigned, NameGiven
<1>3. /\ QUOTE \in Int /\ SEMICOLON \in Int /\ EQUALS \in Int /\ SPACE \in Int
      /\ Len(text) \in Nat /\ Len(name) \in Nat /\ Len(name) # 0
  BY <1>2, TextType DEF QUOTE, SEMICOLON, EQUALS, SPACE
<1>4. /\ code \in Text /\ ~Has(code, QUOTE) /\ ~Has(code, SEMICOLON) /\ Len(code) \in Nat
      /\ (Len(code) = 0 <=> value = <<>>)
  <2>1. /\ code \in Text /\ \A i \in 1..Len(code) : code[i] \in Safe
        /\ (code = <<>> <=> value = <<>>)
    BY EncodeSafe
  <2> HIDE DEF code
  <2>2. ~Has(code, QUOTE) /\ ~Has(code, SEMICOLON)
    BY <1>3, <2>1, SafeBytes, HasNot
  <2> QED
    BY <2>1, <2>2, TextType
<1> HIDE DEF code
<1>5. /\ Lacks(text, b, b + Len(name), SPACE) /\ Lacks(text, b, b + Len(name), SEMICOLON)
      /\ Lacks(text, b, b + Len(name), EQUALS)
  BY <1>1, <1>2, <1>3, PartLacks
<1>6. Lacks(text, v, z, QUOTE) /\ Lacks(text, v, z, SEMICOLON)
  BY <1>1, <1>3, <1>4, PartLacks
<1>7. /\ z \in Nat /\ b + 1 \in Nat /\ q + 1 \in Nat /\ b + 1 <= q /\ q + 1 <= v /\ v <= z
      /\ z <= e /\ v + 1 \in Nat /\ b + 1 <= Len(text) /\ q + 1 <= Len(text)
      /\ q <= Len(text)
  <2>1. (v = q + 1 /\ e = z) \/ (v = q + 2 /\ e = z + 1)
    BY DEF Assigned, code
  <2>2. z \in Nat /\ v <= z
    BY <1>1, <1>4
  <2> HIDE DEF z
  <2> QED
    BY <1>1, <1>3, <2>1, <2>2
<1> HIDE DEF z
<1>8. AttributeIs(scan[b + 1], b, npos, npos, fields)
  <2>1. b + 1 \in (b + 1)..(b + Len(name))
    BY <1>1, <1>3
  <2>2. text[b + 1] \notin {SPACE, SEMICOLON}
    BY <1>5, <2>1 DEF Lacks
  <2>3. scan[b + 1] = AttributeStep(scan[b], text, b)
    BY <1>1, <1>3, <1>7, AttributeNext
  <2> QED
    BY <1>1, <2>2, <2>3, StepBetween
<1>9. AttributeIs(scan[q], b, npos, npos, fields)
  <2>1. Lacks(text, b + 1, q, SEMICOLON) /\ Lacks(text, b + 1, q, EQUALS)
    <3>1. \A i \in (b + 1 + 1)..q : i \in (b + 1)..(b + Len(name))
      BY <1>1, <1>3
    <3> QED
      BY <1>5, <3>1 DEF Lacks
  <2> QED
    BY <1>1, <1>3, <1>7, <1>8, <2>1, NameStays
<1>10. AttributeIs(scan[q + 1], b, q, npos, fields)
  <2>1. scan[q + 1] = AttributeStep(scan[q], text, q)
    BY <1>1, <1>3, <1>7, AttributeNext
  <2> QED
    BY <1>1, <1>9, <2>1, StepName
<1>11. q + 1 + 1 <= Len(text) => scan[q + 1 + 1] = AttributeStep(scan[q + 1], text, q + 1)
  BY <1>3, <1>7, AttributeNext
<1>12. ASSUME NEW k, AttributeIs(k, b, q, v, fields)
       PROVE  Append(fields, Attribute(k, text, z)) = Append(fields, <<name, value>>)
  <2>1. k.start = b /\ k.name_end = q /\ k.value = v
    BY <1>12 DEF AttributeIs
  <2>2. q - b = Len(name) /\ z - v = Len(code)
    BY <1>1, <1>3, <1>4 DEF z
  <2>3. Substr(text, b, q - b) = name
    BY <1>1, <1>2, <2>2, SubstrPart
  <2>4. Substr(text, v, z - v) = code
    BY <1>1, <1>4, <2>2, SubstrPart
  <2>5. Decode(code) = value
    BY DecodeEncode DEF code
  <2> QED
    BY <2>1, <2>3, <2>4, <2>5 DEF Attribute
<1>13. ASSUME v = q + 1, value # <<>>, e = z
       PROVE  Done(scan[e], text, e, Append(fields, <<name, value>>))
  <2>1. v + 1 <= z /\ v + 1 <= Len(text) /\ q + 1 + 1 = v + 1
    BY <1>1, <1>4, <1>7, <1>13 DEF z
  <2>2. text[v + 1] # QUOTE
    <3>1. v + 1 \in (v + 1)..z
      BY <1>7, <2>1
    <3> QED
      BY <1>6, <3>1 DEF Lacks
  <2>3. v = IF text[v + 1] = QUOTE /\ v + 1 < Len(text) THEN v + 1 ELSE v
    BY <2>2
  <2>4. scan[v + 1] = AttributeStep(scan[v], text, v) /\ AttributeIs(scan[v], b, q, npos, fields)
    BY <1>10, <1>11, <1>13, <2>1
  <2>5. AttributeIs(scan[v + 1], b, q, v, fields)
    BY <1>1, <2>3, <2>4, StepBegins
  <2>6. Lacks(text, v + 1, z, QUOTE) /\ Lacks(text, v + 1, z, SEMICOLON)
    <3>1. \A i \in (v + 1 + 1)..z : i \in (v + 1)..z
      BY <1>1, <1>7
    <3> QED
      BY <1>6, <3>1 DEF Lacks
  <2>7. AttributeIs(scan[z], b, q, v, fields)
    BY <1>1, <1>3, <1>7, <1>13, <2>1, <2>5, <2>6, ValueStays
  <2>8. Append(fields, Attribute(scan[z], text, z)) = Append(fields, <<name, value>>)
    BY <1>12, <2>7
  <2> QED
    BY <1>1, <1>13, <2>7, <2>8 DEF Done
<1>14. ASSUME v = q + 2, text[v] = QUOTE, e = z + 1, text[e] = QUOTE
       PROVE  Done(scan[e], text, e, Append(fields, <<name, value>>))
  <2>1. q + 1 + 1 = v /\ v < Len(text) /\ v <= Len(text) /\ z <= Len(text) /\ z + 1 <= Len(text)
    BY <1>1, <1>7, <1>14
  <2>2. v = IF text[q + 1 + 1] = QUOTE /\ q + 1 + 1 < Len(text) THEN q + 1 + 1 ELSE q + 1
    BY <1>14, <2>1
  <2>3. scan[v] = AttributeStep(scan[q + 1], text, q + 1)
    BY <1>11, <2>1
  <2>4. AttributeIs(scan[v], b, q, v, fields)
    BY <1>1, <1>7, <1>10, <2>2, <2>3, StepBegins
  <2>5. AttributeIs(scan[z], b, q, v, fields)
    <3>1. Len(text) \in Nat /\ v \in Nat /\ z \in Nat /\ v <= z /\ z <= Len(text)
          /\ b \in Nat /\ q \in Nat
      BY <1>1, <1>3, <1>7, <2>1
    <3> QED
      BY <1>6, <2>4, <3>1, ValueStays
  <2>6. scan[e] = AttributeStep(scan[z], text, z)
    BY <1>3, <1>7, <1>14, <2>1, AttributeNext
  <2>7. Between(scan[e], Append(fields, Attribute(scan[z], text, z)))
    BY <1>1, <1>7, <1>14, <2>5, <2>6, StepValue
  <2>8. Append(fields, Attribute(scan[z], text, z)) = Append(fields, <<name, value>>)
    BY <1>12, <2>5
  <2> QED
    BY <2>7, <2>8 DEF Done
<1> QED
  BY <1>13, <1>14 DEF Assigned, z, code

\* An attribute is written as its name and its value, in quotes or, not empty, without them.
Plain(p, name, value) == p = name \o (<<EQUALS>> \o Encode(value))

Quoted(p, name, value) ==
  p = name \o (<<EQUALS>> \o (<<QUOTE>> \o (Encode(value) \o <<QUOTE>>)))

AttributeForm(p, name, value) ==
  (value # <<>> /\ Plain(p, name, value)) \/ Quoted(p, name, value)

LEMMA PlainAssigned ==
  ASSUME NEW text \in Text, NEW b \in Nat, NEW p \in Text, Part(text, b, p),
         NEW name, NameGiven(name), NEW value \in Seq(Byte), value # <<>>,
         Plain(p, name, value)
  PROVE  \E q, v : Assigned(text, b, q, v, b + Len(p), name, value)
<1> DEFINE code == Encode(value)
           S == <<EQUALS>>
           t == S \o code
           q == b + Len(name)
           e == b + Len(p)
<1>1. /\ code \in Text /\ EQUALS \in Int /\ S \in Text /\ Len(S) = 1 /\ name \in Text
  BY EncodeSafe DEF EQUALS, Text, NameGiven
<1>2. /\ Len(text) \in Nat /\ Len(p) \in Nat /\ Len(name) \in Nat /\ Len(code) \in Nat
      /\ q \in Nat /\ e \in Nat
  BY <1>1, LenType
<1>3. e <= Len(text)
  BY DEF Part
<1>4. t \in Text /\ Len(t) = 1 + Len(code)
  BY <1>1, Concat
<1>5. p = name \o t
  BY DEF Plain
<1> HIDE DEF t
<1>6. Part(text, b, name) /\ Part(text, q, t) /\ Len(p) = Len(name) + Len(t)
  <2>1. Part(text, b, name \o t) /\ Len(p) = Len(name \o t)
    BY <1>5, Zenon
  <2>2. Part(text, b, name) /\ Part(text, q, t)
    BY <1>1, <1>4, <2>1, PartsOf
  <2> QED
    BY <1>1, <1>4, <2>1, <2>2, Concat
<1> HIDE DEF S, code
<1>7. Part(text, q, S) /\ Part(text, q + 1, code)
  <2>1. Part(text, q, S \o code)
    BY <1>6 DEF t
  <2>2. Part(text, q, S) /\ Part(text, q + Len(S), code)
    BY <1>1, <1>2, <2>1, PartsOf
  <2> QED
    BY <1>1, <2>2
<1>8. text[q + 1] = EQUALS
  BY <1>1, <1>2, <1>7, OnePart DEF S
<1>9. e = (q + 1) + Len(code) /\ q + 1 \in Nat
  BY <1>2, <1>4, <1>6
<1> DEFINE v == q + 1
<1>10. /\ b \in Nat /\ q \in Nat /\ v \in Nat /\ e \in Nat /\ e <= Len(text)
       /\ q = b + Len(name) /\ v = q + 1
  BY <1>2, <1>3, <1>9
<1>11. Part(text, v, Encode(value)) /\ e = v + Len(Encode(value))
  BY <1>7, <1>9 DEF code
<1> HIDE DEF q, v, e
<1>12. Assigned(text, b, q, v, e, name, value)
  BY <1>6, <1>8, <1>10, <1>11 DEF Assigned
<1> QED
  BY <1>12 DEF e

LEMMA QuotedAssigned ==
  ASSUME NEW text \in Text, NEW b \in Nat, NEW p \in Text, Part(text, b, p),
         NEW name, NameGiven(name), NEW value \in Seq(Byte), Quoted(p, name, value)
  PROVE  \E q, v : Assigned(text, b, q, v, b + Len(p), name, value)
<1> DEFINE code == Encode(value)
           S == <<EQUALS>>
           Q == <<QUOTE>>
           c == code \o Q
           d == Q \o c
           t == S \o d
           q == b + Len(name)
           e == b + Len(p)
<1>1. /\ code \in Text /\ EQUALS \in Int /\ S \in Text /\ Len(S) = 1 /\ name \in Text
      /\ QUOTE \in Int /\ Q \in Text /\ Len(Q) = 1
  BY EncodeSafe DEF EQUALS, QUOTE, Text, NameGiven
<1>2. /\ Len(text) \in Nat /\ Len(p) \in Nat /\ Len(name) \in Nat /\ Len(code) \in Nat
      /\ q \in Nat /\ e \in Nat
  BY <1>1, LenType
<1>3. e <= Len(text)
  BY DEF Part
<1>4. p = name \o t
  BY DEF Quoted
<1> HIDE DEF S, Q, code
<1>5. c \in Text /\ Len(c) = Len(code) + 1
  <2>1. code \in Text /\ Q \in Text
    BY <1>1
  <2>2. code \o Q \in Text /\ Len(code \o Q) = Len(code) + Len(Q)
    BY <2>1, Concat
  <2> QED
    BY <1>1, <2>2
<1> HIDE DEF c
<1>6. d \in Text /\ Len(d) = 1 + Len(c)
  <2>1. Q \in Text /\ c \in Text
    BY <1>1, <1>5
  <2>2. Q \o c \in Text /\ Len(Q \o c) = Len(Q) + Len(c)
    BY <2>1, Concat
  <2> QED
    BY <1>1, <2>2
<1> HIDE DEF d
<1>7. t \in Text /\ Len(t) = 1 + Len(d)
  <2>1. S \in Text /\ d \in Text
    BY <1>1, <1>6
  <2>2. S \o d \in Text /\ Len(S \o d) = Len(S) + Len(d)
    BY <2>1, Concat
  <2> QED
    BY <1>1, <2>2
<1> HIDE DEF t
<1>8. Part(text, b, name) /\ Part(text, q, t) /\ Len(p) = Len(name) + Len(t)
  <2>1. Part(text, b, name \o t) /\ Len(p) = Len(name \o t)
    BY <1>4, Zenon
  <2>2. Part(text, b, name) /\ Part(text, q, t)
    BY <1>1, <1>7, <2>1, PartsOf
  <2> QED
    BY <1>1, <1>7, <2>1, <2>2, Concat
<1> DEFINE u == q + 1
           v == q + 2
           z == v + Len(code)
<1>9. /\ u \in Nat /\ v \in Nat /\ z \in Nat /\ u = q + Len(S) /\ v = u + Len(Q) /\ v = u + 1
      /\ z = v + Len(code) /\ e = z + 1 /\ u = q + 1 /\ v = q + 2
  BY <1>1, <1>2, <1>5, <1>6, <1>7, <1>8
<1> HIDE DEF q, e, u, v, z
<1>10. Part(text, q, S) /\ Part(text, u, d)
  <2>1. Part(text, q, S \o d)
    BY <1>8 DEF t
  <2>2. Part(text, q, S) /\ Part(text, q + Len(S), d)
    BY <1>1, <1>2, <1>6, <2>1, PartsOf
  <2> QED
    BY <1>9, <2>2
<1>11. Part(text, u, Q) /\ Part(text, v, c)
  <2>1. Part(text, u, Q \o c)
    BY <1>10 DEF d
  <2>2. Part(text, u, Q) /\ Part(text, u + Len(Q), c)
    BY <1>1, <1>5, <1>9, <2>1, PartsOf
  <2> QED
    BY <1>9, <2>2
<1>12. Part(text, v, code) /\ Part(text, z, Q)
  <2>1. Part(text, v, code \o Q)
    BY <1>11 DEF c
  <2>2. Part(text, v, code) /\ Part(text, v + Len(code), Q)
    BY <1>1, <1>9, <2>1, PartsOf
  <2> QED
    BY <1>9, <2>2
<1>13. text[q + 1] = EQUALS
  BY <1>1, <1>2, <1>10, OnePart DEF S
<1>14. text[u + 1] = QUOTE
  BY <1>1, <1>9, <1>11, OnePart DEF Q
<1>15. text[z + 1] = QUOTE
  BY <1>1, <1>9, <1>12, OnePart DEF Q
<1>16. text[v] = QUOTE /\ text[e] = QUOTE
  BY <1>9, <1>14, <1>15
<1>17. Part(text, v, Encode(value)) /\ e = v + Len(Encode(value)) + 1
  BY <1>9, <1>12 DEF code
<1>18. q = b + Len(name)
  BY DEF q
<1>19. Assigned(text, b, q, v, e, name, value)
  BY <1>2, <1>3, <1>8, <1>9, <1>13, <1>16, <1>17, <1>18 DEF Assigned
<1> QED
  BY <1>19 DEF e

LEMMA FormAssigned ==
  ASSUME NEW text \in Text, NEW b \in Nat, NEW p \in Text, Part(text, b, p),
         NEW name, NameGiven(name), NEW value \in Seq(Byte), AttributeForm(p, name, value)
  PROVE  \E q, v : Assigned(text, b, q, v, b + Len(p), name, value)
BY PlainAssigned, QuotedAssigned DEF AttributeForm

\* Two texts with a semicolon and a space between them.
Spaced(text, p, r) == text = p \o (<<SEMICOLON, SPACE>> \o r)

\* p is an attribute, written.
WritesAttribute(p, n, v) == p \in Text /\ NameGiven(n) /\ AttributeForm(p, n, v)

\* Both of two attributes are read.
LEMMA AttributesRead ==
  ASSUME NEW p, NEW r, NEW n, NEW m, NEW v \in Seq(Byte), NEW w \in Seq(Byte),
         WritesAttribute(p, n, v), WritesAttribute(r, m, w), NEW text, Spaced(text, p, r)
  PROVE  ParseAttributes(text) = BothFields(n, v, m, w)
<1> DEFINE S == <<SEMICOLON, SPACE>>
           t == S \o r
           a == Len(p)
           b == a + 2
           e == b + Len(r)
           scan == AttributeScan(text)
           first == << <<n, v>> >>
<1>0. /\ p \in Text /\ NameGiven(n) /\ AttributeForm(p, n, v)
      /\ r \in Text /\ NameGiven(m) /\ AttributeForm(r, m, w)
  BY DEF WritesAttribute
<1>1. S \in Text /\ Len(S) = 2 /\ S[1] = SEMICOLON /\ S[2] = SPACE
  BY DEF Text, SEMICOLON, SPACE
<1>2. t \in Text /\ Len(t) = 2 + Len(r)
  BY <1>0, <1>1, Concat
<1>3. a \in Nat /\ Len(r) \in Nat /\ b \in Nat /\ e \in Nat /\ a + 1 \in Nat
  BY <1>0, LenType
<1>4. text \in Text /\ Len(text) = e /\ Part(text, 0, p) /\ Part(text, a, t)
  <2>1. text = p \o t
    BY DEF Spaced
  <2> HIDE DEF t
  <2>2. text \in Text /\ Len(text) = Len(p) + Len(t)
    BY <1>0, <1>2, <2>1, Concat
  <2>3. Part(text, 0, p \o t) /\ 0 \in Nat /\ 0 + Len(p) = a
    <3>1. Part(text, 0, text)
      BY <2>2, WholePart
    <3>2. 0 \in Nat /\ 0 + Len(p) = a
      BY <1>3
    <3> QED
      BY <2>1, <3>1, <3>2, Zenon
  <2>4. Part(text, 0, p) /\ Part(text, a, t)
    BY <1>0, <1>2, <2>2, <2>3, PartsOf
  <2> QED
    BY <1>2, <1>3, <2>2, <2>4
<1> HIDE DEF S
<1>5. Part(text, a, S) /\ Part(text, b, r)
  BY <1>0, <1>1, <1>3, <1>4, PartsOf
<1>6. text[a + 1] = SEMICOLON /\ text[a + 1 + 1] = SPACE
  <2>1. \A i \in 1..2 : text[a + i] = S[i]
    BY <1>1, <1>5 DEF Part
  <2>2. 1 \in 1..2 /\ 2 \in 1..2 /\ a + 2 = a + 1 + 1
    BY <1>3
  <2> QED
    BY <1>1, <2>1, <2>2
<1> HIDE DEF t
<1>7. PICK q, x : Assigned(text, 0, q, x, a, n, v)
  <2>1. 0 \in Nat /\ 0 + Len(p) = a
    BY <1>3
  <2>2. \E q, x : Assigned(text, 0, q, x, 0 + Len(p), n, v)
    BY <1>0, <1>4, <2>1, FormAssigned
  <2> QED
    BY <2>1, <2>2
<1>8. PICK q_1, x_1 : Assigned(text, b, q_1, x_1, e, m, w)
  BY <1>0, <1>3, <1>4, <1>5, FormAssigned
<1>9. AttributeRuns(scan, text) /\ scan[0] = NoAttribute /\ Len(text) \in Nat
  <2>1. Len(text) \in Nat
    BY <1>3, <1>4
  <2> QED
    BY <2>1, AttributeRun DEF AttributeRuns
<1>10. Between(scan[0], <<>>)
  BY <1>9 DEF Between, AttributeIs, NoAttribute
<1> HIDE DEF scan
<1>11. Done(scan[a], text, a, first)
  <2>1. Done(scan[a], text, a, Append(<<>>, <<n, v>>))
    BY <1>4, <1>7, <1>9, <1>10, AttributeField
  <2>2. Append(<<>>, <<n, v>>) = first
    OBVIOUS
  <2> QED
    BY <2>1, <2>2
<1> HIDE DEF first, e
<1>12. Between(scan[a + 1], first)
  <2>1. scan[a + 1] = AttributeStep(scan[a], text, a)
    <3>1. a + 1 <= Len(text)
      BY <1>3, <1>4 DEF e
    <3> QED
      BY <1>3, <1>9, <3>1, AttributeNext
  <2>2. Between(AttributeStep(scan[a], text, a), first)
    BY <1>3, <1>6, <1>11, DoneGoesOn
  <2> QED
    BY <2>1, <2>2
<1>13. Between(scan[b], first)
  <2>1. scan[a + 1 + 1] = AttributeStep(scan[a + 1], text, a + 1)
    <3>1. a + 1 + 1 <= Len(text)
      BY <1>3, <1>4 DEF e
    <3> QED
      BY <1>3, <1>9, <3>1, AttributeNext
  <2>2. scan[a + 1 + 1] = scan[a + 1]
    BY <1>3, <1>6, <1>12, <2>1, StepBetween
  <2>3. b = a + 1 + 1
    BY <1>3
  <2> HIDE DEF b
  <2> QED
    BY <1>12, <2>2, <2>3
<1>14. Done(scan[e], text, e, Append(first, <<m, w>>))
  BY <1>4, <1>8, <1>9, <1>13, AttributeField
<1>15. ParseAttributes(text) = Append(first, <<m, w>>)
  <2>1. ParseAttributes(text) = AttributeEnd(scan[e], text)
    BY <1>4, AttributeResult DEF scan
  <2>2. AttributeEnd(scan[e], text) = Append(first, <<m, w>>)
    BY <1>4, <1>14, DoneEnds
  <2> QED
    BY <2>1, <2>2
<1>16. Append(first, <<m, w>>) = BothFields(n, v, m, w)
  BY BothAre DEF first
<1> QED
  BY <1>15, <1>16

Three(a, b, c) == (a \o b) \o c = a \o (b \o c)

LEMMA ThreeTexts ==
  ASSUME NEW a \in Text, NEW b \in Text, NEW c \in Text
  PROVE  Three(a, b, c)
BY ConcatAssociative DEF Text, Three

Five(a, b, c, d, e) ==
  /\ (((a \o b) \o c) \o d) \o e = a \o (b \o (c \o (d \o e)))
  /\ a \o (b \o (c \o (d \o e))) \in Text

LEMMA FiveTexts ==
  ASSUME NEW a \in Text, NEW b \in Text, NEW c \in Text, NEW d \in Text, NEW e \in Text
  PROVE  Five(a, b, c, d, e)
<1> DEFINE x == a \o b
           w == d \o e
           y == c \o w
           z == b \o y
<1>1. x \in Text /\ w \in Text
  BY Concat
<1> HIDE DEF x
<1>2. Four(x, c, d, e)
  BY <1>1, FourTexts
<1>3. ((x \o c) \o d) \o e = x \o y
  BY <1>2, Zenon DEF Four
<1> HIDE DEF w
<1>4. y \in Text
  <2>1. c \o w \in Text
    BY <1>1, Concat
  <2> QED
    BY <2>1
<1> HIDE DEF y
<1>5. Three(a, b, y)
  BY <1>4, ThreeTexts
<1>6. z \in Text
  BY <1>4, Concat
<1> HIDE DEF z
<1>7. a \o z \in Text
  BY <1>6, Concat
<1> QED
  BY <1>3, <1>5, <1>7, Zenon DEF Three, Five, x, w, y, z

Six(a, b, c, d, e, f) ==
  /\ ((((a \o b) \o c) \o d) \o e) \o f = a \o (b \o (c \o (d \o (e \o f))))
  /\ a \o (b \o (c \o (d \o (e \o f)))) \in Text

LEMMA SixTexts ==
  ASSUME NEW a \in Text, NEW b \in Text, NEW c \in Text, NEW d \in Text, NEW e \in Text,
         NEW f \in Text
  PROVE  Six(a, b, c, d, e, f)
<1> DEFINE x == a \o b
           y == c \o (d \o (e \o f))
           z == b \o y
<1>1. x \in Text
  BY Concat
<1> HIDE DEF x
<1>2. Five(x, c, d, e, f) /\ Four(c, d, e, f)
  BY <1>1, FourTexts, FiveTexts
<1>3. (((x \o c) \o d) \o e) \o f = x \o y /\ y \in Text
  BY <1>2, Zenon DEF Four, Five
<1> HIDE DEF y
<1>4. Three(a, b, y)
  BY <1>3, ThreeTexts
<1>5. z \in Text
  BY <1>3, Concat
<1> HIDE DEF z
<1>6. a \o z \in Text
  BY <1>5, Concat
<1> QED
  BY <1>3, <1>4, <1>6, Zenon DEF Three, Six, x, y, z

\* What SemicolonSeparatedAttributes is given: two attributes.
AttributePiece(quotes, n, v) == n \o (<<EQUALS>> \o (quotes \o (Encode(v) \o quotes)))

TwoAttributes(quotes, n, v, m, w) ==
  /\ AttributesLine(<< <<n, v>>, <<m, w>> >>, quotes) =
       AttributePiece(quotes, n, v) \o (<<SEMICOLON, SPACE>> \o AttributePiece(quotes, m, w))
  /\ AttributePiece(quotes, n, v) \in Text /\ AttributePiece(quotes, m, w) \in Text

LEMMA AttributesTwo ==
  ASSUME NEW n \in Text, NEW v \in Seq(Byte), NEW m \in Text, NEW w \in Seq(Byte),
         NEW quotes \in Text
  PROVE  TwoAttributes(quotes, n, v, m, w)
<1> DEFINE fields == << <<n, v>>, <<m, w>> >>
           c == Encode(v)
           d == Encode(w)
           E == <<EQUALS>>
           A == <<SEMICOLON, SPACE>>
           piece(i) == (IF i > 1 THEN <<SEMICOLON, SPACE>> ELSE <<>>) \o fields[i][1] \o E
                         \o quotes \o Encode(fields[i][2]) \o quotes
           t == [i \in DOMAIN fields |-> piece(i)]
<1>1. c \in Text /\ d \in Text /\ E \in Text /\ A \in Text
  BY EncodeSafe DEF EQUALS, SEMICOLON, SPACE, Text
<1>2. AttributesLine(fields, quotes) = FlattenSeq(t)
  BY DEF AttributesLine
<1>3. /\ DOMAIN fields = 1..2 /\ fields[1][1] = n /\ fields[1][2] = v
      /\ fields[2][1] = m /\ fields[2][2] = w
  OBVIOUS
<1>4. piece(1) = <<>> \o n \o E \o quotes \o c \o quotes
  BY <1>3
<1>5. piece(2) = A \o m \o E \o quotes \o d \o quotes
  BY <1>3
<1> HIDE DEF fields, piece, A, E
<1>6. Len(t) = 2 /\ t[1] = piece(1) /\ t[2] = piece(2) /\ t = [i \in 1..2 |-> piece(i)]
  BY <1>3
<1> HIDE DEF c, d
<1> DEFINE p == n \o (E \o (quotes \o (c \o quotes)))
           r == m \o (E \o (quotes \o (d \o quotes)))
<1>7. piece(1) = p /\ p \in Text
  <2>1. <<>> \o n = n
    BY ConcatNothing
  <2>2. Five(n, E, quotes, c, quotes)
    BY <1>1, FiveTexts
  <2> QED
    BY <1>4, <2>1, <2>2, Zenon DEF Five
<1>8. r \in Text
  <2>1. Five(m, E, quotes, d, quotes)
    BY <1>1, FiveTexts
  <2> QED
    BY <2>1, Zenon DEF Five
<1>9. piece(2) = A \o r
  <2>1. Six(A, m, E, quotes, d, quotes)
    BY <1>1, SixTexts
  <2> QED
    BY <1>5, <2>1, Zenon DEF Six
<1> HIDE DEF p, r, t
<1>10. piece(2) \in Text
  BY <1>1, <1>8, <1>9, Concat
<1>11. t \in Texts
  <2>1. \A i \in 1..2 : piece(i) \in Text
    <3>1. \A i \in 1..2 : i = 1 \/ i = 2
      OBVIOUS
    <3>2. piece(1) \in Text
      BY <1>7
    <3> QED
      BY <1>10, <3>1, <3>2
  <2>2. t \in Seq(Text)
    BY <1>6, <2>1
  <2> QED
    BY <2>2 DEF Texts
<1>12. FlattenSeq(t) = piece(1) \o piece(2)
  BY <1>6, <1>11, FlattenTwo
<1>13. AttributePiece(quotes, n, v) = p /\ AttributePiece(quotes, m, w) = r
  BY DEF AttributePiece, p, r, E, c, d
<1> QED
  BY <1>2, <1>7, <1>8, <1>9, <1>12, <1>13, Zenon DEF TwoAttributes, fields, A

LEMMA PieceForm ==
  ASSUME NEW n \in Text, NEW v \in Seq(Byte), NEW quotes \in {<<>>, <<QUOTE>>},
         quotes = <<>> => v # <<>>
  PROVE  quotes \in Text /\ AttributeForm(AttributePiece(quotes, n, v), n, v)
<1> DEFINE code == Encode(v)
<1>1. code \in Text
  BY EncodeSafe
<1>2. CASE quotes = <<>>
  <2>1. <<>> \o (code \o <<>>) = code
    BY <1>1, ConcatNothing
  <2>2. AttributePiece(<<>>, n, v) = n \o (<<EQUALS>> \o code)
    BY <2>1, Zenon DEF AttributePiece
  <2>3. Plain(AttributePiece(<<>>, n, v), n, v)
    BY <2>2, Zenon DEF Plain
  <2>4. <<>> \in Text
    BY NoText
  <2> QED
    BY <1>2, <2>3, <2>4 DEF AttributeForm
<1>3. CASE quotes = <<QUOTE>>
  <2>1. Quoted(AttributePiece(<<QUOTE>>, n, v), n, v)
    BY Zenon DEF AttributePiece, Quoted
  <2>2. <<QUOTE>> \in Text
    BY DEF QUOTE, Text
  <2> QED
    BY <1>3, <2>1, <2>2 DEF AttributeForm
<1> QED
  BY <1>2, <1>3

LEMMA AttributesRound ==
  ASSUME line \in Seq(Byte)
  PROVE  AttributesUnderstood
<1>1. ASSUME NEW fields \in TwoFields, NEW quotes \in {<<>>, <<QUOTE>>},
             \A i \in 1..2 : /\ fields[i][1] # <<>> /\ (quotes = <<>> => fields[i][2] # <<>>)
                             /\ \A c \in {SPACE, SEMICOLON, EQUALS} : ~Has(fields[i][1], c)
      PROVE  ParseAttributes(AttributesLine(fields, quotes)) = fields
  <2>1. PICK n, v, m, w \in Seq(Byte) : fields = << <<n, v>>, <<m, w>> >>
    BY TwoFieldsAre
  <2>2. n \in Text /\ m \in Text
    BY ByteText
  <2>3. /\ n # <<>> /\ m # <<>> /\ (quotes = <<>> => v # <<>>) /\ (quotes = <<>> => w # <<>>)
        /\ \A c \in {SPACE, SEMICOLON, EQUALS} : ~Has(n, c) /\ ~Has(m, c)
    <3>1. /\ fields[1][1] = n /\ fields[2][1] = m /\ 1 \in 1..2 /\ 2 \in 1..2
          /\ fields[1][2] = v /\ fields[2][2] = w
      BY <2>1
    <3> QED
      BY <1>1, <3>1
  <2>4. NameGiven(n) /\ NameGiven(m)
    BY <2>2, <2>3 DEF NameGiven
  <2> DEFINE p == AttributePiece(quotes, n, v)
             r == AttributePiece(quotes, m, w)
  <2>5. quotes \in Text /\ AttributeForm(p, n, v) /\ AttributeForm(r, m, w)
    BY <2>2, <2>3, PieceForm
  <2>6. /\ AttributesLine(<< <<n, v>>, <<m, w>> >>, quotes) = p \o (<<SEMICOLON, SPACE>> \o r)
        /\ p \in Text /\ r \in Text
    <3>1. TwoAttributes(quotes, n, v, m, w)
      BY <2>2, <2>5, AttributesTwo
    <3> QED
      BY <3>1, Zenon DEF TwoAttributes
  <2>7. WritesAttribute(p, n, v) /\ WritesAttribute(r, m, w)
    BY <2>4, <2>5, <2>6 DEF WritesAttribute
  <2> HIDE DEF p, r
  <2> DEFINE text == AttributesLine(fields, quotes)
  <2>8. Spaced(text, p, r)
    BY <2>1, <2>6, Zenon DEF Spaced
  <2> HIDE DEF text
  <2>9. ParseAttributes(text) = BothFields(n, v, m, w)
    BY <2>7, <2>8, AttributesRead
  <2> QED
    BY <2>1, <2>9 DEF text, BothFields
<1> QED
  BY <1>1 DEF AttributesUnderstood

-----------------------------------------------------------------------------
(* Every line of bytes is such a line *)

\* A line of Lines has only bytes.
LEMMA LinesAreBytes == Lines => [](line \in Seq(Byte))
<1>1. line = <<>> => line \in Seq(Byte)
  BY EmptySeq
<1>2. line \in Seq(Byte) /\ [\E b \in Bytes : Arrives(b)]_line => (line \in Seq(Byte))'
  <2> SUFFICES ASSUME line \in Seq(Byte), [\E b \in Bytes : Arrives(b)]_line
               PROVE  line' \in Seq(Byte)
    OBVIOUS
  <2>1. ASSUME NEW b \in Bytes, Arrives(b) PROVE line' \in Seq(Byte)
    <3>1. b \in Byte
      BY BytesAssumption DEF Byte
    <3> QED
      BY <2>1, <3>1, AppendProperties DEF Arrives
  <2> QED
    BY <2>1
<1> QED
  BY <1>1, <1>2, PTL DEF Lines

\* ParsersAgree: what this server and client write they read as it was meant, and no line ends
\* the process, for lines of any length and of any bytes.
THEOREM ParsersCorrect == Lines => []ParsersAgree
<1>1. line \in Seq(Byte) => ParsersAgree
  BY DecodeEncode, QueriesRead, AttributesRound, RequestsUnderstood, HeadersUnderstood,
     NothingThrows DEF ParsersAgree, PercentRoundTrip
<1> QED
  BY <1>1, LinesAreBytes, PTL
=============================================================================
