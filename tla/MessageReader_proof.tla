------------------------ MODULE MessageReader_proof ------------------------
(***************************************************************************)
(* Proofs about MessageReader: whatever the pieces in which the bytes of a *)
(* message arrive, the reader takes them for this message.                 *)
(***************************************************************************)
EXTENDS MessageReader, SequenceTheorems, WellFoundedInduction, TLAPS

-----------------------------------------------------------------------------
(* Induction over a set of numbers *)

Before == {p \in Nat \X Nat : p[1] < p[2]}

LEMMA BeforeWellFounded == IsWellFoundedOn(Before, Nat)
<1>1. OpToRel(<, Nat) = Before
  BY DEF OpToRel, Before
<1> QED
  BY <1>1, NatLessThanWellFounded

LEMMA LeastNumber ==
  ASSUME NEW T, T \subseteq Nat, T # {}
  PROVE  \E x \in T : \A y \in T : x <= y
<1>1. PICK x \in T : \A y \in T : <<y, x>> \notin Before
  BY BeforeWellFounded, WFMin, Zenon
<1>2. ASSUME NEW y \in T PROVE x <= y
  <2>1. x \in Nat /\ y \in Nat /\ <<y, x>> \notin Before
    BY <1>1
  <2> QED
    BY <2>1 DEF Before
<1> QED
  BY <1>2

LEMMA SetInduction ==
  ASSUME NEW S, 0 \in S, \A n \in Nat : n \in S => n + 1 \in S
  PROVE  Nat \subseteq S
<1> DEFINE T == Nat \ S
<1>1. SUFFICES ASSUME T # {} PROVE FALSE
  OBVIOUS
<1>2. T \subseteq Nat
  OBVIOUS
<1>3. PICK x \in T : \A y \in T : x <= y
  <2> HIDE DEF T
  <2> QED
    BY <1>1, <1>2, LeastNumber
<1>4. x - 1 \in Nat /\ x - 1 + 1 = x
  OBVIOUS
<1>5. x - 1 \in S
  BY <1>3, <1>4
<1> QED
  BY <1>4, <1>5

-----------------------------------------------------------------------------
(* Bytes *)

\* All of them strings, which the provers do not know.
Byte == STRING \cup {CR, LF, "start", "chunked", "close", "none"}
Bytes == Seq(Byte)

LEMMA NoBytes == <<>> \in Bytes /\ Len(<<>>) = 0
BY EmptySeq DEF Bytes

LEMMA Length ==
  ASSUME NEW s \in Bytes
  PROVE  Len(s) \in Nat /\ (Len(s) = 0 <=> s = <<>>)
BY LenProperties, EmptySeq DEF Bytes

LEMMA Joint ==
  ASSUME NEW s \in Bytes, NEW t \in Bytes
  PROVE  /\ s \o t \in Bytes /\ Len(s \o t) = Len(s) + Len(t)
         /\ \A i \in 1..Len(s) : (s \o t)[i] = s[i]
         /\ \A i \in 1..Len(t) : (s \o t)[Len(s) + i] = t[i]
<1>1. /\ s \o t \in Seq(Byte) /\ Len(s \o t) = Len(s) + Len(t)
      /\ \A i \in 1..Len(s) + Len(t) :
           (s \o t)[i] = IF i <= Len(s) THEN s[i] ELSE t[i - Len(s)]
  BY ConcatProperties DEF Bytes
<1>2. Len(s) \in Nat /\ Len(t) \in Nat
  BY Length
<1>3. ASSUME NEW i \in 1..Len(t) PROVE (s \o t)[Len(s) + i] = t[i]
  <2>1. Len(s) + i \in 1..Len(s) + Len(t) /\ ~(Len(s) + i <= Len(s)) /\ Len(s) + i - Len(s) = i
    BY <1>2
  <2> QED
    BY <1>1, <2>1
<1> QED
  BY <1>1, <1>2, <1>3 DEF Bytes

LEMMA Associative ==
  ASSUME NEW s \in Bytes, NEW t \in Bytes, NEW u \in Bytes
  PROVE  (s \o t) \o u = s \o (t \o u)
BY ConcatAssociative DEF Bytes

LEMMA WithNothing ==
  ASSUME NEW s \in Bytes
  PROVE  s \o <<>> = s /\ <<>> \o s = s
BY ConcatEmptySeq DEF Bytes

LEMMA NothingJoined ==
  ASSUME NEW s \in Bytes, NEW t \in Bytes, s \o t = <<>>
  PROVE  s = <<>> /\ t = <<>>
<1>1. Len(s) + Len(t) = 0 /\ Len(s) \in Nat /\ Len(t) \in Nat
  BY Joint, Length, NoBytes
<1> QED
  BY <1>1, Length

LEMMA CancelFront ==
  ASSUME NEW s \in Bytes, NEW t \in Bytes, NEW u \in Bytes, s \o t = s \o u
  PROVE  t = u
BY ConcatSimplifications DEF Bytes

LEMMA SameBytes ==
  ASSUME NEW s \in Bytes, NEW t \in Bytes, Len(s) = Len(t),
         \A i \in 1..Len(s) : s[i] = t[i]
  PROVE  s = t
BY SeqEqual DEF Bytes

LEMMA TakeDrop ==
  ASSUME NEW s \in Bytes, NEW n \in 0..Len(s)
  PROVE  /\ Take(s, n) \in Bytes /\ Len(Take(s, n)) = n
         /\ \A i \in 1..n : Take(s, n)[i] = s[i]
         /\ Drop(s, n) \in Bytes /\ Len(Drop(s, n)) = Len(s) - n
         /\ Take(s, n) \o Drop(s, n) = s
<1>1. Len(s) \in Nat /\ \A i \in 1..Len(s) : s[i] \in Byte
  BY LenProperties DEF Bytes
<1>2. \A i \in 1..n : s[i] \in Byte
  BY <1>1
<1>3. \A i \in n + 1..Len(s) : s[i] \in Byte
  BY <1>1
<1>4. /\ Take(s, n) \in Bytes /\ Len(Take(s, n)) = IF 1 <= n THEN n - 1 + 1 ELSE 0
      /\ \A i \in 1..n - 1 + 1 : Take(s, n)[i] = s[1 + i - 1]
  BY <1>1, <1>2, SubSeqProperties DEF Take, Bytes
<1>5. /\ Drop(s, n) \in Bytes
      /\ Len(Drop(s, n)) = IF n + 1 <= Len(s) THEN Len(s) - (n + 1) + 1 ELSE 0
  BY <1>1, <1>3, SubSeqProperties DEF Drop, Bytes
<1>6. Take(s, n) \o Drop(s, n) = s
  <2>1. SubSeq(s, 1, n) \o SubSeq(s, n + 1, Len(s)) = SubSeq(s, 1, Len(s))
    <3>1. 1 \in 1..Len(s) + 1 /\ n \in 1 - 1..Len(s) /\ Len(s) \in n..Len(s)
      BY <1>1
    <3>2. s \in Seq(Byte)
      BY DEF Bytes
    <3> QED
      BY <3>1, <3>2, ConcatAdjacentSubSeq, Zenon
  <2>2. SubSeq(s, 1, Len(s)) = s
    BY SubSeqFull DEF Bytes
  <2> QED
    BY <2>1, <2>2, Zenon DEF Take, Drop
<1>7. Len(Take(s, n)) = n /\ Len(Drop(s, n)) = Len(s) - n
  BY <1>1, <1>4, <1>5
<1>8. ASSUME NEW i \in 1..n PROVE Take(s, n)[i] = s[i]
  <2>1. i \in 1..n - 1 + 1 /\ 1 + i - 1 = i
    OBVIOUS
  <2> QED
    BY <1>4, <2>1
<1> QED
  BY <1>4, <1>5, <1>6, <1>7, <1>8

\* Two ways to cut the same bytes.
LEMMA CutAtSamePlace ==
  ASSUME NEW s \in Bytes, NEW t \in Bytes, NEW u \in Bytes, NEW v \in Bytes,
         s \o t = u \o v, Len(s) = Len(u)
  PROVE  s = u /\ t = v
<1>1. ASSUME NEW i \in 1..Len(s) PROVE s[i] = u[i]
  <2>1. (s \o t)[i] = s[i]
    BY Joint
  <2>2. (u \o v)[i] = u[i]
    BY Joint
  <2> QED
    BY <2>1, <2>2
<1>2. s = u
  BY <1>1, SameBytes
<1> QED
  BY <1>2, CancelFront

\* \o, for provers that shall not look into it.
Cat(s, t) == s \o t

LEMMA Cats ==
  ASSUME NEW s \in Bytes, NEW t \in Bytes
  PROVE  /\ Cat(s, t) \in Bytes
         /\ \A u \in Bytes : Cat(Cat(s, t), u) = Cat(s, Cat(t, u))
<1>1. Cat(s, t) \in Bytes
  BY Joint DEF Cat
<1>2. \A u \in Bytes : (s \o t) \o u = s \o (t \o u)
  BY Associative
<1> QED
  BY <1>1, <1>2 DEF Cat

LEMMA CatLength ==
  ASSUME NEW s \in Bytes, NEW t \in Bytes
  PROVE  Len(Cat(s, t)) = Len(s) + Len(t) /\ Len(s) \in Nat /\ Len(t) \in Nat
BY Joint, Length DEF Cat

LEMMA CatNothing ==
  ASSUME NEW s \in Bytes
  PROVE  Cat(s, <<>>) = s /\ Cat(<<>>, s) = s
BY WithNothing DEF Cat

LEMMA CatApart ==
  ASSUME NEW s \in Bytes, NEW t \in Bytes, NEW u \in Bytes, NEW v \in Bytes,
         Cat(s, t) = Cat(u, v)
  PROVE  /\ Len(s) = Len(u) => s = u /\ t = v
         /\ Len(s) <= Len(u) => \E z \in Bytes : u = Cat(s, z) /\ t = Cat(z, v)
<1>1. ASSUME NEW x \in Bytes, NEW y \in Bytes, Cat(x, t) = Cat(y, v), Len(x) = Len(y)
      PROVE  x = y /\ t = v
  <2>1. x \o t = y \o v
    BY <1>1 DEF Cat
  <2> QED
    BY <1>1, <2>1, CutAtSamePlace, Zenon
<1>2. ASSUME Len(s) <= Len(u) PROVE \E z \in Bytes : u = Cat(s, z) /\ t = Cat(z, v)
  <2> DEFINE x == Take(u, Len(s))
             z == Drop(u, Len(s))
  <2>1. Len(s) \in 0..Len(u)
    BY <1>2, Length
  <2>2. x \in Bytes /\ z \in Bytes /\ Len(x) = Len(s)
    BY <2>1, TakeDrop
  <2>3. Cat(x, z) = u
    BY <2>1, TakeDrop DEF Cat
  <2> HIDE DEF x, z
  <2>4. Cat(s, t) = Cat(x, Cat(z, v)) /\ Cat(z, v) \in Bytes
    BY <2>2, <2>3, Cats
  <2> DEFINE y == Cat(z, v)
  <2> HIDE DEF y
  <2>5. s \o t = x \o y /\ y \in Bytes
    BY <2>4 DEF Cat, y
  <2>6. s = x /\ t = y
    BY <2>2, <2>5, CutAtSamePlace, Zenon
  <2> QED
    BY <2>2, <2>3, <2>6 DEF y
<1> QED
  BY <1>1, <1>2

\* What was joined comes apart.
LEMMA Apart ==
  ASSUME NEW s \in Bytes, NEW t \in Bytes
  PROVE  Take(s \o t, Len(s)) = s /\ Drop(s \o t, Len(s)) = t
<1>1. s \o t \in Bytes /\ Len(s) \in 0..Len(s \o t)
  BY Joint, Length
<1> DEFINE x == Take(s \o t, Len(s))
           y == Drop(s \o t, Len(s))
<1>2. x \in Bytes /\ y \in Bytes /\ Len(x) = Len(s) /\ x \o y = s \o t
  BY <1>1, TakeDrop
<1> HIDE DEF x, y
<1>3. s = x /\ t = y
  BY <1>2, CutAtSamePlace
<1> QED
  BY <1>3 DEF x, y

-----------------------------------------------------------------------------
(* FlattenSeq: what the first so many of some texts make *)

Texts == Seq(Bytes)

\* f is the recursive function inside FlattenSeq, for the first n of them.
Flattens(f, s, n) == f = [i \in 1..n |-> IF i = 1 THEN s[i] ELSE f[i - 1] \o s[i]]

LEMMA FlattenExists ==
  ASSUME NEW s
  PROVE  \A n \in Nat : \E f : Flattens(f, s, n)
<1> DEFINE T == {n \in Nat : \E f : Flattens(f, s, n)}
<1>1. 0 \in T
  <2>1. Flattens([i \in 1..0 |-> 0], s, 0)
    BY DEF Flattens
  <2> QED
    BY <2>1
<1>2. ASSUME NEW n \in Nat, n \in T PROVE n + 1 \in T
  <2>1. PICK f : Flattens(f, s, n)
    BY <1>2
  <2> DEFINE next == IF n = 0 THEN s[1] ELSE f[n] \o s[n + 1]
             g == [i \in 1..n + 1 |-> IF i = n + 1 THEN next ELSE f[i]]
  <2>2. ASSUME NEW i \in 1..n + 1 PROVE g[i] = IF i = 1 THEN s[i] ELSE g[i - 1] \o s[i]
    <3>1. CASE i = n + 1 /\ n = 0
      BY <3>1
    <3>2. CASE i = n + 1 /\ n # 0
      <4>1. n \in 1..n + 1 /\ n # n + 1 /\ i - 1 = n /\ i # 1
        BY <3>2
      <4>2. g[n] = f[n] /\ g[i] = f[n] \o s[n + 1]
        BY <4>1, <3>2
      <4> HIDE DEF g
      <4> QED
        BY <4>1, <4>2, <3>2, Zenon
    <3>3. CASE i # n + 1
      <4>1. i \in 1..n
        BY <3>3
      <4>2. f[i] = IF i = 1 THEN s[i] ELSE f[i - 1] \o s[i]
        BY <2>1, <4>1 DEF Flattens
      <4>3. i # 1 => i - 1 \in 1..n + 1 /\ i - 1 # n + 1
        BY <4>1
      <4> QED
        BY <3>3, <4>2, <4>3
    <3> QED
      BY <3>1, <3>2, <3>3
  <2>3. g = [i \in 1..n + 1 |-> IF i = 1 THEN s[i] ELSE g[i - 1] \o s[i]]
    <3> DEFINE h == [i \in 1..n + 1 |-> IF i = 1 THEN s[i] ELSE g[i - 1] \o s[i]]
    <3>1. DOMAIN g = 1..n + 1 /\ g = [i \in DOMAIN g |-> g[i]]
      OBVIOUS
    <3> HIDE DEF g
    <3> QED
      BY <2>2, <3>1, Zenon
  <2>4. \E h : Flattens(h, s, n + 1)
    BY <2>3, Zenon DEF Flattens
  <2> QED
    BY <2>4
<1> HIDE DEF T
<1>3. Nat \subseteq T
  BY <1>1, <1>2, SetInduction
<1> QED
  BY <1>3 DEF T

\* The first n texts, joined.
Joined(s) ==
  [n \in 0..Len(s) |-> IF n = 0 THEN <<>>
                       ELSE (CHOOSE f : Flattens(f, s, Len(s)))[n]]

LEMMA JoinedRun ==
  ASSUME NEW s \in Texts
  PROVE  /\ Len(s) \in Nat
         /\ Joined(s)[0] = <<>> /\ FlattenSeq(s) = Joined(s)[Len(s)]
         /\ \A n \in 1..Len(s) : /\ s[n] \in Bytes
                                 /\ Joined(s)[n - 1] \in Bytes /\ Joined(s)[n] \in Bytes
                                 /\ Joined(s)[n] = Joined(s)[n - 1] \o s[n]
<1> DEFINE N == Len(s)
           f == CHOOSE f : Flattens(f, s, N)
           J == Joined(s)
<1>1. N \in Nat /\ \A n \in 1..N : s[n] \in Bytes
  BY LenProperties, ElementOfSeq DEF Texts
<1>2. Flattens(f, s, N)
  BY <1>1, FlattenExists, Zenon
<1>3. J[0] = <<>> /\ \A n \in 1..N : J[n] = f[n]
  BY <1>1 DEF Joined
<1>4. FlattenSeq(s) = J[N]
  <2>1. CASE N = 0
    <3>1. s = <<>>
      BY <2>1, EmptySeq DEF Texts
    <3> QED
      BY <1>3, <2>1, <3>1 DEF FlattenSeq
  <2>2. CASE N # 0
    <3>1. FlattenSeq(s) = f[N]
      BY <2>2 DEF FlattenSeq, Flattens
    <3> QED
      BY <1>1, <1>3, <2>2, <3>1
  <2> QED
    BY <2>1, <2>2
<1> HIDE DEF f, J
<1>5. \A n \in 1..N : f[n] = IF n = 1 THEN s[n] ELSE f[n - 1] \o s[n]
  <2> HIDE DEF N
  <2> QED
    BY <1>2 DEF Flattens
<1>6. ASSUME NEW n \in 1..N, J[n - 1] \in Bytes PROVE J[n] = J[n - 1] \o s[n]
  <2>1. CASE n = 1
    <3>1. J[n - 1] = <<>> /\ J[n] = s[1] /\ s[1] \in Bytes
      BY <1>1, <1>3, <1>5, <2>1
    <3>2. <<>> \o s[1] = s[1]
      BY <3>1, WithNothing
    <3> QED
      BY <2>1, <3>1, <3>2, Zenon
  <2>2. CASE n # 1
    <3>1. n - 1 \in 1..N
      BY <1>1, <2>2
    <3>2. J[n - 1] = f[n - 1] /\ J[n] = f[n]
      BY <1>3, <3>1
    <3> QED
      BY <1>5, <2>2, <3>2, Zenon
  <2> QED
    BY <2>1, <2>2
<1> DEFINE T == {n \in Nat : n <= N => J[n] \in Bytes}
<1>7. Nat \subseteq T
  <2>1. 0 \in T
    BY <1>3, NoBytes
  <2>2. ASSUME NEW n \in Nat, n \in T, NEW m, m = n + 1, m <= N PROVE J[m] \in Bytes
    <3>1. m \in 1..N /\ m - 1 = n
      BY <1>1, <2>2
    <3>2. J[m - 1] \in Bytes
      BY <1>1, <2>2, <3>1
    <3> HIDE DEF T
    <3>3. J[m] = J[m - 1] \o s[m] /\ s[m] \in Bytes
      BY <1>1, <1>6, <3>1, <3>2
    <3> QED
      BY <3>2, <3>3, Joint, Zenon
  <2>3. ASSUME NEW n \in Nat, n \in T PROVE n + 1 \in T
    BY <2>2, <2>3
  <2> HIDE DEF T
  <2> QED
    BY <2>1, <2>3, SetInduction
<1>8. \A n \in 1..N : J[n - 1] \in Bytes /\ J[n] \in Bytes
  BY <1>1, <1>7
<1> QED
  BY <1>1, <1>3, <1>4, <1>6, <1>8 DEF J

LEMMA JoinedType ==
  ASSUME NEW s \in Texts, NEW n \in 0..Len(s)
  PROVE  Joined(s)[n] \in Bytes
<1>1. Len(s) \in Nat /\ Joined(s)[0] = <<>>
  BY JoinedRun
<1>2. CASE n = 0
  BY <1>1, <1>2, NoBytes
<1>3. CASE n # 0
  <2>1. n \in 1..Len(s)
    BY <1>1, <1>3
  <2> QED
    BY <2>1, JoinedRun
<1> QED
  BY <1>2, <1>3

LEMMA JoinedNext ==
  ASSUME NEW s \in Texts, NEW k \in 0..Len(s) - 1
  PROVE  /\ k + 1 \in 0..Len(s) /\ s[k + 1] \in Bytes
         /\ Joined(s)[k] \in Bytes /\ Joined(s)[k + 1] \in Bytes
         /\ Joined(s)[k + 1] = Joined(s)[k] \o s[k + 1]
<1>1. Len(s) \in Nat
  BY JoinedRun
<1>2. ASSUME NEW n, n = k + 1
      PROVE  /\ n \in 0..Len(s) /\ s[n] \in Bytes
             /\ Joined(s)[k] \in Bytes /\ Joined(s)[n] \in Bytes
             /\ Joined(s)[n] = Joined(s)[k] \o s[n]
  <2>1. n \in 1..Len(s) /\ n - 1 = k
    BY <1>1, <1>2
  <2>2. /\ s[n] \in Bytes
        /\ Joined(s)[n - 1] \in Bytes /\ Joined(s)[n] \in Bytes
        /\ Joined(s)[n] = Joined(s)[n - 1] \o s[n]
    BY <2>1, JoinedRun
  <2>3. n \in 0..Len(s) /\ n - 1 = k
    BY <1>1, <2>1
  <2> QED
    BY <2>2, <2>3, Zenon
<1> QED
  BY <1>2

\* What is joined first is in front of the whole, and the next text follows it.
LEMMA JoinedMore ==
  ASSUME NEW s \in Texts, NEW k \in 0..Len(s), NEW h \in k..Len(s)
  PROVE  \E z \in Bytes : Joined(s)[h] = Joined(s)[k] \o z
<1> DEFINE J == Joined(s)
           Rest(n) == \E z \in Bytes : J[n] = J[k] \o z
           T == {n \in Nat : k + n <= Len(s) => Rest(k + n)}
<1>1. Len(s) \in Nat
  BY JoinedRun
<1>2. J[k] \in Bytes
  BY JoinedType
<1>3. 0 \in T
  <2>1. J[k] = J[k] \o <<>> /\ <<>> \in Bytes
    BY <1>2, WithNothing, NoBytes
  <2>2. Rest(k)
    BY <2>1, Zenon
  <2>3. k + 0 = k
    BY <1>1
  <2> HIDE DEF Rest
  <2> QED
    BY <2>2, <2>3
<1>4. ASSUME NEW n \in Nat, n \in T PROVE n + 1 \in T
  <2>1. ASSUME NEW m, m = k + n, m + 1 <= Len(s) PROVE Rest(m + 1)
    <3>1. m \in 0..Len(s) - 1
      BY <1>1, <2>1
    <3>2. Rest(m)
      <4> HIDE DEF Rest
      <4> QED
        BY <1>1, <1>4, <2>1, <3>1
    <3>3. PICK z \in Bytes : J[m] = J[k] \o z
      BY <3>2
    <3>4. s[m + 1] \in Bytes /\ J[m + 1] = J[m] \o s[m + 1]
      BY <3>1, JoinedNext
    <3>5. z \o s[m + 1] \in Bytes
      BY <3>4, Joint
    <3>6. (J[k] \o z) \o s[m + 1] = J[k] \o (z \o s[m + 1])
      BY <1>2, <3>4, Associative, Zenon
    <3>7. J[m + 1] = J[k] \o (z \o s[m + 1])
      BY <3>3, <3>4, <3>6, Zenon
    <3> QED
      BY <3>5, <3>7, Zenon
  <2> HIDE DEF Rest
  <2>2. k + (n + 1) = (k + n) + 1 /\ k + n \in Nat
    BY <1>1
  <2> QED
    BY <2>1, <2>2
<1>5. h - k \in Nat /\ k + (h - k) = h /\ h <= Len(s)
  BY <1>1
<1>6. Nat \subseteq T
  <2> HIDE DEF T
  <2> QED
    BY <1>3, <1>4, SetInduction
<1> HIDE DEF Rest
<1>7. Rest(h)
  BY <1>1, <1>5, <1>6
<1> QED
  BY <1>7 DEF Rest

LEMMA JoinedInFront ==
  ASSUME NEW s \in Texts, NEW k \in 0..Len(s)
  PROVE  \E z \in Bytes : FlattenSeq(s) = Joined(s)[k] \o z
<1>1. Len(s) \in Nat /\ FlattenSeq(s) = Joined(s)[Len(s)]
  BY JoinedRun
<1>2. Len(s) \in k..Len(s)
  BY <1>1
<1>3. \E z \in Bytes : Joined(s)[Len(s)] = Joined(s)[k] \o z
  BY <1>2, JoinedMore
<1> QED
  BY <1>1, <1>3, Zenon

LEMMA JoinedThen ==
  ASSUME NEW s \in Texts, NEW k \in 0..Len(s) - 1
  PROVE  \E z \in Bytes : FlattenSeq(s) = Joined(s)[k] \o (s[k + 1] \o z)
<1>1. /\ k + 1 \in 0..Len(s) /\ s[k + 1] \in Bytes /\ Joined(s)[k] \in Bytes
      /\ Joined(s)[k + 1] = Joined(s)[k] \o s[k + 1]
  BY JoinedNext
<1>2. PICK z \in Bytes : FlattenSeq(s) = Joined(s)[k + 1] \o z
  BY <1>1, JoinedInFront
<1>3. (Joined(s)[k] \o s[k + 1]) \o z = Joined(s)[k] \o (s[k + 1] \o z)
  BY <1>1, Associative, Zenon
<1>4. FlattenSeq(s) = Joined(s)[k] \o (s[k + 1] \o z)
  BY <1>1, <1>2, <1>3, Zenon
<1> QED
  BY <1>4

LEMMA FlattenType ==
  ASSUME NEW s \in Texts
  PROVE  FlattenSeq(s) \in Bytes
<1>1. Len(s) \in Nat /\ FlattenSeq(s) = Joined(s)[Len(s)]
  BY JoinedRun
<1>2. Len(s) \in 0..Len(s)
  BY <1>1
<1> QED
  BY <1>1, <1>2, JoinedType

\* Two lists of texts that begin alike are joined alike so far.
LEMMA JoinedAlike ==
  ASSUME NEW s \in Texts, NEW t \in Texts, Len(s) <= Len(t),
         \A i \in 1..Len(s) : s[i] = t[i]
  PROVE  \A n \in 0..Len(s) : Joined(s)[n] = Joined(t)[n]
<1> DEFINE T == {n \in Nat : n <= Len(s) => Joined(s)[n] = Joined(t)[n]}
<1>1. Len(s) \in Nat /\ Len(t) \in Nat
  BY JoinedRun
<1>2. 0 \in T
  BY JoinedRun
<1>3. ASSUME NEW n \in Nat, n \in T, n + 1 <= Len(s)
      PROVE  Joined(s)[n + 1] = Joined(t)[n + 1]
  <2>1. n \in 0..Len(s) - 1 /\ n \in 0..Len(t) - 1 /\ n + 1 \in 1..Len(s)
    BY <1>1, <1>3
  <2>2. Joined(s)[n] = Joined(t)[n] /\ s[n + 1] = t[n + 1]
    BY <1>1, <1>3, <2>1
  <2>3. Joined(s)[n + 1] = Joined(s)[n] \o s[n + 1]
    BY <2>1, JoinedNext
  <2>4. Joined(t)[n + 1] = Joined(t)[n] \o t[n + 1]
    BY <2>1, JoinedNext
  <2> QED
    BY <2>2, <2>3, <2>4, Zenon
<1>4. ASSUME NEW n \in Nat, n \in T PROVE n + 1 \in T
  BY <1>3, <1>4
<1>5. Nat \subseteq T
  <2> HIDE DEF T
  <2> QED
    BY <1>2, <1>4, SetInduction
<1> QED
  BY <1>1, <1>5

LEMMA FlattenAppend ==
  ASSUME NEW s \in Texts, NEW x \in Bytes
  PROVE  /\ Append(s, x) \in Texts /\ Len(Append(s, x)) = Len(s) + 1
         /\ \A n \in 0..Len(s) : Joined(Append(s, x))[n] = Joined(s)[n]
         /\ FlattenSeq(Append(s, x)) = FlattenSeq(s) \o x
<1> DEFINE t == Append(s, x)
<1>1. /\ t \in Texts /\ Len(t) = Len(s) + 1 /\ t[Len(s) + 1] = x
      /\ \A i \in 1..Len(s) : t[i] = s[i]
  BY AppendProperties DEF Texts
<1> HIDE DEF t
<1>2. Len(s) \in Nat
  BY JoinedRun
<1>3. \A n \in 0..Len(s) : Joined(s)[n] = Joined(t)[n]
  <2>1. Len(s) <= Len(t) /\ \A i \in 1..Len(s) : s[i] = t[i]
    BY <1>1, <1>2
  <2> QED
    BY <1>1, <2>1, JoinedAlike
<1>4. Len(s) \in 0..Len(t) - 1 /\ Len(s) \in 0..Len(s)
  BY <1>1, <1>2
<1>5. Joined(t)[Len(s) + 1] = Joined(t)[Len(s)] \o t[Len(s) + 1]
  BY <1>1, <1>4, JoinedNext
<1>6. FlattenSeq(s) = Joined(s)[Len(s)] /\ FlattenSeq(t) = Joined(t)[Len(t)]
  BY <1>1, JoinedRun
<1>7. Joined(t)[Len(s)] = FlattenSeq(s)
  BY <1>3, <1>4, <1>6
<1>8. FlattenSeq(t) = FlattenSeq(s) \o x
  BY <1>1, <1>5, <1>6, <1>7, Zenon
<1> QED
  BY <1>1, <1>3, <1>8 DEF t

-----------------------------------------------------------------------------
(* Messages *)

Good(m) == m \in Message /\ Announced(m)

LEMMA Symbols ==
  ASSUME Sizes
  PROVE  /\ Len(Digits) \in Nat /\ 0 \in Numbers
         /\ \A n \in Numbers : /\ Digit(n) \in Byte /\ Digit(n) \notin {"chunked", "close", "none"}
                              /\ IsNumber(Digit(n)) /\ Value(Digit(n)) = n
         /\ \A f \in {"chunked", "close", "none"} : ~IsNumber(f)
         /\ \A f : IsNumber(f) => Value(f) \in Numbers
<1> DEFINE S == STRING \ {"chunked", "close", "none"}
<1>0. 0 \in Numbers
  <2>1. Len(Digits) \in Nat /\ Len(Digits) # 0
    BY EmptySeq, LenProperties DEF Sizes
  <2> QED
    BY <2>1 DEF Numbers
<1>1. Len(Digits) \in Nat /\ DOMAIN Digits = 1..Len(Digits) /\ \A i \in 1..Len(Digits) : Digits[i] \in S
  BY LenProperties, ElementOfSeq DEF Sizes
<1>2. ASSUME NEW n \in Numbers PROVE n + 1 \in 1..Len(Digits)
  BY <1>1 DEF Numbers
<1>3. ASSUME NEW n \in Numbers PROVE Digit(n) \in S /\ Digit(n) \in Byte
  BY <1>1, <1>2 DEF Digit, Byte
<1>4. ASSUME NEW n \in Numbers, NEW k \in Numbers, Digit(n) = Digit(k) PROVE n = k
  <2>1. n + 1 \in DOMAIN Digits /\ k + 1 \in DOMAIN Digits /\ n \in Int /\ k \in Int
    BY <1>1, <1>2 DEF Numbers
  <2>2. n + 1 = k + 1
    BY <1>4, <2>1 DEF Digit, Sizes, IsInjective
  <2> QED
    BY <2>1, <2>2
<1>5. \A f : IsNumber(f) => Value(f) \in Numbers /\ f = Digit(Value(f))
  BY Zenon DEF IsNumber, Value
<1>6. ASSUME NEW n \in Numbers PROVE IsNumber(Digit(n)) /\ Value(Digit(n)) = n
  <2>1. IsNumber(Digit(n))
    BY DEF IsNumber
  <2> QED
    BY <1>4, <1>5, <2>1
<1>7. \A f \in {"chunked", "close", "none"} : ~IsNumber(f)
  BY <1>3, <1>5
<1> QED
  BY <1>0, <1>1, <1>3, <1>5, <1>6, <1>7

LEMMA EndOfLine ==
  /\ CR \in Byte /\ LF \in Byte /\ CR # LF /\ "start" \in Byte /\ CR # "start"
  /\ CRLF \in Bytes /\ Len(CRLF) = 2 /\ CRLF[1] = CR /\ CRLF[2] = LF
  /\ BlankLine \in Bytes /\ Len(BlankLine) = 4
  /\ BlankLine[1] = CR /\ BlankLine[2] = LF /\ BlankLine[3] = CR /\ BlankLine[4] = LF
<1>1. CR \in Byte /\ LF \in Byte /\ CR # LF /\ "start" \in Byte /\ CR # "start"
  BY DEF CR, LF, Byte
<1>2. CRLF \in Bytes /\ Len(CRLF) = 2 /\ CRLF[1] = CR /\ CRLF[2] = LF
  <2> HIDE DEF CR, LF
  <2>1. <<CR, LF>> \in Seq(Byte)
    BY <1>1
  <2> QED
    BY <2>1 DEF CRLF, Bytes
<1>3. /\ CRLF \o CRLF \in Bytes /\ Len(CRLF \o CRLF) = Len(CRLF) + Len(CRLF)
      /\ \A i \in 1..Len(CRLF) : (CRLF \o CRLF)[i] = CRLF[i]
      /\ \A i \in 1..Len(CRLF) : (CRLF \o CRLF)[Len(CRLF) + i] = CRLF[i]
  BY <1>2, Joint, Zenon
<1> DEFINE b == CRLF \o CRLF
<1>4. /\ b \in Bytes /\ Len(b) = 4 /\ \A i \in 1..2 : b[i] = CRLF[i] /\ b[2 + i] = CRLF[i]
  BY <1>2, <1>3
<1>5. BlankLine = b
  BY DEF BlankLine
<1> HIDE DEF b
<1>6. b[1] = CRLF[1] /\ b[2] = CRLF[2] /\ b[2 + 1] = CRLF[1] /\ b[2 + 2] = CRLF[2]
  BY <1>4
<1>7. b[1] = CR /\ b[2] = LF /\ b[3] = CR /\ b[4] = LF
  BY <1>2, <1>6
<1> QED
  BY <1>1, <1>2, <1>4, <1>5, <1>7

LEMMA ContentType ==
  ASSUME NEW m \in Message
  PROVE  m.chunks \in Texts /\ Content(m) \in Bytes
<1>1. m.chunks \in Texts
  <2>1. m.chunks \in Seq(Seq(STRING))
    BY DEF Message
  <2>2. Seq(STRING) \subseteq Seq(Byte)
    BY SeqMonotonic DEF Byte
  <2> QED
    BY <2>1, <2>2, SeqMonotonic DEF Texts, Bytes
<1> QED
  BY <1>1, FlattenType DEF Content

\* What follows the header.
ChunkTexts(m) == [i \in DOMAIN m.chunks |-> ChunkOf(m.chunks[i])]
Body(m) == IF m.framing = "chunked" THEN FlattenSeq(ChunkTexts(m)) \o ChunkOf(<<>>)
           ELSE Content(m)

LEMMA ChunkType ==
  ASSUME Sizes, NEW d \in Bytes, Len(d) \in Numbers
  PROVE  /\ ChunkOf(d) \in Bytes /\ Len(ChunkOf(d)) = Len(d) + 5
         /\ <<Digit(Len(d))>> \in Bytes /\ Len(<<Digit(Len(d))>>) = 1
         /\ \A y \in Bytes :
              ChunkOf(d) \o y = <<Digit(Len(d))>> \o (CRLF \o (d \o (CRLF \o y)))
<1> DEFINE n == <<Digit(Len(d))>>
<1>1. n \in Bytes /\ Len(n) = 1
  BY Symbols DEF Bytes
<1>2. CRLF \in Bytes /\ Len(CRLF) = 2
  BY EndOfLine
<1>3. ChunkOf(d) = ((n \o CRLF) \o d) \o CRLF
  BY Zenon DEF ChunkOf
<1> HIDE DEF n
<1>4. n \o CRLF \in Bytes /\ Len(n \o CRLF) = Len(n) + Len(CRLF)
  BY <1>1, <1>2, Joint
<1>5. (n \o CRLF) \o d \in Bytes /\ Len((n \o CRLF) \o d) = Len(n \o CRLF) + Len(d)
  BY <1>4, Joint
<1>6. ((n \o CRLF) \o d) \o CRLF \in Bytes
      /\ Len(((n \o CRLF) \o d) \o CRLF) = Len((n \o CRLF) \o d) + Len(CRLF)
  BY <1>2, <1>5, Joint
<1>7. Len(ChunkOf(d)) = Len(d) + 5
  <2>1. Len(d) \in Nat
    BY Length
  <2> QED
    BY <1>1, <1>2, <1>3, <1>4, <1>5, <1>6, <2>1
<1>8. ASSUME NEW y \in Bytes
      PROVE  ChunkOf(d) \o y = n \o (CRLF \o (d \o (CRLF \o y)))
  <2>1. CRLF \o y \in Bytes
    BY <1>2, Joint
  <2>2. d \o (CRLF \o y) \in Bytes
    BY <2>1, Joint
  <2>3. (((n \o CRLF) \o d) \o CRLF) \o y = ((n \o CRLF) \o d) \o (CRLF \o y)
    BY <1>2, <1>5, Associative, Zenon
  <2>4. ((n \o CRLF) \o d) \o (CRLF \o y) = (n \o CRLF) \o (d \o (CRLF \o y))
    BY <1>4, <2>1, Associative, Zenon
  <2>5. (n \o CRLF) \o (d \o (CRLF \o y)) = n \o (CRLF \o (d \o (CRLF \o y)))
    BY <1>1, <1>2, <2>2, Associative, Zenon
  <2> QED
    BY <1>3, <2>3, <2>4, <2>5, Zenon
<1> QED
  BY <1>1, <1>3, <1>6, <1>7, <1>8, Zenon DEF n

LEMMA ChunkTextsType ==
  ASSUME Sizes, NEW m, Good(m), m.framing = "chunked"
  PROVE  /\ m.chunks \in Texts /\ ChunkTexts(m) \in Texts
         /\ Len(ChunkTexts(m)) = Len(m.chunks)
         /\ \A i \in 1..Len(m.chunks) :
              /\ m.chunks[i] \in Bytes /\ Len(m.chunks[i]) \in Numbers \ {0}
              /\ ChunkTexts(m)[i] = ChunkOf(m.chunks[i])
<1> DEFINE c == m.chunks
<1>1. c \in Seq(Bytes)
  BY ContentType DEF Good, Texts
<1>2. Len(c) \in Nat /\ DOMAIN c = 1..Len(c) /\ \A i \in 1..Len(c) : c[i] \in Bytes
  BY <1>1, LenProperties, ElementOfSeq
<1>3. \A i \in 1..Len(c) : Len(c[i]) \in Numbers \ {0}
  BY <1>2 DEF Good, Announced
<1> HIDE DEF c
<1>4. \A i \in 1..Len(c) : ChunkOf(c[i]) \in Bytes
  BY <1>2, <1>3, ChunkType
<1>5. ChunkTexts(m) = [i \in 1..Len(c) |-> ChunkOf(c[i])]
  BY <1>2 DEF ChunkTexts, c
<1> DEFINE t == [i \in 1..Len(c) |-> ChunkOf(c[i])]
<1>6. t \in Seq(Bytes)
  BY <1>2, <1>4
<1>7. Len(t) = Len(c)
  BY <1>2
<1>8. \A i \in 1..Len(c) : t[i] = ChunkOf(c[i])
  OBVIOUS
<1> HIDE DEF t
<1>9. ChunkTexts(m) = t
  BY <1>5 DEF t
<1> QED
  BY <1>1, <1>2, <1>3, <1>6, <1>7, <1>8, <1>9 DEF Texts, c

LEMMA BodyType ==
  ASSUME Sizes, NEW m, Good(m)
  PROVE  Body(m) \in Bytes
<1>1. CASE m.framing = "chunked"
  <2>1. FlattenSeq(ChunkTexts(m)) \in Bytes
    BY <1>1, ChunkTextsType, FlattenType
  <2>2. ChunkOf(<<>>) \in Bytes
    BY Symbols, NoBytes, ChunkType
  <2> QED
    BY <1>1, <2>1, <2>2, Joint DEF Body
<1>2. CASE m.framing # "chunked"
  BY <1>2, ContentType DEF Body, Good
<1> QED
  BY <1>1, <1>2

LEMMA HeaderType ==
  ASSUME Sizes, NEW m, Good(m)
  PROVE  /\ Field(m) \in Byte
         /\ Header(m) \in Bytes /\ Len(Header(m)) = 6
         /\ Header(m)[1] = "start" /\ Header(m)[2] = Field(m)
         /\ \A i \in 1..4 : Header(m)[2 + i] = BlankLine[i]
<1>1. Field(m) \in Byte
  <2>1. CASE m.framing = "length"
    <3>1. Len(Content(m)) \in Numbers
      BY <2>1 DEF Good, Announced
    <3>2. Digit(Len(Content(m))) \in Byte
      BY <3>1, Symbols
    <3> QED
      BY <2>1, <3>2 DEF Field
  <2>2. CASE m.framing # "length"
    <3>1. m.framing \in {"chunked", "close", "none"}
      BY <2>2 DEF Good, Message
    <3>2. \A f \in {"chunked", "close", "none"} : f \in Byte
      BY DEF Byte
    <3>3. Field(m) = m.framing
      BY <2>2 DEF Field
    <3> QED
      BY <3>1, <3>2, <3>3, Zenon
  <2> QED
    BY <2>1, <2>2
<1> DEFINE a == <<"start", Field(m)>>
<1>2. a \in Bytes /\ Len(a) = 2 /\ a[1] = "start" /\ a[2] = Field(m)
  BY <1>1, EndOfLine DEF Bytes
<1>3. Header(m) = a \o BlankLine
  BY DEF Header
<1> HIDE DEF a
<1>4. /\ a \o BlankLine \in Bytes /\ Len(a \o BlankLine) = Len(a) + Len(BlankLine)
      /\ \A i \in 1..Len(a) : (a \o BlankLine)[i] = a[i]
      /\ \A i \in 1..Len(BlankLine) : (a \o BlankLine)[Len(a) + i] = BlankLine[i]
  BY <1>2, EndOfLine, Joint, Zenon
<1> DEFINE h == a \o BlankLine
<1>5. /\ h \in Bytes /\ Len(h) = 6 /\ \A i \in 1..2 : h[i] = a[i]
      /\ \A i \in 1..4 : h[2 + i] = BlankLine[i]
  <2>1. Len(BlankLine) = 4
    BY EndOfLine
  <2> QED
    BY <1>2, <1>4, <2>1
<1> HIDE DEF h
<1>6. h[1] = a[1] /\ h[2] = a[2]
  BY <1>5
<1> QED
  BY <1>1, <1>2, <1>3, <1>5, <1>6 DEF h

LEMMA WireType ==
  ASSUME Sizes, NEW m, Good(m)
  PROVE  /\ Wire(m) \in Bytes /\ Wire(m) = Header(m) \o Body(m)
         /\ Len(Wire(m)) = 6 + Len(Body(m))
<1>1. Wire(m) = Header(m) \o Body(m)
  BY Zenon DEF Wire, Body, ChunkTexts
<1>2. Header(m) \in Bytes /\ Len(Header(m)) = 6 /\ Body(m) \in Bytes
  BY HeaderType, BodyType
<1>3. Header(m) \o Body(m) \in Bytes
      /\ Len(Header(m) \o Body(m)) = Len(Header(m)) + Len(Body(m))
  BY <1>2, Joint, Zenon
<1> QED
  BY <1>1, <1>2, <1>3

-----------------------------------------------------------------------------
(* Where a delimiter ends *)

LEMMA DelimiterEnds ==
  ASSUME NEW s \in Bytes, NEW d \in Bytes, EndOf(d, s) > 0
  PROVE  LET e == EndOf(d, s) IN
         /\ e \in Len(d)..Len(s)
         /\ \A j \in 1..Len(d) : s[e - Len(d) + j] = d[j]
         /\ \A i \in Len(d)..Len(s) :
              (\A j \in 1..Len(d) : s[i - Len(d) + j] = d[j]) => e <= i
<1> DEFINE D == Len(d)
           Found(i) == SubSeq(s, i - D + 1, i) = d
           ends == {i \in D..Len(s) : Found(i)}
           e == EndOf(d, s)
<1>1. D \in Nat /\ Len(s) \in Nat
  BY Length
<1>2. e = IF ends = {} THEN 0 ELSE Min(ends)
  BY DEF EndOf
<1>3. ends # {} /\ ends \subseteq Nat
  <2>1. e > 0
    OBVIOUS
  <2> HIDE DEF e, ends
  <2>2. ends # {}
    BY <1>2, <2>1
  <2>3. ends \subseteq Nat
    BY <1>1 DEF ends
  <2> QED
    BY <2>2, <2>3
<1>4. e \in ends /\ \A i \in ends : e <= i
  <2>1. \E x \in ends : \A y \in ends : x <= y
    BY <1>3, LeastNumber, Zenon
  <2> HIDE DEF ends, e
  <2> QED
    BY <1>2, <1>3, <2>1, Zenon DEF Min
<1> HIDE DEF e
<1>5. ASSUME NEW i \in D..Len(s)
      PROVE  Found(i) <=> \A j \in 1..D : s[i - D + j] = d[j]
  <2> DEFINE t == SubSeq(s, i - D + 1, i)
  <2>1. \A k \in i - D + 1..i : s[k] \in Byte
    <3>1. \A k \in 1..Len(s) : s[k] \in Byte
      BY LenProperties DEF Bytes
    <3>2. \A k \in i - D + 1..i : k \in 1..Len(s)
      BY <1>1
    <3> QED
      BY <3>1, <3>2
  <2>2. i - D + 1 \in Int /\ i \in Int
    BY <1>1
  <2>3. /\ t \in Seq(Byte)
        /\ Len(t) = IF i - D + 1 <= i THEN i - (i - D + 1) + 1 ELSE 0
        /\ \A j \in 1..i - (i - D + 1) + 1 : t[j] = s[i - D + 1 + j - 1]
    BY <2>1, <2>2, SubSeqProperties
  <2> HIDE DEF t
  <2>4. t \in Bytes /\ Len(t) = D
    BY <1>1, <2>3 DEF Bytes
  <2>5. \A j \in 1..D : t[j] = s[i - D + j]
    BY <1>1, <2>3
  <2>6. t = d => \A j \in 1..D : s[i - D + j] = d[j]
    BY <2>5
  <2>7. ASSUME \A j \in 1..D : s[i - D + j] = d[j] PROVE t = d
    <3>1. \A j \in 1..Len(t) : t[j] = d[j]
      BY <2>4, <2>5, <2>7
    <3> HIDE DEF D
    <3>2. Len(t) = Len(d)
      BY <2>4 DEF D
    <3> QED
      BY <2>4, <3>1, <3>2, SameBytes, Zenon
  <2> QED
    BY <2>6, <2>7 DEF t
<1>6. e \in D..Len(s) /\ Found(e)
  BY <1>4
<1>7. \A i \in D..Len(s) : Found(i) => e <= i
  BY <1>4
<1> HIDE DEF Found, ends, D
<1>8. \A j \in 1..D : s[e - D + j] = d[j]
  BY <1>5, <1>6
<1>9. \A i \in D..Len(s) : (\A j \in 1..D : s[i - D + j] = d[j]) => e <= i
  BY <1>5, <1>7
<1> QED
  BY <1>6, <1>8, <1>9 DEF D, e

LEMMA HeaderEnds ==
  ASSUME Sizes, NEW m, Good(m), NEW b \in Bytes, NEW x \in Bytes, b \o x = Wire(m),
         EndOf(BlankLine, b) > 0
  PROVE  /\ EndOf(BlankLine, b) = 6 /\ 6 \in 0..Len(b) /\ Take(b, 6) = Header(m)
         /\ Drop(b, 6) \in Bytes /\ Len(Drop(b, 6)) = Len(b) - 6 /\ Drop(b, 6) \o x = Body(m)
<1> DEFINE e == EndOf(BlankLine, b)
           h == Header(m)
<1>1. Len(b) \in Nat
  BY Length
<1>2. Header(m) \in Bytes /\ Len(Header(m)) = 6 /\ Body(m) \in Bytes /\ b \o x = Header(m) \o Body(m)
  BY HeaderType, BodyType, WireType
<1>3. ASSUME NEW i \in 1..6, i <= Len(b) PROVE b[i] = h[i]
  <2>1. i \in 1..Len(b) /\ i \in 1..Len(Header(m))
    BY <1>1, <1>2, <1>3
  <2>2. (b \o x)[i] = b[i] /\ (Header(m) \o Body(m))[i] = Header(m)[i]
    BY <1>2, <2>1, Joint, Zenon
  <2> QED
    BY <1>2, <2>2
<1>4. /\ h[1] = "start" /\ h[3] = CR /\ h[4] = LF /\ h[5] = CR /\ h[6] = LF
      /\ CR # "start" /\ CR # LF
  <2>1. \A i \in 1..4 : h[2 + i] = BlankLine[i]
    BY HeaderType, Zenon
  <2>2. h[2 + 1] = BlankLine[1] /\ h[2 + 2] = BlankLine[2] /\ h[2 + 3] = BlankLine[3] /\ h[2 + 4] = BlankLine[4]
    BY <2>1
  <2>3. h[3] = BlankLine[1] /\ h[4] = BlankLine[2] /\ h[5] = BlankLine[3] /\ h[6] = BlankLine[4]
    BY <2>2
  <2>4. h[1] = "start"
    BY HeaderType, Zenon
  <2> QED
    BY <2>3, <2>4, EndOfLine
<1>5. /\ BlankLine \in Bytes /\ Len(BlankLine) = 4
      /\ BlankLine[1] = CR /\ BlankLine[2] = LF /\ BlankLine[3] = CR /\ BlankLine[4] = LF
  BY EndOfLine
<1>6. /\ e \in Len(BlankLine)..Len(b)
      /\ \A j \in 1..Len(BlankLine) : b[e - Len(BlankLine) + j] = BlankLine[j]
      /\ \A i \in Len(BlankLine)..Len(b) :
           (\A j \in 1..Len(BlankLine) : b[i - Len(BlankLine) + j] = BlankLine[j]) => e <= i
  BY <1>5, DelimiterEnds, Zenon
<1> HIDE DEF e, h
<1>7. /\ e \in 4..Len(b)
      /\ \A j \in 1..4 : b[e - 4 + j] = BlankLine[j]
      /\ \A i \in 4..Len(b) : (\A j \in 1..4 : b[i - 4 + j] = BlankLine[j]) => e <= i
  BY <1>5, <1>6
<1>8. e # 4
  <2>1. SUFFICES ASSUME e = 4 PROVE FALSE
    OBVIOUS
  <2>2. b[4 - 4 + 1] = CR
    BY <1>5, <1>7, <2>1
  <2>3. b[1] = "start"
    BY <1>1, <1>3, <1>4, <1>7, <2>1
  <2> QED
    BY <1>4, <2>2, <2>3
<1>9. e # 5
  <2>1. SUFFICES ASSUME e = 5 PROVE FALSE
    OBVIOUS
  <2>2. b[5 - 4 + 2] = LF
    BY <1>5, <1>7, <2>1
  <2>3. b[3] = CR
    BY <1>1, <1>3, <1>4, <1>7, <2>1
  <2> QED
    BY <1>4, <2>2, <2>3
<1>10. 6 \in 4..Len(b) /\ e >= 6
  BY <1>1, <1>7, <1>8, <1>9
<1>11. e <= 6
  <2>1. b[3] = CR /\ b[4] = LF /\ b[5] = CR /\ b[6] = LF
    BY <1>1, <1>3, <1>4, <1>10
  <2>2. \A j \in 1..4 : b[2 + j] = BlankLine[j]
    <3>1. \A j \in 1..4 : j = 1 \/ j = 2 \/ j = 3 \/ j = 4
      OBVIOUS
    <3>2. b[2 + 1] = BlankLine[1] /\ b[2 + 2] = BlankLine[2] /\ b[2 + 3] = BlankLine[3] /\ b[2 + 4] = BlankLine[4]
      BY <1>5, <2>1
    <3> QED
      BY <3>1, <3>2
  <2>3. \A j \in 1..4 : b[6 - 4 + j] = BlankLine[j]
    BY <2>2
  <2> QED
    BY <1>7, <1>10, <2>3
<1>12. e = 6 /\ 6 \in 0..Len(b)
  BY <1>1, <1>7, <1>10, <1>11
<1>13. /\ Take(b, 6) \in Bytes /\ Len(Take(b, 6)) = 6
       /\ Drop(b, 6) \in Bytes /\ Len(Drop(b, 6)) = Len(b) - 6
       /\ Take(b, 6) \o Drop(b, 6) = b
  BY <1>12, TakeDrop
<1>14. Take(b, 6) = Header(m) /\ Drop(b, 6) \o x = Body(m)
  <2> DEFINE s == Take(b, 6)
             t == Drop(b, 6)
  <2>1. s \in Bytes /\ t \in Bytes /\ Len(s) = 6 /\ s \o t = b
    BY <1>13
  <2> HIDE DEF s, t
  <2>2. (s \o t) \o x = s \o (t \o x)
    <3>1. Cat(Cat(s, t), x) = Cat(s, Cat(t, x))
      BY <2>1, Cats
    <3> QED
      BY <3>1, Zenon DEF Cat
  <2>3. s \o (t \o x) = Header(m) \o Body(m)
    BY <1>2, <2>1, <2>2, Zenon
  <2>4. t \o x \in Bytes /\ Len(s) = Len(Header(m))
    BY <1>2, <2>1, Joint
  <2>5. s = Header(m) /\ t \o x = Body(m)
    BY <1>2, <2>1, <2>3, <2>4, CutAtSamePlace, Zenon
  <2> QED
    BY <2>5 DEF s, t
<1> QED
  BY <1>12, <1>13, <1>14 DEF e

\* The line in front of a chunk.
LEMMA LineEnds ==
  ASSUME NEW d \in Byte, NEW b \in Bytes, NEW x \in Bytes, NEW y \in Bytes,
         Cat(b, x) = Cat(<<d>>, Cat(CRLF, y)), EndOf(CRLF, b) > 0
  PROVE  /\ EndOf(CRLF, b) = 3 /\ 3 \in 0..Len(b) /\ b[1] = d
         /\ Drop(b, 3) \in Bytes /\ Len(Drop(b, 3)) = Len(b) - 3 /\ Cat(Drop(b, 3), x) = y
<1> DEFINE e == EndOf(CRLF, b)
           h == <<d>> \o CRLF
           c == <<d>>
<1>1. Len(b) \in Nat /\ CRLF \in Bytes /\ Len(CRLF) = 2 /\ CRLF[1] = CR /\ CRLF[2] = LF /\ CR # LF
  BY Length, EndOfLine
<1>2. c \in Bytes /\ Len(c) = 1 /\ c[1] = d
  BY DEF Bytes
<1> HIDE DEF c
<1>3. /\ c \o CRLF \in Bytes /\ Len(c \o CRLF) = Len(c) + Len(CRLF)
      /\ \A i \in 1..Len(c) : (c \o CRLF)[i] = c[i]
      /\ \A i \in 1..Len(CRLF) : (c \o CRLF)[Len(c) + i] = CRLF[i]
  BY <1>1, <1>2, Joint, Zenon
<1>4. h = c \o CRLF
  BY DEF h, c
<1> HIDE DEF h
<1>5. h \in Bytes /\ Len(h) = 3 /\ h[1] = d /\ h[2] = CR /\ h[3] = LF
  <2>1. h \in Bytes /\ Len(h) = 3 /\ h[1] = d
    BY <1>1, <1>2, <1>3, <1>4
  <2>2. h[1 + 1] = CR /\ h[1 + 2] = LF
    BY <1>1, <1>2, <1>3, <1>4
  <2> QED
    BY <2>1, <2>2
<1>6. b \o x = h \o y
  <2>1. (c \o CRLF) \o y = c \o (CRLF \o y)
    <3>1. Cat(Cat(c, CRLF), y) = Cat(c, Cat(CRLF, y))
      BY <1>1, <1>2, Cats
    <3> QED
      BY <3>1, Zenon DEF Cat
  <2>2. b \o x = <<d>> \o (CRLF \o y)
    BY DEF Cat
  <2> QED
    BY <1>4, <2>1, <2>2, Zenon DEF c
<1>7. ASSUME NEW i \in 1..3, i <= Len(b) PROVE b[i] = h[i]
  <2>1. i \in 1..Len(b) /\ i \in 1..Len(h)
    BY <1>1, <1>5, <1>7
  <2>2. (b \o x)[i] = b[i] /\ (h \o y)[i] = h[i]
    BY <1>5, <2>1, Joint, Zenon
  <2> QED
    BY <1>6, <2>2
<1>8. /\ e \in Len(CRLF)..Len(b)
      /\ \A j \in 1..Len(CRLF) : b[e - Len(CRLF) + j] = CRLF[j]
      /\ \A i \in Len(CRLF)..Len(b) :
           (\A j \in 1..Len(CRLF) : b[i - Len(CRLF) + j] = CRLF[j]) => e <= i
  BY <1>1, DelimiterEnds, Zenon
<1> HIDE DEF e
<1>9. /\ e \in 2..Len(b)
      /\ \A j \in 1..2 : b[e - 2 + j] = CRLF[j]
      /\ \A i \in 2..Len(b) : (\A j \in 1..2 : b[i - 2 + j] = CRLF[j]) => e <= i
  BY <1>1, <1>8
<1>10. e # 2
  <2>1. SUFFICES ASSUME e = 2 PROVE FALSE
    OBVIOUS
  <2>2. b[2 - 2 + 2] = LF
    BY <1>1, <1>9, <2>1
  <2>3. b[2] = CR
    BY <1>1, <1>5, <1>7, <1>9, <2>1
  <2> QED
    BY <1>1, <2>2, <2>3
<1>11. 3 \in 2..Len(b) /\ e >= 3
  BY <1>1, <1>9, <1>10
<1>12. e <= 3
  <2>1. b[2] = CR /\ b[3] = LF
    BY <1>1, <1>5, <1>7, <1>11
  <2>2. \A j \in 1..2 : b[3 - 2 + j] = CRLF[j]
    <3>1. \A j \in 1..2 : j = 1 \/ j = 2
      OBVIOUS
    <3>2. b[3 - 2 + 1] = CRLF[1] /\ b[3 - 2 + 2] = CRLF[2]
      BY <1>1, <2>1
    <3> QED
      BY <3>1, <3>2
  <2> QED
    BY <1>9, <1>11, <2>2
<1>13. e = 3 /\ 3 \in 0..Len(b) /\ b[1] = d
  BY <1>1, <1>5, <1>7, <1>9, <1>11, <1>12
<1>14. /\ Take(b, 3) \in Bytes /\ Len(Take(b, 3)) = 3
       /\ Drop(b, 3) \in Bytes /\ Len(Drop(b, 3)) = Len(b) - 3
       /\ Take(b, 3) \o Drop(b, 3) = b
  BY <1>13, TakeDrop
<1>15. Drop(b, 3) \o x = y
  <2> DEFINE s == Take(b, 3)
             t == Drop(b, 3)
  <2>1. s \in Bytes /\ t \in Bytes /\ Len(s) = 3 /\ s \o t = b
    BY <1>14
  <2> HIDE DEF s, t
  <2>2. (s \o t) \o x = s \o (t \o x)
    <3>1. Cat(Cat(s, t), x) = Cat(s, Cat(t, x))
      BY <2>1, Cats
    <3> QED
      BY <3>1, Zenon DEF Cat
  <2>3. s \o (t \o x) = h \o y
    BY <1>6, <2>1, <2>2, Zenon
  <2>4. t \o x \in Bytes /\ Len(s) = Len(h)
    BY <1>5, <2>1, Joint
  <2>5. h \in Bytes /\ y \in Bytes
    BY <1>5
  <2>6. s = h /\ t \o x = y
    BY <2>1, <2>3, <2>4, <2>5, CutAtSamePlace, Zenon
  <2> QED
    BY <2>6 DEF t
<1> QED
  BY <1>13, <1>14, <1>15 DEF e, Cat

-----------------------------------------------------------------------------
(* Sessions *)

Ops == Waiting \cup {"none", "done", "too_large", "malformed", "thrown", "no_header",
                  "failed"}
Session == [op : Ops, need : Nat, buf : Bytes, head : Bytes, length : Nat,
            chunks : Bytes, stale : BOOLEAN]

\* One field of a Session gets a value.
LEMMA OpSet ==
  ASSUME NEW r \in Session, NEW x \in Ops
  PROVE  LET s == [r EXCEPT !.op = x] IN
         /\ s \in Session /\ s.op = x /\ s.need = r.need /\ s.buf = r.buf /\ s.head = r.head
         /\ s.length = r.length /\ s.chunks = r.chunks /\ s.stale = r.stale
BY DEF Session

LEMMA NeedSet ==
  ASSUME NEW r \in Session, NEW x \in Nat
  PROVE  LET s == [r EXCEPT !.need = x] IN
         /\ s \in Session /\ s.op = r.op /\ s.need = x /\ s.buf = r.buf /\ s.head = r.head
         /\ s.length = r.length /\ s.chunks = r.chunks /\ s.stale = r.stale
BY DEF Session

LEMMA BufSet ==
  ASSUME NEW r \in Session, NEW x \in Bytes
  PROVE  LET s == [r EXCEPT !.buf = x] IN
         /\ s \in Session /\ s.op = r.op /\ s.need = r.need /\ s.buf = x /\ s.head = r.head
         /\ s.length = r.length /\ s.chunks = r.chunks /\ s.stale = r.stale
BY DEF Session

LEMMA HeadSet ==
  ASSUME NEW r \in Session, NEW x \in Bytes
  PROVE  LET s == [r EXCEPT !.head = x] IN
         /\ s \in Session /\ s.op = r.op /\ s.need = r.need /\ s.buf = r.buf /\ s.head = x
         /\ s.length = r.length /\ s.chunks = r.chunks /\ s.stale = r.stale
BY DEF Session

LEMMA LengthSet ==
  ASSUME NEW r \in Session, NEW x \in Nat
  PROVE  LET s == [r EXCEPT !.length = x] IN
         /\ s \in Session /\ s.op = r.op /\ s.need = r.need /\ s.buf = r.buf /\ s.head = r.head
         /\ s.length = x /\ s.chunks = r.chunks /\ s.stale = r.stale
BY DEF Session

LEMMA ChunksSet ==
  ASSUME NEW r \in Session, NEW x \in Bytes
  PROVE  LET s == [r EXCEPT !.chunks = x] IN
         /\ s \in Session /\ s.op = r.op /\ s.need = r.need /\ s.buf = r.buf /\ s.head = r.head
         /\ s.length = r.length /\ s.chunks = x /\ s.stale = r.stale
BY DEF Session

Weight(r) == Len(r.buf) + Len(r.chunks)

\* What every Session satisfies, also one whose buffer has bytes of an earlier attempt.
Sound(r) ==
  /\ r \in Session
  /\ Len(r.chunks) < MaxSize
  /\ r.op # "done" => Len(r.buf) <= MaxSize
  /\ r.op \in {"none", "header", "no_header"} => r.chunks = <<>>
  /\ r.op = "chunk" => r.need + Len(r.buf) = WithCRLF(r.length) /\ r.length \in Numbers

LEMMA NewSession ==
  ASSUME Sizes
  PROVE  Sound(Nothing) /\ Sound(Reading) /\ Nothing.op = "none" /\ Reading.op = "header"
         /\ Reading.buf = <<>> /\ ~Reading.stale /\ ~Nothing.stale
         /\ Weight(Nothing) = 0 /\ Weight(Reading) = 0
<1>1. /\ Nothing \in Session /\ Nothing.op = "none" /\ Nothing.buf = <<>> /\ Nothing.chunks = <<>>
      /\ ~Nothing.stale
  BY NoBytes DEF Nothing, Session, Ops
<1>2. "header" \in Ops
  BY DEF Ops, Waiting, Until
<1> HIDE DEF Nothing
<1>3. /\ Reading \in Session /\ Reading.op = "header" /\ Reading.buf = <<>> /\ Reading.chunks = <<>>
      /\ ~Reading.stale
  BY <1>1, <1>2, OpSet DEF Reading
<1>4. MaxSize \in Nat /\ MaxSize > 0
  BY DEF Sizes
<1> HIDE DEF Reading, Session
<1> QED
  BY <1>1, <1>3, <1>4, NoBytes DEF Sound, Weight

LEMMA Finished ==
  ASSUME NEW r \in Session
  PROVE  /\ Done(r) \in Session /\ Done(r).op = "done" /\ Done(r).buf = r.buf
         /\ Done(r).head = r.head /\ Done(r).chunks = r.chunks /\ Done(r).stale = r.stale
         /\ TooLarge(r) \in Session /\ TooLarge(r).op = "too_large" /\ TooLarge(r).buf = r.buf
         /\ TooLarge(r).chunks = r.chunks /\ TooLarge(r).stale = r.stale
<1> DEFINE a == [r EXCEPT !.op = "done"]
           b == [a EXCEPT !.need = 0]
<1>1. "done" \in Ops /\ "too_large" \in Ops
  BY DEF Ops
<1>2. /\ a \in Session /\ a.op = "done" /\ a.buf = r.buf
      /\ a.head = r.head /\ a.chunks = r.chunks /\ a.stale = r.stale
  BY <1>1, OpSet
<1>3. Done(r) = b
  BY DEF Done
<1> HIDE DEF a
<1>4. b \in Session /\ b.op = "done" /\ b.buf = r.buf
      /\ b.head = r.head /\ b.chunks = r.chunks /\ b.stale = r.stale
  BY <1>2, NeedSet
<1>5. /\ TooLarge(r) \in Session /\ TooLarge(r).op = "too_large" /\ TooLarge(r).buf = r.buf
      /\ TooLarge(r).chunks = r.chunks /\ TooLarge(r).stale = r.stale
  BY <1>1, OpSet DEF TooLarge
<1> HIDE DEF b
<1> QED
  BY <1>3, <1>4, <1>5

LEMMA MoreAsked ==
  ASSUME NEW r \in Session, NEW op \in Ops, NEW size \in Nat, NEW next, size > Len(r.buf)
  PROVE  LET s == ReadExactly(r, op, size, next) IN
         /\ s \in Session /\ s.op = op /\ s.need = size - Len(r.buf) /\ s.buf = r.buf
         /\ s.head = r.head /\ s.length = r.length /\ s.chunks = r.chunks /\ s.stale = r.stale
<1> DEFINE a == [r EXCEPT !.op = op]
           n == size - Len(r.buf)
           b == [a EXCEPT !.need = n]
<1>1. r.buf \in Bytes
  BY DEF Session
<1>2. n \in Nat
  <2>1. Len(r.buf) \in Nat
    BY <1>1, Length
  <2> QED
    BY <2>1
<1>3. /\ a \in Session /\ a.op = op /\ a.need = r.need /\ a.buf = r.buf /\ a.head = r.head
      /\ a.length = r.length /\ a.chunks = r.chunks /\ a.stale = r.stale
  BY OpSet
<1>4. ReadExactly(r, op, size, next) = b
  BY DEF ReadExactly
<1> HIDE DEF a, n
<1>5. /\ b \in Session /\ b.op = op /\ b.need = n /\ b.buf = r.buf /\ b.head = r.head
      /\ b.length = r.length /\ b.chunks = r.chunks /\ b.stale = r.stale
  BY <1>2, <1>3, NeedSet
<1> HIDE DEF b
<1> QED
  BY <1>4, <1>5 DEF n

\* The sum of a length and the end of its line wraps only when no array is that long.
LEMMA Wrapped ==
  ASSUME Sizes, NEW n \in Nat
  PROVE  /\ WithCRLF(n) \in Nat
         /\ ~Unallocatable(n) => WithCRLF(n) = n + 2
         /\ n = 0 => ~Unallocatable(n)
<1>1. Word \in Nat /\ Word > 2
  BY DEF Sizes
<1> QED
  BY <1>1 DEF WithCRLF, Unallocatable

\* A chunk and the end of its line are in the buffer.
LEMMA ChunkTaken ==
  ASSUME NEW r \in Session, r.length + 2 <= Len(r.buf), ~Unallocatable(r.length)
  PROVE  LET all == r.chunks \o Take(r.buf, r.length)
             rest == Drop(r.buf, r.length + 2)
             s == Chunk(r) IN
         /\ all \in Bytes /\ Len(all) = Len(r.chunks) + r.length
         /\ rest \in Bytes /\ Len(rest) = Len(r.buf) - (r.length + 2)
         /\ s \in Session /\ s.stale = r.stale /\ s.head = r.head
         /\ r.length > 0 /\ Len(all) >= MaxSize =>
              s.op = "too_large" /\ s.buf = r.buf /\ s.chunks = r.chunks
         /\ r.length > 0 /\ ~(Len(all) >= MaxSize) =>
              s.op = "line" /\ s.buf = rest /\ s.chunks = all
         /\ r.length = 0 => s.op = "done" /\ s.buf = rest \o all /\ s.chunks = <<>>
<1> DEFINE all == r.chunks \o Take(r.buf, r.length)
           rest == Drop(r.buf, r.length + 2)
           a == [r EXCEPT !.op = "line"]
           b == [a EXCEPT !.chunks = all]
           c == [b EXCEPT !.buf = rest]
           d == [r EXCEPT !.chunks = <<>>]
           e == [d EXCEPT !.buf = rest \o all]
<1>1. r.buf \in Bytes /\ r.chunks \in Bytes /\ r.length \in Nat
  BY DEF Session
<1>2. Len(r.buf) \in Nat
  BY <1>1, Length
<1>3. r.length \in 0..Len(r.buf) /\ r.length + 2 \in 0..Len(r.buf)
  BY <1>1, <1>2
<1>4. Take(r.buf, r.length) \in Bytes /\ Len(Take(r.buf, r.length)) = r.length
  BY <1>1, <1>3, TakeDrop
<1>5. all \in Bytes /\ Len(all) = Len(r.chunks) + r.length
  <2>1. all \in Bytes /\ Len(all) = Len(r.chunks) + Len(Take(r.buf, r.length))
    BY <1>1, <1>4, Joint, Zenon
  <2> QED
    BY <1>4, <2>1
<1>6. rest \in Bytes /\ Len(rest) = Len(r.buf) - (r.length + 2)
  BY <1>1, <1>3, TakeDrop
<1>7. "line" \in Ops
  BY DEF Ops, Waiting, Until
<1>8. a \in Session /\ a.op = "line" /\ a.head = r.head /\ a.stale = r.stale
  BY <1>7, OpSet
<1>9. d \in Session /\ d.chunks = <<>> /\ d.head = r.head /\ d.stale = r.stale
  BY NoBytes, ChunksSet
<1>10. c = [r EXCEPT !.op = "line", !.chunks = all, !.buf = rest]
       /\ e = [r EXCEPT !.chunks = <<>>, !.buf = rest \o all]
  <2> HIDE DEF all, rest
  <2> QED
    OBVIOUS
<1>11. Chunk(r) = IF r.length > 0 /\ Len(all) >= MaxSize THEN TooLarge(r)
                  ELSE IF r.length > 0 THEN c ELSE Done(e)
  <2> HIDE DEF c, e
  <2> QED
    BY <1>10, Zenon DEF Chunk, Chunks
<1>12. rest \o all \in Bytes
  BY <1>5, <1>6, Joint, Zenon
<1> HIDE DEF a, d, all, rest
<1>13. b \in Session /\ b.op = "line" /\ b.head = r.head /\ b.stale = r.stale /\ b.chunks = all
  BY <1>5, <1>8, ChunksSet
<1>14. e \in Session /\ e.buf = rest \o all /\ e.chunks = <<>> /\ e.head = r.head /\ e.stale = r.stale
  BY <1>9, <1>12, BufSet
<1> HIDE DEF b, e
<1>15. /\ c \in Session /\ c.op = "line" /\ c.head = r.head /\ c.stale = r.stale
       /\ c.chunks = all /\ c.buf = rest
  BY <1>6, <1>13, BufSet
<1> HIDE DEF c
<1>16. /\ Done(e) \in Session /\ Done(e).op = "done" /\ Done(e).buf = rest \o all
       /\ Done(e).head = r.head /\ Done(e).chunks = <<>> /\ Done(e).stale = r.stale
  BY <1>14, Finished
<1>17. /\ TooLarge(r) \in Session /\ TooLarge(r).op = "too_large" /\ TooLarge(r).buf = r.buf
       /\ TooLarge(r).chunks = r.chunks /\ TooLarge(r).stale = r.stale
  BY Finished
<1>18. TooLarge(r).head = r.head
  BY OpSet DEF TooLarge, Ops
<1> DEFINE s == Chunk(r)
<1> HIDE DEF s
<1>19. /\ s \in Session /\ s.stale = r.stale /\ s.head = r.head
       /\ r.length > 0 /\ Len(all) >= MaxSize =>
            s.op = "too_large" /\ s.buf = r.buf /\ s.chunks = r.chunks
       /\ r.length > 0 /\ ~(Len(all) >= MaxSize) =>
            s.op = "line" /\ s.buf = rest /\ s.chunks = all
       /\ r.length = 0 => s.op = "done" /\ s.buf = rest \o all /\ s.chunks = <<>>
  <2>1. s = IF r.length > 0 /\ Len(all) >= MaxSize THEN TooLarge(r)
            ELSE IF r.length > 0 THEN c ELSE Done(e)
    BY <1>11 DEF s
  <2> HIDE DEF Session
  <2>2. CASE r.length > 0 /\ Len(all) >= MaxSize
    BY <1>1, <1>17, <1>18, <2>1, <2>2
  <2>3. CASE r.length > 0 /\ ~(Len(all) >= MaxSize)
    BY <1>1, <1>15, <2>1, <2>3
  <2>4. CASE ~(r.length > 0)
    BY <1>1, <1>16, <2>1, <2>4
  <2> QED
    BY <2>2, <2>3, <2>4
<1> QED
  BY <1>5, <1>6, <1>19 DEF s, all, rest

-----------------------------------------------------------------------------
(* What a step of a read may do to any Session *)

LEMMA Delivered ==
  ASSUME Sizes, wire \in Bytes, Sound(reader), NEW most \in Nat, Receive(most)
  PROVE  \E n \in 1..Len(wire) :
           /\ n <= Room(reader) /\ ~Full(reader)
           /\ Len(reader.buf) + n <= MaxSize
           /\ reader.op \in Exactly => n <= reader.need
           /\ wire' = Drop(wire, n) /\ wire' \in Bytes /\ Len(wire') = Len(wire) - n
           /\ Take(wire, n) \in Bytes /\ Len(Take(wire, n)) = n
           /\ Take(wire, n) \o Drop(wire, n) = wire
           /\ reader' \in Session /\ reader'.op = reader.op /\ reader'.head = reader.head
           /\ reader'.buf = reader.buf \o Take(wire, n) /\ reader'.buf \in Bytes
           /\ Len(reader'.buf) = Len(reader.buf) + n
           /\ reader'.need = IF reader.op \in Exactly THEN reader.need - n ELSE reader.need
           /\ reader'.length = reader.length /\ reader'.chunks = reader.chunks
           /\ reader'.stale = reader.stale
<1> DEFINE n == Min({most, Len(wire), Room(reader)})
<1>1. /\ reader \in Session /\ reader.buf \in Bytes /\ reader.need \in Nat
      /\ reader.op # "done" => Len(reader.buf) <= MaxSize
  BY DEF Sound, Session
<1>2. Len(reader.buf) \in Nat /\ Len(wire) \in Nat /\ MaxSize \in Nat
  BY <1>1, Length DEF Sizes
<1>3. /\ reader.op \in Waiting /\ ~Completed(reader) /\ n > 0 /\ wire' = Drop(wire, n)
      /\ reader' = [reader EXCEPT !.buf = @ \o Take(wire, n),
                                  !.need = IF reader.op \in Exactly THEN @ - n ELSE @]
  BY DEF Receive
<1>4. ~Full(reader) /\ reader.op # "done"
  BY <1>3 DEF Completed, Waiting, Until, Exactly
<1>5. /\ Room(reader) \in Nat /\ Room(reader) <= MaxSize - Len(reader.buf)
      /\ reader.op \in Exactly => Room(reader) <= reader.need
  BY <1>1, <1>2, <1>4 DEF Room
<1> HIDE DEF n
<1>6. n \in {most, Len(wire), Room(reader)} /\ n <= Len(wire) /\ n <= Room(reader)
  <2> DEFINE T == {most, Len(wire), Room(reader)}
  <2>1. T \subseteq Nat /\ T # {} /\ Len(wire) \in T /\ Room(reader) \in T
    BY <1>2, <1>5
  <2>2. n = Min(T)
    BY DEF n
  <2> HIDE DEF T
  <2>3. \E x \in T : \A y \in T : x <= y
    BY <2>1, LeastNumber, Zenon
  <2>4. n \in T /\ \A y \in T : n <= y
    BY <2>2, <2>3, Zenon DEF Min
  <2> QED
    BY <2>1, <2>4 DEF T
<1>7. /\ n \in 1..Len(wire) /\ n \in 0..Len(wire) /\ n \in Nat
      /\ Len(reader.buf) + n <= MaxSize
      /\ reader.op \in Exactly => n <= reader.need
  BY <1>1, <1>2, <1>3, <1>5, <1>6
<1>8. /\ Take(wire, n) \in Bytes /\ Len(Take(wire, n)) = n
      /\ Drop(wire, n) \in Bytes /\ Len(Drop(wire, n)) = Len(wire) - n
      /\ Take(wire, n) \o Drop(wire, n) = wire
  BY <1>7, TakeDrop
<1> DEFINE t == Take(wire, n)
           b == reader.buf \o t
           need == IF reader.op \in Exactly THEN reader.need - n ELSE reader.need
           a == [reader EXCEPT !.buf = b]
           c == [a EXCEPT !.need = need]
<1>9. t \in Bytes /\ Len(t) = n
  BY <1>8
<1>10. reader' = c
  BY <1>3
<1> HIDE DEF t
<1>11. b \in Bytes /\ Len(b) = Len(reader.buf) + n
  <2>1. b \in Bytes /\ Len(b) = Len(reader.buf) + Len(t)
    BY <1>1, <1>9, Joint, Zenon
  <2> QED
    BY <1>9, <2>1
<1>12. need \in Nat
  BY <1>1, <1>7
<1> HIDE DEF b, need
<1>13. /\ a \in Session /\ a.op = reader.op /\ a.need = reader.need /\ a.buf = b
       /\ a.head = reader.head /\ a.length = reader.length /\ a.chunks = reader.chunks
       /\ a.stale = reader.stale
  BY <1>1, <1>11, BufSet
<1> HIDE DEF a
<1>14. /\ c \in Session /\ c.op = reader.op /\ c.need = need /\ c.buf = b
       /\ c.head = reader.head /\ c.length = reader.length /\ c.chunks = reader.chunks
       /\ c.stale = reader.stale
  BY <1>12, <1>13, NeedSet
<1> HIDE DEF c
<1>15. /\ reader' \in Session /\ reader'.op = reader.op /\ reader'.need = need
       /\ reader'.buf = b /\ reader'.head = reader.head /\ reader'.length = reader.length
       /\ reader'.chunks = reader.chunks /\ reader'.stale = reader.stale
  BY <1>10, <1>14
<1>16. wire' = Drop(wire, n) /\ wire' \in Bytes /\ Len(wire') = Len(wire) - n
  BY <1>3, <1>8
<1> QED
  BY <1>4, <1>6, <1>7, <1>8, <1>11, <1>15, <1>16, Zenon DEF b, need, t

LEMMA ReceiveSound ==
  ASSUME Sizes, wire \in Bytes, Sound(reader), NEW most \in Nat, Receive(most)
  PROVE  /\ Sound(reader') /\ reader'.stale = reader.stale /\ wire' \in Bytes
         /\ reader.op \in Waiting /\ reader'.op = reader.op
         /\ Weight(reader') + Len(wire') = Weight(reader) + Len(wire)
<1>1. PICK n \in 1..Len(wire) :
        /\ Len(reader.buf) + n <= MaxSize
        /\ wire' \in Bytes /\ Len(wire') = Len(wire) - n
        /\ reader' \in Session /\ reader'.op = reader.op
        /\ Len(reader'.buf) = Len(reader.buf) + n
        /\ reader'.need = IF reader.op \in Exactly THEN reader.need - n ELSE reader.need
        /\ reader'.length = reader.length /\ reader'.chunks = reader.chunks
        /\ reader'.stale = reader.stale
  BY Delivered, Zenon
<1>2. /\ reader \in Session /\ Len(reader.chunks) < MaxSize
      /\ reader.op \in {"none", "header", "no_header"} => reader.chunks = <<>>
      /\ reader.op = "chunk" =>
           reader.need + Len(reader.buf) = WithCRLF(reader.length) /\ reader.length \in Numbers
  BY DEF Sound
<1>3. reader.buf \in Bytes /\ reader.chunks \in Bytes /\ reader.need \in Nat /\ reader.length \in Nat
  BY <1>2 DEF Session
<1>4. Len(reader.buf) \in Nat /\ Len(reader.chunks) \in Nat /\ Len(wire) \in Nat
  BY <1>3, Length
<1>5. reader.op \in Waiting
  BY DEF Receive
<1> HIDE DEF Session
<1>6. Sound(reader')
  BY <1>1, <1>2, <1>3, <1>4 DEF Sound, Exactly
<1>7. Weight(reader') + Len(wire') = Weight(reader) + Len(wire)
  <2> DEFINE b == Len(reader.buf)
             c == Len(reader.chunks)
             w == Len(wire)
             v == Len(wire')
             x == Weight(reader')
             y == Weight(reader)
  <2>1. x = b + n + c
    BY <1>1, Zenon DEF Weight
  <2>2. y = b + c
    BY DEF Weight
  <2>3. n \in Nat /\ v = w - n /\ b \in Nat /\ c \in Nat /\ w \in Nat
    BY <1>1, <1>4
  <2> HIDE DEF b, c, w, v, x, y
  <2>4. x + v = y + w
    BY <2>1, <2>2, <2>3
  <2> QED
    BY <2>4 DEF x, v, y, w
<1> QED
  BY <1>1, <1>5, <1>6, <1>7

LEMMA EndSound ==
  ASSUME Sizes, Sound(reader), EndOfStream \/ Fail
  PROVE  /\ Sound(reader') /\ reader'.stale = reader.stale /\ wire' = wire
         /\ reader.op \in Waiting /\ ~Full(reader) /\ Weight(reader') = Weight(reader)
         /\ reader'.head = reader.head /\ reader'.buf = reader.buf
         /\ reader'.op = IF EndOfStream /\ reader.op = "end" THEN "done"
                         ELSE IF reader.op = "header" THEN "no_header" ELSE "failed"
<1>1. /\ reader.op \in Waiting /\ ~Completed(reader) /\ wire' = wire
      /\ EndOfStream => reader' = IF reader.op = "end" THEN Done(reader)
               ELSE [reader EXCEPT !.op = IF @ = "header" THEN "no_header" ELSE "failed"]
      /\ ~EndOfStream => reader' =
               [reader EXCEPT !.op = IF @ = "header" THEN "no_header" ELSE "failed"]
  BY DEF EndOfStream, Fail
<1>2. /\ reader \in Session /\ Len(reader.chunks) < MaxSize
      /\ reader.op # "done" => Len(reader.buf) <= MaxSize
      /\ reader.op \in {"none", "header", "no_header"} => reader.chunks = <<>>
  BY DEF Sound
<1> DEFINE op == IF reader.op = "header" THEN "no_header" ELSE "failed"
           a == [reader EXCEPT !.op = op]
<1>3. ~Full(reader) /\ reader.op # "done"
  BY <1>1 DEF Completed, Waiting, Until, Exactly
<1>4. /\ a \in Session /\ a.op = op /\ a.buf = reader.buf /\ a.head = reader.head
      /\ a.chunks = reader.chunks /\ a.stale = reader.stale
  <2>1. op \in Ops
    BY DEF Ops
  <2> HIDE DEF op
  <2> QED
    BY <1>2, <2>1, OpSet
<1>5. /\ Done(reader) \in Session /\ Done(reader).op = "done" /\ Done(reader).buf = reader.buf
      /\ Done(reader).head = reader.head /\ Done(reader).chunks = reader.chunks
      /\ Done(reader).stale = reader.stale
  BY <1>2, Finished
<1> HIDE DEF a
<1>6. reader' = IF EndOfStream /\ reader.op = "end" THEN Done(reader) ELSE a
  BY <1>1 DEF a
<1>7. /\ reader' \in Session /\ reader'.buf = reader.buf /\ reader'.head = reader.head
      /\ reader'.chunks = reader.chunks /\ reader'.stale = reader.stale
      /\ reader'.op = IF EndOfStream /\ reader.op = "end" THEN "done" ELSE op
  BY <1>4, <1>5, <1>6, Zenon
<1> HIDE DEF Session
<1>8. Sound(reader')
  BY <1>2, <1>3, <1>7 DEF Sound
<1> QED
  BY <1>1, <1>3, <1>7, <1>8 DEF Weight

\* What a handler leaves of r.
After(s, r) ==
  /\ Sound(s) /\ s.stale = r.stale /\ s.op \notin {"none", "header", "no_header"}
  /\ Weight(s) <= Weight(r)
  /\ s.op = "too_large" => Weight(s) >= MaxSize
  /\ s.op = "thrown" => Unallocatable(s.length)

LEMMA Weights ==
  ASSUME NEW r \in Session
  PROVE  /\ Weight(r) = Len(r.buf) + Len(r.chunks) /\ Weight(r) \in Nat
         /\ Len(r.buf) \in Nat /\ Len(r.chunks) \in Nat
<1>1. r.buf \in Bytes /\ r.chunks \in Bytes
  BY DEF Session
<1> QED
  <2> DEFINE b == Len(r.buf)
             c == Len(r.chunks)
  <2>1. b \in Nat /\ c \in Nat
    BY <1>1, Length
  <2>2. Weight(r) = b + c
    BY DEF Weight
  <2> HIDE DEF b, c
  <2>3. Weight(r) \in Nat
    BY <2>1, <2>2
  <2> QED
    BY <2>1, <2>2, <2>3 DEF b, c

\* The same bytes in the buffer.
LEMMA SameWeight ==
  ASSUME Sizes, NEW r \in Session, NEW s \in Session, s.stale = r.stale,
         s.buf = r.buf, s.chunks = r.chunks, Len(r.buf) <= MaxSize, Len(r.chunks) < MaxSize,
         s.op \notin {"none", "header", "no_header", "chunk"},
         s.op = "too_large" => Weight(r) >= MaxSize,
         s.op = "thrown" => Unallocatable(s.length)
  PROVE  After(s, r)
<1>1. Weight(s) = Weight(r)
  BY DEF Weight
<1>2. Weight(r) \in Nat
  BY Weights, Zenon
<1>3. Weight(s) <= Weight(r)
  BY <1>1, <1>2
<1> HIDE DEF Session, Weight
<1>4. Sound(s)
  BY DEF Sound
<1> QED
  BY <1>1, <1>3, <1>4, Zenon DEF After

LEMMA ChunkSound ==
  ASSUME Sizes, NEW r \in Session, Len(r.buf) <= MaxSize, Len(r.chunks) < MaxSize,
         ~Unallocatable(r.length) => r.length + 2 <= Len(r.buf)
  PROVE  After(Chunk(r), r)
<1>1. CASE Unallocatable(r.length)
  <2> DEFINE s == [r EXCEPT !.op = "thrown"]
  <2>1. Chunk(r) = s
    BY <1>1, Zenon DEF Chunk
  <2>2. /\ s \in Session /\ s.op = "thrown" /\ s.buf = r.buf /\ s.chunks = r.chunks
        /\ s.length = r.length /\ s.stale = r.stale
    BY OpSet DEF Ops
  <2> HIDE DEF s
  <2>3. After(s, r)
    BY <1>1, <2>2, SameWeight
  <2> QED
    BY <2>1, <2>3
<1>2. SUFFICES ASSUME ~Unallocatable(r.length) PROVE After(Chunk(r), r)
  BY <1>1
<1> DEFINE all == r.chunks \o Take(r.buf, r.length)
           rest == Drop(r.buf, r.length + 2)
           s == Chunk(r)
<1>3. /\ all \in Bytes /\ Len(all) = Len(r.chunks) + r.length
      /\ rest \in Bytes /\ Len(rest) = Len(r.buf) - (r.length + 2)
      /\ s \in Session /\ s.stale = r.stale
      /\ r.length > 0 /\ Len(all) >= MaxSize =>
           s.op = "too_large" /\ s.buf = r.buf /\ s.chunks = r.chunks
      /\ r.length > 0 /\ ~(Len(all) >= MaxSize) =>
           s.op = "line" /\ s.buf = rest /\ s.chunks = all
      /\ r.length = 0 => s.op = "done" /\ s.buf = rest \o all /\ s.chunks = <<>>
  BY <1>2, ChunkTaken, Zenon
<1>4. r.length \in Nat /\ MaxSize \in Nat /\ MaxSize > 0
  BY DEF Session, Sizes
<1>5. Weight(r) = Len(r.buf) + Len(r.chunks) /\ Len(r.buf) \in Nat /\ Len(r.chunks) \in Nat
  BY Weights
<1>6. Weight(s) = Len(s.buf) + Len(s.chunks)
  BY <1>3, Weights
<1> DEFINE b == Len(r.buf)
           c == Len(r.chunks)
           n == r.length
           w == Weight(s)
           v == Weight(r)
<1> HIDE DEF all, rest, s, Session
<1>7. CASE n > 0 /\ Len(all) >= MaxSize
  <2>1. s.op = "too_large" /\ s.buf = r.buf /\ s.chunks = r.chunks
    BY <1>3, <1>7
  <2>2. c + n >= MaxSize /\ n + 2 <= b
    BY <1>3, <1>7, <1>2
  <2>3. v = b + c /\ b \in Nat /\ c \in Nat /\ n \in Nat
    BY <1>4, <1>5
  <2> HIDE DEF b, c, n, v
  <2>4. v >= MaxSize
    BY <1>4, <2>2, <2>3
  <2> USE DEF b, c, n, v
  <2> QED
    BY <1>3, <2>1, <2>4, SameWeight DEF s
<1>8. CASE n > 0 /\ ~(Len(all) >= MaxSize)
  <2>1. s.op = "line" /\ s.buf = rest /\ s.chunks = all
    BY <1>3, <1>8
  <2>2. Len(all) = c + n /\ Len(rest) = b - (n + 2) /\ n + 2 <= b
    BY <1>3, <1>2
  <2>3. v = b + c /\ b \in Nat /\ c \in Nat /\ n \in Nat /\ b <= MaxSize
    BY <1>4, <1>5
  <2>4. w = Len(rest) + Len(all)
    BY <1>6, <2>1
  <2> HIDE DEF b, c, n, v, w
  <2>5. w <= v /\ Len(all) < MaxSize /\ Len(rest) <= MaxSize
    <3> DEFINE x == Len(all)
               y == Len(rest)
    <3>1. x = c + n /\ y = b - (n + 2) /\ w = y + x /\ ~(x >= MaxSize)
      BY <1>8, <2>2, <2>4 DEF n
    <3> HIDE DEF x, y
    <3>2. w <= v /\ x < MaxSize /\ y <= MaxSize
      BY <1>4, <2>2, <2>3, <3>1
    <3> QED
      BY <3>2 DEF x, y
  <2>6. Sound(s)
    BY <1>3, <2>1, <2>5 DEF Sound
  <2> USE DEF v, w
  <2> QED
    BY <1>3, <2>1, <2>5, <2>6 DEF After, s
<1>9. CASE ~(n > 0)
  <2>1. n = 0 /\ s.op = "done" /\ s.buf = rest \o all /\ s.chunks = <<>>
    BY <1>3, <1>4, <1>9
  <2>2. Len(all) = c + n /\ Len(rest) = b - (n + 2) /\ n + 2 <= b
    BY <1>3, <1>2
  <2>3. v = b + c /\ b \in Nat /\ c \in Nat /\ n \in Nat /\ b <= MaxSize
    BY <1>4, <1>5
  <2>4. w = Len(rest \o all) + Len(<<>>) /\ Len(<<>>) = 0
    BY <1>6, <2>1, NoBytes
  <2>5. Len(rest \o all) = Len(rest) + Len(all)
    BY <1>3, Joint, Zenon
  <2>6. w <= v
    <3> DEFINE x == Len(all)
               y == Len(rest)
               z == Len(<<>>)
    <3>1. x = c + n /\ y = b - (n + 2) /\ w = (y + x) + z /\ z = 0
      BY <2>2, <2>4, <2>5
    <3> HIDE DEF x, y, z, b, c, n, v, w
    <3>2. w <= v
      BY <1>4, <2>1, <2>2, <2>3, <3>1
    <3> QED
      BY <3>2
  <2>7. Sound(s)
    BY <1>3, <1>4, <2>1, NoBytes DEF Sound
  <2> QED
    BY <1>3, <2>1, <2>6, <2>7 DEF After, s
<1> QED
  BY <1>7, <1>8, <1>9

LEMMA AfterHeaderSound ==
  ASSUME Sizes, NEW r \in Session, Len(r.buf) <= MaxSize, Len(r.chunks) < MaxSize, NEW field
  PROVE  LET s == AfterHeader(r, field) IN
         After(s, r) /\ s \in Session /\ s.buf = r.buf /\ s.head = r.head /\ s.chunks = r.chunks
<1> DEFINE Fine(s) == After(s, r) /\ s \in Session /\ s.buf = r.buf /\ s.head = r.head
                      /\ s.chunks = r.chunks
<1>1. ASSUME NEW s \in Session, s.stale = r.stale, s.buf = r.buf, s.head = r.head,
             s.chunks = r.chunks, s.op \in {"content", "line", "end", "done"}
      PROVE  Fine(s)
  BY <1>1, SameWeight
<1>2. Fine(Done(r))
  BY <1>1, Finished
<1>3. Fine([r EXCEPT !.op = "line"]) /\ Fine([r EXCEPT !.op = "end"])
  <2>1. "line" \in Ops /\ "end" \in Ops
    BY DEF Ops, Waiting, Until
  <2> HIDE DEF Fine
  <2> QED
    BY <1>1, <2>1, OpSet
<1>4. ASSUME IsNumber(field) PROVE Fine(ReadContent(r, Value(field)))
  <2> DEFINE n == Value(field)
  <2>1. n \in Nat /\ Len(r.buf) \in Nat
    BY <1>4, Symbols, Weights DEF Numbers
  <2>2. "content" \in Ops
    BY DEF Ops, Waiting, Exactly
  <2> HIDE DEF n, Fine
  <2>3. CASE n > Len(r.buf)
    <3> DEFINE s == ReadExactly(r, "content", n, Done(r))
    <3>1. /\ s \in Session /\ s.op = "content" /\ s.buf = r.buf
          /\ s.head = r.head /\ s.chunks = r.chunks /\ s.stale = r.stale
      BY <2>1, <2>2, <2>3, MoreAsked
    <3>2. ReadContent(r, Value(field)) = s
      BY DEF ReadContent, n
    <3> HIDE DEF s
    <3>3. Fine(s)
      BY <1>1, <3>1
    <3> QED
      BY <3>2, <3>3
  <2>4. CASE ~(n > Len(r.buf))
    BY <1>2, <2>4, Zenon DEF ReadContent, ReadExactly, n
  <2> QED
    BY <2>3, <2>4
<1> HIDE DEF Fine
<1>5. Fine(AfterHeader(r, field))
  BY <1>2, <1>3, <1>4, Zenon DEF AfterHeader
<1> QED
  BY <1>5 DEF Fine

LEMMA EndInBuffer ==
  ASSUME NEW s \in Bytes, NEW d \in Bytes, EndOf(d, s) > 0
  PROVE  /\ EndOf(d, s) \in 0..Len(s) /\ Drop(s, EndOf(d, s)) \in Bytes
         /\ Len(Drop(s, EndOf(d, s))) = Len(s) - EndOf(d, s)
         /\ Len(Drop(s, EndOf(d, s))) <= Len(s)
         /\ Take(s, EndOf(d, s)) \in Bytes
<1> DEFINE e == EndOf(d, s)
           n == Len(s)
<1>1. e \in Len(d)..Len(s)
  BY DelimiterEnds, Zenon
<1>2. Len(d) \in Nat /\ n \in Nat
  BY Length
<1> HIDE DEF e
<1>3. e \in 0..Len(s)
  BY <1>1, <1>2
<1>4. /\ Drop(s, e) \in Bytes /\ Len(Drop(s, e)) = n - e /\ Take(s, e) \in Bytes
  BY <1>3, TakeDrop
<1>5. Len(Drop(s, e)) <= n
  <2> HIDE DEF n
  <2>1. e \in 0..n
    BY <1>3 DEF n
  <2>2. \A x : x = n - e => x <= n
    BY <1>2, <2>1
  <2> QED
    BY <1>4, <2>2, Zenon
<1> QED
  BY <1>3, <1>4, <1>5 DEF e, n

LEMMA Malformed ==
  ASSUME Sizes, Sound(reader), reader.op \in Until
  PROVE  After([reader EXCEPT !.op = "malformed"], reader)
         /\ [reader EXCEPT !.op = "malformed"].op = "malformed"
<1> DEFINE s == [reader EXCEPT !.op = "malformed"]
<1>1. reader \in Session /\ Len(reader.buf) <= MaxSize /\ Len(reader.chunks) < MaxSize
  BY DEF Sound, Until
<1>2. "malformed" \in Ops
  BY DEF Ops
<1>3. /\ s \in Session /\ s.op = "malformed" /\ s.buf = reader.buf /\ s.chunks = reader.chunks
      /\ s.stale = reader.stale
  BY <1>1, <1>2, OpSet
<1> HIDE DEF s
<1> QED
  BY <1>1, <1>3, SameWeight DEF s

LEMMA AfterThat ==
  ASSUME NEW r \in Session, NEW t \in Session, NEW s, After(s, t), t.stale = r.stale,
         Len(t.buf) <= Len(r.buf), t.chunks = r.chunks
  PROVE  After(s, r)
<1> DEFINE b == Len(r.buf)
           c == Len(r.chunks)
           x == Len(t.buf)
           v == Weight(r)
           w == Weight(t)
           u == Weight(s)
<1>1. v = b + c /\ b \in Nat /\ c \in Nat /\ w = x + c /\ x \in Nat /\ x <= b
  BY Weights
<1>2. u <= w /\ u \in Nat
  BY Weights DEF After, Sound
<1> HIDE DEF b, c, x, v, w, u
<1>3. u <= v
  BY <1>1, <1>2
<1> QED
  BY <1>3 DEF u, v, After

\* The handlers of a read (server_http.hpp:503-668, client_http.hpp:465-637) keep what is
\* sound of a Session, for any bytes that came: no body reaches the limit without being
\* refused, none is refused below it, and a handler throws only for a length to which no 2
\* can be added (server_http.hpp:611, 643).
THEOREM HandlersSound ==
  ASSUME Sizes, Sound(reader), Handlers
  PROVE  After(reader', reader) /\ wire' = wire /\ reader.op \in Waiting
<1>1. /\ reader \in Session /\ reader.buf \in Bytes /\ Len(reader.chunks) < MaxSize
      /\ reader.op # "done" => Len(reader.buf) <= MaxSize
      /\ reader.op = "chunk" =>
           reader.need + Len(reader.buf) = WithCRLF(reader.length) /\ reader.length \in Numbers
  BY DEF Sound, Session
<1>2. MaxSize \in Nat /\ Len(reader.buf) \in Nat /\ reader.length \in Nat
  BY <1>1, Length DEF Sizes, Session
<1>3. CASE HeaderRead
  <2> DEFINE end == EndOf(BlankLine, reader.buf)
             head == Take(reader.buf, end)
             rest == Drop(reader.buf, end)
             left == [reader EXCEPT !.buf = rest]
             read == [left EXCEPT !.head = head]
  <2>1. reader.op = "header" /\ end > 0 /\ wire' = wire
    BY <1>3, Zenon DEF HeaderRead
  <2>2. head \in Bytes /\ rest \in Bytes /\ Len(rest) <= Len(reader.buf)
    BY <1>1, <2>1, EndInBuffer, EndOfLine, Zenon
  <2>3. \/ reader' = [reader EXCEPT !.op = "malformed"]
        \/ \E field : reader' = AfterHeader(read, field)
    BY <1>3 DEF HeaderRead
  <2> HIDE DEF head, rest, end
  <2>10. /\ left \in Session /\ left.op = reader.op /\ left.buf = rest
         /\ left.chunks = reader.chunks /\ left.stale = reader.stale
    BY <1>1, <2>2, BufSet
  <2> HIDE DEF left
  <2>4. read \in Session /\ read.buf = rest /\ read.chunks = reader.chunks /\ read.stale = reader.stale
    BY <2>2, <2>10, HeadSet
  <2> HIDE DEF read
  <2>5. Len(read.buf) <= MaxSize /\ Len(read.buf) <= Len(reader.buf)
    <3>1. Len(read.buf) \in Nat /\ Len(read.buf) <= Len(reader.buf) /\ Len(reader.buf) <= MaxSize
      BY <1>1, <2>1, <2>2, <2>4, Weights
    <3> QED
      BY <1>2, <3>1
  <2>6. ASSUME NEW field PROVE After(AfterHeader(read, field), read)
    BY <1>1, <2>4, <2>5, AfterHeaderSound, Zenon
  <2>7. ASSUME NEW field PROVE After(AfterHeader(read, field), reader)
    BY <1>1, <2>4, <2>5, <2>6, AfterThat, Zenon
  <2>8. After([reader EXCEPT !.op = "malformed"], reader)
    BY <2>1, Malformed DEF Until
  <2> QED
    BY <2>1, <2>3, <2>7, <2>8, Zenon DEF Waiting, Until
<1>4. CASE ContentRead
  <2>1. reader.op = "content" /\ reader' = Done(reader) /\ wire' = wire
    BY <1>4 DEF ContentRead
  <2>2. After(Done(reader), reader)
    BY <1>1, <2>1, Finished, SameWeight
  <2> QED
    BY <2>1, <2>2 DEF Waiting, Exactly
<1>5. CASE LineRead
  <2> DEFINE end == EndOf(CRLF, reader.buf)
             rest == Drop(reader.buf, end)
             n == Value(reader.buf[1])
             left == [reader EXCEPT !.buf = rest]
             read == [left EXCEPT !.length = n]
             size == WithCRLF(n)
  <2>1. /\ reader.op = "line" /\ end > 0 /\ wire' = wire
        /\ IF IsNumber(reader.buf[1])
           THEN reader' = ReadExactly(read, "chunk", WithCRLF(read.length), Chunk(read))
           ELSE reader' = [reader EXCEPT !.op = "malformed"]
    BY <1>5, Zenon DEF LineRead
  <2>2. rest \in Bytes /\ Len(rest) <= Len(reader.buf)
    BY <1>1, <2>1, EndInBuffer, EndOfLine, Zenon
  <2>3. CASE IsNumber(reader.buf[1])
    <3>1. /\ n \in Numbers /\ n \in Nat /\ size \in Nat
          /\ ~Unallocatable(n) => size = n + 2
      <4>1. n \in Numbers
        BY <2>3, Symbols
      <4>2. Len(Digits) \in Nat
        BY Symbols
      <4> HIDE DEF n
      <4>3. n \in Nat
        BY <4>1, <4>2 DEF Numbers
      <4> QED
        BY <4>1, <4>3, Wrapped
    <3> HIDE DEF rest, n, size
    <3>7. /\ left \in Session /\ left.buf = rest /\ left.chunks = reader.chunks
          /\ left.stale = reader.stale
      BY <1>1, <2>2, BufSet
    <3> HIDE DEF left
    <3>2. /\ read \in Session /\ read.buf = rest /\ read.chunks = reader.chunks
          /\ read.stale = reader.stale /\ read.length = n
      BY <3>1, <3>7, LengthSet
    <3> HIDE DEF read
    <3>3. reader' = ReadExactly(read, "chunk", size, Chunk(read))
      BY <2>1, <2>3, <3>2, Zenon DEF size
    <3>4. Len(read.buf) <= MaxSize /\ Len(read.buf) <= Len(reader.buf) /\ Len(read.buf) \in Nat
      <4>1. Len(read.buf) \in Nat /\ Len(read.buf) <= Len(reader.buf) /\ Len(reader.buf) <= MaxSize
        BY <1>1, <2>1, <2>2, <3>2, Weights
      <4> QED
        BY <1>2, <4>1
    <3>5. CASE size > Len(read.buf)
      <4> DEFINE s == ReadExactly(read, "chunk", size, Chunk(read))
      <4>1. "chunk" \in Ops
        BY DEF Ops, Waiting, Exactly
      <4>2. /\ s \in Session /\ s.op = "chunk" /\ s.need = size - Len(read.buf)
            /\ s.buf = read.buf /\ s.length = n /\ s.chunks = read.chunks /\ s.stale = read.stale
        BY <3>1, <3>2, <3>5, <4>1, MoreAsked
      <4> HIDE DEF s
      <4>3. s.need + Len(s.buf) = WithCRLF(s.length)
        <5>1. s.need + Len(s.buf) = size
          BY <3>1, <3>4, <4>2
        <5> QED
          BY <4>2, <5>1 DEF size
      <4>4. Sound(s)
        BY <1>1, <3>1, <3>2, <3>4, <4>2, <4>3 DEF Sound
      <4>5. Weight(s) = Weight(read) /\ Weight(read) \in Nat
        BY <3>2, <4>2, Weights, Zenon DEF Weight
      <4>6. Weight(s) <= Weight(read)
        BY <4>5
      <4>7. After(s, read)
        BY <3>2, <4>2, <4>4, <4>6 DEF After
      <4>8. After(s, reader)
        BY <1>1, <3>2, <3>4, <4>7, AfterThat, Zenon
      <4> QED
        BY <2>1, <3>3, <4>8 DEF s, Waiting, Until
    <3>6. CASE ~(size > Len(read.buf))
      <4>1. reader' = Chunk(read)
        BY <3>3, <3>6, Zenon DEF ReadExactly
      <4>2. ~Unallocatable(read.length) => read.length + 2 <= Len(read.buf)
        BY <3>1, <3>2, <3>4, <3>6
      <4>3. After(Chunk(read), read)
        BY <1>1, <3>2, <3>4, <4>2, ChunkSound
      <4>4. After(Chunk(read), reader)
        BY <1>1, <3>2, <3>4, <4>3, AfterThat, Zenon
      <4> QED
        BY <2>1, <4>1, <4>4 DEF Waiting, Until
    <3> QED
      BY <3>5, <3>6
  <2>4. CASE ~IsNumber(reader.buf[1])
    <3>1. After([reader EXCEPT !.op = "malformed"], reader)
      BY <2>1, Malformed DEF Until
    <3> QED
      BY <2>1, <2>4, <3>1 DEF Waiting, Until
  <2> QED
    BY <2>3, <2>4
<1>6. CASE ChunkRead
  <2>1. reader.op = "chunk" /\ reader.need = 0 /\ reader' = Chunk(reader) /\ wire' = wire
    BY <1>6 DEF ChunkRead
  <2>2. /\ ~Unallocatable(reader.length) => reader.length + 2 <= Len(reader.buf)
        /\ Len(reader.buf) <= MaxSize
    BY <1>1, <1>2, <2>1, Wrapped
  <2>3. After(Chunk(reader), reader)
    BY <1>1, <2>2, ChunkSound
  <2> QED
    BY <2>1, <2>3 DEF Waiting, Exactly
<1>7. CASE Refuse
  <2>1. reader.op \in Waiting /\ Full(reader) /\ reader' = TooLarge(reader) /\ wire' = wire
    BY <1>7 DEF Refuse
  <2>2. Len(reader.buf) = MaxSize
    BY <2>1 DEF Full
  <2>3. Weight(reader) >= MaxSize
    <3> DEFINE b == Len(reader.buf)
               c == Len(reader.chunks)
               v == Weight(reader)
    <3>1. v = b + c /\ b \in Nat /\ c \in Nat /\ b = MaxSize
      BY <1>1, <2>2, Weights
    <3> HIDE DEF b, c, v
    <3>2. v >= MaxSize
      BY <3>1
    <3> QED
      BY <3>2 DEF v
  <2>4. Len(reader.buf) <= MaxSize
    BY <1>2, <2>2
  <2>5. After(TooLarge(reader), reader)
    BY <1>1, <2>3, <2>4, Finished, SameWeight
  <2> QED
    BY <2>1, <2>5
<1> QED
  BY <1>3, <1>4, <1>5, <1>6, <1>7 DEF Handlers

-----------------------------------------------------------------------------
(* A read of one message *)

\* The chunk after the first k, the last one after all; what is read with k of them.
Data(m, k) == IF k < Len(m.chunks) THEN m.chunks[k + 1] ELSE <<>>
Behind(m, k) == Joined(ChunkTexts(m))[k]
Gathered(m, k) == Joined(m.chunks)[k]
\* y follows that chunk.
Follows(m, k, y) == IF k < Len(m.chunks) THEN Behind(m, k + 1) \o y = Body(m) ELSE y = <<>>

\* r reads m, and the bytes ahead have yet to come into its buffer.
Reads(r, m, ahead) ==
  /\ r.op = "header" => r.buf \o ahead = Wire(m)
  /\ r.op = "content" =>
       /\ m.framing = "length" /\ r.head = Header(m) /\ r.buf \o ahead = Content(m)
       /\ r.need + Len(r.buf) = Len(Content(m))
  /\ r.op = "line" =>
       /\ m.framing = "chunked" /\ r.head = Header(m)
       /\ \E k \in 0..Len(m.chunks) :
            r.chunks = Gathered(m, k) /\ Behind(m, k) \o (r.buf \o ahead) = Body(m)
  /\ r.op = "chunk" =>
       /\ m.framing = "chunked" /\ r.head = Header(m)
       /\ \E k \in 0..Len(m.chunks), y \in Bytes :
            /\ r.chunks = Gathered(m, k) /\ r.length = Len(Data(m, k))
            /\ r.buf \o ahead = Data(m, k) \o (CRLF \o y) /\ Follows(m, k, y)
  /\ r.op = "end" =>
       m.framing = "close" /\ r.head = Header(m) /\ r.buf \o ahead = Content(m)
  /\ r.op = "done" =>
       /\ r.head = Header(m) /\ r.buf \o ahead = Content(m) /\ Len(r.buf) < MaxSize
       /\ m.framing # "close" => ahead = <<>>
  /\ r.op \notin {"malformed", "thrown"}

\* A chunk that is announced fits in an array, and so does the last one, which is empty.
LEMMA DataFits ==
  ASSUME Sizes, NEW m, Good(m), m.framing = "chunked", NEW k \in 0..Len(m.chunks)
  PROVE  ~Unallocatable(Len(Data(m, k)))
<1>1. m.chunks \in Texts /\ Len(m.chunks) \in Nat
  BY ChunkTextsType, JoinedRun
<1>2. \A i \in 1..Len(m.chunks) : ~Unallocatable(Len(m.chunks[i]))
  <2>1. DOMAIN m.chunks = 1..Len(m.chunks)
    BY <1>1, LenProperties DEF Texts
  <2> QED
    BY <2>1 DEF Good, Announced
<1>3. CASE k < Len(m.chunks)
  <2>1. k + 1 \in 1..Len(m.chunks)
    BY <1>1, <1>3
  <2> QED
    BY <1>2, <1>3, <2>1, Zenon DEF Data
<1>4. CASE ~(k < Len(m.chunks))
  <2>1. Len(Data(m, k)) = 0
    BY <1>4, NoBytes DEF Data
  <2> QED
    BY <2>1, Wrapped
<1> QED
  BY <1>3, <1>4

LEMMA NextChunk ==
  ASSUME Sizes, NEW m, Good(m), m.framing = "chunked", NEW k \in 0..Len(m.chunks),
         NEW x \in Bytes, Behind(m, k) \o x = Body(m)
  PROVE  /\ Data(m, k) \in Bytes /\ Len(Data(m, k)) \in Numbers
         /\ k < Len(m.chunks) <=> Len(Data(m, k)) # 0
         /\ \E y \in Bytes : /\ Follows(m, k, y)
              /\ x = <<Digit(Len(Data(m, k)))>> \o (CRLF \o (Data(m, k) \o (CRLF \o y)))
<1> DEFINE t == ChunkTexts(m)
           n == Len(m.chunks)
           d == Data(m, k)
           end == ChunkOf(<<>>)
<1>1. /\ m.chunks \in Texts /\ t \in Texts /\ Len(t) = n
      /\ \A i \in 1..n : /\ m.chunks[i] \in Bytes /\ Len(m.chunks[i]) \in Numbers \ {0}
                         /\ t[i] = ChunkOf(m.chunks[i])
  BY ChunkTextsType, Zenon
<1>2. n \in Nat /\ k \in Nat
  BY <1>1, JoinedRun
<1>3. d \in Bytes /\ Len(d) \in Numbers /\ (k < n <=> Len(d) # 0)
  <2>1. CASE k < n
    <3>1. k + 1 \in 1..n
      BY <1>2, <2>1
    <3> QED
      BY <1>1, <2>1, <3>1 DEF Data
  <2>2. CASE ~(k < n)
    BY <2>2, NoBytes, Symbols DEF Data
  <2> QED
    BY <2>1, <2>2
<1>4. Body(m) = FlattenSeq(t) \o end
  BY DEF Body
<1>5. end \in Bytes
  BY NoBytes, Symbols, ChunkType
<1>6. FlattenSeq(t) \in Bytes /\ Behind(m, k) \in Bytes
  BY <1>1, FlattenType, JoinedType DEF Behind
<1>7. \E y \in Bytes : x = ChunkOf(d) \o y /\ Follows(m, k, y)
  <2>1. CASE k < n
    <3>1. k \in 0..Len(t) - 1
      BY <1>1, <1>2, <2>1
    <3>2. /\ k + 1 \in 0..Len(t) /\ t[k + 1] \in Bytes /\ Joined(t)[k + 1] \in Bytes
          /\ Joined(t)[k + 1] = Joined(t)[k] \o t[k + 1]
      BY <1>1, <3>1, JoinedNext
    <3>3. d = m.chunks[k + 1] /\ k + 1 \in 1..n
      BY <1>2, <2>1 DEF Data
    <3>4. t[k + 1] = ChunkOf(d)
      BY <1>1, <3>3
    <3>5. PICK z \in Bytes : FlattenSeq(t) = Joined(t)[k + 1] \o z
      BY <1>1, <3>2, JoinedInFront
    <3> DEFINE c == t[k + 1]
               y == z \o end
               b == Joined(t)[k]
               a == Joined(t)[k + 1]
    <3>6. b \in Bytes /\ c \in Bytes /\ a \in Bytes /\ y \in Bytes
      BY <1>5, <1>6, <3>2, Joint DEF Behind
    <3>7. a = b \o c /\ FlattenSeq(t) = a \o z /\ b = Behind(m, k)
      BY <3>2, <3>5 DEF Behind
    <3> HIDE DEF a, b, c
    <3>8. (a \o z) \o end = a \o (z \o end)
      <4>1. Cat(Cat(a, z), end) = Cat(a, Cat(z, end))
        BY <1>5, <3>6, Cats
      <4> QED
        BY <4>1, Zenon DEF Cat
    <3>9. Body(m) = a \o y
      BY <1>4, <3>7, <3>8, Zenon
    <3> HIDE DEF y
    <3>10. (b \o c) \o y = b \o (c \o y)
      <4>1. Cat(Cat(b, c), y) = Cat(b, Cat(c, y))
        BY <3>6, Cats
      <4> QED
        BY <4>1, Zenon DEF Cat
    <3>11. b \o x = b \o (c \o y)
      BY <3>7, <3>9, <3>10, Zenon
    <3>12. c \o y \in Bytes
      BY <3>6, Joint
    <3>13. x = c \o y
      BY <3>6, <3>11, <3>12, CancelFront, Zenon
    <3>14. Follows(m, k, y)
      <4>1. Behind(m, k + 1) = a
        BY DEF Behind, a
      <4> QED
        BY <2>1, <3>9, <4>1, Zenon DEF Follows
    <3> QED
      BY <3>4, <3>6, <3>13, <3>14, Zenon DEF c
  <2>2. CASE ~(k < n)
    <3>1. k = Len(t)
      BY <1>1, <1>2, <2>2
    <3>2. Behind(m, k) = FlattenSeq(t)
      BY <1>1, <3>1, JoinedRun DEF Behind
    <3>3. x = end
      BY <1>4, <1>5, <1>6, <3>2, CancelFront, Zenon
    <3>4. d = <<>>
      BY <2>2 DEF Data
    <3>5. end \o <<>> = end
      BY <1>5, WithNothing, Zenon
    <3>6. x = ChunkOf(d) \o <<>> /\ Follows(m, k, <<>>)
      BY <2>2, <3>3, <3>4, <3>5, Zenon DEF Follows
    <3> QED
      BY <3>6, NoBytes, Zenon
  <2> QED
    BY <2>1, <2>2
<1>8. \A y \in Bytes : ChunkOf(d) \o y = <<Digit(Len(d))>> \o (CRLF \o (d \o (CRLF \o y)))
  BY <1>3, ChunkType, Zenon
<1> QED
  BY <1>3, <1>7, <1>8, Zenon

\* The rest of a message is in the buffer when nothing is needed any more.
LEMMA NothingAhead ==
  ASSUME NEW b \in Bytes, NEW x \in Bytes, Len(b \o x) <= Len(b)
  PROVE  x = <<>>
<1> DEFINE p == Len(b)
           q == Len(x)
           r == Len(b \o x)
<1>1. p \in Nat /\ q \in Nat /\ r <= p
  BY Length
<1>2. r = p + q
  BY Joint, Zenon
<1> HIDE DEF p, q, r
<1>3. q = 0
  BY <1>1, <1>2
<1> QED
  BY <1>3, Length DEF q

\* However few of the bytes that are on their way arrive at once, the Session stays one that
\* reads this message: what is left to come is what follows in it.
THEOREM ReadsOn ==
  ASSUME Sizes, wire \in Bytes, Sound(reader), NEW most \in Nat, Receive(most),
         NEW m, NEW u \in Bytes, Reads(reader, m, wire \o u)
  PROVE  Reads(reader', m, wire' \o u)
<1>1. PICK n \in 1..Len(wire) :
        /\ wire' = Drop(wire, n) /\ wire' \in Bytes
        /\ Take(wire, n) \in Bytes /\ Take(wire, n) \o Drop(wire, n) = wire
        /\ reader' \in Session /\ reader'.op = reader.op /\ reader'.head = reader.head
        /\ reader'.buf = reader.buf \o Take(wire, n) /\ reader'.buf \in Bytes
        /\ Len(reader'.buf) = Len(reader.buf) + n
        /\ reader'.need = IF reader.op \in Exactly THEN reader.need - n ELSE reader.need
        /\ reader'.length = reader.length /\ reader'.chunks = reader.chunks
  BY Delivered, Zenon
<1>2. reader.buf \in Bytes /\ reader.need \in Nat /\ reader.op \in Waiting
  BY DEF Receive, Sound, Session
<1>3. reader'.buf \o (wire' \o u) = reader.buf \o (wire \o u)
  <2> DEFINE b == reader.buf
             t == Take(wire, n)
             v == wire'
  <2>1. b \in Bytes /\ t \in Bytes /\ v \in Bytes
    BY <1>1, <1>2
  <2>2. Cat(t, v) = wire /\ reader'.buf = Cat(b, t)
    BY <1>1 DEF Cat
  <2> HIDE DEF b, t, v
  <2>3. Cat(reader'.buf, Cat(v, u)) = Cat(b, Cat(wire, u))
    BY <2>1, <2>2, Cats
  <2> QED
    BY <2>3 DEF Cat, b, v
<1> DEFINE x == reader.buf \o (wire \o u)
           y == reader'.buf \o (wire' \o u)
<1>4. x = y
  BY <1>3
<1>5. reader.op = "content" => reader'.need + Len(reader'.buf) = reader.need + Len(reader.buf)
  <2> DEFINE b == Len(reader.buf)
             v == Len(reader'.buf)
  <2>1. b \in Nat /\ v = b + n /\ n \in Int
    <3>1. b \in Nat
      BY <1>2, Length
    <3>2. v = b + n
      BY <1>1
    <3>3. n \in Int
      OBVIOUS
    <3> QED
      BY <3>1, <3>2, <3>3
  <2> HIDE DEF b, v
  <2>2. reader.op = "content" => reader'.need + v = reader.need + b
    BY <1>1, <1>2, <2>1 DEF Exactly
  <2> QED
    BY <2>2 DEF b, v
<1>6. reader.op # "done"
  BY <1>2 DEF Waiting, Until, Exactly
<1> HIDE DEF x, y
<1>7. /\ reader'.op = reader.op /\ reader'.head = reader.head /\ reader'.chunks = reader.chunks
      /\ reader'.length = reader.length
  BY <1>1
<1>8. /\ reader.op = "header" => y = Wire(m)
      /\ reader.op = "content" => m.framing = "length" /\ reader.head = Header(m) /\ y = Content(m)
           /\ reader.need + Len(reader.buf) = Len(Content(m))
      /\ reader.op = "line" => m.framing = "chunked" /\ reader.head = Header(m)
           /\ \E k \in 0..Len(m.chunks) :
                reader.chunks = Gathered(m, k) /\ Behind(m, k) \o y = Body(m)
      /\ reader.op = "chunk" => m.framing = "chunked" /\ reader.head = Header(m)
           /\ \E k \in 0..Len(m.chunks), z \in Bytes :
                /\ reader.chunks = Gathered(m, k) /\ reader.length = Len(Data(m, k))
                /\ y = Data(m, k) \o (CRLF \o z) /\ Follows(m, k, z)
      /\ reader.op = "end" =>
           m.framing = "close" /\ reader.head = Header(m) /\ y = Content(m)
      /\ reader.op \notin {"malformed", "thrown"}
  <2>1. Reads(reader, m, wire \o u)
    OBVIOUS
  <2>2. x = reader.buf \o (wire \o u)
    BY DEF x
  <2> QED
    BY <1>4, <2>1, <2>2, Zenon DEF Reads
<1>9. reader.op = "content" => reader'.need + Len(reader'.buf) = Len(Content(m))
  BY <1>5, <1>8, Zenon
<1>10. y = reader'.buf \o (wire' \o u)
  BY DEF y
<1> QED
  BY <1>6, <1>7, <1>8, <1>9, <1>10, Zenon DEF Reads

LEMMA ReadsEnd ==
  ASSUME Sizes, wire \in Bytes, Sound(reader), EndOfStream \/ Fail,
         NEW m, NEW u \in Bytes, Reads(reader, m, wire \o u)
  PROVE  Reads(reader', m, wire' \o u)
<1>1. /\ wire' = wire /\ reader.op \in Waiting /\ ~Full(reader)
      /\ reader'.head = reader.head /\ reader'.buf = reader.buf
      /\ reader'.op = IF EndOfStream /\ reader.op = "end" THEN "done"
                      ELSE IF reader.op = "header" THEN "no_header" ELSE "failed"
  BY EndSound, Zenon
<1>2. CASE EndOfStream /\ reader.op = "end"
  <2>1. reader'.op = "done"
    BY <1>1, <1>2
  <2>2. m.framing = "close" /\ reader.head = Header(m) /\ reader.buf \o (wire \o u) = Content(m)
    BY <1>2 DEF Reads
  <2>3. Len(reader.buf) < MaxSize
    <3>1. reader.buf \in Bytes /\ Len(reader.buf) <= MaxSize /\ MaxSize \in Nat
      BY <1>2 DEF Sound, Session, Sizes
    <3>2. Len(reader.buf) \in Nat /\ Len(reader.buf) # MaxSize
      BY <1>1, <3>1, Length DEF Full
    <3> DEFINE b == Len(reader.buf)
    <3>3. b \in Nat /\ b # MaxSize /\ b <= MaxSize
      BY <3>1, <3>2
    <3> HIDE DEF b
    <3>4. b < MaxSize
      BY <3>1, <3>3
    <3> QED
      BY <3>4 DEF b
  <2> QED
    BY <1>1, <2>1, <2>2, <2>3, Zenon DEF Reads
<1>3. CASE ~(EndOfStream /\ reader.op = "end")
  <2>1. reader'.op \in {"no_header", "failed"}
    BY <1>1, <1>3
  <2> QED
    BY <2>1 DEF Reads
<1> QED
  BY <1>2, <1>3

LEMMA AfterHeaderReads ==
  ASSUME Sizes, NEW m, Good(m), NEW r \in Session, NEW ahead \in Bytes,
         r.head = Header(m), r.chunks = <<>>, Len(r.buf) < MaxSize, r.buf \o ahead = Body(m)
  PROVE  Reads(AfterHeader(r, Field(m)), m, ahead)
<1> DEFINE s == AfterHeader(r, Field(m))
<1>1. r.buf \in Bytes /\ MaxSize \in Nat /\ Len(r.buf) \in Nat
  BY Weights DEF Session, Sizes
<1>2. m.framing \in {"length", "chunked", "close", "none"}
  BY DEF Good, Message
<1>3. /\ Done(r).op = "done" /\ Done(r).buf = r.buf /\ Done(r).head = r.head
  BY Finished
<1>4. /\ \A f \in {"chunked", "close", "none"} : ~IsNumber(f)
      /\ \A n \in Numbers : IsNumber(Digit(n)) /\ Value(Digit(n)) = n
           /\ Digit(n) \notin {"chunked", "close", "none"}
  BY Symbols
<1>5. CASE m.framing = "length"
  <2> DEFINE n == Len(Content(m))
  <2>1. n \in Numbers /\ Field(m) = Digit(n)
    BY <1>5 DEF Good, Announced, Field
  <2>2. r.buf \o ahead = Content(m)
    BY <1>5 DEF Body
  <2>3. s = ReadContent(r, n)
    <3>1. IsNumber(Field(m)) /\ Value(Field(m)) = n /\ Field(m) \notin {"chunked", "close"}
      BY <1>4, <2>1
    <3> HIDE DEF n
    <3> QED
      BY <3>1, Zenon DEF AfterHeader
  <2>4. n \in Nat
    BY <2>1, Symbols DEF Numbers
  <2>5. CASE n > Len(r.buf)
    <3> DEFINE t == ReadExactly(r, "content", n, Done(r))
    <3>1. "content" \in Ops
      BY DEF Ops, Waiting, Exactly
    <3>2. t.op = "content" /\ t.need = n - Len(r.buf) /\ t.buf = r.buf /\ t.head = r.head
      BY <2>4, <2>5, <3>1, MoreAsked
    <3>3. s = t
      BY <2>3 DEF ReadContent
    <3> HIDE DEF s, t
    <3>4. s.need + Len(s.buf) = n
      <4> DEFINE b == Len(r.buf)
      <4>1. s.need = n - b /\ Len(s.buf) = b /\ b \in Nat
        BY <1>1, <3>2, <3>3
      <4> HIDE DEF b, n
      <4> QED
        BY <2>4, <4>1
    <3>5. Reads(s, m, ahead)
      <4> HIDE DEF n
      <4>1. s.op = "content" /\ s.buf = r.buf /\ s.head = Header(m)
        BY <3>2, <3>3
      <4> QED
        BY <1>5, <2>2, <3>4, <4>1, Zenon DEF Reads, n
    <3> QED
      BY <3>5 DEF s
  <2>6. CASE ~(n > Len(r.buf))
    <3>1. s = Done(r)
      BY <2>3, <2>6, Zenon DEF ReadContent, ReadExactly
    <3>2. ahead = <<>>
      <4>1. Len(r.buf \o ahead) <= Len(r.buf)
        BY <1>1, <2>2, <2>4, <2>6
      <4> QED
        BY <1>1, <4>1, NothingAhead
    <3> HIDE DEF s
    <3>3. Reads(s, m, ahead)
      BY <1>3, <2>2, <3>1, <3>2, Zenon DEF Reads
    <3> QED
      BY <3>3 DEF s
  <2> QED
    BY <2>5, <2>6
<1>6. CASE m.framing = "chunked"
  <2> DEFINE t == [r EXCEPT !.op = "line"]
  <2>1. Field(m) = "chunked" /\ ~IsNumber("chunked")
    BY <1>4, <1>6 DEF Field
  <2>2. s = t
    BY <2>1 DEF AfterHeader
  <2>3. "line" \in Ops
    BY DEF Ops, Waiting, Until
  <2>4. t.op = "line" /\ t.buf = r.buf /\ t.head = r.head /\ t.chunks = r.chunks
    BY <2>3, OpSet
  <2> HIDE DEF s, t
  <2>5. m.chunks \in Texts /\ ChunkTexts(m) \in Texts
    BY <1>6, ChunkTextsType
  <2>6. Gathered(m, 0) = <<>> /\ Behind(m, 0) = <<>> /\ Len(m.chunks) \in Nat
    BY <2>5, JoinedRun DEF Gathered, Behind
  <2>7. Behind(m, 0) \o (r.buf \o ahead) = Body(m)
    <3> DEFINE x == r.buf \o ahead
    <3>1. x \in Bytes /\ x = Body(m)
      BY BodyType
    <3> HIDE DEF x
    <3>2. <<>> \o x = x
      BY <3>1, WithNothing
    <3>3. Behind(m, 0) \o x = Body(m)
      BY <2>6, <3>1, <3>2, Zenon
    <3> QED
      BY <3>3 DEF x
  <2>8. 0 \in 0..Len(m.chunks)
    BY <2>6
  <2>9. /\ s.op = "line" /\ s.head = Header(m) /\ s.chunks = Gathered(m, 0)
        /\ Behind(m, 0) \o (s.buf \o ahead) = Body(m)
    BY <2>2, <2>4, <2>6, <2>7, Zenon
  <2>10. Reads(s, m, ahead)
    BY <1>6, <2>8, <2>9, Zenon DEF Reads
  <2> QED
    BY <2>10 DEF s
<1>7. CASE m.framing = "close"
  <2> DEFINE t == [r EXCEPT !.op = "end"]
  <2>1. Field(m) = "close" /\ ~IsNumber("close") /\ Side = "client"
    BY <1>4, <1>7 DEF Field, Good, Announced
  <2>2. s = t
    BY <2>1 DEF AfterHeader
  <2>3. "end" \in Ops
    BY DEF Ops, Waiting
  <2>4. t.op = "end" /\ t.buf = r.buf /\ t.head = r.head
    BY <2>3, OpSet
  <2>5. r.buf \o ahead = Content(m)
    BY <1>7 DEF Body
  <2> HIDE DEF s, t
  <2>6. Reads(s, m, ahead)
    BY <1>7, <2>2, <2>4, <2>5, Zenon DEF Reads
  <2> QED
    BY <2>6 DEF s
<1>8. CASE m.framing = "none"
  <2>1. Field(m) = "none" /\ ~IsNumber("none")
    BY <1>4, <1>8 DEF Field
  <2>2. s = Done(r)
    BY <2>1 DEF AfterHeader
  <2>3. r.buf \o ahead = Content(m) /\ Content(m) = <<>>
    <3>1. m.chunks = <<>>
      BY <1>8 DEF Good, Announced
    <3>2. m.chunks \in Texts
      BY ContentType DEF Good
    <3>3. FlattenSeq(m.chunks) = <<>>
      <4>1. Len(m.chunks) = 0
        BY <3>1
      <4> QED
        BY <3>2, <4>1, JoinedRun
    <3> QED
      BY <1>8, <3>3 DEF Body, Content
  <2>4. ahead = <<>>
    BY <1>1, <2>3, NothingJoined
  <2> HIDE DEF s
  <2>5. Reads(s, m, ahead)
    BY <1>3, <2>2, <2>3, <2>4, Zenon DEF Reads
  <2> QED
    BY <2>5 DEF s
<1> QED
  BY <1>2, <1>5, <1>6, <1>7, <1>8

LEMMA ChunkCut ==
  ASSUME NEW b \in Bytes, NEW x \in Bytes, NEW d \in Bytes, NEW y \in Bytes,
         Cat(b, x) = Cat(d, Cat(CRLF, y)), Len(d) + 2 <= Len(b)
  PROVE  Take(b, Len(d)) = d /\ Cat(Drop(b, Len(d) + 2), x) = y
<1> DEFINE h == Cat(d, CRLF)
<1>1. CRLF \in Bytes /\ Len(CRLF) = 2
  BY EndOfLine
<1>2. h \in Bytes /\ Len(h) = Len(d) + 2
  <2>1. Len(h) = Len(d) + Len(CRLF) /\ h \in Bytes
    BY <1>1, CatLength, Cats
  <2> QED
    BY <1>1, <2>1
<1>4. Cat(b, x) = Cat(h, y)
  BY <1>1, Cats
<1> HIDE DEF h
<1>5. PICK z \in Bytes : b = Cat(h, z) /\ y = Cat(z, x)
  <2>1. Cat(h, y) = Cat(b, x) /\ Len(h) <= Len(b)
    BY <1>2, <1>4
  <2> QED
    BY <1>2, <2>1, CatApart
<1>6. Drop(b, Len(d) + 2) = z
  <2>1. Drop(h \o z, Len(h)) = z
    BY <1>2, Apart
  <2> QED
    BY <1>2, <1>5, <2>1, Zenon DEF Cat
<1>7. Take(b, Len(d)) = d
  <2> DEFINE v == Cat(CRLF, z)
  <2>1. v \in Bytes /\ Cat(h, z) = Cat(d, v)
    BY <1>1, <1>5, Cats DEF h
  <2> HIDE DEF v
  <2>2. Take(d \o v, Len(d)) = d
    BY <2>1, Apart
  <2>3. b = d \o v
    BY <1>5, <2>1, Zenon DEF Cat
  <2> QED
    BY <2>2, <2>3, Zenon
<1> QED
  BY <1>5, <1>6, <1>7, Zenon DEF Cat

LEMMA ChunkReads ==
  ASSUME Sizes, NEW m, Good(m), m.framing = "chunked", NEW r \in Session, NEW ahead \in Bytes,
         r.head = Header(m), Len(r.chunks) < MaxSize,
         NEW k \in 0..Len(m.chunks), NEW y \in Bytes,
         r.chunks = Gathered(m, k), r.length = Len(Data(m, k)),
         r.buf \o ahead = Data(m, k) \o (CRLF \o y), Follows(m, k, y),
         Data(m, k) \in Bytes, k < Len(m.chunks) <=> Len(Data(m, k)) # 0,
         r.length + 2 <= Len(r.buf), ~Unallocatable(r.length)
  PROVE  Reads(Chunk(r), m, ahead)
<1> DEFINE all == r.chunks \o Take(r.buf, r.length)
           rest == Drop(r.buf, r.length + 2)
           s == Chunk(r)
           d == Data(m, k)
           n == Len(m.chunks)
<1>1. /\ all \in Bytes /\ rest \in Bytes /\ s.head = r.head
      /\ r.length > 0 /\ Len(all) >= MaxSize => s.op = "too_large"
      /\ r.length > 0 /\ ~(Len(all) >= MaxSize) =>
           s.op = "line" /\ s.buf = rest /\ s.chunks = all
      /\ r.length = 0 => s.op = "done" /\ s.buf = rest \o all
  BY ChunkTaken, Zenon
<1>2. r.buf \in Bytes /\ r.chunks \in Bytes /\ r.length \in Nat
  BY DEF Session
<1>3. Take(r.buf, r.length) = d /\ rest \o ahead = y
  <2>1. Len(d) + 2 <= Len(r.buf)
    OBVIOUS
  <2>2. Cat(r.buf, ahead) = Cat(d, Cat(CRLF, y)) /\ d \in Bytes
    BY Zenon DEF Cat
  <2>3. Take(r.buf, Len(d)) = d /\ Cat(Drop(r.buf, Len(d) + 2), ahead) = y
    <3> HIDE DEF d
    <3> QED
      BY <1>2, <2>1, <2>2, ChunkCut
  <2> QED
    BY <2>3, Zenon DEF Cat
<1>4. /\ m.chunks \in Texts /\ ChunkTexts(m) \in Texts /\ n \in Nat
      /\ Len(ChunkTexts(m)) = n
  BY ChunkTextsType, JoinedRun
<1>5. all = r.chunks \o d
  BY <1>3, Zenon
<1> HIDE DEF all, rest, s
<1>6. CASE r.length > 0
  <2>1. k \in 0..Len(m.chunks) - 1 /\ k < n /\ k + 1 \in 0..n
    BY <1>2, <1>4, <1>6
  <2>2. d = m.chunks[k + 1]
    BY <2>1 DEF Data
  <2>3. all = Gathered(m, k + 1)
    <3>1. Joined(m.chunks)[k + 1] = Joined(m.chunks)[k] \o m.chunks[k + 1]
      BY <1>4, <2>1, JoinedNext
    <3> QED
      BY <1>5, <2>2, <3>1, Zenon DEF Gathered
  <2>4. Behind(m, k + 1) \o (rest \o ahead) = Body(m)
    BY <1>3, <2>1, Zenon DEF Follows
  <2>5. CASE Len(all) >= MaxSize
    <3>1. s.op = "too_large"
      BY <1>1, <1>6, <2>5
    <3> QED
      BY <3>1 DEF s, Reads
  <2>6. CASE ~(Len(all) >= MaxSize)
    <3>1. s.op = "line" /\ s.buf = rest /\ s.chunks = all
      BY <1>1, <1>6, <2>6
    <3>2. /\ s.chunks = Gathered(m, k + 1) /\ s.head = Header(m)
          /\ Behind(m, k + 1) \o (s.buf \o ahead) = Body(m)
      BY <1>1, <2>3, <2>4, <3>1, Zenon
    <3>3. Reads(s, m, ahead)
      BY <2>1, <3>1, <3>2, Zenon DEF Reads
    <3> QED
      BY <3>3 DEF s
  <2> QED
    BY <2>5, <2>6
<1>7. CASE ~(r.length > 0)
  <2>1. r.length = 0 /\ Len(d) = 0 /\ ~(k < n) /\ k = n
    BY <1>2, <1>4, <1>7
  <2>2. d = <<>> /\ y = <<>>
    <3>1. d = <<>>
      BY <2>1, Length
    <3>2. y = <<>>
      BY <2>1 DEF Follows
    <3> QED
      BY <3>1, <3>2
  <2>3. rest = <<>> /\ ahead = <<>>
    BY <1>1, <1>3, <2>2, NothingJoined, Zenon
  <2>4. all = r.chunks
    <3>1. r.chunks \o <<>> = r.chunks
      BY <1>2, WithNothing
    <3> QED
      BY <1>5, <2>2, <3>1, Zenon
  <2>5. r.chunks = Content(m)
    <3>1. Gathered(m, n) = FlattenSeq(m.chunks)
      BY <1>4, JoinedRun DEF Gathered
    <3> QED
      BY <2>1, <3>1, Zenon DEF Content
  <2>6. s.op = "done" /\ s.buf = rest \o all
    BY <1>1, <2>1
  <2>7. s.buf = Content(m) /\ s.buf = r.chunks
    <3>1. <<>> \o all = all
      BY <1>1, WithNothing
    <3> QED
      BY <2>3, <2>4, <2>5, <2>6, <3>1, Zenon
  <2>8. s.buf \o ahead = Content(m)
    <3>1. r.chunks \o <<>> = r.chunks
      BY <1>2, WithNothing
    <3> QED
      BY <2>3, <2>5, <2>7, <3>1, Zenon
  <2>9. Len(s.buf) < MaxSize /\ s.head = Header(m)
    BY <1>1, <2>7, Zenon
  <2>10. Reads(s, m, ahead)
    BY <2>3, <2>6, <2>8, <2>9, Zenon DEF Reads
  <2> QED
    BY <2>10 DEF s
<1> QED
  BY <1>6, <1>7

LEMMA HeaderTaken ==
  ASSUME Sizes, Sound(reader), ~reader.stale, HeaderRead,
         NEW m, Good(m), NEW ahead \in Bytes, Reads(reader, m, ahead)
  PROVE  \E r \in Session :
           /\ reader' = AfterHeader(r, Field(m))
           /\ r.head = Header(m) /\ r.chunks = <<>> /\ Len(r.buf) < MaxSize
           /\ r.buf \o ahead = Body(m)
<1>1. /\ reader \in Session /\ reader.buf \in Bytes /\ Len(reader.chunks) < MaxSize
      /\ reader.op # "done" => Len(reader.buf) <= MaxSize
      /\ reader.op \in {"none", "header", "no_header"} => reader.chunks = <<>>
      /\ reader.op = "chunk" =>
           reader.need + Len(reader.buf) = WithCRLF(reader.length) /\ reader.length \in Numbers
  BY DEF Sound, Session
<1>2. MaxSize \in Nat /\ Len(reader.buf) \in Nat /\ reader.length \in Nat
  BY <1>1, Length DEF Sizes, Session
<1>3. ASSUME reader.op # "done", ~Full(reader) PROVE Len(reader.buf) < MaxSize
  <2> DEFINE b == Len(reader.buf)
  <2>1. b \in Nat /\ b # MaxSize /\ b <= MaxSize
    BY <1>1, <1>2, <1>3 DEF Full
  <2> HIDE DEF b
  <2>2. b < MaxSize
    BY <1>2, <2>1
  <2> QED
    BY <2>2 DEF b
<1> DEFINE end == EndOf(BlankLine, reader.buf)
           head == Take(reader.buf, end)
           rest == Drop(reader.buf, end)
           left == [reader EXCEPT !.buf = rest]
           read == [left EXCEPT !.head = head]
<1>4. /\ reader.op = "header" /\ end > 0 /\ ~Full(reader)
      /\ IF Head(head) = "start"
         THEN \E field \in Fields(reader, head) : reader' = AfterHeader(read, field)
         ELSE reader' = [reader EXCEPT !.op = "malformed"]
  BY DEF HeaderRead
<1>5. reader.buf \o ahead = Wire(m)
  BY <1>4 DEF Reads
<1>6. /\ end = 6 /\ head = Header(m) /\ rest \in Bytes /\ Len(rest) = Len(reader.buf) - 6
      /\ rest \o ahead = Body(m)
  <2>1. /\ end = 6 /\ Take(reader.buf, 6) = Header(m)
        /\ Drop(reader.buf, 6) \in Bytes /\ Len(Drop(reader.buf, 6)) = Len(reader.buf) - 6
        /\ Drop(reader.buf, 6) \o ahead = Body(m)
    BY <1>1, <1>4, <1>5, HeaderEnds, Zenon
  <2> QED
    BY <2>1, Zenon
<1>7. /\ Header(m) \in Bytes /\ Len(Header(m)) = 6
      /\ Header(m)[1] = "start" /\ Header(m)[2] = Field(m)
  BY HeaderType, Zenon
<1>8. Head(Header(m)) = "start"
  BY <1>7 DEF Bytes
<1>9. Fields(reader, Header(m)) = {Field(m)}
  <2>1. Len(BlankLine) = 4
    BY EndOfLine
  <2>2. Len(Header(m)) - Len(BlankLine) = 2
    BY <1>7, <2>1
  <2> QED
    BY <1>7, <2>2, Zenon DEF Fields
<1> HIDE DEF end, head, rest
<1>10. reader' = AfterHeader(read, Field(m))
  <2> HIDE DEF read
  <2> QED
    BY <1>4, <1>6, <1>8, <1>9, Zenon
<1>11. /\ left \in Session /\ left.op = reader.op /\ left.buf = rest
      /\ left.chunks = reader.chunks /\ left.stale = reader.stale
  BY <1>1, <1>6, BufSet
<1> HIDE DEF left
<1>12. read \in Session /\ read.buf = rest /\ read.chunks = reader.chunks /\ read.head = Header(m)
  BY <1>6, <1>7, <1>11, HeadSet
<1> HIDE DEF read
<1>13. read.chunks = <<>>
  BY <1>1, <1>4, <1>12
<1>14. Len(read.buf) < MaxSize
  <2> DEFINE b == Len(reader.buf)
             c == Len(read.buf)
  <2>1. c = b - 6 /\ b \in Nat /\ b < MaxSize
    BY <1>2, <1>3, <1>4, <1>6, <1>12
  <2> HIDE DEF b, c
  <2>2. c < MaxSize
    BY <1>2, <2>1
  <2> QED
    BY <2>2 DEF c
<1>15. read.buf \o ahead = Body(m)
  BY <1>6, <1>12, Zenon
<1> QED
  BY <1>10, <1>12, <1>13, <1>14, <1>15, Zenon

\* An answer without a length is read to the end of its connection.
LEMMA CloseEnds ==
  ASSUME Sizes, NEW m, Good(m), m.framing = "close", NEW r \in Session
  PROVE  AfterHeader(r, Field(m)).op = "end"
<1> DEFINE t == [r EXCEPT !.op = "end"]
<1>1. ~IsNumber("close")
  BY Symbols
<1>2. Field(m) = "close" /\ Side = "client"
  BY DEF Field, Good, Announced
<1>3. AfterHeader(r, Field(m)) = t
  BY <1>1, <1>2 DEF AfterHeader
<1>4. "end" \in Ops
  BY DEF Ops, Waiting
<1>5. t.op = "end"
  BY <1>4, OpSet
<1> QED
  BY <1>3, <1>5

\* So it does when a handler runs: it finds the end of the header, of a length or of a chunk
\* where the message has it, whatever the delivery has cut, and what it hands over as read is
\* the content of the message and no byte of what follows.
THEOREM HandlersReads ==
  ASSUME Sizes, Sound(reader), ~reader.stale, Handlers,
         NEW m, Good(m), NEW ahead \in Bytes, Reads(reader, m, ahead)
  PROVE  Reads(reader', m, ahead)
<1>1. /\ reader \in Session /\ reader.buf \in Bytes /\ Len(reader.chunks) < MaxSize
      /\ reader.op # "done" => Len(reader.buf) <= MaxSize
      /\ reader.op \in {"none", "header", "no_header"} => reader.chunks = <<>>
      /\ reader.op = "chunk" =>
           reader.need + Len(reader.buf) = WithCRLF(reader.length) /\ reader.length \in Numbers
  BY DEF Sound, Session
<1>2. MaxSize \in Nat /\ Len(reader.buf) \in Nat /\ reader.length \in Nat
  BY <1>1, Length DEF Sizes, Session
<1>3. ASSUME reader.op # "done", ~Full(reader) PROVE Len(reader.buf) < MaxSize
  <2> DEFINE b == Len(reader.buf)
  <2>1. b \in Nat /\ b # MaxSize /\ b <= MaxSize
    BY <1>1, <1>2, <1>3 DEF Full
  <2> HIDE DEF b
  <2>2. b < MaxSize
    BY <1>2, <2>1
  <2> QED
    BY <2>2 DEF b
<1>4. CASE HeaderRead
  <2>1. PICK r \in Session :
          /\ reader' = AfterHeader(r, Field(m))
          /\ r.head = Header(m) /\ r.chunks = <<>> /\ Len(r.buf) < MaxSize
          /\ r.buf \o ahead = Body(m)
    BY <1>4, HeaderTaken
  <2>2. Reads(AfterHeader(r, Field(m)), m, ahead)
    BY <2>1, AfterHeaderReads
  <2> QED
    BY <2>1, <2>2, Zenon
<1>5. CASE ContentRead
  <2>1. reader.op = "content" /\ reader.need = 0 /\ ~Full(reader) /\ reader' = Done(reader)
    BY <1>5 DEF ContentRead
  <2>2. /\ reader.head = Header(m) /\ reader.buf \o ahead = Content(m)
        /\ reader.need + Len(reader.buf) = Len(Content(m))
    BY <2>1 DEF Reads
  <2>3. ahead = <<>>
    <3>1. Len(reader.buf \o ahead) <= Len(reader.buf)
      BY <1>2, <2>1, <2>2
    <3> QED
      BY <1>1, <3>1, NothingAhead
  <2>4. Len(reader.buf) < MaxSize
    BY <1>3, <2>1
  <2>5. Done(reader).op = "done" /\ Done(reader).buf = reader.buf /\ Done(reader).head = reader.head
    BY <1>1, Finished
  <2> QED
    BY <2>1, <2>2, <2>3, <2>4, <2>5, Zenon DEF Reads
<1>6. CASE LineRead
  <2> DEFINE end == EndOf(CRLF, reader.buf)
             rest == Drop(reader.buf, end)
             n == Value(reader.buf[1])
             left == [reader EXCEPT !.buf = rest]
             read == [left EXCEPT !.length = n]
             size == WithCRLF(n)
  <2>1. /\ reader.op = "line" /\ end > 0 /\ ~Full(reader)
        /\ IF IsNumber(reader.buf[1])
           THEN reader' = ReadExactly(read, "chunk", WithCRLF(read.length), Chunk(read))
           ELSE reader' = [reader EXCEPT !.op = "malformed"]
    BY <1>6, Zenon DEF LineRead
  <2>2. m.framing = "chunked" /\ reader.head = Header(m)
    BY <2>1 DEF Reads
  <2>3. PICK k \in 0..Len(m.chunks) :
          reader.chunks = Gathered(m, k) /\ Behind(m, k) \o (reader.buf \o ahead) = Body(m)
    BY <2>1 DEF Reads
  <2> DEFINE d == Data(m, k)
  <2>4. reader.buf \o ahead \in Bytes
    BY <1>1, Joint
  <2>5. /\ d \in Bytes /\ Len(d) \in Numbers
        /\ k < Len(m.chunks) <=> Len(d) # 0
        /\ \E y \in Bytes : /\ Follows(m, k, y)
              /\ reader.buf \o ahead = <<Digit(Len(d))>> \o (CRLF \o (d \o (CRLF \o y)))
    <3> DEFINE w == reader.buf \o ahead
    <3>1. w \in Bytes /\ Behind(m, k) \o w = Body(m)
      BY <2>3, <2>4, Zenon
    <3> HIDE DEF w
    <3>2. /\ d \in Bytes /\ Len(d) \in Numbers
          /\ k < Len(m.chunks) <=> Len(d) # 0
          /\ \E y \in Bytes : /\ Follows(m, k, y)
                /\ w = <<Digit(Len(d))>> \o (CRLF \o (d \o (CRLF \o y)))
      BY <2>2, <3>1, NextChunk, Zenon
    <3> QED
      BY <3>2, Zenon DEF w
  <2>6. PICK y \in Bytes :
          /\ Follows(m, k, y)
          /\ reader.buf \o ahead = <<Digit(Len(d))>> \o (CRLF \o (d \o (CRLF \o y)))
    BY <2>5
  <2>7. /\ Digit(Len(d)) \in Byte /\ IsNumber(Digit(Len(d))) /\ Value(Digit(Len(d))) = Len(d)
    BY <2>5, Symbols
  <2> DEFINE z == d \o (CRLF \o y)
  <2>8. z \in Bytes
    <3>1. CRLF \o y \in Bytes
      BY EndOfLine, Joint
    <3> QED
      BY <2>5, <3>1, Joint
  <2>9. reader.buf[1] = Digit(Len(d)) /\ rest \in Bytes /\ Len(rest) = Len(reader.buf) - 3 /\ rest \o ahead = z
    <3> DEFINE e == Digit(Len(d))
    <3>1. e \in Byte /\ Cat(reader.buf, ahead) = Cat(<<e>>, Cat(CRLF, z))
      BY <2>6, <2>7, Zenon DEF Cat
    <3> HIDE DEF e, z
    <3>2. /\ end = 3 /\ reader.buf[1] = e
          /\ Drop(reader.buf, 3) \in Bytes /\ Len(Drop(reader.buf, 3)) = Len(reader.buf) - 3
          /\ Cat(Drop(reader.buf, 3), ahead) = z
      BY <1>1, <2>1, <2>8, <3>1, LineEnds
    <3> QED
      BY <3>2, Zenon DEF e, Cat
  <2>10. n = Len(d) /\ n \in Numbers /\ n \in Nat /\ IsNumber(reader.buf[1])
    <3>1. n = Len(d) /\ IsNumber(reader.buf[1])
      BY <2>7, <2>9, Zenon
    <3>2. Len(d) \in Nat
      BY <2>5, Symbols DEF Numbers
    <3> QED
      BY <2>5, <3>1, <3>2, Zenon
  <2>11. size = n + 2 /\ ~Unallocatable(n)
    <3>1. ~Unallocatable(Len(d))
      BY <2>2, DataFits
    <3>2. ~Unallocatable(n)
      BY <2>10, <3>1, Zenon
    <3> HIDE DEF n
    <3> QED
      BY <2>10, <3>2, Wrapped
  <2> HIDE DEF end, rest, n, size, z, d
  <2>12. /\ left \in Session /\ left.buf = rest /\ left.chunks = reader.chunks
         /\ left.head = reader.head
    BY <1>1, <2>9, BufSet
  <2> HIDE DEF left
  <2>13. /\ read \in Session /\ read.buf = rest /\ read.chunks = reader.chunks
         /\ read.head = reader.head /\ read.length = n
    BY <2>10, <2>12, LengthSet
  <2> HIDE DEF read
  <2>14. reader' = ReadExactly(read, "chunk", size, Chunk(read))
    BY <2>1, <2>10, <2>13, Zenon DEF size
  <2>15. read.buf \o ahead = d \o (CRLF \o y) /\ read.chunks = Gathered(m, k)
         /\ read.head = Header(m) /\ read.length = Len(d)
    BY <2>2, <2>3, <2>9, <2>10, <2>13, Zenon DEF z
  <2>16. Len(read.buf) \in Nat
    BY <2>13, Weights
  <2>17. CASE size > Len(read.buf)
    <3> DEFINE s == ReadExactly(read, "chunk", size, Chunk(read))
    <3>1. "chunk" \in Ops
      BY DEF Ops, Waiting, Exactly
    <3>2. /\ s.op = "chunk" /\ s.buf = read.buf /\ s.length = read.length
          /\ s.chunks = read.chunks /\ s.head = read.head
      BY <2>10, <2>11, <2>13, <2>17, <3>1, MoreAsked
    <3> HIDE DEF s
    <3>3. /\ s.chunks = Gathered(m, k) /\ s.length = Len(Data(m, k)) /\ s.head = Header(m)
          /\ s.buf \o ahead = Data(m, k) \o (CRLF \o y)
      BY <2>15, <3>2, Zenon DEF d
    <3>4. Reads(s, m, ahead)
      BY <2>2, <2>6, <3>2, <3>3, Zenon DEF Reads
    <3> QED
      BY <2>14, <3>4, Zenon DEF s
  <2>18. CASE ~(size > Len(read.buf))
    <3>1. reader' = Chunk(read)
      BY <2>14, <2>18, Zenon DEF ReadExactly
    <3>2. read.length + 2 <= Len(read.buf)
      BY <2>10, <2>11, <2>13, <2>16, <2>18
    <3>3. Len(read.chunks) < MaxSize
      BY <1>1, <2>13
    <3>4. ~Unallocatable(read.length)
      BY <2>11, <2>13, Zenon
    <3>5. /\ read.length = Len(Data(m, k)) /\ Data(m, k) \in Bytes
          /\ read.buf \o ahead = Data(m, k) \o (CRLF \o y)
          /\ k < Len(m.chunks) <=> Len(Data(m, k)) # 0
      BY <2>5, <2>15 DEF d
    <3>6. Reads(Chunk(read), m, ahead)
      BY <2>2, <2>6, <2>13, <2>15, <3>2, <3>3, <3>4, <3>5, ChunkReads
    <3> QED
      BY <3>1, <3>6, Zenon
  <2> QED
    BY <2>17, <2>18
<1>7. CASE ChunkRead
  <2>1. reader.op = "chunk" /\ reader.need = 0 /\ ~Full(reader) /\ reader' = Chunk(reader)
    BY <1>7 DEF ChunkRead
  <2>2. m.framing = "chunked" /\ reader.head = Header(m)
    BY <2>1 DEF Reads
  <2>3. PICK k \in 0..Len(m.chunks), y \in Bytes :
            /\ reader.chunks = Gathered(m, k) /\ reader.length = Len(Data(m, k))
            /\ reader.buf \o ahead = Data(m, k) \o (CRLF \o y) /\ Follows(m, k, y)
    BY <2>1 DEF Reads
  <2>4. Data(m, k) \in Bytes /\ (k < Len(m.chunks) <=> Len(Data(m, k)) # 0)
    <3>1. /\ m.chunks \in Texts /\ Len(m.chunks) \in Nat
          /\ \A i \in 1..Len(m.chunks) : m.chunks[i] \in Bytes /\ Len(m.chunks[i]) \in Numbers \ {0}
      BY <2>2, ChunkTextsType, JoinedRun
    <3>2. CASE k < Len(m.chunks)
      <4>1. k + 1 \in 1..Len(m.chunks)
        BY <3>1, <3>2
      <4> QED
        BY <3>1, <3>2, <4>1 DEF Data
    <3>3. CASE ~(k < Len(m.chunks))
      BY <3>3, NoBytes DEF Data
    <3> QED
      BY <3>2, <3>3
  <2>5. reader.length + 2 <= Len(reader.buf) /\ ~Unallocatable(reader.length)
    <3>1. ~Unallocatable(reader.length)
      BY <2>2, <2>3, DataFits, Zenon
    <3>2. reader.need + Len(reader.buf) = reader.length + 2
      BY <1>1, <1>2, <2>1, <3>1, Wrapped
    <3> QED
      BY <1>2, <2>1, <3>1, <3>2
  <2>6. Reads(Chunk(reader), m, ahead)
    BY <1>1, <2>2, <2>3, <2>4, <2>5, ChunkReads
  <2> QED
    BY <2>1, <2>6, Zenon
<1>8. CASE Refuse
  <2>1. reader' = TooLarge(reader)
    BY <1>8 DEF Refuse
  <2>2. TooLarge(reader).op = "too_large"
    BY <1>1, Finished
  <2> QED
    BY <2>1, <2>2 DEF Reads
<1> QED
  BY <1>4, <1>5, <1>6, <1>7, <1>8 DEF Handlers

LEMMA HandlersClose ==
  ASSUME Sizes, Sound(reader), ~reader.stale, Handlers, NEW m, Good(m), m.framing = "close",
         NEW ahead \in Bytes, Reads(reader, m, ahead)
  PROVE  reader'.op # "done"
<1>1. CASE HeaderRead
  <2>1. PICK r \in Session : reader' = AfterHeader(r, Field(m))
    BY <1>1, HeaderTaken
  <2> QED
    BY <2>1, CloseEnds
<1>2. CASE ContentRead \/ LineRead \/ ChunkRead
  BY <1>2, Zenon DEF ContentRead, LineRead, ChunkRead, Reads
<1>3. CASE Refuse
  <2>1. reader' = TooLarge(reader) /\ reader \in Session
    BY <1>3 DEF Refuse, Sound
  <2> QED
    BY <2>1, Finished
<1> QED
  BY <1>1, <1>2, <1>3 DEF Handlers

\* Nothing comes of an empty buffer.
LEMMA NothingRead ==
  ASSUME Sizes, Sound(reader), reader.op = "header", reader.buf = <<>>
  PROVE  ~Handlers
<1>1. Len(reader.buf) = 0 /\ MaxSize \in Nat /\ MaxSize > 0
  BY NoBytes, Length DEF Sizes
<1>2. ~Full(reader)
  BY <1>1 DEF Full
<1>3. EndOf(BlankLine, reader.buf) = 0
  <2>1. Len(BlankLine) = 4
    BY EndOfLine
  <2>2. Len(BlankLine)..Len(reader.buf) = {}
    BY <1>1, <2>1
  <2> QED
    BY <2>2 DEF EndOf
<1>4. ~HeaderRead
  BY <1>3 DEF HeaderRead
<1> QED
  BY <1>2, <1>4, Zenon DEF Handlers, ContentRead, LineRead, ChunkRead, Refuse

\* With nothing on the wire nothing comes.
LEMMA NothingComes ==
  ASSUME Sizes, wire = <<>>, Sound(reader), NEW most \in Nat
  PROVE  ~Receive(most)
<1> SUFFICES ASSUME Receive(most) PROVE FALSE
  OBVIOUS
<1>1. wire \in Bytes /\ Len(wire) = 0
  BY NoBytes, Length
<1>2. \E n \in 1..Len(wire) : TRUE
  BY <1>1, Delivered, Zenon
<1> QED
  BY <1>1, <1>2

=============================================================================
