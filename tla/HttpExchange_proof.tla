------------------------- MODULE HttpExchange_proof -------------------------
(***************************************************************************)
(* Proofs about HttpExchange, for any messages, cut into any parts by the  *)
(* resource function and by the network.                                   *)
(***************************************************************************)
EXTENDS HttpExchange, SequenceTheorems, TLAPS

(* The inductive invariant *)

IsSeq(s) == s \in Seq({s[i] : i \in DOMAIN s})

\* A handler of the strand that concerns the part at the head of send_queue.
Busy(i)  == strand[i].do # "append"
InStrand == \E i \in 1..Len(strand) : Busy(i)
\* Its write.
InHand == writes # <<>> /\ ~writes[1].last

Typed ==
  /\ IsSeq(strand) /\ IsSeq(send_queue) /\ IsSeq(writes) /\ IsSeq(parts)
  /\ called \in Seq(BOOLEAN) /\ held \in BOOLEAN
  /\ socket \in {"open", "closed", "broken"} /\ gate \in {"open", "shut"}
  /\ last \in {"no", "writing", "written", "failed", "done"}
  /\ \A i \in 1..Len(strand) : strand[i].do \in {"append", "write", "written"}

\* One handler or write at a time, and then for a part that is in send_queue.
OneBusy ==
  /\ Len(writes) <= 1
  /\ writes # <<>> => ~InStrand
  /\ \A i, j \in 1..Len(strand) : Busy(i) /\ Busy(j) => i = j
  /\ InStrand \/ InHand => send_queue # <<>>

\* send_queue is being worked on, until the server is destroyed.
Driven == gate = "open" /\ send_queue # <<>> => InStrand \/ InHand

\* The write of send_on_delete comes when nothing else is left.
LastAlone ==
  /\ last # "no" => strand = <<>> /\ ~held
  /\ writes # <<>> => (writes[1].last <=> last = "writing")
  /\ last \notin {"no", "writing"} => writes = <<>>

\* Where each part is: called back, in send_queue, or on the strand.
Parts ==
  Len(called) + Len(send_queue) + Len(strand) = Len(parts) + (IF InStrand THEN 1 ELSE 0)

\* A write fails on a connection that has ended, and nothing is written after an error.
Broken == \A i \in 1..Len(strand) : strand[i].do = "written" /\ ~strand[i].ok => socket # "open"
ErrorsStay ==
  \/ last = "done"
  \/ \A i \in DOMAIN called : called[i]
  \/ socket # "open" /\ \A i \in 1..Len(strand) : strand[i].do = "written" => ~strand[i].ok

IsSession(r) == r = [f \in DOMAIN r |-> r[f]] /\ "op" \in DOMAIN r

\* A resource function is called through an open gate.
Serving ==
  /\ IsSession(server) /\ server.op # "end"
  /\ server.op = "done" => gate = "open"

QInv == Typed /\ OneBusy /\ Driven /\ LastAlone /\ Parts /\ Broken /\ ErrorsStay
IInv == QInv /\ Serving

-----------------------------------------------------------------------------
(* Sequences of anything *)

LEMMA SeqOfAny ==
  ASSUME NEW S, NEW s \in Seq(S)
  PROVE  IsSeq(s)
<1> DEFINE R == {s[i] : i \in DOMAIN s}
<1>1. Len(s) \in Nat /\ s \in [1..Len(s) -> S] /\ DOMAIN s = 1..Len(s)
  BY LenProperties
<1>2. s \in [1..Len(s) -> R]
  BY <1>1
<1>3. s \in UNION {[1..n -> R] : n \in Nat}
  BY <1>1, <1>2
<1> QED
  BY <1>3, SeqDef, Zenon DEF IsSeq

LEMMA SeqFacts ==
  ASSUME NEW s, IsSeq(s)
  PROVE  Len(s) \in Nat /\ DOMAIN s = 1..Len(s) /\ (s = <<>> <=> Len(s) = 0)
<1> DEFINE R == {s[i] : i \in DOMAIN s}
<1>1. s \in Seq(R)
  BY DEF IsSeq
<1> HIDE DEF R
<1>2. Len(s) \in Nat /\ DOMAIN s = 1..Len(s)
  BY <1>1, LenProperties
<1>3. s = <<>> <=> Len(s) = 0
  BY <1>1, EmptySeq
<1> QED
  BY <1>2, <1>3

LEMMA SeqEmpty == IsSeq(<<>>) /\ Len(<<>>) = 0
BY SeqOfAny, EmptySeq

LEMMA SeqConcat ==
  ASSUME NEW s, NEW t, IsSeq(s), IsSeq(t)
  PROVE  /\ IsSeq(s \o t) /\ Len(s \o t) = Len(s) + Len(t)
         /\ \A i \in 1..Len(s) : (s \o t)[i] = s[i]
         /\ \A i \in 1..Len(t) : (s \o t)[Len(s) + i] = t[i]
<1> DEFINE R == {s[i] : i \in DOMAIN s} \cup {t[i] : i \in DOMAIN t}
<1>1. s \in Seq(R) /\ t \in Seq(R)
  BY SeqMonotonic DEF IsSeq
<1> HIDE DEF R
<1>2. /\ s \o t \in Seq(R) /\ Len(s \o t) = Len(s) + Len(t)
      /\ \A i \in 1..Len(s) + Len(t) :
           (s \o t)[i] = IF i <= Len(s) THEN s[i] ELSE t[i - Len(s)]
  BY <1>1, ConcatProperties
<1>3. Len(s) \in Nat /\ Len(t) \in Nat
  BY SeqFacts
<1>4. IsSeq(s \o t)
  BY <1>2, SeqOfAny
<1>5. ASSUME NEW i \in 1..Len(s) PROVE (s \o t)[i] = s[i]
  BY <1>2, <1>3
<1>6. ASSUME NEW i \in 1..Len(t) PROVE (s \o t)[Len(s) + i] = t[i]
  <2>1. Len(s) + i \in 1..Len(s) + Len(t) /\ ~(Len(s) + i <= Len(s)) /\ Len(s) + i - Len(s) = i
    BY <1>3
  <2> QED
    BY <1>2, <2>1
<1> QED
  BY <1>2, <1>4, <1>5, <1>6

LEMMA SeqOne ==
  ASSUME NEW e
  PROVE  IsSeq(<<e>>) /\ Len(<<e>>) = 1 /\ <<e>>[1] = e
<1>1. <<e>> \in Seq({e})
  OBVIOUS
<1> QED
  BY <1>1, SeqOfAny

LEMMA SeqAppend ==
  ASSUME NEW s, NEW e, IsSeq(s)
  PROVE  /\ IsSeq(Append(s, e)) /\ Len(Append(s, e)) = Len(s) + 1
         /\ \A i \in 1..Len(s) : Append(s, e)[i] = s[i]
         /\ Append(s, e)[Len(s) + 1] = e
<1> DEFINE R == {s[i] : i \in DOMAIN s} \cup {e}
<1>1. s \in Seq(R) /\ e \in R
  BY SeqMonotonic DEF IsSeq
<1> HIDE DEF R
<1>2. Append(s, e) \in Seq(R)
  BY <1>1
<1>3. IsSeq(Append(s, e))
  BY <1>2, SeqOfAny
<1> QED
  BY <1>1, <1>3, SeqFacts

LEMMA SeqTail ==
  ASSUME NEW s, IsSeq(s), s # <<>>
  PROVE  /\ IsSeq(Tail(s)) /\ Len(Tail(s)) = Len(s) - 1 /\ Head(s) = s[1]
         /\ \A i \in 1..Len(s) - 1 : Tail(s)[i] = s[i + 1]
<1> DEFINE R == {s[i] : i \in DOMAIN s}
<1>1. s \in Seq(R)
  BY DEF IsSeq
<1> HIDE DEF R
<1>2. /\ Tail(s) \in Seq(R) /\ Len(Tail(s)) = Len(s) - 1
      /\ \A i \in 1..Len(Tail(s)) : Tail(s)[i] = s[i + 1]
  BY <1>1, HeadTailProperties
<1>3. Head(s) = s[1]
  BY <1>1
<1> QED
  BY <1>2, <1>3, SeqOfAny

\* The first element goes, and another one comes at the end.
LEMMA SeqNext ==
  ASSUME NEW s, NEW e, IsSeq(s), s # <<>>
  PROVE  /\ IsSeq(Tail(s) \o <<e>>) /\ Len(Tail(s) \o <<e>>) = Len(s)
         /\ \A i \in 1..Len(s) - 1 : (Tail(s) \o <<e>>)[i] = s[i + 1]
         /\ (Tail(s) \o <<e>>)[Len(s)] = e
<1> DEFINE R == {s[i] : i \in DOMAIN s} \cup {e}
           t == Tail(s)
           u == <<e>>
<1>1. s \in Seq(R) /\ u \in Seq(R)
  BY SeqMonotonic DEF IsSeq
<1>2. Len(u) = 1 /\ u[1] = e
  OBVIOUS
<1>3. Len(s) \in Nat /\ Len(s) # 0
  BY SeqFacts
<1> HIDE DEF R, t, u
<1>4. t \in Seq(R) /\ Len(t) = Len(s) - 1 /\ \A i \in 1..Len(s) - 1 : t[i] = s[i + 1]
  BY <1>1, SeqTail, HeadTailProperties DEF t
<1>5. /\ t \o u \in Seq(R) /\ Len(t \o u) = Len(t) + Len(u)
      /\ \A i \in 1..Len(t) + Len(u) : (t \o u)[i] = IF i <= Len(t) THEN t[i] ELSE u[i - Len(t)]
  BY <1>1, <1>4, ConcatProperties
<1>6. IsSeq(t \o u)
  BY <1>5, SeqOfAny
<1> DEFINE c == t \o u
           n == Len(s)
<1>7. /\ Len(c) = n /\ n \in Nat /\ n # 0 /\ Len(t) = n - 1
      /\ \A i \in 1..n : c[i] = IF i <= n - 1 THEN t[i] ELSE u[i - (n - 1)]
  BY <1>2, <1>3, <1>4, <1>5
<1> HIDE DEF c, n
<1>8. c[n] = e
  <2>1. n \in 1..n /\ ~(n <= n - 1) /\ n - (n - 1) = 1
    BY <1>7
  <2> QED
    BY <1>2, <1>7, <2>1
<1>9. \A i \in 1..n - 1 : c[i] = s[i + 1]
  BY <1>4, <1>7 DEF n
<1> QED
  BY <1>6, <1>7, <1>8, <1>9 DEF c, n, t, u

LEMMA SeqTailEmpty ==
  ASSUME NEW s, IsSeq(s), s # <<>>
  PROVE  Tail(s) \o <<>> = Tail(s)
BY SeqTail, ConcatEmptySeq DEF IsSeq

LEMMA OneMoreTrue ==
  ASSUME NEW s \in Seq(BOOLEAN)
  PROVE  /\ Append(s, TRUE) \in Seq(BOOLEAN) /\ Len(Append(s, TRUE)) = Len(s) + 1
         /\ (\A i \in DOMAIN s : s[i]) =>
              \A i \in DOMAIN Append(s, TRUE) : Append(s, TRUE)[i]
<1> DEFINE t == Append(s, TRUE)
<1>1. Len(s) \in Nat /\ DOMAIN s = 1..Len(s)
  BY LenProperties
<1>2. IsSeq(s)
  BY SeqOfAny
<1>3. t \in Seq(BOOLEAN)
  OBVIOUS
<1>4. /\ Len(t) = Len(s) + 1 /\ t[Len(s) + 1] = TRUE
      /\ \A i \in 1..Len(s) : t[i] = s[i]
  BY <1>2, SeqAppend
<1>5. DOMAIN t = 1..Len(t)
  BY <1>3, LenProperties
<1> HIDE DEF t
<1>6. ASSUME \A i \in DOMAIN s : s[i], NEW i \in DOMAIN t PROVE t[i]
  <2>1. CASE i = Len(s) + 1
    BY <1>4, <2>1
  <2>2. CASE i # Len(s) + 1
    <3>1. i \in 1..Len(s)
      BY <1>1, <1>4, <1>5, <2>2
    <3>2. t[i] = s[i] /\ s[i]
      BY <1>1, <1>4, <1>6, <3>1
    <3> QED
      BY <3>2
  <2> QED
    BY <2>1, <2>2
<1>7. (\A i \in DOMAIN s : s[i]) => \A i \in DOMAIN t : t[i]
  BY <1>6
<1> QED
  BY <1>3, <1>4, <1>7 DEF t

-----------------------------------------------------------------------------
(* The reader of the server *)

LEMMA NewSession ==
  /\ IsSession(Server!Nothing) /\ Server!Nothing.op = "none"
  /\ IsSession(Server!Reading) /\ Server!Reading.op = "header"
BY DEF Server!Nothing, Server!Reading, IsSession

\* What a read of the server leaves: it never waits for the end of the stream.
Reads(r) == IsSession(r) /\ r.op # "end"

LEMMA SessionEnds ==
  ASSUME NEW r, IsSession(r)
  PROVE  Reads(Server!Done(r)) /\ Reads(Server!TooLarge(r))
<1>1. Reads(Server!TooLarge(r))
  BY DEF Server!TooLarge, Reads, IsSession
<1> DEFINE a == [r EXCEPT !.op = "done"]
           b == [a EXCEPT !.need = 0]
<1>2. IsSession(a) /\ a.op = "done"
  BY DEF IsSession
<1>3. Server!Done(r) = b
  BY DEF Server!Done
<1> HIDE DEF a
<1>4. Reads(b)
  BY <1>2 DEF Reads, IsSession
<1> QED
  BY <1>1, <1>3, <1>4

LEMMA SessionAsks ==
  ASSUME NEW r, IsSession(r), NEW op, op # "end", NEW size, NEW next, Reads(next)
  PROVE  Reads(Server!ReadExactly(r, op, size, next))
<1> DEFINE a == [r EXCEPT !.op = op]
           b == [a EXCEPT !.need = size - Len(r.buf)]
<1>1. IsSession(a) /\ a.op = op
  BY DEF IsSession
<1> HIDE DEF a
<1>2. Reads(b)
  BY <1>1 DEF Reads, IsSession
<1>3. b = [r EXCEPT !.op = op, !.need = size - Len(r.buf)]
  BY DEF a
<1> QED
  BY <1>2, <1>3 DEF Server!ReadExactly

LEMMA HeaderKept ==
  ASSUME NEW r, IsSession(r), NEW field
  PROVE  Reads(Server!AfterHeader(r, field))
<1>1. Reads(Server!ReadContent(r, Server!Value(field)))
  BY SessionEnds, SessionAsks DEF Server!ReadContent
<1>2. Reads([r EXCEPT !.op = "line"])
  BY DEF Reads, IsSession
<1>3. Reads(Server!Done(r))
  BY SessionEnds
<1> QED
  BY <1>1, <1>2, <1>3 DEF Server!AfterHeader

LEMMA ChunkKept ==
  ASSUME NEW r, IsSession(r)
  PROVE  Reads(Server!Chunk(r))
<1> DEFINE all == Server!Chunks(r)
           rest == Server!Drop(r.buf, r.length + 2)
           a == [r EXCEPT !.op = "line"]
           b == [a EXCEPT !.chunks = all]
           c == [b EXCEPT !.buf = rest]
           d == [r EXCEPT !.chunks = <<>>]
           e == [d EXCEPT !.buf = rest \o all]
<1>1. Reads(c) /\ IsSession(e)
  <2> HIDE DEF all, rest
  <2>1. Reads(a) /\ IsSession(d)
    BY DEF Reads, IsSession
  <2> HIDE DEF a, d
  <2>2. Reads(b) /\ IsSession(e)
    BY <2>1 DEF Reads, IsSession
  <2> HIDE DEF b
  <2> QED
    BY <2>2 DEF Reads, IsSession
<1>2. c = [r EXCEPT !.op = "line", !.chunks = all, !.buf = rest]
  OBVIOUS
<1>3. e = [r EXCEPT !.chunks = <<>>, !.buf = rest \o all]
  OBVIOUS
<1>4. Reads(Server!TooLarge(r)) /\ Reads(Server!Done(e))
  BY <1>1, SessionEnds
<1>5. Reads([r EXCEPT !.op = "thrown"])
  BY DEF Reads, IsSession
<1> HIDE DEF c, e, Reads, IsSession
<1> QED
  BY <1>1, <1>2, <1>3, <1>4, <1>5 DEF Server!Chunk

\* Every handler of a read leaves a read, or its result.
LEMMA HandlersRead ==
  ASSUME Reads(server), Server!Handlers
  PROVE  Reads(server')
<1>1. CASE Server!HeaderRead
  <2> DEFINE end == Server!EndOf(Server!BlankLine, server.buf)
             head == Server!Take(server.buf, end)
             a == [server EXCEPT !.buf = Server!Drop(server.buf, end)]
             read == [a EXCEPT !.head = head]
  <2>1. IsSession(read)
    BY DEF Reads, IsSession
  <2>2. read = [server EXCEPT !.buf = Server!Drop(@, end), !.head = head]
    OBVIOUS
  <2>3. Reads([server EXCEPT !.op = "malformed"])
    BY DEF Reads, IsSession
  <2>4. \A field : Reads(Server!AfterHeader(read, field))
    BY <2>1, HeaderKept
  <2>5. \/ server' = [server EXCEPT !.op = "malformed"]
        \/ \E field : server' = Server!AfterHeader(read, field)
    <3> HIDE DEF read
    <3> QED
      BY <1>1, <2>2 DEF Server!HeaderRead
  <2> QED
    BY <2>3, <2>4, <2>5
<1>2. CASE Server!ContentRead
  BY <1>2, SessionEnds DEF Server!ContentRead, Reads
<1>3. CASE Server!LineRead
  <2> DEFINE end == Server!EndOf(Server!CRLF, server.buf)
             a == [server EXCEPT !.buf = Server!Drop(server.buf, end)]
             read == [a EXCEPT !.length = Server!Value(server.buf[1])]
  <2>1. IsSession(read)
    BY DEF Reads, IsSession
  <2>2. read = [server EXCEPT !.buf = Server!Drop(@, end),
                              !.length = Server!Value(server.buf[1])]
    OBVIOUS
  <2>3. Reads([server EXCEPT !.op = "malformed"])
    BY DEF Reads, IsSession
  <2>4. Reads(Server!ReadExactly(read, "chunk", Server!WithCRLF(read.length),
                                 Server!Chunk(read)))
    <3> HIDE DEF read
    <3> QED
      BY <2>1, ChunkKept, SessionAsks
  <2>5. \/ server' = [server EXCEPT !.op = "malformed"]
        \/ server' = Server!ReadExactly(read, "chunk", Server!WithCRLF(read.length),
                                        Server!Chunk(read))
    <3> HIDE DEF read
    <3> QED
      BY <1>3, <2>2 DEF Server!LineRead
  <2> QED
    BY <2>3, <2>4, <2>5
<1>4. CASE Server!ChunkRead
  BY <1>4, ChunkKept DEF Server!ChunkRead, Reads
<1>5. CASE Server!Refuse
  BY <1>5, SessionEnds DEF Server!Refuse, Reads
<1> QED
  BY <1>1, <1>2, <1>3, <1>4, <1>5 DEF Server!Handlers

\* What is not a handler completes no request.
LEMMA WaitingReads ==
  ASSUME Reads(server), NEW n,
         Server!Receive(n) \/ Server!EndOfStream \/ Server!Fail
  PROVE  Reads(server') /\ server'.op # "done"
<1>1. CASE Server!Receive(n)
  <2> DEFINE m == Server!Min({n, Len(toServer), Server!Room(server)})
             a == [server EXCEPT !.buf = server.buf \o Server!Take(toServer, m)]
             need == IF server.op \in Server!Exactly THEN server.need - m ELSE server.need
             b == [a EXCEPT !.need = need]
  <2>1. Reads(b) /\ b.op = server.op
    BY DEF Reads, IsSession
  <2>2. server' = b /\ server.op \in Server!Waiting
    BY <1>1 DEF Server!Receive
  <2> QED
    BY <2>1, <2>2 DEF Server!Waiting, Server!Until, Server!Exactly
<1>2. CASE Server!EndOfStream \/ Server!Fail
  <2>1. server' = [server EXCEPT !.op = IF @ = "header" THEN "no_header" ELSE "failed"]
    BY <1>2 DEF Server!EndOfStream, Server!Fail, Reads
  <2> QED
    BY <2>1 DEF Reads, IsSession
<1> QED
  BY <1>1, <1>2

-----------------------------------------------------------------------------
(* The queue *)

\* What the socket, the gate and the end of the last write leave alone.
LEMMA QueueKept ==
  ASSUME QInv, UNCHANGED <<parts, strand, send_queue, writes, called>>,
         held' \in BOOLEAN, held' => held,
         last' = last \/ (last \in {"written", "failed"} /\ last' = "done"),
         gate' = gate \/ gate' = "shut", socket' \in {"open", "closed", "broken"},
         socket' = socket \/ socket' # "open" \/ last' = "done"
  PROVE  QInv'
<1>1. Typed'
  BY DEF QInv, Typed
<1>2. OneBusy'
  BY DEF QInv, OneBusy, InStrand, InHand, Busy
<1>3. Driven'
  BY DEF QInv, Driven, InStrand, InHand, Busy, Typed
<1>4. LastAlone'
  BY DEF QInv, LastAlone
<1>5. Parts'
  BY DEF QInv, Parts, InStrand, Busy, Typed
<1>6. ErrorsStay'
  BY DEF QInv, ErrorsStay
<1>7. Broken'
  <2>1. last' = "done" => Len(strand) = 0
    BY SeqEmpty DEF QInv, LastAlone
  <2> QED
    BY <2>1 DEF QInv, Broken
<1> QED
  BY <1>1, <1>2, <1>3, <1>4, <1>5, <1>6, <1>7 DEF QInv

LEMMA QueueFacts ==
  ASSUME QInv
  PROVE  /\ Len(strand) \in Nat /\ (strand = <<>> <=> Len(strand) = 0)
         /\ Len(send_queue) \in Nat /\ (send_queue = <<>> <=> Len(send_queue) = 0)
         /\ Len(writes) \in Nat /\ (writes = <<>> <=> Len(writes) = 0)
         /\ DOMAIN writes = 1..Len(writes) /\ DOMAIN strand = 1..Len(strand)
         /\ Len(parts) \in Nat /\ Len(called) \in Nat /\ DOMAIN called = 1..Len(called)
         /\ (called = <<>> <=> Len(called) = 0)
         /\ DOMAIN send_queue = 1..Len(send_queue)
<1>1. Len(called) \in Nat /\ DOMAIN called = 1..Len(called) /\ (called = <<>> <=> Len(called) = 0)
  BY LenProperties, EmptySeq DEF QInv, Typed
<1> QED
  BY <1>1, SeqFacts DEF QInv, Typed

LEMMA NewQueue ==
  ASSUME NEW bytes, Queue!NewResponse(bytes), QInv, UNCHANGED <<socket, gate>>
  PROVE  QInv'
<1>1. /\ held' = TRUE /\ parts' = <<>> /\ strand' = <<>> /\ send_queue' = <<>>
      /\ writes' = <<>> /\ last' = "no" /\ called' = <<>>
  BY DEF Queue!NewResponse
<1>2. IsSeq(<<>>) /\ Len(<<>>) = 0 /\ <<>> \in Seq(BOOLEAN) /\ DOMAIN <<>> = {}
  BY SeqEmpty
<1>3. Typed'
  BY <1>1, <1>2 DEF QInv, Typed
<1>4. OneBusy' /\ Driven' /\ LastAlone' /\ Broken' /\ ErrorsStay'
  BY <1>1, <1>2 DEF OneBusy, Driven, LastAlone, Broken, ErrorsStay, InStrand, InHand
<1>5. Parts'
  BY <1>1, <1>2 DEF Parts, InStrand
<1> QED
  BY <1>3, <1>4, <1>5 DEF QInv

LEMMA SendQueue ==
  ASSUME NEW n, Queue!Send(n), QInv
  PROVE  QInv' /\ Len(parts') = Len(parts) + 1
<1> DEFINE part == SubSeq(todo, 1, n)
           task == Queue!NewPart(part)
<1>1. /\ held /\ parts' = Append(parts, part) /\ strand' = Append(strand, task)
      /\ UNCHANGED <<held, send_queue, writes, last, called, socket, gate>>
  BY DEF Queue!Send
<1>2. task.do = "append"
  BY DEF Queue!NewPart
<1> HIDE DEF part, task
<1>3. IsSeq(strand') /\ Len(strand') = Len(strand) + 1 /\ strand'[Len(strand) + 1] = task
      /\ \A i \in 1..Len(strand) : strand'[i] = strand[i]
  BY <1>1, SeqAppend DEF QInv, Typed
<1>4. IsSeq(parts') /\ Len(parts') = Len(parts) + 1
  BY <1>1, SeqAppend DEF QInv, Typed
<1>5. \A i \in 1..Len(strand') : strand'[i] = IF i <= Len(strand) THEN strand[i] ELSE task
  BY <1>3, QueueFacts
<1>6. InStrand' <=> InStrand
  BY <1>2, <1>3, <1>5, QueueFacts DEF InStrand, Busy
<1>7. last = "no"
  BY <1>1 DEF QInv, LastAlone
<1>8. Typed'
  BY <1>1, <1>2, <1>3, <1>4, <1>5, QueueFacts DEF QInv, Typed
<1>9. OneBusy'
  <2>1. \A i, j \in 1..Len(strand') : Busy(i)' /\ Busy(j)' => i = j
    BY <1>2, <1>3, <1>5, QueueFacts DEF QInv, OneBusy, Busy
  <2> QED
    BY <1>1, <1>6, <2>1 DEF QInv, OneBusy, InHand
<1>10. Driven'
  BY <1>1, <1>6 DEF QInv, Driven, InHand
<1>11. LastAlone'
  BY <1>1, <1>7 DEF QInv, LastAlone
<1>12. Parts'
  BY <1>1, <1>3, <1>4, <1>6, QueueFacts DEF QInv, Parts
<1>13. Broken' /\ ErrorsStay'
  BY <1>1, <1>2, <1>3, <1>5, QueueFacts DEF QInv, Broken, ErrorsStay
<1> QED
  BY <1>4, <1>8, <1>9, <1>10, <1>11, <1>12, <1>13 DEF QInv

LEMMA AppendQueue ==
  ASSUME Queue!AppendPart, QInv
  PROVE  QInv'
<1> DEFINE start == Queue!StartIfFirst(send_queue')
<1>1. /\ strand # <<>> /\ Head(strand).do = "append"
      /\ send_queue' = Append(send_queue, Head(strand).part)
      /\ strand' = Tail(strand) \o start
      /\ UNCHANGED <<held, parts, writes, last, called, socket, gate>>
  BY DEF Queue!AppendPart
<1>2. IsSeq(send_queue') /\ Len(send_queue') = Len(send_queue) + 1
  BY <1>1, SeqAppend DEF QInv, Typed
<1>3. /\ IsSeq(Tail(strand)) /\ Len(Tail(strand)) = Len(strand) - 1 /\ Head(strand) = strand[1]
      /\ \A i \in 1..Len(strand) - 1 : Tail(strand)[i] = strand[i + 1]
  BY <1>1, SeqTail DEF QInv, Typed
<1>4. last = "no" /\ strand[1].do = "append" /\ send_queue' # <<>>
  BY <1>1, <1>2, <1>3, SeqFacts, QueueFacts DEF QInv, LastAlone
<1>5. CASE send_queue = <<>>
  <2>1. start = <<Queue!WriteHead>>
    BY <1>2, <1>5, QueueFacts DEF Queue!StartIfFirst
  <2>2. Queue!WriteHead.do = "write"
    BY DEF Queue!WriteHead
  <2> DEFINE head == Queue!WriteHead
  <2> HIDE DEF start, head
  <2>3. strand' = Tail(strand) \o <<head>>
    BY <1>1, <2>1 DEF head
  <2>4. /\ IsSeq(strand') /\ Len(strand') = Len(strand) /\ strand'[Len(strand)] = head
        /\ \A i \in 1..Len(strand) - 1 : strand'[i] = strand[i + 1]
    <3>1. IsSeq(strand) /\ strand # <<>>
      BY <1>1 DEF QInv, Typed
    <3> DEFINE next == Tail(strand) \o <<head>>
    <3>2. /\ IsSeq(next) /\ Len(next) = Len(strand) /\ next[Len(strand)] = head
          /\ \A i \in 1..Len(strand) - 1 : next[i] = strand[i + 1]
      BY <3>1, SeqNext, Zenon
    <3> HIDE DEF next
    <3>3. strand' = next
      BY <2>3 DEF next
    <3> QED
      BY <3>2, <3>3
  <2>5. ~InStrand /\ ~InHand /\ writes = <<>>
    BY <1>4, <1>5, QueueFacts DEF QInv, OneBusy, InHand, LastAlone
  <2>6. \A i \in 1..Len(strand) : strand[i].do = "append"
    BY <2>5 DEF InStrand, Busy
  <2>7. \A i \in 1..Len(strand') : strand'[i].do = IF i = Len(strand) THEN "write" ELSE "append"
    BY <2>2, <2>4, <2>6, QueueFacts DEF head
  <2>8. Len(strand) \in 1..Len(strand') /\ InStrand'
    BY <1>1, <2>4, <2>7, QueueFacts DEF InStrand, Busy
  <2>9. Typed'
    BY <1>1, <1>2, <2>4, <2>7 DEF QInv, Typed
  <2>10. OneBusy'
    <3>1. \A i, j \in 1..Len(strand') : Busy(i)' /\ Busy(j)' => i = j
      BY <2>7 DEF Busy
    <3> QED
      BY <1>1, <1>4, <2>5, <3>1 DEF QInv, OneBusy
  <2>11. Driven' /\ LastAlone'
    BY <1>1, <1>4, <2>8 DEF QInv, Driven, LastAlone
  <2>12. Parts'
    <3>1. Len(called) + Len(send_queue) + Len(strand) = Len(parts)
      BY <2>5 DEF QInv, Parts
    <3>2. Len(called) \in Nat /\ Len(send_queue) \in Nat /\ Len(strand) \in Nat
      BY QueueFacts
    <3>3. /\ Len(called') = Len(called) /\ Len(parts') = Len(parts) /\ gate' = gate
          /\ Len(send_queue') = Len(send_queue) + 1 /\ Len(strand') = Len(strand)
      BY <1>1, <1>2, <2>4
    <3>4. Len(called') + Len(send_queue') + Len(strand') = Len(parts') + 1
      BY <3>1, <3>2, <3>3
    <3> QED
      BY <2>8, <3>4 DEF Parts
  <2>13. Broken' /\ ErrorsStay'
    BY <1>1, <2>7 DEF QInv, Broken, ErrorsStay
  <2> QED
    BY <2>9, <2>10, <2>11, <2>12, <2>13 DEF QInv
<1>6. CASE send_queue # <<>>
  <2>1. start = <<>>
    BY <1>2, <1>6, QueueFacts DEF Queue!StartIfFirst
  <2>2. strand' = Tail(strand)
    BY <1>1, <2>1, SeqTailEmpty DEF QInv, Typed
  <2>3. /\ IsSeq(strand') /\ Len(strand') = Len(strand) - 1
        /\ \A i \in 1..Len(strand') : strand'[i] = strand[i + 1] /\ i + 1 \in 1..Len(strand)
    BY <1>3, <2>2, QueueFacts
  <2>4. InStrand' <=> InStrand
    <3>1. InStrand' => InStrand
      BY <2>3 DEF InStrand, Busy
    <3>2. ASSUME InStrand PROVE InStrand'
      <4>1. PICK i \in 1..Len(strand) : Busy(i)
        BY <3>2 DEF InStrand
      <4>2. i - 1 \in 1..Len(strand') /\ strand'[i - 1] = strand[i]
        BY <1>4, <2>3, <4>1, QueueFacts DEF Busy
      <4> QED
        BY <4>1, <4>2 DEF InStrand, Busy
    <3> QED
      BY <3>1, <3>2
  <2>5. Typed'
    BY <1>1, <1>2, <2>3 DEF QInv, Typed
  <2>6. OneBusy'
    <3>1. \A i, j \in 1..Len(strand') : Busy(i)' /\ Busy(j)' => i = j
      <4> SUFFICES ASSUME NEW i \in 1..Len(strand'), NEW j \in 1..Len(strand'), Busy(i)', Busy(j)'
                   PROVE  i = j
        OBVIOUS
      <4>1. /\ i + 1 \in 1..Len(strand) /\ Busy(i + 1)
            /\ j + 1 \in 1..Len(strand) /\ Busy(j + 1)
        BY <2>3 DEF Busy
      <4>2. \A k, l \in 1..Len(strand) : Busy(k) /\ Busy(l) => k = l
        BY DEF QInv, OneBusy
      <4> HIDE DEF Busy
      <4>3. i + 1 = j + 1
        BY <4>1, <4>2
      <4> QED
        BY <4>3, <2>3, QueueFacts
    <3> QED
      BY <1>1, <1>4, <2>4, <3>1 DEF QInv, OneBusy, InHand
  <2>7. Driven' /\ LastAlone'
    BY <1>1, <1>4, <1>6, <2>4 DEF QInv, Driven, LastAlone, InHand
  <2>8. Parts'
    <3>1. Len(called) + Len(send_queue) + Len(strand)
            = Len(parts) + (IF InStrand THEN 1 ELSE 0)
      BY DEF QInv, Parts
    <3>2. Len(called) \in Nat /\ Len(send_queue) \in Nat /\ Len(strand) \in Nat
      BY QueueFacts
    <3>3. /\ Len(called') = Len(called) /\ Len(parts') = Len(parts) /\ gate' = gate
          /\ Len(send_queue') = Len(send_queue) + 1 /\ Len(strand') = Len(strand) - 1
      BY <1>1, <1>2, <2>3
    <3>4. Len(called') + Len(send_queue') + Len(strand')
            = Len(parts') + (IF InStrand THEN 1 ELSE 0)
      <4> HIDE DEF InStrand
      <4> QED
        BY <3>1, <3>2, <3>3
    <3>5. Len(called') + Len(send_queue') + Len(strand')
            = Len(parts') + (IF InStrand' THEN 1 ELSE 0)
      BY <2>4, <3>4
    <3> QED
      BY <3>5 DEF Parts
  <2>9. Broken' /\ ErrorsStay'
    BY <1>1, <2>3 DEF QInv, Broken, ErrorsStay
  <2> QED
    BY <2>5, <2>6, <2>7, <2>8, <2>9 DEF QInv
<1> QED
  BY <1>5, <1>6

\* The handler at the head of the strand is the only one for its part, and there is no write.
LEMMA HeadBusy ==
  ASSUME QInv, strand # <<>>, Head(strand).do # "append"
  PROVE  /\ last = "no" /\ writes = <<>> /\ send_queue # <<>> /\ InStrand
         /\ Head(strand) = strand[1] /\ 1 \in 1..Len(strand)
         /\ IsSeq(Tail(strand)) /\ Len(Tail(strand)) = Len(strand) - 1
         /\ \A i \in 1..Len(strand) - 1 : Tail(strand)[i].do = "append"
<1>1. /\ IsSeq(Tail(strand)) /\ Len(Tail(strand)) = Len(strand) - 1 /\ Head(strand) = strand[1]
      /\ \A i \in 1..Len(strand) - 1 : Tail(strand)[i] = strand[i + 1]
  BY SeqTail DEF QInv, Typed
<1>2. Len(strand) \in Nat /\ Len(strand) # 0
  BY QueueFacts
<1>3. 1 \in 1..Len(strand) /\ Busy(1)
  BY <1>1, <1>2 DEF Busy
<1>4. InStrand
  BY <1>3 DEF InStrand
<1>5. last = "no" /\ writes = <<>> /\ send_queue # <<>>
  BY <1>4 DEF QInv, LastAlone, OneBusy
<1>6. ASSUME NEW i \in 1..Len(strand) - 1 PROVE Tail(strand)[i].do = "append"
  <2>1. i + 1 \in 1..Len(strand) /\ i + 1 # 1
    BY <1>2
  <2>2. ~Busy(i + 1)
    BY <1>3, <2>1 DEF QInv, OneBusy
  <2> QED
    BY <1>1, <2>2 DEF Busy
<1> QED
  BY <1>1, <1>3, <1>4, <1>5, <1>6

LEMMA StartQueue ==
  ASSUME Queue!StartWrite, QInv
  PROVE  QInv'
<1> DEFINE write == [part |-> Head(send_queue), last |-> FALSE]
<1>1. /\ strand # <<>> /\ Head(strand).do = "write"
      /\ writes' = Append(writes, write) /\ strand' = Tail(strand)
      /\ UNCHANGED <<held, parts, send_queue, last, called, socket, gate>>
  BY DEF Queue!StartWrite
<1>2. ~write.last
  OBVIOUS
<1> HIDE DEF write
<1>3. /\ last = "no" /\ writes = <<>> /\ send_queue # <<>> /\ InStrand
      /\ IsSeq(strand') /\ Len(strand') = Len(strand) - 1
      /\ \A i \in 1..Len(strand') : strand'[i].do = "append"
  BY <1>1, HeadBusy
<1>4. writes' = <<write>>
  BY <1>1, <1>3
<1>5. IsSeq(writes') /\ Len(writes') = 1 /\ writes'[1] = write /\ writes' # <<>>
  BY <1>4, SeqOne
<1>6. ~InStrand' /\ InHand'
  BY <1>2, <1>3, <1>5 DEF InStrand, InHand, Busy
<1>7. Typed'
  BY <1>1, <1>3, <1>5 DEF QInv, Typed
<1>8. OneBusy'
  BY <1>1, <1>3, <1>5, <1>6 DEF OneBusy, Busy
<1>9. Driven' /\ LastAlone'
  BY <1>1, <1>2, <1>3, <1>5, <1>6 DEF QInv, Driven, LastAlone
<1>10. Parts'
  <2>1. Len(called) + Len(send_queue) + Len(strand) = Len(parts) + 1
    BY <1>3 DEF QInv, Parts
  <2>2. /\ Len(called') = Len(called) /\ Len(parts') = Len(parts) /\ gate' = gate
        /\ Len(send_queue') = Len(send_queue) /\ Len(strand') = Len(strand) - 1
    BY <1>1, <1>3
  <2>3. Len(called') + Len(send_queue') + Len(strand') = Len(parts')
    BY <2>1, <2>2, QueueFacts
  <2>4. Len(parts') \in Nat
    BY <2>2, QueueFacts
  <2> QED
    BY <1>6, <2>3, <2>4 DEF Parts
<1>11. Broken' /\ ErrorsStay'
  BY <1>1, <1>3 DEF QInv, Broken, ErrorsStay
<1> QED
  BY <1>7, <1>8, <1>9, <1>10, <1>11 DEF QInv

LEMMA WrittenQueue ==
  ASSUME Queue!PartWritten, QInv
  PROVE  QInv'
<1>1. /\ strand # <<>> /\ Head(strand).do = "written"
      /\ UNCHANGED <<held, parts, writes, last, socket, gate>>
  BY DEF Queue!PartWritten
<1>2. /\ last = "no" /\ writes = <<>> /\ send_queue # <<>> /\ InStrand
      /\ Head(strand) = strand[1] /\ 1 \in 1..Len(strand)
      /\ IsSeq(Tail(strand)) /\ Len(Tail(strand)) = Len(strand) - 1
      /\ \A i \in 1..Len(strand) - 1 : Tail(strand)[i].do = "append"
  BY <1>1, HeadBusy
<1>3. Len(strand) \in Nat /\ Len(called) \in Nat /\ Len(send_queue) \in Nat /\ Len(parts) \in Nat
  BY QueueFacts
<1>4. Len(called) + Len(send_queue) + Len(strand) = Len(parts) + 1
  BY <1>2 DEF QInv, Parts
<1>5. LastAlone'
  BY <1>1, <1>2 DEF QInv, LastAlone
<1>6. ASSUME strand' = Tail(strand)
      PROVE  /\ IsSeq(strand') /\ Len(strand') = Len(strand) - 1 /\ ~InStrand'
             /\ OneBusy' /\ Broken'
             /\ \A i \in 1..Len(strand') : strand'[i].do = "append"
  <2>1. \A i \in 1..Len(strand') : strand'[i].do = "append"
    BY <1>2, <1>6
  <2>2. ~InStrand' /\ ~InHand' /\ Len(writes') = 0
    BY <1>1, <1>2, <2>1, SeqEmpty DEF InStrand, InHand, Busy
  <2>3. OneBusy' /\ Broken'
    BY <2>1, <2>2 DEF OneBusy, Broken, Busy
  <2> QED
    BY <1>2, <1>6, <2>1, <2>2, <2>3
<1>7. CASE gate = "shut"
  <2>1. strand' = Tail(strand) /\ UNCHANGED <<send_queue, called>>
    BY <1>7 DEF Queue!PartWritten
  <2>2. Typed' /\ ErrorsStay'
    BY <1>1, <1>2, <1>6, <2>1 DEF QInv, Typed, ErrorsStay
  <2>3. Driven'
    BY <1>1, <1>7 DEF Driven
  <2>4. Parts'
    <3>1. Len(called') + Len(send_queue') + Len(strand') = Len(parts')
      BY <1>1, <1>3, <1>4, <1>6, <2>1
    <3>2. Len(parts') \in Nat /\ ~InStrand'
      BY <1>1, <1>3, <1>6, <2>1
    <3> QED
      BY <3>1, <3>2 DEF Parts
  <2> QED
    BY <1>5, <1>6, <2>1, <2>2, <2>3, <2>4 DEF QInv
<1>8. CASE gate # "shut" /\ Head(strand).ok
  <2> DEFINE next == IF send_queue' # <<>> THEN <<Queue!WriteHead>> ELSE <<>>
  <2>1. /\ called' = Append(called, TRUE) /\ send_queue' = Tail(send_queue)
        /\ strand' = Tail(strand) \o next
    BY <1>8 DEF Queue!PartWritten
  <2>2. IsSeq(send_queue') /\ Len(send_queue') = Len(send_queue) - 1
    BY <1>2, <2>1, SeqTail DEF QInv, Typed
  <2>3. /\ called' \in Seq(BOOLEAN) /\ Len(called') = Len(called) + 1
        /\ (\A i \in DOMAIN called : called[i]) => \A i \in DOMAIN called' : called'[i]
    <3>1. called \in Seq(BOOLEAN)
      BY DEF QInv, Typed
    <3> QED
      BY <2>1, <3>1, OneMoreTrue
  <2>4. \A i \in DOMAIN called : called[i]
    BY <1>1, <1>2, <1>8 DEF QInv, ErrorsStay
  <2>5. ErrorsStay'
    BY <2>3, <2>4 DEF ErrorsStay
  <2>6. CASE send_queue' = <<>>
    <3>1. strand' = Tail(strand)
      BY <1>1, <2>1, <2>6, SeqTailEmpty DEF QInv, Typed
    <3>2. Typed'
      BY <1>1, <1>6, <2>2, <2>3, <3>1 DEF QInv, Typed
    <3>3. Driven'
      BY <2>6 DEF Driven
    <3>4. Parts'
      <4>1. /\ Len(parts') = Len(parts) /\ gate' = gate /\ Len(strand') = Len(strand) - 1
        BY <1>1, <1>6, <3>1
      <4>2. Len(called') + Len(send_queue') + Len(strand') = Len(parts')
        BY <1>3, <1>4, <2>2, <2>3, <4>1
      <4>3. Len(parts') \in Nat
        BY <1>3, <4>1
      <4>4. ~InStrand'
        BY <1>6, <3>1
      <4> QED
        BY <4>2, <4>3, <4>4 DEF Parts
    <3> QED
      BY <1>5, <1>6, <2>5, <3>1, <3>2, <3>3, <3>4 DEF QInv
  <2>7. CASE send_queue' # <<>>
    <3> DEFINE head == Queue!WriteHead
               all == Tail(strand) \o <<head>>
    <3>1. head.do = "write" /\ strand' = all
      BY <2>1, <2>7 DEF Queue!WriteHead
    <3> HIDE DEF head
    <3>2. IsSeq(strand)
      BY DEF QInv, Typed
    <3>3. /\ IsSeq(all) /\ Len(all) = Len(strand) /\ all[Len(strand)] = head
          /\ \A i \in 1..Len(strand) - 1 : all[i] = strand[i + 1]
      BY <1>1, <3>2, SeqNext, Zenon
    <3> HIDE DEF all
    <3>4. \A i \in 1..Len(strand) - 1 : strand[i + 1].do = "append"
      BY <1>1, <1>2, <3>2, SeqTail
    <3>5. \A i \in 1..Len(strand') : strand'[i].do = IF i = Len(strand) THEN "write" ELSE "append"
      BY <1>3, <3>1, <3>3, <3>4
    <3>6. IsSeq(strand') /\ Len(strand') = Len(strand) /\ Len(strand) \in 1..Len(strand')
      BY <1>2, <1>3, <3>1, <3>3
    <3>7. InStrand' /\ ~InHand'
      BY <1>1, <1>2, <3>5, <3>6 DEF InStrand, InHand, Busy
    <3>8. Typed'
      BY <1>1, <2>2, <2>3, <3>5, <3>6 DEF QInv, Typed
    <3>9. OneBusy'
      <4>1. \A i, j \in 1..Len(strand') : Busy(i)' /\ Busy(j)' => i = j
        BY <3>5 DEF Busy
      <4>2. writes' = <<>> /\ Len(writes') = 0
        BY <1>1, <1>2, SeqEmpty
      <4> QED
        BY <2>7, <4>1, <4>2 DEF OneBusy
    <3>10. Driven' /\ Broken'
      BY <3>5, <3>7 DEF Driven, Broken
    <3>11. Parts'
      <4>1. Len(parts') = Len(parts) /\ gate' = gate
        BY <1>1
      <4>2. /\ Len(called') = Len(called) + 1 /\ Len(send_queue') = Len(send_queue) - 1
            /\ Len(strand') = Len(strand)
        BY <2>2, <2>3, <3>6
      <4>3. Len(called') + Len(send_queue') + Len(strand') = Len(parts') + 1
        BY <1>3, <1>4, <4>1, <4>2
      <4> QED
        BY <3>7, <4>3 DEF Parts
    <3> QED
      BY <1>5, <2>5, <3>8, <3>9, <3>10, <3>11 DEF QInv
  <2> QED
    BY <2>6, <2>7
<1>9. CASE gate # "shut" /\ ~Head(strand).ok
  <2> DEFINE fail == Queue!AllFail(send_queue)
  <2>1. called' = called \o fail /\ send_queue' = <<>> /\ strand' = Tail(strand)
    BY <1>9 DEF Queue!PartWritten
  <2>2. fail \in Seq(BOOLEAN) /\ Len(fail) = Len(send_queue)
    BY <1>3, QueueFacts DEF Queue!AllFail
  <2> HIDE DEF fail
  <2>3. called' \in Seq(BOOLEAN) /\ Len(called') = Len(called) + Len(send_queue)
    <3>1. called \in Seq(BOOLEAN)
      BY DEF QInv, Typed
    <3>2. called \o fail \in Seq(BOOLEAN) /\ Len(called \o fail) = Len(called) + Len(fail)
      BY <2>2, <3>1, ConcatProperties
    <3> QED
      BY <2>1, <2>2, <3>2
  <2>4. IsSeq(send_queue') /\ Len(send_queue') = 0
    BY <2>1, SeqEmpty
  <2>5. Typed' /\ Driven'
    BY <1>1, <1>6, <2>1, <2>3, <2>4 DEF QInv, Typed, Driven
  <2>6. ErrorsStay'
    BY <1>1, <1>2, <1>6, <1>9, <2>1 DEF QInv, Broken, ErrorsStay
  <2>7. Parts'
    <3>1. /\ Len(parts') = Len(parts) /\ gate' = gate /\ Len(strand') = Len(strand) - 1
      BY <1>1, <1>6, <2>1
    <3>2. Len(called') + Len(send_queue') + Len(strand') = Len(parts')
      BY <1>3, <1>4, <2>3, <2>4, <3>1
    <3>3. Len(parts') \in Nat
      BY <1>3, <3>1
    <3>4. ~InStrand'
      BY <1>6, <2>1
    <3> QED
      BY <3>2, <3>3, <3>4 DEF Parts
  <2> QED
    BY <1>5, <1>6, <2>1, <2>5, <2>6, <2>7 DEF QInv
<1> QED
  BY <1>7, <1>8, <1>9

LEMMA DeleteQueue ==
  ASSUME Queue!SendOnDelete, QInv
  PROVE  QInv'
<1> DEFINE write == [part |-> todo, last |-> TRUE]
<1>1. /\ last = "no" /\ ~held /\ strand = <<>> /\ writes = <<>>
      /\ last' = "writing" /\ writes' = Append(writes, write)
      /\ UNCHANGED <<held, parts, strand, send_queue, called, socket, gate>>
  BY DEF Queue!SendOnDelete, Queue!Unreferenced
<1>2. write.last = TRUE
  OBVIOUS
<1> HIDE DEF write
<1>3. writes' = <<write>>
  BY <1>1
<1>4. IsSeq(writes') /\ Len(writes') = 1 /\ writes'[1] = write /\ writes' # <<>>
  BY <1>3, SeqOne
<1>5. Len(strand) = 0 /\ ~InStrand /\ ~InHand
  BY <1>1, SeqEmpty DEF InStrand, InHand
<1>6. ~InStrand' /\ ~InHand'
  BY <1>1, <1>2, <1>4, <1>5 DEF InStrand, InHand
<1>7. Typed'
  BY <1>1, <1>4 DEF QInv, Typed
<1>8. OneBusy'
  BY <1>1, <1>4, <1>5, <1>6 DEF OneBusy
<1>9. Driven' /\ LastAlone'
  BY <1>1, <1>2, <1>4, <1>5 DEF QInv, Driven, LastAlone
<1>10. Parts'
  BY <1>1, <1>5, <1>6 DEF QInv, Parts
<1>11. Broken' /\ ErrorsStay'
  BY <1>1, <1>5 DEF QInv, Broken, ErrorsStay
<1> QED
  BY <1>7, <1>8, <1>9, <1>10, <1>11 DEF QInv

LEMMA CompleteQueue ==
  ASSUME Queue!Complete, QInv
  PROVE  QInv'
<1>1. PICK i \in DOMAIN writes : Queue!WriteCompletes(i) \/ Queue!WriteFails(i)
  BY DEF Queue!Complete
<1>2. i = 1 /\ Len(writes) = 1 /\ writes # <<>>
  <2>1. Len(writes) <= 1
    BY DEF QInv, OneBusy
  <2>2. Len(writes) \in Nat /\ DOMAIN writes = 1..Len(writes) /\ (writes = <<>> <=> Len(writes) = 0)
    BY QueueFacts
  <2> QED
    BY <1>1, <2>1, <2>2
<1>3. PICK ok \in BOOLEAN : /\ Queue!Completes(1, ok) /\ (ok <=> socket = "open")
                            /\ UNCHANGED <<held, parts, send_queue, called, socket, gate>>
  BY <1>1, <1>2 DEF Queue!WriteCompletes, Queue!WriteFails
<1>4. writes' = <<>> /\ IsSeq(writes') /\ Len(writes') = 0
  <2>1. SubSeq(writes, 1, 0) = <<>> /\ SubSeq(writes, 2, 1) = <<>>
    BY SubSeqEmpty
  <2>2. writes' = SubSeq(writes, 1, 1 - 1) \o SubSeq(writes, 1 + 1, Len(writes))
    BY <1>3 DEF Queue!Completes
  <2>3. 1 - 1 = 0 /\ 1 + 1 = 2
    OBVIOUS
  <2>4. writes' = SubSeq(writes, 1, 0) \o SubSeq(writes, 2, 1)
    BY <1>2, <2>2, <2>3
  <2>5. <<>> \o <<>> = <<>>
    BY EmptySeq, ConcatEmptySeq
  <2> QED
    BY <2>1, <2>4, <2>5, SeqEmpty
<1>5. ~InStrand /\ ~InHand'
  BY <1>2, <1>4 DEF QInv, OneBusy, InHand
<1>6. CASE writes[1].last
  <2>1. last' \in {"written", "failed"} /\ strand' = strand /\ last = "writing"
    BY <1>2, <1>3, <1>6 DEF Queue!Completes, QInv, LastAlone
  <2>2. ~InStrand' /\ ~InHand
    BY <1>5, <1>6, <2>1 DEF InStrand, InHand, Busy
  <2>3. Typed'
    BY <1>3, <1>4, <2>1 DEF QInv, Typed
  <2>4. OneBusy'
    BY <1>3, <1>4, <1>5, <2>1, <2>2 DEF QInv, OneBusy, Busy
  <2>5. Driven' /\ LastAlone'
    BY <1>3, <1>4, <1>5, <2>1, <2>2 DEF QInv, Driven, LastAlone
  <2>6. Parts'
    BY <1>3, <1>5, <2>1, <2>2 DEF QInv, Parts
  <2>7. Broken' /\ ErrorsStay'
    BY <1>3, <2>1 DEF QInv, Broken, ErrorsStay
  <2> QED
    BY <2>3, <2>4, <2>5, <2>6, <2>7 DEF QInv
<1>7. CASE ~writes[1].last
  <2> DEFINE task == Queue!Written(ok)
  <2>1. last' = last /\ strand' = Append(strand, task) /\ last = "no"
    BY <1>2, <1>3, <1>7 DEF Queue!Completes, QInv, LastAlone
  <2>2. task.do = "written" /\ task.ok = ok
    BY DEF Queue!Written
  <2> HIDE DEF task
  <2>3. /\ IsSeq(strand') /\ Len(strand') = Len(strand) + 1 /\ strand'[Len(strand) + 1] = task
        /\ \A j \in 1..Len(strand) : strand'[j] = strand[j]
    BY <2>1, SeqAppend DEF QInv, Typed
  <2>4. Len(strand) \in Nat /\ Len(strand) + 1 \in 1..Len(strand')
    BY <2>3, QueueFacts
  <2>5. \A j \in 1..Len(strand') : strand'[j] = IF j = Len(strand) + 1 THEN task ELSE strand[j]
    BY <2>3, <2>4
  <2>6. \A j \in 1..Len(strand) : strand[j].do = "append"
    BY <1>5 DEF InStrand, Busy
  <2>7. \A j \in 1..Len(strand') :
          strand'[j].do = IF j = Len(strand) + 1 THEN "written" ELSE "append"
    BY <2>2, <2>3, <2>4, <2>5, <2>6
  <2>8. InStrand' /\ InHand /\ send_queue' # <<>>
    BY <1>2, <1>3, <1>7, <2>4, <2>7 DEF InStrand, InHand, Busy, QInv, OneBusy
  <2>9. Typed'
    BY <1>3, <1>4, <2>1, <2>3, <2>7 DEF QInv, Typed
  <2>10. OneBusy'
    <3>1. \A j, k \in 1..Len(strand') : Busy(j)' /\ Busy(k)' => j = k
      BY <2>7 DEF Busy
    <3> QED
      BY <1>4, <2>8, <3>1 DEF OneBusy
  <2>11. Driven' /\ LastAlone'
    BY <1>4, <2>1, <2>8 DEF Driven, LastAlone
  <2>12. Parts'
    <3>1. Len(called) + Len(send_queue) + Len(strand) = Len(parts)
      <4>1. Len(parts) \in Nat
        BY QueueFacts
      <4> QED
        BY <1>5, <4>1 DEF QInv, Parts
    <3>2. /\ Len(called') = Len(called) /\ Len(parts') = Len(parts) /\ gate' = gate
          /\ Len(send_queue') = Len(send_queue)
      BY <1>3
    <3>3. Len(called') + Len(send_queue') + Len(strand') = Len(parts') + 1
      <4>1. Len(called) \in Nat /\ Len(send_queue) \in Nat /\ Len(parts) \in Nat
        BY QueueFacts
      <4> QED
        BY <2>3, <2>4, <3>1, <3>2, <4>1
    <3> QED
      BY <2>8, <3>3 DEF Parts
  <2>13. Broken'
    BY <1>3, <2>2, <2>4, <2>5, <2>7 DEF Broken
  <2>14. ErrorsStay'
    BY <1>3, <2>1, <2>2, <2>4, <2>5, <2>7 DEF QInv, ErrorsStay
  <2> QED
    BY <2>9, <2>10, <2>11, <2>12, <2>13, <2>14 DEF QInv
<1> QED
  BY <1>6, <1>7

-----------------------------------------------------------------------------
(* The exchange *)

LEMMA InitIInv == Init => IInv
<1> SUFFICES ASSUME Init PROVE IInv
  OBVIOUS
<1>1. /\ held = FALSE /\ parts = <<>> /\ strand = <<>> /\ send_queue = <<>> /\ writes = <<>>
      /\ last = "done" /\ called = <<>> /\ socket = "open" /\ gate = "open"
      /\ server = Server!Reading
  BY DEF Init, Queue!NoResponse
<1>2. IsSeq(<<>>) /\ Len(<<>>) = 0 /\ <<>> \in Seq(BOOLEAN)
  BY SeqEmpty
<1>3. Typed
  <2>1. IsSeq(strand) /\ IsSeq(send_queue) /\ IsSeq(writes) /\ IsSeq(parts) /\ called \in Seq(BOOLEAN)
    BY <1>1, <1>2
  <2>2. Len(strand) = 0
    BY <1>1, <1>2
  <2>3. /\ held \in BOOLEAN /\ socket \in {"open", "closed", "broken"} /\ gate \in {"open", "shut"}
        /\ last \in {"no", "writing", "written", "failed", "done"}
    BY <1>1
  <2> QED
    BY <2>1, <2>2, <2>3 DEF Typed
<1>4. ~InStrand /\ ~InHand
  BY <1>1, <1>2 DEF InStrand, InHand
<1>5. OneBusy /\ Driven /\ LastAlone /\ Parts /\ Broken /\ ErrorsStay
  BY <1>1, <1>2, <1>4 DEF OneBusy, Driven, LastAlone, Parts, Broken, ErrorsStay
<1>6. Serving
  BY <1>1, NewSession DEF Serving
<1> QED
  BY <1>3, <1>5, <1>6 DEF IInv, QInv

\* The steps that concern the Response.
QueueStep ==
  \/ \E n \in PartSizes : SendPart(n)
  \/ ReleaseResponse \/ RunStrand \/ WritePart \/ SendOnDelete

LEMMA QueueStepQInv ==
  ASSUME QInv, QueueStep
  PROVE  QInv' /\ UNCHANGED server /\ UNCHANGED gate
<1>1. ASSUME NEW n, SendPart(n) PROVE QInv' /\ UNCHANGED server /\ UNCHANGED gate
  BY <1>1, SendQueue DEF SendPart, serverVars, Queue!Send
<1>2. CASE ReleaseResponse
  <2>1. /\ UNCHANGED <<parts, strand, send_queue, writes, called, last, gate, socket>>
        /\ held' = FALSE
    BY <1>2 DEF ReleaseResponse, Queue!Release
  <2>2. socket' \in {"open", "closed", "broken"}
    BY <2>1 DEF QInv, Typed
  <2>3. QInv'
    BY <2>1, <2>2, QueueKept
  <2> QED
    BY <1>2, <2>1, <2>3 DEF ReleaseResponse, serverVars
<1>3. CASE RunStrand
  <2>1. Queue!AppendPart \/ Queue!StartWrite \/ Queue!PartWritten
    BY <1>3 DEF RunStrand, Queue!RunStrand
  <2>2. QInv'
    BY <2>1, AppendQueue, StartQueue, WrittenQueue
  <2>3. UNCHANGED gate
    BY <2>1 DEF Queue!AppendPart, Queue!StartWrite, Queue!PartWritten
  <2> QED
    BY <1>3, <2>2, <2>3 DEF RunStrand, serverVars
<1>4. CASE WritePart
  <2>1. Queue!Complete
    BY <1>4 DEF WritePart
  <2>2. QInv'
    BY <2>1, CompleteQueue
  <2>3. UNCHANGED gate
    BY <2>1 DEF Queue!Complete, Queue!WriteCompletes, Queue!WriteFails
  <2> QED
    BY <1>4, <2>2, <2>3 DEF WritePart, serverVars
<1>5. CASE SendOnDelete
  <2>1. Queue!SendOnDelete
    BY <1>5 DEF SendOnDelete
  <2>2. QInv' /\ UNCHANGED gate
    BY <2>1, DeleteQueue DEF Queue!SendOnDelete
  <2> QED
    BY <1>5, <2>2 DEF SendOnDelete, serverVars
<1> QED
  BY <1>1, <1>2, <1>3, <1>4, <1>5 DEF QueueStep

\* The other steps, but for the call of a resource function.
OtherStep ==
  \/ ServerReads \/ ClientReads \/ DropSession \/ LastWritten
  \/ \E n \in Pieces : DeliverToServer(n) \/ DeliverToClient(n)
  \/ EndsForServer \/ EndsForClient
  \/ \E m \in Requests : SendRequest(m)
  \/ Break \/ Reconnect \/ ShutGate

\* What they do to the queue.
Aside ==
  /\ UNCHANGED <<parts, strand, send_queue, writes, called, held>>
  /\ last' = last \/ (last \in {"written", "failed"} /\ last' = "done")
  /\ gate' = gate \/ gate' = "shut"
  /\ socket' \in {"open", "closed", "broken"}
  /\ socket' = socket \/ socket' # "open" \/ last' = "done"

LEMMA OtherAside ==
  ASSUME QInv, OtherStep
  PROVE  Aside
<1>1. socket \in {"open", "closed", "broken"}
  BY DEF QInv, Typed
<1> USE <1>1 DEF Aside, queueVars
<1>2. CASE ServerReads
  BY <1>2 DEF ServerReads
<1>3. CASE ClientReads
  BY <1>3 DEF ClientReads
<1>4. CASE DropSession
  BY <1>4 DEF DropSession
<1>5. CASE LastWritten
  BY <1>5 DEF LastWritten
<1>6. ASSUME NEW n \in Pieces, DeliverToServer(n) \/ DeliverToClient(n) PROVE Aside
  BY <1>6 DEF DeliverToServer, DeliverToClient
<1>7. CASE EndsForServer \/ EndsForClient
  BY <1>7 DEF EndsForServer, EndsForClient
<1>8. ASSUME NEW m \in Requests, SendRequest(m) PROVE Aside
  BY <1>8 DEF SendRequest
<1>9. CASE Break \/ ShutGate
  BY <1>9 DEF Break, ShutGate
<1>10. CASE Reconnect
  BY <1>10 DEF Reconnect, Quiet
<1> QED
  BY <1>2, <1>3, <1>4, <1>5, <1>6, <1>7, <1>8, <1>9, <1>10 DEF OtherStep

LEMMA AsideQInv ==
  ASSUME QInv, Aside
  PROVE  QInv'
<1>1. held' \in BOOLEAN /\ (held' => held)
  BY DEF QInv, Typed, Aside
<1> QED
  BY <1>1, QueueKept DEF Aside

LEMMA OtherServing ==
  ASSUME QInv, Serving, OtherStep
  PROVE  Serving'
<1>1. Reads(server)
  BY DEF Serving, Reads
<1>2. gate \in {"open", "shut"}
  BY DEF QInv, Typed
<1>3. CASE ServerReads
  <2>1. gate' = gate
    BY <1>3 DEF ServerReads
  <2>2. CASE gate = "shut"
    <3>1. server' = [server EXCEPT !.op = "failed"]
      BY <1>3, <2>2 DEF ServerReads
    <3> QED
      BY <1>1, <3>1 DEF Serving, Reads, IsSession
  <2>3. CASE gate # "shut"
    <3>1. Server!Handlers
      BY <1>3, <2>3 DEF ServerReads
    <3>2. Reads(server')
      BY <1>1, <3>1, HandlersRead
    <3> QED
      BY <1>2, <2>1, <2>3, <3>2 DEF Serving, Reads
  <2> QED
    BY <2>2, <2>3
<1>4. ASSUME server' = Server!Nothing \/ server' = Server!Reading PROVE Serving'
  BY <1>4, NewSession DEF Serving
<1>5. ASSUME UNCHANGED server, gate' = gate \/ server.op # "done" PROVE Serving'
  BY <1>5 DEF Serving
<1>6. ASSUME Reads(server'), server'.op # "done" PROVE Serving'
  BY <1>6 DEF Serving, Reads
<1>7. CASE DropSession
  BY <1>4, <1>7 DEF DropSession
<1>8. CASE LastWritten
  BY <1>4, <1>5, <1>8 DEF LastWritten
<1>9. CASE Reconnect
  BY <1>4, <1>9 DEF Reconnect
<1>10. ASSUME NEW n \in Pieces, DeliverToServer(n) PROVE Serving'
  <2>1. Reads(server') /\ server'.op # "done"
    BY <1>1, <1>10, WaitingReads DEF DeliverToServer
  <2> QED
    BY <1>6, <2>1
<1>11. CASE EndsForServer
  <2>1. Server!Receive(0) \/ Server!EndOfStream \/ Server!Fail
    BY <1>11 DEF EndsForServer
  <2>2. Reads(server') /\ server'.op # "done"
    BY <1>1, <2>1, WaitingReads
  <2> QED
    BY <1>6, <2>2
<1>12. ASSUME NEW n \in Pieces, DeliverToClient(n) PROVE Serving'
  BY <1>5, <1>12 DEF DeliverToClient, serverVars
<1>13. ASSUME NEW m \in Requests, SendRequest(m) PROVE Serving'
  BY <1>5, <1>13 DEF SendRequest
<1>14. CASE ClientReads \/ EndsForClient \/ Break \/ ShutGate
  BY <1>5, <1>14 DEF ClientReads, EndsForClient, Break, ShutGate, serverVars
<1> QED
  BY <1>3, <1>7, <1>8, <1>9, <1>10, <1>11, <1>12, <1>13, <1>14 DEF OtherStep

LEMMA ServeIInv ==
  ASSUME IInv, NEW m, ServeRequest(m)
  PROVE  IInv'
<1>1. Queue!NewResponse(Server!Wire(m)) /\ UNCHANGED <<socket, gate>> /\ server' = Server!Nothing
  BY DEF ServeRequest
<1>2. QInv'
  BY <1>1, NewQueue DEF IInv
<1>3. Serving'
  BY <1>1, NewSession DEF Serving
<1> QED
  BY <1>2, <1>3 DEF IInv

LEMMA NextSteps ==
  Next <=> QueueStep \/ OtherStep \/ \E m \in Responses : ServeRequest(m)
BY DEF Next, Progress, QueueStep, OtherStep

LEMMA NextIInv == IInv /\ [Next]_vars => IInv'
<1> SUFFICES ASSUME IInv, [Next]_vars PROVE IInv'
  OBVIOUS
<1>1. CASE QueueStep
  <2>1. QInv' /\ UNCHANGED server /\ UNCHANGED gate
    BY <1>1, QueueStepQInv DEF IInv
  <2>2. Serving'
    BY <2>1 DEF IInv, Serving
  <2> QED
    BY <2>1, <2>2 DEF IInv
<1>2. CASE OtherStep
  BY <1>2, OtherAside, AsideQInv, OtherServing DEF IInv
<1>3. CASE \E m \in Responses : ServeRequest(m)
  BY <1>3, ServeIInv
<1>4. CASE UNCHANGED vars
  <2>1. Aside /\ UNCHANGED <<server, gate>>
    BY <1>4 DEF Aside, vars, queueVars, serverVars, IInv, QInv, Typed
  <2>2. QInv'
    BY <2>1, AsideQInv DEF IInv
  <2>3. Serving'
    BY <2>1 DEF IInv, Serving
  <2> QED
    BY <2>2, <2>3 DEF IInv
<1> QED
  BY <1>1, <1>2, <1>3, <1>4, NextSteps

\* The queue, the last write and the call of the resource function, on any connection.
THEOREM Invariant == Spec => []IInv
BY InitIInv, NextIInv, PTL DEF Spec

-----------------------------------------------------------------------------
(* One write at a time *)

\* No write is started on the socket while another is in progress, whatever is sent and
\* from whichever thread, and none without a part: ResponseQueue.OneWrite.
THEOREM WritesAlone == Spec => []OneWrite
<1>1. IInv => OneWrite
  <2> SUFFICES ASSUME IInv PROVE OneWrite
    OBVIOUS
  <2>1. QInv
    BY DEF IInv
  <2>2. strand # <<>> /\ Head(strand).do \in {"write", "written"} => send_queue # <<>>
    BY <2>1, HeadBusy
  <2> QED
    BY <2>1, <2>2 DEF OneWrite, Queue!OneWrite, QInv, OneBusy
<1> QED
  BY <1>1, Invariant, PTL

-----------------------------------------------------------------------------
(* The queue implements the fifo *)

LEMMA FifoSends ==
  ASSUME QInv, NEW n, SendPart(n)
  PROVE  Queue!Fifo!Send
BY SendQueue DEF SendPart, Queue!Send, Queue!Fifo!Send

LEMMA FifoCalls ==
  ASSUME QInv, Queue!PartWritten
  PROVE  [Queue!Fifo!Next]_(Queue!Fifo!vars)
<1>1. strand # <<>> /\ Head(strand).do = "written" /\ UNCHANGED <<parts, gate>>
  BY DEF Queue!PartWritten
<1>2. /\ last = "no" /\ send_queue # <<>> /\ InStrand
      /\ Head(strand) = strand[1] /\ 1 \in 1..Len(strand)
  BY <1>1, HeadBusy
<1>3. /\ Len(strand) \in Nat /\ Len(called) \in Nat /\ Len(send_queue) \in Nat
      /\ Len(parts) \in Nat /\ Len(send_queue) # 0 /\ Len(strand) # 0
      /\ DOMAIN send_queue = 1..Len(send_queue)
  BY <1>1, <1>2, QueueFacts
<1>4. gate = "open" => Len(called) + Len(send_queue) + Len(strand) = Len(parts) + 1
  BY <1>2 DEF QInv, Parts
<1>5. gate = "open" => Len(send_queue) <= Len(parts) - Len(called)
  BY <1>3, <1>4
<1>6. CASE gate = "shut"
  BY <1>1, <1>6 DEF Queue!PartWritten, Queue!Fifo!vars
<1>7. CASE gate = "open" /\ Head(strand).ok
  <2>1. called' = Append(called, TRUE)
    BY <1>7 DEF Queue!PartWritten
  <2>2. \A i \in DOMAIN called : called[i]
    BY <1>1, <1>2, <1>7 DEF QInv, ErrorsStay
  <2>3. Len(parts) - Len(called) > 0
    BY <1>3, <1>5, <1>7
  <2> QED
    BY <1>1, <1>7, <2>1, <2>2, <2>3 DEF Queue!Fifo!Succeed, Queue!Fifo!Next, Queue!Fifo!Outstanding
<1>8. CASE gate = "open" /\ ~Head(strand).ok
  <2>1. called' = called \o [i \in 1..Len(send_queue) |-> FALSE]
    BY <1>3, <1>8 DEF Queue!PartWritten, Queue!AllFail
  <2>2. Len(send_queue) \in 1..Queue!Fifo!Outstanding
    BY <1>3, <1>5, <1>8 DEF Queue!Fifo!Outstanding
  <2>3. Queue!Fifo!FailParts(Len(send_queue))
    BY <1>1, <1>8, <2>1, <2>2 DEF Queue!Fifo!FailParts
  <2> QED
    BY <2>2, <2>3 DEF Queue!Fifo!Next
<1> QED
  BY <1>6, <1>7, <1>8 DEF QInv, Typed

\* Nothing of a Response is outstanding when the next one is made.
LEMMA FifoBegins ==
  ASSUME IInv, NEW m, ServeRequest(m)
  PROVE  Queue!Fifo!NextResponse
<1>1. /\ last = "done" /\ gate = "open" /\ gate' = gate /\ parts' = <<>> /\ called' = <<>>
  BY DEF ServeRequest, Queue!NewResponse, IInv, Serving
<1>2. strand = <<>> /\ writes = <<>>
  BY <1>1 DEF IInv, QInv, LastAlone
<1>3. ~InStrand /\ ~InHand /\ Len(strand) = 0
  BY <1>2, SeqEmpty DEF InStrand, InHand
<1>4. send_queue = <<>> /\ Len(send_queue) = 0
  BY <1>1, <1>3, SeqEmpty DEF IInv, QInv, Driven
<1>5. Len(called) = Len(parts) /\ Len(called) \in Nat
  <2>1. Len(called) \in Nat /\ Len(parts) \in Nat
    BY QueueFacts DEF IInv
  <2>2. Len(called) + Len(send_queue) + Len(strand) = Len(parts)
    BY <1>1, <1>3, <2>1 DEF IInv, QInv, Parts
  <2> QED
    BY <1>3, <1>4, <2>1, <2>2
<1> QED
  BY <1>1, <1>5, SeqEmpty DEF Queue!Fifo!NextResponse, Queue!Fifo!Outstanding

LEMMA FifoStep ==
  ASSUME IInv, [Next]_vars
  PROVE  [Queue!Fifo!Next]_(Queue!Fifo!vars)
<1>1. ASSUME NEW n, SendPart(n) PROVE [Queue!Fifo!Next]_(Queue!Fifo!vars)
  BY <1>1, FifoSends DEF IInv, Queue!Fifo!Next
<1>2. ASSUME UNCHANGED <<parts, called>>, gate' = gate \/ gate' = "shut"
      PROVE  [Queue!Fifo!Next]_(Queue!Fifo!vars)
  BY <1>2 DEF Queue!Fifo!Next, Queue!Fifo!Shut, Queue!Fifo!vars
<1>3. CASE ReleaseResponse \/ WritePart \/ SendOnDelete
  BY <1>2, <1>3 DEF ReleaseResponse, WritePart, SendOnDelete, Queue!Release, Queue!Complete,
       Queue!WriteCompletes, Queue!WriteFails, Queue!SendOnDelete
<1>4. CASE RunStrand
  <2>1. CASE Queue!AppendPart \/ Queue!StartWrite
    BY <1>2, <2>1 DEF Queue!AppendPart, Queue!StartWrite
  <2>2. CASE Queue!PartWritten
    BY <2>2, FifoCalls DEF IInv
  <2> QED
    BY <1>4, <2>1, <2>2 DEF RunStrand, Queue!RunStrand
<1>5. CASE QueueStep
  BY <1>1, <1>3, <1>4, <1>5 DEF QueueStep
<1>6. CASE OtherStep
  <2>1. Aside
    BY <1>6, OtherAside DEF IInv
  <2> QED
    BY <1>2, <2>1 DEF Aside
<1>7. CASE \E m \in Responses : ServeRequest(m)
  BY <1>7, FifoBegins DEF Queue!Fifo!Next
<1>8. CASE UNCHANGED vars
  BY <1>2, <1>8 DEF vars, queueVars
<1> QED
  BY <1>5, <1>6, <1>7, <1>8, NextSteps

\* The parts of a Response are called back once each, in the order in which they were
\* sent, after one has failed no other succeeds, and nothing is called back once the
\* server is destroyed: the queue implements ResponseFifo.
THEOREM QueueIsFifo == Spec => FifoSpec
<1>1. Init => Queue!Fifo!Init
  BY SeqEmpty DEF Init, Queue!NoResponse, Queue!Fifo!Init
<1>2. IInv /\ [Next]_vars => [Queue!Fifo!Next]_(Queue!Fifo!vars)
  BY FifoStep
<1> QED
  BY <1>1, <1>2, Invariant, PTL DEF Spec, FifoSpec, Queue!FifoSpec, Queue!Fifo!Spec
-----------------------------------------------------------------------------
(* The readers: what MessageReader_proof shows of one reader holds of both. *)

SReader == INSTANCE MessageReader_proof
           WITH wire <- toServer, reader <- server, Side <- "server"
CReader == INSTANCE MessageReader_proof
           WITH wire <- toClient, reader <- client, Side <- "client"

(* The reader of the server is that of MessageReader_proof. *)

LEMMA ServerMin == \A s : Server!Min(s) = SReader!Min(s)
<1>1. \A s : Server!Min(s) = CHOOSE x \in s : \A y \in s : x =< y
  BY DEF Server!Min
<1>2. \A s : SReader!Min(s) = CHOOSE x \in s : \A y \in s : x =< y
  BY DEF SReader!Min
<1> QED
  BY <1>1, <1>2, Zenon

LEMMA ServerNames ==
  /\ Server!Until = SReader!Until /\ Server!Exactly = SReader!Exactly
  /\ Server!Waiting = SReader!Waiting
  /\ Server!CRLF = SReader!CRLF /\ Server!BlankLine = SReader!BlankLine
  /\ Server!Nothing = SReader!Nothing /\ Server!Reading = SReader!Reading
BY Zenon DEF Server!Until, SReader!Until, Server!Exactly, SReader!Exactly, Server!Waiting, SReader!Waiting,
  Server!CRLF, SReader!CRLF, Server!CR, SReader!CR, Server!LF, SReader!LF,
  Server!BlankLine, SReader!BlankLine,
  Server!Nothing, SReader!Nothing, Server!Reading, SReader!Reading

LEMMA ServerBuffer ==
  \A r, s, n : /\ Server!EndOf(r, s) = SReader!EndOf(r, s)
               /\ Server!Take(s, n) = SReader!Take(s, n) /\ Server!Drop(s, n) = SReader!Drop(s, n)
               /\ Server!Full(r) = SReader!Full(r) /\ Server!Room(r) = SReader!Room(r)
BY ServerMin, ServerNames, Zenon DEF Server!EndOf, SReader!EndOf, Server!Take, SReader!Take,
  Server!Drop, SReader!Drop, Server!Full, SReader!Full, Server!Room, SReader!Room

LEMMA ServerCompleted == \A r : Server!Completed(r) <=> SReader!Completed(r)
<1>1. \A r : Server!Delimiter(r) = SReader!Delimiter(r)
  BY ServerNames, Zenon DEF Server!Delimiter, SReader!Delimiter
<1> QED
  BY <1>1, ServerNames, ServerBuffer, Zenon DEF Server!Completed, SReader!Completed

LEMMA ServerReceives == \A n : Server!Receive(n) <=> SReader!Receive(n)
<1>1. \A r : Server!Room(r) = SReader!Room(r)
  BY ServerBuffer
<1>2. Server!Waiting = SReader!Waiting
  BY ServerNames
<1> QED
  BY <1>1, <1>2, ServerMin, ServerCompleted, Zenon
  DEF Server!Receive, SReader!Receive, Server!Exactly, SReader!Exactly,
    Server!Take, SReader!Take, Server!Drop, SReader!Drop

LEMMA ServerEnds ==
  /\ Server!EndOfStream <=> SReader!EndOfStream
  /\ Server!Fail <=> SReader!Fail
BY ServerNames, ServerCompleted, Zenon
DEF Server!EndOfStream, SReader!EndOfStream, Server!Fail, SReader!Fail, Server!Done, SReader!Done

LEMMA ServerNumbers ==
  /\ Server!Numbers = SReader!Numbers
  /\ \A n : Server!Digit(n) = SReader!Digit(n)
  /\ \A f : (Server!IsNumber(f) <=> SReader!IsNumber(f)) /\ Server!Value(f) = SReader!Value(f)
<1>1. Server!Numbers = SReader!Numbers
  BY Zenon DEF Server!Numbers, SReader!Numbers
<1>2. \A n : Server!Digit(n) = SReader!Digit(n)
  BY Zenon DEF Server!Digit, SReader!Digit
<1>3. \A f : Server!IsNumber(f) <=> SReader!IsNumber(f)
  BY <1>1, <1>2, Zenon DEF Server!IsNumber, SReader!IsNumber
<1>4. \A f : Server!Value(f) = SReader!Value(f)
  <2>1. \A f : Server!Value(f) = CHOOSE n \in 0..Len(Digits) - 1 : f = Digits[n + 1]
    BY DEF Server!Value, Server!Numbers, Server!Digit
  <2>2. \A f : SReader!Value(f) = CHOOSE n \in 0..Len(Digits) - 1 : f = Digits[n + 1]
    BY DEF SReader!Value, SReader!Numbers, SReader!Digit
  <2> QED
    BY <2>1, <2>2, Zenon
<1> QED
  BY <1>1, <1>2, <1>3, <1>4

LEMMA ServerHandles == Server!Handlers <=> SReader!Handlers
<1>1. \A r : Server!Done(r) = SReader!Done(r) /\ Server!TooLarge(r) = SReader!TooLarge(r)
  BY Zenon DEF Server!Done, SReader!Done, Server!TooLarge, SReader!TooLarge
<1>2. \A r, op, n, s : Server!ReadExactly(r, op, n, s) = SReader!ReadExactly(r, op, n, s)
  BY Zenon DEF Server!ReadExactly, SReader!ReadExactly
<1>3. \A r, f : Server!AfterHeader(r, f) = SReader!AfterHeader(r, f)
  BY <1>1, <1>2, ServerNumbers, Zenon
  DEF Server!AfterHeader, SReader!AfterHeader, Server!ReadContent, SReader!ReadContent
<1>4. \A r, h : Server!Fields(r, h) = SReader!Fields(r, h)
  BY ServerNumbers, ServerNames, Zenon DEF Server!Fields, SReader!Fields
<1>5. \A r : Server!Chunk(r) = SReader!Chunk(r)
  BY <1>1, ServerBuffer, Zenon
  DEF Server!Chunk, SReader!Chunk, Server!Chunks, SReader!Chunks,
    Server!Unallocatable, SReader!Unallocatable
<1>6. \A n : Server!WithCRLF(n) = SReader!WithCRLF(n)
  BY Zenon DEF Server!WithCRLF, SReader!WithCRLF
<1>7. Server!HeaderRead <=> SReader!HeaderRead
  <2>1. \A d, s : Server!EndOf(d, s) = SReader!EndOf(d, s)
    BY ServerBuffer
  <2>2. \A r : Server!Full(r) = SReader!Full(r)
    BY ServerBuffer
  <2> QED
    BY <1>3, <1>4, <2>1, <2>2, Zenon
    DEF Server!HeaderRead, SReader!HeaderRead, Server!Take, SReader!Take, Server!Drop, SReader!Drop,
      Server!BlankLine, SReader!BlankLine, Server!CRLF, SReader!CRLF, Server!CR, SReader!CR,
      Server!LF, SReader!LF
<1>8. Server!ContentRead <=> SReader!ContentRead
  BY <1>1, ServerBuffer, Zenon DEF Server!ContentRead, SReader!ContentRead
<1>9. Server!LineRead <=> SReader!LineRead
  BY <1>2, <1>5, <1>6, ServerBuffer, ServerNames, ServerNumbers, Zenon
  DEF Server!LineRead, SReader!LineRead
<1>10. Server!ChunkRead <=> SReader!ChunkRead
  BY <1>5, ServerBuffer, Zenon DEF Server!ChunkRead, SReader!ChunkRead
<1>11. Server!Refuse <=> SReader!Refuse
  BY <1>1, ServerBuffer, ServerNames, Zenon DEF Server!Refuse, SReader!Refuse
<1> QED
  BY <1>7, <1>8, <1>9, <1>10, <1>11, Zenon DEF Server!Handlers, SReader!Handlers

LEMMA ServerWires ==
  \A m : /\ Server!Content(m) = SReader!Content(m) /\ Server!Header(m) = SReader!Header(m)
         /\ Server!Wire(m) = SReader!Wire(m)
         /\ (m \in Server!Message /\ Server!Announced(m)) => SReader!Good(m)
<1>1. \A s : Server!FlattenSeq(s) = SReader!FlattenSeq(s)
  BY Zenon DEF Server!FlattenSeq, SReader!FlattenSeq
<1>2. \A m : Server!Content(m) = SReader!Content(m)
  BY <1>1, Zenon DEF Server!Content, SReader!Content
<1>3. \A m : Server!Header(m) = SReader!Header(m)
  BY <1>2, ServerNumbers, ServerNames, Zenon DEF Server!Header, SReader!Header, Server!Field, SReader!Field
<1>4. \A d : Server!ChunkOf(d) = SReader!ChunkOf(d)
  BY ServerNumbers, ServerNames, Zenon DEF Server!ChunkOf, SReader!ChunkOf
<1>5. \A m : Server!Wire(m) = SReader!Wire(m)
  BY <1>1, <1>2, <1>3, <1>4, Zenon DEF Server!Wire, SReader!Wire
<1>6. \A m : (m \in Server!Message /\ Server!Announced(m)) => SReader!Good(m)
  BY <1>2, ServerNumbers, Zenon
  DEF Server!Message, SReader!Message, Server!Announced, SReader!Announced, SReader!Good,
    Server!Unallocatable, SReader!Unallocatable
<1> QED
  BY <1>2, <1>3, <1>5, <1>6, Zenon

(* And that of the client. *)

LEMMA ClientMin == \A s : Client!Min(s) = CReader!Min(s)
<1>1. \A s : Client!Min(s) = CHOOSE x \in s : \A y \in s : x =< y
  BY DEF Client!Min
<1>2. \A s : CReader!Min(s) = CHOOSE x \in s : \A y \in s : x =< y
  BY DEF CReader!Min
<1> QED
  BY <1>1, <1>2, Zenon

LEMMA ClientNames ==
  /\ Client!Until = CReader!Until /\ Client!Exactly = CReader!Exactly
  /\ Client!Waiting = CReader!Waiting
  /\ Client!CRLF = CReader!CRLF /\ Client!BlankLine = CReader!BlankLine
  /\ Client!Nothing = CReader!Nothing /\ Client!Reading = CReader!Reading
BY Zenon DEF Client!Until, CReader!Until, Client!Exactly, CReader!Exactly, Client!Waiting, CReader!Waiting,
  Client!CRLF, CReader!CRLF, Client!CR, CReader!CR, Client!LF, CReader!LF,
  Client!BlankLine, CReader!BlankLine,
  Client!Nothing, CReader!Nothing, Client!Reading, CReader!Reading

LEMMA ClientBuffer ==
  \A r, s, n : /\ Client!EndOf(r, s) = CReader!EndOf(r, s)
               /\ Client!Take(s, n) = CReader!Take(s, n) /\ Client!Drop(s, n) = CReader!Drop(s, n)
               /\ Client!Full(r) = CReader!Full(r) /\ Client!Room(r) = CReader!Room(r)
BY ClientMin, ClientNames, Zenon DEF Client!EndOf, CReader!EndOf, Client!Take, CReader!Take,
  Client!Drop, CReader!Drop, Client!Full, CReader!Full, Client!Room, CReader!Room

LEMMA ClientCompleted == \A r : Client!Completed(r) <=> CReader!Completed(r)
<1>1. \A r : Client!Delimiter(r) = CReader!Delimiter(r)
  BY ClientNames, Zenon DEF Client!Delimiter, CReader!Delimiter
<1> QED
  BY <1>1, ClientNames, ClientBuffer, Zenon DEF Client!Completed, CReader!Completed

LEMMA ClientReceives == \A n : Client!Receive(n) <=> CReader!Receive(n)
<1>1. \A r : Client!Room(r) = CReader!Room(r)
  BY ClientBuffer
<1>2. Client!Waiting = CReader!Waiting
  BY ClientNames
<1> QED
  BY <1>1, <1>2, ClientMin, ClientCompleted, Zenon
  DEF Client!Receive, CReader!Receive, Client!Exactly, CReader!Exactly,
    Client!Take, CReader!Take, Client!Drop, CReader!Drop

LEMMA ClientEnds ==
  /\ Client!EndOfStream <=> CReader!EndOfStream
  /\ Client!Fail <=> CReader!Fail
BY ClientNames, ClientCompleted, Zenon
DEF Client!EndOfStream, CReader!EndOfStream, Client!Fail, CReader!Fail, Client!Done, CReader!Done

LEMMA ClientNumbers ==
  /\ Client!Numbers = CReader!Numbers
  /\ \A n : Client!Digit(n) = CReader!Digit(n)
  /\ \A f : (Client!IsNumber(f) <=> CReader!IsNumber(f)) /\ Client!Value(f) = CReader!Value(f)
<1>1. Client!Numbers = CReader!Numbers
  BY Zenon DEF Client!Numbers, CReader!Numbers
<1>2. \A n : Client!Digit(n) = CReader!Digit(n)
  BY Zenon DEF Client!Digit, CReader!Digit
<1>3. \A f : Client!IsNumber(f) <=> CReader!IsNumber(f)
  BY <1>1, <1>2, Zenon DEF Client!IsNumber, CReader!IsNumber
<1>4. \A f : Client!Value(f) = CReader!Value(f)
  <2>1. \A f : Client!Value(f) = CHOOSE n \in 0..Len(Digits) - 1 : f = Digits[n + 1]
    BY DEF Client!Value, Client!Numbers, Client!Digit
  <2>2. \A f : CReader!Value(f) = CHOOSE n \in 0..Len(Digits) - 1 : f = Digits[n + 1]
    BY DEF CReader!Value, CReader!Numbers, CReader!Digit
  <2> QED
    BY <2>1, <2>2, Zenon
<1> QED
  BY <1>1, <1>2, <1>3, <1>4

LEMMA ClientHandles == Client!Handlers <=> CReader!Handlers
<1>1. \A r : Client!Done(r) = CReader!Done(r) /\ Client!TooLarge(r) = CReader!TooLarge(r)
  BY Zenon DEF Client!Done, CReader!Done, Client!TooLarge, CReader!TooLarge
<1>2. \A r, op, n, s : Client!ReadExactly(r, op, n, s) = CReader!ReadExactly(r, op, n, s)
  BY Zenon DEF Client!ReadExactly, CReader!ReadExactly
<1>3. \A r, f : Client!AfterHeader(r, f) = CReader!AfterHeader(r, f)
  BY <1>1, <1>2, ClientNumbers, Zenon
  DEF Client!AfterHeader, CReader!AfterHeader, Client!ReadContent, CReader!ReadContent
<1>4. \A r, h : Client!Fields(r, h) = CReader!Fields(r, h)
  BY ClientNumbers, ClientNames, Zenon DEF Client!Fields, CReader!Fields
<1>5. \A r : Client!Chunk(r) = CReader!Chunk(r)
  BY <1>1, ClientBuffer, Zenon
  DEF Client!Chunk, CReader!Chunk, Client!Chunks, CReader!Chunks,
    Client!Unallocatable, CReader!Unallocatable
<1>6. \A n : Client!WithCRLF(n) = CReader!WithCRLF(n)
  BY Zenon DEF Client!WithCRLF, CReader!WithCRLF
<1>7. Client!HeaderRead <=> CReader!HeaderRead
  <2>1. \A d, s : Client!EndOf(d, s) = CReader!EndOf(d, s)
    BY ClientBuffer
  <2>2. \A r : Client!Full(r) = CReader!Full(r)
    BY ClientBuffer
  <2> QED
    BY <1>3, <1>4, <2>1, <2>2, Zenon
    DEF Client!HeaderRead, CReader!HeaderRead, Client!Take, CReader!Take, Client!Drop, CReader!Drop,
      Client!BlankLine, CReader!BlankLine, Client!CRLF, CReader!CRLF, Client!CR, CReader!CR,
      Client!LF, CReader!LF
<1>8. Client!ContentRead <=> CReader!ContentRead
  BY <1>1, ClientBuffer, Zenon DEF Client!ContentRead, CReader!ContentRead
<1>9. Client!LineRead <=> CReader!LineRead
  BY <1>2, <1>5, <1>6, ClientBuffer, ClientNames, ClientNumbers, Zenon
  DEF Client!LineRead, CReader!LineRead
<1>10. Client!ChunkRead <=> CReader!ChunkRead
  BY <1>5, ClientBuffer, Zenon DEF Client!ChunkRead, CReader!ChunkRead
<1>11. Client!Refuse <=> CReader!Refuse
  BY <1>1, ClientBuffer, ClientNames, Zenon DEF Client!Refuse, CReader!Refuse
<1> QED
  BY <1>7, <1>8, <1>9, <1>10, <1>11, Zenon DEF Client!Handlers, CReader!Handlers

LEMMA ClientWires ==
  \A m : /\ Client!Content(m) = CReader!Content(m) /\ Client!Header(m) = CReader!Header(m)
         /\ Client!Wire(m) = CReader!Wire(m)
         /\ (m \in Client!Message /\ Client!Announced(m)) => CReader!Good(m)
<1>1. \A s : Client!FlattenSeq(s) = CReader!FlattenSeq(s)
  BY Zenon DEF Client!FlattenSeq, CReader!FlattenSeq
<1>2. \A m : Client!Content(m) = CReader!Content(m)
  BY <1>1, Zenon DEF Client!Content, CReader!Content
<1>3. \A m : Client!Header(m) = CReader!Header(m)
  BY <1>2, ClientNumbers, ClientNames, Zenon DEF Client!Header, CReader!Header, Client!Field, CReader!Field
<1>4. \A d : Client!ChunkOf(d) = CReader!ChunkOf(d)
  BY ClientNumbers, ClientNames, Zenon DEF Client!ChunkOf, CReader!ChunkOf
<1>5. \A m : Client!Wire(m) = CReader!Wire(m)
  BY <1>1, <1>2, <1>3, <1>4, Zenon DEF Client!Wire, CReader!Wire
<1>6. \A m : (m \in Client!Message /\ Client!Announced(m)) => CReader!Good(m)
  BY <1>2, ClientNumbers, Zenon
  DEF Client!Message, CReader!Message, Client!Announced, CReader!Announced, CReader!Good,
    Client!Unallocatable, CReader!Unallocatable
<1> QED
  BY <1>2, <1>3, <1>5, <1>6, Zenon

\* Both readers have the same messages.
LEMMA OneWire ==
  \A m : CReader!Wire(m) = SReader!Wire(m)
<1>1. \A s : CReader!FlattenSeq(s) = SReader!FlattenSeq(s)
  BY Zenon DEF CReader!FlattenSeq, SReader!FlattenSeq
<1>2. \A m : CReader!Content(m) = SReader!Content(m)
  BY <1>1, Zenon DEF CReader!Content, SReader!Content
<1>3. \A n : CReader!Digit(n) = SReader!Digit(n)
  BY Zenon DEF CReader!Digit, SReader!Digit
<1>4. CReader!CRLF = SReader!CRLF /\ CReader!BlankLine = SReader!BlankLine
  BY Zenon DEF CReader!CRLF, SReader!CRLF, CReader!BlankLine, SReader!BlankLine,
    CReader!CR, SReader!CR, CReader!LF, SReader!LF
<1>5. \A m : CReader!Header(m) = SReader!Header(m)
  BY <1>2, <1>3, <1>4, Zenon DEF CReader!Header, SReader!Header, CReader!Field, SReader!Field
<1>6. \A d : CReader!ChunkOf(d) = SReader!ChunkOf(d)
  BY <1>3, <1>4, Zenon DEF CReader!ChunkOf, SReader!ChunkOf
<1> QED
  BY <1>1, <1>2, <1>5, <1>6, Zenon DEF CReader!Wire, SReader!Wire

-----------------------------------------------------------------------------
(* From here on: what the two ends read *)

Bytes == CReader!Bytes
Texts == CReader!Texts
Wire(m) == CReader!Wire(m)
Joined(s) == CReader!Joined(s)
Cat(s, t) == CReader!Cat(s, t)

-----------------------------------------------------------------------------
(* Where the bytes of a response are *)

\* The parts that the strand has taken, and where a part that waits there comes among those
\* behind them.
Moved   == Len(called) + Len(send_queue)
Rank(i) == IF \E j \in 1..i : Busy(j) THEN i - 1 ELSE i

\* Parts keep their order.
Queued == \A i \in 1..Len(send_queue) : send_queue[i] = parts[Len(called) + i]
Posted == \A i \in 1..Len(strand) : ~Busy(i) => strand[i].part = parts[Moved + Rank(i)]
InOrder == Queued /\ Posted /\ (InHand => writes[1].part = send_queue[1])

\* Nothing is missing, nothing twice.
Complete ==
  /\ parts \in Texts /\ todo \in Bytes /\ Wire(answer) \in Bytes
  /\ last = "no" => Cat(Joined(parts)[Len(parts)], todo) = Wire(answer)
  /\ last = "writing" => /\ writes # <<>> /\ writes[1].part \in Bytes
                         /\ Cat(Joined(parts)[Len(parts)], writes[1].part) = Wire(answer)

\* The parts that have been written, or have been dropped.
Starting == \E i \in 1..Len(strand) : strand[i].do = "write"
Ended    == \E i \in 1..Len(strand) : strand[i].do = "written" /\ strand[i].ok
Gone     == IF InHand \/ Starting THEN Len(called) ELSE IF Ended THEN Len(called) + 1 ELSE Moved
Written  == IF last \in {"no", "writing"} THEN Joined(parts)[Gone] ELSE Wire(answer)

DInv == InOrder /\ Complete

\* What a step of the Response does to the bytes on the connection: some are written, or
\* some will not be, of a connection that has broken or behind a dropped part.
Flows ==
  \E p \in Bytes :
    /\ Written' = Cat(Written, p)
    /\ \/ toClient' = Cat(toClient, p)
       \/ toClient' = toClient /\ (p = <<>> \/ socket = "broken" \/ ~AllSent')

-----------------------------------------------------------------------------
(* Bytes and parts *)

LEMMA Concat ==
  ASSUME NEW s \in Bytes, NEW t \in Bytes
  PROVE  /\ Cat(s, t) \in Bytes /\ Len(Cat(s, t)) = Len(s) + Len(t)
         /\ Len(s) \in Nat /\ Len(t) \in Nat
BY CReader!Cats, CReader!CatLength DEF Cat, Bytes

LEMMA ConcatThree ==
  ASSUME NEW s \in Bytes, NEW t \in Bytes, NEW u \in Bytes
  PROVE  Cat(Cat(s, t), u) = Cat(s, Cat(t, u))
BY CReader!Cats DEF Cat, Bytes

LEMMA ConcatNothing ==
  /\ <<>> \in Bytes /\ Len(<<>>) = 0
  /\ \A s \in Bytes : /\ Cat(s, <<>>) = s /\ Cat(<<>>, s) = s
                      /\ Len(s) \in Nat /\ (Len(s) = 0 <=> s = <<>>)
BY CReader!CatNothing, CReader!NoBytes, CReader!Length DEF Cat, Bytes

LEMMA ConcatApart ==
  ASSUME NEW s \in Bytes, NEW t \in Bytes, NEW u \in Bytes, NEW v \in Bytes,
         Cat(s, t) = Cat(u, v)
  PROVE  /\ Len(s) = Len(u) => s = u /\ t = v
         /\ Len(s) <= Len(u) => \E z \in Bytes : u = Cat(s, z) /\ t = Cat(z, v)
BY CReader!CatApart DEF Cat, Bytes

LEMMA JoinedParts ==
  ASSUME NEW s \in Texts
  PROVE  /\ Len(s) \in Nat /\ Joined(s)[0] = <<>>
         /\ \A n \in 0..Len(s) : Joined(s)[n] \in Bytes
         /\ \A n \in 0..Len(s) : \A k \in 0..n :
              \E z \in Bytes : Joined(s)[n] = Cat(Joined(s)[k], z)
<1>1. Len(s) \in Nat /\ Joined(s)[0] = <<>>
  BY CReader!JoinedRun DEF Texts, Joined
<1>2. ASSUME NEW n \in 0..Len(s) PROVE Joined(s)[n] \in Bytes
  BY CReader!JoinedType DEF Texts, Joined, Bytes
<1>3. ASSUME NEW n \in 0..Len(s), NEW k \in 0..n
      PROVE  \E z \in Bytes : Joined(s)[n] = Cat(Joined(s)[k], z)
  <2>1. k \in 0..Len(s) /\ n \in k..Len(s)
    BY <1>1
  <2>2. \E z \in CReader!Bytes : CReader!Joined(s)[n] = CReader!Joined(s)[k] \o z
    BY <2>1, CReader!JoinedMore DEF Texts
  <2> QED
    BY <2>2, Zenon DEF Joined, Bytes, Cat, CReader!Cat
<1> QED
  BY <1>1, <1>2, <1>3

LEMMA JoinedOneMore ==
  ASSUME NEW s \in Texts, NEW k \in 0..Len(s) - 1
  PROVE  s[k + 1] \in Bytes /\ Joined(s)[k + 1] = Cat(Joined(s)[k], s[k + 1])
<1>1. /\ s[k + 1] \in CReader!Bytes
      /\ CReader!Joined(s)[k + 1] = CReader!Joined(s)[k] \o s[k + 1]
  BY CReader!JoinedNext DEF Texts
<1> QED
  BY <1>1, Zenon DEF Joined, Bytes, Cat, CReader!Cat

LEMMA JoinedAppend ==
  ASSUME NEW s \in Texts, NEW x \in Bytes
  PROVE  /\ Append(s, x) \in Texts /\ Len(Append(s, x)) = Len(s) + 1
         /\ \A n \in 0..Len(s) : Joined(Append(s, x))[n] = Joined(s)[n]
         /\ Joined(Append(s, x))[Len(s) + 1] = Cat(Joined(s)[Len(s)], x)
<1>1. /\ Append(s, x) \in CReader!Texts /\ Len(Append(s, x)) = Len(s) + 1
      /\ \A n \in 0..Len(s) : CReader!Joined(Append(s, x))[n] = CReader!Joined(s)[n]
      /\ CReader!FlattenSeq(Append(s, x)) = CReader!FlattenSeq(s) \o x
  BY CReader!FlattenAppend DEF Texts, Bytes
<1>2. /\ CReader!FlattenSeq(Append(s, x)) = CReader!Joined(Append(s, x))[Len(Append(s, x))]
      /\ CReader!FlattenSeq(s) = CReader!Joined(s)[Len(s)]
  BY <1>1, CReader!JoinedRun DEF Texts
<1> QED
  BY <1>1, <1>2, Zenon DEF Joined, Texts, Cat, CReader!Cat

-----------------------------------------------------------------------------
(* The bytes of a response *)

LEMMA RankFits ==
  ASSUME QInv, NEW i \in 1..Len(strand), ~Busy(i)
  PROVE  Rank(i) \in 1..Len(strand) /\ Moved + Rank(i) \in 1..Len(parts) /\ Moved \in Nat
<1> DEFINE n == Len(strand)
           c == Len(called)
           q == Len(send_queue)
           p == Len(parts)
<1>1. n \in Nat /\ c \in Nat /\ q \in Nat /\ p \in Nat
  BY QueueFacts
<1>2. c + q + n = p + (IF InStrand THEN 1 ELSE 0)
  BY DEF QInv, Parts
<1>3. CASE \E j \in 1..i : Busy(j)
  <2>1. PICK j \in 1..i : Busy(j)
    BY <1>3
  <2>2. j \in 1..n /\ j # i
    BY <1>1, <2>1
  <2>3. InStrand
    BY <2>1, <2>2 DEF InStrand
  <2>4. Rank(i) = i - 1 /\ i > 1 /\ i <= n /\ i \in Nat
    BY <1>1, <1>3, <2>2 DEF Rank
  <2> HIDE DEF n, c, q, p
  <2>5. c + q + n = p + 1
    BY <1>2, <2>3
  <2> QED
    BY <1>1, <2>4, <2>5 DEF Moved, n, c, q, p
<1>4. CASE ~(\E j \in 1..i : Busy(j))
  <2>1. Rank(i) = i /\ i \in 1..n
    BY <1>4 DEF Rank
  <2>2. CASE InStrand
    <3>1. PICK j \in 1..n : Busy(j)
      BY <2>2 DEF InStrand
    <3>2. ~(j \in 1..i)
      BY <1>4, <3>1
    <3> HIDE DEF n, c, q, p
    <3>3. i < n
      BY <1>1, <2>1, <3>1, <3>2
    <3>4. c + q + n = p + 1
      BY <1>2, <2>2
    <3> QED
      BY <1>1, <2>1, <3>3, <3>4 DEF Moved, n, c, q, p
  <2>3. CASE ~InStrand
    <3> HIDE DEF n, c, q, p
    <3>4. c + q + n = p + 0
      BY <1>2, <2>3
    <3> QED
      BY <1>1, <2>1, <3>4 DEF Moved, n, c, q, p
  <2> QED
    BY <2>2, <2>3
<1> QED
  BY <1>3, <1>4

\* The first task of the strand goes.
LEMMA TailPosted ==
  ASSUME QInv, Posted, strand # <<>>, UNCHANGED parts,
         Moved' = IF Busy(1) THEN Moved ELSE Moved + 1, Len(strand') \in Nat,
         \A i \in 1..Len(strand) - 1 : i \in 1..Len(strand') /\ strand'[i] = strand[i + 1],
         \A i \in 1..Len(strand') : Busy(i)' \/ i \in 1..Len(strand) - 1
  PROVE  Posted'
<1> DEFINE n == Len(strand)
<1>1. n \in Nat /\ n # 0
  BY QueueFacts
<1>2. \A i \in 1..n - 1 : Busy(i)' <=> Busy(i + 1)
  BY DEF Busy
<1>3. SUFFICES ASSUME NEW i \in 1..Len(strand'), ~Busy(i)'
               PROVE  strand'[i].part = parts[Moved' + Rank(i)']
  BY DEF Posted
<1>4. /\ i \in 1..n - 1 /\ i + 1 \in 1..n /\ strand'[i] = strand[i + 1] /\ ~Busy(i + 1)
      /\ i \in Nat
  BY <1>1, <1>2, <1>3
<1>5. strand'[i].part = parts[Moved + Rank(i + 1)]
  BY <1>4 DEF Posted
<1>6. \A j \in 1..i : j \in 1..n - 1 /\ j + 1 \in 1..i + 1 /\ j + 1 \in 1..n
  BY <1>1, <1>4
<1>7. CASE Busy(1)
  <2>1. \A j \in 1..n : Busy(j) => j = 1
    <3>1. 1 \in 1..n
      BY <1>1
    <3> QED
      BY <1>7, <3>1 DEF QInv, OneBusy
  <2>2. ~(\E j \in 1..i : Busy(j)')
    <3>1. SUFFICES ASSUME NEW j \in 1..i, Busy(j)' PROVE FALSE
      OBVIOUS
    <3>2. Busy(j + 1) /\ j + 1 \in 1..n
      BY <1>2, <1>6, <3>1
    <3>3. j + 1 = 1
      BY <2>1, <3>2
    <3> QED
      BY <1>4, <3>1, <3>3
  <2>3. Rank(i)' = i
    BY <2>2 DEF Rank
  <2>4. 1 \in 1..i + 1
    BY <1>4
  <2>5. Rank(i + 1) = (i + 1) - 1
    BY <1>7, <2>4 DEF Rank
  <2>6. Moved' = Moved
    BY <1>7
  <2>7. Rank(i + 1) = Rank(i)'
    BY <1>4, <2>3, <2>5
  <2> QED
    BY <1>5, <2>6, <2>7
<1>8. CASE ~Busy(1)
  <2>1. (\E j \in 1..i : Busy(j)') <=> (\E j \in 1..i + 1 : Busy(j))
    <3>1. ASSUME NEW j \in 1..i, Busy(j)' PROVE \E k \in 1..i + 1 : Busy(k)
      BY <1>2, <1>6, <3>1
    <3>2. ASSUME NEW k \in 1..i + 1, Busy(k) PROVE \E j \in 1..i : Busy(j)'
      <4>1. k # 1
        BY <1>8, <3>2
      <4>2. k - 1 \in 1..i /\ (k - 1) + 1 = k
        BY <1>4, <3>2, <4>1
      <4>3. Busy(k - 1)'
        BY <1>2, <1>6, <3>2, <4>2
      <4> QED
        BY <4>2, <4>3
    <3> QED
      BY <3>1, <3>2
  <2>2. Rank(i + 1) = Rank(i)' + 1 /\ Rank(i)' \in Nat
    <3>1. CASE \E j \in 1..i : Busy(j)'
      <4>1. Rank(i)' = i - 1 /\ Rank(i + 1) = (i + 1) - 1
        BY <2>1, <3>1 DEF Rank
      <4> QED
        BY <1>4, <4>1
    <3>2. CASE ~(\E j \in 1..i : Busy(j)')
      <4>1. Rank(i)' = i /\ Rank(i + 1) = i + 1
        BY <2>1, <3>2 DEF Rank
      <4> QED
        BY <1>4, <4>1
    <3> QED
      BY <3>1, <3>2
  <2>3. Moved' = Moved + 1 /\ Moved \in Nat
    BY <1>8, QueueFacts DEF Moved
  <2>4. Moved + Rank(i + 1) = Moved' + Rank(i)'
    BY <2>2, <2>3
  <2> QED
    BY <1>5, <2>4
<1> QED
  BY <1>7, <1>8

LEMMA GoneFits ==
  ASSUME QInv
  PROVE  /\ Moved \in Nat /\ Gone \in 0..Moved /\ Moved <= Len(parts)
         /\ Len(called) \in 0..Gone
         /\ InStrand \/ InHand => Len(called) + 1 <= Moved
<1> DEFINE n == Len(strand)
           c == Len(called)
           q == Len(send_queue)
           p == Len(parts)
<1>1. n \in Nat /\ c \in Nat /\ q \in Nat /\ p \in Nat
  BY QueueFacts
<1>2. c + q + n = p + (IF InStrand THEN 1 ELSE 0)
  BY DEF QInv, Parts
<1>3. InStrand => n # 0
  BY <1>1 DEF InStrand
<1>4. Moved = c + q
  BY DEF Moved
<1>5. Starting \/ Ended => InStrand
  BY DEF Starting, Ended, InStrand, Busy
<1>6. InStrand \/ InHand => q # 0
  BY QueueFacts DEF QInv, OneBusy
<1>7. Gone = IF InHand \/ Starting THEN c ELSE IF Ended THEN c + 1 ELSE Moved
  BY DEF Gone
<1> HIDE DEF n, c, q, p
<1>8. Moved <= p
  <2>1. CASE InStrand
    BY <1>1, <1>2, <1>3, <1>4, <2>1
  <2>2. CASE ~InStrand
    BY <1>1, <1>2, <1>4, <2>2
  <2> QED
    BY <2>1, <2>2
<1>9. InStrand \/ InHand => c + 1 <= Moved
  BY <1>1, <1>4, <1>6
<1>10. Gone \in 0..Moved /\ c \in 0..Gone
  BY <1>1, <1>4, <1>5, <1>7, <1>9
<1> QED
  BY <1>1, <1>4, <1>8, <1>9, <1>10 DEF c, p

LEMMA WrittenFits ==
  ASSUME QInv, Complete
  PROVE  /\ Written \in Bytes /\ Wire(answer) \in Bytes
         /\ \E u \in Bytes : Cat(Written, u) = Wire(answer)
<1>1. parts \in Texts /\ todo \in Bytes /\ Wire(answer) \in Bytes
  BY DEF Complete
<1>2. CASE last \in {"no", "writing"}
  <2> DEFINE all == Joined(parts)[Len(parts)]
  <2>1. Gone \in 0..Len(parts) /\ Len(parts) \in 0..Len(parts) /\ Gone \in 0..Len(parts)
    BY <1>1, GoneFits, JoinedParts
  <2>2. all \in Bytes /\ Joined(parts)[Gone] \in Bytes /\ Written = Joined(parts)[Gone]
    BY <1>1, <1>2, <2>1, JoinedParts DEF Written
  <2>3. PICK z \in Bytes : all = Cat(Joined(parts)[Gone], z)
    BY <1>1, <2>1, JoinedParts
  <2>4. PICK y \in Bytes : Cat(all, y) = Wire(answer)
    BY <1>1, <1>2 DEF Complete
  <2> HIDE DEF all
  <2>5. Cat(Written, Cat(z, y)) = Wire(answer)
    BY <2>2, <2>3, <2>4, ConcatThree
  <2>6. Cat(z, y) \in Bytes
    BY Concat
  <2> QED
    BY <1>1, <2>2, <2>5, <2>6
<1>3. CASE last \notin {"no", "writing"}
  BY <1>1, <1>3, ConcatNothing DEF Written
<1> QED
  BY <1>2, <1>3

\* One comes behind the others.
LEMMA EndPosted ==
  ASSUME QInv, Posted, Moved' = Moved, Len(strand') = Len(strand) + 1,
         \A i \in 1..Len(strand) : strand'[i] = strand[i],
         \A k \in 1..Len(parts) : parts'[k] = parts[k],
         \/ strand'[Len(strand) + 1].do # "append"
         \/ strand'[Len(strand) + 1].part = parts'[Len(parts) + 1]
  PROVE  Posted'
<1> DEFINE n == Len(strand)
<1>1. n \in Nat /\ Len(parts) \in Nat /\ Moved \in Nat
  BY QueueFacts, GoneFits
<1>2. \A i \in 1..n : Busy(i)' <=> Busy(i)
  BY DEF Busy
<1>3. SUFFICES ASSUME NEW i \in 1..Len(strand'), ~Busy(i)'
               PROVE  strand'[i].part = parts'[Moved' + Rank(i)']
  BY DEF Posted
<1>4. i \in 1..n \/ i = n + 1
  BY <1>1
<1>5. CASE i \in 1..n
  <2>1. ~Busy(i) /\ strand'[i].part = parts[Moved + Rank(i)]
    BY <1>2, <1>3, <1>5 DEF Posted
  <2>2. \A j \in 1..i : j \in 1..n
    BY <1>1, <1>5
  <2>3. Rank(i)' = Rank(i)
    BY <1>2, <2>2 DEF Rank
  <2>4. Moved + Rank(i) \in 1..Len(parts)
    BY <1>5, <2>1, RankFits
  <2> QED
    BY <2>1, <2>3, <2>4
<1>6. CASE i = n + 1
  <2>1. (\E j \in 1..i : Busy(j)') <=> InStrand
    <3>1. \A j \in 1..i : Busy(j)' => j \in 1..n /\ Busy(j)
      <4>1. \A j \in 1..i : j = i \/ j \in 1..n
        BY <1>1, <1>6
      <4> QED
        BY <1>2, <1>3, <4>1
    <3>2. \A j \in 1..n : j \in 1..i
      BY <1>1, <1>6
    <3> QED
      BY <1>2, <3>1, <3>2 DEF InStrand
  <2>2. Rank(i)' = IF InStrand THEN n ELSE n + 1
    BY <1>1, <1>6, <2>1 DEF Rank
  <2>3. Len(called) + Len(send_queue) + n = Len(parts) + (IF InStrand THEN 1 ELSE 0)
    BY DEF QInv, Parts
  <2>4. Moved' + Rank(i)' = Len(parts) + 1
    <3> DEFINE c == Len(called)
               q == Len(send_queue)
               p == Len(parts)
    <3>1. c \in Nat /\ q \in Nat /\ p \in Nat
      BY QueueFacts
    <3>2. Moved' = c + q
      BY DEF Moved
    <3>3. CASE InStrand
      <4>1. Rank(i)' = n /\ c + q + n = p + 1
        BY <2>2, <2>3, <3>3
      <4> HIDE DEF c, q, p, n
      <4>2. Moved' + Rank(i)' = p + 1
        BY <1>1, <3>1, <3>2, <4>1
      <4> QED
        BY <4>2 DEF p
    <3>4. CASE ~InStrand
      <4>1. Rank(i)' = n + 1 /\ c + q + n = p + 0
        BY <2>2, <2>3, <3>4
      <4> HIDE DEF c, q, p, n
      <4>2. Moved' + Rank(i)' = p + 1
        BY <1>1, <3>1, <3>2, <4>1
      <4> QED
        BY <4>2 DEF p
    <3> QED
      BY <3>3, <3>4
  <2>5. strand'[Len(strand) + 1].part = parts'[Len(parts) + 1]
    BY <1>3, <1>6 DEF Busy
  <2> QED
    BY <1>6, <2>4, <2>5, Zenon
<1> QED
  BY <1>4, <1>5, <1>6

LEMMA SendFlows ==
  ASSUME NEW n \in Nat, Queue!Send(n), QInv, DInv, UNCHANGED answer
  PROVE  DInv' /\ Flows
<1> DEFINE part == SubSeq(todo, 1, n)
           rest == SubSeq(todo, n + 1, Len(todo))
           task == Queue!NewPart(part)
<1>1. /\ held /\ parts' = Append(parts, part) /\ strand' = Append(strand, task)
      /\ n <= Len(todo) /\ todo' = rest
      /\ UNCHANGED <<held, send_queue, writes, last, called, socket, gate, toClient>>
  BY DEF Queue!Send
<1>2. task.do = "append" /\ task.part = part
  BY DEF Queue!NewPart
<1>3. parts \in Texts /\ todo \in Bytes /\ Wire(answer) \in Bytes
  BY DEF DInv, Complete
<1>4. part \in Bytes /\ rest \in Bytes /\ Cat(part, rest) = todo
  <2>1. Len(todo) \in Nat
    BY <1>3, ConcatNothing
  <2>2. n \in 0..Len(todo) /\ todo \in CReader!Bytes
    BY <1>1, <1>3, <2>1 DEF Bytes
  <2>3. /\ CReader!Take(todo, n) \in CReader!Bytes /\ CReader!Drop(todo, n) \in CReader!Bytes
        /\ CReader!Take(todo, n) \o CReader!Drop(todo, n) = todo
    BY <2>2, CReader!TakeDrop
  <2> QED
    BY <2>3, Zenon DEF CReader!Take, CReader!Drop, Bytes, Cat, CReader!Cat
<1> HIDE DEF part, rest, task
<1>5. /\ Len(strand') = Len(strand) + 1 /\ strand'[Len(strand) + 1] = task
      /\ \A i \in 1..Len(strand) : strand'[i] = strand[i]
  BY <1>1, SeqAppend DEF QInv, Typed
<1>6. /\ Len(parts') = Len(parts) + 1 /\ parts'[Len(parts) + 1] = part
      /\ \A i \in 1..Len(parts) : parts'[i] = parts[i]
  BY <1>1, SeqAppend DEF QInv, Typed
<1>7. last = "no"
  BY <1>1 DEF QInv, LastAlone
<1>8. Complete'
  <2> DEFINE all == Joined(parts)[Len(parts)]
             every == Joined(parts')[Len(parts) + 1]
  <2>1. /\ parts' \in Texts /\ every = Cat(all, part)
    BY <1>1, <1>3, <1>4, JoinedAppend
  <2>2. all \in Bytes /\ Cat(all, todo) = Wire(answer)
    BY <1>3, <1>7, JoinedParts DEF DInv, Complete
  <2> HIDE DEF all, every
  <2>3. Cat(every, rest) = Wire(answer)
    BY <1>4, <2>1, <2>2, ConcatThree
  <2> QED
    BY <1>1, <1>3, <1>4, <1>6, <1>7, <2>1, <2>3 DEF Complete, every
<1>9. Moved' = Moved /\ Moved \in Nat /\ Moved <= Len(parts)
  BY <1>1, GoneFits DEF Moved
<1>10. InOrder'
  <2>1. Posted'
    BY <1>2, <1>5, <1>6, <1>9, EndPosted DEF DInv, InOrder
  <2>2. Queued'
    <3>1. \A i \in 1..Len(send_queue) : Len(called) + i \in 1..Len(parts)
      BY <1>9, QueueFacts DEF Moved
    <3> QED
      BY <1>1, <1>6, <3>1 DEF DInv, InOrder, Queued
  <2> QED
    BY <1>1, <2>1, <2>2 DEF DInv, InOrder, InHand
<1>11. Gone' = Gone
  <2>1. \A i \in 1..Len(strand') : i \in 1..Len(strand) \/ strand'[i].do = "append"
    BY <1>2, <1>5, QueueFacts
  <2>2. 1..Len(strand) \subseteq 1..Len(strand')
    BY <1>5, QueueFacts
  <2>3. (Starting' <=> Starting) /\ (Ended' <=> Ended)
    BY <1>5, <2>1, <2>2 DEF Starting, Ended
  <2> QED
    BY <1>1, <1>9, <2>3 DEF Gone, InHand
<1>12. Written' = Written
  <2>1. Gone \in 0..Len(parts)
    BY <1>9, GoneFits, QueueFacts
  <2>2. Joined(parts')[Gone] = Joined(parts)[Gone]
    BY <1>1, <1>3, <1>4, <2>1, JoinedAppend
  <2> QED
    BY <1>1, <1>7, <1>11, <2>2 DEF Written
<1>13. Flows
  <2>1. Cat(Written, <<>>) = Written /\ <<>> \in Bytes
    BY WrittenFits, ConcatNothing DEF DInv
  <2> QED
    BY <1>1, <1>12, <2>1 DEF Flows
<1> QED
  BY <1>8, <1>10, <1>13 DEF DInv

\* More has gone, but not onto the connection.
LEMMA GoneFlows ==
  ASSUME QInv, Complete, UNCHANGED <<parts, last, toClient>>, last = "no",
         Gone' \in Gone..Len(parts), Gone' = Gone \/ socket = "broken" \/ ~AllSent'
  PROVE  Flows
<1>1. Gone \in 0..Len(parts) /\ Gone' \in 0..Len(parts) /\ Gone \in 0..Gone'
  BY GoneFits, QueueFacts
<1>2. parts \in Texts
  BY DEF Complete
<1>3. /\ Written = Joined(parts)[Gone] /\ Written' = Joined(parts)[Gone']
      /\ Written \in Bytes
  BY <1>1, <1>2, JoinedParts DEF Written
<1>4. CASE Gone' = Gone
  <2>1. Written' = Cat(Written, <<>>) /\ <<>> \in Bytes
    BY <1>3, <1>4, ConcatNothing
  <2> QED
    BY <2>1 DEF Flows
<1>5. CASE socket = "broken" \/ ~AllSent'
  <2>1. PICK p \in Bytes : Joined(parts)[Gone'] = Cat(Joined(parts)[Gone], p)
    BY <1>1, <1>2, JoinedParts
  <2> QED
    BY <1>3, <1>5, <2>1 DEF Flows
<1> QED
  BY <1>4, <1>5

\* The first task goes.
LEMMA Shifted ==
  ASSUME QInv, strand # <<>>, strand' = Tail(strand)
  PROVE  /\ Len(strand) \in Nat \ {0} /\ Len(strand') \in Nat /\ Head(strand) = strand[1]
         /\ \A i \in 1..Len(strand) - 1 : i \in 1..Len(strand') /\ strand'[i] = strand[i + 1]
         /\ \A i \in 1..Len(strand') : i \in 1..Len(strand) - 1
         /\ Len(strand') = Len(strand) - 1
<1>1. Len(strand) \in Nat \ {0} /\ IsSeq(strand)
  BY QueueFacts DEF QInv, Typed
<1>2. /\ Len(strand') = Len(strand) - 1 /\ Head(strand) = strand[1]
      /\ \A i \in 1..Len(strand) - 1 : strand'[i] = strand[i + 1]
  BY <1>1, SeqTail
<1> DEFINE n == Len(strand)
           m == Len(strand')
<1>3. n \in Nat \ {0} /\ m = n - 1
  BY <1>1, <1>2
<1> HIDE DEF n, m
<1>4. m \in Nat /\ (\A i \in 1..n - 1 : i \in 1..m) /\ (\A i \in 1..m : i \in 1..n - 1)
  BY <1>3
<1> QED
  BY <1>1, <1>2, <1>4 DEF n, m

\* The first task goes, and a write is asked for.
LEMMA ShiftedOn ==
  ASSUME QInv, strand # <<>>, strand' = Tail(strand) \o <<Queue!WriteHead>>
  PROVE  /\ Len(strand) \in Nat \ {0} /\ Len(strand') \in Nat /\ Head(strand) = strand[1]
         /\ \A i \in 1..Len(strand) - 1 : i \in 1..Len(strand') /\ strand'[i] = strand[i + 1]
         /\ \A i \in 1..Len(strand') : i \in 1..Len(strand) - 1 \/ strand'[i].do = "write"
         /\ Len(strand) \in 1..Len(strand') /\ strand'[Len(strand)].do = "write"
<1> DEFINE e == Queue!WriteHead
           next == Tail(strand) \o <<e>>
<1>1. e.do = "write"
  BY DEF Queue!WriteHead
<1>2. Len(strand) \in Nat \ {0} /\ IsSeq(strand) /\ Head(strand) = strand[1]
  BY QueueFacts, SeqTail DEF QInv, Typed
<1>3. strand' = next
  OBVIOUS
<1> HIDE DEF e
<1>4. /\ Len(next) = Len(strand) /\ next[Len(strand)] = e
      /\ \A i \in 1..Len(strand) - 1 : next[i] = strand[i + 1]
  BY <1>2, SeqNext, Zenon
<1> HIDE DEF next
<1>5. /\ Len(strand') = Len(strand) /\ strand'[Len(strand)].do = "write"
      /\ \A i \in 1..Len(strand) - 1 : strand'[i] = strand[i + 1]
  BY <1>1, <1>3, <1>4, Zenon
<1> DEFINE n == Len(strand)
<1>6. n \in Nat \ {0}
  BY <1>2
<1> HIDE DEF n
<1>7. /\ n \in 1..n /\ (\A i \in 1..n - 1 : i \in 1..n)
      /\ (\A i \in 1..n : i \in 1..n - 1 \/ i = n)
  BY <1>6
<1>8. \A i \in 1..Len(strand') : i \in 1..Len(strand) - 1 \/ strand'[i].do = "write"
  BY <1>5, <1>7, Zenon DEF n
<1>9. /\ \A i \in 1..Len(strand) - 1 : i \in 1..Len(strand')
      /\ Len(strand) \in 1..Len(strand') /\ Len(strand') \in Nat
  BY <1>2, <1>5, <1>7 DEF n
<1> QED
  BY <1>2, <1>5, <1>8, <1>9, Zenon

LEMMA AppendFlows ==
  ASSUME Queue!AppendPart, QInv, DInv, socket # "closed", UNCHANGED answer
  PROVE  DInv' /\ Flows
<1> DEFINE part == Head(strand).part
<1>1. /\ strand # <<>> /\ Head(strand).do = "append"
      /\ send_queue' = Append(send_queue, part)
      /\ strand' = Tail(strand) \o Queue!StartIfFirst(send_queue')
      /\ UNCHANGED <<todo, parts, writes, last, called, socket, gate, toClient>>
  BY DEF Queue!AppendPart
<1>2. /\ Len(send_queue') = Len(send_queue) + 1 /\ send_queue'[Len(send_queue) + 1] = part
      /\ \A i \in 1..Len(send_queue) : send_queue'[i] = send_queue[i]
  BY <1>1, SeqAppend DEF QInv, Typed
<1>3. Len(send_queue) \in Nat /\ (send_queue = <<>> <=> Len(send_queue) = 0) /\ Len(called) \in Nat
  BY QueueFacts
<1>4. /\ send_queue = <<>> => strand' = Tail(strand) \o <<Queue!WriteHead>>
      /\ send_queue # <<>> => strand' = Tail(strand)
  <2>1. ASSUME send_queue # <<>> PROVE strand' = Tail(strand)
    <3>1. Queue!StartIfFirst(send_queue') = <<>>
      BY <1>2, <1>3, <2>1 DEF Queue!StartIfFirst
    <3> QED
      BY <1>1, <3>1, SeqTailEmpty DEF QInv, Typed
  <2>2. ASSUME send_queue = <<>> PROVE Queue!StartIfFirst(send_queue') = <<Queue!WriteHead>>
    BY <1>2, <1>3, <2>2 DEF Queue!StartIfFirst
  <2> QED
    BY <1>1, <2>1, <2>2
<1>5. /\ Len(strand) \in Nat \ {0} /\ Len(strand') \in Nat /\ Head(strand) = strand[1]
      /\ \A i \in 1..Len(strand) - 1 : i \in 1..Len(strand') /\ strand'[i] = strand[i + 1]
      /\ \A i \in 1..Len(strand') : i \in 1..Len(strand) - 1 \/ strand'[i].do = "write"
      /\ send_queue # <<>> => Len(strand') = Len(strand) - 1
      /\ send_queue = <<>> => Len(strand) \in 1..Len(strand') /\ strand'[Len(strand)].do = "write"
  BY <1>1, <1>4, Shifted, ShiftedOn, Zenon
<1>6. last = "no" /\ ~Busy(1) /\ 1 \in 1..Len(strand)
  BY <1>1, <1>5 DEF QInv, LastAlone, Busy
<1>7. Moved' = Moved + 1 /\ Moved \in Nat /\ Moved = Len(called) + Len(send_queue)
  BY <1>1, <1>2, <1>3 DEF Moved
<1>8. Moved + 1 \in 1..Len(parts) /\ part = parts[Moved + 1]
  <2>1. Rank(1) = 1
    <3>1. \A j \in 1..1 : j = 1
      OBVIOUS
    <3> QED
      BY <1>6, <3>1 DEF Rank
  <2>2. Moved + Rank(1) \in 1..Len(parts)
    BY <1>6, RankFits
  <2> QED
    BY <1>5, <1>6, <2>1, <2>2 DEF DInv, InOrder, Posted
<1> HIDE DEF part
<1>9. Posted'
  <2>1. \A i \in 1..Len(strand') : Busy(i)' \/ i \in 1..Len(strand) - 1
    BY <1>5 DEF Busy
  <2> QED
    BY <1>1, <1>5, <1>6, <1>7, <2>1, TailPosted DEF DInv, InOrder
<1>10. Queued'
  <2>1. \A i \in 1..Len(send_queue') : i \in 1..Len(send_queue) \/ i = Len(send_queue) + 1
    BY <1>2, <1>3
  <2>2. Moved + 1 = Len(called) + (Len(send_queue) + 1)
    BY <1>3, <1>7
  <2> QED
    BY <1>1, <1>2, <1>8, <2>1, <2>2 DEF DInv, InOrder, Queued
<1>11. InHand => send_queue # <<>> /\ writes[1].part = send_queue[1]
  BY DEF QInv, OneBusy, DInv, InOrder
<1>12. InOrder'
  <2>1. InHand' => writes'[1].part = send_queue'[1]
    <3>1. InHand => 1 \in 1..Len(send_queue)
      BY <1>3, <1>11
    <3> QED
      BY <1>1, <1>2, <1>11, <3>1 DEF InHand
  <2> QED
    BY <1>9, <1>10, <2>1 DEF InOrder
<1>13. Complete'
  BY <1>1, <1>6 DEF DInv, Complete
<1>14. ASSUME send_queue # <<>>
       PROVE  (Starting' <=> Starting) /\ (Ended' <=> Ended)
  <2>1. \A i \in 1..Len(strand') : i \in 1..Len(strand) - 1 /\ i + 1 \in 1..Len(strand)
    BY <1>5, <1>14
  <2>2. ASSUME NEW i \in 1..Len(strand), strand[i].do # "append"
        PROVE  \E j \in 1..Len(strand') : strand'[j] = strand[i]
    <3>1. i # 1
      BY <1>6, <2>2 DEF Busy
    <3>2. i - 1 \in 1..Len(strand) - 1 /\ (i - 1) + 1 = i
      BY <1>5, <2>2, <3>1
    <3>3. i - 1 \in 1..Len(strand') /\ strand'[i - 1] = strand[i]
      BY <1>5, <3>2
    <3> QED
      BY <3>3
  <2>3. \A i \in 1..Len(strand') : strand'[i] = strand[i + 1]
    BY <1>5, <2>1
  <2>4. Starting' <=> Starting
    BY <2>1, <2>2, <2>3 DEF Starting
  <2>5. Ended' <=> Ended
    BY <2>1, <2>2, <2>3 DEF Ended
  <2> QED
    BY <2>4, <2>5
<1>15. /\ Gone' \in Gone..Len(parts)
       /\ Gone' = Gone \/ socket = "broken" \/ ~AllSent'
  <2>1. CASE send_queue = <<>>
    <3>1. ~InStrand /\ ~InHand
      BY <2>1 DEF QInv, OneBusy
    <3>2. ~Starting /\ ~Ended
      BY <3>1 DEF Starting, Ended, InStrand, Busy
    <3>3. Starting'
      BY <1>5, <2>1 DEF Starting
    <3>4. Gone = Len(called) + 0 /\ Gone' = Len(called)
      BY <1>1, <1>3, <1>7, <2>1, <3>1, <3>2, <3>3 DEF Gone
    <3> QED
      BY <1>3, <1>7, <1>8, <2>1, <3>4
  <2>2. CASE send_queue # <<>> /\ (InHand \/ Starting \/ Ended)
    <3>1. Gone' = Gone
      BY <1>1, <1>14, <2>2 DEF Gone, InHand
    <3>2. Gone \in 0..Len(parts)
      BY <1>8, GoneFits, QueueFacts
    <3> QED
      BY <1>8, <3>1, <3>2
  <2>3. CASE send_queue # <<>> /\ ~(InHand \/ Starting \/ Ended)
    <3>1. Gone' = Moved + 1 /\ Gone = Moved
      BY <1>1, <1>7, <1>14, <2>3 DEF Gone, InHand
    <3>2. CASE InStrand
      <4>1. PICK i \in 1..Len(strand) : Busy(i)
        BY <3>2 DEF InStrand
      <4>2. strand[i].do \in {"append", "write", "written"}
        BY <4>1 DEF QInv, Typed
      <4>3. strand[i].do = "written" /\ ~strand[i].ok
        BY <2>3, <4>1, <4>2 DEF Busy, Starting, Ended
      <4>4. socket = "broken"
        BY <4>3 DEF QInv, Broken, Typed
      <4> QED
        BY <1>7, <1>8, <3>1, <4>4
    <3>3. CASE ~InStrand
      <4>1. gate' = "shut"
        BY <1>1, <2>3, <3>3 DEF QInv, Driven, Typed
      <4>2. Len(called') < Len(parts')
        BY <1>1, <1>3, <1>7, <1>8, <2>3
      <4>3. ~AllSent'
        BY <1>3, <4>1, <4>2 DEF AllSent
      <4> QED
        BY <1>7, <1>8, <3>1, <4>3
    <3> QED
      BY <3>2, <3>3
  <2> QED
    BY <2>1, <2>2, <2>3
<1>16. Flows
  BY <1>1, <1>6, <1>15, GoneFlows DEF DInv
<1> QED
  BY <1>12, <1>13, <1>16 DEF DInv

\* What is known when the first task concerns the head of send_queue.
LEMMA BusyHead ==
  ASSUME QInv, strand # <<>>, Head(strand).do # "append"
  PROVE  /\ Busy(1) /\ Head(strand) = strand[1] /\ writes = <<>> /\ last = "no" /\ ~InHand
         /\ send_queue # <<>> /\ Len(send_queue) # 0
         /\ \A i \in 1..Len(strand) : Busy(i) => i = 1
         /\ Head(strand).do = "write" => Starting
         /\ Head(strand).do = "written" => ~Starting /\ (Ended <=> Head(strand).ok)
<1>1. Head(strand) = strand[1]
  BY SeqTail DEF QInv, Typed
<1>2. 1 \in 1..Len(strand) /\ Busy(1)
  BY <1>1, QueueFacts DEF Busy
<1>3. \A i \in 1..Len(strand) : Busy(i) => i = 1
  BY <1>2 DEF QInv, OneBusy
<1>4. InStrand
  BY <1>2 DEF InStrand
<1>5. writes = <<>> /\ send_queue # <<>> /\ last = "no"
  BY <1>4 DEF QInv, OneBusy, LastAlone
<1>6. Len(send_queue) # 0
  BY <1>5, QueueFacts
<1>7. ~InHand
  BY <1>5 DEF InHand
<1>8. Head(strand).do = "write" => Starting
  BY <1>1, <1>2 DEF Starting
<1>9. ASSUME Head(strand).do = "written" PROVE ~Starting /\ (Ended <=> Head(strand).ok)
  <2>1. ~Starting
    BY <1>1, <1>3, <1>9 DEF Starting, Busy
  <2>2. Ended <=> Head(strand).ok
    BY <1>1, <1>2, <1>3, <1>9 DEF Ended, Busy
  <2> QED
    BY <2>1, <2>2
<1> QED
  BY <1>1, <1>2, <1>3, <1>5, <1>6, <1>7, <1>8, <1>9

\* When that task goes, none such is left behind it.
LEMMA TailIdle ==
  ASSUME QInv, strand # <<>>, Head(strand).do # "append", strand' = Tail(strand)
  PROVE  ~Starting' /\ ~Ended'
<1>1. /\ Len(strand) \in Nat
      /\ \A i \in 1..Len(strand') : i \in 1..Len(strand) - 1 /\ strand'[i] = strand[i + 1]
  BY Shifted
<1>2. \A i \in 1..Len(strand') : strand'[i].do = "append"
  <2>1. SUFFICES ASSUME NEW i \in 1..Len(strand') PROVE strand'[i].do = "append"
    OBVIOUS
  <2>2. i + 1 \in 1..Len(strand) /\ i + 1 # 1 /\ strand'[i] = strand[i + 1]
    BY <1>1
  <2>3. ~Busy(i + 1)
    BY <2>2, BusyHead
  <2> QED
    BY <2>2, <2>3 DEF Busy
<1> QED
  BY <1>2 DEF Starting, Ended

LEMMA StartFlows ==
  ASSUME Queue!StartWrite, QInv, DInv, UNCHANGED answer
  PROVE  DInv' /\ Flows
<1> DEFINE w == [part |-> Head(send_queue), last |-> FALSE]
<1>1. /\ strand # <<>> /\ Head(strand).do = "write" /\ strand' = Tail(strand)
      /\ writes' = Append(writes, w)
      /\ UNCHANGED <<todo, parts, send_queue, last, called, socket, gate, toClient>>
  BY DEF Queue!StartWrite
<1>2. /\ Busy(1) /\ writes = <<>> /\ last = "no" /\ send_queue # <<>> /\ Starting
  BY <1>1, BusyHead
<1>3. Head(send_queue) = send_queue[1] /\ w.part = Head(send_queue) /\ ~w.last
  BY <1>2, SeqTail DEF QInv, Typed
<1> HIDE DEF w
<1>4. writes'[1] = w /\ writes' # <<>>
  <2>1. IsSeq(writes) /\ Len(writes) = 0
    BY <1>2, SeqEmpty
  <2>2. /\ IsSeq(Append(writes, w)) /\ Len(Append(writes, w)) = Len(writes) + 1
        /\ Append(writes, w)[Len(writes) + 1] = w
    BY <2>1, SeqAppend, Zenon
  <2>3. Len(writes) + 1 = 1
    BY <2>1
  <2>4. Len(writes') = 1 /\ writes'[1] = w /\ IsSeq(writes')
    BY <1>1, <2>2, <2>3, Zenon
  <2> QED
    BY <2>4, SeqFacts
<1>5. InHand'
  BY <1>3, <1>4 DEF InHand
<1>6. /\ Len(strand') \in Nat
      /\ \A i \in 1..Len(strand) - 1 : i \in 1..Len(strand') /\ strand'[i] = strand[i + 1]
      /\ \A i \in 1..Len(strand') : i \in 1..Len(strand) - 1
  BY <1>1, Shifted
<1>7. Moved' = Moved
  BY <1>1 DEF Moved
<1>8. Posted'
  BY <1>1, <1>2, <1>6, <1>7, TailPosted DEF DInv, InOrder
<1>9. Queued'
  BY <1>1 DEF DInv, InOrder, Queued
<1>10. InOrder'
  BY <1>1, <1>3, <1>4, <1>8, <1>9 DEF InOrder
<1>11. Complete'
  BY <1>1, <1>2 DEF DInv, Complete
<1>12. Gone = Len(called) /\ Gone' = Gone
  BY <1>1, <1>2, <1>5 DEF Gone
<1>13. Gone' \in Gone..Len(parts)
  BY <1>12, GoneFits, QueueFacts
<1>14. Flows
  BY <1>1, <1>2, <1>12, <1>13, GoneFlows DEF DInv
<1> QED
  BY <1>10, <1>11, <1>14 DEF DInv

LEMMA WrittenFlows ==
  ASSUME Queue!PartWritten, QInv, DInv, UNCHANGED answer
  PROVE  DInv' /\ Flows
<1>1. /\ strand # <<>> /\ Head(strand).do = "written"
      /\ UNCHANGED <<todo, parts, writes, last, socket, gate, toClient>>
  BY DEF Queue!PartWritten
<1>2. /\ Busy(1) /\ writes = <<>> /\ last = "no" /\ ~InHand /\ send_queue # <<>>
      /\ Len(send_queue) # 0 /\ ~Starting /\ (Ended <=> Head(strand).ok)
  BY <1>1, BusyHead
<1>3. Complete'
  BY <1>1, <1>2 DEF DInv, Complete
<1>4. ~InHand'
  BY <1>1, <1>2 DEF InHand
<1>5. Gone = IF Head(strand).ok THEN Len(called) + 1 ELSE Moved
  BY <1>2 DEF Gone
<1>6. Len(called) \in Nat /\ Len(send_queue) \in Nat /\ Len(parts) \in Nat
  BY QueueFacts
<1>7. Gone \in 0..Moved /\ Moved \in Nat /\ Moved <= Len(parts)
  BY GoneFits
<1>8. CASE gate = "shut"
  <2>1. strand' = Tail(strand) /\ UNCHANGED <<send_queue, called>>
    BY <1>8 DEF Queue!PartWritten
  <2>2. ~Starting' /\ ~Ended'
    BY <1>1, <2>1, TailIdle
  <2>3. Moved' = Moved
    BY <2>1 DEF Moved
  <2>4. /\ Len(strand') \in Nat
        /\ \A i \in 1..Len(strand) - 1 : i \in 1..Len(strand') /\ strand'[i] = strand[i + 1]
        /\ \A i \in 1..Len(strand') : i \in 1..Len(strand) - 1
    BY <1>1, <2>1, Shifted
  <2>5. Posted'
    BY <1>1, <1>2, <2>3, <2>4, TailPosted DEF DInv, InOrder
  <2>6. InOrder'
    BY <1>1, <1>4, <2>1, <2>5 DEF DInv, InOrder, Queued
  <2>7. Gone' = Moved
    BY <1>4, <2>2, <2>3 DEF Gone
  <2>8. Gone' = Gone \/ ~AllSent'
    <3>1. ASSUME Gone' # Gone PROVE ~AllSent'
      <4>1. Gone = Len(called) + 1 /\ Len(called) + 1 < Moved
        BY <1>5, <1>7, <2>7, <3>1
      <4>2. Len(called) # Len(parts)
        BY <1>6, <1>7, <4>1
      <4> QED
        BY <1>1, <1>8, <2>1, <4>2 DEF AllSent
    <3> QED
      BY <3>1
  <2>9. Gone' \in Gone..Len(parts)
    BY <1>6, <1>7, <2>7
  <2>10. Flows
    BY <1>1, <1>2, <2>8, <2>9, GoneFlows DEF DInv
  <2> QED
    BY <1>3, <2>6, <2>10 DEF DInv
<1>9. CASE gate # "shut" /\ Head(strand).ok
  <2>1. /\ called' = Append(called, TRUE) /\ send_queue' = Tail(send_queue)
        /\ strand' = Tail(strand) \o IF send_queue' # <<>> THEN <<Queue!WriteHead>> ELSE <<>>
    BY <1>9 DEF Queue!PartWritten
  <2>2. Len(called') = Len(called) + 1
    BY <2>1, OneMoreTrue DEF QInv, Typed
  <2>3. /\ Len(send_queue') = Len(send_queue) - 1 /\ IsSeq(send_queue')
        /\ \A i \in 1..Len(send_queue) - 1 : send_queue'[i] = send_queue[i + 1]
    BY <1>2, <2>1, SeqTail DEF QInv, Typed
  <2>4. /\ send_queue' # <<>> => strand' = Tail(strand) \o <<Queue!WriteHead>>
        /\ send_queue' = <<>> => strand' = Tail(strand) /\ Len(send_queue') = 0
    BY <1>1, <2>1, SeqTailEmpty, SeqEmpty DEF QInv, Typed
  <2>5. Moved' = Moved /\ Moved = Len(called) + Len(send_queue)
    BY <1>6, <2>2, <2>3 DEF Moved
  <2>6. /\ Len(strand') \in Nat
        /\ \A i \in 1..Len(strand) - 1 : i \in 1..Len(strand') /\ strand'[i] = strand[i + 1]
        /\ \A i \in 1..Len(strand') : i \in 1..Len(strand) - 1 \/ strand'[i].do = "write"
        /\ send_queue' # <<>> => Len(strand) \in 1..Len(strand') /\ strand'[Len(strand)].do = "write"
    BY <1>1, <2>4, Shifted, ShiftedOn, Zenon
  <2>7. Posted'
    <3>1. \A i \in 1..Len(strand') : Busy(i)' \/ i \in 1..Len(strand) - 1
      BY <2>6 DEF Busy
    <3> QED
      BY <1>1, <1>2, <2>5, <2>6, <3>1, TailPosted DEF DInv, InOrder
  <2>8. Queued'
    <3>1. SUFFICES ASSUME NEW i \in 1..Len(send_queue')
                   PROVE  send_queue'[i] = parts[Len(called') + i]
      BY <1>1 DEF Queued
    <3>2. i \in 1..Len(send_queue) - 1 /\ i + 1 \in 1..Len(send_queue)
      BY <1>6, <2>3
    <3>3. send_queue[i + 1] = parts[Len(called) + (i + 1)]
      BY <3>2 DEF DInv, InOrder, Queued
    <3>4. Len(called) + (i + 1) = Len(called') + i
      BY <1>6, <2>2, <3>2
    <3> QED
      BY <2>3, <3>2, <3>3, <3>4
  <2>9. InOrder'
    BY <1>4, <2>7, <2>8 DEF InOrder
  <2>10. Gone' = Gone
    <3>1. CASE send_queue' # <<>>
      <4>1. Starting'
        BY <2>6, <3>1 DEF Starting
      <4> QED
        BY <1>5, <1>9, <2>2, <4>1 DEF Gone
    <3>2. CASE send_queue' = <<>>
      <4>1. ~Starting' /\ ~Ended'
        BY <1>1, <2>4, <3>2, TailIdle
      <4>2. Gone' = Moved'
        BY <1>4, <4>1 DEF Gone
      <4>3. Len(send_queue) = 1
        BY <1>6, <2>3, <2>4, <3>2
      <4> QED
        BY <1>5, <1>9, <2>5, <4>2, <4>3
    <3> QED
      BY <3>1, <3>2
  <2>11. Gone' \in Gone..Len(parts)
    BY <1>6, <1>7, <2>10
  <2>12. Flows
    BY <1>1, <1>2, <2>10, <2>11, GoneFlows DEF DInv
  <2> QED
    BY <1>3, <2>9, <2>12 DEF DInv
<1>10. CASE gate # "shut" /\ ~Head(strand).ok
  <2>1. /\ called' = called \o Queue!AllFail(send_queue) /\ send_queue' = <<>>
        /\ strand' = Tail(strand)
    BY <1>10 DEF Queue!PartWritten
  <2>2. Len(called') = Len(called) + Len(send_queue)
    <3> DEFINE f == Queue!AllFail(send_queue)
    <3>1. DOMAIN send_queue = 1..Len(send_queue)
      BY SeqFacts DEF QInv, Typed
    <3>2. f \in Seq(BOOLEAN) /\ Len(f) = Len(send_queue)
      <4>1. f \in [1..Len(send_queue) -> BOOLEAN]
        BY <3>1 DEF Queue!AllFail
      <4> QED
        BY <1>6, <4>1
    <3> HIDE DEF f
    <3> QED
      <4>1. called \in Seq(BOOLEAN)
        BY DEF QInv, Typed
      <4>2. Len(called \o f) = Len(called) + Len(f)
        BY <3>2, <4>1, ConcatProperties
      <4> QED
        BY <2>1, <3>2, <4>2, Zenon DEF f
  <2>3. ~Starting' /\ ~Ended'
    BY <1>1, <2>1, TailIdle
  <2>4. Moved' = Moved /\ Moved = Len(called) + Len(send_queue) /\ Len(send_queue') = 0
    <3>1. Len(send_queue') = 0
      BY <2>1, SeqEmpty
    <3> QED
      BY <1>6, <2>2, <3>1 DEF Moved
  <2>5. /\ Len(strand') \in Nat
        /\ \A i \in 1..Len(strand) - 1 : i \in 1..Len(strand') /\ strand'[i] = strand[i + 1]
        /\ \A i \in 1..Len(strand') : i \in 1..Len(strand) - 1
    BY <1>1, <2>1, Shifted
  <2>6. Posted'
    BY <1>1, <1>2, <2>4, <2>5, TailPosted DEF DInv, InOrder
  <2>7. InOrder'
    BY <1>4, <2>4, <2>6 DEF InOrder, Queued
  <2>8. Gone' = Gone
    BY <1>4, <1>5, <1>10, <2>3, <2>4 DEF Gone
  <2>9. Gone' \in Gone..Len(parts)
    BY <1>6, <1>7, <2>8
  <2>10. Flows
    BY <1>1, <1>2, <2>8, <2>9, GoneFlows DEF DInv
  <2> QED
    BY <1>3, <2>7, <2>10 DEF DInv
<1> QED
  BY <1>8, <1>9, <1>10

LEMMA DeleteFlows ==
  ASSUME Queue!SendOnDelete, QInv, DInv, UNCHANGED answer
  PROVE  DInv' /\ Flows
<1> DEFINE w == [part |-> todo, last |-> TRUE]
<1>1. /\ last = "no" /\ strand = <<>> /\ writes = <<>>
      /\ last' = "writing" /\ writes' = Append(writes, w) /\ todo' = <<>>
      /\ UNCHANGED <<parts, strand, send_queue, called, socket, gate, toClient>>
  BY DEF Queue!SendOnDelete, Queue!Unreferenced
<1>2. w.part = todo /\ w.last
  OBVIOUS
<1> HIDE DEF w
<1>3. writes' = <<w>>
  BY <1>1
<1>4. writes'[1] = w /\ writes' # <<>>
  BY <1>3
<1>5. ~InHand /\ ~InHand'
  BY <1>1, <1>2, <1>4 DEF InHand
<1>6. Moved' = Moved
  BY <1>1 DEF Moved
<1>7. InOrder'
  <2>1. Queued'
    BY <1>1 DEF DInv, InOrder, Queued
  <2>2. \A i \in 1..Len(strand') : FALSE
    BY <1>1, SeqEmpty
  <2>3. Posted'
    BY <2>2 DEF Posted
  <2> QED
    BY <1>5, <2>1, <2>3 DEF InOrder
<1>8. Complete'
  BY <1>1, <1>2, <1>4, ConcatNothing DEF DInv, Complete
<1>9. Gone' = Gone
  <2>1. (Starting' <=> Starting) /\ (Ended' <=> Ended)
    BY <1>1 DEF Starting, Ended
  <2> QED
    BY <1>1, <1>5, <1>6, <2>1 DEF Gone
<1>10. Written' = Written
  BY <1>1, <1>9 DEF Written
<1>11. Flows
  <2>1. Cat(Written, <<>>) = Written /\ <<>> \in Bytes
    BY WrittenFits, ConcatNothing DEF DInv
  <2> QED
    BY <1>1, <1>10, <2>1 DEF Flows
<1> QED
  BY <1>7, <1>8, <1>11 DEF DInv

\* The write that is in progress.
LEMMA OneCompletes ==
  ASSUME Queue!Complete, QInv
  PROVE  \E ok \in BOOLEAN :
           /\ Len(writes) = 1 /\ writes # <<>> /\ writes' = <<>>
           /\ ok <=> socket = "open"
           /\ ok => toClient' = toClient \o writes[1].part
           /\ ~ok => toClient' = toClient
           /\ writes[1].last => last' \in {"written", "failed"} /\ strand' = strand
           /\ ~writes[1].last => last' = last /\ strand' = Append(strand, Queue!Written(ok))
           /\ UNCHANGED <<todo, held, parts, send_queue, called, socket, gate>>
<1>1. PICK i \in DOMAIN writes : Queue!WriteCompletes(i) \/ Queue!WriteFails(i)
  BY DEF Queue!Complete
<1>2. i = 1 /\ Len(writes) = 1 /\ writes # <<>>
  <2>1. Len(writes) <= 1
    BY DEF QInv, OneBusy
  <2>2. Len(writes) \in Nat /\ DOMAIN writes = 1..Len(writes) /\ (writes = <<>> <=> Len(writes) = 0)
    BY QueueFacts
  <2> QED
    BY <1>1, <2>1, <2>2
<1>3. PICK ok \in BOOLEAN :
        /\ Queue!Completes(1, ok) /\ (ok <=> socket = "open")
        /\ (ok => toClient' = toClient \o writes[1].part)
        /\ (~ok => toClient' = toClient)
        /\ UNCHANGED <<todo, held, parts, send_queue, called, socket, gate>>
  BY <1>1, <1>2 DEF Queue!WriteCompletes, Queue!WriteFails
<1>4. writes' = <<>>
  <2>1. SubSeq(writes, 1, 0) = <<>> /\ SubSeq(writes, 2, 1) = <<>>
    BY SubSeqEmpty
  <2>2. writes' = SubSeq(writes, 1, 1 - 1) \o SubSeq(writes, 1 + 1, Len(writes))
    BY <1>3 DEF Queue!Completes
  <2>3. 1 - 1 = 0 /\ 1 + 1 = 2
    OBVIOUS
  <2>4. writes' = SubSeq(writes, 1, 0) \o SubSeq(writes, 2, 1)
    BY <1>2, <2>2, <2>3
  <2>5. <<>> \o <<>> = <<>>
    BY EmptySeq, ConcatEmptySeq
  <2> QED
    BY <2>1, <2>4, <2>5
<1>5. writes[1].last => last' \in {"written", "failed"} /\ strand' = strand
  BY <1>3 DEF Queue!Completes
<1>6. ~writes[1].last => last' = last /\ strand' = Append(strand, Queue!Written(ok))
  BY <1>3 DEF Queue!Completes
<1> QED
  BY <1>2, <1>3, <1>4, <1>5, <1>6

LEMMA CompleteFlows ==
  ASSUME Queue!Complete, QInv, DInv, socket # "closed", UNCHANGED answer
  PROVE  DInv' /\ Flows
<1>1. PICK ok \in BOOLEAN :
           /\ Len(writes) = 1 /\ writes # <<>> /\ writes' = <<>>
           /\ ok <=> socket = "open"
           /\ ok => toClient' = toClient \o writes[1].part
           /\ ~ok => toClient' = toClient
           /\ writes[1].last => last' \in {"written", "failed"} /\ strand' = strand
           /\ ~writes[1].last => last' = last /\ strand' = Append(strand, Queue!Written(ok))
           /\ UNCHANGED <<todo, held, parts, send_queue, called, socket, gate>>
  BY OneCompletes
<1> DEFINE part == writes[1].part
<1>2. ~ok => socket = "broken"
  BY <1>1 DEF QInv, Typed
<1>3. ~InStrand /\ ~InHand'
  BY <1>1 DEF QInv, OneBusy, InHand
<1>4. Moved' = Moved /\ UNCHANGED <<parts, answer>>
  BY <1>1 DEF Moved
<1>5. Queued'
  BY <1>1 DEF DInv, InOrder, Queued
<1>6. parts \in Texts /\ todo \in Bytes /\ Wire(answer) \in Bytes
  BY DEF DInv, Complete
<1>7. CASE writes[1].last
  <2>1. /\ last' \in {"written", "failed"} /\ strand' = strand /\ last = "writing"
        /\ strand = <<>> /\ ~InHand
    BY <1>1, <1>7 DEF QInv, LastAlone, InHand
  <2>2. Posted'
    <3>1. \A i \in 1..Len(strand') : FALSE
      BY <2>1, SeqEmpty
    <3> QED
      BY <3>1 DEF Posted
  <2>3. Complete'
    BY <1>1, <1>4, <1>6, <2>1 DEF Complete
  <2>4. Gone = Len(parts)
    <3>1. Len(strand) = 0 /\ Len(parts) \in Nat
      BY <2>1, SeqEmpty, QueueFacts
    <3>2. ~Starting /\ ~Ended
      BY <3>1 DEF Starting, Ended
    <3>3. Gone = Moved
      BY <2>1, <3>2 DEF Gone
    <3>4. Len(called) + Len(send_queue) + 0 = Len(parts) + 0
      BY <1>3, <3>1 DEF QInv, Parts
    <3>5. Moved = Len(parts)
      BY <3>1, <3>4, QueueFacts DEF Moved
    <3> QED
      BY <3>3, <3>5
  <2>5. Written = Joined(parts)[Len(parts)] /\ Written' = Wire(answer)
    BY <1>4, <2>1, <2>4 DEF Written
  <2>6. part \in Bytes /\ Cat(Joined(parts)[Len(parts)], part) = Wire(answer)
    BY <2>1 DEF DInv, Complete
  <2>7. Written' = Cat(Written, part)
    BY <2>5, <2>6
  <2>8. toClient' = Cat(toClient, part) \/ (toClient' = toClient /\ socket = "broken")
    <3>1. CASE ok
      <4>1. toClient' = Cat(toClient, part)
        BY <1>1, <3>1, Zenon DEF Cat, CReader!Cat
      <4> QED
        BY <4>1
    <3>2. CASE ~ok
      BY <1>1, <1>2, <3>2
    <3> QED
      BY <3>1, <3>2
  <2>9. Flows
    BY <2>6, <2>7, <2>8 DEF Flows
  <2> QED
    BY <1>3, <1>5, <2>2, <2>3, <2>9 DEF DInv, InOrder
<1>8. CASE ~writes[1].last
  <2> DEFINE task == Queue!Written(ok)
  <2>1. last' = last /\ strand' = Append(strand, task) /\ last = "no"
    BY <1>1, <1>8 DEF QInv, LastAlone
  <2>2. task.do = "written" /\ task.ok = ok
    BY DEF Queue!Written
  <2> HIDE DEF task
  <2>3. /\ Len(strand') = Len(strand) + 1 /\ strand'[Len(strand) + 1] = task
        /\ \A j \in 1..Len(strand) : strand'[j] = strand[j]
    BY <2>1, SeqAppend DEF QInv, Typed
  <2>4. Len(strand) \in Nat /\ Len(strand) + 1 \in 1..Len(strand')
    BY <2>3, QueueFacts
  <2>5. Posted'
    BY <1>4, <2>2, <2>3, EndPosted DEF DInv, InOrder
  <2>6. Complete'
    BY <1>1, <1>4, <2>1 DEF DInv, Complete
  <2>7. InHand /\ part = send_queue[1] /\ send_queue # <<>>
    BY <1>1, <1>8 DEF InHand, DInv, InOrder, QInv, OneBusy
  <2>8. Gone = Len(called) /\ Len(called) \in Nat /\ Len(parts) \in Nat
    BY <2>7, QueueFacts DEF Gone
  <2>9. Len(called) + 1 <= Moved /\ Moved <= Len(parts) /\ Moved \in Nat
    BY <2>7, GoneFits
  <2>10. \A j \in 1..Len(strand) : strand'[j].do = "append"
    BY <1>3, <2>3 DEF InStrand, Busy
  <2>11. \A j \in 1..Len(strand') : j \in 1..Len(strand) \/ j = Len(strand) + 1
    BY <2>3, <2>4
  <2>12. ~Starting' /\ (Ended' <=> ok)
    <3>1. ~Starting'
      BY <2>2, <2>3, <2>10, <2>11 DEF Starting
    <3>2. Ended' <=> ok
      BY <2>2, <2>3, <2>4, <2>10, <2>11 DEF Ended
    <3> QED
      BY <3>1, <3>2
  <2>13. Gone' = IF ok THEN Len(called) + 1 ELSE Moved
    BY <1>1, <1>3, <1>4, <2>12 DEF Gone
  <2>14. CASE ok
    <3>1. 1 \in 1..Len(send_queue)
      BY <2>7, QueueFacts
    <3>2. part = parts[Len(called) + 1]
      BY <2>7, <3>1 DEF DInv, InOrder, Queued
    <3>3. Len(called) \in 0..Len(parts) - 1
      BY <2>8, <2>9
    <3>4. part \in Bytes /\ Joined(parts)[Len(called) + 1] = Cat(Joined(parts)[Len(called)], part)
      BY <1>6, <3>2, <3>3, JoinedOneMore
    <3>5. Written' = Cat(Written, part)
      BY <1>4, <2>1, <2>8, <2>13, <2>14, <3>4 DEF Written
    <3>6. toClient' = Cat(toClient, part)
      BY <1>1, <2>14, Zenon DEF Cat, CReader!Cat
    <3>7. Flows
      BY <3>4, <3>5, <3>6 DEF Flows
    <3> QED
      BY <1>3, <1>5, <2>5, <2>6, <3>7 DEF DInv, InOrder
  <2>15. CASE ~ok
    <3>1. Gone' \in Gone..Len(parts)
      BY <2>8, <2>9, <2>13, <2>15
    <3>2. UNCHANGED <<parts, last, toClient>> /\ socket = "broken"
      BY <1>1, <1>2, <2>1, <2>15
    <3>3. Flows
      BY <2>1, <3>1, <3>2, GoneFlows DEF DInv
    <3> QED
      BY <1>3, <1>5, <2>5, <2>6, <3>3 DEF DInv, InOrder
  <2> QED
    BY <2>14, <2>15
<1> QED
  BY <1>7, <1>8

\* A new Response.
LEMMA NewFlows ==
  ASSUME Queue!NewResponse(Wire(answer')), Wire(answer') \in Bytes
  PROVE  DInv' /\ Written' = <<>> /\ last' = "no"
<1>1. /\ todo' = Wire(answer') /\ parts' = <<>> /\ strand' = <<>> /\ send_queue' = <<>>
      /\ writes' = <<>> /\ last' = "no" /\ called' = <<>>
  BY DEF Queue!NewResponse
<1>2. Len(<<>>) = 0
  BY SeqEmpty
<1>3. <<>> \in Texts
  BY EmptySeq DEF Texts, CReader!Texts
<1>4. ~InHand'
  BY <1>1 DEF InHand
<1>5. (\A i \in 1..Len(strand') : FALSE) /\ (\A i \in 1..Len(send_queue') : FALSE)
  BY <1>1, <1>2
<1>6. Queued' /\ Posted' /\ InOrder'
  BY <1>4, <1>5 DEF Queued, Posted, InOrder
<1>7. Joined(parts')[0] = <<>>
  BY <1>1, <1>3, JoinedParts
<1>8. Complete'
  <2>1. Cat(Joined(parts')[Len(parts')], todo') = Wire(answer')
    BY <1>1, <1>2, <1>7, ConcatNothing
  <2> QED
    BY <1>1, <1>3, <2>1 DEF Complete
<1>9. Gone' = 0
  <2>1. ~Starting' /\ ~Ended'
    BY <1>5 DEF Starting, Ended
  <2>2. Moved' = 0
    BY <1>1, <1>2 DEF Moved
  <2> QED
    BY <1>4, <2>1, <2>2 DEF Gone
<1>10. Written' = <<>>
  BY <1>1, <1>7, <1>9 DEF Written
<1> QED
  BY <1>1, <1>6, <1>8, <1>10 DEF DInv

\* Nothing of it changes.
LEMMA SameFlows ==
  ASSUME UNCHANGED <<todo, parts, strand, send_queue, writes, called, answer>>,
         last' = last \/ {last, last'} \cap {"no", "writing"} = {}
  PROVE  (DInv => DInv') /\ Written' = Written
<1>1. (Queued' <=> Queued) /\ (Posted' <=> Posted) /\ (InOrder' <=> InOrder)
  BY DEF Queued, Posted, InOrder, InHand, Busy, Rank, Moved
<1>2. Complete => Complete'
  BY DEF Complete
<1>3. Gone' = Gone
  BY DEF Gone, InHand, Starting, Ended, Moved
<1>4. Written' = Written
  BY <1>3 DEF Written
<1> QED
  BY <1>1, <1>2, <1>4 DEF DInv

\* What every step of the Response does.
LEMMA QueueFlows ==
  ASSUME QueueStep, QInv, DInv, socket = "closed" => last = "done"
  PROVE  /\ DInv' /\ Flows /\ (AllSent' => AllSent)
         /\ last # "done" /\ last' # "done" /\ (socket # "open" => toClient' = toClient)
         /\ UNCHANGED <<toServer, server, client, socket, gate, request, answer>>
<1>1. UNCHANGED <<toServer, server, client, socket, gate, request, answer>>
  <2>1. ASSUME NEW n \in PartSizes, SendPart(n)
        PROVE  UNCHANGED <<toServer, server, client, socket, gate, request, answer>>
    BY <2>1 DEF SendPart, Queue!Send, serverVars, clientVars, chosen
  <2>2. CASE ReleaseResponse
    BY <2>2 DEF ReleaseResponse, Queue!Release, serverVars, clientVars, chosen
  <2>3. CASE RunStrand
    BY <2>3 DEF RunStrand, Queue!RunStrand, Queue!AppendPart, Queue!StartWrite,
                Queue!PartWritten, serverVars, clientVars, chosen
  <2>4. CASE WritePart
    BY <2>4 DEF WritePart, Queue!Complete, Queue!WriteCompletes, Queue!WriteFails,
                serverVars, clientVars, chosen
  <2>5. CASE SendOnDelete
    BY <2>5 DEF SendOnDelete, Queue!SendOnDelete, serverVars, clientVars, chosen
  <2> QED
    BY <2>1, <2>2, <2>3, <2>4, <2>5 DEF QueueStep
<1>2. /\ Len(called) \in Nat /\ Len(parts) \in Nat /\ Len(called) <= Len(parts)
      /\ last # "no" => strand = <<>> /\ ~held
      /\ last \notin {"no", "writing"} => writes = <<>>
  <2>1. Len(called) <= Len(parts)
    BY GoneFits, QueueFacts
  <2> QED
    BY <2>1, QueueFacts DEF QInv, LastAlone
<1>8. socket # "open" => toClient' = toClient
  <2>1. ASSUME NEW n \in PartSizes, SendPart(n) PROVE toClient' = toClient
    BY <2>1 DEF SendPart, Queue!Send
  <2>2. CASE ReleaseResponse
    BY <2>2 DEF ReleaseResponse, Queue!Release
  <2>3. CASE RunStrand
    BY <2>3 DEF RunStrand, Queue!RunStrand, Queue!AppendPart, Queue!StartWrite, Queue!PartWritten
  <2>4. CASE WritePart
    BY <2>4 DEF WritePart, Queue!Complete, Queue!WriteCompletes, Queue!WriteFails
  <2>5. CASE SendOnDelete
    BY <2>5 DEF SendOnDelete, Queue!SendOnDelete
  <2> QED
    BY <2>1, <2>2, <2>3, <2>4, <2>5 DEF QueueStep
<1>3. ASSUME NEW n \in PartSizes, SendPart(n)
      PROVE  DInv' /\ Flows /\ (AllSent' => AllSent) /\ last # "done" /\ last' # "done"
  <2>1. /\ Queue!Send(n) /\ held /\ last = "no" /\ last' = last /\ called' = called
        /\ parts' = Append(parts, SubSeq(todo, 1, n))
    BY <1>2, <1>3 DEF SendPart, Queue!Send
  <2>2. n \in Nat
    BY ExchangeAssumption
  <2>3. DInv' /\ Flows
    BY <1>1, <2>1, <2>2, SendFlows
  <2>4. Len(parts') = Len(parts) + 1
    BY <2>1, SeqAppend DEF QInv, Typed
  <2>5. Len(called') # Len(parts')
    BY <1>2, <2>1, <2>4
  <2>6. AllSent' => AllSent
    BY <1>1, <2>5 DEF AllSent
  <2> QED
    BY <2>1, <2>3, <2>6
<1>4. CASE ReleaseResponse
  <2>1. /\ UNCHANGED <<todo, parts, strand, send_queue, writes, last, called, toClient>>
        /\ held
    BY <1>4 DEF ReleaseResponse, Queue!Release
  <2>2. DInv' /\ Written' = Written
    BY <1>1, <2>1, SameFlows
  <2>3. Flows
    <3>1. Cat(Written, <<>>) = Written /\ <<>> \in Bytes
      BY WrittenFits, ConcatNothing DEF DInv
    <3> QED
      BY <2>1, <2>2, <3>1 DEF Flows
  <2> QED
    BY <1>1, <1>2, <1>8, <2>1, <2>2, <2>3 DEF AllSent
<1>5. CASE RunStrand
  <2>1. CASE Queue!AppendPart
    <3>1. last = "no" /\ UNCHANGED <<last, called, parts>>
      BY <1>2, <2>1 DEF Queue!AppendPart
    <3>2. DInv' /\ Flows
      BY <1>1, <2>1, <3>1, AppendFlows
    <3> QED
      BY <1>1, <1>8, <3>1, <3>2 DEF AllSent
  <2>2. CASE Queue!StartWrite
    <3>1. last = "no" /\ UNCHANGED <<last, called, parts>>
      BY <1>2, <2>2 DEF Queue!StartWrite
    <3>2. DInv' /\ Flows
      BY <1>1, <2>2, StartFlows
    <3> QED
      BY <1>1, <1>8, <3>1, <3>2 DEF AllSent
  <2>3. CASE Queue!PartWritten
    <3>1. last = "no" /\ UNCHANGED <<last, parts>> /\ (gate = "shut" => called' = called)
      BY <1>2, <2>3 DEF Queue!PartWritten
    <3>2. DInv' /\ Flows
      BY <1>1, <2>3, WrittenFlows
    <3>3. gate \in {"open", "shut"}
      BY DEF QInv, Typed
    <3> QED
      BY <1>1, <1>8, <3>1, <3>2, <3>3 DEF AllSent
  <2> QED
    BY <1>5, <2>1, <2>2, <2>3 DEF RunStrand, Queue!RunStrand
<1>6. CASE WritePart
  <2>1. Queue!Complete
    BY <1>6 DEF WritePart
  <2>2. PICK ok \in BOOLEAN :
          /\ writes # <<>> /\ UNCHANGED <<parts, called>>
          /\ writes[1].last => last' \in {"written", "failed"}
          /\ ~writes[1].last => last' = last
    BY <2>1, OneCompletes
  <2>3. last # "done" /\ last' # "done"
    BY <1>2, <2>2
  <2>4. DInv' /\ Flows
    BY <1>1, <2>1, <2>3, CompleteFlows
  <2> QED
    BY <1>1, <1>8, <2>2, <2>3, <2>4 DEF AllSent
<1>7. CASE SendOnDelete
  <2>1. Queue!SendOnDelete
    BY <1>7 DEF SendOnDelete
  <2>2. last = "no" /\ last' = "writing" /\ UNCHANGED <<called, parts>>
    BY <2>1 DEF Queue!SendOnDelete
  <2>3. DInv' /\ Flows
    BY <1>1, <2>1, DeleteFlows
  <2> QED
    BY <1>1, <1>8, <2>2, <2>3 DEF AllSent
<1> QED
  BY <1>1, <1>3, <1>4, <1>5, <1>6, <1>7, <1>8 DEF QueueStep

-----------------------------------------------------------------------------
(* What the proofs about a reader give for the two ends *)

SSound(r) == SReader!Sound(r)
CSound(r) == CReader!Sound(r)
SWeight(r) == SReader!Weight(r)
CWeight(r) == CReader!Weight(r)
SGood(m) == SReader!Good(m)
CGood(m) == CReader!Good(m)
SReads(r, m, ahead) == SReader!Reads(r, m, ahead)
CReads(r, m, ahead) == CReader!Reads(r, m, ahead)
Body(m) == CReader!Content(m)
Asking == {"header", "line", "content", "chunk", "end"}

LEMMA BothSizes == SReader!Sizes /\ CReader!Sizes
<1>1. Server!Sizes
  BY MessagesAssumption
<1> QED
  BY <1>1, Zenon DEF Server!Sizes, SReader!Sizes, CReader!Sizes,
    Server!IsInjective, SReader!IsInjective, CReader!IsInjective

LEMMA OneAlphabet ==
  /\ SReader!Bytes = Bytes /\ CReader!Bytes = Bytes
  /\ \A s, t : s \o t = Cat(s, t)
BY Zenon DEF Bytes, Cat, CReader!Cat, CReader!Bytes, SReader!Bytes, CReader!Byte, SReader!Byte,
  CReader!CR, SReader!CR, CReader!LF, SReader!LF

LEMMA AskingIs ==
  /\ SReader!Waiting = Asking /\ CReader!Waiting = Asking
  /\ Server!Waiting = Asking /\ Client!Waiting = Asking
<1>1. SReader!Waiting = Asking
  BY DEF Asking, SReader!Waiting, SReader!Until, SReader!Exactly
<1>2. CReader!Waiting = Asking
  BY DEF Asking, CReader!Waiting, CReader!Until, CReader!Exactly
<1> QED
  BY <1>1, <1>2, ServerNames, ClientNames

LEMMA OneContent ==
  \A m : SReader!Wire(m) = Wire(m) /\ SReader!Content(m) = Body(m)
<1>1. \A s : CReader!FlattenSeq(s) = SReader!FlattenSeq(s)
  BY Zenon DEF CReader!FlattenSeq, SReader!FlattenSeq
<1> QED
  BY <1>1, OneWire, Zenon DEF Wire, Body, CReader!Content, SReader!Content

LEMMA Messages ==
  /\ \A m \in Requests : SGood(m) /\ Server!Wire(m) = Wire(m)
  /\ \A m \in Responses : CGood(m)
  /\ \A m : Server!Wire(m) = Wire(m) /\ Client!Wire(m) = Wire(m)
<1>1. \A m : Server!Wire(m) = Wire(m) /\ Client!Wire(m) = Wire(m)
  <2>1. \A m : Server!Wire(m) = SReader!Wire(m)
    BY ServerWires
  <2>2. \A m : Client!Wire(m) = CReader!Wire(m)
    BY ClientWires
  <2>3. \A m : SReader!Wire(m) = Wire(m)
    BY OneContent
  <2> QED
    BY <2>1, <2>2, <2>3 DEF Wire
<1>2. ASSUME NEW m \in Requests PROVE SGood(m)
  BY MessagesAssumption, ServerWires DEF SGood
<1>3. ASSUME NEW m \in Responses PROVE CGood(m)
  BY MessagesAssumption, ClientWires DEF CGood
<1> QED
  BY <1>1, <1>2, <1>3

LEMMA GoodWires ==
  ASSUME NEW m, SGood(m) \/ CGood(m)
  PROVE  Wire(m) \in Bytes /\ Len(Wire(m)) \in Nat
<1>1. Wire(m) \in Bytes
  <2>1. CASE SGood(m)
    BY <2>1, BothSizes, SReader!WireType, OneContent, OneAlphabet DEF SGood
  <2>2. CASE CGood(m)
    BY <2>2, BothSizes, CReader!WireType, OneAlphabet DEF CGood, Wire
  <2> QED
    BY <2>1, <2>2
<1> QED
  BY <1>1, ConcatNothing

LEMMA NoMessageGood == SGood(NoMessage) /\ CGood(NoMessage)
<1>1. NoMessage.framing = "none" /\ NoMessage.chunks = <<>>
  BY DEF NoMessage
<1>2. NoMessage \in [framing : {"length", "chunked", "close", "none"}, chunks : Seq(Seq(STRING))]
  <2>1. <<>> \in Seq(Seq(STRING))
    BY EmptySeq
  <2> QED
    BY <2>1 DEF NoMessage
<1> QED
  BY <1>1, <1>2 DEF SGood, CGood, SReader!Good, CReader!Good, SReader!Message, CReader!Message,
    SReader!Announced, CReader!Announced

LEMMA ServerReadsWhat ==
  ASSUME NEW r, NEW m, NEW ahead
  PROVE  /\ r.op = "header" => (SReads(r, m, ahead) <=> Cat(r.buf, ahead) = Wire(m))
         /\ r.op = "done" /\ SReads(r, m, ahead) =>
              /\ r.head = SReader!Header(m) /\ Cat(r.buf, ahead) = Body(m) /\ Len(r.buf) < MaxSize
              /\ m.framing # "close" => ahead = <<>>
         /\ SReads(r, m, ahead) => r.op \notin {"malformed", "thrown"}
<1>1. SReader!Wire(m) = Wire(m) /\ SReader!Content(m) = Body(m) /\ r.buf \o ahead = Cat(r.buf, ahead)
  BY OneContent, OneAlphabet
<1>2. r.op = "header" => (SReads(r, m, ahead) <=> Cat(r.buf, ahead) = Wire(m))
  BY <1>1 DEF SReads, SReader!Reads
<1>3. r.op = "done" /\ SReads(r, m, ahead) =>
              /\ r.head = SReader!Header(m) /\ Cat(r.buf, ahead) = Body(m) /\ Len(r.buf) < MaxSize
              /\ m.framing # "close" => ahead = <<>>
  BY <1>1 DEF SReads, SReader!Reads
<1>4. SReads(r, m, ahead) => r.op \notin {"malformed", "thrown"}
  BY DEF SReads, SReader!Reads
<1> QED
  BY <1>2, <1>3, <1>4

LEMMA ClientReadsWhat ==
  ASSUME NEW r, NEW m, NEW ahead
  PROVE  /\ r.op = "header" => (CReads(r, m, ahead) <=> Cat(r.buf, ahead) = Wire(m))
         /\ r.op \in {"none", "no_header", "failed", "too_large"} => CReads(r, m, ahead)
         /\ r.op = "done" /\ CReads(r, m, ahead) =>
              /\ r.head = CReader!Header(m) /\ Cat(r.buf, ahead) = Body(m) /\ Len(r.buf) < MaxSize
              /\ m.framing # "close" => ahead = <<>>
<1>1. r.buf \o ahead = Cat(r.buf, ahead)
  BY OneAlphabet
<1>2. r.op = "header" => (CReads(r, m, ahead) <=> Cat(r.buf, ahead) = Wire(m))
  BY <1>1 DEF CReads, CReader!Reads, Wire
<1>3. r.op = "done" /\ CReads(r, m, ahead) =>
              /\ r.head = CReader!Header(m) /\ Cat(r.buf, ahead) = Body(m) /\ Len(r.buf) < MaxSize
              /\ m.framing # "close" => ahead = <<>>
  BY <1>1 DEF CReads, CReader!Reads, Body
<1>4. r.op \in {"none", "no_header", "failed", "too_large"} => CReads(r, m, ahead)
  BY DEF CReads, CReader!Reads
<1> QED
  BY <1>2, <1>3, <1>4

\* Bytes come to a reader.
LEMMA ServerTakes ==
  ASSUME toServer \in Bytes, SSound(server), NEW n \in Nat, Server!Receive(n)
  PROVE  /\ SSound(server') /\ server'.stale = server.stale /\ toServer' \in Bytes
         /\ server.op \in Asking /\ server'.op = server.op /\ toServer # <<>>
         /\ SWeight(server') + Len(toServer') = SWeight(server) + Len(toServer)
         /\ \A m : SReads(server, m, toServer) => SReads(server', m, toServer')
<1>1. SReader!Receive(n) /\ toServer \in SReader!Bytes /\ SReader!Sound(server) /\ SReader!Sizes
  BY ServerReceives, OneAlphabet, BothSizes DEF SSound
<1>2. /\ SSound(server') /\ server'.stale = server.stale /\ toServer' \in Bytes
      /\ server.op \in Asking /\ server'.op = server.op
      /\ SWeight(server') + Len(toServer') = SWeight(server) + Len(toServer)
  BY <1>1, SReader!ReceiveSound, OneAlphabet, AskingIs DEF SSound, SWeight
<1>3. toServer # <<>>
  BY <1>1, SReader!NothingComes
<1>4. ASSUME NEW m, SReads(server, m, toServer) PROVE SReads(server', m, toServer')
  <2>1. toServer \o <<>> = toServer /\ toServer' \o <<>> = toServer'
    BY <1>2, OneAlphabet, ConcatNothing
  <2>2. SReader!Reads(server, m, toServer \o <<>>) /\ <<>> \in SReader!Bytes
    BY <1>4, <2>1, OneAlphabet, ConcatNothing DEF SReads
  <2>3. SReader!Reads(server', m, toServer' \o <<>>)
    BY <1>1, <2>2, SReader!ReadsOn
  <2> QED
    BY <2>1, <2>3 DEF SReads
<1> QED
  BY <1>2, <1>3, <1>4

LEMMA ClientTakes ==
  ASSUME toClient \in Bytes, CSound(client), NEW n \in Nat, Client!Receive(n)
  PROVE  /\ CSound(client') /\ client'.stale = client.stale /\ toClient' \in Bytes
         /\ client.op \in Asking /\ client'.op = client.op /\ toClient # <<>>
         /\ CWeight(client') + Len(toClient') = CWeight(client) + Len(toClient)
         /\ \A m : \A u \in Bytes :
              CReads(client, m, Cat(toClient, u)) => CReads(client', m, Cat(toClient', u))
<1>1. CReader!Receive(n) /\ toClient \in CReader!Bytes /\ CReader!Sound(client) /\ CReader!Sizes
  BY ClientReceives, OneAlphabet, BothSizes DEF CSound
<1>2. /\ CSound(client') /\ client'.stale = client.stale /\ toClient' \in Bytes
      /\ client.op \in Asking /\ client'.op = client.op
      /\ CWeight(client') + Len(toClient') = CWeight(client) + Len(toClient)
  BY <1>1, CReader!ReceiveSound, OneAlphabet, AskingIs DEF CSound, CWeight
<1>3. toClient # <<>>
  BY <1>1, CReader!NothingComes
<1>4. ASSUME NEW m, NEW u \in Bytes, CReads(client, m, Cat(toClient, u))
      PROVE  CReads(client', m, Cat(toClient', u))
  <2>1. CReader!Reads(client, m, toClient \o u) /\ u \in CReader!Bytes
    BY <1>4, OneAlphabet DEF CReads
  <2>2. CReader!Reads(client', m, toClient' \o u)
    BY <1>1, <2>1, CReader!ReadsOn
  <2> QED
    BY <2>2, OneAlphabet DEF CReads
<1> QED
  BY <1>2, <1>3, <1>4

\* A handler of a read runs.
LEMMA ServerReacts ==
  ASSUME toServer \in Bytes, SSound(server), ~server.stale, Server!Handlers
  PROVE  /\ SSound(server') /\ ~server'.stale /\ toServer' = toServer
         /\ server.op \in Asking /\ server'.op \notin {"none", "header", "no_header"}
         /\ SWeight(server') <= SWeight(server)
         /\ server'.op = "too_large" => SWeight(server') >= MaxSize
         /\ server.op = "header" => server.buf # <<>>
         /\ \A m : SGood(m) /\ SReads(server, m, toServer) => SReads(server', m, toServer')
<1>1. SReader!Handlers /\ toServer \in SReader!Bytes /\ SReader!Sound(server) /\ SReader!Sizes
  BY ServerHandles, OneAlphabet, BothSizes DEF SSound
<1>2. SReader!After(server', server) /\ toServer' = toServer /\ server.op \in Asking
  BY <1>1, SReader!HandlersSound, AskingIs
<1>3. server.op = "header" => server.buf # <<>>
  BY <1>1, SReader!NothingRead
<1>4. ASSUME NEW m, SGood(m), SReads(server, m, toServer) PROVE SReads(server', m, toServer')
  BY <1>1, <1>2, <1>4, SReader!HandlersReads DEF SReads, SGood
<1> QED
  BY <1>2, <1>3, <1>4 DEF SReader!After, SSound, SWeight

LEMMA ClientReacts ==
  ASSUME toClient \in Bytes, CSound(client), Client!Handlers
  PROVE  /\ CSound(client') /\ client'.stale = client.stale /\ toClient' = toClient
         /\ client.op \in Asking /\ client'.op \notin {"none", "header", "no_header"}
         /\ CWeight(client') <= CWeight(client)
         /\ client'.op = "too_large" => CWeight(client') >= MaxSize
         /\ client.op = "header" => client.buf # <<>>
         /\ ~client.stale => \A m : \A u \in Bytes :
              CGood(m) /\ CReads(client, m, Cat(toClient, u)) =>
                /\ CReads(client', m, Cat(toClient', u))
                /\ m.framing = "close" => client'.op # "done"
<1>1. CReader!Handlers /\ toClient \in CReader!Bytes /\ CReader!Sound(client) /\ CReader!Sizes
  BY ClientHandles, OneAlphabet, BothSizes DEF CSound
<1>2. CReader!After(client', client) /\ toClient' = toClient /\ client.op \in Asking
  BY <1>1, CReader!HandlersSound, AskingIs
<1>3. client.op = "header" => client.buf # <<>>
  BY <1>1, CReader!NothingRead
<1>4. ASSUME ~client.stale, NEW m, NEW u \in Bytes, CGood(m),
             CReads(client, m, Cat(toClient, u))
      PROVE  /\ CReads(client', m, Cat(toClient', u))
             /\ m.framing = "close" => client'.op # "done"
  <2>1. Cat(toClient, u) \in CReader!Bytes /\ CReader!Good(m)
    BY <1>4, OneAlphabet, Concat DEF CGood
  <2>2. CReader!Reads(client, m, Cat(toClient, u))
    BY <1>4 DEF CReads
  <2>3. CReader!Reads(client', m, Cat(toClient, u))
    BY <1>1, <1>4, <2>1, <2>2, CReader!HandlersReads
  <2>4. m.framing = "close" => client'.op # "done"
    BY <1>1, <1>4, <2>1, <2>2, CReader!HandlersClose
  <2> QED
    BY <1>2, <2>3, <2>4 DEF CReads
<1> QED
  BY <1>2, <1>3, <1>4 DEF CReader!After, CSound, CWeight

\* A reader learns that the connection has ended.
LEMMA ServerStops ==
  ASSUME SSound(server), server.op # "end", Server!EndOfStream \/ Server!Fail
  PROVE  /\ SSound(server') /\ server'.stale = server.stale /\ toServer' = toServer
         /\ server.op \in Asking /\ server'.op \in {"no_header", "failed"}
<1>1. (SReader!EndOfStream \/ SReader!Fail) /\ SReader!Sound(server) /\ SReader!Sizes
  BY ServerEnds, BothSizes DEF SSound
<1> QED
  BY <1>1, SReader!EndSound, AskingIs DEF SSound

LEMMA ClientStops ==
  ASSUME toClient \in Bytes, CSound(client), Client!EndOfStream \/ Client!Fail
  PROVE  /\ CSound(client') /\ client'.stale = client.stale /\ toClient' = toClient
         /\ client.op \in Asking /\ client'.op \in {"no_header", "failed", "done"}
         /\ client.op = "header" => client'.op = "no_header"
         /\ client'.op = "done" => toClient = <<>>
         /\ \A m : \A u \in Bytes :
              CReads(client, m, Cat(toClient, u)) => CReads(client', m, Cat(toClient', u))
<1>1. /\ CReader!EndOfStream \/ CReader!Fail
      /\ toClient \in CReader!Bytes /\ CReader!Sound(client) /\ CReader!Sizes
  BY ClientEnds, OneAlphabet, BothSizes DEF CSound
<1>2. /\ CReader!Sound(client') /\ client'.stale = client.stale /\ toClient' = toClient
      /\ client.op \in CReader!Waiting
      /\ client'.op = IF CReader!EndOfStream /\ client.op = "end" THEN "done"
                      ELSE IF client.op = "header" THEN "no_header" ELSE "failed"
  BY <1>1, CReader!EndSound
<1>3. CReader!EndOfStream => toClient = <<>>
  BY DEF CReader!EndOfStream
<1>4. ASSUME NEW m, NEW u \in Bytes, CReads(client, m, Cat(toClient, u))
      PROVE  CReads(client', m, Cat(toClient', u))
  <2>1. CReader!Reads(client, m, toClient \o u) /\ u \in CReader!Bytes
    BY <1>4, OneAlphabet DEF CReads
  <2>2. CReader!Reads(client', m, toClient' \o u)
    BY <1>1, <2>1, CReader!ReadsEnd
  <2> QED
    BY <2>2, OneAlphabet DEF CReads
<1> QED
  BY <1>2, <1>3, <1>4, AskingIs DEF CSound

-----------------------------------------------------------------------------
(* The invariant of the exchange *)

\* The client has asked, and what it reads begins with the next answer.
Asked == /\ client.op = "header" /\ client.buf = <<>> /\ toClient = <<>>
         /\ socket # "broken" => Written = Wire(answer)

\* Nobody sends another request now.
Waits == client.stale \/ client.op \in {"no_header", "failed"} \/ Asked

\* The client reads the answer, u being what has yet to be written.
Tells == \E u \in Bytes : /\ CReads(client, answer, Cat(toClient, u))
                          /\ socket # "broken" => Cat(Written, u) = Wire(answer)

ReadsAnswer ==
  /\ client.op = "none" => toClient = <<>> /\ last = "done"
  /\ Asked \/ (AllSent => Tells)
  /\ client.op = "done" /\ AllSent /\ answer.framing = "close" =>
       socket # "open" /\ (socket = "closed" => toClient = <<>>)

AnswerFits ==
  /\ client.op \in Asking \cup {"too_large"} => CWeight(client) + Len(toClient) <= Len(Written)
  /\ client.op = "too_large" => CWeight(client) >= MaxSize

ClientSide == ~client.stale => ReadsAnswer /\ AnswerFits

\* A Session reads, or a Response is written, or the connection has gone.
Turns ==
  /\ socket = "closed" => server.op = "none" /\ last = "done"
  /\ server.op # "none" => last = "done"
  /\ server.op = "none" /\ last = "done" => socket # "open"
  /\ ~server.stale

ReadsRequest ==
  /\ server.op = "none" /\ last # "done" => toServer = <<>> \/ (toServer = Wire(request) /\ Waits)
  /\ server.op \in {"header", "content", "line", "chunk", "done", "too_large"} =>
       \/ server.op = "header" /\ server.buf = <<>> /\ toServer = <<>>
       \/ Waits /\ SReads(server, request, toServer)
  /\ server.op \notin {"malformed", "thrown"}

RequestFits ==
  /\ server.op \in Asking \cup {"too_large"} =>
       SWeight(server) + Len(toServer) <= Len(Wire(request))
  /\ server.op = "too_large" => SWeight(server) >= MaxSize

ServerSide == Turns /\ ReadsRequest /\ RequestFits

FTyped ==
  /\ CSound(client) /\ SSound(server) /\ toServer \in Bytes /\ toClient \in Bytes
  /\ SGood(request) /\ CGood(answer)

FInv == FTyped /\ DInv /\ ClientSide /\ ServerSide

-----------------------------------------------------------------------------
(* What the others do leaves one side as it is *)

LEMMA ResponseAside ==
  ASSUME UNCHANGED <<queueVars, answer>>, gate' = gate \/ gate = "open"
  PROVE  (DInv => DInv') /\ Written' = Written /\ last' = last /\ (AllSent' => AllSent)
<1>1. UNCHANGED <<todo, parts, strand, send_queue, writes, last, called, answer>>
  BY DEF queueVars
<1>2. (DInv => DInv') /\ Written' = Written
  BY <1>1, SameFlows
<1>3. AllSent' => AllSent
  BY <1>1 DEF AllSent
<1> QED
  BY <1>1, <1>2, <1>3

LEMMA ClientAside ==
  ASSUME UNCHANGED <<client, toClient, answer>>, Written' = Written,
         last = "done" => last' = "done", socket' = socket \/ socket = "open",
         AllSent' => AllSent
  PROVE  (ClientSide => ClientSide') /\ (Waits => Waits')
<1>1. Asked => Asked'
  BY DEF Asked
<1>2. Tells => Tells'
  BY DEF Tells, CReads
<1>3. ReadsAnswer => ReadsAnswer'
  BY <1>1, <1>2 DEF ReadsAnswer
<1>4. AnswerFits => AnswerFits'
  BY DEF AnswerFits, CWeight
<1> QED
  BY <1>1, <1>3, <1>4 DEF ClientSide, Waits

LEMMA ServerAside ==
  ASSUME UNCHANGED <<server, toServer, request>>, last' = "done" <=> last = "done",
         socket' = socket \/ socket' = "broken", Waits => Waits'
  PROVE  ServerSide => ServerSide'
<1>1. Turns => Turns'
  BY DEF Turns
<1>2. ReadsRequest => ReadsRequest'
  BY DEF ReadsRequest, SReads
<1>3. RequestFits => RequestFits'
  BY DEF RequestFits, SWeight
<1> QED
  BY <1>1, <1>2, <1>3 DEF ServerSide

\* The weights and lengths are numbers.
LEMMA Sizable ==
  ASSUME FTyped, QInv, DInv
  PROVE  /\ CWeight(client) \in Nat /\ SWeight(server) \in Nat
         /\ Len(toClient) \in Nat /\ Len(toServer) \in Nat /\ Len(Written) \in Nat
         /\ Len(Wire(request)) \in Nat /\ Len(Wire(answer)) \in Nat
         /\ Len(Written) <= Len(Wire(answer)) /\ MaxSize \in Nat
<1>1. client \in CReader!Session /\ server \in SReader!Session
  BY DEF FTyped, CSound, SSound, CReader!Sound, SReader!Sound
<1>2. CWeight(client) \in Nat /\ SWeight(server) \in Nat
  BY <1>1, CReader!Weights, SReader!Weights DEF CWeight, SWeight
<1>3. Len(toClient) \in Nat /\ Len(toServer) \in Nat
  BY ConcatNothing DEF FTyped
<1>4. Len(Wire(request)) \in Nat /\ Len(Wire(answer)) \in Nat
  BY GoodWires DEF FTyped
<1>5. Written \in Bytes
  BY WrittenFits DEF DInv
<1>6. PICK u \in Bytes : Cat(Written, u) = Wire(answer)
  BY WrittenFits DEF DInv
<1>7. Len(Wire(answer)) = Len(Written) + Len(u) /\ Len(Written) \in Nat /\ Len(u) \in Nat
  BY <1>5, <1>6, Concat
<1>8. Len(Written) <= Len(Wire(answer))
  BY <1>7
<1>9. MaxSize \in Nat
  BY BothSizes DEF CReader!Sizes
<1> QED
  BY <1>2, <1>3, <1>4, <1>7, <1>8, <1>9

-----------------------------------------------------------------------------
(* The Session and the client's reader *)

\* The bytes of a request come to the server.
LEMMA ToServerInv ==
  ASSUME FInv, QInv, NEW n \in Pieces, DeliverToServer(n)
  PROVE  FInv'
<1>1. /\ Server!Receive(n) /\ n \in Nat
      /\ UNCHANGED <<client, toClient, queueVars, answer, request, socket, gate>>
  BY ExchangeAssumption DEF DeliverToServer, clientVars, chosen
<1>2. (DInv => DInv') /\ Written' = Written /\ last' = last /\ (AllSent' => AllSent)
  BY <1>1, ResponseAside
<1>3. (ClientSide => ClientSide') /\ (Waits => Waits')
  BY <1>1, <1>2, ClientAside
<1>4. /\ SSound(server') /\ server'.stale = server.stale /\ toServer' \in Bytes
      /\ server.op \in Asking /\ server'.op = server.op /\ toServer # <<>>
      /\ SWeight(server') + Len(toServer') = SWeight(server) + Len(toServer)
      /\ \A m : SReads(server, m, toServer) => SReads(server', m, toServer')
  BY <1>1, ServerTakes DEF FInv, FTyped
<1>5. FTyped'
  BY <1>1, <1>4 DEF FInv, FTyped, CSound
<1>6. Turns'
  BY <1>1, <1>2, <1>4 DEF FInv, ServerSide, Turns
<1>7. ReadsRequest'
  <2>1. server.op \notin {"none", "malformed", "thrown"}
    BY <1>4 DEF Asking
  <2> QED
    BY <1>1, <1>3, <1>4, <2>1 DEF FInv, ServerSide, ReadsRequest
<1>8. RequestFits'
  <2>1. server.op # "too_large"
    BY <1>4 DEF Asking
  <2>2. SWeight(server) + Len(toServer) <= Len(Wire(request))
    BY <1>4 DEF FInv, ServerSide, RequestFits
  <2>3. SWeight(server') + Len(toServer') <= Len(Wire(request'))
    BY <1>1, <1>4, <2>2
  <2> QED
    BY <1>4, <2>1, <2>3 DEF RequestFits
<1> QED
  BY <1>2, <1>3, <1>5, <1>6, <1>7, <1>8 DEF FInv, ServerSide

\* A handler of the server reads on.
LEMMA ServerReadsInv ==
  ASSUME FInv, QInv, Serving, ServerReads
  PROVE  FInv'
<1>1. UNCHANGED <<client, toClient, queueVars, answer, request, socket, gate>>
  BY DEF ServerReads, clientVars, chosen
<1>2. (DInv => DInv') /\ Written' = Written /\ last' = last /\ (AllSent' => AllSent)
  BY <1>1, ResponseAside
<1>3. (ClientSide => ClientSide') /\ (Waits => Waits')
  BY <1>1, <1>2, ClientAside
<1>4. Turns /\ ReadsRequest /\ RequestFits
  BY DEF FInv, ServerSide
<1>5. CASE gate = "shut"
  <2>1. /\ server' = [server EXCEPT !.op = "failed"] /\ toServer' = toServer
        /\ server.op \in Asking
    BY <1>5, AskingIs DEF ServerReads
  <2>2. /\ server \in SReader!Session /\ Len(server.chunks) < MaxSize
        /\ Len(server.buf) <= MaxSize
    BY <2>1 DEF FInv, FTyped, SSound, SReader!Sound, Asking
  <2>3. /\ server' \in SReader!Session /\ server'.op = "failed" /\ server'.buf = server.buf
        /\ server'.chunks = server.chunks /\ server'.stale = server.stale
    BY <2>1, <2>2 DEF SReader!Session, SReader!Ops
  <2>4. SSound(server')
    BY <2>2, <2>3 DEF SSound, SReader!Sound
  <2>5. FTyped'
    BY <1>1, <2>1, <2>4 DEF FInv, FTyped, CSound
  <2>6. Turns' /\ ReadsRequest' /\ RequestFits'
    BY <1>1, <1>2, <1>4, <2>1, <2>3 DEF Turns, ReadsRequest, RequestFits, Asking
  <2> QED
    BY <1>2, <1>3, <2>5, <2>6 DEF FInv, ServerSide
<1>6. CASE gate # "shut"
  <2>1. /\ SSound(server') /\ ~server'.stale /\ toServer' = toServer
        /\ server.op \in Asking /\ server'.op \notin {"none", "header", "no_header"}
        /\ SWeight(server') <= SWeight(server)
        /\ server'.op = "too_large" => SWeight(server') >= MaxSize
        /\ server.op = "header" => server.buf # <<>>
        /\ \A m : SGood(m) /\ SReads(server, m, toServer) => SReads(server', m, toServer')
    <3>1. Server!Handlers
      BY <1>6 DEF ServerReads
    <3> QED
      BY <1>4, <3>1, ServerReacts DEF FInv, FTyped, Turns
  <2>2. FTyped'
    BY <1>1, <2>1 DEF FInv, FTyped, CSound
  <2>3. Waits /\ SReads(server, request, toServer)
    <3>1. server.op \in {"header", "content", "line", "chunk", "done", "too_large"}
      BY <2>1 DEF Asking, Serving
    <3> QED
      BY <1>4, <2>1, <3>1 DEF ReadsRequest
  <2>4. SReads(server', request', toServer') /\ Waits'
    BY <1>1, <1>3, <2>1, <2>3 DEF FInv, FTyped
  <2>5. server'.op \notin {"malformed", "thrown"}
    BY <2>4, ServerReadsWhat
  <2>6. Turns' /\ ReadsRequest'
    BY <1>1, <1>2, <1>4, <2>1, <2>4, <2>5 DEF Turns, ReadsRequest, Asking
  <2>7. RequestFits'
    <3>1. SWeight(server) + Len(toServer) <= Len(Wire(request))
      BY <1>4, <2>1 DEF RequestFits
    <3>2. SWeight(server') \in Nat /\ SWeight(server) \in Nat /\ Len(toServer) \in Nat
          /\ Len(Wire(request)) \in Nat
      <4>1. server' \in SReader!Session
        BY <2>1 DEF SSound, SReader!Sound
      <4> QED
        BY <4>1, Sizable, SReader!Weights DEF FInv, SWeight
    <3>3. SWeight(server') + Len(toServer') <= Len(Wire(request'))
      BY <1>1, <2>1, <3>1, <3>2
    <3> QED
      BY <2>1, <3>3 DEF RequestFits
  <2> QED
    BY <1>2, <1>3, <2>2, <2>6, <2>7 DEF FInv, ServerSide
<1> QED
  BY <1>5, <1>6

\* It learns that the connection has ended.
LEMMA ServerEndsInv ==
  ASSUME FInv, Serving, EndsForServer
  PROVE  FInv'
<1>1. /\ Server!EndOfStream \/ Server!Fail
      /\ UNCHANGED <<client, toClient, queueVars, answer, request, socket, gate>>
  BY DEF EndsForServer, clientVars, chosen
<1>2. (DInv => DInv') /\ Written' = Written /\ last' = last /\ (AllSent' => AllSent)
  BY <1>1, ResponseAside
<1>3. (ClientSide => ClientSide') /\ (Waits => Waits')
  BY <1>1, <1>2, ClientAside
<1>4. /\ SSound(server') /\ server'.stale = server.stale /\ toServer' = toServer
      /\ server.op \in Asking /\ server'.op \in {"no_header", "failed"}
  BY <1>1, ServerStops DEF FInv, FTyped, Serving
<1>5. FTyped'
  BY <1>1, <1>4 DEF FInv, FTyped, CSound
<1>6. Turns' /\ ReadsRequest' /\ RequestFits'
  BY <1>1, <1>2, <1>4 DEF FInv, ServerSide, Turns, ReadsRequest, RequestFits, Asking
<1> QED
  BY <1>2, <1>3, <1>5, <1>6 DEF FInv, ServerSide

\* A Session that is no longer there.
LEMMA NoSession ==
  /\ SSound(Server!Nothing) /\ Server!Nothing.op = "none" /\ ~Server!Nothing.stale
  /\ SSound(Server!Reading) /\ Server!Reading.op = "header" /\ ~Server!Reading.stale
  /\ Server!Reading.buf = <<>> /\ SWeight(Server!Reading) = 0
BY BothSizes, SReader!NewSession, ServerNames DEF SSound, SWeight

LEMMA NoReader ==
  /\ CSound(Client!Nothing) /\ Client!Nothing.op = "none" /\ ~Client!Nothing.stale
  /\ CSound(Client!Reading) /\ Client!Reading.op = "header" /\ ~Client!Reading.stale
  /\ Client!Reading.buf = <<>> /\ CWeight(Client!Reading) = 0
BY BothSizes, CReader!NewSession, ClientNames DEF CSound, CWeight

LEMMA DropInv ==
  ASSUME FInv, QInv, DropSession
  PROVE  FInv'
<1>1. /\ server.op \in Refused /\ server' = Server!Nothing
      /\ socket' = IF socket = "open" THEN "closed" ELSE socket
      /\ UNCHANGED <<toServer, client, toClient, queueVars, answer, request, gate>>
  BY DEF DropSession, clientVars, chosen
<1>2. (DInv => DInv') /\ Written' = Written /\ last' = last /\ (AllSent' => AllSent)
  BY <1>1, ResponseAside
<1>3. (ClientSide => ClientSide') /\ (Waits => Waits')
  BY <1>1, <1>2, ClientAside
<1>4. SSound(server') /\ server'.op = "none" /\ ~server'.stale
  BY <1>1, NoSession
<1>5. FTyped'
  BY <1>1, <1>4 DEF FInv, FTyped, CSound
<1>6. last = "done" /\ last' = "done"
  BY <1>1, <1>2 DEF FInv, ServerSide, Turns, Refused
<1>7. Turns' /\ ReadsRequest' /\ RequestFits'
  BY <1>1, <1>4, <1>6 DEF Turns, ReadsRequest, RequestFits, Asking
<1> QED
  BY <1>2, <1>3, <1>5, <1>7 DEF FInv, ServerSide

\* The Response has gone: the next request, or the end of the connection.
LEMMA LastWrittenInv ==
  ASSUME FInv, QInv, LastWritten
  PROVE  FInv'
<1>1. /\ last \in {"written", "failed"} /\ last' = "done"
      /\ UNCHANGED <<toServer, client, toClient, todo, parts, strand, send_queue,
                     writes, called, gate, answer, request>>
  BY DEF LastWritten, clientVars, chosen
<1>2. (DInv => DInv') /\ Written' = Written
  BY <1>1, SameFlows
<1>3. AllSent' => AllSent
  BY <1>1 DEF AllSent
<1>4. /\ server.op = "none" /\ socket # "closed"
      /\ toServer = <<>> \/ (toServer = Wire(request) /\ Waits)
  BY <1>1 DEF FInv, ServerSide, Turns, ReadsRequest
<1>5. \/ server' = Server!Reading /\ socket' = socket
      \/ server' = server /\ socket' = IF socket = "open" THEN "closed" ELSE socket
  BY DEF LastWritten
<1>6. (ClientSide => ClientSide') /\ (Waits => Waits')
  BY <1>1, <1>2, <1>3, <1>5, ClientAside
<1>7. CASE server' = Server!Reading /\ socket' = socket
  <2>1. /\ SSound(server') /\ server'.op = "header" /\ ~server'.stale /\ server'.buf = <<>>
        /\ SWeight(server') = 0
    BY <1>7, NoSession
  <2>2. FTyped'
    BY <1>1, <2>1 DEF FInv, FTyped, CSound
  <2>3. Turns'
    BY <1>1, <1>4, <1>7, <2>1 DEF Turns
  <2>4. ReadsRequest'
    <3>1. CASE toServer = <<>>
      BY <1>1, <2>1, <3>1 DEF ReadsRequest
    <3>2. CASE toServer = Wire(request) /\ Waits
      <4>1. Cat(server'.buf, toServer') = Wire(request')
        BY <1>1, <2>1, <3>2, ConcatNothing DEF FInv, FTyped
      <4>2. SReads(server', request', toServer')
        BY <2>1, <4>1, ServerReadsWhat
      <4> QED
        BY <1>6, <2>1, <3>2, <4>2 DEF ReadsRequest
    <3> QED
      BY <1>4, <3>1, <3>2
  <2>5. RequestFits'
    <3>1. Len(toServer) <= Len(Wire(request)) /\ Len(toServer) \in Nat
      BY <1>4, ConcatNothing, GoodWires DEF FInv, FTyped
    <3>2. SWeight(server') + Len(toServer') <= Len(Wire(request'))
      BY <1>1, <2>1, <3>1, GoodWires DEF FInv, FTyped
    <3> QED
      BY <2>1, <3>2 DEF RequestFits
  <2> QED
    BY <1>2, <1>6, <2>2, <2>3, <2>4, <2>5 DEF FInv, ServerSide
<1>8. CASE server' = server /\ socket' = IF socket = "open" THEN "closed" ELSE socket
  <2>1. FTyped'
    BY <1>1, <1>8 DEF FInv, FTyped, CSound, SSound
  <2>2. Turns' /\ ReadsRequest' /\ RequestFits'
    BY <1>1, <1>4, <1>8 DEF FInv, ServerSide, Turns, ReadsRequest, RequestFits, Asking
  <2> QED
    BY <1>2, <1>6, <2>1, <2>2 DEF FInv, ServerSide
<1> QED
  BY <1>5, <1>7, <1>8

\* The resource function is called with the request.
LEMMA ServeInv ==
  ASSUME FInv, QInv, NEW m \in Responses, ServeRequest(m)
  PROVE  FInv'
<1>1. /\ server.op = "done" /\ answer' = m /\ Queue!NewResponse(Wire(m))
      /\ server' = Server!Nothing
      /\ UNCHANGED <<toServer, client, toClient, socket, gate, request>>
  BY Messages DEF ServeRequest, clientVars
<1>2. CGood(answer') /\ Wire(answer') \in Bytes
  BY <1>1, Messages, GoodWires
<1>3. DInv' /\ Written' = <<>> /\ last' = "no"
  BY <1>1, <1>2, NewFlows
<1>4. SSound(server') /\ server'.op = "none" /\ ~server'.stale
  BY <1>1, NoSession
<1>5. FTyped'
  BY <1>1, <1>2, <1>4 DEF FInv, FTyped, CSound
<1>6. Waits /\ SReads(server, request, toServer) /\ last = "done" /\ socket # "closed"
  BY <1>1 DEF FInv, ServerSide, Turns, ReadsRequest
<1>7. toServer = <<>>
  <2>1. request.framing # "close"
    BY DEF FInv, FTyped, SGood, SReader!Good, SReader!Announced
  <2> QED
    BY <1>1, <1>6, <2>1, ServerReadsWhat
<1>8. Turns' /\ ReadsRequest' /\ RequestFits'
  BY <1>1, <1>3, <1>4, <1>6, <1>7 DEF Turns, ReadsRequest, RequestFits, Asking
<1>9. ClientSide'
  <2>1. SUFFICES ASSUME ~client.stale PROVE ReadsAnswer' /\ AnswerFits'
    BY <1>1 DEF ClientSide
  <2>2. client.op \in {"no_header", "failed"} \/ Asked
    BY <1>6, <2>1 DEF Waits
  <2>3. CReads(client', answer', Cat(toClient', Wire(answer')))
    <3>1. CASE client.op \in {"no_header", "failed"}
      BY <1>1, <3>1, ClientReadsWhat
    <3>2. CASE Asked
      <4>1. client'.op = "header" /\ client'.buf = <<>> /\ toClient' = <<>>
        BY <1>1, <3>2 DEF Asked
      <4>2. Cat(toClient', Wire(answer')) = Wire(answer')
        BY <1>2, <4>1, ConcatNothing
      <4>3. Cat(client'.buf, Cat(toClient', Wire(answer'))) = Wire(answer')
        BY <1>2, <4>1, <4>2, ConcatNothing
      <4> QED
        BY <4>1, <4>3, ClientReadsWhat
    <3> QED
      BY <2>2, <3>1, <3>2
  <2>4. Cat(Written', Wire(answer')) = Wire(answer')
    BY <1>2, <1>3, ConcatNothing
  <2>5. Tells'
    BY <1>2, <2>3, <2>4 DEF Tells
  <2>6. client.op \notin {"none", "done", "too_large"}
    BY <2>2 DEF Asked
  <2>7. ReadsAnswer'
    BY <1>1, <2>5, <2>6 DEF ReadsAnswer
  <2>8. ASSUME client.op \in Asking PROVE CWeight(client') + Len(toClient') <= Len(Written')
    <3>1. Asked
      BY <2>2, <2>8 DEF Asking
    <3>2. client.chunks = <<>> /\ client.buf = <<>> /\ toClient = <<>>
      BY <3>1 DEF Asked, FInv, FTyped, CSound, CReader!Sound
    <3>3. CWeight(client) = 0
      BY <3>2, SeqEmpty DEF CWeight, CReader!Weight
    <3> QED
      BY <1>1, <1>3, <3>2, <3>3, SeqEmpty DEF CWeight
  <2>9. AnswerFits'
    BY <1>1, <2>6, <2>8 DEF AnswerFits
  <2> QED
    BY <2>7, <2>9
<1> QED
  BY <1>3, <1>5, <1>8, <1>9 DEF FInv, ServerSide

\* The client asks.
LEMMA SendRequestInv ==
  ASSUME FInv, QInv, Serving, NEW m \in Requests, SendRequest(m)
  PROVE  FInv'
<1>1. /\ client.op \in {"none", "done"} /\ socket = "open" /\ ~client.stale /\ gate = "open"
      /\ request' = m /\ toServer' = toServer \o Wire(m) /\ client' = Client!Reading
      /\ UNCHANGED <<server, toClient, queueVars, socket, gate, answer>>
  BY Messages DEF SendRequest
<1>2. (DInv => DInv') /\ Written' = Written /\ last' = last /\ (AllSent' => AllSent)
  BY <1>1, ResponseAside
<1>3. /\ CSound(client') /\ client'.op = "header" /\ ~client'.stale /\ client'.buf = <<>>
      /\ CWeight(client') = 0
  BY <1>1, NoReader
<1>4. SGood(m) /\ Wire(m) \in Bytes
  BY Messages, GoodWires
<1>5. ReadsAnswer /\ Turns /\ ReadsRequest /\ Written \in Bytes
  BY <1>1, WrittenFits DEF FInv, ClientSide, ServerSide, DInv
<1>6. toClient = <<>> /\ Written = Wire(answer)
  <2>1. CASE client.op = "none"
    BY <1>5, <2>1 DEF ReadsAnswer, Written
  <2>2. CASE client.op = "done"
    <3>1. ~Asked /\ AllSent
      BY <1>1, <2>2 DEF Asked, AllSent
    <3>2. answer.framing # "close"
      BY <1>1, <1>5, <2>2, <3>1 DEF ReadsAnswer
    <3>3. PICK u \in Bytes : /\ CReads(client, answer, Cat(toClient, u))
                             /\ socket # "broken" => Cat(Written, u) = Wire(answer)
      BY <1>5, <3>1 DEF ReadsAnswer, Tells
    <3>4. Cat(toClient, u) = <<>>
      BY <2>2, <3>2, <3>3, ClientReadsWhat
    <3>5. Len(toClient) + Len(u) = 0 /\ Len(toClient) \in Nat /\ Len(u) \in Nat
      BY <3>4, Concat, ConcatNothing DEF FInv, FTyped
    <3>6. Len(toClient) = 0 /\ Len(u) = 0
      BY <3>5
    <3>7. toClient = <<>> /\ u = <<>>
      BY <3>6, ConcatNothing DEF FInv, FTyped
    <3>8. Cat(Written, <<>>) = Wire(answer)
      BY <1>1, <3>3, <3>7
    <3> QED
      BY <1>5, <3>7, <3>8, ConcatNothing
  <2> QED
    BY <1>1, <2>1, <2>2
<1>7. Asked'
  BY <1>1, <1>2, <1>3, <1>6 DEF Asked
<1>8. ~Waits
  BY <1>1 DEF Waits, Asked
<1>9. \/ server.op \in {"none", "header"} /\ toServer = <<>>
      \/ server.op \in {"no_header", "failed"}
  <2>1. server.op = "none" => last # "done"
    BY <1>1, <1>5 DEF Turns
  <2>2. server.op = "none" => toServer = <<>>
    BY <1>5, <1>8, <2>1 DEF ReadsRequest
  <2>3. server.op \in {"header", "content", "line", "chunk", "done", "too_large"} =>
          server.op = "header" /\ server.buf = <<>> /\ toServer = <<>>
    BY <1>5, <1>8 DEF ReadsRequest
  <2>4. server.op \in Asking \cup {"none", "done", "too_large", "malformed", "thrown",
                                    "no_header", "failed"}
    BY AskingIs DEF FInv, FTyped, SSound, SReader!Sound, SReader!Session, SReader!Ops
  <2>5. server.op \notin {"malformed", "thrown", "end"}
    BY <1>5 DEF ReadsRequest, Serving
  <2> QED
    BY <2>2, <2>3, <2>4, <2>5 DEF Asking
<1>10. toServer' \in Bytes /\ (toServer = <<>> => toServer' = Wire(m))
  <2>1. toServer' = Cat(toServer, Wire(m))
    BY <1>1, OneAlphabet
  <2> QED
    BY <1>4, <2>1, Concat, ConcatNothing DEF FInv, FTyped
<1>11. FTyped'
  BY <1>1, <1>3, <1>4, <1>10 DEF FInv, FTyped, SSound
<1>12. ClientSide'
  <2>1. ReadsAnswer'
    BY <1>3, <1>7 DEF ReadsAnswer
  <2>2. Len(toClient') = 0 /\ Len(Written') \in Nat
    BY <1>1, <1>2, <1>5, <1>6, ConcatNothing
  <2>3. AnswerFits'
    BY <1>3, <2>2 DEF AnswerFits
  <2> QED
    BY <2>1, <2>3 DEF ClientSide
<1>13. Waits'
  BY <1>7 DEF Waits
<1>14. Turns'
  BY <1>1, <1>2, <1>5 DEF Turns
<1>15. ReadsRequest'
  <2>1. ASSUME server.op = "header" PROVE SReads(server', request', toServer')
    <3>1. server.buf = <<>> /\ toServer' = Wire(m)
      BY <1>5, <1>8, <1>10, <2>1 DEF ReadsRequest
    <3>2. Cat(server'.buf, toServer') = Wire(request')
      BY <1>1, <1>4, <3>1, ConcatNothing
    <3> QED
      BY <1>1, <2>1, <3>2, ServerReadsWhat
  <2>2. server' = server /\ (server.op = "none" => toServer' = Wire(request'))
    BY <1>1, <1>9, <1>10
  <2> QED
    BY <1>9, <1>13, <2>1, <2>2 DEF ReadsRequest
<1>16. RequestFits'
  <2>1. ASSUME server.op = "header"
        PROVE  SWeight(server') + Len(toServer') <= Len(Wire(request'))
    <3>1. server.buf = <<>> /\ toServer' = Wire(m)
      BY <1>5, <1>8, <1>10, <2>1 DEF ReadsRequest
    <3>2. server.chunks = <<>>
      BY <2>1 DEF FInv, FTyped, SSound, SReader!Sound
    <3>3. SWeight(server') = 0
      BY <1>1, <3>1, <3>2, SeqEmpty DEF SWeight, SReader!Weight
    <3>4. Len(Wire(m)) \in Nat
      BY <1>4, ConcatNothing
    <3> QED
      BY <1>1, <3>1, <3>3, <3>4
  <2>2. server' = server
    BY <1>1
  <2> QED
    BY <1>9, <2>1, <2>2 DEF RequestFits, Asking
<1> QED
  BY <1>2, <1>5, <1>11, <1>12, <1>14, <1>15, <1>16 DEF FInv, ServerSide

LEMMA StaleSet ==
  ASSUME NEW r \in CReader!Session, NEW x \in BOOLEAN
  PROVE  LET s == [r EXCEPT !.stale = x] IN
         /\ s \in CReader!Session /\ s.op = r.op /\ s.buf = r.buf /\ s.chunks = r.chunks
         /\ s.stale = x
BY DEF CReader!Session

\* The client asks again, on a new connection.
LEMMA ReconnectInv ==
  ASSUME FInv, QInv, Reconnect
  PROVE  FInv'
<1>1. /\ client.op = "no_header" /\ gate = "open" /\ server.op = "none" /\ last = "done"
      /\ socket' = "open" /\ toServer' = Wire(request) /\ server' = Server!Reading
      /\ client' = [client EXCEPT !.op = "header", !.stale = client.buf # <<>>]
      /\ toClient' = <<>> /\ UNCHANGED <<queueVars, gate, request, answer>>
  BY Messages DEF Reconnect, Quiet, chosen
<1>2. (DInv => DInv') /\ Written' = Written /\ last' = last /\ (AllSent' => AllSent)
  BY <1>1, ResponseAside
<1>3. /\ SSound(server') /\ server'.op = "header" /\ ~server'.stale
      /\ server'.buf = <<>> /\ SWeight(server') = 0
  BY <1>1, NoSession
<1>4. /\ client \in CReader!Session /\ client.chunks = <<>> /\ Len(client.buf) <= MaxSize
      /\ Len(client.chunks) < MaxSize
  BY <1>1 DEF FInv, FTyped, CSound, CReader!Sound
<1>5. /\ client' \in CReader!Session /\ client'.op = "header" /\ client'.buf = client.buf
      /\ client'.chunks = client.chunks /\ (client'.stale <=> client.buf # <<>>)
  <2> DEFINE a == [client EXCEPT !.op = "header"]
             b == [a EXCEPT !.stale = client.buf # <<>>]
  <2>1. "header" \in CReader!Ops
    BY AskingIs DEF CReader!Ops, Asking
  <2>2. /\ a \in CReader!Session /\ a.op = "header" /\ a.buf = client.buf
        /\ a.chunks = client.chunks
    BY <1>4, <2>1 DEF CReader!Session
  <2>3. client' = b
    BY <1>1
  <2> HIDE DEF a
  <2>4. (client.buf # <<>>) \in BOOLEAN
    OBVIOUS
  <2>5. /\ b \in CReader!Session /\ b.op = a.op /\ b.buf = a.buf /\ b.chunks = a.chunks
        /\ b.stale = (client.buf # <<>>)
    BY <2>2, <2>4, StaleSet
  <2> HIDE DEF b
  <2> QED
    BY <2>2, <2>3, <2>5
<1>6. CSound(client')
  BY <1>4, <1>5 DEF CSound, CReader!Sound
<1>7. Wire(request) \in Bytes /\ Len(Wire(request)) \in Nat
  BY GoodWires DEF FInv, FTyped
<1>8. FTyped'
  BY <1>1, <1>3, <1>6, <1>7, ConcatNothing DEF FInv, FTyped
<1>9. ~client'.stale => Asked'
  BY <1>1, <1>2, <1>5 DEF Asked, Written
<1>10. Waits'
  BY <1>9 DEF Waits
<1>11. ClientSide'
  <2>1. SUFFICES ASSUME ~client'.stale PROVE ReadsAnswer' /\ AnswerFits'
    BY DEF ClientSide
  <2>2. ReadsAnswer'
    BY <1>5, <1>9, <2>1 DEF ReadsAnswer
  <2>3. client'.buf = <<>> /\ client'.chunks = <<>>
    BY <1>4, <1>5, <2>1
  <2>4. CWeight(client') = 0 /\ Len(toClient') = 0
    <3>1. toClient' = <<>>
      BY <1>1
    <3>2. Len(<<>>) = 0
      BY SeqEmpty
    <3>3. Len(client'.buf) + Len(client'.chunks) = 0
      BY <2>3, <3>2
    <3> QED
      BY <3>1, <3>2, <3>3 DEF CWeight, CReader!Weight
  <2>5. Len(Written') \in Nat
    BY <1>2, Sizable DEF FInv
  <2>6. AnswerFits'
    BY <1>5, <2>4, <2>5 DEF AnswerFits
  <2> QED
    BY <2>2, <2>6
<1>12. Turns'
  BY <1>1, <1>2, <1>3 DEF Turns
<1>13. ReadsRequest'
  <2>1. Cat(server'.buf, toServer') = Wire(request')
    BY <1>1, <1>3, <1>7, ConcatNothing
  <2>2. SReads(server', request', toServer')
    BY <1>3, <2>1, ServerReadsWhat
  <2> QED
    BY <1>3, <1>10, <2>2 DEF ReadsRequest
<1>14. RequestFits'
  BY <1>1, <1>3, <1>7 DEF RequestFits
<1> QED
  BY <1>2, <1>8, <1>11, <1>12, <1>13, <1>14 DEF FInv, ServerSide

\* The bytes of an answer come to the client.
LEMMA ToClientInv ==
  ASSUME FInv, QInv, NEW n \in Pieces, DeliverToClient(n)
  PROVE  FInv'
<1>1. /\ Client!Receive(n) /\ n \in Nat
      /\ UNCHANGED <<server, toServer, queueVars, answer, request, socket, gate>>
  BY ExchangeAssumption DEF DeliverToClient, serverVars, chosen
<1>2. (DInv => DInv') /\ Written' = Written /\ last' = last /\ (AllSent' => AllSent)
  BY <1>1, ResponseAside
<1>3. /\ CSound(client') /\ client'.stale = client.stale /\ toClient' \in Bytes
      /\ client.op \in Asking /\ client'.op = client.op /\ toClient # <<>>
      /\ CWeight(client') + Len(toClient') = CWeight(client) + Len(toClient)
      /\ \A m : \A u \in Bytes :
           CReads(client, m, Cat(toClient, u)) => CReads(client', m, Cat(toClient', u))
  BY <1>1, ClientTakes DEF FInv, FTyped
<1>4. FTyped'
  BY <1>1, <1>3 DEF FInv, FTyped, SSound
<1>5. Waits => Waits'
  BY <1>3 DEF Waits, Asked, Asking
<1>6. ServerSide'
  BY <1>1, <1>2, <1>5, ServerAside DEF FInv
<1>7. ClientSide'
  <2>1. SUFFICES ASSUME ~client'.stale PROVE ReadsAnswer' /\ AnswerFits'
    BY DEF ClientSide
  <2>2. ReadsAnswer /\ AnswerFits
    BY <1>3, <2>1 DEF FInv, ClientSide
  <2>3. ASSUME AllSent' PROVE Tells'
    <3>1. Tells
      BY <1>2, <1>3, <2>2, <2>3 DEF ReadsAnswer, Asked
    <3> QED
      BY <1>1, <1>2, <1>3, <3>1 DEF Tells
  <2>4. client.op \notin {"none", "done", "too_large"}
    BY <1>3 DEF Asking
  <2>5. ReadsAnswer'
    BY <1>3, <2>3, <2>4 DEF ReadsAnswer
  <2>6. AnswerFits'
    <3>1. CWeight(client) + Len(toClient) <= Len(Written)
      BY <1>3, <2>2 DEF AnswerFits
    <3>2. CWeight(client') + Len(toClient') <= Len(Written')
      BY <1>2, <1>3, <3>1
    <3> QED
      BY <1>3, <2>4, <3>2 DEF AnswerFits
  <2> QED
    BY <2>5, <2>6
<1> QED
  BY <1>2, <1>4, <1>6, <1>7 DEF FInv

\* A handler of the client reads on.
LEMMA ClientReadsInv ==
  ASSUME FInv, QInv, ClientReads
  PROVE  FInv'
<1>1. /\ Client!Handlers
      /\ UNCHANGED <<server, toServer, queueVars, answer, request, socket, gate>>
  BY DEF ClientReads, serverVars, chosen
<1>2. (DInv => DInv') /\ Written' = Written /\ last' = last /\ (AllSent' => AllSent)
  BY <1>1, ResponseAside
<1>3. /\ CSound(client') /\ client'.stale = client.stale /\ toClient' = toClient
      /\ client.op \in Asking /\ client'.op \notin {"none", "header", "no_header"}
      /\ CWeight(client') <= CWeight(client)
      /\ client'.op = "too_large" => CWeight(client') >= MaxSize
      /\ client.op = "header" => client.buf # <<>>
      /\ ~client.stale => \A m : \A u \in Bytes :
           CGood(m) /\ CReads(client, m, Cat(toClient, u)) =>
             /\ CReads(client', m, Cat(toClient', u))
             /\ m.framing = "close" => client'.op # "done"
  BY <1>1, ClientReacts DEF FInv, FTyped
<1>4. FTyped'
  BY <1>1, <1>3 DEF FInv, FTyped, SSound
<1>5. ~Asked /\ client.op \notin {"no_header", "failed"}
  BY <1>3 DEF Asked, Asking
<1>6. Waits => Waits'
  BY <1>3, <1>5 DEF Waits
<1>7. ServerSide'
  BY <1>1, <1>2, <1>6, ServerAside DEF FInv
<1>8. ClientSide'
  <2>1. SUFFICES ASSUME ~client'.stale PROVE ReadsAnswer' /\ AnswerFits'
    BY DEF ClientSide
  <2>2. ReadsAnswer /\ AnswerFits /\ ~client.stale
    BY <1>3, <2>1 DEF FInv, ClientSide
  <2>3. ASSUME AllSent' PROVE Tells' /\ (answer.framing = "close" => client'.op # "done")
    <3>1. PICK u \in Bytes : /\ CReads(client, answer, Cat(toClient, u))
                             /\ socket # "broken" => Cat(Written, u) = Wire(answer)
      BY <1>2, <1>5, <2>2, <2>3 DEF ReadsAnswer, Tells
    <3>2. CGood(answer)
      BY DEF FInv, FTyped
    <3>3. /\ CReads(client', answer, Cat(toClient', u))
          /\ answer.framing = "close" => client'.op # "done"
      BY <1>3, <2>2, <3>1, <3>2
    <3>4. Tells'
      BY <1>1, <1>2, <3>1, <3>3 DEF Tells
    <3> QED
      BY <3>3, <3>4
  <2>4. ReadsAnswer'
    BY <1>1, <1>3, <2>3 DEF ReadsAnswer
  <2>5. AnswerFits'
    <3>1. CWeight(client) + Len(toClient) <= Len(Written)
      BY <1>3, <2>2 DEF AnswerFits
    <3>2. /\ CWeight(client') \in Nat /\ CWeight(client) \in Nat /\ Len(toClient) \in Nat
          /\ Len(Written) \in Nat
      <4>1. client' \in CReader!Session
        BY <1>3 DEF CSound, CReader!Sound
      <4> QED
        BY <4>1, Sizable, CReader!Weights DEF FInv, CWeight
    <3>3. CWeight(client') + Len(toClient') <= Len(Written')
      BY <1>2, <1>3, <3>1, <3>2
    <3> QED
      BY <1>3, <3>3 DEF AnswerFits
  <2> QED
    BY <2>4, <2>5
<1> QED
  BY <1>2, <1>4, <1>7, <1>8 DEF FInv

\* The client learns that the connection has ended.
LEMMA ClientEndsInv ==
  ASSUME FInv, QInv, EndsForClient
  PROVE  FInv'
<1>1. /\ Client!EndOfStream \/ Client!Fail
      /\ socket # "open"
      /\ UNCHANGED <<server, toServer, queueVars, answer, request, socket, gate>>
  BY DEF EndsForClient, serverVars, chosen
<1>2. (DInv => DInv') /\ Written' = Written /\ last' = last /\ (AllSent' => AllSent)
  BY <1>1, ResponseAside
<1>3. /\ CSound(client') /\ client'.stale = client.stale /\ toClient' = toClient
      /\ client.op \in Asking /\ client'.op \in {"no_header", "failed", "done"}
      /\ client.op = "header" => client'.op = "no_header"
      /\ client'.op = "done" => toClient = <<>>
      /\ \A m : \A u \in Bytes :
           CReads(client, m, Cat(toClient, u)) => CReads(client', m, Cat(toClient', u))
  BY <1>1, ClientStops DEF FInv, FTyped
<1>4. FTyped'
  BY <1>1, <1>3 DEF FInv, FTyped, SSound
<1>5. Waits => Waits'
  BY <1>3 DEF Waits, Asked, Asking
<1>6. ServerSide'
  BY <1>1, <1>2, <1>5, ServerAside DEF FInv
<1>7. ClientSide'
  <2>1. SUFFICES ASSUME ~client'.stale PROVE ReadsAnswer' /\ AnswerFits'
    BY DEF ClientSide
  <2>2. ReadsAnswer
    BY <1>3, <2>1 DEF FInv, ClientSide
  <2>3. ASSUME AllSent' PROVE Tells'
    <3>1. CASE Asked
      <4>1. CReads(client', answer', Cat(toClient', <<>>))
        BY <1>3, <3>1, ClientReadsWhat DEF Asked
      <4>2. socket' # "broken" => Cat(Written', <<>>) = Wire(answer')
        <5>1. Written \in Bytes
          BY WrittenFits DEF FInv, DInv
        <5> QED
          BY <1>1, <1>2, <3>1, <5>1, ConcatNothing DEF Asked
      <4> QED
        BY <4>1, <4>2, ConcatNothing DEF Tells
    <3>2. CASE ~Asked
      <4>1. Tells
        BY <1>2, <2>2, <2>3, <3>2 DEF ReadsAnswer
      <4> QED
        BY <1>1, <1>2, <1>3, <4>1 DEF Tells
    <3> QED
      BY <3>1, <3>2
  <2>4. ReadsAnswer'
    BY <1>1, <1>3, <2>3 DEF ReadsAnswer
  <2>5. AnswerFits'
    BY <1>3 DEF AnswerFits, Asking
  <2> QED
    BY <2>4, <2>5
<1> QED
  BY <1>2, <1>4, <1>6, <1>7 DEF FInv

Fitting == \E u \in Bytes : Cat(Written, u) = Wire(answer)

LEMMA AlwaysFitting == QInv /\ Complete => Fitting
BY WrittenFits DEF Fitting

\* A step of the Response.
LEMMA ResponseInv ==
  ASSUME FInv, QInv, QueueStep
  PROVE  FInv'
<1>1. Turns /\ ReadsRequest /\ RequestFits
  BY DEF FInv, ServerSide
<1>2. /\ DInv' /\ Flows /\ (AllSent' => AllSent)
      /\ last # "done" /\ last' # "done" /\ (socket # "open" => toClient' = toClient)
      /\ UNCHANGED <<toServer, server, client, socket, gate, request, answer>>
  BY <1>1, QueueFlows DEF FInv, Turns
<1>3. QInv'
  BY QueueStepQInv
<1>4. PICK p \in Bytes :
        /\ Written' = Cat(Written, p)
        /\ \/ toClient' = Cat(toClient, p)
           \/ toClient' = toClient /\ (p = <<>> \/ socket = "broken" \/ ~AllSent')
  BY <1>2 DEF Flows
<1>5. Written \in Bytes /\ toClient \in Bytes /\ Written' \in Bytes
  BY <1>4, WrittenFits, Concat DEF FInv, DInv, FTyped
<1>6. toClient' \in Bytes
  BY <1>4, <1>5, Concat
<1>7. FTyped'
  BY <1>2, <1>6 DEF FInv, FTyped, CSound, SSound
<1>8. socket \in {"open", "broken"}
  BY <1>1, <1>2 DEF Turns, QInv, Typed
<1>9. PICK v \in Bytes : Cat(Written', v) = Wire(answer)
  <2>1. Complete'
    BY <1>2 DEF DInv
  <2>2. Fitting'
    BY <1>3, <2>1, AlwaysFitting, PTL
  <2> QED
    BY <1>2, <2>2 DEF Fitting
<1>10. Cat(Written, Cat(p, v)) = Wire(answer) /\ Cat(p, v) \in Bytes
  BY <1>4, <1>5, <1>9, ConcatThree, Concat
<1>11. Asked => Asked'
  <2>1. SUFFICES ASSUME Asked PROVE Asked'
    OBVIOUS
  <2>2. CASE socket = "broken"
    BY <1>2, <2>1, <2>2 DEF Asked
  <2>3. CASE socket = "open"
    <3>1. Written = Wire(answer)
      BY <2>1, <2>3 DEF Asked
    <3>2. Len(Written) = Len(Written) + Len(Cat(p, v)) /\ Len(Written) \in Nat
          /\ Len(Cat(p, v)) = Len(p) + Len(v) /\ Len(p) \in Nat /\ Len(v) \in Nat
      BY <1>5, <1>10, <3>1, Concat
    <3>3. Len(p) = 0
      BY <3>2
    <3>4. p = <<>>
      BY <3>3, ConcatNothing
    <3>5. Written' = Written /\ toClient' = toClient
      BY <1>4, <1>5, <3>4, ConcatNothing
    <3> QED
      BY <1>2, <2>1, <3>5 DEF Asked
  <2> QED
    BY <1>8, <2>2, <2>3
<1>12. Waits => Waits'
  BY <1>2, <1>11 DEF Waits
<1>13. ServerSide'
  BY <1>2, <1>12, ServerAside DEF FInv
<1>14. ClientSide'
  <2>1. SUFFICES ASSUME ~client.stale PROVE ReadsAnswer' /\ AnswerFits'
    BY <1>2 DEF ClientSide
  <2>2. ReadsAnswer /\ AnswerFits
    BY <2>1 DEF FInv, ClientSide
  <2>3. ASSUME AllSent', ~Asked PROVE Tells'
    <3>1. PICK u \in Bytes : /\ CReads(client, answer, Cat(toClient, u))
                             /\ socket # "broken" => Cat(Written, u) = Wire(answer)
      BY <1>2, <2>2, <2>3 DEF ReadsAnswer, Tells
    <3>2. CASE socket = "broken"
      BY <1>2, <3>1, <3>2 DEF Tells, CReads
    <3>3. CASE socket = "open"
      <4>1. Cat(Written, u) = Cat(Written, Cat(p, v))
        BY <1>10, <3>1, <3>3
      <4>2. u = Cat(p, v)
        BY <1>5, <1>10, <3>1, <4>1, ConcatApart
      <4>3. Cat(toClient', v) = Cat(toClient, u)
        <5>1. CASE toClient' = Cat(toClient, p)
          BY <1>5, <4>2, <5>1, ConcatThree
        <5>2. CASE toClient' = toClient /\ p = <<>>
          BY <4>2, <5>2, ConcatNothing
        <5> QED
          BY <1>4, <2>3, <3>3, <5>1, <5>2
      <4>4. CReads(client', answer', Cat(toClient', v))
        BY <1>2, <3>1, <4>3
      <4> QED
        BY <1>2, <1>9, <4>4 DEF Tells
    <3> QED
      BY <1>8, <3>2, <3>3
  <2>4. client.op # "none"
    BY <1>2, <2>2 DEF ReadsAnswer
  <2>5. client.op = "done" /\ AllSent' /\ answer.framing = "close" =>
          socket # "open" /\ socket # "closed"
    BY <1>2, <1>8, <2>2 DEF ReadsAnswer
  <2>6. ReadsAnswer'
    BY <1>2, <1>11, <2>3, <2>4, <2>5 DEF ReadsAnswer
  <2>7. AnswerFits'
    <3>1. /\ Len(Written') = Len(Written) + Len(p) /\ Len(p) \in Nat
          /\ Len(toClient') = Len(toClient) \/ Len(toClient') = Len(toClient) + Len(p)
      BY <1>4, <1>5, Concat
    <3>2. CWeight(client) \in Nat /\ Len(Written) \in Nat /\ Len(toClient) \in Nat
      BY Sizable DEF FInv
    <3>3. CWeight(client) + Len(toClient) <= Len(Written) =>
            CWeight(client) + Len(toClient') <= Len(Written')
      BY <3>1, <3>2
    <3> QED
      BY <1>2, <2>2, <3>3 DEF AnswerFits, CWeight
  <2> QED
    BY <2>6, <2>7
<1> QED
  BY <1>2, <1>7, <1>13, <1>14 DEF FInv

\* The connection breaks, the server goes, or nothing happens.
LEMMA BreakInv ==
  ASSUME FInv, Break \/ ShutGate \/ UNCHANGED vars
  PROVE  FInv'
<1>1. /\ UNCHANGED <<server, toServer, client, toClient, queueVars, answer, request>>
      /\ socket' = socket \/ (socket = "open" /\ socket' = "broken")
      /\ gate' = gate \/ gate = "open"
  <2>1. CASE Break
    BY <2>1 DEF Break, serverVars, clientVars, chosen
  <2>2. CASE ShutGate
    BY <2>2 DEF ShutGate, serverVars, clientVars, chosen
  <2>3. CASE UNCHANGED vars
    BY <2>3 DEF vars, serverVars, clientVars, chosen
  <2> QED
    BY <2>1, <2>2, <2>3
<1>2. (DInv => DInv') /\ Written' = Written /\ last' = last /\ (AllSent' => AllSent)
  BY <1>1, ResponseAside
<1>3. (ClientSide => ClientSide') /\ (Waits => Waits')
  BY <1>1, <1>2, ClientAside
<1>4. ServerSide => ServerSide'
  BY <1>1, <1>2, <1>3, ServerAside
<1>5. FTyped'
  BY <1>1 DEF FInv, FTyped, CSound, SSound
<1> QED
  BY <1>2, <1>3, <1>4, <1>5 DEF FInv

LEMMA InitFInv == Init => FInv
<1> SUFFICES ASSUME Init PROVE FInv
  OBVIOUS
<1>1. /\ toServer = <<>> /\ server = Server!Reading /\ toClient = <<>> /\ client = Client!Nothing
      /\ todo = <<>> /\ parts = <<>> /\ strand = <<>> /\ send_queue = <<>> /\ writes = <<>>
      /\ last = "done" /\ socket = "open" /\ request = NoMessage /\ answer = NoMessage
  BY DEF Init, Queue!NoResponse
<1>2. /\ SSound(server) /\ server.op = "header" /\ ~server.stale /\ server.buf = <<>>
      /\ SWeight(server) = 0 /\ CSound(client) /\ client.op = "none"
  BY <1>1, NoSession, NoReader
<1>3. SGood(request) /\ CGood(answer)
  BY <1>1, NoMessageGood
<1>4. Wire(request) \in Bytes /\ Wire(answer) \in Bytes /\ Len(Wire(request)) \in Nat
  BY <1>3, GoodWires
<1>5. FTyped
  BY <1>1, <1>2, <1>3, ConcatNothing DEF FTyped
<1>6. DInv
  <2>1. parts \in Texts
    BY <1>1, EmptySeq DEF Texts, CReader!Texts
  <2>2. Complete
    BY <1>1, <1>4, <2>1, ConcatNothing DEF Complete
  <2>3. Len(<<>>) = 0
    BY SeqEmpty
  <2>4. ~InHand
    BY <1>1 DEF InHand
  <2>5. InOrder
    BY <1>1, <2>3, <2>4 DEF InOrder, Queued, Posted
  <2> QED
    BY <2>2, <2>5 DEF DInv
<1>7. ReadsAnswer
  <2>1. Written = Wire(answer)
    BY <1>1 DEF Written
  <2>2. Tells
    BY <1>2, <1>4, <2>1, ConcatNothing, ClientReadsWhat DEF Tells
  <2> QED
    BY <1>1, <1>2, <2>2 DEF ReadsAnswer
<1>8. AnswerFits
  BY <1>2 DEF AnswerFits, Asking
<1>9. Turns /\ ReadsRequest
  BY <1>1, <1>2 DEF Turns, ReadsRequest
<1>10. RequestFits
  BY <1>1, <1>2, <1>4, SeqEmpty DEF RequestFits
<1> QED
  BY <1>5, <1>6, <1>7, <1>8, <1>9, <1>10 DEF FInv, ClientSide, ServerSide

LEMMA NextFInv == IInv /\ FInv /\ [Next]_vars => FInv'
<1> SUFFICES ASSUME IInv, FInv, [Next]_vars PROVE FInv'
  OBVIOUS
<1>1. QInv /\ Serving
  BY DEF IInv
<1>2. CASE QueueStep
  BY <1>1, <1>2, ResponseInv
<1>3. ASSUME NEW n \in Pieces, DeliverToServer(n) PROVE FInv'
  BY <1>1, <1>3, ToServerInv
<1>4. ASSUME NEW n \in Pieces, DeliverToClient(n) PROVE FInv'
  BY <1>1, <1>4, ToClientInv
<1>5. CASE ServerReads
  BY <1>1, <1>5, ServerReadsInv
<1>6. CASE ClientReads
  BY <1>1, <1>6, ClientReadsInv
<1>7. CASE DropSession
  BY <1>1, <1>7, DropInv
<1>8. CASE LastWritten
  BY <1>1, <1>8, LastWrittenInv
<1>9. CASE EndsForServer
  BY <1>1, <1>9, ServerEndsInv
<1>10. CASE EndsForClient
  BY <1>1, <1>10, ClientEndsInv
<1>11. ASSUME NEW m \in Responses, ServeRequest(m) PROVE FInv'
  BY <1>1, <1>11, ServeInv
<1>12. ASSUME NEW m \in Requests, SendRequest(m) PROVE FInv'
  BY <1>1, <1>12, SendRequestInv
<1>13. CASE Reconnect
  BY <1>1, <1>13, ReconnectInv
<1>14. CASE Break \/ ShutGate \/ UNCHANGED vars
  BY <1>14, BreakInv
<1> QED
  BY <1>2, <1>3, <1>4, <1>5, <1>6, <1>7, <1>8, <1>9, <1>10, <1>11, <1>12, <1>13, <1>14
  DEF Next, Progress, QueueStep

\* What is on the connection, in the buffers and in the Response is the request and the
\* answer of this exchange, in order and complete.
THEOREM BytesFlow == Spec => [](IInv /\ FInv)
<1>1. Init => IInv /\ FInv
  BY InitIInv, InitFInv
<1>2. IInv /\ FInv /\ [Next]_vars => (IInv /\ FInv)'
  BY NextIInv, NextFInv
<1> QED
  BY <1>1, <1>2, PTL DEF Spec

\* The bytes of a prefix come first.
LEMMA PrefixTold ==
  ASSUME NEW s \in Bytes, NEW u \in Bytes
  PROVE  IsPrefix(s, Cat(s, u))
<1> DEFINE t == Cat(s, u)
           n == Len(s)
<1>1. t \in Bytes /\ Len(t) = n + Len(u) /\ n \in Nat /\ Len(u) \in Nat
  BY Concat
<1>2. t \in CReader!Bytes /\ s \in CReader!Bytes
  BY <1>1, OneAlphabet
<1>3. n \in 0..Len(t) /\ n \in 0..Len(s)
  BY <1>1
<1>4. /\ CReader!Take(t, n) \in Bytes /\ Len(CReader!Take(t, n)) = n
      /\ CReader!Drop(t, n) \in Bytes
      /\ Cat(CReader!Take(t, n), CReader!Drop(t, n)) = t
  BY <1>2, <1>3, CReader!TakeDrop, OneAlphabet
<1>5. /\ CReader!Take(s, n) \in Bytes /\ Len(CReader!Take(s, n)) = n
      /\ CReader!Drop(s, n) \in Bytes
      /\ Cat(CReader!Take(s, n), CReader!Drop(s, n)) = s
  BY <1>2, <1>3, CReader!TakeDrop, OneAlphabet
<1>6. CReader!Take(t, n) = s
  BY <1>4, <1>5, ConcatApart
<1>7. CReader!Take(s, n) = s
  <2>1. Cat(CReader!Take(s, n), CReader!Drop(s, n)) = Cat(s, <<>>) /\ <<>> \in Bytes
    BY <1>5, ConcatNothing
  <2> QED
    BY <1>5, <2>1, ConcatApart
<1>8. SubSeq(s, 1, n) = SubSeq(t, 1, n)
  BY <1>6, <1>7 DEF CReader!Take
<1> HIDE DEF t
<1>9. Len(s) <= Len(t)
  BY <1>1
<1> QED
  BY <1>8, <1>9 DEF IsPrefix, t

LEMMA RequestTold == FInv => RequestIntact
<1> SUFFICES ASSUME FInv, server.op = "done"
             PROVE  server.head = Server!Header(request) /\ server.buf = Server!Content(request)
  BY DEF RequestIntact
<1>1. SReads(server, request, toServer)
  BY DEF FInv, ServerSide, ReadsRequest
<1>2. request.framing # "close"
  BY DEF FInv, FTyped, SGood, SReader!Good, SReader!Announced
<1>3. /\ server.head = SReader!Header(request) /\ Cat(server.buf, toServer) = Body(request)
      /\ toServer = <<>>
  BY <1>1, <1>2, ServerReadsWhat
<1>4. server.buf \in Bytes
  BY OneAlphabet DEF FInv, FTyped, SSound, SReader!Sound, SReader!Session
<1>5. server.buf = Body(request)
  BY <1>3, <1>4, ConcatNothing
<1> QED
  BY <1>3, <1>5, ServerWires, OneContent

LEMMA ConcatCancels ==
  ASSUME NEW s \in Bytes, NEW t \in Bytes, NEW u \in Bytes, Cat(s, t) = Cat(s, u)
  PROVE  t = u
<1> DEFINE n == Len(s)
<1>1. n = n => s = s /\ t = u
  BY ConcatApart
<1> QED
  BY <1>1

\* What the client has when its callback is called.
LEMMA AnswerTold ==
  ASSUME FInv, QInv, client.op = "done", ~client.stale, AllSent
  PROVE  /\ client.buf \in Bytes /\ client.head = CReader!Header(answer)
         /\ Len(client.buf) < MaxSize
         /\ \E u \in Bytes : Cat(client.buf, u) = Body(answer)
         /\ ~CutShort => client.buf = Body(answer)
<1>1. ReadsAnswer
  BY DEF FInv, ClientSide
<1>2. client.buf \in Bytes /\ toClient \in Bytes /\ Written \in Bytes
  BY OneAlphabet, WrittenFits DEF FInv, FTyped, CSound, CReader!Sound, CReader!Session, DInv
<1>3. PICK u \in Bytes : /\ CReads(client, answer, Cat(toClient, u))
                         /\ socket # "broken" => Cat(Written, u) = Wire(answer)
  BY <1>1 DEF ReadsAnswer, Asked, Tells
<1>4. Cat(toClient, u) \in Bytes
  BY <1>2, Concat
<1>5. /\ client.head = CReader!Header(answer) /\ Cat(client.buf, Cat(toClient, u)) = Body(answer)
      /\ Len(client.buf) < MaxSize
      /\ answer.framing # "close" => Cat(toClient, u) = <<>>
  BY <1>3, ClientReadsWhat
<1>6. ASSUME ~CutShort PROVE Cat(toClient, u) = <<>>
  <2>1. CASE answer.framing # "close"
    BY <1>5, <2>1
  <2>2. CASE answer.framing = "close"
    <3>1. socket = "closed" /\ toClient = <<>>
      BY <1>1, <1>6, <2>2 DEF ReadsAnswer, CutShort, QInv, Typed
    <3>2. last = "done"
      BY <3>1 DEF FInv, ServerSide, Turns
    <3>3. Cat(Written, u) = Cat(Written, <<>>) /\ <<>> \in Bytes
      BY <1>2, <1>3, <3>1, <3>2, ConcatNothing DEF Written
    <3>4. u \in Bytes
      BY <1>3
    <3>5. u = <<>>
      BY <1>2, <3>3, <3>4, ConcatCancels
    <3> QED
      BY <3>1, <3>5, ConcatNothing
  <2> QED
    BY <2>1, <2>2
<1>7. ~CutShort => client.buf = Body(answer)
  BY <1>2, <1>5, <1>6, ConcatNothing
<1> QED
  BY <1>2, <1>4, <1>5, <1>7

\* The resource function gets the request that the client sent, and the client the answer
\* that the resource function wrote, however they were cut: HttpExchange.MessagesIntact.
THEOREM MessagesArrive == Spec => []MessagesIntact
<1>1. QInv /\ FInv => AnswerIntact
  <2> SUFFICES ASSUME QInv, FInv, client.op = "done", ~client.stale, AllSent
               PROVE  /\ client.head = Client!Header(answer)
                      /\ IF CutShort
                         THEN IsPrefix(client.buf, Client!Content(answer))
                         ELSE client.buf = Client!Content(answer)
    BY DEF AnswerIntact
  <2>1. /\ client.buf \in Bytes /\ client.head = CReader!Header(answer)
        /\ \E u \in Bytes : Cat(client.buf, u) = Body(answer)
        /\ ~CutShort => client.buf = Body(answer)
    BY AnswerTold
  <2>2. Client!Header(answer) = CReader!Header(answer) /\ Client!Content(answer) = Body(answer)
    BY ClientWires DEF Body
  <2>3. IsPrefix(client.buf, Body(answer))
    BY <2>1, PrefixTold
  <2> QED
    BY <2>1, <2>2, <2>3
<1>2. IInv /\ FInv => MessagesIntact
  BY <1>1, RequestTold DEF IInv, MessagesIntact
<1> QED
  BY <1>2, BytesFlow, PTL

\* A message is refused for its size only if it does not fit, and one that does not is
\* never delivered whole: HttpExchange.SizeLimit.
THEOREM SizesLimited == Spec => []SizeLimit
<1>1. IInv /\ FInv => SizeLimit
  <2> SUFFICES ASSUME QInv, FInv PROVE SizeLimit
    BY DEF IInv
  <2>1. /\ CWeight(client) \in Nat /\ SWeight(server) \in Nat
        /\ Len(toClient) \in Nat /\ Len(toServer) \in Nat /\ Len(Written) \in Nat
        /\ Len(Wire(request)) \in Nat /\ Len(Wire(answer)) \in Nat
        /\ Len(Written) <= Len(Wire(answer)) /\ MaxSize \in Nat
    BY Sizable DEF FInv
  <2>2. server.op = "too_large" => Len(Wire(request)) >= MaxSize
    <3>1. ASSUME server.op = "too_large"
          PROVE  /\ SWeight(server) + Len(toServer) <= Len(Wire(request))
                 /\ SWeight(server) >= MaxSize
      BY <3>1 DEF FInv, ServerSide, RequestFits
    <3> QED
      BY <2>1, <3>1
  <2>3. ASSUME client.op = "too_large", ~client.stale PROVE Len(Wire(answer)) >= MaxSize
    <3>1. CWeight(client) + Len(toClient) <= Len(Written) /\ CWeight(client) >= MaxSize
      BY <2>3 DEF FInv, ClientSide, AnswerFits
    <3> QED
      BY <2>1, <3>1
  <2>4. ASSUME server.op = "done" PROVE Len(Body(request)) < MaxSize
    <3>1. SReads(server, request, toServer)
      BY <2>4 DEF FInv, ServerSide, ReadsRequest
    <3>2. Len(server.buf) < MaxSize
      BY <2>4, <3>1, ServerReadsWhat
    <3>3. server.buf = Body(request)
      BY <2>4, RequestTold, ServerWires, OneContent DEF RequestIntact
    <3> QED
      BY <3>2, <3>3
  <2>5. ASSUME client.op = "done", ~client.stale, AllSent, ~CutShort
        PROVE  Len(Body(answer)) < MaxSize
    BY <2>5, AnswerTold
  <2>6. /\ Server!Wire(request) = Wire(request) /\ Client!Wire(answer) = Wire(answer)
        /\ Server!Content(request) = Body(request) /\ Client!Content(answer) = Body(answer)
    BY Messages, ServerWires, ClientWires, OneContent DEF Body
  <2> QED
    BY <2>2, <2>3, <2>4, <2>5, <2>6 DEF SizeLimit
<1> QED
  BY <1>1, BytesFlow, PTL
=============================================================================
