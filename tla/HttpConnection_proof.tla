------------------------- MODULE HttpConnection_proof -------------------------
(***************************************************************************)
(* Proofs about HttpConnection, for any number of connections, messages    *)
(* and io threads, with or without TLS.                                    *)
(***************************************************************************)
EXTENDS HttpConnection, TLAPS

Timed == Reads \cup {"write"}

\* What is true of every Connection between two handlers.
Covered(k) == Waits(k) => k.armed = 1 \/ k.expired > 0 \/ k.socket = "shut"

Good(k) ==
  /\ k \in Connection
  /\ k.state # "live" => k.op = "none" /\ ~k.response
  /\ k.op # "none" => ~k.response
  /\ k.op \in Timed \/ k.response => k.socket # "none"
  /\ k.op = "accept" => /\ k.result # "full"
                        /\ k.result = "pending" => k.socket = "none"
  /\ Covered(k)

Alive(k) == Good(k) /\ k.state = "live"

\* stop() has closed the acceptor before it goes through the set; until then the set
\* has every Connection, and never one that is being deleted.
Listing ==
  /\ stopper \in {"connections", "io", "destroyed"} => acceptor = "closed"
  /\ \A c \in connections : conn[c].state = "live"
  /\ acceptor = "open" => \A c \in Conns : conn[c].state = "live" => c \in connections

IInv == TypeOK /\ Listing /\ \A c \in Conns : Good(conn[c])

-----------------------------------------------------------------------------
(* What handlers do to one Connection *)

\* An operation that is started with its timer.
LEMMA StartGood ==
  ASSUME NEW k \in Connection, k.state = "live", ~k.response, k.socket # "none",
         NEW op \in Timed
  PROVE  Alive(Start(SetTimeout(k), op))
<1> DEFINE timed == SetTimeout(k)
           j == Start(timed, op)
<1>1. /\ timed \in Connection /\ timed.state = "live" /\ timed.armed = 1
      /\ ~timed.response /\ timed.socket # "none"
  BY DEF SetTimeout, Connection
<1> HIDE DEF timed
<1>2. PICK r \in {"pending", "broken", "eof"} : j = [timed EXCEPT !.op = op, !.result = r]
  <2> DEFINE r == IF timed.socket # "shut" THEN "pending"
                  ELSE IF op = "write" THEN "broken" ELSE "eof"
  <2>1. j = [timed EXCEPT !.op = op, !.result = r]
    BY DEF Start
  <2>2. r \in {"pending", "broken", "eof"}
    OBVIOUS
  <2> QED
    BY <2>1, <2>2
<1> HIDE DEF j
<1>3. /\ j \in Connection /\ j.state = "live" /\ j.armed = 1 /\ j.op = op
      /\ ~j.response /\ j.socket # "none"
  BY <1>1, <1>2 DEF Connection, Timed, Errors
<1>4. op # "accept"
  BY DEF Timed, Reads
<1>5. Alive(j)
  BY <1>3, <1>4 DEF Alive, Good, Covered
<1> QED
  BY <1>5 DEF j, timed

LEMMA ReadGood ==
  ASSUME NEW k \in Connection, k.state = "live", ~k.response, k.socket # "none"
  PROVE  Alive(Read(k))
<1> DEFINE fresh == [k EXCEPT !.error = "none"]
<1>1. /\ fresh \in Connection /\ fresh.state = "live"
      /\ ~fresh.response /\ fresh.socket # "none"
  BY DEF Connection
<1>2. "header" \in Timed
  BY DEF Timed, Reads
<1>3. Alive(Start(SetTimeout(fresh), "header"))
  BY <1>1, <1>2, StartGood
<1> QED
  BY <1>3 DEF Read

LEMMA EndGood ==
  ASSUME NEW k \in Connection, k.state = "live", ~k.response
  PROVE  /\ Alive(End(k))
         /\ \A ec \in Errors : Alive(OnError(k, ec))
BY DEF Alive, Good, Covered, Waits, End, OnError, Connection, Timed, Reads

\* The resource function is called.
LEMMA WriteGood ==
  ASSUME NEW k \in Connection, k.state = "live", k.socket # "none",
         NEW j \in Write(k)
  PROVE  Alive(j)
<1> DEFINE called == [SetTimeout(End(k)) EXCEPT !.response = TRUE]
<1>1. /\ called \in Connection /\ called.state = "live" /\ called.armed = 1
      /\ called.op = "none" /\ called.socket # "none"
  <2> DEFINE ended == End(k)
  <2>1. /\ ended \in Connection /\ ended.state = "live"
        /\ ended.op = "none" /\ ended.socket # "none"
    BY DEF End, Connection
  <2> DEFINE timed == SetTimeout(ended)
  <2> HIDE DEF ended
  <2>2. /\ timed \in Connection /\ timed.state = "live" /\ timed.armed = 1
        /\ timed.op = "none" /\ timed.socket # "none"
    BY <2>1 DEF SetTimeout, Connection
  <2>3. called = [timed EXCEPT !.response = TRUE]
    BY DEF ended
  <2> HIDE DEF timed, called
  <2> QED
    BY <2>2, <2>3 DEF Connection
<1>2. j = called \/ j = [called EXCEPT !.error = "canceled"]
  BY DEF Write
<1> HIDE DEF called
<1>3. /\ j \in Connection /\ j.state = "live" /\ j.armed = 1
      /\ j.op = "none" /\ j.socket # "none"
  BY <1>1, <1>2 DEF Connection, Errors
<1> QED
  BY <1>3 DEF Alive, Good, Covered, Timed, Reads

\* What a handler may leave behind when its operation is over.
LEMMA ContinueGood ==
  ASSUME NEW k \in Connection, k.state = "live", ~k.response, k.socket # "none",
         k.op \in Timed, k.result # "pending", NEW j \in Continue(k)
  PROVE  Alive(j)
<1>1. Alive(End(k)) /\ Alive(Read(k)) /\ \A ec \in Errors : Alive(OnError(k, ec))
  BY EndGood, ReadGood
<1>2. \A op \in Timed : Alive(ReadMore(k, op))
  BY StartGood DEF ReadMore
<1>3. \A i \in Write(k) : Alive(i)
  BY WriteGood
<1>4. \A i \in FindResource(k) : Alive(i)
  BY <1>1, <1>3 DEF FindResource
<1>5. {"protocol", "message_size"} \subseteq Errors /\ {"content", "line", "chunk"} \subseteq Timed
  BY DEF Errors, Timed, Reads
<1>6. \A i \in Chunk(k) : Alive(i)
  BY <1>1, <1>2, <1>4, <1>5 DEF Chunk
<1>7. k.op \in Reads => \A i \in ReadDone(k) : Alive(i)
  <2>1. CASE k.op = "handshake" BY <1>1, <2>1 DEF ReadDone
  <2>2. CASE k.op = "header" BY <1>1, <1>2, <1>4, <1>5, <2>2 DEF ReadDone
  <2>3. CASE k.op = "content" BY <1>4, <2>3 DEF ReadDone
  <2>4. CASE k.op = "line" BY <1>1, <1>2, <1>5, <1>6, <2>4 DEF ReadDone
  <2>5. CASE k.op = "chunk" BY <1>6, <2>5 DEF ReadDone
  <2> QED BY <2>1, <2>2, <2>3, <2>4, <2>5 DEF Reads
<1>8. k.result \in {"ok", "full"} \cup Errors
  BY DEF Connection
<1>9. CASE k.result = "full"
  BY <1>1, <1>5, <1>9 DEF Continue
<1>10. CASE k.result = "ok" /\ k.op = "write"
  <2>1. Continue(k) = WriteDone(k)
    BY <1>10 DEF Continue, Reads
  <2> QED
    BY <1>1, <2>1 DEF WriteDone
<1>11. CASE k.result = "ok" /\ k.op # "write"
  <2>1. k.op \in Reads
    BY <1>11 DEF Timed
  <2>2. Continue(k) = ReadDone(k)
    BY <1>11, <2>1 DEF Continue
  <2> QED
    BY <1>7, <2>1, <2>2
<1>12. CASE k.result \in Errors
  <2>1. k.result \notin {"full", "ok"}
    BY <1>12 DEF Errors
  <2>2. Continue(k) = {OnError(k, k.result)}
    BY <2>1 DEF Continue
  <2> QED
    BY <1>1, <1>12, <2>2
<1> QED
  BY <1>8, <1>9, <1>10, <1>11, <1>12

LEMMA CompleteGood ==
  ASSUME NEW k, Good(k), k.op \in Timed, k.result # "pending", NEW j \in Complete(k)
  PROVE  Alive(j)
<1> DEFINE quiet == CancelTimeout(k)
<1>1. /\ quiet \in Connection /\ quiet.state = "live" /\ ~quiet.response
      /\ quiet.socket # "none" /\ quiet.op \in Timed /\ quiet.result # "pending"
  BY DEF Alive, Good, CancelTimeout, Connection, Timed, Reads
<1>2. Alive(End(quiet)) /\ \A i \in Continue(quiet) : Alive(i)
  BY <1>1, EndGood, ContinueGood
<1> QED
  BY <1>2 DEF Complete

\* close() resolves what was pending and shuts the socket.
LEMMA CloseGood ==
  ASSUME NEW k, Good(k), NEW early \in BOOLEAN
  PROVE  /\ Good(Close(k, early))
         /\ Close(k, early).state = k.state
         /\ Close(k, early).expired = k.expired
         /\ Close(k, early).socket # "open"
<1> DEFINE j == Close(k, early)
<1>1. CASE k.socket # "open"
  BY <1>1 DEF Close
<1>2. CASE k.socket = "open"
  <2>1. PICK r \in {k.result, "canceled", "broken", "eof"} :
          /\ j = [k EXCEPT !.socket = "shut", !.result = r]
          /\ k.op # "none" => r # "pending"
    BY <1>2 DEF Close
  <2>2. k \in Connection
    BY DEF Good
  <2> HIDE DEF j
  <2>3. /\ j \in Connection /\ j.state = k.state /\ j.socket = "shut"
        /\ j.expired = k.expired /\ j.op = k.op /\ j.response = k.response
        /\ j.result \in {k.result, "canceled", "broken", "eof"}
        /\ k.op # "none" => j.result # "pending"
    BY <2>1, <2>2 DEF Connection, Errors
  <2>4. Covered(j)
    BY <2>3 DEF Covered
  <2>5. Good(j)
    BY <2>3, <2>4 DEF Good
  <2> QED
    BY <2>3, <2>5 DEF j
<1> QED
  BY <1>1, <1>2

\* A place that is free, and a Connection that waits for a client.
LEMMA FreeGood == Good(Free) /\ Good(Accepting) /\ Accepting.state = "live"
<1>1. /\ Free \in Connection /\ Free.state = "free" /\ Free.op = "none"
      /\ Free.response = FALSE /\ Free.socket = "none"
  BY MaxSendsAssumption DEF Free, Connection
<1>2. PICK r \in {"pending", "accept"} :
        Accepting = [Free EXCEPT !.state = "live", !.op = "accept", !.result = r]
  BY DEF Accepting
<1>3. /\ Accepting \in Connection /\ Accepting.state = "live" /\ Accepting.op = "accept"
      /\ Accepting.result = r
      /\ Accepting.response = FALSE /\ Accepting.socket = "none"
  BY <1>1, <1>2 DEF Connection, Errors
<1> QED
  BY <1>1, <1>3 DEF Good, Covered, Waits, Timed, Reads

-----------------------------------------------------------------------------
(* What each action does to the invariant *)

\* A step of one Connection that does not change whether it is listed.
LEMMA SetStep ==
  ASSUME IInv, NEW c \in Conns, NEW k, Good(k), Set(c, k),
         k.state = conn[c].state, UNCHANGED <<connections, serverVars>>
  PROVE  IInv'
<1>1. conn' = [conn EXCEPT ![c] = k] /\ k \in Connection
  BY DEF Set, Good
<1>2. TypeOK'
  BY <1>1 DEF IInv, TypeOK, serverVars
<1>3. Listing'
  BY <1>1 DEF IInv, TypeOK, Listing, serverVars
<1>4. \A d \in Conns : Good(conn'[d])
  BY <1>1 DEF IInv, TypeOK
<1> QED
  BY <1>2, <1>3, <1>4 DEF IInv, Good, Covered, Waits

LEMMA AcceptStep ==
  ASSUME IInv, NEW c \in Conns, Accept(c)
  PROVE  IInv'
<1> DEFINE k == conn[c]
           open == [k EXCEPT !.socket = IF @ = "none" THEN "open" ELSE @]
           done == CASE ~Lock                   -> End(k)
                     [] Lock /\ k.result # "ok" -> OnError(k, k.result)
                     [] Lock /\ k.result = "ok" -> IF Tls THEN ReadMore(open, "handshake")
                                                          ELSE Read(open)
<1>1. /\ k \in Connection /\ k.state = "live" /\ ~k.response /\ k.op = "accept"
      /\ k.result \in {"ok"} \cup Errors
  BY DEF Accept, IInv, Good, Connection
<1>2. Alive(End(k)) /\ \A ec \in Errors : Alive(OnError(k, ec))
  BY <1>1, EndGood
<1>3. Alive(ReadMore(open, "handshake")) /\ Alive(Read(open))
  <2>1. /\ open \in Connection /\ open.state = "live" /\ ~open.response
        /\ open.socket # "none"
    BY <1>1 DEF Connection
  <2>2. "handshake" \in Timed
    BY DEF Timed, Reads
  <2> HIDE DEF open
  <2> QED
    BY <2>1, <2>2, StartGood, ReadGood DEF ReadMore
<1>4. Alive(done)
  <2>1. CASE ~Lock
    <3>1. done = End(k) BY <2>1
    <3> QED BY <1>2, <3>1
  <2>2. CASE Lock /\ k.result # "ok"
    <3>1. done = OnError(k, k.result) BY <2>2
    <3> QED BY <1>1, <1>2, <2>2, <3>1
  <2>3. CASE Lock /\ k.result = "ok"
    <3>1. done \in {ReadMore(open, "handshake"), Read(open)}
      BY <2>3
    <3> QED BY <1>3, <3>1
  <2> QED BY <2>1, <2>2, <2>3
<1>5. CASE Lock /\ k.result # "canceled"
  <2>1. PICK d \in Conns :
          /\ conn[d].state = "free"
          /\ conn' = [conn EXCEPT ![c] = done, ![d] = Accepting]
          /\ connections' = connections \cup {d}
    BY <1>5 DEF Accept
  <2>6. UNCHANGED serverVars
    BY DEF Accept
  <2> HIDE DEF done
  <2>2. conn'[c] = done /\ conn'[d] = Accepting /\ \A e \in Conns \ {c, d} : conn'[e] = conn[e]
    BY <1>1, <2>1 DEF IInv, TypeOK
  <2>3. \A e \in Conns : Good(conn'[e])
    BY <1>4, <2>2, FreeGood DEF Alive, IInv
  <2>4. TypeOK'
    <3>1. done \in Connection /\ Accepting \in Connection
      BY <1>4, FreeGood DEF Alive, Good
    <3>2. conn' \in [Conns -> Connection]
      BY <2>1, <3>1 DEF IInv, TypeOK
    <3> QED
      BY <2>1, <2>6, <3>2 DEF IInv, TypeOK, serverVars
  <2>5. Listing'
    <3>1. /\ c # d /\ conn'[c].state = "live" /\ conn'[d].state = "live"
          /\ \A e \in Conns \ {c, d} : conn'[e].state = conn[e].state
      BY <1>1, <1>4, <2>1, <2>2, FreeGood DEF Alive
    <3>2. /\ acceptor' = acceptor /\ stopper' = stopper
          /\ connections' = connections \cup {d}
      BY <2>1, <2>6 DEF serverVars
    <3>3. connections \subseteq Conns
      BY DEF IInv, TypeOK
    <3> QED
      BY <1>1, <3>1, <3>2, <3>3 DEF IInv, Listing
  <2> QED
    BY <2>3, <2>4, <2>5 DEF IInv, Good, Covered, Waits
<1>6. CASE ~(Lock /\ k.result # "canceled")
  <2>1. Set(c, done) /\ UNCHANGED <<connections, serverVars>>
    BY <1>6 DEF Accept
  <2> HIDE DEF done
  <2> QED
    BY <1>1, <1>4, <2>1, SetStep DEF Alive
<1> QED
  BY <1>5, <1>6

LEMMA HandleStep ==
  ASSUME IInv, NEW c \in Conns, Handle(c)
  PROVE  IInv'
<1>1. PICK k \in Complete(conn[c]) : Set(c, k)
  BY DEF Handle
<1>2. Good(conn[c]) /\ conn[c].op \in Timed /\ conn[c].result # "pending"
  BY DEF Handle, IInv, Timed
<1>3. Alive(k)
  BY <1>2, CompleteGood
<1>4. conn[c].state = "live"
  BY <1>2 DEF Good, Timed, Reads
<1> QED
  BY <1>1, <1>3, <1>4, SetStep DEF Alive, Handle

LEMMA RunExpiredStep ==
  ASSUME IInv, NEW c \in Conns, RunExpired(c)
  PROVE  IInv'
<1>1. PICK early \in BOOLEAN :
        Set(c, [Close(conn[c], early) EXCEPT !.expired = @ - 1])
  BY SwitchAssumption DEF RunExpired
<1> DEFINE shut == Close(conn[c], early)
           k == [shut EXCEPT !.expired = @ - 1]
<1>2. /\ Good(shut) /\ shut.state = conn[c].state
      /\ shut.expired > 0 /\ shut.socket # "open"
  BY CloseGood DEF IInv, RunExpired
<1>3. UNCHANGED <<connections, serverVars>>
  BY DEF RunExpired
<1> HIDE DEF shut
<1>4. /\ k \in Connection /\ k.state = shut.state /\ k.op = shut.op
      /\ k.response = shut.response /\ k.result = shut.result /\ k.socket = shut.socket
  <2>1. shut \in Connection /\ shut.expired - 1 \in Nat
    BY <1>2 DEF Good, Connection
  <2> QED
    BY <2>1 DEF Connection
<1>5. Set(c, k)
  BY <1>1 DEF shut
<1> HIDE DEF k
<1>6. k.socket \in {"none", "shut"}
  BY <1>2, <1>4 DEF Good, Connection
<1>7. Good(k)
  BY <1>2, <1>4, <1>6 DEF Good, Covered, Waits, Timed
<1> QED
  BY <1>2, <1>3, <1>4, <1>5, <1>7, SetStep

LEMMA TimerExpiresStep ==
  ASSUME IInv, NEW c \in Conns, TimerExpires(c)
  PROVE  IInv'
<1> DEFINE k == [conn[c] EXCEPT !.armed = @ - 1, !.expired = @ + 1]
<1>1. Good(conn[c]) /\ conn[c].armed = 1
  BY DEF TimerExpires, IInv, Good, Connection
<1>2. /\ k \in Connection /\ k.state = conn[c].state /\ k.op = conn[c].op
      /\ k.response = conn[c].response /\ k.result = conn[c].result
      /\ k.socket = conn[c].socket /\ k.expired > 0
  <2>1. /\ conn[c] \in Connection /\ conn[c].armed - 1 \in 0..1
        /\ conn[c].expired + 1 \in Nat /\ conn[c].expired + 1 > 0
    BY <1>1 DEF Good, Connection
  <2> QED
    BY <2>1 DEF Connection
<1>3. Good(k)
  BY <1>1, <1>2 DEF Good, Covered
<1>4. Set(c, k) /\ UNCHANGED <<connections, serverVars>>
  BY DEF TimerExpires
<1> QED
  BY <1>2, <1>4, <1>3, SetStep

LEMMA ReleaseResponseStep ==
  ASSUME IInv, NEW c \in Conns, ReleaseResponse(c)
  PROVE  IInv'
<1> DEFINE k == [conn[c] EXCEPT !.response = FALSE]
<1>1. Good(conn[c]) /\ conn[c].response
  BY DEF ReleaseResponse, IInv
<1>2. /\ k \in Connection /\ k.state = "live" /\ ~k.response /\ k.socket # "none"
      /\ conn[c].state = "live"
  BY <1>1 DEF Good, Connection
<1>3. Set(c, Start(SetTimeout(k), "write")) /\ UNCHANGED <<connections, serverVars>>
  BY DEF ReleaseResponse
<1> HIDE DEF k
<1>4. Alive(Start(SetTimeout(k), "write"))
  BY <1>2, StartGood DEF Timed
<1> QED
  BY <1>2, <1>3, <1>4, SetStep DEF Alive

LEMMA DeleteStep ==
  ASSUME IInv, NEW c \in Conns, EraseConnection(c) \/ DeleteConnection(c)
  PROVE  IInv'
<1>1. PICK k : /\ conn' = [conn EXCEPT ![c] = k] /\ Good(k) /\ k.state # "live"
               /\ connections' = connections \ {c}
               /\ UNCHANGED serverVars
  <2>1. CASE EraseConnection(c)
    <3> DEFINE k == [conn[c] EXCEPT !.state = "erased"]
    <3>1. conn[c] \in Connection /\ Unreferenced(conn[c])
      BY <2>1 DEF EraseConnection, IInv, Good
    <3>2. k \in Connection /\ k.state = "erased" /\ k.op = "none" /\ ~k.response
      BY <3>1 DEF Unreferenced, Connection
    <3> HIDE DEF k
    <3>3. Good(k)
      BY <3>2 DEF Good, Covered, Waits, Timed, Reads
    <3> QED
      BY <2>1, <3>2, <3>3 DEF EraseConnection, Unlisted, Set, k
  <2>2. CASE DeleteConnection(c)
    <3>1. Good(Free) /\ Free.state # "live"
      BY FreeGood DEF Free
    <3>2. c \notin connections
      BY <2>2 DEF DeleteConnection, IInv, Listing
    <3> QED
      BY <2>2, <3>1, <3>2 DEF DeleteConnection, Set
  <2> QED
    BY <2>1, <2>2
<1>2. conn'[c] = k /\ \A d \in Conns \ {c} : conn'[d] = conn[d]
  BY <1>1 DEF IInv, TypeOK
<1>3. TypeOK'
  BY <1>1 DEF IInv, TypeOK, serverVars, Good
<1>4. Listing'
  BY <1>1, <1>2 DEF IInv, TypeOK, Listing, serverVars
<1>5. \A d \in Conns : Good(conn'[d])
  BY <1>1, <1>2 DEF IInv
<1> QED
  BY <1>3, <1>4, <1>5 DEF IInv, Good, Covered, Waits

\* What the owner does to all the Connections leaves each of them good.
LEMMA EveryStep ==
  ASSUME IInv,
         conn' \in [Conns -> Connection],
         \A c \in Conns : Good(conn'[c]) /\ conn'[c].state = conn[c].state,
         connections' \subseteq connections,
         acceptor' = "closed",
         gate' = gate, io' = io,
         stopper' \in {"connections", "io"}
  PROVE  IInv'
<1>1. TypeOK'
  BY DEF IInv, TypeOK
<1>2. Listing'
  BY DEF IInv, TypeOK, Listing
<1> QED
  BY <1>1, <1>2 DEF IInv, Good, Covered, Waits

LEMMA OwnerStep ==
  ASSUME IInv, Owner
  PROVE  IInv'
<1>1. CASE CallStop
  BY <1>1 DEF CallStop, IInv, TypeOK, Listing, Good, Covered, Waits
<1>2. CASE CallDestroy
  BY <1>2 DEF CallDestroy, IInv, TypeOK, Listing, Good, Covered, Waits
<1>3. CASE CloseAcceptor
  <2> DEFINE k(c) == IF conn[c].op = "accept" /\ conn[c].result = "pending"
                     THEN [conn[c] EXCEPT !.result = "canceled"] ELSE conn[c]
  <2>1. conn' = [c \in Conns |-> k(c)]
    BY <1>3 DEF CloseAcceptor
  <2>2. ASSUME NEW c \in Conns
        PROVE  Good(k(c)) /\ k(c).state = conn[c].state
    <3>1. Good(conn[c])
      BY DEF IInv
    <3>2. CASE conn[c].op = "accept" /\ conn[c].result = "pending"
      <4>1. k(c) = [conn[c] EXCEPT !.result = "canceled"]
        BY <3>2
      <4> HIDE DEF k
      <4>2. /\ k(c) \in Connection /\ k(c).state = conn[c].state
            /\ k(c).op = "accept" /\ k(c).result = "canceled"
            /\ k(c).response = conn[c].response
        BY <3>1, <3>2, <4>1 DEF Good, Connection, Errors
      <4> QED
        BY <3>1, <3>2, <4>2 DEF Good, Covered, Waits, Timed, Reads
    <3>3. CASE ~(conn[c].op = "accept" /\ conn[c].result = "pending")
      <4>1. k(c) = conn[c]
        BY <3>3
      <4> QED
        BY <3>1, <4>1
    <3> QED
      BY <3>2, <3>3
  <2> HIDE DEF k
  <2>3. \A c \in Conns : conn'[c] = k(c)
    BY <2>1
  <2>4. conn' \in [Conns -> Connection]
    BY <2>1, <2>2 DEF Good
  <2> QED
    BY <1>3, <2>2, <2>3, <2>4, EveryStep DEF CloseAcceptor
<1>4. CASE CloseConnections
  <2>1. PICK early \in SUBSET connections :
          conn' = [c \in Conns |-> IF c \in connections
                                   THEN Close(conn[c], c \in early) ELSE conn[c]]
    BY <1>4 DEF CloseConnections
  <2>2. ASSUME NEW c \in Conns
        PROVE  Good(conn'[c]) /\ conn'[c].state = conn[c].state
    <3>1. Good(conn[c]) /\ (c \in early) \in BOOLEAN
      BY DEF IInv
    <3>2. Good(Close(conn[c], c \in early)) /\ Close(conn[c], c \in early).state = conn[c].state
      BY <3>1, CloseGood
    <3>3. conn'[c] = Close(conn[c], c \in early) \/ conn'[c] = conn[c]
      BY <2>1
    <3> QED
      BY <3>1, <3>2, <3>3
  <2>3. conn' \in [Conns -> Connection]
    <3>1. \A c \in Conns : conn'[c] \in Connection
      BY <2>2 DEF Good
    <3> QED
      BY <2>1, <3>1
  <2>4. acceptor = "closed"
    BY <1>4 DEF CloseConnections, IInv, Listing
  <2> QED
    BY <1>4, <2>2, <2>3, <2>4, EveryStep DEF CloseConnections
<1>5. CASE StopIoService
  BY <1>5 DEF StopIoService, IInv, TypeOK, Listing, Good, Covered, Waits
<1> QED
  BY <1>1, <1>2, <1>3, <1>4, <1>5 DEF Owner

\* The answer of the kernel to an operation that was pending.
LEMMA ResultStep ==
  ASSUME IInv, NEW c \in Conns, conn[c].op # "none",
         NEW k \in Connection, k.state = conn[c].state, k.op = conn[c].op,
         k.response = conn[c].response, k.result # "pending",
         k.result = "full" => k.op \in Reads,
         k.socket = conn[c].socket \/ k.op = "accept",
         Set(c, k), UNCHANGED <<connections, serverVars>>
  PROVE  IInv'
<1>1. Good(conn[c])
  BY DEF IInv
<1>2. Good(k)
  BY <1>1 DEF Good, Covered, Waits, Timed, Reads
<1> QED
  BY <1>2, SetStep

LEMMA ClientStep ==
  ASSUME IInv, NEW c \in Conns, Client(c)
  PROVE  IInv'
<1>1. conn[c] \in Connection /\ conn[c].sends \in 0..MaxSends /\ MaxSends \in Nat
  BY MaxSendsAssumption DEF IInv, Good, Connection
<1>2. CASE ClientConnects(c)
  <2>1. CASE \E s \in {"open", "none"} :
               Set(c, [conn[c] EXCEPT !.result = "ok", !.socket = s])
    <3>1. PICK s \in {"open", "none"} :
                 Set(c, [conn[c] EXCEPT !.result = "ok", !.socket = s])
      BY <2>1
    <3> DEFINE k == [conn[c] EXCEPT !.result = "ok", !.socket = s]
    <3>2. /\ k \in Connection /\ k.state = conn[c].state /\ k.op = conn[c].op
          /\ k.response = conn[c].response /\ k.result = "ok"
      BY <1>1 DEF Connection
    <3> HIDE DEF k
    <3> QED
      BY <1>2, <3>1, <3>2, ResultStep DEF ClientConnects, k
  <2>2. CASE Set(c, [conn[c] EXCEPT !.result = "accept"])
    <3> DEFINE k == [conn[c] EXCEPT !.result = "accept"]
    <3>1. /\ k \in Connection /\ k.state = conn[c].state /\ k.op = conn[c].op
          /\ k.response = conn[c].response /\ k.result = "accept"
      BY <1>1 DEF Connection, Errors
    <3> HIDE DEF k
    <3> QED
      BY <1>2, <2>2, <3>1, ResultStep DEF ClientConnects, k
  <2> QED
    BY <1>2, <2>1, <2>2 DEF ClientConnects
<1>3. CASE ClientSends(c)
  <2>1. PICK r \in {"ok", "full"} :
               Set(c, [conn[c] EXCEPT !.result = r, !.sends = @ + 1])
    BY <1>3 DEF ClientSends
  <2> DEFINE k == [conn[c] EXCEPT !.result = r, !.sends = @ + 1]
  <2>2. /\ k \in Connection /\ k.state = conn[c].state /\ k.op = conn[c].op
        /\ k.response = conn[c].response /\ k.result = r /\ k.socket = conn[c].socket
    <3>1. conn[c].sends + 1 \in 0..MaxSends
      BY <1>1, <1>3 DEF ClientSends
    <3> QED
      BY <1>1, <3>1 DEF Connection
  <2>3. conn[c].op \in Reads /\ UNCHANGED <<connections, serverVars>>
    BY <1>3 DEF ClientSends
  <2> HIDE DEF k
  <2>4. Set(c, k)
    BY <2>1 DEF k
  <2> QED
    BY <2>2, <2>3, <2>4, ResultStep DEF Reads
<1>4. CASE ClientReads(c)
  <2> DEFINE k == [conn[c] EXCEPT !.result = "ok"]
  <2>1. /\ k \in Connection /\ k.state = conn[c].state /\ k.op = conn[c].op
        /\ k.response = conn[c].response /\ k.result = "ok" /\ k.socket = conn[c].socket
    BY <1>1 DEF Connection
  <2> HIDE DEF k
  <2> QED
    BY <1>4, <2>1, ResultStep DEF ClientReads, k
<1>5. CASE ClientCloses(c)
  <2> DEFINE r == IF conn[c].op = "write" THEN "broken" ELSE "eof"
             k == [conn[c] EXCEPT !.result = r]
  <2>1. r \in Errors /\ r \notin {"pending", "full"}
    BY DEF Errors
  <2>2. Set(c, k) /\ conn[c].op # "none" /\ UNCHANGED <<connections, serverVars>>
    BY <1>5 DEF ClientCloses, Reads
  <2> HIDE DEF r
  <2>3. /\ k \in Connection /\ k.state = conn[c].state /\ k.op = conn[c].op
        /\ k.response = conn[c].response /\ k.result = r /\ k.socket = conn[c].socket
    BY <1>1, <2>1 DEF Connection
  <2> HIDE DEF k
  <2> QED
    BY <2>1, <2>2, <2>3, ResultStep
<1> QED
  BY <1>2, <1>3, <1>4, <1>5 DEF Client

LEMMA InitIInv == Init => IInv
<1> SUFFICES ASSUME Init PROVE IInv
  OBVIOUS
<1>1. PICK c \in Conns : /\ conn = [d \in Conns |-> IF d = c THEN Accepting ELSE Free]
                         /\ connections = {c}
  BY DEF Init
<1>2. \A d \in Conns : conn[d] = IF d = c THEN Accepting ELSE Free
  BY <1>1
<1>3. Free.state = "free"
  BY DEF Free
<1>4. \A d \in Conns : Good(conn[d]) /\ (conn[d].state = "live" <=> d = c)
  BY <1>2, <1>3, FreeGood
<1>5. TypeOK
  BY <1>1, FreeGood DEF Init, TypeOK, Good
<1>6. Listing
  BY <1>1, <1>4 DEF Init, Listing
<1> QED
  BY <1>4, <1>5, <1>6 DEF IInv

LEMMA NextIInv == IInv /\ [Next]_vars => IInv'
<1> SUFFICES ASSUME IInv, [Next]_vars PROVE IInv'
  OBVIOUS
<1>1. CASE UNCHANGED vars
  BY <1>1 DEF vars, IInv, TypeOK, Listing, Good, Covered, Waits
<1>2. CASE Owner
  BY <1>2, OwnerStep
<1>3. CASE \E c \in Conns : \/ Io(c) \/ TimerExpires(c) \/ ReleaseResponse(c)
                            \/ Delete(c) \/ Client(c)
  <2>1. PICK c \in Conns : \/ Io(c) \/ TimerExpires(c) \/ ReleaseResponse(c)
                           \/ Delete(c) \/ Client(c)
    BY <1>3
  <2>2. CASE Io(c)
    BY <2>2, AcceptStep, HandleStep, RunExpiredStep DEF Io
  <2>3. CASE TimerExpires(c)
    BY <2>3, TimerExpiresStep
  <2>4. CASE ReleaseResponse(c)
    BY <2>4, ReleaseResponseStep
  <2>5. CASE Delete(c)
    BY <2>5, DeleteStep DEF Delete
  <2>6. CASE Client(c)
    BY <2>6, ClientStep
  <2> QED
    BY <2>1, <2>2, <2>3, <2>4, <2>5, <2>6
<1> QED
  BY <1>1, <1>2, <1>3 DEF Next

LEMMA Invariant == Spec => []IInv
BY InitIInv, NextIInv, PTL DEF Spec

-----------------------------------------------------------------------------
(* What timers, clients and the owner of the server leave alone *)

Kept(k, j) == j.op = k.op /\ j.response = k.response /\ j.error = k.error

LEMMA CloseKeeps ==
  ASSUME NEW k \in Connection, NEW early \in BOOLEAN
  PROVE  Kept(k, Close(k, early)) /\ Close(k, early) \in Connection
<1>1. CASE k.socket # "open"
  BY <1>1 DEF Close, Kept
<1>2. CASE k.socket = "open"
  <2> DEFINE j == Close(k, early)
  <2>1. PICK r \in {k.result, "canceled", "broken", "eof"} :
          j = [k EXCEPT !.socket = "shut", !.result = r]
    BY <1>2 DEF Close
  <2> HIDE DEF j
  <2>2. Kept(k, j) /\ j \in Connection
    BY <2>1 DEF Kept, Connection, Errors
  <2> QED
    BY <2>2 DEF j
<1> QED
  BY <1>1, <1>2

LEMMA StepKeeps ==
  ASSUME IInv, NEW c \in Conns, RunExpired(c) \/ TimerExpires(c) \/ Client(c)
  PROVE  \A d \in Conns : Kept(conn[d], conn'[d])
<1>1. conn[c] \in Connection
  BY DEF IInv, TypeOK
<1>2. PICK k : conn' = [conn EXCEPT ![c] = k] /\ Kept(conn[c], k)
  <2>1. CASE RunExpired(c)
    <3>1. PICK early \in BOOLEAN :
            Set(c, [Close(conn[c], early) EXCEPT !.expired = @ - 1])
      BY <2>1, SwitchAssumption DEF RunExpired
    <3> DEFINE shut == Close(conn[c], early)
               k == [shut EXCEPT !.expired = @ - 1]
    <3>2. Kept(conn[c], shut) /\ shut \in Connection
      BY <1>1, CloseKeeps
    <3>3. Set(c, k)
      BY <3>1
    <3> HIDE DEF shut
    <3>4. Kept(conn[c], k)
      BY <3>2 DEF Kept, Connection
    <3> QED
      BY <3>3, <3>4 DEF Set
  <2>2. /\ \A a, x : Kept(conn[c], [conn[c] EXCEPT !.armed = a, !.expired = x])
        /\ \A r, x : Kept(conn[c], [conn[c] EXCEPT !.result = r, !.socket = x])
        /\ \A r, x : Kept(conn[c], [conn[c] EXCEPT !.result = r, !.sends = x])
        /\ \A r : Kept(conn[c], [conn[c] EXCEPT !.result = r])
    BY <1>1 DEF Kept, Connection
  <2>3. CASE TimerExpires(c)
    BY <2>2, <2>3, Zenon DEF TimerExpires, Set
  <2>4. CASE ClientConnects(c)
    BY <2>2, <2>4, Zenon DEF ClientConnects, Set
  <2>5. CASE ClientSends(c)
    BY <2>2, <2>5, Zenon DEF ClientSends, Set
  <2>6. CASE ClientReads(c) \/ ClientCloses(c)
    BY <2>2, <2>6, Zenon DEF ClientReads, ClientCloses, Set
  <2> QED
    BY <2>1, <2>3, <2>4, <2>5, <2>6 DEF Client
<1> QED
  BY <1>2 DEF IInv, TypeOK, Kept

LEMMA OwnerKeeps ==
  ASSUME IInv, Owner
  PROVE  \A c \in Conns : Kept(conn[c], conn'[c])
<1>1. CASE CallStop \/ CallDestroy \/ StopIoService
  BY <1>1 DEF CallStop, CallDestroy, StopIoService, Kept
<1>2. CASE CloseAcceptor
  BY <1>2 DEF CloseAcceptor, Kept, IInv, TypeOK, Connection
<1>3. CASE CloseConnections
  <2>1. PICK early \in SUBSET connections :
          conn' = [c \in Conns |-> IF c \in connections
                                   THEN Close(conn[c], c \in early) ELSE conn[c]]
    BY <1>3 DEF CloseConnections
  <2> TAKE c \in Conns
  <2>2. conn[c] \in Connection /\ (c \in early) \in BOOLEAN
    BY DEF IInv, TypeOK
  <2>3. Kept(conn[c], Close(conn[c], c \in early))
    BY <2>2, CloseKeeps
  <2>4. conn'[c] = Close(conn[c], c \in early) \/ conn'[c] = conn[c]
    BY <2>1
  <2> QED
    BY <2>3, <2>4 DEF Kept
<1> QED
  BY <1>1, <1>2, <1>3 DEF Owner

-----------------------------------------------------------------------------
(* The theorems *)

\* Every variable keeps its type: in particular the one timer of a Connection is
\* never running twice, whatever handlers restart it.
THEOREM TypeCorrect == Spec => []TypeOK
<1>1. IInv => TypeOK
  BY DEF IInv
<1> QED
  BY <1>1, Invariant, PTL

\* A Connection that waits for its client, or whose Response somebody keeps, has a
\* timer that will close it, or is shut already.
THEOREM TimersCorrect == Spec => []TimerCovers
<1>1. IInv => TimerCovers
  BY DEF IInv, Good, Covered, TimerCovers
<1> QED
  BY <1>1, Invariant, PTL

\* As long as the server accepts, the set that stop() goes through has every open
\* Connection; at any time it has no Connection that is being deleted.
THEOREM ListedCorrect == Spec => []ListedExactly
<1>1. IInv => ListedExactly
  BY DEF IInv, Listing, ListedExactly
<1> QED
  BY <1>1, Invariant, PTL

\* No handler, resource function or deleter starts an operation on a Connection
\* while the last one is in progress.
THEOREM OneOperationCorrect == Spec => OneOperation
<1> DEFINE One == \A c \in Conns : conn[c].op # "none" /\ conn[c].result = "pending" =>
                                     conn'[c].op = conn[c].op
<1>1. IInv /\ [Next]_vars => [One]_vars
  <2> SUFFICES ASSUME IInv, Next, NEW e \in Conns,
                      conn[e].op # "none", conn[e].result = "pending"
               PROVE  conn'[e].op = conn[e].op
    OBVIOUS
  <2>1. Good(conn[e]) /\ conn \in [Conns -> Connection]
    BY DEF IInv, TypeOK
  <2>2. CASE Owner
    BY <2>2, OwnerKeeps DEF Kept
  <2>3. CASE \E c \in Conns : RunExpired(c) \/ TimerExpires(c) \/ Client(c)
    BY <2>3, StepKeeps DEF Kept
  <2>4. ASSUME NEW c \in Conns, Accept(c) PROVE conn'[e] = conn[e]
    <3>1. c # e
      BY <2>4 DEF Accept
    <3>2. \A d \in Conns : conn[d].state = "free" => d # e
      BY <2>1 DEF Good
    <3> QED
      BY <2>1, <2>4, <3>1, <3>2 DEF Accept, Set
  <2>5. ASSUME NEW c \in Conns, Handle(c) PROVE conn'[e] = conn[e]
    BY <2>1, <2>5 DEF Handle, Set
  <2>6. ASSUME NEW c \in Conns, ReleaseResponse(c) PROVE conn'[e] = conn[e]
    <3>1. c # e
      BY <2>1, <2>6 DEF ReleaseResponse, Good
    <3> QED
      BY <2>1, <2>6, <3>1 DEF ReleaseResponse, Set
  <2>7. ASSUME NEW c \in Conns, Delete(c) PROVE conn'[e] = conn[e]
    <3>1. c # e
      BY <2>1, <2>7 DEF Delete, EraseConnection, DeleteConnection, Unreferenced, Good
    <3> QED
      BY <2>1, <2>7, <3>1 DEF Delete, EraseConnection, DeleteConnection, Set
  <2> QED
    BY <2>2, <2>3, <2>4, <2>5, <2>6, <2>7 DEF Next, Io
<1> QED
  BY <1>1, Invariant, PTL DEF Spec, OneOperation

\* After handler_runner->stop() no step of any thread calls a resource function or
\* on_error.
THEOREM GateCorrect == Spec => GateStopsCallbacks
<1> DEFINE Silent(c) == /\ conn'[c].response => conn[c].response
                        /\ conn'[c].error \in {conn[c].error, "none"}
           Quiet == \A c \in Conns : gate = "shut" => Silent(c)
<1>1. IInv /\ [Next]_vars => [Quiet]_vars
  <2> SUFFICES ASSUME IInv, Next, gate = "shut", NEW e \in Conns
               PROVE  Silent(e)
    OBVIOUS
  <2>1. conn \in [Conns -> Connection] /\ ~Lock
    BY DEF IInv, TypeOK, Lock
  <2>2. CASE Owner
    BY <2>2, OwnerKeeps DEF Kept
  <2>3. CASE \E c \in Conns : RunExpired(c) \/ TimerExpires(c) \/ Client(c)
    BY <2>3, StepKeeps DEF Kept
  <2>4. ASSUME NEW c \in Conns, Accept(c) PROVE Silent(e)
    <3>1. Set(c, End(conn[c]))
      BY <2>1, <2>4 DEF Accept
    <3> QED
      BY <2>1, <3>1 DEF Set, End, Connection
  <2>5. ASSUME NEW c \in Conns, Handle(c) PROVE Silent(e)
    <3>1. Set(c, End(CancelTimeout(conn[c])))
      BY <2>1, <2>5 DEF Handle, Complete
    <3> QED
      BY <2>1, <3>1 DEF Set, End, CancelTimeout, Connection
  <2>6. ASSUME NEW c \in Conns, ReleaseResponse(c) PROVE Silent(e)
    BY <2>1, <2>6 DEF ReleaseResponse, Set, Start, SetTimeout, Connection
  <2>7. ASSUME NEW c \in Conns, Delete(c) PROVE Silent(e)
    BY <2>1, <2>7 DEF Delete, EraseConnection, DeleteConnection, Set, Free, Connection
  <2> QED
    BY <2>2, <2>3, <2>4, <2>5, <2>6, <2>7 DEF Next, Io
<1> QED
  BY <1>1, Invariant, PTL DEF Spec, GateStopsCallbacks
=============================================================================
