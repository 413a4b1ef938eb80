-------------------------- MODULE ServerLife_proof --------------------------
(***************************************************************************)
(* Proofs about ServerLife, for any size of the thread pool and any number *)
(* of starts, stops and clients.                                           *)
(***************************************************************************)
EXTENDS ServerLife, FiniteSetTheorems, TLAPS

(* The inductive invariant *)

Starting == {"bind", "listen", "accept"}
Running  == {"run"} \cup Handlers
Places   == {"off", "reset", "join", "ended"} \cup Starting \cup Running

\* The threads in a handler that accepts again.
Accepting == {t \in Threads : at[t] \in {"accepted", "error"}}
Chains    == accepts + ready["accepted"] + ready["error"] + Cardinality(Accepting)

TypeOK ==
  /\ owner \in {"new", "thread", "started", "join", "freed"} /\ forward \in BOOLEAN
  /\ at \in [Threads -> Places]
  /\ acceptor \in {"none", "open", "listening", "closed"}
  /\ accepts \in Nat /\ reading \in Nat /\ starts \in Nat /\ stops \in Nat /\ clients \in Nat
  /\ ready \in [Handlers -> Nat]
  /\ stopped \in BOOLEAN /\ asked \in BOOLEAN /\ crashed \in BOOLEAN

\* The pool runs between Reset and Join only.
Pooled ==
  /\ at[Main] \in {"off", "reset"} \cup Starting => \A t \in Pool : at[t] = "off"
  /\ at[Main] \in {"join"} \cup Running => \A t \in Pool : at[t] \in {"ended"} \cup Running
  /\ at[Main] # "ended"

\* A server that listens is past Listen, and nothing has stopped its io_service.
Listening ==
  /\ acceptor = "listening" => at[Main] \in {"accept", "reset"} \cup Running
  /\ acceptor = "listening" /\ at[Main] \in Running => ~stopped
  /\ acceptor = "listening" /\ at[Main] # "accept" => Chains > 0
  /\ at[Main] \in {"accept", "reset", "join"} \cup Running => acceptor \in {"listening", "closed"}

\* A start owes one chain until its first accept.
Owed == Chains + (IF at[Main] \in Starting THEN 1 ELSE 0) <= starts

\* start returns only after a stop.
StopFirst ==
  /\ acceptor = "closed" => stops > 0
  /\ at[Main] = "join" => stops > 0
  /\ at[Main] = "off" /\ owner # "new" => stops > 0
  /\ owner = "new" => at[Main] = "off"
  /\ owner = "freed" => at[Main] = "off"

IInv == TypeOK /\ Pooled /\ Listening /\ Owed /\ StopFirst

-----------------------------------------------------------------------------
(* The threads that accept again *)

LEMMA AcceptingFinite ==
  ASSUME NEW S \in SUBSET Threads
  PROVE  IsFiniteSet(S) /\ Cardinality(S) \in Nat
<1>1. IsFiniteSet(Threads)
  BY LifeAssumption, FS_AddElement DEF Threads
<1> QED
  BY <1>1, FS_Subset, FS_CardinalityType

\* A thread goes from one place to another.
LEMMA Moved ==
  ASSUME TypeOK, NEW t \in Threads, NEW place \in Places, Goto(t, place)
  PROVE  /\ at' \in [Threads -> Places] /\ at'[t] = place
         /\ \A s \in Threads : s # t => at'[s] = at[s]
         /\ Cardinality(Accepting) \in Nat /\ Cardinality(Accepting') \in Nat
         /\ at[t] \notin {"accepted", "error"} /\ place \notin {"accepted", "error"} =>
              Cardinality(Accepting') = Cardinality(Accepting)
         /\ at[t] \notin {"accepted", "error"} /\ place \in {"accepted", "error"} =>
              Cardinality(Accepting') = Cardinality(Accepting) + 1
         /\ at[t] \in {"accepted", "error"} /\ place \notin {"accepted", "error"} =>
              Cardinality(Accepting) = Cardinality(Accepting') + 1
<1>1. /\ at' \in [Threads -> Places] /\ at'[t] = place
      /\ \A s \in Threads : s # t => at'[s] = at[s]
  BY DEF Goto, TypeOK
<1>2. Accepting \in SUBSET Threads /\ Accepting' \in SUBSET Threads
  BY DEF Accepting
<1>3. /\ IsFiniteSet(Accepting) /\ Cardinality(Accepting) \in Nat
      /\ IsFiniteSet(Accepting') /\ Cardinality(Accepting') \in Nat
  BY <1>2, AcceptingFinite
<1>4. ASSUME at[t] \notin {"accepted", "error"}, place \notin {"accepted", "error"}
      PROVE  Accepting' = Accepting
  BY <1>1, <1>4 DEF Accepting
<1>5. ASSUME at[t] \notin {"accepted", "error"}, place \in {"accepted", "error"}
      PROVE  Cardinality(Accepting') = Cardinality(Accepting) + 1
  <2>1. Accepting' = Accepting \cup {t} /\ t \notin Accepting
    BY <1>1, <1>5 DEF Accepting
  <2> QED
    BY <1>3, <2>1, FS_AddElement
<1>6. ASSUME at[t] \in {"accepted", "error"}, place \notin {"accepted", "error"}
      PROVE  Cardinality(Accepting) = Cardinality(Accepting') + 1
  <2>1. Accepting = Accepting' \cup {t} /\ t \notin Accepting'
    BY <1>1, <1>6 DEF Accepting
  <2> QED
    BY <1>3, <2>1, FS_AddElement
<1> QED
  BY <1>1, <1>3, <1>4, <1>5, <1>6

LEMMA AcceptingSame ==
  ASSUME TypeOK, \A t \in Threads : at'[t] \in {"accepted", "error"} <=>
                                    at[t] \in {"accepted", "error"}
  PROVE  /\ Cardinality(Accepting') = Cardinality(Accepting)
         /\ Cardinality(Accepting) \in Nat
<1>1. Accepting' = Accepting /\ Accepting \in SUBSET Threads
  BY DEF Accepting
<1> QED
  BY <1>1, AcceptingFinite

LEMMA MainThread ==
  /\ Main \in Threads /\ Main \notin Pool /\ Pool \subseteq Threads
  /\ \A t \in Threads : t = Main \/ t \in Pool
  BY LifeAssumption DEF Threads

LEMMA HandlersTyped ==
  /\ Handlers = {"accepted", "error", "aborted", "request"}
  /\ Running = {"run", "accepted", "error", "aborted", "request"}
  /\ Places = {"off", "reset", "join", "ended", "bind", "listen", "accept", "run", "accepted",
               "error", "aborted", "request"}
  /\ Starting = {"bind", "listen", "accept"}
  BY DEF Handlers, Running, Places, Starting

\* When nothing is left to wait for there is no accept either.
LEMMA IdleIsDeaf == ASSUME TypeOK, Idle PROVE Chains = 0
<1>1. Accepting = {}
  BY DEF Idle, Accepting, Handlers
<1>2. accepts = 0 /\ ready["accepted"] = 0 /\ ready["error"] = 0
  BY DEF Idle, Handlers
<1>3. Cardinality(Accepting) = 0
  BY <1>1, FS_EmptySet
<1> QED
  BY <1>2, <1>3 DEF Chains

\* A new accept is a new chain.
LEMMA AcceptAdds ==
  ASSUME TypeOK, Accept
  PROVE  /\ accepts' \in Nat /\ ready' \in [Handlers -> Nat]
         /\ accepts' + ready'["accepted"] + ready'["error"]
              = accepts + ready["accepted"] + ready["error"] + 1
<1>1. /\ accepts \in Nat /\ ready["accepted"] \in Nat /\ ready["error"] \in Nat
      /\ {"accepted", "error"} \subseteq Handlers
  BY DEF TypeOK, Handlers
<1>2. CASE acceptor = "listening"
  BY <1>1, <1>2 DEF Accept, TypeOK
<1>3. CASE acceptor # "listening"
  <2>1. /\ ready' = [ready EXCEPT !["error"] = @ + 1] /\ accepts' = accepts
    BY <1>3 DEF Accept, Post
  <2>2. /\ ready'["error"] = ready["error"] + 1 /\ ready'["accepted"] = ready["accepted"]
        /\ ready' \in [Handlers -> Nat]
    BY <2>1, <1>1 DEF TypeOK
  <2> QED
    BY <1>1, <2>1, <2>2
<1> QED
  BY <1>2, <1>3

-----------------------------------------------------------------------------
(* start *)

LEMMA ChainsTyped ==
  ASSUME TypeOK
  PROVE  /\ accepts \in Nat /\ ready["accepted"] \in Nat /\ ready["error"] \in Nat
         /\ Cardinality(Accepting) \in Nat /\ Chains \in Nat
<1>1. accepts \in Nat /\ ready["accepted"] \in Nat /\ ready["error"] \in Nat
  BY DEF TypeOK, Handlers
<1>2. Cardinality(Accepting) \in Nat
  BY AcceptingFinite DEF Accepting
<1> QED
  BY <1>1, <1>2 DEF Chains

LEMMA CallStartInv ==
  ASSUME IInv, CallStart, owner' \in {"thread", "started"},
         UNCHANGED <<forward, acceptor, service, stopped, asked, crashed, stops, clients>>
  PROVE  IInv'
<1>1. at[Main] = "off" /\ starts' = starts + 1 /\ Goto(Main, "bind")
      /\ UNCHANGED <<accepts, reading, ready>>
  BY DEF CallStart, service
<1>2. TypeOK /\ "bind" \in Places
  BY DEF IInv, Places, Starting
<1>3. /\ at' \in [Threads -> Places] /\ at'[Main] = "bind"
      /\ \A s \in Threads : s # Main => at'[s] = at[s]
      /\ Cardinality(Accepting') = Cardinality(Accepting)
  BY <1>1, <1>2, Moved, MainThread
<1>4. Chains' = Chains
  BY <1>1, <1>3 DEF Chains
<1>5. TypeOK'
  BY <1>1, <1>2, <1>3 DEF TypeOK
<1>6. Pooled' /\ Listening' /\ StopFirst'
  BY <1>1, <1>3, <1>4, MainThread, HandlersTyped DEF IInv, Pooled, Listening, StopFirst
<1>7. Owed'
  BY <1>1, <1>2, <1>3, <1>4, ChainsTyped, HandlersTyped DEF IInv, TypeOK, Owed
<1> QED
  BY <1>5, <1>6, <1>7 DEF IInv

LEMMA BindInv ==
  ASSUME IInv, Bind PROVE IInv'
<1>1. /\ at[Main] = "bind" /\ Goto(Main, "listen") /\ acceptor' = "open" /\ asked' = FALSE
      /\ UNCHANGED <<owner, forward, accepts, reading, ready, stopped, crashed, starts, stops,
                     clients>>
  BY DEF Bind, service, bounds
<1>2. TypeOK /\ "listen" \in Places
  BY DEF IInv, Places, Starting
<1>3. /\ at' \in [Threads -> Places] /\ at'[Main] = "listen"
      /\ \A s \in Threads : s # Main => at'[s] = at[s]
      /\ Cardinality(Accepting') = Cardinality(Accepting)
  BY <1>1, <1>2, Moved, MainThread
<1>4. Chains' = Chains
  BY <1>1, <1>3 DEF Chains
<1>5. TypeOK'
  BY <1>1, <1>2, <1>3 DEF TypeOK
<1>6. Pooled' /\ Listening' /\ Owed' /\ StopFirst'
  BY <1>1, <1>3, <1>4, MainThread, HandlersTyped
     DEF IInv, Pooled, Listening, Owed, StopFirst
<1> QED
  BY <1>5, <1>6 DEF IInv

LEMMA ListenInv ==
  ASSUME IInv, Listen PROVE IInv'
<1>1. /\ at[Main] = "listen"
      /\ UNCHANGED <<owner, forward, accepts, reading, ready, stopped, asked, starts, stops,
                     clients>>
  BY DEF Listen, service, bounds
<1>2. TypeOK /\ "accept" \in Places
  BY DEF IInv, Places, Starting
<1>3. CASE acceptor = "open"
  <2>1. acceptor' = "listening" /\ Goto(Main, "accept") /\ UNCHANGED crashed
    BY <1>3 DEF Listen
  <2>2. /\ at' \in [Threads -> Places] /\ at'[Main] = "accept"
        /\ \A s \in Threads : s # Main => at'[s] = at[s]
        /\ Cardinality(Accepting') = Cardinality(Accepting)
    BY <1>1, <1>2, <2>1, Moved, MainThread
  <2>3. Chains' = Chains
    BY <1>1, <2>2 DEF Chains
  <2>4. TypeOK'
    BY <1>1, <1>2, <2>1, <2>2 DEF TypeOK
  <2>5. Pooled' /\ Listening' /\ Owed' /\ StopFirst'
    BY <1>1, <2>1, <2>2, <2>3, MainThread, HandlersTyped
       DEF IInv, Pooled, Listening, Owed, StopFirst
  <2> QED
    BY <2>4, <2>5 DEF IInv
<1>4. CASE acceptor # "open"
  <2>1. crashed' = TRUE /\ UNCHANGED <<acceptor, at>>
    BY <1>4 DEF Listen
  <2>2. Chains' = Chains
    BY <1>1, <2>1 DEF Chains, Accepting
  <2>3. TypeOK'
    BY <1>1, <1>2, <2>1 DEF TypeOK
  <2>4. Pooled' /\ Listening' /\ Owed' /\ StopFirst'
    BY <1>1, <2>1, <2>2 DEF IInv, Pooled, Listening, Owed, StopFirst
  <2> QED
    BY <2>3, <2>4 DEF IInv
<1> QED
  BY <1>3, <1>4

LEMMA FirstAcceptInv ==
  ASSUME IInv, FirstAccept PROVE IInv'
<1>1. /\ at[Main] = "accept" /\ Accept /\ Goto(Main, "reset")
      /\ UNCHANGED <<owner, forward, acceptor, reading, stopped, asked, crashed, starts, stops,
                     clients>>
  BY DEF FirstAccept, bounds
<1>2. TypeOK /\ "reset" \in Places
  BY DEF IInv, Places
<1>3. /\ at' \in [Threads -> Places] /\ at'[Main] = "reset"
      /\ \A s \in Threads : s # Main => at'[s] = at[s]
      /\ Cardinality(Accepting') = Cardinality(Accepting)
  BY <1>1, <1>2, Moved, MainThread
<1>4. /\ accepts' \in Nat /\ ready' \in [Handlers -> Nat] /\ Chains' = Chains + 1
      /\ Chains \in Nat
  BY <1>1, <1>2, <1>3, AcceptAdds, ChainsTyped DEF Chains
<1>5. TypeOK'
  BY <1>1, <1>2, <1>3, <1>4 DEF TypeOK
<1>6. Pooled' /\ StopFirst'
  BY <1>1, <1>3, MainThread, HandlersTyped DEF IInv, Pooled, StopFirst
<1>7. Listening'
  BY <1>1, <1>3, <1>4, HandlersTyped DEF IInv, Listening
<1>8. Owed'
  BY <1>1, <1>3, <1>4, HandlersTyped DEF IInv, Owed
<1> QED
  BY <1>5, <1>6, <1>7, <1>8 DEF IInv

LEMMA ResetInv ==
  ASSUME IInv, Reset PROVE IInv'
<1>1. /\ at[Main] = "reset" /\ stopped' = FALSE /\ at' = [t \in Threads |-> "run"]
      /\ UNCHANGED <<owner, forward, acceptor, accepts, reading, ready, asked, crashed, starts,
                     stops, clients>>
  BY DEF Reset, service, bounds
<1>2. TypeOK
  BY DEF IInv
<1>3. \A t \in Threads : at'[t] \in {"accepted", "error"} <=> at[t] \in {"accepted", "error"}
  BY <1>1, MainThread DEF IInv, Pooled
<1>4. Chains' = Chains
  BY <1>1, <1>2, <1>3, AcceptingSame DEF Chains
<1>5. TypeOK'
  BY <1>1, <1>2, HandlersTyped DEF TypeOK
<1>6. Pooled' /\ Listening' /\ Owed' /\ StopFirst'
  BY <1>1, <1>4, MainThread, HandlersTyped DEF IInv, Pooled, Listening, Owed, StopFirst
<1> QED
  BY <1>5, <1>6 DEF IInv

LEMMA JoinInv ==
  ASSUME IInv, Join PROVE IInv'
<1>1. /\ at[Main] = "join" /\ \A t \in Pool : at[t] = "ended"
      /\ at' = [t \in Threads |-> IF at[t] \in {"ended", "join"} THEN "off" ELSE at[t]]
      /\ UNCHANGED <<owner, forward, acceptor, accepts, reading, ready, stopped, asked, crashed,
                     starts, stops, clients>>
  BY DEF Join, Joined, service, bounds
<1>2. TypeOK
  BY DEF IInv
<1>3. \A t \in Threads : at[t] \in {"ended", "join"} /\ at'[t] = "off"
  BY <1>1, MainThread
<1>4. Chains' = Chains
  BY <1>1, <1>2, <1>3, AcceptingSame DEF Chains
<1>5. TypeOK'
  BY <1>1, <1>2, HandlersTyped DEF TypeOK
<1>6. Pooled' /\ Listening' /\ Owed' /\ StopFirst'
  BY <1>1, <1>3, <1>4, MainThread, HandlersTyped
     DEF IInv, Pooled, Listening, Owed, StopFirst
<1> QED
  BY <1>5, <1>6 DEF IInv

-----------------------------------------------------------------------------
(* The handlers *)

\* run returns on the server thread only when the acceptor was closed: until then there is an
\* accept to wait for.
LEMMA RunReturnsInv ==
  ASSUME IInv, NEW t \in Threads, RunReturns(t) PROVE IInv'
<1> DEFINE place == IF t = Main THEN "join" ELSE "ended"
<1>1. /\ at[t] = "run" /\ (stopped \/ Idle) /\ Goto(t, place) /\ stopped' = TRUE
      /\ UNCHANGED <<owner, forward, acceptor, accepts, reading, ready, asked, crashed,
                     starts, stops, clients>>
  BY DEF RunReturns, service, bounds
<1>2. TypeOK /\ place \in Places /\ place \notin {"accepted", "error"}
  BY DEF IInv, Places
<1>3. /\ at' \in [Threads -> Places] /\ at'[t] = place
      /\ \A s \in Threads : s # t => at'[s] = at[s]
      /\ Cardinality(Accepting') = Cardinality(Accepting)
  BY <1>1, <1>2, Moved
<1>4. Chains' = Chains
  BY <1>1, <1>3 DEF Chains
<1>5. at[Main] \in {"join"} \cup Running
  BY <1>1, <1>2, MainThread, HandlersTyped DEF IInv, TypeOK, Pooled
<1>6. acceptor # "listening"
  <2> SUFFICES ASSUME acceptor = "listening" PROVE FALSE
    OBVIOUS
  <2>1. at[Main] \in Running /\ ~stopped /\ Chains > 0
    BY <1>5, HandlersTyped DEF IInv, Listening
  <2> QED
    BY <1>1, <1>2, <2>1, IdleIsDeaf
<1>7. acceptor = "closed" /\ stops > 0
  BY <1>5, <1>6, HandlersTyped DEF IInv, Listening, StopFirst
<1>8. TypeOK'
  BY <1>1, <1>2, <1>3 DEF TypeOK
<1>9. Pooled'
  BY <1>1, <1>3, <1>5, MainThread, HandlersTyped DEF IInv, Pooled
<1>10. Listening' /\ Owed' /\ StopFirst'
  BY <1>1, <1>3, <1>4, <1>5, <1>7, MainThread, HandlersTyped
     DEF IInv, Listening, Owed, StopFirst
<1> QED
  BY <1>8, <1>9, <1>10 DEF IInv

\* A thread at run takes a handler, or is back at run: the rest of the invariant does not
\* see it, as long as the chains stay.
LEMMA InRunInv ==
  ASSUME IInv, NEW t \in Threads, at[t] \in Running, NEW place \in Running, Goto(t, place),
         TypeOK', Chains' = Chains, UNCHANGED <<owner, acceptor, stopped, starts, stops>>
  PROVE  IInv'
<1>1. TypeOK /\ place \in Places
  BY DEF IInv, Places
<1>2. /\ at'[t] = place /\ \A s \in Threads : s # t => at'[s] = at[s]
  BY <1>1, Moved
<1>3. at[Main] \in {"join"} \cup Running /\ (at'[Main] \in Running <=> at[Main] \in Running)
      /\ (at'[Main] \notin Running => at'[Main] = at[Main])
  BY <1>1, <1>2, MainThread, HandlersTyped DEF IInv, TypeOK, Pooled
<1>4. Pooled'
  BY <1>2, <1>3, MainThread, HandlersTyped DEF IInv, Pooled
<1>5. Listening' /\ Owed' /\ StopFirst'
  BY <1>2, <1>3, MainThread, HandlersTyped DEF IInv, Listening, Owed, StopFirst
<1> QED
  BY <1>4, <1>5 DEF IInv

LEMMA RunHandlerInv ==
  ASSUME IInv, NEW t \in Threads, NEW h \in Handlers, RunHandler(t, h) PROVE IInv'
<1>1. /\ at[t] = "run" /\ ready[h] > 0 /\ ready' = [ready EXCEPT ![h] = @ - 1] /\ Goto(t, h)
      /\ UNCHANGED <<owner, forward, acceptor, accepts, reading, stopped, asked, crashed,
                     starts, stops, clients>>
  BY DEF RunHandler, bounds
<1>2. TypeOK /\ h \in Places /\ h \in Running
  BY DEF IInv, Places, Running
<1>3. /\ at' \in [Threads -> Places]
      /\ Cardinality(Accepting) \in Nat
      /\ h \notin {"accepted", "error"} => Cardinality(Accepting') = Cardinality(Accepting)
      /\ h \in {"accepted", "error"} => Cardinality(Accepting') = Cardinality(Accepting) + 1
  BY <1>1, <1>2, Moved
<1>4. ready[h] \in Nat /\ ready' \in [Handlers -> Nat] /\ ready'[h] = ready[h] - 1
      /\ \A g \in Handlers : g # h => ready'[g] = ready[g]
  BY <1>1, <1>2 DEF TypeOK
<1>5. Chains' = Chains
  BY <1>1, <1>2, <1>3, <1>4, ChainsTyped, HandlersTyped DEF Chains
<1>6. TypeOK'
  BY <1>1, <1>2, <1>3, <1>4 DEF TypeOK
<1> QED
  BY <1>1, <1>2, <1>5, <1>6, InRunInv, HandlersTyped

LEMMA HandleAcceptInv ==
  ASSUME IInv, NEW t \in Threads, HandleAccept(t) PROVE IInv'
<1>1. /\ at[t] \in {"accepted", "error", "aborted"} /\ Goto(t, "run")
      /\ IF Again(at[t]) THEN Accept ELSE UNCHANGED <<accepts, ready>>
      /\ reading' = reading + IF at[t] = "accepted" THEN 1 ELSE 0
      /\ UNCHANGED <<owner, forward, acceptor, stopped, asked, crashed, starts, stops, clients>>
  BY DEF HandleAccept, bounds
<1>2. TypeOK /\ "run" \in Places /\ "run" \in Running
  BY DEF IInv, Places, Running
<1>3. /\ at' \in [Threads -> Places]
      /\ Cardinality(Accepting) \in Nat /\ Cardinality(Accepting') \in Nat
      /\ at[t] \notin {"accepted", "error"} => Cardinality(Accepting') = Cardinality(Accepting)
      /\ at[t] \in {"accepted", "error"} => Cardinality(Accepting) = Cardinality(Accepting') + 1
  BY <1>1, <1>2, Moved
<1>4. CASE at[t] = "aborted"
  <2>1. UNCHANGED <<accepts, ready>> /\ reading' = reading + 0
    BY <1>1, <1>4 DEF Again
  <2>2. TypeOK'
    BY <1>1, <1>2, <1>3, <2>1 DEF TypeOK
  <2>3. Chains' = Chains
    BY <1>3, <1>4, <2>1 DEF Chains
  <2> QED
    BY <1>1, <1>2, <2>2, <2>3, InRunInv, HandlersTyped
<1>5. CASE at[t] \in {"accepted", "error"}
  <2>1. /\ accepts' \in Nat /\ ready' \in [Handlers -> Nat]
        /\ accepts' + ready'["accepted"] + ready'["error"]
              = accepts + ready["accepted"] + ready["error"] + 1
    BY <1>1, <1>2, <1>5, AcceptAdds DEF Again
  <2>2. reading' \in Nat
    BY <1>1, <1>2 DEF TypeOK
  <2>3. TypeOK'
    BY <1>1, <1>2, <1>3, <2>1, <2>2 DEF TypeOK
  <2>4. ready'["accepted"] \in Nat /\ ready'["error"] \in Nat
    BY <2>1 DEF Handlers
  <2>5. Chains' = Chains
    <3> DEFINE x == accepts + ready["accepted"] + ready["error"]
               y == accepts' + ready'["accepted"] + ready'["error"]
    <3>1. x \in Nat /\ y \in Nat /\ y = x + 1
      BY <1>2, <2>1, <2>4, ChainsTyped
    <3>2. Chains = x + Cardinality(Accepting) /\ Chains' = y + Cardinality(Accepting')
      BY DEF Chains
    <3> HIDE DEF x, y
    <3> QED
      BY <1>3, <1>5, <3>1, <3>2
  <2> QED
    BY <1>1, <1>2, <2>3, <2>5, InRunInv, HandlersTyped
<1> QED
  BY <1>1, <1>4, <1>5

LEMMA HandleRequestInv ==
  ASSUME IInv, NEW t \in Threads, HandleRequest(t) PROVE IInv'
<1>1. /\ at[t] = "request"
      /\ UNCHANGED <<owner, forward, acceptor, accepts, ready, stopped, asked, starts, stops,
                     clients>>
  BY DEF HandleRequest, bounds
<1>2. TypeOK /\ "run" \in Places /\ "run" \in Running
  BY DEF IInv, Places, Running
<1>3. CASE crashed' = TRUE /\ UNCHANGED <<at, reading>>
  <2>1. Chains' = Chains
    BY <1>1, <1>3 DEF Chains, Accepting
  <2>2. TypeOK'
    BY <1>1, <1>2, <1>3 DEF TypeOK
  <2> QED
    BY <1>1, <1>3, <2>1, <2>2 DEF IInv, Pooled, Listening, Owed, StopFirst
<1>4. CASE Goto(t, "run") /\ reading' \in {reading, reading + 1} /\ UNCHANGED crashed
  <2>1. /\ at' \in [Threads -> Places] /\ Cardinality(Accepting') = Cardinality(Accepting)
    BY <1>1, <1>2, <1>4, Moved
  <2>2. TypeOK'
    BY <1>1, <1>2, <1>4, <2>1 DEF TypeOK
  <2>3. Chains' = Chains
    BY <1>1, <2>1 DEF Chains
  <2> QED
    BY <1>1, <1>2, <1>4, <2>2, <2>3, InRunInv, HandlersTyped
<1> QED
  BY <1>3, <1>4 DEF HandleRequest

-----------------------------------------------------------------------------
(* The clients, stop and the owner *)

LEMMA ChainsKept ==
  ASSUME IInv, TypeOK', Chains' = Chains,
         UNCHANGED <<owner, at, acceptor, stopped, starts, stops>>
  PROVE  IInv'
  BY DEF IInv, Pooled, Listening, Owed, StopFirst

LEMMA OwedLess ==
  ASSUME Owed, Chains \in Nat, Chains' \in Nat, Chains' <= Chains, starts \in Nat,
         UNCHANGED <<at, starts>>
  PROVE  Owed'
<1> DEFINE few == Chains'  many == Chains
<1>1. few \in Nat /\ many \in Nat /\ few <= many /\ starts \in Nat /\ starts' = starts
  OBVIOUS
<1>2. many + 1 <= starts => few + 1 <= starts
  <2> HIDE DEF few, many
  <2> QED
    BY <1>1
<1>3. many + 0 <= starts => few + 0 <= starts
  <2> HIDE DEF few, many
  <2> QED
    BY <1>1
<1>4. CASE at[Main] \in Starting
  <2>1. Chains + 1 <= starts /\ at'[Main] \in Starting
    BY <1>4 DEF Owed
  <2>2. Chains' + 1 <= starts'
    BY <2>1, <1>1, <1>2
  <2> QED
    BY <2>1, <2>2 DEF Owed
<1>5. CASE at[Main] \notin Starting
  <2>1. Chains + 0 <= starts /\ at'[Main] \notin Starting
    BY <1>5 DEF Owed
  <2>2. Chains' + 0 <= starts'
    BY <2>1, <1>1, <1>3
  <2> QED
    BY <2>1, <2>2 DEF Owed
<1> QED
  BY <1>4, <1>5

LEMMA ClientInv ==
  ASSUME IInv, Connect \/ AcceptFails \/ Request \/ Hangup PROVE IInv'
<1>1. TypeOK /\ UNCHANGED <<owner, forward, at, acceptor, stopped, asked, crashed, starts, stops>>
  BY DEF IInv, Connect, AcceptFails, Request, Hangup, bounds
<1>2. Cardinality(Accepting') = Cardinality(Accepting)
  BY <1>1 DEF Accepting
<1>3. /\ accepts \in Nat /\ reading \in Nat /\ clients \in Nat
      /\ \A h \in Handlers : ready[h] \in Nat
      /\ {"accepted", "error", "request"} \subseteq Handlers
  BY <1>1 DEF TypeOK, Handlers
<1>4. \A h \in Handlers : Post(h) => /\ ready' \in [Handlers -> Nat] /\ ready'[h] = ready[h] + 1
                                     /\ \A g \in Handlers : g # h => ready'[g] = ready[g]
  BY <1>1, <1>3 DEF Post, TypeOK
<1>5. CASE Connect
  <2>1. /\ accepts' = accepts - 1 /\ accepts > 0 /\ clients' = clients + 1 /\ reading' = reading
        /\ ready' \in [Handlers -> Nat] /\ ready'["accepted"] = ready["accepted"] + 1
        /\ ready'["error"] = ready["error"]
    BY <1>3, <1>4, <1>5 DEF Connect
  <2>2. Chains' = Chains
    BY <1>1, <1>2, <2>1, ChainsTyped DEF Chains
  <2>3. TypeOK'
    BY <1>1, <1>3, <2>1 DEF TypeOK
  <2> QED
    BY <1>1, <2>2, <2>3, ChainsKept
<1>6. CASE AcceptFails
  <2>1. /\ accepts' = accepts - 1 /\ accepts > 0 /\ clients' = clients /\ reading' = reading
        /\ ready' \in [Handlers -> Nat] /\ ready'["error"] = ready["error"] + 1
        /\ ready'["accepted"] = ready["accepted"]
    BY <1>3, <1>4, <1>6 DEF AcceptFails, bounds
  <2>2. Chains' = Chains
    BY <1>1, <1>2, <2>1, ChainsTyped DEF Chains
  <2>3. TypeOK'
    BY <1>1, <1>3, <2>1 DEF TypeOK
  <2> QED
    BY <1>1, <2>2, <2>3, ChainsKept
<1>7. CASE Request
  <2>1. /\ reading' = reading - 1 /\ reading > 0 /\ clients' = clients /\ accepts' = accepts
        /\ ready' \in [Handlers -> Nat] /\ ready'["error"] = ready["error"]
        /\ ready'["accepted"] = ready["accepted"]
    BY <1>3, <1>4, <1>7 DEF Request, bounds
  <2>2. Chains' = Chains
    BY <1>1, <1>2, <2>1 DEF Chains
  <2>3. TypeOK'
    BY <1>1, <1>3, <2>1 DEF TypeOK
  <2> QED
    BY <1>1, <2>2, <2>3, ChainsKept
<1>8. CASE Hangup
  <2>1. /\ reading' = reading - 1 /\ reading > 0 /\ clients' = clients /\ accepts' = accepts
        /\ ready' = ready
    BY <1>8 DEF Hangup, bounds
  <2>2. Chains' = Chains
    BY <1>1, <1>2, <2>1 DEF Chains
  <2>3. TypeOK'
    BY <1>1, <1>3, <2>1 DEF TypeOK
  <2> QED
    BY <1>1, <2>2, <2>3, ChainsKept
<1> QED
  BY <1>5, <1>6, <1>7, <1>8

LEMMA StopInv ==
  ASSUME IInv, Stop PROVE IInv'
<1>1. TypeOK /\ stops' = stops + 1 /\ stops \in Nat
      /\ UNCHANGED <<owner, forward, at, crashed, starts, clients>>
  BY DEF IInv, Stop, TypeOK
<1>2. Cardinality(Accepting') = Cardinality(Accepting)
  BY <1>1 DEF Accepting
<1>3. CASE acceptor = "none"
  <2>1. UNCHANGED <<acceptor, accepts, reading, ready, stopped, asked>>
    BY <1>3 DEF Stop, service
  <2>2. Chains' = Chains
    BY <1>2, <2>1 DEF Chains
  <2>3. TypeOK'
    BY <1>1, <2>1 DEF TypeOK
  <2> QED
    BY <1>1, <2>1, <2>2, <2>3 DEF IInv, Pooled, Listening, Owed, StopFirst
<1>4. CASE acceptor # "none"
  <2>1. /\ acceptor' = "closed" /\ accepts' = 0 /\ reading' = 0 /\ stopped' = TRUE
        /\ ready' = [ready EXCEPT !["aborted"] = @ + accepts + reading]
        /\ (asked' <=> asked \/ PastReset) /\ asked' \in BOOLEAN
    BY <1>4 DEF Stop, Abort, StopService, PastReset
  <2>2. ready["aborted"] + accepts + reading \in Nat
    BY <1>1 DEF TypeOK, Handlers
  <2>3. /\ ready' \in [Handlers -> Nat] /\ ready'["accepted"] = ready["accepted"]
        /\ ready'["error"] = ready["error"]
    BY <1>1, <2>1, <2>2 DEF TypeOK, Handlers
  <2>4. Chains' \in Nat /\ Chains \in Nat /\ Chains' <= Chains
    BY <1>1, <1>2, <2>1, <2>3, ChainsTyped DEF Chains
  <2>5. TypeOK'
    BY <1>1, <2>1, <2>3 DEF TypeOK
  <2>6. Pooled' /\ Listening' /\ StopFirst'
    BY <1>1, <2>1 DEF IInv, Pooled, Listening, StopFirst
  <2>7. Owed'
    BY <1>1, <2>4, OwedLess DEF IInv, TypeOK
  <2> QED
    BY <2>5, <2>6, <2>7 DEF IInv
<1> QED
  BY <1>3, <1>4

LEMMA OwnerInv ==
  ASSUME IInv, SetForwardHandler \/ Destroy PROVE IInv'
<1>1. TypeOK /\ owner \in {"thread", "started"} /\ owner' \in {"started", "join"}
      /\ UNCHANGED <<at, acceptor, accepts, reading, ready, stopped, asked, crashed, starts,
                     stops, clients>>
      /\ forward' \in BOOLEAN
  BY DEF IInv, TypeOK, SetForwardHandler, Destroy, service, bounds
<1>2. Chains' = Chains
  BY <1>1 DEF Chains, Accepting
<1>3. TypeOK'
  BY <1>1 DEF TypeOK
<1> QED
  BY <1>1, <1>2, <1>3 DEF IInv, Pooled, Listening, Owed, StopFirst

LEMMA FreeInv ==
  ASSUME IInv, Free PROVE IInv'
<1>1. TypeOK /\ owner = "join" /\ at[Main] = "off" /\ owner' = "freed" /\ forward' = FALSE
      /\ acceptor' = "none" /\ accepts' = 0 /\ reading' = 0
      /\ ready' = [h \in Handlers |-> 0]
      /\ UNCHANGED <<at, stopped, asked, crashed, starts, stops, clients>>
  BY DEF IInv, Free, bounds
<1>2. Cardinality(Accepting') = Cardinality(Accepting)
  BY <1>1 DEF Accepting
<1>3. ready'["accepted"] = 0 /\ ready'["error"] = 0 /\ ready' \in [Handlers -> Nat]
  BY <1>1 DEF Handlers
<1>4. Chains' \in Nat /\ Chains \in Nat /\ Chains' <= Chains
  <2> DEFINE x == accepts + ready["accepted"] + ready["error"]
  <2>1. x \in Nat /\ Chains = x + Cardinality(Accepting) /\ Cardinality(Accepting) \in Nat
    BY <1>1, ChainsTyped DEF Chains
  <2>2. Chains' = 0 + 0 + 0 + Cardinality(Accepting)
    BY <1>1, <1>2, <1>3 DEF Chains
  <2> HIDE DEF x
  <2> QED
    BY <2>1, <2>2
<1>5. TypeOK'
  BY <1>1, <1>3 DEF TypeOK
<1>6. Pooled' /\ Listening' /\ StopFirst'
  BY <1>1, HandlersTyped DEF IInv, Pooled, Listening, StopFirst
<1>7. Owed'
  BY <1>1, <1>4, OwedLess DEF IInv, TypeOK
<1> QED
  BY <1>5, <1>6, <1>7 DEF IInv

-----------------------------------------------------------------------------
(* The invariant and the properties *)

LEMMA InitIInv == Init => IInv
<1> SUFFICES ASSUME Init PROVE IInv
  OBVIOUS
<1>1. TypeOK
  <2>1. at \in [Threads -> Places]
    BY DEF Init, Places
  <2>2. ready \in [Handlers -> Nat]
    BY DEF Init
  <2> QED
    BY <2>1, <2>2 DEF Init, TypeOK
<1>2. Accepting = {}
  BY DEF Init, Accepting
<1>3. Cardinality(Accepting) = 0
  BY <1>2, FS_EmptySet
<1>4. Chains = 0 /\ at[Main] = "off" /\ \A t \in Pool : at[t] = "off"
  BY <1>3, MainThread DEF Init, Chains, Handlers, Threads
<1> QED
  BY <1>1, <1>4, HandlersTyped DEF Init, IInv, Pooled, Listening, Owed, StopFirst

LEMMA NextIInv == IInv /\ [Next]_vars => IInv'
<1> SUFFICES ASSUME IInv, [Next]_vars PROVE IInv'
  OBVIOUS
<1>1. CASE ServerThread
  BY <1>1, BindInv, ListenInv, FirstAcceptInv, ResetInv, JoinInv DEF ServerThread
<1>2. ASSUME NEW t \in Threads, RunIo(t) PROVE IInv'
  BY <1>2, RunReturnsInv, HandleAcceptInv, HandleRequestInv, RunHandlerInv DEF RunIo
<1>3. CASE StartThread
  BY <1>3, CallStartInv DEF StartThread
<1>4. CASE Restart
  <2>1. owner' = "started"
    BY <1>4 DEF Restart
  <2> QED
    BY <1>4, <2>1, CallStartInv DEF Restart
<1>5. CASE Owner \/ Destroy
  BY <1>5, OwnerInv, FreeInv DEF Owner
<1>6. CASE Stop
  BY <1>6, StopInv
<1>7. CASE Connect \/ AcceptFails \/ Request \/ Hangup
  BY <1>7, ClientInv
<1>8. CASE UNCHANGED vars
  <2>1. Chains' = Chains
    BY <1>8 DEF vars, service, Chains, Accepting
  <2> QED
    BY <1>8, <2>1 DEF vars, service, bounds, IInv, TypeOK, Pooled, Listening, Owed, StopFirst
<1> QED
  BY <1>1, <1>2, <1>3, <1>4, <1>5, <1>6, <1>7, <1>8 DEF Next

\* What the acceptor, the pool and the chains of accepts owe each other holds throughout,
\* whatever starts, stops and handlers come together.
THEOREM Invariant == Spec => []IInv
<1> QED
  BY InitIInv, NextIInv, PTL DEF Spec

\* A server that listens has an accept in progress or a handler on its way to the next
\* one, and no start adds more than one chain of accepts: ServerLife.AcceptChains.
THEOREM NeverDeaf == Spec => []AcceptChains
<1>1. IInv => AcceptChains
  <2> SUFFICES ASSUME IInv PROVE AcceptChains
    OBVIOUS
  <2>1. Chains <= starts
    BY ChainsTyped DEF IInv, Owed, TypeOK
  <2>2. acceptor = "listening" /\ at[Main] \notin {"off", "accept"} => Chains > 0
    BY DEF IInv, Listening
  <2> QED
    BY <2>1, <2>2 DEF AcceptChains, Chains, Accepting
<1> QED
  BY <1>1, Invariant, PTL

\* The members of xhttp_server are freed only when no thread runs its handlers, and only
\* when somebody has stopped the server: ServerLife.NobodyUsesFreed.
THEOREM FreedAlone == Spec => []NobodyUsesFreed
<1>1. IInv => NobodyUsesFreed
  BY MainThread DEF IInv, Pooled, StopFirst, NobodyUsesFreed
<1> QED
  BY <1>1, Invariant, PTL
=============================================================================
