-------------------------- MODULE ClientPool_proof --------------------------
(***************************************************************************)
(* Proofs about ClientPool, for any number of requests and of places for   *)
(* connections, every configuration, responses of any length and any       *)
(* number of late timer handlers.                                          *)
(***************************************************************************)
EXTENDS ClientPool, FiniteSetTheorems, TLAPS

\* A session has a connection, which is marked as used.
Holds(r) == Active(r) => /\ session[r].conn \in Conns
                         /\ conn[session[r].conn].in_use

Apart == \A r, s \in Requests :
           r # s /\ Active(r) /\ Active(s) => session[r].conn # session[s].conn

\* request() comes to connect() once, with nothing sent.
InOrder(r) ==
  /\ pc[r] = "idle" => session[r].op = "none"
  /\ pc[r] = "calling" <=> session[r].op = "start"
  /\ pc[r] \in {"idle", "calling"} => session[r].sends = 0

\* attempt_reconnect is the send that is left, until the response has begun.
SendLeft(r) ==
  LET again == conn[session[r].conn].attempt_reconnect IN
  /\ session[r].sends <= 2
  /\ session[r].op \in ConnectOps =>
       session[r].sends <= 1 /\ (session[r].sends = 1 => ~again)
  /\ session[r].op \in {"write", "header"} => (session[r].sends = 2 => ~again)

Sound(r) == Holds(r) /\ InOrder(r) /\ SendLeft(r)

\* What a step may do to the timer of r: TimerCovers of one request.
TimerLeft(r) ==
  Untimed(r)' =>
    \/ Untimed(r) /\ session'[r] = session[r]
    \/ session'[r].op = "resolve" /\ config.route # "http"
    \/ session'[r].op \in {"resolve", "connect"}
         /\ conn'[session'[r].conn].expired < conn[session'[r].conn].expired

Step(r) == Sound(r)' /\ TimerLeft(r)

\* The callers that count as running: a thrown one never counts itself out.
Running == {r \in Requests : pc[r] \in {"running", "ran", "thrown"}}

Counted == /\ IsFiniteSet(Running)
           /\ concurrent_synchronous_requests = Cardinality(Running)

\* The inductive invariant.
IInv == /\ TypeOK /\ Apart /\ Counted /\ OneUnused
        /\ \A r \in Requests : Sound(r)

-----------------------------------------------------------------------------
(* The parts the steps are made of *)

LEMMA ConfigTyped ==
  ASSUME TypeOK
  PROVE  /\ config.timeout \in BOOLEAN
         /\ config.route \in {"http", "https", "proxied"}
BY ConfigAssumption DEF TypeOK, Config

\* Which operation follows which.
LEMMA AfterOps ==
  ASSUME TypeOK, NEW op \in Ops, NEW next \in After[op]
  PROVE  /\ next \in Ops \ {"resolve"}
         /\ next \in ConnectOps => op \in ConnectOps
         /\ next \in {"write", "header"} => op \in ConnectOps \cup {"write"}
         /\ next = "write" => op \in ConnectOps
         /\ next = "header" <=> op = "write"
<1>1. AfterConnect[config.route] \in {"write", "handshake", "tunnel"}
  BY ConfigTyped DEF AfterConnect
<1> USE DEF Ops, ConnectOps, ReadOps, After
<1>2. CASE op = "connect" BY <1>1, <1>2
<1>3. CASE op # "connect" BY <1>3
<1> QED
  BY <1>2, <1>3

LEMMA NewConnectionTyped ==
  /\ NewConnection \in Connection /\ NewConnection.in_use = TRUE
  /\ Replacement \in Connection /\ Replacement.in_use = TRUE
  /\ Replacement.attempt_reconnect = FALSE
<1>1. NewConnection \in Connection /\ NewConnection.in_use = TRUE
  BY DEF NewConnection, Connection
<1>2. Replacement \in Connection /\ Replacement.in_use = TRUE
  BY <1>1 DEF Replacement, Connection
<1>3. Replacement.attempt_reconnect = FALSE
  BY DEF NewConnection, Replacement
<1> QED
  BY <1>1, <1>2, <1>3

LEMMA UseTyped ==
  ASSUME NEW k \in Connection
  PROVE  /\ Use(k) \in Connection /\ Use(k).in_use
BY DEF Use, Connection

LEMMA RetiredTyped ==
  ASSUME NEW k \in Connection
  PROVE  /\ Retired(k) \in Connection /\ Retired(k).in_use
         /\ Retired(k).armed = k.armed /\ Retired(k).expired = k.expired
BY DEF Retired, NewConnection, Connection

\* set_timeout changes nothing but the timer.
LEMMA SetTimeoutTyped ==
  ASSUME NEW k \in Connection, NEW op
  PROVE  /\ SetTimeout(k, op) \in Connection
         /\ SetTimeout(k, op).in_use = k.in_use
         /\ SetTimeout(k, op).attempt_reconnect = k.attempt_reconnect
         /\ Configured(op) /\ (op = "resolve" => config.route = "http")
              => SetTimeout(k, op).armed = 1
BY DEF SetTimeout, Timed, Connection

LEMMA QuietTyped ==
  ASSUME TypeOK, NEW r \in Requests, session[r].conn \in Conns
  PROVE  /\ Quiet(r) \in Connection
         /\ Quiet(r).in_use = conn[session[r].conn].in_use
         /\ session[r].op # "header" =>
              Quiet(r).attempt_reconnect = conn[session[r].conn].attempt_reconnect
<1>1. conn[session[r].conn] \in Connection /\ session[r] \in Session
  BY DEF TypeOK
<1> QED
  BY <1>1 DEF Quiet, Connection, Session

LEMMA SessionTyped ==
  ASSUME TypeOK, NEW r \in Requests
  PROVE  /\ session[r] \in Session
         /\ session[r].op \in Ops \cup {"none", "start"}
         /\ session[r].conn \in Conns \cup {NoConn}
         /\ session[r].sends \in Nat
         /\ session[r].result \in {"pending", "ok", "canceled", "error"}
BY DEF TypeOK, Session

LEMMA OverTyped ==
  ASSUME NEW s \in Session, NEW outcome \in {"ok", "error", "thrown", "dropped"}
  PROVE  /\ Over(s, outcome) \in Session
         /\ Over(s, outcome).op = "none"
         /\ Over(s, outcome).sends = s.sends
BY BoundAssumption DEF Over, Session

\* The session of r goes on with op on the connection c.
LEMMA StartEffect ==
  ASSUME TypeOK, NEW r \in Requests, NEW c \in Conns, NEW k \in Connection,
         NEW op \in Ops, Start(r, c, k, op)
  PROVE  /\ session' \in [Requests -> Session] /\ conn' \in [Conns -> Connection]
         /\ session'[r].op = op /\ session'[r].conn = c
         /\ session'[r].sends = session[r].sends + (IF op = "write" THEN 1 ELSE 0)
         /\ conn'[c] = SetTimeout(k, op)
         /\ \A s \in Requests \ {r} : session'[s] = session[s]
         /\ \A d \in Conns \ {c} : conn'[d] = conn[d]
<1>1. session \in [Requests -> Session] /\ conn \in [Conns -> Connection]
  BY DEF TypeOK
<1>2. SetTimeout(k, op) \in Connection
  BY SetTimeoutTyped
<1> DEFINE n == IF op = "write" THEN session[r].sends + 1 ELSE session[r].sends
           t == [op |-> op, result |-> "pending", conn |-> c, sends |-> n,
                 chunks |-> session[r].chunks, outcome |-> session[r].outcome]
<1>3. session[r] \in Session
  BY <1>1
<1>4. /\ t \in Session /\ t.op = op /\ t.conn = c
      /\ t.sends = session[r].sends + (IF op = "write" THEN 1 ELSE 0)
  BY <1>3 DEF Session
<1>5. session' = [session EXCEPT ![r] = t] /\ conn' = [conn EXCEPT ![c] = SetTimeout(k, op)]
  BY <1>1 DEF Start
<1> HIDE DEF t
<1> QED
  BY <1>1, <1>2, <1>4, <1>5

\* Two requests in progress have different connections, both marked as used.
LEMMA OthersConn ==
  ASSUME IInv, NEW r \in Requests, NEW s \in Requests \ {r}, Active(s)
  PROVE  /\ session[s].conn \in Conns /\ conn[session[s].conn].in_use
         /\ session[s].conn \notin Places
         /\ Active(r) => session[s].conn # session[r].conn
BY DEF IInv, Apart, Sound, Holds, Places, Unreferenced

-----------------------------------------------------------------------------
(* A step of one request *)

Kept(s) == /\ session'[s] = session[s]
           /\ Active(s) => conn'[session[s].conn] = conn[session[s].conn]

\* The connection r has after the step was its own or nobody's.
Taken(r) == Active(r)' => \/ Active(r) /\ session'[r].conn = session[r].conn
                          \/ session'[r].conn \in Places
                          \/ ~conn[session'[r].conn].in_use

\* set_timeout was called for what r waits for now.
LEMMA TimerSet ==
  ASSUME NEW r \in Requests, UNCHANGED config, session'[r].op \in Ops,
         Configured(session'[r].op) /\ (session'[r].op = "resolve" => config.route = "http")
           => conn'[session'[r].conn].armed = 1
  PROVE  TimerLeft(r)
BY DEF TimerLeft, Untimed, Configured

\* r waits for what it waited for, with the timer it had.
LEMMA TimerKept ==
  ASSUME NEW r \in Requests, UNCHANGED config, session'[r] = session[r],
         session[r].op \in Ops => conn'[session[r].conn] = conn[session[r].conn]
  PROVE  TimerLeft(r)
BY DEF TimerLeft, Untimed, Configured

\* r waits for nothing.
LEMMA TimerIdle ==
  ASSUME NEW r \in Requests, session'[r].op \notin Ops \/ session'[r].result # "pending"
  PROVE  TimerLeft(r)
BY DEF TimerLeft, Untimed

LEMMA StepOfOne ==
  ASSUME IInv, NEW r \in Requests, Sound(r)', TimerLeft(r), Taken(r), UNCHANGED config,
         \A s \in Requests \ {r} :
           /\ Kept(s)
           /\ pc'[s] = pc[s] \/ (pc[s] = "running" /\ pc'[s] = "thrown")
  PROVE  Apart' /\ \A s \in Requests : Step(s)
<1>1. ASSUME NEW s \in Requests \ {r} PROVE Step(s) /\ (Active(s)' <=> Active(s))
  <2>1. Sound(s) /\ Kept(s) /\ s \in Requests
    BY DEF IInv
  <2>2. pc'[s] \in {"idle", "calling"} \/ pc[s] \in {"idle", "calling"} => pc'[s] = pc[s]
    OBVIOUS
  <2>3. Active(s)' <=> Active(s)
    BY <2>1 DEF Kept, Active
  <2>4. Holds(s)'
    BY <2>1, <2>3 DEF Sound, Holds, Kept
  <2>5. InOrder(s)'
    BY <2>1, <2>2 DEF Sound, InOrder, Kept
  <2>6. SendLeft(s)'
    <3>1. session[s].op \in ConnectOps \cup {"write", "header"} => Active(s)
      BY DEF Active, ConnectOps
    <3> QED
      BY <2>1, <3>1 DEF Sound, SendLeft, Kept
  <2>7. TimerLeft(s)
    <3>1. session[s].op \in Ops => Active(s)
      BY DEF Active, Ops, ConnectOps, ReadOps
    <3> QED
      BY <2>1, <3>1, TimerKept DEF Kept
  <2> QED
    BY <2>3, <2>4, <2>5, <2>6, <2>7 DEF Sound, Step
<1>2. ASSUME NEW s \in Requests \ {r}, Active(s)', Active(r)'
      PROVE  session'[s].conn # session'[r].conn
  <2>1. Active(s) /\ session'[s].conn = session[s].conn
    BY <1>1, <1>2 DEF Kept
  <2> QED
    BY <1>2, <2>1, OthersConn DEF Taken
<1>3. ASSUME NEW s \in Requests \ {r}, NEW u \in Requests \ {r}, s # u,
             Active(s)', Active(u)'
      PROVE  session'[s].conn # session'[u].conn
  BY <1>1, <1>3 DEF Kept, IInv, Apart
<1>4. Apart'
  BY <1>2, <1>3 DEF Apart
<1> QED
  BY <1>1, <1>4 DEF Step

\* A connection that is r's alone, or nobody's.
LEMMA KeptOthers ==
  ASSUME IInv, NEW r \in Requests, NEW c \in Conns,
         \A s \in Requests \ {r} : session'[s] = session[s],
         \A d \in Conns \ {c} : conn'[d] = conn[d],
         \/ Active(r) /\ c = session[r].conn
         \/ c \in Places
         \/ ~conn[c].in_use
  PROVE  \A s \in Requests \ {r} : Kept(s)
BY OthersConn DEF Kept

LEMMA GetConnectionStep ==
  ASSUME IInv, NEW r \in Requests, GetConnection(r)
  PROVE  /\ TypeOK' /\ Apart' /\ OneUnused'
         /\ \A s \in Requests : Step(s)
<1>1. TypeOK /\ session[r] \in Session /\ session[r].op = "none" /\ session[r].sends = 0
  BY SessionTyped DEF IInv, Sound, InOrder, GetConnection
<1>2. PICK c \in Conns, k \in Connection :
        /\ c \in Places \/ ~conn[c].in_use
        /\ k.in_use /\ conn' = [conn EXCEPT ![c] = k]
        /\ session' = [session EXCEPT ![r].op = "start", ![r].conn = c]
        /\ connections' \in {connections, connections \cup {c}}
  <2>1. CASE \E c \in connections : /\ ~conn[c].in_use
                                    /\ conn' = [conn EXCEPT ![c] = Use(@)]
                                    /\ session' = [session EXCEPT ![r].op = "start", ![r].conn = c]
                                    /\ UNCHANGED connections
    BY <1>1, <2>1, UseTyped DEF TypeOK
  <2>2. CASE \E c \in Places : /\ conn' = [conn EXCEPT ![c] = Use(NewConnection)]
                               /\ session' = [session EXCEPT ![r].op = "start", ![r].conn = c]
                               /\ connections' = connections \cup {c}
    BY <1>1, <2>2, UseTyped, NewConnectionTyped DEF TypeOK, Places
  <2> QED
    BY <2>1, <2>2 DEF GetConnection
<1>3. /\ session' \in [Requests -> Session] /\ conn' \in [Conns -> Connection]
      /\ session'[r].op = "start" /\ session'[r].conn = c /\ session'[r].sends = 0
      /\ conn'[c] = k
      /\ \A s \in Requests \ {r} : session'[s] = session[s]
      /\ \A d \in Conns \ {c} : conn'[d] = conn[d]
  <2> DEFINE t == [session[r] EXCEPT !.op = "start", !.conn = c]
  <2>1. t \in Session /\ t.op = "start" /\ t.conn = c /\ t.sends = 0
    BY <1>1 DEF Session
  <2>2. session' = [session EXCEPT ![r] = t]
    BY <1>1, <1>2 DEF TypeOK
  <2> HIDE DEF t
  <2> QED
    BY <1>1, <1>2, <2>1, <2>2 DEF TypeOK
<1>4. TypeOK'
  BY <1>1, <1>2, <1>3 DEF TypeOK, GetConnection
<1>5. pc'[r] = "calling" /\ \A s \in Requests \ {r} : pc'[s] = pc[s]
  BY <1>1 DEF GetConnection, TypeOK
<1>6. Sound(r)' /\ TimerLeft(r)
  <2>1. session'[r].op \notin Ops
    BY <1>3 DEF Ops, ConnectOps, ReadOps
  <2>2. Sound(r)'
    BY <1>2, <1>3, <1>5 DEF Sound, Holds, InOrder, SendLeft, ConnectOps
  <2> QED
    BY <2>1, <2>2, TimerIdle
<1>7. Apart' /\ \A s \in Requests : Step(s)
  <2>1. \A s \in Requests \ {r} : Kept(s)
    BY <1>2, <1>3, KeptOthers
  <2> QED
    BY <1>2, <1>3, <1>5, <1>6, <2>1, StepOfOne DEF Taken, GetConnection
<1>8. OneUnused'
  BY <1>1, <1>2, <1>3 DEF IInv, OneUnused, TypeOK
<1> QED
  BY <1>4, <1>7, <1>8

\* An operation is started on the connection the session has.
LEMMA StartStep ==
  ASSUME IInv, NEW r \in Requests, Active(r), NEW k \in Connection, k.in_use,
         NEW op \in Ops, Start(r, session[r].conn, k, op),
         session[r].sends <= 2,
         op \in ConnectOps \cup {"write"} => session[r].sends <= 1,
         op \in ConnectOps \cup {"write"} /\ session[r].sends = 1
           => ~k.attempt_reconnect,
         op = "header" /\ session[r].sends = 2 => ~k.attempt_reconnect,
         pc'[r] \notin {"idle", "calling"},
         \A s \in Requests \ {r} : pc'[s] = pc[s],
         UNCHANGED <<config, connections>>
  PROVE  /\ session' \in [Requests -> Session] /\ conn' \in [Conns -> Connection]
         /\ Apart' /\ OneUnused' /\ \A s \in Requests : Step(s)
<1> PICK c \in Conns : c = session[r].conn /\ conn[c].in_use
  BY DEF IInv, Sound, Holds
<1>1. TypeOK /\ session[r].sends \in Nat
  BY SessionTyped DEF IInv
<1>2. /\ session' \in [Requests -> Session] /\ conn' \in [Conns -> Connection]
      /\ session'[r].op = op /\ session'[r].conn = c
      /\ session'[r].sends = session[r].sends + (IF op = "write" THEN 1 ELSE 0)
      /\ conn'[c] = SetTimeout(k, op)
      /\ \A s \in Requests \ {r} : session'[s] = session[s]
      /\ \A d \in Conns \ {c} : conn'[d] = conn[d]
  BY <1>1, StartEffect
<1>3. /\ conn'[c].in_use
      /\ conn'[c].attempt_reconnect = k.attempt_reconnect
      /\ Configured(op) /\ (op = "resolve" => config.route = "http")
           => conn'[c].armed = 1
  BY <1>2, SetTimeoutTyped
<1>4. Sound(r)' /\ TimerLeft(r)
  <2>1. Holds(r)' /\ TimerLeft(r)
    BY <1>2, <1>3, TimerSet DEF Holds
  <2>2. InOrder(r)'
    BY <1>2 DEF InOrder, Ops, ConnectOps, ReadOps
  <2>3. SendLeft(r)'
    <3>1. ConnectOps \cap {"write", "header"} = {}
      BY DEF ConnectOps
    <3> QED
      BY <1>1, <1>2, <1>3, <3>1 DEF SendLeft
  <2> QED
    BY <2>1, <2>2, <2>3 DEF Sound
<1>5. \A s \in Requests \ {r} : Kept(s)
  BY <1>2, KeptOthers
<1>6. Taken(r)
  BY <1>2 DEF Taken
<1>7. Apart' /\ \A s \in Requests : Step(s)
  BY <1>4, <1>5, <1>6, StepOfOne
<1>8. OneUnused'
  <2>1. \A d \in Conns : ~conn'[d].in_use => ~conn[d].in_use
    BY <1>2, <1>3
  <2> QED
    BY <1>1, <2>1 DEF IInv, TypeOK, OneUnused
<1> QED
  BY <1>2, <1>7, <1>8

LEMMA ConnectStep ==
  ASSUME IInv, NEW r \in Requests, Connect(r)
  PROVE  /\ TypeOK' /\ Apart' /\ OneUnused'
         /\ \A s \in Requests : Step(s)
<1> DEFINE k  == conn[session[r].conn]
           op == IF k.is_open THEN "write" ELSE "resolve"
<1>1. TypeOK /\ session[r].op = "start" /\ session[r].sends = 0
  BY DEF IInv, Sound, InOrder, Connect
<1>2. Active(r)
  BY <1>1 DEF Active
<1>3. session[r].conn \in Conns /\ k \in Connection /\ k.in_use
  BY <1>1, <1>2 DEF IInv, Sound, Holds, TypeOK
<1>4. op \in Ops /\ op # "header"
  BY DEF Ops, ConnectOps
<1>5. /\ Start(r, session[r].conn, k, op)
      /\ UNCHANGED <<config, connections>>
  BY DEF Connect
<1>6. pc'[r] \in {"asked", "returned"} /\ \A s \in Requests \ {r} : pc'[s] = pc[s]
  BY <1>1 DEF Connect, TypeOK
<1> HIDE DEF k, op
<1>7. /\ session' \in [Requests -> Session] /\ conn' \in [Conns -> Connection]
      /\ Apart' /\ OneUnused' /\ \A s \in Requests : Step(s)
  BY <1>1, <1>2, <1>3, <1>4, <1>5, <1>6, StartStep
<1> QED
  BY <1>1, <1>7 DEF TypeOK, Connect

LEMMA ProceedStep ==
  ASSUME IInv, NEW r \in Requests, Proceed(r)
  PROVE  /\ TypeOK' /\ Apart' /\ OneUnused'
         /\ \A s \in Requests : Step(s)
<1>1. TypeOK /\ session[r].op \in Ops /\ session[r].sends \in Nat
  BY SessionTyped DEF IInv, Proceed, Completed
<1>2. Active(r) /\ session[r].op # "start"
  BY <1>1 DEF Active, Ops, ConnectOps, ReadOps
<1>3. session[r].conn \in Conns /\ conn[session[r].conn].in_use
  BY <1>2 DEF IInv, Sound, Holds
<1>4. /\ Quiet(r) \in Connection /\ Quiet(r).in_use
      /\ session[r].op # "header" =>
           Quiet(r).attempt_reconnect = conn[session[r].conn].attempt_reconnect
  BY <1>1, <1>3, QuietTyped
<1>5. PICK op \in After[session[r].op] : Start(r, session[r].conn, Quiet(r), op)
  BY DEF Proceed
<1>6. /\ op \in Ops
      /\ op \in ConnectOps \cup {"write"} => session[r].op \in ConnectOps
      /\ op = "header" <=> session[r].op = "write"
  BY <1>1, AfterOps
<1>7. /\ session[r].sends <= 2
      /\ op \in ConnectOps \cup {"write"} => session[r].sends <= 1
      /\ op \in ConnectOps \cup {"write"} /\ session[r].sends = 1
           => ~Quiet(r).attempt_reconnect
      /\ op = "header" /\ session[r].sends = 2 => ~Quiet(r).attempt_reconnect
  <2>1. "header" \notin ConnectOps
    BY DEF ConnectOps
  <2>2. SendLeft(r)
    BY DEF IInv, Sound
  <2> QED
    BY <1>4, <1>6, <2>1, <2>2 DEF SendLeft
<1>8. /\ pc[r] \notin {"idle", "calling"}
      /\ UNCHANGED <<config, connections, pc>>
  BY <1>2 DEF IInv, Sound, InOrder, Active, Proceed, callerVars
<1>9. /\ session' \in [Requests -> Session] /\ conn' \in [Conns -> Connection]
      /\ Apart' /\ OneUnused' /\ \A s \in Requests : Step(s)
  BY <1>2, <1>4, <1>5, <1>6, <1>7, <1>8, StartStep
<1> QED
  BY <1>1, <1>9 DEF TypeOK, Proceed, callerVars

\* What a completed operation has: a connection of its own, and no caller that is
\* still to connect.
LEMMA CompletedHas ==
  ASSUME IInv, NEW r \in Requests, Completed(r)
  PROVE  /\ TypeOK /\ Active(r)
         /\ session[r] \in Session /\ session[r].op \in Ops
         /\ session[r].conn \in Conns
         /\ conn[session[r].conn].in_use
         /\ Quiet(r) \in Connection /\ Quiet(r).in_use
         /\ pc[r] \notin {"idle", "calling"}
         /\ session[r].sends \in Nat /\ session[r].sends <= 2
<1>1. TypeOK /\ Active(r) /\ session[r].op # "start" /\ session[r].op \in Ops
  BY DEF IInv, Completed, Active, Ops, ConnectOps, ReadOps
<1>2. session[r].conn \in Conns /\ conn[session[r].conn].in_use
  BY <1>1 DEF IInv, Sound, Holds
<1>3. pc[r] \notin {"idle", "calling"} /\ session[r].sends <= 2
  BY <1>1 DEF IInv, Sound, InOrder, SendLeft, Active
<1> QED
  BY <1>1, <1>2, <1>3, SessionTyped, QuietTyped

LEMMA NextChunkStep ==
  ASSUME IInv, NEW r \in Requests, NextChunk(r)
  PROVE  /\ TypeOK' /\ Apart' /\ OneUnused'
         /\ \A s \in Requests : Step(s)
<1>0. Completed(r)
  BY DEF NextChunk
<1>1. PICK c \in Conns : c = session[r].conn
  BY <1>0, CompletedHas
<1> DEFINE k == SetTimeout(Quiet(r), "line")
           t == [session[r] EXCEPT !.op = "line", !.result = "pending", !.chunks = @ + 1]
<1>2. k \in Connection /\ k.in_use /\ (Configured("line") => k.armed = 1)
  BY <1>0, CompletedHas, SetTimeoutTyped
<1>3. t \in Session /\ t.op = "line" /\ t.conn = c /\ t.sends = session[r].sends
  <2>1. session[r].chunks + 1 \in 0..MaxChunks
    BY <1>0, CompletedHas, BoundAssumption DEF NextChunk, Session
  <2> QED
    BY <1>0, <1>1, <2>1, CompletedHas DEF Session, Ops, ReadOps
<1>4. session' = [session EXCEPT ![r] = t] /\ conn' = [conn EXCEPT ![c] = k]
  BY <1>0, <1>1, CompletedHas DEF NextChunk, TypeOK
<1> HIDE DEF k, t
<1>5. /\ session' \in [Requests -> Session] /\ conn' \in [Conns -> Connection]
      /\ session'[r] = t /\ conn'[c] = k
      /\ \A s \in Requests \ {r} : session'[s] = session[s]
      /\ \A d \in Conns \ {c} : conn'[d] = conn[d]
  BY <1>0, <1>2, <1>3, <1>4, CompletedHas DEF TypeOK
<1>6. Sound(r)' /\ TimerLeft(r)
  <2>1. Sound(r)'
    BY <1>0, <1>1, <1>2, <1>3, <1>5, CompletedHas
       DEF Sound, Holds, InOrder, SendLeft, ConnectOps, NextChunk, callerVars
  <2>2. session'[r].op = "line" /\ conn'[session'[r].conn] = k
    BY <1>3, <1>5
  <2>3. Configured(session'[r].op) => conn'[session'[r].conn].armed = 1
    BY <1>2, <2>2
  <2>4. TimerLeft(r)
    BY <2>2, <2>3, TimerSet DEF Ops, ReadOps, NextChunk
  <2> QED
    BY <2>1, <2>4
<1>7. \A s \in Requests \ {r} : Kept(s)
  BY <1>0, <1>1, <1>5, CompletedHas, KeptOthers
<1>8. Taken(r)
  BY <1>0, <1>1, <1>3, <1>5, CompletedHas DEF Taken
<1>9. Apart' /\ \A s \in Requests : Step(s)
  BY <1>6, <1>7, <1>8, StepOfOne DEF NextChunk, callerVars
<1>10. OneUnused'
  <2>1. UNCHANGED connections /\ \A d \in Conns : ~conn'[d].in_use => ~conn[d].in_use
    BY <1>2, <1>5 DEF NextChunk
  <2> QED
    BY <2>1 DEF IInv, TypeOK, OneUnused
<1> QED
  BY <1>0, <1>5, <1>9, <1>10, CompletedHas DEF TypeOK, NextChunk, callerVars

\* A session that is over, whatever became of its connection.
LEMMA OverStep ==
  ASSUME IInv, NEW r \in Requests, Completed(r),
         NEW outcome \in {"ok", "error", "thrown", "dropped"},
         session' = [session EXCEPT ![r] = Over(@, outcome)],
         pc' = pc \/ \E t \in Requests : pc[t] = "running" /\ pc' = [pc EXCEPT ![t] = "thrown"],
         \A s \in Requests \ {r} : Active(s) => conn'[session[s].conn] = conn[session[s].conn],
         UNCHANGED config
  PROVE  /\ session' \in [Requests -> Session]
         /\ Apart' /\ \A s \in Requests : Step(s)
<1>1. Over(session[r], outcome) \in Session
  BY CompletedHas, OverTyped
<1>2. /\ session' \in [Requests -> Session]
      /\ session'[r] = Over(session[r], outcome)
      /\ \A s \in Requests \ {r} : session'[s] = session[s]
  BY <1>1, CompletedHas DEF TypeOK
<1>3. session'[r].op = "none" /\ session'[r].sends = session[r].sends
  BY <1>2, CompletedHas, OverTyped
<1>4. /\ pc'[r] \notin {"idle", "calling"}
      /\ \A s \in Requests \ {r} : pc'[s] = pc[s] \/ (pc[s] = "running" /\ pc'[s] = "thrown")
  BY CompletedHas DEF TypeOK
<1>5. Sound(r)' /\ TimerLeft(r)
  <2>1. session'[r].op \notin Ops
    BY <1>3 DEF Ops, ConnectOps, ReadOps
  <2>2. Sound(r)'
    BY <1>3, <1>4, CompletedHas DEF Sound, Holds, Active, InOrder, SendLeft, ConnectOps
  <2> QED
    BY <2>1, <2>2, TimerIdle
<1>6. Taken(r) /\ \A s \in Requests \ {r} : Kept(s)
  BY <1>2, <1>3 DEF Taken, Kept, Active
<1> QED
  BY <1>2, <1>4, <1>5, <1>6, StepOfOne

LEMMA LeaveStep ==
  ASSUME IInv, NEW r \in Requests, Completed(r),
         NEW outcome \in {"thrown", "dropped"}, Leave(r, outcome),
         pc' = pc \/ \E t \in Requests : pc[t] = "running" /\ pc' = [pc EXCEPT ![t] = "thrown"],
         UNCHANGED <<config, connections>>
  PROVE  /\ session' \in [Requests -> Session] /\ conn' \in [Conns -> Connection]
         /\ Apart' /\ OneUnused' /\ \A s \in Requests : Step(s)
<1>1. PICK c \in Conns : c = session[r].conn
  BY CompletedHas
<1>2. PICK k \in Connection : k.in_use /\ conn' = [conn EXCEPT ![c] = k]
  BY <1>1, CompletedHas, RetiredTyped DEF Leave
<1>3. /\ conn' \in [Conns -> Connection] /\ conn'[c] = k
      /\ \A d \in Conns \ {c} : conn'[d] = conn[d]
  BY <1>2, CompletedHas DEF TypeOK
<1>4. \A s \in Requests \ {r} : Active(s) => conn'[session[s].conn] = conn[session[s].conn]
  BY <1>1, <1>3, CompletedHas, OthersConn
<1>5. /\ session' \in [Requests -> Session]
      /\ Apart' /\ \A s \in Requests : Step(s)
  BY <1>4, OverStep DEF Leave
<1>6. OneUnused'
  <2>1. \A d \in Conns : ~conn'[d].in_use => ~conn[d].in_use
    BY <1>2, <1>3
  <2> QED
    BY <2>1 DEF IInv, TypeOK, OneUnused
<1> QED
  BY <1>3, <1>5, <1>6

LEMMA DiscardStep ==
  ASSUME IInv, NEW r \in Requests, Discard(r)
  PROVE  /\ TypeOK' /\ Apart' /\ OneUnused'
         /\ \A s \in Requests : Step(s)
<1>1. Completed(r) /\ Leave(r, "dropped") /\ UNCHANGED <<config, pc, connections>>
  BY DEF Discard, callerVars
<1>2. /\ session' \in [Requests -> Session] /\ conn' \in [Conns -> Connection]
      /\ Apart' /\ OneUnused' /\ \A s \in Requests : Step(s)
  BY <1>1, LeaveStep
<1> QED
  BY <1>2 DEF IInv, TypeOK, Discard, callerVars

LEMMA ThrowStep ==
  ASSUME IInv, NEW r \in Requests, Throw(r)
  PROVE  /\ TypeOK' /\ Apart' /\ OneUnused'
         /\ \A s \in Requests : Step(s)
<1>1. /\ Completed(r) /\ Leave(r, "thrown") /\ UNCHANGED <<config, connections>>
      /\ \/ pc' = pc
         \/ \E t \in Requests : pc[t] = "running" /\ pc' = [pc EXCEPT ![t] = "thrown"]
  BY DEF Throw
<1>2. /\ session' \in [Requests -> Session] /\ conn' \in [Conns -> Connection]
      /\ Apart' /\ OneUnused' /\ \A s \in Requests : Step(s)
  BY <1>1, LeaveStep
<1> QED
  BY <1>1, <1>2 DEF IInv, TypeOK, Throw

LEMMA CallbackStep ==
  ASSUME IInv, NEW r \in Requests, Completed(r), NEW outcome \in {"ok", "error"},
         Callback(r, outcome)
  PROVE  /\ TypeOK' /\ Apart' /\ OneUnused'
         /\ \A s \in Requests : Step(s)
<1> DEFINE c      == session[r].conn
           pool   == IF outcome = "error" THEN connections \ {c} ELSE connections
           unused == {d \in pool : d = c \/ ~conn[d].in_use}
           quiet  == [conn EXCEPT ![c] = [Quiet(r) EXCEPT !.in_use = FALSE]]
           gone   == (connections \cup {c}) \ connections'
<1>1. /\ TypeOK /\ c \in Conns /\ Quiet(r) \in Connection /\ Active(r)
      /\ connections \subseteq Conns
  BY CompletedHas DEF TypeOK
<1>2. PICK kept \in Keep(unused) : connections' = (pool \ unused) \cup kept
  BY DEF Callback
<1>3. kept \subseteq unused /\ \A d, e \in kept : d = e
  BY DEF Keep
<1>4. quiet \in [Conns -> Connection] /\ \A d \in Conns \ {c} : quiet[d] = conn[d]
  <2>1. [Quiet(r) EXCEPT !.in_use = FALSE] \in Connection
    BY <1>1 DEF Connection
  <2> QED
    BY <1>1, <2>1 DEF TypeOK
<1>5. conn' = [d \in Conns |-> IF d \in gone THEN Retired(quiet[d]) ELSE quiet[d]]
  BY DEF Callback
<1> HIDE DEF quiet
<1>6. conn' \in [Conns -> Connection]
  BY <1>4, <1>5, RetiredTyped
<1>7. \A d \in gone : d = c \/ ~conn[d].in_use
  BY <1>2
<1>8. ASSUME NEW s \in Requests \ {r}, Active(s)
      PROVE  conn'[session[s].conn] = conn[session[s].conn]
  BY <1>1, <1>4, <1>5, <1>7, <1>8, OthersConn
<1>9. /\ session' \in [Requests -> Session]
      /\ Apart' /\ \A s \in Requests : Step(s)
  BY <1>8, OverStep DEF Callback, callerVars
<1>10. OneUnused'
  <2> SUFFICES ASSUME NEW d \in connections', NEW e \in connections',
                      ~conn'[d].in_use, ~conn'[e].in_use
               PROVE  d = e
    BY DEF OneUnused
  <2>1. ASSUME NEW a \in connections', ~conn'[a].in_use PROVE a \in kept
    <3>1. a \in pool /\ a \in Conns /\ a \notin gone
      BY <1>1, <1>2, <1>3
    <3>2. conn'[a] = quiet[a]
      BY <1>5, <3>1
    <3>3. a = c \/ ~conn[a].in_use
      BY <1>4, <2>1, <3>1, <3>2
    <3> QED
      BY <1>2, <3>1, <3>3
  <2> QED
    BY <1>3, <2>1
<1>11. connections' \subseteq Conns
  BY <1>1, <1>2, <1>3
<1> QED
  BY <1>1, <1>6, <1>9, <1>10, <1>11 DEF TypeOK, Callback, callerVars

LEMMA ReconnectStep ==
  ASSUME IInv, NEW r \in Requests, Reconnect(r)
  PROVE  /\ TypeOK' /\ Apart' /\ OneUnused'
         /\ \A s \in Requests : Step(s)
<1>0. /\ Completed(r) /\ session[r].op = "header" /\ session[r].result = "error"
      /\ conn[session[r].conn].attempt_reconnect
      /\ UNCHANGED <<config, pc>>
  BY DEF Reconnect, Retries, callerVars
<1>1. PICK c \in Conns : c = session[r].conn
  BY <1>0, CompletedHas
<1>2. PICK d \in Places :
        /\ connections' = (connections \ {c}) \cup {d}
        /\ session' = [session EXCEPT ![r].op = "resolve", ![r].result = "pending",
                                      ![r].conn = d]
        /\ conn' = [conn EXCEPT ![c] = Retired(Quiet(r)),
                                ![d] = SetTimeout(Replacement, "resolve")]
  BY <1>1 DEF Reconnect
<1>3. d \in Conns /\ d # c
  BY <1>0, <1>1, CompletedHas DEF Places, Unreferenced
<1> DEFINE t == [session[r] EXCEPT !.op = "resolve", !.result = "pending", !.conn = d]
           k == SetTimeout(Replacement, "resolve")
<1>4. /\ t \in Session /\ t.op = "resolve" /\ t.conn = d /\ t.result = "pending"
      /\ t.sends = session[r].sends
  BY <1>0, <1>3, CompletedHas DEF Session, Ops, ConnectOps
<1>5. /\ k \in Connection /\ k.in_use /\ ~k.attempt_reconnect
      /\ Configured("resolve") /\ config.route = "http" => k.armed = 1
  BY SetTimeoutTyped, NewConnectionTyped
<1>6. /\ session' = [session EXCEPT ![r] = t]
      /\ conn' = [conn EXCEPT ![c] = Retired(Quiet(r)), ![d] = k]
  BY <1>0, <1>2, CompletedHas DEF TypeOK
<1> HIDE DEF t, k
<1>7. Retired(Quiet(r)) \in Connection /\ Retired(Quiet(r)).in_use
  BY <1>0, CompletedHas, RetiredTyped
<1>8. /\ session' \in [Requests -> Session] /\ conn' \in [Conns -> Connection]
      /\ session'[r] = t /\ conn'[d] = k /\ conn'[c].in_use
      /\ \A s \in Requests \ {r} : session'[s] = session[s]
      /\ \A e \in Conns \ {c, d} : conn'[e] = conn[e]
  BY <1>3, <1>4, <1>5, <1>6, <1>7 DEF IInv, TypeOK
<1>9. Sound(r)' /\ TimerLeft(r)
  <2>1. SendLeft(r)
    BY DEF IInv, Sound
  <2>2. session[r].sends <= 1
    BY <1>0, <2>1, CompletedHas DEF SendLeft
  <2>3. Sound(r)'
    BY <1>0, <1>3, <1>4, <1>5, <1>8, <2>2, CompletedHas
       DEF Sound, Holds, InOrder, SendLeft, ConnectOps
  <2>4. TimerLeft(r)
    BY <1>0, <1>4, <1>5, <1>8, TimerSet DEF Ops, ConnectOps
  <2> QED
    BY <2>3, <2>4
<1>10. \A s \in Requests \ {r} : Kept(s)
  BY <1>0, <1>1, <1>8, OthersConn, CompletedHas DEF Kept
<1>11. Taken(r)
  BY <1>4, <1>8 DEF Taken
<1>12. Apart' /\ \A s \in Requests : Step(s)
  BY <1>0, <1>9, <1>10, <1>11, StepOfOne
<1>13. OneUnused'
  <2>1. \A e \in Conns : ~conn'[e].in_use => ~conn[e].in_use /\ e \notin {c, d}
    BY <1>5, <1>8
  <2> QED
    BY <1>2, <1>3, <2>1 DEF IInv, TypeOK, OneUnused
<1>14. connections' \subseteq Conns
  BY <1>2, <1>3 DEF IInv, TypeOK
<1> QED
  BY <1>0, <1>8, <1>12, <1>13, <1>14 DEF IInv, TypeOK, Reconnect, callerVars

-----------------------------------------------------------------------------
(* Steps that disturb no session *)

\* An operation whose result changes: what is true of the session stays so.
LEMMA ResultStep ==
  ASSUME IInv, UNCHANGED <<config, pc>>,
         session' \in [Requests -> Session], conn' \in [Conns -> Connection],
         \A r \in Requests :
           /\ session'[r].op = session[r].op /\ session'[r].conn = session[r].conn
           /\ session'[r].sends = session[r].sends
           /\ Active(r) =>
                LET k == conn[session[r].conn] IN
                /\ conn'[session[r].conn].in_use
                /\ conn'[session[r].conn].attempt_reconnect = k.attempt_reconnect
           /\ TimerLeft(r)
  PROVE  Apart' /\ \A r \in Requests : Step(r)
<1>1. Apart'
  BY DEF IInv, Apart, Active
<1>2. ASSUME NEW r \in Requests PROVE Step(r)
  <2>1. Sound(r)
    BY DEF IInv
  <2>2. session[r].op \in ConnectOps \cup {"write", "header"} => Active(r)
    BY DEF Active, ConnectOps
  <2>3. Holds(r)' /\ InOrder(r)'
    BY <2>1 DEF Sound, Holds, InOrder, Active
  <2>4. SendLeft(r)'
    BY <2>1, <2>2 DEF Sound, SendLeft
  <2> QED
    BY <2>3, <2>4 DEF Sound, Step
<1> QED
  BY <1>1, <1>2

LEMMA CompleteStep ==
  ASSUME IInv, NEW r \in Requests, Complete(r)
  PROVE  /\ TypeOK' /\ Apart' /\ OneUnused'
         /\ \A s \in Requests : Step(s)
<1>1. TypeOK /\ session[r] \in Session
  BY SessionTyped DEF IInv
<1>2. PICK result \in {"ok", "error"} : session' = [session EXCEPT ![r].result = result]
  BY DEF Complete
<1> DEFINE t == [session[r] EXCEPT !.result = result]
<1>3. /\ t \in Session /\ t.op = session[r].op /\ t.conn = session[r].conn
      /\ t.sends = session[r].sends /\ t.result # "pending"
  BY <1>1 DEF Session
<1>4. session' = [session EXCEPT ![r] = t]
  BY <1>2
<1> HIDE DEF t
<1>5. /\ session' \in [Requests -> Session] /\ session'[r] = t
      /\ \A s \in Requests \ {r} : session'[s] = session[s]
  BY <1>1, <1>3, <1>4 DEF TypeOK
<1>6. UNCHANGED <<config, pc, conn, connections>>
  BY DEF Complete, callerVars
<1>7. \A s \in Requests : TimerLeft(s)
  BY <1>3, <1>5, <1>6, TimerKept, TimerIdle
<1>8. Apart' /\ \A s \in Requests : Step(s)
  BY <1>1, <1>3, <1>5, <1>6, <1>7, ResultStep DEF IInv, Sound, Holds, TypeOK
<1> QED
  BY <1>1, <1>5, <1>6, <1>8 DEF IInv, TypeOK, OneUnused, Complete, callerVars

\* socket.cancel() touches results only, and ends all but resolve and connect.
LEMMA CancelEffect ==
  ASSUME TypeOK, NEW cs, Cancel(cs)
  PROVE  /\ session' \in [Requests -> Session]
         /\ \A r \in Requests :
              /\ session'[r].op = session[r].op /\ session'[r].conn = session[r].conn
              /\ session'[r].sends = session[r].sends
              /\ session'[r].outcome = session[r].outcome
              /\ session'[r] = session[r] \/ session'[r].result # "pending"
              /\ session[r].op \in Ops \ {"resolve", "connect"} /\ session[r].conn \in cs
                   => session'[r].result # "pending"
<1>1. PICK next \in SUBSET {r \in Requests : session[r].op = "connect"} :
        session' = [r \in Requests |->
                     IF /\ session[r].op \in Ops \ {"resolve"}
                        /\ session[r].result = "pending"
                        /\ session[r].conn \in cs /\ r \notin next
                     THEN [session[r] EXCEPT !.result = "canceled"] ELSE session[r]]
  BY DEF Cancel
<1>2. ASSUME NEW r \in Requests
      PROVE  LET t == [session[r] EXCEPT !.result = "canceled"] IN
             /\ t \in Session /\ t.op = session[r].op /\ t.conn = session[r].conn
             /\ t.sends = session[r].sends /\ t.outcome = session[r].outcome
             /\ t.result = "canceled"
  BY SessionTyped DEF Session
<1> QED
  BY <1>1, <1>2 DEF TypeOK

LEMMA RunExpiredStep ==
  ASSUME IInv, NEW c \in Conns, RunExpired(c)
  PROVE  /\ TypeOK' /\ Apart' /\ OneUnused'
         /\ \A s \in Requests : Step(s)
<1>1. TypeOK /\ conn[c] \in Connection /\ conn[c].expired > 0
  BY DEF IInv, TypeOK, RunExpired
<1> DEFINE k == [conn[c] EXCEPT !.expired = @ - 1]
<1>2. /\ k \in Connection /\ k.in_use = conn[c].in_use
      /\ k.attempt_reconnect = conn[c].attempt_reconnect
      /\ k.expired < conn[c].expired
  BY <1>1 DEF Connection
<1>3. conn' = [conn EXCEPT ![c] = k]
  BY DEF RunExpired
<1> HIDE DEF k
<1>4. /\ conn' \in [Conns -> Connection]
      /\ \A d \in Conns : /\ conn'[d].in_use = conn[d].in_use
                          /\ conn'[d].attempt_reconnect = conn[d].attempt_reconnect
                          /\ d # c => conn'[d] = conn[d]
      /\ conn'[c].expired < conn[c].expired
  BY <1>1, <1>2, <1>3 DEF TypeOK
<1>5. UNCHANGED <<config, pc, connections>> /\ Cancel({c})
  BY DEF RunExpired, callerVars
<1>6. ASSUME NEW s \in Requests PROVE TimerLeft(s)
  <2>1. CASE session'[s].op \notin Ops \/ session'[s].result # "pending"
    BY <2>1, TimerIdle
  <2>2. CASE session'[s].op \in Ops /\ session'[s].result = "pending"
    <3>1. session'[s] = session[s]
      BY <1>1, <1>5, <2>2, CancelEffect
    <3>2. session[s].conn \in Conns
      BY <2>2, <3>1 DEF IInv, Sound, Holds, Active, Ops, ConnectOps, ReadOps
    <3>3. CASE session[s].conn # c
      BY <1>4, <1>5, <3>1, <3>2, <3>3, TimerKept
    <3>4. CASE session[s].conn = c
      <4>1. session'[s].op \in {"resolve", "connect"}
        BY <1>1, <1>5, <2>2, <3>1, <3>4, CancelEffect
      <4> QED
        BY <1>4, <3>1, <3>4, <4>1 DEF TimerLeft
    <3> QED
      BY <3>3, <3>4
  <2> QED
    BY <2>1, <2>2
<1>7. Apart' /\ \A s \in Requests : Step(s)
  BY <1>1, <1>4, <1>5, <1>6, CancelEffect, ResultStep DEF IInv, Sound, Holds
<1> QED
  BY <1>1, <1>4, <1>5, <1>7, CancelEffect
     DEF IInv, TypeOK, OneUnused, RunExpired, callerVars

LEMMA TimerExpiresStep ==
  ASSUME IInv, NEW c \in Conns, TimerExpires(c)
  PROVE  /\ TypeOK' /\ Apart' /\ OneUnused'
         /\ \A s \in Requests : Step(s)
<1>1. TypeOK /\ conn[c] \in Connection /\ conn[c].armed > 0
  BY DEF IInv, TypeOK, TimerExpires
<1> DEFINE a == conn[c].armed - 1
           e == conn[c].expired + 1
           k == [conn[c] EXCEPT !.armed = a, !.expired = e]
<1>2. /\ k \in Connection /\ k.in_use = conn[c].in_use /\ k.expired > 0
      /\ k.attempt_reconnect = conn[c].attempt_reconnect
  <2>1. a \in 0..1 /\ e \in Nat /\ e > 0
    BY <1>1 DEF Connection
  <2> HIDE DEF a, e
  <2> QED
    BY <1>1, <2>1 DEF Connection
<1>3. conn' = [conn EXCEPT ![c] = k]
  BY <1>1 DEF TimerExpires, TypeOK
<1> HIDE DEF k
<1>4. /\ conn' \in [Conns -> Connection]
      /\ \A d \in Conns : /\ conn'[d].in_use = conn[d].in_use
                          /\ conn'[d].attempt_reconnect = conn[d].attempt_reconnect
                          /\ conn'[d] = conn[d] \/ conn'[d].expired > 0
  BY <1>1, <1>2, <1>3 DEF TypeOK
<1>5. UNCHANGED <<config, pc, connections, session>>
  BY DEF TimerExpires, callerVars
<1>6. ASSUME NEW s \in Requests PROVE TimerLeft(s)
  <2>1. session[s].op \in Ops => session[s].conn \in Conns
    BY DEF IInv, Sound, Holds, Active, Ops, ConnectOps, ReadOps
  <2>2. CASE session[s].op \in Ops /\ conn'[session[s].conn] # conn[session[s].conn]
    BY <1>4, <1>5, <2>1, <2>2 DEF TimerLeft, Untimed
  <2> QED
    BY <1>5, <2>2, TimerKept
<1>7. Apart' /\ \A s \in Requests : Step(s)
  BY <1>1, <1>4, <1>5, <1>6, ResultStep DEF IInv, Sound, Holds, TypeOK
<1> QED
  BY <1>1, <1>4, <1>5, <1>7
     DEF IInv, TypeOK, OneUnused, TimerExpires, callerVars

LEMMA StopStep ==
  ASSUME IInv, Stop
  PROVE  /\ TypeOK' /\ Apart' /\ OneUnused'
         /\ \A s \in Requests : Step(s)
<1>1. TypeOK
  BY DEF IInv
<1>2. conn' = [c \in Conns |-> IF c \in connections /\ ~conn[c].in_use
                               THEN Retired(conn[c]) ELSE conn[c]]
  BY DEF Stop
<1>3. /\ conn' \in [Conns -> Connection]
      /\ \A c \in Conns : conn[c].in_use => conn'[c] = conn[c]
  BY <1>1, <1>2, RetiredTyped DEF TypeOK
<1>4. UNCHANGED <<config, pc>> /\ Cancel(connections) /\ connections' = {}
  BY DEF Stop, callerVars
<1>5. ASSUME NEW s \in Requests PROVE TimerLeft(s)
  <2>1. session'[s] = session[s] \/ session'[s].result # "pending"
    BY <1>1, <1>4, CancelEffect
  <2>2. session[s].op \in Ops => conn'[session[s].conn] = conn[session[s].conn]
    BY <1>3 DEF IInv, Sound, Holds, Active, Ops, ConnectOps, ReadOps
  <2> QED
    BY <1>4, <2>1, <2>2, TimerKept, TimerIdle
<1>6. Apart' /\ \A s \in Requests : Step(s)
  BY <1>1, <1>3, <1>4, <1>5, CancelEffect, ResultStep DEF IInv, Sound, Holds
<1> QED
  BY <1>1, <1>3, <1>4, <1>6, CancelEffect
     DEF TypeOK, OneUnused, Stop, callerVars

-----------------------------------------------------------------------------
(* The callers of the synchronous request() *)

\* A caller that neither counts in nor out.
LEMMA CountedSame ==
  ASSUME Counted, UNCHANGED concurrent_synchronous_requests,
         \A r \in Requests : pc'[r] \in {"running", "ran", "thrown"} <=>
                             pc[r] \in {"running", "ran", "thrown"}
  PROVE  Counted'
<1>1. Running' = Running
  BY DEF Running
<1> QED
  BY <1>1 DEF Counted

LEMMA CountInStep ==
  ASSUME IInv, NEW r \in Requests, CountIn(r)
  PROVE  IInv' /\ \A s \in Requests : TimerLeft(s)
<1>1. TypeOK /\ Counted
  BY DEF IInv
<1>2. /\ pc[r] = "asked" /\ pc' = [pc EXCEPT ![r] = "running"]
      /\ UNCHANGED <<config, session, conn, connections, gate, io, undefined>>
      /\ concurrent_synchronous_requests' = concurrent_synchronous_requests + 1
  BY DEF CountIn, poolVars
<1>3. Running' = Running \cup {r} /\ r \notin Running
  BY <1>1, <1>2 DEF Running, TypeOK
<1>4. Counted'
  BY <1>1, <1>2, <1>3, FS_AddElement DEF Counted
<1>5. TypeOK' /\ OneUnused'
  BY <1>1, <1>2 DEF IInv, TypeOK, OneUnused
<1>6. \A s \in Requests : Kept(s)
  BY <1>2 DEF Kept
<1>7. Sound(r)' /\ TimerLeft(r)
  BY <1>1, <1>2, TimerKept DEF IInv, TypeOK, Sound, Holds, Active, InOrder, SendLeft
<1>8. Taken(r)
  BY <1>2 DEF Taken, Active
<1>9. Apart' /\ \A s \in Requests : Step(s)
  BY <1>1, <1>2, <1>6, <1>7, <1>8, StepOfOne DEF TypeOK
<1> QED
  BY <1>4, <1>5, <1>9 DEF IInv, Step

LEMMA RunReturnsStep ==
  ASSUME IInv, NEW r \in Requests, RunReturns(r)
  PROVE  IInv' /\ \A s \in Requests : TimerLeft(s)
<1>1. TypeOK /\ Counted
  BY DEF IInv
<1>2. /\ pc[r] = "running" /\ pc' = [pc EXCEPT ![r] = "ran"]
      /\ UNCHANGED <<config, session, conn, connections, gate, io, undefined,
                     concurrent_synchronous_requests>>
  BY DEF RunReturns, poolVars
<1>4. Counted'
  BY <1>1, <1>2, CountedSame DEF TypeOK
<1>5. TypeOK' /\ OneUnused'
  BY <1>1, <1>2 DEF IInv, TypeOK, OneUnused
<1>6. \A s \in Requests : Kept(s)
  BY <1>2 DEF Kept
<1>7. Sound(r)' /\ TimerLeft(r)
  BY <1>1, <1>2, TimerKept DEF IInv, TypeOK, Sound, Holds, Active, InOrder, SendLeft
<1>8. Taken(r)
  BY <1>2 DEF Taken, Active
<1>9. Apart' /\ \A s \in Requests : Step(s)
  BY <1>1, <1>2, <1>6, <1>7, <1>8, StepOfOne DEF TypeOK
<1> QED
  BY <1>4, <1>5, <1>9 DEF IInv, Step

LEMMA CountOutStep ==
  ASSUME IInv, NEW r \in Requests, CountOut(r)
  PROVE  IInv' /\ \A s \in Requests : TimerLeft(s)
<1>1. TypeOK /\ Counted
  BY DEF IInv
<1>2. /\ pc[r] = "ran" /\ pc' = [pc EXCEPT ![r] = "returned"]
      /\ UNCHANGED <<config, session, conn, connections, gate, undefined>>
      /\ concurrent_synchronous_requests' = concurrent_synchronous_requests - 1
      /\ io' \in {"running", "stopped"}
  BY <1>1 DEF CountOut, poolVars, Reset, TypeOK
<1>3. Running' = Running \ {r} /\ r \in Running
  BY <1>1, <1>2 DEF Running, TypeOK
<1>4. Counted'
  BY <1>1, <1>2, <1>3, FS_RemoveElement DEF Counted
<1>5. concurrent_synchronous_requests' \in Nat
  BY <1>4, FS_CardinalityType DEF Counted
<1>6. TypeOK' /\ OneUnused'
  BY <1>1, <1>2, <1>5 DEF IInv, TypeOK, OneUnused
<1>7. \A s \in Requests : Kept(s)
  BY <1>2 DEF Kept
<1>8. Sound(r)' /\ TimerLeft(r)
  BY <1>1, <1>2, TimerKept DEF IInv, TypeOK, Sound, Holds, Active, InOrder, SendLeft
<1>9. Taken(r)
  BY <1>2 DEF Taken, Active
<1>10. Apart' /\ \A s \in Requests : Step(s)
  BY <1>1, <1>2, <1>7, <1>8, <1>9, StepOfOne DEF TypeOK
<1> QED
  BY <1>4, <1>6, <1>10 DEF IInv, Step

\* Steps that change no request and no connection.
LEMMA QuietStep ==
  ASSUME IInv, TypeOK',
         UNCHANGED <<config, pc, session, conn, connections,
                     concurrent_synchronous_requests>>
  PROVE  IInv' /\ \A s \in Requests : TimerLeft(s)
<1>1. Apart' /\ OneUnused'
  BY DEF IInv, Apart, Active, OneUnused
<1>2. Counted'
  BY CountedSame DEF IInv
<1>3. \A r \in Requests : Sound(r)'
  BY DEF IInv, Sound, Holds, Active, InOrder, SendLeft
<1> QED
  BY <1>1, <1>2, <1>3, TimerKept DEF IInv

-----------------------------------------------------------------------------
(* The invariant *)

LEMMA InitIInv == Init => IInv
<1> SUFFICES ASSUME Init PROVE IInv
  OBVIOUS
<1>1. TypeOK
  <2>1. [op |-> "none", result |-> "pending", conn |-> NoConn, sends |-> 0,
         chunks |-> 0, outcome |-> "none"] \in Session
    BY BoundAssumption DEF Session
  <2>2. session \in [Requests -> Session]
    BY <2>1 DEF Init
  <2>3. pc \in [Requests -> {"idle", "calling", "asked", "running", "ran",
                             "returned", "thrown"}]
    BY DEF Init
  <2>4. conn \in [Conns -> Connection]
    BY NewConnectionTyped DEF Init
  <2> QED
    BY <2>2, <2>3, <2>4 DEF Init, TypeOK
<1>2. Apart /\ OneUnused
  BY DEF Init, Apart, Active, OneUnused
<1>3. Running = {}
  BY DEF Init, Running
<1>4. Counted
  BY <1>3, FS_EmptySet DEF Init, Counted
<1>5. \A r \in Requests : Sound(r)
  BY DEF Init, Sound, Holds, Active, InOrder, SendLeft, ConnectOps
<1> QED
  BY <1>1, <1>2, <1>4, <1>5 DEF IInv

\* Every step keeps the invariant, and leaves the timers as TimerCovers says.
LEMMA NextIInv == IInv /\ [Next]_vars => IInv' /\ \A s \in Requests : TimerLeft(s)
<1> DEFINE Goal == IInv' /\ \A s \in Requests : TimerLeft(s)
<1> SUFFICES ASSUME IInv, [Next]_vars PROVE Goal
  OBVIOUS
<1>1. ASSUME NEW r \in Requests, Caller(r) PROVE Goal
  <2>1. ASSUME GetConnection(r) \/ Connect(r) PROVE Goal
    <3>1. Counted'
      <4>1. \A s \in Requests : pc'[s] \in {"running", "ran", "thrown"} <=>
                                pc[s] \in {"running", "ran", "thrown"}
        BY <2>1 DEF GetConnection, Connect, IInv, TypeOK
      <4>2. UNCHANGED concurrent_synchronous_requests
        BY <2>1 DEF GetConnection, Connect
      <4> QED
        BY <4>1, <4>2, CountedSame DEF IInv
    <3> QED
      BY <2>1, <3>1, GetConnectionStep, ConnectStep DEF IInv, Step
  <2> QED
    BY <1>1, <2>1, CountInStep, RunReturnsStep, CountOutStep DEF Caller
<1>2. ASSUME NEW r \in Requests, Handle(r) PROVE Goal
  <2>1. /\ TypeOK' /\ Apart' /\ OneUnused'
        /\ \A s \in Requests : Step(s)
    BY <1>2, DiscardStep, ProceedStep, NextChunkStep, CallbackStep, ReconnectStep,
       ThrowStep DEF Handle, Finish, Fail
  <2>2. \A s \in Requests : pc'[s] \in {"running", "ran", "thrown"} <=>
                            pc[s] \in {"running", "ran", "thrown"}
    BY <1>2 DEF Handle, Discard, Proceed, NextChunk, Finish, Fail, Callback,
                Reconnect, Throw, callerVars, IInv, TypeOK
  <2>3. UNCHANGED concurrent_synchronous_requests
    BY <1>2 DEF Handle, Discard, Proceed, NextChunk, Finish, Fail, Callback,
                Reconnect, Throw, callerVars
  <2> QED
    BY <2>1, <2>2, <2>3, CountedSame DEF IInv, Step
<1>3. ASSUME \/ \E r \in Requests : Complete(r)
             \/ \E c \in Conns : RunExpired(c) \/ TimerExpires(c)
             \/ Stop
      PROVE  Goal /\ \A s \in Requests : TimerLeft(s)
  <2>1. /\ TypeOK' /\ Apart' /\ OneUnused'
        /\ \A s \in Requests : Step(s)
    BY <1>3, CompleteStep, RunExpiredStep, TimerExpiresStep, StopStep
  <2>2. UNCHANGED <<pc, concurrent_synchronous_requests>>
    BY <1>3 DEF Complete, RunExpired, TimerExpires, Stop, callerVars
  <2> QED
    BY <2>1, <2>2, CountedSame DEF IInv, Step
<1>4. ASSUME OutOfWork \/ Destroy PROVE Goal
  BY <1>4, QuietStep DEF OutOfWork, Destroy, poolVars, callerVars, IInv, TypeOK
<1>5. CASE UNCHANGED vars
  BY <1>5, QuietStep DEF vars, IInv, TypeOK
<1> QED
  BY <1>1, <1>2, <1>3, <1>4, <1>5 DEF Next

-----------------------------------------------------------------------------
(* What the invariant gives *)

\* The inductive invariant holds throughout.
THEOREM Invariant == Spec => []IInv
BY InitIInv, NextIInv, PTL DEF Spec

\* All variables keep their types: a caller that leaves run() was counted in, and a
\* connection has one timer at most.
THEOREM TypeCorrect == Spec => []TypeOK
<1>1. IInv => TypeOK
  BY DEF IInv
<1> QED
  BY <1>1, Invariant, PTL

\* No connection serves two requests, however reconnects, stops and callbacks come
\* together.
THEOREM SharingExcluded == Spec => []NoSharing
<1>1. IInv => NoSharing
  BY DEF IInv, NoSharing, Apart, Sound, Holds
<1> QED
  BY <1>1, Invariant, PTL

\* The pool keeps one unused connection at most.
THEOREM OneUnusedKept == Spec => []OneUnused
<1>1. IInv => OneUnused
  BY DEF IInv
<1> QED
  BY <1>1, Invariant, PTL

\* No request is written a third time.
THEOREM SentTwice == Spec => []SentAtMostTwice
<1>1. IInv => SentAtMostTwice
  BY DEF IInv, Sound, SendLeft, SentAtMostTwice
<1> QED
  BY <1>1, Invariant, PTL

\* An operation for which a timeout is set comes to be without a timer only when
\* its name is resolved for https, or when the timer of a resolve or a connect has
\* fired and left it waiting: no other operation is ever without.
THEOREM TimersCover == Spec => TimerCovers
<1> DEFINE Left == \A r \in Requests : TimerLeft(r)
<1>1. IInv /\ [Next]_vars => [Left]_vars
  BY NextIInv
<1>2. Spec => [][Left]_vars
  <2> HIDE DEF Left
  <2> QED
    BY <1>1, Invariant, PTL DEF Spec
<1> QED
  BY <1>2, PTL DEF TimerLeft, TimerCovers

\* After handler_runner->stop() sessions are only dropped.
THEOREM DestroyedSilent == Spec => GateSilences
<1> DEFINE Silent == gate = "shut" => \A r \in Requests :
                       session'[r].outcome \in {session[r].outcome, "dropped"}
<1>1. IInv /\ [Next]_vars => [Silent]_vars
  <2> SUFFICES ASSUME IInv, Next, gate = "shut", NEW r \in Requests
               PROVE  session'[r].outcome \in {session[r].outcome, "dropped"}
    OBVIOUS
  <2>1. TypeOK /\ session[r] \in Session
    BY SessionTyped DEF IInv
  <2>2. ASSUME NEW s \in Requests, Caller(s)
        PROVE  session'[r].outcome = session[r].outcome
    <3>1. CASE GetConnection(s)
      BY <3>1 DEF GetConnection
    <3>2. CASE Connect(s)
      BY <2>1, <3>2 DEF Connect, Start, TypeOK
    <3> QED
      BY <2>2, <3>1, <3>2 DEF Caller, CountIn, RunReturns, CountOut, poolVars
  <2>3. ASSUME NEW s \in Requests, Handle(s)
        PROVE  session'[r].outcome \in {session[r].outcome, "dropped"}
    <3>1. Discard(s)
      BY <2>3 DEF Handle, Proceed, NextChunk, Finish, Fail, Reconnect, Throw, Lock
    <3> QED
      BY <2>1, <3>1 DEF Discard, Leave, Over, TypeOK
  <2>4. ASSUME NEW s \in Requests, Complete(s)
        PROVE  session'[r].outcome = session[r].outcome
    <3>1. PICK result \in {"ok", "error"} : session' = [session EXCEPT ![s].result = result]
      BY <2>4 DEF Complete
    <3>2. [session[r] EXCEPT !.result = result].outcome = session[r].outcome
      BY <2>1 DEF Session
    <3> QED
      BY <2>1, <3>1, <3>2 DEF TypeOK
  <2>5. ASSUME NEW c \in Conns, RunExpired(c) \/ TimerExpires(c)
        PROVE  session'[r].outcome = session[r].outcome
    BY <2>1, <2>5, CancelEffect DEF RunExpired, TimerExpires
  <2>6. CASE Stop
    BY <2>1, <2>6, CancelEffect DEF Stop
  <2>7. CASE OutOfWork \/ Destroy
    BY <2>7 DEF OutOfWork, Destroy, poolVars
  <2> QED
    BY <2>2, <2>3, <2>4, <2>5, <2>6, <2>7 DEF Next
<1> QED
  BY <1>1, Invariant, PTL DEF Spec, GateSilences

\* The last caller to leave resets the io_service, and nobody runs it then.
THEOREM ResetIsAlone == Spec => ResetAlone
<1> DEFINE Alone == io' # io /\ io' = "running" => \A r \in Requests : pc[r] # "running"
<1>1. IInv /\ [Next]_vars => [Alone]_vars
  <2> SUFFICES ASSUME IInv, Next, io' # io, io' = "running", NEW s \in Requests,
                      pc[s] = "running"
               PROVE  FALSE
    OBVIOUS
  <2>1. PICK r \in Requests : CountOut(r)
    BY DEF Next, Caller, Handle, GetConnection, Connect, CountIn, RunReturns, Discard,
           Proceed, NextChunk, Finish, Fail, Callback, Reconnect, Throw, Complete,
           RunExpired, TimerExpires, OutOfWork, Stop, Destroy, callerVars
  <2>2. concurrent_synchronous_requests' = 0
    BY <2>1 DEF CountOut, Reset
  <2>3. Running' = {}
    BY <2>1, <2>2, CountOutStep, FS_EmptySet DEF IInv, Counted
  <2>4. s # r /\ pc'[s] = "running"
    BY <2>1 DEF CountOut, IInv, TypeOK
  <2> QED
    BY <2>3, <2>4 DEF Running
<1> QED
  BY <1>1, Invariant, PTL DEF Spec, ResetAlone
=============================================================================
