----------------------------- MODULE ClientPool -----------------------------
(***************************************************************************)
(* SimpleWeb::ClientBase (client_http.hpp) with the connect() of           *)
(* Client<HTTP> and Client<HTTPS>: the requests of one client, the         *)
(* connections it keeps for them, the one reconnect after a failed read,   *)
(* the timer of a connection, stop(), the destructor, and callers of the   *)
(* synchronous request() that run the io_service themselves.               *)
(*                                                                         *)
(* One step is one handler, or the part of a caller's function between     *)
(* two points where another thread can come in.                            *)
(***************************************************************************)
EXTENDS Integers, FiniteSetsExt

CONSTANTS
  Requests,   \* calls of request()
  Conns,      \* places for Connection objects
  NoConn,     \* no Connection
  Configs,    \* how a client may be set up: route, sync, timeout, timeout_connect
  MaxChunks,  \* bound: chunks of a response after its first
  MaxLate     \* bound: timer handlers that wait in the queue

Config == [route : {"http", "https", "proxied"}, \* Client<HTTP>, or <HTTPS>, by a proxy
           sync : BOOLEAN,                       \* the request() that runs the io_service
           timeout : BOOLEAN,                    \* Config::timeout is not 0
           timeout_connect : BOOLEAN]

ASSUME ConfigAssumption == Configs \subseteq Config
ASSUME NoConnAssumption == NoConn \notin Conns
ASSUME BoundAssumption == MaxChunks \in Nat /\ MaxLate \in Nat

VARIABLES
  config,      \* set before the first request
  pc,          \* where the caller of each request is
  session,     \* the Session of each request
  conn,        \* the Connection in each place
  connections, \* the pool
  gate,        \* handler_runner: open or shut
  io,          \* io_service: running or stopped
  concurrent_synchronous_requests,
  undefined    \* a callback wrote into the frame of a caller that had returned

vars == <<config, pc, session, conn, connections, gate, io,
          concurrent_synchronous_requests, undefined>>

ConnectOps == {"resolve", "connect", "tunnel", "tunnelled", "handshake"}
ReadOps    == {"header", "body", "line", "chunk"}
Ops        == ConnectOps \cup {"write"} \cup ReadOps

Session == [
  op      : Ops \cup {"none", "start"},  \* what the session waits for
  result  : {"pending", "ok", "canceled", "error"}, \* for its handler
  conn    : Conns \cup {NoConn},
  sends   : Nat,                         \* writes of the request begun
  chunks  : 0..MaxChunks,
  outcome : {"none", "ok", "error",      \* what the callback was called with
             "thrown", "dropped"}]       \* or why it never is

Connection == [in_use : BOOLEAN, attempt_reconnect : BOOLEAN, is_open : BOOLEAN,
               armed : 0..1,      \* steady_timers that are running
               expired : Nat]     \* timer handlers queued with no error

NewConnection == [in_use |-> TRUE, attempt_reconnect |-> TRUE, is_open |-> FALSE,
                  armed |-> 0, expired |-> 0]

\* Mutant: a connection that replaces another may be replaced as well.
Reconnection == NewConnection
Replacement == [NewConnection EXCEPT !.attempt_reconnect = FALSE]

Active(r) == session[r].op # "none"

Unreferenced(c) == /\ c \notin connections
                   /\ conn[c].armed = 0 /\ conn[c].expired = 0
                   /\ \A r \in Requests : Active(r) => session[r].conn # c

\* Where a Connection can be made: nothing has a pointer to the last one.
Places == {c \in Conns : Unreferenced(c)}

\* A Connection that is in no pool and of no session: only its timer has it.
Retired(k) == [NewConnection EXCEPT !.armed = k.armed, !.expired = k.expired]

-----------------------------------------------------------------------------
Init ==
  /\ config \in Configs
  /\ pc = [r \in Requests |-> "idle"]
  /\ session = [r \in Requests |-> [op |-> "none", result |-> "pending", conn |-> NoConn,
                                    sends |-> 0, chunks |-> 0, outcome |-> "none"]]
  /\ conn = [c \in Conns |-> NewConnection]
  /\ connections = {}
  /\ gate = "open" /\ io = "running"
  /\ concurrent_synchronous_requests = 0
  /\ undefined = FALSE

callerVars == <<pc, concurrent_synchronous_requests, io>>
poolVars   == <<session, conn, connections>>

\* timeout_connect is for what connect() does, and timeout for all else and in its place.
Configured(op) == config.timeout \/ (config.timeout_connect /\ op \in ConnectOps)

\* set_timeout before an operation: Client<HTTPS> does not call it before it resolves.
\* Mutant: reading the header of the response is not timed.
TimedUnlessHeader(op) == /\ Configured(op) /\ op # "header"
                         /\ op = "resolve" => config.route = "http"
Timed(op) == Configured(op) /\ (op = "resolve" => config.route = "http")

\* A timer of an earlier operation is destroyed, and so cancelled.
SetTimeout(k, op) == [k EXCEPT !.armed = IF Timed(op) THEN 1 ELSE 0]

\* The session of r starts op on the connection c, whose record becomes k.
Start(r, c, k, op) ==
  /\ session' = [session EXCEPT ![r] =
                   [op |-> op, result |-> "pending", conn |-> c,
                    sends |-> IF op = "write" THEN @.sends + 1 ELSE @.sends,
                    chunks |-> @.chunks, outcome |-> @.outcome]]
  /\ conn' = [conn EXCEPT ![c] = SetTimeout(k, op)]

(* Callers *)

\* Mutant: the connection is not marked.
LeaveUnused(k) == [k EXCEPT !.attempt_reconnect = TRUE]
Use(k) == [k EXCEPT !.attempt_reconnect = TRUE, !.in_use = TRUE]

\* get_connection: an unused connection of the pool, or else a new one.
GetConnection(r) ==
  LET unused == {c \in connections : ~conn[c].in_use} IN
  /\ pc[r] = "idle" /\ gate = "open"
  /\ \/ \E c \in unused :
          /\ conn' = [conn EXCEPT ![c] = Use(@)]
          /\ session' = [session EXCEPT ![r].op = "start", ![r].conn = c]
          /\ UNCHANGED connections
     \/ /\ unused = {}
        /\ \E c \in Places :
             /\ conn' = [conn EXCEPT ![c] = Use(NewConnection)]
             /\ session' = [session EXCEPT ![r].op = "start", ![r].conn = c]
             /\ connections' = connections \cup {c}
  /\ pc' = [pc EXCEPT ![r] = "calling"]
  /\ UNCHANGED <<config, gate, io, concurrent_synchronous_requests, undefined>>

\* connect(session), at the end of request().
Connect(r) ==
  LET c == session[r].conn IN
  /\ pc[r] = "calling"
  /\ Start(r, c, conn[c], IF conn[c].is_open THEN "write" ELSE "resolve")
  /\ pc' = [pc EXCEPT ![r] = IF config.sync THEN "asked" ELSE "returned"]
  /\ UNCHANGED <<config, connections, gate, io, concurrent_synchronous_requests,
                 undefined>>

\* Mutant: the caller does not count itself in.
RunUncounted(r) ==
  /\ pc[r] = "asked"
  /\ pc' = [pc EXCEPT ![r] = "running"]
  /\ UNCHANGED <<config, poolVars, gate, io, concurrent_synchronous_requests,
                 undefined>>
CountIn(r) ==
  /\ pc[r] = "asked"
  /\ pc' = [pc EXCEPT ![r] = "running"]
  /\ concurrent_synchronous_requests' = concurrent_synchronous_requests + 1
  /\ UNCHANGED <<config, poolVars, gate, io, undefined>>

\* io_service::run() returns.
RunReturns(r) ==
  /\ pc[r] = "running" /\ io = "stopped"
  /\ pc' = [pc EXCEPT ![r] = "ran"]
  /\ UNCHANGED <<config, poolVars, gate, io, concurrent_synchronous_requests,
                 undefined>>

\* Mutant: whoever returns resets the io_service.
ResetAlways(n) == "running"
Reset(n) == IF n = 0 THEN "running" ELSE io

CountOut(r) ==
  /\ pc[r] = "ran"
  /\ concurrent_synchronous_requests' = concurrent_synchronous_requests - 1
  /\ io' = Reset(concurrent_synchronous_requests - 1)
  /\ pc' = [pc EXCEPT ![r] = "returned"]
  /\ UNCHANGED <<config, poolVars, gate, undefined>>

(* Handlers *)

\* Somebody runs the io_service: its owner's threads, or a caller.
Runs == \/ ~config.sync
        \/ io = "running" /\ \E r \in Requests : pc[r] = "running"

\* With nothing left to wait for, run() stops the io_service.
OutOfWork ==
  /\ config.sync /\ Runs
  /\ \A r \in Requests : session[r].op \in {"none", "start"}
  /\ \A c \in Conns : conn[c].armed = 0 /\ conn[c].expired = 0
  /\ io' = "stopped"
  /\ UNCHANGED <<config, pc, poolVars, gate, concurrent_synchronous_requests, undefined>>

\* The head of every handler: continue_lock().  Mutant: not asked for.
LockAlways == TRUE
Lock == gate = "open"

Completed(r) == Runs /\ session[r].op \in Ops /\ session[r].result # "pending"

\* cancel_timeout, and a response that has begun may be waited for again.
Quiet(r) ==
  LET s == session[r]
      k == conn[s.conn]
  IN [in_use |-> k.in_use,
      attempt_reconnect |-> k.attempt_reconnect \/ (s.op = "header" /\ s.result = "ok"),
      is_open |-> k.is_open \/ (s.op = "connect" /\ s.result = "ok"),
      armed |-> 0, expired |-> k.expired]

Over(s, outcome) == [op |-> "none", result |-> "pending", conn |-> NoConn,
                     sends |-> s.sends, chunks |-> 0, outcome |-> outcome]

\* The session is over and its callback is not called.
Leave(r, outcome) ==
  /\ session' = [session EXCEPT ![r] = Over(@, outcome)]
  /\ conn' = [conn EXCEPT ![session[r].conn] =
                 IF session[r].conn \in connections THEN Quiet(r) ELSE Retired(Quiet(r))]

Discard(r) ==
  /\ Completed(r) /\ ~Lock
  /\ Leave(r, "dropped")
  /\ UNCHANGED <<config, callerVars, connections, gate, undefined>>

\* Of the unused connections one is kept, whichever comes first.  Mutant: all.
KeepAll(unused) == {unused}
Keep(unused) == IF unused = {} THEN {{}} ELSE {{c} : c \in unused}

\* session->callback: the pool, then the caller's function.
Callback(r, outcome) ==
  LET c      == session[r].conn
      pool   == IF outcome = "error" THEN connections \ {c} ELSE connections
      unused == {d \in pool : d = c \/ ~conn[d].in_use}
  IN /\ \E kept \in Keep(unused) : connections' = (pool \ unused) \cup kept
     /\ session' = [session EXCEPT ![r] = Over(@, outcome)]
     /\ LET quiet == [conn EXCEPT ![c] = [Quiet(r) EXCEPT !.in_use = FALSE]] IN
        conn' = [d \in Conns |-> IF d \in (connections \cup {c}) \ connections'
                                 THEN Retired(quiet[d]) ELSE quiet[d]]
     /\ undefined' = (config.sync /\ pc[r] \in {"returned", "thrown"})
     /\ UNCHANGED <<config, callerVars, gate>>

\* What may follow an operation that succeeded.
AfterConnect == [http |-> "write", https |-> "handshake", proxied |-> "tunnel"]

After == [resolve |-> {"connect"}, connect   |-> {AfterConnect[config.route]},
          tunnel  |-> {"tunnelled"}, tunnelled |-> {"handshake"},
          handshake |-> {"write"}, write |-> {"header"}, header |-> {"body", "line"},
          body |-> {}, line |-> {"chunk"}, chunk |-> {}]

\* The next operation of the session.
Proceed(r) ==
  LET s == session[r] IN
  /\ Completed(r) /\ Lock /\ s.result = "ok"
  /\ \E op \in After[s.op] : Start(r, s.conn, Quiet(r), op)
  /\ UNCHANGED <<config, callerVars, connections, gate, undefined>>

\* A chunk is there, with its line or after it, and is not the last.
NextChunk(r) ==
  LET s == session[r]
      k == SetTimeout(Quiet(r), "line")
  IN /\ Completed(r) /\ Lock /\ s.result = "ok" /\ s.op \in {"line", "chunk"}
     /\ s.chunks < MaxChunks
     /\ session' = [session EXCEPT ![r].op = "line", ![r].result = "pending",
                                   ![r].chunks = @ + 1]
     /\ conn' = [conn EXCEPT ![s.conn] = k]
     /\ UNCHANGED <<config, callerVars, connections, gate, undefined>>

\* The response is complete: a body that has no length ends with the connection.
Finish(r) ==
  LET s == session[r] IN
  /\ Completed(r) /\ Lock
  /\ \/ s.result = "ok" /\ s.op \in ReadOps
     \/ s.result = "error" /\ s.op = "body"
  /\ Callback(r, "ok")

\* A read of the header that failed, after which the request can be sent again.
Retries(r) == /\ session[r].op = "header" /\ session[r].result = "error"
              /\ conn[session[r].conn].attempt_reconnect
              /\ session[r].conn \in connections

\* What came cannot be read or fills the streambuf, or an operation failed.
Fail(r) ==
  LET s == session[r] IN
  /\ Completed(r) /\ Lock
  /\ \/ s.result = "ok" /\ s.op \in ReadOps \cup {"tunnelled"}
     \/ s.result \in {"canceled", "error"} /\ ~Retries(r)
  /\ Callback(r, "error")

\* The server has closed the connection: the request goes out again on a new one.
Reconnect(r) ==
  LET c == session[r].conn IN
  /\ Completed(r) /\ Lock /\ Retries(r)
  /\ \E d \in Places :
       /\ connections' = (connections \ {c}) \cup {d}
       /\ session' = [session EXCEPT ![r].op = "resolve", ![r].result = "pending",
                                     ![r].conn = d]
       /\ conn' = [conn EXCEPT ![c] = Retired(Quiet(r)),
                               ![d] = SetTimeout(Replacement, "resolve")]
  /\ UNCHANGED <<config, callerVars, gate, undefined>>

\* stoull of a Content-Length that is no number, or new char[length], throws out of
\* the handler and of run(): of the owner, or of a caller t, who does not count out.
Throw(r) ==
  /\ Completed(r) /\ Lock
  /\ session[r].result = "ok" /\ session[r].op \in {"header", "line", "chunk"}
  /\ Leave(r, "thrown")
  /\ IF config.sync
     THEN \E t \in Requests : /\ pc[t] = "running"
                              /\ pc' = [pc EXCEPT ![t] = "thrown"]
     ELSE UNCHANGED pc
  /\ UNCHANGED <<config, connections, gate, io, concurrent_synchronous_requests,
                 undefined>>

\* socket.cancel(): a name that is being resolved is not cancelled, and a connect
\* goes on with the next address (next).
Cancel(cs) ==
  \E next \in SUBSET {r \in Requests : session[r].op = "connect"} :
    session' = [r \in Requests |->
                 IF /\ session[r].op \in Ops \ {"resolve"}
                    /\ session[r].result = "pending"
                    /\ session[r].conn \in cs /\ r \notin next
                 THEN [session[r] EXCEPT !.result = "canceled"] ELSE session[r]]

\* A timer handler that was queued with no error, at any later moment.
RunExpired(c) ==
  /\ Runs /\ conn[c].expired > 0
  /\ conn' = [conn EXCEPT ![c].expired = @ - 1]
  /\ Cancel({c})
  /\ UNCHANGED <<config, callerVars, connections, gate, undefined>>

TimerExpires(c) ==
  /\ conn[c].armed > 0
  /\ MapThenSumSet(LAMBDA d : conn[d].expired, Conns) < MaxLate
  /\ conn' = [conn EXCEPT ![c].armed = @ - 1, ![c].expired = @ + 1]
  /\ UNCHANGED <<config, callerVars, session, connections, gate, undefined>>

(* The owner of the client *)

Stop ==
  /\ connections # {}
  /\ Cancel(connections)
  /\ connections' = {}
  /\ conn' = [c \in Conns |-> IF c \in connections /\ ~conn[c].in_use
                               THEN Retired(conn[c]) ELSE conn[c]]
  /\ UNCHANGED <<config, callerVars, gate, undefined>>

\* ~ClientBase: handler_runner->stop(), and then stop().  Nobody is in request().
Destroy ==
  /\ gate = "open"
  /\ \A r \in Requests : pc[r] \in {"idle", "returned", "thrown"}
  /\ gate' = "shut"
  /\ UNCHANGED <<config, callerVars, poolVars, undefined>>

(* The resolver, the kernel and the server *)

Complete(r) ==
  LET s == session[r] IN
  /\ s.op \in Ops /\ s.result = "pending"
  /\ \E result \in {"ok", "error"} : session' = [session EXCEPT ![r].result = result]
  /\ UNCHANGED <<config, callerVars, conn, connections, gate, undefined>>

-----------------------------------------------------------------------------
Caller(r) == GetConnection(r) \/ Connect(r) \/ CountIn(r) \/ RunReturns(r) \/ CountOut(r)

Handle(r) == \/ Discard(r) \/ Proceed(r) \/ NextChunk(r) \/ Finish(r)
             \/ Fail(r) \/ Reconnect(r) \/ Throw(r)

\* What follows a write into a frame that is gone is anything: the run ends there.
Next == /\ ~undefined
        /\ \/ \E r \in Requests : Caller(r) \/ Handle(r) \/ Complete(r)
           \/ \E c \in Conns : RunExpired(c) \/ TimerExpires(c)
           \/ OutOfWork \/ Stop \/ Destroy

Spec == Init /\ [][Next]_vars
-----------------------------------------------------------------------------
(* Properties *)

TypeOK ==
  /\ config \in Configs
  /\ pc \in [Requests -> {"idle", "calling", "asked", "running", "ran", "returned",
                          "thrown"}]
  /\ session \in [Requests -> Session]
  /\ conn \in [Conns -> Connection]
  /\ connections \subseteq Conns
  /\ gate \in {"open", "shut"} /\ io \in {"running", "stopped"}
  /\ concurrent_synchronous_requests \in Nat
  /\ undefined \in BOOLEAN

\* No two requests in progress have one connection, and the pool never takes a
\* connection that a request has for an unused one: responses cannot be mixed up,
\* whatever reconnects, stops and callbacks come in between.
NoSharing ==
  \A r \in Requests : Active(r) =>
    /\ \A s \in Requests \ {r} : Active(s) => session[s].conn # session[r].conn
    /\ conn[session[r].conn].in_use

\* "Remove unused connections, but keep one open for HTTP persistent connection"
\* (client_http.hpp:232): the pool never has two, whatever callbacks come together.
OneUnused ==
  \A c, d \in connections : ~conn[c].in_use /\ ~conn[d].in_use => c = d

\* A request is written once, and once more when the server closed the connection
\* instead of answering; never again after that.
SentAtMostTwice == \A r \in Requests : session[r].sends <= 2

\* Once handler_runner->stop() has returned no callback is called.
GateSilences ==
  [][gate = "shut" => \A r \in Requests :
       session'[r].outcome \in {session[r].outcome, "dropped"}]_vars

\* The io_service is reset only when no caller is in run().
ResetAlone ==
  [][io' # io /\ io' = "running" => \A r \in Requests : pc[r] # "running"]_vars

\* An operation for which a timeout is set waits, and no timer will look at it again.
Untimed(r) ==
  LET s == session[r] IN
  /\ s.op \in Ops /\ s.result = "pending" /\ Configured(s.op)
  /\ conn[s.conn].armed = 0 /\ conn[s.conn].expired = 0

\* An operation has the timer set for it from its start until it ends, whatever reconnects,
\* stops, late handlers and reuses of its connection come in between: writing, reading, the
\* tunnel and the handshake never wait without one.  Two operations may.  The name is resolved
\* for https with no timer from the start, and for http with one that does not cancel it; a
\* connect has one, which cancels only the address that is being tried: when its handler
\* has run, the resolver or the next address is waited for with none.
TimerCovers ==
  [][\A r \in Requests : Untimed(r)' =>
       \/ Untimed(r) /\ session'[r] = session[r]
       \/ session'[r].op = "resolve" /\ config.route # "http"
       \/ session'[r].op \in {"resolve", "connect"}
            /\ conn'[session'[r].conn].expired < conn[session'[r].conn].expired]_vars

\* "Convenience function to perform synchronous request. The io_service is run within
\* this function." (client_http.hpp:160): request() returns with the response, or
\* throws the error its callback got.
SyncAnswered ==
  \A r \in Requests : config.sync /\ pc[r] = "returned" =>
                        session[r].outcome \in {"ok", "error"}
=============================================================================
