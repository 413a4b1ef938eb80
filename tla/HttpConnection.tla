--------------------------- MODULE HttpConnection ---------------------------
(***************************************************************************)
(* The connections of a SimpleWeb::ServerBase (server_http.hpp, and the    *)
(* TLS handshake of server_https.hpp), from accept to the deleter.         *)
(*                                                                         *)
(* A connection has one asynchronous operation at a time, or a Response    *)
(* that a resource function keeps.  Whoever starts an operation first sets *)
(* the connection's timer, and the handler of the operation first cancels  *)
(* it; a timer that has run out by then is only a queued call of close()   *)
(* that comes later.  One step is one handler.                             *)
(***************************************************************************)
EXTENDS Integers, FiniteSets

CONSTANTS
  Conns,               \* places for Connection objects
  Tls,                 \* TRUE: server_https.hpp
  internal_io_service, \* TRUE: stop() also stops the io_service
  Pool,                \* TRUE: more than one thread runs the io_service
  Calls,               \* what the owner of the server may call: "stop", "destroy"
  MaxSends             \* bound: messages a client sends on one connection

ASSUME SwitchAssumption == {Tls, internal_io_service, Pool} \subseteq BOOLEAN
ASSUME CallsAssumption == Calls \subseteq {"stop", "destroy"}
ASSUME MaxSendsAssumption == MaxSends \in Nat

VARIABLES
  conn,        \* the Connection, Session and Response of each place
  connections, \* the set that stop() goes through
  acceptor,    \* open or closed
  gate,        \* handler_runner: open or shut
  stopper,     \* where the owner is in stop(), or idle
  io           \* io_service: running or stopped

vars == <<conn, connections, acceptor, gate, stopper, io>>

Reads  == {"handshake", "header", "content", "line", "chunk"}
Errors == {"canceled", "eof", "broken", "accept", "protocol", "message_size"}

Connection == [
  state    : {"free", "live", "erased"},
  op       : Reads \cup {"none", "accept", "write"}, \* asynchronous operation
  result   : {"pending", "ok", "full"} \cup Errors,  \* what its handler will get
  armed    : 0..1,      \* steady_timers that are running
  expired  : Nat,       \* timer handlers queued with no error
  socket   : {"none", "open", "shut"},
  response : BOOLEAN,   \* the resource function's side holds the Response
  error    : Errors \cup {"none"},  \* the Session's last call of on_error
  sends    : 0..MaxSends]

Free == [state |-> "free", op |-> "none", result |-> "pending", armed |-> 0,
         expired |-> 0, socket |-> "none", response |-> FALSE, error |-> "none",
         sends |-> 0]

-----------------------------------------------------------------------------
(* What the functions of Connection, Session and Response do to one record *)

\* Mutant: the timer that is replaced goes on running.
SetTimeoutTwice(k) == [k EXCEPT !.armed = @ + 1]
SetTimeout(k) == [k EXCEPT !.armed = 1]
CancelTimeout(k) == [k EXCEPT !.armed = 0]

\* An operation on a socket that is shut down completes at once.
Start(k, op) == [k EXCEPT !.op = op,
                          !.result = IF k.socket # "shut" THEN "pending"
                                     ELSE IF op = "write" THEN "broken" ELSE "eof"]

\* The connection waits for its client, or for whoever keeps its Response.
Waits(k) == \/ k.op \in Reads \cup {"write"} /\ k.result = "pending"
            \/ k.response

\* shutdown and cancel.  When they run on another thread than the reactor, the
\* shutdown may complete the operation (early) before cancel gets to it.
Close(k, early) ==
  LET pending == k.op # "none" /\ k.result = "pending" IN
  IF k.socket # "open" THEN k
  ELSE [k EXCEPT !.socket = "shut",
                 !.result = CASE ~pending                  -> @
                              [] pending /\ ~early         -> "canceled"
                              [] pending /\ early          ->
                                   IF k.op = "write" THEN "broken" ELSE "eof"]

\* The handler returns without starting anything.
End(k) == [k EXCEPT !.op = "none", !.result = "pending"]

OnError(k, ec) == [End(k) EXCEPT !.error = ec]

\* read(): a new Session waits for a request header.  Mutant: no timeout.
ReadUntimed(k) == Start([k EXCEPT !.error = "none"], "header")
Read(k) == Start(SetTimeout([k EXCEPT !.error = "none"]), "header")

ReadMore(k, op) == Start(SetTimeout(k), op)

\* write(): the resource function is called, and throws or returns; it, or
\* somebody it gave it to, still has the Response.  Mutant: and the next header
\* is read meanwhile.
WriteAhead(k) == {[Start(SetTimeout(k), "header") EXCEPT !.response = TRUE]}
Write(k) == LET called == [SetTimeout(End(k)) EXCEPT !.response = TRUE] IN
            {called, [called EXCEPT !.error = "canceled"]}

\* Without a matching resource the connection is let go, unanswered.
FindResource(k) == Write(k) \cup {End(k)}

\* A chunk is complete: the next one, too many of them, or the last.
Chunk(k) == {ReadMore(k, "line"), OnError(k, "message_size")} \cup FindResource(k)

\* The handlers of the reading operations when they get what they asked for.
ReadDone(k) ==
  CASE k.op = "handshake" -> {Read(k)}
    [] k.op = "header"    -> {OnError(k, "protocol"), ReadMore(k, "content"),
                              ReadMore(k, "line")} \cup FindResource(k)
    [] k.op = "content"   -> FindResource(k)
    [] k.op = "line"      -> {OnError(k, "protocol"), ReadMore(k, "chunk")}
                               \cup Chunk(k)
    [] k.op = "chunk"     -> Chunk(k)

\* The callback of send_on_delete: Connection: close, HTTP/1.0 or
\* close_connection_after_response end the connection.
WriteDone(k) == {End(k), Read(k)}

\* The streambuf is full: the 413 Response has no sending deleter, it is
\* dropped, and only on_error hears of it.
Continue(k) ==
  CASE k.result = "full"                -> {OnError(k, "message_size")}
    [] k.result = "ok" /\ k.op = "write" -> WriteDone(k)
    [] k.result = "ok" /\ k.op \in Reads -> ReadDone(k)
    [] OTHER                            -> {OnError(k, k.result)}

\* continue_lock() at the head of every handler.  Mutant: not asked for.
LockAlways == TRUE
Lock == gate = "open"

\* The handler of an operation other than accept.
Complete(k) == IF Lock THEN Continue(CancelTimeout(k)) ELSE {End(CancelTimeout(k))}

\* Nothing refers to the Connection any more: no operation, timer or Response.
Unreferenced(k) == /\ k.state = "live" /\ k.op = "none" /\ ~k.response
                   /\ k.armed = 0 /\ k.expired = 0

-----------------------------------------------------------------------------
Set(c, k) == conn' = [conn EXCEPT ![c] = k]

\* create_connection and async_accept.
Accepting == [Free EXCEPT !.state = "live", !.op = "accept",
                          !.result = IF acceptor = "open" THEN "pending" ELSE "accept"]

Init == /\ acceptor = "open" /\ gate = "open" /\ stopper = "idle" /\ io = "running"
        /\ \E c \in Conns :
             /\ conn = [d \in Conns |-> IF d = c THEN Accepting ELSE Free]
             /\ connections = {c}

serverVars == <<acceptor, gate, stopper, io>>

(* The io threads *)

\* The handler of async_accept goes on accepting unless it was cancelled, which
\* takes another place, and reads from the new connection.
Accept(c) ==
  LET k == conn[c]
      open == [k EXCEPT !.socket = IF @ = "none" THEN "open" ELSE @]
      done == CASE ~Lock                     -> End(k)
                [] Lock /\ k.result # "ok"   -> OnError(k, k.result)
                [] Lock /\ k.result = "ok"   -> IF Tls THEN ReadMore(open, "handshake")
                                                       ELSE Read(open)
  IN /\ io = "running" /\ k.op = "accept" /\ k.result # "pending"
     /\ IF Lock /\ k.result # "canceled"
        THEN \E d \in Conns :
               /\ conn[d].state = "free"
               /\ conn' = [conn EXCEPT ![c] = done, ![d] = Accepting]
               /\ connections' = connections \cup {d}
        ELSE Set(c, done) /\ UNCHANGED connections
     /\ UNCHANGED serverVars

\* The handler of a handshake, read or write.
Handle(c) ==
  /\ io = "running"
  /\ conn[c].op \in Reads \cup {"write"} /\ conn[c].result # "pending"
  /\ \E k \in Complete(conn[c]) : Set(c, k)
  /\ UNCHANGED <<connections, serverVars>>

\* A timer handler that was queued with no error, at any later moment.
RunExpired(c) ==
  /\ io = "running" /\ conn[c].expired > 0
  /\ \E early \in {FALSE, Pool} :
       Set(c, [Close(conn[c], early) EXCEPT !.expired = @ - 1])
  /\ UNCHANGED <<connections, serverVars>>

TimerExpires(c) ==
  /\ conn[c].armed > 0
  /\ Set(c, [conn[c] EXCEPT !.armed = @ - 1, !.expired = @ + 1])
  /\ UNCHANGED <<connections, serverVars>>

(* Any thread *)

\* The last reference to the Response goes: its deleter calls send_on_delete.
\* With the server and its io_service gone there is nothing to call it on.
ReleaseResponse(c) ==
  /\ conn[c].response
  /\ ~(stopper = "destroyed" /\ internal_io_service)
  /\ Set(c, Start(SetTimeout([conn[c] EXCEPT !.response = FALSE]), "write"))
  /\ UNCHANGED <<connections, serverVars>>

\* Mutant: the deleter does not look for the pointer in connections.
KeepListed(c) == connections
Unlisted(c) == connections \ {c}

\* The deleter of the Connection erases the pointer, and then deletes.
EraseConnection(c) ==
  /\ Unreferenced(conn[c])
  /\ Set(c, [conn[c] EXCEPT !.state = "erased"])
  /\ connections' = Unlisted(c)
  /\ UNCHANGED serverVars

DeleteConnection(c) ==
  /\ conn[c].state = "erased"
  /\ Set(c, Free)
  /\ UNCHANGED <<connections, serverVars>>

(* The owner of the server *)

CallStop == /\ "stop" \in Calls /\ stopper = "idle" /\ acceptor = "open"
            /\ stopper' = "acceptor"
            /\ UNCHANGED <<conn, connections, acceptor, gate, io>>

\* ~ServerBase: handler_runner->stop(), then stop().
CallDestroy == /\ "destroy" \in Calls /\ stopper = "idle"
               /\ gate' = "shut"
               /\ stopper' = "acceptor"
               /\ UNCHANGED <<conn, connections, acceptor, io>>

CloseAcceptor ==
  /\ stopper = "acceptor"
  /\ acceptor' = "closed"
  /\ conn' = [c \in Conns |->
               IF conn[c].op = "accept" /\ conn[c].result = "pending"
               THEN [conn[c] EXCEPT !.result = "canceled"] ELSE conn[c]]
  /\ stopper' = "connections"
  /\ UNCHANGED <<connections, gate, io>>

CloseConnections ==
  /\ stopper = "connections"
  /\ \E early \in SUBSET connections :
       conn' = [c \in Conns |-> IF c \in connections
                                THEN Close(conn[c], c \in early) ELSE conn[c]]
  /\ connections' = {}
  /\ stopper' = "io"
  /\ UNCHANGED <<acceptor, gate, io>>

StopIoService ==
  /\ stopper = "io"
  /\ io' = IF internal_io_service THEN "stopped" ELSE io
  /\ stopper' = IF gate = "shut" THEN "destroyed" ELSE "idle"
  /\ UNCHANGED <<conn, connections, acceptor, gate>>

(* Peers and the kernel *)

\* The peer socket is given to the connection at once, or (later versions of asio)
\* when the handler is called.
ClientConnects(c) ==
  /\ conn[c].op = "accept" /\ conn[c].result = "pending"
  /\ \/ \E s \in {"open", "none"} :
          Set(c, [conn[c] EXCEPT !.result = "ok", !.socket = s])
     \/ Set(c, [conn[c] EXCEPT !.result = "accept"])
  /\ UNCHANGED <<connections, serverVars>>

ClientSends(c) ==
  /\ conn[c].op \in Reads /\ conn[c].result = "pending"
  /\ conn[c].sends < MaxSends
  /\ \E r \in {"ok"} \cup (IF conn[c].op = "handshake" THEN {} ELSE {"full"}) :
       Set(c, [conn[c] EXCEPT !.result = r, !.sends = @ + 1])
  /\ UNCHANGED <<connections, serverVars>>

ClientReads(c) ==
  /\ conn[c].op = "write" /\ conn[c].result = "pending"
  /\ Set(c, [conn[c] EXCEPT !.result = "ok"])
  /\ UNCHANGED <<connections, serverVars>>

ClientCloses(c) ==
  /\ conn[c].op \in Reads \cup {"write"} /\ conn[c].result = "pending"
  /\ Set(c, [conn[c] EXCEPT !.result = IF conn[c].op = "write" THEN "broken" ELSE "eof"])
  /\ UNCHANGED <<connections, serverVars>>

-----------------------------------------------------------------------------
Io(c) == Accept(c) \/ Handle(c) \/ RunExpired(c)
Delete(c) == EraseConnection(c) \/ DeleteConnection(c)
Client(c) == ClientConnects(c) \/ ClientSends(c) \/ ClientReads(c) \/ ClientCloses(c)
Owner == CallStop \/ CallDestroy \/ CloseAcceptor \/ CloseConnections \/ StopIoService

Next == Owner \/ \E c \in Conns : \/ Io(c) \/ TimerExpires(c) \/ ReleaseResponse(c)
                                  \/ Delete(c) \/ Client(c)

Spec == Init /\ [][Next]_vars

\* Queued handlers are run, time passes, resource functions and those they give the
\* Response to let it go, and a deleter that has begun ends.  Clients owe nothing.
Fairness ==
  /\ \A c \in Conns : /\ WF_vars(Accept(c)) /\ WF_vars(Handle(c))
                      /\ WF_vars(RunExpired(c)) /\ WF_vars(TimerExpires(c))
                      /\ WF_vars(ReleaseResponse(c)) /\ WF_vars(Delete(c))
  /\ WF_vars(CloseAcceptor \/ CloseConnections \/ StopIoService)

FairSpec == Spec /\ Fairness
-----------------------------------------------------------------------------
(* Properties *)

TypeOK == /\ conn \in [Conns -> Connection]
          /\ connections \subseteq Conns
          /\ acceptor \in {"open", "closed"} /\ gate \in {"open", "shut"}
          /\ stopper \in {"idle", "acceptor", "connections", "io", "destroyed"}
          /\ io \in {"running", "stopped"}

\* No asynchronous operation is started on a connection while another one is in
\* progress: reads and writes never overlap, so responses leave in the order of
\* their requests, however long a Response is kept and wherever it is released.
OneOperation ==
  [][\A c \in Conns : conn[c].op # "none" /\ conn[c].result = "pending" =>
                        conn'[c].op = conn[c].op]_vars

\* Nothing waits for a client, or for whoever keeps a Response, without a timer that
\* will close the connection (unless it is shut already).
TimerCovers ==
  \A c \in Conns : Waits(conn[c]) =>
    conn[c].armed = 1 \/ conn[c].expired > 0 \/ conn[c].socket = "shut"

\* stop() finds every open connection in the set, and no deleted one.
ListedExactly ==
  /\ \A c \in connections : conn[c].state = "live"
  /\ acceptor = "open" =>
       \A c \in Conns : conn[c].socket = "open" /\ conn[c].state = "live" =>
                         c \in connections

\* Once handler_runner->stop() has returned no callback of the application is
\* called: no resource function, no on_error.
GateStopsCallbacks ==
  [][\A c \in Conns : gate = "shut" =>
       /\ conn'[c].response => conn[c].response
       /\ conn'[c].error \in {conn[c].error, "none"}]_vars

\* A connection whose client falls silent, in whatever state, is dropped in the end.
EveryConnectionEnds ==
  \A c \in Conns : conn[c].op \in Reads \cup {"write"} \/ conn[c].response
                      ~> conn[c].state # "live"

\* "Stop accepting new requests, and close current connections."
\* (server_http.hpp:444): when stop() has returned no connection is open.
StopClosesConnections ==
  stopper = "idle" /\ acceptor = "closed" =>
    \A c \in Conns : conn[c].socket # "open"
=============================================================================
