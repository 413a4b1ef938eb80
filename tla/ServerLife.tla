----------------------------- MODULE ServerLife -----------------------------
(***************************************************************************)
(* The life of a server: start (bind, accept_and_run), stop and the        *)
(* destructor of ServerBase (server_http.hpp:386-465), the chain of        *)
(* accepts (757-780), and xhttp_server, which runs start on a thread of    *)
(* its own (xhttp_server.cpp:11-42, 94-97; the https front end does the    *)
(* same without the forward handler).                                      *)
(*                                                                         *)
(* The io_service is the server's own: the server thread and the threads   *)
(* of the pool run its handlers.  xhttp_server calls start once and never  *)
(* stop; another owner may stop the server at any time, and start it       *)
(* again once start has returned.                                          *)
(***************************************************************************)
EXTENDS Naturals, FiniteSets, Functions

CONSTANTS
  Pool,        \* the other threads of the pool: thread_pool_size - 1 of them
  MaxStarts,   \* bound: calls of start
  MaxStops,    \* bound: calls of stop
  MaxClients   \* bound: connections

Main == "main"
Threads == Pool \cup {Main}

ASSUME LifeAssumption == Main \notin Pool /\ IsFiniteSet(Pool)

VARIABLES
  owner,     \* how far xhttp_server is in its constructor, start and destructor
  forward,   \* m_forward_msg_handler is set
  at,        \* where each thread is; in a handler, which one
  acceptor,  \* "none", "open", "listening", "closed"
  accepts,   \* async_accept operations that wait for a client
  reading,   \* connections that wait for a request
  ready,     \* handlers in the io_service, by what they were given
  stopped,   \* io_service::stopped
  asked,     \* stop() was called and start() has not yet returned for it
  crashed,   \* std::terminate, or a null pointer was used
  starts, stops, clients

service == <<accepts, reading, ready>>
bounds  == <<starts, stops, clients>>
vars == <<owner, forward, at, acceptor, service, stopped, asked, crashed, bounds>>

Handlers == {"accepted", "error", "aborted", "request"}
Goto(t, place) == at' = [at EXCEPT ![t] = place]
Post(handler) == ready' = [ready EXCEPT ![handler] = @ + 1]

Init == /\ owner = "new" /\ forward = FALSE
        /\ at = [t \in Threads |-> "off"] /\ acceptor = "none"
        /\ accepts = 0 /\ reading = 0 /\ ready = [h \in Handlers |-> 0]
        /\ stopped = FALSE /\ asked = FALSE /\ crashed = FALSE
        /\ starts = 0 /\ stops = 0 /\ clients = 0

-----------------------------------------------------------------------------
(* start, on the server thread *)

CallStart == at[Main] = "off" /\ starts < MaxStarts /\ starts' = starts + 1 /\ Goto(Main, "bind")

Bind == /\ at[Main] = "bind"
        /\ acceptor' = "open" /\ Goto(Main, "listen") /\ asked' = FALSE
        /\ UNCHANGED <<owner, forward, service, stopped, crashed, bounds>>

\* listen throws when stop has closed the acceptor, and nobody catches it.
Listen == /\ at[Main] = "listen"
          /\ IF acceptor = "open"
             THEN acceptor' = "listening" /\ Goto(Main, "accept") /\ UNCHANGED crashed
             ELSE crashed' = TRUE /\ UNCHANGED <<acceptor, at>>
          /\ UNCHANGED <<owner, forward, service, stopped, asked, bounds>>

\* On an acceptor that is closed async_accept fails.
Accept == IF acceptor = "listening"
          THEN accepts' = accepts + 1 /\ UNCHANGED ready
          ELSE Post("error") /\ UNCHANGED accepts

FirstAccept == /\ at[Main] = "accept"
               /\ Accept /\ Goto(Main, "reset")
               /\ UNCHANGED <<owner, forward, acceptor, reading, stopped, asked, crashed, bounds>>

\* A stop that came before is forgotten.
Reset == /\ at[Main] = "reset"
         /\ stopped' = FALSE
         /\ at' = [t \in Threads |-> "run"]
         /\ UNCHANGED <<owner, forward, acceptor, service, asked, crashed, bounds>>

\* The pool is joined.  Mutant: it is not.
NotJoined == TRUE
Joined == \A t \in Pool : at[t] = "ended"

Join == /\ at[Main] = "join" /\ Joined
        /\ at' = [t \in Threads |-> IF at[t] \in {"ended", "join"} THEN "off" ELSE at[t]]
        /\ UNCHANGED <<owner, forward, acceptor, service, stopped, asked, crashed, bounds>>

-----------------------------------------------------------------------------
(* io_service::run *)

Idle == /\ accepts = 0 /\ reading = 0 /\ \A h \in Handlers : ready[h] = 0
        /\ \A t \in Threads : at[t] \notin Handlers

\* run returns when the io_service is stopped or nothing is left to wait for.
RunReturns(t) ==
  /\ at[t] = "run" /\ (stopped \/ Idle)
  /\ Goto(t, IF t = Main THEN "join" ELSE "ended") /\ stopped' = TRUE
  /\ UNCHANGED <<owner, forward, acceptor, service, asked, crashed, bounds>>

RunHandler(t, h) ==
  /\ at[t] = "run" /\ ~stopped /\ ready[h] > 0
  /\ ready' = [ready EXCEPT ![h] = @ - 1]
  /\ Goto(t, h)
  /\ UNCHANGED <<owner, forward, acceptor, accepts, reading, stopped, asked, crashed, bounds>>

\* What the handler of an accept accepts again after.  Mutant: only after a success.
OnlyAfterSuccess(ec) == ec = "accepted"
Again(ec) == ec # "aborted"

HandleAccept(t) ==
  /\ at[t] \in {"accepted", "error", "aborted"}
  /\ IF Again(at[t]) THEN Accept ELSE UNCHANGED <<accepts, ready>>
  /\ reading' = reading + IF at[t] = "accepted" THEN 1 ELSE 0
  /\ Goto(t, "run")
  /\ UNCHANGED <<owner, forward, acceptor, stopped, asked, crashed, bounds>>

\* start_service: a node that forwards uses m_forward_msg_handler.  The connection is
\* read again or dropped.
HandleRequest(t) ==
  /\ at[t] = "request"
  /\ \/ ~forward /\ crashed' = TRUE /\ UNCHANGED <<at, reading>>
     \/ /\ Goto(t, "run") /\ reading' \in {reading, reading + 1}
        /\ UNCHANGED crashed
  /\ UNCHANGED <<owner, forward, acceptor, accepts, ready, stopped, asked, bounds>>

-----------------------------------------------------------------------------
(* Clients *)

Connect == /\ accepts > 0 /\ clients < MaxClients
           /\ accepts' = accepts - 1 /\ clients' = clients + 1 /\ Post("accepted")
           /\ UNCHANGED <<owner, forward, at, acceptor, reading, stopped, asked, crashed,
                          starts, stops>>

\* Too many open files, or a client that is gone already.
AcceptFails == /\ accepts > 0
               /\ accepts' = accepts - 1 /\ Post("error")
               /\ UNCHANGED <<owner, forward, at, acceptor, reading, stopped, asked, crashed,
                              bounds>>

Request == /\ reading > 0
           /\ reading' = reading - 1 /\ Post("request")
           /\ UNCHANGED <<owner, forward, at, acceptor, accepts, stopped, asked, crashed, bounds>>

\* The client closes, or the timer does: the connection is dropped.
Hangup == /\ reading > 0
          /\ reading' = reading - 1
          /\ UNCHANGED <<owner, forward, at, acceptor, accepts, ready, stopped, asked, crashed,
                         bounds>>

-----------------------------------------------------------------------------
(* stop *)

\* What close aborts is still to be handled.
Abort == /\ ready' = [ready EXCEPT !["aborted"] = @ + accepts + reading]
         /\ accepts' = 0 /\ reading' = 0

\* Mutant: the threads are left to run out of work.
OnlyClose == UNCHANGED stopped
StopService == stopped' = TRUE

PastReset == at[Main] \in {"run", "join"} \cup Handlers

Stop == /\ stops < MaxStops /\ stops' = stops + 1
        /\ IF acceptor = "none" THEN UNCHANGED <<acceptor, service, stopped, asked>>
           ELSE /\ acceptor' = "closed" /\ Abort /\ StopService
                /\ asked' = (asked \/ PastReset)
        /\ UNCHANGED <<owner, forward, at, crashed, starts, clients>>

-----------------------------------------------------------------------------
(* xhttp_server *)

StartThread == /\ owner = "new" /\ owner' = "thread"
               /\ CallStart
               /\ UNCHANGED <<forward, acceptor, service, stopped, asked, crashed, stops, clients>>

\* Behind the start of the thread.
SetForwardHandler ==
  /\ owner = "thread" /\ owner' = "started"
  /\ forward' = TRUE
  /\ UNCHANGED <<at, acceptor, service, stopped, asked, crashed, bounds>>

Restart == /\ owner = "started" /\ CallStart
           /\ UNCHANGED <<owner, forward, acceptor, service, stopped, asked, crashed, stops, clients>>

Destroy == /\ owner = "started" /\ owner' = "join"
           /\ UNCHANGED <<forward, at, acceptor, service, stopped, asked, crashed, bounds>>

\* m_server_thread.join() has returned: the members go, and with m_server its io_service.
Free == /\ owner = "join" /\ at[Main] = "off"
        /\ owner' = "freed" /\ forward' = FALSE /\ acceptor' = "none"
        /\ accepts' = 0 /\ reading' = 0 /\ ready' = [h \in Handlers |-> 0]
        /\ UNCHANGED <<at, stopped, asked, crashed, bounds>>

-----------------------------------------------------------------------------
ServerThread == Bind \/ Listen \/ FirstAccept \/ Reset \/ Join

RunIo(t) == \/ RunReturns(t) \/ HandleAccept(t) \/ HandleRequest(t)
            \/ \E h \in Handlers : RunHandler(t, h)

Owner == SetForwardHandler \/ Free

Next == /\ ~crashed
        /\ \/ ServerThread
           \/ \E t \in Threads : RunIo(t)
           \/ StartThread \/ Owner \/ Restart \/ Destroy \/ Stop
           \/ Connect \/ AcceptFails \/ Request \/ Hangup

Spec == Init /\ [][Next]_vars

\* Every thread goes on.  Nobody need connect, ask, restart, stop or destroy.
Fairness == /\ WF_vars(~crashed /\ ServerThread)
            /\ \A t \in Threads : WF_vars(~crashed /\ RunIo(t))
            /\ WF_vars(~crashed /\ Owner)

FairSpec == Spec /\ Fairness
-----------------------------------------------------------------------------
(* Properties *)

\* A server that listens never goes deaf: an accept is in progress, or its handler is on
\* its way to the next one, whatever accept fails and however often the server was stopped
\* and started.  Each start adds at most one chain of accepts.
AcceptChains ==
  LET chains == accepts + ready["accepted"] + ready["error"]
                  + Cardinality({t \in Threads : at[t] \in {"accepted", "error"}}) IN
  /\ acceptor = "listening" /\ at[Main] \notin {"off", "accept"} => chains > 0
  /\ chains <= starts

\* When xhttp_server's members are freed no thread of the pool is left that could use them;
\* and they are freed only if somebody has stopped the server, which ~xhttp_server does not.
NobodyUsesFreed == owner = "freed" => /\ stops > 0
                                      /\ \A t \in Threads : at[t] = "off"

\* A stop() that finds the threads at run makes start() return, and a destructor that waits
\* for it, whatever handlers they are in; they are not reset under it.
StopEnds == asked /\ PastReset ~> at[Main] = "off" \/ crashed
=============================================================================
