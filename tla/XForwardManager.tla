--------------------------- MODULE XForwardManager ---------------------------
(***************************************************************************)
(* The forwarding of RPC requests by an edge node: xforward_manager.{h,cpp}*)
(* as it is entered from xhttp_server::start_service.                      *)
(*                                                                         *)
(* A POST request becomes a session: the session is given a 5 second timer *)
(* on the io_service, is registered under its uuid in m_response_session,  *)
(* and the request (a query) or the proposal (a transaction) is broadcast  *)
(* to the consensus nodes.  Three parties then race for the session: the   *)
(* network thread that delivers a reply, the io thread that runs an        *)
(* expired timer, and the io threads that register other sessions.  The    *)
(* first two hold m_mutex; send_request does not.                          *)
(*                                                                         *)
(* A Response is sent when its last shared_ptr goes away (the deleter in   *)
(* ServerBase::write): Released(r) is that moment, and body[r] is what the *)
(* stream buffer holds then.                                               *)
(***************************************************************************)
EXTENDS Integers, Sequences, FiniteSets

CONSTANTS
  Requests,       \* POST requests; each has one Response and at most one session
  TxRequests,     \* those whose action is at or above DO_TX_ACTION
  Uuids,          \* session keys
  Uuid,           \* the key of a request: transaction digest, or message uuid
  IoThreads,      \* threads that run io_service->run() (thread_pool_size)
  NetThreads,     \* threads on which xmessage_dispatcher calls on_message
  BROADCAST_NUM,  \* replies a query waits for; xforward_manager.h:20
  PromptSend,     \* TRUE: no timer runs out before its own send_request returns
  NoReq,          \* null session
  NoThread        \* m_mutex is free

Threads == IoThreads \cup NetThreads
Queries == Requests \ TxRequests

ASSUME RequestAssumption ==
  /\ TxRequests \subseteq Requests
  /\ NoReq \notin Requests
  /\ Uuid \in [Requests -> Uuids]
ASSUME ThreadAssumption ==
  /\ IoThreads \cap NetThreads = {}
  /\ NoThread \notin Threads
ASSUME BroadcastNumAssumption == BROADCAST_NUM \in Nat \ {0}
ASSUME PromptSendAssumption == PromptSend \in BOOLEAN

VARIABLES
  arrived,            \* requests handed to start_service
  on_error,           \* requests whose handler threw (catch in ServerBase::write)
  pc,                 \* what each thread is doing
  cur,                \* the session (request) a thread is working on
  lock,               \* holder of xforward_session_mgr::m_mutex
  m_response_session, \* uuid -> registered session, or NoReq
  leaked,             \* sessions in a map node that a racing insert unlinked
  timer,              \* m_timer: none, armed, expired (handler queued with no
                      \*   error) or cancelled (handler queued with an error)
  m_response_num,     \* replies counted by a session
  m_retry_num,        \* retries a session has left
  body,               \* what was written into each Response, in order
  broadcasts,         \* messages broadcast on behalf of a request
  net,                \* messages in flight
  heap                \* sound, corrupt (m_response_session was raced) or crashed

reqVars     == <<arrived, on_error>>
threadVars  == <<pc, cur>>
mapVars     == <<m_response_session, leaked>>
sessionVars == <<timer, m_response_num, m_retry_num>>
vars == <<arrived, on_error, pc, cur, lock, m_response_session, leaked, timer,
          m_response_num, m_retry_num, body, broadcasts, net, heap>>

-----------------------------------------------------------------------------
IoPc       == {"idle", "insert", "inserting", "broadcast", "erase"}
NetPc      == {"idle", "answer"}
SendPc     == {"insert", "inserting", "broadcast"}
TimerState == {"none", "armed", "expired", "cancelled"}
Answer     == {"error", "reply", "timeout"}
Message    == [type : {"rpc_request", "rpc_reply", "proposal", "reply_message"},
               uuid : Uuids]

Msg(type, u) == [type |-> type, uuid |-> u]

Registered(r) == m_response_session[Uuid[r]] = r

\* Mutant: the timer handler keeps a weak reference to its session.
HeldWeakly(r) == (\E t \in IoThreads : cur[t] = r) \/ Registered(r) \/ r \in leaked

\* The shared_ptrs that keep r's Response alive: the frame of send_request or
\* of the running timer handler, a timer handler that is pending or queued,
\* and the map node.
Held(r) == \/ \E t \in IoThreads : cur[t] = r
           \/ timer[r] # "none"
           \/ Registered(r)
           \/ r \in leaked

Released(r) == r \in arrived /\ ~Held(r)

\* An access to m_response_session while another thread is inside insert is a
\* data race: from then on the table may misbehave.
Touch(t) == heap' = IF \E s \in IoThreads \ {t} : pc[s] = "inserting"
                    THEN "corrupt" ELSE heap

Goto(t, label, r) == /\ pc' = [pc EXCEPT ![t] = label]
                     /\ cur' = [cur EXCEPT ![t] = r]

Write(r, a) == body' = [body EXCEPT ![r] = Append(@, a)]

\* Mutants: clear() for erase(uuid), and no erase.
EraseAll(u) == m_response_session' = [v \in Uuids |-> NoReq]
EraseNothing(u) == UNCHANGED m_response_session
Erase(u) == m_response_session' = [m_response_session EXCEPT ![u] = NoReq]

Retries(r) == IF r \in TxRequests THEN 1 ELSE 0

\* m_retry_num-- > 0 && m_tx != NULL.  Mutant: >=.
RetryLeftTooLong(r) == m_retry_num[r] >= 0 /\ r \in TxRequests
RetryLeft(r) == m_retry_num[r] > 0 /\ r \in TxRequests

\* if(!ec) in the timer handler.  Mutant: no test.
FiresAlways(r) == timer[r] \in {"expired", "cancelled"}
Fires(r) == timer[r] = "expired"

\* The replies a query waits for are there.  Mutant: one too many.
EnoughPlusOne(n) == n > BROADCAST_NUM
Enough(n) == n >= BROADCAST_NUM

Broadcast(r) ==
  /\ net' = net \cup {Msg(IF r \in TxRequests THEN "proposal" ELSE "rpc_request",
                          Uuid[r])}
  /\ broadcasts' = [broadcasts EXCEPT ![r] = @ + 1]

\* A delivered message may be delivered again.
Receive(m) == net' = net \/ net' = net \ {m}

Init ==
  /\ arrived = {} /\ on_error = {}
  /\ pc = [t \in Threads |-> "idle"]
  /\ cur = [t \in Threads |-> NoReq]
  /\ lock = NoThread
  /\ m_response_session = [u \in Uuids |-> NoReq]
  /\ leaked = {}
  /\ timer = [r \in Requests |-> "none"]
  /\ m_response_num = [r \in Requests |-> 0]
  /\ m_retry_num = [r \in Requests |-> 0]
  /\ body = [r \in Requests |-> <<>>]
  /\ broadcasts = [r \in Requests |-> 0]
  /\ net = {}
  /\ heap = "sound"

-----------------------------------------------------------------------------
(* start_service and send_request, on an io thread *)

\* The body does not parse, names no known action, or (a transaction) do_action
\* fails: an error is written and the handler returns.
RefuseRequest(t, r) ==
  /\ pc[t] = "idle" /\ r \notin arrived
  /\ arrived' = arrived \cup {r}
  /\ Write(r, "error")
  /\ UNCHANGED <<on_error, threadVars, lock, mapVars, sessionVars, broadcasts,
                 net, heap>>

\* A field of the wrong JSON type: the conversion throws, ServerBase::write
\* catches, calls on_error, and drops the Response with nothing in it.
ThrowInHandler(t, r) ==
  /\ pc[t] = "idle" /\ r \notin arrived
  /\ arrived' = arrived \cup {r}
  /\ on_error' = on_error \cup {r}
  /\ UNCHANGED <<threadVars, lock, mapVars, sessionVars, body, broadcasts, net,
                 heap>>

\* The session is made and its timer armed before it is registered.
MakeSession(t, r) ==
  /\ pc[t] = "idle" /\ r \notin arrived
  /\ arrived' = arrived \cup {r}
  /\ m_retry_num' = [m_retry_num EXCEPT ![r] = Retries(r)]
  /\ timer' = [timer EXCEPT ![r] = "armed"]
  /\ Goto(t, "insert", r)
  /\ UNCHANGED <<on_error, lock, mapVars, m_response_num, body, broadcasts, net,
                 heap>>

\* m_response_session.insert, entered without m_mutex.
BeginInsert(t) ==
  /\ pc[t] = "insert"
  /\ Goto(t, "inserting", cur[t])
  /\ Touch(t)
  /\ UNCHANGED <<reqVars, lock, mapVars, sessionVars, body, broadcasts, net>>

\* insert keeps the entry of a key that is already there.  In a corrupt table
\* the new node may be unlinked by the other writer: it is then never freed.
EndInsert(t) ==
  LET r == cur[t] IN
  /\ pc[t] = "inserting"
  /\ Goto(t, "broadcast", r)
  /\ \/ /\ m_response_session[Uuid[r]] = NoReq
        /\ m_response_session' = [m_response_session EXCEPT ![Uuid[r]] = r]
        /\ UNCHANGED leaked
     \/ /\ m_response_session[Uuid[r]] # NoReq
        /\ UNCHANGED mapVars
     \/ /\ heap = "corrupt"
        /\ leaked' = leaked \cup {r}
        /\ UNCHANGED m_response_session
  /\ UNCHANGED <<reqVars, lock, sessionVars, body, broadcasts, net, heap>>

\* The message goes out and start_service returns.
SendMessage(t) ==
  /\ pc[t] = "broadcast"
  /\ Broadcast(cur[t])
  /\ Goto(t, "idle", NoReq)
  /\ UNCHANGED <<reqVars, lock, mapVars, sessionVars, body, heap>>

\* A query whose "account" is not a string: asString throws after the session
\* was registered, so nothing is broadcast.
ThrowBeforeSend(t) ==
  /\ pc[t] = "broadcast" /\ cur[t] \in Queries
  /\ on_error' = on_error \cup {cur[t]}
  /\ Goto(t, "idle", NoReq)
  /\ UNCHANGED <<arrived, lock, mapVars, sessionVars, body, broadcasts, net,
                 heap>>

-----------------------------------------------------------------------------
(* xforward_session::set_timeout and its handler *)

\* The five seconds are over: the handler is queued with no error, and cancel
\* can no longer stop it.
TimerExpires(r) ==
  /\ timer[r] = "armed"
  /\ PromptSend => ~\E t \in IoThreads : cur[t] = r /\ pc[t] \in SendPc
  /\ timer' = [timer EXCEPT ![r] = "expired"]
  /\ UNCHANGED <<reqVars, threadVars, lock, mapVars, m_response_num, m_retry_num,
                 body, broadcasts, net, heap>>

\* if(!ec) is false: the handler does nothing and is destroyed.
TimerAborted(t, r) ==
  /\ pc[t] = "idle" /\ timer[r] = "cancelled"
  /\ timer' = [timer EXCEPT ![r] = "none"]
  /\ UNCHANGED <<reqVars, threadVars, lock, mapVars, m_response_num, m_retry_num,
                 body, broadcasts, net, heap>>

\* A transaction with a retry left is proposed again and its timer re-armed.
\* m_mutex is taken and released within the step.
RetryProposal(t, r) ==
  /\ pc[t] = "idle" /\ lock = NoThread /\ Fires(r) /\ RetryLeft(r)
  /\ m_retry_num' = [m_retry_num EXCEPT ![r] = @ - 1]
  /\ Broadcast(r)
  /\ timer' = [timer EXCEPT ![r] = "armed"]
  /\ UNCHANGED <<reqVars, threadVars, lock, mapVars, m_response_num, body, heap>>

\* Otherwise TIMEOUT_RESPONSE is written, m_mutex held ...
WriteTimeout(t, r) ==
  /\ pc[t] = "idle" /\ lock = NoThread /\ Fires(r) /\ ~RetryLeft(r)
  /\ m_retry_num' = [m_retry_num EXCEPT ![r] = @ - 1]
  /\ Write(r, "timeout")
  /\ timer' = [timer EXCEPT ![r] = "none"]
  /\ lock' = t
  /\ Goto(t, "erase", r)
  /\ UNCHANGED <<reqVars, mapVars, m_response_num, broadcasts, net, heap>>

\* ... and the entry under the session's uuid is erased, whosever it is.
EraseTimedOut(t) ==
  /\ pc[t] = "erase"
  /\ Erase(Uuid[cur[t]])
  /\ Touch(t)
  /\ lock' = NoThread
  /\ Goto(t, "idle", NoReq)
  /\ UNCHANGED <<reqVars, leaked, sessionVars, body, broadcasts, net>>

-----------------------------------------------------------------------------
(* on_message, on a network thread *)

\* Mutant: the reply does not take m_mutex.
FoundUnlocked(t, u) == /\ pc[t] = "idle"
                       /\ m_response_session[u] # NoReq
                       /\ Touch(t)

\* find(uuid) comes back with a session, m_mutex held.
Found(t, u) == /\ pc[t] = "idle" /\ lock = NoThread
               /\ m_response_session[u] # NoReq
               /\ Touch(t)

\* reply_query_msg: the reply is stored in slot m_response_num++ of
\* m_reply_result; the last one awaited answers the session.
ReplyQueryMsg(t, m) ==
  LET r == m_response_session[m.uuid] IN
  /\ m \in net /\ m.type = "rpc_reply"
  /\ Found(t, m.uuid)
  /\ Receive(m)
  /\ m_response_num' = [m_response_num EXCEPT ![r] = @ + 1]
  /\ IF Enough(m_response_num[r] + 1)
     THEN lock' = t /\ Goto(t, "answer", r)
     ELSE UNCHANGED <<lock, threadVars>>
  /\ UNCHANGED <<reqVars, mapVars, timer, m_retry_num, body, broadcasts>>

\* reply_consensus_msg: one reply answers the session.
ReplyConsensusMsg(t, m) ==
  /\ m \in net /\ m.type = "reply_message"
  /\ Found(t, m.uuid)
  /\ Receive(m)
  /\ lock' = t
  /\ Goto(t, "answer", m_response_session[m.uuid])
  /\ UNCHANGED <<reqVars, mapVars, sessionVars, body, broadcasts>>

\* No session under that uuid, or a corrupt table that does not show it: the
\* reply is logged and forgotten.
ReplyUnmatched(t, m) ==
  /\ m \in net /\ m.type \in {"rpc_reply", "reply_message"}
  /\ pc[t] = "idle" /\ lock = NoThread
  /\ m_response_session[m.uuid] = NoReq \/ heap = "corrupt"
  /\ Receive(m)
  /\ Touch(t)
  /\ UNCHANGED <<reqVars, threadVars, lock, mapVars, sessionVars, body,
                 broadcasts>>

\* cancel_timeout, write, erase, and m_mutex is released.  A handler that has
\* already expired is not cancelled.
AnswerSession(t) ==
  LET r == cur[t] IN
  /\ pc[t] = "answer"
  /\ timer' = [timer EXCEPT ![r] = IF @ = "armed" THEN "cancelled" ELSE @]
  /\ Write(r, "reply")
  /\ Erase(Uuid[r])
  /\ Touch(t)
  /\ lock' = NoThread
  /\ Goto(t, "idle", NoReq)
  /\ UNCHANGED <<reqVars, leaked, m_response_num, m_retry_num, broadcasts, net>>

-----------------------------------------------------------------------------
(* The rest of the network, and the end of a corrupted process *)

\* A consensus node runs the request through deal_msg and sends one reply that
\* carries the uuid of the request, whatever deal_msg returned.
ServeRpcRequest(m) ==
  /\ m \in net /\ m.type = "rpc_request"
  /\ net' = net \cup {Msg("rpc_reply", m.uuid)}
  /\ UNCHANGED <<reqVars, threadVars, lock, mapVars, sessionVars, body,
                 broadcasts, heap>>

\* Consensus on a proposal ends with a reply_message for its digest.
ReachConsensus(m) ==
  /\ m \in net /\ m.type = "proposal"
  /\ net' = net \cup {Msg("reply_message", m.uuid)}
  /\ UNCHANGED <<reqVars, threadVars, lock, mapVars, sessionVars, body,
                 broadcasts, heap>>

LoseMessage(m) ==
  /\ m \in net
  /\ net' = net \ {m}
  /\ UNCHANGED <<reqVars, threadVars, lock, mapVars, sessionVars, body,
                 broadcasts, heap>>

Crash ==
  /\ heap = "corrupt"
  /\ heap' = "crashed"
  /\ UNCHANGED <<reqVars, threadVars, lock, mapVars, sessionVars, body,
                 broadcasts, net>>

-----------------------------------------------------------------------------
Arrive(t, r) == RefuseRequest(t, r) \/ ThrowInHandler(t, r) \/ MakeSession(t, r)

ContinueSend(t) == \/ BeginInsert(t) \/ EndInsert(t)
                   \/ SendMessage(t) \/ ThrowBeforeSend(t)

RunTimer(t, r) == TimerAborted(t, r) \/ RetryProposal(t, r) \/ WriteTimeout(t, r)

OnReply(t, m) == \/ ReplyQueryMsg(t, m) \/ ReplyConsensusMsg(t, m)
                 \/ ReplyUnmatched(t, m)

IoStep == \E t \in IoThreads :
            \/ ContinueSend(t) \/ EraseTimedOut(t)
            \/ \E r \in Requests : Arrive(t, r) \/ RunTimer(t, r)
NetStep == \E t \in NetThreads :
             \/ AnswerSession(t)
             \/ \E m \in net : OnReply(t, m)
Environment == \/ \E r \in Requests : TimerExpires(r)
               \/ \E m \in net : ServeRpcRequest(m) \/ ReachConsensus(m)
                                 \/ LoseMessage(m)
               \/ Crash

Next == heap # "crashed" /\ (IoStep \/ NetStep \/ Environment)

Spec == Init /\ [][Next]_vars

\* Time passes, a thread finishes what it is running, and an idle io thread
\* takes queued timer handlers.  Clients, peers and the network owe nothing.
Fairness ==
  /\ \A r \in Requests : WF_vars(heap # "crashed" /\ TimerExpires(r))
  /\ \A t \in IoThreads :
       WF_vars(heap # "crashed" /\ (ContinueSend(t) \/ EraseTimedOut(t)))
  /\ \A r \in Requests :
       SF_vars(heap # "crashed" /\ \E t \in IoThreads : RunTimer(t, r))
  /\ \A t \in NetThreads : WF_vars(heap # "crashed" /\ AnswerSession(t))

FairSpec == Spec /\ Fairness
-----------------------------------------------------------------------------
(* Properties *)

TypeOK ==
  /\ arrived \subseteq Requests /\ on_error \subseteq Requests
  /\ pc \in [Threads -> IoPc \cup NetPc]
  /\ \A t \in IoThreads : pc[t] \in IoPc
  /\ \A t \in NetThreads : pc[t] \in NetPc
  /\ cur \in [Threads -> Requests \cup {NoReq}]
  /\ lock \in Threads \cup {NoThread}
  /\ m_response_session \in [Uuids -> Requests \cup {NoReq}]
  /\ leaked \subseteq Requests
  /\ timer \in [Requests -> TimerState]
  /\ m_response_num \in [Requests -> 0..BROADCAST_NUM]
  /\ m_retry_num \in [Requests -> -1..1]
  /\ body \in [Requests -> Seq(Answer)]
  /\ broadcasts \in [Requests -> Nat]
  /\ net \subseteq Message
  /\ heap \in {"sound", "corrupt", "crashed"}

\* The next reply for a registered session is stored inside m_reply_result,
\* an array of BROADCAST_NUM strings (xforward_manager.cpp:63), however
\* replies are duplicated and however they race the timer.
ReplySlotInBounds ==
  lock = NoThread =>
    \A u \in Uuids : m_response_session[u] # NoReq =>
                        m_response_num[m_response_session[u]] < BROADCAST_NUM

\* A reply is written only into a Response nobody has written to, and the one
\* way a Response is written twice is a timer that had run out when the reply
\* came: the client then gets the reply with the timeout text after it.
AnswersPossible ==
  \A r \in Requests :
    body[r] \in {<<>>, <<"error">>, <<"reply">>, <<"timeout">>,
                <<"reply", "timeout">>}

\* A registered session has a timer that will still end it, so no entry of
\* m_response_session outlives its request; it is not answered yet.
RegisteredIsPending ==
  lock = NoThread =>
    \A r \in Requests : Registered(r) =>
      body[r] = <<>> /\ timer[r] \in {"armed", "expired"}

\* A Response goes out with an answer in it, unless the handler threw.
NoSilentDrop ==
  \A r \in Requests : Released(r) /\ r \notin on_error => body[r] # <<>>

\* A transaction is reported as timed out only after it was proposed twice, and
\* no request is broadcast more often than its one retry allows.
TimeoutOnlyAfterRetry ==
  \A r \in Requests :
    /\ broadcasts[r] <= IF r \in TxRequests THEN 2 ELSE 1
    /\ r \in TxRequests /\ (\E i \in 1..Len(body[r]) : body[r][i] = "timeout")
         => broadcasts[r] = 2

\* Once a reply has cancelled a session's timer the session is over: nothing more
\* is written into its Response, its timer is not set again and no retry is spent.
CancelIsFinal ==
  [][\A r \in Requests :
       timer[r] = "cancelled" =>
         /\ timer'[r] \in {"cancelled", "none"}
         /\ body'[r] = body[r]
         /\ m_retry_num'[r] = m_retry_num[r]]_vars

\* A session whose uuid is its own leaves m_response_session only when its Response
\* has been written: neither the reply nor the timeout of another takes it out.
OnlyAnsweredLeave ==
  [][\A r \in Requests :
       /\ \A s \in Requests \ {r} : Uuid[s] # Uuid[r]
       /\ Registered(r) /\ m_response_session'[Uuid[r]] # r
       => body'[r] # <<>>]_vars

\* Every request that reaches start_service has its Response released (and so
\* sent) in the end, with no help from peers or network, unless the table was
\* corrupted by a racing insert.
EveryRequestReleased ==
  \A r \in Requests : r \in arrived ~> (Released(r) \/ heap # "sound")
==============================================================================
