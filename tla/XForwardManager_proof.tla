----------------------- MODULE XForwardManager_proof -----------------------
(***************************************************************************)
(* Proofs about XForwardManager, and that XForwardGateway refines          *)
(* RpcGateway.                                                             *)
(***************************************************************************)
EXTENDS XForwardGateway, SequenceTheorems, TLAPS

(***************************************************************************)
(* What holds for any number of requests and threads, any assignment of    *)
(* uuids and any delays: the invariant says nothing of how long an io      *)
(* thread takes between two steps.                                         *)
(***************************************************************************)

\* m_mutex is held exactly by the thread inside a critical section.
Locking == \A t \in Threads : pc[t] \in {"erase", "answer"} <=> lock = t

\* A thread works on a request that has arrived, or is idle.
Frames ==
  \A t \in Threads : /\ pc[t] = "idle" <=> cur[t] = NoReq
                     /\ cur[t] \in arrived \cup {NoReq}

\* send_request runs once for a request.
OneSender ==
  \A s, t \in IoThreads :
    pc[s] \in SendPc /\ pc[t] \in SendPc /\ cur[s] = cur[t] => s = t

ThreadInv == Locking /\ Frames /\ OneSender

\* A session that is about to be registered has seen neither reply nor cancel.
BeforeInsert ==
  \A t \in IoThreads : pc[t] \in {"insert", "inserting"} =>
    ~Registered(cur[t]) /\ m_response_num[cur[t]] = 0 /\ timer[cur[t]] # "cancelled"

\* A session is registered under its own uuid.
Keyed ==
  \A u \in Uuids : m_response_session[u] # NoReq =>
    /\ Uuid[m_response_session[u]] = u
    /\ m_response_session[u] \in arrived

Untouched ==
  \A r \in Requests \ arrived :
    timer[r] = "none" /\ m_response_num[r] = 0 /\ ~Registered(r)

\* Slots of m_reply_result are left, or the session is being answered.
Slots ==
  \A r \in Requests : Registered(r) =>
    \/ m_response_num[r] < BROADCAST_NUM
    \/ \E t \in NetThreads : pc[t] = "answer" /\ cur[t] = r

\* m_mutex keeps the session found by a reply in the table until it is answered.
Answering == \A t \in NetThreads : pc[t] = "answer" => Registered(cur[t])

TableInv == BeforeInsert /\ Keyed /\ Untouched /\ Slots /\ Answering

NotCancelled == \A r \in Requests : Registered(r) => timer[r] # "cancelled"

\* The handler of a live timer finds a retry counter that is not yet negative.
RetriesLeft ==
  \A r \in Requests : timer[r] \in {"armed", "expired"} => m_retry_num[r] >= 0

\* A request with no answer has a timer that will produce one.
Pending ==
  \A r \in arrived \ on_error : body[r] = <<>> => timer[r] \in {"armed", "expired"}

SessionInv == NotCancelled /\ RetriesLeft /\ Pending

\* The inductive invariant.
IInv == TypeOK /\ ThreadInv /\ TableInv /\ SessionInv

-----------------------------------------------------------------------------
(* What the steps below have in common *)

LEMMA CurIsRequest ==
  ASSUME IInv, NEW t \in Threads, pc[t] # "idle"
  PROVE  cur[t] \in Requests /\ cur[t] \in arrived
BY DEF IInv, TypeOK, ThreadInv, Frames

\* What an answer does to the Responses.
LEMMA WriteFills ==
  ASSUME TypeOK, NEW r \in Requests, NEW a \in Answer, Write(r, a)
  PROVE  /\ body' \in [Requests -> Seq(Answer)]
         /\ body'[r] = Append(body[r], a) /\ body'[r] # <<>>
         /\ \A s \in Requests \ {r} : body'[s] = body[s]
<1>1. body \in [Requests -> Seq(Answer)]
  BY DEF TypeOK
<1>2. body[r] \in Seq(Answer)
  BY <1>1
<1>3. Append(body[r], a) \in Seq(Answer) /\ Append(body[r], a) # <<>>
  BY <1>2
<1> QED
  BY <1>1, <1>3 DEF Write

LEMMA BroadcastType ==
  ASSUME TypeOK, NEW r \in Requests, Broadcast(r)
  PROVE  net' \subseteq Message /\ broadcasts' \in [Requests -> Nat]
<1>1. Uuid[r] \in Uuids
  BY RequestAssumption
<1>2. Msg(IF r \in TxRequests THEN "proposal" ELSE "rpc_request", Uuid[r]) \in Message
  BY <1>1 DEF Msg, Message
<1> QED
  BY <1>2 DEF Broadcast, TypeOK

\* A reply finds a session that is registered under the uuid it carries.
LEMMA FoundSession ==
  ASSUME IInv, NEW t \in Threads, NEW m \in net, Found(t, m.uuid)
  PROVE  /\ m.uuid \in Uuids
         /\ m_response_session[m.uuid] \in arrived \cap Requests
         /\ Registered(m_response_session[m.uuid])
         /\ Uuid[m_response_session[m.uuid]] = m.uuid
<1>1. m.uuid \in Uuids
  BY DEF IInv, TypeOK, Message
<1> QED
  BY <1>1 DEF IInv, TypeOK, TableInv, Keyed, Registered, Found

-----------------------------------------------------------------------------
(* Every action preserves the invariant *)

LEMMA RefuseRequestStep ==
  ASSUME IInv, NEW t \in IoThreads, NEW r \in Requests, RefuseRequest(t, r)
  PROVE  IInv'
<1> USE RequestAssumption, ThreadAssumption
     DEF RefuseRequest, Write,
         reqVars, threadVars, mapVars, sessionVars
<1>0. "error" \in Answer
  BY DEF Answer
<1>1. TypeOK'
  BY <1>0, WriteFills DEF IInv, TypeOK
<1>2. ThreadInv'
  BY CurIsRequest
     DEF IInv, TypeOK, ThreadInv, Locking, Frames, OneSender, Threads, SendPc
<1>3. TableInv'
  BY DEF IInv, TableInv, BeforeInsert, Keyed, Untouched, Slots, Answering,
         Registered
<1>4. SessionInv'
  <2>1. NotCancelled' /\ RetriesLeft'
    BY DEF IInv, SessionInv, NotCancelled, RetriesLeft, Registered
  <2>2. body'[r] # <<>> /\ \A s \in Requests \ {r} : body'[s] = body[s]
    BY <1>0, WriteFills DEF IInv
  <2>3. Pending'
    BY <2>2 DEF IInv, TypeOK, SessionInv, Pending
  <2> QED
    BY <2>1, <2>3 DEF SessionInv
<1> QED
  BY <1>1, <1>2, <1>3, <1>4 DEF IInv

LEMMA ThrowInHandlerStep ==
  ASSUME IInv, NEW t \in IoThreads, NEW r \in Requests, ThrowInHandler(t, r)
  PROVE  IInv'
<1> USE RequestAssumption, ThreadAssumption
     DEF ThrowInHandler,
         reqVars, threadVars, mapVars, sessionVars
<1>1. TypeOK'
  BY DEF IInv, TypeOK
<1>2. ThreadInv'
  BY CurIsRequest
     DEF IInv, TypeOK, ThreadInv, Locking, Frames, OneSender, Threads, SendPc
<1>3. TableInv'
  BY CurIsRequest
     DEF IInv, TypeOK, ThreadInv, Locking, Frames, OneSender, TableInv,
         BeforeInsert, Keyed, Untouched, Slots, Answering, Registered,
         Threads, SendPc
<1>4. SessionInv'
  BY DEF IInv, SessionInv, NotCancelled, RetriesLeft, Pending, Registered
<1> QED
  BY <1>1, <1>2, <1>3, <1>4 DEF IInv

LEMMA MakeSessionStep ==
  ASSUME IInv, NEW t \in IoThreads, NEW r \in Requests, MakeSession(t, r)
  PROVE  IInv'
<1> USE RequestAssumption, ThreadAssumption
     DEF MakeSession, Goto, Retries,
         reqVars, threadVars, mapVars, sessionVars
<1>1. TypeOK'
  BY DEF IInv, TypeOK, TimerState, IoPc, Threads
<1>2. ThreadInv'
  BY CurIsRequest
     DEF IInv, TypeOK, ThreadInv, Locking, Frames, OneSender, Threads, SendPc
<1>3. TableInv'
  BY CurIsRequest
     DEF IInv, TypeOK, ThreadInv, Locking, Frames, OneSender, TableInv,
         BeforeInsert, Keyed, Untouched, Slots, Answering, Registered,
         Threads, SendPc
<1>4. SessionInv'
  BY CurIsRequest
     DEF IInv, TypeOK, ThreadInv, Frames, TableInv, BeforeInsert, Untouched,
         Answering, SessionInv, NotCancelled, RetriesLeft, Pending,
         Registered, Threads
<1> QED
  BY <1>1, <1>2, <1>3, <1>4 DEF IInv

LEMMA BeginInsertStep ==
  ASSUME IInv, NEW t \in IoThreads, BeginInsert(t)
  PROVE  IInv'
<1> USE RequestAssumption, ThreadAssumption
     DEF BeginInsert, Goto, Touch,
         reqVars, threadVars, mapVars, sessionVars
<1>1. TypeOK'
  BY CurIsRequest DEF IInv, TypeOK, IoPc, NetPc, Threads
<1>2. ThreadInv'
  <2>1. Locking' /\ Frames'
    BY CurIsRequest DEF IInv, TypeOK, ThreadInv, Locking, Frames, Threads
  <2>2. OneSender'
    BY CurIsRequest DEF IInv, TypeOK, ThreadInv, OneSender, SendPc, Threads
  <2> QED
    BY <2>1, <2>2 DEF ThreadInv
<1>3. TableInv'
  BY CurIsRequest
     DEF IInv, TypeOK, ThreadInv, Locking, Frames, OneSender, TableInv,
         BeforeInsert, Keyed, Untouched, Slots, Answering, Registered,
         Threads, SendPc
<1>4. SessionInv'
  BY DEF IInv, SessionInv, NotCancelled, RetriesLeft, Pending, Registered
<1> QED
  BY <1>1, <1>2, <1>3, <1>4 DEF IInv

LEMMA EndInsertStep ==
  ASSUME IInv, NEW t \in IoThreads, EndInsert(t)
  PROVE  IInv'
<1> USE RequestAssumption, ThreadAssumption
     DEF EndInsert, Goto,
         reqVars, threadVars, mapVars, sessionVars
<1>0. /\ cur[t] \in Requests /\ cur[t] \in arrived
      /\ Uuid[cur[t]] \in Uuids
      /\ ~Registered(cur[t]) /\ m_response_num[cur[t]] = 0
  BY CurIsRequest DEF IInv, TableInv, BeforeInsert, Threads
<1>a. \/ UNCHANGED m_response_session
      \/ /\ m_response_session[Uuid[cur[t]]] = NoReq
         /\ m_response_session' = [m_response_session EXCEPT ![Uuid[cur[t]]] = cur[t]]
  OBVIOUS
<1>1. TypeOK'
  BY CurIsRequest DEF IInv, TypeOK, IoPc, NetPc, Threads
<1>2. ThreadInv'
  BY CurIsRequest
     DEF IInv, TypeOK, ThreadInv, Locking, Frames, OneSender, Threads, SendPc
<1>3. TableInv'
  <2> USE <1>0 DEF IInv, TypeOK, TableInv, Registered, Threads
  <2>1. BeforeInsert'
    BY CurIsRequest DEF BeforeInsert, ThreadInv, OneSender, SendPc
  <2>2. Keyed'
    BY <1>a DEF Keyed
  <2>3. \A r \in Requests : Registered(r)' => Registered(r) \/ r = cur[t]
    BY <1>a
  <2>4. Untouched'
    BY <2>3 DEF Untouched
  <2>5. \A s \in NetThreads : pc'[s] = pc[s] /\ cur'[s] = cur[s]
    OBVIOUS
  <2>6. Slots'
    <3>1. m_response_num'[cur[t]] < BROADCAST_NUM
      BY BroadcastNumAssumption
    <3>2. \A r \in Requests : Registered(r) =>
             \/ m_response_num'[r] < BROADCAST_NUM
             \/ \E s \in NetThreads : pc'[s] = "answer" /\ cur'[s] = r
      BY <2>5 DEF Slots
    <3> QED
      BY <2>3, <3>1, <3>2 DEF Slots
  <2>7. Answering'
    BY CurIsRequest DEF Answering, Keyed
  <2> QED
    BY <2>1, <2>2, <2>4, <2>6, <2>7
<1>4. SessionInv'
  BY CurIsRequest
     DEF IInv, TypeOK, ThreadInv, Frames, TableInv, BeforeInsert, Untouched,
         Answering, SessionInv, NotCancelled, RetriesLeft, Pending,
         Registered, Threads
<1> QED
  BY <1>1, <1>2, <1>3, <1>4 DEF IInv

LEMMA SendMessageStep ==
  ASSUME IInv, NEW t \in IoThreads, SendMessage(t)
  PROVE  IInv'
<1> USE RequestAssumption, ThreadAssumption
     DEF SendMessage, Goto, Broadcast, Msg,
         reqVars, threadVars, mapVars, sessionVars
<1>1. TypeOK'
  BY CurIsRequest, BroadcastType DEF IInv, TypeOK, IoPc, NetPc, Threads
<1>2. ThreadInv'
  BY CurIsRequest
     DEF IInv, TypeOK, ThreadInv, Locking, Frames, OneSender, Threads, SendPc
<1>3. TableInv'
  BY CurIsRequest
     DEF IInv, TypeOK, ThreadInv, Locking, Frames, OneSender, TableInv,
         BeforeInsert, Keyed, Untouched, Slots, Answering, Registered,
         Threads, SendPc
<1>4. SessionInv'
  BY DEF IInv, SessionInv, NotCancelled, RetriesLeft, Pending, Registered
<1> QED
  BY <1>1, <1>2, <1>3, <1>4 DEF IInv

LEMMA ThrowBeforeSendStep ==
  ASSUME IInv, NEW t \in IoThreads, ThrowBeforeSend(t)
  PROVE  IInv'
<1> USE RequestAssumption, ThreadAssumption
     DEF ThrowBeforeSend, Goto, Queries,
         reqVars, threadVars, mapVars, sessionVars
<1>1. TypeOK'
  BY CurIsRequest DEF IInv, TypeOK, IoPc, NetPc, Threads
<1>2. ThreadInv'
  BY CurIsRequest
     DEF IInv, TypeOK, ThreadInv, Locking, Frames, OneSender, Threads, SendPc
<1>3. TableInv'
  BY CurIsRequest
     DEF IInv, TypeOK, ThreadInv, Locking, Frames, OneSender, TableInv,
         BeforeInsert, Keyed, Untouched, Slots, Answering, Registered,
         Threads, SendPc
<1>4. SessionInv'
  BY DEF IInv, SessionInv, NotCancelled, RetriesLeft, Pending, Registered
<1> QED
  BY <1>1, <1>2, <1>3, <1>4 DEF IInv

LEMMA TimerExpiresStep ==
  ASSUME IInv, NEW r \in Requests, TimerExpires(r)
  PROVE  IInv'
<1> USE RequestAssumption, ThreadAssumption
     DEF TimerExpires,
         reqVars, threadVars, mapVars, sessionVars
<1>1. TypeOK'
  BY DEF IInv, TypeOK, TimerState
<1>2. ThreadInv'
  BY DEF IInv, ThreadInv, Locking, Frames, OneSender
<1>3. TableInv'
  BY CurIsRequest
     DEF IInv, TypeOK, ThreadInv, Locking, Frames, OneSender, TableInv,
         BeforeInsert, Keyed, Untouched, Slots, Answering, Registered,
         Threads, SendPc
<1>4. SessionInv'
  BY CurIsRequest
     DEF IInv, TypeOK, ThreadInv, Frames, TableInv, BeforeInsert, Untouched,
         Answering, SessionInv, NotCancelled, RetriesLeft, Pending,
         Registered, Threads
<1> QED
  BY <1>1, <1>2, <1>3, <1>4 DEF IInv

LEMMA TimerAbortedStep ==
  ASSUME IInv, NEW t \in IoThreads, NEW r \in Requests, TimerAborted(t, r)
  PROVE  IInv'
<1> USE RequestAssumption, ThreadAssumption
     DEF TimerAborted,
         reqVars, threadVars, mapVars, sessionVars
<1>1. TypeOK'
  BY DEF IInv, TypeOK, TimerState
<1>2. ThreadInv'
  BY DEF IInv, ThreadInv, Locking, Frames, OneSender
<1>3. TableInv'
  BY CurIsRequest
     DEF IInv, TypeOK, ThreadInv, Locking, Frames, OneSender, TableInv,
         BeforeInsert, Keyed, Untouched, Slots, Answering, Registered,
         Threads, SendPc
<1>4. SessionInv'
  BY CurIsRequest
     DEF IInv, TypeOK, ThreadInv, Frames, TableInv, BeforeInsert, Untouched,
         Answering, SessionInv, NotCancelled, RetriesLeft, Pending,
         Registered, Threads
<1> QED
  BY <1>1, <1>2, <1>3, <1>4 DEF IInv

LEMMA RetryProposalStep ==
  ASSUME IInv, NEW t \in IoThreads, NEW r \in Requests, RetryProposal(t, r)
  PROVE  IInv'
<1> USE RequestAssumption, ThreadAssumption
     DEF RetryProposal, Broadcast, Msg, Fires, RetryLeft,
         reqVars, threadVars, mapVars, sessionVars
<1>1. TypeOK'
  <2>1. m_retry_num' \in [Requests -> -1..1]
    BY DEF IInv, TypeOK
  <2> QED
    BY <2>1, BroadcastType DEF IInv, TypeOK, TimerState
<1>2. ThreadInv'
  BY DEF IInv, ThreadInv, Locking, Frames, OneSender
<1>3. TableInv'
  BY DEF IInv, TypeOK, TableInv, BeforeInsert, Keyed, Untouched, Slots,
         Answering, Registered
<1>4. SessionInv'
  <2>1. RetriesLeft'
    <3>1. m_retry_num[r] \in Int /\ m_retry_num'[r] = m_retry_num[r] - 1
      BY DEF IInv, TypeOK
    <3>2. \A s \in Requests \ {r} : UNCHANGED <<timer[s], m_retry_num[s]>>
      BY DEF IInv, TypeOK
    <3> QED
      BY <3>1, <3>2 DEF IInv, SessionInv, RetriesLeft
  <2> QED
    BY <2>1 DEF IInv, TypeOK, SessionInv, NotCancelled, Pending, Registered
<1> QED
  BY <1>1, <1>2, <1>3, <1>4 DEF IInv

LEMMA WriteTimeoutStep ==
  ASSUME IInv, NEW t \in IoThreads, NEW r \in Requests, WriteTimeout(t, r)
  PROVE  IInv'
<1> USE RequestAssumption, ThreadAssumption
     DEF WriteTimeout, Write, Goto, Fires, RetryLeft,
         reqVars, threadVars, mapVars, sessionVars
<1>0. "timeout" \in Answer /\ t \in Threads /\ r \in arrived
  BY DEF Answer, Threads, IInv, TableInv, Untouched
<1>1. TypeOK'
  BY CurIsRequest
     DEF IInv, TypeOK, SessionInv, RetriesLeft, IoPc, NetPc, Threads,
         TimerState, Answer, Message
<1>2. ThreadInv'
  <2>1. Locking' /\ Frames'
    BY <1>0 DEF IInv, TypeOK, ThreadInv, Locking, Frames
  <2>2. OneSender'
    BY <1>0 DEF IInv, TypeOK, ThreadInv, OneSender, SendPc, Threads
  <2> QED
    BY <2>1, <2>2 DEF ThreadInv
<1>3. TableInv'
  BY CurIsRequest
     DEF IInv, TypeOK, ThreadInv, Locking, Frames, OneSender, TableInv,
         BeforeInsert, Keyed, Untouched, Slots, Answering, Registered,
         Threads, SendPc
<1>4. SessionInv'
  BY <1>0, WriteFills
     DEF IInv, TypeOK, SessionInv, NotCancelled, RetriesLeft, Pending, Registered
<1> QED
  BY <1>1, <1>2, <1>3, <1>4 DEF IInv

LEMMA EraseTimedOutStep ==
  ASSUME IInv, NEW t \in IoThreads, EraseTimedOut(t)
  PROVE  IInv'
<1> USE RequestAssumption, ThreadAssumption
     DEF EraseTimedOut, Touch, Goto, Erase,
         reqVars, threadVars, mapVars, sessionVars
<1>1. TypeOK'
  BY CurIsRequest DEF IInv, TypeOK, IoPc, NetPc, Threads
<1>2. ThreadInv'
  BY CurIsRequest
     DEF IInv, TypeOK, ThreadInv, Locking, Frames, OneSender, Threads, SendPc
<1>3. TableInv'
  BY CurIsRequest
     DEF IInv, TypeOK, ThreadInv, Locking, Frames, OneSender, TableInv,
         BeforeInsert, Keyed, Untouched, Slots, Answering, Registered,
         Threads, SendPc
<1>4. SessionInv'
  BY CurIsRequest
     DEF IInv, TypeOK, ThreadInv, Frames, TableInv, BeforeInsert, Untouched,
         Answering, SessionInv, NotCancelled, RetriesLeft, Pending,
         Registered, Threads
<1> QED
  BY <1>1, <1>2, <1>3, <1>4 DEF IInv

LEMMA ReplyQueryMsgStep ==
  ASSUME IInv, NEW t \in NetThreads, NEW m \in net, ReplyQueryMsg(t, m)
  PROVE  IInv'
<1> USE RequestAssumption, ThreadAssumption
     DEF ReplyQueryMsg, Found, Receive, Touch, Goto, Enough,
         reqVars, threadVars, mapVars, sessionVars
<1> DEFINE r == m_response_session[m.uuid]
<1>0. /\ t \in Threads /\ t \notin IoThreads
      /\ r \in arrived /\ r \in Requests /\ Registered(r)
  BY FoundSession DEF Threads
<1>a. m_response_num[r] < BROADCAST_NUM
  BY <1>0 DEF IInv, TypeOK, TableInv, Slots, ThreadInv, Locking, Threads
<1>b. m_response_num' = [m_response_num EXCEPT ![r] = @ + 1]
  OBVIOUS
<1>c. \/ /\ m_response_num[r] + 1 >= BROADCAST_NUM
         /\ lock' = t
         /\ pc' = [pc EXCEPT ![t] = "answer"]
         /\ cur' = [cur EXCEPT ![t] = r]
      \/ /\ m_response_num[r] + 1 < BROADCAST_NUM
         /\ UNCHANGED <<lock, pc, cur>>
  BY <1>0, BroadcastNumAssumption DEF IInv, TypeOK
<1> HIDE DEF r
<1>1. TypeOK'
  <2>1. m_response_num[r] \in 0..BROADCAST_NUM
    BY <1>0 DEF IInv, TypeOK
  <2>2. m_response_num[r] + 1 \in 0..BROADCAST_NUM
    BY <2>1, <1>a, BroadcastNumAssumption
  <2>3. m_response_num' \in [Requests -> 0..BROADCAST_NUM]
    BY <1>b, <2>2 DEF IInv, TypeOK
  <2>4. /\ pc' \in [Threads -> IoPc \cup NetPc]
        /\ \A s \in IoThreads : pc'[s] \in IoPc
        /\ \A s \in NetThreads : pc'[s] \in NetPc
        /\ cur' \in [Threads -> Requests \cup {NoReq}]
        /\ lock' \in Threads \cup {NoThread}
    <3>1. CASE UNCHANGED <<lock, pc, cur>>
      BY <3>1 DEF IInv, TypeOK
    <3>2. CASE lock' = t /\ pc' = [pc EXCEPT ![t] = "answer"]
                        /\ cur' = [cur EXCEPT ![t] = r]
      BY <1>0, <3>2 DEF IInv, TypeOK, NetPc
    <3> QED
      BY <1>c, <3>1, <3>2
  <2> QED
    BY <2>3, <2>4 DEF IInv, TypeOK
<1>2. ThreadInv'
  <2>1. CASE UNCHANGED <<lock, pc, cur>>
    BY <2>1 DEF IInv, ThreadInv, Locking, Frames, OneSender
  <2>2. CASE lock' = t /\ pc' = [pc EXCEPT ![t] = "answer"]
                      /\ cur' = [cur EXCEPT ![t] = r]
    BY <1>0, <2>2 DEF IInv, TypeOK, ThreadInv, Locking, Frames, OneSender, Threads
  <2> QED
    BY <1>c, <2>1, <2>2
<1>3. TableInv'
  <2> USE <1>0, <1>a, <1>b, <1>c DEF IInv, TypeOK, TableInv, Registered, Threads
  <2>1. BeforeInsert'
    BY DEF BeforeInsert
  <2>2. Keyed' /\ Untouched'
    BY DEF Keyed, Untouched
  <2>3. Slots'
    <3>1. m_response_num'[r] < BROADCAST_NUM \/ (pc'[t] = "answer" /\ cur'[t] = r)
      OBVIOUS
    <3>2. \A s \in Requests \ {r} : m_response_num'[s] = m_response_num[s]
      OBVIOUS
    <3>3. \A s \in Threads : pc[s] # "answer"
      BY DEF ThreadInv, Locking
    <3> QED
      BY <3>1, <3>2, <3>3 DEF Slots
  <2>4. Answering'
    BY DEF Answering
  <2> QED
    BY <2>1, <2>2, <2>3, <2>4
<1>4. SessionInv'
  BY DEF IInv, SessionInv, NotCancelled, RetriesLeft, Pending, Registered
<1> QED
  BY <1>1, <1>2, <1>3, <1>4 DEF IInv

LEMMA ReplyConsensusMsgStep ==
  ASSUME IInv, NEW t \in NetThreads, NEW m \in net, ReplyConsensusMsg(t, m)
  PROVE  IInv'
<1> USE RequestAssumption, ThreadAssumption
     DEF ReplyConsensusMsg, Found, Receive, Touch, Goto,
         reqVars, threadVars, mapVars, sessionVars
<1> DEFINE r == m_response_session[m.uuid]
<1>0. /\ t \in Threads /\ t \notin IoThreads
      /\ r \in arrived /\ r \in Requests /\ Registered(r)
  BY FoundSession DEF Threads
<1>a. cur' = [cur EXCEPT ![t] = r]
  OBVIOUS
<1> HIDE DEF r
<1>1. TypeOK'
  BY CurIsRequest
     DEF IInv, TypeOK, SessionInv, RetriesLeft, IoPc, NetPc, Threads,
         TimerState, Answer, Message
<1>2. ThreadInv'
  BY <1>0, <1>a DEF IInv, TypeOK, ThreadInv, Locking, Frames, OneSender, Threads, SendPc
<1>3. TableInv'
  BY <1>0, <1>a
     DEF IInv, TypeOK, TableInv, BeforeInsert, Keyed, Untouched, Slots, Answering,
         Registered, Threads
<1>4. SessionInv'
  BY DEF IInv, SessionInv, NotCancelled, RetriesLeft, Pending, Registered
<1> QED
  BY <1>1, <1>2, <1>3, <1>4 DEF IInv

LEMMA ReplyUnmatchedStep ==
  ASSUME IInv, NEW t \in NetThreads, NEW m \in net, ReplyUnmatched(t, m)
  PROVE  IInv'
<1> USE RequestAssumption, ThreadAssumption
     DEF ReplyUnmatched, Receive, Touch,
         reqVars, threadVars, mapVars, sessionVars
<1>1. TypeOK'
  BY DEF IInv, TypeOK
<1>2. ThreadInv'
  BY DEF IInv, ThreadInv, Locking, Frames, OneSender
<1>3. TableInv'
  BY DEF IInv, TableInv, BeforeInsert, Keyed, Untouched, Slots, Answering,
         Registered
<1>4. SessionInv'
  BY DEF IInv, SessionInv, NotCancelled, RetriesLeft, Pending, Registered
<1> QED
  BY <1>1, <1>2, <1>3, <1>4 DEF IInv

LEMMA AnswerSessionStep ==
  ASSUME IInv, NEW t \in NetThreads, AnswerSession(t)
  PROVE  IInv'
<1> USE RequestAssumption, ThreadAssumption
     DEF AnswerSession, Write, Touch, Goto, Erase,
         reqVars, threadVars, mapVars, sessionVars
<1>0. /\ cur[t] \in Requests /\ cur[t] \in arrived /\ Uuid[cur[t]] \in Uuids
      /\ Registered(cur[t]) /\ lock = t /\ t \in Threads /\ t \notin IoThreads
      /\ "reply" \in Answer
  BY CurIsRequest
     DEF IInv, TableInv, Answering, ThreadInv, Locking, Threads, Answer
<1>1. TypeOK'
  BY <1>0, WriteFills DEF IInv, TypeOK, IoPc, NetPc, TimerState
<1>2. ThreadInv'
  BY CurIsRequest
     DEF IInv, TypeOK, ThreadInv, Locking, Frames, OneSender, Threads, SendPc
<1>3. TableInv'
  <2> USE <1>0 DEF IInv, TypeOK, TableInv, Registered, Threads
  <2>1. BeforeInsert'
    <3>1. \A r \in Requests : Registered(r)' => Registered(r)
      OBVIOUS
    <3>2. \A r \in Requests : timer'[r] = "cancelled" => timer[r] = "cancelled" \/ r = cur[t]
      OBVIOUS
    <3> QED
      BY <3>1, <3>2, CurIsRequest DEF BeforeInsert
  <2>2. Keyed' /\ Untouched'
    BY DEF Keyed, Untouched
  <2>3. Slots' /\ Answering'
    BY DEF Slots, Answering, ThreadInv, Locking
  <2> QED
    BY <2>1, <2>2, <2>3
<1>4. SessionInv'
  <2>1. NotCancelled' /\ RetriesLeft'
    BY <1>0 DEF IInv, TypeOK, SessionInv, NotCancelled, RetriesLeft, Registered
  <2>2. Pending'
    BY <1>0, WriteFills DEF IInv, TypeOK, SessionInv, Pending
  <2> QED
    BY <2>1, <2>2 DEF SessionInv
<1> QED
  BY <1>1, <1>2, <1>3, <1>4 DEF IInv

LEMMA ServeRpcRequestStep ==
  ASSUME IInv, NEW m \in net, ServeRpcRequest(m)
  PROVE  IInv'
<1> USE RequestAssumption, ThreadAssumption
     DEF ServeRpcRequest, Msg,
         reqVars, threadVars, mapVars, sessionVars
<1>1. TypeOK'
  BY DEF IInv, TypeOK, Message
<1>2. ThreadInv'
  BY DEF IInv, ThreadInv, Locking, Frames, OneSender
<1>3. TableInv'
  BY DEF IInv, TableInv, BeforeInsert, Keyed, Untouched, Slots, Answering,
         Registered
<1>4. SessionInv'
  BY DEF IInv, SessionInv, NotCancelled, RetriesLeft, Pending, Registered
<1> QED
  BY <1>1, <1>2, <1>3, <1>4 DEF IInv

LEMMA ReachConsensusStep ==
  ASSUME IInv, NEW m \in net, ReachConsensus(m)
  PROVE  IInv'
<1> USE RequestAssumption, ThreadAssumption
     DEF ReachConsensus, Msg,
         reqVars, threadVars, mapVars, sessionVars
<1>1. TypeOK'
  BY DEF IInv, TypeOK, Message
<1>2. ThreadInv'
  BY DEF IInv, ThreadInv, Locking, Frames, OneSender
<1>3. TableInv'
  BY DEF IInv, TableInv, BeforeInsert, Keyed, Untouched, Slots, Answering,
         Registered
<1>4. SessionInv'
  BY DEF IInv, SessionInv, NotCancelled, RetriesLeft, Pending, Registered
<1> QED
  BY <1>1, <1>2, <1>3, <1>4 DEF IInv

LEMMA LoseMessageStep ==
  ASSUME IInv, NEW m \in net, LoseMessage(m)
  PROVE  IInv'
<1> USE RequestAssumption, ThreadAssumption
     DEF LoseMessage,
         reqVars, threadVars, mapVars, sessionVars
<1>1. TypeOK'
  BY DEF IInv, TypeOK
<1>2. ThreadInv'
  BY DEF IInv, ThreadInv, Locking, Frames, OneSender
<1>3. TableInv'
  BY DEF IInv, TableInv, BeforeInsert, Keyed, Untouched, Slots, Answering,
         Registered
<1>4. SessionInv'
  BY DEF IInv, SessionInv, NotCancelled, RetriesLeft, Pending, Registered
<1> QED
  BY <1>1, <1>2, <1>3, <1>4 DEF IInv

LEMMA CrashStep ==
  ASSUME IInv, Crash
  PROVE  IInv'
<1> USE RequestAssumption, ThreadAssumption
     DEF Crash,
         reqVars, threadVars, mapVars, sessionVars
<1>1. TypeOK'
  BY DEF IInv, TypeOK
<1>2. ThreadInv'
  BY DEF IInv, ThreadInv, Locking, Frames, OneSender
<1>3. TableInv'
  BY DEF IInv, TableInv, BeforeInsert, Keyed, Untouched, Slots, Answering,
         Registered
<1>4. SessionInv'
  BY DEF IInv, SessionInv, NotCancelled, RetriesLeft, Pending, Registered
<1> QED
  BY <1>1, <1>2, <1>3, <1>4 DEF IInv

LEMMA InitIInv == Init => IInv
<1> SUFFICES ASSUME Init PROVE IInv
  OBVIOUS
<1> USE RequestAssumption, ThreadAssumption DEF Init
<1>1. TypeOK
  BY BroadcastNumAssumption DEF TypeOK, Threads, IoPc, NetPc, TimerState, Answer
<1>2. ThreadInv
  BY DEF ThreadInv, Locking, Frames, OneSender, SendPc, Threads
<1>3. TableInv
  BY DEF TableInv, BeforeInsert, Keyed, Untouched, Slots, Answering, Registered,
         Threads
<1>4. SessionInv
  BY DEF SessionInv, NotCancelled, RetriesLeft, Pending, Registered
<1> QED
  BY <1>1, <1>2, <1>3, <1>4 DEF IInv

LEMMA NextIInv == IInv /\ [Next]_vars => IInv'
<1> SUFFICES ASSUME IInv, [Next]_vars PROVE IInv'
  OBVIOUS
<1>1. CASE IoStep
  <2> SUFFICES ASSUME NEW t \in IoThreads,
                      \/ ContinueSend(t) \/ EraseTimedOut(t)
                      \/ \E r \in Requests : Arrive(t, r) \/ RunTimer(t, r)
               PROVE  IInv'
    BY <1>1 DEF IoStep
  <2> QED
    BY BeginInsertStep, EndInsertStep, SendMessageStep, ThrowBeforeSendStep,
       EraseTimedOutStep, RefuseRequestStep, ThrowInHandlerStep, MakeSessionStep,
       TimerAbortedStep, RetryProposalStep, WriteTimeoutStep
       DEF ContinueSend, Arrive, RunTimer
<1>2. CASE NetStep
  BY <1>2, AnswerSessionStep, ReplyQueryMsgStep, ReplyConsensusMsgStep,
     ReplyUnmatchedStep DEF NetStep, OnReply
<1>3. CASE Environment
  BY <1>3, TimerExpiresStep, ServeRpcRequestStep, ReachConsensusStep,
     LoseMessageStep, CrashStep DEF Environment
<1>4. CASE UNCHANGED vars
  <2> USE <1>4 DEF vars
  <2>1. TypeOK'
    BY DEF IInv, TypeOK
  <2>2. ThreadInv'
    BY DEF IInv, ThreadInv, Locking, Frames, OneSender
  <2>3. TableInv'
    BY DEF IInv, TableInv, BeforeInsert, Keyed, Untouched, Slots, Answering,
           Registered
  <2>4. SessionInv'
    BY DEF IInv, SessionInv, NotCancelled, RetriesLeft, Pending, Registered
  <2> QED
    BY <2>1, <2>2, <2>3, <2>4 DEF IInv
<1> QED
  BY <1>1, <1>2, <1>3, <1>4 DEF Next

-----------------------------------------------------------------------------
(* What the invariant gives, however late the io threads are *)

\* The inductive invariant holds throughout.
THEOREM Invariant == Spec => []IInv
BY InitIInv, NextIInv, PTL DEF Spec

\* All variables keep their types; a session never counts more than
\* BROADCAST_NUM replies and never runs out of more retries than it had.
THEOREM TypeCorrect == Spec => []TypeOK
<1>1. IInv => TypeOK
  BY DEF IInv
<1> QED
  BY <1>1, Invariant, PTL

\* No reply is stored past the end of m_reply_result.
THEOREM SlotsCorrect == Spec => []ReplySlotInBounds
<1>1. IInv => ReplySlotInBounds
  <2> SUFFICES ASSUME IInv, lock = NoThread, NEW u \in Uuids,
                      m_response_session[u] # NoReq
               PROVE  m_response_num[m_response_session[u]] < BROADCAST_NUM
    BY DEF ReplySlotInBounds
  <2>1. Registered(m_response_session[u]) /\ m_response_session[u] \in Requests
    BY DEF IInv, TypeOK, TableInv, Keyed, Registered
  <2>2. \A t \in Threads : pc[t] # "answer"
    BY ThreadAssumption DEF IInv, ThreadInv, Locking
  <2> QED
    BY <2>1, <2>2 DEF IInv, TableInv, Slots, Threads
<1> QED
  BY <1>1, Invariant, PTL

\* No Response is sent empty, except when its handler threw.
THEOREM NoSilentDropCorrect == Spec => []NoSilentDrop
<1>1. IInv => NoSilentDrop
  BY DEF IInv, SessionInv, Pending, NoSilentDrop, Released, Held
<1> QED
  BY <1>1, Invariant, PTL

\* A session whose timer a reply has cancelled is over.
THEOREM CancelCorrect == Spec => CancelIsFinal
<1> DEFINE Final(r) == timer[r] = "cancelled" =>
                         /\ timer'[r] \in {"cancelled", "none"}
                         /\ body'[r] = body[r]
                         /\ m_retry_num'[r] = m_retry_num[r]
<1>1. IInv /\ [Next]_vars => [\A r \in Requests : Final(r)]_vars
  <2> SUFFICES ASSUME IInv, Next, NEW r \in Requests, timer[r] = "cancelled"
               PROVE  Final(r)!2
    OBVIOUS
  <2> USE DEF IInv, TypeOK, reqVars, threadVars, mapVars, sessionVars
  <2>1. ~Registered(r) /\ r \in arrived
    BY DEF SessionInv, NotCancelled, TableInv, Untouched
  <2>2. CASE IoStep
    BY <2>1, <2>2
       DEF IoStep, ContinueSend, Arrive, RunTimer, BeginInsert, EndInsert,
           SendMessage, ThrowBeforeSend, EraseTimedOut, RefuseRequest, Write,
           ThrowInHandler, MakeSession, TimerAborted, RetryProposal, WriteTimeout,
           Fires
  <2>3. CASE NetStep
    <3>1. \A t \in NetThreads : AnswerSession(t) => cur[t] # r
      BY <2>1 DEF AnswerSession, TableInv, Answering
    <3> QED
      BY <2>3, <3>1
         DEF NetStep, OnReply, AnswerSession, Write, ReplyQueryMsg,
             ReplyConsensusMsg, ReplyUnmatched
  <2>4. CASE Environment
    BY <2>4 DEF Environment, TimerExpires, ServeRpcRequest, ReachConsensus,
                LoseMessage, Crash
  <2> QED
    BY <2>2, <2>3, <2>4 DEF Next
<1> QED
  BY <1>1, Invariant, PTL DEF Spec, CancelIsFinal

\* The timer handler that is about to erase an entry has written its answer.
TimedOutWritten == \A t \in IoThreads : pc[t] = "erase" => body[cur[t]] # <<>>

\* What a step does to the Responses: nothing, or one more answer in one of them.
LEMMA BodyStep ==
  ASSUME IInv, Next
  PROVE  \/ UNCHANGED body
         \/ \E r \in Requests, a \in Answer : Write(r, a)
<1> USE DEF Answer, reqVars, threadVars, mapVars, sessionVars
<1>1. CASE IoStep
  BY <1>1
     DEF IoStep, ContinueSend, Arrive, RunTimer, BeginInsert, EndInsert,
         SendMessage, ThrowBeforeSend, EraseTimedOut, RefuseRequest,
         ThrowInHandler, MakeSession, TimerAborted, RetryProposal, WriteTimeout
<1>2. CASE NetStep
  <2>1. ASSUME NEW t \in NetThreads, AnswerSession(t)
        PROVE  \E r \in Requests, a \in Answer : Write(r, a)
    <3>1. cur[t] \in Requests
      BY <2>1, CurIsRequest DEF AnswerSession, Threads
    <3> QED
      BY <2>1, <3>1 DEF AnswerSession
  <2> QED
    BY <1>2, <2>1
       DEF NetStep, OnReply, ReplyQueryMsg, ReplyConsensusMsg, ReplyUnmatched
<1>3. CASE Environment
  BY <1>3 DEF Environment, TimerExpires, ServeRpcRequest, ReachConsensus,
              LoseMessage, Crash
<1> QED
  BY <1>1, <1>2, <1>3 DEF Next

LEMMA BodiesGrow ==
  ASSUME IInv, Next, NEW r \in Requests, body[r] # <<>>
  PROVE  body'[r] # <<>>
<1>1. ASSUME NEW s \in Requests, NEW a \in Answer, Write(s, a)
      PROVE  body'[r] # <<>>
  BY <1>1, WriteFills DEF IInv
<1> QED
  BY <1>1, BodyStep

LEMMA TimedOutWrittenStep == IInv /\ TimedOutWritten /\ [Next]_vars => TimedOutWritten'
<1> SUFFICES ASSUME IInv, TimedOutWritten, [Next]_vars,
                    NEW t \in IoThreads, pc'[t] = "erase"
             PROVE  body'[cur'[t]] # <<>>
  BY DEF TimedOutWritten
<1>1. CASE UNCHANGED vars
  BY <1>1 DEF vars, TimedOutWritten
<1>2. CASE Next
  <2> USE ThreadAssumption DEF reqVars, threadVars, mapVars, sessionVars
  <2>1. \/ pc[t] = "erase" /\ cur'[t] = cur[t]
        \/ \E r \in Requests : WriteTimeout(t, r) /\ cur'[t] = r
    <3> USE DEF IInv, TypeOK, Goto, Threads
    <3>1. CASE IoStep
      BY <3>1
         DEF IoStep, ContinueSend, Arrive, RunTimer, BeginInsert, EndInsert,
             SendMessage, ThrowBeforeSend, EraseTimedOut, RefuseRequest,
             ThrowInHandler, MakeSession, TimerAborted, RetryProposal, WriteTimeout
    <3>2. CASE NetStep
      BY <3>2 DEF NetStep, OnReply, AnswerSession, ReplyQueryMsg,
                  ReplyConsensusMsg, ReplyUnmatched
    <3>3. CASE Environment
      BY <3>3 DEF Environment, TimerExpires, ServeRpcRequest, ReachConsensus,
                  LoseMessage, Crash
    <3> QED
      BY <1>2, <3>1, <3>2, <3>3 DEF Next
  <2>2. CASE pc[t] = "erase" /\ cur'[t] = cur[t]
    <3>1. cur[t] \in Requests
      BY <2>2, CurIsRequest DEF Threads
    <3> QED
      BY <1>2, <2>2, <3>1, BodiesGrow DEF TimedOutWritten
  <2>3. CASE \E r \in Requests : WriteTimeout(t, r) /\ cur'[t] = r
    BY <2>3, WriteFills DEF IInv, WriteTimeout, Answer
  <2> QED
    BY <2>1, <2>2, <2>3
<1> QED
  BY <1>1, <1>2

\* Who takes a session whose uuid is its own out of the table has answered it.
THEOREM LeaveCorrect == Spec => OnlyAnsweredLeave
<1> DEFINE Leaves(r) == /\ \A s \in Requests \ {r} : Uuid[s] # Uuid[r]
                        /\ Registered(r) /\ m_response_session'[Uuid[r]] # r
<1>1. Spec => [](IInv /\ TimedOutWritten)
  <2>1. Init => TimedOutWritten
    BY DEF Init, TimedOutWritten, Threads
  <2> QED
    BY <2>1, InitIInv, NextIInv, TimedOutWrittenStep, PTL DEF Spec
<1>2. IInv /\ TimedOutWritten /\ [Next]_vars
        => [\A r \in Requests : Leaves(r) => body'[r] # <<>>]_vars
  <2> SUFFICES ASSUME IInv, TimedOutWritten, Next, NEW r \in Requests, Leaves(r)
               PROVE  body'[r] # <<>>
    OBVIOUS
  <2> USE DEF reqVars, threadVars, mapVars, sessionVars
  <2>1. /\ Uuid[r] \in Uuids /\ m_response_session[Uuid[r]] = r
        /\ m_response_session \in [Uuids -> Requests \cup {NoReq}] /\ r # NoReq
    BY RequestAssumption DEF Registered, IInv, TypeOK
  <2>2. ASSUME NEW t \in Threads, pc[t] # "idle", Erase(Uuid[cur[t]])
        PROVE  cur[t] = r
    BY <2>1, <2>2, CurIsRequest DEF Erase
  <2>3. CASE IoStep
    <3>1. PICK t \in IoThreads : EraseTimedOut(t)
      BY <2>1, <2>3
         DEF IoStep, ContinueSend, Arrive, RunTimer, BeginInsert, EndInsert,
             SendMessage, ThrowBeforeSend, RefuseRequest, ThrowInHandler,
             MakeSession, TimerAborted, RetryProposal, WriteTimeout
    <3>2. cur[t] = r /\ pc[t] = "erase"
      BY <2>2, <3>1 DEF EraseTimedOut, Threads
    <3> QED
      BY <3>1, <3>2 DEF EraseTimedOut, TimedOutWritten
  <2>4. CASE NetStep
    <3>1. PICK t \in NetThreads : AnswerSession(t)
      BY <2>1, <2>4
         DEF NetStep, OnReply, ReplyQueryMsg, ReplyConsensusMsg, ReplyUnmatched
    <3>2. cur[t] = r
      BY <2>2, <3>1 DEF AnswerSession, Threads
    <3> QED
      BY <3>1, <3>2, WriteFills DEF AnswerSession, Answer, IInv
  <2>5. CASE Environment
    BY <2>1, <2>5 DEF Environment, TimerExpires, ServeRpcRequest, ReachConsensus,
                      LoseMessage, Crash
  <2> QED
    BY <2>3, <2>4, <2>5 DEF Next
<1> QED
  BY <1>1, <1>2, PTL DEF Spec, OnlyAnsweredLeave

-----------------------------------------------------------------------------
(***************************************************************************)
(* What holds when a session is registered and its message is out before   *)
(* its own five seconds are over.  The code does not enforce that; it      *)
(* holds when one io thread runs both send_request and the timers, and it  *)
(* is assumed (PromptSend) when a pool does.                               *)
(***************************************************************************)

InsertBeforeExpiry == PromptSend \/ \A s, t \in IoThreads : s = t

Live(r) == timer[r] \in {"armed", "expired"}
Sending(r) == \E t \in IoThreads : cur[t] = r /\ pc[t] \in SendPc

\* A session is not answered or timed out before it is registered.
NotLate ==
  \A t \in IoThreads : pc[t] \in {"insert", "inserting"} =>
    body[cur[t]] = <<>> /\ Live(cur[t])

\* The first proposal of a session is that of send_request.
SendingFirst ==
  \A t \in IoThreads : pc[t] \in SendPc =>
    /\ broadcasts[cur[t]] = 0
    /\ cur[t] \in TxRequests => m_retry_num[cur[t]] = 1
    /\ PromptSend => timer[cur[t]] # "expired"

\* A registered session waits for a reply or its timer, or is being taken out.
RegisteredLive ==
  \A r \in Requests : Registered(r) =>
    \/ body[r] = <<>> /\ Live(r)
    \/ \E t \in IoThreads : pc[t] = "erase" /\ cur[t] = r

\* While a timer is live its handler may add only to an empty Response or after
\* a reply.
Bodies ==
  /\ AnswersPossible
  /\ \A r \in Requests : Live(r) => body[r] \in {<<>>, <<"reply">>}
  /\ \A r \in Requests \ arrived : body[r] = <<>>

\* The retries left tell how often a transaction was proposed.
Counted(r) ==
  /\ r \notin arrived => broadcasts[r] = 0
  /\ broadcasts[r] <= 2
  /\ r \notin TxRequests => broadcasts[r] <= 1
  /\ r \in TxRequests /\ body[r] \in {<<"timeout">>, <<"reply", "timeout">>} =>
       broadcasts[r] = 2
  /\ r \in TxRequests /\ Live(r) =>
       \/ m_retry_num[r] = 1 /\ (Sending(r) \/ broadcasts[r] = 1)
       \/ m_retry_num[r] = 0 /\ broadcasts[r] = 2

Proposals == \A r \in Requests : Counted(r)

\* Inductive together with IInv.
PInv == NotLate /\ SendingFirst /\ RegisteredLive /\ Bodies /\ Proposals

-----------------------------------------------------------------------------
(* What the steps below have in common *)

\* A timer handler runs only when send_request is done with its session.
LEMMA SentBeforeExpiry ==
  ASSUME InsertBeforeExpiry, PInv, NEW t \in IoThreads, NEW r \in Requests,
         pc[t] = "idle", timer[r] = "expired"
  PROVE  ~Sending(r)
BY DEF InsertBeforeExpiry, PInv, SendingFirst, Sending, SendPc

LEMMA Appends ==
  /\ \A a \in Answer : Append(<<>>, a) = <<a>>
  /\ Append(<<"reply">>, "timeout") = <<"reply", "timeout">>
<1>1. ASSUME NEW a \in Answer PROVE Append(<<>>, a) = <<a>>
  BY <1>1
<1>2. Append(<<"reply">>, "timeout") = <<"reply", "timeout">>
  <2>1. <<"reply">> \in Seq(Answer) /\ <<"reply", "timeout">> \in Seq(Answer)
    BY DEF Answer
  <2>2. Append(<<"reply">>, "timeout") \in Seq(Answer)
    BY <2>1 DEF Answer
  <2>3. Len(Append(<<"reply">>, "timeout")) = 2
    BY <2>1
  <2>4. /\ Append(<<"reply">>, "timeout")[1] = "reply"
        /\ Append(<<"reply">>, "timeout")[2] = "timeout"
    BY <2>1
  <2> DEFINE s == Append(<<"reply">>, "timeout")
              t == <<"reply", "timeout">>
  <2>5. Len(s) = Len(t) /\ \A i \in 1..Len(s) : s[i] = t[i]
    BY <2>3, <2>4
  <2> HIDE DEF s, t
  <2> QED
    BY <2>1, <2>2, <2>5, SeqEqual DEF s, t
<1> QED
  BY <1>1, <1>2

\* An answer written for r leaves the shapes of all other Responses alone.
LEMMA BodiesAfterWrite ==
  ASSUME TypeOK, PInv, NEW r \in Requests, NEW a \in Answer, Write(r, a),
         body'[r] \in {<<"error">>, <<"reply">>, <<"timeout">>,
                       <<"reply", "timeout">>},
         Live(r)' => body'[r] = <<"reply">>,
         r \in arrived',
         \A s \in Requests \ {r} : timer'[s] = timer[s],
         arrived \subseteq arrived'
  PROVE  Bodies'
<1>1. \A s \in Requests \ {r} : body'[s] = body[s]
  BY WriteFills
<1> QED
  BY <1>1 DEF PInv, Bodies, AnswersPossible, Live

-----------------------------------------------------------------------------
(* Every action preserves the invariant *)

LEMMA RefuseRequestPrompt ==
  ASSUME InsertBeforeExpiry, IInv, PInv,
         NEW t \in IoThreads, NEW r \in Requests, RefuseRequest(t, r)
  PROVE  PInv'
<1> USE RequestAssumption, ThreadAssumption
     DEF RefuseRequest, Write,
         reqVars, threadVars, mapVars, sessionVars
<1>0. body'[r] = <<"error">> /\ \A s \in Requests \ {r} : body'[s] = body[s]
  BY WriteFills, Appends DEF IInv, PInv, Bodies, Answer
<1>a. ~Registered(r) /\ timer[r] = "none"
  BY DEF IInv, TableInv, Untouched
<1>1. NotLate'
  BY CurIsRequest, SentBeforeExpiry
     DEF IInv, TypeOK, ThreadInv, Frames, TableInv, Untouched, BeforeInsert,
         PInv, NotLate, Live, Threads
<1>2. SendingFirst'
  BY CurIsRequest, SentBeforeExpiry
     DEF IInv, TypeOK, ThreadInv, Frames, OneSender, TableInv, Untouched,
         PInv, NotLate, SendingFirst, Live, SendPc, Proposals, Counted,
         Threads
<1>3. RegisteredLive'
  BY <1>0, <1>a DEF PInv, RegisteredLive, Live, Registered
<1>4. Bodies'
  <2>1. Write(r, "error") /\ "error" \in Answer /\ TypeOK
    BY DEF IInv, Answer
  <2> HIDE DEF Write
  <2> QED
    BY <1>0, <1>a, <2>1, BodiesAfterWrite DEF Live
<1>5. Proposals'
  <2>1. body'[r] \notin {<<"timeout">>, <<"reply", "timeout">>}
    BY <1>0
  <2> QED
    BY <1>0, <1>a, <2>1 DEF PInv, Proposals, Counted, Live, Sending
<1> QED
  BY <1>1, <1>2, <1>3, <1>4, <1>5 DEF PInv

LEMMA ThrowInHandlerPrompt ==
  ASSUME InsertBeforeExpiry, IInv, PInv,
         NEW t \in IoThreads, NEW r \in Requests, ThrowInHandler(t, r)
  PROVE  PInv'
<1> USE RequestAssumption, ThreadAssumption
     DEF ThrowInHandler,
         reqVars, threadVars, mapVars, sessionVars
<1>1. NotLate'
  BY CurIsRequest, SentBeforeExpiry
     DEF IInv, TypeOK, ThreadInv, Frames, TableInv, Untouched, BeforeInsert,
         PInv, NotLate, Live, Threads
<1>2. SendingFirst'
  BY CurIsRequest, SentBeforeExpiry
     DEF IInv, TypeOK, ThreadInv, Frames, OneSender, TableInv, Untouched,
         PInv, NotLate, SendingFirst, Live, SendPc, Proposals, Counted,
         Threads
<1>3. RegisteredLive'
  BY CurIsRequest
     DEF IInv, TypeOK, ThreadInv, Frames, Locking, TableInv, Untouched,
         Answering, BeforeInsert, SessionInv, NotCancelled, PInv, NotLate,
         RegisteredLive, Live, Registered, Threads
<1>4. Bodies'
  BY CurIsRequest
     DEF IInv, TypeOK, TableInv, Untouched, Answering, PInv, RegisteredLive,
         Bodies, AnswersPossible, Live, Threads
<1>5. Proposals'
  BY CurIsRequest, SentBeforeExpiry
     DEF IInv, TypeOK, ThreadInv, OneSender, TableInv, Untouched, PInv,
         SendingFirst, Bodies, AnswersPossible, Proposals, Counted, Live,
         Sending, SendPc, Threads
<1> QED
  BY <1>1, <1>2, <1>3, <1>4, <1>5 DEF PInv

LEMMA MakeSessionPrompt ==
  ASSUME InsertBeforeExpiry, IInv, PInv,
         NEW t \in IoThreads, NEW r \in Requests, MakeSession(t, r)
  PROVE  PInv'
<1> USE RequestAssumption, ThreadAssumption
     DEF MakeSession, Goto, Retries,
         reqVars, threadVars, mapVars, sessionVars
<1>1. NotLate'
  <2>1. \A s \in IoThreads \ {t} : cur[s] # r
    BY DEF IInv, ThreadInv, Frames, Threads
  <2>2. body[r] = <<>> /\ timer'[r] = "armed"
    BY DEF IInv, TypeOK, PInv, Bodies
  <2> QED
    BY <2>1, <2>2, CurIsRequest DEF IInv, TypeOK, PInv, NotLate, Live, Threads
<1>2. SendingFirst'
  BY CurIsRequest, SentBeforeExpiry
     DEF IInv, TypeOK, ThreadInv, Frames, OneSender, TableInv, Untouched,
         PInv, NotLate, SendingFirst, Live, SendPc, Proposals, Counted,
         Threads
<1>3. RegisteredLive'
  BY CurIsRequest
     DEF IInv, TypeOK, ThreadInv, Frames, Locking, TableInv, Untouched,
         Answering, BeforeInsert, SessionInv, NotCancelled, PInv, NotLate,
         RegisteredLive, Live, Registered, Threads
<1>4. Bodies'
  BY CurIsRequest
     DEF IInv, TypeOK, TableInv, Untouched, Answering, PInv, RegisteredLive,
         Bodies, AnswersPossible, Live, Threads
<1>5. Proposals'
  BY CurIsRequest, SentBeforeExpiry
     DEF IInv, TypeOK, ThreadInv, OneSender, TableInv, Untouched, PInv,
         SendingFirst, Bodies, AnswersPossible, Proposals, Counted, Live,
         Sending, SendPc, Threads
<1> QED
  BY <1>1, <1>2, <1>3, <1>4, <1>5 DEF PInv

LEMMA BeginInsertPrompt ==
  ASSUME InsertBeforeExpiry, IInv, PInv,
         NEW t \in IoThreads, BeginInsert(t)
  PROVE  PInv'
<1> USE RequestAssumption, ThreadAssumption
     DEF BeginInsert, Goto, Touch,
         reqVars, threadVars, mapVars, sessionVars
<1>1. NotLate'
  BY CurIsRequest, SentBeforeExpiry
     DEF IInv, TypeOK, ThreadInv, Frames, TableInv, Untouched, BeforeInsert,
         PInv, NotLate, Live, Threads
<1>2. SendingFirst'
  BY CurIsRequest, SentBeforeExpiry
     DEF IInv, TypeOK, ThreadInv, Frames, OneSender, TableInv, Untouched,
         PInv, NotLate, SendingFirst, Live, SendPc, Proposals, Counted,
         Threads
<1>3. RegisteredLive'
  BY CurIsRequest
     DEF IInv, TypeOK, ThreadInv, Frames, Locking, TableInv, Untouched,
         Answering, BeforeInsert, SessionInv, NotCancelled, PInv, NotLate,
         RegisteredLive, Live, Registered, Threads
<1>4. Bodies'
  BY CurIsRequest
     DEF IInv, TypeOK, TableInv, Untouched, Answering, PInv, RegisteredLive,
         Bodies, AnswersPossible, Live, Threads
<1>5. Proposals'
  BY CurIsRequest, SentBeforeExpiry
     DEF IInv, TypeOK, ThreadInv, OneSender, TableInv, Untouched, PInv,
         SendingFirst, Bodies, AnswersPossible, Proposals, Counted, Live,
         Sending, SendPc, Threads
<1> QED
  BY <1>1, <1>2, <1>3, <1>4, <1>5 DEF PInv

LEMMA EndInsertPrompt ==
  ASSUME InsertBeforeExpiry, IInv, PInv,
         NEW t \in IoThreads, EndInsert(t)
  PROVE  PInv'
<1> USE RequestAssumption, ThreadAssumption
     DEF EndInsert, Goto,
         reqVars, threadVars, mapVars, sessionVars
<1>1. NotLate'
  BY CurIsRequest, SentBeforeExpiry
     DEF IInv, TypeOK, ThreadInv, Frames, TableInv, Untouched, BeforeInsert,
         PInv, NotLate, Live, Threads
<1>2. SendingFirst'
  BY CurIsRequest, SentBeforeExpiry
     DEF IInv, TypeOK, ThreadInv, Frames, OneSender, TableInv, Untouched,
         PInv, NotLate, SendingFirst, Live, SendPc, Proposals, Counted,
         Threads
<1>3. RegisteredLive'
  BY CurIsRequest
     DEF IInv, TypeOK, ThreadInv, Frames, Locking, TableInv, Untouched,
         Answering, BeforeInsert, SessionInv, NotCancelled, PInv, NotLate,
         RegisteredLive, Live, Registered, Threads
<1>4. Bodies'
  BY CurIsRequest
     DEF IInv, TypeOK, TableInv, Untouched, Answering, PInv, RegisteredLive,
         Bodies, AnswersPossible, Live, Threads
<1>5. Proposals'
  BY CurIsRequest, SentBeforeExpiry
     DEF IInv, TypeOK, ThreadInv, OneSender, TableInv, Untouched, PInv,
         SendingFirst, Bodies, AnswersPossible, Proposals, Counted, Live,
         Sending, SendPc, Threads
<1> QED
  BY <1>1, <1>2, <1>3, <1>4, <1>5 DEF PInv

LEMMA SendMessagePrompt ==
  ASSUME InsertBeforeExpiry, IInv, PInv,
         NEW t \in IoThreads, SendMessage(t)
  PROVE  PInv'
<1> USE RequestAssumption, ThreadAssumption
     DEF SendMessage, Goto, Broadcast, Msg,
         reqVars, threadVars, mapVars, sessionVars
<1>1. NotLate'
  BY CurIsRequest, SentBeforeExpiry
     DEF IInv, TypeOK, ThreadInv, Frames, TableInv, Untouched, BeforeInsert,
         PInv, NotLate, Live, Threads
<1>2. SendingFirst'
  BY CurIsRequest, SentBeforeExpiry
     DEF IInv, TypeOK, ThreadInv, Frames, OneSender, TableInv, Untouched,
         PInv, NotLate, SendingFirst, Live, SendPc, Proposals, Counted,
         Threads
<1>3. RegisteredLive'
  BY CurIsRequest
     DEF IInv, TypeOK, ThreadInv, Frames, Locking, TableInv, Untouched,
         Answering, BeforeInsert, SessionInv, NotCancelled, PInv, NotLate,
         RegisteredLive, Live, Registered, Threads
<1>4. Bodies'
  BY CurIsRequest
     DEF IInv, TypeOK, TableInv, Untouched, Answering, PInv, RegisteredLive,
         Bodies, AnswersPossible, Live, Threads
<1>5. Proposals'
  BY CurIsRequest, SentBeforeExpiry
     DEF IInv, TypeOK, ThreadInv, OneSender, TableInv, Untouched, PInv,
         SendingFirst, Bodies, AnswersPossible, Proposals, Counted, Live,
         Sending, SendPc, Threads
<1> QED
  BY <1>1, <1>2, <1>3, <1>4, <1>5 DEF PInv

LEMMA ThrowBeforeSendPrompt ==
  ASSUME InsertBeforeExpiry, IInv, PInv,
         NEW t \in IoThreads, ThrowBeforeSend(t)
  PROVE  PInv'
<1> USE RequestAssumption, ThreadAssumption
     DEF ThrowBeforeSend, Goto, Queries,
         reqVars, threadVars, mapVars, sessionVars
<1>1. NotLate'
  BY CurIsRequest, SentBeforeExpiry
     DEF IInv, TypeOK, ThreadInv, Frames, TableInv, Untouched, BeforeInsert,
         PInv, NotLate, Live, Threads
<1>2. SendingFirst'
  BY CurIsRequest, SentBeforeExpiry
     DEF IInv, TypeOK, ThreadInv, Frames, OneSender, TableInv, Untouched,
         PInv, NotLate, SendingFirst, Live, SendPc, Proposals, Counted,
         Threads
<1>3. RegisteredLive'
  BY CurIsRequest
     DEF IInv, TypeOK, ThreadInv, Frames, Locking, TableInv, Untouched,
         Answering, BeforeInsert, SessionInv, NotCancelled, PInv, NotLate,
         RegisteredLive, Live, Registered, Threads
<1>4. Bodies'
  BY CurIsRequest
     DEF IInv, TypeOK, TableInv, Untouched, Answering, PInv, RegisteredLive,
         Bodies, AnswersPossible, Live, Threads
<1>5. Proposals'
  BY CurIsRequest, SentBeforeExpiry
     DEF IInv, TypeOK, ThreadInv, OneSender, TableInv, Untouched, PInv,
         SendingFirst, Bodies, AnswersPossible, Proposals, Counted, Live,
         Sending, SendPc, Threads
<1> QED
  BY <1>1, <1>2, <1>3, <1>4, <1>5 DEF PInv

LEMMA TimerExpiresPrompt ==
  ASSUME InsertBeforeExpiry, IInv, PInv,
         NEW r \in Requests, TimerExpires(r)
  PROVE  PInv'
<1> USE RequestAssumption, ThreadAssumption
     DEF TimerExpires,
         reqVars, threadVars, mapVars, sessionVars
<1>1. NotLate'
  BY CurIsRequest, SentBeforeExpiry
     DEF IInv, TypeOK, ThreadInv, Frames, TableInv, Untouched, BeforeInsert,
         PInv, NotLate, Live, Threads
<1>2. SendingFirst'
  BY CurIsRequest, SentBeforeExpiry
     DEF IInv, TypeOK, ThreadInv, Frames, OneSender, TableInv, Untouched,
         PInv, NotLate, SendingFirst, Live, SendPc, Proposals, Counted,
         Threads
<1>3. RegisteredLive'
  BY CurIsRequest
     DEF IInv, TypeOK, ThreadInv, Frames, Locking, TableInv, Untouched,
         Answering, BeforeInsert, SessionInv, NotCancelled, PInv, NotLate,
         RegisteredLive, Live, Registered, Threads
<1>4. Bodies'
  BY CurIsRequest
     DEF IInv, TypeOK, TableInv, Untouched, Answering, PInv, RegisteredLive,
         Bodies, AnswersPossible, Live, Threads
<1>5. Proposals'
  BY CurIsRequest, SentBeforeExpiry
     DEF IInv, TypeOK, ThreadInv, OneSender, TableInv, Untouched, PInv,
         SendingFirst, Bodies, AnswersPossible, Proposals, Counted, Live,
         Sending, SendPc, Threads
<1> QED
  BY <1>1, <1>2, <1>3, <1>4, <1>5 DEF PInv

LEMMA TimerAbortedPrompt ==
  ASSUME InsertBeforeExpiry, IInv, PInv,
         NEW t \in IoThreads, NEW r \in Requests, TimerAborted(t, r)
  PROVE  PInv'
<1> USE RequestAssumption, ThreadAssumption
     DEF TimerAborted,
         reqVars, threadVars, mapVars, sessionVars
<1>1. NotLate'
  BY CurIsRequest, SentBeforeExpiry
     DEF IInv, TypeOK, ThreadInv, Frames, TableInv, Untouched, BeforeInsert,
         PInv, NotLate, Live, Threads
<1>2. SendingFirst'
  BY CurIsRequest, SentBeforeExpiry
     DEF IInv, TypeOK, ThreadInv, Frames, OneSender, TableInv, Untouched,
         PInv, NotLate, SendingFirst, Live, SendPc, Proposals, Counted,
         Threads
<1>3. RegisteredLive'
  BY CurIsRequest
     DEF IInv, TypeOK, ThreadInv, Frames, Locking, TableInv, Untouched,
         Answering, BeforeInsert, SessionInv, NotCancelled, PInv, NotLate,
         RegisteredLive, Live, Registered, Threads
<1>4. Bodies'
  BY CurIsRequest
     DEF IInv, TypeOK, TableInv, Untouched, Answering, PInv, RegisteredLive,
         Bodies, AnswersPossible, Live, Threads
<1>5. Proposals'
  BY CurIsRequest, SentBeforeExpiry
     DEF IInv, TypeOK, ThreadInv, OneSender, TableInv, Untouched, PInv,
         SendingFirst, Bodies, AnswersPossible, Proposals, Counted, Live,
         Sending, SendPc, Threads
<1> QED
  BY <1>1, <1>2, <1>3, <1>4, <1>5 DEF PInv

LEMMA RetryProposalPrompt ==
  ASSUME InsertBeforeExpiry, IInv, PInv,
         NEW t \in IoThreads, NEW r \in Requests, RetryProposal(t, r)
  PROVE  PInv'
<1> USE RequestAssumption, ThreadAssumption
     DEF RetryProposal, Broadcast, Msg, Fires, RetryLeft,
         reqVars, threadVars, mapVars, sessionVars
<1>1. NotLate'
  BY CurIsRequest, SentBeforeExpiry
     DEF IInv, TypeOK, ThreadInv, Frames, TableInv, Untouched, BeforeInsert,
         PInv, NotLate, Live, Threads
<1>2. SendingFirst'
  BY CurIsRequest, SentBeforeExpiry
     DEF IInv, TypeOK, ThreadInv, Frames, OneSender, TableInv, Untouched,
         PInv, NotLate, SendingFirst, Live, SendPc, Proposals, Counted,
         Threads
<1>3. RegisteredLive'
  BY CurIsRequest
     DEF IInv, TypeOK, ThreadInv, Frames, Locking, TableInv, Untouched,
         Answering, BeforeInsert, SessionInv, NotCancelled, PInv, NotLate,
         RegisteredLive, Live, Registered, Threads
<1>4. Bodies'
  BY CurIsRequest
     DEF IInv, TypeOK, TableInv, Untouched, Answering, PInv, RegisteredLive,
         Bodies, AnswersPossible, Live, Threads
<1>5. Proposals'
  BY CurIsRequest, SentBeforeExpiry
     DEF IInv, TypeOK, ThreadInv, OneSender, TableInv, Untouched, PInv,
         SendingFirst, Bodies, AnswersPossible, Proposals, Counted, Live,
         Sending, SendPc, Threads
<1> QED
  BY <1>1, <1>2, <1>3, <1>4, <1>5 DEF PInv

LEMMA WriteTimeoutPrompt ==
  ASSUME InsertBeforeExpiry, IInv, PInv,
         NEW t \in IoThreads, NEW r \in Requests, WriteTimeout(t, r)
  PROVE  PInv'
<1> USE RequestAssumption, ThreadAssumption
     DEF WriteTimeout, Write, Goto, Fires, RetryLeft,
         reqVars, threadVars, mapVars, sessionVars
<1>0. /\ body[r] \in {<<>>, <<"reply">>} /\ r \in arrived /\ "timeout" \in Answer
      /\ t \in Threads
  BY DEF IInv, TableInv, Untouched, PInv, Bodies, Live, Answer, Threads
<1>a. /\ body'[r] \in {<<"timeout">>, <<"reply", "timeout">>}
      /\ \A s \in Requests \ {r} : body'[s] = body[s]
  BY <1>0, WriteFills, Appends DEF IInv
<1>b. timer'[r] = "none" /\ \A s \in Requests \ {r} : timer'[s] = timer[s]
  BY DEF IInv, TypeOK
<1>c. \A s \in IoThreads : pc[s] \in SendPc => s # t /\ cur[s] # r
  BY SentBeforeExpiry DEF Sending, SendPc
<1>1. NotLate'
  BY <1>0, <1>a, <1>b, <1>c, CurIsRequest
     DEF IInv, TypeOK, PInv, NotLate, Live, SendPc, Threads
<1>2. SendingFirst'
  BY CurIsRequest, SentBeforeExpiry
     DEF IInv, TypeOK, ThreadInv, Frames, OneSender, TableInv, Untouched,
         PInv, NotLate, SendingFirst, Live, SendPc, Proposals, Counted,
         Threads
<1>3. RegisteredLive'
  BY CurIsRequest
     DEF IInv, TypeOK, ThreadInv, Frames, Locking, TableInv, Untouched,
         Answering, BeforeInsert, SessionInv, NotCancelled, PInv, NotLate,
         RegisteredLive, Live, Registered, Threads
<1>4. Bodies'
  <2>1. Write(r, "timeout") /\ TypeOK
    BY DEF IInv
  <2> HIDE DEF Write
  <2> QED
    BY <1>0, <1>a, <1>b, <2>1, BodiesAfterWrite DEF Live
<1>5. Proposals'
  <2>1. r \in TxRequests => broadcasts[r] = 2
    BY <1>c DEF PInv, Proposals, Counted, Live, Sending
  <2>2. Counted(r)'
    BY <1>0, <1>b, <2>1 DEF PInv, Proposals, Counted, Live
  <2>3. \A s \in Requests \ {r} : m_retry_num'[s] = m_retry_num[s]
    BY DEF IInv, TypeOK
  <2>4. \A s \in Requests : Sending(s) => Sending(s)'
    BY <1>c DEF Sending, SendPc, IInv, TypeOK, Threads
  <2>5. \A s \in Requests \ {r} : Counted(s)'
    BY <1>a, <1>b, <2>3, <2>4 DEF PInv, Proposals, Counted, Live
  <2> QED
    BY <2>2, <2>5 DEF Proposals
<1> QED
  BY <1>1, <1>2, <1>3, <1>4, <1>5 DEF PInv

LEMMA EraseTimedOutPrompt ==
  ASSUME InsertBeforeExpiry, IInv, PInv,
         NEW t \in IoThreads, EraseTimedOut(t)
  PROVE  PInv'
<1> USE RequestAssumption, ThreadAssumption
     DEF EraseTimedOut, Touch, Goto, Erase,
         reqVars, threadVars, mapVars, sessionVars
<1>1. NotLate'
  BY CurIsRequest, SentBeforeExpiry
     DEF IInv, TypeOK, ThreadInv, Frames, TableInv, Untouched, BeforeInsert,
         PInv, NotLate, Live, Threads
<1>2. SendingFirst'
  BY CurIsRequest, SentBeforeExpiry
     DEF IInv, TypeOK, ThreadInv, Frames, OneSender, TableInv, Untouched,
         PInv, NotLate, SendingFirst, Live, SendPc, Proposals, Counted,
         Threads
<1>3. RegisteredLive'
  BY CurIsRequest
     DEF IInv, TypeOK, ThreadInv, Frames, Locking, TableInv, Untouched,
         Answering, BeforeInsert, SessionInv, NotCancelled, PInv, NotLate,
         RegisteredLive, Live, Registered, Threads
<1>4. Bodies'
  BY CurIsRequest
     DEF IInv, TypeOK, TableInv, Untouched, Answering, PInv, RegisteredLive,
         Bodies, AnswersPossible, Live, Threads
<1>5. Proposals'
  BY CurIsRequest, SentBeforeExpiry
     DEF IInv, TypeOK, ThreadInv, OneSender, TableInv, Untouched, PInv,
         SendingFirst, Bodies, AnswersPossible, Proposals, Counted, Live,
         Sending, SendPc, Threads
<1> QED
  BY <1>1, <1>2, <1>3, <1>4, <1>5 DEF PInv

LEMMA ReplyQueryMsgPrompt ==
  ASSUME InsertBeforeExpiry, IInv, PInv,
         NEW t \in NetThreads, NEW m \in net, ReplyQueryMsg(t, m)
  PROVE  PInv'
<1> USE RequestAssumption, ThreadAssumption
     DEF ReplyQueryMsg, Found, Receive, Touch, Goto, Enough,
         reqVars, threadVars, mapVars, sessionVars
<1>1. NotLate'
  BY CurIsRequest, SentBeforeExpiry
     DEF IInv, TypeOK, ThreadInv, Frames, TableInv, Untouched, BeforeInsert,
         PInv, NotLate, Live, Threads
<1>2. SendingFirst'
  BY DEF IInv, TypeOK, PInv, SendingFirst, SendPc, Threads
<1>3. RegisteredLive'
  BY CurIsRequest
     DEF IInv, TypeOK, ThreadInv, Frames, Locking, TableInv, Untouched,
         Answering, BeforeInsert, SessionInv, NotCancelled, PInv, NotLate,
         RegisteredLive, Live, Registered, Threads
<1>4. Bodies'
  BY CurIsRequest
     DEF IInv, TypeOK, TableInv, Untouched, Answering, PInv, RegisteredLive,
         Bodies, AnswersPossible, Live, Threads
<1>5. Proposals'
  BY CurIsRequest, SentBeforeExpiry
     DEF IInv, TypeOK, ThreadInv, OneSender, TableInv, Untouched, PInv,
         SendingFirst, Bodies, AnswersPossible, Proposals, Counted, Live,
         Sending, SendPc, Threads
<1> QED
  BY <1>1, <1>2, <1>3, <1>4, <1>5 DEF PInv

LEMMA ReplyConsensusMsgPrompt ==
  ASSUME InsertBeforeExpiry, IInv, PInv,
         NEW t \in NetThreads, NEW m \in net, ReplyConsensusMsg(t, m)
  PROVE  PInv'
<1> USE RequestAssumption, ThreadAssumption
     DEF ReplyConsensusMsg, Found, Receive, Touch, Goto,
         reqVars, threadVars, mapVars, sessionVars
<1>1. NotLate'
  BY CurIsRequest, SentBeforeExpiry
     DEF IInv, TypeOK, ThreadInv, Frames, TableInv, Untouched, BeforeInsert,
         PInv, NotLate, Live, Threads
<1>2. SendingFirst'
  BY CurIsRequest, SentBeforeExpiry
     DEF IInv, TypeOK, ThreadInv, Frames, OneSender, TableInv, Untouched,
         PInv, NotLate, SendingFirst, Live, SendPc, Proposals, Counted,
         Threads
<1>3. RegisteredLive'
  BY CurIsRequest
     DEF IInv, TypeOK, ThreadInv, Frames, Locking, TableInv, Untouched,
         Answering, BeforeInsert, SessionInv, NotCancelled, PInv, NotLate,
         RegisteredLive, Live, Registered, Threads
<1>4. Bodies'
  BY CurIsRequest
     DEF IInv, TypeOK, TableInv, Untouched, Answering, PInv, RegisteredLive,
         Bodies, AnswersPossible, Live, Threads
<1>5. Proposals'
  BY CurIsRequest, SentBeforeExpiry
     DEF IInv, TypeOK, ThreadInv, OneSender, TableInv, Untouched, PInv,
         SendingFirst, Bodies, AnswersPossible, Proposals, Counted, Live,
         Sending, SendPc, Threads
<1> QED
  BY <1>1, <1>2, <1>3, <1>4, <1>5 DEF PInv

LEMMA ReplyUnmatchedPrompt ==
  ASSUME InsertBeforeExpiry, IInv, PInv,
         NEW t \in NetThreads, NEW m \in net, ReplyUnmatched(t, m)
  PROVE  PInv'
<1> USE RequestAssumption, ThreadAssumption
     DEF ReplyUnmatched, Receive, Touch,
         reqVars, threadVars, mapVars, sessionVars
<1>1. NotLate'
  BY CurIsRequest, SentBeforeExpiry
     DEF IInv, TypeOK, ThreadInv, Frames, TableInv, Untouched, BeforeInsert,
         PInv, NotLate, Live, Threads
<1>2. SendingFirst'
  BY CurIsRequest, SentBeforeExpiry
     DEF IInv, TypeOK, ThreadInv, Frames, OneSender, TableInv, Untouched,
         PInv, NotLate, SendingFirst, Live, SendPc, Proposals, Counted,
         Threads
<1>3. RegisteredLive'
  BY CurIsRequest
     DEF IInv, TypeOK, ThreadInv, Frames, Locking, TableInv, Untouched,
         Answering, BeforeInsert, SessionInv, NotCancelled, PInv, NotLate,
         RegisteredLive, Live, Registered, Threads
<1>4. Bodies'
  BY CurIsRequest
     DEF IInv, TypeOK, TableInv, Untouched, Answering, PInv, RegisteredLive,
         Bodies, AnswersPossible, Live, Threads
<1>5. Proposals'
  BY CurIsRequest, SentBeforeExpiry
     DEF IInv, TypeOK, ThreadInv, OneSender, TableInv, Untouched, PInv,
         SendingFirst, Bodies, AnswersPossible, Proposals, Counted, Live,
         Sending, SendPc, Threads
<1> QED
  BY <1>1, <1>2, <1>3, <1>4, <1>5 DEF PInv

LEMMA AnswerSessionPrompt ==
  ASSUME InsertBeforeExpiry, IInv, PInv,
         NEW t \in NetThreads, AnswerSession(t)
  PROVE  PInv'
<1> USE RequestAssumption, ThreadAssumption
     DEF AnswerSession, Write, Touch, Goto, Erase,
         reqVars, threadVars, mapVars, sessionVars
<1>z. PICK r \in Requests : r = cur[t]
  BY CurIsRequest DEF Threads
<1> USE <1>z
<1>0. /\ r \in arrived /\ Registered(r) /\ lock = t
      /\ t \in Threads /\ "reply" \in Answer
  BY CurIsRequest DEF IInv, TableInv, Answering, ThreadInv, Locking, Threads, Answer
<1>a. \A s \in IoThreads : pc[s] # "erase"
  BY <1>0 DEF IInv, ThreadInv, Locking, Threads
<1>b. body[r] = <<>> /\ Live(r)
  BY <1>0, <1>a DEF PInv, RegisteredLive
<1>c. /\ body'[r] = <<"reply">>
      /\ \A s \in Requests \ {r} : body'[s] = body[s]
  BY <1>0, <1>b, WriteFills, Appends DEF IInv
<1>d. /\ timer'[r] \in {"expired", "cancelled"}
      /\ timer'[r] = "expired" => timer[r] = "expired"
      /\ \A s \in Requests \ {r} : timer'[s] = timer[s]
  BY <1>0, <1>b DEF IInv, TypeOK, Live
<1>e. \A s \in IoThreads : pc'[s] = pc[s] /\ cur'[s] = cur[s]
  OBVIOUS
<1>f. /\ ~Registered(r)'
      /\ \A s \in Requests : Registered(s)' => Registered(s)
  BY <1>0 DEF IInv, TypeOK, Registered
<1>1. NotLate'
  BY <1>0, <1>c, <1>d, <1>e, CurIsRequest
     DEF IInv, TableInv, BeforeInsert, PInv, NotLate, Live, Threads
<1>2. SendingFirst'
  BY <1>0, <1>d, <1>e, CurIsRequest
     DEF PInv, SendingFirst, SendPc, Threads
<1>3. RegisteredLive'
  <2> SUFFICES ASSUME NEW s \in Requests, Registered(s)'
               PROVE  body'[s] = <<>> /\ Live(s)'
    BY DEF RegisteredLive
  <2>1. s # r /\ Registered(s)
    BY <1>f
  <2>2. body[s] = <<>> /\ Live(s)
    BY <1>a, <2>1 DEF PInv, RegisteredLive
  <2> QED
    BY <1>c, <1>d, <2>1, <2>2 DEF Live
<1>4. Bodies'
  <2>1. Write(r, "reply") /\ TypeOK
    BY DEF IInv
  <2> HIDE DEF Write
  <2> QED
    BY <1>0, <1>c, <1>d, <2>1, BodiesAfterWrite DEF Live
<1>5. Proposals'
  <2>1. \A s \in Requests : Sending(s)' = Sending(s)
    BY <1>e DEF Sending
  <2>2. \A s \in Requests : Live(s)' => Live(s)
    BY <1>b, <1>d DEF Live
  <2>3. \A s \in Requests : body'[s] = body[s] \/ body'[s] = <<"reply">>
    BY <1>c
  <2>4. UNCHANGED <<arrived, broadcasts, m_retry_num>>
    OBVIOUS
  <2> HIDE DEF AnswerSession
  <2>5. ASSUME NEW s \in Requests PROVE Counted(s)'
    <3>1. Counted(s)
      BY DEF PInv, Proposals
    <3>2. body'[s] \in {<<"timeout">>, <<"reply", "timeout">>} => body'[s] = body[s]
      BY <2>3
    <3> QED
      BY <2>1, <2>2, <2>4, <3>1, <3>2 DEF Counted
  <2> QED
    BY <2>5 DEF Proposals
<1> QED
  BY <1>1, <1>2, <1>3, <1>4, <1>5 DEF PInv

LEMMA ServeRpcRequestPrompt ==
  ASSUME InsertBeforeExpiry, IInv, PInv,
         NEW m \in net, ServeRpcRequest(m)
  PROVE  PInv'
<1> USE RequestAssumption, ThreadAssumption
     DEF ServeRpcRequest, Msg,
         reqVars, threadVars, mapVars, sessionVars
<1>1. NotLate'
  BY CurIsRequest, SentBeforeExpiry
     DEF IInv, TypeOK, ThreadInv, Frames, TableInv, Untouched, BeforeInsert,
         PInv, NotLate, Live, Threads
<1>2. SendingFirst'
  BY CurIsRequest, SentBeforeExpiry
     DEF IInv, TypeOK, ThreadInv, Frames, OneSender, TableInv, Untouched,
         PInv, NotLate, SendingFirst, Live, SendPc, Proposals, Counted,
         Threads
<1>3. RegisteredLive'
  BY CurIsRequest
     DEF IInv, TypeOK, ThreadInv, Frames, Locking, TableInv, Untouched,
         Answering, BeforeInsert, SessionInv, NotCancelled, PInv, NotLate,
         RegisteredLive, Live, Registered, Threads
<1>4. Bodies'
  BY CurIsRequest
     DEF IInv, TypeOK, TableInv, Untouched, Answering, PInv, RegisteredLive,
         Bodies, AnswersPossible, Live, Threads
<1>5. Proposals'
  BY CurIsRequest, SentBeforeExpiry
     DEF IInv, TypeOK, ThreadInv, OneSender, TableInv, Untouched, PInv,
         SendingFirst, Bodies, AnswersPossible, Proposals, Counted, Live,
         Sending, SendPc, Threads
<1> QED
  BY <1>1, <1>2, <1>3, <1>4, <1>5 DEF PInv

LEMMA ReachConsensusPrompt ==
  ASSUME InsertBeforeExpiry, IInv, PInv,
         NEW m \in net, ReachConsensus(m)
  PROVE  PInv'
<1> USE RequestAssumption, ThreadAssumption
     DEF ReachConsensus, Msg,
         reqVars, threadVars, mapVars, sessionVars
<1>1. NotLate'
  BY CurIsRequest, SentBeforeExpiry
     DEF IInv, TypeOK, ThreadInv, Frames, TableInv, Untouched, BeforeInsert,
         PInv, NotLate, Live, Threads
<1>2. SendingFirst'
  BY CurIsRequest, SentBeforeExpiry
     DEF IInv, TypeOK, ThreadInv, Frames, OneSender, TableInv, Untouched,
         PInv, NotLate, SendingFirst, Live, SendPc, Proposals, Counted,
         Threads
<1>3. RegisteredLive'
  BY CurIsRequest
     DEF IInv, TypeOK, ThreadInv, Frames, Locking, TableInv, Untouched,
         Answering, BeforeInsert, SessionInv, NotCancelled, PInv, NotLate,
         RegisteredLive, Live, Registered, Threads
<1>4. Bodies'
  BY CurIsRequest
     DEF IInv, TypeOK, TableInv, Untouched, Answering, PInv, RegisteredLive,
         Bodies, AnswersPossible, Live, Threads
<1>5. Proposals'
  BY CurIsRequest, SentBeforeExpiry
     DEF IInv, TypeOK, ThreadInv, OneSender, TableInv, Untouched, PInv,
         SendingFirst, Bodies, AnswersPossible, Proposals, Counted, Live,
         Sending, SendPc, Threads
<1> QED
  BY <1>1, <1>2, <1>3, <1>4, <1>5 DEF PInv

LEMMA LoseMessagePrompt ==
  ASSUME InsertBeforeExpiry, IInv, PInv,
         NEW m \in net, LoseMessage(m)
  PROVE  PInv'
<1> USE RequestAssumption, ThreadAssumption
     DEF LoseMessage,
         reqVars, threadVars, mapVars, sessionVars
<1>1. NotLate'
  BY CurIsRequest, SentBeforeExpiry
     DEF IInv, TypeOK, ThreadInv, Frames, TableInv, Untouched, BeforeInsert,
         PInv, NotLate, Live, Threads
<1>2. SendingFirst'
  BY CurIsRequest, SentBeforeExpiry
     DEF IInv, TypeOK, ThreadInv, Frames, OneSender, TableInv, Untouched,
         PInv, NotLate, SendingFirst, Live, SendPc, Proposals, Counted,
         Threads
<1>3. RegisteredLive'
  BY CurIsRequest
     DEF IInv, TypeOK, ThreadInv, Frames, Locking, TableInv, Untouched,
         Answering, BeforeInsert, SessionInv, NotCancelled, PInv, NotLate,
         RegisteredLive, Live, Registered, Threads
<1>4. Bodies'
  BY CurIsRequest
     DEF IInv, TypeOK, TableInv, Untouched, Answering, PInv, RegisteredLive,
         Bodies, AnswersPossible, Live, Threads
<1>5. Proposals'
  BY CurIsRequest, SentBeforeExpiry
     DEF IInv, TypeOK, ThreadInv, OneSender, TableInv, Untouched, PInv,
         SendingFirst, Bodies, AnswersPossible, Proposals, Counted, Live,
         Sending, SendPc, Threads
<1> QED
  BY <1>1, <1>2, <1>3, <1>4, <1>5 DEF PInv

LEMMA CrashPrompt ==
  ASSUME InsertBeforeExpiry, IInv, PInv,
         Crash
  PROVE  PInv'
<1> USE RequestAssumption, ThreadAssumption
     DEF Crash,
         reqVars, threadVars, mapVars, sessionVars
<1>1. NotLate'
  BY CurIsRequest, SentBeforeExpiry
     DEF IInv, TypeOK, ThreadInv, Frames, TableInv, Untouched, BeforeInsert,
         PInv, NotLate, Live, Threads
<1>2. SendingFirst'
  BY CurIsRequest, SentBeforeExpiry
     DEF IInv, TypeOK, ThreadInv, Frames, OneSender, TableInv, Untouched,
         PInv, NotLate, SendingFirst, Live, SendPc, Proposals, Counted,
         Threads
<1>3. RegisteredLive'
  BY CurIsRequest
     DEF IInv, TypeOK, ThreadInv, Frames, Locking, TableInv, Untouched,
         Answering, BeforeInsert, SessionInv, NotCancelled, PInv, NotLate,
         RegisteredLive, Live, Registered, Threads
<1>4. Bodies'
  BY CurIsRequest
     DEF IInv, TypeOK, TableInv, Untouched, Answering, PInv, RegisteredLive,
         Bodies, AnswersPossible, Live, Threads
<1>5. Proposals'
  BY CurIsRequest, SentBeforeExpiry
     DEF IInv, TypeOK, ThreadInv, OneSender, TableInv, Untouched, PInv,
         SendingFirst, Bodies, AnswersPossible, Proposals, Counted, Live,
         Sending, SendPc, Threads
<1> QED
  BY <1>1, <1>2, <1>3, <1>4, <1>5 DEF PInv

LEMMA InitPInv == Init => PInv
<1> SUFFICES ASSUME Init PROVE PInv
  OBVIOUS
<1> USE RequestAssumption, ThreadAssumption DEF Init
<1>1. NotLate /\ SendingFirst /\ RegisteredLive
  BY DEF NotLate, SendingFirst, RegisteredLive, SendPc, Registered, Threads
<1>2. Bodies /\ Proposals
  BY DEF Bodies, AnswersPossible, Proposals, Counted, Live
<1> QED
  BY <1>1, <1>2 DEF PInv

LEMMA NextPInv ==
  ASSUME InsertBeforeExpiry
  PROVE  IInv /\ PInv /\ [Next]_vars => PInv'
<1> SUFFICES ASSUME IInv, PInv, [Next]_vars PROVE PInv'
  OBVIOUS
<1>1. CASE IoStep
  <2> SUFFICES ASSUME NEW t \in IoThreads,
                      \/ ContinueSend(t) \/ EraseTimedOut(t)
                      \/ \E r \in Requests : Arrive(t, r) \/ RunTimer(t, r)
               PROVE  PInv'
    BY <1>1 DEF IoStep
  <2> QED
    BY BeginInsertPrompt, EndInsertPrompt, SendMessagePrompt,
       ThrowBeforeSendPrompt, EraseTimedOutPrompt, RefuseRequestPrompt,
       ThrowInHandlerPrompt, MakeSessionPrompt, TimerAbortedPrompt,
       RetryProposalPrompt, WriteTimeoutPrompt
       DEF ContinueSend, Arrive, RunTimer
<1>2. CASE NetStep
  BY <1>2, AnswerSessionPrompt, ReplyQueryMsgPrompt, ReplyConsensusMsgPrompt,
     ReplyUnmatchedPrompt DEF NetStep, OnReply
<1>3. CASE Environment
  BY <1>3, TimerExpiresPrompt, ServeRpcRequestPrompt, ReachConsensusPrompt,
     LoseMessagePrompt, CrashPrompt DEF Environment
<1>4. CASE UNCHANGED vars
  <2> USE <1>4 DEF vars, PInv
  <2>1. NotLate' /\ SendingFirst' /\ RegisteredLive'
    BY DEF NotLate, SendingFirst, RegisteredLive, Live, Registered
  <2>2. Bodies' /\ Proposals'
    BY DEF Bodies, AnswersPossible, Proposals, Counted, Live, Sending
  <2> QED
    BY <2>1, <2>2
<1> QED
  BY <1>1, <1>2, <1>3, <1>4 DEF Next

-----------------------------------------------------------------------------
(* What the invariant gives *)

\* Both invariants hold throughout.
THEOREM PromptInvariant ==
  ASSUME InsertBeforeExpiry PROVE Spec => [](IInv /\ PInv)
<1>1. Init => IInv /\ PInv
  BY InitIInv, InitPInv
<1>2. (IInv /\ PInv) /\ [Next]_vars => (IInv /\ PInv)'
  BY NextIInv, NextPInv
<1> QED
  BY <1>1, <1>2, PTL DEF Spec

\* A Response holds nothing, one answer, or a reply with the timeout after it.
THEOREM AnswersCorrect ==
  ASSUME InsertBeforeExpiry PROVE Spec => []AnswersPossible
<1>1. PInv => AnswersPossible
  BY DEF PInv, Bodies
<1> QED
  BY <1>1, PromptInvariant, PTL

\* No entry of m_response_session outlives its timer or its answer.
THEOREM RegisteredCorrect ==
  ASSUME InsertBeforeExpiry PROVE Spec => []RegisteredIsPending
<1>1. IInv /\ PInv => RegisteredIsPending
  <2> SUFFICES ASSUME IInv, PInv, lock = NoThread, NEW r \in Requests, Registered(r)
               PROVE  body[r] = <<>> /\ timer[r] \in {"armed", "expired"}
    BY DEF RegisteredIsPending
  <2>1. \A t \in IoThreads : pc[t] # "erase"
    BY ThreadAssumption DEF IInv, ThreadInv, Locking, Threads
  <2> QED
    BY <2>1 DEF PInv, RegisteredLive, Live
<1> QED
  BY <1>1, PromptInvariant, PTL

\* A transaction is given up only after its second proposal.
THEOREM TimeoutCorrect ==
  ASSUME InsertBeforeExpiry PROVE Spec => []TimeoutOnlyAfterRetry
<1>1. IInv /\ PInv => TimeoutOnlyAfterRetry
  <2> SUFFICES ASSUME IInv, PInv, NEW r \in Requests
               PROVE  /\ broadcasts[r] <= IF r \in TxRequests THEN 2 ELSE 1
                      /\ r \in TxRequests
                         /\ (\E i \in 1..Len(body[r]) : body[r][i] = "timeout")
                           => broadcasts[r] = 2
    BY DEF TimeoutOnlyAfterRetry
  <2>1. Counted(r)
    BY DEF PInv, Proposals
  <2>2. body[r] \in {<<>>, <<"error">>, <<"reply">>, <<"timeout">>,
                    <<"reply", "timeout">>}
    BY DEF PInv, Bodies, AnswersPossible
  <2>3. (\E i \in 1..Len(body[r]) : body[r][i] = "timeout")
          => body[r] \in {<<"timeout">>, <<"reply", "timeout">>}
    <3>1. CASE body[r] = <<>> BY <3>1
    <3>2. CASE body[r] = <<"error">> BY <3>2
    <3>3. CASE body[r] = <<"reply">> BY <3>3
    <3> QED BY <2>2, <3>1, <3>2, <3>3
  <2> QED
    BY <2>1, <2>3 DEF Counted
<1> QED
  BY <1>1, PromptInvariant, PTL

-----------------------------------------------------------------------------
(* XForwardManager implements RpcGateway *)

\* An empty Response is kept by a live timer or by nothing at all.
HeldByTimer == \A r \in Requests : body[r] = <<>> /\ Held(r) => Live(r)

\* What send_request is about to broadcast has not timed out.
SendingUnanswered ==
  \A t \in IoThreads : pc[t] \in SendPc => body[cur[t]] \in {<<>>, <<"reply">>}

Asked(u) == \E s \in Requests : Uuid[s] = u /\ broadcasts[s] > 0

\* Messages, and the replies being handled, go back to a broadcast.
AskedFirst ==
  /\ \A m \in net : Asked(m.uuid)
  /\ \A t \in NetThreads : pc[t] = "answer" => Asked(Uuid[cur[t]])

\* Inductive together with IInv and PInv.
GInv == HeldByTimer /\ SendingUnanswered /\ AskedFirst

\* A step leaves an empty Response in the hands of a timer, or made its session.
LEMMA HeldByTimerStep ==
  ASSUME IInv, PInv, GInv, Next
  PROVE  HeldByTimer'
<1> SUFFICES ASSUME NEW s \in Requests, body'[s] = <<>>, Held(s)'
             PROVE  Live(s)'
  BY DEF HeldByTimer
<1> USE RequestAssumption, ThreadAssumption
     DEF reqVars, threadVars, mapVars, sessionVars
<1>1. body[s] = <<>>
  BY BodiesGrow
<1>2. Held(s) => Live(s)
  BY <1>1 DEF GInv, HeldByTimer
<1>3. TypeOK /\ s # NoReq
  BY DEF IInv
<1>4. ASSUME NEW a \in Answer PROVE ~Write(s, a)
  BY <1>4, WriteFills DEF IInv
<1>5. CASE IoStep
  <2> PICK t \in IoThreads :
           \/ ContinueSend(t) \/ EraseTimedOut(t)
           \/ \E r \in Requests : Arrive(t, r) \/ RunTimer(t, r)
    BY <1>5 DEF IoStep
  <2>1. CASE ContinueSend(t)
    <3>1. Held(s) /\ timer' = timer
      BY <2>1, <1>3
         DEF ContinueSend, BeginInsert, EndInsert, SendMessage, ThrowBeforeSend,
             Goto, Held, Registered, TypeOK, Threads
    <3> QED
      BY <3>1, <1>2 DEF Live
  <2>2. CASE EraseTimedOut(t)
    <3>1. Held(s) /\ timer' = timer
      BY <2>2, <1>3
         DEF EraseTimedOut, Erase, Goto, Held, Registered, TypeOK, Threads
    <3> QED
      BY <3>1, <1>2 DEF Live
  <2>3. ASSUME NEW r \in Requests, RefuseRequest(t, r) \/ ThrowInHandler(t, r)
        PROVE  Live(s)'
    <3>1. Held(s) /\ timer' = timer
      BY <2>3 DEF RefuseRequest, ThrowInHandler, Held, Registered
    <3> QED
      BY <3>1, <1>2 DEF Live
  <2>4. ASSUME NEW r \in Requests, MakeSession(t, r)
        PROVE  Live(s)'
    <3>1. CASE s = r
      BY <2>4, <3>1, <1>3 DEF MakeSession, Live, TypeOK
    <3>2. CASE s # r
      <4>1. Held(s) /\ timer'[s] = timer[s]
        BY <2>4, <3>2, <1>3
           DEF MakeSession, Goto, Held, Registered, TypeOK, Threads
      <4> QED
        BY <4>1, <1>2 DEF Live
    <3> QED
      BY <3>1, <3>2
  <2>5. ASSUME NEW r \in Requests, TimerAborted(t, r)
        PROVE  Live(s)'
    <3>1. Held(s) /\ (s = r => timer[s] = "cancelled") /\ (s # r => timer'[s] = timer[s])
      BY <2>5, <1>3 DEF TimerAborted, Held, Registered, TypeOK
    <3> QED
      BY <3>1, <1>2 DEF Live
  <2>6. ASSUME NEW r \in Requests, RetryProposal(t, r)
        PROVE  Live(s)'
    <3>1. /\ Held(s)
          /\ s = r => timer'[s] = "armed"
          /\ s # r => timer'[s] = timer[s]
      BY <2>6, <1>3 DEF RetryProposal, Fires, Held, Registered, TypeOK
    <3> QED
      BY <3>1, <1>2 DEF Live
  <2>7. ASSUME NEW r \in Requests, WriteTimeout(t, r)
        PROVE  Live(s)'
    <3>1. s # r
      BY <2>7, <1>4 DEF WriteTimeout, Answer
    <3>2. Held(s) /\ timer'[s] = timer[s]
      BY <2>7, <3>1, <1>3
         DEF WriteTimeout, Goto, Held, Registered, TypeOK, Threads
    <3> QED
      BY <3>2, <1>2 DEF Live
  <2> QED
    BY <2>1, <2>2, <2>3, <2>4, <2>5, <2>6, <2>7 DEF Arrive, RunTimer
<1>6. CASE NetStep
  <2>1. ASSUME NEW t \in NetThreads, AnswerSession(t)
        PROVE  Live(s)'
    <3>1. s # cur[t] /\ cur[t] \in Requests
      BY <2>1, <1>4, CurIsRequest DEF AnswerSession, Answer, Threads
    <3>2. Held(s) /\ timer'[s] = timer[s]
      BY <2>1, <3>1, <1>3
         DEF AnswerSession, Erase, Goto, Held, Registered, TypeOK, Threads
    <3> QED
      BY <3>2, <1>2 DEF Live
  <2>2. ASSUME NEW t \in NetThreads, NEW m \in net, OnReply(t, m)
        PROVE  Live(s)'
    <3>1. \A r \in IoThreads : cur'[r] = cur[r]
      BY <2>2, <1>3
         DEF OnReply, ReplyQueryMsg, ReplyConsensusMsg, ReplyUnmatched, Goto, TypeOK,
             Threads
    <3>2. Held(s) /\ timer' = timer
      BY <2>2, <3>1
         DEF OnReply, ReplyQueryMsg, ReplyConsensusMsg, ReplyUnmatched, Held,
             Registered
    <3> QED
      BY <3>2, <1>2 DEF Live
  <2> QED
    BY <1>6, <2>1, <2>2 DEF NetStep
<1>7. CASE Environment
  <2>1. ASSUME NEW r \in Requests, TimerExpires(r)
        PROVE  Live(s)'
    <3>1. /\ Held(s)
          /\ s = r => timer'[s] = "expired"
          /\ s # r => timer'[s] = timer[s]
      BY <2>1, <1>3 DEF TimerExpires, Held, Registered, TypeOK
    <3> QED
      BY <3>1, <1>2 DEF Live
  <2>2. CASE \/ \E m \in net : ServeRpcRequest(m) \/ ReachConsensus(m) \/ LoseMessage(m)
             \/ Crash
    BY <2>2, <1>2
       DEF ServeRpcRequest, ReachConsensus, LoseMessage, Crash, Held, Registered, Live
  <2> QED
    BY <1>7, <2>1, <2>2 DEF Environment
<1> QED
  BY <1>5, <1>6, <1>7 DEF Next

\* A reply may overtake send_request, but a timeout does not.
LEMMA SendingUnansweredStep ==
  ASSUME InsertBeforeExpiry, IInv, PInv, GInv, Next
  PROVE  SendingUnanswered'
<1> SUFFICES ASSUME NEW t \in IoThreads, pc'[t] \in SendPc
             PROVE  body'[cur'[t]] \in {<<>>, <<"reply">>}
  BY DEF SendingUnanswered
<1> USE RequestAssumption, ThreadAssumption
     DEF reqVars, threadVars, mapVars, sessionVars
<1>1. TypeOK /\ t \in Threads /\ t \notin NetThreads
  BY DEF IInv, Threads
<1>2. CASE \E r \in Requests : MakeSession(t, r)
  <2>1. PICK r \in Requests : MakeSession(t, r)
    BY <1>2
  <2>2. body[r] = <<>>
    BY <2>1 DEF MakeSession, PInv, Bodies
  <2> QED
    BY <1>1, <2>1, <2>2 DEF MakeSession, Goto, TypeOK
<1>3. CASE ~\E r \in Requests : MakeSession(t, r)
  <2>1. pc[t] \in SendPc /\ cur'[t] = cur[t]
    <3> USE <1>1 DEF TypeOK, Goto, SendPc
    <3>1. CASE IoStep
      BY <1>3, <3>1
         DEF IoStep, ContinueSend, Arrive, RunTimer, BeginInsert, EndInsert,
             SendMessage, ThrowBeforeSend, EraseTimedOut, RefuseRequest,
             ThrowInHandler, MakeSession, TimerAborted, RetryProposal, WriteTimeout
    <3>2. CASE NetStep
      BY <3>2 DEF NetStep, OnReply, AnswerSession, ReplyQueryMsg,
                  ReplyConsensusMsg, ReplyUnmatched
    <3>3. CASE Environment
      BY <3>3 DEF Environment, TimerExpires, ServeRpcRequest, ReachConsensus,
                  LoseMessage, Crash
    <3> QED
      BY <3>1, <3>2, <3>3 DEF Next
  <2> DEFINE s == cur[t]
  <2>2. s \in Requests /\ s \in arrived /\ Sending(s)
    BY <1>1, <2>1, CurIsRequest DEF SendPc, Sending
  <2>3. body[s] \in {<<>>, <<"reply">>}
    BY <2>1 DEF GInv, SendingUnanswered
  <2>4. body'[s] = body[s] \/ body'[s] = <<"reply">>
    <3> HIDE DEF s
    <3>1. ASSUME NEW r \in Requests, NEW a \in Answer, Write(r, a), s # r
          PROVE  body'[s] = body[s]
      BY <2>2, <3>1, WriteFills DEF IInv
    <3>2. ASSUME NEW u \in IoThreads, NEW r \in Requests,
                 RefuseRequest(u, r) \/ WriteTimeout(u, r)
          PROVE  body'[s] = body[s]
      <4>1. s # r
        BY <2>2, <3>2, SentBeforeExpiry DEF RefuseRequest, WriteTimeout, Fires
      <4> QED
        BY <3>1, <3>2, <4>1 DEF RefuseRequest, WriteTimeout, Answer
    <3>3. ASSUME NEW u \in NetThreads, AnswerSession(u)
          PROVE  body'[s] = body[s] \/ body'[s] = <<"reply">>
      <4>1. cur[u] \in Requests /\ Write(cur[u], "reply") /\ "reply" \in Answer
        BY <3>3, CurIsRequest DEF AnswerSession, Threads, Answer
      <4>2. CASE s = cur[u]
        <5>1. Registered(s) /\ lock = u
          BY <3>3, <4>2
             DEF AnswerSession, IInv, TableInv, Answering, ThreadInv, Locking, Threads
        <5>2. body[s] = <<>>
          BY <2>2, <5>1 DEF PInv, RegisteredLive, IInv, ThreadInv, Locking, Threads
        <5> QED
          BY <4>1, <4>2, <5>2, WriteFills, Appends DEF IInv
      <4> QED
        BY <3>1, <4>1, <4>2
    <3>4. CASE IoStep
      BY <3>2, <3>4
         DEF IoStep, ContinueSend, Arrive, RunTimer, BeginInsert, EndInsert,
             SendMessage, ThrowBeforeSend, EraseTimedOut, ThrowInHandler,
             MakeSession, TimerAborted, RetryProposal
    <3>5. CASE NetStep
      BY <3>3, <3>5 DEF NetStep, OnReply, ReplyQueryMsg, ReplyConsensusMsg,
                        ReplyUnmatched
    <3>6. CASE Environment
      BY <3>6 DEF Environment, TimerExpires, ServeRpcRequest, ReachConsensus,
                  LoseMessage, Crash
    <3> QED
      BY <3>4, <3>5, <3>6 DEF Next
  <2> QED
    BY <2>1, <2>3, <2>4
<1> QED
  BY <1>2, <1>3

\* Who was asked stays asked; a new proposal or request is that of its sender,
\* a reply that of what it answers.
LEMMA AskedFirstStep ==
  ASSUME IInv, GInv, Next
  PROVE  AskedFirst'
<1> USE RequestAssumption, ThreadAssumption
     DEF reqVars, threadVars, mapVars, sessionVars
<1>1. TypeOK /\ AskedFirst
  BY DEF IInv, GInv
<1>2. ASSUME NEW r \in Requests, Broadcast(r)
      PROVE  /\ \A u : Asked(u) => Asked(u)'
             /\ Asked(Uuid[r])'
             /\ \A m \in net' \ net : m.uuid = Uuid[r]
  <2>1. /\ \A s \in Requests : broadcasts'[s] >= broadcasts[s]
        /\ broadcasts'[r] > 0
    BY <1>1, <1>2 DEF Broadcast, TypeOK
  <2>2. \A s \in Requests : broadcasts[s] \in Nat /\ broadcasts'[s] \in Int
    BY <1>1, <1>2 DEF Broadcast, TypeOK
  <2>3. \A u : Asked(u) => Asked(u)'
    BY <2>1, <2>2 DEF Asked
  <2>4. Asked(Uuid[r])'
    BY <2>1 DEF Asked
  <2> QED
    BY <1>2, <2>3, <2>4 DEF Broadcast, Msg
<1>3. ASSUME UNCHANGED broadcasts PROVE \A u : Asked(u) => Asked(u)'
  BY <1>3 DEF Asked
<1>4. ASSUME NEW r \in Requests, Broadcast(r),
             \A t \in NetThreads : pc'[t] = pc[t] /\ cur'[t] = cur[t]
      PROVE  AskedFirst'
  BY <1>1, <1>2, <1>4 DEF AskedFirst
<1>5. ASSUME UNCHANGED broadcasts, net' \subseteq net,
             \A t \in NetThreads : pc'[t] = "answer" => pc[t] = "answer" /\ cur'[t] = cur[t]
      PROVE  AskedFirst'
  BY <1>1, <1>3, <1>5 DEF AskedFirst
<1>6. CASE IoStep
  <2> PICK t \in IoThreads :
           \/ ContinueSend(t) \/ EraseTimedOut(t)
           \/ \E r \in Requests : Arrive(t, r) \/ RunTimer(t, r)
    BY <1>6 DEF IoStep
  <2>1. \A s \in NetThreads : pc'[s] = pc[s] /\ cur'[s] = cur[s]
    BY <1>1 DEF ContinueSend, Arrive, RunTimer, BeginInsert, EndInsert, SendMessage,
                ThrowBeforeSend, EraseTimedOut, RefuseRequest, ThrowInHandler,
                MakeSession, TimerAborted, RetryProposal, WriteTimeout, Goto,
                TypeOK, Threads
  <2>2. CASE SendMessage(t)
    <3>1. cur[t] \in Requests /\ Broadcast(cur[t])
      BY <2>2, CurIsRequest DEF SendMessage, Threads
    <3> QED
      BY <2>1, <3>1, <1>4
  <2>3. CASE \E r \in Requests : RetryProposal(t, r)
    BY <2>1, <2>3, <1>4 DEF RetryProposal
  <2>4. CASE ~SendMessage(t) /\ ~\E r \in Requests : RetryProposal(t, r)
    <3>1. UNCHANGED <<broadcasts, net>>
      BY <2>4 DEF ContinueSend, Arrive, RunTimer, BeginInsert, EndInsert,
                  ThrowBeforeSend, EraseTimedOut, RefuseRequest, ThrowInHandler,
                  MakeSession, TimerAborted, WriteTimeout
    <3> QED
      BY <2>1, <3>1, <1>5
  <2> QED
    BY <2>2, <2>3, <2>4
<1>7. CASE NetStep
  <2>1. ASSUME NEW t \in NetThreads, AnswerSession(t)
        PROVE  AskedFirst'
    <3>1. \A s \in NetThreads : pc'[s] = "answer" => pc[s] = "answer" /\ cur'[s] = cur[s]
      BY <2>1, <1>1 DEF AnswerSession, Goto, TypeOK, Threads
    <3> QED
      BY <2>1, <3>1, <1>5 DEF AnswerSession
  <2>2. ASSUME NEW t \in NetThreads, NEW m \in net,
               ReplyQueryMsg(t, m) \/ ReplyConsensusMsg(t, m)
        PROVE  AskedFirst'
    <3> DEFINE r == m_response_session[m.uuid]
    <3>1. UNCHANGED broadcasts /\ net' \subseteq net /\ Found(t, m.uuid)
      BY <2>2 DEF ReplyQueryMsg, ReplyConsensusMsg, Receive
    <3>2. Uuid[r] = m.uuid
      BY <2>2, <3>1, FoundSession DEF Threads
    <3>3. \A s \in NetThreads :
             \/ pc'[s] = pc[s] /\ cur'[s] = cur[s]
             \/ s = t /\ cur'[s] = r
      BY <2>2, <1>1 DEF ReplyQueryMsg, ReplyConsensusMsg, Goto, TypeOK, Threads
    <3>4. Asked(Uuid[r])
      BY <3>2, <1>1 DEF AskedFirst
    <3> QED
      BY <3>1, <3>3, <3>4, <1>1, <1>3 DEF AskedFirst
  <2>3. ASSUME NEW t \in NetThreads, NEW m \in net, ReplyUnmatched(t, m)
        PROVE  AskedFirst'
    BY <2>3, <1>5 DEF ReplyUnmatched, Receive
  <2> QED
    BY <1>7, <2>1, <2>2, <2>3 DEF NetStep, OnReply
<1>8. CASE Environment
  <2>1. ASSUME NEW m \in net, ServeRpcRequest(m) \/ ReachConsensus(m)
        PROVE  AskedFirst'
    <3>1. /\ UNCHANGED <<broadcasts, pc, cur>>
          /\ \A n \in net' : n \in net \/ n.uuid = m.uuid
      BY <2>1 DEF ServeRpcRequest, ReachConsensus, Msg
    <3> QED
      BY <3>1, <1>1, <1>3 DEF AskedFirst
  <2>2. CASE \/ \E r \in Requests : TimerExpires(r)
             \/ \E m \in net : LoseMessage(m)
             \/ Crash
    BY <2>2, <1>5 DEF TimerExpires, LoseMessage, Crash
  <2> QED
    BY <1>8, <2>1, <2>2 DEF Environment
<1> QED
  BY <1>6, <1>7, <1>8 DEF Next

LEMMA InitGInv == Init => GInv
<1> SUFFICES ASSUME Init PROVE GInv
  OBVIOUS
<1>1. HeldByTimer
  BY RequestAssumption
     DEF Init, HeldByTimer, Held, Registered, Threads
<1>2. SendingUnanswered /\ AskedFirst
  BY DEF Init, SendingUnanswered, AskedFirst, SendPc, Threads
<1> QED
  BY <1>1, <1>2 DEF GInv

LEMMA NextGInv ==
  ASSUME InsertBeforeExpiry
  PROVE  IInv /\ PInv /\ GInv /\ [Next]_vars => GInv'
<1> SUFFICES ASSUME IInv, PInv, GInv, [Next]_vars PROVE GInv'
  OBVIOUS
<1>1. CASE Next
  BY <1>1, HeldByTimerStep, SendingUnansweredStep, AskedFirstStep DEF GInv
<1>2. CASE UNCHANGED vars
  BY <1>2 DEF vars, GInv, HeldByTimer, SendingUnanswered, AskedFirst, Asked, Held,
              Registered, Live
<1> QED
  BY <1>1, <1>2

-----------------------------------------------------------------------------
(* The refinement mapping, and the step of the gateway a step is *)

\* What each of the possible Responses tells its client.
LEMMA SeesCases ==
  ASSUME NEW held \in BOOLEAN
  PROVE  /\ Sees(FALSE, <<>>, held) = "absent"
         /\ Sees(TRUE, <<>>, held) = IF held THEN "waiting" ELSE "dropped"
         /\ \A a \in Answer : Sees(TRUE, <<a>>, held) = a
         /\ Sees(TRUE, <<"reply", "timeout">>, held) = "reply_timeout"
BY DEF Sees, Answer

Told(r) ==
  /\ r \notin arrived => ClientSees(r) = "absent"
  /\ r \in arrived /\ body[r] = <<>> =>
       ClientSees(r) = IF Live(r) THEN "waiting" ELSE "dropped"
  /\ r \in arrived =>
       \A a \in Answer : body[r] = <<a>> => ClientSees(r) = a
  /\ body[r] = <<"reply", "timeout">> => ClientSees(r) = "reply_timeout"

\* HeldByTimer makes the client's view one of arrived, body and timer.
LEMMA ToldHolds ==
  ASSUME PInv, GInv, NEW r \in Requests
  PROVE  Told(r)
<1>1. r \notin arrived => body[r] = <<>>
  BY DEF PInv, Bodies
<1>2. body[r] = <<>> => Held(r) = Live(r)
  <2>1. body[r] = <<>> => (Held(r) <=> Live(r))
    BY DEF GInv, HeldByTimer, Held, Live
  <2>2. Held(r) \in BOOLEAN /\ Live(r) \in BOOLEAN
    BY DEF Held, Live
  <2> QED
    BY <2>1, <2>2
<1>3. Held(r) \in BOOLEAN /\ <<"reply", "timeout">> # <<>>
  BY DEF Held
<1>4. CASE r \notin arrived
  <2>1. (r \in arrived) = FALSE
    BY <1>4
  <2>2. ClientSees(r) = "absent"
    BY <1>1, <1>3, <1>4, <2>1, SeesCases DEF ClientSees
  <2>3. body[r] # <<"reply", "timeout">>
    BY <1>1, <1>3, <1>4
  <2> QED
    BY <1>4, <2>2, <2>3 DEF Told
<1>5. CASE r \in arrived
  <2>1. (r \in arrived) = TRUE
    BY <1>5
  <2>2. body[r] = <<>> => ClientSees(r) = IF Live(r) THEN "waiting" ELSE "dropped"
    BY <1>2, <1>3, <2>1, SeesCases DEF ClientSees
  <2>3. \A a \in Answer : body[r] = <<a>> => ClientSees(r) = a
    BY <1>3, <2>1, SeesCases DEF ClientSees
  <2>4. body[r] = <<"reply", "timeout">> => ClientSees(r) = "reply_timeout"
    BY <1>3, <2>1, SeesCases DEF ClientSees
  <2> QED
    BY <1>5, <2>2, <2>3, <2>4 DEF Told
<1> QED
  BY <1>4, <1>5

LEMMA ToldNext ==
  ASSUME PInv', GInv', NEW r \in Requests
  PROVE  Told(r)'
<1>1. r \notin arrived' => body'[r] = <<>>
  BY DEF PInv, Bodies
<1>2. body'[r] = <<>> => Held(r)' = Live(r)'
  <2>1. body'[r] = <<>> => (Held(r)' <=> Live(r)')
    BY DEF GInv, HeldByTimer, Held, Live
  <2>2. Held(r)' \in BOOLEAN /\ Live(r)' \in BOOLEAN
    BY DEF Held, Live
  <2> QED
    BY <2>1, <2>2
<1>3. Held(r)' \in BOOLEAN /\ <<"reply", "timeout">> # <<>>
  BY DEF Held
<1>4. CASE r \notin arrived'
  <2>1. (r \in arrived') = FALSE
    BY <1>4
  <2>2. ClientSees(r)' = "absent"
    BY <1>1, <1>3, <1>4, <2>1, SeesCases DEF ClientSees
  <2>3. body'[r] # <<"reply", "timeout">>
    BY <1>1, <1>3, <1>4
  <2> QED
    BY <1>4, <2>2, <2>3 DEF Told
<1>5. CASE r \in arrived'
  <2>1. (r \in arrived') = TRUE
    BY <1>5
  <2>2. body'[r] = <<>> => ClientSees(r)' = IF Live(r)' THEN "waiting" ELSE "dropped"
    BY <1>2, <1>3, <2>1, SeesCases DEF ClientSees
  <2>3. \A a \in Answer : body'[r] = <<a>> => ClientSees(r)' = a
    BY <1>3, <2>1, SeesCases DEF ClientSees
  <2>4. body'[r] = <<"reply", "timeout">> => ClientSees(r)' = "reply_timeout"
    BY <1>3, <2>1, SeesCases DEF ClientSees
  <2> QED
    BY <1>5, <2>2, <2>3, <2>4 DEF Told
<1> QED
  BY <1>4, <1>5

\* A client that is told nothing new.
LEMMA SameView ==
  ASSUME PInv, GInv, PInv', GInv', NEW r \in Requests,
         r \in arrived' <=> r \in arrived, body'[r] = body[r], Live(r)' <=> Live(r)
  PROVE  ClientSees(r)' = ClientSees(r)
<1>1. body[r] = <<>> => (Held(r)' <=> Held(r))
  BY DEF GInv, HeldByTimer, Held, Live
<1>2. r \notin arrived => body[r] = <<>>
  BY DEF PInv, Bodies
<1>3. Told(r) /\ Told(r)'
  BY ToldHolds, ToldNext
<1>4. /\ (r \in arrived') = (r \in arrived)
      /\ Held(r) \in BOOLEAN /\ Held(r)' \in BOOLEAN
  BY DEF Held
<1>5. CASE body[r] = <<>>
  BY <1>1, <1>4, <1>5 DEF ClientSees
<1>6. CASE body[r] # <<>>
  <2>1. \/ \E a \in Answer : body[r] = <<a>>
        \/ body[r] = <<"reply", "timeout">>
    BY <1>6 DEF PInv, Bodies, AnswersPossible, Answer
  <2>2. r \in arrived /\ r \in arrived'
    BY <1>2, <1>6
  <2>3. ASSUME NEW a \in Answer, body[r] = <<a>>
        PROVE  ClientSees(r)' = ClientSees(r)
    <3>1. body'[r] = <<a>>
      BY <2>3
    <3>2. ClientSees(r) = a
      BY <1>3, <2>2, <2>3 DEF Told
    <3>3. ClientSees(r)' = a
      BY <1>3, <2>2, <3>1 DEF Told
    <3> QED
      BY <3>2, <3>3
  <2>4. body[r] = <<"reply", "timeout">> => ClientSees(r)' = ClientSees(r)
    BY <1>3 DEF Told
  <2> QED
    BY <2>1, <2>3, <2>4
<1> QED
  BY <1>5, <1>6

\* All that a step of the gateway asks of a step that answers r.
LEMMA TellsOne ==
  ASSUME NEW r \in Requests, NEW from, NEW to,
         \A s \in Requests \ {r} : ClientSees(s)' = ClientSees(s),
         ClientSees(r) = from, ClientSees(r)' = to, UNCHANGED broadcasts
  PROVE  Gateway!Tell(r, from, to)
<1> DEFINE f == [s \in Requests |-> ClientSees(s)]
           g == [s \in Requests |-> ClientSees(s)']
<1>1. g = [f EXCEPT ![r] = to]
  OBVIOUS
<1>2. f[r] = from
  OBVIOUS
<1> QED
  BY <1>1, <1>2 DEF Gateway!Tell

LEMMA TellsNone ==
  ASSUME \A s \in Requests : ClientSees(s)' = ClientSees(s)
  PROVE  UNCHANGED [s \in Requests |-> ClientSees(s)]
OBVIOUS

\* send_request and the retry put a request to the consensus nodes.
LEMMA BroadcastIsAsk ==
  ASSUME TypeOK, NEW r \in Requests, Broadcast(r),
         \A s \in Requests : ClientSees(s)' = ClientSees(s),
         ClientSees(r) \in {"waiting", "reply"},
         broadcasts[r] < IF r \in TxRequests THEN 2 ELSE 1
  PROVE  Gateway!Ask(r)
BY TellsNone DEF Gateway!Ask, Gateway!Attempts, Broadcast

LEMMA GatewayIoStep ==
  ASSUME InsertBeforeExpiry, IInv, PInv, GInv, PInv', GInv', IoStep
  PROVE  [Gateway!Next]_(Gateway!vars)
<1> PICK t \in IoThreads :
         \/ ContinueSend(t) \/ EraseTimedOut(t)
         \/ \E r \in Requests : Arrive(t, r) \/ RunTimer(t, r)
  BY DEF IoStep
<1> USE RequestAssumption, ThreadAssumption
     DEF reqVars, threadVars, mapVars, sessionVars
<1>1. TypeOK /\ t \in Threads
  BY DEF IInv, Threads
<1>2. \A r \in Requests : Told(r) /\ Told(r)'
  BY ToldHolds, ToldNext
<1>3. ASSUME UNCHANGED <<arrived, body, timer>>
      PROVE  \A s \in Requests : ClientSees(s)' = ClientSees(s)
  BY <1>3, SameView DEF Live
<1>4. CASE BeginInsert(t) \/ EndInsert(t) \/ ThrowBeforeSend(t) \/ EraseTimedOut(t)
  <2>1. UNCHANGED <<arrived, body, timer, broadcasts>>
    BY <1>4 DEF BeginInsert, EndInsert, ThrowBeforeSend, EraseTimedOut
  <2> QED
    BY <1>3, <2>1, TellsNone DEF Gateway!vars
<1>5. CASE SendMessage(t)
  <2> PICK r \in Requests : r = cur[t]
    BY <1>1, <1>5, CurIsRequest DEF SendMessage
  <2>1. /\ r \in arrived /\ Broadcast(r)
        /\ UNCHANGED <<arrived, body, timer>>
    BY <1>1, <1>5, CurIsRequest DEF SendMessage
  <2>2. Held(r) /\ body[r] \in {<<>>, <<"reply">>} /\ broadcasts[r] = 0
    BY <1>5 DEF SendMessage, Held, GInv, SendingUnanswered, PInv, SendingFirst, SendPc
  <2>3. ClientSees(r) \in {"waiting", "reply"}
    BY <1>2, <2>1, <2>2 DEF Told, GInv, HeldByTimer, Answer
  <2>4. Gateway!Ask(r)
    BY <1>1, <1>3, <2>1, <2>2, <2>3, BroadcastIsAsk
  <2> QED
    BY <2>1, <2>4 DEF Gateway!Next
<1>6. ASSUME NEW r \in Requests,
             RefuseRequest(t, r) \/ ThrowInHandler(t, r) \/ MakeSession(t, r)
      PROVE  [Gateway!Next]_(Gateway!vars)
  <2>1. /\ r \notin arrived /\ arrived' = arrived \cup {r}
        /\ UNCHANGED broadcasts
        /\ body[r] = <<>> /\ ~Live(r)
    BY <1>6 DEF RefuseRequest, ThrowInHandler, MakeSession, PInv, Bodies, IInv,
                TableInv, Untouched, Live
  <2>2. ClientSees(r) = "absent"
    BY <1>2, <2>1 DEF Told
  <2>3. ASSUME NEW s \in Requests \ {r} PROVE ClientSees(s)' = ClientSees(s)
    <3>1. body'[s] = body[s] /\ timer'[s] = timer[s]
      BY <1>1, <1>6, WriteFills
         DEF RefuseRequest, ThrowInHandler, MakeSession, TypeOK, Answer
    <3> QED
      BY <2>1, <3>1, SameView DEF Live
  <2>4. CASE RefuseRequest(t, r)
    <3>1. body'[r] = <<"error">>
      BY <1>1, <2>1, <2>4, WriteFills, Appends DEF RefuseRequest, Answer
    <3>2. Gateway!Refuse(r)
      BY <1>2, <2>1, <2>2, <2>3, <3>1, TellsOne DEF Gateway!Refuse, Told, Answer
    <3> QED
      BY <3>2 DEF Gateway!Next
  <2>5. CASE ThrowInHandler(t, r)
    <3>1. body'[r] = <<>> /\ ~Live(r)'
      BY <2>1, <2>5 DEF ThrowInHandler, Live
    <3>2. Gateway!Drop(r)
      BY <1>2, <2>1, <2>2, <2>3, <3>1, TellsOne DEF Gateway!Drop, Told
    <3> QED
      BY <3>2 DEF Gateway!Next
  <2>6. CASE MakeSession(t, r)
    <3>1. body'[r] = <<>> /\ Live(r)'
      BY <1>1, <2>1, <2>6 DEF MakeSession, Live, TypeOK
    <3>2. Gateway!Accept(r)
      BY <1>2, <2>1, <2>2, <2>3, <3>1, TellsOne DEF Gateway!Accept, Told
    <3> QED
      BY <3>2 DEF Gateway!Next
  <2> QED
    BY <1>6, <2>4, <2>5, <2>6
<1>7. ASSUME NEW r \in Requests, TimerAborted(t, r)
      PROVE  [Gateway!Next]_(Gateway!vars)
  <2>1. ~Live(r) /\ ~Live(r)' /\ \A s \in Requests \ {r} : timer'[s] = timer[s]
    BY <1>1, <1>7 DEF TimerAborted, TypeOK, Live
  <2>2. \A s \in Requests : ClientSees(s)' = ClientSees(s)
    BY <1>7, <2>1, SameView DEF TimerAborted, Live
  <2> QED
    BY <1>7, <2>2, TellsNone DEF TimerAborted, Gateway!vars
<1>8. ASSUME NEW r \in Requests, RetryProposal(t, r)
      PROVE  [Gateway!Next]_(Gateway!vars)
  <2>1. Live(r) /\ Live(r)' /\ \A s \in Requests \ {r} : timer'[s] = timer[s]
    BY <1>1, <1>8 DEF RetryProposal, Fires, TypeOK, Live
  <2>2. \A s \in Requests : ClientSees(s)' = ClientSees(s)
    BY <1>8, <2>1, SameView DEF RetryProposal, Live
  <2>3. r \in arrived /\ body[r] \in {<<>>, <<"reply">>}
    BY <2>1 DEF PInv, Bodies, IInv, TableInv, Untouched, Live
  <2>4. ClientSees(r) \in {"waiting", "reply"}
    BY <1>2, <2>1, <2>3 DEF Told, Answer
  <2>5. broadcasts[r] = 1 /\ r \in TxRequests
    <3>1. ~Sending(r) /\ m_retry_num[r] > 0 /\ r \in TxRequests
      BY <1>8, SentBeforeExpiry DEF RetryProposal, Fires, RetryLeft
    <3> QED
      BY <2>1, <3>1 DEF PInv, Proposals, Counted
  <2>6. Gateway!Ask(r)
    BY <1>1, <1>8, <2>2, <2>4, <2>5, BroadcastIsAsk DEF RetryProposal
  <2> QED
    BY <2>6 DEF Gateway!Next
<1>9. ASSUME NEW r \in Requests, WriteTimeout(t, r)
      PROVE  [Gateway!Next]_(Gateway!vars)
  <2>1. /\ Live(r) /\ UNCHANGED <<arrived, broadcasts>> /\ "timeout" \in Answer
        /\ \A s \in Requests \ {r} : timer'[s] = timer[s]
    BY <1>1, <1>9 DEF WriteTimeout, Fires, TypeOK, Live, Answer
  <2>2. /\ body'[r] = Append(body[r], "timeout")
        /\ \A s \in Requests \ {r} : body'[s] = body[s]
    BY <1>1, <1>9, <2>1, WriteFills DEF WriteTimeout
  <2>3. \A s \in Requests \ {r} : ClientSees(s)' = ClientSees(s)
    BY <2>1, <2>2, SameView DEF Live
  <2>4. r \in arrived /\ body[r] \in {<<>>, <<"reply">>}
    BY <2>1 DEF PInv, Bodies, IInv, TableInv, Untouched, Live
  <2>5. r \in TxRequests => broadcasts[r] = Gateway!Attempts(r)
    <3>1. r \in TxRequests => ~(m_retry_num[r] > 0)
      BY <1>9 DEF WriteTimeout, RetryLeft
    <3> QED
      BY <2>1, <3>1 DEF PInv, Proposals, Counted, Gateway!Attempts
  <2>6. CASE body[r] = <<>>
    <3>1. ClientSees(r) = "waiting" /\ body'[r] = <<"timeout">>
      BY <1>2, <2>1, <2>2, <2>4, <2>6, Appends DEF Told
    <3>2. ClientSees(r)' = "timeout"
      BY <1>2, <2>1, <2>4, <3>1 DEF Told
    <3> QED
      BY <2>1, <2>3, <3>1, <3>2, TellsOne, <2>5 DEF Gateway!TimeOut, Gateway!Next
  <2>7. CASE body[r] = <<"reply">>
    <3>1. ClientSees(r) = "reply" /\ body'[r] = <<"reply", "timeout">>
      BY <1>2, <2>2, <2>4, <2>7, Appends DEF Told, Answer
    <3>2. ClientSees(r)' = "reply_timeout"
      BY <1>2, <3>1 DEF Told
    <3> QED
      BY <2>1, <2>3, <3>1, <3>2, TellsOne, <2>5 DEF Gateway!TimeOut, Gateway!Next
  <2> QED
    BY <2>4, <2>6, <2>7
<1> QED
  BY <1>4, <1>5, <1>6, <1>7, <1>8, <1>9 DEF ContinueSend, Arrive, RunTimer

LEMMA GatewayNetStep ==
  ASSUME IInv, PInv, GInv, PInv', GInv', NetStep
  PROVE  [Gateway!Next]_(Gateway!vars)
<1> USE RequestAssumption, ThreadAssumption
     DEF reqVars, threadVars, mapVars, sessionVars
<1>1. \A r \in Requests : Told(r) /\ Told(r)'
  BY ToldHolds, ToldNext
<1>2. ASSUME NEW t \in NetThreads, AnswerSession(t)
      PROVE  [Gateway!Next]_(Gateway!vars)
  <2> PICK r \in Requests : r = cur[t]
    BY <1>2, CurIsRequest DEF AnswerSession, Threads
  <2>1. /\ r \in arrived /\ r \in arrived'
        /\ Registered(r) /\ lock = t /\ "reply" \in Answer
    BY <1>2, CurIsRequest
       DEF AnswerSession, IInv, TableInv, Answering, ThreadInv, Locking, Threads,
           Answer
  <2>2. body[r] = <<>> /\ Live(r)
    BY <2>1 DEF PInv, RegisteredLive, IInv, ThreadInv, Locking, Threads
  <2>3. /\ body'[r] = <<"reply">>
        /\ \A s \in Requests \ {r} : body'[s] = body[s]
    BY <1>2, <2>1, <2>2, WriteFills, Appends DEF AnswerSession, IInv
  <2>4. \A s \in Requests \ {r} : timer'[s] = timer[s]
    BY <1>2 DEF AnswerSession, IInv, TypeOK
  <2>5. \A s \in Requests \ {r} : ClientSees(s)' = ClientSees(s)
    BY <1>2, <2>3, <2>4, SameView DEF AnswerSession, Live
  <2>6. ClientSees(r) = "waiting" /\ ClientSees(r)' = "reply"
    BY <1>1, <2>1, <2>2, <2>3 DEF Told
  <2>7. Gateway!Tell(r, "waiting", "reply")
    BY <1>2, <2>1, <2>5, <2>6, TellsOne DEF AnswerSession
  <2>8. Asked(Uuid[r])
    BY <1>2 DEF AnswerSession, GInv, AskedFirst
  <2>9. Gateway!Reply(r)
    BY <2>7, <2>8 DEF Gateway!Reply, Asked
  <2> QED
    BY <2>1, <2>9 DEF Gateway!Next
<1>3. ASSUME NEW t \in NetThreads, NEW m \in net, OnReply(t, m)
      PROVE  [Gateway!Next]_(Gateway!vars)
  <2>1. UNCHANGED <<arrived, body, timer, broadcasts>>
    BY <1>3 DEF OnReply, ReplyQueryMsg, ReplyConsensusMsg, ReplyUnmatched
  <2> QED
    BY <2>1, SameView, TellsNone DEF Live, Gateway!vars
<1> QED
  BY <1>2, <1>3 DEF NetStep

LEMMA GatewayEnvironment ==
  ASSUME IInv, PInv, GInv, PInv', GInv', Environment
  PROVE  [Gateway!Next]_(Gateway!vars)
<1> USE DEF reqVars, threadVars, mapVars, sessionVars
<1>1. UNCHANGED <<arrived, body, broadcasts>>
  BY DEF Environment, TimerExpires, ServeRpcRequest, ReachConsensus, LoseMessage, Crash
<1>2. \A s \in Requests : Live(s)' <=> Live(s)
  BY DEF Environment, TimerExpires, ServeRpcRequest, ReachConsensus, LoseMessage,
         Crash, IInv, TypeOK, Live
<1> QED
  BY <1>1, <1>2, SameView, TellsNone DEF Gateway!vars

\* The gateway invariants hold together with the others.
LEMMA GatewayInvariant ==
  ASSUME InsertBeforeExpiry PROVE Spec => [](IInv /\ PInv /\ GInv)
<1>1. Init => IInv /\ PInv /\ GInv
  BY InitIInv, InitPInv, InitGInv
<1>2. (IInv /\ PInv /\ GInv) /\ [Next]_vars => (IInv /\ PInv /\ GInv)'
  BY NextIInv, NextPInv, NextGInv
<1> QED
  BY <1>1, <1>2, PTL DEF Spec

\* XForwardManager implements RpcGateway: whatever is lost, duplicated or late,
\* and however the io and network threads interleave, each client is told what
\* the gateway may tell it.
THEOREM ForwardIsGateway ==
  ASSUME InsertBeforeExpiry PROVE Spec => GatewaySpec
<1>1. Init => Gateway!Init
  <2> SUFFICES ASSUME Init PROVE Gateway!Init
    OBVIOUS
  <2>1. \A r \in Requests : ClientSees(r) = "absent"
    BY InitPInv, InitGInv, ToldHolds DEF Init, Told
  <2> QED
    BY <2>1 DEF Init, Gateway!Init
<1>2. IInv /\ PInv /\ GInv /\ (IInv /\ PInv /\ GInv)' /\ [Next]_vars
        => [Gateway!Next]_(Gateway!vars)
  <2> SUFFICES ASSUME IInv, PInv, GInv, PInv', GInv', [Next]_vars
               PROVE  [Gateway!Next]_(Gateway!vars)
    OBVIOUS
  <2>1. CASE Next
    BY <2>1, GatewayIoStep, GatewayNetStep, GatewayEnvironment DEF Next
  <2>2. CASE UNCHANGED vars
    BY <2>2, SameView, TellsNone DEF vars, Live, Gateway!vars
  <2> QED
    BY <2>1, <2>2
<1> QED
  BY <1>1, <1>2, GatewayInvariant, PTL DEF Spec, GatewaySpec, Gateway!Spec
==============================================================================
