----------------------------- MODULE RpcGateway -----------------------------
(***************************************************************************)
(* What an RPC client may see of an edge node, without sessions, timers,   *)
(* threads or messages.  A request is accepted or refused; an accepted one *)
(* is put to the consensus nodes and gets their reply, or a timeout, and   *)
(* possibly the timeout text after the reply.  A transaction is put twice, *)
(* at most, and is not reported as timed out before.                       *)
(***************************************************************************)
EXTENDS Integers

CONSTANTS Requests, TxRequests, Uuid

VARIABLES
  answer,  \* what the client of each request has been told
  asked    \* how often each request was put to the consensus nodes

vars == <<answer, asked>>

Answers == {"absent", "waiting", "error", "dropped", "reply", "timeout",
            "reply_timeout"}
Attempts(r) == IF r \in TxRequests THEN 2 ELSE 1

Init == /\ answer = [r \in Requests |-> "absent"]
        /\ asked = [r \in Requests |-> 0]

Tell(r, from, to) == /\ answer[r] = from
                     /\ answer' = [answer EXCEPT ![r] = to]
                     /\ UNCHANGED asked

Refuse(r) == Tell(r, "absent", "error")
Drop(r)   == Tell(r, "absent", "dropped")
Accept(r) == Tell(r, "absent", "waiting")

\* A request may still be put to the consensus nodes when the reply to another
\* one with the same uuid has answered it.
Ask(r) == /\ answer[r] \in {"waiting", "reply"}
          /\ asked[r] < Attempts(r)
          /\ asked' = [asked EXCEPT ![r] = @ + 1]
          /\ UNCHANGED answer

\* No reply comes out of nothing.
Reply(r) == /\ \E s \in Requests : Uuid[s] = Uuid[r] /\ asked[s] > 0
            /\ Tell(r, "waiting", "reply")

TimeOut(r) == /\ r \in TxRequests => asked[r] = Attempts(r)
              /\ \/ Tell(r, "waiting", "timeout")
                 \/ Tell(r, "reply", "reply_timeout")

Next == \E r \in Requests : \/ Refuse(r) \/ Drop(r) \/ Accept(r)
                            \/ Ask(r) \/ Reply(r) \/ TimeOut(r)

Spec == Init /\ [][Next]_vars
==============================================================================
