--------------------------- MODULE XForwardGateway ---------------------------
(***************************************************************************)
(* XForwardManager implements RpcGateway: the answer is what the Response  *)
(* holds, or what holds the Response.                                      *)
(***************************************************************************)
EXTENDS XForwardManager

\* What a client is told: nothing yet, the answers its Response holds, or, when
\* that is released empty, nothing for good.
Sees(came, said, held) ==
  CASE ~came                           -> "absent"
    [] said = <<"reply", "timeout">>   -> "reply_timeout"
    [] Len(said) = 1                   -> said[1]
    [] came /\ said = <<>>             -> IF held THEN "waiting" ELSE "dropped"

ClientSees(r) == Sees(r \in arrived, body[r], Held(r))

Gateway == INSTANCE RpcGateway
             WITH answer <- [r \in Requests |-> ClientSees(r)],
                  asked <- broadcasts

\* The client of an edge node sees what the gateway allows: the consensus reply
\* or the timeout for the request it made, an answered request never answered
\* anew, a reply only to what was asked, a transaction given up only after its
\* retry (xforward_msg_handler::send_request to the session's last handler).
GatewaySpec == Gateway!Spec
==============================================================================
