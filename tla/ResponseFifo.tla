---------------------------- MODULE ResponseFifo ----------------------------
(***************************************************************************)
(* What Response::send promises to a resource function: the parts it sends *)
(* are called back once each, in the order in which they were sent; after  *)
(* one has failed no other succeeds; and once the server is destroyed      *)
(* nothing is called back any more.                                        *)
(***************************************************************************)
EXTENDS Naturals, Sequences

VARIABLES
  sent,    \* how many parts were given to send()
  called,  \* for each callback that was called: did its part succeed
  gate     \* "shut": the server is destroyed

vars == <<sent, called, gate>>

Init == sent = 0 /\ called = <<>> /\ gate = "open"

Outstanding == sent - Len(called)

Send == sent' = sent + 1 /\ UNCHANGED <<called, gate>>

Succeed ==
  /\ gate = "open" /\ Outstanding > 0 /\ \A i \in DOMAIN called : called[i]
  /\ called' = Append(called, TRUE)
  /\ UNCHANGED <<sent, gate>>

\* An error is given to several parts at once.
FailParts(n) ==
  /\ gate = "open" /\ n <= Outstanding
  /\ called' = called \o [i \in 1..n |-> FALSE]
  /\ UNCHANGED <<sent, gate>>

Shut == gate' = "shut" /\ UNCHANGED <<sent, called>>

\* The next Response on the connection: nothing of the last one is outstanding.
NextResponse == /\ Outstanding = 0 /\ sent' = 0 /\ called' = <<>>
                /\ UNCHANGED gate

Next == \/ Send
        \/ Succeed
        \/ \E n \in 1..Outstanding : FailParts(n)
        \/ Shut
        \/ NextResponse

Spec == Init /\ [][Next]_vars
=============================================================================
