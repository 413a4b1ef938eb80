----------------------------- MODULE HandlerGate -----------------------------
(***************************************************************************)
(* What ScopeRunner promises the server and the client that share one with *)
(* their connections (utility.hpp:317): handlers come and go while the     *)
(* gate is open, and once it is closed nobody is inside and nobody enters. *)
(***************************************************************************)
CONSTANT Handlers   \* asio handler invocations; each runs once

VARIABLES
  open,    \* stop has not taken effect
  inside,  \* invocations that hold a SharedLock
  over     \* invocations that are finished or were turned away

vars == <<open, inside, over>>

Init == open = TRUE /\ inside = {} /\ over = {}

Enter(h) == /\ open /\ h \notin inside \cup over
            /\ inside' = inside \cup {h}
            /\ UNCHANGED <<open, over>>

Leave(h) == /\ h \in inside
            /\ inside' = inside \ {h}
            /\ over' = over \cup {h}
            /\ UNCHANGED open

TurnAway(h) == /\ ~open /\ h \notin inside \cup over
               /\ over' = over \cup {h}
               /\ UNCHANGED <<open, inside>>

Close == /\ open /\ inside = {}
         /\ open' = FALSE
         /\ UNCHANGED <<inside, over>>

Next == Close \/ \E h \in Handlers : Enter(h) \/ Leave(h) \/ TurnAway(h)

Spec == Init /\ [][Next]_vars
==============================================================================
