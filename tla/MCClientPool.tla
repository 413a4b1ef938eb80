---------------------------- MODULE MCClientPool ----------------------------
(* Small instances of ClientPool. *)
EXTENDS ClientPool, TLC

Http == [route |-> "http", sync |-> FALSE, timeout |-> TRUE, timeout_connect |-> FALSE]

SyncClient == {[Http EXCEPT !.sync = TRUE]}

Clients == SyncClient \cup
  {Http, [Http EXCEPT !.route = "proxied"],
   [Http EXCEPT !.route = "https", !.timeout = FALSE, !.timeout_connect = TRUE]}

Symmetry == Permutations(Requests) \cup Permutations(Conns)
=============================================================================
