----------------------------- MODULE MCXService -----------------------------
(* The small instance of XActionManager, and one of HistoryPaging. *)
EXTENDS MCXActions, HistoryPaging

(* An account's history is read while no request of XActionManager is served. *)

NoRequests == proposals = <<>> /\ \A w \in Workers : worker[w] = Idle
NoHistory  == /\ settled = <<>> /\ answer = NoAnswer /\ paging = NoPaging
              /\ \A p \in Parties : tag[p] = "old"

ServiceInit == Init /\ HistoryInit
ServiceNext == \/ NoHistory /\ Next /\ UNCHANGED history
               \/ NoRequests /\ HistoryNext /\ UNCHANGED vars

ServiceSpec == ServiceInit /\ [][ServiceNext]_<<vars, history>>
=============================================================================
