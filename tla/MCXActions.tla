----------------------------- MODULE MCXActions -----------------------------
(* Small instances of XActionManager: four-bit integers, two accounts. *)
EXTENDS XActionManager, TLC

CONSTANTS w1, w2, g, a

Q(action) == [action |-> action, account |-> a, destination |-> g, key |-> "$$",
              amount |-> 1, numeric |-> TRUE, digest |-> 0, signed |-> TRUE,
              page |-> "small"]

Give == [Q("give") EXCEPT !.destination = a]

Gifts == {Give, Q("transfer_in"), Q("transfer_out"), [Q("transfer_out") EXCEPT !.digest = 1]}

Overdrafts == {[Q("transfer_out") EXCEPT !.amount = n] : n \in {-8, -1, 0, 1, 7}}

\* Each kind of request, and some that the rules refuse.
Served == Gifts
   \cup {Q("account_info"), Q("exec_contract"), Q("unknown"),
         [Q("account_create") EXCEPT !.signed = FALSE]}

Symmetry == Permutations(Workers)
=============================================================================
