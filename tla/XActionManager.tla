--------------------------- MODULE XActionManager ---------------------------
(***************************************************************************)
(* What a node does with a request it serves itself: the rules             *)
(* (xrule_manager.cpp), the actions (xaction_manager.cpp) and the routes   *)
(* that call them: http (xhttp_server::deal_msg), https                    *)
(* (xhttps_server::start_service), consensus (xforward_msg_handler::       *)
(* deal_msg, for a forwarded query) and edge (send_request, transactions   *)
(* only).                                                                  *)
(*                                                                         *)
(* The account store is written by the consensus of the chain while a      *)
(* request is being served.  Every call of the store is one step.          *)
(***************************************************************************)
EXTENDS Integers, Sequences, FiniteSets

CONSTANTS
  Workers,       \* threads that serve requests
  Routes,        \* how requests come in
  Requests,      \* the requests clients may make: see Request
  Accounts, genesis,
  Balances,      \* balances an account may start with
  Word,          \* 2^64 in the code: unsigned integers are taken modulo Word
  MaxProposals, MaxHash  \* bounds

ASSUME GenesisAssumption == genesis \in Accounts
ASSUME RoutesAssumption == Routes \subseteq {"http", "https", "consensus", "edge"}
ASSUME NumbersAssumption == /\ Balances \subseteq 0..(Word - 1) /\ Word \in Nat
                            /\ {MaxProposals, MaxHash} \subseteq Nat

VARIABLES
  store,      \* the accounts, as the store shows them
  worker,     \* the request each thread serves, and how far it is
  proposals   \* proposal messages, in the order they were broadcast

vars == <<store, worker, proposals>>

Queries   == {"account_balance", "account_info", "account_history",
              "account_pending", "last_digest", "tps_query", "query_property",
              "query_all_property", "query_online_tx", "query_reward"}
Transfers == {"transfer_out", "transfer_in", "give"}
Txs       == Transfers \cup {"account_create", "set_property"}
Contracts == {"publish_contract", "exec_contract"}

\* Null is a missing JSON field.
Null == "null"
Request == [action      : Queries \cup Txs \cup Contracts \cup {"unknown"},
            account     : Accounts \cup {Null},  \* or source
            destination : Accounts \cup {Null},
            key         : {"@", "$$", Null},     \* property_key: valid, invalid
            amount      : Int,
            numeric     : BOOLEAN,               \* stoll accepts the amount
            digest      : Nat,                   \* last_digest
            signed      : BOOLEAN,               \* tx_hash_and_sign_verify
            page        : {"small", "large"}]    \* per_page, to LARGEST_PER_PAGE

ASSUME RequestAssumption ==
  \A q \in Requests :
    /\ q.action \in Queries \cup Txs \cup Contracts \cup {"unknown"}
    /\ q.account \in Accounts \cup {Null} /\ q.destination \in Accounts \cup {Null}
    /\ q.key \in {"@", "$$", Null} /\ q.page \in {"small", "large"}
    /\ q.digest \in Nat /\ {q.signed, q.numeric} \subseteq BOOLEAN
    /\ q.amount \in -(Word \div 2)..(Word \div 2 - 1)

Known(a) == a \in Accounts /\ store[a].exists
Given(s, a) == a \in Accounts /\ (s[a].received > 0 \/ s[a].settled)

-----------------------------------------------------------------------------
(* xrule_manager: the checks of each action, one call of the store in each *)

\* Mutants: the settled transfers are read before the pending ones; no check of
\* the last hash.
SettledFirst == <<"exist", "settle", "receive">>
GiveChecks   == <<"exist", "receive", "settle">>
NoHashCheck == <<"fields", "balance">>
TransferOutChecks == <<"fields", "balance", "last_hash">>

Checks(action) ==
  CASE action \in {"account_balance", "account_info", "account_history",
                   "set_property", "unknown"} -> <<"fields">>
    [] action = "account_create"              -> <<"fields", "new">>
    [] action = "transfer_out"                -> TransferOutChecks
    [] action = "transfer_in"                 -> <<"fields", "last_hash">>
    [] action = "give"                        -> GiveChecks
    [] OTHER                                  -> <<>>

\* Checks that need no store.  A missing key, digest or page is an empty value.
Fields(q) ==
  CASE q.action = "unknown" -> "action_not_find"
    [] q.action = "set_property" ->
         IF q.key = "@" THEN "ok" ELSE "property_key_not_valid"
    [] q.action \notin {"unknown", "set_property"} ->
         IF q.account = Null \/ (q.action = "transfer_out" /\ q.destination = Null)
         THEN "account_is_empty"
         ELSE CASE q.action = "account_balance" /\ q.key = Null -> "property_key_is_empty"
                [] q.action = "account_history" /\ q.page = "large" -> "per_page_too_large"
                [] q.action = "transfer_out" /\ q.destination = q.account ->
                     "source_and_destination_same"
                [] OTHER -> "ok"

\* stoull(balance) < out_amount && out_amount <= 0: the comparison is unsigned.
NotEnough(balance, amount) == balance < amount % Word /\ amount <= 0

\* stoll throws on what is not a number.
Balance(q) ==
  IF ~Known(q.account) THEN "account_is_empty"
  ELSE IF q.key # "$$" THEN "property_key_is_not_exist"
  ELSE IF ~q.numeric THEN "threw"
  ELSE IF NotEnough(store[q.account].balance, q.amount) THEN "balance_is_not_enough"
  ELSE "ok"

\* get_last_hash fails for an account that does not exist, and the check passes.
LastHash(q) == IF Known(q.account) /\ q.digest # store[q.account].last_hash
               THEN "last_hash_is_not_equal" ELSE "ok"

Check(name, q) ==
  CASE name = "fields"    -> Fields(q)
    [] name = "balance"   -> Balance(q)
    [] name = "last_hash" -> LastHash(q)
    [] name = "new"       -> IF Known(q.account) THEN "account_is_exist" ELSE "ok"
    [] name = "exist"     -> IF Known(q.destination) THEN "ok" ELSE "account_is_not_exist"
    [] name = "receive"   -> IF q.destination \in Accounts /\ store[q.destination].received > 0
                             THEN "already_give" ELSE "ok"
    [] name = "settle"    -> IF q.destination \in Accounts /\ store[q.destination].settled
                             THEN "already_give" ELSE "ok"

-----------------------------------------------------------------------------
(* xaction_manager: what an action may set as the response code *)

\* The store decides what a query finds; "none" leaves the response empty.
QueryCodes(q) ==
  CASE q.action \in {"last_digest", "query_all_property"} ->
         IF Known(q.account) THEN {"ok"} ELSE {"account_is_not_exist"}
    [] q.action \in {"account_balance", "query_property"} ->
         IF Known(q.account) THEN {"ok", "property_key_is_not_exist"}
                             ELSE {"account_is_not_exist"}
    [] q.action \in {"query_online_tx", "query_reward"} ->
         {"ok", "server_unknown_error"}
    [] q.action \in {"account_history", "account_pending", "tps_query"} -> {"ok"}

\* The transaction an action makes from its request.
Sender(q) == IF q.action = "give" THEN genesis ELSE q.account
Receiver(q) == IF q.action \in {"transfer_out", "give"} THEN q.destination ELSE q.account
Digest(q) == IF q.action = "give" THEN store[genesis].last_hash ELSE q.digest

-----------------------------------------------------------------------------
(* The routes *)

Idle == [pc |-> "idle"]

Init == /\ store \in [Accounts -> [exists : BOOLEAN, balance : Balances, last_hash : {0},
                                   received : {0}, settled : {FALSE}]]
        /\ store[genesis].exists
        /\ worker = [w \in Workers |-> Idle]
        /\ proposals = <<>>

Step(w, k) == worker' = [worker EXCEPT ![w] = k]
Reply(code) == [pc |-> "reply", code |-> code]

\* The edge route has no rules.
Rules(route, action) == IF route = "edge" THEN <<>> ELSE Checks(action)

\* An edge node forwards a query (XForwardManager), to the consensus route.
Arrive(w, route, q) ==
  LET todo == Rules(route, q.action) IN
  /\ worker[w].pc = "idle"
  /\ route = "edge" => q.action \in Txs \cup Contracts
  /\ route = "consensus" => q.action \in Queries
  /\ Step(w, [pc |-> IF todo = <<>> THEN "action" ELSE "rule", route |-> route,
              q |-> q, todo |-> todo, began |-> store])
  /\ UNCHANGED <<store, proposals>>

\* A check has passed.  Mutant: one more is looked for after the last.
PassedTooFar(k) == [k EXCEPT !.todo = Tail(@),
                             !.pc = IF k.todo = <<>> THEN "action" ELSE "rule"]
Passed(k) == [k EXCEPT !.todo = Tail(@),
                       !.pc = IF Len(k.todo) = 1 THEN "action" ELSE "rule"]

\* The next check of filter(): the first that fails gives the answer.
Filter(w) ==
  LET k == worker[w]  code == Check(Head(k.todo), k.q) IN
  /\ k.pc = "rule"
  /\ Step(w, IF code = "ok" THEN Passed(k) ELSE Reply(code))
  /\ UNCHANGED <<store, proposals>>

\* What the client of a failed or an empty action is told.
Failed(route, code) == IF route \in {"https", "edge"} THEN "server_unknown_error" ELSE code

\* What a client may be told of a query.  A contract action returns no value at all:
\* it may count as done or as failed, with an empty response.
QueryAnswers(k) ==
  IF k.q.action \in Contracts
  THEN {Failed(k.route, "none")} \cup (IF k.route = "edge" THEN {} ELSE {"none"})
  ELSE {IF code = "ok" THEN code ELSE Failed(k.route, code) : code \in QueryCodes(k.q)}

\* do_action of a query.
Query(w) ==
  LET k == worker[w] IN
  /\ k.pc = "action" /\ k.q.action \in (Queries \ {"account_info"}) \cup Contracts
  /\ \E code \in QueryAnswers(k) : Step(w, Reply(code))
  /\ UNCHANGED <<store, proposals>>

\* query_account_info says give = 0 at once when a transfer to the account is settled;
\* otherwise it goes on to those that are pending.  Mutant: it does so always.
PendingOnly(q) == "info"
AfterSettled(q) == IF store[q.account].settled THEN "reply" ELSE "info"

AccountInfo(w) ==
  LET k == worker[w] IN
  /\ k.pc = "action" /\ k.q.action = "account_info"
  /\ Step(w, IF ~Known(k.q.account) THEN Reply(Failed(k.route, "account_is_not_exist"))
             ELSE IF AfterSettled(k.q) = "reply" THEN Reply("ok")
             ELSE [k EXCEPT !.pc = "info"])
  /\ UNCHANGED <<store, proposals>>

\* "free" is an answer with give = 1.
ReadPending(w) ==
  LET k == worker[w] IN
  /\ k.pc = "info"
  /\ Step(w, Reply(IF store[k.q.account].received > 0 THEN "ok" ELSE "free"))
  /\ UNCHANGED <<store, proposals>>

\* do_action of a transaction: made, signed and verified.  The https route stops
\* here and answers with an empty response.
MakeTransaction(w) ==
  LET k == worker[w]  valid == k.q.action = "give" \/ k.q.signed IN
  /\ k.pc = "action" /\ k.q.action \in Txs
  /\ Step(w, CASE ~valid -> Reply(Failed(k.route, "signature_verify_fail"))
              [] valid /\ k.route = "https" -> Reply("none")
              [] valid /\ k.route # "https" ->
                   [pc |-> "propose", route |-> k.route, q |-> k.q, began |-> k.began,
                    digest |-> Digest(k.q)])
  /\ UNCHANGED <<store, proposals>>

\* do_transaction of http, and the end of send_request.
Propose(w) ==
  LET k == worker[w] IN
  /\ k.pc = "propose" /\ Len(proposals) < MaxProposals
  /\ proposals' = Append(proposals,
       [q |-> k.q, route |-> k.route, digest |-> k.digest,
        retry |-> 0, committed |-> FALSE])
  /\ Step(w, Reply(IF k.route = "http" THEN "ok" ELSE "none"))
  /\ UNCHANGED store

\* The Response is written (or on_error called) and the thread is free.
Respond(w) == /\ worker[w].pc = "reply"
              /\ Step(w, Idle)
              /\ UNCHANGED <<store, proposals>>

\* The message of a retry: the same transaction.  Mutant: it is made again.
MadeAgain(i) == [proposals[i] EXCEPT !.retry = i, !.committed = FALSE,
                                     !.digest = Digest(proposals[i].q)]
Again(i) == [proposals[i] EXCEPT !.retry = i, !.committed = FALSE]

\* The timer handler of an edge session proposes once more; see XForwardManager.
Retry(i) ==
  /\ proposals[i].route = "edge" /\ proposals[i].retry = 0
  /\ \A j \in DOMAIN proposals : proposals[j].retry # i
  /\ Len(proposals) < MaxProposals
  /\ proposals' = Append(proposals, Again(i))
  /\ UNCHANGED <<store, worker>>

-----------------------------------------------------------------------------
(* The chain, outside this repository: a transaction is accepted on top of the last *)
(* hash of its sender's account, if at all.                                         *)

Accepted(p) ==
  LET s == Sender(p.q) IN
  IF p.q.action = "account_create" THEN s \in Accounts /\ ~store[s].exists
  ELSE /\ Known(s) /\ Known(Receiver(p.q))
       /\ p.digest = store[s].last_hash
       /\ p.q.action = "transfer_in" => store[s].received > 0

Effect(p, a) ==
  LET x == store[a]
      sent == IF a = Sender(p.q) /\ p.q.action # "account_create"
              THEN [x EXCEPT !.last_hash = @ + 1] ELSE x
  IN CASE p.q.action = "account_create" /\ a = Sender(p.q) -> [sent EXCEPT !.exists = TRUE]
       [] p.q.action \in {"transfer_out", "give"} /\ a = Receiver(p.q) ->
            [sent EXCEPT !.received = @ + 1]
       [] p.q.action = "transfer_in" /\ a = Sender(p.q) ->
            [sent EXCEPT !.received = @ - 1, !.settled = TRUE]
       [] OTHER -> sent

Commit(i) ==
  LET p == proposals[i] IN
  /\ ~p.committed /\ Accepted(p)
  /\ store[Sender(p.q)].last_hash < MaxHash
  /\ store' = [a \in Accounts |-> Effect(p, a)]
  /\ proposals' = [proposals EXCEPT ![i].committed = TRUE]
  /\ UNCHANGED worker

Serve(w) == \/ \E route \in Routes, q \in Requests : Arrive(w, route, q)
            \/ Filter(w) \/ Query(w)
            \/ AccountInfo(w) \/ ReadPending(w) \/ MakeTransaction(w) \/ Propose(w) \/ Respond(w)

Next == \/ \E w \in Workers : Serve(w)
        \/ \E i \in DOMAIN proposals : Retry(i) \/ Commit(i)

Spec == Init /\ [][Next]_vars
-----------------------------------------------------------------------------
(* Properties *)

Codes == {"ok", "free", "none", "threw", "action_not_find", "account_is_empty",
          "property_key_is_empty", "account_is_not_exist", "property_key_is_not_exist", "account_is_exist",
          "signature_verify_fail", "balance_is_not_enough",
          "source_and_destination_same", "last_hash_is_not_equal",
          "per_page_too_large", "property_key_not_valid", "already_give",
          "server_unknown_error"}

\* Types, that a thread in its filter has a check left, and that a reply is a known code.
TypeOK ==
  /\ \A a \in Accounts : /\ store[a].exists \in BOOLEAN /\ store[a].balance \in Balances
                          /\ store[a].last_hash \in 0..MaxHash
                          /\ store[a].received \in Nat /\ store[a].settled \in BOOLEAN
  /\ \A w \in Workers :
       /\ worker[w].pc \in {"idle", "rule", "action", "info", "propose", "reply"}
       /\ worker[w].pc = "rule" => Len(worker[w].todo) > 0
       /\ worker[w].pc = "reply" => worker[w].code \in Codes
  /\ Len(proposals) \in 0..MaxProposals

\* A give that passed give_filter is for an account that nothing had been transferred
\* to when the filter began, although the transfer may move from the pending list to
\* the settled one while the two are read.
GiftSeen ==
  \A w \in Workers :
    worker[w].pc = "action" /\ worker[w].route \in {"http", "https"}
      /\ worker[w].q.action = "give" =>
    ~Given(worker[w].began, worker[w].q.destination)

\* account_info shows an account as free for a gift only when nothing had been settled
\* for it before the request came and nothing is pending for it at the end: only a
\* transfer that moves from one list to the other in between is missed.
InfoMissesOnlyMoving ==
  [][\A w \in Workers :
       worker[w].pc = "info" /\ worker'[w] = Reply("free") =>
         LET mine == worker[w].q.account IN
         ~worker[w].began[mine].settled /\ store[mine].received = 0]_vars

\* The digest of a transfer that the http route is to propose is one of the last hashes its
\* sender had while the request was served (it moves by one): neither an older one nor one
\* the account never had gets there.  Only a transfer_in by an account that was unknown when
\* the request came may have any digest: get_last_hash fails, and the check passes.
NoStaleProposal ==
  \A w \in Workers :
    LET k == worker[w]  s == Sender(k.q) IN
    k.pc = "propose" /\ k.route = "http" /\ k.q.action \in Transfers =>
      /\ s \in Accounts
      /\ \/ Known(s) /\ k.digest \in k.began[s].last_hash..store[s].last_hash
         \/ k.q.action = "transfer_in" /\ ~k.began[s].exists

\* A retry is for a proposal that was lost: when it was only late, and the reply with
\* it, the transaction is not executed twice.
RetryHarmless ==
  \A i \in DOMAIN proposals : proposals[i].retry # 0 =>
    ~(proposals[i].committed /\ proposals[proposals[i].retry].committed)

\* "balance is not enough" (xserver_response_code.cpp:43): a transfer of more than the
\* account has does not pass transfer_out_filter.
OverdraftRefused ==
  \A w \in Workers :
    worker[w].pc = "action" /\ worker[w].route \in {"http", "https"}
      /\ worker[w].q.action = "transfer_out" =>
    worker[w].q.amount <= store[worker[w].q.account].balance

\* "already give" (xserver_response_code.cpp:61): an account is given to once.
GivenOnce ==
  \A i, j \in DOMAIN proposals :
    /\ i # j /\ proposals[i].q.action = "give" /\ proposals[j].q.action = "give"
    /\ proposals[i].q.destination = proposals[j].q.destination
    => ~(proposals[i].committed /\ proposals[j].committed)
=============================================================================
