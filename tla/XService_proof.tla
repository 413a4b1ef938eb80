--------------------------- MODULE XService_proof ---------------------------
(***************************************************************************)
(* Proofs about XActionManager and HistoryPaging, for any number of        *)
(* threads, accounts, requests, proposals and blocks.                      *)
(***************************************************************************)
EXTENDS XActionManager, HistoryPaging, SequenceTheorems, FiniteSetTheorems, TLAPS

(* The inductive invariant: what is known of a request while it is served, relative to *)
(* the store it began with, and of a proposal that was accepted.                       *)

CheckNames == {"fields", "balance", "last_hash", "new", "exist", "receive", "settle"}

Account == [exists : BOOLEAN, balance : Balances, last_hash : 0..MaxHash,
            received : Nat, settled : BOOLEAN]
Store == [Accounts -> Account]

Serving == [pc : {"rule", "action", "info"}, route : Routes, q : Requests,
            todo : Seq(CheckNames), began : Store]
Proposing == [pc : {"propose"}, route : Routes, q : Requests, began : Store,
              digest : Nat]
Replying == [pc : {"reply"}, code : Codes]
Working == [pc : {"idle"}] \cup Serving \cup Proposing \cup Replying

Proposal == [q : Requests, route : Routes, digest : Nat, retry : Nat,
             committed : BOOLEAN]

\* The store only grows: what was there when a request began has not gone.
Grown(s, t) ==
  \A a \in Accounts : /\ s[a].exists => t[a].exists
                      /\ s[a].last_hash <= t[a].last_hash
                      /\ s[a].settled => t[a].settled
                      /\ Given(s, a) => Given(t, a)

\* The checks that are left of a gift, and of the other transfers.
ReceiveOn  == <<"receive", "settle">>
SettleOn   == <<"settle">>
BalanceOn  == <<"balance", "last_hash">>
LastHashOn == <<"last_hash">>
InChecks   == <<"fields", "last_hash">>

\* The checks a request still has to pass are the last ones of its action.
Due(k) ==
  k.pc = "rule" =>
    /\ k.todo # <<>>
    /\ k.q.action = "give" => k.todo \in {GiveChecks, ReceiveOn, SettleOn}
    /\ k.q.action = "transfer_out" => k.todo \in {TransferOutChecks, BalanceOn, LastHashOn}
    /\ k.q.action = "transfer_in" => k.todo \in {InChecks, LastHashOn}

\* What was pending when a gift's filter began has been settled by the time it
\* looks there; behind the filter, there was nothing.
Fresh(k, s) ==
  k.q.action = "give" =>
    /\ k.pc = "rule" /\ k.todo = SettleOn /\ Given(k.began, k.q.destination) =>
         s[k.q.destination].settled
    /\ k.pc = "action" /\ k.route \in {"http", "https"} =>
         ~Given(k.began, k.q.destination)

\* The digest is a last hash that the account a had while the request k was served, or k
\* is a transfer_in by an account that was unknown when it came.
Stood(k, a, digest, s) ==
  /\ a \in Accounts
  /\ \/ s[a].exists /\ digest \in k.began[a].last_hash..s[a].last_hash
     \/ k.q.action = "transfer_in" /\ ~k.began[a].exists

\* A transfer has a sender when its last hash is checked, a known one for transfer_out,
\* and behind its filter a digest that is a last hash of its sender.
OnTop(k, s) ==
  k.q.action \in {"transfer_out", "transfer_in"} =>
    /\ k.pc = "rule" /\ k.todo = LastHashOn =>
         /\ k.q.account \in Accounts
         /\ k.q.action = "transfer_out" => s[k.q.account].exists
    /\ k.pc = "action" /\ k.route = "http" => Stood(k, k.q.account, k.q.digest, s)

\* The digest of a transfer to be proposed is such a last hash.
Proposed(k, s) ==
  k.route = "http" /\ k.q.action \in Transfers => Stood(k, Sender(k.q), k.digest, s)

\* account_info looks at what is pending only after it found nothing settled.
Unsettled(k) ==
  k.pc = "info" => k.q.account \in Accounts /\ ~k.began[k.q.account].settled

Sound(k, s) ==
  /\ k \in Working
  /\ k.pc \in {"rule", "action", "info", "propose"} => Grown(k.began, s)
  /\ k.pc \in {"rule", "action", "info"} => Due(k) /\ Fresh(k, s) /\ OnTop(k, s) /\ Unsettled(k)
  /\ k.pc = "propose" => Proposed(k, s)

\* A proposal that was accepted has left its mark on its sender, so that the same
\* transaction is not accepted again.
Marked(p, s) ==
  p.committed => /\ Sender(p.q) \in Accounts
                 /\ IF p.q.action = "account_create" THEN s[Sender(p.q)].exists
                    ELSE p.digest < s[Sender(p.q)].last_hash

\* A retry is the transaction of an earlier proposal, which is no retry.
RetryOf(ps, i) ==
  ps[i].retry # 0 =>
    /\ ps[i].retry \in 1..(i - 1)
    /\ ps[ps[i].retry].q = ps[i].q /\ ps[ps[i].retry].digest = ps[i].digest

Books(ps, s) ==
  /\ ps \in Seq(Proposal) /\ Len(ps) <= MaxProposals
  /\ \A i \in DOMAIN ps : Marked(ps[i], s) /\ RetryOf(ps, i)
  /\ \A i \in DOMAIN ps : ps[i].retry # 0 => ~(ps[i].committed /\ ps[ps[i].retry].committed)

IInv == /\ store \in Store /\ store[genesis].exists
        /\ worker \in [Workers -> Working]
        /\ \A w \in Workers : Sound(worker[w], store)
        /\ Books(proposals, store)

-----------------------------------------------------------------------------
(* The store only grows *)

LEMMA GrownRefl == ASSUME NEW s \in Store PROVE Grown(s, s)
  BY NumbersAssumption DEF Grown, Store, Account

LEMMA GrownTrans ==
  ASSUME NEW r \in Store, NEW s \in Store, NEW t \in Store, Grown(r, s), Grown(s, t)
  PROVE  Grown(r, t)
<1> SUFFICES ASSUME NEW a \in Accounts
             PROVE  /\ r[a].exists => t[a].exists
                    /\ r[a].last_hash <= t[a].last_hash
                    /\ r[a].settled => t[a].settled
                    /\ Given(r, a) => Given(t, a)
  BY DEF Grown
<1>1. /\ r[a].last_hash \in Int /\ s[a].last_hash \in Int /\ t[a].last_hash \in Int
  BY NumbersAssumption DEF Store, Account
<1> QED
  BY <1>1 DEF Grown

\* A commit adds to what the store says of the accounts of its transaction.
LEMMA CommitGrows ==
  ASSUME IInv, NEW i \in DOMAIN proposals, Commit(i)
  PROVE  store' \in Store /\ Grown(store, store')
<1> DEFINE p == proposals[i]
<1>1. p \in Proposal /\ store \in Store
  BY DEF IInv, Books
<1>2. Accepted(p) /\ store[Sender(p.q)].last_hash < MaxHash
      /\ store' = [a \in Accounts |-> Effect(p, a)]
  BY DEF Commit
<1> HIDE DEF p
<1>3. ASSUME NEW a \in Accounts
      PROVE  /\ Effect(p, a) \in Account
             /\ store[a].exists => Effect(p, a).exists
             /\ store[a].last_hash <= Effect(p, a).last_hash
             /\ store[a].settled => Effect(p, a).settled
             /\ Given(store, a) => (Effect(p, a).received > 0 \/ Effect(p, a).settled)
  <2> DEFINE x == store[a]
             sent == IF a = Sender(p.q) /\ p.q.action # "account_create"
                     THEN [x EXCEPT !.last_hash = @ + 1] ELSE x
  <2>1. x \in Account
    BY <1>1 DEF Store
  <2>2. /\ x.exists \in BOOLEAN /\ x.settled \in BOOLEAN /\ x.received \in Nat
        /\ x.last_hash \in 0..MaxHash
    BY <2>1 DEF Account
  <2>3. a = Sender(p.q) => x.last_hash + 1 \in 0..MaxHash
    BY <1>2, <2>2, NumbersAssumption
  <2>4. /\ sent \in Account /\ sent.exists = x.exists /\ sent.settled = x.settled
        /\ sent.received = x.received /\ x.last_hash <= sent.last_hash
    <3>1. CASE a = Sender(p.q) /\ p.q.action # "account_create"
      <4>1. sent = [x EXCEPT !.last_hash = @ + 1]
        BY <3>1
      <4> HIDE DEF sent
      <4> QED
        BY <4>1, <3>1, <2>1, <2>2, <2>3 DEF Account
    <3>2. CASE ~(a = Sender(p.q) /\ p.q.action # "account_create")
      BY <3>2, <2>1, <2>2
    <3> QED
      BY <3>1, <3>2
  <2>5. Given(store, a) <=> x.received > 0 \/ x.settled
    BY DEF Given
  <2>6. Effect(p, a) =
          CASE p.q.action = "account_create" /\ a = Sender(p.q) -> [sent EXCEPT !.exists = TRUE]
            [] p.q.action \in {"transfer_out", "give"} /\ a = Receiver(p.q) ->
                 [sent EXCEPT !.received = @ + 1]
            [] p.q.action = "transfer_in" /\ a = Sender(p.q) ->
                 [sent EXCEPT !.received = @ - 1, !.settled = TRUE]
            [] OTHER -> sent
    BY DEF Effect
  <2>7. p.q.action = "transfer_in" /\ a = Sender(p.q) => x.received > 0
    BY <1>2 DEF Accepted
  <2> HIDE DEF x, sent
  <2>8. CASE p.q.action = "account_create" /\ a = Sender(p.q)
    <3>1. Effect(p, a) = [sent EXCEPT !.exists = TRUE]
      BY <2>6, <2>8
    <3> QED
      BY <3>1, <2>2, <2>4, <2>5 DEF Account, x
  <2>9. CASE p.q.action \in {"transfer_out", "give"} /\ a = Receiver(p.q)
    <3>1. Effect(p, a) = [sent EXCEPT !.received = @ + 1]
      BY <2>6, <2>9
    <3> QED
      BY <3>1, <2>2, <2>4, <2>5 DEF Account, x
  <2>10. CASE p.q.action = "transfer_in" /\ a = Sender(p.q)
    <3> DEFINE less == [sent EXCEPT !.received = @ - 1]
    <3>1. less \in Account /\ less.exists = sent.exists /\ less.last_hash = sent.last_hash
      BY <2>2, <2>4, <2>7, <2>10 DEF Account
    <3>2. Effect(p, a) = [less EXCEPT !.settled = TRUE]
      BY <2>6, <2>10
    <3> HIDE DEF less
    <3> QED
      BY <3>1, <3>2, <2>2, <2>4, <2>5 DEF Account, x
  <2>11. CASE /\ ~(p.q.action = "account_create" /\ a = Sender(p.q))
              /\ ~(p.q.action \in {"transfer_out", "give"} /\ a = Receiver(p.q))
              /\ ~(p.q.action = "transfer_in" /\ a = Sender(p.q))
    <3>1. Effect(p, a) = sent
      BY <2>6, <2>11
    <3> QED
      BY <3>1, <2>2, <2>4, <2>5 DEF x
  <2> QED
    BY <2>8, <2>9, <2>10, <2>11
<1> QED
  BY <1>2, <1>3 DEF Grown, Given, Store

\* Every transaction but the creation of an account moves the last hash of its sender.
LEMMA SenderEffect ==
  ASSUME store \in Store, NEW p \in Proposal, NEW a \in Accounts, a = Sender(p.q),
         p.q.action # "account_create"
  PROVE  Effect(p, a).last_hash = store[a].last_hash + 1
<1> DEFINE x == store[a]
           sent == [x EXCEPT !.last_hash = @ + 1]
           less == [sent EXCEPT !.received = @ - 1]
<1>1. x \in Account
  BY DEF Store
<1>2. Effect(p, a) \in {[sent EXCEPT !.received = @ + 1], [less EXCEPT !.settled = TRUE], sent}
  <2>1. CASE p.q.action \in {"transfer_out", "give"} /\ a = Receiver(p.q)
    BY <2>1 DEF Effect
  <2>2. CASE p.q.action = "transfer_in"
    BY <2>2 DEF Effect
  <2>3. CASE ~(p.q.action \in {"transfer_out", "give"} /\ a = Receiver(p.q))
             /\ p.q.action # "transfer_in"
    BY <2>3 DEF Effect
  <2> QED
    BY <2>1, <2>2, <2>3
<1>3. /\ DOMAIN sent = {"exists", "balance", "last_hash", "received", "settled"}
      /\ sent.last_hash = x.last_hash + 1
  BY <1>1 DEF Account
<1> HIDE DEF sent
<1>4. less.last_hash = sent.last_hash
      /\ DOMAIN less = {"exists", "balance", "last_hash", "received", "settled"}
  BY <1>3
<1> HIDE DEF less
<1> QED
  BY <1>2, <1>3, <1>4

LEMMA StoodGrows ==
  ASSUME NEW s \in Store, NEW t \in Store, Grown(s, t), NEW k, NEW a, NEW digest,
         k.began \in Store, Stood(k, a, digest, s)
  PROVE  Stood(k, a, digest, t)
<1> USE DEF Stood
<1>1. CASE k.q.action = "transfer_in" /\ ~k.began[a].exists
  BY <1>1
<1>2. CASE s[a].exists /\ digest \in k.began[a].last_hash..s[a].last_hash
  <2>1. /\ k.began[a].last_hash \in Int /\ s[a].last_hash \in Int /\ t[a].last_hash \in Int
    BY NumbersAssumption DEF Store, Account
  <2>2. t[a].exists /\ s[a].last_hash <= t[a].last_hash
    BY <1>2 DEF Grown
  <2>3. digest \in k.began[a].last_hash..t[a].last_hash
    BY <1>2, <2>1, <2>2
  <2> QED
    BY <2>2, <2>3
<1> QED
  BY <1>1, <1>2

LEMMA SoundGrows ==
  ASSUME NEW s \in Store, NEW t \in Store, Grown(s, t), NEW k, Sound(k, s)
  PROVE  Sound(k, t)
<1>1. k.pc \in {"rule", "action", "info", "propose"} => Grown(k.began, t)
  <2> SUFFICES ASSUME k.pc \in {"rule", "action", "info", "propose"}
               PROVE  Grown(k.began, t)
    OBVIOUS
  <2>1. k.began \in Store
    BY DEF Sound, Working, Serving, Proposing, Replying
  <2> QED
    BY <2>1, GrownTrans DEF Sound
<1>2. k.pc \in {"rule", "action", "info"} => Fresh(k, t)
  BY DEF Sound, Fresh, Grown, Given
<1>3. k.pc \in {"rule", "action", "info", "propose"} => k.began \in Store
  BY DEF Sound, Working, Serving, Proposing, Replying
<1>4. k.pc \in {"rule", "action", "info"} => OnTop(k, t)
  <2> SUFFICES ASSUME k.pc \in {"rule", "action", "info"} PROVE OnTop(k, t)
    OBVIOUS
  <2>1. OnTop(k, s)
    BY DEF Sound
  <2>2. k.q.account \in Accounts /\ s[k.q.account].exists => t[k.q.account].exists
    BY DEF Grown
  <2>3. \A a, digest : Stood(k, a, digest, s) => Stood(k, a, digest, t)
    BY <1>3, StoodGrows
  <2> QED
    BY <2>1, <2>2, <2>3 DEF OnTop
<1>5. k.pc = "propose" => Proposed(k, t)
  BY <1>3, StoodGrows DEF Sound, Proposed
<1> QED
  BY <1>1, <1>2, <1>4, <1>5 DEF Sound

LEMMA BooksGrow ==
  ASSUME NEW s \in Store, NEW t \in Store, Grown(s, t), NEW ps, Books(ps, s)
  PROVE  Books(ps, t)
<1> SUFFICES ASSUME NEW i \in DOMAIN ps PROVE Marked(ps[i], t)
  BY DEF Books
<1>1. Marked(ps[i], s) /\ ps[i] \in Proposal
  BY DEF Books
<1>2. \A a \in Accounts : s[a].last_hash \in Int /\ t[a].last_hash \in Int
  BY NumbersAssumption DEF Store, Account
<1> QED
  BY <1>1, <1>2 DEF Marked, Grown, Proposal

-----------------------------------------------------------------------------
(* The steps of a thread *)

LEMMA RequestTyped ==
  ASSUME NEW q \in Requests
  PROVE  q.digest \in Nat
  BY RequestAssumption

LEMMA ReplySound ==
  ASSUME NEW code \in Codes, NEW s PROVE Sound(Reply(code), s)
  BY DEF Reply, Sound, Working, Replying

\* What a thread is known to have at a check or an action.
LEMMA ServingFacts ==
  ASSUME NEW k, Sound(k, store), k.pc \in {"rule", "action", "info"}
  PROVE  /\ k \in Serving /\ k.q \in Requests /\ k.began \in Store
         /\ k.route \in Routes /\ k.todo \in Seq(CheckNames)
         /\ Grown(k.began, store)
         /\ Due(k) /\ Fresh(k, store) /\ OnTop(k, store) /\ Unsettled(k)
  BY DEF Sound, Working, Serving, Proposing, Replying

LEMMA CodeOfCheck ==
  ASSUME NEW name \in CheckNames, NEW q PROVE Check(name, q) \in Codes
<1>1. Fields(q) \in Codes
  BY DEF Fields, Codes
<1>2. Balance(q) \in Codes
  BY DEF Balance, Codes
<1>3. LastHash(q) \in Codes
  BY DEF LastHash, Codes
<1> QED
  BY <1>1, <1>2, <1>3 DEF Check, CheckNames, Codes

LEMMA FailedCode ==
  ASSUME NEW code \in Codes, NEW route PROVE Failed(route, code) \in Codes
  BY DEF Failed, Codes

LEMMA AnswerCodes ==
  ASSUME NEW k, k.q.action \in (Queries \ {"account_info"}) \cup Contracts
  PROVE  QueryAnswers(k) \subseteq Codes
<1>1. CASE k.q.action \in Contracts
  BY <1>1, FailedCode DEF QueryAnswers, Codes
<1>2. CASE k.q.action \notin Contracts
  <2>1. k.q.action \in Queries \ {"account_info"}
    BY <1>2
  <2>2. QueryCodes(k.q) \subseteq Codes
    BY <2>1 DEF QueryCodes, Queries, Codes
  <2> QED
    BY <1>2, <2>2, FailedCode DEF QueryAnswers
<1> QED
  BY <1>1, <1>2

LEMMA ChecksLeft ==
  /\ Tail(GiveChecks) = ReceiveOn /\ Tail(ReceiveOn) = SettleOn /\ Tail(SettleOn) = <<>>
  /\ Tail(TransferOutChecks) = BalanceOn /\ Tail(BalanceOn) = LastHashOn
  /\ Tail(InChecks) = LastHashOn /\ Tail(LastHashOn) = <<>>
  /\ Head(ReceiveOn) = "receive" /\ Head(SettleOn) = "settle"
  /\ Head(InChecks) = "fields" /\ Head(BalanceOn) = "balance"
  /\ Head(LastHashOn) = "last_hash"
  BY DEF GiveChecks, ReceiveOn, SettleOn, TransferOutChecks, BalanceOn, LastHashOn, InChecks

LEMMA ChecksDiffer ==
  /\ \A todo \in {GiveChecks, ReceiveOn, SettleOn, TransferOutChecks, BalanceOn, LastHashOn,
                  InChecks} : todo # <<>> /\ todo \in Seq(CheckNames)
  /\ GiveChecks # SettleOn /\ ReceiveOn # SettleOn
  /\ LastHashOn \notin {TransferOutChecks, BalanceOn, InChecks}
<1>1. /\ GiveChecks # <<>> /\ ReceiveOn # <<>> /\ SettleOn # <<>> /\ BalanceOn # <<>>
      /\ TransferOutChecks # <<>> /\ LastHashOn # <<>> /\ InChecks # <<>>
  BY DEF GiveChecks, ReceiveOn, SettleOn, TransferOutChecks, BalanceOn, LastHashOn, InChecks
<1>2. GiveChecks \in Seq(CheckNames) /\ TransferOutChecks \in Seq(CheckNames)
  BY DEF GiveChecks, TransferOutChecks, CheckNames
<1>3. /\ ReceiveOn \in Seq(CheckNames) /\ SettleOn \in Seq(CheckNames)
      /\ BalanceOn \in Seq(CheckNames)
  BY DEF ReceiveOn, SettleOn, BalanceOn, CheckNames
<1>4. LastHashOn \in Seq(CheckNames) /\ InChecks \in Seq(CheckNames)
  BY DEF LastHashOn, InChecks, CheckNames
<1>5. GiveChecks # SettleOn /\ ReceiveOn # SettleOn
  BY DEF GiveChecks, ReceiveOn, SettleOn
<1>6. LastHashOn # TransferOutChecks /\ LastHashOn # BalanceOn /\ LastHashOn # InChecks
  BY DEF LastHashOn, TransferOutChecks, BalanceOn, InChecks
<1> QED
  BY <1>1, <1>2, <1>3, <1>4, <1>5, <1>6

\* The rules of a route: all the checks of the action, or, on the edge route, none.
LEMMA RulesOf ==
  ASSUME NEW route, NEW action
  PROVE  /\ Rules(route, action) \in Seq(CheckNames)
         /\ route # "edge" =>
              /\ action = "give" => Rules(route, action) = GiveChecks
              /\ action = "transfer_out" => Rules(route, action) = TransferOutChecks
              /\ action = "transfer_in" => Rules(route, action) = InChecks
         /\ route = "edge" => Rules(route, action) = <<>>
<1> DEFINE plain == {"account_balance", "account_info", "account_history", "set_property",
                     "unknown"}
           named == {"account_create", "transfer_out", "transfer_in", "give"}
<1>1. <<>> \in Seq(CheckNames) /\ <<"fields">> \in Seq(CheckNames)
      /\ <<"fields", "new">> \in Seq(CheckNames)
  BY DEF CheckNames
<1>2. Checks(action) =
        IF action \in plain THEN <<"fields">>
        ELSE IF action = "account_create" THEN <<"fields", "new">>
        ELSE IF action = "transfer_out" THEN TransferOutChecks
        ELSE IF action = "transfer_in" THEN InChecks
        ELSE IF action = "give" THEN GiveChecks
        ELSE <<>>
  <2>1. CASE action \in plain
    BY <2>1 DEF Checks
  <2>2. CASE action \in named
    BY <2>2 DEF Checks, InChecks
  <2>3. CASE action \notin plain /\ action \notin named
    BY <2>3 DEF Checks
  <2> QED
    BY <2>1, <2>2, <2>3
<1>3. /\ action = "give" => Checks(action) = GiveChecks
      /\ action = "transfer_out" => Checks(action) = TransferOutChecks
      /\ action = "transfer_in" => Checks(action) = InChecks
  BY <1>2
<1>4. Checks(action) \in Seq(CheckNames)
  BY <1>1, <1>2, ChecksDiffer
<1> QED
  BY <1>1, <1>3, <1>4 DEF Rules

LEMMA ArriveSound ==
  ASSUME IInv, NEW w \in Workers, NEW route \in Routes, NEW q \in Requests,
         Arrive(w, route, q)
  PROVE  \E k : Sound(k, store) /\ worker' = [worker EXCEPT ![w] = k]
<1> DEFINE todo == Rules(route, q.action)
           k == [pc |-> IF todo = <<>> THEN "action" ELSE "rule", route |-> route,
                 q |-> q, todo |-> todo, began |-> store]
<1>1. worker' = [worker EXCEPT ![w] = k]
  BY DEF Arrive, Step
<1>3. todo \in Seq(CheckNames)
  BY RulesOf
<1>4. store \in Store
  BY DEF IInv
<1>5. /\ k \in Serving /\ k.q = q /\ k.route = route /\ k.todo = todo /\ k.began = store
      /\ k.pc = IF todo = <<>> THEN "action" ELSE "rule"
  BY <1>3, <1>4 DEF Serving
<1>6. Grown(k.began, store)
  BY <1>4, <1>5, GrownRefl
<1>7. /\ q.action = "give" => todo \in {<<>>, GiveChecks}
      /\ q.action = "transfer_out" => todo \in {<<>>, TransferOutChecks}
      /\ q.action = "transfer_in" => todo \in {<<>>, InChecks}
      /\ todo = <<>> => route = "edge" \/ q.action \notin Transfers
  BY RulesOf, ChecksDiffer DEF Transfers
<1> HIDE DEF k, todo
<1>8. Due(k)
  BY <1>5, <1>7 DEF Due
<1>9. Fresh(k, store) /\ Unsettled(k)
  BY <1>5, <1>7, ChecksDiffer DEF Fresh, Unsettled, Transfers
<1>10. OnTop(k, store)
  <2>1. todo # <<>> => k.pc # "action"
    BY <1>5
  <2>2. q.action \in {"transfer_out", "transfer_in"} => todo # LastHashOn
    BY <1>7, ChecksDiffer
  <2>3. k.pc = "action" => route = "edge" \/ q.action \notin Transfers
    BY <1>7, <2>1
  <2> QED
    BY <1>5, <2>2, <2>3 DEF OnTop, Transfers
<1>11. Sound(k, store)
  BY <1>5, <1>6, <1>8, <1>9, <1>10 DEF Sound, Working
<1> QED
  BY <1>1, <1>11

\* A check that passed brings a transfer to its next check or to its action.
LEMMA FilterSound ==
  ASSUME IInv, NEW w \in Workers, Filter(w)
  PROVE  \E k : Sound(k, store) /\ worker' = [worker EXCEPT ![w] = k]
<1> DEFINE k == worker[w]
           code == Check(Head(k.todo), k.q)
           n == Passed(k)
<1>1. k.pc = "rule" /\ Sound(k, store)
  BY DEF Filter, IInv
<1>2. worker' = [worker EXCEPT ![w] = IF code = "ok" THEN n ELSE Reply(code)]
  BY DEF Filter, Step
<1>3. /\ k \in Serving /\ k.q \in Requests /\ k.began \in Store /\ k.todo \in Seq(CheckNames)
      /\ k.route \in Routes /\ Grown(k.began, store) /\ Due(k) /\ Fresh(k, store)
      /\ OnTop(k, store)
  BY <1>1, ServingFacts
<1>4. k.todo # <<>> /\ Head(k.todo) \in CheckNames /\ Tail(k.todo) \in Seq(CheckNames)
      /\ Len(k.todo) \in Nat /\ (Len(k.todo) = 1 <=> Tail(k.todo) = <<>>)
  <2>1. k.todo # <<>> /\ k.todo \in Seq(CheckNames)
    BY <1>1, <1>3 DEF Due
  <2> HIDE DEF k
  <2>2. /\ Head(k.todo) \in CheckNames /\ Tail(k.todo) \in Seq(CheckNames)
        /\ Len(Tail(k.todo)) = Len(k.todo) - 1
    BY <2>1, HeadTailProperties
  <2>3. Tail(k.todo) = <<>> <=> Len(Tail(k.todo)) = 0
    BY <2>2, EmptySeq
  <2>4. Len(k.todo) \in Nat
    BY <2>1, LenProperties
  <2> QED
    BY <2>1, <2>2, <2>3, <2>4
<1>5. CASE code # "ok"
  <2>1. code \in Codes
    BY <1>4, CodeOfCheck
  <2> QED
    BY <1>2, <1>5, <2>1, ReplySound
<1>6. CASE code = "ok"
  <2>1. worker' = [worker EXCEPT ![w] = n]
    BY <1>2, <1>6
  <2>2. /\ n \in Serving /\ n.q = k.q /\ n.route = k.route /\ n.began = k.began
        /\ n.todo = Tail(k.todo)
        /\ n.pc = IF Tail(k.todo) = <<>> THEN "action" ELSE "rule"
    <3> HIDE DEF k
    <3> QED
      BY <1>3, <1>4 DEF Passed, Serving
  <2> HIDE DEF n, k
  <2>3. Due(n)
    BY <2>2, <1>1, <1>3, ChecksLeft DEF Due
  <2>4. Fresh(n, store)
    <3> SUFFICES ASSUME k.q.action = "give"
                 PROVE  /\ /\ n.pc = "rule" /\ n.todo = SettleOn
                           /\ Given(k.began, k.q.destination)
                           => store[k.q.destination].settled
                        /\ n.pc = "action" => ~Given(k.began, k.q.destination)
      BY <2>2 DEF Fresh
    <3>1. Given(k.began, k.q.destination) =>
            k.q.destination \in Accounts /\ Given(store, k.q.destination)
      BY <1>3 DEF Given, Grown
    <3>2. CASE k.todo = GiveChecks
      BY <3>2, <2>2, ChecksLeft, ChecksDiffer
    <3>3. CASE k.todo = ReceiveOn
      <4>1. Head(k.todo) = "receive"
        BY <3>3, ChecksLeft
      <4>2. Given(store, k.q.destination) => store[k.q.destination].settled
        BY <1>6, <4>1 DEF Check, Given, code
      <4> QED
        BY <3>1, <3>3, <4>2, <2>2, ChecksLeft, ChecksDiffer
    <3>4. CASE k.todo = SettleOn
      <4>1. Head(k.todo) = "settle"
        BY <3>4, ChecksLeft
      <4>2. k.q.destination \in Accounts => ~store[k.q.destination].settled
        BY <1>6, <4>1 DEF Check, code
      <4> QED
        BY <3>1, <3>4, <4>2, <2>2, <1>1, <1>3, ChecksLeft, ChecksDiffer DEF Fresh
    <3> QED
      BY <3>2, <3>3, <3>4, <1>1, <1>3 DEF Due
  <2>5. ASSUME k.q.action \in {"transfer_out", "transfer_in"}, n.pc = "rule",
               n.todo = LastHashOn
        PROVE  /\ k.q.account \in Accounts
               /\ k.q.action = "transfer_out" => store[k.q.account].exists
    <3>1. CASE k.q.action = "transfer_out"
      <4>1. k.todo = BalanceOn
        BY <2>2, <2>5, <3>1, <1>1, <1>3, ChecksLeft, ChecksDiffer DEF Due
      <4>2. Head(k.todo) = "balance"
        BY <4>1, ChecksLeft
      <4>3. Known(k.q.account)
        BY <1>6, <4>2 DEF Check, Balance, code
      <4> QED
        BY <4>3 DEF Known
    <3>2. CASE k.q.action = "transfer_in"
      <4>1. k.todo = InChecks
        BY <2>2, <2>5, <3>2, <1>1, <1>3, ChecksLeft, ChecksDiffer DEF Due
      <4>2. Head(k.todo) = "fields"
        BY <4>1, ChecksLeft
      <4>3. k.q.account # Null
        BY <1>6, <3>2, <4>2 DEF Check, Fields, code
      <4>4. k.q.account \in Accounts \cup {Null}
        BY <1>3, RequestAssumption
      <4> QED
        BY <3>2, <4>3, <4>4
    <3> QED
      BY <2>5, <3>1, <3>2
  <2>6. ASSUME k.q.action \in {"transfer_out", "transfer_in"}, n.pc = "action"
        PROVE  Stood(k, k.q.account, k.q.digest, store)
    <3> DEFINE a == k.q.account
    <3>1. Tail(k.todo) = <<>>
      BY <2>2, <2>6
    <3>2. k.todo = LastHashOn
      BY <2>6, <3>1, <1>1, <1>3, ChecksLeft, ChecksDiffer DEF Due
    <3>3. a \in Accounts /\ (k.q.action = "transfer_out" => store[a].exists)
      BY <1>1, <1>3, <2>6, <3>2 DEF OnTop
    <3>4. Known(a) => k.q.digest = store[a].last_hash
      <4>1. Head(k.todo) = "last_hash"
        BY <3>2, ChecksLeft
      <4> QED
        BY <1>6, <4>1 DEF Check, LastHash, code
    <3>5. k.began[a].last_hash \in Int /\ store[a].last_hash \in Int
      BY <1>3, <3>3, NumbersAssumption DEF IInv, Store, Account
    <3>6. /\ k.began[a].last_hash <= store[a].last_hash
          /\ k.began[a].exists => store[a].exists
      BY <1>3, <3>3 DEF Grown
    <3>7. CASE store[a].exists
      <4>1. k.q.digest = store[a].last_hash
        BY <3>3, <3>4, <3>7 DEF Known
      <4> QED
        BY <3>3, <3>5, <3>6, <3>7, <4>1 DEF Stood
    <3>8. CASE ~store[a].exists
      BY <2>6, <3>3, <3>6, <3>8 DEF Stood
    <3> QED
      BY <3>7, <3>8
  <2>7. OnTop(n, store)
    BY <2>2, <2>5, <2>6 DEF OnTop, Stood
  <2>8. Sound(n, store)
    BY <2>2, <2>3, <2>4, <2>7, <1>3 DEF Sound, Working, Unsettled
  <2> QED
    BY <2>1, <2>8
<1> QED
  BY <1>5, <1>6

LEMMA QuerySound ==
  ASSUME IInv, NEW w \in Workers, Query(w)
  PROVE  \E k : Sound(k, store) /\ worker' = [worker EXCEPT ![w] = k]
<1>1. PICK code \in QueryAnswers(worker[w]) : worker' = [worker EXCEPT ![w] = Reply(code)]
  BY DEF Query, Step
<1>2. code \in Codes
  BY <1>1, AnswerCodes DEF Query
<1> QED
  BY <1>1, <1>2, ReplySound

\* account_info goes on to what is pending when nothing was settled, and so when
\* nothing was settled at its beginning either.
LEMMA AccountInfoSound ==
  ASSUME IInv, NEW w \in Workers, AccountInfo(w)
  PROVE  \E k : Sound(k, store) /\ worker' = [worker EXCEPT ![w] = k]
<1> DEFINE k == worker[w]
           n == [k EXCEPT !.pc = "info"]
           code == Failed(k.route, "account_is_not_exist")
<1>1. k.pc = "action" /\ k.q.action = "account_info" /\ Sound(k, store)
  BY DEF AccountInfo, IInv
<1>2. /\ k \in Serving /\ k.q \in Requests /\ k.began \in Store /\ k.todo \in Seq(CheckNames)
      /\ k.route \in Routes /\ Grown(k.began, store)
  BY <1>1, ServingFacts
<1>3. worker' = [worker EXCEPT ![w] =
                   IF ~Known(k.q.account) THEN Reply(code)
                   ELSE IF AfterSettled(k.q) = "reply" THEN Reply("ok") ELSE n]
  BY DEF AccountInfo, Step
<1>4. code \in Codes /\ "ok" \in Codes
  BY FailedCode DEF Codes
<1>5. CASE ~Known(k.q.account)
  BY <1>3, <1>4, <1>5, ReplySound
<1>6. CASE Known(k.q.account) /\ AfterSettled(k.q) = "reply"
  <2>1. worker' = [worker EXCEPT ![w] = Reply("ok")]
    BY <1>3, <1>6
  <2> QED
    BY <2>1, <1>4, ReplySound
<1>7. CASE Known(k.q.account) /\ AfterSettled(k.q) # "reply"
  <2>1. worker' = [worker EXCEPT ![w] = n]
    BY <1>3, <1>7
  <2>2. k.q.account \in Accounts /\ ~store[k.q.account].settled
    BY <1>7 DEF Known, AfterSettled
  <2>3. ~k.began[k.q.account].settled
    BY <2>2, <1>2 DEF Grown
  <2> HIDE DEF k
  <2>4. /\ n \in Serving /\ n.pc = "info" /\ n.q = k.q /\ n.began = k.began
    BY <1>2 DEF Serving
  <2> HIDE DEF n
  <2>5. Sound(n, store)
    BY <2>2, <2>3, <2>4, <1>1, <1>2
       DEF Sound, Working, Due, Fresh, OnTop, Unsettled
  <2> QED
    BY <2>1, <2>5
<1> QED
  BY <1>5, <1>6, <1>7

LEMMA ReadPendingSound ==
  ASSUME IInv, NEW w \in Workers, ReadPending(w)
  PROVE  \E k : Sound(k, store) /\ worker' = [worker EXCEPT ![w] = k]
<1> DEFINE code == IF store[worker[w].q.account].received > 0 THEN "ok" ELSE "free"
<1>1. worker' = [worker EXCEPT ![w] = Reply(code)]
  BY DEF ReadPending, Step
<1>2. code \in Codes
  BY DEF Codes
<1> QED
  BY <1>1, <1>2, ReplySound

\* The digest of a gift is read when it is made; that of another transfer has been
\* compared with the last hash by the last check of its filter.
LEMMA MakeTransactionSound ==
  ASSUME IInv, NEW w \in Workers, MakeTransaction(w)
  PROVE  \E k : Sound(k, store) /\ worker' = [worker EXCEPT ![w] = k]
<1> DEFINE k == worker[w]
           valid == k.q.action = "give" \/ k.q.signed
           code == Failed(k.route, "signature_verify_fail")
           n == [pc |-> "propose", route |-> k.route, q |-> k.q, began |-> k.began,
                 digest |-> Digest(k.q)]
<1>1. k.pc = "action" /\ k.q.action \in Txs /\ Sound(k, store) /\ store \in Store
  BY DEF MakeTransaction, IInv
<1>2. /\ k \in Serving /\ k.q \in Requests /\ k.began \in Store /\ k.route \in Routes
      /\ Grown(k.began, store) /\ OnTop(k, store)
  BY <1>1, ServingFacts
<1>3. worker' = [worker EXCEPT ![w] =
                   CASE ~valid -> Reply(code)
                     [] valid /\ k.route = "https" -> Reply("none")
                     [] valid /\ k.route # "https" -> n]
  BY DEF MakeTransaction, Step
<1>4. code \in Codes /\ "none" \in Codes
  BY FailedCode DEF Codes
<1>5. CASE ~valid
  <2>1. worker' = [worker EXCEPT ![w] = Reply(code)]
    BY <1>3, <1>5
  <2> QED
    BY <2>1, <1>4, ReplySound
<1>6. CASE valid /\ k.route = "https"
  <2>1. worker' = [worker EXCEPT ![w] = Reply("none")]
    BY <1>3, <1>6
  <2> QED
    BY <2>1, <1>4, ReplySound
<1>7. CASE valid /\ k.route # "https"
  <2>1. worker' = [worker EXCEPT ![w] = n]
    BY <1>3, <1>7
  <2>2. /\ store[genesis].last_hash \in Nat
        /\ \A a \in Accounts : k.began[a].last_hash \in Int
    BY <1>1, <1>2, GenesisAssumption, NumbersAssumption DEF Store, Account
  <2>3. Digest(k.q) \in Nat
    BY <2>2, <1>2, RequestTyped DEF Digest
  <2>4. /\ n \in Proposing /\ n.pc = "propose" /\ n.q = k.q /\ n.began = k.began
        /\ n.route = k.route /\ n.digest = Digest(k.q)
    BY <2>3, <1>2 DEF Proposing
  <2> HIDE DEF n, k
  <2>5. Proposed(n, store)
    <3> SUFFICES ASSUME k.route = "http", k.q.action \in Transfers
                 PROVE  Stood(k, Sender(k.q), Digest(k.q), store)
      BY <2>4 DEF Proposed, Stood
    <3>1. CASE k.q.action = "give"
      <4>1. Sender(k.q) = genesis /\ Digest(k.q) = store[genesis].last_hash
        BY <3>1 DEF Sender, Digest
      <4>2. k.began[genesis].last_hash <= store[genesis].last_hash
        BY <1>2, GenesisAssumption DEF Grown
      <4> QED
        BY <2>2, <4>1, <4>2, GenesisAssumption DEF Stood, IInv
    <3>2. CASE k.q.action # "give"
      BY <3>2, <1>1, <1>2 DEF Digest, Sender, OnTop, Transfers
    <3> QED
      BY <3>1, <3>2
  <2>6. Sound(n, store)
    BY <2>4, <2>5, <1>2 DEF Sound, Working
  <2> QED
    BY <2>1, <2>6
<1> QED
  BY <1>5, <1>6, <1>7

LEMMA RespondSound ==
  ASSUME IInv, NEW w \in Workers, Respond(w)
  PROVE  \E k : Sound(k, store) /\ worker' = [worker EXCEPT ![w] = k]
<1>1. worker' = [worker EXCEPT ![w] = Idle]
  BY DEF Respond, Step
<1>2. Sound(Idle, store)
  BY DEF Sound, Idle, Working
<1> QED
  BY <1>1, <1>2

-----------------------------------------------------------------------------
(* The steps that propose *)

LEMMA AppendBooks ==
  ASSUME NEW s, NEW ps, Books(ps, s), NEW p \in Proposal, ~p.committed, Len(ps) < MaxProposals,
         p.retry # 0 => /\ p.retry \in DOMAIN ps
                        /\ ps[p.retry].q = p.q /\ ps[p.retry].digest = p.digest
  PROVE  Books(Append(ps, p), s)
<1> DEFINE n == Len(ps) + 1
           qs == Append(ps, p)
<1>1. ps \in Seq(Proposal) /\ Len(ps) \in Nat /\ DOMAIN ps = 1..Len(ps)
  BY LenProperties DEF Books
<1>2. /\ qs \in Seq(Proposal) /\ Len(qs) = n /\ DOMAIN qs = 1..n
      /\ \A i \in 1..Len(ps) : qs[i] = ps[i]
      /\ qs[n] = p
  BY <1>1, AppendProperties
<1>3. Len(qs) <= MaxProposals
  BY <1>1, <1>2, NumbersAssumption
<1> HIDE DEF qs
<1>4. ASSUME NEW i \in DOMAIN qs
      PROVE  /\ Marked(qs[i], s) /\ RetryOf(qs, i)
             /\ qs[i].retry # 0 => ~(qs[i].committed /\ qs[qs[i].retry].committed)
  <2>1. CASE i = n
    BY <2>1, <1>1, <1>2 DEF Marked, RetryOf
  <2>2. CASE i # n
    <3>1. i \in DOMAIN ps /\ i \in 1..Len(ps)
      BY <2>2, <1>1, <1>2
    <3>2. /\ Marked(ps[i], s) /\ RetryOf(ps, i)
          /\ ps[i].retry # 0 => ~(ps[i].committed /\ ps[ps[i].retry].committed)
      BY <3>1 DEF Books
    <3>3. ps[i].retry # 0 => ps[i].retry \in 1..Len(ps)
      BY <3>1, <3>2 DEF RetryOf
    <3> QED
      BY <3>1, <3>2, <3>3, <1>2 DEF RetryOf
  <2> QED
    BY <2>1, <2>2
<1>5. Books(qs, s)
  BY <1>2, <1>3, <1>4 DEF Books
<1> QED
  BY <1>5 DEF qs

LEMMA ProposeBooks ==
  ASSUME IInv, NEW w \in Workers, Propose(w)
  PROVE  /\ Books(proposals', store)
         /\ \E k : Sound(k, store) /\ worker' = [worker EXCEPT ![w] = k]
<1> DEFINE k == worker[w]
           p == [q |-> k.q, route |-> k.route, digest |-> k.digest,
                 retry |-> 0, committed |-> FALSE]
           code == IF k.route = "http" THEN "ok" ELSE "none"
<1>1. /\ k.pc = "propose" /\ Len(proposals) < MaxProposals
      /\ proposals' = Append(proposals, p)
      /\ worker' = [worker EXCEPT ![w] = Reply(code)]
  BY DEF Propose, Step
<1>2. k \in Proposing
  BY <1>1 DEF IInv, Sound, Working, Serving, Replying
<1>3. p \in Proposal /\ p.retry = 0 /\ ~p.committed
  BY <1>2 DEF Proposing, Proposal
<1>4. Books(Append(proposals, p), store)
  <2> HIDE DEF p
  <2> QED
    BY <1>1, <1>3, AppendBooks DEF IInv
<1>5. code \in Codes
  BY DEF Codes
<1> QED
  BY <1>1, <1>4, <1>5, ReplySound

LEMMA RetryBooks ==
  ASSUME IInv, NEW i \in DOMAIN proposals, Retry(i)
  PROVE  Books(proposals', store)
<1> DEFINE p == Again(i)
<1>1. proposals[i] \in Proposal /\ DOMAIN proposals = 1..Len(proposals)
      /\ Len(proposals) \in Nat
  BY LenProperties DEF IInv, Books
<1>2. \A r \in Proposal : /\ [r EXCEPT !.retry = i] \in Proposal
                         /\ [r EXCEPT !.retry = i].q = r.q
                         /\ [r EXCEPT !.retry = i].digest = r.digest
                         /\ [r EXCEPT !.retry = i].retry = i
  BY <1>1 DEF Proposal
<1>3. /\ p \in Proposal /\ ~p.committed /\ p.retry = i /\ p.q = proposals[i].q
      /\ p.digest = proposals[i].digest
  <2> DEFINE r == [proposals[i] EXCEPT !.retry = i]
  <2>1. r \in Proposal /\ r.q = proposals[i].q /\ r.digest = proposals[i].digest
        /\ r.retry = i
    BY <1>1, <1>2
  <2>2. p = [r EXCEPT !.committed = FALSE]
    BY DEF Again
  <2> HIDE DEF r, p
  <2> QED
    BY <2>1, <2>2 DEF Proposal
<1> HIDE DEF p
<1>4. Books(Append(proposals, p), store)
  BY <1>3, AppendBooks DEF IInv, Retry
<1> QED
  BY <1>4 DEF Retry, p

\* A transaction is accepted only on top of the last hash of its sender: neither its retry
\* nor the proposal it is the retry of was accepted before.
LEMMA CommitBooks ==
  ASSUME IInv, NEW i \in DOMAIN proposals, Commit(i)
  PROVE  Books(proposals', store')
<1> DEFINE p == proposals[i]
           done == [p EXCEPT !.committed = TRUE]
<1>1. /\ p \in Proposal /\ DOMAIN proposals = 1..Len(proposals) /\ Len(proposals) \in Nat
      /\ proposals \in Seq(Proposal) /\ Books(proposals, store) /\ store \in Store
  BY LenProperties DEF IInv, Books
<1>2. ~p.committed /\ Accepted(p) /\ store' = [a \in Accounts |-> Effect(p, a)]
      /\ proposals' = [proposals EXCEPT ![i] = done]
  BY DEF Commit
<1>3. store' \in Store /\ Grown(store, store')
  BY CommitGrows
<1>4. Books(proposals, store')
  BY <1>1, <1>3, BooksGrow
<1>6. /\ done \in Proposal /\ done.committed /\ done.q = p.q /\ done.digest = p.digest
      /\ done.retry = p.retry
  BY <1>1 DEF Proposal
<1> HIDE DEF done
<1>7. /\ proposals' \in Seq(Proposal) /\ Len(proposals') = Len(proposals)
      /\ DOMAIN proposals' = DOMAIN proposals
      /\ proposals'[i] = done
      /\ \A j \in DOMAIN proposals : j # i => proposals'[j] = proposals[j]
  BY <1>1, <1>2, <1>6, ExceptSeq
<1>8. Marked(done, store')
  <2> DEFINE s == Sender(p.q)
  <2>1. s \in Accounts
    BY <1>2 DEF Accepted, Known
  <2>2. store'[s] = Effect(p, s)
    BY <1>2, <2>1
  <2>3. CASE p.q.action = "account_create"
    <3>1. ~store[s].exists
      BY <1>2, <2>3 DEF Accepted
    <3>2. store'[s].exists
      <4>1. Effect(p, s) = [store[s] EXCEPT !.exists = TRUE]
        BY <2>3 DEF Effect
      <4> QED
        BY <4>1, <2>1, <2>2, <1>1 DEF Store, Account
    <3> QED
      BY <3>2, <2>1, <2>3, <1>6 DEF Marked
  <2>4. CASE p.q.action # "account_create"
    <3>1. p.digest = store[s].last_hash
      BY <1>2, <2>4 DEF Accepted
    <3>2. store'[s].last_hash = store[s].last_hash + 1
      BY <2>1, <2>2, <2>4, <1>1, SenderEffect
    <3>3. p.digest \in Int
      BY <1>1 DEF Proposal
    <3> QED
      BY <3>1, <3>2, <3>3, <2>1, <2>4, <1>6 DEF Marked
  <2> QED
    BY <2>3, <2>4
<1>9. ASSUME NEW j \in DOMAIN proposals', NEW l \in DOMAIN proposals', j # l,
             proposals[j].q = proposals[l].q, proposals[j].digest = proposals[l].digest
      PROVE  ~(proposals'[j].committed /\ proposals'[l].committed) \/ (j # i /\ l # i)
  <2>1. ASSUME NEW m \in DOMAIN proposals, proposals[m].q = p.q,
               proposals[m].digest = p.digest
        PROVE  ~proposals[m].committed
    <3>1. Marked(proposals[m], store)
      BY <1>1 DEF Books
    <3>2. \A a \in Accounts : store[a].last_hash \in Int
      BY <1>1, NumbersAssumption DEF Store, Account
    <3> QED
      BY <2>1, <3>1, <3>2, <1>2 DEF Marked, Accepted
  <2> QED
    BY <2>1, <1>7, <1>9
<1>10. ASSUME NEW j \in DOMAIN proposals'
       PROVE  /\ Marked(proposals'[j], store') /\ RetryOf(proposals', j)
              /\ proposals'[j].retry # 0 =>
                   ~(proposals'[j].committed /\ proposals'[proposals'[j].retry].committed)
  <2>1. /\ j \in DOMAIN proposals /\ j \in 1..Len(proposals)
        /\ Marked(proposals[j], store') /\ RetryOf(proposals, j)
        /\ proposals[j].retry # 0 =>
             ~(proposals[j].committed /\ proposals[proposals[j].retry].committed)
    BY <1>1, <1>4, <1>7 DEF Books
  <2>2. Marked(proposals'[j], store')
    BY <2>1, <1>7, <1>8
  <2>3. \A m \in DOMAIN proposals : /\ proposals'[m].q = proposals[m].q
                                    /\ proposals'[m].digest = proposals[m].digest
                                    /\ proposals'[m].retry = proposals[m].retry
    BY <1>6, <1>7
  <2>4. proposals[j].retry # 0 => /\ proposals[j].retry \in DOMAIN proposals
                                  /\ proposals[j].retry # j
    BY <2>1, <1>1 DEF RetryOf
  <2>5. RetryOf(proposals', j)
    BY <2>1, <2>3, <2>4 DEF RetryOf
  <2>6. ASSUME proposals[j].retry # 0
        PROVE  ~(proposals'[j].committed /\ proposals'[proposals[j].retry].committed)
    <3>1. CASE j # i /\ proposals[j].retry # i
      BY <3>1, <2>1, <2>4, <2>6, <1>7
    <3>2. CASE ~(j # i /\ proposals[j].retry # i)
      BY <3>2, <2>1, <2>4, <2>6, <1>7, <1>9 DEF RetryOf
    <3> QED
      BY <3>1, <3>2
  <2> QED
    BY <2>1, <2>2, <2>3, <2>5, <2>6
<1> QED
  BY <1>1, <1>7, <1>10 DEF Books

-----------------------------------------------------------------------------
(* The invariant *)

LEMMA InitIInv == Init => IInv
<1> SUFFICES ASSUME Init PROVE IInv
  OBVIOUS
<1>1. store \in Store
  <2> DEFINE First == [exists : BOOLEAN, balance : Balances, last_hash : {0},
                       received : {0}, settled : {FALSE}]
  <2>1. ASSUME NEW x \in First PROVE x \in Account
    <3>1. /\ x = [exists |-> x.exists, balance |-> x.balance, last_hash |-> x.last_hash,
                  received |-> x.received, settled |-> x.settled]
      OBVIOUS
    <3>4. /\ x.exists \in BOOLEAN /\ x.balance \in Balances /\ x.last_hash = 0
          /\ x.received = 0 /\ x.settled = FALSE
      OBVIOUS
    <3>2. 0 \in 0..MaxHash
      BY NumbersAssumption
    <3>3. /\ x.last_hash \in 0..MaxHash /\ x.received \in Nat /\ x.settled \in BOOLEAN
      BY <3>2, <3>4, 0 \in Nat, Zenon
    <3> QED
      BY <3>1, <3>3, <3>4, Zenon DEF Account
  <2>2. store \in [Accounts -> First]
    BY DEF Init
  <2> QED
    BY <2>1, <2>2 DEF Store
<1>2. \A w \in Workers : worker[w] = Idle /\ Idle \in Working
  BY DEF Init, Idle, Working
<1>3. Books(proposals, store) /\ store[genesis].exists
  BY NumbersAssumption DEF Init, Books
<1> QED
  BY <1>1, <1>2, <1>3 DEF Init, IInv, Sound, Idle

\* A step of one thread that leaves the store alone.
LEMMA StepOfOne ==
  ASSUME IInv, NEW w \in Workers, NEW k, Sound(k, store),
         worker' = [worker EXCEPT ![w] = k], UNCHANGED store, Books(proposals', store)
  PROVE  IInv'
<1>1. k \in Working
  BY DEF Sound
<1>2. worker' \in [Workers -> Working]
  BY <1>1 DEF IInv
<1>3. \A v \in Workers : Sound(worker'[v], store)
  BY <1>1 DEF IInv
<1> QED
  BY <1>2, <1>3 DEF IInv

LEMMA NextIInv == IInv /\ [Next]_vars => IInv'
<1> SUFFICES ASSUME IInv, [Next]_vars PROVE IInv'
  OBVIOUS
<1>1. ASSUME NEW w \in Workers, Serve(w) PROVE IInv'
  <2>1. CASE Propose(w)
    BY <2>1, ProposeBooks, StepOfOne DEF Propose
  <2>2. CASE ~Propose(w)
    <3>1. \E k : Sound(k, store) /\ worker' = [worker EXCEPT ![w] = k]
      BY <1>1, <2>2, ArriveSound, FilterSound, QuerySound, AccountInfoSound,
         ReadPendingSound, MakeTransactionSound, RespondSound DEF Serve
    <3>2. UNCHANGED <<store, proposals>>
      BY <1>1, <2>2 DEF Serve, Arrive, Filter, Query, AccountInfo, ReadPending,
                        MakeTransaction, Respond
    <3> QED
      BY <3>1, <3>2, StepOfOne DEF IInv
  <2> QED
    BY <2>1, <2>2
<1>2. ASSUME NEW i \in DOMAIN proposals, Retry(i) PROVE IInv'
  <2>1. UNCHANGED <<store, worker>>
    BY <1>2 DEF Retry
  <2>2. Books(proposals', store)
    BY <1>2, RetryBooks
  <2> QED
    BY <2>1, <2>2 DEF IInv
<1>3. ASSUME NEW i \in DOMAIN proposals, Commit(i) PROVE IInv'
  <2>1. UNCHANGED worker
    BY <1>3 DEF Commit
  <2>2. store' \in Store /\ Grown(store, store')
    BY <1>3, CommitGrows
  <2>3. \A w \in Workers : Sound(worker[w], store')
    BY <2>2, SoundGrows DEF IInv
  <2>4. Books(proposals', store')
    BY <1>3, CommitBooks
  <2>5. store'[genesis].exists
    BY <2>2, GenesisAssumption DEF IInv, Grown
  <2> QED
    BY <2>1, <2>2, <2>3, <2>4, <2>5 DEF IInv
<1>4. ASSUME UNCHANGED vars PROVE IInv'
  BY <1>4 DEF vars, IInv
<1> QED
  BY <1>1, <1>2, <1>3, <1>4 DEF Next

\* What each worker knows of the store and what was proposed stay sound, whatever the
\* chain commits between two reads of a request.
THEOREM Invariant == Spec => []IInv
<1> QED
  BY InitIInv, NextIInv, PTL DEF Spec

-----------------------------------------------------------------------------
(* The properties *)

\* Types, the queue of checks that is never empty while checks are due, and replies that are
\* known codes: XActionManager.TypeOK.
THEOREM TypeCorrect == Spec => []TypeOK
<1>1. IInv => TypeOK
  <2> SUFFICES ASSUME IInv PROVE TypeOK
    OBVIOUS
  <2>1. \A a \in Accounts : /\ store[a].exists \in BOOLEAN /\ store[a].balance \in Balances
                            /\ store[a].last_hash \in 0..MaxHash
                            /\ store[a].received \in Nat /\ store[a].settled \in BOOLEAN
    BY DEF IInv, Store, Account
  <2>2. ASSUME NEW w \in Workers
        PROVE  /\ worker[w].pc \in {"idle", "rule", "action", "info", "propose", "reply"}
               /\ worker[w].pc = "rule" => Len(worker[w].todo) > 0
               /\ worker[w].pc = "reply" => worker[w].code \in Codes
    <3>1. worker[w] \in Working /\ Sound(worker[w], store)
      BY DEF IInv
    <3>2. worker[w].pc \in {"idle", "rule", "action", "info", "propose", "reply"}
      BY <3>1 DEF Working, Serving, Proposing, Replying
    <3>3. worker[w].pc = "reply" => worker[w].code \in Codes
      BY <3>1 DEF Working, Serving, Proposing, Replying
    <3>4. ASSUME worker[w].pc = "rule" PROVE Len(worker[w].todo) > 0
      <4>1. worker[w].todo \in Seq(CheckNames) /\ worker[w].todo # <<>>
        BY <3>1, <3>4, ServingFacts DEF Due
      <4>2. Len(worker[w].todo) \in Nat /\ Len(worker[w].todo) # 0
        BY <4>1, LenProperties, EmptySeq
      <4> QED
        BY <4>2
    <3> QED
      BY <3>2, <3>3, <3>4
  <2>3. Len(proposals) \in 0..MaxProposals
    BY LenProperties DEF IInv, Books
  <2> QED
    BY <2>1, <2>2, <2>3 DEF TypeOK
<1> QED
  BY <1>1, Invariant, PTL

\* A gift that passed give_filter is for an account that nothing had been transferred to
\* when the filter began: the pending list is read before the settled one.
THEOREM GiftsSeen == Spec => []GiftSeen
<1>1. IInv => GiftSeen
  BY ServingFacts DEF IInv, GiftSeen, Fresh
<1> QED
  BY <1>1, Invariant, PTL

\* The digest of a transfer of the http route is a last hash its sender had while the request
\* was served, but for a transfer_in by an account that was unknown when the request came.
THEOREM NothingStale == Spec => []NoStaleProposal
<1>1. IInv => NoStaleProposal
  BY DEF IInv, NoStaleProposal, Sound, Proposed, Stood, Known
<1> QED
  BY <1>1, Invariant, PTL

\* A proposal that is retried although it was not lost is not executed twice.
THEOREM RetriesHarmless == Spec => []RetryHarmless
<1>1. IInv => RetryHarmless
  BY DEF IInv, RetryHarmless, Books
<1> QED
  BY <1>1, Invariant, PTL

\* account_info misses only a transfer that moves from the pending list to the settled
\* one between its two looks.
THEOREM OnlyMovingMissed == Spec => InfoMissesOnlyMoving
<1>1. IInv /\ [Next]_vars =>
        [\A w \in Workers :
           worker[w].pc = "info" /\ worker'[w] = Reply("free") =>
             LET mine == worker[w].q.account IN
             ~worker[w].began[mine].settled /\ store[mine].received = 0]_vars
  <2> SUFFICES ASSUME IInv, Next, NEW w \in Workers, worker[w].pc = "info",
                      worker'[w] = Reply("free")
               PROVE  /\ ~worker[w].began[worker[w].q.account].settled
                      /\ store[worker[w].q.account].received = 0
    OBVIOUS
  <2>1. /\ worker[w].q.account \in Accounts
        /\ ~worker[w].began[worker[w].q.account].settled
    BY ServingFacts DEF IInv, Unsettled
  <2>2. store[worker[w].q.account].received \in Nat
    BY <2>1 DEF IInv, Store, Account
  <2>3. Reply("free").pc = "reply" /\ Reply("free").code = "free"
    BY DEF Reply
  <2>4. PICK v \in Workers : Serve(v)
    BY <2>3 DEF Next, Retry, Commit
  <2>5. v = w
    BY <2>3, <2>4 DEF Serve, Arrive, Filter, Query, AccountInfo, ReadPending,
                      MakeTransaction, Propose, Respond, Step, IInv
  <2>6. ReadPending(w)
    BY <2>4, <2>5 DEF Serve, Arrive, Filter, Query, AccountInfo, MakeTransaction, Propose,
                      Respond
  <2>7. worker'[w] = Reply(IF store[worker[w].q.account].received > 0 THEN "ok" ELSE "free")
    BY <2>6 DEF ReadPending, Step, IInv
  <2>8. ~(store[worker[w].q.account].received > 0)
    BY <2>7, <2>3 DEF Reply
  <2> QED
    BY <2>1, <2>2, <2>8
<1> QED
  BY <1>1, Invariant, PTL DEF Spec, InfoMissesOnlyMoving

-----------------------------------------------------------------------------
(* HistoryPaging: arithmetic of the pages *)

HistorySpec == HistoryInit /\ [][HistoryNext]_history

\* A product that fits an int is not changed.
LEMMA WrapFits ==
  ASSUME NEW n \in Nat, n < IntWord \div 2 PROVE Wrap(n) = n
<1> DEFINE h == IntWord \div 2
<1>1. h \in Nat /\ h + h <= IntWord /\ IntWord \in Nat \ {0}
  BY PagingAssumption
<1> HIDE DEF h
<1>2. n + h \in 0..(IntWord - 1)
  BY <1>1 DEF h
<1>3. (n + h) % IntWord = n + h
  BY <1>1, <1>2
<1> QED
  BY <1>1, <1>3 DEF Wrap, h

\* The bounds of a page are no further apart than its length, even if they overflow.
LEMMA WrapApart ==
  ASSUME NEW x \in Int, NEW p \in Nat
  PROVE  /\ Wrap(x) \in Int /\ Wrap(x + p) \in Int
         /\ Wrap(x + p) - Wrap(x) <= p
<1> DEFINE W == IntWord  h == W \div 2
           a == x + h  b == (x + p) + h
<1>1. W \in Nat \ {0} /\ h \in Nat /\ a \in Int /\ b \in Int /\ b = a + p
  BY PagingAssumption
<1> HIDE DEF W, h, a, b
<1>2. /\ a = W * (a \div W) + (a % W) /\ a % W \in 0..(W - 1) /\ a \div W \in Int
      /\ b = W * (b \div W) + (b % W) /\ b % W \in 0..(W - 1) /\ b \div W \in Int
  BY <1>1
<1>3. (b % W) - (a % W) <= p
  <2> DEFINE q == a \div W  r == b \div W
  <2>1. q \in Int /\ r \in Int /\ W * r \in Int /\ W * q \in Int
    BY <1>1, <1>2
  <2>2. W * r - W * q = p - ((b % W) - (a % W))
    BY <1>1, <1>2, <2>1
  <2>3. W * r - W * q = W * (r - q)
    BY <1>1, <2>1
  <2> HIDE DEF q, r
  <2>4. r - q < 0 => W * (r - q) <= -W
    BY <1>1, <2>1
  <2>5. r - q >= 0 => W * (r - q) >= 0
    BY <1>1, <2>1
  <2> QED
    BY <1>1, <1>2, <2>1, <2>2, <2>3, <2>4, <2>5
<1>4. Wrap(x) = (a % W) - h /\ Wrap(x + p) = (b % W) - h
  BY DEF Wrap, W, h, a, b
<1> QED
  BY <1>1, <1>2, <1>3, <1>4

LEMMA NextPage ==
  ASSUME NEW c \in Int, NEW p \in Int PROVE (c + 1) * p = c * p + p /\ c * p \in Int
  OBVIOUS

-----------------------------------------------------------------------------
(* The place of a transfer in the history *)

HistoryTyped == settled \in Seq([id : Nat, parties : {<<>>} \cup Parties \X Parties])
                /\ Len(settled) <= MaxHistory

LEMMA TransfersFinite ==
  ASSUME HistoryTyped
  PROVE  /\ TransferPlaces \subseteq 1..Len(settled) /\ IsFiniteSet(TransferPlaces)
         /\ Cardinality(TransferPlaces) \in 0..MaxHistory
         /\ \A i \in TransferPlaces : i \in Int /\ Num(i) \in Nat /\ Num(i) < Cardinality(TransferPlaces)
<1>1. TransferPlaces \subseteq 1..Len(settled) /\ Len(settled) \in Nat /\ Len(settled) <= MaxHistory
  BY LenProperties DEF TransferPlaces, HistoryTyped
<1>2. IsFiniteSet(1..Len(settled)) /\ Cardinality(1..Len(settled)) = Len(settled)
  <2> DEFINE n == Len(settled)
  <2>1. n \in Nat /\ 1 \in Int /\ n \in Int
    BY <1>1
  <2> HIDE DEF n
  <2>2. IsFiniteSet(1..n) /\ Cardinality(1..n) = IF 1 > n THEN 0 ELSE n - 1 + 1
    BY <2>1, FS_Interval, Zenon
  <2> QED
    BY <2>1, <2>2 DEF n
<1>3. IsFiniteSet(TransferPlaces) /\ Cardinality(TransferPlaces) <= Len(settled)
  BY <1>1, <1>2, FS_Subset
<1>4. Cardinality(TransferPlaces) \in Nat
  BY <1>3, FS_CardinalityType
<1>5. ASSUME NEW i \in TransferPlaces
      PROVE  i \in Int /\ Num(i) \in Nat /\ Num(i) < Cardinality(TransferPlaces)
  <2> DEFINE before == {j \in TransferPlaces : j < i}
  <2>1. i \in Int
    BY <1>1
  <2>2. before \subseteq TransferPlaces /\ before # TransferPlaces
    BY <2>1
  <2>3. /\ IsFiniteSet(before) /\ Cardinality(before) <= Cardinality(TransferPlaces)
        /\ Cardinality(before) # Cardinality(TransferPlaces)
    BY <1>3, <2>2, FS_Subset, Zenon
  <2>4. Cardinality(before) \in Nat
    BY <2>3, FS_CardinalityType
  <2>5. Num(i) = Cardinality(before)
    BY DEF Num
  <2> HIDE DEF before
  <2> QED
    BY <2>1, <2>3, <2>4, <2>5, <1>4
<1> QED
  BY <1>1, <1>3, <1>4, <1>5, PagingAssumption

\* Two transfers are at two places of the count.
LEMMA NumDiffers ==
  ASSUME HistoryTyped, NEW i \in TransferPlaces, NEW j \in TransferPlaces, i # j
  PROVE  Num(i) # Num(j)
<1> SUFFICES ASSUME NEW k \in TransferPlaces, NEW l \in TransferPlaces, k < l PROVE Num(k) < Num(l)
  <2>1. i \in Int /\ j \in Int /\ Num(i) \in Int /\ Num(j) \in Int
    BY TransfersFinite
  <2> QED
    BY <2>1
<1> DEFINE K == {m \in TransferPlaces : m < k}
           L == {m \in TransferPlaces : m < l}
<1>1. K \subseteq L /\ k \in L /\ k \notin K
  BY TransfersFinite
<1>2. IsFiniteSet(L)
  BY TransfersFinite, FS_Subset
<1>3. Num(k) = Cardinality(K) /\ Num(l) = Cardinality(L)
  BY DEF Num
<1>4. Num(k) \in Nat /\ Num(l) \in Nat
  BY TransfersFinite
<1> HIDE DEF K, L
<1>5. Cardinality(K) <= Cardinality(L) /\ Cardinality(K) # Cardinality(L)
  BY <1>1, <1>2, FS_Subset, Zenon
<1> QED
  BY <1>3, <1>4, <1>5

\* A page holds no more than per_page transfers: each has a number of its own between its bounds.
LEMMA PageLength ==
  ASSUME HistoryTyped, NEW count \in Int, NEW per_page \in Nat
  PROVE  Cardinality(Page(count, per_page)) <= per_page
<1> DEFINE x == count * per_page
           s == Wrap(x)
           e == Wrap(x + per_page)
           P == Page(count, per_page)
           f == [i \in P |-> Num(i)]
<1>1. x \in Int /\ (count + 1) * per_page = x + per_page
  BY NextPage
<1>2. P = {i \in TransferPlaces : Num(i) >= s /\ Num(i) < e}
  BY <1>1 DEF Page, InPage
<1> HIDE DEF x
<1>3. s \in Int /\ e \in Int /\ e - s <= per_page
  BY <1>1, WrapApart
<1> HIDE DEF s, e, P
<1>4. f \in Injection(P, s..(e - 1))
  <2>1. \A i \in P : i \in TransferPlaces /\ Num(i) \in s..(e - 1)
    BY <1>2, <1>3, TransfersFinite
  <2>2. \A i, j \in P : i # j => Num(i) # Num(j)
    BY <2>1, NumDiffers
  <2> QED
    BY <2>1, <2>2 DEF Injection, IsInjective
<1>5. IsFiniteSet(s..(e - 1)) /\ Cardinality(s..(e - 1)) <= per_page
  <2> DEFINE f1 == e - 1
  <2>1. f1 \in Int /\ s \in Int
    BY <1>3
  <2> HIDE DEF f1
  <2>2. IsFiniteSet(s..f1) /\ Cardinality(s..f1) = IF s > f1 THEN 0 ELSE f1 - s + 1
    BY <2>1, FS_Interval, Zenon
  <2>3. (IF s > f1 THEN 0 ELSE f1 - s + 1) <= per_page
    BY <1>3 DEF f1
  <2> QED
    BY <2>2, <2>3 DEF f1
<1>6. IsFiniteSet(P) /\ Cardinality(P) <= Cardinality(s..(e - 1))
  BY <1>4, <1>5, FS_Injection
<1>7. Cardinality(P) \in Nat /\ Cardinality(s..(e - 1)) \in Nat
  BY <1>5, <1>6, FS_CardinalityType
<1> QED
  BY <1>5, <1>6, <1>7 DEF P

-----------------------------------------------------------------------------
(* The inductive invariant of the paging client *)

\* A transfer the client is still to see: it is not before the next page.
Ahead(id) == \E i \in TransferPlaces : /\ settled[i].id = id
                                       /\ Num(i) >= paging.count * paging.per_page

\* The transfers that were settled when the client began have been seen, are in the answer
\* that is made, or are ahead; the client ends when there is nothing ahead.
Pages ==
  /\ paging.count \in Nat /\ paging.per_page \in PerPages \cup {0}
  /\ paging.per_page = 0 => paging.count = 0
  /\ paging.count = 0 => paging.began = {}
  /\ \A id \in paging.began : id \in paging.seen \cup answer.blocks \/ Ahead(id)
  /\ paging.ended \in BOOLEAN /\ answer.busy \in BOOLEAN
  /\ answer.busy => /\ answer.count \in 0..MaxHistory
                    /\ paging.count * paging.per_page >= answer.count =>
                         paging.began \subseteq paging.seen \cup answer.blocks
  /\ ~answer.busy => answer = NoAnswer
  /\ ~answer.busy /\ ~paging.ended => paging.count * paging.per_page <= MaxHistory
  /\ paging.ended => paging.began \subseteq paging.seen

\* The tags in the answer are the ones that were kept.
Tagged ==
  /\ \E S : answer.tagged \in Seq(S)
  /\ \A i \in DOMAIN answer.tagged :
       LET account == answer.tagged[i][1] IN
       /\ account \in DOMAIN answer.user_tag
       /\ answer.tagged[i] = <<account, answer.user_tag[account]>>

HistoryInv == HistoryTyped /\ Pages /\ Tagged

\* The history can be counted in an int, with a page to spare.
HistoryFits == MaxHistory + LARGEST_PER_PAGE < IntWord \div 2

LEMMA PerPageTyped ==
  /\ PerPages \subseteq Nat /\ 0 \notin PerPages
  /\ \A p \in PerPages : p <= LARGEST_PER_PAGE
  /\ LARGEST_PER_PAGE \in Nat /\ MaxHistory \in Nat /\ IntWord \div 2 \in Int
  BY PagingAssumption

LEMMA EmptyTagged == \E S : <<>> \in Seq(S)
<1>1. <<>> \in Seq({})
  OBVIOUS
<1> QED
  BY <1>1

LEMMA HistoryInitInv == HistoryInit => HistoryInv
<1> SUFFICES ASSUME HistoryInit PROVE HistoryInv
  OBVIOUS
<1>1. HistoryTyped
  <2>1. Len(settled) = 0
    BY DEF HistoryInit
  <2> QED
    BY <2>1, PagingAssumption DEF HistoryInit, HistoryTyped
<1>2. Pages
  <2>1. 0 * 0 = 0
    OBVIOUS
  <2> QED
    BY <2>1, PagingAssumption DEF HistoryInit, Pages, NoAnswer, NoPaging
<1>3. Tagged
  <2>1. answer.tagged = <<>>
    BY DEF HistoryInit, NoAnswer
  <2>2. DOMAIN answer.tagged = {}
    BY <2>1
  <2> QED
    BY <2>1, <2>2, EmptyTagged DEF Tagged
<1> QED
  BY <1>1, <1>2, <1>3 DEF HistoryInv

\* A block that is settled moves the others on.
LEMMA SettleInv ==
  ASSUME HistoryInv, Settle PROVE HistoryInv'
<1> DEFINE Block == [id : Nat, parties : {<<>>} \cup Parties \X Parties]
           n == Len(settled)
<1>1. PICK b \in Block : settled' = <<b>> \o settled
  <2>1. PICK parties \in {<<>>} \cup {p \in Parties \X Parties : p[1] # p[2]} :
          settled' = <<[id |-> n + 1, parties |-> parties]>> \o settled
    BY DEF Settle
  <2>2. n + 1 \in Nat
    BY LenProperties DEF HistoryInv, HistoryTyped
  <2> QED
    BY <2>1, <2>2
<1>2. /\ settled \in Seq(Block) /\ n \in Nat /\ n < MaxHistory
      /\ UNCHANGED <<answer, paging>>
  BY LenProperties DEF HistoryInv, HistoryTyped, Settle
<1> HIDE DEF Block
<1>3. <<b>> \in Seq(Block) /\ Len(<<b>>) = 1 /\ <<b>>[1] = b
  OBVIOUS
<1>4. /\ settled' \in Seq(Block) /\ Len(settled') = n + 1
      /\ \A i \in 1..n : settled'[i + 1] = settled[i]
  BY <1>1, <1>2, <1>3, ConcatProperties
<1>5. HistoryTyped'
  BY <1>2, <1>4, PagingAssumption DEF HistoryTyped, Block
<1>6. DOMAIN settled = 1..n /\ DOMAIN settled' = 1..(n + 1)
  BY <1>2, <1>4, LenProperties
<1>7. ASSUME NEW i \in TransferPlaces
      PROVE  /\ i + 1 \in TransferPlaces' /\ settled'[i + 1] = settled[i]
             /\ Num(i)' \in Nat /\ Num(i + 1)' \in Nat /\ Num(i + 1)' >= Num(i)
  <2>1. i \in 1..n /\ i + 1 \in 1..(n + 1)
    BY <1>2, <1>6 DEF TransferPlaces
  <2>2. i + 1 \in TransferPlaces'
    BY <2>1, <1>4, <1>6 DEF TransferPlaces
  <2> DEFINE before == {j \in TransferPlaces : j < i}
             after == {j \in TransferPlaces' : j < i + 1}
             f == [j \in before |-> j + 1]
  <2>3. f \in Injection(before, after)
    <3>1. ASSUME NEW j \in before PROVE j \in Int /\ j + 1 \in after
      <4>1. j \in 1..n /\ j < i /\ settled[j].parties # <<>>
        BY <1>6 DEF TransferPlaces
      <4>2. j + 1 \in 1..(n + 1) /\ j + 1 < i + 1 /\ j \in Int
        BY <1>2, <2>1, <4>1
      <4>3. j + 1 \in TransferPlaces'
        BY <4>1, <4>2, <1>4, <1>6 DEF TransferPlaces
      <4> QED
        BY <4>2, <4>3
    <3> HIDE DEF before, after
    <3> QED
      BY <3>1 DEF Injection, IsInjective
  <2>4. IsFiniteSet(TransferPlaces')
    <3>1. IsFiniteSet(1..(n + 1))
      BY <1>2, FS_Interval
    <3>2. TransferPlaces' \subseteq 1..(n + 1)
      BY <1>6 DEF TransferPlaces
    <3> QED
      BY <3>1, <3>2, FS_Subset
  <2>5. IsFiniteSet(after)
    BY <2>4, FS_Subset
  <2>6. Cardinality(before) <= Cardinality(after)
    BY <2>3, <2>5, FS_Injection
  <2>7. Num(i) = Cardinality(before) /\ Num(i + 1)' = Cardinality(after)
    BY DEF Num
  <2>8. Num(i + 1)' \in Nat /\ Num(i)' \in Nat
    <3>1. Cardinality(after) \in Nat
      BY <2>5, FS_CardinalityType
    <3>2. IsFiniteSet({j \in TransferPlaces' : j < i})
      BY <2>4, FS_Subset
    <3>3. Cardinality({j \in TransferPlaces' : j < i}) \in Nat
      BY <3>2, FS_CardinalityType
    <3> QED
      BY <2>7, <3>1, <3>3 DEF Num
  <2>9. Num(i) \in Nat
    BY TransfersFinite DEF HistoryInv
  <2> QED
    BY <2>1, <2>2, <1>4, <2>6, <2>7, <2>8, <2>9
<1>8. ASSUME NEW id, Ahead(id) PROVE Ahead(id)'
  <2>1. PICK i \in TransferPlaces : settled[i].id = id /\ Num(i) >= paging.count * paging.per_page
    BY <1>8 DEF Ahead
  <2>2. paging.count * paging.per_page \in Int
    <3>1. paging.count \in Nat /\ paging.per_page \in Nat
      BY PerPageTyped DEF HistoryInv, Pages
    <3>2. \A x, y \in Nat : x * y \in Int
      OBVIOUS
    <3> QED
      BY <3>1, <3>2
  <2>3. Num(i) \in Nat
    BY TransfersFinite DEF HistoryInv
  <2>4. /\ i + 1 \in TransferPlaces' /\ settled'[i + 1].id = id
        /\ Num(i + 1)' >= (paging.count * paging.per_page)'
    BY <1>2, <1>7, <2>1, <2>2, <2>3
  <2> QED
    BY <2>4 DEF Ahead
<1>9. Pages'
  BY <1>2, <1>8 DEF HistoryInv, Pages
<1>10. Tagged'
  BY <1>2 DEF HistoryInv, Tagged
<1> QED
  BY <1>5, <1>9, <1>10 DEF HistoryInv

\* A transfer ahead is on the page that is asked for, or still ahead.
LEMMA AskPageInv ==
  ASSUME HistoryFits, HistoryInv, NEW per_page \in PerPages, AskPage(per_page)
  PROVE  HistoryInv'
<1> DEFINE c == paging.count
           page == Page(c, per_page)
           low == c * per_page
           high == (c + 1) * per_page
<1>1. /\ paging.per_page \in {0, per_page} /\ ~paging.ended /\ ~answer.busy
      /\ answer' = [busy |-> TRUE, todo |-> PartiesOn(page), user_tag |-> <<>>,
                    tagged |-> <<>>, blocks |-> Ids(page), count |-> Cardinality(TransferPlaces)]
      /\ paging' = [per_page |-> per_page, count |-> c + 1,
                    began |-> IF c = 0 THEN Ids(TransferPlaces) ELSE paging.began,
                    seen |-> paging.seen, ended |-> FALSE]
      /\ UNCHANGED settled
  BY DEF AskPage
<1>2. /\ HistoryTyped /\ Pages /\ c \in Nat /\ per_page \in Nat /\ per_page # 0
      /\ per_page <= LARGEST_PER_PAGE
  BY PerPageTyped DEF HistoryInv, Pages
<1>3. low \in Nat /\ high = low + per_page /\ high \in Nat
  <2>1. \A x, y \in Nat : x * y \in Nat
    OBVIOUS
  <2> QED
    BY <1>2, <2>1, NextPage
<1>4. c * paging.per_page = low
  <2>1. CASE paging.per_page = per_page
    BY <2>1
  <2>2. CASE paging.per_page = 0
    <3>1. c = 0 /\ 0 * per_page = 0 /\ 0 * 0 = 0
      BY <2>2, <1>2 DEF Pages
    <3> QED
      BY <2>2, <3>1
  <2> QED
    BY <1>1, <2>1, <2>2
<1>5. low <= MaxHistory
  BY <1>1, <1>2, <1>4 DEF Pages
<1>6. low < IntWord \div 2 /\ high < IntWord \div 2
  BY <1>2, <1>3, <1>5, PerPageTyped DEF HistoryFits
<1>7. Wrap(low) = low /\ Wrap(high) = high
  BY <1>3, <1>6, WrapFits
<1>8. page = {i \in TransferPlaces : Num(i) >= low /\ Num(i) < high}
  BY <1>7 DEF Page, InPage
<1>9. /\ paging'.count = c + 1 /\ paging'.per_page = per_page /\ paging'.seen = paging.seen
      /\ paging'.began = (IF c = 0 THEN Ids(TransferPlaces) ELSE paging.began)
      /\ paging'.ended = FALSE /\ paging'.count * paging'.per_page = high
  BY <1>1
<1>10. /\ answer'.busy = TRUE /\ answer'.blocks = Ids(page) /\ answer'.tagged = <<>>
       /\ answer'.count = Cardinality(TransferPlaces)
  BY <1>1
<1>11. TransferPlaces' = TransferPlaces /\ \A i \in TransferPlaces : Num(i)' = Num(i)
  BY <1>1 DEF TransferPlaces, Num
<1>12. answer.blocks = {}
  BY <1>1, <1>2 DEF Pages, NoAnswer
<1> HIDE DEF c, page, low, high
<1>13. \A id \in paging'.began : id \in paging.seen
         \/ \E i \in TransferPlaces : settled[i].id = id /\ Num(i) >= low
  <2>1. CASE c = 0
    <3>1. low = 0
      <4>1. 0 * per_page = 0
        BY <1>2
      <4> QED
        BY <2>1, <4>1 DEF low
    <3>2. \A i \in TransferPlaces : Num(i) >= low
      BY <3>1, <1>2, TransfersFinite
    <3> QED
      BY <2>1, <3>2, <1>9 DEF Ids
  <2>2. CASE c # 0
    BY <2>2, <1>2, <1>4, <1>9, <1>12 DEF Pages, Ahead, c
  <2> QED
    BY <2>1, <2>2
<1>14. \A i \in TransferPlaces : Num(i) >= low => i \in page \/ Num(i) >= high
  BY <1>2, <1>3, <1>8, TransfersFinite
<1>15. \A id \in paging'.began : id \in paging'.seen \cup answer'.blocks
         \/ \E i \in TransferPlaces : settled[i].id = id /\ Num(i) >= high
  BY <1>9, <1>10, <1>13, <1>14 DEF Ids
<1>16. ASSUME high >= Cardinality(TransferPlaces), NEW i \in TransferPlaces
       PROVE  ~(Num(i) >= high)
  BY <1>2, <1>3, <1>16, TransfersFinite
<1>17. Pages'
  <2>1. \A id \in paging'.began : id \in paging'.seen \cup answer'.blocks \/ Ahead(id)'
    BY <1>1, <1>9, <1>11, <1>15 DEF Ahead
  <2>2. high >= Cardinality(TransferPlaces) =>
          paging'.began \subseteq paging'.seen \cup answer'.blocks
    BY <1>15, <1>16
  <2>3. Cardinality(TransferPlaces) \in 0..MaxHistory
    BY <1>2, TransfersFinite
  <2>4. /\ paging'.count \in Nat \ {0} /\ paging'.per_page \in PerPages /\ paging'.per_page # 0
        /\ paging'.ended = FALSE /\ answer'.busy = TRUE
        /\ answer'.count \in 0..MaxHistory
    BY <2>3, <1>2, <1>9, <1>10
  <2>5. paging'.count * paging'.per_page >= answer'.count =>
          paging'.began \subseteq paging'.seen \cup answer'.blocks
    BY <2>2, <1>9, <1>10
  <2> QED
    BY <2>1, <2>4, <2>5 DEF Pages
<1>18. HistoryTyped'
  BY <1>1, <1>2 DEF HistoryTyped
<1>19. Tagged'
  <2>1. DOMAIN answer'.tagged = {}
    BY <1>10
  <2> QED
    BY <2>1, <1>10, EmptyTagged DEF Tagged
<1> QED
  BY <1>17, <1>18, <1>19 DEF HistoryInv

LEMMA TagPartyInv ==
  ASSUME HistoryInv, TagParty PROVE HistoryInv'
<1> DEFINE account == Head(answer.todo)
           value == IF account \in DOMAIN answer.user_tag THEN answer.user_tag[account]
                    ELSE tag[account]
           new == KeepTag(answer.user_tag, account, value)
           kept == answer.tagged
<1>1. /\ answer' = [busy |-> answer.busy, todo |-> Tail(answer.todo), user_tag |-> new,
                    tagged |-> Append(kept, <<account, value>>),
                    blocks |-> answer.blocks, count |-> answer.count]
      /\ answer.todo # <<>> /\ UNCHANGED <<settled, tag, paging>>
  BY DEF TagParty
<1>2. /\ answer'.busy = answer.busy /\ answer'.user_tag = new
      /\ answer'.tagged = Append(kept, <<account, value>>)
      /\ answer'.blocks = answer.blocks /\ answer'.count = answer.count
  BY <1>1
<1>3. answer.busy = TRUE
  BY <1>1 DEF HistoryInv, Pages, NoAnswer
<1>4. Pages'
  <2>1. TransferPlaces' = TransferPlaces /\ \A i \in TransferPlaces : Num(i)' = Num(i)
    BY <1>1 DEF TransferPlaces, Num
  <2>2. \A id : Ahead(id) => Ahead(id)'
    BY <1>1, <2>1 DEF Ahead
  <2> QED
    BY <1>1, <1>2, <1>3, <2>2 DEF HistoryInv, Pages
<1>5. HistoryTyped'
  BY <1>1 DEF HistoryInv, HistoryTyped
<1>6. /\ account \in DOMAIN new /\ new[account] = value
      /\ \A x \in DOMAIN answer.user_tag : x \in DOMAIN new /\ new[x] = answer.user_tag[x]
  BY DEF KeepTag
<1> HIDE DEF account, value, new, kept
<1>7. Tagged'
  <2>1. PICK S : kept \in Seq(S)
    BY DEF HistoryInv, Tagged, kept
  <2> DEFINE T == S \cup {<<account, value>>}
             n == Len(kept) + 1
  <2>2. kept \in Seq(T) /\ <<account, value>> \in T
    BY <2>1
  <2> HIDE DEF T
  <2>3. /\ answer'.tagged \in Seq(T) /\ Len(kept) \in Nat
        /\ Len(answer'.tagged) = n
        /\ \A i \in 1..Len(kept) : answer'.tagged[i] = kept[i]
        /\ answer'.tagged[n] = <<account, value>>
    BY <1>2, <2>2, AppendProperties, LenProperties
  <2>4. DOMAIN answer'.tagged = 1..n /\ DOMAIN kept = 1..Len(kept)
    BY <2>2, <2>3, LenProperties
  <2>5. ASSUME NEW i \in 1..n
        PROVE  /\ answer'.tagged[i][1] \in DOMAIN new
               /\ answer'.tagged[i] = <<answer'.tagged[i][1], new[answer'.tagged[i][1]]>>
    <3>1. CASE i = n
      BY <3>1, <2>3, <1>6
    <3>2. CASE i \in 1..Len(kept)
      <4>1. /\ kept[i][1] \in DOMAIN answer.user_tag
            /\ kept[i] = <<kept[i][1], answer.user_tag[kept[i][1]]>>
        BY <3>2, <2>4 DEF HistoryInv, Tagged, kept
      <4> QED
        BY <3>2, <4>1, <2>3, <1>6
    <3> QED
      BY <3>1, <3>2, <2>3
  <2> QED
    BY <1>2, <2>3, <2>4, <2>5 DEF Tagged
<1> QED
  BY <1>4, <1>5, <1>7 DEF HistoryInv

LEMMA AnswerPageInv ==
  ASSUME HistoryInv, AnswerPage PROVE HistoryInv'
<1>1. /\ answer.busy /\ answer' = NoAnswer /\ UNCHANGED <<settled, tag>>
      /\ paging' = [per_page |-> paging.per_page, count |-> paging.count,
                    began |-> paging.began, seen |-> paging.seen \cup answer.blocks,
                    ended |-> paging.count * paging.per_page >= answer.count]
  BY DEF AnswerPage
<1>2. /\ paging'.count = paging.count /\ paging'.per_page = paging.per_page
      /\ paging'.began = paging.began /\ paging'.seen = paging.seen \cup answer.blocks
      /\ paging'.ended <=> (paging.count * paging.per_page >= answer.count)
      /\ paging'.ended \in BOOLEAN
  <2> DEFINE ended == paging.count * paging.per_page >= answer.count
  <2>1. ended \in BOOLEAN
    OBVIOUS
  <2> HIDE DEF ended
  <2>2. paging' = [per_page |-> paging.per_page, count |-> paging.count,
                   began |-> paging.began, seen |-> paging.seen \cup answer.blocks,
                   ended |-> ended]
    BY <1>1 DEF ended
  <2>3. /\ paging'.count = paging.count /\ paging'.per_page = paging.per_page
        /\ paging'.began = paging.began /\ paging'.seen = paging.seen \cup answer.blocks
        /\ paging'.ended = ended
    BY <2>2
  <2> QED
    BY <2>1, <2>3, Zenon DEF ended
<1>3. /\ answer'.busy = FALSE /\ answer'.blocks = {} /\ answer'.tagged = <<>>
      /\ answer' = NoAnswer
  BY <1>1 DEF NoAnswer
<1>4. Pages /\ HistoryTyped
  BY DEF HistoryInv
<1>5. Pages'
  <2>1. TransferPlaces' = TransferPlaces /\ \A i \in TransferPlaces : Num(i)' = Num(i)
    BY <1>1 DEF TransferPlaces, Num
  <2>2. \A id : Ahead(id) => Ahead(id)'
    BY <1>1, <1>2, <2>1 DEF Ahead
  <2>3. \A id \in paging'.began : id \in paging'.seen \cup answer'.blocks \/ Ahead(id)'
    BY <1>2, <1>4, <2>2 DEF Pages
  <2>4. paging'.ended => paging'.began \subseteq paging'.seen
    BY <1>1, <1>2, <1>4 DEF Pages
  <2>5. ~paging'.ended => paging'.count * paging'.per_page <= MaxHistory
    <3> DEFINE x == paging.count * paging.per_page
    <3>1. x \in Nat
      <4>1. paging.count \in Nat /\ paging.per_page \in Nat
        BY <1>4, PerPageTyped DEF Pages
      <4>2. \A y, z \in Nat : y * z \in Nat
        OBVIOUS
      <4> QED
        BY <4>1, <4>2
    <3>2. paging'.count * paging'.per_page = x /\ (paging'.ended <=> x >= answer.count)
      BY <1>2
    <3>3. answer.count \in 0..MaxHistory
      BY <1>1, <1>4 DEF Pages
    <3> HIDE DEF x
    <3> QED
      BY <3>1, <3>2, <3>3, PerPageTyped
  <2> QED
    BY <1>2, <1>3, <1>4, <2>3, <2>4, <2>5 DEF Pages
<1>6. HistoryTyped'
  BY <1>1, <1>4 DEF HistoryTyped
<1>7. Tagged'
  <2>1. DOMAIN answer'.tagged = {}
    BY <1>3
  <2> QED
    BY <2>1, <1>3, EmptyTagged DEF Tagged
<1> QED
  BY <1>5, <1>6, <1>7 DEF HistoryInv

LEMMA HistorySame ==
  ASSUME HistoryInv, UNCHANGED <<settled, answer, paging>> PROVE HistoryInv'
<1>1. HistoryTyped' /\ Tagged'
  BY DEF HistoryInv, HistoryTyped, Tagged
<1>2. TransferPlaces' = TransferPlaces /\ \A i \in TransferPlaces : Num(i)' = Num(i)
  BY DEF TransferPlaces, Num
<1>3. \A id : Ahead(id) => Ahead(id)'
  BY <1>2 DEF Ahead
<1> QED
  BY <1>1, <1>3 DEF HistoryInv, Pages

LEMMA HistoryNextInv ==
  ASSUME HistoryFits, HistoryInv, [HistoryNext]_history PROVE HistoryInv'
<1>1. CASE Settle
  BY <1>1, SettleInv
<1>2. ASSUME NEW account \in Parties, SetTag(account) PROVE HistoryInv'
  BY <1>2, HistorySame DEF SetTag
<1>3. ASSUME NEW per_page \in PerPages, AskPage(per_page) PROVE HistoryInv'
  BY <1>3, AskPageInv
<1>4. CASE TagParty
  BY <1>4, TagPartyInv
<1>5. CASE AnswerPage
  BY <1>5, AnswerPageInv
<1>6. CASE UNCHANGED history
  BY <1>6, HistorySame DEF history
<1> QED
  BY <1>1, <1>2, <1>3, <1>4, <1>5, <1>6 DEF HistoryNext

\* A client that reads the history page by page misses no transfer that was there when it
\* began, no page is longer than per_page, and an account has one tag in an answer:
\* HistoryPaging.HistoryConsistent, for a history that can be counted in an int.
THEOREM HistoryIsConsistent ==
  ASSUME HistoryFits
  PROVE  HistorySpec => []HistoryConsistent
<1>1. HistoryInv => HistoryConsistent
  <2> SUFFICES ASSUME HistoryInv PROVE PagesMissNothing /\ OneTagEach
    BY DEF HistoryConsistent
  <2>1. IntWord \div 2 \in Int
    BY PerPageTyped
  <2>2. \A count \in -(IntWord \div 2)..(IntWord \div 2 - 1), per_page \in 0..LARGEST_PER_PAGE :
          Cardinality(Page(count, per_page)) <= per_page
    BY <2>1, PageLength DEF HistoryInv
  <2>3. PagesMissNothing
    BY <2>2 DEF HistoryInv, Pages, PagesMissNothing
  <2>4. OneTagEach
    BY DEF HistoryInv, Tagged, OneTagEach
  <2> QED
    BY <2>3, <2>4
<1>2. HistoryInv /\ [HistoryNext]_history => HistoryInv'
  BY HistoryNextInv
<1> QED
  BY <1>1, <1>2, HistoryInitInv, PTL DEF HistorySpec
=============================================================================
