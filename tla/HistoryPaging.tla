---------------------------- MODULE HistoryPaging ----------------------------
(***************************************************************************)
(* account_history and set_property_value (xaction_manager.cpp:241-327): a *)
(* client reads the settled transfers of an account page by page, the      *)
(* latest first, with the tags of their parties, while the chain settles   *)
(* more and tags change.  count and per_page are ints.                     *)
(***************************************************************************)
EXTENDS Integers, SequencesExt

CONSTANTS
  IntWord,            \* 2^32: ints are taken modulo IntWord, signed
  LARGEST_PER_PAGE,
  PerPages,           \* what the client asks for
  Parties, Tags,      \* senders and receivers, and the tags they may have
  MaxHistory          \* bound: blocks of the account

ASSUME PagingAssumption == /\ PerPages \subseteq 1..LARGEST_PER_PAGE
                           /\ LARGEST_PER_PAGE \in Nat /\ IntWord \in Nat \ {0}
                           /\ MaxHistory \in Nat

VARIABLES
  settled,  \* get_settle_blocks: blocks, the latest first
  tag,      \* the property TAG_NAME of each party
  answer,   \* the call of account_history in progress
  paging    \* the client: its next page, and what it has seen

history == <<settled, tag, answer, paging>>

NoAnswer == [busy |-> FALSE, todo |-> <<>>, user_tag |-> <<>>, tagged |-> <<>>,
             blocks |-> {}, count |-> 0]
NoPaging == [per_page |-> 0, count |-> 0, began |-> {}, seen |-> {}, ended |-> FALSE]

HistoryInit == /\ settled = <<>> /\ tag \in [Parties -> Tags]
               /\ answer = NoAnswer /\ paging = NoPaging

Wrap(n) == ((n + IntWord \div 2) % IntWord) - IntWord \div 2

\* Where the transfers are; blocks of other kinds have no parties here.
TransferPlaces == {i \in DOMAIN settled : settled[i].parties # <<>>}

\* num, when the loop is at block i.
Num(i) == Cardinality({j \in TransferPlaces : j < i})

\* Mutant: the first of each page is left out.
BehindStart(num, start_num, end_num) == num > start_num /\ num < end_num
InPage(num, start_num, end_num) == num >= start_num /\ num < end_num

\* The transfers of a page.
Page(count, per_page) ==
  LET start_num == Wrap(count * per_page)
      end_num   == Wrap((count + 1) * per_page)
  IN {i \in TransferPlaces : InPage(Num(i), start_num, end_num)}

Ids(places) == {settled[i].id : i \in places}

\* Their sources and destinations, in the order of the page.
PartiesOn(page) ==
  LET order == SetToSortSeq(page, <)
  IN FlattenSeq([n \in DOMAIN order |-> settled[order[n]].parties])

\* The chain settles a transfer, or a block of another kind.
Settle == /\ Len(settled) < MaxHistory
          /\ \E parties \in {<<>>} \cup {p \in Parties \X Parties : p[1] # p[2]} :
               settled' = <<[id |-> Len(settled) + 1, parties |-> parties]>> \o settled
          /\ UNCHANGED <<tag, answer, paging>>

\* A transaction that sets the property TAG_NAME is executed.
SetTag(account) == /\ \E value \in Tags : tag' = [tag EXCEPT ![account] = value]
                   /\ UNCHANGED <<settled, answer, paging>>

\* The client asks for the next page, until it has had as many pages as the count needs.
AskPage(per_page) ==
  LET page == Page(paging.count, per_page) IN
  /\ paging.per_page \in {0, per_page} /\ ~paging.ended /\ ~answer.busy
  /\ answer' = [busy |-> TRUE, todo |-> PartiesOn(page), user_tag |-> <<>>, tagged |-> <<>>,
                blocks |-> Ids(page), count |-> Cardinality(TransferPlaces)]
  /\ paging' = [per_page |-> per_page, count |-> paging.count + 1,
                began |-> IF paging.count = 0 THEN Ids(TransferPlaces) ELSE paging.began,
                seen |-> paging.seen, ended |-> FALSE]
  /\ UNCHANGED <<settled, tag>>

\* The tag of an account is read from the store, once.  Mutant: it is not kept.
KeepNone(user_tag, account, value) == user_tag
KeepTag(user_tag, account, value) ==
  [a \in DOMAIN user_tag \cup {account} |->
     IF a \in DOMAIN user_tag THEN user_tag[a] ELSE value]

\* set_property_value, for the source or the destination of a transfer.
TagParty ==
  LET account == Head(answer.todo)
      value == IF account \in DOMAIN answer.user_tag THEN answer.user_tag[account]
               ELSE tag[account]
  IN /\ answer.todo # <<>>
     /\ answer' = [busy |-> answer.busy, todo |-> Tail(answer.todo),
                   user_tag |-> KeepTag(answer.user_tag, account, value),
                   tagged |-> Append(answer.tagged, <<account, value>>),
                   blocks |-> answer.blocks, count |-> answer.count]
     /\ UNCHANGED <<settled, tag, paging>>

AnswerPage ==
  /\ answer.busy /\ answer.todo = <<>>
  /\ paging' = [per_page |-> paging.per_page, count |-> paging.count,
                began |-> paging.began, seen |-> paging.seen \cup answer.blocks,
                ended |-> paging.count * paging.per_page >= answer.count]
  /\ answer' = NoAnswer
  /\ UNCHANGED <<settled, tag>>

HistoryNext == \/ Settle
               \/ \E account \in Parties : SetTag(account)
               \/ \E per_page \in PerPages : AskPage(per_page)
               \/ TagParty \/ AnswerPage

-----------------------------------------------------------------------------
(* Properties *)

\* A client that has read all pages has seen every transfer that was settled when it
\* began, however many were settled while it read and moved the others to later pages (as
\* long as the transfers can be counted in an int); and a page has no more than per_page
\* transfers, whatever page is asked for, even if its bounds overflow (a per_page below
\* zero, which the rules let pass, may overflow to the whole history).
PagesMissNothing ==
  /\ paging.ended => paging.began \subseteq paging.seen
  /\ settled # <<>> =>
       \A count \in -(IntWord \div 2)..(IntWord \div 2 - 1), per_page \in 0..LARGEST_PER_PAGE :
         Cardinality(Page(count, per_page)) <= per_page

\* Within one answer an account has one tag, although tags change while the answer
\* is made.
OneTagEach ==
  \A i, j \in DOMAIN answer.tagged :
    answer.tagged[i][1] = answer.tagged[j][1] => answer.tagged[i] = answer.tagged[j]

HistoryConsistent == PagesMissNothing /\ OneTagEach
=============================================================================
