# A verification development for xhttpserver

xhttpserver is the HTTP/HTTPS JSON-RPC front end of a Telos node. This directory
holds TLA+ models of it, the TLC configurations that check them, and TLAPS proofs.
`M.tla` is checked with `tlc -config X.cfg M`, and `*_proof.tla` with `tlapm`.

## 1. The system

| Part | Source | State | Operations | Talks to |
|---|---|---|---|---|
| RPC forwarding | `xforward_manager.{h,cpp}` | `m_response_session` (uuid -> session) and `m_mutex`; per session: timer, reply count, retry count, the shared Response | `send_request`, `on_message` (`reply_query_msg`, `reply_consensus_msg`, serving `rpc_request`), the timer handler of `set_timeout`, `cancel_timeout` | HTTP engine (Response), message dispatcher (external), action manager |
| HTTP front end | `xhttp_server.{h,cpp}` | server thread, forward handler | `start`, `start_service`, `deal_msg`, destructor | HTTP engine, forwarding, rules, actions |
| HTTPS front end | `xhttps_server.{h,cpp}` | server thread | `start`, `start_service`, destructor | HTTPS engine, rules, actions |
| Rules | `xrule_manager.{h,cpp}` | none (reads the account store) | `filter` and one filter per action | account store (external) |
| Actions | `xaction_manager.{h,cpp}` | none (reads the store, broadcasts) | `do_action` and one function per action, `do_transaction` | account store, dispatcher |
| HTTP engine | `simplewebserver/server_http.hpp`, `server_https.hpp` | per connection: socket, timer, pending operation, Session, Response with its strand and send queue; per server: `connections`, acceptor, threads | start, accept, read header / content / chunks, find resource, write, `Response::send`, send on delete, timeouts, stop, destructor | asio, ScopeRunner, resource handlers |
| Handler gate | `utility.hpp`, `ScopeRunner` | one atomic counter | `continue_lock`, `~SharedLock`, `stop` | every asio handler, every destructor |
| HTTP client | `simplewebserver/client_http.hpp`, `client_https.hpp` | connection pool, per connection: socket, timer, attempt | request (sync and async), connect, write, read, reconnect once, stop | asio, ScopeRunner |
| Parsers | `utility.hpp` | none | `RequestMessage`, `ResponseMessage`, `QueryString`, `Percent`, `HttpHeader` | engine and client |
| Support | `xjson_proc.*`, `xserver_response_code.*`, `status_code.hpp`, `crypto.hpp`, `*_examples.cpp` | none | formatting, tables, samples | - |

The threads: `thread_pool_size` io threads run the handlers of all connections and
of all session timers; the threads of the message dispatcher call `on_message`; any
thread may destroy a server or a client. What they share is the session table, the
`connections` set, the Response objects (released, and so sent, by whichever thread
drops the last reference) and the gate's counter.

What is hard, and where (the full list, with lines, is `hazards` in `PROJECT.json`):
a reply that races the session's timer; a table that is written without its lock; two
submissions with one digest; a timer armed before its session is registered; lost and
duplicated messages; a connection timer that closes the socket under a later
operation; a Response held for a long time and released on another thread; a stop
that races accept handlers; a gate that must let nobody in once it is shut; a pool of
client connections that callbacks, reconnects and stop change at once; messages that the
network cuts anywhere, read by counting what came too early; parts of a response that
are queued from any thread; a server that is stopped while it starts.


## 2. Plan

Order: the part whose interleavings are worst first, then what it stands on.

| Module | Models | State of the plan |
|---|---|---|
| `XForwardManager` | sessions, timers, replies, the session table | checked; invariants proved |
| `RpcGateway`, `XForwardGateway` | what an RPC client may see; the refinement | checked; refinement proved |
| `ScopeRunner`, `HandlerGate` | the handler gate; what it promises | checked; invariants and refinement proved |
| `HttpConnection` | connections from accept to deleter, timer, stop, TLS handshake | checked; invariants proved |
| `XActionManager` | rules, actions, the four routes, over an external chain | checked; invariants and the action property proved |
| `HistoryPaging` | the pages of `account_history` and their tags, with the int width | checked; invariant proved |
| `ClientPool` | connection pool of the HTTP client, reconnect, synchronous requests, `stop`, the destructor | checked; invariants and action properties proved |
| `MessageReader` | how a request or a response is read from a stream of bytes | checked, in `HttpExchange`; what a read makes of the bytes is proved |
| `ResponseQueue`, `ResponseFifo` | `Response::send`, its strand and queue; what it promises | checked and refinement proved, in `HttpExchange` |
| `HttpExchange` | client and server on one connection: two `MessageReader`s and a `ResponseQueue` | checked; invariants and refinement proved |
| `HttpParsers` | the parsers of `utility.hpp` on bytes | checked; proved for lines of any length |
| `ServerLife` | start, the threads, the accept chain, stop and restart, and the owner `xhttp_server` | checked; invariants proved |

Abstract specifications: the gateway, the gate and the fifo of parts are there; a bag of
requests, each called back at most once, is worth stating for `ClientPool`.
Left to prove: that refinement, once it is stated.

## 3. The modules and the code

**`XForwardManager`** (`xforward_manager.{h,cpp}`). One action per piece of a handler
that other threads can see. `send_request` is `MakeSession` (session made and timer
armed, `xforward_manager.cpp:132-140`), `BeginInsert`/`EndInsert` (the insert, which the
code enters without `m_mutex`) and `SendMessage`; `RefuseRequest`, `ThrowInHandler` and
`ThrowBeforeSend` are its early returns and exceptions. The timer handler is
`TimerAborted`, `RetryProposal`, or `WriteTimeout` then `EraseTimedOut`. A reply is
`ReplyQueryMsg` or `ReplyConsensusMsg` (find under the lock), then `AnswerSession`
(cancel, write, erase), or `ReplyUnmatched`. `timer[r]` says what asio has queued:
*expired* is a handler that was queued with no error and that `cancel` can no longer
stop. A Response is sent when nothing holds it (`Held`, `Released`); `body[r]` is what
its buffer then holds. The race of the insert with the other accesses of the table is
made visible by `Touch`: from then on the table is *corrupt*, an insert may be lost
(`leaked`), a find may fail, the process may crash. The peers (`ServeRpcRequest` is this
code on another node; `ReachConsensus` is external) may answer or not, and messages are
lost, duplicated and reordered because `net` is a set from which delivery need not
remove.

**`RpcGateway`** is the abstract specification: a request is refused, dropped or
accepted; asked once (a transaction twice); answered by a reply to something asked or by
a timeout. **`XForwardGateway`** maps the detailed state to it.

**`ScopeRunner`** (`utility.hpp:317-361`): `count`, and one step per atomic access of
`continue_lock`, `~SharedLock` and `stop`, spurious failures of
`compare_exchange_weak` included. **`HandlerGate`** is what it promises.

**`HttpConnection`** (`server_http.hpp`, `server_https.hpp`). One record per place for a
Connection: the operation in progress and what its handler will get, the running timer,
timer handlers already queued, the socket, whether somebody holds the Response. Each
step is one handler: `Accept`, `Handle` (the handlers of handshake, header, content,
chunk line, chunk and write, with their cancel, gate, error and size tests), `RunExpired`
(the timer's close), `ReleaseResponse` (the deleter of the Response, on any thread),
`EraseConnection` and `DeleteConnection` (the deleter of the Connection), and the owner's
`stop` in its three parts, because handlers run between them. What a client sends is
reduced to what the handlers distinguish: enough, too much, an error. `Close` may
complete a pending operation by its shutdown before its cancel when another thread runs
the reactor (`Pool`).

**`XActionManager`** (`xrule_manager.cpp`, `xaction_manager.cpp` and the four callers).
A worker takes a request on a route, runs the checks of its action one at a time (one
store call each: `Checks`, `Check`), then the action (`Query` or `MakeTransaction`),
then `Propose`. The routes differ as in the code: `https` makes a transaction, answers
with an empty response and proposes nothing, and replaces every error of an action by
`server_unknown_error`; `consensus` serves forwarded queries; `edge` has no rules.
The chain is external: `Commit` executes a proposal on top of its sender's last hash.

**`ClientPool`** (`client_http.hpp`, `client_https.hpp`). A request is a Session: the
operation it waits for (`After` gives the order, with the handshake of https and the
CONNECT of a proxy), the result its handler will get, its Connection. Callers take a
connection from the pool or make one (`GetConnection`), start it (`Connect`), and when
synchronous count in, run the io_service and count out, one step each. Handlers are
`Discard` (the gate is shut), `Proceed`, `NextChunk`, `Finish`, `Fail`, `Reconnect` and
`Throw` (an exception that leaves the handler); `Callback` is `session->callback` with
its trimming of the pool, whose order is that of a hash set and so any. `Cancel` is what
`socket.cancel()` does to the operations of a set of connections: the timer's handler
(`RunExpired`) and `stop()` share it. A Connection that only its timer's handler points
to is `Retired`, and its place is used again when nothing does. The failure branches
that differ only in the error code (too large, malformed, refused by the proxy) are one.

**`MessageReader`** (`server_http.hpp:503-668`, `client_http.hpp:465-637`: the same
arithmetic on both sides). Its state is the wire and one Session: the stream buffer, the
read in progress and what it still needs. `Receive` is asio, which takes more than was
asked for when more is there; `HeaderRead`, `ContentRead`, `LineRead` and `ChunkRead` are
the handlers, each with the test that the buffer is full (`Refuse`), with
`num_additional_bytes` (`ReadExactly`) and the separate buffer of chunks (`Chunks`). The
length of a chunk may be any that fits in a word: where `2 + length` wraps, the read takes
too little, and `new char[length]` throws (`Unallocatable`, `thrown`). A header is a start line and one field, a number is one symbol; everything behind a header
is byte for byte, so that a content may look like the end of a line.

**`ResponseQueue`** (`server_http.hpp:91-150, 704-732`). `Send` takes a part from the
stream and posts to the strand; `AppendPart`, `StartWrite` and `PartWritten` are the
handlers of the strand, one at a time and in order; `SendOnDelete` is the deleter, which
comes when neither the application nor a handler nor a write holds the Response.
**`ResponseFifo`** is what `send` promises to the resource function.

**`HttpExchange`** composes them by `INSTANCE`: the server's reader, the queue that writes
to the client's wire, and the client's reader. What is between them is the code of
`find_resource` and `write` (`ServeRequest`, `LastWritten`), the dropping of a Session
(`DropSession`), and the client's one reconnect (`Reconnect`), which reads into the old
buffer (`stale`). The connection can break, and the server can be destroyed (`ShutGate`)
at any moment at which no handler is in a resource function.

**`HttpParsers`** (`utility.hpp:58-322`): one operator per parser, on sequences of bytes,
with `substr` throwing past the end (`Threw`), `strtol` on two characters and `char`
that is signed. The reference definitions are the encoders of the same file
(`Encode`, `Create`) and the texts that this code writes. The two scans, of
`QueryString::parse` and of `SemicolonSeparatedAttributes::parse`, are functions of the
position, with one step per character (`QueryStep`, `AttributeStep`).

**`ServerLife`** (`server_http.hpp:386-465, 757-780`; `xhttp_server.cpp:11-42, 94-97`).
The server thread goes through `Bind`, `Listen`, `FirstAccept`, `Reset`, the run of the
io_service and `Join`; it and the pool run handlers (`RunHandler`, `HandleAccept`,
`HandleRequest`) and return when the io_service is stopped or out of work. `Stop` may
come from anywhere at any of these points. `xhttp_server` starts the thread, then sets the
forward handler, and its destructor joins the thread and frees the members.

**`HistoryPaging`** (`xaction_manager.cpp:241-333`): a client asks for page after page
(`AskPage`): the transfers whose number, counted as the loop counts them (`Num`), lies
between two bounds that are ints (`Page`, `Wrap`); the answer is made from one read of the history
and one read of the store for each account that it has not seen yet (`TagParty`), while
the chain settles blocks and sets tags.

**Abstractions.** JSON values, keys, addresses and digests are model values or small
records; the wording of answers is a code. Integers of the balance check keep their
width: `Word` is 2^64 in the code and 16 in the runs, a comparison of an unsigned with a
signed value is made modulo `Word`.

## 4. What the runs check

Every property is stated with a comment in its module. `CHECK_DEADLOCK FALSE` is in all
configurations: requests, handler invocations and proposals are finitely many, and a
server that is idle, stopped or crashed really does nothing more.

| Run | Question |
|---|---|
| `forward_pool` | two io threads and the network thread over one transaction submitted twice and one query that awaits two replies: answers, retries, the table, the reply slots, and the refinement of the gateway |
| `forward_live` | every Response is released, with no help from the network |
| `scope` | the gate: exclusion, refinement of `HandlerGate`; stop returns, handlers end |
| `connection` | the https server with a pool of io threads on an io_service that outlives it, stop and the destructor at any moment: `TimerCovers`, `ListedExactly`, `OneOperation`, `GateStopsCallbacks`, `EveryConnectionEnds` |
| `exchange` | requests and responses with each framing, in parts, cut by the network anywhere, while the connection may break and the server be destroyed: `MessagesIntact`, `SizeLimit`, `OneWrite`, the refinement of `ResponseFifo`, `ExchangeEnds`; and the parsers on every text of up to `Longest` bytes: `ParsersAgree` |
| `server_life` | a server with three threads is started, stopped at any moment, started again and destroyed: `AcceptChains`, `NobodyUsesFreed`, `StopEnds` |
| `client_pool` | two requests over http, https, https by a proxy, or synchronous: `NoSharing`, `OneUnused`, `SentAtMostTwice`, `TimerCovers` (which operations can be without a timer), `GateSilences`, `ResetAlone` |
| `actions` | two workers on all four routes, with gifts, transfers, queries and requests that the rules refuse, while the chain commits: `GiftSeen`, `NoStaleProposal`, `RetryHarmless`, `InfoMissesOnlyMoving`; and a history that is read page by page: `HistoryConsistent` |

Two of these runs check two machines that share nothing. In `exchange` the line for the
parsers grows only while no request was sent, and in `actions` a history is read only
while no request is served (`MCHttpExchange`, `MCXService`): each machine has all its
behaviours, and their product, which would show nothing more, is not explored.

**Bounds.** `forward_pool`: three requests are enough for each pair of actors to meet on
one session and for two sessions to share a key; two io threads race the insert;
`BROADCAST_NUM` = 2 lets a first reply be counted and a duplicate be the second. There is
one network thread because every step of another would wait for `m_mutex`, which the
first holds, or touch the table as the first does. The number of messages is not
bounded: `net` is a set, and delivery need not remove. `forward_live` has the two
submissions only. `scope`: three handlers and two stoppers let each compare-exchange fail
because of another of either kind. `MaxSends` = 3 lets a client send a header, a content
or chunk, and the next request's header on the same connection; two places let an accept
handler overlap a live connection (when both are taken, accepting waits).
`client_pool`: two requests can finish, reconnect or be stopped around each other, and
three places let both of them replace a connection while a late timer still refers to an
old one; `MaxLate` = 1 late timer handler meets any later operation of its connection,
and `MaxChunks` = 1 has a chunk that is not the last.
`exchange`: `MaxSize` = 9 fits each message but the two largest: a request whose content
fills the buffer to its end, and an answer without a length that fills it before its end; `Pieces` let bytes come two at a time, five at a time or all at once, so
that a message is cut inside and at each of its delimiters; a first part of four bytes and
a second one wait behind each other in the queue; two exchanges let the second follow on the
same connection, reuse of the buffers included. `Word` = 256 is larger than any sum here:
no length that is announced truly wraps. The parsers see every sequence of four of the bytes that mean
something to one of them (`Marks`), and the texts made from every such sequence.
`server_life`: two threads of the pool and the server thread can be in the accept handler,
a request and `run` at once; three starts and two stops let a stop meet each place of a
start, and a handler of the first run live in the third.
`MaxProposals` = 2 and `MaxHash` = 2 in `actions` let a transaction commit between
the checks and the proposal of another, and a retry meet its first proposal; the runs that
are violated look at one request. A history of `MaxHistory` = 4 blocks has pages that are full, partly filled and empty
and moves by more than a page; `IntWord` = 16 makes the bounds of a page overflow for what a
client may ask, and `HistoryFits` holds of these numbers, as it does of the code's. One account and genesis are the sender and the receiver
of a gift; `Balances`, amounts and `Word` = 16 have a negative, a zero, a covered and an
uncovered amount. Symmetry is used for runs
without liveness only.

**Fairness.** `XForwardManager`: time passes (`TimerExpires`), a thread ends what it runs,
and a queued timer handler is taken by an idle io thread in the end: strongly fair,
because threads become idle again and again and asio's queue is FIFO. Replies, peers and
clients owe nothing. `ScopeRunner`: a handler that began goes on; nobody must call stop.
`HttpConnection`: queued handlers run, time passes, and whoever keeps a Response lets it
go, which `forward_live` shows of the sessions. Clients owe nothing.
`HttpExchange`: something of what runs by itself (handlers, the network's delivery, the
release of the Response) happens as long as anything can; nobody must send, nothing must
break, and no timer helps. `ServerLife`: each thread of the pool, the server thread and the
owner's thread go on; nobody must connect, ask, stop or destroy.

### Where code and text disagree

These runs are expected to be violated; `findings` in `PROJECT.json` quotes the text.

| Run | What happens |
|---|---|
| `connection_stop` | after `stop()` a connection is open: its accept handler ran behind the sweep |
| `client_sync` | a synchronous `request()` returns a null Response: another caller's `run()` had stopped the io_service, which nobody had reset yet |
| `actions_given` | two gifts pass "already give" before the first is executed |
| `actions_overdraft` | `&&` in the balance rule: any positive amount passes |

Some more things are in the models as the code has them, without a run of their own.
`xforward_manager.h:58` says "change edge timestamp to retry", and the retry
changes only the unique id (`Again`). `xhttp_server.cpp:26` says that a timeout calls
`on_error` with *canceled*; when the timer closes the socket while no operation is
pending, the next one fails with eof or a broken pipe (`Start`). `client_http.hpp:88` says
"Set timeout on requests in seconds"; a resolve or a connect can outlast every timer
(`TimerCovers` allows it): the handler cancels a socket, which ends neither the resolver nor
the attempts at the next addresses, and the resolve for https has no timer. And there is no text
to set these against:

- Accepting: an accept handler that runs after `stop()` accepts again on the closed
  acceptor, which fails at once, and so on for ever when the io_service is the owner's. A
  `stop()` between `bind` and `reset` is undone by the `reset`; if it comes before `listen`,
  `listen` throws on the server thread. A failed accept that a stop leaves in the
  io_service goes on as a second chain of accepts after the next start (`AcceptChains`
  bounds the chains by the starts).
- `xhttp_server`: a request that arrives before `m_forward_msg_handler` is set uses a null
  pointer (`HandleRequest`). Its destructor joins the server thread, which returns only
  when somebody stops the server; nobody in the repository does, and `m_server` is private.
- Responses: when a server is destroyed while a part is being written, the parts behind it
  are dropped, but the write of the rest is still made (`AnswerIntact` leaves it out). The
  413 answers are never sent.
- Reading: bytes that a client sends behind a request, before it has the answer, end in
  the content of that request or are lost. The client looks for the field `Session`
  (`client_http.hpp:513`) where HTTP has `Connection`, so that an answer of version 1.1 without a length
  is cut to its header. A second attempt reads behind what the first had left.
- Parsing: a query that contains a `?` is split at the last one; an attribute with an empty
  value takes the next one for its value; the names of a query are not encoded, so that
  one with `&` does not come back (`QueryRoundTrip` is about names without it).
- Actions: an edge node makes a transaction without applying any rule. `query_online_tx` cuts its pages from a list that shrinks as
  it is read, and can skip entries. The rules let a negative `per_page` pass, whose bounds
  may overflow to a page of the whole history. `account_history` uses one `block_json` for
  all blocks: a block that sets no amount shows that of the block before it.

## 5. What is proved

All proofs hold for every value of the constants that satisfies the named assumptions.

**`Utility_proof`** proves two parts of `utility.hpp`. Of `ScopeRunner` (no run repeats
its `TypeOK` and `CountMatches`): `TypeOK`, `CountMatches`, `StopExcludes` and the
refinement of `HandlerGate`. The inductive invariant is
`TypeOK /\ CountMatches /\ StopIsFinal`: the last part (a stop that returned means -1) is
what makes exclusion survive the next compare-exchange.

Of `HttpParsers`: `ParsersAgree` (`ParsersCorrect`), for lines of any length and of any
bytes, where the run has four of eleven. What a scan computes is an induction over
positions: `RangeInduction` over a set of numbers, as in `MessageReader_proof`. Each scan
is shown to exist (`DecodeExists`, `QueryScanExists`, `AttributeScanExists`: a function of
the first characters extends to one character more), and what it holds behind a name or a
value that stands in the text (`Part`, `Lacks`) follows character by character
(`QueryField`, `AttributeField`). The encoder writes only `Safe` bytes, so that no value
has a separator in it. `NeverThrows` is a matter of types: every position that is taken
for a part lies within the text (`QueryType`, `AttributeType`, `HeaderType`,
`RequestType`, `ResponseType`).

**`XForwardManager_proof`**: `TypeOK`, `ReplySlotInBounds`, `NoSilentDrop`,
`CancelIsFinal`, `OnlyAnsweredLeave`, with no assumption about timing. `IInv` adds to the types: who holds
`m_mutex` (`Locking`), which session each thread works on (`Frames`, `OneSender`), what
the table can hold (`BeforeInsert`, `Keyed`, `Untouched`, `Slots`, `Answering`), and the
life of a session (`NotCancelled`, `RetriesLeft`, `Pending`). It is needed because
`ReplySlotInBounds` depends on nobody else counting between the find and the erase, and
`NoSilentDrop` on each unanswered session being in somebody's hands. `OnlyAnsweredLeave`
needs one invariant more, `TimedOutWritten`: the timer handler wrote before it erases.

The same module proves, of a timely insert, `AnswersPossible`, `RegisteredIsPending` and
`TimeoutOnlyAfterRetry` (which the refinement of `RpcGateway` contains, and no run repeats), under `InsertBeforeExpiry`: either there is one io thread or a
session is registered before its five seconds are over. The code does not enforce the
second. The runs assume it (`PromptSend`); what survives without it is the
paragraph above. A thread that stalls longer between `set_timeout` and
`insert` registers a session that has already timed out: its entry stays, and its
Response, already written, is never sent.

**`HttpConnection_proof`**: `TypeOK`, `TimerCovers`, `ListedExactly`, `OneOperation` and
`GateStopsCallbacks`, with or without TLS, for any number of places, messages and io
threads. The inductive invariant says of each Connection (`Good`) that a Response and an
operation exclude each other, that only a live one has either, that a read, a write or a
Response has a socket, and that a waiting one has its timer (`Covered`); and of the set
(`Listing`) that `stop` closed the acceptor before it went through the set, which is why
the set may be emptied. One lemma per function that handlers are made of (`StartGood`,
`WriteGood`, `CloseGood`...) carries it through the steps; `OneOperation` and
`GateStopsCallbacks` follow from it and from what timers, clients and the owner leave
alone (`StepKeeps`, `OwnerKeeps`).

**The refinement of `RpcGateway`** (`ForwardIsGateway`, in the same module), under
`InsertBeforeExpiry` too. Most steps change nothing that a client sees; the ones that do
must find the abstract gateway in the state they leave it from. `GInv` says what that
needs beyond the invariants before: an empty Response is held by a live timer or by
nobody, so that it is released empty only when its session was dropped (`HeldByTimer`);
what `send_request` is about to broadcast has not timed out (`SendingUnanswered`); and
each message and each reply that is being handled goes back to a broadcast
(`AskedFirst`), so that a reply is to something asked, duplicates included.

**`ClientPool_proof`**: `TypeOK`, `NoSharing`, `OneUnused`, `SentAtMostTwice`,
`TimerCovers`, `GateSilences` and `ResetAlone`, for any number of requests, callers and
places, each configuration, and any number of late timer handlers. `NoSharing` is not
inductive: a request holds a Connection which is marked as used (`Holds`) and no other
request holds it (`Apart`), which is why neither the pool nor a reconnect can take it.
`SendLeft` relates the number of sends to `attempt_reconnect`, the flag of a Connection
that is cleared when the Connection is replaced. `TimerCovers` is an action property: it
says when an operation may come to be without a timer (`Untimed`), and is proved by
following the timer of a request through each handler (`TimerLeft`, `TimerSet`). A
resolve for https has none, and a resolve or a connect is left without when its one timer
has fired; the property allows these and no others. `Counted` makes the callers that run the
io_service the ones that `concurrent_synchronous_requests` has counted, so that the one
who finds it zero is alone.

**`XService_proof`** proves two machines. For `XActionManager`: `TypeOK`, `GiftSeen`,
`NoStaleProposal`, `RetryHarmless` and `InfoMissesOnlyMoving`, for any accounts, requests
and threads. `NoStaleProposal` says that the digest of a proposed transfer lies between
the last hash its sender had when the request came and the one it has now, both included;
since a last hash moves by one, the sender has had each of these. A `transfer_in` of an
account that was unknown when the request came is excepted: `get_last_hash` fails, and the
check passes with any digest. All but the first are about reads of a store that changes in between, so
the invariant says of each worker how the store it began with relates to the one of now
(`Grown`: what was there has not gone), which checks it has left (`Due`), and what those
it has passed imply even though the store has changed since (`Fresh`, `OnTop`,
`Unsettled`, `Proposed`). `Books` says of the proposals that one which was accepted has
left its mark on its sender (`Marked`): this is why its retry cannot be accepted after it.
For `HistoryPaging`: `HistoryConsistent`, under `HistoryFits`: the length of the history
plus one page fits in an int. It is needed because the bounds of a page overflow without
it; the code does not enforce it, and no account has 2^31 blocks. The invariant is that
what was settled when the client began was seen, is in the answer being made, or is not
before the next page (`Pages`), which survives only because new blocks push the old ones
to later pages, and that the tags of an answer are those kept in `user_tag` (`Tagged`).

**`ServerLife_proof`**: `AcceptChains` and `NobodyUsesFreed`, for any pool, clients,
starts and stops. The invariant counts the chains of accepts wherever they are, in the
acceptor, in a queued handler or in a thread that handles one, and bounds them by the
starts, of which one that has not come to its first accept still owes its own (`Owed`).
`Listening` ties the state of the acceptor to where the server thread is, and `StopFirst`
remembers that the server thread returns only after a stop.

**`HttpExchange_proof`**: `OneWrite` and the refinement of `ResponseFifo`, for any
messages, cut into any parts. Of the handlers on the strand and the writes there is at
most one that concerns a part in `send_queue` (`OneBusy`), there is one while parts wait
and the server lives (`Driven`), and the write of the rest comes when nothing else is
left (`LastAlone`). `Parts` counts: called back, in `send_queue` or on the strand, no part
is lost, so that nothing is outstanding when the next Response is made. `ErrorsStay` and
`Broken` say that after an error no write succeeds, because the socket does not open
again before the Response is done. `Serving` is the one fact about the reader that this
needs: a resource function is called through an open gate only.

**`MessageReader_proof`**: what one reader makes of the bytes, for all messages, buffer
sizes and pieces. `Reads(r, m, ahead)` says of each state of a Session that it reads the
message `m` with the bytes `ahead` still to come: what it has taken, what is in its
buffer and `ahead` are, in this order, the message. A delivery keeps it, since it only
moves bytes from `ahead` to the buffer (`ReadsOn`), and so does each handler
(`HandlersReads`); a Session is *done* with the content of the message, no byte less, and
nothing of what follows. The hard part is that a delimiter is searched for in whatever is
there: `HeaderEnds` and `LineEnds` say that the first one found is the one the peer wrote,
wherever the piece ends and whatever the content behind it looks like, and `ChunkReads`
counts the chunks, with `num_additional_bytes`, modulo `Word`. That the flattened chunks of
a message come one after the other is an induction over their number (`SetInduction`,
from the well-foundedness of `<` and over a set, because the provers cannot instantiate
the library's induction theorems over an operator). `HandlersSound` is about any bytes,
lengths for which `2 + length` wraps included: `Sound` keeps what is needed modulo `Word`
(`WithCRLF`), and `After` says that a handler throws only for such a length; `ReadsOn` and
`HandlersReads` are about messages that are announced truly, in which no length is one of
them. The reader is instantiated for the server and
for the client.

**The bytes of an exchange** (`MessagesArrive` for `MessagesIntact`, `SizesLimited` for
`SizeLimit`, in `HttpExchange_proof`) need an invariant that follows a byte from the
peer that wrote it to the other one's callback, through the stream of the Response, the
strand, the queue, the write in progress, the wire and the buffer. `DInv` says that the
parts, wherever they wait, are the answer cut into pieces, in order (`InOrder`,
`Complete`), and `Written` is how much of it has left the Response. Each step of the
Response puts on the wire what it adds to `Written`, unless the connection is broken or a
part was dropped (`Flows`). `FInv` says of each end that it reads its message with what is on its wire: the
server with nothing else, because a request is written at once (`ReadsRequest`), the client
with a rest that the Response still has (`Tells`), unless it has asked and nothing of an
answer has come (`Asked`). That an answer is never mixed with the next, nor a request with
the one before, is `Turns` and `Waits`: which end may be busy while the other one is.
`CutShort` and `AllSent` name the cases in which the code hands over less than was
written: an answer that ends with its connection is cut to a prefix when the connection
breaks, which is proved too, and a server that is destroyed drops parts. The assumption
is `MessagesAssumption`: peers announce what they send, with lengths to which 2 can be
added (`Announced`; the code has no test for the latter), and a delimiter is no number.

**Only model-checked**: liveness (`EveryRequestReleased`, `CallsReturn`,
`EveryConnectionEnds`, `ExchangeEnds`, `StopEnds`: fairness and ENABLED are out of the
prover's reach). No bound of the number of late timer handlers of `ClientPool`, a sum
over all places, is among its types. The four properties that are expected to be violated
have no theorem.

## 6. Not modelled

`on_upgrade`, timers of 0 seconds; a handler
queued with an aborted timer, which only delays freeing; that the requests of a client
with a pool end (the instances of `ClientPool` are too large for a liveness run; one
connection is `ExchangeEnds`), the fields that the client writes of itself, `parse_host_port`, and its
certificate options; the TLS context; the data of query answers other than `account_info`
and `account_history`; the JSON wrapper, the tables of codes, crypto helpers and the
examples. `PROJECT.json` gives the reason
for each, and lists the hazards that no property covers yet. The dispatcher, the chain,
the account store and asio are outside the repository: they are modelled as the code
uses them, and marked external.
