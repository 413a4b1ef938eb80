---------------------------- MODULE HttpExchange ----------------------------
(***************************************************************************)
(* Requests and responses on one connection: the server reads a request    *)
(* (MessageReader), calls a resource function, which sends a response in   *)
(* parts (ResponseQueue), and reads the next request; the client reads the *)
(* response (MessageReader) before it sends the next request, and sends    *)
(* its request again on a new connection when the old one has ended before *)
(* the header of an answer.                                                *)
(***************************************************************************)
EXTENDS Naturals, SequencesExt

CONSTANTS
  Requests, Responses,  \* messages: see MessageReader
  Digits, MaxSize, Word, PartSizes, MaxParts,
  Pieces,               \* at most so much comes from the network at once
  MaxExchanges          \* bound: requests on the connection

ASSUME ExchangeAssumption == /\ MaxExchanges \in Nat /\ Pieces \subseteq Nat \ {0}
                             /\ PartSizes \subseteq Nat /\ MaxParts \in Nat

VARIABLES
  toServer, server, toClient, client,  \* the two directions and their readers
  todo, held, parts, strand, send_queue, writes, last, called,  \* ResponseQueue
  socket, gate,
  request, answer,    \* the messages of this exchange
  attempt_reconnect,  \* of the client's connection
  exchanges

serverVars == <<toServer, server>>
clientVars == <<client, attempt_reconnect>>
queueVars  == <<todo, held, parts, strand, send_queue, writes, last, called>>
chosen     == <<request, answer, exchanges>>
vars == <<serverVars, clientVars, toClient, queueVars, socket, gate, chosen>>

Server == INSTANCE MessageReader WITH wire <- toServer, reader <- server, Side <- "server"
Client == INSTANCE MessageReader WITH wire <- toClient, reader <- client, Side <- "client"
Queue  == INSTANCE ResponseQueue WITH wire <- toClient

ASSUME MessagesAssumption ==
  /\ \A m \in Requests  : m \in Server!Message /\ Server!Announced(m)
  /\ \A m \in Responses : m \in Client!Message /\ Client!Announced(m)
  /\ Server!Sizes

NoMessage == [framing |-> "none", chunks |-> <<>>]

Init == /\ toServer = <<>> /\ server = Server!Reading
        /\ toClient = <<>> /\ client = Client!Nothing
        /\ Queue!NoResponse
        /\ socket = "open" /\ gate = "open"
        /\ request = NoMessage /\ answer = NoMessage
        /\ attempt_reconnect = TRUE /\ exchanges = 0

-----------------------------------------------------------------------------
(* The server *)

\* A handler of a destroyed server does nothing; its Session goes, and the connection.
ServerReads ==
  /\ IF gate = "shut" THEN server.op \in Server!Waiting /\ Server!Completed(server)
                           /\ server' = [server EXCEPT !.op = "failed"] /\ UNCHANGED toServer
     ELSE Server!Handlers
  /\ UNCHANGED <<clientVars, toClient, queueVars, socket, gate, chosen>>

\* find_resource and write.
ServeRequest(m) ==
  /\ server.op = "done"
  /\ answer' = m
  /\ Queue!NewResponse(Server!Wire(m))
  /\ server' = Server!Nothing
  /\ UNCHANGED <<toServer, clientVars, toClient, socket, gate, request, exchanges>>

\* The request was not understood, or not read to its end: the Session goes and with
\* it the connection.  Messages are Announced, so no handler of the server throws.
Refused == {"too_large", "malformed", "failed", "no_header"}
DropSession ==
  /\ server.op \in Refused
  /\ server' = Server!Nothing
  /\ socket' = IF socket = "open" THEN "closed" ELSE socket
  /\ UNCHANGED <<toServer, clientVars, toClient, queueVars, gate, chosen>>

SendPart(n) == /\ Queue!Send(n)
               /\ UNCHANGED <<serverVars, clientVars, chosen>>
ReleaseResponse == Queue!Release /\ UNCHANGED <<serverVars, clientVars, chosen>>
RunStrand == Queue!RunStrand /\ UNCHANGED <<serverVars, clientVars, chosen>>
WritePart == Queue!Complete /\ UNCHANGED <<serverVars, clientVars, chosen>>
SendOnDelete == Queue!SendOnDelete /\ UNCHANGED <<serverVars, clientVars, chosen>>

\* The callback of send_on_delete reads the next request with a new Session, or
\* drops the connection.
KeepAlive == answer.framing # "close"
LastWritten ==
  /\ last \in {"written", "failed"}
  /\ last' = "done"
  /\ IF last = "written" /\ gate = "open" /\ KeepAlive
     THEN server' = Server!Reading /\ UNCHANGED socket
     ELSE socket' = (IF socket = "open" THEN "closed" ELSE socket) /\ UNCHANGED server
  /\ UNCHANGED <<toServer, clientVars, toClient, todo, held, parts, strand, send_queue,
                 writes, called, gate, chosen>>

-----------------------------------------------------------------------------
(* The client *)

\* Client::request on the idle connection.  What comes after an answer that a second
\* attempt or the end of the server has spoiled is not looked at.
SendRequest(m) ==
  /\ client.op \in {"none", "done"} /\ socket = "open" /\ exchanges < MaxExchanges
  /\ ~client.stale /\ gate = "open"
  /\ request' = m /\ exchanges' = exchanges + 1
  /\ toServer' = toServer \o Client!Wire(m)
  /\ client' = Client!Reading
  /\ UNCHANGED <<server, attempt_reconnect, toClient, queueVars, socket, gate, answer>>

ClientReads ==
  /\ Client!Handlers
  /\ attempt_reconnect' = (attempt_reconnect
                           \/ (client.op = "header" /\ ~Client!Full(client)))
  /\ UNCHANGED <<serverVars, queueVars, socket, gate, chosen>>

\* Nothing of the server is left on the old connection.
Quiet == server.op = "none" /\ last = "done"

\* The request is sent once more, and the answer read into the same buffer.  What becomes
\* of the old connection's Response comes first here: it has no effect on the new one.
Reconnect ==
  /\ client.op = "no_header" /\ attempt_reconnect /\ gate = "open" /\ Quiet
  /\ socket' = "open" /\ attempt_reconnect' = FALSE
  /\ toServer' = Client!Wire(request) /\ server' = Server!Reading
  /\ client' = [client EXCEPT !.op = "header", !.stale = client.buf # <<>>]
  /\ toClient' = <<>>
  /\ UNCHANGED <<queueVars, gate, chosen>>

-----------------------------------------------------------------------------
(* The network and the owner *)

DeliverToServer(n) ==
  Server!Receive(n) /\ UNCHANGED <<clientVars, toClient, queueVars, socket, gate, chosen>>
DeliverToClient(n) ==
  Client!Receive(n) /\ UNCHANGED <<attempt_reconnect, serverVars, queueVars, socket, gate, chosen>>

\* A timer, a peer or stop() closes the connection.
Break == /\ socket = "open"
         /\ socket' = "broken"
         /\ UNCHANGED <<serverVars, clientVars, toClient, queueVars, gate, chosen>>

\* The readers learn that the connection has ended.
EndsForServer ==
  /\ socket # "open"
  /\ Server!EndOfStream \/ (socket = "broken" /\ Server!Fail)
  /\ UNCHANGED <<clientVars, toClient, queueVars, socket, gate, chosen>>
EndsForClient ==
  /\ socket # "open"
  /\ Client!EndOfStream \/ (socket = "broken" /\ Client!Fail)
  /\ UNCHANGED <<attempt_reconnect, serverVars, queueVars, socket, gate, chosen>>

\* handler_runner->stop() of the server waits for a handler that calls the resource
\* function.
ShutGate == /\ gate = "open" /\ server.op # "done"
            /\ gate' = "shut"
            /\ UNCHANGED <<serverVars, clientVars, toClient, queueVars, socket, chosen>>
-----------------------------------------------------------------------------
Progress ==
  \/ ServerReads \/ ClientReads \/ DropSession \/ LastWritten
  \/ \E m \in Responses : ServeRequest(m)
  \/ ReleaseResponse \/ RunStrand \/ WritePart \/ SendOnDelete
  \/ \E n \in Pieces : DeliverToServer(n) \/ DeliverToClient(n)
  \/ EndsForServer \/ EndsForClient

Next ==
  \/ Progress
  \/ \E m \in Requests : SendRequest(m)
  \/ \E n \in PartSizes : SendPart(n)
  \/ Break \/ Reconnect \/ ShutGate

Spec == Init /\ [][Next]_vars

\* Handlers run, the network delivers, the resource function lets the Response go:
\* something of this happens as long as anything can.  Nobody need send a request or a
\* part, nothing need break, and no timer need end.
Fairness == WF_vars(Progress)

FairSpec == Spec /\ Fairness
-----------------------------------------------------------------------------
(* Properties *)

\* The resource function gets the request that was sent, header and content, however
\* the network cut it.
RequestIntact ==
  server.op = "done" =>
    server.head = Server!Header(request) /\ server.buf = Server!Content(request)

\* The client's callback gets the response that the resource function wrote, whatever
\* it sent in parts and however these were cut.  A response without a length may have
\* been cut short with its connection; a second attempt is not counted whose buffer
\* has bytes of the first; and when the server is destroyed while a part is being
\* written, the parts behind it are dropped, but the last write is still made.
AllSent == gate = "open" \/ Len(called) = Len(parts)
CutShort == answer.framing = "close" /\ socket = "broken"
AnswerIntact ==
  client.op = "done" /\ ~client.stale /\ AllSent =>
    /\ client.head = Client!Header(answer)
    /\ IF CutShort
       THEN IsPrefix(client.buf, Client!Content(answer))
       ELSE client.buf = Client!Content(answer)

MessagesIntact == RequestIntact /\ AnswerIntact

\* A message is refused for its size only if it does not fit in the buffer, and one
\* whose content does not is never delivered whole.
SizeLimit ==
  /\ server.op = "too_large" => Len(Server!Wire(request)) >= MaxSize
  /\ server.op = "done" => Len(Server!Content(request)) < MaxSize
  /\ client.op = "too_large" /\ ~client.stale => Len(Client!Wire(answer)) >= MaxSize
  /\ client.op = "done" /\ ~client.stale /\ AllSent /\ ~CutShort =>
       Len(Client!Content(answer)) < MaxSize

\* See ResponseQueue.
OneWrite == Queue!OneWrite
FifoSpec == Queue!FifoSpec

\* What is outstanding ends: a request is answered or its connection dropped, and each
\* part is called back, without the help of a timer, for no reader waits for bytes that
\* nobody owes it.
Outstanding == client.op \in Client!Waiting \/ Len(called) < Len(parts)
ExchangeEnds == Outstanding ~> ~Outstanding \/ client.stale \/ gate = "shut"
=============================================================================
