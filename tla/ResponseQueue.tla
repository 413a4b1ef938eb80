---------------------------- MODULE ResponseQueue ----------------------------
(***************************************************************************)
(* Response::send and the write that sends the rest of a Response when it  *)
(* is released (server_http.hpp:91-150, 704-732).                          *)
(*                                                                         *)
(* The application gives parts to send() from any thread.  Handlers posted *)
(* to the strand run one at a time, in order; every one of them, and every *)
(* write in progress, keeps the Response alive.                            *)
(***************************************************************************)
EXTENDS Naturals, Sequences

CONSTANTS
  MaxParts    \* bound: parts given to send()

VARIABLES
  todo,        \* what the application has yet to write
  held,        \* the application holds the Response
  parts,       \* the parts given to send()
  strand,      \* handlers posted to the strand, the oldest first
  send_queue,  \* the parts that wait or are being written
  writes,      \* asio::async_write operations in progress
  last,        \* the write of send_on_delete: not begun, in progress, or its result
  called,      \* callbacks of parts: FALSE if they were given an error
  socket,      \* "open", "closed" in good order, "broken"
  gate,        \* handler_runner
  wire         \* bytes on their way to the client

response == <<todo, held, parts, strand, send_queue, writes, last, called>>
vars == <<response, socket, gate, wire>>

Task == [do : {"append", "write", "written"}, part : Seq(STRING), ok : BOOLEAN]
NewPart(part)  == [do |-> "append",  part |-> part, ok |-> TRUE]
WriteHead     == [do |-> "write",   part |-> <<>>, ok |-> TRUE]
Written(ok)   == [do |-> "written", part |-> <<>>, ok |-> ok]

\* A Response on an idle connection.
NoResponse == /\ todo = <<>> /\ held = FALSE /\ parts = <<>> /\ strand = <<>>
              /\ send_queue = <<>> /\ writes = <<>> /\ last = "done" /\ called = <<>>

\* write(): the resource function is called with a new Response, for which it will
\* write the given bytes.
NewResponse(bytes) ==
  /\ last = "done"
  /\ todo' = bytes /\ held' = TRUE /\ parts' = <<>> /\ strand' = <<>>
  /\ send_queue' = <<>> /\ writes' = <<>> /\ last' = "no" /\ called' = <<>>

\* send(): what is in the stream becomes a part.
Send(n) ==
  /\ held /\ Len(parts) < MaxParts /\ n <= Len(todo)
  /\ LET part == SubSeq(todo, 1, n) IN
     /\ parts' = Append(parts, part)
     /\ strand' = Append(strand, NewPart(part))
  /\ todo' = SubSeq(todo, n + 1, Len(todo))
  /\ UNCHANGED <<held, send_queue, writes, last, called, socket, gate, wire>>

\* The application writes the rest and lets the Response go.
Release == /\ held
           /\ held' = FALSE
           /\ UNCHANGED <<todo, parts, strand, send_queue, writes, last, called,
                          socket, gate, wire>>

\* Mutant: every part starts a write.
StartAlways(queue) == <<WriteHead>>
StartIfFirst(queue) == IF Len(queue) = 1 THEN <<WriteHead>> ELSE <<>>

AppendPart ==
  /\ strand # <<>> /\ Head(strand).do = "append"
  /\ send_queue' = Append(send_queue, Head(strand).part)
  /\ strand' = Tail(strand) \o StartIfFirst(send_queue')
  /\ UNCHANGED <<todo, held, parts, writes, last, called, socket, gate, wire>>

\* The handler posted by send_from_queue.
StartWrite ==
  /\ strand # <<>> /\ Head(strand).do = "write"
  /\ writes' = Append(writes, [part |-> Head(send_queue), last |-> FALSE])
  /\ strand' = Tail(strand)
  /\ UNCHANGED <<todo, held, parts, send_queue, last, called, socket, gate, wire>>

\* The parts that hear of an error.  Mutant: only the one that was being written.
FirstFails(queue) == <<FALSE>>
AllFail(queue) == [i \in DOMAIN queue |-> FALSE]

\* The handler of the write of a part.
PartWritten ==
  /\ strand # <<>> /\ Head(strand).do = "written"
  /\ IF gate = "shut"
     THEN strand' = Tail(strand) /\ UNCHANGED <<send_queue, called>>
     ELSE IF Head(strand).ok
     THEN /\ called' = Append(called, TRUE)
          /\ send_queue' = Tail(send_queue)
          /\ strand' = Tail(strand) \o IF send_queue' # <<>> THEN <<WriteHead>> ELSE <<>>
     ELSE /\ called' = called \o AllFail(send_queue)
          /\ send_queue' = <<>>
          /\ strand' = Tail(strand)
  /\ UNCHANGED <<todo, held, parts, writes, last, socket, gate, wire>>

\* The result of a write goes to its handler.
Completes(i, ok) ==
  /\ writes' = SubSeq(writes, 1, i - 1) \o SubSeq(writes, i + 1, Len(writes))
  /\ IF writes[i].last
     THEN last' = (IF ok THEN "written" ELSE "failed") /\ UNCHANGED strand
     ELSE strand' = Append(strand, Written(ok)) /\ UNCHANGED last

WriteCompletes(i) ==
  /\ i \in DOMAIN writes /\ socket = "open"
  /\ wire' = wire \o writes[i].part
  /\ Completes(i, TRUE)
  /\ UNCHANGED <<todo, held, parts, send_queue, called, socket, gate>>

\* The connection has ended.
WriteFails(i) ==
  /\ i \in DOMAIN writes /\ socket # "open"
  /\ Completes(i, FALSE)
  /\ UNCHANGED <<todo, held, parts, send_queue, called, socket, gate, wire>>

\* Mutant: the deleter does not wait for the handlers.
OnlyReleased == ~held
Unreferenced == ~held /\ strand = <<>> /\ writes = <<>>

\* send_on_delete: nothing holds the Response any more.
SendOnDelete ==
  /\ last = "no" /\ Unreferenced
  /\ last' = "writing"
  /\ writes' = Append(writes, [part |-> todo, last |-> TRUE])
  /\ todo' = <<>>
  /\ UNCHANGED <<held, parts, strand, send_queue, called, socket, gate, wire>>

RunStrand == AppendPart \/ StartWrite \/ PartWritten
Complete == \E i \in DOMAIN writes : WriteCompletes(i) \/ WriteFails(i)

-----------------------------------------------------------------------------
(* Properties *)

\* No write is started on the socket while another is in progress, and none without
\* a part to write: the bytes of two parts, or of a part and the end of the
\* response, never mix.
OneWrite ==
  /\ Len(writes) <= 1
  /\ strand # <<>> /\ Head(strand).do \in {"write", "written"} => send_queue # <<>>

Fifo == INSTANCE ResponseFifo WITH sent <- Len(parts)

\* The queue implements the fifo.
FifoSpec == Fifo!Spec
=============================================================================
