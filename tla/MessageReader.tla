---------------------------- MODULE MessageReader ----------------------------
(***************************************************************************)
(* How a message is read from a connection: read,                          *)
(* read_chunked_transfer_encoded and read_chunked_transfer_encoded_chunk   *)
(* of the server (server_http.hpp:503-668) and, with the same arithmetic,  *)
(* of the client (client_http.hpp:465-637).                                *)
(*                                                                         *)
(* The network delivers the bytes in pieces of any size, and a read takes  *)
(* more than it asked for when more is there: num_additional_bytes.        *)
(* A header is a start line and one field; a number is one symbol.         *)
(***************************************************************************)
EXTENDS Naturals, SequencesExt

CONSTANTS
  Digits,   \* the symbols of the numbers from 0
  Side,     \* "server" or "client"
  MaxSize,  \* max_request_streambuf_size, max_response_streambuf_size
  Word      \* size_t and unsigned long are taken modulo Word

VARIABLES
  wire,   \* bytes the peer has sent and nobody has read
  reader  \* the Session: its stream buffer and the read in progress

vars == <<wire, reader>>

-----------------------------------------------------------------------------
(* Messages *)

CR == "r"
LF == "n"
CRLF == <<CR, LF>>
BlankLine == CRLF \o CRLF

Digit(n) == Digits[n + 1]
Numbers == 0..Len(Digits) - 1
IsNumber(field) == \E n \in Numbers : field = Digit(n)
Value(digit) == CHOOSE n \in Numbers : digit = Digit(n)

\* What a peer sends: a framing and a content, in pieces when it is chunked.
Content(m) == FlattenSeq(m.chunks)
Field(m) == IF m.framing = "length" THEN Digit(Len(Content(m))) ELSE m.framing
Header(m) == <<"start", Field(m)>> \o BlankLine
ChunkOf(data) == <<Digit(Len(data))>> \o CRLF \o data \o CRLF
Wire(m) ==
  Header(m) \o
  IF m.framing = "chunked"
  THEN FlattenSeq([i \in DOMAIN m.chunks |-> ChunkOf(m.chunks[i])]) \o ChunkOf(<<>>)
  ELSE Content(m)

Message == [framing : {"length", "chunked", "close", "none"}, chunks : Seq(Seq(STRING))]

\* 2 + length would not fit in a word.  No array is that long: new char[length] throws.
Unallocatable(length) == length + 2 >= Word

\* A peer that keeps to the protocol: its lengths can be written, no chunk but the last
\* is empty or longer than an array, and it sends no content that nothing announces.
Announced(m) ==
  CASE m.framing = "length"  -> Len(Content(m)) \in Numbers
    [] m.framing = "chunked" -> \A i \in DOMAIN m.chunks : /\ Len(m.chunks[i]) \in Numbers \ {0}
                                                          /\ ~Unallocatable(Len(m.chunks[i]))
    [] m.framing = "close"   -> Side = "client"
    [] OTHER                 -> m.chunks = <<>>

\* A number that stoul returns fits in a word; a chunk and the end of its line need not.
Sizes == /\ Digits \in Seq(STRING \ {"chunked", "close", "none"}) \ {<<>>} /\ IsInjective(Digits)
         /\ MaxSize \in Nat \ {0} /\ Word \in Nat /\ Word > 2 /\ Len(Digits) <= Word

-----------------------------------------------------------------------------
(* The stream buffer *)

Drop(s, n) == SubSeq(s, n + 1, Len(s))
Take(s, n) == SubSeq(s, 1, n)

\* Where the first delimiter in the buffer ends; 0 if there is none.
EndOf(delimiter, s) ==
  LET ends == {i \in Len(delimiter)..Len(s) :
                 SubSeq(s, i - Len(delimiter) + 1, i) = delimiter}
  IN IF ends = {} THEN 0 ELSE Min(ends)

Delimiter(r) == IF r.op = "header" THEN BlankLine ELSE CRLF

Nothing == [op |-> "none", need |-> 0, buf |-> <<>>, head |-> <<>>, length |-> 0,
            chunks |-> <<>>, stale |-> FALSE]
\* read(): a new Session.
Reading == [Nothing EXCEPT !.op = "header"]

Until   == {"header", "line"}
Exactly == {"content", "chunk"}
Waiting == Until \cup Exactly \cup {"end"}

\* streambuf.size() == streambuf.max_size().  Mutant: one byte too early.
AlmostFull(r) == Len(r.buf) + 1 >= MaxSize
Full(r) == Len(r.buf) = MaxSize
\* asio calls the handler: the delimiter is there, nothing is needed, no room is left.
Completed(r) == \/ r.op \in Until /\ EndOf(Delimiter(r), r.buf) > 0
                \/ r.op \in Exactly /\ r.need = 0
                \/ Full(r)

Room(r) == LET room == MaxSize - Len(r.buf) IN
           IF r.op \in Exactly /\ r.need < room THEN r.need ELSE room

\* A piece arrives, of at most so many bytes.
Receive(most) ==
  LET n == Min({most, Len(wire), Room(reader)}) IN
  /\ reader.op \in Waiting /\ ~Completed(reader) /\ n > 0
  /\ wire' = Drop(wire, n)
  /\ reader' = [reader EXCEPT !.buf = @ \o Take(wire, n),
                              !.need = IF reader.op \in Exactly THEN @ - n ELSE @]

-----------------------------------------------------------------------------
(* The handlers *)

\* asio::transfer_exactly, or no read at all when all has come already.
ReadExactly(r, op, size, next) ==
  LET additional == Len(r.buf) IN
  IF size > additional THEN [r EXCEPT !.op = op, !.need = size - additional] ELSE next

Done(r) == [r EXCEPT !.op = "done", !.need = 0]
TooLarge(r) == [r EXCEPT !.op = "too_large"]

\* Mutant: the additional bytes are forgotten.
ReadContentAfresh(r, size) == [r EXCEPT !.op = "content", !.need = size]
ReadContent(r, size) == ReadExactly(r, "content", size, Done(r))

\* "close" is the field "Session: close", or an answer of version 1.0.
AfterHeader(r, field) ==
  CASE IsNumber(field)       -> ReadContent(r, Value(field))
    [] field = "chunked"     -> [r EXCEPT !.op = "line"]
    [] field = "close" /\ Side = "client" -> [r EXCEPT !.op = "end"]
    [] OTHER                 -> Done(r)

\* What a header may say.  With bytes of an earlier attempt in front it can be anything.
Fields(r, head) == IF r.stale THEN {Digit(0), Digit(3), "chunked", "close", "none"}
                   ELSE {head[Len(head) - Len(BlankLine)]}

HeaderRead ==
  LET end  == EndOf(BlankLine, reader.buf)
      head == Take(reader.buf, end)
      read == [reader EXCEPT !.buf = Drop(@, end), !.head = head]
  IN /\ reader.op = "header" /\ end > 0 /\ ~Full(reader)
     /\ IF Head(head) = "start"
        THEN \E field \in Fields(reader, head) : reader' = AfterHeader(read, field)
        ELSE reader' = [reader EXCEPT !.op = "malformed"]
     /\ UNCHANGED wire

ContentRead ==
  /\ reader.op = "content" /\ reader.need = 0 /\ ~Full(reader)
  /\ reader' = Done(reader)
  /\ UNCHANGED wire

\* read_chunked_transfer_encoded_chunk: the data goes to chunks_streambuf, the end of
\* its line is removed, and after the last chunk chunks_streambuf is appended to the
\* stream buffer.  A length for which 2 + length was too small is not tested for: the
\* exception leaves the handler.  Mutant: it has the last chunk only.
OneChunk(r) == Take(r.buf, r.length)
Chunks(r) == r.chunks \o Take(r.buf, r.length)

Chunk(r) ==
  LET all == Chunks(r)  rest == Drop(r.buf, r.length + 2) IN
  IF Unallocatable(r.length) THEN [r EXCEPT !.op = "thrown"]
  ELSE IF r.length > 0 /\ Len(all) >= MaxSize THEN TooLarge(r)
  ELSE IF r.length > 0
       THEN [r EXCEPT !.op = "line", !.chunks = all, !.buf = rest]
       ELSE Done([r EXCEPT !.chunks = <<>>, !.buf = rest \o all])

\* The chunk and the end of its line.
WithCRLF(length) == (2 + length) % Word

LineRead ==
  LET end  == EndOf(CRLF, reader.buf)
      read == [reader EXCEPT !.buf = Drop(@, end), !.length = Value(reader.buf[1])]
  IN /\ reader.op = "line" /\ end > 0 /\ ~Full(reader)
     /\ IF IsNumber(reader.buf[1])
        THEN reader' = ReadExactly(read, "chunk", WithCRLF(read.length), Chunk(read))
        ELSE reader' = [reader EXCEPT !.op = "malformed"]
     /\ UNCHANGED wire

ChunkRead ==
  /\ reader.op = "chunk" /\ reader.need = 0 /\ ~Full(reader)
  /\ reader' = Chunk(reader)
  /\ UNCHANGED wire

\* The buffer is full: errc::message_size.
Refuse ==
  /\ reader.op \in Waiting /\ Full(reader)
  /\ reader' = TooLarge(reader)
  /\ UNCHANGED wire

\* The connection has ended, or failed.  A content without a length ends with it.
EndOfStream ==
  /\ reader.op \in Waiting /\ ~Completed(reader) /\ wire = <<>>
  /\ reader' = IF reader.op = "end" THEN Done(reader)
               ELSE [reader EXCEPT !.op = IF @ = "header" THEN "no_header" ELSE "failed"]
  /\ UNCHANGED wire

Fail ==
  /\ reader.op \in Waiting /\ ~Completed(reader)
  /\ reader' = [reader EXCEPT !.op = IF @ = "header" THEN "no_header" ELSE "failed"]
  /\ UNCHANGED wire

Handlers == HeaderRead \/ ContentRead \/ LineRead \/ ChunkRead \/ Refuse
=============================================================================
