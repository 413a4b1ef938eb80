--------------------------- MODULE MCHttpExchange ---------------------------
(* Small instances of HttpExchange and of HttpParsers. *)
EXTENDS HttpExchange, HttpParsers, TLC

M(framing, chunks) == [framing |-> framing, chunks |-> chunks]

TenDigits == <<"0", "1", "2", "3", "4", "5", "6", "7", "8", "9">>

\* Contents that look like the end of a line, and two that do not fit, of which one
\* ends with its connection.
SmallRequests == {M("length", <<<<"r", "n">>>>), M("chunked", <<<<"x">>, <<"y">>>>),
                  M("length", <<<<"x", "x", "x", "x", "x", "x", "x", "x", "x">>>>)}
SmallResponses == {M("length", <<<<"x", "y">>>>), M("close", <<<<"x">>>>),
                   M("close", <<<<"x", "x", "x", "x", "x", "x", "x", "x", "x", "y">>>>),
                   M("chunked", <<<<"r", "n">>, <<"x">>>>)}

-----------------------------------------------------------------------------
(* The bytes for the parsers come instead of the first request. *)

Untouched == exchanges = 0 /\ socket = "open" /\ gate = "open"

MCNext == \/ line = <<>> /\ Next /\ UNCHANGED line
          \/ Untouched /\ (\E b \in Bytes : Arrives(b)) /\ UNCHANGED vars

MCInit == Init /\ line = <<>>
MCSpec == MCInit /\ [][MCNext]_<<vars, line>> /\ Fairness

\* The bytes that mean something to a parser, a letter that is a digit, and a byte that is a
\* negative char.
Marks == {32, 34, 37, 38, 43, 58, 59, 61, 63, 70, 255}
=============================================================================
