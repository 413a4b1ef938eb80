----------------------------- MODULE HttpParsers -----------------------------
(***************************************************************************)
(* The parsers of utility.hpp, which read what a peer has sent, and the    *)
(* texts they are made for.  A string is a sequence of bytes; positions    *)
(* count from 0, as in the code.  A multimap is the sequence of the fields *)
(* in the order in which they were put there.                              *)
(***************************************************************************)
EXTENDS Integers, SequencesExt

CONSTANTS
  Bytes,   \* the bytes that a peer sends
  Longest  \* bound: how many

ASSUME BytesAssumption == Bytes \subseteq 0..255 /\ Longest \in Nat

VARIABLE line  \* what the peer has sent

Arrives(b) == Len(line) < Longest /\ line' = Append(line, b)

\* A line comes byte by byte; whatever has come of it may be given to a parser.
Lines == line = <<>> /\ [][\E b \in Bytes : Arrives(b)]_line

CR        == 13
SPACE     == 32
QUOTE     == 34
PERCENT   == 37
AMPERSAND == 38
PLUS      == 43
MINUS     == 45
SLASH     == 47
COLON     == 58
SEMICOLON == 59
EQUALS    == 61
QUESTION  == 63
HTTP      == <<72, 84, 84, 80>>

npos == -1
\* substr throws past the end of the string; in a noexcept function this ends the process.
Threw == <<-1>>
Substr(s, pos, count) ==
  IF pos > Len(s) THEN Threw
  ELSE SubSeq(s, pos + 1, IF count < 0 \/ pos + count > Len(s) THEN Len(s) ELSE pos + count)

At(s, c) == s[c + 1]
Positions(s) == 0..(Len(s) - 1)
Find(s, chr, from) ==
  LET found == {c \in Positions(s) : c >= from /\ At(s, c) = chr} IN
  IF found = {} THEN npos ELSE Min(found)

-----------------------------------------------------------------------------
(* Percent *)

Digit(c)  == c \in 48..57
Letter(c) == c \in 65..90 \/ c \in 97..122
Unreserved(c) == Digit(c) \/ Letter(c) \/ c \in {45, 46, 95, 126}

HexChar(n) == IF n < 10 THEN 48 + n ELSE 55 + n
Encoded(c) == IF Unreserved(c) THEN <<c>> ELSE <<PERCENT, HexChar(c \div 16), HexChar(c % 16)>>
Encode(s) == FlattenSeq([i \in DOMAIN s |-> Encoded(s[i])])

Hex(c) == CASE Digit(c)       -> c - 48
            [] c \in 65..70   -> c - 55
            [] c \in 97..102  -> c - 87
            [] OTHER          -> -1

\* strtol(base 16) of two characters: white space, a sign and what is no digit are allowed.
StrToL(a, b) ==
  CASE Hex(a) >= 0 /\ Hex(b) >= 0                -> 16 * Hex(a) + Hex(b)
    [] Hex(a) >= 0 /\ Hex(b) < 0                 -> Hex(a)
    [] a \in (9..13) \cup {SPACE, PLUS} /\ Hex(b) >= 0 -> Hex(b)
    [] a = MINUS /\ Hex(b) >= 0                  -> (256 - Hex(b)) % 256
    [] OTHER                                     -> 0

\* There are two characters behind the percent sign.
TwoFollow(s, i) == i + 1 < Len(s)

Decode(s) ==
  LET from[i \in 1..(Len(s) + 1)] ==
        IF i > Len(s) THEN <<>>
        ELSE IF s[i] = PERCENT /\ TwoFollow(s, i)
             THEN <<StrToL(s[i + 1], s[i + 2])>> \o from[i + 3]
             ELSE <<IF s[i] = PLUS THEN SPACE ELSE s[i]>> \o from[i + 1]
  IN from[1]

-----------------------------------------------------------------------------
(* QueryString: fields are pairs of a name and a value *)

Create(fields) ==
  FlattenSeq([i \in DOMAIN fields |->
    (IF i > 1 THEN <<AMPERSAND>> ELSE <<>>) \o fields[i][1] \o <<EQUALS>> \o Encode(fields[i][2])])

\* A field begins behind the ampersand.  Mutant: the value of the last one remains.
KeepValue(k, c) == [k EXCEPT !.name = c + 1, !.name_end = npos]
NextName(k, c) == [k EXCEPT !.name = c + 1, !.name_end = npos, !.value = npos]

\* A name ends at the equals sign: the last one counts.
NextValue(k, c) == [k EXCEPT !.name_end = c, !.value = c + 1]

\* The field that ends at c, if it has a name.
Add(k, s, c) ==
  LET name == Substr(s, k.name, (IF k.name_end = npos THEN c ELSE k.name_end) - k.name)
      value == IF k.value = npos THEN <<>> ELSE Substr(s, k.value, c - k.value)
  IN IF name = <<>> THEN k ELSE [k EXCEPT !.fields = Append(@, <<name, Decode(value)>>)]

NoField == [name |-> 0, name_end |-> npos, value |-> npos, fields |-> <<>>]

QueryStep(k, s, c) ==
  CASE At(s, c) = AMPERSAND -> NextName(Add(k, s, c), c)
    [] At(s, c) = EQUALS    -> NextValue(k, c)
    [] OTHER                -> k

ParseQuery(s) ==
  LET scan[i \in 0..Len(s)] == IF i = 0 THEN NoField ELSE QueryStep(scan[i - 1], s, i - 1)
      end == scan[Len(s)]
  IN (IF end.name < Len(s) THEN Add(end, s, Len(s)) ELSE end).fields

-----------------------------------------------------------------------------
(* SemicolonSeparatedAttributes *)

NoAttribute == [start |-> npos, name_end |-> npos, value |-> npos, fields |-> <<>>]

\* The field is known.
Known(k, field) == [NoAttribute EXCEPT !.fields = Append(k.fields, field)]

\* What the characters from start to c are: a name, or a name and a value.
Flag(k, s, c) == <<Substr(s, k.start, c - k.start), <<>>>>
Attribute(k, s, c) ==
  <<Substr(s, k.start, k.name_end - k.start), Decode(Substr(s, k.value, c - k.value))>>

AttributeStep(k, s, c) ==
  CASE k.start = npos ->
         IF At(s, c) \in {SPACE, SEMICOLON} THEN k ELSE [k EXCEPT !.start = c]
    [] k.start # npos /\ k.name_end = npos ->
         CASE At(s, c) = SEMICOLON -> Known(k, Flag(k, s, c))
           [] At(s, c) = EQUALS    -> [k EXCEPT !.name_end = c]
           [] OTHER                -> k
    [] k.start # npos /\ k.name_end # npos /\ k.value = npos ->
         [k EXCEPT !.value = IF At(s, c) = QUOTE /\ c + 1 < Len(s) THEN c + 1 ELSE c]
    [] OTHER ->
         IF At(s, c) \in {QUOTE, SEMICOLON} THEN Known(k, Attribute(k, s, c)) ELSE k

ParseAttributes(s) ==
  LET scan[i \in 0..Len(s)] == IF i = 0 THEN NoAttribute ELSE AttributeStep(scan[i - 1], s, i - 1)
      end == scan[Len(s)]
  IN CASE end.start = npos    -> end.fields
       [] end.start # npos /\ end.name_end = npos -> Append(end.fields, Flag(end, s, Len(s)))
       [] end.start # npos /\ end.name_end # npos /\ end.value # npos ->
            Append(end.fields, Attribute(end, s, Len(s)))
       [] OTHER               -> end.fields

-----------------------------------------------------------------------------
(* HttpHeader, RequestMessage, ResponseMessage: lines without their line feed *)

\* Behind the spaces, but not behind the end.
ValueStart(s, colon) ==
  Min({p \in (colon + 1)..Len(s) : p + 1 >= Len(s) \/ At(s, p) # SPACE})

\* A line with a colon: without a value it is left out.
ParseField(text) ==
  LET colon == Find(text, COLON, 0)
      start == ValueStart(text, colon)
  IN IF start >= Len(text) THEN <<>>
     ELSE << <<Substr(text, 0, colon),
               Substr(text, start, Len(text) - start - (IF Last(text) = CR THEN 1 ELSE 0))>> >>

ParseHeader(lines) ==
  LET ends == {i \in DOMAIN lines : Find(lines[i], COLON, 0) = npos}
      last == IF ends = {} THEN Len(lines) ELSE Min(ends) - 1
  IN FlattenSeq([i \in 1..last |-> ParseField(lines[i])])

NotParsed == [ok |-> FALSE]

\* The last question mark that is not the last character.
QueryStart(text, from, to) ==
  LET found == {c \in from..to : At(text, c) = QUESTION /\ c + 1 < Len(text)} IN
  IF found = {} THEN npos ELSE Max(found) + 1

ParseRequest(text) ==
  LET method_end == Find(text, SPACE, 0)
      end        == Find(text, SPACE, method_end + 1)
      query      == QueryStart(text, method_end + 1, end - 1)
      protocol   == Find(text, SLASH, end + 1)
  IN IF \/ method_end = npos \/ end = npos \/ protocol = npos
        \/ Substr(text, end + 1, protocol - end - 1) # HTTP
     THEN NotParsed
     ELSE [ok      |-> TRUE,
           method  |-> Substr(text, 0, method_end),
           path    |-> Substr(text, method_end + 1,
                              (IF query = npos THEN end + 1 ELSE query) - method_end - 2),
           query   |-> IF query = npos THEN <<>> ELSE Substr(text, query, end - query),
           version |-> Substr(text, protocol + 1, Len(text) - protocol - 2)]

ParseResponse(text) ==
  LET version_end == Find(text, SPACE, 0) IN
  IF version_end = npos \/ Len(text) <= 5 \/ version_end + 1 >= Len(text) THEN NotParsed
  ELSE [ok      |-> TRUE,
        version |-> Substr(text, 5, version_end - 5),
        status  |-> Substr(text, version_end + 1, Len(text) - (version_end + 1) - 1)]

-----------------------------------------------------------------------------
(* What the client and the server write *)

RequestLine(method, path, query) ==
  method \o <<SPACE>> \o path \o (IF query = <<>> THEN <<>> ELSE <<QUESTION>> \o query)
    \o <<SPACE>> \o HTTP \o <<SLASH, 49, 46, 49, CR>>
HeaderLine(field) == field[1] \o <<COLON, SPACE>> \o field[2] \o <<CR>>

\* A Set-Cookie or Content-Disposition value, with its values as they are or in quotes.
AttributesLine(fields, quotes) ==
  FlattenSeq([i \in DOMAIN fields |->
    (IF i > 1 THEN <<SEMICOLON, SPACE>> ELSE <<>>) \o fields[i][1] \o <<EQUALS>>
      \o quotes \o Encode(fields[i][2]) \o quotes])

\* A query of a peer that writes no equals sign without need.
Terse(fields) ==
  FlattenSeq([i \in DOMAIN fields |->
    (IF i > 1 THEN <<AMPERSAND>> ELSE <<>>) \o
      IF fields[i][2] = <<>> /\ EQUALS \notin ToSet(fields[i][1]) THEN fields[i][1]
      ELSE Create(<<fields[i]>>)])

-----------------------------------------------------------------------------
(* Properties: of every text that may arrive, or that is made of its bytes *)

Has(s, chr) == Find(s, chr, 0) # npos
Cut(from, to) == SubSeq(line, from + 1, to)

\* The line as the names and values of two fields, cut in every way.
TwoFields ==
  LET N == 0..Len(line)
      ordered == {c \in N \X N \X N : c[1] <= c[2] /\ c[2] <= c[3]}
  IN {<< <<Cut(0, c[1]), Cut(c[1], c[2])>>, <<Cut(c[2], c[3]), Cut(c[3], Len(line))>> >> :
        c \in ordered}

\* What Percent::encode has written, Percent::decode reads, whatever the bytes.
PercentRoundTrip == Decode(Encode(line)) = line

\* What QueryString::create has written, QueryString::parse reads: the values may be
\* anything, the names anything without an ampersand, even with an equals sign.  An
\* equals sign may be left out with the value.
QueryRoundTrip ==
  \A fields \in TwoFields :
    (\A i \in 1..2 : fields[i][1] # <<>> /\ ~Has(fields[i][1], AMPERSAND)) =>
      ParseQuery(Create(fields)) = fields /\ ParseQuery(Terse(fields)) = fields

\* The server finds method, path and query where the client has put them: the path may
\* have question marks, the query none.
RequestUnderstood ==
  ~Has(line, SPACE) =>
    \A i \in 0..Len(line) :
      LET path == Cut(0, i)  query == Cut(i, Len(line)) IN
      ~Has(query, QUESTION) /\ (Has(path, QUESTION) => query # <<>>) =>
        ParseRequest(RequestLine(<<65>>, path, query)) =
          [ok |-> TRUE, method |-> <<65>>, path |-> path, query |-> query,
           version |-> <<49, 46, 49>>]

\* A field of a header is read as it was written, an empty value too; only spaces in
\* front of a value are lost.
HeaderUnderstood ==
  \A i \in 0..Len(line) :
    LET name == Cut(0, i)  value == Cut(i, Len(line)) IN
    ~Has(name, COLON) /\ (value = <<>> \/ Head(value) # SPACE) =>
      ParseHeader(<<HeaderLine(<<name, value>>)>>) = << <<name, value>> >>

\* The attributes of a field are read as they were written, in quotes or not.  A value
\* without quotes must not be empty: it would take the next attribute for its own.
AttributesUnderstood ==
  \A fields \in TwoFields, quotes \in {<<>>, <<QUOTE>>} :
    (\A i \in 1..2 : /\ fields[i][1] # <<>> /\ (quotes = <<>> => fields[i][2] # <<>>)
                    /\ \A c \in {SPACE, SEMICOLON, EQUALS} : ~Has(fields[i][1], c)) =>
      ParseAttributes(AttributesLine(fields, quotes)) = fields

\* No line makes a parser take a part from behind its end: they are noexcept, and the
\* process would end.
NeverThrows ==
  LET texts(fields) == {fields[i][1] : i \in DOMAIN fields} \cup
                       {fields[i][2] : i \in DOMAIN fields}
      request  == ParseRequest(line)
      response == ParseResponse(line)
  IN Threw \notin texts(ParseQuery(line)) \cup texts(ParseHeader(<<line>>))
                  \cup texts(ParseAttributes(line))
                  \cup (IF request.ok THEN {request.method, request.path, request.query,
                                            request.version} ELSE {})
                  \cup (IF response.ok THEN {response.version, response.status} ELSE {})

\* What this server and client write they read as it was meant, and no line ends the process.
ParsersAgree == /\ PercentRoundTrip /\ QueryRoundTrip /\ AttributesUnderstood
                /\ RequestUnderstood /\ HeaderUnderstood /\ NeverThrows
=============================================================================
