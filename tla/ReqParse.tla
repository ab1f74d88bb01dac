------------------------------ MODULE ReqParse ------------------------------
(***************************************************************************)
(* Parsing a request header that mhttp_req_check has found whole:          *)
(* mhttp_req_parse of src/mhttp_req.c, a header line at a time.            *)
(*                                                                         *)
(* Abstractions: the receive buffer is a sequence of tokens, each a word   *)
(* the parser knows or one other character; no word has a blank, a line    *)
(* feed, a question mark or a null byte in it, so looking for one of those *)
(* from the middle of a word finds what it finds from behind the word.     *)
(* Ranges are well-formed or not (see MhttpRange for what they mean), a    *)
(* number is one token (see ParseNum), and what becomes of the path's      *)
(* characters is UrlPath's matter.                                         *)
(***************************************************************************)
EXTENDS Integers, SequencesExt

CONSTANTS
  Token,          \* a word or a character
  RequestLines,   \* what clients send as the first line: sequences of tokens
  HeaderLines,    \* and as further ones
  MaxLines,       \* bound: header lines of a request
  LastLines,      \* what the line has that ends the header: at most one character
  Behind          \* what the buffer holds behind this header

LF    == "LF"
ZERO  == "NUL"
Blank == "SP"

ASSUME ReqParseAssumption ==
  /\ {LF, ZERO, Blank} \subseteq Token
  /\ MaxLines \in Nat
  /\ RequestLines \subseteq Seq(Token \ {LF})
  /\ HeaderLines \subseteq Seq(Token \ {LF}) \ {<<>>}
  /\ LastLines \subseteq {line \in Seq(Token \ {LF}) : Len(line) <= 1}
  /\ Behind \subseteq Seq(Token)

VARIABLES
  sent,      \* the lines of the request: the first, the headers, the one that ends it
  rxbuf,     \* rxbuf, up to the null byte that caps the buffers
  pos,       \* chkptr: the line feed found last, 0 for NULL
  req,       \* the fields of struct mhttp_req that are parsed
  parsing,   \* "request", "headers", "done" or "malformed"
  seen       \* history: where the header lines begin that were matched

parsevars == <<sent, rxbuf, pos, req, parsing, seen>>

Methods == {"GET", "HEAD"}

\* The header as mhttp_req_check leaves it: its last line feed is a null byte.
HeaderUpTo(lines) ==
  LET upto[n \in 0 .. Len(lines)] ==
        IF n = 0 THEN <<>> ELSE upto[n - 1] \o lines[n] \o <<IF n = Len(lines) THEN ZERO ELSE LF>>
  IN  upto
Header(lines) == HeaderUpTo(lines)[Len(lines)]

\* strchr: the first of token from position p on, 0 when the string ends before.
Found(token, p) ==
  LET places == {q \in p .. Len(rxbuf) : /\ rxbuf[q] = token
                                       /\ \A r \in p .. q - 1 : rxbuf[r] \notin {token, ZERO}}
  IN  IF places = {} THEN 0 ELSE CHOOSE q \in places : TRUE

\* From position p on, past blanks.
PastBlanks(p) == CHOOSE q \in p .. Len(rxbuf) : rxbuf[q] # Blank /\ \A r \in p .. q - 1 : rxbuf[r] = Blank

NoRequest == [method |-> "none", path |-> <<0, 0>>, args |-> 0, version |-> "1.0",
              eos |-> TRUE, txenc |-> "none", entlen |-> 0, ranged |-> FALSE]

-----------------------------------------------------------------------------
ParseStarts(lines, behind) ==
  /\ sent = lines /\ rxbuf = Header(lines) \o behind \o <<ZERO>>
  /\ pos = 0 /\ req = NoRequest /\ parsing = "request" /\ seen = {}
Requests ==
  {<<first>> \o lines \o <<last>> :
     first \in RequestLines, lines \in BoundedSeq(HeaderLines, MaxLines), last \in LastLines}
ParseInit == \E lines \in Requests, behind \in Behind : ParseStarts(lines, behind)

\* Where the path begins: the character behind the method is skipped, whatever
\* it is; it becomes the "." before the path.
PathStart == IF rxbuf[1] \in Methods THEN 3 ELSE 2

\* No blank is left in the header: it is malformed.
NoTarget ==
  /\ parsing = "request" /\ Found(Blank, PathStart) = 0
  /\ parsing' = "malformed"
  /\ UNCHANGED <<sent, rxbuf, pos, req, seen>>

\* The path ends at the first blank, or at the question mark before it.
PathEnd(blank, mark) == IF mark = 0 \/ mark > blank THEN blank ELSE mark

\* The search for header lines begins one character into the version.
SearchStart(blank) == blank + 2

\* Any version other than 1.1 is 1.0, and closes unless told not to.
RequestLine ==
  /\ parsing = "request" /\ Found(Blank, PathStart) # 0
  /\ LET blank == Found(Blank, PathStart)
         mark  == Found("?", PathStart)
         end   == PathEnd(blank, mark)
         v11   == rxbuf[blank + 1] = "HTTP/1.1"
     IN  /\ req' = [req EXCEPT
                      !.method = IF rxbuf[1] \in Methods THEN rxbuf[1] ELSE "none",
                      !.path = <<PathStart, end - 1>>,
                      !.args = IF end = mark THEN mark + 1 ELSE end,
                      !.version = IF v11 THEN "1.1" ELSE "1.0",
                      !.eos = ~v11]
         /\ pos' = Found(LF, SearchStart(blank))
  /\ parsing' = "headers"
  /\ UNCHANGED <<sent, rxbuf, seen>>

\* Seeded fault: "keep-alive" does not take back a "close".
SetsClose(r, name, value) ==
  IF name = "Connection:" /\ value = "close" THEN [r EXCEPT !.eos = TRUE] ELSE r
\* What a header line sets, given its name and the token behind it.  A value
\* that is not understood leaves the field as it is; a length that is no number
\* leaves the encoding, but not the length.
Sets(r, name, value) ==
  CASE name = "Connection:" /\ value \in {"close", "keep-alive"} ->
         [r EXCEPT !.eos = (value = "close")]
    [] name = "Range:" -> [r EXCEPT !.ranged = TRUE]
    [] name = "Content-Length:" /\ value = "7" -> [r EXCEPT !.entlen = 7, !.txenc = "identity"]
    [] name = "Content-Length:" /\ value # "7" -> [r EXCEPT !.entlen = 0]
    [] name = "Transfer-Encoding:" /\ value \in {"chunked", "identity"} ->
         [r EXCEPT !.txenc = value]
    [] OTHER -> r
BadRange(name, value) == name = "Range:" /\ value # "bytes=0-1"

\* Only names that are known are passed over before the value is looked at.
Names == {"Connection:", "Range:", "Content-Length:", "Transfer-Encoding:"}
ValueAt(p) == PastBlanks(IF rxbuf[p] \in Names THEN p + 1 ELSE p)

HeaderLine ==
  /\ parsing = "headers" /\ pos # 0
  /\ seen' = seen \cup {pos + 1}
  /\ \/ /\ BadRange(rxbuf[pos + 1], rxbuf[ValueAt(pos + 1)])
        /\ parsing' = "malformed"
        /\ req' = [req EXCEPT !.path = <<0, 0>>, !.args = 0]
        /\ UNCHANGED pos
     \/ /\ ~BadRange(rxbuf[pos + 1], rxbuf[ValueAt(pos + 1)])
        /\ req' = Sets(req, rxbuf[pos + 1], rxbuf[ValueAt(pos + 1)])
        /\ pos' = Found(LF, ValueAt(pos + 1))
        /\ UNCHANGED parsing
  /\ UNCHANGED <<sent, rxbuf>>

HeadersEnd ==
  /\ parsing = "headers" /\ pos = 0
  /\ parsing' = "done"
  /\ UNCHANGED <<sent, rxbuf, pos, req, seen>>

ParseDone == parsing \in {"done", "malformed"} /\ UNCHANGED parsevars

ParseNext == NoTarget \/ RequestLine \/ HeaderLine \/ HeadersEnd \/ ParseDone
ParseSpec == ParseInit /\ [][ParseNext]_parsevars

-----------------------------------------------------------------------------
(* What must hold. *)

Terminator == Len(Header(sent))
Lines == SubSeq(sent, 2, Len(sent) - 1)

\* A request line as RFC 2616 has it: a method, a blank, a target that has
\* none, a blank and a version.  No line has a null byte: parsing ends at one.
WellFormed ==
  /\ Len(sent[1]) >= 4 /\ sent[1][1] \in Methods /\ sent[1][2] = Blank
  /\ {n \in DOMAIN sent[1] : sent[1][n] = Blank} = {2, Len(sent[1]) - 1}
  /\ \A n \in DOMAIN sent : \A m \in DOMAIN sent[n] : sent[n][m] # ZERO

\* Where the lines of the header begin, but the first and the one that ends it.
LineStarts == {p \in 2 .. Terminator - 1 : rxbuf[p - 1] = LF}

\* Of a request with a good first line every header line is looked at, once it
\* is answered, and no place that is not the start of a line.  The last line,
\* where it has a character, passes for one, and so does its end without one.
AllLinesSeen ==
  WellFormed => seen \subseteq LineStarts \cup {Terminator}
                /\ (parsing = "done" => LineStarts \subseteq seen)

\* The value of a line: the first token behind a name that is not a blank.
ValueOf(line) ==
  LET rest == {n \in 2 .. Len(line) : line[n] # Blank}
  IN  IF rest = {} THEN Blank ELSE line[CHOOSE n \in rest : \A m \in rest : n <= m]

\* The last Connection line that says "close" or "keep-alive" decides what
\* becomes of the connection, and without one the version does.
Deciding ==
  {n \in DOMAIN Lines : /\ Len(Lines[n]) > 1 /\ Lines[n][1] = "Connection:"
                        /\ ValueOf(Lines[n]) \in {"close", "keep-alive"}}
LastConnectionDecides ==
  WellFormed /\ parsing = "done" =>
    IF Deciding = {} THEN req.eos = (sent[1][Len(sent[1])] # "HTTP/1.1")
    ELSE \E n \in Deciding : /\ \A m \in Deciding : m <= n
                             /\ req.eos = (ValueOf(Lines[n]) = "close")

\* The path is that of the request line, up to its question mark, and the
\* arguments are what is behind it.
TargetIsPath ==
  WellFormed /\ parsing = "headers" =>
    LET target == SubSeq(sent[1], 3, Len(sent[1]) - 2)
        path   == SubSeq(rxbuf, req.path[1], req.path[2])
        args   == SubSeq(rxbuf, req.args, Len(sent[1]) - 2)
    IN  target = IF "?" \in {target[n] : n \in DOMAIN target}
                 THEN path \o <<"?">> \o args ELSE path

\* A request with a malformed range is refused, whatever lines are around it.
BadRangeRefused ==
  parsing = "done" /\ WellFormed =>
    \A n \in DOMAIN Lines : Lines[n][1] = "Range:" => ValueOf(Lines[n]) = "bytes=0-1"

\* The request is the one that the header's lines describe, all of them, and no
\* bytes but theirs.
HeaderUnderstood ==
  AllLinesSeen /\ LastConnectionDecides /\ TargetIsPath /\ BadRangeRefused
=============================================================================
