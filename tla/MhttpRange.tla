----------------------------- MODULE MhttpRange -----------------------------
(***************************************************************************)
(* Byte ranges: src/mhttp_range.c, and the range logic of resp_get in      *)
(* src/midnighttpd_core.c, over the requests of one connection.            *)
(*                                                                         *)
(* Abstractions: a Range header is whether its unit is "bytes=", whether   *)
(* there is a dash where one is looked for, and the numbers before and     *)
(* after it (NoNumber when there is no digit).  A digit multiplies and     *)
(* adds in size_t, so what a number leaves in the struct is the number     *)
(* modulo SizeMod.  Of an answer only the status and its lengths are kept. *)
(***************************************************************************)
EXTENDS Integers

CONSTANTS
  SizeMod,     \* SIZE_MAX + 1
  Numbers,     \* what clients write in a range
  Sizes,       \* st_size of the files asked for
  MaxHeaders   \* bound: Range headers in one request

NoNumber == -1

ASSUME MhttpRangeAssumption ==
  /\ SizeMod \in Nat /\ SizeMod > 1
  /\ Numbers \subseteq Nat
  /\ Sizes \subseteq 0 .. SizeMod - 2
  /\ MaxHeaders \in Nat

VARIABLES
  range,   \* rctx->range
  phase,   \* "headers" (mhttp_req_parse), "answered" or "closed" (after a 400)
  resp,    \* the answer: its status, Content-Length, Content-Range and file
  asked,   \* history: the last Range header of this request
  count    \* history: how many Range headers it has had

rangevars == <<range, phase, resp, asked, count>>

SIZE_MAX == SizeMod - 1
Specs    == SUBSET {"LOW", "HIGH"}      \* enum mhttp_range_spec
Ranges   == [low : 0 .. SIZE_MAX, high : 0 .. SIZE_MAX, spec : Specs]
Headers  == [bytes : BOOLEAN, dash : BOOLEAN,
             low : Numbers \cup {NoNumber}, high : Numbers \cup {NoNumber}]
NoHeader == [bytes |-> FALSE, dash |-> FALSE, low |-> NoNumber, high |-> NoNumber]

Wrap(n) == n % SizeMod

-----------------------------------------------------------------------------
\* The part of mhttp_req_reset that is about ranges.
ResetRange == [low |-> 0, high |-> SIZE_MAX, spec |-> {}]

\* mhttp_parse_range: bounds the header does not have keep their values.
Malformed(h) == ~h.bytes \/ ~h.dash
Given(h)     == {b \in {"LOW", "HIGH"} : IF b = "LOW" THEN h.low # NoNumber ELSE h.high # NoNumber}
mhttp_parse_range(h, r) ==
  [low  |-> IF "LOW"  \in Given(h) THEN Wrap(h.low)  ELSE r.low,
   high |-> IF "HIGH" \in Given(h) THEN Wrap(h.high) ELSE r.high,
   spec |-> Given(h)]

\* "Invalid range -> ignored", and the inclusive bound made exclusive.
CheckedSpec(r)   == IF r.low > r.high THEN {} ELSE r.spec
ExclusiveHigh(r) == Wrap(r.high + 1)

Clamped(high, size) == IF high > size THEN size ELSE high

\* The range that is sent, and what rctx->range is after it, for a low bound
\* within the file: incomplete specifications are completed.
Completed(r, size) ==
  LET spec == CheckedSpec(r)
      high == Clamped(ExclusiveHigh(r), size)
  IN  CASE "LOW"  \notin spec -> [low |-> Wrap(size - high), high |-> size, spec |-> spec]
        [] "HIGH" \notin spec -> [low |-> r.low, high |-> size, spec |-> spec]
        [] OTHER              -> [low |-> r.low, high |-> high, spec |-> spec]

NoAnswer == [status |-> 0, length |-> 0, first |-> 0, last |-> 0, size |-> 0]
Answer200(size) ==
  [status |-> 200, length |-> size, first |-> 0, last |-> Wrap(size - 1), size |-> size]
Answer206(r, size) ==
  [status |-> 206, length |-> Wrap(r.high - r.low),
   first |-> r.low, last |-> Wrap(r.high - 1), size |-> size]
Answer416(size) == [NoAnswer EXCEPT !.status = 416, !.size = size]

-----------------------------------------------------------------------------
RangeInit ==
  /\ range = ResetRange
  /\ phase = "headers"
  /\ resp = NoAnswer
  /\ asked = NoHeader /\ count = 0

\* mhttp_req_parse meets a Range header; a malformed one is answered 400, and
\* the connection closed.  Where it is the dash that is missing, the number before
\* it has been taken.
RangeHeader(h) ==
  /\ phase = "headers" /\ count < MaxHeaders
  /\ count' = count + 1 /\ asked' = h
  /\ \/ /\ Malformed(h)
        /\ phase' = "closed"
        /\ resp' = [NoAnswer EXCEPT !.status = 400]
        /\ range' = IF h.bytes THEN mhttp_parse_range([h EXCEPT !.high = NoNumber], range)
                               ELSE range
     \/ /\ ~Malformed(h)
        /\ range' = mhttp_parse_range(h, range)
        /\ UNCHANGED <<phase, resp>>

\* resp_get finds a regular file of the given size.
Serve(size) ==
  /\ phase = "headers"
  /\ phase' = "answered"
  /\ \/ /\ CheckedSpec(range) = {}
        /\ range' = [range EXCEPT !.high = ExclusiveHigh(range), !.spec = {}]
        /\ resp' = Answer200(size)
     \/ /\ CheckedSpec(range) # {} /\ range.low >= size
        /\ range' = [range EXCEPT !.high = Clamped(ExclusiveHigh(range), size)]
        /\ resp' = Answer416(size)
     \/ /\ CheckedSpec(range) # {} /\ range.low < size
        /\ range' = Completed(range, size)
        /\ resp' = Answer206(range', size)
  /\ UNCHANGED <<asked, count>>

\* Seeded fault: the range of the last request is kept.
NextRequestKeeps ==
  /\ phase = "answered"
  /\ phase' = "headers"
  /\ resp' = NoAnswer /\ asked' = NoHeader /\ count' = 0
  /\ UNCHANGED range
\* conn_terminate resets the request for the next one of the connection.
NextRequest ==
  /\ phase = "answered"
  /\ range' = ResetRange
  /\ phase' = "headers"
  /\ resp' = NoAnswer /\ asked' = NoHeader /\ count' = 0

RangeClosed == phase = "closed" /\ UNCHANGED rangevars

RangeNext ==
  \/ \E h \in Headers : RangeHeader(h)
  \/ \E size \in Sizes : Serve(size)
  \/ NextRequest
  \/ RangeClosed

RangeSpec == RangeInit /\ [][RangeNext]_rangevars

-----------------------------------------------------------------------------
(* What must hold. *)

RangeTypes ==
  /\ range \in Ranges
  /\ phase \in {"headers", "answered", "closed"}
  /\ resp \in [status : {0, 200, 206, 400, 416}, length : 0 .. SIZE_MAX,
               first : 0 .. SIZE_MAX, last : 0 .. SIZE_MAX, size : 0 .. SIZE_MAX]
  /\ asked \in Headers \cup {NoHeader} /\ count \in 0 .. MaxHeaders

\* An upper bound of SIZE_MAX is the one that the increment turns to 0.
\* It is also how an absent one is stored.
Tops(h) == "HIGH" \in Given(h) /\ Wrap(h.high) = SIZE_MAX

\* What a 206 announces lies in the file: the last byte is the Content-Length
\* after the first and before the end, whatever headers the request had before
\* the last one, unless the upper bound is SIZE_MAX.
PartInsideFile ==
  resp.status = 206 /\ ~Tops(asked) =>
    /\ resp.length > 0
    /\ resp.first + resp.length <= resp.size
    /\ resp.last = resp.first + resp.length - 1

\* The bytes a header asks for of a file; a suffix asks for the last of it.
Wanted(h, size) ==
  CASE Given(h) = {"HIGH"} -> {n \in 0 .. size - 1 : n >= size - h.high}
    [] Given(h) = {"LOW"}  -> h.low .. size - 1
    [] OTHER               -> {n \in h.low .. size - 1 : n <= h.high}
Representable(h) == h.low <= SIZE_MAX /\ h.high < SIZE_MAX
Sent == resp.first .. resp.first + resp.length - 1

\* With one header, and one that has a lower bound, the bytes of a 206 are the
\* ones asked for, through the change from inclusive to exclusive and back.
PartAsAsked ==
  resp.status = 206 /\ count = 1 /\ Representable(asked) /\ "LOW" \in Given(asked)
    => Sent = Wanted(asked, resp.size)

\* No range of an earlier request of the connection shows in the answer to a
\* request without one: it is answered with all of the file.
WholeWithoutRange ==
  phase = "answered" /\ count = 0 => resp.status = 200 /\ resp.length = resp.size

\* The bytes that are sent are in the file and are the ones that this request,
\* and not an earlier one, asked for.
RangeServed == RangeTypes /\ PartInsideFile /\ PartAsAsked /\ WholeWithoutRange
=============================================================================
