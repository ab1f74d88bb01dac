------------------------------ MODULE ReqCheck ------------------------------
(***************************************************************************)
(* The search for the end of a request's header: mhttp_req_check of        *)
(* src/mhttp_req.c, called by req_recv_headers after every read with the   *)
(* length rxbuf had before it, and by conn_terminate on what is left of    *)
(* rxbuf for the next request.                                             *)
(*                                                                         *)
(* A header ends at a line feed that follows another one directly or with  *)
(* one byte (a carriage return) between them.  Only the new bytes and the  *)
(* two before them are searched.                                           *)
(*                                                                         *)
(* Abstractions: a byte is a line feed or another byte; what the request   *)
(* asks for is left out, and every answer keeps the connection (HttpConn   *)
(* has the others, with whole requests instead of bytes).                  *)
(***************************************************************************)
EXTENDS Integers, Sequences

CONSTANTS
  RxLen,     \* config.rx_buflen
  MaxBytes   \* bound: how many bytes a client sends

ASSUME ReqCheckAssumption == RxLen \in Nat \ {0} /\ MaxBytes \in Nat

Byte == {"LF", "other", "NUL"}

VARIABLES
  buf,      \* rxbuf: the bytes from base to base + end
  off,      \* rxbuf.off
  cb,       \* the callback of the connection
  stream,   \* history: every byte received
  base,     \* history: the place of buf in stream
  merged    \* history: a read went into rxbuf behind a complete header

vars == <<buf, off, cb, stream, base, merged>>

Min2(a, b) == IF a < b THEN a ELSE b

-----------------------------------------------------------------------------
(* mhttp_req_check.  Positions count from 1, offsets from 0. *)

IsLF(b, n) == n \in 1 .. Len(b) /\ b[n] = "LF"

\* lf1 and lf2: two line feeds behind offset with none between them.  The loop
\* visits every such pair, in order.
LinePair(b, offset, lf1, lf2) ==
  /\ offset < lf1 /\ lf1 < lf2
  /\ IsLF(b, lf1) /\ IsLF(b, lf2)
  /\ \A n \in lf1 + 1 .. lf2 - 1 : ~IsLF(b, n)

\* Seeded fault: two line feeds have nothing between them.
CloseTogether(lf1, lf2) == lf2 - lf1 < 2
EndOfHeader(lf1, lf2)   == lf2 - lf1 < 3

\* "As we can recv bytes individually, we must check some previous bytes as well".
\* Seeded fault: one byte is taken for enough.
LookBackOne(offset) == offset - Min2(offset, 1)
LookBack(offset)    == offset - Min2(offset, 2)

HeaderEnds(b, offset) ==
  {lf2 \in 1 .. Len(b) :
     \E lf1 \in 1 .. Len(b) : LinePair(b, LookBack(offset), lf1, lf2) /\ EndOfHeader(lf1, lf2)}

mhttp_req_check(b, offset) == HeaderEnds(b, offset) # {}
\* Seeded fault: a position behind the terminator.
ChkptrTooFar(b, offset) ==
  1 + CHOOSE n \in HeaderEnds(b, offset) : \A m \in HeaderEnds(b, offset) : n <= m
\* The first of them.
chkptr(b, offset) ==
  CHOOSE n \in HeaderEnds(b, offset) : \A m \in HeaderEnds(b, offset) : n <= m

\* The line feed found becomes a null byte and rxbuf.off is put behind it.
Terminated(b, offset) == [b EXCEPT ![chkptr(b, offset)] = "NUL"]

-----------------------------------------------------------------------------
(* The connection. *)

Init ==
  /\ buf = <<>> /\ off = 0 /\ cb = "req_recv_headers"
  /\ stream = <<>> /\ base = 0 /\ merged = FALSE

\* req_recv_headers with data read from the socket, up to the room there is.
req_recv_headers(bytes) ==
  /\ cb = "req_recv_headers"
  /\ Len(bytes) \in 1 .. RxLen - Len(buf)
  /\ LET b == buf \o bytes
     IN  \/ /\ mhttp_req_check(b, Len(buf))
            /\ buf' = Terminated(b, Len(buf)) /\ off' = chkptr(b, Len(buf))
            /\ cb' = "req_read_headers"
         \/ /\ ~mhttp_req_check(b, Len(buf))
            /\ buf' = b /\ UNCHANGED off
            /\ cb' = IF Len(b) >= RxLen THEN "closed" ELSE cb     \* 431
  /\ stream' = stream \o bytes
  /\ merged' = (merged \/ off > 0)
  /\ UNCHANGED base

Bytes == UNION {[1 .. n -> {"LF", "other"}] : n \in 1 .. RxLen}
Receive ==
  \E bytes \in Bytes : Len(stream) + Len(bytes) <= MaxBytes /\ req_recv_headers(bytes)

\* No data: the end of the stream, EAGAIN for a header found by conn_terminate, or
\* no room to read into.
ReceiveEnds ==
  /\ cb = "req_recv_headers"
  /\ cb' = "closed"
  /\ UNCHANGED <<buf, off, stream, base, merged>>

\* The request is answered: mig_buf_shift, and mhttp_req_check of what is left.
conn_terminate ==
  /\ cb = "req_read_headers"
  /\ LET b == SubSeq(buf, off + 1, Len(buf))
     IN  \/ /\ mhttp_req_check(b, 0)
            /\ buf' = Terminated(b, 0) /\ off' = chkptr(b, 0)
         \/ /\ ~mhttp_req_check(b, 0)
            /\ buf' = b /\ off' = 0
  /\ cb' = "req_recv_headers"
  /\ base' = base + off
  /\ UNCHANGED <<stream, merged>>

Closed == cb = "closed" /\ UNCHANGED vars

Next == Receive \/ ReceiveEnds \/ conn_terminate \/ Closed

Spec == Init /\ [][Next]_vars

-----------------------------------------------------------------------------
(* What must hold. *)

TypeOK ==
  /\ buf \in Seq(Byte) /\ Len(buf) <= RxLen /\ off \in 0 .. Len(buf)
  /\ cb \in {"req_recv_headers", "req_read_headers", "closed"}
  /\ stream \in Seq({"LF", "other"}) /\ base \in 0 .. Len(stream) /\ merged \in BOOLEAN

\* The reference: some line feed at most two bytes before this one.
Ends(b, n) == IsLF(b, n) /\ (IsLF(b, n - 1) \/ IsLF(b, n - 2))

\* Searching only new bytes and two more misses nothing: as long as the
\* connection waits for a header's end, rxbuf holds none, however the bytes of
\* the stream were cut into reads.
NoneUnseen == cb = "req_recv_headers" /\ off = 0 => \A n \in 1 .. Len(buf) : ~Ends(buf, n)

\* The bytes taken for a header are those up to the first end of one in the
\* stream: where a request ends does not depend on the reads either.  (Not so
\* once a read was made behind a complete header that conn_terminate had found.)
Received == SubSeq(stream, base + 1, Len(stream))
SplitAtFirstEnd ==
  cb = "req_read_headers" /\ ~merged =>
    /\ Ends(Received, off)
    /\ \A n \in 1 .. off - 1 : ~Ends(Received, n)
=============================================================================
