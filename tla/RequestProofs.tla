--------------------------- MODULE RequestProofs ----------------------------
(***************************************************************************)
(* Proofs about ReqCheck, ReqParse and MhttpRange.                         *)
(*                                                                         *)
(* The incremental search of mhttp_req_check is a full search, for every   *)
(* length of rxbuf and every way to cut a stream into reads.  The core is  *)
(* SearchIsFull, about the operator alone: two bytes of look-back are      *)
(* enough because a pair of line feeds that the previous call could not    *)
(* see ends in the new bytes and begins at most two before them.           *)
(*                                                                         *)
(* mhttp_req_parse understands every header whose request line is          *)
(* well-formed, of any lines and any number of them.  The header is put    *)
(* together by a recursion on its lines, so what is where in rxbuf is      *)
(* shown by induction (HeaderGrows); the rest is about the k-th line: when *)
(* k lines have been read, the parser stands at the end of the k-th, and   *)
(* the request holds what these k lines say (Read).                        *)
(*                                                                         *)
(* For every width of size_t, every number that a client writes and every  *)
(* size of a file, what a 206 announces lies in the file and is what the   *)
(* request asked for.                                                      *)
(***************************************************************************)
EXTENDS ReqCheck, ReqParse, MhttpRange, SequenceTheorems, Induction, TLAPS

-----------------------------------------------------------------------------
(* The search for the end of a header. *)

AllEnds(b) == {n \in 1 .. Len(b) : Ends(b, n)}

\* A call that covers the new bytes of b finds exactly the ends there are, if
\* there were none in the old ones.
LEMMA SearchIsFull ==
  ASSUME NEW b \in Seq(Byte), NEW offset \in 0 .. Len(b),
         \A n \in 1 .. offset : ~Ends(b, n)
  PROVE  HeaderEnds(b, offset) = AllEnds(b)
<1> DEFINE start == LookBack(offset)
<1>1. Len(b) \in Nat
  BY LenProperties
<1>2. start \in Nat /\ start <= offset /\ (start = 0 \/ start = offset - 2)
  BY <1>1 DEF LookBack, Min2
<1> HIDE DEF start
<1>3. ASSUME NEW n \in HeaderEnds(b, offset) PROVE n \in AllEnds(b)
  <2>1. PICK lf1 \in 1 .. Len(b) : LinePair(b, start, lf1, n) /\ EndOfHeader(lf1, n)
    BY <1>3 DEF HeaderEnds, start
  <2>2. n \in 1 .. Len(b)
    BY <1>3 DEF HeaderEnds
  <2>3. lf1 = n - 1 \/ lf1 = n - 2
    BY <1>1, <2>1, <2>2 DEF LinePair, EndOfHeader
  <2> QED  BY <2>1, <2>2, <2>3 DEF LinePair, Ends, AllEnds
<1>4. ASSUME NEW n \in AllEnds(b) PROVE n \in HeaderEnds(b, offset)
  <2>1. n \in 1 .. Len(b) /\ IsLF(b, n) /\ (IsLF(b, n - 1) \/ IsLF(b, n - 2)) /\ n > offset
    BY <1>1, <1>4 DEF AllEnds, Ends
  <2>2. PICK lf1 \in {n - 1, n - 2} : IsLF(b, lf1) /\ (lf1 = n - 2 => ~IsLF(b, n - 1))
    BY <2>1
  <2>3. lf1 \in 1 .. Len(b) /\ start < lf1 /\ lf1 < n /\ n - lf1 < 3
    BY <1>1, <1>2, <2>1, <2>2 DEF IsLF
  <2>4. ASSUME NEW m \in lf1 + 1 .. n - 1 PROVE ~IsLF(b, m)
    <3>1. lf1 = n - 2 /\ m = n - 1
      BY <1>1, <2>1, <2>2, <2>3
    <3> QED  BY <2>2, <3>1
  <2>5. LinePair(b, start, lf1, n) /\ EndOfHeader(lf1, n)
    BY <2>1, <2>2, <2>3, <2>4 DEF LinePair, EndOfHeader
  <2> QED  BY <2>1, <2>3, <2>5 DEF HeaderEnds, start
<1> QED  BY <1>3, <1>4

\* The positions on either side of the first end p, when none was found before.
LEMMA AroundTheEnd ==
  ASSUME NEW l \in Nat, NEW p \in Nat, p > 0, p <= l
  PROVE  /\ \A n \in p + 1 .. l : n \in 0 + 1 .. l /\ n # p /\ n \in 1 .. l
         /\ \A n \in 1 .. p - 1 : n \in 1 .. l /\ ~(p <= n)
  OBVIOUS

\* Of the ends that are found the first one is taken.
LEMMA FirstIsTaken ==
  ASSUME NEW b, NEW offset, mhttp_req_check(b, offset)
  PROVE  /\ chkptr(b, offset) \in HeaderEnds(b, offset) /\ chkptr(b, offset) \in 1 .. Len(b)
         /\ \A m \in HeaderEnds(b, offset) : chkptr(b, offset) <= m
<1> DEFINE E == HeaderEnds(b, offset)
<1>1. E \subseteq Nat /\ E \subseteq 1 .. Len(b) /\ E # {}
  BY DEF mhttp_req_check, HeaderEnds
<1> HIDE DEF E
<1>2. PICK x \in E : \A y \in E : ~(<<y, x>> \in OpToRel(<, Nat))
  BY <1>1, NatLessThanWellFounded, WFMin, Zenon
<1>3. \A y \in E : x <= y
  <2> SUFFICES ASSUME NEW y \in E, y < x PROVE FALSE
    BY <1>1
  <2> QED  BY <1>1, <1>2 DEF OpToRel
<1>4. \E n \in E : \A m \in E : n <= m
  BY <1>3
<1>5. chkptr(b, offset) = CHOOSE n \in E : \A m \in E : n <= m
  BY DEF chkptr, E
<1> QED  BY <1>1, <1>4, <1>5 DEF E

-----------------------------------------------------------------------------
(* The invariant. *)

\* What is behind rxbuf.off is what came in last, in place; rxbuf.off is behind
\* the terminator of a header from its find to its answer.
InPlace ==
  \A n \in off + 1 .. Len(buf) : buf[n] = stream[base + n]

CheckInv ==
  /\ TypeOK
  /\ Len(buf) = Len(stream) - base
  /\ ~merged => InPlace
  /\ cb = "req_read_headers" => off > 0
  /\ NoneUnseen
  /\ SplitAtFirstEnd

\* A new connection satisfies the invariant.
LEMMA InitCheckInv == Init => CheckInv
<1> SUFFICES ASSUME Init PROVE CheckInv
  OBVIOUS
<1>1. <<>> \in Seq(Byte) /\ <<>> \in Seq({"LF", "other"}) /\ Len(<<>>) = 0
  BY EmptySeq
<1>2. /\ buf = <<>> /\ stream = <<>> /\ off = 0 /\ base = 0
      /\ cb = "req_recv_headers" /\ merged = FALSE
  BY DEF Init
<1>3. TypeOK
  <2>1. buf \in Seq(Byte) /\ stream \in Seq({"LF", "other"})
    BY <1>1, <1>2
  <2>2. Len(buf) = 0 /\ Len(stream) = 0
    BY <1>1, <1>2
  <2>3. Len(buf) <= RxLen /\ off \in 0 .. Len(buf) /\ base \in 0 .. Len(stream)
    BY <1>2, <2>2, ReqCheckAssumption
  <2>4. merged \in BOOLEAN /\ cb \in {"req_recv_headers", "req_read_headers", "closed"}
    BY <1>2
  <2> QED  BY <2>1, <2>3, <2>4 DEF TypeOK
<1>4. InPlace /\ NoneUnseen /\ SplitAtFirstEnd
  BY <1>1, <1>2 DEF InPlace, NoneUnseen, SplitAtFirstEnd
<1> QED  BY <1>1, <1>2, <1>3, <1>4 DEF CheckInv

\* The terminated buffer keeps its type and length, and its tail.
LEMMA TerminatedFits ==
  ASSUME NEW b \in Seq(Byte), NEW offset, mhttp_req_check(b, offset)
  PROVE  /\ chkptr(b, offset) \in 1 .. Len(b)
         /\ Terminated(b, offset) \in Seq(Byte) /\ Len(Terminated(b, offset)) = Len(b)
         /\ \A n \in 1 .. Len(b) : n # chkptr(b, offset) => Terminated(b, offset)[n] = b[n]
<1> DEFINE c == chkptr(b, offset)
<1>1. c \in 1 .. Len(b)
  BY FirstIsTaken
<1> HIDE DEF c
<1>2. "NUL" \in Byte /\ Terminated(b, offset) = [b EXCEPT ![c] = "NUL"]
  BY DEF Byte, Terminated, c
<1> QED  BY <1>1, <1>2, ExceptSeq DEF c

\* The bytes of rxbuf's tail, moved to its front.
LEMMA Shifted ==
  ASSUME NEW b \in Seq(Byte), NEW o \in 0 .. Len(b)
  PROVE  /\ SubSeq(b, o + 1, Len(b)) \in Seq(Byte)
         /\ Len(SubSeq(b, o + 1, Len(b))) = Len(b) - o
         /\ \A n \in 1 .. Len(b) - o : SubSeq(b, o + 1, Len(b))[n] = b[o + n]
<1>1. Len(b) \in Nat
  BY LenProperties
<1>2. \A k \in o + 1 .. Len(b) : b[k] \in Byte
  BY <1>1, ElementOfSeq
<1>3. /\ SubSeq(b, o + 1, Len(b)) \in Seq(Byte)
      /\ Len(SubSeq(b, o + 1, Len(b))) = IF o + 1 <= Len(b) THEN Len(b) - (o + 1) + 1 ELSE 0
      /\ \A n \in 1 .. Len(b) - (o + 1) + 1 : SubSeq(b, o + 1, Len(b))[n] = b[o + 1 + n - 1]
  BY <1>1, <1>2, SubSeqProperties
<1>4. \A n \in 1 .. Len(b) - o : n \in 1 .. Len(b) - (o + 1) + 1 /\ o + 1 + n - 1 = o + n
  BY <1>1
<1> QED  BY <1>1, <1>3, <1>4

\* Received, byte by byte.
LEMMA ReceivedBytes ==
  ASSUME NEW s \in Seq({"LF", "other"}), NEW p \in 0 .. Len(s)
  PROVE  /\ Len(SubSeq(s, p + 1, Len(s))) = Len(s) - p
         /\ \A n \in 1 .. Len(s) - p : SubSeq(s, p + 1, Len(s))[n] = s[p + n]
<1>1. s \in Seq(Byte)
  BY SeqMonotonic DEF Byte
<1> QED  BY <1>1, Shifted

\* Two buffers that agree have the same ends.
LEMMA SameEnds ==
  ASSUME NEW b, NEW c, NEW k \in Nat, k <= Len(b), k <= Len(c), Len(b) \in Nat, Len(c) \in Nat,
         \A n \in 1 .. k : b[n] = c[n]
  PROVE  \A n \in 1 .. k : Ends(b, n) <=> Ends(c, n)
<1> SUFFICES ASSUME NEW n \in 1 .. k PROVE Ends(b, n) <=> Ends(c, n)
  OBVIOUS
<1>1. \A m \in {n, n - 1, n - 2} : IsLF(b, m) <=> IsLF(c, m)
  BY DEF IsLF
<1> QED  BY <1>1 DEF Ends

-----------------------------------------------------------------------------
(* The steps. *)

\* What a concatenation has at each position, without a case distinction.
LEMMA ConcatParts ==
  ASSUME NEW S, NEW s \in Seq(S), NEW t \in Seq(S), NEW c, c = s \o t
  PROVE  /\ c \in Seq(S) /\ Len(c) = Len(s) + Len(t)
         /\ \A n \in 1 .. Len(s) : c[n] = s[n]
         /\ \A n \in 1 .. Len(t) : c[Len(s) + n] = t[n]
<1>1. /\ c \in Seq(S) /\ Len(c) = Len(s) + Len(t)
      /\ \A i \in 1 .. Len(s) + Len(t) :
           c[i] = IF i <= Len(s) THEN s[i] ELSE t[i - Len(s)]
  BY ConcatProperties
<1>2. Len(s) \in Nat /\ Len(t) \in Nat
  BY LenProperties
<1>3. ASSUME NEW n \in 1 .. Len(s) PROVE c[n] = s[n]
  BY <1>1, <1>2
<1>4. ASSUME NEW n \in 1 .. Len(t) PROVE c[Len(s) + n] = t[n]
  <2>1. Len(s) + n \in 1 .. Len(s) + Len(t) /\ ~(Len(s) + n <= Len(s)) /\ Len(s) + n - Len(s) = n
    BY <1>2
  <2> QED  BY <1>1, <2>1
<1> QED  BY <1>1, <1>3, <1>4

\* A read that goes where no header is complete yet: the buffer holds the bytes
\* received, and the search finds their first end.
LEMMA StepReceive ==
  ASSUME CheckInv, NEW bytes \in Seq({"LF", "other"}), req_recv_headers(bytes)
  PROVE  CheckInv'
<1> DEFINE b == buf \o bytes
           o == Len(buf)
           all == SubSeq(stream', base + 1, Len(stream'))
<1>1. /\ buf \in Seq(Byte) /\ bytes \in Seq(Byte)
      /\ stream \in Seq({"LF", "other"})
      /\ o \in Nat /\ Len(bytes) \in Nat /\ Len(stream) \in Nat /\ RxLen \in Nat
      /\ base \in Nat /\ base <= Len(stream) /\ off \in 0 .. o
      /\ cb = "req_recv_headers" /\ o = Len(stream) - base
  BY ReqCheckAssumption, LenProperties, SeqMonotonic DEF CheckInv, TypeOK, Byte, req_recv_headers
<1>2. /\ b \in Seq(Byte) /\ Len(b) = o + Len(bytes) /\ Len(b) <= RxLen
      /\ \A n \in 1 .. o : b[n] = buf[n]
      /\ \A n \in 1 .. Len(bytes) : b[o + n] = bytes[n]
  <2>0. buf \in Seq(Byte) /\ bytes \in Seq(Byte) /\ b = buf \o bytes /\ Len(buf) = o
    BY <1>1
  <2> HIDE DEF b, o
  <2>1. /\ b \in Seq(Byte) /\ Len(b) = o + Len(bytes)
        /\ \A n \in 1 .. o : b[n] = buf[n]
        /\ \A n \in 1 .. Len(bytes) : b[o + n] = bytes[n]
    <3>1. /\ b \in Seq(Byte) /\ Len(b) = Len(buf) + Len(bytes)
          /\ \A n \in 1 .. Len(buf) : b[n] = buf[n]
          /\ \A n \in 1 .. Len(bytes) : b[Len(buf) + n] = bytes[n]
      BY <2>0, ConcatParts
    <3> QED  BY <2>0, <3>1, Zenon
  <2>2. Len(bytes) \in 1 .. RxLen - o
    BY DEF req_recv_headers, o
  <2>3. o + Len(bytes) <= RxLen
    BY <1>1, <2>2
  <2> QED  BY <2>1, <2>3
<1>3. /\ stream' \in Seq({"LF", "other"}) /\ Len(stream') = Len(stream) + Len(bytes)
      /\ \A n \in 1 .. Len(stream) : stream'[n] = stream[n]
      /\ \A n \in 1 .. Len(bytes) : stream'[Len(stream) + n] = bytes[n]
  <2>1. stream' = stream \o bytes /\ bytes \in Seq({"LF", "other"})
    BY DEF req_recv_headers
  <2> QED  BY <1>1, <2>1, ConcatParts
<1>4. /\ base' = base /\ merged' = (merged \/ off > 0)
      /\ \/ /\ mhttp_req_check(b, o)
            /\ buf' = Terminated(b, o) /\ off' = chkptr(b, o) /\ cb' = "req_read_headers"
         \/ /\ ~mhttp_req_check(b, o)
            /\ buf' = b /\ off' = off /\ cb' \in {"closed", "req_recv_headers"}
  BY <1>1 DEF req_recv_headers
<1>5. merged' \in BOOLEAN
  BY <1>4 DEF CheckInv, TypeOK
<1>6. Len(b) = Len(stream') - base' /\ base' \in 0 .. Len(stream')
  BY <1>1, <1>2, <1>3, <1>4
<1>7. ~merged => \A n \in off + 1 .. Len(b) : b[n] = stream'[base + n]
  <2> SUFFICES ASSUME ~merged, NEW n \in off + 1 .. Len(b) PROVE b[n] = stream'[base + n]
    OBVIOUS
  <2> HIDE DEF b, o
  <2>1. CASE n <= o
    <3>1. n \in 1 .. o /\ n \in off + 1 .. o /\ base + n \in 1 .. Len(stream)
      BY <1>1, <2>1
    <3>2. buf[n] = stream[base + n]
      BY <3>1 DEF CheckInv, InPlace, o
    <3> QED  BY <1>2, <1>3, <3>1, <3>2
  <2>2. CASE n > o
    <3> DEFINE k == n - o
    <3>1. k \in 1 .. Len(bytes) /\ n = o + k /\ base + n = Len(stream) + k
      BY <1>1, <1>2, <2>2
    <3> HIDE DEF k
    <3>2. b[o + k] = bytes[k] /\ stream'[Len(stream) + k] = bytes[k]
      BY <1>2, <1>3, <3>1
    <3> QED  BY <3>1, <3>2
  <2>3. n <= o \/ n > o
    BY <1>1
  <2> QED  BY <2>1, <2>2, <2>3
<1>8. off = 0 => HeaderEnds(b, o) = AllEnds(b)
  <2> SUFFICES ASSUME off = 0 PROVE HeaderEnds(b, o) = AllEnds(b)
    OBVIOUS
  <2>1. \A n \in 1 .. o : ~Ends(buf, n)
    BY <1>1 DEF CheckInv, NoneUnseen
  <2>2. \A n \in 1 .. o : b[n] = buf[n]
    BY <1>1, <1>2
  <2> HIDE DEF b
  <2>3. o \in 0 .. Len(b) /\ o \in Nat /\ o <= Len(b) /\ o <= Len(buf) /\ Len(b) \in Nat /\ Len(buf) \in Nat
    BY <1>1, <1>2
  <2>4. \A n \in 1 .. o : Ends(b, n) <=> Ends(buf, n)
    <3> HIDE DEF o
    <3> QED  BY <2>2, <2>3, SameEnds
  <2> QED  BY <1>2, <2>1, <2>3, <2>4, SearchIsFull
<1>9. Len(all) = Len(b) /\ \A n \in 1 .. Len(b) : all[n] = stream'[base + n]
  BY <1>3, <1>4, <1>6, ReceivedBytes
<1>10. all = Received'
  BY <1>4 DEF Received
<1> HIDE DEF b, o, all
<1>11. CASE /\ mhttp_req_check(b, o)
            /\ buf' = Terminated(b, o) /\ off' = chkptr(b, o) /\ cb' = "req_read_headers"
  <2>1. /\ off' \in 1 .. Len(b) /\ buf' \in Seq(Byte) /\ Len(buf') = Len(b)
        /\ \A n \in 1 .. Len(b) : n # off' => buf'[n] = b[n]
    BY <1>2, <1>11, TerminatedFits
  <2>2. TypeOK'
    <3>1. Len(buf') <= RxLen /\ off' \in 0 .. Len(buf')
      BY <1>1, <1>2, <2>1
    <3> QED  BY <1>3, <1>5, <1>6, <1>11, <2>1, <3>1 DEF TypeOK
  <2>3. ~merged' => off = 0 /\ ~merged
    <3>1. ~merged' => ~(off > 0) /\ ~merged
      BY <1>4, Zenon
    <3> QED  BY <1>1, <3>1
  <2>4. Len(b) \in Nat /\ off' \in Nat /\ off' > 0 /\ off' <= Len(b) /\ Len(buf') = Len(b)
    BY <1>1, <1>2, <2>1
  <2>5. /\ \A n \in off' + 1 .. Len(b) : n \in 0 + 1 .. Len(b) /\ n # off' /\ n \in 1 .. Len(b)
        /\ \A n \in 1 .. off' - 1 : n \in 1 .. Len(b) /\ ~(off' <= n)
    BY <2>4, AroundTheEnd, Zenon
  <2>6. ~merged' => InPlace'
    <3> SUFFICES ASSUME ~merged', NEW n \in off' + 1 .. Len(buf') PROVE buf'[n] = stream'[base' + n]
      BY DEF InPlace
    <3>1. n \in 0 + 1 .. Len(b) /\ n # off' /\ n \in 1 .. Len(b)
      BY <2>4, <2>5, Zenon
    <3>2. off = 0 /\ ~merged
      BY <2>3, Zenon
    <3> QED  BY <1>4, <1>7, <2>1, <3>1, <3>2
  <2>7. ~merged' => Ends(Received', off') /\ \A n \in 1 .. off' - 1 : ~Ends(Received', n)
    <3> SUFFICES ASSUME ~merged'
                 PROVE  Ends(all, off') /\ \A n \in 1 .. off' - 1 : ~Ends(all, n)
      BY <1>10
    <3>1. \A n \in 1 .. Len(b) : Ends(all, n) <=> Ends(b, n)
      <4>1. \A n \in 1 .. Len(b) : all[n] = b[n]
        BY <1>7, <1>9, <2>3
      <4>2. Len(b) \in Nat /\ Len(all) \in Nat /\ Len(b) <= Len(b) /\ Len(b) <= Len(all)
        BY <1>1, <1>2, <1>9
      <4> QED  BY <4>1, <4>2, SameEnds
    <3>2. off' \in AllEnds(b) /\ \A m \in AllEnds(b) : off' <= m
      BY <1>8, <1>11, <2>3, FirstIsTaken
    <3>3. \A n \in 1 .. off' - 1 : n \in 1 .. Len(b) /\ n \notin AllEnds(b)
      BY <2>5, <3>2
    <3> QED  BY <2>1, <3>1, <3>2, <3>3 DEF AllEnds
  <2>8. NoneUnseen' /\ SplitAtFirstEnd'
    BY <1>11, <2>7 DEF NoneUnseen, SplitAtFirstEnd
  <2>9. Len(buf') = Len(stream') - base' /\ off' > 0
    BY <1>2, <1>6, <2>1
  <2> QED  BY <2>2, <2>6, <2>8, <2>9 DEF CheckInv
<1>12. CASE /\ ~mhttp_req_check(b, o)
            /\ buf' = b /\ off' = off /\ cb' \in {"closed", "req_recv_headers"}
  <2>1. TypeOK'
    <3>1. buf' \in Seq(Byte) /\ Len(buf') <= RxLen
      BY <1>2, <1>12
    <3>2. off' \in 0 .. Len(buf')
      BY <1>1, <1>2, <1>12
    <3>3. cb' \in {"req_recv_headers", "req_read_headers", "closed"}
      BY <1>12
    <3> QED  BY <1>3, <1>5, <1>6, <3>1, <3>2, <3>3 DEF TypeOK
  <2>2. ~merged' => InPlace'
    <3>1. ~merged' => ~merged
      BY <1>4
    <3> QED  BY <1>4, <1>7, <1>12, <3>1 DEF InPlace
  <2>3. NoneUnseen'
    <3> SUFFICES ASSUME off = 0, NEW n \in 1 .. Len(b) PROVE ~Ends(b, n)
      BY <1>12 DEF NoneUnseen
    <3> QED  BY <1>8, <1>12 DEF mhttp_req_check, AllEnds
  <2> QED  BY <1>6, <1>12, <2>1, <2>2, <2>3 DEF CheckInv, SplitAtFirstEnd
<1> QED  BY <1>4, <1>11, <1>12 DEF b, o

\* A place behind another one is not it.
LEMMA BehindIt ==
  ASSUME NEW o \in Nat, o >= 1, NEW l \in Nat, NEW n \in o + 1 .. l
  PROVE  n # o /\ n \in 1 .. l
  OBVIOUS

\* The next header is searched for from its first byte.
LEMMA StepTerminate == CheckInv /\ conn_terminate => CheckInv'
<1> SUFFICES ASSUME CheckInv, conn_terminate PROVE CheckInv'
  OBVIOUS
<1> DEFINE b == SubSeq(buf, off + 1, Len(buf))
<1>1. /\ buf \in Seq(Byte) /\ Len(buf) \in Nat /\ off \in 0 .. Len(buf) /\ RxLen \in Nat
      /\ Len(stream) \in Nat /\ base \in 0 .. Len(stream) /\ Len(buf) <= RxLen
      /\ Len(buf) = Len(stream) - base /\ stream' = stream /\ merged' = merged
      /\ base' = base + off /\ cb' = "req_recv_headers"
  BY ReqCheckAssumption, LenProperties DEF CheckInv, TypeOK, conn_terminate
<1>2. b \in Seq(Byte) /\ Len(b) = Len(buf) - off /\ \A n \in 1 .. Len(buf) - off : b[n] = buf[off + n]
  BY <1>1, Shifted
<1>3. \/ /\ mhttp_req_check(b, 0)
         /\ buf' = Terminated(b, 0) /\ off' = chkptr(b, 0)
      \/ /\ ~mhttp_req_check(b, 0)
         /\ buf' = b /\ off' = 0
  BY DEF conn_terminate
<1> HIDE DEF b
<1>4. Len(b) = Len(stream') - base' /\ base' \in 0 .. Len(stream') /\ Len(b) <= RxLen /\ Len(b) \in Nat
  BY <1>1, <1>2
<1>5. ~merged => \A n \in 1 .. Len(b) : b[n] = stream'[base' + n]
  <2> SUFFICES ASSUME ~merged, NEW n \in 1 .. Len(b) PROVE b[n] = stream'[base' + n]
    OBVIOUS
  <2>1. off + n \in off + 1 .. Len(buf) /\ base' + n = base + (off + n)
    BY <1>1, <1>2
  <2> QED  BY <1>1, <1>2, <2>1 DEF CheckInv, InPlace
<1>6. CASE mhttp_req_check(b, 0) /\ buf' = Terminated(b, 0) /\ off' = chkptr(b, 0)
  <2>1. /\ off' \in 1 .. Len(b) /\ buf' \in Seq(Byte) /\ Len(buf') = Len(b)
        /\ \A n \in 1 .. Len(b) : n # off' => buf'[n] = b[n]
    BY <1>2, <1>6, TerminatedFits
  <2>2. TypeOK'
    BY <1>1, <1>4, <2>1 DEF CheckInv, TypeOK
  <2>3. ~merged' => InPlace'
    <3> SUFFICES ASSUME ~merged', NEW n \in off' + 1 .. Len(buf') PROVE buf'[n] = stream'[base' + n]
      BY DEF InPlace
    <3>1. n # off' /\ n \in 1 .. Len(b)
      <4>1. off' \in Nat /\ off' >= 1 /\ Len(buf') = Len(b) /\ Len(b) \in Nat
        BY <1>4, <2>1
      <4>2. n \in off' + 1 .. Len(b)
        BY <4>1
      <4> QED  BY <4>1, <4>2, BehindIt
    <3> QED  BY <1>1, <1>5, <2>1, <3>1
  <2> QED  BY <1>1, <1>4, <2>1, <2>2, <2>3 DEF CheckInv, NoneUnseen, SplitAtFirstEnd
<1>7. CASE ~mhttp_req_check(b, 0) /\ buf' = b /\ off' = 0
  <2>1. HeaderEnds(b, 0) = AllEnds(b)
    <3>1. 0 \in 0 .. Len(b) /\ \A n \in 1 .. 0 : ~Ends(b, n)
      BY <1>4
    <3> QED  BY <1>2, <3>1, SearchIsFull
  <2>2. NoneUnseen'
    BY <1>7, <2>1 DEF NoneUnseen, mhttp_req_check, AllEnds
  <2>3. TypeOK'
    BY <1>1, <1>2, <1>4, <1>7 DEF CheckInv, TypeOK
  <2>4. ~merged' => InPlace'
    BY <1>1, <1>5, <1>7 DEF InPlace
  <2> QED  BY <1>1, <1>4, <1>7, <2>2, <2>3, <2>4 DEF CheckInv, SplitAtFirstEnd
<1> QED  BY <1>3, <1>6, <1>7

\* Every step keeps it.
LEMMA StepCheckInv == CheckInv /\ [Next]_vars => CheckInv'
<1> SUFFICES ASSUME CheckInv, [Next]_vars PROVE CheckInv'
  OBVIOUS
<1>1. CASE Receive
  <2>1. PICK bytes \in Bytes : req_recv_headers(bytes)
    BY <1>1 DEF Receive
  <2>2. PICK n \in 1 .. RxLen : bytes \in [1 .. n -> {"LF", "other"}]
    BY <2>1 DEF Bytes
  <2>3. n \in Nat
    BY ReqCheckAssumption
  <2>4. bytes \in Seq({"LF", "other"})
    BY <2>2, <2>3
  <2> QED  BY <2>1, <2>4, StepReceive
<1>2. CASE ReceiveEnds
  BY <1>2 DEF ReceiveEnds, CheckInv, TypeOK, InPlace, NoneUnseen, SplitAtFirstEnd
<1>3. CASE conn_terminate
  BY <1>3, StepTerminate
<1>4. CASE UNCHANGED vars
  BY <1>4 DEF vars, CheckInv, TypeOK, InPlace, NoneUnseen, SplitAtFirstEnd, Received
<1> QED  BY <1>1, <1>2, <1>3, <1>4 DEF Next, Closed

\* No cut of the stream into reads and no answer in between leads out of CheckInv.
THEOREM CheckInvariance == Spec => []CheckInv
BY InitCheckInv, StepCheckInv, PTL DEF Spec

\* rxbuf.off and the terminator stay inside rxbuf.
THEOREM TypeCorrect == Spec => []TypeOK
<1>1. CheckInv => TypeOK
  BY DEF CheckInv
<1> QED  BY <1>1, CheckInvariance, PTL

\* The end of a header is found with the read that brings it.
THEOREM NoneUnseenCorrect == Spec => []NoneUnseen
<1>1. CheckInv => NoneUnseen
  BY DEF CheckInv
<1> QED  BY <1>1, CheckInvariance, PTL

\* Requests are split where the stream says, not where the reads do.
THEOREM SplitCorrect == Spec => []SplitAtFirstEnd
<1>1. CheckInv => SplitAtFirstEnd
  BY DEF CheckInv
<1> QED  BY <1>1, CheckInvariance, PTL

-----------------------------------------------------------------------------
(* The lines of a header, in the buffer.                                     *)

HeaderUpToStep(lines, f, n) ==
  IF n = 0 THEN <<>> ELSE f[n - 1] \o lines[n] \o <<IF n = Len(lines) THEN ZERO ELSE LF>>

\* The header is put together line by line, as its recursion says.
LEMMA HeaderDefined ==
  ASSUME NEW lines, Len(lines) \in Nat
  PROVE  \A n \in 0 .. Len(lines) :
           HeaderUpTo(lines)[n] = HeaderUpToStep(lines, HeaderUpTo(lines), n)
<1> DEFINE L == Len(lines)
           Solves(f, k) == /\ f = [i \in 0 .. L |-> f[i]]
                           /\ \A i \in 0 .. k : f[i] = HeaderUpToStep(lines, f, i)
           S == {k \in 0 .. L : \E f : Solves(f, k)}
<1>1. 0 \in S
  <2> DEFINE f == [i \in 0 .. L |-> <<>>]
  <2>1. Solves(f, 0)
    BY DEF HeaderUpToStep
  <2> QED  BY <2>1
<1>2. ASSUME NEW k \in 0 .. L - 1, k \in S PROVE k + 1 \in S
  <2>1. PICK f : Solves(f, k)
    BY <1>2
  <2> DEFINE h == [i \in 0 .. L |-> IF i = k + 1 THEN HeaderUpToStep(lines, f, i) ELSE f[i]]
  <2>2. \A i \in 0 .. L : h[i] = IF i = k + 1 THEN HeaderUpToStep(lines, f, i) ELSE f[i]
    OBVIOUS
  <2>3. h = [i \in 0 .. L |-> h[i]]
    OBVIOUS
  <2> HIDE DEF h
  <2>4. ASSUME NEW i \in 0 .. k + 1 PROVE h[i] = HeaderUpToStep(lines, h, i)
    <3>1. i \in 0 .. L /\ (i # 0 => i - 1 \in 0 .. L /\ h[i - 1] = f[i - 1])
      BY <2>2
    <3>2. HeaderUpToStep(lines, f, i) = HeaderUpToStep(lines, h, i)
      BY <3>1, Zenon DEF HeaderUpToStep
    <3>3. CASE i = k + 1
      BY <2>2, <3>1, <3>2, <3>3
    <3>4. CASE i # k + 1
      <4>1. i \in 0 .. k
        BY <3>4
      <4> QED  BY <2>1, <2>2, <3>1, <3>2, <3>4, <4>1
    <3> QED  BY <3>3, <3>4
  <2>5. Solves(h, k + 1) /\ k + 1 \in 0 .. L
    BY <2>3, <2>4
  <2> HIDE DEF Solves
  <2> QED  BY <2>5
<1>3. L \in S
  <2>1. \A k \in 0 .. L - 1 : k \in S => k + 1 \in S
    BY <1>2
  <2> HIDE DEF S
  <2>2. \A k \in 0 .. L : k \in S
    BY <1>1, <2>1, InductionUpTo
  <2> QED  BY <2>2
<1>4. \E f : f = [n \in 0 .. L |-> HeaderUpToStep(lines, f, n)]
  <2>1. PICK f : Solves(f, L)
    BY <1>3
  <2>2. f = [n \in 0 .. L |-> HeaderUpToStep(lines, f, n)]
    BY <2>1
  <2> QED  BY <2>2
<1>5. HeaderUpTo(lines) = CHOOSE f : f = [n \in 0 .. L |-> HeaderUpToStep(lines, f, n)]
  BY DEF HeaderUpTo, HeaderUpToStep
<1> DEFINE w == HeaderUpTo(lines)
<1>6. w = [n \in 0 .. L |-> HeaderUpToStep(lines, w, n)]
  BY <1>4, <1>5
<1> HIDE DEF w
<1>7. \A n \in 0 .. L : w[n] = HeaderUpToStep(lines, w, n)
  BY <1>6
<1> QED  BY <1>7 DEF w

\* Where the n-th line ends, with what is behind it.
LineEnd(n) == Len(HeaderUpTo(sent)[n])

\* What clients send.
Sendable ==
  /\ sent \in Seq(Seq(Token \ {LF})) /\ Len(sent) >= 2
  /\ Len(sent[Len(sent)]) <= 1
  /\ \A n \in 2 .. Len(sent) - 1 : sent[n] # <<>>

\* A line and what is behind it are in the header, behind the lines before.
LEMMA OneLineMore ==
  ASSUME NEW T, NEW h \in Seq(T), NEW line \in Seq(T), NEW t \in T
  PROVE  /\ h \o line \o <<t>> \in Seq(T)
         /\ Len(h \o line \o <<t>>) = Len(h) + Len(line) + 1
         /\ \A q \in 1 .. Len(h) : (h \o line \o <<t>>)[q] = h[q]
         /\ \A i \in 1 .. Len(line) : (h \o line \o <<t>>)[Len(h) + i] = line[i]
         /\ (h \o line \o <<t>>)[Len(h) + Len(line) + 1] = t
<1>1. h \o line \in Seq(T) /\ <<t>> \in Seq(T) /\ Len(<<t>>) = 1 /\ <<t>>[1] = t
  OBVIOUS
<1> DEFINE g == h \o line
<1>2. /\ Len(g) = Len(h) + Len(line) /\ Len(h) \in Nat /\ Len(line) \in Nat
      /\ \A q \in 1 .. Len(h) + Len(line) :
           g[q] = IF q <= Len(h) THEN h[q] ELSE line[q - Len(h)]
  BY ConcatProperties
<1>3. \A q \in 1 .. Len(h) : g[q] = h[q]
  BY <1>2
<1>4. ASSUME NEW i \in 1 .. Len(line) PROVE g[Len(h) + i] = line[i]
  <2>1. Len(h) + i \in 1 .. Len(h) + Len(line) /\ ~(Len(h) + i <= Len(h)) /\ Len(h) + i - Len(h) = i
    BY <1>2
  <2> QED  BY <1>2, <2>1
<1> HIDE DEF g
<1> DEFINE k == g \o <<t>>
<1>5. g \in Seq(T)
  BY <1>1 DEF g
<1>6. /\ k \in Seq(T) /\ Len(k) = Len(g) + 1
      /\ \A q \in 1 .. Len(g) + 1 : k[q] = IF q <= Len(g) THEN g[q] ELSE <<t>>[q - Len(g)]
  BY <1>1, <1>5, ConcatProperties
<1> HIDE DEF k
<1>7. \A q \in 1 .. Len(g) : k[q] = g[q]
  BY <1>2, <1>6
<1>8. k[Len(g) + 1] = t
  <2>1. Len(g) + 1 \in 1 .. Len(g) + 1 /\ ~(Len(g) + 1 <= Len(g)) /\ Len(g) + 1 - Len(g) = 1
    BY <1>2
  <2> QED  BY <1>1, <1>6, <2>1
<1>9. \A q \in 1 .. Len(h) : k[q] = h[q]
  BY <1>2, <1>3, <1>7
<1>10. \A i \in 1 .. Len(line) : k[Len(h) + i] = line[i]
  BY <1>2, <1>4, <1>7
<1> QED  BY <1>2, <1>6, <1>8, <1>9, <1>10 DEF k, g

\* Each line is put behind the lines before it.
LEMMA HeaderGrows ==
  ASSUME Sendable
  PROVE  /\ LineEnd(0) = 0
         /\ \A n \in 0 .. Len(sent) : HeaderUpTo(sent)[n] \in Seq(Token) /\ LineEnd(n) \in Nat
         /\ \A n \in 1 .. Len(sent) :
              /\ LineEnd(n) = LineEnd(n - 1) + Len(sent[n]) + 1
              /\ \A q \in 1 .. LineEnd(n - 1) : HeaderUpTo(sent)[n][q] = HeaderUpTo(sent)[n - 1][q]
              /\ \A i \in 1 .. Len(sent[n]) :
                   HeaderUpTo(sent)[n][LineEnd(n - 1) + i] = sent[n][i]
              /\ HeaderUpTo(sent)[n][LineEnd(n)] = IF n = Len(sent) THEN ZERO ELSE LF
<1> DEFINE N == Len(sent)
           h == HeaderUpTo(sent)
           T(n) == IF n = N THEN ZERO ELSE LF
           S == {n \in 0 .. N : h[n] \in Seq(Token)}
<1>1. N \in Nat /\ \A n \in 1 .. N : sent[n] \in Seq(Token)
  <2>1. Seq(Token \ {LF}) \subseteq Seq(Token)
    BY SeqMonotonic
  <2> QED  BY <2>1 DEF Sendable
<1>2. \A n \in 0 .. N : h[n] = HeaderUpToStep(sent, h, n)
  BY <1>1, HeaderDefined
<1>3. h[0] = <<>> /\ \A n \in 1 .. N : h[n] = h[n - 1] \o sent[n] \o <<T(n)>>
  <2> HIDE DEF h, N
  <2>1. 0 \in 0 .. N /\ \A n \in 1 .. N : n \in 0 .. N /\ n # 0
    BY <1>1
  <2>2. h[0] = <<>>
    BY <1>2, <2>1, Zenon DEF HeaderUpToStep
  <2>3. ASSUME NEW n \in 1 .. N PROVE h[n] = h[n - 1] \o sent[n] \o <<T(n)>>
    <3>1. h[n] = HeaderUpToStep(sent, h, n) /\ n # 0
      BY <1>2, <2>1
    <3> QED  BY <3>1, Zenon DEF HeaderUpToStep, N
  <2> QED  BY <2>2, <2>3
<1>4. \A n \in 1 .. N : T(n) \in Token
  BY ReqParseAssumption
<1> HIDE DEF h, T
<1>5. 0 \in S
  <2>1. <<>> \in Seq(Token) /\ 0 \in 0 .. N
    BY <1>1, EmptySeq
  <2> QED  BY <1>3, <2>1
<1>6. ASSUME NEW n \in 1 .. N, n - 1 \in S PROVE n \in S
  <2>1. n \in 0 .. N
    BY <1>1
  <2>2. h[n - 1] \in Seq(Token) /\ sent[n] \in Seq(Token) /\ T(n) \in Token
    BY <1>1, <1>4, <1>6
  <2>3. h[n] = h[n - 1] \o sent[n] \o <<T(n)>>
    BY <1>3
  <2>4. h[n] \in Seq(Token)
    BY <2>2, <2>3, OneLineMore
  <2> QED  BY <2>1, <2>4
<1>7. \A n \in 0 .. N : h[n] \in Seq(Token)
  <2>1. \A k \in 0 .. N - 1 : k \in S => k + 1 \in S
    <3> HIDE DEF S
    <3>1. \A k \in 0 .. N - 1 : k + 1 \in 1 .. N /\ k + 1 - 1 = k
      BY <1>1
    <3> QED  BY <1>6, <3>1
  <2> HIDE DEF S
  <2>2. \A k \in 0 .. N : k \in S
    BY <1>1, <1>5, <2>1, InductionUpTo
  <2> QED  BY <2>2 DEF S
<1>8. \A n \in 0 .. N : Len(h[n]) \in Nat
  BY <1>7
<1>9. ASSUME NEW n \in 1 .. N
      PROVE  /\ Len(h[n]) = Len(h[n - 1]) + Len(sent[n]) + 1
             /\ \A q \in 1 .. Len(h[n - 1]) : h[n][q] = h[n - 1][q]
             /\ \A i \in 1 .. Len(sent[n]) : h[n][Len(h[n - 1]) + i] = sent[n][i]
             /\ h[n][Len(h[n])] = T(n)
  <2>1. n - 1 \in 0 .. N
    BY <1>1
  <2>2. h[n - 1] \in Seq(Token) /\ sent[n] \in Seq(Token) /\ T(n) \in Token
    BY <1>1, <1>4, <1>7, <2>1
  <2>3. h[n] = h[n - 1] \o sent[n] \o <<T(n)>>
    BY <1>3
  <2> DEFINE g == h[n - 1]
             line == sent[n]
             t == T(n)
  <2>4. g \in Seq(Token) /\ line \in Seq(Token) /\ t \in Token
    BY <2>2
  <2> HIDE DEF g, line, t
  <2>5. /\ Len(g \o line \o <<t>>) = Len(g) + Len(line) + 1
        /\ \A q \in 1 .. Len(g) : (g \o line \o <<t>>)[q] = g[q]
        /\ \A i \in 1 .. Len(line) : (g \o line \o <<t>>)[Len(g) + i] = line[i]
        /\ (g \o line \o <<t>>)[Len(g) + Len(line) + 1] = t
    BY <2>4, OneLineMore
  <2>6. h[n] = g \o line \o <<t>>
    BY <2>3 DEF g, line, t
  <2>7. /\ Len(h[n]) = Len(g) + Len(line) + 1
        /\ \A q \in 1 .. Len(g) : h[n][q] = g[q]
        /\ \A i \in 1 .. Len(line) : h[n][Len(g) + i] = line[i]
        /\ h[n][Len(h[n])] = t
    BY <2>5, <2>6, Zenon
  <2> QED  BY <2>7, Zenon DEF g, line, t
<1>10. Len(h[0]) = 0
  BY <1>3, EmptySeq
<1> QED  BY <1>7, <1>8, <1>9, <1>10 DEF LineEnd, h, T

\* Lines end one behind the other.
LEMMA EndsApart ==
  ASSUME Sendable
  PROVE  \A m \in 0 .. Len(sent) : \A n \in 0 .. m - 1 : LineEnd(n) < LineEnd(m)
<1> DEFINE N == Len(sent)
           S == {m \in 0 .. N : \A n \in 0 .. m - 1 : LineEnd(n) < LineEnd(m)}
<1>1. N \in Nat /\ \A n \in 0 .. N : LineEnd(n) \in Nat
  BY HeaderGrows DEF Sendable
<1>2. 0 \in S
  BY <1>1
<1>3. ASSUME NEW k \in 0 .. N - 1, k \in S PROVE k + 1 \in S
  <2>1. k + 1 \in 1 .. N /\ k + 1 \in 0 .. N /\ k \in 0 .. N /\ k + 1 - 1 = k
    BY <1>1
  <2>2. LineEnd(k + 1) = LineEnd(k) + Len(sent[k + 1]) + 1
    BY <2>1, HeaderGrows
  <2>3. Len(sent[k + 1]) \in Nat
    BY <2>1, LenProperties DEF Sendable
  <2>4. LineEnd(k) \in Nat /\ LineEnd(k) < LineEnd(k + 1)
    BY <1>1, <2>1, <2>2, <2>3
  <2>5. ASSUME NEW n \in 0 .. k PROVE LineEnd(n) < LineEnd(k + 1)
    <3>1. n \in 0 .. N /\ (n = k \/ n \in 0 .. k - 1)
      BY <1>1
    <3>2. LineEnd(n) \in Nat /\ LineEnd(k + 1) \in Nat
      BY <1>1, <2>1, <3>1
    <3>3. n = k \/ LineEnd(n) < LineEnd(k)
      BY <1>3, <3>1
    <3> QED  BY <2>4, <3>2, <3>3
  <2> QED  BY <2>1, <2>5
<1> HIDE DEF S
<1>4. \A k \in 0 .. N : k \in S
  BY <1>1, <1>2, <1>3, InductionUpTo
<1> QED  BY <1>4 DEF S

\* What is in the header is in one of its lines.
LEMMA InLine ==
  ASSUME Sendable, NEW p \in 1 .. LineEnd(Len(sent))
  PROVE  \E n \in 1 .. Len(sent) : p \in LineEnd(n - 1) + 1 .. LineEnd(n)
<1> DEFINE N == Len(sent)
           In(q, m) == \E n \in 1 .. m : q \in LineEnd(n - 1) + 1 .. LineEnd(n)
           S == {m \in 0 .. N : \A q \in 1 .. LineEnd(m) : In(q, m)}
<1>1. N \in Nat /\ \A n \in 0 .. N : LineEnd(n) \in Nat
  BY HeaderGrows DEF Sendable
<1>2. 0 \in S
  BY <1>1, HeaderGrows
<1>3. ASSUME NEW k \in 0 .. N - 1, k \in S PROVE k + 1 \in S
  <2>1. k + 1 \in 1 .. N /\ k + 1 \in 0 .. N /\ k \in 0 .. N /\ k + 1 - 1 = k
    BY <1>1
  <2>2. LineEnd(k) \in Nat /\ LineEnd(k + 1) \in Nat
    BY <1>1, <2>1
  <2>3. ASSUME NEW q \in 1 .. LineEnd(k + 1) PROVE In(q, k + 1)
    <3>1. CASE q <= LineEnd(k)
      <4>1. q \in 1 .. LineEnd(k)
        BY <2>2, <3>1
      <4>2. PICK n \in 1 .. k : q \in LineEnd(n - 1) + 1 .. LineEnd(n)
        BY <1>3, <4>1
      <4>3. n \in 1 .. k + 1
        BY <1>1
      <4> QED  BY <4>2, <4>3
    <3>2. CASE ~(q <= LineEnd(k))
      <4>1. q \in LineEnd(k + 1 - 1) + 1 .. LineEnd(k + 1)
        BY <2>1, <2>2, <3>2
      <4>2. k + 1 \in 1 .. k + 1
        BY <1>1
      <4> QED  BY <4>1, <4>2
    <3> QED  BY <3>1, <3>2
  <2> HIDE DEF In
  <2> QED  BY <2>1, <2>3
<1> HIDE DEF S
<1>4. \A k \in 0 .. N : k \in S
  BY <1>1, <1>2, <1>3, InductionUpTo
<1>5. N \in S
  BY <1>1, <1>4
<1> QED  BY <1>5 DEF S

\* What is in the header when n lines are put together remains.
LEMMA HeaderKeeps ==
  ASSUME Sendable
  PROVE  \A m \in 0 .. Len(sent) : \A n \in 0 .. m : \A q \in 1 .. LineEnd(n) :
           HeaderUpTo(sent)[m][q] = HeaderUpTo(sent)[n][q]
<1> DEFINE N == Len(sent)
           h == HeaderUpTo(sent)
           S == {m \in 0 .. N : \A n \in 0 .. m : \A q \in 1 .. LineEnd(n) : h[m][q] = h[n][q]}
<1>1. /\ N \in Nat /\ \A n \in 0 .. N : LineEnd(n) \in Nat
      /\ \A n \in 1 .. N : \A q \in 1 .. LineEnd(n - 1) : h[n][q] = h[n - 1][q]
  <2>1. N \in Nat
    BY DEF Sendable
  <2>2. \A n \in 0 .. N : LineEnd(n) \in Nat
    BY HeaderGrows
  <2>3. \A n \in 1 .. N : \A q \in 1 .. LineEnd(n - 1) : h[n][q] = h[n - 1][q]
    BY HeaderGrows, Zenon
  <2> QED  BY <2>1, <2>2, <2>3
<1> HIDE DEF h
<1>2. 0 \in S
  <2>1. \A n \in 0 .. 0 : n = 0
    OBVIOUS
  <2> QED  BY <1>1, <2>1
<1>3. ASSUME NEW k \in 0 .. N - 1, k \in S PROVE k + 1 \in S
  <2>1. k + 1 \in 1 .. N /\ k + 1 \in 0 .. N /\ k \in 0 .. N /\ k + 1 - 1 = k
    BY <1>1
  <2>2. \A q \in 1 .. LineEnd(k) : h[k + 1][q] = h[k][q]
    BY <1>1, <2>1
  <2>3. ASSUME NEW n \in 0 .. k, NEW q \in 1 .. LineEnd(n) PROVE h[k + 1][q] = h[n][q]
    <3>1. h[k][q] = h[n][q]
      BY <1>3
    <3>2. n = k \/ n \in 0 .. k - 1
      BY <1>1
    <3>3. LineEnd(n) <= LineEnd(k) /\ LineEnd(n) \in Nat /\ LineEnd(k) \in Nat
      <4>1. n \in 0 .. N
        BY <1>1
      <4>2. LineEnd(n) \in Nat /\ LineEnd(k) \in Nat
        BY <1>1, <2>1, <4>1
      <4>3. n = k \/ LineEnd(n) < LineEnd(k)
        BY <2>1, <3>2, EndsApart
      <4> QED  BY <4>2, <4>3
    <3>4. q \in 1 .. LineEnd(k)
      BY <3>3
    <3> QED  BY <2>2, <3>1, <3>4
  <2>4. ASSUME NEW n \in 0 .. k + 1, NEW q \in 1 .. LineEnd(n) PROVE h[k + 1][q] = h[n][q]
    <3>1. n = k + 1 \/ n \in 0 .. k
      BY <1>1
    <3> QED  BY <2>3, <3>1
  <2> QED  BY <2>1, <2>4
<1> HIDE DEF S
<1>4. \A k \in 0 .. N : k \in S
  BY <1>1, <1>2, <1>3, InductionUpTo
<1> QED  BY <1>4 DEF S, h

\* The lines are in rxbuf, each behind the one before, and all before the null
\* byte that caps it.
Laid ==
  /\ Sendable
  /\ rxbuf \in Seq(Token) /\ LineEnd(Len(sent)) < Len(rxbuf)
  /\ \A n \in 1 .. Len(sent) :
       /\ \A i \in 1 .. Len(sent[n]) : rxbuf[LineEnd(n - 1) + i] = sent[n][i]
       /\ rxbuf[LineEnd(n)] = IF n = Len(sent) THEN ZERO ELSE LF

\* A request that comes is laid out so.
LEMMA StartsLaid ==
  ASSUME Sendable, NEW behind \in Seq(Token), rxbuf = Header(sent) \o behind \o <<ZERO>>
  PROVE  Laid
<1> DEFINE N == Len(sent)
           h == HeaderUpTo(sent)
           H == Header(sent)
<1>1. /\ N \in Nat /\ N >= 2 /\ H = h[N] /\ H \in Seq(Token) /\ Len(H) = LineEnd(N)
      /\ \A n \in 0 .. N : LineEnd(n) \in Nat
  <2>1. N \in Nat /\ N >= 2 /\ N \in 0 .. N
    BY DEF Sendable
  <2>2. H = h[N] /\ Len(H) = LineEnd(N)
    BY DEF Header, LineEnd
  <2>3. /\ h[N] \in Seq(Token)
        /\ \A n \in 0 .. N : LineEnd(n) \in Nat
    BY <2>1, HeaderGrows
  <2> QED  BY <2>1, <2>2, <2>3
<1>2. ZERO \in Token
  BY ReqParseAssumption
<1>3. /\ rxbuf \in Seq(Token) /\ Len(rxbuf) = Len(H) + Len(behind) + 1
      /\ \A q \in 1 .. Len(H) : rxbuf[q] = H[q]
  <2>1. rxbuf = H \o behind \o <<ZERO>>
    OBVIOUS
  <2> HIDE DEF H
  <2>2. /\ H \o behind \o <<ZERO>> \in Seq(Token)
        /\ Len(H \o behind \o <<ZERO>>) = Len(H) + Len(behind) + 1
        /\ \A q \in 1 .. Len(H) : (H \o behind \o <<ZERO>>)[q] = H[q]
    <3>1. H \in Seq(Token) /\ behind \in Seq(Token) /\ ZERO \in Token
      BY <1>1, <1>2
    <3> QED  BY <3>1, OneLineMore
  <2> QED  BY <2>1, <2>2, Zenon
<1>4. LineEnd(N) < Len(rxbuf)
  <2>1. Len(behind) \in Nat
    BY LenProperties
  <2> QED  BY <1>1, <1>3, <2>1
<1>5. ASSUME NEW n \in 1 .. N
      PROVE  /\ \A i \in 1 .. Len(sent[n]) : rxbuf[LineEnd(n - 1) + i] = sent[n][i]
             /\ rxbuf[LineEnd(n)] = IF n = N THEN ZERO ELSE LF
  <2>1. n \in 0 .. N /\ n - 1 \in 0 .. N /\ N \in 0 .. N /\ n \in 0 .. N
    BY <1>1
  <2>2. /\ LineEnd(n - 1) \in Nat /\ LineEnd(n) \in Nat /\ Len(sent[n]) \in Nat
        /\ LineEnd(n) = LineEnd(n - 1) + Len(sent[n]) + 1
    <3>1. Len(sent[n]) \in Nat
      BY LenProperties DEF Sendable
    <3>2. LineEnd(n) = LineEnd(n - 1) + Len(sent[n]) + 1
      BY HeaderGrows
    <3> QED  BY <1>1, <2>1, <3>1, <3>2
  <2>3. \A q \in 1 .. LineEnd(n) : H[q] = h[n][q]
    BY <1>1, <2>1, HeaderKeeps, SMTT(30)
  <2>4. LineEnd(n) <= LineEnd(N)
    <3>1. n = N \/ n \in 0 .. N - 1
      BY <1>1
    <3>2. n = N \/ LineEnd(n) < LineEnd(N)
      BY <2>1, <3>1, EndsApart
    <3> QED  BY <1>1, <2>2, <3>2, SMTT(30)
  <2>5. \A q \in 1 .. LineEnd(n) : rxbuf[q] = h[n][q]
    <3>1. \A q \in 1 .. LineEnd(n) : q \in 1 .. LineEnd(N)
      BY <1>1, <2>2, <2>4, SMTT(30)
    <3> HIDE DEF H
    <3> QED  BY <1>1, <1>3, <2>3, <3>1
  <2>6. \A i \in 1 .. Len(sent[n]) : LineEnd(n - 1) + i \in 1 .. LineEnd(n)
    BY <2>2
  <2>7. LineEnd(n) \in 1 .. LineEnd(n)
    BY <2>2
  <2>8. /\ \A i \in 1 .. Len(sent[n]) : h[n][LineEnd(n - 1) + i] = sent[n][i]
        /\ h[n][LineEnd(n)] = IF n = N THEN ZERO ELSE LF
    BY HeaderGrows
  <2> QED  BY <2>5, <2>6, <2>7, <2>8, Zenon
<1> QED  BY <1>3, <1>4, <1>5 DEF Laid

-----------------------------------------------------------------------------
(* What is found in the buffer.                                              *)

\* strchr finds the first of a token.
LEMMA FoundAt ==
  ASSUME NEW token, Len(rxbuf) \in Nat, NEW p \in Nat, NEW q \in p .. Len(rxbuf),
         rxbuf[q] = token, \A r \in p .. q - 1 : rxbuf[r] \notin {token, ZERO}
  PROVE  Found(token, p) = q
<1> DEFINE places == {x \in p .. Len(rxbuf) : /\ rxbuf[x] = token
                                              /\ \A r \in p .. x - 1 : rxbuf[r] \notin {token, ZERO}}
<1>1. q \in places
  OBVIOUS
<1>2. ASSUME NEW x \in places PROVE x = q
  <2>1. x \in Nat /\ q \in Nat /\ p <= x /\ p <= q
    OBVIOUS
  <2>2. ~(x < q)
    <3>1. x < q => x \in p .. q - 1
      BY <2>1
    <3> QED  BY <3>1
  <2>3. ~(q < x)
    <3>1. q < x => q \in p .. x - 1
      BY <2>1
    <3> QED  BY <3>1
  <2> QED  BY <2>1, <2>2, <2>3
<1>3. Found(token, p) = IF places = {} THEN 0 ELSE CHOOSE x \in places : TRUE
  BY DEF Found
<1> HIDE DEF places
<1> QED  BY <1>1, <1>2, <1>3

\* It finds nothing when the string ends first.
LEMMA FoundNone ==
  ASSUME NEW token, Len(rxbuf) \in Nat, NEW p \in Nat, NEW z \in p .. Len(rxbuf),
         rxbuf[z] = ZERO, \A r \in p .. z : rxbuf[r] # token
  PROVE  Found(token, p) = 0
<1> DEFINE places == {x \in p .. Len(rxbuf) : /\ rxbuf[x] = token
                                              /\ \A r \in p .. x - 1 : rxbuf[r] \notin {token, ZERO}}
<1>1. ASSUME NEW x \in places PROVE FALSE
  <2>1. x \in Nat /\ p <= x
    OBVIOUS
  <2>2. CASE x <= z
    <3>1. x \in p .. z
      BY <2>1, <2>2
    <3> QED  BY <3>1
  <2>3. CASE z < x
    <3>1. z \in p .. x - 1
      BY <2>1, <2>3
    <3> QED  BY <3>1
  <2> QED  BY <2>1, <2>2, <2>3
<1>2. Found(token, p) = IF places = {} THEN 0 ELSE CHOOSE x \in places : TRUE
  BY DEF Found
<1> HIDE DEF places
<1> QED  BY <1>1, <1>2

\* Blanks are passed over up to what is none.
LEMMA PastThem ==
  ASSUME Len(rxbuf) \in Nat, NEW p \in Nat, NEW e \in p .. Len(rxbuf), rxbuf[e] # Blank
  PROVE  /\ PastBlanks(p) \in p .. e /\ rxbuf[PastBlanks(p)] # Blank
         /\ \A r \in p .. PastBlanks(p) - 1 : rxbuf[r] = Blank
<1> DEFINE S == {r \in p .. e : rxbuf[r] # Blank}
           Q(q) == rxbuf[q] # Blank /\ \A r \in p .. q - 1 : rxbuf[r] = Blank
<1>0. e \in Nat /\ e <= Len(rxbuf) /\ p <= e
  OBVIOUS
<1>1. PICK n \in S : \A m \in S : n <= m
  <2>1. e \in p .. e
    BY <1>0
  <2>2. e \in S
    BY <2>1, Zenon
  <2>3. S \subseteq Nat /\ S # {}
    BY <2>2
  <2> HIDE DEF S
  <2> QED  BY <2>3, LeastNat
<1>2. n \in p .. Len(rxbuf) /\ Q(n)
  <2>1. n \in p .. e /\ rxbuf[n] # Blank
    OBVIOUS
  <2>2. ASSUME NEW r \in p .. n - 1 PROVE rxbuf[r] = Blank
    <3>1. r \in p .. e /\ ~(n <= r)
      BY <1>0, <2>1
    <3>2. r \notin S
      BY <1>1, <3>1
    <3> QED  BY <3>1, <3>2
  <2>3. n \in p .. Len(rxbuf)
    BY <1>0, <2>1
  <2> QED  BY <2>1, <2>2, <2>3
<1> DEFINE v == PastBlanks(p)
<1>3. v \in p .. Len(rxbuf) /\ Q(v)
  <2>1. v = CHOOSE q \in p .. Len(rxbuf) : Q(q)
    BY DEF PastBlanks
  <2> HIDE DEF v, Q
  <2> QED  BY <1>2, <2>1
<1> HIDE DEF v
<1>4. v \in Nat /\ p <= v
  BY <1>3
<1>5. ~(e < v)
  <2>1. e < v => e \in p .. v - 1
    BY <1>0, <1>4
  <2> QED  BY <1>3, <2>1
<1>6. v \in p .. e
  BY <1>0, <1>4, <1>5
<1> QED  BY <1>3, <1>6 DEF v

\* The places of a line in the buffer.
LEMMA LinePlaces ==
  ASSUME Laid, NEW n \in 1 .. Len(sent)
  PROVE  /\ Len(sent) \in Nat /\ Len(sent[n]) \in Nat /\ Len(rxbuf) \in Nat
         /\ LineEnd(n - 1) \in Nat /\ LineEnd(n) \in Nat
         /\ LineEnd(n) = LineEnd(n - 1) + Len(sent[n]) + 1
         /\ LineEnd(n) < Len(rxbuf)
         /\ n < Len(sent) => LineEnd(n) < LineEnd(Len(sent))
         /\ LineEnd(Len(sent)) \in Nat
<1> DEFINE N == Len(sent)
<1>1. Sendable /\ rxbuf \in Seq(Token) /\ LineEnd(N) < Len(rxbuf)
  BY DEF Laid
<1>2. N \in Nat /\ sent[n] \in Seq(Token \ {LF}) /\ Len(rxbuf) \in Nat
  BY <1>1 DEF Sendable
<1>3. n \in 0 .. N /\ n - 1 \in 0 .. N /\ N \in 0 .. N
  BY <1>2
<1>4. /\ LineEnd(n - 1) \in Nat /\ LineEnd(n) \in Nat /\ LineEnd(N) \in Nat
      /\ LineEnd(n) = LineEnd(n - 1) + Len(sent[n]) + 1
  BY <1>1, <1>3, HeaderGrows
<1>5. n < N => LineEnd(n) < LineEnd(N)
  <2>1. n < N => n \in 0 .. N - 1
    BY <1>2
  <2> QED  BY <1>1, <1>3, <2>1, EndsApart
<1>6. LineEnd(n) < Len(rxbuf)
  <2>1. n = N \/ n < N
    BY <1>2
  <2> QED  BY <1>1, <1>2, <1>4, <1>5, <2>1
<1>7. Len(sent[n]) \in Nat
  BY <1>2
<1> QED  BY <1>2, <1>4, <1>5, <1>6, <1>7

\* No line of the request has a null byte.
NoNulls == \A n \in DOMAIN sent : \A m \in DOMAIN sent[n] : sent[n][m] # ZERO

\* What is at the places of a line.
LEMMA LineHolds ==
  ASSUME Laid, NEW n \in 1 .. Len(sent)
  PROVE  /\ \A q \in LineEnd(n - 1) + 1 .. LineEnd(n) - 1 :
              /\ q - LineEnd(n - 1) \in 1 .. Len(sent[n])
              /\ rxbuf[q] = sent[n][q - LineEnd(n - 1)]
              /\ rxbuf[q] # LF /\ (NoNulls => rxbuf[q] # ZERO)
         /\ rxbuf[LineEnd(n)] = IF n = Len(sent) THEN ZERO ELSE LF
<1>1. ASSUME NEW q \in LineEnd(n - 1) + 1 .. LineEnd(n) - 1
      PROVE  /\ q - LineEnd(n - 1) \in 1 .. Len(sent[n])
             /\ rxbuf[q] = sent[n][q - LineEnd(n - 1)]
             /\ rxbuf[q] # LF /\ (NoNulls => rxbuf[q] # ZERO)
  <2> DEFINE i == q - LineEnd(n - 1)
  <2>1. i \in 1 .. Len(sent[n]) /\ LineEnd(n - 1) + i = q
    <3>1. /\ Len(sent[n]) \in Nat /\ LineEnd(n - 1) \in Nat /\ LineEnd(n) \in Nat
          /\ LineEnd(n) = LineEnd(n - 1) + Len(sent[n]) + 1
      BY LinePlaces
    <3> QED  BY <3>1
  <2> HIDE DEF i
  <2>2. rxbuf[q] = sent[n][i]
    <3>1. rxbuf[LineEnd(n - 1) + i] = sent[n][i]
      BY <2>1, Zenon DEF Laid
    <3> QED  BY <2>1, <3>1
  <2>3. sent[n] \in Seq(Token \ {LF}) /\ n \in DOMAIN sent /\ i \in DOMAIN sent[n]
    BY <2>1 DEF Laid, Sendable
  <2>4. sent[n][i] # LF
    BY <2>3
  <2>5. NoNulls => sent[n][i] # ZERO
    BY <2>3 DEF NoNulls
  <2> QED  BY <2>1, <2>2, <2>4, <2>5 DEF i
<1>2. rxbuf[LineEnd(n)] = IF n = Len(sent) THEN ZERO ELSE LF
  BY Zenon DEF Laid
<1> QED  BY <1>1, <1>2

\* The line feeds of the header are the ends of its lines but the last.
LEMMA StartsAre ==
  ASSUME Laid
  PROVE  /\ Terminator = LineEnd(Len(sent))
         /\ \A n \in 1 .. Len(sent) - 1 : LineEnd(n) + 1 \in LineStarts \cup {Terminator}
         /\ \A p \in LineStarts : \E n \in 1 .. Len(sent) - 1 : p = LineEnd(n) + 1
<1> DEFINE N == Len(sent)
<1>0. N \in Nat /\ N >= 2 /\ Sendable
  BY DEF Laid, Sendable
<1>1. Terminator = LineEnd(N)
  BY DEF Terminator, Header, LineEnd
<1>2. ASSUME NEW n \in 1 .. N - 1 PROVE LineEnd(n) + 1 \in LineStarts \cup {Terminator}
  <2>1. n \in 1 .. N /\ n < N /\ n # N
    BY <1>0
  <2>2. LineEnd(n) \in Nat /\ LineEnd(N) \in Nat /\ LineEnd(n) < LineEnd(N) /\ LineEnd(n) >= 1
    <3>1. /\ Len(sent[n]) \in Nat /\ LineEnd(n - 1) \in Nat /\ LineEnd(n) \in Nat
          /\ LineEnd(n) = LineEnd(n - 1) + Len(sent[n]) + 1
          /\ LineEnd(N) \in Nat /\ LineEnd(n) < LineEnd(N)
      BY <2>1, LinePlaces
    <3> QED  BY <3>1
  <2>3. rxbuf[LineEnd(n)] = LF
    BY <2>1, LineHolds
  <2>4. LineEnd(n) + 1 = LineEnd(N) \/ LineEnd(n) + 1 \in 2 .. LineEnd(N) - 1
    BY <2>2
  <2>5. LineEnd(n) + 1 - 1 = LineEnd(n)
    BY <2>2
  <2>6. CASE LineEnd(n) + 1 = LineEnd(N)
    BY <1>1, <2>6
  <2>7. CASE LineEnd(n) + 1 \in 2 .. LineEnd(N) - 1
    <3> DEFINE p == LineEnd(n) + 1
    <3>1. p - 1 = LineEnd(n) /\ p \in 2 .. Terminator - 1
      <4>1. p - 1 = LineEnd(n)
        BY <2>2
      <4>2. p \in 2 .. LineEnd(N) - 1
        BY <2>7
      <4> HIDE DEF p, N
      <4> QED  BY <1>1, <4>1, <4>2
    <3>2. rxbuf[p - 1] = LF
      BY <2>3, <3>1
    <3> HIDE DEF p
    <3>3. p \in LineStarts
      BY <3>1, <3>2 DEF LineStarts
    <3> QED  BY <3>3 DEF p
  <2> QED  BY <2>4, <2>6, <2>7
<1>3. ASSUME NEW p \in LineStarts PROVE \E n \in 1 .. N - 1 : p = LineEnd(n) + 1
  <2>1. N \in 1 .. N
    BY <1>0
  <2>2. LineEnd(N) \in Nat
    BY <2>1, LinePlaces
  <2>3. p - 1 \in 1 .. LineEnd(N) /\ p - 1 < LineEnd(N) /\ rxbuf[p - 1] = LF /\ p \in Nat
    BY <1>1, <2>2 DEF LineStarts
  <2>4. PICK n \in 1 .. N : p - 1 \in LineEnd(n - 1) + 1 .. LineEnd(n)
    BY <1>0, <2>3, InLine
  <2>5. LineEnd(n) \in Nat /\ LineEnd(n - 1) \in Nat
    BY LinePlaces
  <2>6. ~(p - 1 \in LineEnd(n - 1) + 1 .. LineEnd(n) - 1)
    BY <2>3, LineHolds
  <2>7. p - 1 = LineEnd(n)
    BY <2>3, <2>4, <2>5, <2>6
  <2>8. n # N
    BY <2>2, <2>3, <2>7
  <2>9. n \in 1 .. N - 1 /\ p = LineEnd(n) + 1
    BY <1>0, <2>3, <2>5, <2>7, <2>8
  <2> QED  BY <2>9
<1> QED  BY <1>1, <1>2, <1>3

\* The value that is found behind a name is the line's: the first token that is
\* no blank, or the line feed without one.
LEMMA ValueIs ==
  ASSUME Laid, NEW n \in 1 .. Len(sent), Len(sent[n]) >= 1,
         NEW v \in LineEnd(n - 1) + 2 .. LineEnd(n), rxbuf[v] # Blank,
         \A r \in LineEnd(n - 1) + 2 .. v - 1 : rxbuf[r] = Blank
  PROVE  IF v = LineEnd(n) THEN ValueOf(sent[n]) = Blank
                           ELSE ValueOf(sent[n]) = rxbuf[v]
<1> DEFINE b == LineEnd(n - 1)
           line == sent[n]
           rest == {m \in 2 .. Len(line) : line[m] # Blank}
<1>1. /\ Len(line) \in Nat /\ b \in Nat /\ LineEnd(n) \in Nat
      /\ LineEnd(n) = b + Len(line) + 1
  BY LinePlaces
<1>2. /\ \A q \in b + 1 .. LineEnd(n) - 1 : q - b \in 1 .. Len(line) /\ rxbuf[q] = line[q - b]
  BY LineHolds
<1>3. ValueOf(line) = IF rest = {} THEN Blank
                      ELSE line[CHOOSE m \in rest : \A l \in rest : m <= l]
  BY DEF ValueOf
<1> HIDE DEF b, line
<1>4. \A m \in 2 .. Len(line) : b + m \in b + 2 .. LineEnd(n) - 1 /\ rxbuf[b + m] = line[m]
  <2> SUFFICES ASSUME NEW m \in 2 .. Len(line)
               PROVE  b + m \in b + 2 .. LineEnd(n) - 1 /\ rxbuf[b + m] = line[m]
    OBVIOUS
  <2> DEFINE q == b + m
  <2>1. q \in b + 1 .. LineEnd(n) - 1 /\ q - b = m /\ q \in b + 2 .. LineEnd(n) - 1
    BY <1>1
  <2> HIDE DEF q
  <2>2. rxbuf[q] = line[q - b]
    BY <1>2, <2>1, Zenon
  <2> QED  BY <2>1, <2>2 DEF q
<1>5. v \in Nat /\ b + 2 <= v /\ v <= LineEnd(n)
  BY <1>1 DEF b
<1>6. \A m \in 2 .. Len(line) : b + m < v => line[m] = Blank
  <2> SUFFICES ASSUME NEW m \in 2 .. Len(line), b + m < v PROVE line[m] = Blank
    OBVIOUS
  <2>1. b + m \in b + 2 .. v - 1
    BY <1>1, <1>5
  <2> QED  BY <1>4, <2>1 DEF b
<1>7. CASE v = LineEnd(n)
  <2>1. rest = {}
    <3>1. \A m \in 2 .. Len(line) : b + m < v
      BY <1>1, <1>7
    <3> QED  BY <1>6, <3>1
  <2> HIDE DEF rest
  <2> QED  BY <1>3, <1>7, <2>1 DEF line
<1>8. CASE v # LineEnd(n)
  <2> DEFINE x == v - b
  <2>1. x \in 2 .. Len(line) /\ b + x = v
    BY <1>1, <1>5, <1>8
  <2>2. line[x] = rxbuf[v]
    BY <1>4, <2>1
  <2> HIDE DEF x
  <2>3. x \in rest /\ \A l \in rest : x <= l
    <3>1. x \in rest
      BY <2>1, <2>2
    <3>2. ASSUME NEW l \in rest PROVE x <= l
      <4>1. ~(b + l < v)
        BY <1>6
      <4> QED  BY <1>1, <2>1, <4>1
    <3> QED  BY <3>1, <3>2
  <2>4. (CHOOSE m \in rest : \A l \in rest : m <= l) = x
    <3>1. \A m \in rest : (\A l \in rest : m <= l) => m = x
      BY <2>1, <2>3
    <3> HIDE DEF rest
    <3> QED  BY <2>3, <3>1
  <2> HIDE DEF rest
  <2>5. rest # {}
    BY <2>3
  <2> QED  BY <1>3, <1>8, <2>2, <2>4, <2>5 DEF line
<1> QED  BY <1>7, <1>8

\* Names are no line feeds, blanks or null bytes.
LEMMA NamesAreWords == LF \notin Names /\ ZERO \notin Names /\ LF # ZERO /\ Blank # LF /\ Blank # ZERO
  BY DEF LF, ZERO, Blank, Names

\* What the parser takes from a line whose turn it is: its first token and its
\* value; then it finds the line's end.
LEMMA ReadLine ==
  ASSUME Laid, NoNulls, NEW k \in 1 .. Len(sent) - 1
  PROVE  LET p == LineEnd(k) + 1
             v == ValueAt(p)
         IN  /\ Found(LF, v) = IF k + 1 = Len(sent) THEN 0 ELSE LineEnd(k + 1)
             /\ k + 1 < Len(sent) =>
                  /\ rxbuf[p] = sent[k + 1][1]
                  /\ rxbuf[p] \in Names =>
                       \/ rxbuf[v] = LF /\ ValueOf(sent[k + 1]) = Blank
                       \/ rxbuf[v] = ValueOf(sent[k + 1])
             /\ k + 1 = Len(sent) /\ rxbuf[p] \in Names => rxbuf[v] = ZERO
<1> DEFINE N == Len(sent)
           n == k + 1
           p == LineEnd(k) + 1
           from == IF rxbuf[p] \in Names THEN p + 1 ELSE p
           v == ValueAt(p)
<1>1. N \in Nat /\ Sendable
  BY DEF Laid, Sendable
<1>2. n \in 1 .. N /\ n - 1 = k
  BY <1>1
<1>3. /\ Len(sent[n]) \in Nat /\ Len(rxbuf) \in Nat /\ LineEnd(k) \in Nat /\ LineEnd(n) \in Nat
      /\ LineEnd(n) = LineEnd(k) + Len(sent[n]) + 1 /\ LineEnd(n) < Len(rxbuf)
  BY <1>2, LinePlaces
<1>4. /\ \A q \in LineEnd(k) + 1 .. LineEnd(n) - 1 :
           /\ q - LineEnd(k) \in 1 .. Len(sent[n])
           /\ rxbuf[q] = sent[n][q - LineEnd(k)]
           /\ rxbuf[q] # LF /\ rxbuf[q] # ZERO
      /\ rxbuf[LineEnd(n)] = IF n = N THEN ZERO ELSE LF
  BY <1>2, LineHolds
<1> HIDE DEF n
<1>5. rxbuf[LineEnd(n)] \notin Names /\ rxbuf[LineEnd(n)] # Blank
  BY <1>4, NamesAreWords
<1>6. p \in Nat /\ p <= LineEnd(n) /\ (rxbuf[p] \in Names => p + 1 <= LineEnd(n))
  <2>1. p \in Nat /\ p <= LineEnd(n)
    BY <1>3
  <2>2. rxbuf[p] \in Names => p # LineEnd(n)
    BY <1>5
  <2> QED  BY <1>3, <2>1, <2>2
<1>7. from \in Nat /\ LineEnd(n) \in from .. Len(rxbuf) /\ from >= p
  BY <1>3, <1>6
<1>8. /\ v \in from .. LineEnd(n) /\ rxbuf[v] # Blank
      /\ \A r \in from .. v - 1 : rxbuf[r] = Blank
  <2>1. v = PastBlanks(from)
    BY DEF ValueAt
  <2> HIDE DEF from, v
  <2> QED  BY <1>3, <1>5, <1>7, <2>1, PastThem
<1>9. v \in Nat /\ v \in p .. LineEnd(n) /\ LineEnd(n) \in v .. Len(rxbuf)
  <2> HIDE DEF from, v, p
  <2> QED  BY <1>3, <1>6, <1>7, <1>8
<1>10. \A r \in v .. LineEnd(n) - 1 : rxbuf[r] # LF /\ rxbuf[r] # ZERO
  <2>1. \A r \in v .. LineEnd(n) - 1 : r \in LineEnd(k) + 1 .. LineEnd(n) - 1
    <3> HIDE DEF v
    <3> QED  BY <1>3, <1>9
  <2> HIDE DEF v
  <2> QED  BY <1>4, <2>1
<1>11. Found(LF, v) = IF n = N THEN 0 ELSE LineEnd(n)
  <2> HIDE DEF v
  <2>1. CASE n = N
    <3>1. rxbuf[LineEnd(n)] = ZERO
      BY <1>4, <2>1
    <3>2. \A r \in v .. LineEnd(n) : rxbuf[r] # LF
      <4>1. \A r \in v .. LineEnd(n) : r = LineEnd(n) \/ r \in v .. LineEnd(n) - 1
        BY <1>3, <1>9
      <4> QED  BY <1>10, <3>1, <4>1, NamesAreWords
    <3>3. Found(LF, v) = 0
      BY <1>3, <1>9, <3>1, <3>2, FoundNone
    <3> QED  BY <2>1, <3>3
  <2>2. CASE n # N
    <3>1. rxbuf[LineEnd(n)] = LF
      BY <1>4, <2>2
    <3>2. \A r \in v .. LineEnd(n) - 1 : rxbuf[r] \notin {LF, ZERO}
      BY <1>10
    <3>3. Found(LF, v) = LineEnd(n)
      BY <1>3, <1>9, <3>1, <3>2, FoundAt
    <3> QED  BY <2>2, <3>3
  <2> QED  BY <2>1, <2>2
<1>12. ASSUME n < N
       PROVE  /\ rxbuf[p] = sent[n][1]
              /\ rxbuf[p] \in Names => \/ rxbuf[v] = LF /\ ValueOf(sent[n]) = Blank
                                       \/ rxbuf[v] = ValueOf(sent[n])
  <2>1. Len(sent[n]) >= 1
    <3>1. n \in 2 .. N - 1
      BY <1>1, <1>2, <1>12 DEF n
    <3>2. sent[n] # <<>> /\ sent[n] \in Seq(Token \ {LF})
      BY <1>1, <1>2, <3>1 DEF Sendable
    <3>3. Len(sent[n]) # 0
      BY <3>2, EmptySeq
    <3> QED  BY <1>3, <3>3
  <2>2. p \in LineEnd(k) + 1 .. LineEnd(n) - 1 /\ p - LineEnd(k) = 1
    BY <1>3, <2>1, SMTT(30)
  <2>3. rxbuf[p] = sent[n][1]
    BY <1>4, <2>2
  <2>4. ASSUME rxbuf[p] \in Names
        PROVE  \/ rxbuf[v] = LF /\ ValueOf(sent[n]) = Blank
               \/ rxbuf[v] = ValueOf(sent[n])
    <3>1. from = LineEnd(k) + 2
      BY <1>3, <2>4
    <3>2. /\ v \in LineEnd(n - 1) + 2 .. LineEnd(n)
          /\ \A r \in LineEnd(n - 1) + 2 .. v - 1 : rxbuf[r] = Blank
      <4> HIDE DEF v, from
      <4> QED  BY <1>2, <1>8, <3>1
    <3>3. IF v = LineEnd(n) THEN ValueOf(sent[n]) = Blank ELSE ValueOf(sent[n]) = rxbuf[v]
      <4> HIDE DEF v
      <4> QED  BY <1>2, <1>8, <2>1, <3>2, ValueIs
    <3>4. n # N
      BY <1>1, <1>2, <1>12
    <3>5. rxbuf[LineEnd(n)] = LF
      BY <1>4, <3>4
    <3> HIDE DEF v
    <3> QED  BY <3>3, <3>5
  <2> QED  BY <2>3, <2>4
<1>13. ASSUME n = N, rxbuf[p] \in Names PROVE rxbuf[v] = ZERO
  <2>1. Len(sent[n]) <= 1
    BY <1>1, <1>13 DEF Sendable
  <2>2. from = LineEnd(k) + 2
    BY <1>3, <1>13
  <2>3. v = LineEnd(n)
    <3> HIDE DEF v, from
    <3> QED  BY <1>3, <1>8, <2>1, <2>2
  <2> HIDE DEF v
  <2> QED  BY <1>4, <1>13, <2>3
<1> HIDE DEF v
<1> QED  BY <1>11, <1>12, <1>13 DEF n, v

-----------------------------------------------------------------------------
(* The request line.                                                         *)

\* What strchr finds is in the buffer.
LEMMA FoundIs ==
  ASSUME NEW token, NEW p
  PROVE  Found(token, p) = 0 \/ (Found(token, p) \in p .. Len(rxbuf) /\ rxbuf[Found(token, p)] = token)
<1> DEFINE places == {x \in p .. Len(rxbuf) : /\ rxbuf[x] = token
                                              /\ \A r \in p .. x - 1 : rxbuf[r] \notin {token, ZERO}}
<1>1. Found(token, p) = IF places = {} THEN 0 ELSE CHOOSE x \in places : TRUE
  BY DEF Found
<1>2. places # {} => (CHOOSE x \in places : TRUE) \in places
  <2> HIDE DEF places
  <2> QED  BY Zenon
<1>3. CASE places = {}
  <2> HIDE DEF places
  <2> QED  BY <1>1, <1>3
<1>4. CASE places # {}
  <2>1. Found(token, p) \in places
    <3> HIDE DEF places
    <3> QED  BY <1>1, <1>2, <1>4
  <2> QED  BY <2>1
<1> QED  BY <1>3, <1>4

\* The target, the path and the arguments that were found for it.
Target == SubSeq(sent[1], 3, Len(sent[1]) - 2)
Targeted(r) ==
  LET path == SubSeq(rxbuf, r.path[1], r.path[2])
      args == SubSeq(rxbuf, r.args, Len(sent[1]) - 2)
  IN  Target = IF "?" \in {Target[n] : n \in DOMAIN Target} THEN path \o <<"?">> \o args ELSE path

\* The places of a request line in the buffer.
LEMMA FirstLine ==
  ASSUME Laid, WellFormed
  PROVE  LET L == Len(sent[1])
         IN  /\ L \in Nat /\ L >= 4 /\ Len(rxbuf) \in Nat /\ L + 1 < Len(rxbuf)
             /\ LineEnd(1) = L + 1 /\ rxbuf[L + 1] = LF
             /\ \A q \in 1 .. L : rxbuf[q] = sent[1][q] /\ sent[1][q] # ZERO
             /\ rxbuf[L - 1] = Blank /\ \A q \in 3 .. L - 2 : rxbuf[q] # Blank
             /\ PathStart = 3
<1> DEFINE L == Len(sent[1])
<1>1. Len(sent) \in Nat /\ Len(sent) >= 2 /\ 1 \in 1 .. Len(sent) /\ Sendable
  BY DEF Laid, Sendable
<1>2. /\ L \in Nat /\ Len(rxbuf) \in Nat /\ LineEnd(1) = LineEnd(0) + L + 1 /\ LineEnd(0) = 0
      /\ LineEnd(1) < Len(rxbuf) /\ LineEnd(1) \in Nat
  <2>1. 1 - 1 = 0
    OBVIOUS
  <2>2. LineEnd(0) = 0
    BY <1>1, HeaderGrows
  <2> QED  BY <1>1, <2>1, <2>2, LinePlaces
<1>3. LineEnd(1) = L + 1
  BY <1>2
<1>4. L >= 4 /\ {n \in DOMAIN sent[1] : sent[1][n] = Blank} = {2, L - 1} /\ sent[1][1] \in Methods
  BY DEF WellFormed
<1>5. DOMAIN sent[1] = 1 .. L /\ DOMAIN sent = 1 .. Len(sent)
  BY <1>1 DEF Sendable
<1>6. \A q \in 1 .. L : rxbuf[q] = sent[1][q] /\ sent[1][q] # ZERO
  <2> SUFFICES ASSUME NEW q \in 1 .. L PROVE rxbuf[q] = sent[1][q] /\ sent[1][q] # ZERO
    OBVIOUS
  <2>1. q \in LineEnd(1 - 1) + 1 .. LineEnd(1) - 1 /\ q - LineEnd(1 - 1) = q
    BY <1>2, <1>3
  <2>2. rxbuf[q] = sent[1][q]
    BY <1>1, <2>1, LineHolds
  <2>3. sent[1][q] # ZERO
    BY <1>1, <1>5 DEF WellFormed
  <2> QED  BY <2>2, <2>3
<1>7. rxbuf[L + 1] = LF
  <2>1. rxbuf[LineEnd(1)] = LF
    <3>1. \A n \in Nat : n >= 2 => 1 # n
      OBVIOUS
    <3>2. 1 # Len(sent)
      BY <1>1, <3>1, Zenon
    <3> QED  BY <1>1, <3>2, LineHolds
  <2> QED  BY <1>3, <2>1
<1>8. rxbuf[L - 1] = Blank
  <2>1. L - 1 \in 1 .. L
    BY <1>2, <1>4
  <2>2. sent[1][L - 1] = Blank
    BY <1>4
  <2> QED  BY <1>6, <2>1, <2>2
<1>9. \A q \in 3 .. L - 2 : rxbuf[q] # Blank
  <2> SUFFICES ASSUME NEW q \in 3 .. L - 2 PROVE rxbuf[q] # Blank
    OBVIOUS
  <2>1. q \in 1 .. L /\ q # 2 /\ q # L - 1
    BY <1>2
  <2>2. sent[1][q] # Blank
    BY <1>4, <1>5, <2>1
  <2> QED  BY <1>6, <2>1, <2>2
<1>10. PathStart = 3
  <2>1. 1 \in 1 .. L
    BY <1>2, <1>4
  <2> QED  BY <1>4, <1>6, <2>1 DEF PathStart
<1> QED  BY <1>2, <1>3, <1>4, <1>6, <1>7, <1>8, <1>9, <1>10

\* What is found of a target that is well-formed.
LEMMA TargetFound ==
  ASSUME Laid, WellFormed
  PROVE  LET L == Len(sent[1])
         IN  /\ Found(Blank, PathStart) = L - 1 /\ Found(LF, SearchStart(L - 1)) = LineEnd(1)
             /\ rxbuf[L - 1 + 1] = sent[1][L]
             /\ \/ /\ \E q \in 3 .. L - 2 : rxbuf[q] = "?"
                   /\ Found("?", PathStart) \in 3 .. L - 2 /\ rxbuf[Found("?", PathStart)] = "?"
                \/ /\ \A q \in 3 .. L - 2 : rxbuf[q] # "?"
                   /\ PathEnd(L - 1, Found("?", PathStart)) = L - 1
                   /\ Found("?", PathStart) # L - 1
<1> DEFINE L == Len(sent[1])
<1>1. /\ L \in Nat /\ L >= 4 /\ Len(rxbuf) \in Nat /\ L + 1 < Len(rxbuf)
      /\ LineEnd(1) = L + 1 /\ rxbuf[L + 1] = LF
      /\ \A q \in 1 .. L : rxbuf[q] = sent[1][q] /\ sent[1][q] # ZERO
      /\ rxbuf[L - 1] = Blank /\ \A q \in 3 .. L - 2 : rxbuf[q] # Blank
      /\ PathStart = 3
  BY FirstLine
<1> HIDE DEF L
<1>2. Found(Blank, 3) = L - 1
  <2>1. L - 1 \in 3 .. Len(rxbuf) /\ 3 \in Nat
    BY <1>1
  <2>2. \A r \in 3 .. L - 1 - 1 : rxbuf[r] \notin {Blank, ZERO}
    <3> SUFFICES ASSUME NEW r \in 3 .. L - 1 - 1 PROVE rxbuf[r] \notin {Blank, ZERO}
      OBVIOUS
    <3>1. r \in 1 .. L /\ r \in 3 .. L - 2
      BY <1>1
    <3> QED  BY <1>1, <3>1
  <2> QED  BY <1>1, <2>1, <2>2, FoundAt
<1>3. Found(LF, SearchStart(L - 1)) = L + 1
  <2>1. SearchStart(L - 1) = L + 1
    BY <1>1 DEF SearchStart
  <2>2. L + 1 \in Nat /\ L + 1 \in L + 1 .. Len(rxbuf) /\ \A r \in L + 1 .. L + 1 - 1 : FALSE
    BY <1>1
  <2>3. Found(LF, L + 1) = L + 1
    BY <1>1, <2>2, FoundAt
  <2> QED  BY <2>1, <2>3
<1>4. rxbuf[L - 1 + 1] = sent[1][L]
  <2>1. L - 1 + 1 = L /\ L \in 1 .. L
    BY <1>1
  <2> QED  BY <1>1, <2>1
<1>5. CASE \E q \in 3 .. L - 2 : rxbuf[q] = "?"
  <2> DEFINE S == {q \in 3 .. L - 2 : rxbuf[q] = "?"}
  <2>1. PICK m \in S : \A q \in S : m <= q
    <3>1. S \subseteq Nat /\ S # {}
      BY <1>5
    <3> HIDE DEF S
    <3> QED  BY <3>1, LeastNat
  <2>2. m \in 3 .. Len(rxbuf) /\ m \in 3 .. L - 2 /\ rxbuf[m] = "?"
    BY <1>1
  <2>3. \A r \in 3 .. m - 1 : rxbuf[r] \notin {"?", ZERO}
    <3> SUFFICES ASSUME NEW r \in 3 .. m - 1 PROVE rxbuf[r] \notin {"?", ZERO}
      OBVIOUS
    <3>1. r \in 3 .. L - 2 /\ r \in 1 .. L /\ ~(m <= r)
      BY <1>1, <2>2
    <3>2. rxbuf[r] # "?"
      BY <2>1, <3>1
    <3> QED  BY <1>1, <3>1, <3>2
  <2>4. Found("?", 3) = m
    BY <1>1, <2>2, <2>3, FoundAt
  <2> QED  BY <1>1, <1>2, <1>3, <1>4, <1>5, <2>2, <2>4 DEF L
<1>6. CASE \A q \in 3 .. L - 2 : rxbuf[q] # "?"
  <2> DEFINE mark == Found("?", 3)
  <2>1. mark = 0 \/ (mark \in 3 .. Len(rxbuf) /\ rxbuf[mark] = "?")
    BY FoundIs
  <2> HIDE DEF mark
  <2>2. mark # L - 1
    <3>1. L - 1 # 0
      BY <1>1
    <3>2. Blank # "?"
      BY DEF Blank
    <3> QED  BY <1>1, <2>1, <3>1, <3>2
  <2>3. mark = 0 \/ mark > L - 1
    <3>1. mark \notin 3 .. L - 2 \/ mark = 0
      BY <1>6, <2>1
    <3> QED  BY <1>1, <2>1, <2>2, <3>1
  <2>4. PathEnd(L - 1, mark) = L - 1
    BY <2>3 DEF PathEnd
  <2> QED  BY <1>1, <1>2, <1>3, <1>4, <1>6, <2>2, <2>4 DEF L, mark
<1> QED  BY <1>5, <1>6

\* A part of a sequence, by its places.
LEMMA PartIs ==
  ASSUME NEW T, NEW s \in Seq(T), NEW m \in Nat, m >= 1, NEW n \in Int, n <= Len(s), m - 1 <= n
  PROVE  /\ SubSeq(s, m, n) \in Seq(T)
         /\ Len(SubSeq(s, m, n)) = n - m + 1
         /\ \A i \in 1 .. Len(SubSeq(s, m, n)) : SubSeq(s, m, n)[i] = s[m + i - 1]
<1>1. \A i \in m .. n : s[i] \in T
  BY LenProperties
<1>2. m \in Int
  OBVIOUS
<1>3. /\ SubSeq(s, m, n) \in Seq(T)
      /\ Len(SubSeq(s, m, n)) = IF m <= n THEN n - m + 1 ELSE 0
      /\ \A i \in 1 .. n - m + 1 : SubSeq(s, m, n)[i] = s[m + i - 1]
  BY <1>1, <1>2, SubSeqProperties
<1>4. Len(SubSeq(s, m, n)) = n - m + 1
  <2>1. (IF m <= n THEN n - m + 1 ELSE 0) = n - m + 1
    OBVIOUS
  <2> QED  BY <1>3, <2>1, Zenon
<1> QED  BY <1>3, <1>4, Zenon

\* The lengths of what is before a mark and behind it, and places behind it.
LEMMA AroundMark ==
  ASSUME NEW l \in Nat, NEW m \in Nat, m >= 3, m <= l - 2
  PROVE  /\ m - 1 - 3 + 1 = m - 3 /\ l - 2 - (m + 1) + 1 = l - 2 - m
         /\ m - 2 + (l - 2 - m) = l - 4
         /\ \A i \in 1 .. l - 4 : i > m - 2 =>
              i - (m - 2) \in 1 .. l - 2 - m /\ m + 1 + (i - (m - 2)) - 1 = i + 2
  OBVIOUS

\* The path and the arguments found are those of the target.
LEMMA TargetTaken ==
  ASSUME Laid, WellFormed, NEW r, NEW mark, NEW end, mark = Found("?", PathStart),
         end = PathEnd(Len(sent[1]) - 1, mark), r.path = <<3, end - 1>>,
         r.args = IF end = mark THEN mark + 1 ELSE end
  PROVE  Targeted(r)
<1> DEFINE L == Len(sent[1])
           t == Target
           path == SubSeq(rxbuf, r.path[1], r.path[2])
           args == SubSeq(rxbuf, r.args, L - 2)
<1>1. /\ L \in Nat /\ L >= 4 /\ Len(rxbuf) \in Nat /\ L + 1 < Len(rxbuf)
      /\ \A q \in 1 .. L : rxbuf[q] = sent[1][q]
  BY FirstLine
<1>2. \/ mark \in 3 .. L - 2 /\ rxbuf[mark] = "?"
      \/ (\A q \in 3 .. L - 2 : rxbuf[q] # "?") /\ end = L - 1 /\ end # mark
  BY TargetFound
<1>3. sent[1] \in Seq(Token \ {LF}) /\ rxbuf \in Seq(Token)
  BY DEF Laid, Sendable
<1>a. r.path[1] = 3 /\ r.path[2] = end - 1
  OBVIOUS
<1>4. /\ t \in Seq(Token) /\ Len(t) = L - 4
      /\ \A i \in 1 .. L - 4 : t[i] = rxbuf[i + 2]
  <2>1. /\ t \in Seq(Token \ {LF}) /\ Len(t) = L - 2 - 3 + 1
        /\ \A i \in 1 .. Len(t) : t[i] = sent[1][3 + i - 1]
    <3>1. L - 2 \in Int /\ L - 2 <= Len(sent[1]) /\ 3 \in Nat /\ 3 >= 1 /\ 3 - 1 <= L - 2
      BY <1>1
    <3> QED  BY <1>3, <3>1, PartIs DEF Target
  <2>2. Seq(Token \ {LF}) \subseteq Seq(Token)
    BY SeqMonotonic
  <2> HIDE DEF t, L
  <2>3. Len(t) = L - 4
    BY <1>1, <2>1
  <2>4. \A i \in 1 .. L - 4 : 3 + i - 1 = i + 2 /\ i + 2 \in 1 .. L
    BY <1>1
  <2>5. \A i \in 1 .. L - 4 : t[i] = rxbuf[i + 2]
    BY <1>1, <2>1, <2>3, <2>4
  <2> QED  BY <2>1, <2>2, <2>3, <2>5
<1>5. DOMAIN t = 1 .. L - 4
  <2> HIDE DEF t, L
  <2> QED  BY <1>4
<1>6. Targeted(r) <=> t = IF "?" \in {t[n] : n \in DOMAIN t} THEN path \o <<"?">> \o args ELSE path
  BY DEF Targeted
<1>7. CASE (\A q \in 3 .. L - 2 : rxbuf[q] # "?") /\ end = L - 1 /\ end # mark
  <2>1. "?" \notin {t[n] : n \in DOMAIN t}
    <3> HIDE DEF t, L
    <3>1. \A i \in 1 .. L - 4 : i + 2 \in 3 .. L - 2
      BY <1>1
    <3> QED  BY <1>4, <1>5, <1>7, <3>1
  <2>2. path = SubSeq(rxbuf, 3, L - 2)
    <3> HIDE DEF L
    <3>1. end - 1 = L - 2
      BY <1>1, <1>7
    <3> QED  BY <1>a, <3>1, Zenon
  <2>3. /\ path \in Seq(Token) /\ Len(path) = L - 2 - 3 + 1
        /\ \A i \in 1 .. Len(path) : path[i] = rxbuf[3 + i - 1]
    <3> HIDE DEF L, path
    <3>1. L - 2 \in Int /\ L - 2 <= Len(rxbuf) /\ 3 \in Nat /\ 3 >= 1 /\ 3 - 1 <= L - 2
      BY <1>1
    <3> QED  BY <1>3, <2>2, <3>1, PartIs
  <2> HIDE DEF t, L, path, args
  <2>4. Len(path) = L - 4
    BY <1>1, <2>3
  <2>5. \A i \in 1 .. L - 4 : path[i] = t[i]
    <3>1. \A i \in 1 .. L - 4 : 3 + i - 1 = i + 2
      BY <1>1
    <3> QED  BY <1>4, <2>3, <2>4, <3>1
  <2>6. path = t
    BY <1>4, <2>3, <2>4, <2>5, SeqEqual
  <2> QED  BY <1>6, <2>1, <2>6
<1>8. CASE mark \in 3 .. L - 2 /\ rxbuf[mark] = "?"
  <2>1. end = mark
    <3> HIDE DEF L
    <3>1. ~(mark = 0 \/ mark > L - 1)
      BY <1>1, <1>8
    <3> QED  BY <3>1 DEF PathEnd, L
  <2>2. path = SubSeq(rxbuf, 3, mark - 1) /\ args = SubSeq(rxbuf, mark + 1, L - 2)
    <3>1. r.args = mark + 1
      BY <2>1
    <3> QED  BY <1>a, <2>1, <3>1, Zenon
  <2>3. /\ path \in Seq(Token) /\ Len(path) = mark - 1 - 3 + 1
        /\ \A i \in 1 .. Len(path) : path[i] = rxbuf[3 + i - 1]
    <3> HIDE DEF L, path
    <3>1. mark - 1 \in Int /\ mark - 1 <= Len(rxbuf) /\ 3 \in Nat /\ 3 >= 1 /\ 3 - 1 <= mark - 1
      BY <1>1, <1>8
    <3> QED  BY <1>3, <2>2, <3>1, PartIs
  <2>4. /\ args \in Seq(Token)
        /\ Len(args) = L - 2 - (mark + 1) + 1
        /\ \A i \in 1 .. Len(args) : args[i] = rxbuf[mark + 1 + i - 1]
    <3> HIDE DEF L, args
    <3>1. L - 2 \in Int /\ L - 2 <= Len(rxbuf) /\ mark + 1 \in Nat /\ mark + 1 >= 1 /\ mark + 1 - 1 <= L - 2
      BY <1>1, <1>8
    <3>2. mark \in Nat /\ mark <= L - 2 /\ L - 2 <= Len(rxbuf) /\ L \in Nat
      BY <1>1, <1>8
    <3>3. PICK m \in Nat : m = mark + 1
      BY <3>2
    <3>4. PICK n \in Int : n = L - 2
      BY <3>2
    <3>5. n <= Len(rxbuf) /\ m >= 1 /\ m - 1 <= n
      BY <3>2, <3>3, <3>4
    <3>6. rxbuf \in Seq(Token) /\ args = SubSeq(rxbuf, m, n)
      BY <1>3, <2>2, <3>3, <3>4, Zenon
    <3>7. /\ args \in Seq(Token) /\ Len(args) = n - m + 1
          /\ \A i \in 1 .. Len(args) : args[i] = rxbuf[m + i - 1]
      BY <3>5, <3>6, PartIs
    <3> QED  BY <3>3, <3>4, <3>7, Zenon
  <2> HIDE DEF t, L, path, args
  <2>5. mark \in Nat /\ mark >= 3 /\ mark <= L - 2
    BY <1>1, <1>8
  <2>6. Len(path) = mark - 3 /\ Len(args) = L - 2 - mark
    BY <1>1, <2>3, <2>4, <2>5, AroundMark, Zenon
  <2> DEFINE u == path \o <<"?">> \o args
  <2>7. "?" \in Token
    BY <1>1, <1>3, <1>8, <2>5
  <2>8. path \o <<"?">> \in Seq(Token) /\ <<"?">> \in Seq(Token)
    BY <2>3, <2>7
  <2> DEFINE w == path \o <<"?">>
  <2>9. /\ Len(w) = mark - 2
        /\ \A i \in 1 .. mark - 3 : w[i] = path[i]
        /\ w[mark - 2] = "?"
    <3>1. <<"?">> \in Seq(Token) /\ Len(<<"?">>) = 1 /\ <<"?">>[1] = "?"
      BY <2>8
    <3> DEFINE e == <<"?">>
    <3> HIDE DEF e
    <3>2. e \in Seq(Token) /\ Len(e) = 1 /\ e[1] = "?"
      BY <3>1 DEF e
    <3>3. /\ Len(path \o e) = Len(path) + 1
          /\ \A i \in 1 .. Len(path) + 1 : (path \o e)[i] = IF i <= Len(path) THEN path[i] ELSE e[i - Len(path)]
      <4>1. path \in Seq(Token)
        BY <2>3
      <4>2. /\ Len(path \o e) = Len(path) + Len(e)
            /\ \A i \in 1 .. Len(path) + Len(e) :
                 (path \o e)[i] = IF i <= Len(path) THEN path[i] ELSE e[i - Len(path)]
        BY <3>2, <4>1, ConcatProperties
      <4> QED  BY <3>2, <4>2, Zenon
    <3>4. w = path \o e
      BY DEF e
    <3> HIDE DEF w
    <3>5. Len(w) = mark - 2 /\ \A i \in 1 .. mark - 3 : w[i] = path[i]
      BY <2>5, <2>6, <3>3, <3>4
    <3>6. mark - 2 \in 1 .. Len(path) + 1 /\ ~(mark - 2 <= Len(path)) /\ mark - 2 - Len(path) = 1
      BY <2>5, <2>6
    <3>7. w[mark - 2] = e[1]
      BY <3>3, <3>4, <3>6
    <3> QED  BY <3>2, <3>5, <3>7
  <2> HIDE DEF w
  <2>10. w \in Seq(Token) /\ u = w \o args
    BY <2>8 DEF w
  <2> HIDE DEF u
  <2>11. /\ u \in Seq(Token) /\ Len(u) = Len(w) + Len(args)
         /\ \A i \in 1 .. Len(w) + Len(args) : u[i] = IF i <= Len(w) THEN w[i] ELSE args[i - Len(w)]
    BY <2>4, <2>10, ConcatProperties
  <2>12. Len(u) = L - 4 /\ Len(w) + Len(args) = L - 4
    <3>1. Len(w) + Len(args) = mark - 2 + (L - 2 - mark) /\ Len(u) = Len(w) + Len(args)
      BY <2>6, <2>9, <2>11, Zenon
    <3>2. mark - 2 + (L - 2 - mark) = L - 4
      BY <1>1, <2>5, AroundMark
    <3> QED  BY <3>1, <3>2, Zenon
  <2>13. ASSUME NEW i \in 1 .. L - 4 PROVE u[i] = t[i]
    <3>1. t[i] = rxbuf[i + 2] /\ i \in Nat /\ i >= 1 /\ i <= L - 4
      BY <1>1, <1>4
    <3>2. u[i] = IF i <= mark - 2 THEN w[i] ELSE args[i - (mark - 2)]
      <4>1. i \in 1 .. Len(w) + Len(args)
        BY <2>12, Zenon
      <4>2. u[i] = IF i <= Len(w) THEN w[i] ELSE args[i - Len(w)]
        BY <2>11, <4>1, Zenon
      <4> QED  BY <2>9, <4>2, Zenon
    <3>3. CASE i <= mark - 3
      <4>1. u[i] = w[i] /\ i \in 1 .. mark - 3 /\ 3 + i - 1 = i + 2
        BY <2>5, <3>1, <3>2, <3>3
      <4>2. w[i] = path[i] /\ path[i] = rxbuf[3 + i - 1]
        BY <2>3, <2>6, <2>9, <4>1
      <4> QED  BY <3>1, <4>1, <4>2
    <3>4. CASE i = mark - 2
      <4>1. u[i] = w[mark - 2] /\ i + 2 = mark
        BY <2>5, <3>1, <3>2, <3>4
      <4> QED  BY <1>8, <2>9, <3>1, <4>1
    <3>5. CASE i > mark - 2
      <4> DEFINE j == i - (mark - 2)
      <4>0. ~(i <= mark - 2)
        BY <2>5, <3>1, <3>5
      <4>1. u[i] = args[j] /\ j \in 1 .. L - 2 - mark /\ mark + 1 + j - 1 = i + 2
        <5>1. u[i] = args[j]
          BY <3>2, <4>0, Zenon
        <5>2. j \in 1 .. L - 2 - mark /\ mark + 1 + j - 1 = i + 2
          BY <1>1, <2>5, <3>5, AroundMark, Zenon
        <5> QED  BY <5>1, <5>2
      <4> HIDE DEF j
      <4>2. args[j] = rxbuf[mark + 1 + j - 1]
        BY <2>4, <2>6, <4>1
      <4> QED  BY <3>1, <4>1, <4>2
    <3>6. i <= mark - 3 \/ i = mark - 2 \/ i > mark - 2
      BY <2>5, <3>1
    <3> QED  BY <3>3, <3>4, <3>5, <3>6
  <2>14. u = t
    BY <1>4, <2>11, <2>12, <2>13, SeqEqual
  <2>15. "?" \in {t[n] : n \in DOMAIN t}
    <3>1. mark - 2 \in 1 .. L - 4 /\ mark - 2 + 2 = mark
      BY <1>1, <2>5
    <3>2. t[mark - 2] = "?"
      BY <1>4, <1>8, <3>1
    <3> QED  BY <1>5, <3>1, <3>2
  <2> QED  BY <1>6, <2>14, <2>15 DEF u
<1> QED  BY <1>2, <1>7, <1>8

-----------------------------------------------------------------------------
(* The header lines.                                                         *)

Fields == {"path", "args", "eos"}

\* What a header line sets leaves the target, and the connection's fate to
\* Connection lines.
LEMMA SetsOnly ==
  ASSUME NEW r, Fields \subseteq DOMAIN r, NEW name, NEW value
  PROVE  /\ Fields \subseteq DOMAIN Sets(r, name, value)
         /\ Sets(r, name, value).path = r.path /\ Sets(r, name, value).args = r.args
         /\ Sets(r, name, value).eos =
              IF name = "Connection:" /\ value \in {"close", "keep-alive"}
              THEN value = "close" ELSE r.eos
<1> DEFINE s == Sets(r, name, value)
<1>0. {"path", "args", "eos"} \subseteq DOMAIN r
  BY DEF Fields
<1>1. CASE name = "Connection:" /\ value \in {"close", "keep-alive"}
  <2>1. s = [r EXCEPT !.eos = (value = "close")]
    BY <1>1 DEF Sets
  <2> HIDE DEF s
  <2>2. DOMAIN s = DOMAIN r /\ s.path = r.path /\ s.args = r.args /\ s.eos = (value = "close")
    BY <1>0, <2>1
  <2> QED  BY <1>1, <2>2 DEF s
<1>2. CASE ~(name = "Connection:" /\ value \in {"close", "keep-alive"})
  <2>1. \/ s = r
        \/ s = [r EXCEPT !.ranged = TRUE]
        \/ s = [r EXCEPT !.entlen = 7, !.txenc = "identity"]
        \/ s = [r EXCEPT !.entlen = 0]
        \/ s = [r EXCEPT !.txenc = value]
    BY <1>2 DEF Sets
  <2> HIDE DEF s
  <2>2. DOMAIN s = DOMAIN r /\ s.path = r.path /\ s.args = r.args /\ s.eos = r.eos
    BY <1>0, <2>1
  <2> QED  BY <1>2, <2>2 DEF s
<1> QED  BY <1>1, <1>2

\* The Connection lines up to the k-th line that decide, and what they decide.
DecidingUpTo(k) ==
  {n \in 2 .. k : /\ n < Len(sent) /\ Len(sent[n]) > 1 /\ sent[n][1] = "Connection:"
                  /\ ValueOf(sent[n]) \in {"close", "keep-alive"}}
EosIs(k) ==
  IF DecidingUpTo(k) = {} THEN req.eos = (sent[1][Len(sent[1])] # "HTTP/1.1")
  ELSE \E n \in DecidingUpTo(k) : /\ \A m \in DecidingUpTo(k) : m <= n
                                   /\ req.eos = (ValueOf(sent[n]) = "close")

\* No Range line up to the k-th line is malformed.
RangesGood(k) ==
  \A n \in 2 .. k : n < Len(sent) /\ sent[n][1] = "Range:" => ValueOf(sent[n]) = "bytes=0-1"

\* k lines have been read.
Read(k) ==
  /\ pos = IF k = Len(sent) THEN 0 ELSE LineEnd(k)
  /\ seen = {LineEnd(n) + 1 : n \in 1 .. k - 1}
  /\ EosIs(k) /\ RangesGood(k)

\* What the next line decides, or does not.
LEMMA DecidesNext ==
  ASSUME Len(sent) \in Nat, NEW k \in 1 .. Len(sent) - 1, EosIs(k), sent' = sent,
         NEW decides \in BOOLEAN,
         decides <=> k + 1 \in DecidingUpTo(k + 1),
         req'.eos = IF decides THEN ValueOf(sent[k + 1]) = "close" ELSE req.eos
  PROVE  EosIs(k + 1)'
<1> DEFINE D == DecidingUpTo(k)
           E == DecidingUpTo(k + 1)
<1>1. k \in Nat /\ k + 1 \in Nat /\ k >= 1
  OBVIOUS
<1>2. \A n \in E : n = k + 1 \/ n \in D
  <2> SUFFICES ASSUME NEW n \in E, n # k + 1 PROVE n \in D
    OBVIOUS
  <2>1. n \in 2 .. k
    BY <1>1 DEF DecidingUpTo
  <2> QED  BY <2>1 DEF DecidingUpTo
<1>3. D \subseteq E /\ \A n \in D : n \in Nat /\ n <= k
  <2>1. \A n \in 2 .. k : n \in 2 .. k + 1 /\ n \in Nat /\ n <= k
    BY <1>1
  <2> QED  BY <2>1 DEF DecidingUpTo
<1>4. IF D = {} THEN req.eos = (sent[1][Len(sent[1])] # "HTTP/1.1")
      ELSE \E n \in D : (\A m \in D : m <= n) /\ req.eos = (ValueOf(sent[n]) = "close")
  BY DEF EosIs
<1>5. EosIs(k + 1)' <=>
        IF E = {} THEN req'.eos = (sent[1][Len(sent[1])] # "HTTP/1.1")
        ELSE \E n \in E : (\A m \in E : m <= n) /\ req'.eos = (ValueOf(sent[n]) = "close")
  BY Zenon DEF EosIs, DecidingUpTo
<1> HIDE DEF D, E
<1>6. CASE decides
  <2>1. k + 1 \in E /\ req'.eos = (ValueOf(sent[k + 1]) = "close")
    BY <1>6 DEF E
  <2>2. \A m \in E : m <= k + 1
    BY <1>1, <1>2, <1>3
  <2> QED  BY <1>5, <2>1, <2>2, Zenon
<1>7. CASE ~decides
  <2>1. E = D
    <3>1. k + 1 \notin E
      BY <1>7 DEF E
    <3> QED  BY <1>2, <1>3, <3>1
  <2>2. req'.eos = req.eos
    BY <1>7
  <2> QED  BY <1>4, <1>5, <2>1, <2>2, Zenon
<1> QED  BY <1>6, <1>7

-----------------------------------------------------------------------------
(* The invariant of the parser.                                              *)

ParseInv ==
  /\ Laid
  /\ Fields \subseteq DOMAIN req
  /\ parsing \in {"request", "headers", "done", "malformed"}
  /\ parsing = "request" => seen = {}
  /\ WellFormed =>
       /\ parsing = "headers" => Targeted(req) /\ \E k \in 1 .. Len(sent) : Read(k)
       /\ parsing = "done" => Read(Len(sent))
       /\ seen \subseteq LineStarts \cup {Terminator}

\* What does not change with the request and the buffer.
LEMMA SameRequest ==
  sent' = sent /\ rxbuf' = rxbuf =>
    /\ Laid' <=> Laid
    /\ WellFormed' <=> WellFormed
    /\ LineStarts' = LineStarts /\ Terminator' = Terminator
<1> HAVE sent' = sent /\ rxbuf' = rxbuf
<1>1. Terminator' = Terminator
  BY DEF Terminator
<1>2. LineStarts' = LineStarts
  BY <1>1 DEF LineStarts
<1>3. WellFormed' <=> WellFormed
  BY Zenon DEF WellFormed
<1>4. Laid' <=> Laid
  BY Zenon DEF Laid, Sendable, LineEnd
<1> QED  BY <1>1, <1>2, <1>3, <1>4

\* Requests are what clients send.
LEMMA RequestsSendable ==
  ASSUME NEW first \in RequestLines, NEW lines \in BoundedSeq(HeaderLines, MaxLines),
         NEW last \in LastLines, sent = <<first>> \o lines \o <<last>>
  PROVE  Sendable
<1> DEFINE T == Seq(Token \ {LF})
<1>1. /\ RequestLines \subseteq T /\ HeaderLines \subseteq T \ {<<>>}
      /\ LastLines \subseteq {line \in T : Len(line) <= 1} /\ MaxLines \in Nat
  BY ReqParseAssumption
<1> HIDE DEF T
<1>2. lines \in Seq(HeaderLines)
  <2>1. PICK m \in 0 .. MaxLines : lines \in [1 .. m -> HeaderLines]
    BY DEF BoundedSeq, SeqOf
  <2>2. m \in Nat
    BY <1>1
  <2> QED  BY <2>1, <2>2
<1>3. first \in T /\ last \in T /\ Len(last) <= 1 /\ HeaderLines \subseteq T
  BY <1>1
<1>4. lines \in Seq(T)
  BY <1>2, <1>3, SeqMonotonic
<1>5. <<first>> \in Seq(T) /\ Len(<<first>>) = 1
  BY <1>3
<1> DEFINE f == <<first>>
<1> HIDE DEF f
<1>6. f \in Seq(T) /\ Len(f) = 1 /\ sent = f \o lines \o <<last>>
  BY <1>5 DEF f
<1>7. /\ f \o lines \o <<last>> \in Seq(T)
      /\ Len(f \o lines \o <<last>>) = Len(f) + Len(lines) + 1
      /\ \A i \in 1 .. Len(lines) : (f \o lines \o <<last>>)[Len(f) + i] = lines[i]
      /\ (f \o lines \o <<last>>)[Len(f) + Len(lines) + 1] = last
  BY <1>3, <1>4, <1>6, OneLineMore
<1>8. /\ sent \in Seq(T) /\ Len(sent) = 1 + Len(lines) + 1
      /\ \A i \in 1 .. Len(lines) : sent[1 + i] = lines[i]
      /\ sent[1 + Len(lines) + 1] = last
  BY <1>6, <1>7, Zenon
<1>9. Len(lines) \in Nat /\ \A i \in 1 .. Len(lines) : lines[i] \in HeaderLines
  BY <1>2
<1>10. Len(sent) >= 2 /\ sent[Len(sent)] = last
  BY <1>8, <1>9
<1>11. ASSUME NEW n \in 2 .. Len(sent) - 1 PROVE sent[n] # <<>>
  <2> DEFINE i == n - 1
  <2>1. i \in 1 .. Len(lines) /\ 1 + i = n
    BY <1>8, <1>9
  <2> HIDE DEF i
  <2>2. sent[n] \in HeaderLines
    BY <1>8, <1>9, <2>1
  <2> QED  BY <1>1, <2>2
<1> QED  BY <1>3, <1>8, <1>10, <1>11 DEF Sendable, T

\* A request that comes satisfies the invariant.
LEMMA InitParseInv == ParseInit => ParseInv
<1> SUFFICES ASSUME ParseInit PROVE ParseInv
  OBVIOUS
<1>1. PICK lines \in Requests, behind \in Behind : ParseStarts(lines, behind)
  BY DEF ParseInit
<1> DEFINE Request(first, hs, last) == <<first>> \o hs \o <<last>>
           Heads == BoundedSeq(HeaderLines, MaxLines)
<1>2. PICK first \in RequestLines, hs \in Heads, last \in LastLines : lines = Request(first, hs, last)
  <2>1. Requests = {Request(first, hs, last) :
                      first \in RequestLines, hs \in Heads, last \in LastLines}
    BY DEF Requests
  <2> HIDE DEF Request, Heads
  <2> QED  BY <1>1, <2>1
<1>3. sent = lines /\ rxbuf = Header(sent) \o behind \o <<ZERO>>
  BY <1>1 DEF ParseStarts
<1>4. Sendable
  BY <1>2, <1>3, RequestsSendable
<1>5. behind \in Seq(Token)
  BY ReqParseAssumption
<1>6. Laid
  BY <1>3, <1>4, <1>5, StartsLaid
<1>7. Fields \subseteq DOMAIN req
  <2>1. req = NoRequest
    BY <1>1 DEF ParseStarts
  <2> QED  BY <2>1 DEF NoRequest, Fields
<1>8. parsing = "request" /\ seen = {}
  BY <1>1 DEF ParseStarts
<1> QED  BY <1>6, <1>7, <1>8 DEF ParseInv

\* The request line: its target, and what its version says of the connection.
LEMMA RequestLineKeeps == ParseInv /\ RequestLine => ParseInv'
<1> SUFFICES ASSUME ParseInv, RequestLine PROVE ParseInv'
  OBVIOUS
<1> DEFINE blank == Found(Blank, PathStart)
           mark  == Found("?", PathStart)
           end   == PathEnd(blank, mark)
           v11   == rxbuf[blank + 1] = "HTTP/1.1"
<1>1. /\ parsing = "request" /\ parsing' = "headers" /\ sent' = sent /\ rxbuf' = rxbuf
      /\ seen' = seen /\ pos' = Found(LF, SearchStart(blank))
      /\ req' = [req EXCEPT
                    !.method = IF rxbuf[1] \in Methods THEN rxbuf[1] ELSE "none",
                    !.path = <<PathStart, end - 1>>,
                    !.args = IF end = mark THEN mark + 1 ELSE end,
                    !.version = IF v11 THEN "1.1" ELSE "1.0",
                    !.eos = ~v11]
  BY DEF RequestLine
<1>2. Laid /\ seen = {} /\ {"path", "args", "eos"} \subseteq DOMAIN req
  BY <1>1 DEF ParseInv, Fields
<1> DEFINE start == PathStart
<1>3. /\ DOMAIN req' = DOMAIN req /\ req'.path = <<start, end - 1>>
      /\ req'.args = (IF end = mark THEN mark + 1 ELSE end) /\ req'.eos = ~v11
  <2> HIDE DEF blank, mark, end, v11, start
  <2>1. req' = [req EXCEPT
                    !.method = IF rxbuf[1] \in Methods THEN rxbuf[1] ELSE "none",
                    !.path = <<start, end - 1>>,
                    !.args = IF end = mark THEN mark + 1 ELSE end,
                    !.version = IF v11 THEN "1.1" ELSE "1.0",
                    !.eos = ~v11]
    BY <1>1 DEF start
  <2> QED  BY <1>2, <2>1
<1> HIDE DEF start
<1>4. /\ Laid' /\ (WellFormed' <=> WellFormed)
      /\ LineStarts' = LineStarts /\ Terminator' = Terminator
  <2>1. sent' = sent /\ rxbuf' = rxbuf /\ Laid
    BY <1>1, <1>2
  <2> HIDE DEF blank, mark, end, v11
  <2> QED  BY <2>1, SameRequest, Zenon
<1>5. ASSUME WellFormed
      PROVE  Targeted(req)' /\ Read(1)'
  <2> DEFINE L == Len(sent[1])
  <2>1. /\ blank = L - 1 /\ Found(LF, SearchStart(L - 1)) = LineEnd(1)
        /\ rxbuf[L - 1 + 1] = sent[1][L]
    BY <1>2, <1>5, TargetFound
  <2>2. start = 3
    BY <1>2, <1>5, FirstLine DEF start
  <2>3. end = PathEnd(L - 1, mark)
    BY <2>1
  <2>4. Targeted(req')
    <3>1. mark = Found("?", PathStart)
      OBVIOUS
    <3> HIDE DEF mark, end, L
    <3> QED  BY <1>2, <1>3, <1>5, <2>2, <2>3, <3>1, TargetTaken DEF L
  <2>5. Targeted(req)'
    BY <1>1, <2>4 DEF Targeted, Target
  <2>6. Len(sent) \in Nat /\ Len(sent) >= 2
    BY <1>2 DEF Laid, Sendable
  <2>7. pos' = LineEnd(1)
    BY <1>1, <2>1
  <2>8. req'.eos = (sent[1][L] # "HTTP/1.1")
    BY <1>3, <2>1
  <2>9. EosIs(1)'
    <3>1. DecidingUpTo(1)' = {}
      BY DEF DecidingUpTo
    <3> QED  BY <1>1, <2>8, <3>1 DEF EosIs
  <2>10. RangesGood(1)'
    BY DEF RangesGood
  <2>11. seen' = {LineEnd(n)' + 1 : n \in 1 .. 1 - 1}
    BY <1>1, <1>2
  <2>12. pos' = IF 1 = Len(sent') THEN 0 ELSE LineEnd(1)'
    <3>1. \A n \in Nat : n >= 2 => 1 # n
      OBVIOUS
    <3>2. 1 # Len(sent)
      BY <2>6, <3>1, Zenon
    <3> QED  BY <1>1, <2>7, <3>2 DEF LineEnd
  <2> QED  BY <2>5, <2>9, <2>10, <2>11, <2>12 DEF Read
<1>6. Fields \subseteq DOMAIN req'
  BY <1>2, <1>3 DEF Fields
<1>7. WellFormed => \E k \in 1 .. Len(sent') : Read(k)'
  <2> SUFFICES ASSUME WellFormed PROVE \E k \in 1 .. Len(sent') : Read(k)'
    OBVIOUS
  <2>1. 1 \in 1 .. Len(sent')
    BY <1>1, <1>2 DEF Laid, Sendable
  <2>2. Read(1)'
    BY <1>5
  <2> QED  BY <2>1, <2>2
<1> HIDE DEF blank, mark, end, v11
<1> QED  BY <1>1, <1>2, <1>4, <1>5, <1>6, <1>7 DEF ParseInv
\* A request line without a target.
LEMMA NoTargetKeeps == ParseInv /\ NoTarget => ParseInv'
<1> SUFFICES ASSUME ParseInv, NoTarget PROVE ParseInv'
  OBVIOUS
<1>1. /\ parsing = "request" /\ parsing' = "malformed"
      /\ sent' = sent /\ rxbuf' = rxbuf /\ req' = req /\ seen' = seen
  BY DEF NoTarget
<1>2. Laid'
  BY <1>1, SameRequest DEF ParseInv
<1>3. Fields \subseteq DOMAIN req' /\ seen' = {}
  BY <1>1 DEF ParseInv, Fields
<1> QED  BY <1>1, <1>2, <1>3 DEF ParseInv

\* A line that is read, and not refused, is one line more.
LEMMA LineRead ==
  ASSUME Laid, WellFormed, Fields \subseteq DOMAIN req, NEW k \in 1 .. Len(sent) - 1, Read(k),
         HeaderLine, parsing' = "headers"
  PROVE  Read(k + 1)'
<1> DEFINE p == LineEnd(k) + 1
           v == ValueAt(p)
           name == rxbuf[p]
           value == rxbuf[v]
           N == Len(sent)
<1>1. /\ N \in Nat /\ N >= 2 /\ k \in Nat /\ k >= 1 /\ k < N /\ k + 1 \in 1 .. N
      /\ k # N
  BY DEF Laid, Sendable
<1>2. pos = LineEnd(k) /\ EosIs(k) /\ RangesGood(k) /\ seen = {LineEnd(n) + 1 : n \in 1 .. k - 1}
  BY <1>1 DEF Read
<1>3. /\ sent' = sent /\ rxbuf' = rxbuf /\ seen' = seen \cup {p}
      /\ ~BadRange(name, value) /\ req' = Sets(req, name, value)
      /\ pos' = Found(LF, v)
  <2>1. pos + 1 = p
    BY <1>2
  <2> HIDE DEF p
  <2> QED  BY <2>1 DEF HeaderLine
<1>4. NoNulls
  BY DEF WellFormed, NoNulls
<1>5. /\ Found(LF, v) = IF k + 1 = N THEN 0 ELSE LineEnd(k + 1)
      /\ k + 1 < N => /\ name = sent[k + 1][1]
                      /\ name \in Names => \/ value = LF /\ ValueOf(sent[k + 1]) = Blank
                                           \/ value = ValueOf(sent[k + 1])
      /\ k + 1 = N /\ name \in Names => value = ZERO
  BY <1>4, ReadLine
<1> HIDE DEF p, v, name, value
<1>6. pos' = IF k + 1 = Len(sent') THEN 0 ELSE LineEnd(k + 1)'
  BY <1>3, <1>5 DEF LineEnd
<1>7. seen' = {LineEnd(n)' + 1 : n \in 1 .. k + 1 - 1}
  <2>1. \A n \in 1 .. k + 1 - 1 : n \in 1 .. k - 1 \/ n = k
    BY <1>1
  <2>2. \A n \in 1 .. k - 1 : n \in 1 .. k + 1 - 1
    BY <1>1
  <2>3. k \in 1 .. k + 1 - 1
    BY <1>1
  <2>4. seen' = {LineEnd(n) + 1 : n \in 1 .. k + 1 - 1}
    <3> DEFINE E(n) == LineEnd(n) + 1
    <3>1. seen' = {E(n) : n \in 1 .. k - 1} \cup {E(k)}
      BY <1>2, <1>3 DEF p
    <3> HIDE DEF E
    <3>2. seen' = {E(n) : n \in 1 .. k + 1 - 1}
      BY <2>1, <2>2, <2>3, <3>1
    <3> QED  BY <3>2 DEF E
  <2> QED  BY <1>3, <2>4 DEF LineEnd
<1>8. Len(sent[k + 1]) \in Nat /\ (k + 1 < N => Len(sent[k + 1]) >= 1)
  <2>1. Len(sent[k + 1]) \in Nat
    BY <1>1 DEF Laid, Sendable
  <2>2. k + 1 < N => k + 1 \in 2 .. Len(sent) - 1
    BY <1>1
  <2>3. k + 1 < N => sent[k + 1] # <<>> /\ sent[k + 1] \in Seq(Token \ {LF})
    BY <1>1, <2>2 DEF Laid, Sendable
  <2> QED  BY <2>1, <2>3
<1>9. {"close", "keep-alive"} \cap {LF, ZERO, Blank} = {} /\ "bytes=0-1" \notin {LF, ZERO, Blank}
  BY DEF LF, ZERO, Blank
<1>10. "Connection:" \in Names /\ "Range:" \in Names
  BY DEF Names
<1> DEFINE decides == name = "Connection:" /\ value \in {"close", "keep-alive"}
<1>11. decides => k + 1 < N /\ value = ValueOf(sent[k + 1])
  <2>1. decides => value # LF /\ value # ZERO
    BY <1>9
  <2>2. k + 1 < N \/ k + 1 = N
    BY <1>1
  <2> QED  BY <1>5, <1>10, <2>1, <2>2
<1>12. Len(sent[k + 1]) = 1 => ValueOf(sent[k + 1]) = Blank
  <2> SUFFICES ASSUME Len(sent[k + 1]) = 1 PROVE ValueOf(sent[k + 1]) = Blank
    OBVIOUS
  <2> DEFINE rest == {n \in 2 .. Len(sent[k + 1]) : sent[k + 1][n] # Blank}
  <2>1. rest = {}
    OBVIOUS
  <2> QED  BY <2>1 DEF ValueOf
<1>13. decides <=> k + 1 \in DecidingUpTo(k + 1)
  <2>1. ASSUME decides PROVE k + 1 \in DecidingUpTo(k + 1)
    <3>1. k + 1 \in 2 .. k + 1 /\ k + 1 < N
      BY <1>1, <1>11, <2>1
    <3>2. sent[k + 1][1] = "Connection:" /\ ValueOf(sent[k + 1]) \in {"close", "keep-alive"}
      BY <1>5, <1>11, <2>1
    <3>3. Len(sent[k + 1]) > 1
      <4>1. Len(sent[k + 1]) # 1
        BY <1>9, <1>12, <3>2
      <4>2. Len(sent[k + 1]) \in Nat /\ Len(sent[k + 1]) >= 1
        BY <1>8, <3>1
      <4>3. \A l \in Nat : l >= 1 /\ l # 1 => l > 1
        OBVIOUS
      <4> QED  BY <4>1, <4>2, <4>3, Zenon
    <3> HIDE DEF decides
    <3> QED  BY <3>1, <3>2, <3>3 DEF DecidingUpTo
  <2>2. ASSUME k + 1 \in DecidingUpTo(k + 1) PROVE decides
    <3>1. /\ k + 1 < N /\ sent[k + 1][1] = "Connection:"
          /\ ValueOf(sent[k + 1]) \in {"close", "keep-alive"}
      BY <2>2 DEF DecidingUpTo
    <3>2. name = "Connection:"
      BY <1>5, <3>1
    <3>3. ValueOf(sent[k + 1]) # Blank
      BY <1>9, <3>1
    <3>4. value = ValueOf(sent[k + 1])
      BY <1>5, <1>10, <3>1, <3>2, <3>3
    <3> QED  BY <3>1, <3>2, <3>4
  <2> QED  BY <2>1, <2>2
<1>14. req'.eos = IF decides THEN ValueOf(sent[k + 1]) = "close" ELSE req.eos
  <2>1. Sets(req, name, value).eos = IF decides THEN value = "close" ELSE req.eos
    BY SetsOnly
  <2> HIDE DEF decides
  <2> QED  BY <1>3, <1>11, <2>1
<1>15. EosIs(k + 1)'
  <2> HIDE DEF decides
  <2>1. decides \in BOOLEAN
    BY DEF decides
  <2>2. sent' = sent
    BY <1>3
  <2> QED  BY <1>1, <1>2, <1>13, <1>14, <2>1, <2>2, DecidesNext
<1>16. RangesGood(k + 1)'
  <2> SUFFICES ASSUME NEW n \in 2 .. k + 1, n < N, sent[n][1] = "Range:"
               PROVE  ValueOf(sent[n]) = "bytes=0-1"
    <3>1. RangesGood(k + 1)' <=>
            \A n \in 2 .. k + 1 : n < Len(sent') /\ sent'[n][1] = "Range:" => ValueOf(sent'[n]) = "bytes=0-1"
      BY Zenon DEF RangesGood
    <3> QED  BY <1>3, <3>1
  <2>1. CASE n \in 2 .. k
    BY <1>2, <2>1 DEF RangesGood
  <2>2. CASE n = k + 1
    <3>1. name = "Range:" /\ name \in Names
      BY <1>5, <1>10, <2>2
    <3>2. value = "bytes=0-1"
      BY <1>3, <3>1 DEF BadRange
    <3> QED  BY <1>5, <1>9, <2>2, <3>1, <3>2
  <2> QED  BY <1>1, <2>1, <2>2
<1> QED  BY <1>6, <1>7, <1>15, <1>16 DEF Read
\* A header line: it is read, or refuses the request.
LEMMA HeaderLineKeeps == ParseInv /\ HeaderLine => ParseInv'
<1> SUFFICES ASSUME ParseInv, HeaderLine PROVE ParseInv'
  OBVIOUS
<1>1. /\ parsing = "headers" /\ pos # 0 /\ parsing' \in {"headers", "malformed"}
      /\ sent' = sent /\ rxbuf' = rxbuf /\ seen' = seen \cup {pos + 1}
  BY DEF HeaderLine
<1>2. Laid /\ Fields \subseteq DOMAIN req
  BY DEF ParseInv
<1>3. /\ Laid' /\ (WellFormed' <=> WellFormed)
      /\ LineStarts' = LineStarts /\ Terminator' = Terminator
  BY <1>1, <1>2, SameRequest
<1> DEFINE name == rxbuf[pos + 1]
           value == rxbuf[ValueAt(pos + 1)]
<1>4. \/ parsing' = "malformed" /\ req' = [req EXCEPT !.path = <<0, 0>>, !.args = 0]
      \/ parsing' = "headers" /\ req' = Sets(req, name, value)
  BY <1>1 DEF HeaderLine
<1> HIDE DEF name, value
<1>5. Fields \subseteq DOMAIN req'
  <2>1. Fields \subseteq DOMAIN Sets(req, name, value)
    BY <1>2, SetsOnly
  <2>2. DOMAIN [req EXCEPT !.path = <<0, 0>>, !.args = 0] = DOMAIN req
    OBVIOUS
  <2> QED  BY <1>2, <1>4, <2>1, <2>2
<1>6. ASSUME WellFormed
      PROVE  /\ seen' \subseteq LineStarts' \cup {Terminator'}
             /\ parsing' = "headers" => Targeted(req)' /\ \E k \in 1 .. Len(sent') : Read(k)'
  <2>1. PICK k \in 1 .. Len(sent) : Read(k)
    BY <1>1, <1>6 DEF ParseInv
  <2>2. k # Len(sent) /\ pos = LineEnd(k)
    BY <1>1, <2>1 DEF Read
  <2>3. k \in 1 .. Len(sent) - 1 /\ k + 1 \in 1 .. Len(sent)
    BY <1>2, <2>1, <2>2 DEF Laid, Sendable
  <2>4. seen' \subseteq LineStarts' \cup {Terminator'}
    <3>1. pos + 1 \in LineStarts \cup {Terminator}
      BY <1>2, <2>2, <2>3, StartsAre
    <3>2. seen \subseteq LineStarts \cup {Terminator}
      BY <1>6 DEF ParseInv
    <3> QED  BY <1>1, <1>3, <3>1, <3>2
  <2>5. ASSUME parsing' = "headers"
        PROVE  Targeted(req)' /\ \E m \in 1 .. Len(sent') : Read(m)'
    <3>1. Read(k + 1)'
      BY <1>2, <1>6, <2>1, <2>3, <2>5, LineRead
    <3>2. req'.path = req.path /\ req'.args = req.args
      BY <1>2, <1>4, <2>5, SetsOnly
    <3>3. Targeted(req)
      BY <1>1, <1>6 DEF ParseInv
    <3>4. Targeted(req)'
      BY <1>1, <3>2, <3>3, Zenon DEF Targeted, Target
    <3> QED  BY <1>1, <2>3, <3>1, <3>4
  <2> QED  BY <2>4, <2>5
<1>7. parsing' # "request" /\ parsing' # "done" /\ parsing' \in {"request", "headers", "done", "malformed"}
  BY <1>1
<1> QED  BY <1>3, <1>5, <1>6, <1>7 DEF ParseInv

\* No header line is left.
LEMMA HeadersEndKeeps == ParseInv /\ HeadersEnd => ParseInv'
<1> SUFFICES ASSUME ParseInv, HeadersEnd PROVE ParseInv'
  OBVIOUS
<1>1. /\ parsing = "headers" /\ pos = 0 /\ parsing' = "done"
      /\ sent' = sent /\ rxbuf' = rxbuf /\ req' = req /\ seen' = seen /\ pos' = pos
  BY DEF HeadersEnd
<1>2. Laid /\ Fields \subseteq DOMAIN req
  BY DEF ParseInv
<1>3. /\ Laid' /\ (WellFormed' <=> WellFormed)
      /\ LineStarts' = LineStarts /\ Terminator' = Terminator
  BY <1>1, <1>2, SameRequest
<1>4. ASSUME WellFormed
      PROVE  Read(Len(sent))' /\ seen' \subseteq LineStarts' \cup {Terminator'}
  <2>1. PICK k \in 1 .. Len(sent) : Read(k)
    BY <1>1, <1>4 DEF ParseInv
  <2>2. k = Len(sent)
    <3>1. ASSUME k # Len(sent) PROVE FALSE
      <4>1. LineEnd(k) = 0
        BY <1>1, <2>1, <3>1 DEF Read
      <4>2. LineEnd(k) = LineEnd(k - 1) + Len(sent[k]) + 1 /\ LineEnd(k - 1) \in Nat /\ Len(sent[k]) \in Nat
        BY <1>2, LinePlaces
      <4> QED  BY <4>1, <4>2
    <3> QED  BY <3>1
  <2>3. Read(Len(sent))
    BY <2>1, <2>2
  <2>4. Read(Len(sent))'
    <3>1. \A j : Read(j)' <=> Read(j)
      <4> TAKE j
      <4> QED  BY <1>1, Zenon DEF Read, EosIs, DecidingUpTo, RangesGood, LineEnd
    <3>2. PICK n : n = Len(sent)
      OBVIOUS
    <3>3. Read(n)' /\ n = Len(sent')
      BY <1>1, <2>3, <3>1, <3>2
    <3> QED  BY <3>3
  <2>5. seen \subseteq LineStarts \cup {Terminator}
    BY <1>4 DEF ParseInv
  <2> QED  BY <1>1, <1>3, <2>4, <2>5
<1> QED  BY <1>1, <1>2, <1>3, <1>4 DEF ParseInv

\* Nothing is done.
LEMMA StutterKeeps == ParseInv /\ UNCHANGED parsevars => ParseInv'
<1> SUFFICES ASSUME ParseInv, UNCHANGED parsevars PROVE ParseInv'
  OBVIOUS
<1>1. /\ sent' = sent /\ rxbuf' = rxbuf /\ pos' = pos /\ req' = req
      /\ parsing' = parsing /\ seen' = seen
  BY DEF parsevars
<1>2. Laid /\ Fields \subseteq DOMAIN req
  BY DEF ParseInv
<1>3. /\ Laid' /\ (WellFormed' <=> WellFormed)
      /\ LineStarts' = LineStarts /\ Terminator' = Terminator
  BY <1>1, <1>2, SameRequest
<1>4. \A k : Read(k)' <=> Read(k)
  <2> TAKE k
  <2> QED  BY <1>1, Zenon DEF Read, EosIs, DecidingUpTo, RangesGood, LineEnd
<1>5. Targeted(req)' <=> Targeted(req)
  BY <1>1, Zenon DEF Targeted, Target
<1> QED  BY <1>1, <1>2, <1>3, <1>4, <1>5 DEF ParseInv

\* Every step keeps the invariant.
LEMMA StepParseInv == ParseInv /\ [ParseNext]_parsevars => ParseInv'
<1> SUFFICES ASSUME ParseInv, [ParseNext]_parsevars PROVE ParseInv'
  OBVIOUS
<1>1. CASE NoTarget
  BY <1>1, NoTargetKeeps
<1>2. CASE RequestLine
  BY <1>2, RequestLineKeeps
<1>3. CASE HeaderLine
  BY <1>3, HeaderLineKeeps
<1>4. CASE HeadersEnd
  BY <1>4, HeadersEndKeeps
<1>5. CASE ParseDone \/ UNCHANGED parsevars
  BY <1>5, StutterKeeps DEF ParseDone
<1> QED  BY <1>1, <1>2, <1>3, <1>4, <1>5 DEF ParseNext

\* The parser's invariant, whatever requests come: the header lies in rxbuf line
\* by line, and what mhttp_req_parse has looked at are its first lines, all of
\* them, of which the request holds what the last one to decide said.
THEOREM ParseInvHolds == ParseSpec => []ParseInv
<1>1. ParseInit => ParseInv
  BY InitParseInv
<1>2. ParseInv /\ [ParseNext]_parsevars => ParseInv'
  BY StepParseInv
<1> QED  BY <1>1, <1>2, PTL DEF ParseSpec

\* The header lines are the request's but the first and the last.
LEMMA LinesAre ==
  ASSUME Laid
  PROVE  /\ Len(sent) \in Nat /\ Len(sent) >= 2
         /\ DOMAIN Lines = 1 .. Len(sent) - 2
         /\ \A i \in 1 .. Len(sent) - 2 : Lines[i] = sent[i + 1]
<1> DEFINE N == Len(sent)
<1>1. /\ N \in Nat /\ N >= 2 /\ sent \in Seq(Seq(Token \ {LF}))
  BY DEF Laid, Sendable
<1>2. /\ Lines \in Seq(Seq(Token \ {LF})) /\ Len(Lines) = N - 1 - 2 + 1
      /\ \A i \in 1 .. Len(Lines) : Lines[i] = sent[2 + i - 1]
  <2> DEFINE T == Seq(Token \ {LF})
  <2> HIDE DEF T
  <2>1. sent \in Seq(T)
    BY <1>1 DEF T
  <2>2. PICK n \in Int : n = N - 1
    BY <1>1
  <2>3. n <= Len(sent) /\ 2 - 1 <= n
    BY <1>1, <2>2
  <2>4. Lines = SubSeq(sent, 2, n)
    BY <2>2 DEF Lines
  <2>5. /\ SubSeq(sent, 2, n) \in Seq(T) /\ Len(SubSeq(sent, 2, n)) = n - 2 + 1
        /\ \A i \in 1 .. Len(SubSeq(sent, 2, n)) : SubSeq(sent, 2, n)[i] = sent[2 + i - 1]
    BY <2>1, <2>3, PartIs
  <2> QED  BY <2>2, <2>4, <2>5 DEF T
<1>3. DOMAIN Lines = 1 .. N - 2
  BY <1>1, <1>2
<1>4. \A i \in 1 .. N - 2 : Lines[i] = sent[i + 1]
  <2>1. \A i \in 1 .. N - 2 : 2 + i - 1 = i + 1 /\ i \in 1 .. Len(Lines)
    BY <1>1, <1>2
  <2> QED  BY <1>2, <2>1
<1> QED  BY <1>1, <1>3, <1>4

\* The Connection lines that decide are those that were read.
LEMMA DecidingAre ==
  ASSUME Laid
  PROVE  /\ \A n \in Deciding : n + 1 \in DecidingUpTo(Len(sent)) /\ n \in Nat /\ Lines[n] = sent[n + 1]
         /\ \A n \in DecidingUpTo(Len(sent)) : n - 1 \in Deciding /\ n \in Nat /\ Lines[n - 1] = sent[n]
<1> DEFINE N == Len(sent)
<1>1. N \in Nat /\ N >= 2
  BY LinesAre
<1>3. DOMAIN Lines = 1 .. N - 2
  BY LinesAre
<1>4. \A i \in 1 .. N - 2 : Lines[i] = sent[i + 1]
  BY LinesAre
<1>5. \A n \in 1 .. N - 2 : n \in Nat /\ n + 1 \in 2 .. N /\ n + 1 < N
  BY <1>1
<1>6. \A n \in 2 .. N : n < N => n - 1 \in 1 .. N - 2 /\ n - 1 + 1 = n /\ n \in Nat
  BY <1>1
<1>7. ASSUME NEW n \in Deciding
      PROVE  n + 1 \in DecidingUpTo(N) /\ n \in Nat /\ Lines[n] = sent[n + 1]
  <2>1. /\ n \in 1 .. N - 2 /\ Len(Lines[n]) > 1 /\ Lines[n][1] = "Connection:"
        /\ ValueOf(Lines[n]) \in {"close", "keep-alive"}
    BY <1>3 DEF Deciding
  <2> QED  BY <1>4, <1>5, <2>1 DEF DecidingUpTo
<1>8. ASSUME NEW n \in DecidingUpTo(N)
      PROVE  n - 1 \in Deciding /\ n \in Nat /\ Lines[n - 1] = sent[n]
  <2>1. /\ n \in 2 .. N /\ n < N /\ Len(sent[n]) > 1 /\ sent[n][1] = "Connection:"
        /\ ValueOf(sent[n]) \in {"close", "keep-alive"}
    BY DEF DecidingUpTo
  <2>2. n - 1 \in 1 .. N - 2 /\ Lines[n - 1] = sent[n] /\ n \in Nat
    BY <1>4, <1>6, <2>1
  <2> HIDE DEF N
  <2> QED  BY <1>3, <2>1, <2>2 DEF Deciding
<1> QED  BY <1>7, <1>8
\* What the invariant says of a request: the header is understood.
LEMMA Understood == ParseInv => HeaderUnderstood
<1> SUFFICES ASSUME ParseInv PROVE HeaderUnderstood
  OBVIOUS
<1> DEFINE N == Len(sent)
<1>1. Laid
  BY DEF ParseInv
<1>2. ASSUME WellFormed, parsing = "done"
      PROVE  EosIs(N) /\ RangesGood(N) /\ seen = {LineEnd(n) + 1 : n \in 1 .. N - 1}
  BY <1>2 DEF ParseInv, Read
<1>3. AllLinesSeen
  <2>1. ASSUME WellFormed, parsing = "done" PROVE LineStarts \subseteq seen
    BY <1>1, <1>2, <2>1, StartsAre
  <2>2. WellFormed => seen \subseteq LineStarts \cup {Terminator}
    BY DEF ParseInv
  <2> QED  BY <2>1, <2>2 DEF AllLinesSeen
<1>4. LastConnectionDecides
  <2> SUFFICES ASSUME WellFormed, parsing = "done"
               PROVE  IF Deciding = {} THEN req.eos = (sent[1][Len(sent[1])] # "HTTP/1.1")
                      ELSE \E n \in Deciding : /\ \A m \in Deciding : m <= n
                                               /\ req.eos = (ValueOf(Lines[n]) = "close")
    BY Zenon DEF LastConnectionDecides
  <2> DEFINE D == DecidingUpTo(N)
  <2>1. IF D = {} THEN req.eos = (sent[1][Len(sent[1])] # "HTTP/1.1")
        ELSE \E n \in D : (\A m \in D : m <= n) /\ req.eos = (ValueOf(sent[n]) = "close")
    BY <1>2 DEF EosIs
  <2>2. /\ \A n \in Deciding : n + 1 \in D /\ n \in Nat
        /\ \A n \in D : n - 1 \in Deciding /\ n \in Nat /\ Lines[n - 1] = sent[n]
    BY <1>1, DecidingAre
  <2> HIDE DEF D
  <2>3. CASE D = {}
    <3>1. Deciding = {}
      BY <2>2, <2>3
    <3> QED  BY <2>1, <2>3, <3>1, Zenon
  <2>4. CASE D # {}
    <3>1. PICK n \in D : (\A m \in D : m <= n) /\ req.eos = (ValueOf(sent[n]) = "close")
      BY <2>1, <2>4, Zenon
    <3>2. n - 1 \in Deciding /\ Lines[n - 1] = sent[n] /\ n \in Nat
      BY <2>2
    <3>3. \A m \in Deciding : m <= n - 1
      <4> TAKE m \in Deciding
      <4>1. m \in Nat /\ m + 1 <= n
        BY <2>2, <3>1
      <4> QED  BY <3>2, <4>1
    <3>4. req.eos = (ValueOf(Lines[n - 1]) = "close")
      BY <3>1, <3>2, Zenon
    <3> QED  BY <3>2, <3>3, <3>4, Zenon
  <2> QED  BY <2>3, <2>4
<1>5. TargetIsPath
  <2> SUFFICES ASSUME WellFormed, parsing = "headers" PROVE Targeted(req)
    BY Zenon DEF TargetIsPath, Targeted, Target
  <2> QED  BY DEF ParseInv
<1>6. BadRangeRefused
  <2> SUFFICES ASSUME WellFormed, parsing = "done", NEW n \in DOMAIN Lines, Lines[n][1] = "Range:"
               PROVE  ValueOf(Lines[n]) = "bytes=0-1"
    BY DEF BadRangeRefused
  <2>1. Lines[n] = sent[n + 1] /\ n + 1 \in 2 .. N /\ n + 1 < N
    <3>1. n \in 1 .. N - 2 /\ N \in Nat
      BY <1>1, LinesAre
    <3> QED  BY <1>1, <3>1, LinesAre
  <2>2. RangesGood(N)
    BY <1>2
  <2> HIDE DEF N
  <2>3. \A m \in 2 .. N : m < N /\ sent[m][1] = "Range:" => ValueOf(sent[m]) = "bytes=0-1"
    BY <2>2 DEF RangesGood, N
  <2> QED  BY <2>1, <2>3
<1> QED  BY <1>3, <1>4, <1>5, <1>6 DEF HeaderUnderstood

\* mhttp_req_parse understands a header whose request line is well-formed, for
\* every list of lines: it looks at every line, takes what the last
\* Connection line says, finds the path and the arguments, and lets no malformed
\* Range line pass.
THEOREM HeadersUnderstood == ParseSpec => []HeaderUnderstood
  BY ParseInvHolds, Understood, PTL

-----------------------------------------------------------------------------
(* Ranges. *)

(* The invariant. *)

\* What is in the struct of the numbers that the last header gave and, when that
\* was the only one, of those it did not.
Follows(r, h) ==
  /\ r.spec = Given(h)
  /\ "LOW" \in Given(h) => r.low = Wrap(h.low)
  /\ "HIGH" \in Given(h) => r.high = Wrap(h.high)

\* Before the answer, the range is that of the headers of this request.
OfThisRequest ==
  phase = "headers" =>
    /\ resp = NoAnswer
    /\ count = 0 => range = ResetRange
    /\ count > 0 => Follows(range, asked)

\* A 400 closes the connection: it is no answer with bytes of a file.
ClosedSendsNothing == phase = "closed" => resp.status = 400

RangeInv == RangeServed /\ OfThisRequest /\ ClosedSendsNothing

-----------------------------------------------------------------------------
(* Arithmetic in size_t. *)

\* What a size_t holds; a number that one can hold is held as it is.
LEMMA WrapRange ==
  ASSUME NEW n \in Int
  PROVE  /\ Wrap(n) \in 0 .. SIZE_MAX
         /\ n \in 0 .. SIZE_MAX => Wrap(n) = n
         /\ n = SIZE_MAX + 1 => Wrap(n) = 0
<1>1. PICK m \in Nat : m = SizeMod /\ m > 1
  BY MhttpRangeAssumption
<1>2. n % m \in 0 .. m - 1
  BY <1>1
<1>3. n \in 0 .. m - 1 => n % m = n
  BY <1>1
<1>4. m % m = 0
  BY <1>1
<1> QED
  BY <1>1, <1>2, <1>3, <1>4 DEF Wrap, SIZE_MAX

\* The sizes that files have are below SIZE_MAX.
LEMMA SizeFacts ==
  /\ SIZE_MAX \in Nat \ {0}
  /\ \A size \in Sizes : size \in Nat /\ size < SIZE_MAX
BY MhttpRangeAssumption DEF SIZE_MAX

\* A bound that a header gives is a number.
LEMMA GivenFacts ==
  ASSUME NEW h \in Headers \cup {NoHeader}
  PROVE  /\ Given(h) \in Specs
         /\ "LOW" \in Given(h) <=> h.low # NoNumber
         /\ "HIGH" \in Given(h) <=> h.high # NoNumber
         /\ "LOW" \in Given(h) => h.low \in Nat
         /\ "HIGH" \in Given(h) => h.high \in Nat
<1>1. /\ h.low \in Numbers \cup {NoNumber} /\ h.high \in Numbers \cup {NoNumber}
  BY DEF Headers, NoHeader
<1>2. /\ Given(h) \in Specs
      /\ "LOW" \in Given(h) <=> h.low # NoNumber
      /\ "HIGH" \in Given(h) <=> h.high # NoNumber
  BY DEF Given, Specs
<1> QED
  BY MhttpRangeAssumption, <1>1, <1>2

\* The parser leaves a range in the struct, and it is the header's.
LEMMA ParsedFacts ==
  ASSUME NEW h \in Headers, NEW r \in Ranges
  PROVE  /\ mhttp_parse_range(h, r) \in Ranges
         /\ Follows(mhttp_parse_range(h, r), h)
<1>1. PICK p : p = mhttp_parse_range(h, r)
  OBVIOUS
<1>2. /\ p = [low |-> p.low, high |-> p.high, spec |-> p.spec]
      /\ p.low  = IF "LOW"  \in Given(h) THEN Wrap(h.low)  ELSE r.low
      /\ p.high = IF "HIGH" \in Given(h) THEN Wrap(h.high) ELSE r.high
      /\ p.spec = Given(h)
  BY <1>1 DEF mhttp_parse_range
<1>3. r.low \in 0 .. SIZE_MAX /\ r.high \in 0 .. SIZE_MAX
  BY DEF Ranges
<1>4. /\ "LOW" \in Given(h) => Wrap(h.low) \in 0 .. SIZE_MAX
      /\ "HIGH" \in Given(h) => Wrap(h.high) \in 0 .. SIZE_MAX
  BY GivenFacts, WrapRange
<1>5. p.spec \in Specs
  BY <1>2, GivenFacts
<1>6. p \in Ranges
  BY <1>2, <1>3, <1>4, <1>5 DEF Ranges
<1> QED
  BY <1>1, <1>2, <1>6 DEF Follows

\* The bound made exclusive and clamped lies in the file; unless it was SIZE_MAX
\* it is the next byte, or the end.
LEMMA ClampedFacts ==
  ASSUME NEW r \in Ranges, NEW size \in Sizes
  PROVE  /\ ExclusiveHigh(r) \in 0 .. SIZE_MAX
         /\ Clamped(ExclusiveHigh(r), size) \in 0 .. size
         /\ r.high # SIZE_MAX =>
              Clamped(ExclusiveHigh(r), size) = IF r.high + 1 > size THEN size ELSE r.high + 1
<1>1. r.high \in Nat /\ r.high <= SIZE_MAX /\ r.high + 1 \in Int
  BY SizeFacts DEF Ranges
<1>2. /\ ExclusiveHigh(r) \in 0 .. SIZE_MAX
      /\ r.high # SIZE_MAX => ExclusiveHigh(r) = r.high + 1
  <2>1. Wrap(r.high + 1) \in 0 .. SIZE_MAX
    BY <1>1, WrapRange
  <2>2. r.high # SIZE_MAX => r.high + 1 \in 0 .. SIZE_MAX
    BY <1>1, SizeFacts
  <2>3. r.high # SIZE_MAX => Wrap(r.high + 1) = r.high + 1
    BY <1>1, <2>2, WrapRange
  <2> QED
    BY <2>1, <2>3 DEF ExclusiveHigh
<1>3. size \in Nat /\ size < SIZE_MAX
  BY SizeFacts
<1> QED
  BY <1>1, <1>2, <1>3, SizeFacts DEF Clamped

\* The range that is completed for a 206, by what was specified of it.
LEMMA CompletedFacts ==
  ASSUME NEW r \in Ranges, NEW size \in Sizes,
         CheckedSpec(r) # {}, r.low < size
  PROVE  LET high == Clamped(ExclusiveHigh(r), size)
             done == Completed(r, size)
         IN  /\ done.spec = r.spec /\ r.low <= r.high
             /\ r.spec = {"HIGH"} => done.low = size - high /\ done.high = size
             /\ r.spec = {"LOW"} => done.low = r.low /\ done.high = size
             /\ r.spec = {"LOW", "HIGH"} => done.low = r.low /\ done.high = high
             /\ r.spec \in {{"LOW"}, {"HIGH"}, {"LOW", "HIGH"}}
             /\ done \in Ranges
<1> DEFINE high == Clamped(ExclusiveHigh(r), size)
<1>1. high \in 0 .. size /\ size \in Nat /\ size < SIZE_MAX /\ SIZE_MAX \in Nat
  BY ClampedFacts, SizeFacts
<1>2. r.low \in Nat /\ r.high \in Nat /\ r.low <= SIZE_MAX /\ r.spec \in Specs
  BY SizeFacts DEF Ranges
<1>3. CheckedSpec(r) = r.spec /\ r.low <= r.high
  BY <1>2 DEF CheckedSpec
<1>4. r.spec \in {{"LOW"}, {"HIGH"}, {"LOW", "HIGH"}}
  BY <1>2, <1>3 DEF Specs
<1>5. Wrap(size - high) = size - high /\ size - high \in 0 .. SIZE_MAX
  <2>1. size - high \in 0 .. SIZE_MAX /\ size - high \in Int
    BY <1>1
  <2> QED
    BY <2>1, WrapRange
<1>6. Completed(r, size) =
        IF "LOW" \notin r.spec THEN [low |-> size - high, high |-> size, spec |-> r.spec]
        ELSE IF "HIGH" \notin r.spec THEN [low |-> r.low, high |-> size, spec |-> r.spec]
        ELSE [low |-> r.low, high |-> high, spec |-> r.spec]
  <2>1. Completed(r, size) =
          CASE "LOW"  \notin r.spec -> [low |-> size - high, high |-> size, spec |-> r.spec]
            [] "HIGH" \notin r.spec -> [low |-> r.low, high |-> size, spec |-> r.spec]
            [] OTHER                -> [low |-> r.low, high |-> high, spec |-> r.spec]
    BY <1>3, <1>5 DEF Completed
  <2>2. "LOW" \in r.spec \/ "HIGH" \in r.spec
    BY <1>4
  <2> HIDE DEF high
  <2> QED
    BY <2>1, <2>2
<1> HIDE DEF high
<1>7. Completed(r, size) \in Ranges
  BY <1>1, <1>2, <1>5, <1>6 DEF Ranges
<1>8. CASE r.spec = {"LOW"}
  BY <1>3, <1>4, <1>6, <1>7, <1>8 DEF high
<1>9. CASE r.spec = {"HIGH"}
  BY <1>3, <1>4, <1>6, <1>7, <1>9 DEF high
<1>10. CASE r.spec = {"LOW", "HIGH"}
  BY <1>3, <1>4, <1>6, <1>7, <1>10 DEF high
<1> QED
  BY <1>4, <1>8, <1>9, <1>10

-----------------------------------------------------------------------------
(* The answer. *)

Answers == [status : {0, 200, 206, 400, 416}, length : 0 .. SIZE_MAX,
            first : 0 .. SIZE_MAX, last : 0 .. SIZE_MAX, size : 0 .. SIZE_MAX]

\* The fields of a 206 for a completed range that is not empty.
LEMMA PartFacts ==
  ASSUME NEW done \in Ranges, NEW size \in Sizes,
         done.low < done.high, done.high <= size
  PROVE  /\ Answer206(done, size) \in Answers
         /\ Answer206(done, size).status = 206 /\ Answer206(done, size).size = size
         /\ Answer206(done, size).first = done.low
         /\ Answer206(done, size).length = done.high - done.low
         /\ Answer206(done, size).last = done.high - 1
<1>1. /\ done.low \in Nat /\ done.high \in Nat /\ done.high <= SIZE_MAX
      /\ size \in Nat /\ size < SIZE_MAX /\ SIZE_MAX \in Nat
  BY SizeFacts DEF Ranges
<1>2. /\ done.high - done.low \in 0 .. SIZE_MAX /\ done.high - done.low \in Int
      /\ done.high - 1 \in 0 .. SIZE_MAX /\ done.high - 1 \in Int
  BY <1>1
<1>3. Wrap(done.high - done.low) = done.high - done.low /\ Wrap(done.high - 1) = done.high - 1
  BY <1>2, WrapRange
<1>4. Answer206(done, size) =
        [status |-> 206, length |-> done.high - done.low,
         first |-> done.low, last |-> done.high - 1, size |-> size]
  BY <1>3 DEF Answer206
<1> QED
  BY <1>1, <1>2, <1>4 DEF Answers

\* Any 206 is of the types of an answer.
LEMMA AnswerTypes ==
  ASSUME NEW r \in Ranges, NEW size \in Sizes
  PROVE  /\ Answer206(r, size) \in Answers /\ Answer206(r, size).status = 206
         /\ Answer200(size) \in Answers /\ Answer200(size).status = 200
         /\ Answer200(size).length = size /\ Answer200(size).size = size
         /\ Answer416(size) \in Answers /\ Answer416(size).status = 416
         /\ NoAnswer \in Answers /\ NoAnswer.status = 0
<1>1. /\ r.low \in 0 .. SIZE_MAX /\ r.low \in Int /\ r.high \in Int
      /\ size \in 0 .. SIZE_MAX /\ size \in Int /\ 0 \in 0 .. SIZE_MAX
  BY SizeFacts DEF Ranges
<1>2. r.high - r.low \in Int /\ r.high - 1 \in Int /\ size - 1 \in Int
  BY <1>1
<1>3. /\ Wrap(r.high - r.low) \in 0 .. SIZE_MAX /\ Wrap(r.high - 1) \in 0 .. SIZE_MAX
      /\ Wrap(size - 1) \in 0 .. SIZE_MAX
  BY <1>2, WrapRange
<1>4. Answer206(r, size) \in Answers /\ Answer206(r, size).status = 206
  BY <1>1, <1>3 DEF Answer206, Answers
<1>5. /\ Answer200(size) \in Answers /\ Answer200(size).status = 200
      /\ Answer200(size).length = size /\ Answer200(size).size = size
  BY <1>1, <1>3 DEF Answer200, Answers
<1>6. NoAnswer \in Answers /\ NoAnswer.status = 0
  BY <1>1 DEF NoAnswer, Answers
<1>7. Answer416(size) \in Answers /\ Answer416(size).status = 416
  BY <1>1, ZenonT(60) DEF Answer416, NoAnswer, Answers
<1> QED
  BY <1>4, <1>5, <1>6, <1>7

\* What is claimed of the answer to the headers h, of which there were n.
InsideFile(a, h) ==
  a.status = 206 /\ ~Tops(h) =>
    /\ a.length > 0
    /\ a.first + a.length <= a.size
    /\ a.last = a.first + a.length - 1
AsAsked(a, h, n) ==
  a.status = 206 /\ n = 1 /\ Representable(h) /\ "LOW" \in Given(h)
    => a.first .. a.first + a.length - 1 = Wanted(h, a.size)

\* The 206 for a range that is the last header's lies in the file, and the bytes
\* are the ones the header asks for.
LEMMA AnswerToLast ==
  ASSUME NEW r \in Ranges, NEW size \in Sizes, NEW n,
         NEW h \in Headers \cup {NoHeader}, Follows(r, h),
         CheckedSpec(r) # {}, r.low < size
  PROVE  /\ InsideFile(Answer206(Completed(r, size), size), h)
         /\ AsAsked(Answer206(Completed(r, size), size), h, n)
<1>1. PICK high : high = Clamped(ExclusiveHigh(r), size)
  OBVIOUS
<1>2. PICK done \in Ranges : done = Completed(r, size)
  BY CompletedFacts
<1>3. /\ done.spec = r.spec /\ r.low <= r.high
      /\ r.spec = {"HIGH"} => done.low = size - high /\ done.high = size
      /\ r.spec = {"LOW"} => done.low = r.low /\ done.high = size
      /\ r.spec = {"LOW", "HIGH"} => done.low = r.low /\ done.high = high
      /\ r.spec \in {{"LOW"}, {"HIGH"}, {"LOW", "HIGH"}}
  BY <1>1, <1>2, CompletedFacts
<1>4. /\ high \in 0 .. size
      /\ r.high # SIZE_MAX => high = IF r.high + 1 > size THEN size ELSE r.high + 1
  BY <1>1, ClampedFacts
<1>5. /\ r.low \in Nat /\ r.high \in Nat /\ r.high <= SIZE_MAX /\ r.low <= SIZE_MAX
      /\ size \in Nat /\ size < SIZE_MAX /\ SIZE_MAX \in Nat
  BY SizeFacts DEF Ranges
<1>6. PICK a : a = Answer206(done, size)
  OBVIOUS
<1>7. r.spec = Given(h)
  BY DEF Follows
<1>8. /\ "LOW" \in Given(h) => h.low \in Nat /\ r.low = Wrap(h.low)
      /\ "HIGH" \in Given(h) => h.high \in Nat /\ r.high = Wrap(h.high)
  BY GivenFacts DEF Follows
<1>9. ~Tops(h) /\ "HIGH" \in r.spec => r.high # SIZE_MAX
  BY <1>7, <1>8 DEF Tops
<1>10. ASSUME ~Tops(h)
       PROVE  done.low < done.high /\ done.high <= size
  <2>1. CASE r.spec = {"HIGH"}
    <3>1. high > 0
      BY <1>4, <1>5, <1>9, <1>10, <2>1
    <3> QED
      BY <1>3, <1>4, <1>5, <2>1, <3>1
  <2>2. CASE r.spec = {"LOW"}
    BY <1>3, <1>5, <2>2
  <2>3. CASE r.spec = {"LOW", "HIGH"}
    BY <1>3, <1>4, <1>5, <1>9, <1>10, <2>3
  <2> QED
    BY <1>3, <2>1, <2>2, <2>3
<1>11. ~Tops(h) => /\ a.status = 206 /\ a.size = size /\ a.first = done.low
                   /\ a.length = done.high - done.low /\ a.last = done.high - 1
  BY <1>2, <1>6, <1>10, PartFacts
<1>12. done.low \in Nat /\ done.high \in Nat
  BY SizeFacts DEF Ranges
<1>13. InsideFile(a, h)
  BY <1>5, <1>10, <1>11, <1>12 DEF InsideFile
<1>14. AsAsked(a, h, n)
  <2> SUFFICES ASSUME Representable(h), "LOW" \in Given(h)
               PROVE  a.first .. a.first + a.length - 1 = Wanted(h, a.size)
    BY DEF AsAsked
  <2>1. h.low \in 0 .. SIZE_MAX /\ r.low = h.low
    <3>1. h.low \in 0 .. SIZE_MAX /\ h.low \in Int
      BY <1>5, <1>8 DEF Representable
    <3> QED
      BY <1>8, <3>1, WrapRange
  <2>2. "HIGH" \in Given(h) =>
          h.high \in 0 .. SIZE_MAX /\ r.high = h.high /\ r.high # SIZE_MAX
    <3>1. "HIGH" \in Given(h) =>
            h.high \in 0 .. SIZE_MAX /\ h.high \in Int /\ h.high # SIZE_MAX
      BY <1>5, <1>8 DEF Representable
    <3> QED
      BY <1>8, <3>1, WrapRange
  <2>3. ~Tops(h)
    BY <1>8, <2>2 DEF Tops
  <2>4. a.size = size /\ a.first .. a.first + a.length - 1 = done.low .. done.high - 1
    <3>1. a.first + a.length - 1 = done.high - 1
      BY <1>11, <1>12, <2>3
    <3> QED
      BY <1>11, <2>3, <3>1
  <2>5. CASE Given(h) = {"LOW"}
    <3>1. Wanted(h, size) = h.low .. size - 1
      BY <2>5 DEF Wanted
    <3> QED
      BY <1>3, <1>7, <2>1, <2>4, <2>5, <3>1
  <2>6. CASE Given(h) = {"LOW", "HIGH"}
    <3>1. Wanted(h, size) = {m \in h.low .. size - 1 : m <= h.high}
      BY <2>6 DEF Wanted
    <3>2. done.low = h.low /\ done.high = IF h.high + 1 > size THEN size ELSE h.high + 1
      BY <1>3, <1>4, <1>7, <2>1, <2>2, <2>6
    <3>3. h.high \in Nat /\ h.low \in Nat
      BY <1>8, <2>6
    <3>4. ASSUME NEW m
          PROVE  m \in done.low .. done.high - 1 <=> m \in h.low .. size - 1 /\ m <= h.high
      BY <1>5, <1>12, <3>2, <3>3
    <3>5. done.low .. done.high - 1 = {m \in h.low .. size - 1 : m <= h.high}
      BY <3>4
    <3> QED
      BY <2>4, <3>1, <3>5
  <2> QED
    BY <1>3, <1>7, <2>5, <2>6
<1> QED
  BY <1>2, <1>6, <1>13, <1>14

-----------------------------------------------------------------------------
(* The steps. *)

\* A connection starts with no range and no answer.
LEMMA RangeStarts ==
  ASSUME RangeInit
  PROVE  RangeInv
<1> USE DEF RangeInit
<1>1. resp \in Answers /\ resp.status = 0
  <2>1. 0 \in 0 .. SIZE_MAX
    BY SizeFacts
  <2> QED
    BY <2>1 DEF NoAnswer, Answers
<1>2. range \in Ranges
  BY SizeFacts DEF ResetRange, Ranges, Specs
<1>3. RangeTypes
  BY MhttpRangeAssumption, <1>1, <1>2 DEF RangeTypes, Answers
<1>4. PartInsideFile /\ PartAsAsked /\ WholeWithoutRange
  BY <1>1 DEF PartInsideFile, PartAsAsked, WholeWithoutRange
<1>5. OfThisRequest /\ ClosedSendsNothing
  BY DEF OfThisRequest, ClosedSendsNothing
<1> QED
  BY <1>3, <1>4, <1>5 DEF RangeInv, RangeServed

\* A header that is understood leaves its range, one that is not an answer 400.
LEMMA HeaderStep ==
  ASSUME RangeInv, NEW h \in Headers, RangeHeader(h)
  PROVE  RangeInv'
<1> USE DEF RangeInv, RangeServed
<1>1. /\ phase = "headers" /\ resp = NoAnswer /\ asked' = h
      /\ count \in Nat /\ count < MaxHeaders /\ count' = count + 1 /\ MaxHeaders \in Nat
  BY MhttpRangeAssumption DEF RangeHeader, OfThisRequest, RangeTypes
<1>2. NoAnswer \in Answers /\ NoAnswer.status = 0
  <2>1. 0 \in 0 .. SIZE_MAX
    BY SizeFacts
  <2> QED
    BY <2>1 DEF NoAnswer, Answers
<1>3. count' \in 0 .. MaxHeaders /\ count' > 0 /\ asked' \in Headers \cup {NoHeader}
  BY <1>1
<1>4. range \in Ranges
  BY DEF RangeTypes
<1>5. CASE Malformed(h)
  <2>1. /\ phase' = "closed" /\ resp' = [NoAnswer EXCEPT !.status = 400]
        /\ range' = IF h.bytes THEN mhttp_parse_range([h EXCEPT !.high = NoNumber], range)
                               ELSE range
    BY <1>5 DEF RangeHeader
  <2>2. [h EXCEPT !.high = NoNumber] \in Headers
    BY DEF Headers
  <2>3. range' \in Ranges
    BY <1>4, <2>1, <2>2, ParsedFacts
  <2>4. resp' \in Answers /\ resp'.status = 400
    BY <1>2, <2>1 DEF Answers, NoAnswer
  <2>5. RangeTypes'
    BY <1>3, <2>1, <2>3, <2>4 DEF RangeTypes, Answers
  <2>6. PartInsideFile' /\ PartAsAsked' /\ WholeWithoutRange'
    BY <2>1, <2>4 DEF PartInsideFile, PartAsAsked, WholeWithoutRange
  <2>7. OfThisRequest' /\ ClosedSendsNothing'
    BY <2>1, <2>4 DEF OfThisRequest, ClosedSendsNothing
  <2> QED
    BY <2>5, <2>6, <2>7
<1>6. CASE ~Malformed(h)
  <2>1. phase' = phase /\ resp' = resp /\ range' = mhttp_parse_range(h, range)
    BY <1>6 DEF RangeHeader
  <2>2. range' \in Ranges /\ Follows(range', h)
    BY <1>4, <2>1, ParsedFacts
  <2>3. RangeTypes'
    BY <1>1, <1>2, <1>3, <2>1, <2>2 DEF RangeTypes, Answers
  <2>4. PartInsideFile' /\ PartAsAsked' /\ WholeWithoutRange'
    BY <1>1, <1>2, <2>1 DEF PartInsideFile, PartAsAsked, WholeWithoutRange
  <2>5. OfThisRequest' /\ ClosedSendsNothing'
    BY <1>1, <1>3, <2>1, <2>2 DEF OfThisRequest, ClosedSendsNothing
  <2> QED
    BY <2>3, <2>4, <2>5
<1> QED
  BY <1>5, <1>6

\* An answer is of the headers of this request.
LEMMA ServeStep ==
  ASSUME RangeInv, NEW size \in Sizes, Serve(size)
  PROVE  RangeInv'
<1> USE DEF RangeInv, RangeServed
<1>1. /\ phase = "headers" /\ phase' = "answered"
      /\ asked' = asked /\ count' = count
      /\ asked \in Headers \cup {NoHeader} /\ count \in 0 .. MaxHeaders /\ range \in Ranges
  BY DEF Serve, RangeTypes
<1>2. count = 0 => CheckedSpec(range) = {}
  BY <1>1 DEF OfThisRequest, ResetRange, CheckedSpec
<1>3. count # 0 => Follows(range, asked)
  BY MhttpRangeAssumption, <1>1 DEF OfThisRequest
<1>4. OfThisRequest' /\ ClosedSendsNothing'
  BY <1>1 DEF OfThisRequest, ClosedSendsNothing
<1>5. size \in 0 .. SIZE_MAX /\ ExclusiveHigh(range) \in 0 .. SIZE_MAX
      /\ Clamped(ExclusiveHigh(range), size) \in 0 .. SIZE_MAX
  BY <1>1, SizeFacts, ClampedFacts
<1>6. CASE CheckedSpec(range) = {}
  <2>1. /\ range' = [range EXCEPT !.high = ExclusiveHigh(range), !.spec = {}]
        /\ resp' = Answer200(size)
    BY <1>6 DEF Serve
  <2>2. range' \in Ranges
    BY <1>1, <1>5, <2>1 DEF Ranges, Specs
  <2>3. resp' \in Answers /\ resp'.status = 200 /\ resp'.length = resp'.size
    BY <1>1, <2>1, AnswerTypes
  <2>4. RangeTypes'
    BY <1>1, <2>2, <2>3 DEF RangeTypes, Answers
  <2>5. PartInsideFile' /\ PartAsAsked' /\ WholeWithoutRange'
    BY <2>3 DEF PartInsideFile, PartAsAsked, WholeWithoutRange
  <2> QED
    BY <1>4, <2>4, <2>5
<1>7. CASE CheckedSpec(range) # {} /\ range.low >= size
  <2>1. /\ range' = [range EXCEPT !.high = Clamped(ExclusiveHigh(range), size)]
        /\ resp' = Answer416(size)
    <3>1. ~(range.low < size)
      BY <1>1, <1>7, SizeFacts DEF Ranges
    <3> QED
      BY <1>7, <3>1 DEF Serve
  <2>2. range' \in Ranges
    BY <1>1, <1>5, <2>1 DEF Ranges
  <2>3. resp' \in Answers /\ resp'.status = 416
    BY <1>1, <2>1, AnswerTypes
  <2>4. RangeTypes'
    BY <1>1, <2>2, <2>3 DEF RangeTypes, Answers
  <2>5. PartInsideFile' /\ PartAsAsked' /\ WholeWithoutRange'
    BY <1>1, <1>2, <1>7, <2>3 DEF PartInsideFile, PartAsAsked, WholeWithoutRange
  <2> QED
    BY <1>4, <2>4, <2>5
<1>8. CASE CheckedSpec(range) # {} /\ range.low < size
  <2>1. range' = Completed(range, size) /\ resp' = Answer206(range', size)
    <3>1. ~(range.low >= size)
      BY <1>1, <1>8, SizeFacts DEF Ranges
    <3> QED
      BY <1>8, <3>1 DEF Serve
  <2>2. range' \in Ranges
    BY <1>1, <1>8, <2>1, CompletedFacts
  <2>3. resp' \in Answers /\ resp'.status = 206
    BY <2>1, <2>2, AnswerTypes
  <2>4. RangeTypes'
    BY <1>1, <2>2, <2>3 DEF RangeTypes, Answers
  <2>5. count # 0 /\ Follows(range, asked)
    BY <1>2, <1>3, <1>8
  <2>6. InsideFile(resp', asked) /\ AsAsked(resp', asked, count)
    BY <1>1, <1>8, <2>1, <2>5, AnswerToLast
  <2>7. PartInsideFile'
    BY <1>1, <2>6 DEF PartInsideFile, InsideFile
  <2>8. PartAsAsked'
    BY <1>1, <2>6 DEF PartAsAsked, AsAsked, Sent
  <2>9. WholeWithoutRange'
    BY <1>1, <2>5 DEF WholeWithoutRange
  <2> QED
    BY <1>4, <2>4, <2>7, <2>8, <2>9
<1> QED
  BY <1>6, <1>7, <1>8 DEF Serve

\* The next request starts as the first.
LEMMA NextRequestStep ==
  ASSUME RangeInv, NextRequest
  PROVE  RangeInv'
<1> USE DEF NextRequest
<1>1. resp' \in Answers /\ resp'.status = 0
  <2>1. 0 \in 0 .. SIZE_MAX
    BY SizeFacts
  <2> QED
    BY <2>1 DEF NoAnswer, Answers
<1>2. range' \in Ranges
  BY SizeFacts DEF ResetRange, Ranges, Specs
<1>3. RangeTypes'
  BY MhttpRangeAssumption, <1>1, <1>2 DEF RangeTypes, Answers
<1>4. PartInsideFile' /\ PartAsAsked' /\ WholeWithoutRange'
  BY <1>1 DEF PartInsideFile, PartAsAsked, WholeWithoutRange
<1>5. OfThisRequest' /\ ClosedSendsNothing'
  BY DEF OfThisRequest, ClosedSendsNothing
<1> QED
  BY <1>3, <1>4, <1>5 DEF RangeInv, RangeServed

\* Every step preserves the invariant.
LEMMA RangeStep ==
  ASSUME RangeInv, [RangeNext]_rangevars
  PROVE  RangeInv'
<1>1. CASE UNCHANGED rangevars
  BY <1>1 DEF rangevars, RangeInv, RangeServed, RangeTypes, PartInsideFile, PartAsAsked, Sent,
              WholeWithoutRange, OfThisRequest, ClosedSendsNothing
<1>2. CASE \E h \in Headers : RangeHeader(h)
  BY <1>2, HeaderStep
<1>3. CASE \E size \in Sizes : Serve(size)
  BY <1>3, ServeStep
<1>4. CASE NextRequest
  BY <1>4, NextRequestStep
<1> QED
  BY <1>1, <1>2, <1>3, <1>4 DEF RangeNext, RangeClosed

-----------------------------------------------------------------------------
(* The theorems. *)

\* Whatever headers the requests of a connection have, the struct follows the
\* last one of the request that is read, and no other request's.
THEOREM RangeInvariance == RangeSpec => []RangeInv
<1>1. RangeInit => RangeInv
  BY RangeStarts
<1>2. RangeInv /\ [RangeNext]_rangevars => RangeInv'
  BY RangeStep
<1> QED
  BY <1>1, <1>2, PTL DEF RangeSpec

\* resp_get: for every width of size_t and every file the part that a 206
\* announces is in the file, it is the one that was asked for, and a request
\* without a range has the whole file.
THEOREM RangeCorrect == RangeSpec => []RangeServed
<1>1. RangeInv => RangeServed
  BY DEF RangeInv
<1> QED
  BY <1>1, RangeInvariance, PTL
=============================================================================
