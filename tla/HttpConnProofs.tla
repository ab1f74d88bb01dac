--------------------------- MODULE HttpConnProofs ---------------------------
(***************************************************************************)
(* Theorems about one connection, for every buffer size, every set of      *)
(* requests and every file size: the types of its state, the accounts of   *)
(* the answer's body and of the open file, and the order of the answers.   *)
(*                                                                         *)
(* The accounts do not depend on what is in rxbuf, nor the order of the    *)
(* answers on what is in txbuf, so the proof keeps its invariants apart:   *)
(* RxInv for the types of the receive side, BodyInv for the response (no   *)
(* body is under way outside of resp_send_file), OrderInv for the stream   *)
(* of units that rxbuf and the socket hold together, and LockstepInv for   *)
(* the stream of a client that waits for each answer.                      *)
(***************************************************************************)
EXTENDS HttpConn, SequenceTheorems, TLAPS

Units == [req : Int, first : BOOLEAN, last : BOOLEAN]

Callbacks == {"conn_init", "req_recv_headers", "req_read_headers", "resp_send_file", "closed"}

RxInv ==
  /\ cb \in Callbacks /\ cond \in {"READ", "WRITE"} /\ eos \in BOOLEAN
  /\ peer \in {"open", "shut", "reset"}
  /\ sent \in [req : Int, units : Int] /\ net \in Seq(Units)
  /\ rx \in Seq(Units) /\ Len(rx) <= RxLen /\ off \in 0 .. Len(rx)

BodyInv ==
  /\ cb \in Callbacks
  /\ tx \in 0 .. TxLen /\ srclen \in Nat /\ file \in Nat
  /\ srcfd \in {"none", "open", "failed"}
  /\ promised \in Nat /\ wire \in 0 .. promised
  /\ srcfd # "none" <=> cb = "resp_send_file"
  /\ cb = "resp_send_file" => wire + tx + srclen = promised
  /\ cb # "resp_send_file" => tx = 0 /\ srclen = 0

-----------------------------------------------------------------------------
(* The response. *)

\* Both ways out of conn_terminate leave no body under way.
LEMMA TerminateBody ==
  ASSUME NEW close, NEW buf, NEW o, conn_terminate(close, buf, o)
  PROVE  cb' \in {"closed", "req_recv_headers"} /\ tx' = 0 /\ srclen' = 0
BY DEF conn_terminate, Close, KeepAlive

\* A new connection sends nothing.
LEMMA InitBody == Init => BodyInv
BY HttpConnAssumption DEF Init, BodyInv, Callbacks

\* No step loses or invents a byte of the body, or leaves the file open.
LEMMA StepBody == BodyInv /\ [Next]_vars => BodyInv'
<1> SUFFICES ASSUME BodyInv, [Next]_vars PROVE BodyInv'
  OBVIOUS
<1>1. CASE Client
  BY <1>1 DEF Client, ClientSends, ClientShuts, ClientResets, BodyInv, slot, body, answer
<1>2. CASE FileShrinks
  BY <1>2 DEF FileShrinks, BodyInv, slot, answer
<1>3. CASE RecvError \/ RecvEnd
  <2>1. cb \in {"conn_init", "req_recv_headers"} /\ UNCHANGED <<srcfd, file, answer>>
    BY <1>3 DEF RecvError, RecvEnd, Receiving, Ready
  <2>2. cb' \in {"closed", "req_recv_headers"} /\ tx' = 0 /\ srclen' = 0
    BY <1>3, TerminateBody DEF RecvError, RecvEnd
  <2> QED  BY <2>1, <2>2 DEF BodyInv, answer, Callbacks
<1>4. CASE RecvData
  <2>1. cb \in {"conn_init", "req_recv_headers"} /\ UNCHANGED <<srcfd, file, answer>>
    BY <1>4 DEF RecvData, Receiving, Ready
  <2>2. \/ cb' \in {"closed", "req_recv_headers"} /\ tx' = 0 /\ srclen' = 0
        \/ cb' \in {"req_read_headers", "req_recv_headers"} /\ UNCHANGED <<tx, srclen>>
    BY <1>4, TerminateBody DEF RecvData
  <2> QED  BY <2>1, <2>2 DEF BodyInv, answer, Callbacks
<1>5. CASE ReadHeadersReply
  <2>1. cb = "req_read_headers" /\ UNCHANGED <<srcfd, file>> /\ promised' = 0 /\ wire' = 0
    BY <1>5 DEF ReadHeadersReply, Ready, Answers
  <2>2. cb' \in {"closed", "req_recv_headers"} /\ tx' = 0 /\ srclen' = 0
    BY <1>5, TerminateBody DEF ReadHeadersReply
  <2> QED  BY <2>1, <2>2 DEF BodyInv, Callbacks
<1>6. CASE ReadHeadersFile
  <2>1. PICK size \in FileSizes, behind \in 0 .. MaxBehind :
          srclen' = size /\ file' = size + behind /\ promised' = size /\ wire' = 0
    BY <1>6 DEF ReadHeadersFile, Answers
  <2>2. cb = "req_read_headers" /\ cb' = "resp_send_file" /\ tx' = tx /\ srcfd' \in {"open", "failed"}
    BY <1>6 DEF ReadHeadersFile, Ready
  <2> QED  BY <2>1, <2>2, HttpConnAssumption DEF BodyInv, Callbacks, MaxBehind
<1>7. CASE SendFile
  <2> DEFINE Ends     == srcfd' = "none" /\ \E close : conn_terminate(close, rx, off)
             GoesOn(n, k) == /\ srclen' = srclen - n /\ tx' = mig_buf_read(tx + n, k)
                            /\ srcfd' = srcfd /\ cb' = cb
             Sends(n, k)  == /\ Load(n) /\ file' = file - n /\ wire' = wire + k
                             /\ Ends \/ GoesOn(n, k)
  <2>1. PICK n \in 0 .. TxLen : \E k \in 0 .. tx + n : Sends(n, k)
    BY <1>7 DEF SendFile, slot
  <2>2. PICK k \in 0 .. tx + n : Sends(n, k)
    BY <2>1
  <2>3. /\ cb = "resp_send_file" /\ UNCHANGED promised /\ srcfd # "none"
        /\ tx \in 0 .. TxLen /\ srclen \in Nat /\ file \in Nat /\ promised \in Nat /\ wire \in Nat
        /\ wire + tx + srclen = promised
        /\ srcfd \in {"none", "open", "failed"}
    BY <1>7 DEF SendFile, Ready, BodyInv
  <2>4. n \in Nat /\ n <= srclen /\ n <= file /\ tx + n \in 0 .. TxLen
    BY <2>2, <2>3, HttpConnAssumption DEF Load, Min2
  <2>5. k \in Nat /\ k <= tx + n /\ file' \in Nat /\ wire' \in 0 .. promised /\ promised' = promised
    BY <2>2, <2>3, <2>4
  <2>6. CASE Ends
    <3>1. cb' \in {"closed", "req_recv_headers"} /\ tx' = 0 /\ srclen' = 0
      BY <2>6, TerminateBody
    <3>2. srcfd' = "none" /\ 0 \in 0 .. TxLen
      BY <2>6, HttpConnAssumption
    <3> QED  BY <2>3, <2>5, <3>1, <3>2 DEF BodyInv, Callbacks
  <2>7. CASE GoesOn(n, k)
    <3>1. srclen' \in Nat /\ tx' \in 0 .. TxLen /\ wire' + tx' + srclen' = promised
      BY <2>2, <2>3, <2>4, <2>5, <2>7, HttpConnAssumption DEF mig_buf_read
    <3> QED  BY <2>3, <2>5, <2>7, <3>1 DEF BodyInv, Callbacks
  <2>8. Ends \/ GoesOn(n, k)
    BY <2>2
  <2> HIDE DEF Ends, GoesOn
  <2> QED  BY <2>6, <2>7, <2>8
<1>8. CASE SendError \/ ReadError
  <2>1. cb = "resp_send_file" /\ UNCHANGED <<file, answer>> /\ srcfd' = "none"
    BY <1>8 DEF SendError, ReadError, Ready
  <2>2. cb' \in {"closed", "req_recv_headers"} /\ tx' = 0 /\ srclen' = 0
    BY <1>8, TerminateBody DEF SendError, ReadError
  <2> QED  BY <2>1, <2>2, HttpConnAssumption DEF BodyInv, answer, Callbacks
<1>9. CASE UNCHANGED vars
  BY <1>9 DEF vars, slot, body, answer, BodyInv
<1> QED  BY <1>1, <1>2, <1>3, <1>4, <1>5, <1>6, <1>7, <1>8, <1>9 DEF Next, Receive, Respond, Closed

-----------------------------------------------------------------------------
(* The receive side. *)

\* A header that is complete ends at a position of the buffer, and marking it
\* read does not change the buffer's length.
LEMMA CheckedFits ==
  ASSUME NEW buf \in Seq(Units), NEW from, mhttp_req_check(buf, from)
  PROVE  /\ CheckedOff(buf, from) \in 1 .. Len(buf)
         /\ CheckedBuf(buf, from) \in Seq(Units) /\ Len(CheckedBuf(buf, from)) = Len(buf)
<1> DEFINE o == CheckedOff(buf, from)
<1>1. o \in 1 .. Len(buf)
  BY DEF mhttp_req_check, CheckedOff
<1> HIDE DEF o
<1>2. buf[o] \in Units
  BY <1>1, ElementOfSeq
<1>3. [buf[o] EXCEPT !.last = FALSE] \in Units
  BY <1>2 DEF Units
<1>4. CheckedBuf(buf, from) = [buf EXCEPT ![o] = [buf[o] EXCEPT !.last = FALSE]]
  BY DEF CheckedBuf, o
<1> QED  BY <1>1, <1>3, <1>4, ExceptSeq DEF o

\* What is behind a position of a sequence of units.
LEMMA Shifted ==
  ASSUME NEW q \in Seq(Units), NEW o \in 0 .. Len(q)
  PROVE  /\ SubSeq(q, o + 1, Len(q)) \in Seq(Units)
         /\ Len(SubSeq(q, o + 1, Len(q))) = Len(q) - o
         /\ \A i \in 1 .. Len(q) - o : SubSeq(q, o + 1, Len(q))[i] = q[o + i]
<1> DEFINE t == SubSeq(q, o + 1, Len(q))
<1>1. Len(q) \in Nat
  BY LenProperties
<1>2. \A i \in o + 1 .. Len(q) : q[i] \in Units
  BY <1>1, ElementOfSeq
<1>3. /\ t \in Seq(Units)
      /\ Len(t) = IF o + 1 <= Len(q) THEN Len(q) - (o + 1) + 1 ELSE 0
      /\ \A i \in 1 .. Len(q) - (o + 1) + 1 : t[i] = q[o + 1 + i - 1]
  BY <1>1, <1>2, SubSeqProperties
<1> HIDE DEF t
<1>4. Len(t) = Len(q) - o
  BY <1>1, <1>3
<1>5. ASSUME NEW i \in 1 .. Len(q) - o PROVE t[i] = q[o + i]
  <2>1. i \in 1 .. Len(q) - (o + 1) + 1 /\ o + 1 + i - 1 = o + i
    BY <1>1
  <2> QED  BY <1>3, <2>1
<1> QED  BY <1>3, <1>4, <1>5 DEF t

\* mig_buf_shift keeps what is behind the position.
LEMMA ShiftFits ==
  ASSUME NEW buf \in Seq(Units), NEW o \in 0 .. Len(buf)
  PROVE  mig_buf_shift(buf, o) \in Seq(Units) /\ Len(mig_buf_shift(buf, o)) = Len(buf) - o
BY Shifted DEF mig_buf_shift

RxFits(b, o) == b \in Seq(Units) /\ Len(b) <= RxLen /\ o \in 0 .. Len(b)

\* Both ways out of conn_terminate leave a buffer that fits.
LEMMA TerminateRx ==
  ASSUME NEW close \in BOOLEAN, NEW buf, NEW o, RxFits(buf, o),
         cond \in {"READ", "WRITE"}, conn_terminate(close, buf, o)
  PROVE  /\ cb' \in Callbacks /\ cond' \in {"READ", "WRITE"} /\ eos' \in BOOLEAN
         /\ RxFits(rx', off')
<1>0. Len(buf) \in Nat /\ RxLen \in Nat
  BY HttpConnAssumption, LenProperties DEF RxFits
<1>1. CASE Close
  <2>1. rx' = <<>> /\ off' = 0 /\ cb' = "closed" /\ cond' = cond
    BY <1>1 DEF Close
  <2> QED  BY <2>1, <1>0, EmptySeq DEF RxFits, Callbacks, conn_terminate
<1>2. CASE KeepAlive(buf, o)
  <2> DEFINE next == mig_buf_shift(buf, o)
  <2>1. next \in Seq(Units) /\ Len(next) <= RxLen /\ Len(next) \in Nat
    BY <1>0, ShiftFits, LenProperties DEF RxFits
  <2>2. CASE mhttp_req_check(next, 0)
    <3>1. rx' = CheckedBuf(next, 0) /\ off' = CheckedOff(next, 0) /\ cond' = "WRITE"
          /\ cb' = "req_recv_headers"
      BY <1>2, <2>2 DEF KeepAlive
    <3> HIDE DEF next
    <3> QED  BY <2>1, <2>2, <3>1, CheckedFits DEF RxFits, Callbacks, conn_terminate
  <2>3. CASE ~mhttp_req_check(next, 0)
    <3>1. rx' = next /\ off' = 0 /\ cond' = "READ" /\ cb' = "req_recv_headers"
      BY <1>2, <2>3 DEF KeepAlive
    <3> HIDE DEF next
    <3> QED  BY <2>1, <3>1 DEF RxFits, Callbacks, conn_terminate
  <2> QED  BY <2>2, <2>3
<1> QED  BY <1>1, <1>2 DEF conn_terminate

\* A new connection has an empty rxbuf.
LEMMA InitRx == Init => RxInv
<1> SUFFICES ASSUME Init PROVE RxInv
  OBVIOUS
<1>1. <<>> \in Seq(Units) /\ Len(<<>>) = 0
  BY EmptySeq
<1> QED  BY <1>1, HttpConnAssumption DEF Init, RxInv, Callbacks

\* What the client sends are units.
LEMMA SendsUnits == RxInv /\ ClientSends => RxInv'
<1> SUFFICES ASSUME RxInv, ClientSends PROVE RxInv'
  OBVIOUS
<1> DEFINE r == IF sent.units < reqs[sent.req].units THEN sent.req ELSE sent.req + 1
           n == IF r = sent.req THEN sent.units + 1 ELSE 1
<1>1. net' = Append(net, Unit(r, n)) /\ sent' = [req |-> r, units |-> n]
      /\ UNCHANGED <<peer, cb, cond, rx, off, eos>>
  BY DEF ClientSends, slot, rxbuf
<1>2. r \in Int /\ n \in Int
  BY DEF RxInv
<1> HIDE DEF r, n
<1>3. Unit(r, n) \in Units
  BY <1>2, Zenon DEF Unit, Units
<1>4. net' \in Seq(Units)
  BY <1>1, <1>3, AppendProperties DEF RxInv
<1> QED  BY <1>1, <1>2, <1>4 DEF RxInv

\* What read takes from the socket fits in rxbuf, or closes the connection.
LEMMA ReceivesFit == RxInv /\ RecvData => RxInv'
<1> SUFFICES ASSUME RxInv, RecvData PROVE RxInv'
  OBVIOUS
<1> DEFINE n   == Min2(RxRoom, Len(net))
           buf == rx \o SubSeq(net, 1, n)
<1>1. Len(rx) \in Nat /\ Len(net) \in Nat /\ RxLen \in Nat /\ off \in 0 .. Len(rx)
  BY HttpConnAssumption, LenProperties DEF RxInv
<1>2. n \in Nat /\ n <= Len(net) /\ n <= RxLen - Len(rx)
  BY <1>1 DEF Min2, RxRoom, RxInv
<1>3. \A k \in 1 .. Len(net) : net[k] \in Units
  BY ElementOfSeq DEF RxInv
<1> HIDE DEF n
<1>4. SubSeq(net, 1, n) \in Seq(Units)
      /\ Len(SubSeq(net, 1, n)) = IF 1 <= n THEN n - 1 + 1 ELSE 0
  BY <1>1, <1>2, <1>3, SubSeqProperties
<1>5. Len(SubSeq(net, 1, n)) = n
  BY <1>2, <1>4
<1>6. buf \in Seq(Units) /\ Len(buf) = Len(rx) + n
  BY <1>4, <1>5, ConcatProperties DEF RxInv
<1>7. SubSeq(net, n + 1, Len(net)) \in Seq(Units)
  BY <1>1, <1>2, <1>3, SubSeqProperties
<1>8. RxFits(buf, off)
  BY <1>1, <1>2, <1>6 DEF RxFits
<1>9. /\ net' = SubSeq(net, n + 1, Len(net)) /\ UNCHANGED <<sent, peer>>
      /\ \/ /\ mhttp_req_check(buf, Len(rx))
            /\ rx' = CheckedBuf(buf, Len(rx)) /\ off' = CheckedOff(buf, Len(rx))
            /\ cb' = "req_read_headers" /\ cond' = "WRITE" /\ eos' = eos
         \/ conn_terminate(TRUE, buf, off)
         \/ rx' = buf /\ cb' = "req_recv_headers" /\ UNCHANGED <<off, cond, eos>>
  BY DEF RecvData, n
<1> HIDE DEF buf
<1>10. CASE /\ mhttp_req_check(buf, Len(rx))
            /\ rx' = CheckedBuf(buf, Len(rx)) /\ off' = CheckedOff(buf, Len(rx))
            /\ cb' = "req_read_headers" /\ cond' = "WRITE" /\ eos' = eos
  <2>1. CheckedOff(buf, Len(rx)) \in 1 .. Len(buf) /\ CheckedBuf(buf, Len(rx)) \in Seq(Units)
        /\ Len(CheckedBuf(buf, Len(rx))) = Len(buf)
    BY <1>6, <1>10, CheckedFits
  <2> QED  BY <1>7, <1>8, <1>9, <1>10, <2>1 DEF RxInv, RxFits, Callbacks
<1>11. CASE conn_terminate(TRUE, buf, off)
  <2>1. cb' \in Callbacks /\ cond' \in {"READ", "WRITE"} /\ eos' \in BOOLEAN /\ RxFits(rx', off')
    BY <1>8, <1>11, TerminateRx DEF RxInv
  <2> QED  BY <1>7, <1>9, <2>1 DEF RxInv, RxFits
<1>12. CASE rx' = buf /\ cb' = "req_recv_headers" /\ UNCHANGED <<off, cond, eos>>
  BY <1>7, <1>8, <1>9, <1>12 DEF RxInv, RxFits, Callbacks
<1> QED  BY <1>9, <1>10, <1>11, <1>12

\* Every other way to conn_terminate leaves the socket and rxbuf as they are.
LEMMA TerminateKeepsRx ==
  ASSUME RxInv, NEW close \in BOOLEAN, conn_terminate(close, rx, off), UNCHANGED <<sent, net, peer>>
  PROVE  RxInv'
<1>1. RxFits(rx, off) /\ cond \in {"READ", "WRITE"}
  BY DEF RxInv, RxFits
<1>2. cb' \in Callbacks /\ cond' \in {"READ", "WRITE"} /\ eos' \in BOOLEAN /\ RxFits(rx', off')
  BY <1>1, TerminateRx
<1> QED  BY <1>2 DEF RxInv, RxFits

\* No step leaves a position outside of rxbuf.
LEMMA StepRx == RxInv /\ [Next]_vars => RxInv'
<1> SUFFICES ASSUME RxInv, [Next]_vars PROVE RxInv'
  OBVIOUS
<1>1. CASE ClientSends
  BY <1>1, SendsUnits
<1>2. CASE ClientShuts
  BY <1>2 DEF ClientShuts, RxInv, slot, rxbuf
<1>3. CASE ClientResets
  <2>1. net' \in Seq(Units)
    BY <1>3, EmptySeq DEF ClientResets
  <2> QED  BY <1>3, <2>1 DEF ClientResets, RxInv, slot, rxbuf
<1>4. CASE FileShrinks
  BY <1>4 DEF FileShrinks, RxInv, slot, rxbuf, client
<1>5. CASE RecvError \/ RecvEnd \/ SendError \/ ReadError
  <2>1. conn_terminate(TRUE, rx, off) /\ UNCHANGED <<sent, net, peer>>
    BY <1>5 DEF RecvError, RecvEnd, SendError, ReadError, client
  <2> QED  BY <2>1, TerminateKeepsRx
<1>6. CASE RecvData
  BY <1>6, ReceivesFit
<1>7. CASE ReadHeadersReply
  <2>1. PICK close \in BOOLEAN : conn_terminate(close, rx, off)
    BY <1>7 DEF ReadHeadersReply
  <2> QED  BY <1>7, <2>1, TerminateKeepsRx DEF ReadHeadersReply, client
<1>8. CASE ReadHeadersFile
  BY <1>8 DEF ReadHeadersFile, RxInv, Callbacks, client, rxbuf
<1>9. CASE SendFile
  <2>1. UNCHANGED <<sent, net, peer>>
    BY <1>9 DEF SendFile, client
  <2>2. \/ \E close \in BOOLEAN : conn_terminate(close, rx, off)
        \/ eos' \in BOOLEAN /\ UNCHANGED <<slot, rxbuf>>
    BY <1>9 DEF SendFile
  <2>3. CASE \E close \in BOOLEAN : conn_terminate(close, rx, off)
    BY <2>1, <2>3, TerminateKeepsRx
  <2>4. CASE eos' \in BOOLEAN /\ UNCHANGED <<slot, rxbuf>>
    BY <2>1, <2>4 DEF RxInv, slot, rxbuf
  <2> QED  BY <2>2, <2>3, <2>4
<1>10. CASE UNCHANGED vars
  BY <1>10 DEF vars, slot, client, rxbuf, RxInv
<1> QED  BY <1>1, <1>2, <1>3, <1>4, <1>5, <1>6, <1>7, <1>8, <1>9, <1>10
         DEF Next, Client, Receive, Respond, Closed

-----------------------------------------------------------------------------
(* The order of the answers: operators on a stream of units. *)

\* The client has sent all of request r.
Whole(r) == r < sent.req \/ (r = sent.req /\ sent.units = reqs[r].units)

\* Nothing, or all of a request: the next unit that goes out begins a request.
NextIsFirst == sent.units = 0 \/ sent.units = reqs[sent.req].units

\* A unit was sent, and one that completes its request was the last of it.  A
\* later unit is of no earlier request.
UnitOK(u)    == u.req \in 1 .. MaxReqs /\ u.req <= sent.req /\ (u.last => Whole(u.req))
Before(u, v) == u.req <= v.req /\ (v.first => u.req < v.req)

\* A sequence of units in the order they were sent, with none left out between the
\* end of a request and the next one.
InStream(q) ==
  /\ \A i \in 1 .. Len(q) : UnitOK(q[i])
  /\ \A i, j \in 1 .. Len(q) : i < j => Before(q[i], q[j])
  /\ \A i \in 1 .. Len(q) - 1 : q[i].last => q[i + 1].first

\* A request begins behind position o.
Starts(q, o) == o < Len(q) => q[o + 1].first
\* As long as the client sends, its next unit goes on where the sequence ends.
Ends(q) ==
  peer = "open" => IF Len(q) > 0 THEN q[Len(q)].req = sent.req ELSE NextIsFirst
\* o is 0 or the end of a whole request.
StreamOK(q, o) ==
  /\ InStream(q) /\ Starts(q, 0) /\ Ends(q)
  /\ o > 0 => Whole(q[o].req) /\ Starts(q, o)

\* Every unit behind position o is of a later request than those in a.
Unanswered(a, q, o) ==
  \A k \in 1 .. Len(a), i \in o + 1 .. Len(q) : a[k] < q[i].req

\* What has come and is not dropped yet: rxbuf, and the socket's buffer behind it.
Stream == rx \o net

\* What is left of a stream behind its boundary begins with a request, and is not
\* answered yet.
LEMMA ShiftStream ==
  ASSUME NEW q \in Seq(Units), NEW o \in 0 .. Len(q), StreamOK(q, o), sent.req \in Int
  PROVE  /\ StreamOK(SubSeq(q, o + 1, Len(q)), 0)
         /\ \A a : Unanswered(a, q, o) => Unanswered(a, SubSeq(q, o + 1, Len(q)), 0)
<1> DEFINE t == SubSeq(q, o + 1, Len(q))
<1>1. Len(q) \in Nat /\ \A i \in 1 .. Len(q) : q[i] \in Units
  BY LenProperties, ElementOfSeq
<1>2. /\ t \in Seq(Units) /\ Len(t) = Len(q) - o
      /\ \A i \in 1 .. Len(t) : t[i] = q[i + o]
  <2>1. /\ t \in Seq(Units) /\ Len(t) = Len(q) - o
        /\ \A i \in 1 .. Len(q) - o : t[i] = q[o + i]
    BY Shifted
  <2> HIDE DEF t
  <2> QED  BY <1>1, <2>1
<1> HIDE DEF t
<1>3. InStream(t)
  <2>1. InStream(q)
    BY DEF StreamOK
  <2>2. \A i \in 1 .. Len(t) : UnitOK(t[i])
    BY <1>1, <1>2, <2>1 DEF InStream
  <2>3. \A i, j \in 1 .. Len(t) : i < j => Before(t[i], t[j])
    <3> SUFFICES ASSUME NEW i \in 1 .. Len(t), NEW j \in 1 .. Len(t), i < j
                 PROVE  Before(q[i + o], q[j + o])
      BY <1>2
    <3>1. i + o \in 1 .. Len(q) /\ j + o \in 1 .. Len(q) /\ i + o < j + o
      BY <1>1, <1>2
    <3> QED  BY <2>1, <3>1 DEF InStream
  <2>4. \A i \in 1 .. Len(t) - 1 : t[i].last => t[i + 1].first
    <3> SUFFICES ASSUME NEW i \in 1 .. Len(t) - 1, t[i].last PROVE t[i + 1].first
      OBVIOUS
    <3>1. i + o \in 1 .. Len(q) - 1 /\ i + 1 \in 1 .. Len(t) /\ (i + 1) + o = (i + o) + 1
      BY <1>1, <1>2
    <3>2. t[i] = q[i + o] /\ t[i + 1] = q[(i + o) + 1]
      BY <1>1, <1>2, <3>1
    <3> QED  BY <2>1, <3>1, <3>2 DEF InStream
  <2> QED  BY <2>2, <2>3, <2>4 DEF InStream
<1>4. Starts(t, 0)
  BY <1>1, <1>2 DEF StreamOK, Starts
<1>5. Ends(t)
  <2>1. CASE o < Len(q)
    <3>1. Len(t) > 0 /\ Len(t) \in 1 .. Len(t) /\ Len(t) + o = Len(q) /\ Len(q) > 0
      BY <1>1, <1>2, <2>1
    <3>2. t[Len(t)] = q[Len(q)]
      BY <1>2, <3>1
    <3> QED  BY <3>1, <3>2 DEF StreamOK, Ends
  <2>2. CASE o = Len(q)
    BY <1>1, <1>2, <2>2 DEF StreamOK, Ends, Whole, NextIsFirst
  <2> QED  BY <1>1, <2>1, <2>2
<1>6. \A a : Unanswered(a, q, o) => Unanswered(a, t, 0)
  BY <1>1, <1>2 DEF Unanswered
<1> QED  BY <1>3, <1>4, <1>5, <1>6 DEF StreamOK, t

\* Marking the terminator found makes it the boundary.
LEMMA MarkStream ==
  ASSUME NEW q \in Seq(Units), NEW o \in 1 .. Len(q), q[o].last,
         NEW p, StreamOK(q, p)
  PROVE  /\ StreamOK([q EXCEPT ![o].last = FALSE], o)
         /\ \A a : \A k \in Nat : Unanswered(a, q, k) => Unanswered(a, [q EXCEPT ![o].last = FALSE], k)
<1> DEFINE t == [q EXCEPT ![o].last = FALSE]
           e == [q[o] EXCEPT !.last = FALSE]
<1>1. Len(q) \in Nat /\ \A i \in 1 .. Len(q) : q[i] \in Units
  BY LenProperties, ElementOfSeq
<1>2. e \in Units /\ e.req = q[o].req /\ e.first = q[o].first /\ e.last = FALSE
  BY <1>1 DEF Units
<1>3. t = [q EXCEPT ![o] = e]
  OBVIOUS
<1> HIDE DEF e, t
<1>4. /\ Len(t) = Len(q)
      /\ \A i \in 1 .. Len(q) : t[i] = IF i = o THEN e ELSE q[i]
  BY <1>2, <1>3, ExceptSeq
<1>5. \A i \in 1 .. Len(q) : /\ t[i].req = q[i].req /\ t[i].first = q[i].first
                             /\ t[i].last => q[i].last
  BY <1>2, <1>4
<1>6. InStream(t)
  BY <1>1, <1>4, <1>5 DEF StreamOK, InStream, UnitOK, Before
<1>7. Starts(t, 0) /\ Ends(t)
  BY <1>1, <1>4, <1>5 DEF StreamOK, Starts, Ends
<1>8. Whole(t[o].req) /\ Starts(t, o)
  BY <1>1, <1>4, <1>5 DEF StreamOK, InStream, UnitOK, Starts
<1>9. \A a : \A k \in Nat : Unanswered(a, q, k) => Unanswered(a, t, k)
  BY <1>1, <1>4, <1>5 DEF Unanswered
<1> QED  BY <1>6, <1>7, <1>8, <1>9 DEF StreamOK, t

\* Shifting rxbuf shifts the stream.
LEMMA ShiftOfStream ==
  ASSUME NEW b \in Seq(Units), NEW s \in Seq(Units), NEW o \in 0 .. Len(b)
  PROVE  mig_buf_shift(b, o) \o s = SubSeq(b \o s, o + 1, Len(b \o s))
<1> DEFINE q == b \o s
           c == mig_buf_shift(b, o)
           l == c \o s
           r == SubSeq(q, o + 1, Len(q))
<1>1. Len(b) \in Nat /\ Len(s) \in Nat
  BY LenProperties
<1>2. /\ q \in Seq(Units) /\ Len(q) = Len(b) + Len(s)
      /\ \A i \in 1 .. Len(b) + Len(s) : q[i] = IF i <= Len(b) THEN b[i] ELSE s[i - Len(b)]
  BY ConcatProperties
<1>3. /\ c \in Seq(Units) /\ Len(c) = Len(b) - o
      /\ \A i \in 1 .. Len(b) - o : c[i] = b[o + i]
  BY Shifted DEF mig_buf_shift
<1>4. /\ l \in Seq(Units) /\ Len(l) = Len(c) + Len(s)
      /\ \A i \in 1 .. Len(c) + Len(s) : l[i] = IF i <= Len(c) THEN c[i] ELSE s[i - Len(c)]
  <2> HIDE DEF c
  <2> QED  BY <1>3, ConcatProperties
<1>5. /\ r \in Seq(Units) /\ Len(r) = Len(q) - o
      /\ \A i \in 1 .. Len(q) - o : r[i] = q[o + i]
  <2> HIDE DEF q
  <2>1. o \in 0 .. Len(q)
    BY <1>1, <1>2
  <2> QED  BY <1>2, <2>1, Shifted
<1> HIDE DEF q, c, l, r
<1>6. Len(l) = Len(r) /\ Len(l) = Len(b) + Len(s) - o
  BY <1>1, <1>2, <1>3, <1>4, <1>5
<1>7. ASSUME NEW i \in 1 .. Len(l) PROVE l[i] = r[i]
  <2>1. r[i] = q[o + i] /\ o + i \in 1 .. Len(b) + Len(s)
    BY <1>1, <1>2, <1>5, <1>6
  <2>2. CASE i <= Len(c)
    <3>1. l[i] = c[i] /\ c[i] = b[o + i]
      BY <1>1, <1>3, <1>4, <1>6, <2>2
    <3>2. q[o + i] = b[o + i]
      BY <1>1, <1>2, <1>3, <2>1, <2>2
    <3> QED  BY <2>1, <3>1, <3>2
  <2>3. CASE i > Len(c)
    <3>1. l[i] = s[i - Len(c)]
      BY <1>1, <1>3, <1>4, <1>6, <2>3
    <3>2. q[o + i] = s[(o + i) - Len(b)]
      BY <1>1, <1>2, <1>3, <2>1, <2>3
    <3>3. i - Len(c) = (o + i) - Len(b)
      BY <1>1, <1>3, <1>6
    <3> QED  BY <2>1, <3>1, <3>2, <3>3
  <2> QED  BY <1>1, <1>3, <1>6, <2>2, <2>3
<1>8. l = r
  BY <1>4, <1>5, <1>6, <1>7, SeqEqual
<1> QED  BY <1>8 DEF l, r, q, c

\* Marking the header in rxbuf marks it in the stream.
LEMMA MarkOfStream ==
  ASSUME NEW b \in Seq(Units), NEW s \in Seq(Units), NEW from, mhttp_req_check(b, from)
  PROVE  /\ CheckedOff(b, from) \in 1 .. Len(b) /\ (b \o s)[CheckedOff(b, from)].last
         /\ CheckedBuf(b, from) \o s = [b \o s EXCEPT ![CheckedOff(b, from)].last = FALSE]
<1> DEFINE o == CheckedOff(b, from)
           e == [b[o] EXCEPT !.last = FALSE]
           q == b \o s
           c == CheckedBuf(b, from)
           l == c \o s
           r == [q EXCEPT ![o] = e]
<1>1. Len(b) \in Nat /\ Len(s) \in Nat
  BY LenProperties
<1>2. o \in 1 .. Len(b) /\ b[o].last
  <2>1. Completes(b, from, o) /\ o \in 1 .. Len(b)
    BY DEF mhttp_req_check, CheckedOff
  <2> QED  BY <2>1 DEF Completes
<1>3. c \in Seq(Units) /\ Len(c) = Len(b)
  BY CheckedFits
<1>4. c = [b EXCEPT ![o] = e]
  BY DEF CheckedBuf
<1> HIDE DEF o, c
<1>5. e \in Units
  <2>1. b[o] \in Units
    BY <1>2, ElementOfSeq
  <2> QED  BY <2>1 DEF Units
<1>6. \A i \in 1 .. Len(b) : c[i] = IF i = o THEN e ELSE b[i]
  <2> HIDE DEF e
  <2> QED  BY <1>2, <1>4, <1>5, ExceptSeq
<1>7. /\ q \in Seq(Units) /\ Len(q) = Len(b) + Len(s)
      /\ \A i \in 1 .. Len(b) + Len(s) : q[i] = IF i <= Len(b) THEN b[i] ELSE s[i - Len(b)]
  BY ConcatProperties
<1>8. /\ l \in Seq(Units) /\ Len(l) = Len(c) + Len(s)
      /\ \A i \in 1 .. Len(c) + Len(s) : l[i] = IF i <= Len(c) THEN c[i] ELSE s[i - Len(c)]
  BY <1>3, ConcatProperties
<1> HIDE DEF q, l
<1>9. q[o] = b[o]
  BY <1>1, <1>2, <1>7
<1>10. [q EXCEPT ![o].last = FALSE] = r
  BY <1>9
<1> HIDE DEF e
<1>11. /\ r \in Seq(Units) /\ Len(r) = Len(q)
       /\ \A i \in 1 .. Len(q) : r[i] = IF i = o THEN e ELSE q[i]
  <2>1. o \in 1 .. Len(q)
    BY <1>1, <1>2, <1>7
  <2> QED  BY <1>5, <1>7, <2>1, ExceptSeq
<1> HIDE DEF r
<1>12. Len(l) = Len(r) /\ Len(l) = Len(b) + Len(s)
  BY <1>3, <1>7, <1>8, <1>11
<1>13. ASSUME NEW i \in 1 .. Len(l) PROVE l[i] = r[i]
  <2>1. i \in 1 .. Len(b) + Len(s) /\ i \in 1 .. Len(q)
    BY <1>7, <1>12
  <2>2. r[i] = IF i = o THEN e ELSE q[i]
    BY <1>11, <2>1
  <2>3. CASE i <= Len(b)
    <3>1. l[i] = c[i] /\ q[i] = b[i]
      BY <1>3, <1>7, <1>8, <2>1, <2>3
    <3>2. c[i] = IF i = o THEN e ELSE b[i]
      BY <1>1, <1>6, <2>1, <2>3
    <3> QED  BY <2>2, <3>1, <3>2
  <2>4. CASE i > Len(b)
    <3>1. l[i] = s[i - Len(b)] /\ q[i] = s[i - Len(b)] /\ i # o
      BY <1>1, <1>2, <1>3, <1>7, <1>8, <2>1, <2>4
    <3> QED  BY <2>2, <3>1
  <2> QED  BY <1>1, <2>1, <2>3, <2>4
<1>14. l = r
  BY <1>8, <1>11, <1>12, <1>13, SeqEqual
<1> QED  BY <1>2, <1>9, <1>10, <1>14 DEF l, q, o, c

\* What read takes from the socket and puts in rxbuf stays where it is in the
\* stream.
LEMMA ReceiveOfStream ==
  ASSUME NEW b \in Seq(Units), NEW s \in Seq(Units), NEW n \in 0 .. Len(s)
  PROVE  (b \o SubSeq(s, 1, n)) \o SubSeq(s, n + 1, Len(s)) = b \o s
<1> DEFINE taken == SubSeq(s, 1, n)
           rest  == SubSeq(s, n + 1, Len(s))
<1>1. Len(s) \in Nat /\ \A i \in 1 .. Len(s) : s[i] \in Units
  BY LenProperties, ElementOfSeq
<1>2. taken \in Seq(Units) /\ rest \in Seq(Units)
  <2>1. \A i \in 1 .. n : s[i] \in Units
    BY <1>1
  <2>2. \A i \in n + 1 .. Len(s) : s[i] \in Units
    BY <1>1
  <2> QED  BY <1>1, <2>1, <2>2, SubSeqProperties
<1>3. taken \o rest = SubSeq(s, 1, Len(s))
  <2>1. 1 \in 1 .. Len(s) + 1 /\ n \in 1 - 1 .. Len(s) /\ Len(s) \in n .. Len(s)
    BY <1>1
  <2> QED  BY <2>1, ConcatAdjacentSubSeq
<1>4. SubSeq(s, 1, Len(s)) = s
  BY SubSeqFull
<1> HIDE DEF taken, rest
<1>5. (b \o taken) \o rest = b \o (taken \o rest)
  <2>1. \A t, u \in Seq(Units) : (b \o t) \o u = b \o (t \o u)
    BY ConcatAssociative, SMTT(30)
  <2> QED  BY <1>2, <2>1
<1> QED  BY <1>3, <1>4, <1>5 DEF taken, rest

-----------------------------------------------------------------------------
(* The invariant of the order, and its preservation. *)

\* The connection may go on after request r.
Keeps(r) == reqs[r].keep /\ reqs[r].kind \notin {"malformed", "unknown"}
AllKept  == \A k \in 1 .. Len(answered) : Keeps(answered[k])

\* The callbacks that come before an answer.
Awaits == cb \in {"conn_init", "req_recv_headers", "req_read_headers"}

SentInv ==
  /\ reqs \in [1 .. MaxReqs -> Requests]
  /\ sent \in [req : Nat \ {0}, units : Nat]
  /\ sent.units > 0 => sent.req <= MaxReqs

AnswerInv ==
  /\ answered \in Seq(1 .. MaxReqs)
  /\ \A k \in 1 .. Len(answered) : Whole(answered[k])
  /\ \A k, m \in 1 .. Len(answered) : k < m => answered[k] < answered[m]
  /\ \A k \in 1 .. Len(answered) : k < Len(answered) => Keeps(answered[k])

StreamInv ==
  cb # "closed" => /\ StreamOK(Stream, off)
                   /\ sent.units = 0 => Stream = <<>> /\ answered = <<>>

CallbackInv ==
  /\ Awaits => AllKept /\ Unanswered(answered, Stream, 0)
  /\ cb \in {"req_read_headers", "resp_send_file"} => off > 0
  /\ cb = "resp_send_file" => Unanswered(answered, Stream, off) /\ (~eos => AllKept)

OrderInv == SentInv /\ AnswerInv /\ StreamInv /\ CallbackInv

\* The whole of a sequence of units is one too.
LEMMA StreamFits ==
  ASSUME RxInv
  PROVE  Stream \in Seq(Units) /\ Len(Stream) = Len(rx) + Len(net) /\ Len(rx) \in Nat /\ Len(net) \in Nat
         /\ \A i \in 1 .. Len(rx) : Stream[i] = rx[i]
<1>1. rx \in Seq(Units) /\ net \in Seq(Units) /\ Len(rx) \in Nat /\ Len(net) \in Nat
  BY LenProperties DEF RxInv
<1>2. /\ rx \o net \in Seq(Units)
      /\ Len(rx \o net) = Len(rx) + Len(net)
      /\ \A i \in 1 .. Len(rx) + Len(net) : (rx \o net)[i] = IF i <= Len(rx) THEN rx[i] ELSE net[i - Len(rx)]
  BY <1>1, ConcatProperties
<1> DEFINE q == rx \o net
<1> HIDE DEF q
<1>3. \A i \in 1 .. Len(rx) : q[i] = rx[i]
  BY <1>1, <1>2 DEF q
<1> QED  BY <1>1, <1>2, <1>3 DEF q, Stream

\* Where the client has not moved and is not gone, a stream stays one.
LEMMA StreamKept ==
  ASSUME UNCHANGED <<reqs, sent, peer>>, NEW q, NEW o, q = Stream', o = off', StreamOK(q, o)
  PROVE  StreamOK(Stream, off)'
BY DEF StreamOK, InStream, UnitOK, Whole, Before, Starts, Ends, NextIsFirst

\* After the shift, and the check for a request that is queued up, the stream is
\* what was behind the boundary.
LEMMA KeepAliveStream ==
  ASSUME NEW b \in Seq(Units), NEW s \in Seq(Units), NEW o \in 0 .. Len(b),
         StreamOK(b \o s, o), sent.req \in Int, KeepAlive(b, o)
  PROVE  /\ StreamOK(rx' \o s, off')
         /\ \A a : Unanswered(a, b \o s, o) => Unanswered(a, rx' \o s, 0)
<1> DEFINE next == mig_buf_shift(b, o)
           q    == b \o s
           t    == next \o s
<1>1. next \in Seq(Units)
  BY ShiftFits
<1>2. q \in Seq(Units) /\ o \in 0 .. Len(q)
  <2>1. Len(b) \in Nat /\ Len(s) \in Nat
    BY LenProperties
  <2>2. q \in Seq(Units) /\ Len(q) = Len(b) + Len(s)
    BY ConcatProperties
  <2> QED  BY <2>1, <2>2
<1>3. t = SubSeq(q, o + 1, Len(q))
  BY ShiftOfStream
<1>4. t \in Seq(Units)
  BY <1>1, ConcatProperties
<1>5. \/ /\ mhttp_req_check(next, 0)
         /\ rx' = CheckedBuf(next, 0) /\ off' = CheckedOff(next, 0)
      \/ rx' = next /\ off' = 0
  BY DEF KeepAlive
<1> HIDE DEF next
<1>6. StreamOK(q, o)
  OBVIOUS
<1> HIDE DEF q
<1>7. StreamOK(t, 0) /\ (\A a : Unanswered(a, q, o) => Unanswered(a, t, 0))
  <2> HIDE DEF t
  <2> QED  BY <1>2, <1>3, <1>6, ShiftStream
<1>8. CASE /\ mhttp_req_check(next, 0)
           /\ rx' = CheckedBuf(next, 0) /\ off' = CheckedOff(next, 0)
  <2> DEFINE c == CheckedOff(next, 0)
  <2>1. /\ c \in 1 .. Len(next) /\ t[c].last
        /\ rx' \o s = [t EXCEPT ![c].last = FALSE]
    BY <1>1, <1>8, MarkOfStream
  <2>2. c \in 1 .. Len(t)
    <3>1. Len(next) \in Nat /\ Len(s) \in Nat
      BY <1>1, LenProperties
    <3>2. Len(t) = Len(next) + Len(s)
      BY <1>1, ConcatProperties
    <3> QED  BY <2>1, <3>1, <3>2
  <2>3. off' = c
    BY <1>8
  <2> HIDE DEF c, t
  <2>4. StreamOK([t EXCEPT ![c].last = FALSE], c)
        /\ (\A a : Unanswered(a, t, 0) => Unanswered(a, [t EXCEPT ![c].last = FALSE], 0))
    BY <1>4, <1>7, <2>1, <2>2, MarkStream
  <2> QED  BY <1>7, <2>1, <2>3, <2>4 DEF q
<1>9. CASE rx' = next /\ off' = 0
  BY <1>7, <1>9 DEF q
<1> QED  BY <1>5, <1>8, <1>9

\* What is behind a complete header belongs to later requests.
LEMMA BehindParsed ==
  ASSUME NEW q \in Seq(Units), NEW o \in 1 .. Len(q), StreamOK(q, o), sent.req \in Int
  PROVE  /\ \A i \in o + 1 .. Len(q) : q[1].req < q[i].req
         /\ Whole(q[1].req) /\ q[1].req \in 1 .. MaxReqs
<1>1. Len(q) \in Nat /\ \A i \in 1 .. Len(q) : q[i] \in Units
  BY LenProperties, ElementOfSeq
<1>2. InStream(q) /\ Whole(q[o].req) /\ Starts(q, o)
  BY DEF StreamOK
<1>3. q[1].req <= q[o].req /\ q[o].req <= sent.req /\ q[1].req \in 1 .. MaxReqs
      /\ q[1] \in Units /\ q[o] \in Units
  <2>1. o = 1 \/ 1 < o
    BY <1>1
  <2> QED  BY <1>1, <1>2, <2>1 DEF InStream, UnitOK, Before, Units
<1>4. Whole(q[1].req)
  BY <1>2, <1>3 DEF Whole, Units
<1>5. ASSUME NEW i \in o + 1 .. Len(q) PROVE q[1].req < q[i].req
  <2>1. o + 1 \in 1 .. Len(q) /\ q[o + 1].first /\ i \in 1 .. Len(q) /\ 1 < o + 1 /\ 1 \in 1 .. Len(q)
    BY <1>1, <1>2 DEF Starts
  <2>2. q[1].req < q[o + 1].req
    BY <1>2, <2>1 DEF InStream, Before
  <2>3. q[o + 1].req <= q[i].req
    <3>1. i = o + 1 \/ o + 1 < i
      OBVIOUS
    <3>2. q[o + 1].req \in Int
      BY <1>1, <2>1 DEF Units
    <3> QED  BY <1>2, <2>1, <3>1, <3>2 DEF InStream, Before
  <2>4. q[1].req \in Int /\ q[o + 1].req \in Int /\ q[i].req \in Int
    BY <1>1, <2>1 DEF Units
  <2> QED  BY <2>2, <2>3, <2>4
<1> QED  BY <1>3, <1>4, <1>5

-----------------------------------------------------------------------------
(* The steps. *)

\* A new connection has an empty stream, and its client has sent nothing.
LEMMA InitOrder == Init => OrderInv
<1> SUFFICES ASSUME Init PROVE OrderInv
  OBVIOUS
<1>1. Stream = <<>> /\ answered = <<>> /\ Len(<<>>) = 0 /\ <<>> \in Seq(1 .. MaxReqs) /\ <<>> \in Seq(Units)
  BY EmptySeq, ConcatEmptySeq DEF Init, Stream
<1>2. SentInv
  BY DEF Init, SentInv
<1>3. AnswerInv
  BY <1>1 DEF AnswerInv
<1>4. StreamOK(<<>>, 0)
  BY <1>1 DEF Init, StreamOK, InStream, Starts, Ends, NextIsFirst
<1>5. StreamInv
  BY <1>1, <1>4 DEF StreamInv, Init
<1>6. CallbackInv
  BY <1>1 DEF CallbackInv, Init, AllKept, Unanswered
<1> QED  BY <1>2, <1>3, <1>5, <1>6 DEF OrderInv

\* The client's moves.
LEMMA SendsUnit ==
  ASSUME RxInv, OrderInv, ClientSends
  PROVE  \E r \in 1 .. MaxReqs, n \in Nat \ {0} :
           /\ sent' = [req |-> r, units |-> n] /\ net' = Append(net, Unit(r, n))
           /\ UNCHANGED <<reqs, peer, cb, rx, off, eos, answered>> /\ cb # "closed" /\ peer = "open"
           /\ \/ r = sent.req /\ n = sent.units + 1 /\ sent.units < reqs[r].units
              \/ r = sent.req + 1 /\ n = 1 /\ sent.units > 0 /\ ~(sent.units < reqs[sent.req].units)
           /\ Pipelining \/ n > 1 \/ r = 1 \/ AnswerReceived(r - 1)
<1> DEFINE r == IF sent.units < reqs[sent.req].units THEN sent.req ELSE sent.req + 1
           n == IF r = sent.req THEN sent.units + 1 ELSE 1
<1>1. /\ r <= MaxReqs /\ net' = Append(net, Unit(r, n)) /\ sent' = [req |-> r, units |-> n]
      /\ UNCHANGED <<reqs, peer, cb, rx, off, eos, answered>> /\ cb # "closed" /\ peer = "open"
      /\ Pipelining \/ n > 1 \/ r = 1 \/ AnswerReceived(r - 1)
  BY DEF ClientSends, slot, rxbuf, answer
<1>2. /\ reqs \in [1 .. MaxReqs -> Requests] /\ sent.req \in Nat \ {0} /\ sent.units \in Nat
      /\ MaxReqs \in Nat
  BY HttpConnAssumption DEF OrderInv, SentInv
<1>3. sent.req \in 1 .. MaxReqs => reqs[sent.req].units \in Nat \ {0}
  BY <1>2, HttpConnAssumption
<1>4. r \in 1 .. MaxReqs /\ n \in Nat \ {0}
  BY <1>1, <1>2
<1>5. sent.req \in 1 .. MaxReqs
  BY <1>1, <1>2, <1>4
<1>6. \/ r = sent.req /\ n = sent.units + 1 /\ sent.units < reqs[r].units
      \/ r = sent.req + 1 /\ n = 1 /\ sent.units > 0 /\ ~(sent.units < reqs[sent.req].units)
  BY <1>2, <1>3, <1>5
<1> HIDE DEF r, n
<1> QED  BY <1>1, <1>4, <1>6

\* What was whole stays whole.
LEMMA WholeStays ==
  ASSUME RxInv, OrderInv, ClientSends, NEW k \in Int, Whole(k)
  PROVE  Whole(k)'
<1>1. PICK r \in 1 .. MaxReqs, n \in Nat \ {0} :
        /\ sent' = [req |-> r, units |-> n] /\ reqs' = reqs
        /\ \/ r = sent.req /\ n = sent.units + 1 /\ sent.units < reqs[r].units
           \/ r = sent.req + 1 /\ n = 1
  BY SendsUnit
<1>2. sent'.req = r /\ sent'.units = n
  BY <1>1
<1>3. sent.req \in Nat /\ sent.units \in Nat
  BY DEF OrderInv, SentInv
<1>4. CASE k < sent.req
  BY <1>1, <1>2, <1>3, <1>4 DEF Whole
<1>5. CASE k = sent.req /\ sent.units = reqs[k].units
  BY <1>1, <1>2, <1>3, <1>5 DEF Whole
<1> QED  BY <1>4, <1>5 DEF Whole

\* What the client sends is appended to the stream.
LEMMA StreamGrows ==
  ASSUME RxInv, NEW u \in Units, net' = Append(net, u), rx' = rx
  PROVE  Stream' = Append(Stream, u)
<1>1. rx \in Seq(Units) /\ net \in Seq(Units) /\ <<u>> \in Seq(Units) /\ rx \o net \in Seq(Units)
  BY StreamFits DEF RxInv, Stream
<1>2. Append(net, u) = net \o <<u>>
  BY <1>1, AppendIsConcat
<1>3. Append(rx \o net, u) = (rx \o net) \o <<u>>
  BY <1>1, AppendIsConcat
<1>4. \A v \in Seq(Units) : (rx \o net) \o v = rx \o (net \o v)
  BY <1>1, ConcatAssociative, SMTT(40)
<1> QED  BY <1>1, <1>2, <1>3, <1>4 DEF Stream

\* A unit that goes out continues the stream: it begins a request just where the
\* one before was whole.
LEMMA SendsOrder ==
  ASSUME RxInv, OrderInv, ClientSends
  PROVE  OrderInv'
<1>1. PICK r \in 1 .. MaxReqs, n \in Nat \ {0} :
        /\ sent' = [req |-> r, units |-> n] /\ net' = Append(net, Unit(r, n))
        /\ UNCHANGED <<reqs, peer, cb, rx, off, eos, answered>> /\ cb # "closed" /\ peer = "open"
        /\ \/ r = sent.req /\ n = sent.units + 1 /\ sent.units < reqs[r].units
           \/ r = sent.req + 1 /\ n = 1 /\ sent.units > 0 /\ ~(sent.units < reqs[sent.req].units)
  BY SendsUnit
<1>2. /\ reqs \in [1 .. MaxReqs -> Requests] /\ sent.req \in Nat \ {0} /\ sent.units \in Nat
      /\ MaxReqs \in Nat /\ sent'.req = r /\ sent'.units = n
  BY <1>1, HttpConnAssumption DEF OrderInv, SentInv
<1>3. sent.units > 0 => sent.req <= MaxReqs /\ reqs[sent.req].units \in Nat \ {0}
  BY <1>2, HttpConnAssumption DEF OrderInv, SentInv
<1>4. PICK u : u = Unit(r, n)
  OBVIOUS
<1>5. u.req = r /\ (u.first <=> n = 1) /\ (u.last <=> n = reqs[r].units) /\ u \in Units
  <2>1. r \in Int
    OBVIOUS
  <2> QED  BY <1>4, <2>1, Zenon DEF Unit, Units
<1>6. PICK q : q = Stream
  OBVIOUS
<1>7. /\ q \in Seq(Units) /\ Len(q) \in Nat /\ \A i \in 1 .. Len(q) : q[i] \in Units
      /\ off \in 0 .. Len(q)
  <2>1. q \in Seq(Units) /\ Len(q) = Len(rx) + Len(net) /\ Len(rx) \in Nat /\ Len(net) \in Nat
    BY <1>6, StreamFits
  <2>2. off \in 0 .. Len(rx)
    BY DEF RxInv
  <2> QED  BY <2>1, <2>2, ElementOfSeq
<1>8. StreamOK(q, off) /\ (sent.units = 0 => q = <<>> /\ answered = <<>>)
  BY <1>1, <1>6 DEF OrderInv, StreamInv
<1>9. PICK t : t = Append(q, u)
  OBVIOUS
<1>10. Stream' = t
  BY <1>1, <1>4, <1>5, <1>6, <1>9, StreamGrows
<1>11. t \in Seq(Units) /\ Len(t) = Len(q) + 1 /\ t[Len(q) + 1] = u
       /\ \A i \in 1 .. Len(q) : t[i] = q[i]
  BY <1>5, <1>7, <1>9, AppendProperties
<1>12. u.last => Whole(r)'
  BY <1>1, <1>2, <1>5 DEF Whole
<1>13. n = 1 \/ (r = sent.req /\ n = sent.units + 1 /\ sent.units < reqs[r].units /\ sent.units > 0)
  BY <1>1, <1>2
<1>14. n = 1 \/ Len(q) > 0
  <2> SUFFICES ASSUME ~(Len(q) > 0) PROVE n = 1
    OBVIOUS
  <2>1. NextIsFirst
    BY <1>1, <1>8 DEF StreamOK, Ends
  <2>2. sent.units = 0 \/ ~(sent.units < reqs[sent.req].units)
    BY <1>2, <2>1 DEF NextIsFirst
  <2> QED  BY <1>13, <2>2
<1>15. Len(q) > 0 => q[Len(q)].req = sent.req
  BY <1>1, <1>8 DEF StreamOK, Ends
<1>16. Len(q) > 0 /\ Whole(q[Len(q)].req) => n = 1
  <2> SUFFICES ASSUME Len(q) > 0, Whole(q[Len(q)].req) PROVE n = 1
    OBVIOUS
  <2>1. sent.units = reqs[sent.req].units
    BY <1>2, <1>15 DEF Whole
  <2> QED  BY <1>1, <1>2, <1>13, <2>1
<1>20. SentInv'
  <2>1. sent' \in [req : Nat \ {0}, units : Nat]
    BY <1>1
  <2> QED  BY <1>1, <1>2, <2>1 DEF SentInv
<1>21. AnswerInv'
  <2>1. answered \in Seq(1 .. MaxReqs) /\ \A k \in 1 .. Len(answered) : answered[k] \in Int
    BY ElementOfSeq, <1>2 DEF OrderInv, AnswerInv
  <2>2. ASSUME NEW k \in 1 .. Len(answered) PROVE Whole(answered[k])'
    <3>1. PICK v \in Int : v = answered[k]
      BY <2>1
    <3>2. Whole(v)'
      BY <3>1, WholeStays DEF OrderInv, AnswerInv
    <3> QED  BY <1>1, <3>1, <3>2 DEF Whole
  <2> QED  BY <1>1, <2>2 DEF OrderInv, AnswerInv, Keeps
<1>22. StreamInv'
  <2>1. InStream(q) /\ Starts(q, 0) /\ Ends(q) /\ (off > 0 => Whole(q[off].req) /\ Starts(q, off))
    BY <1>8 DEF StreamOK
  <2>3. ASSUME NEW i \in 1 .. Len(t) PROVE UnitOK(t[i])'
    <3>1. CASE i = Len(q) + 1
      BY <1>1, <1>2, <1>5, <1>11, <1>12, <3>1 DEF UnitOK
    <3>2. CASE i # Len(q) + 1
      <4>1. i \in 1 .. Len(q) /\ t[i] = q[i]
        BY <1>7, <1>11, <3>2
      <4>2. UnitOK(q[i]) /\ q[i].req \in Int
        BY <1>7, <2>1, <4>1 DEF InStream, Units
      <4>3. q[i].last => Whole(q[i].req)'
        BY <4>2, WholeStays DEF UnitOK
      <4> QED  BY <1>1, <1>2, <4>1, <4>2, <4>3 DEF UnitOK
    <3> QED  BY <3>1, <3>2
  <2>4. ASSUME NEW i \in 1 .. Len(q) PROVE q[i].req <= sent.req
    BY <2>1 DEF InStream, UnitOK
  <2>5. ASSUME NEW i \in 1 .. Len(t), NEW j \in 1 .. Len(t), i < j PROVE Before(t[i], t[j])
    <3>1. i \in 1 .. Len(q) /\ t[i] = q[i]
      BY <1>7, <1>11, <2>5
    <3>2. CASE j \in 1 .. Len(q)
      BY <1>11, <2>1, <2>5, <3>1, <3>2 DEF InStream
    <3>3. CASE j = Len(q) + 1
      <4>1. q # <<>>
        BY <3>1
      <4>2. (u.req = sent.req /\ n # 1) \/ u.req = sent.req + 1
        BY <1>1, <1>2, <1>5, <1>8, <4>1
      <4> QED  BY <1>2, <1>5, <1>7, <1>11, <2>4, <3>1, <3>3, <4>2, SMTT(30) DEF Before, Units
    <3> QED  BY <1>7, <1>11, <3>2, <3>3
  <2>8. ASSUME NEW i \in 1 .. Len(t) - 1, t[i].last PROVE t[i + 1].first
    <3>1. i \in 1 .. Len(q) /\ t[i] = q[i]
      BY <1>7, <1>11
    <3>2. CASE i = Len(q)
      <4>1. Whole(q[i].req)
        BY <2>1, <2>8, <3>1 DEF InStream, UnitOK
      <4> QED  BY <1>5, <1>7, <1>11, <1>16, <3>1, <3>2, <4>1
    <3>3. CASE i < Len(q)
      BY <1>7, <1>11, <2>1, <2>8, <3>1, <3>3, SMTT(30) DEF InStream
    <3> QED  BY <1>7, <3>1, <3>2, <3>3
  <2>9. Starts(t, 0)
    BY <1>5, <1>7, <1>11, <1>14, <2>1 DEF Starts
  <2>10. off > 0 => Starts(t, off)
    <3>1. CASE off = Len(q)
      BY <1>5, <1>7, <1>11, <1>16, <2>1, <3>1 DEF Starts
    <3>2. CASE off < Len(q)
      BY <1>7, <1>11, <2>1, <3>2 DEF Starts
    <3> QED  BY <1>7, <3>1, <3>2
  <2>11. off > 0 => Whole(t[off].req)'
    <3> SUFFICES ASSUME off > 0 PROVE Whole(t[off].req)'
      OBVIOUS
    <3>1. PICK v \in Int : v = q[off].req
      BY <1>7, SMTT(30) DEF Units
    <3>2. Whole(v)' /\ t[off].req = v /\ off' = off
      BY <1>1, <1>7, <1>11, <2>1, <3>1, WholeStays
    <3> QED  BY <3>2 DEF Whole
  <2>12. InStream(t)'
    BY <2>3, <2>5, <2>8 DEF InStream, UnitOK, Before
  <2>13. Ends(t)'
    BY <1>2, <1>5, <1>7, <1>11 DEF Ends
  <2>14. StreamOK(t, off)'
    BY <1>1, <2>9, <2>10, <2>11, <2>12, <2>13 DEF StreamOK, Starts
  <2> QED  BY <1>2, <1>10, <2>14 DEF StreamInv
<1>23. CallbackInv'
  <2>1. \A k \in 1 .. Len(answered) : answered[k] \in Int /\ answered[k] <= sent.req
    <3>1. answered \in Seq(1 .. MaxReqs)
      BY DEF OrderInv, AnswerInv
    <3>2. \A k \in 1 .. Len(answered) : answered[k] \in 1 .. MaxReqs /\ Whole(answered[k])
      BY <3>1, ElementOfSeq DEF OrderInv, AnswerInv
    <3> QED  BY <1>2, <3>2 DEF Whole
  <2>2. n = 1 => \A k \in 1 .. Len(answered) : answered[k] < r
    <3>1. CASE r = sent.req + 1
      BY <1>2, <2>1, <3>1
    <3>2. CASE sent.units = 0
      <4>1. answered = <<>>
        BY <1>8, <3>2
      <4> QED  BY <4>1
    <3> QED  BY <1>1, <1>2, <3>1, <3>2
  <2>5. ASSUME NEW o \in {0, off}, Unanswered(answered, q, o) PROVE Unanswered(answered, t, o)'
    <3> SUFFICES ASSUME NEW k \in 1 .. Len(answered), NEW i \in o + 1 .. Len(t) PROVE answered[k] < t[i].req
      BY <1>1 DEF Unanswered
    <3>1. CASE i # Len(q) + 1
      BY <1>7, <1>11, <2>5, <3>1 DEF Unanswered
    <3>2. CASE i = Len(q) + 1 /\ n = 1
      BY <1>5, <1>11, <2>2, <3>2
    <3>3. CASE i = Len(q) + 1 /\ n # 1
      <4>1. Len(q) > 0 /\ o < Len(q)
        BY <1>7, <1>8, <1>14, <1>16, <3>3 DEF StreamOK
      <4>2. answered[k] < q[Len(q)].req
        BY <1>7, <2>5, <4>1 DEF Unanswered
      <4> QED  BY <1>5, <1>11, <1>13, <1>15, <3>3, <4>1, <4>2
    <3> QED  BY <3>1, <3>2, <3>3
  <2> QED  BY <1>1, <1>6, <1>10, <2>5 DEF OrderInv, CallbackInv, Awaits, AllKept, Keeps, Unanswered
<1> QED  BY <1>20, <1>21, <1>22, <1>23 DEF OrderInv

\* A stream cut off at the end of rxbuf is one that nobody continues.
LEMMA CutStream ==
  ASSUME NEW b \in Seq(Units), NEW s \in Seq(Units), NEW o \in 0 .. Len(b), StreamOK(b \o s, o)
  PROVE  /\ InStream(b) /\ Starts(b, 0)
         /\ o > 0 => Whole(b[o].req) /\ Starts(b, o)
         /\ \A k \in Nat : Unanswered(answered, b \o s, k) => Unanswered(answered, b, k)
<1> DEFINE q == b \o s
<1>1. Len(b) \in Nat /\ Len(s) \in Nat
  BY LenProperties
<1>2. /\ q \in Seq(Units) /\ Len(q) = Len(b) + Len(s)
      /\ \A i \in 1 .. Len(b) + Len(s) : q[i] = IF i <= Len(b) THEN b[i] ELSE s[i - Len(b)]
  BY ConcatProperties
<1>3. StreamOK(q, o)
  OBVIOUS
<1> HIDE DEF q
<1>4. Len(b) <= Len(q) /\ \A i \in 1 .. Len(b) : i \in 1 .. Len(q) /\ q[i] = b[i]
  BY <1>1, <1>2
<1>5. InStream(b)
  BY <1>1, <1>2, <1>3, <1>4 DEF StreamOK, InStream
<1>6. Starts(b, 0) /\ (o > 0 => Whole(b[o].req) /\ Starts(b, o))
  BY <1>1, <1>2, <1>3, <1>4 DEF StreamOK, Starts
<1>7. \A k \in Nat : Unanswered(answered, q, k) => Unanswered(answered, b, k)
  <2> SUFFICES ASSUME NEW k \in Nat, Unanswered(answered, q, k),
                      NEW j \in 1 .. Len(answered), NEW i \in k + 1 .. Len(b)
               PROVE  answered[j] < b[i].req
    BY DEF Unanswered
  <2>1. i \in k + 1 .. Len(q) /\ q[i] = b[i]
    BY <1>1, <1>2, <1>4
  <2> QED  BY <2>1 DEF Unanswered
<1> QED  BY <1>5, <1>6, <1>7 DEF q

\* A half-close keeps the stream, a reset cuts it off at the end of rxbuf.
LEMMA ClientOrder ==
  ASSUME RxInv, OrderInv, ClientShuts \/ ClientResets
  PROVE  OrderInv'
<1>1. cb # "closed" /\ peer' # "open" /\ (net' = net \/ net' = <<>>)
      /\ UNCHANGED <<reqs, sent, cb, rx, off, eos, answered>>
  BY DEF ClientShuts, ClientResets, slot, rxbuf, answer
<1>2. StreamOK(Stream, off) /\ off \in Nat
  BY <1>1 DEF OrderInv, StreamInv, RxInv
<1>3. SentInv' /\ AnswerInv'
  BY <1>1 DEF OrderInv, SentInv, AnswerInv, Keeps, Whole
<1>4. CASE net' = net
  <2>1. Stream' = Stream
    BY <1>1, <1>4 DEF Stream
  <2>2. StreamOK(Stream, off)'
    BY <1>1, <1>2, <2>1 DEF StreamOK, InStream, UnitOK, Whole, Before, Starts, Ends
  <2>3. StreamInv' /\ CallbackInv'
    BY <1>1, <2>1, <2>2
       DEF OrderInv, StreamInv, CallbackInv, Awaits, AllKept, Keeps, Unanswered
  <2> QED  BY <1>3, <2>3 DEF OrderInv
<1>5. CASE net' = <<>>
  <2>1. rx \in Seq(Units) /\ net \in Seq(Units) /\ off \in 0 .. Len(rx)
    BY DEF RxInv
  <2>2. Stream' = rx
    BY <1>1, <1>5, <2>1, ConcatEmptySeq DEF Stream
  <2>3. /\ InStream(rx) /\ Starts(rx, 0) /\ (off > 0 => Whole(rx[off].req) /\ Starts(rx, off))
        /\ \A k \in Nat : Unanswered(answered, Stream, k) => Unanswered(answered, rx, k)
    BY <1>2, <2>1, CutStream DEF Stream
  <2>4. StreamOK(Stream, off)'
    BY <1>1, <2>2, <2>3 DEF StreamOK, InStream, UnitOK, Whole, Before, Starts, Ends
  <2>5. sent.units = 0 => rx = <<>>
    BY <1>1, <2>1, ConcatEqualIffEmpty DEF OrderInv, StreamInv, Stream
  <2>6. StreamInv' /\ CallbackInv'
    BY <1>1, <1>2, <2>2, <2>3, <2>4, <2>5
       DEF OrderInv, StreamInv, CallbackInv, Awaits, AllKept, Keeps, Unanswered
  <2> QED  BY <1>3, <2>6 DEF OrderInv
<1> QED  BY <1>1, <1>4, <1>5

\* Once the connection is closed only the order of the answers counts.
LEMMA CloseOrder ==
  ASSUME OrderInv, Close, UNCHANGED <<reqs, sent, answered>>
  PROVE  OrderInv'
BY DEF OrderInv, SentInv, AnswerInv, StreamInv, CallbackInv, Awaits, Keeps, Whole, Close

\* Where the next header is waited for, what was answered is behind.
LEMMA KeepAliveOrder ==
  ASSUME RxInv, OrderInv, KeepAlive(rx, off), UNCHANGED <<reqs, sent, peer, net>>,
         cb # "closed", off > 0, AnswerInv', AllKept', Unanswered(answered', Stream, off)
  PROVE  OrderInv'
<1>1. rx \in Seq(Units) /\ net \in Seq(Units) /\ off \in 0 .. Len(rx) /\ sent.req \in Int
  BY DEF RxInv, OrderInv, SentInv
<1>2. StreamOK(rx \o net, off)
  BY DEF OrderInv, StreamInv, Stream
<1>3. PICK a : a = answered'
  OBVIOUS
<1>4. StreamOK(rx' \o net, off') /\ (Unanswered(a, rx \o net, off) => Unanswered(a, rx' \o net, 0))
  BY <1>1, <1>2, KeepAliveStream
<1>5. Stream' = rx' \o net
  BY DEF Stream
<1>6. StreamOK(Stream, off)'
  BY <1>4, <1>5, StreamKept
<1>7. cb' = "req_recv_headers"
  BY DEF KeepAlive
<1>8. Unanswered(answered, Stream, 0)'
  BY <1>3, <1>4, <1>5 DEF Stream, Unanswered
<1>9. SentInv'
  BY DEF OrderInv, SentInv
<1>10. CallbackInv'
  BY <1>7, <1>8 DEF CallbackInv
<1>11. sent'.units # 0
  <2> SUFFICES ASSUME sent.units = 0 PROVE FALSE
    OBVIOUS
  <2>1. rx = <<>>
    BY <1>1, ConcatEqualIffEmpty DEF OrderInv, StreamInv, Stream
  <2> QED  BY <1>1, <2>1
<1> QED  BY <1>6, <1>9, <1>10, <1>11 DEF OrderInv, StreamInv

\* The request at the start of rxbuf is whole, and later than all answered.
LEMMA ParsedIsNext ==
  ASSUME RxInv, OrderInv, cb = "req_read_headers"
  PROVE  /\ Parsed \in 1 .. MaxReqs /\ Whole(Parsed) /\ rx[1].first /\ rx[off].req >= Parsed
         /\ \A k \in 1 .. Len(answered) : answered[k] < Parsed
         /\ \A i \in off + 1 .. Len(Stream) : Parsed < Stream[i].req
         /\ off > 0 /\ AllKept /\ Unanswered(answered, Stream, 0)
<1>1. /\ off > 0 /\ AllKept /\ Unanswered(answered, Stream, 0) /\ StreamOK(Stream, off)
      /\ sent.req \in Int
  BY DEF OrderInv, CallbackInv, StreamInv, SentInv, Awaits
<1>2. /\ Stream \in Seq(Units) /\ Len(Stream) = Len(rx) + Len(net)
      /\ Len(rx) \in Nat /\ Len(net) \in Nat
      /\ \A i \in 1 .. Len(rx) : Stream[i] = rx[i]
  BY StreamFits
<1>3. off \in 1 .. Len(rx)
  BY <1>1, <1>2 DEF RxInv
<1>4. off \in 1 .. Len(Stream) /\ Stream[1] = rx[1] /\ Stream[off] = rx[off]
  BY <1>2, <1>3
<1>5. /\ \A i \in off + 1 .. Len(Stream) : Parsed < Stream[i].req
      /\ Whole(Parsed) /\ Parsed \in 1 .. MaxReqs
  BY <1>1, <1>2, <1>4, BehindParsed DEF Parsed
<1>6. rx[1].first
  BY <1>1, <1>4 DEF StreamOK, Starts
<1>7. \A k \in 1 .. Len(answered) : answered[k] < Parsed
  BY <1>1, <1>4 DEF Unanswered, Parsed
<1>8. rx[off].req >= Parsed
  <2>1. off = 1 \/ 1 < off
    BY <1>3
  <2>2. Stream[1] \in Units /\ Stream[off] \in Units
    BY <1>2, <1>4, ElementOfSeq
  <2> QED  BY <1>1, <1>4, <2>1, <2>2 DEF StreamOK, InStream, Before, Parsed, Units
<1> QED  BY <1>1, <1>5, <1>6, <1>7, <1>8

\* Answering it keeps the answers in order.
LEMMA AnswerKept ==
  ASSUME RxInv, OrderInv, cb = "req_read_headers", answered' = Append(answered, Parsed),
         UNCHANGED <<reqs, sent>>
  PROVE  /\ AnswerInv'
         /\ Unanswered(answered', Stream, off)
         /\ Keeps(Parsed) => AllKept'
         /\ answered' # <<>>
<1>1. /\ Parsed \in 1 .. MaxReqs /\ Whole(Parsed) /\ AllKept
      /\ \A k \in 1 .. Len(answered) : answered[k] < Parsed
      /\ \A i \in off + 1 .. Len(Stream) : Parsed < Stream[i].req
  BY ParsedIsNext
<1>2. PICK p : p = Parsed
  OBVIOUS
<1>3. answered \in Seq(1 .. MaxReqs) /\ Len(answered) \in Nat
  BY LenProperties DEF OrderInv, AnswerInv
<1>4. PICK a : a = answered'
  OBVIOUS
<1>5. /\ a \in Seq(1 .. MaxReqs) /\ a # <<>> /\ Len(a) = Len(answered) + 1
      /\ \A k \in 1 .. Len(answered) : a[k] = answered[k]
      /\ a[Len(answered) + 1] = p
  BY <1>1, <1>2, <1>3, <1>4, AppendProperties
<1>6. \A k \in 1 .. Len(a) : k \in 1 .. Len(answered) \/ (k = Len(answered) + 1 /\ a[k] = p)
  BY <1>3, <1>5
<1>7. \A k \in 1 .. Len(a) : Whole(a[k])
  BY <1>1, <1>2, <1>5, <1>6 DEF OrderInv, AnswerInv
<1>8. \A k, m \in 1 .. Len(a) : k < m => a[k] < a[m]
  BY <1>1, <1>2, <1>3, <1>5, <1>6 DEF OrderInv, AnswerInv
<1>9. \A k \in 1 .. Len(a) : k < Len(a) => Keeps(a[k])
  BY <1>1, <1>3, <1>5, <1>6 DEF AllKept
<1>10. AnswerInv'
  BY <1>4, <1>5, <1>7, <1>8, <1>9 DEF AnswerInv, Whole, Keeps
<1>11. Keeps(p) => AllKept'
  <2>1. Keeps(p) => \A k \in 1 .. Len(a) : Keeps(a[k])
    BY <1>1, <1>5, <1>6 DEF AllKept
  <2> QED  BY <1>4, <2>1 DEF AllKept, Keeps
<1>12. Unanswered(a, Stream, off)
  <2>1. \A k \in 1 .. Len(answered), i \in off + 1 .. Len(Stream) : answered[k] < Stream[i].req
    <3>1. Unanswered(answered, Stream, 0) /\ off \in Nat
      BY ParsedIsNext DEF RxInv
    <3>2. Len(Stream) \in Nat
      BY StreamFits
    <3> QED  BY <3>1, <3>2 DEF Unanswered
  <2> QED  BY <1>1, <1>2, <1>5, <1>6, <2>1 DEF Unanswered
<1> QED  BY <1>2, <1>4, <1>5, <1>10, <1>11, <1>12

\* What read takes moves from the socket to rxbuf: the stream stays as it is, but
\* for the mark on the header found complete.
LEMMA ReceivedStream ==
  ASSUME RxInv, RecvData
  PROVE  /\ UNCHANGED <<reqs, sent, peer, answered>> /\ cb \in {"conn_init", "req_recv_headers"}
         /\ \/ Close
            \/ /\ cb' = "req_read_headers"
               /\ \E o \in 1 .. Len(Stream) :
                    /\ Stream[o].last /\ off' = o
                    /\ Stream' = [Stream EXCEPT ![o].last = FALSE]
            \/ cb' = "req_recv_headers" /\ off' = off /\ Stream' = Stream
<1> DEFINE n    == Min2(RxRoom, Len(net))
           buf  == rx \o SubSeq(net, 1, n)
           rest == SubSeq(net, n + 1, Len(net))
<1>1. /\ net' = rest /\ UNCHANGED <<reqs, sent, peer, answered>>
      /\ cb \in {"conn_init", "req_recv_headers"}
      /\ \/ /\ mhttp_req_check(buf, Len(rx))
            /\ rx' = CheckedBuf(buf, Len(rx)) /\ off' = CheckedOff(buf, Len(rx))
            /\ cb' = "req_read_headers"
         \/ Close
         \/ rx' = buf /\ cb' = "req_recv_headers" /\ off' = off
  BY DEF RecvData, Receiving, Ready, answer, conn_terminate
<1>2. Len(rx) \in Nat /\ Len(net) \in Nat /\ RxLen \in Nat /\ Len(rx) <= RxLen
      /\ rx \in Seq(Units) /\ net \in Seq(Units)
  BY HttpConnAssumption, LenProperties DEF RxInv
<1>3. n \in 0 .. Len(net)
  BY <1>2 DEF Min2, RxRoom
<1>4. buf \in Seq(Units) /\ rest \in Seq(Units) /\ buf \o rest = Stream
  <2> HIDE DEF n
  <2>1. \A i \in 1 .. Len(net) : net[i] \in Units
    BY <1>2, ElementOfSeq
  <2>2. SubSeq(net, 1, n) \in Seq(Units)
    BY <1>2, <1>3, <2>1, SubSeqProperties
  <2>3. rest \in Seq(Units)
    BY <1>2, <1>3, <2>1, SubSeqProperties
  <2>4. buf \in Seq(Units)
    BY <1>2, <2>2, ConcatProperties
  <2>5. buf \o rest = rx \o net
    BY <1>2, <1>3, ReceiveOfStream
  <2> QED  BY <2>3, <2>4, <2>5 DEF Stream
<1> HIDE DEF n, buf, rest
<1>5. CASE /\ mhttp_req_check(buf, Len(rx))
           /\ rx' = CheckedBuf(buf, Len(rx)) /\ off' = CheckedOff(buf, Len(rx))
           /\ cb' = "req_read_headers"
  <2>1. PICK o : o = CheckedOff(buf, Len(rx))
    OBVIOUS
  <2>2. /\ o \in 1 .. Len(buf) /\ Stream[o].last
        /\ CheckedBuf(buf, Len(rx)) \o rest = [Stream EXCEPT ![o].last = FALSE]
    <3>1. /\ CheckedOff(buf, Len(rx)) \in 1 .. Len(buf) /\ (buf \o rest)[CheckedOff(buf, Len(rx))].last
          /\ CheckedBuf(buf, Len(rx)) \o rest
               = [buf \o rest EXCEPT ![CheckedOff(buf, Len(rx))].last = FALSE]
      BY <1>4, <1>5, MarkOfStream, ZenonT(30)
    <3> QED  BY <1>4, <2>1, <3>1, Zenon
  <2>3. o \in 1 .. Len(Stream)
    <3>1. Len(buf) \in Nat /\ Len(rest) \in Nat /\ Len(buf \o rest) = Len(buf) + Len(rest)
      BY <1>4, LenProperties, ConcatProperties
    <3> QED  BY <1>4, <2>2, <3>1
  <2>4. Stream' = [Stream EXCEPT ![o].last = FALSE] /\ off' = o
    BY <1>1, <1>5, <2>1, <2>2 DEF Stream
  <2> QED  BY <1>1, <1>5, <2>2, <2>3, <2>4
<1>6. CASE Close
  BY <1>1, <1>6
<1>7. CASE rx' = buf /\ cb' = "req_recv_headers" /\ off' = off
  <2>1. Stream' = Stream
    BY <1>1, <1>4, <1>7 DEF Stream
  <2> QED  BY <1>1, <1>7, <2>1
<1> QED  BY <1>1, <1>5, <1>6, <1>7

\* Receiving keeps the stream and sets its boundary behind a whole header.
LEMMA ReceiveOrder ==
  ASSUME RxInv, OrderInv, RecvData
  PROVE  OrderInv'
<1>1. UNCHANGED <<reqs, sent, peer, answered>> /\ cb \in {"conn_init", "req_recv_headers"}
  BY ReceivedStream
<1>2. /\ StreamOK(Stream, off) /\ AllKept /\ Unanswered(answered, Stream, 0) /\ Stream \in Seq(Units)
      /\ sent.units = 0 => Stream = <<>> /\ answered = <<>>
  BY <1>1, StreamFits DEF OrderInv, StreamInv, CallbackInv, Awaits
<1>3. SentInv' /\ AnswerInv' /\ AllKept'
  BY <1>1, <1>2 DEF OrderInv, SentInv, AnswerInv, AllKept, Keeps, Whole
<1>4. CASE Close
  BY <1>1, <1>4, CloseOrder
<1>5. ASSUME NEW o \in 1 .. Len(Stream), cb' = "req_read_headers", Stream[o].last, off' = o,
             Stream' = [Stream EXCEPT ![o].last = FALSE]
      PROVE  OrderInv'
  <2>1. PICK t : t = [Stream EXCEPT ![o].last = FALSE]
    OBVIOUS
  <2>2. StreamOK(t, o) /\ Unanswered(answered, t, 0)
    BY <1>2, <1>5, <2>1, MarkStream
  <2>3. StreamOK(Stream, off)'
    BY <1>1, <1>5, <2>1, <2>2, StreamKept
  <2>4. Unanswered(answered, Stream, 0)'
    BY <1>1, <1>5, <2>1, <2>2 DEF Unanswered
  <2>5. sent'.units # 0 /\ off' > 0
    BY <1>1, <1>2, <1>5
  <2>6. StreamInv' /\ CallbackInv'
    BY <1>3, <1>5, <2>3, <2>4, <2>5 DEF StreamInv, CallbackInv
  <2> QED  BY <1>3, <2>6 DEF OrderInv
<1>6. CASE cb' = "req_recv_headers" /\ off' = off /\ Stream' = Stream
  <2>1. StreamOK(Stream, off)'
    BY <1>1, <1>2, <1>6, StreamKept
  <2>2. Unanswered(answered, Stream, 0)'
    BY <1>1, <1>2, <1>6 DEF Unanswered
  <2> QED  BY <1>1, <1>2, <1>3, <1>6, <2>1, <2>2 DEF OrderInv, StreamInv, CallbackInv
<1> QED  BY <1>4, <1>5, <1>6, ReceivedStream

\* An answer given at once: its request is the next in order.
LEMMA ReplyOrder ==
  ASSUME RxInv, OrderInv, ReadHeadersReply
  PROVE  OrderInv'
<1>1. /\ cb = "req_read_headers" /\ answered' = Append(answered, Parsed)
      /\ UNCHANGED <<reqs, sent, net, peer>>
      /\ Close \/ (Keeps(Parsed) /\ KeepAlive(rx, off))
  <2>1. Parsed \in 1 .. MaxReqs
    BY ParsedIsNext DEF ReadHeadersReply, Ready
  <2>2. reqs[Parsed].keep \in BOOLEAN
    BY <2>1, HttpConnAssumption DEF OrderInv, SentInv
  <2> QED  BY <2>2 DEF ReadHeadersReply, Ready, Answers, client, conn_terminate, Keeps
<1>2. /\ AnswerInv' /\ (Keeps(Parsed) => AllKept')
      /\ Unanswered(answered', Stream, off) /\ off > 0
  BY <1>1, AnswerKept, ParsedIsNext
<1>3. SentInv'
  BY <1>1 DEF OrderInv, SentInv
<1>4. CASE Close
  BY <1>1, <1>2, <1>3, <1>4 DEF OrderInv, StreamInv, CallbackInv, Awaits, Close
<1>5. CASE Keeps(Parsed) /\ KeepAlive(rx, off)
  BY <1>1, <1>2, <1>5, KeepAliveOrder
<1> QED  BY <1>1, <1>4, <1>5

\* The header of a file: its request counts as answered and stays in rxbuf.
LEMMA FileOrder ==
  ASSUME RxInv, OrderInv, ReadHeadersFile
  PROVE  OrderInv'
<1>1. /\ cb = "req_read_headers" /\ answered' = Append(answered, Parsed)
      /\ reqs[Parsed].kind = "file" /\ cb' = "resp_send_file" /\ eos' = ~reqs[Parsed].keep
      /\ UNCHANGED <<reqs, sent, net, peer, rx, off>>
  BY DEF ReadHeadersFile, Ready, Answers, client, rxbuf
<1>2. /\ AnswerInv' /\ (Keeps(Parsed) => AllKept')
      /\ Unanswered(answered', Stream, off) /\ off > 0
  BY <1>1, AnswerKept, ParsedIsNext
<1>3. SentInv'
  BY <1>1 DEF OrderInv, SentInv
<1>4. ~eos' => AllKept'
  <2>1. Parsed \in 1 .. MaxReqs
    BY <1>1, ParsedIsNext
  <2>2. reqs[Parsed].keep \in BOOLEAN
    BY <2>1, HttpConnAssumption DEF OrderInv, SentInv
  <2> QED  BY <1>1, <1>2, <2>2 DEF Keeps
<1>5. Stream' = Stream
  BY <1>1 DEF Stream
<1>6. StreamOK(Stream, off)'
  BY <1>1, <1>5, StreamKept DEF OrderInv, StreamInv
<1>7. sent.units # 0
  <2> SUFFICES ASSUME sent.units = 0 PROVE FALSE
    OBVIOUS
  <2>1. rx = <<>> /\ off \in 0 .. Len(rx)
    BY <1>1, ConcatEqualIffEmpty DEF OrderInv, StreamInv, Stream, RxInv
  <2> QED  BY <1>2, <2>1
<1>8. StreamInv'
  BY <1>1, <1>6, <1>7 DEF StreamInv
<1>9. CallbackInv'
  BY <1>1, <1>2, <1>4, <1>5 DEF CallbackInv, Awaits, Unanswered
<1> QED  BY <1>2, <1>3, <1>8, <1>9 DEF OrderInv

\* resp_send_file shifts the request away when its answer is complete.
LEMMA SendFileOrder ==
  ASSUME RxInv, OrderInv, SendFile
  PROVE  OrderInv'
<1>1. /\ cb = "resp_send_file" /\ UNCHANGED <<reqs, sent, net, peer, answered>>
      /\ \/ Close
         \/ ~eos /\ KeepAlive(rx, off)
         \/ (~eos' => ~eos) /\ UNCHANGED <<cb, rx, off>>
  BY DEF SendFile, Ready, client, conn_terminate, slot, rxbuf
<1>2. CASE Close
  BY <1>1, <1>2, CloseOrder
<1>3. CASE ~eos /\ KeepAlive(rx, off)
  <2>1. off > 0 /\ Unanswered(answered, Stream, off) /\ AllKept
    BY <1>1, <1>3 DEF OrderInv, CallbackInv
  <2>2. AnswerInv' /\ AllKept' /\ Unanswered(answered', Stream, off)
    BY <1>1, <2>1 DEF OrderInv, AnswerInv, AllKept, Keeps, Whole
  <2> QED  BY <1>1, <1>3, <2>1, <2>2, KeepAliveOrder
<1>4. CASE (~eos' => ~eos) /\ UNCHANGED <<cb, rx, off>>
  <2>1. Stream' = Stream
    BY <1>1, <1>4 DEF Stream
  <2>2. StreamOK(Stream, off)'
    BY <1>1, <1>4, <2>1, StreamKept DEF OrderInv, StreamInv
  <2>3. SentInv' /\ AnswerInv'
    BY <1>1 DEF OrderInv, SentInv, AnswerInv, Keeps, Whole
  <2>4. StreamInv'
    BY <1>1, <1>4, <2>1, <2>2 DEF OrderInv, StreamInv
  <2>5. CallbackInv'
    BY <1>1, <1>4, <2>1 DEF OrderInv, CallbackInv, Awaits, AllKept, Keeps, Unanswered
  <2> QED  BY <2>3, <2>4, <2>5 DEF OrderInv
<1> QED  BY <1>1, <1>2, <1>3, <1>4

\* No step of the client, of the file or of a callback breaks the order.
LEMMA StepOrder == RxInv /\ OrderInv /\ [Next]_vars => OrderInv'
<1> SUFFICES ASSUME RxInv, OrderInv, [Next]_vars PROVE OrderInv'
  OBVIOUS
<1>1. CASE ClientSends
  BY <1>1, SendsOrder
<1>2. CASE ClientShuts \/ ClientResets
  BY <1>2, ClientOrder
<1>3. CASE RecvError \/ RecvEnd \/ SendError \/ ReadError
  BY <1>3, CloseOrder DEF RecvError, RecvEnd, SendError, ReadError, conn_terminate, client, answer
<1>4. CASE RecvData
  BY <1>4, ReceiveOrder
<1>5. CASE ReadHeadersReply
  BY <1>5, ReplyOrder
<1>6. CASE ReadHeadersFile
  BY <1>6, FileOrder
<1>7. CASE SendFile
  BY <1>7, SendFileOrder
<1>8. CASE FileShrinks \/ UNCHANGED vars
  <2>1. UNCHANGED <<reqs, sent, net, peer, cb, rx, off, eos, answered>>
    BY <1>8 DEF FileShrinks, vars, client, slot, rxbuf, answer
  <2>2. Stream' = Stream
    BY <2>1 DEF Stream
  <2> QED  BY <2>1, <2>2
           DEF OrderInv, SentInv, AnswerInv, StreamInv, CallbackInv, Awaits, AllKept, Keeps,
               Unanswered, StreamOK, InStream, UnitOK, Whole, Before, Starts, Ends, NextIsFirst
<1> QED  BY <1>1, <1>2, <1>3, <1>4, <1>5, <1>6, <1>7, <1>8
         DEF Next, Client, Receive, Respond, Closed

-----------------------------------------------------------------------------
(* A client that waits for each answer. *)

\* Without pipelining, rxbuf and the socket hold units of one request only.
LockstepInv ==
  /\ \A k \in 1 .. Len(answered) : answered[k] = k
  /\ Len(answered) \in {sent.req - 1, sent.req}
  /\ cb = "resp_send_file" => Len(answered) = sent.req
  /\ cb # "closed" => \A i \in 1 .. Len(Stream) : Stream[i].req = sent.req

\* A new connection has answered nothing.
LEMMA InitLockstep == Init => LockstepInv
<1> SUFFICES ASSUME Init PROVE LockstepInv
  OBVIOUS
<1>1. Stream = <<>> /\ answered = <<>> /\ Len(<<>>) = 0 /\ sent.req = 1
  BY EmptySeq, ConcatEmptySeq DEF Init, Stream
<1> QED  BY <1>1 DEF Init, LockstepInv

\* The first unit of a request is sent when nothing of the last is left.
LEMMA SendsLockstep ==
  ASSUME ~Pipelining, RxInv, OrderInv, LockstepInv, ClientSends
  PROVE  LockstepInv'
<1>1. PICK r \in 1 .. MaxReqs, n \in Nat \ {0} :
        /\ sent' = [req |-> r, units |-> n] /\ net' = Append(net, Unit(r, n))
        /\ UNCHANGED <<cb, rx, answered>> /\ cb # "closed"
        /\ \/ r = sent.req /\ n = sent.units + 1
           \/ r = sent.req + 1 /\ n = 1
        /\ n > 1 \/ r = 1 \/ AnswerReceived(r - 1)
  BY SendsUnit
<1>2. sent.req \in Nat \ {0} /\ sent'.req = r
  BY <1>1 DEF OrderInv, SentInv
<1>3. PICK u : u = Unit(r, n)
  OBVIOUS
<1>4. u.req = r /\ u \in Units
  <2>1. r \in Int
    OBVIOUS
  <2> QED  BY <1>3, <2>1, Zenon DEF Unit, Units
<1>5. Stream \in Seq(Units) /\ Len(Stream) \in Nat
  BY StreamFits, LenProperties
<1>6. PICK t : t = Append(Stream, u)
  OBVIOUS
<1>7. Stream' = t
  BY <1>1, <1>3, <1>4, <1>6, StreamGrows
<1>8. /\ Len(t) = Len(Stream) + 1 /\ t[Len(Stream) + 1] = u
      /\ \A i \in 1 .. Len(Stream) : t[i] = Stream[i]
  BY <1>4, <1>5, <1>6, AppendProperties
<1>9. CASE r = sent.req
  <2>1. \A i \in 1 .. Len(t) : t[i].req = sent.req
    <3> SUFFICES ASSUME NEW i \in 1 .. Len(t), i # Len(Stream) + 1 PROVE t[i].req = sent.req
      BY <1>4, <1>8, <1>9
    <3>1. i \in 1 .. Len(Stream)
      BY <1>5, <1>8
    <3> QED  BY <1>1, <1>8, <3>1 DEF LockstepInv
  <2> QED  BY <1>1, <1>2, <1>7, <1>9, <2>1 DEF LockstepInv
<1>10. CASE r = sent.req + 1 /\ n = 1
  <2>1. AnswerReceived(sent.req)
    BY <1>1, <1>2, <1>10
  <2>2. PICK k \in DOMAIN answered : answered[k] = sent.req
    BY <2>1 DEF AnswerReceived
  <2>3. DOMAIN answered = 1 .. Len(answered) /\ Len(answered) \in Nat
    BY LenProperties DEF OrderInv, AnswerInv
  <2>4. Len(answered) = sent.req /\ cb = "req_recv_headers"
    BY <1>2, <2>1, <2>2, <2>3 DEF LockstepInv, AnswerReceived
  <2>5. Len(Stream) = 0
    <3>1. \A i \in 1 .. Len(Stream) : answered[k] < Stream[i].req /\ Stream[i].req = sent.req
      BY <1>1, <2>2, <2>3, <2>4 DEF OrderInv, CallbackInv, Awaits, Unanswered, LockstepInv
    <3> QED  BY <1>2, <1>5, <2>2, <3>1
  <2> QED  BY <1>1, <1>2, <1>4, <1>7, <1>8, <1>10, <2>4, <2>5 DEF LockstepInv
<1> QED  BY <1>1, <1>9, <1>10

\* Where the next header is waited for, all that came has been answered.
LEMMA KeepAliveLockstep ==
  ASSUME RxInv', OrderInv', KeepAlive(rx, off), sent'.req \in Nat \ {0},
         \A k \in 1 .. Len(answered)' : answered'[k] = k, Len(answered)' = sent'.req
  PROVE  LockstepInv'
<1>1. cb' = "req_recv_headers"
  BY DEF KeepAlive
<1>2. PICK q : q = Stream'
  OBVIOUS
<1>3. ASSUME NEW i \in 1 .. Len(q) PROVE q[i].req <= sent'.req /\ q[i].req \in Int
  BY <1>1, <1>2 DEF OrderInv, StreamInv, StreamOK, InStream, UnitOK
<1>4. ASSUME NEW i \in 1 .. Len(q) PROVE sent'.req < q[i].req
  BY <1>1, <1>2 DEF OrderInv, CallbackInv, Awaits, Unanswered
<1>5. ASSUME NEW i \in 1 .. Len(q) PROVE q[i].req = sent'.req
  BY <1>3, <1>4
<1> QED  BY <1>1, <1>2, <1>5 DEF LockstepInv

\* Without pipelining no request is passed over.
LEMMA StepLockstep ==
  ~Pipelining /\ RxInv /\ OrderInv /\ LockstepInv /\ [Next]_vars => LockstepInv'
<1> SUFFICES ASSUME ~Pipelining, RxInv, OrderInv, LockstepInv, [Next]_vars PROVE LockstepInv'
  OBVIOUS
<1>1. RxInv' /\ OrderInv' /\ sent.req \in Nat \ {0}
  BY StepRx, StepOrder DEF OrderInv, SentInv
<1>2. CASE ClientSends
  BY <1>2, SendsLockstep
<1>3. CASE ClientResets
  <2>1. UNCHANGED <<sent, cb, answered, rx>> /\ net' = <<>> /\ cb # "closed"
    BY <1>3 DEF ClientResets, slot, rxbuf, answer
  <2>2. Stream' = rx
    BY <2>1, ConcatEmptySeq DEF RxInv, Stream
  <2>3. \A i \in 1 .. Len(rx) : i \in 1 .. Len(Stream) /\ Stream[i] = rx[i]
    BY StreamFits
  <2> QED  BY <2>1, <2>2, <2>3 DEF LockstepInv
<1>4. CASE RecvError \/ RecvEnd \/ SendError \/ ReadError
  <2>1. UNCHANGED <<sent, answered>> /\ cb' = "closed"
    BY <1>4 DEF RecvError, RecvEnd, SendError, ReadError, conn_terminate, Close, client, answer
  <2> QED  BY <2>1 DEF LockstepInv
<1>5. CASE RecvData
  <2>1. /\ UNCHANGED <<sent, answered>> /\ cb # "closed" /\ cb' # "resp_send_file"
        /\ \/ cb' = "closed"
           \/ \E o \in 1 .. Len(Stream) : Stream' = [Stream EXCEPT ![o].last = FALSE]
           \/ Stream' = Stream
    BY <1>5, ReceivedStream DEF Close
  <2>2. CASE \E o \in 1 .. Len(Stream) : Stream' = [Stream EXCEPT ![o].last = FALSE]
    <3>1. PICK o \in 1 .. Len(Stream) : Stream' = [Stream EXCEPT ![o].last = FALSE]
      BY <2>2
    <3>2. Stream \in Seq(Units) /\ Stream[o] \in Units
      BY StreamFits, ElementOfSeq
    <3>3. [Stream[o] EXCEPT !.last = FALSE] \in Units
          /\ [Stream[o] EXCEPT !.last = FALSE].req = Stream[o].req
      BY <3>2 DEF Units
    <3>4. Len(Stream)' = Len(Stream) /\ \A i \in 1 .. Len(Stream) : Stream'[i].req = Stream[i].req
      BY <3>1, <3>2, <3>3, ExceptSeq
    <3> QED  BY <2>1, <3>4 DEF LockstepInv
  <2> QED  BY <2>1, <2>2 DEF LockstepInv
<1>6. CASE ReadHeadersReply \/ ReadHeadersFile
  <2>1. /\ cb = "req_read_headers" /\ answered' = Append(answered, Parsed) /\ sent' = sent
        /\ \/ cb' = "closed"
           \/ KeepAlive(rx, off)
           \/ cb' = "resp_send_file" /\ UNCHANGED <<net, rx>>
    BY <1>6 DEF ReadHeadersReply, ReadHeadersFile, Ready, Answers, client, rxbuf, conn_terminate, Close
  <2>2. Parsed = sent.req
    <3>1. Stream[1] = rx[1] /\ 1 \in 1 .. Len(Stream)
      BY <2>1, ParsedIsNext, StreamFits DEF RxInv
    <3> QED  BY <2>1, <3>1 DEF LockstepInv, Parsed
  <2>3. answered \in Seq(1 .. MaxReqs) /\ Len(answered) \in Nat /\ Parsed \in 1 .. MaxReqs
    BY <2>1, ParsedIsNext, LenProperties DEF OrderInv, AnswerInv
  <2>4. Len(answered) = sent.req - 1
    <3>1. ASSUME Len(answered) = sent.req PROVE FALSE
      <4>1. answered[sent.req] = sent.req /\ answered[sent.req] < Parsed
        BY <1>1, <2>1, <3>1, ParsedIsNext DEF LockstepInv
      <4> QED  BY <1>1, <2>2, <4>1
    <3> QED  BY <3>1 DEF LockstepInv
  <2>5. Len(answered)' = sent.req /\ \A k \in 1 .. Len(answered)' : answered'[k] = k
    <3>1. /\ Len(answered)' = Len(answered) + 1 /\ answered'[Len(answered) + 1] = Parsed
          /\ \A k \in 1 .. Len(answered) : answered'[k] = answered[k]
      BY <2>1, <2>3, AppendProperties
    <3>2. ASSUME NEW k \in 1 .. Len(answered) + 1 PROVE answered'[k] = k
      <4>1. k \in 1 .. Len(answered) \/ k = Len(answered) + 1
        BY <2>3
      <4>2. CASE k = Len(answered) + 1
        BY <1>1, <2>2, <2>4, <3>1, <4>2
      <4> QED  BY <3>1, <4>1, <4>2 DEF LockstepInv
    <3> QED  BY <1>1, <2>4, <3>1, <3>2
  <2>6. CASE KeepAlive(rx, off)
    BY <1>1, <2>1, <2>5, <2>6, KeepAliveLockstep
  <2>7. CASE cb' = "closed"
    BY <2>1, <2>5, <2>7 DEF LockstepInv
  <2>8. CASE cb' = "resp_send_file" /\ UNCHANGED <<net, rx>>
    <3>1. Stream' = Stream
      BY <2>8 DEF Stream
    <3> QED  BY <2>1, <2>5, <2>8, <3>1 DEF LockstepInv
  <2> QED  BY <2>1, <2>6, <2>7, <2>8
<1>7. CASE SendFile
  <2>1. /\ cb = "resp_send_file" /\ UNCHANGED <<sent, net, answered>>
        /\ cb' = "closed" \/ KeepAlive(rx, off) \/ UNCHANGED <<cb, rx>>
    BY <1>7 DEF SendFile, Ready, client, conn_terminate, Close, slot, rxbuf
  <2>2. Len(answered)' = sent.req /\ \A k \in 1 .. Len(answered)' : answered'[k] = k
    BY <2>1 DEF LockstepInv
  <2>3. CASE KeepAlive(rx, off)
    BY <1>1, <2>1, <2>2, <2>3, KeepAliveLockstep
  <2>4. CASE cb' = "closed"
    BY <2>1, <2>2, <2>4 DEF LockstepInv
  <2>5. CASE UNCHANGED <<cb, rx>>
    <3>1. Stream' = Stream
      BY <2>1, <2>5 DEF Stream
    <3> QED  BY <2>1, <2>2, <2>5, <3>1 DEF LockstepInv
  <2> QED  BY <2>1, <2>3, <2>4, <2>5
<1>8. CASE FileShrinks \/ ClientShuts \/ UNCHANGED vars
  <2>1. UNCHANGED <<sent, net, cb, rx, answered>>
    BY <1>8 DEF FileShrinks, ClientShuts, vars, client, slot, rxbuf, answer
  <2>2. Stream' = Stream
    BY <2>1 DEF Stream
  <2> QED  BY <2>1, <2>2 DEF LockstepInv
<1> QED  BY <1>2, <1>3, <1>4, <1>5, <1>6, <1>7, <1>8
         DEF Next, Client, Receive, Respond, Closed

-----------------------------------------------------------------------------
(* The theorems. *)

\* Both invariants hold of every behaviour: no order of the client's sends,
\* half-closes and resets and of the callbacks leads out of them.
THEOREM Invariance == Spec => [](RxInv /\ BodyInv)
<1>1. Init => RxInv /\ BodyInv
  BY InitRx, InitBody
<1>2. RxInv /\ BodyInv /\ [Next]_vars => (RxInv /\ BodyInv)'
  BY StepRx, StepBody
<1> QED  BY <1>1, <1>2, PTL DEF Spec

\* The state keeps its types, and no position in rxbuf or txbuf leaves its
\* buffer.
THEOREM TypeCorrect == Spec => []TypeOK
<1>1. RxInv /\ BodyInv => TypeOK
  BY DEF RxInv, BodyInv, TypeOK, Callbacks
<1> QED  BY <1>1, Invariance, PTL

\* resp_send_file keeps account of every byte of the body while it runs.
THEOREM BodyCorrect == Spec => []BodyConserved
<1>1. BodyInv => BodyConserved
  BY DEF BodyInv, BodyConserved
<1> QED  BY <1>1, Invariance, PTL

\* The file is open exactly while it is sent.
THEOREM FileCorrect == Spec => []FileOpenWhileSent
<1>1. BodyInv => FileOpenWhileSent
  BY DEF BodyInv, FileOpenWhileSent
<1> QED  BY <1>1, Invariance, PTL

\* The stream of units stays in order, whatever the pieces it comes in.
THEOREM Ordering == Spec => [](RxInv /\ OrderInv)
<1>1. Init => RxInv /\ OrderInv
  BY InitRx, InitOrder
<1>2. RxInv /\ OrderInv /\ [Next]_vars => (RxInv /\ OrderInv)'
  BY StepRx, StepOrder
<1> QED  BY <1>1, <1>2, PTL DEF Spec

\* Requests are answered in the order they came, and at most once.
THEOREM OrderCorrect == Spec => []AnsweredInOrder
<1>1. OrderInv => AnsweredInOrder
  BY LenProperties DEF OrderInv, AnswerInv, AnsweredInOrder
<1> QED  BY <1>1, Ordering, PTL

\* No request is answered before all of it was sent.
THEOREM WholeCorrect == Spec => []AnsweredWhole
<1>1. OrderInv => AnsweredWhole
  BY LenProperties DEF OrderInv, AnswerInv, AnsweredWhole, Whole
<1> QED  BY <1>1, Ordering, PTL

\* What is parsed as a header begins where a request begins.
THEOREM AlignedCorrect == Spec => []HeaderAligned
<1>1. RxInv /\ OrderInv => HeaderAligned
  BY ParsedIsNext DEF HeaderAligned, Parsed
<1> QED  BY <1>1, Ordering, PTL

\* Nothing is answered after a request that closes the connection.
THEOREM CloseCorrect == Spec => []NothingAfterClose
<1>1. OrderInv => NothingAfterClose
  BY LenProperties DEF OrderInv, AnswerInv, NothingAfterClose, Keeps
<1> QED  BY <1>1, Ordering, PTL

\* A client that waits for each answer has each of its requests answered.
THEOREM LockstepCorrect == ~Pipelining /\ Spec => []NoneSkipped
<1>1. SUFFICES ASSUME ~Pipelining PROVE Spec => []NoneSkipped
  OBVIOUS
<1>2. Init => RxInv /\ OrderInv /\ LockstepInv
  BY InitRx, InitOrder, InitLockstep
<1>3. RxInv /\ OrderInv /\ LockstepInv /\ [Next]_vars => (RxInv /\ OrderInv /\ LockstepInv)'
  BY <1>1, StepRx, StepOrder, StepLockstep
<1>4. OrderInv /\ LockstepInv => NoneSkipped
  BY LenProperties DEF OrderInv, AnswerInv, LockstepInv, NoneSkipped
<1> QED  BY <1>2, <1>3, <1>4, PTL DEF Spec
=============================================================================
