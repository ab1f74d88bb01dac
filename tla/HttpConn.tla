------------------------------ MODULE HttpConn ------------------------------
(***************************************************************************)
(* One connection of midnighttpd: src/midnighttpd_core.c on top of         *)
(* src/mhttp_req.c and src/mig_io.h.                                       *)
(*                                                                         *)
(* The event loop calls the connection's callback when its condition holds *)
(* of the socket (module MigLoop has the loop itself).  A client sends     *)
(* requests piece by piece, may send the next one before it has the answer *)
(* of the last (pipelining), and may close or reset at any time; the file  *)
(* being sent may shrink.                                                  *)
(*                                                                         *)
(* Abstractions: a request header is a number of units of which the last   *)
(* completes it (ReqCheck has the bytes of a terminator), and rx_buflen is *)
(* counted in units; a body is a number of bytes.  What a request asks for *)
(* is one of four kinds: a file to send, an answer written in one go (404, *)
(* 405, 416, HEAD, OPTIONS, a directory), a malformed request and an       *)
(* unknown method.  Headers and error answers fit in the socket's buffer.  *)
(***************************************************************************)
EXTENDS Integers, Sequences

CONSTANTS
  RxLen, TxLen,   \* config.rx_buflen, config.tx_buflen
  Requests,       \* requests a client may make: [kind, keep, units]
  MaxReqs,        \* bound: how many of them one client makes
  FileSizes,      \* sizes of the files asked for
  Pipelining,     \* the client may send a request before the last is answered
  Shrinking       \* the file being sent may be truncated

Kinds == {"file", "reply", "malformed", "unknown"}

ASSUME HttpConnAssumption ==
  /\ RxLen \in Nat \ {0} /\ TxLen \in Nat \ {0} /\ MaxReqs \in Nat
  /\ Requests \subseteq [kind : Kinds, keep : BOOLEAN, units : Nat \ {0}]
  /\ FileSizes \subseteq Nat
  /\ Pipelining \in BOOLEAN /\ Shrinking \in BOOLEAN

VARIABLES
  \* the client and the kernel
  reqs,       \* the requests this client makes
  sent,       \* the request being sent, and how many units of it are out
  net,        \* the units in the socket's receive buffer
  peer,       \* "open", "shut" (end of stream after net) or "reset"
  file,       \* the bytes read() can still return from the open file
  \* struct mhttp_req and the connection's slot in the loop
  cb, cond,   \* the callback and the condition it waits for
  rx, off,    \* rxbuf: the units written to it, and rxbuf.off
  eos,
  tx,         \* txbuf.end - txbuf.off
  srclen, srcfd,
  \* history
  answered,   \* the requests answered, in order
  promised,   \* the Content-Length of the answer under way
  wire        \* the bytes of its body that the socket took

client == <<reqs, sent, net, peer>>
slot   == <<cb, cond>>
rxbuf  == <<rx, off>>
body   == <<tx, srclen, srcfd, file>>
answer == <<answered, promised, wire>>
vars   == <<client, slot, rxbuf, eos, body, answer>>

Min2(a, b) == IF a < b THEN a ELSE b

-----------------------------------------------------------------------------
(* The client. *)

Unit(r, n) == [req |-> r, first |-> n = 1, last |-> n = reqs[r].units]

\* The client has all of the answer, and the connection goes on.
AnswerReceived(r) ==
  cb = "req_recv_headers" /\ wire = promised /\ \E k \in DOMAIN answered : answered[k] = r

\* The next unit goes out, unless a lockstep client waits for an answer.
ClientSends ==
  /\ cb # "closed" /\ peer = "open"
  /\ LET r == IF sent.units < reqs[sent.req].units THEN sent.req ELSE sent.req + 1
         n == IF r = sent.req THEN sent.units + 1 ELSE 1
     IN  /\ r <= MaxReqs
         /\ n > 1 \/ r = 1 \/ Pipelining \/ AnswerReceived(r - 1)
         /\ net' = Append(net, Unit(r, n))
         /\ sent' = [req |-> r, units |-> n]
  /\ UNCHANGED <<reqs, peer, slot, rxbuf, eos, body, answer>>

\* The client closes its side, or is gone.
ClientShuts ==
  /\ cb # "closed" /\ peer = "open"
  /\ peer' = "shut"
  /\ UNCHANGED <<reqs, sent, net, slot, rxbuf, eos, body, answer>>

ClientResets ==
  /\ cb # "closed" /\ peer # "reset"
  /\ peer' = "reset"
  /\ net' = <<>>
  /\ UNCHANGED <<reqs, sent, slot, rxbuf, eos, body, answer>>

\* Somebody truncates the file that is being sent.
FileShrinks ==
  /\ Shrinking /\ srcfd = "open" /\ file > 0
  /\ \E n \in 0 .. file - 1 : file' = n
  /\ UNCHANGED <<client, slot, rxbuf, eos, tx, srclen, srcfd, answer>>

\* What poll reports of the socket.  POLLOUT comes when the client reads; the
\* fairness below says that it does.
Readable == net # <<>> \/ peer # "open"
Ready(fn) ==
  /\ cb = fn
  /\ cond = "READ" => Readable

-----------------------------------------------------------------------------
(* The callbacks of a connection. *)

\* Seeded fault: any unit ends a header.
CompletesAnywhere(buf, from, n) == n = from + 1 /\ n <= Len(buf)
\* Seeded fault: the search begins one unit too late.
CompletesLate(buf, from, n) ==
  /\ n \in from + 2 .. Len(buf) /\ buf[n].last
  /\ \A m \in from + 2 .. n - 1 : ~buf[m].last
\* mhttp_req_check: the first unit after position from that completes a header
\* is overwritten by a null byte, and rxbuf.off is put after it.
Completes(buf, from, n) ==
  /\ n \in from + 1 .. Len(buf) /\ buf[n].last
  /\ \A m \in from + 1 .. n - 1 : ~buf[m].last
mhttp_req_check(buf, from) == \E n \in 1 .. Len(buf) : Completes(buf, from, n)
CheckedOff(buf, from)      == CHOOSE n \in 1 .. Len(buf) : Completes(buf, from, n)
CheckedBuf(buf, from)      == [buf EXCEPT ![CheckedOff(buf, from)].last = FALSE]

mig_buf_isfull(buf)   == Len(buf) >= RxLen
\* Seeded fault: what was parsed stays in the buffer.
ShiftForgotten(buf, o)  == buf
\* Seeded fault: the terminator stays in the buffer.
ShiftOneTooFew(buf, o)  == SubSeq(buf, o, Len(buf))
mig_buf_shift(buf, o) == SubSeq(buf, o + 1, Len(buf))

\* mig_loop_unregister runs conn_free, which closes the socket; struct mhttp_req
\* is gone with its buffers.
Close ==
  /\ cb' = "closed"
  /\ rx' = <<>> /\ off' = 0 /\ tx' = 0 /\ srclen' = 0
  /\ UNCHANGED cond

\* mhttp_req_reset, then the next header.  A complete header found in the buffer
\* makes the loop call req_recv_headers as soon as the socket takes data.
KeepAlive(buf, o) ==
  LET next == mig_buf_shift(buf, o)
  IN  /\ cb' = "req_recv_headers"
      /\ tx' = 0 /\ srclen' = 0
      /\ IF mhttp_req_check(next, 0)
         THEN rx' = CheckedBuf(next, 0) /\ off' = CheckedOff(next, 0) /\ cond' = "WRITE"
         ELSE rx' = next /\ off' = 0 /\ cond' = "READ"

\* Seeded fault: close is not looked at.
TerminateKeepsOpen(close, buf, o) == eos' = close /\ KeepAlive(buf, o)
conn_terminate(close, buf, o) ==
  /\ eos' = close
  /\ IF close THEN Close ELSE KeepAlive(buf, o)

\* The callbacks that receive: conn_init allocates struct mhttp_req first.
Receiving == Ready("conn_init") \/ Ready("req_recv_headers")
RxRoom    == RxLen - Len(rx)

\* read returned -1: a reset, or nothing there (EAGAIN) when the callback was
\* called for POLLOUT.
RecvError ==
  /\ Receiving
  /\ RxRoom > 0
  /\ peer = "reset" \/ (peer = "open" /\ net = <<>>)
  /\ conn_terminate(TRUE, rx, off)
  /\ UNCHANGED <<client, srcfd, file, answer>>

\* read returned 0: the end of the stream, or no room was offered to it.
RecvEnd ==
  /\ Receiving
  /\ RxRoom = 0 \/ (peer = "shut" /\ net = <<>>)
  /\ conn_terminate(TRUE, rx, off)
  /\ UNCHANGED <<client, srcfd, file, answer>>

\* read returned data.
RecvData ==
  /\ Receiving
  /\ RxRoom > 0 /\ net # <<>>
  /\ LET n   == Min2(RxRoom, Len(net))
         buf == rx \o SubSeq(net, 1, n)
     IN  /\ net' = SubSeq(net, n + 1, Len(net))
         /\ \/ /\ mhttp_req_check(buf, Len(rx))
               /\ rx' = CheckedBuf(buf, Len(rx)) /\ off' = CheckedOff(buf, Len(rx))
               /\ cb' = "req_read_headers" /\ cond' = "WRITE"
               /\ UNCHANGED <<eos, tx, srclen>>
            \/ /\ ~mhttp_req_check(buf, Len(rx)) /\ mig_buf_isfull(buf)
               /\ conn_terminate(TRUE, buf, off)     \* 431
            \/ /\ ~mhttp_req_check(buf, Len(rx)) /\ ~mig_buf_isfull(buf)
               /\ rx' = buf /\ cb' = "req_recv_headers"
               /\ UNCHANGED <<off, cond, eos, tx, srclen>>
  /\ UNCHANGED <<reqs, sent, peer, srcfd, file, answer>>

\* The request whose header starts the buffer, which is what gets parsed.
Parsed == rx[1].req

Answers(length, taken) ==
  /\ answered' = Append(answered, Parsed)
  /\ promised' = length /\ wire' = taken

\* The whole answer is written at once, and the connection goes on if the
\* request lets it.
ReadHeadersReply ==
  /\ Ready("req_read_headers")
  /\ LET q == reqs[Parsed]
     IN  /\ q.kind # "file"
         /\ conn_terminate(q.kind \in {"malformed", "unknown"} \/ ~q.keep, rx, off)
  /\ Answers(0, 0)
  /\ UNCHANGED <<client, srcfd, file>>

\* The header of a 200 or 206 is written, with the size that stat returned or
\* the length of the range (MaxBehind bounds what the file has behind it); open
\* can fail all the same, and is not checked.
MaxBehind == 1
ReadHeadersFile ==
  /\ Ready("req_read_headers")
  /\ reqs[Parsed].kind = "file"
  /\ eos' = ~reqs[Parsed].keep
  /\ \E size \in FileSizes, behind \in 0 .. MaxBehind :
       srclen' = size /\ file' = size + behind /\ Answers(size, 0)
  /\ srcfd' \in {"open", "failed"}
  /\ cb' = "resp_send_file"
  /\ UNCHANGED <<client, cond, rxbuf, tx>>

\* resp_send_file, first half: an empty txbuf is filled from the file.
\* Seeded fault: a range is read past its end.
LoadUncapped(n) == IF tx = 0 THEN n = Min2(TxLen, file) ELSE n = 0
Load(n) == IF tx = 0 THEN n = Min2(Min2(TxLen, srclen), file) ELSE n = 0
\* Without a file there is nothing but an error to read.
BadRead == tx = 0 /\ srcfd = "failed"

\* Seeded fault: a short write empties the buffer.
ReadDropsRest(level, k) == 0
\* mig_buf_read: what is left in txbuf after the socket took k bytes of it.
mig_buf_read(level, k)  == level - k

\* Second half: the socket takes some of it, and when all of the file has been
\* read the request is over.
SendFile ==
  /\ Ready("resp_send_file")
  /\ ~BadRead /\ peer # "reset"
  /\ \E n \in 0 .. TxLen :
       /\ Load(n)
       /\ \E k \in 0 .. tx + n :
            /\ k = 0 <=> tx + n = 0
            /\ wire' = wire + k
            /\ LET early == tx = 0 /\ n = 0 /\ srclen > 0
               IN  IF srclen - n = 0
                   THEN /\ srcfd' = "none"
                        /\ conn_terminate(eos \/ early, rx, off)
                   ELSE /\ eos' = (eos \/ early)
                        /\ srclen' = srclen - n /\ tx' = mig_buf_read(tx + n, k)
                        /\ UNCHANGED <<srcfd, slot, rxbuf>>
       /\ file' = file - n
  /\ UNCHANGED <<client, answered, promised>>

\* Seeded fault: the file is left open.
SendErrorLeaks ==
  /\ Ready("resp_send_file")
  /\ BadRead \/ peer = "reset"
  /\ conn_terminate(TRUE, rx, off)
  /\ UNCHANGED <<client, srcfd, file, answer>>
\* read from the file that is none or write to the socket returned -1.
SendError ==
  /\ Ready("resp_send_file")
  /\ BadRead \/ peer = "reset"
  /\ srcfd' = "none"
  /\ conn_terminate(TRUE, rx, off)
  /\ UNCHANGED <<client, file, answer>>

\* So may any read of the file that was opened, after some of it was sent too.
ReadError ==
  /\ Ready("resp_send_file")
  /\ tx = 0 /\ srcfd = "open"
  /\ srcfd' = "none"
  /\ conn_terminate(TRUE, rx, off)
  /\ UNCHANGED <<client, file, answer>>

-----------------------------------------------------------------------------
Init ==
  /\ reqs \in [1 .. MaxReqs -> Requests]
  /\ sent = [req |-> 1, units |-> 0]
  /\ net = <<>> /\ peer = "open" /\ file = 0
  /\ cb = "conn_init" /\ cond = "READ"
  /\ rx = <<>> /\ off = 0 /\ eos = TRUE
  /\ tx = 0 /\ srclen = 0 /\ srcfd = "none"
  /\ answered = <<>> /\ promised = 0 /\ wire = 0

Client  == ClientSends \/ ClientShuts \/ ClientResets
Receive == RecvError \/ RecvEnd \/ RecvData
Respond == ReadHeadersReply \/ ReadHeadersFile \/ SendFile \/ SendError

\* A closed connection is forgotten; what its client still sends is lost.
Closed == cb = "closed" /\ UNCHANGED vars

Next == Client \/ FileShrinks \/ Receive \/ Respond \/ ReadError \/ Closed

Spec == Init /\ [][Next]_vars

\* The loop serves the connection as long as its condition holds, and the client
\* reads what it is sent.  No file is bound to fail.
FairSpec == Spec /\ WF_vars(Receive \/ Respond)

-----------------------------------------------------------------------------
(* What must hold. *)

\* The types; a position in a buffer is not past what was written to it, and
\* that is not past its length.
TypeOK ==
  /\ cb \in {"conn_init", "req_recv_headers", "req_read_headers", "resp_send_file", "closed"}
  /\ cond \in {"READ", "WRITE"} /\ eos \in BOOLEAN
  /\ Len(rx) <= RxLen /\ off \in 0 .. Len(rx)
  /\ tx \in 0 .. TxLen /\ srclen \in Nat /\ file \in Nat
  /\ srcfd \in {"none", "open", "failed"}
  /\ promised \in Nat /\ wire \in 0 .. promised
  /\ peer \in {"open", "shut", "reset"}

\* resp_send_file loses and invents nothing while it runs: what the socket took,
\* what is in txbuf and what is still to be read add up to the Content-Length.
BodyConserved == cb = "resp_send_file" => wire + tx + srclen = promised

\* The file is open exactly while it is sent: every way out of resp_send_file
\* closes it, and no way out closes it for another request.
FileOpenWhileSent == srcfd # "none" <=> cb = "resp_send_file"

\* Requests are answered in the order they came and at most once, whatever the
\* pieces they came in and the shifts of rxbuf in between.
AnsweredInOrder ==
  \A k, m \in DOMAIN answered : k < m => answered[k] < answered[m]

\* Only a request that was sent to its end is answered.
AnsweredWhole ==
  \A k \in DOMAIN answered : LET r == answered[k]
                             IN  r < sent.req \/ (r = sent.req /\ sent.units = reqs[r].units)

\* What is parsed as a request begins where a request begins: shifting and
\* checking never leave the tail of one request to be read as another.
HeaderAligned ==
  cb = "req_read_headers" => /\ off > 0 /\ rx[1].first
                             /\ rx[off].req >= rx[1].req

\* A request that closes the connection is the last one answered.
NothingAfterClose ==
  \A k \in DOMAIN answered :
    k < Len(answered) => /\ reqs[answered[k]].keep
                         /\ reqs[answered[k]].kind \notin {"malformed", "unknown"}

\* The requests of a client that waits for each answer are answered without gap.
NoneSkipped == \A k \in DOMAIN answered : answered[k] = k

\* A request that has come in whole is answered, or the connection is closed.
Answered(r) == \E k \in DOMAIN answered : answered[k] = r
WholeAnswered ==
  \A r \in 1 .. MaxReqs :
    (sent = [req |-> r, units |-> reqs[r].units]) ~> (Answered(r) \/ cb = "closed")

\* A connection whose client closed or is gone is closed in the end: its slot and
\* its buffers are not kept.
HangupCloses == peer # "open" ~> cb = "closed"

\* "Check if there's a complete request queued up", says conn_terminate.  A
\* request that is found so is not always answered: the callback set for it
\* receives before it answers.
QueuedServed ==
  \A r \in 1 .. MaxReqs :
    (cb = "req_recv_headers" /\ off > 0 /\ rx[1].req = r) ~> (Answered(r) \/ peer # "open")

\* The "Content-Length: %zu" of the answer is what the client has been sent of an
\* intact file when its connection goes on.  It is not: what a short write leaves
\* in txbuf is dropped when the file has been read to its end.
SentAsPromised ==
  [][/\ cb = "resp_send_file" /\ srcfd = "open" /\ peer = "open"
     /\ cb' = "req_recv_headers"
     => wire' = promised]_vars

\* "Early end of file? Set the EOS flag to bail gracefully": the response ends.
\* It does not: nothing tests the flag until srclen is 0.
EarlyEndBails == (cb = "resp_send_file" /\ srcfd = "open" /\ file = 0 /\ srclen > 0) ~> cb = "closed"
=============================================================================
