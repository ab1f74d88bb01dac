---------------------------- MODULE MCHttpConn ----------------------------
(* Small instances of a connection for TLC. *)
EXTENDS HttpConn

\* Every kind of request, to keep and to close; a header comes in two units, or
\* in more than rxbuf holds.
AllKinds ==
  [kind : {"file", "reply"}, keep : BOOLEAN, units : {2}]
    \cup {[kind |-> "malformed", keep |-> TRUE, units |-> 1],
          [kind |-> "unknown",   keep |-> TRUE, units |-> 2],
          [kind |-> "reply",     keep |-> TRUE, units |-> 5]}

\* Requests that keep the connection.
Kept == [kind : {"file", "reply"}, keep : {TRUE}, units : {1, 2}]

\* One request for a file.
OneFile == {[kind |-> "file", keep |-> TRUE, units |-> 1]}
=============================================================================
