-------------------------- MODULE MCMidnightServer --------------------------
(* A small instance of the server for TLC. *)
EXTENDS MidnightServer

SomeFds == {-1} \cup (3 .. 7)
ReadOrWrite == {{"IN"}, {"OUT"}}

\* No socket, which leaves the default address, and a descriptor for the one
\* connection or the other to send a file from; and more sockets than slots, with
\* a descriptor to accept clients that are sent away.
NoneOrAll == {<<0, 3>>, <<NSlots + 1, NSlots + 2>>}
=============================================================================
