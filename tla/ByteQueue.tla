----------------------------- MODULE ByteQueue -----------------------------
(***************************************************************************)
(* What a struct mig_buf is for: a queue of bytes with room for a given    *)
(* number of them.  Bytes leave it in the order they came.                 *)
(***************************************************************************)
EXTENDS Naturals, Sequences

CONSTANT Room

VARIABLES queue, count    \* the bytes, and how many there have been in all

Init == queue = <<>> /\ count = 0

\* The bytes of the stream are their numbers.
Put  == \E n \in 1 .. Room :
          /\ count' = count + n
          /\ queue' = queue \o [m \in 1 .. n |-> count + m]
          /\ Len(queue') <= Room
Take == \E n \in 1 .. Len(queue) :
          queue' = SubSeq(queue, n + 1, Len(queue)) /\ UNCHANGED count
Drop == queue' = <<>> /\ UNCHANGED count

Spec == Init /\ [][Put \/ Take \/ Drop]_<<queue, count>>
=============================================================================
