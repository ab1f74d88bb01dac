--------------------------- MODULE EventDelivery ---------------------------
(***************************************************************************)
(* What the midnight event loop promises to the code that registers with   *)
(* it, without free stack, pollfd array or scan counters.                  *)
(*                                                                         *)
(* A slot is held by at most one registration at a time.  A report of the  *)
(* kernel names slots that hold a registration; every slot named is then   *)
(* delivered to its registration, or passed over because that registration *)
(* does not ask for what was reported, before the kernel is asked again.   *)
(* A report never reaches a registration that was made after it.           *)
(***************************************************************************)
EXTENDS Integers

CONSTANTS
  NSlots,   \* number of slots of the loop
  Fds       \* descriptors a client may register

VARIABLES
  reg,      \* the descriptor each slot is registered with, or Nobody
  ready     \* slots reported by the kernel and not dealt with yet

absvars == <<reg, ready>>

Slots  == 0 .. NSlots - 1
Nobody == -2

Init ==
  /\ reg = [s \in Slots |-> Nobody]
  /\ ready = {}

\* A registration takes a slot that nobody holds; nothing is ready for it.
Acquire(s, fd) ==
  /\ reg[s] = Nobody
  /\ s \notin ready
  /\ reg' = [reg EXCEPT ![s] = fd]
  /\ UNCHANGED ready

\* The end of a registration takes what was still reported for it along.
Release(s) ==
  /\ reg[s] # Nobody
  /\ reg' = [reg EXCEPT ![s] = Nobody]
  /\ ready' = ready \ {s}

\* A registration is moved to another descriptor.
Rebind(s, fd) ==
  /\ reg[s] # Nobody
  /\ reg' = [reg EXCEPT ![s] = fd]
  /\ UNCHANGED ready

\* The kernel reports on held slots, and only when nothing is left over.
Report(R) ==
  /\ ready = {}
  /\ \A s \in R : reg[s] \notin {Nobody, -1}
  /\ ready' = R
  /\ UNCHANGED reg

\* A report is delivered or passed over: once, and to the holder.
Consume(s) ==
  /\ s \in ready
  /\ reg[s] # Nobody
  /\ ready' = ready \ {s}
  /\ UNCHANGED reg

\* The last function of a call chain ends the registration it is called for.
ConsumeAndRelease(s) ==
  /\ s \in ready
  /\ reg[s] # Nobody
  /\ reg' = [reg EXCEPT ![s] = Nobody]
  /\ ready' = ready \ {s}

\* The loop is destroyed and every registration with it.
Destroy ==
  /\ ready = {}
  /\ reg' = [s \in Slots |-> Nobody]
  /\ UNCHANGED ready

Next ==
  \/ \E s \in Slots : \/ Release(s)
                      \/ Consume(s)
                      \/ ConsumeAndRelease(s)
                      \/ \E fd \in Fds : Acquire(s, fd) \/ Rebind(s, fd)
  \/ \E R \in SUBSET Slots : Report(R)
  \/ Destroy

Spec == Init /\ [][Next]_absvars
=============================================================================
