----------------------------- MODULE ItemStack -----------------------------
(***************************************************************************)
(* What src/mig_dynarray.h promises: a stack of items that can also be     *)
(* read and written by index and copied out whole.  An operation that is   *)
(* refused changes nothing.  Shrinking may drop items from the top.        *)
(***************************************************************************)
EXTENDS Integers, Sequences

CONSTANTS Values, Refused

VARIABLES stk, out     \* the items, and what the last operation returned

Init == stk = <<>> /\ out = Refused

Push(v)   == stk' = Append(stk, v) /\ out' = <<v>>
Pop       == /\ stk # <<>>
             /\ out' = <<stk[Len(stk)]>> /\ stk' = SubSeq(stk, 1, Len(stk) - 1)
Peek      == stk # <<>> /\ out' = <<stk[Len(stk)]>> /\ UNCHANGED stk
Get(i)    == i \in DOMAIN stk /\ out' = <<stk[i]>> /\ UNCHANGED stk
Put(i, v) == i \in DOMAIN stk /\ out' = <<v>> /\ stk' = [stk EXCEPT ![i] = v]
CopyOut   == out' = stk /\ UNCHANGED stk
Drop      == \E n \in 0 .. Len(stk) : stk' = SubSeq(stk, 1, n) /\ out' = <<>>
Refuse    == out' = Refused /\ UNCHANGED stk
\* An operation that returns nothing of the items, such as growing.
Adjust    == out' = <<>> /\ UNCHANGED stk

Next ==
  \/ \E v \in Values : Push(v) \/ \E i \in DOMAIN stk : Put(i, v)
  \/ Pop \/ Peek \/ CopyOut \/ Drop \/ Refuse \/ Adjust
  \/ \E i \in DOMAIN stk : Get(i)

Spec == Init /\ [][Next]_<<stk, out>>
=============================================================================
