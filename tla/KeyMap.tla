------------------------------- MODULE KeyMap -------------------------------
(***************************************************************************)
(* What a tree of src/mig_radix_tree.h is for: a map from keys to values,  *)
(* in which a key not inserted has no value.  An insertion that finds no   *)
(* memory may leave the map as it was.                                     *)
(***************************************************************************)
CONSTANTS Keys, Values, NULL

VARIABLE map

Init == map = [k \in Keys |-> NULL]
\* The pairs of a key and its value that a step adds.
Added == {<<k, map'[k]>> : k \in {j \in Keys : map'[j] # map[j]}}
\* One key gets a value, or another one; the rest stays.
Next == Added \in {{<<k, v>>} : k \in Keys, v \in Values}
Spec == Init /\ [][Next]_map
=============================================================================
