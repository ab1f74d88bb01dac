----------------------------- MODULE RadixTree -----------------------------
(***************************************************************************)
(* The radix tree: src/mig_radix_tree.c.  midnighttpd keeps the MIME types *)
(* of file name extensions in one.                                         *)
(*                                                                         *)
(* A node is known by its entry path, the part of a key that leads to it:  *)
(* the segments of its ancestors and the bytes of the edges between them.  *)
(* The tree is a function from entry paths to nodes, and nodes[] of a node *)
(* are the paths one byte longer than its own with its segment.  The root  *)
(* has the empty path.  A fault (a failed allocation of a node) leaves the *)
(* insertion where it is; segments are always allocated.                   *)
(***************************************************************************)
EXTENDS Integers, Sequences, SequencesExt, FiniteSets

CONSTANTS
  Octet,         \* bytes
  Keys,          \* the keys in use
  Values,
  NoValue        \* the null pointer, which a lookup returns where there is no value

ASSUME RadixTreeAssumption == Keys \subseteq Seq(Octet) /\ NoValue \notin Values

VARIABLES
  tree,    \* entry path -> [segment, value]
  fails    \* whether calloc of a node may return null, which stays

treevars == <<tree, fails>>

Node(segment, value) == [segment |-> segment, value |-> value]

\* What is left of key after position n.
From(key, n) == SubSeq(key, n + 1, Len(key))
\* The inner loop of mig_radix_node_find: how many bytes of the segment the key
\* has after position koff.
Matches(key, koff, segment) ==
  Cardinality({m \in 1 .. Len(segment) :
     koff + m <= Len(key) /\ \A n \in 1 .. m : key[koff + n] = segment[n]})

\* The loop of mig_radix_node_find: the paths it goes through, to the node (or
\* the null pointer) where it stops.
Visits(t, key) ==
  LET walk[p \in Prefixes(key)] ==
        LET koff == Len(p) + Len(t[p].segment)
        IN  IF p \in DOMAIN t
               /\ Matches(key, Len(p), t[p].segment) = Len(t[p].segment)
               /\ koff < Len(key)
            THEN <<p>> \o walk[SubSeq(key, 1, koff + 1)]
            ELSE <<p>>
  IN  walk[<<>>]

\* Its results; the segment offset means nothing at a null pointer.
mig_radix_node_find(t, key) ==
  LET visits == Visits(t, key)
      p      == Last(visits)
      soff   == IF p \in DOMAIN t THEN Matches(key, Len(p), t[p].segment) ELSE 0
  IN  [slot |-> p, koff |-> Len(p) + soff, soff |-> soff,
       prev |-> IF Len(visits) > 1 THEN {visits[Len(visits) - 1]} ELSE {}]

-----------------------------------------------------------------------------
\* "new is the splitting node": the node at p is cut after soff bytes of its
\* segment and becomes a child of what is left there.  Its descendants keep
\* their paths.
\* Seeded fault: the new node does not get the value.
SplitValueless(t, p, soff, value) ==
  LET old   == t[p]
      child == p \o SubSeq(old.segment, 1, soff + 1)
  IN  [q \in DOMAIN t \cup {child} |->
         CASE q = p     -> Node(SubSeq(old.segment, 1, soff), NoValue)
           [] q = child -> Node(From(old.segment, soff + 1), old.value)
           [] OTHER     -> t[q]]
Split(t, p, soff, value) ==
  LET old   == t[p]
      child == p \o SubSeq(old.segment, 1, soff + 1)
  IN  [q \in DOMAIN t \cup {child} |->
         CASE q = p     -> Node(SubSeq(old.segment, 1, soff), value)
           [] q = child -> Node(From(old.segment, soff + 1), old.value)
           [] OTHER     -> t[q]]

\* A node for the rest of the key, in an empty slot.
WithNode(t, p, segment, value) ==
  [q \in DOMAIN t \cup {p} |-> IF q = p THEN Node(segment, value) ELSE t[q]]

\* Case 3 of the comment: a split, and a node for the rest of the key.
Intersect(t, key, value, f) ==
  WithNode(Split(t, f.slot, f.soff, NoValue),
           SubSeq(key, 1, f.koff + 1), From(key, f.koff + 1), value)

\* The two conditions mig_radix_tree_insert tells the cases apart by.
Kokl(key, f) == f.koff < Len(key)
Sosl(t, f)   == f.slot \in DOMAIN t /\ f.soff < Len(t[f.slot].segment)

\* mig_radix_tree_insert, by case.  The first allocation may fail, and of case 3
\* the second.  The last case does not look whether there is a node at all, when
\* none can be allocated: there the program crashes, which is left out.
mig_radix_tree_insert(key, value) ==
  LET f == mig_radix_node_find(tree, key)
  IN  \/ /\ Kokl(key, f) \/ Sosl(tree, f)
         /\ fails
         /\ UNCHANGED tree
      \/ /\ Kokl(key, f) /\ Sosl(tree, f)
         /\ \/ tree' = Intersect(tree, key, value, f)
            \/ fails /\ tree' = Split(tree, f.slot, f.soff, NoValue)
      \/ /\ ~Kokl(key, f) /\ Sosl(tree, f)
         /\ tree' = Split(tree, f.slot, f.soff, value)
      \/ /\ Kokl(key, f) /\ ~Sosl(tree, f)
         /\ tree' = WithNode(tree, f.slot, From(key, f.koff), value)
      \/ /\ ~Kokl(key, f) /\ ~Sosl(tree, f)
         /\ tree' = IF f.slot \in DOMAIN tree
                    THEN [tree EXCEPT ![f.slot].value = value]
                    ELSE WithNode(tree, f.slot, <<>>, value)

mig_radix_tree_lookup(t, key) ==
  LET f == mig_radix_node_find(t, key)
  IN  IF f.slot \in DOMAIN t /\ f.soff = Len(t[f.slot].segment)
      THEN t[f.slot].value ELSE NoValue

\* The node where the walk ended, if all of its segment matched, or the one
\* before.
mig_radix_tree_lpm(t, key) ==
  LET f    == mig_radix_node_find(t, key)
      here == f.slot \in DOMAIN t /\ f.soff = Len(t[f.slot].segment)
      ends == IF here THEN {f.slot} ELSE f.prev
  IN  IF ends = {} THEN NoValue ELSE t[CHOOSE p \in ends : TRUE].value

-----------------------------------------------------------------------------
mig_radix_tree_create == <<>>

TreeStarts(f) == tree = mig_radix_tree_create /\ fails = f
TreeInit == \E f \in BOOLEAN : TreeStarts(f)
TreeNext ==
  /\ \E key \in Keys, value \in Values : mig_radix_tree_insert(key, value)
  /\ UNCHANGED fails
TreeSpec == TreeInit /\ [][TreeNext]_treevars

-----------------------------------------------------------------------------
(* What must hold. *)

\* The end of a node's segment is the key it stands for.
KeyOf(p) == p \o tree[p].segment

\* Every node but the root hangs on one edge of one node: the struct is a tree,
\* which mig_radix_node_destroy frees node by node.
TreeTypes ==
  /\ \A p \in DOMAIN tree : tree[p].value \in Values \cup {NoValue}
  /\ \A p \in DOMAIN tree \ {<<>>} :
       \E q \in DOMAIN tree : KeyOf(q) = Front(p)

\* Looking up is looking up in a map: whatever order keys are inserted in, and
\* wherever an allocation fails, splitting nodes never loses the value of
\* another key and never gives one to a key that was not inserted.  What does not
\* change the tree changes no lookup.
Map == INSTANCE KeyMap WITH
  map <- [k \in Keys |-> mig_radix_tree_lookup(tree, k)], NULL <- NoValue
MapStep == tree' # tree => [Map!Next]_[k \in Keys |-> mig_radix_tree_lookup(tree, k)]

\* A node is there for a key or for a branching: without failures, what has no
\* value has two children at least.
Compact ==
  ~fails =>
    \A p \in DOMAIN tree :
      tree[p].value = NoValue =>
        Cardinality({q \in DOMAIN tree : q # <<>> /\ Front(q) = KeyOf(p)}) >= 2

\* What a longest prefix match returns is the value of a prefix of the key.
LpmOfPrefix ==
  \A k \in Keys :
    mig_radix_tree_lpm(tree, k) # NoValue =>
      \E j \in Keys : IsPrefix(j, k) /\ mig_radix_tree_lookup(tree, j) = mig_radix_tree_lpm(tree, k)

\* It implements KeyMap, with a tree that has no node too many.
IsMap == Map!Init /\ [][MapStep]_treevars /\ [](TreeTypes /\ Compact /\ LpmOfPrefix)
=============================================================================
