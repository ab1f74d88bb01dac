--------------------------- MODULE MigLoopProofs ---------------------------
(***************************************************************************)
(* Theorems about the event loop, for every number of slots, every set of  *)
(* descriptors and conditions and call chains of every length.             *)
(*                                                                         *)
(* The invariants that matter do not hold by themselves after a step: that *)
(* the free stack is exact needs the count of its elements (a push must    *)
(* not find it full), that a free callback runs once needs the flags of    *)
(* the entries.  Coherent collects what the API preserves together; each   *)
(* function of the API has a lemma, and the steps of mig_loop_exec are     *)
(* proved from those.                                                      *)
(*                                                                         *)
(* The last part shows that the loop implements EventDelivery.             *)
(***************************************************************************)
EXTENDS MigLoop, FiniteSetTheorems, SequenceTheorems, TLAPS

Elems(stk)    == {stk[n] : n \in 1 .. Len(stk)}
Distinct(stk) == \A m, n \in 1 .. Len(stk) : stk[m] = stk[n] => m = n

\* The free stack against the slots that are held.
StackOK(stk, held) ==
  /\ stk \in Seq(Slots)
  /\ Distinct(stk)
  /\ Elems(stk) = Slots \ held
  /\ Len(stk) + Cardinality(held) = NSlots

\* The arrays against the slots that are held and the callbacks that are owed.
EntriesOK(lp, held, due) ==
  /\ \A s \in Slots \ held : /\ lp.entfds[s] = IdlePollFd
                             /\ lp.entarr[s] \in {CallocEnt, MIG_ENT_EMPTY}
  /\ \A s \in held : /\ lp.entfds[s].fd \in {-1, lp.entarr[s].fd}
                     /\ lp.entarr[s].calltype = "CALLBACK" => lp.entarr[s].left = 0
  /\ due = {s \in held : lp.entarr[s].free}

Coherent(lp, held, due) ==
  /\ lp \in Loops
  /\ held \in SUBSET Slots
  /\ StackOK(lp.freestk, held)
  /\ EntriesOK(lp, held, due)

\* While the function of a chain runs, its entry's pointer is where the function
\* was found, before the sentinel, or in a chain that the function has given it.
ChainRuns ==
  pc = "call" /\ kind = "CALLCHAIN" /\ loop.entarr[idx].calltype = "CALLCHAIN" =>
    /\ loop.entarr[idx].left >= 0
    /\ loop.entarr[idx].left = 0 => idx \in switched

\* A pointer past its sentinel is one that ChainRuns says may come to be.
PastOnlySwitched == \A s \in live : PastSentinel(s) => s \in switched

IInv ==
  /\ TypeOK
  /\ pc # "destroyed" => Coherent(loop, live, owed)
  /\ pc = "destroyed" => live = {} /\ owed = {}
  /\ misfreed = FALSE
  /\ pc = "call" => idx < NSlots
  /\ ChainRuns
  /\ PastOnlySwitched

-----------------------------------------------------------------------------
(* The free stack. *)

\* mig_loop_create pushes every slot once.
LEMMA StackInit == StackOK(mig_loop_create.freestk, {})
<1> DEFINE stk == [n \in 1 .. NSlots |-> NSlots - n]
<1>1. NSlots \in Nat
  BY MigLoopAssumption
<1>2. mig_loop_create.freestk = stk
  BY DEF mig_loop_create
<1>3. stk \in Seq(Slots) /\ Len(stk) = NSlots
  <2>1. \A n \in 1 .. NSlots : NSlots - n \in Slots
    BY <1>1 DEF Slots
  <2>2. stk \in [1 .. NSlots -> Slots]
    BY <2>1
  <2> QED  BY <1>1, <2>2
<1>4. Distinct(stk)
  BY <1>1, <1>3 DEF Distinct
<1>5. Elems(stk) = Slots
  <2>1. \A s \in Slots : NSlots - s \in 1 .. NSlots /\ stk[NSlots - s] = s
    BY <1>1 DEF Slots
  <2>2. \A n \in 1 .. NSlots : stk[n] \in Slots
    BY <1>1 DEF Slots
  <2> QED  BY <1>3, <2>1, <2>2 DEF Elems
<1>6. Cardinality({}) = 0
  BY FS_EmptySet
<1> QED  BY <1>1, <1>2, <1>3, <1>4, <1>5, <1>6 DEF StackOK

\* There are finitely many slots to hold.
LEMMA HeldFinite ==
  ASSUME NEW held \in SUBSET Slots
  PROVE  IsFiniteSet(held) /\ Cardinality(held) \in 0 .. NSlots
<1>1. NSlots \in Nat
  BY MigLoopAssumption
<1>2. IsFiniteSet(Slots) /\ Cardinality(Slots) = NSlots
  BY <1>1, FS_Interval DEF Slots
<1> QED  BY <1>1, <1>2, FS_Subset, FS_CardinalityType

\* mig_zstk_pop hands out a slot that is not held, and takes it off the stack.
LEMMA StackPop ==
  ASSUME NEW stk, NEW held \in SUBSET Slots, StackOK(stk, held), Len(stk) > 0
  PROVE  /\ zstk_top(stk) \in Slots \ held
         /\ StackOK(zstk_rest(stk), held \cup {zstk_top(stk)})
<1> DEFINE rest == SubSeq(stk, 1, Len(stk) - 1)
           top == stk[Len(stk)]
<1>1. stk \in Seq(Slots) /\ Len(stk) \in Nat
  BY DEF StackOK
<1>2. /\ rest \in Seq(Slots) /\ Len(rest) = Len(stk) - 1
      /\ \A n \in 1 .. Len(rest) : rest[n] = stk[n]
  <2> DEFINE front == [n \in 1 .. Len(stk) - 1 |-> stk[n]]
  <2>1. rest = front
    BY <1>1, LenProperties
  <2>2. front \in [1 .. Len(stk) - 1 -> Slots] /\ Len(stk) - 1 \in Nat
    BY <1>1
  <2>3. front \in Seq(Slots) /\ Len(front) = Len(stk) - 1
    BY <2>2
  <2> QED  BY <2>1, <2>3
<1>3. top \in Slots \ held
  BY <1>1 DEF StackOK, Elems
<1>4. Distinct(rest)
  BY <1>1, <1>2 DEF StackOK, Distinct
<1>5. Elems(rest) = Slots \ (held \cup {top})
  <2>1. Elems(rest) = Elems(stk) \ {top}
    <3>1. ASSUME NEW n \in 1 .. Len(rest) PROVE rest[n] \in Elems(stk) \ {top}
      BY <1>1, <1>2 DEF StackOK, Distinct, Elems
    <3>2. ASSUME NEW n \in 1 .. Len(stk), stk[n] # top PROVE stk[n] \in Elems(rest)
      <4>1. n \in 1 .. Len(rest) /\ rest[n] = stk[n]
        BY <1>1, <1>2, <3>2
      <4> QED  BY <4>1 DEF Elems
    <3> QED  BY <3>1, <3>2 DEF Elems
  <2> QED  BY <2>1 DEF StackOK
<1>6. Len(rest) + Cardinality(held \cup {top}) = NSlots
  <2>1. Cardinality(held \cup {top}) = Cardinality(held) + 1
    BY <1>3, HeldFinite, FS_AddElement
  <2> QED  BY <1>1, <1>2, <2>1, HeldFinite, MigLoopAssumption DEF StackOK
<1> QED  BY <1>2, <1>3, <1>4, <1>5, <1>6 DEF StackOK, zstk_top, zstk_rest

\* mig_zstk_push of a held slot finds room, and gives the slot back.
LEMMA StackPush ==
  ASSUME NEW stk, NEW held \in SUBSET Slots, StackOK(stk, held), NEW s \in held
  PROVE  StackOK(zstk_push(stk, s), held \ {s})
<1> DEFINE more == Append(stk, s)
<1>1. stk \in Seq(Slots) /\ Len(stk) \in Nat /\ s \in Slots
  BY DEF StackOK
<1>2. Cardinality(held \ {s}) = Cardinality(held) - 1
  BY HeldFinite, FS_RemoveElement
<1>3. Cardinality(held \ {s}) \in Nat /\ Cardinality(held) \in Nat
  BY HeldFinite
<1>4. Len(stk) < NSlots
  BY <1>1, <1>2, <1>3, MigLoopAssumption DEF StackOK
<1>5. /\ more \in Seq(Slots) /\ Len(more) = Len(stk) + 1
      /\ \A n \in 1 .. Len(stk) : more[n] = stk[n]
      /\ more[Len(stk) + 1] = s
  BY <1>1
<1>6. \A n \in 1 .. Len(stk) : stk[n] # s
  BY DEF StackOK, Elems
<1>7. Distinct(more)
  BY <1>1, <1>5, <1>6 DEF StackOK, Distinct
<1>8. Elems(more) = Slots \ (held \ {s})
  <2>1. ASSUME NEW n \in 1 .. Len(more) PROVE more[n] \in Elems(stk) \cup {s}
    BY <1>1, <1>5 DEF Elems
  <2>2. ASSUME NEW n \in 1 .. Len(stk) PROVE stk[n] \in Elems(more)
    <3>1. n \in 1 .. Len(more) /\ more[n] = stk[n]
      BY <1>1, <1>5
    <3> QED  BY <3>1 DEF Elems
  <2>3. s \in Elems(more)
    <3>1. Len(stk) + 1 \in 1 .. Len(more)
      BY <1>1, <1>5
    <3> QED  BY <1>5, <3>1 DEF Elems
  <2>4. Elems(more) = Elems(stk) \cup {s}
    BY <2>1, <2>2, <2>3 DEF Elems
  <2> QED  BY <1>1, <2>4 DEF StackOK
<1>9. Len(more) + Cardinality(held \ {s}) = NSlots
  BY <1>1, <1>2, <1>3, <1>5 DEF StackOK
<1>10. zstk_push(stk, s) = more
  BY <1>4 DEF zstk_push
<1> QED  BY <1>5, <1>7, <1>8, <1>9, <1>10 DEF StackOK

-----------------------------------------------------------------------------
(* The API: every function keeps the loop coherent with its client's view. *)

\* mig_loop_create leaves a coherent loop that nobody holds a slot of.
LEMMA CreateCoherent == Coherent(mig_loop_create, {}, {})
<1> DEFINE lp == mig_loop_create
<1>1. lp \in Loops
  <2>1. lp.freestk \in Seq(Slots)
    BY StackInit DEF StackOK
  <2>2. CallocEnt \in Entries /\ IdlePollFd \in PollFds
    BY MigLoopAssumption DEF CallocEnt, Entries, IdlePollFd, PollFds, CallTypes
  <2> QED  BY <2>1, <2>2 DEF mig_loop_create, Loops
<1> QED  BY <1>1, StackInit DEF Coherent, EntriesOK, mig_loop_create, IdlePollFd, CallocEnt

\* Registering takes a slot that was free, for either kind of handler.
LEMMA RegisterCoherent ==
  ASSUME NEW lp, NEW held, NEW due, Coherent(lp, held, due), CanRegister(lp),
         NEW fd \in Fds, NEW calltype \in {"CALLBACK", "CALLCHAIN"}, NEW left \in Chains,
         calltype = "CALLBACK" => left = 0,
         NEW free \in BOOLEAN, NEW cond \in Conds
  PROVE  /\ zstk_top(lp.freestk) \in Slots \ held
         /\ Coherent(Register(lp, fd, calltype, left, free, cond), held \cup {zstk_top(lp.freestk)},
                     IF free THEN due \cup {zstk_top(lp.freestk)} ELSE due)
<1> DEFINE s   == zstk_top(lp.freestk)
           nx  == Register(lp, fd, calltype, left, free, cond)
           ent == [fd |-> fd, calltype |-> calltype, left |-> left, free |-> free]
           pfd == [fd |-> fd, events |-> cond, revents |-> {}]
<1>1. lp \in Loops /\ held \in SUBSET Slots /\ StackOK(lp.freestk, held) /\ EntriesOK(lp, held, due)
  BY DEF Coherent
<1>2. s \in Slots \ held /\ StackOK(zstk_rest(lp.freestk), held \cup {s})
  BY <1>1, StackPop DEF CanRegister
<1>3. /\ nx.entarr = [lp.entarr EXCEPT ![s] = ent]
      /\ nx.entfds = [lp.entfds EXCEPT ![s] = pfd]
      /\ nx.freestk = zstk_rest(lp.freestk)
      /\ nx.terminate = lp.terminate
  BY <1>1 DEF Register, Loops
<1>4. nx \in Loops
  <2>1. ent \in Entries /\ pfd \in PollFds
    BY MigLoopAssumption DEF Entries, PollFds, CallTypes, Chains
  <2>2. zstk_rest(lp.freestk) \in Seq(Slots)
    BY <1>2 DEF StackOK
  <2> QED  BY <1>1, <1>2, <1>3, <2>1, <2>2 DEF Register, Loops
<1>5. EntriesOK(nx, held \cup {s}, IF free THEN due \cup {s} ELSE due)
  BY <1>1, <1>2, <1>3 DEF EntriesOK, Loops
<1> QED  BY <1>1, <1>2, <1>3, <1>4, <1>5 DEF Coherent

\* Unregistering a held slot gives it back, and runs the callback if it is owed;
\* a slot whose descriptor is -1 is kept.
LEMMA UnregisterCoherent ==
  ASSUME NEW lp, NEW held, NEW due, Coherent(lp, held, due), NEW s \in held
  PROVE  /\ FreedBy(lp, s) \subseteq due
         /\ Coherent(mig_loop_unregister(lp, s),
                     IF lp.entarr[s].fd # -1 THEN held \ {s} ELSE held,
                     due \ FreedBy(lp, s))
<1> DEFINE nx == mig_loop_unregister(lp, s)
<1>1. lp \in Loops /\ held \in SUBSET Slots /\ StackOK(lp.freestk, held) /\ EntriesOK(lp, held, due)
  BY DEF Coherent
<1>2. FreedBy(lp, s) \subseteq due
  BY <1>1 DEF FreedBy, EntriesOK
<1>3. CASE lp.entarr[s].fd = -1
  <2>1. nx = lp /\ FreedBy(lp, s) = {}
    BY <1>3 DEF mig_loop_unregister, FreedBy
  <2> QED  BY <1>2, <1>3, <2>1
<1>4. CASE lp.entarr[s].fd # -1
  <2>1. StackOK(zstk_push(lp.freestk, s), held \ {s})
    BY <1>1, StackPush
  <2>2. /\ nx.entarr = [lp.entarr EXCEPT ![s] = MIG_ENT_EMPTY]
        /\ nx.entfds = [lp.entfds EXCEPT ![s] = IdlePollFd]
        /\ nx.freestk = zstk_push(lp.freestk, s)
        /\ nx.terminate = lp.terminate
    BY <1>1, <1>4 DEF mig_loop_unregister, Loops
  <2>3. nx \in Loops
    <3>1. MIG_ENT_EMPTY \in Entries /\ IdlePollFd \in PollFds
      BY MigLoopAssumption DEF Entries, PollFds, CallTypes, MIG_ENT_EMPTY, IdlePollFd
    <3>2. zstk_push(lp.freestk, s) \in Seq(Slots)
      BY <2>1 DEF StackOK
    <3> QED  BY <1>1, <1>4, <3>1, <3>2 DEF mig_loop_unregister, Loops
  <2>4. EntriesOK(nx, held \ {s}, due \ FreedBy(lp, s))
    <3>1. due \ FreedBy(lp, s) = due \ {s}
      BY <1>1, <1>4 DEF FreedBy, EntriesOK
    <3>2. \A t \in Slots \ {s} : nx.entarr[t] = lp.entarr[t] /\ nx.entfds[t] = lp.entfds[t]
      BY <1>1, <2>2 DEF Loops
    <3>3. nx.entarr[s] = MIG_ENT_EMPTY /\ nx.entfds[s] = IdlePollFd
      BY <1>1, <2>2 DEF Loops
    <3> QED  BY <1>1, <3>1, <3>2, <3>3 DEF EntriesOK, MIG_ENT_EMPTY
  <2> QED  BY <1>1, <1>2, <1>4, <2>1, <2>2, <2>3, <2>4 DEF Coherent
<1> QED  BY <1>3, <1>4

\* mig_loop_setfree changes what is owed and nothing else.
LEMMA SetfreeCoherent ==
  ASSUME NEW lp, NEW held, NEW due, Coherent(lp, held, due), NEW s \in held, NEW free \in BOOLEAN
  PROVE  Coherent(mig_loop_setfree(lp, s, free), held,
                  IF free THEN due \cup {s} ELSE due \ {s})
<1> DEFINE nx == mig_loop_setfree(lp, s, free)
<1>1. lp \in Loops /\ held \in SUBSET Slots /\ StackOK(lp.freestk, held) /\ EntriesOK(lp, held, due)
  BY DEF Coherent
<1>2. /\ nx.entarr = [lp.entarr EXCEPT ![s].free = free]
      /\ nx.entfds = lp.entfds /\ nx.freestk = lp.freestk
  BY <1>1 DEF mig_loop_setfree, Loops
<1>3. nx \in Loops
  <2>1. s \in Slots /\ lp.entarr \in [Slots -> Entries]
    BY <1>1 DEF Loops
  <2>2. [lp.entarr[s] EXCEPT !.free = free] \in Entries
    BY <2>1 DEF Entries
  <2>3. [lp.entarr EXCEPT ![s].free = free] \in [Slots -> Entries]
    BY <2>1, <2>2
  <2> QED  BY <1>1, <2>3, SMTT(30) DEF mig_loop_setfree, Loops
<1>4. /\ \A t \in Slots \ {s} : nx.entarr[t] = lp.entarr[t]
      /\ nx.entarr[s] = [lp.entarr[s] EXCEPT !.free = free]
  BY <1>1, <1>2 DEF Loops
<1>5. EntriesOK(nx, held, IF free THEN due \cup {s} ELSE due \ {s})
  BY <1>1, <1>2, <1>4 DEF EntriesOK, Loops, Entries
<1> QED  BY <1>1, <1>2, <1>3, <1>5 DEF Coherent

\* A held slot's entry may change while it stays one, with the same free callback.
LEMMA SlotCoherent ==
  ASSUME NEW lp, NEW held, NEW due, Coherent(lp, held, due), NEW s \in held,
         NEW e \in Entries, NEW p \in PollFds, NEW nx,
         nx = [lp EXCEPT !.entarr[s] = e, !.entfds[s] = p],
         e.free = lp.entarr[s].free, p.fd \in {-1, e.fd},
         e.calltype = "CALLBACK" => e.left = 0
  PROVE  Coherent(nx, held, due)
<1>1. lp \in Loops /\ held \in SUBSET Slots /\ StackOK(lp.freestk, held) /\ EntriesOK(lp, held, due)
  BY DEF Coherent
<1>2. /\ nx.entarr = [lp.entarr EXCEPT ![s] = e] /\ nx.entfds = [lp.entfds EXCEPT ![s] = p]
      /\ nx.freestk = lp.freestk
  BY <1>1 DEF Loops
<1>3. nx \in Loops
  BY <1>1 DEF Loops
<1>4. /\ \A t \in Slots \ {s} : nx.entarr[t] = lp.entarr[t] /\ nx.entfds[t] = lp.entfds[t]
      /\ nx.entarr[s] = e /\ nx.entfds[s] = p
  BY <1>1, <1>2 DEF Loops
<1>5. EntriesOK(nx, held, due)
  BY <1>1, <1>4 DEF EntriesOK
<1> QED  BY <1>1, <1>2, <1>3, <1>5 DEF Coherent

\* The calls of ClientAdjusts touch neither the free stack nor a free callback.
LEMMA AdjustCoherent ==
  ASSUME NEW lp, NEW held, NEW due, Coherent(lp, held, due), NEW s \in held, NEW nx,
         \/ nx = mig_loop_disable(lp, s)
         \/ nx = mig_loop_enable(lp, s)
         \/ \E cond \in Conds : nx = mig_loop_setcond(lp, s, cond)
         \/ \E fd \in Fds : nx = mig_loop_setfd(lp, s, fd)
         \/ \E fp \in BOOLEAN : nx = mig_loop_setcall(lp, s, fp)
         \/ \E chain \in Chains \cup {NullChain} : nx = mig_loop_setcallchain(lp, s, chain)
  PROVE  Coherent(nx, held, due)
<1> DEFINE ent == lp.entarr[s]
           pfd == lp.entfds[s]
           Fits(e, p) == /\ nx = [lp EXCEPT !.entarr[s] = e, !.entfds[s] = p]
                         /\ e.free = ent.free
                         /\ p.fd \in {-1, e.fd}
                         /\ e.calltype = "CALLBACK" => e.left = 0
<1> SUFFICES \E e \in Entries, p \in PollFds : Fits(e, p)
  BY SlotCoherent
<1>1. lp \in Loops /\ s \in Slots
  BY DEF Coherent
<1>2. ent \in Entries /\ pfd \in PollFds
  BY <1>1 DEF Loops
<1>3. pfd.fd \in {-1, ent.fd} /\ (ent.calltype = "CALLBACK" => ent.left = 0)
  BY DEF Coherent, EntriesOK
<1>4. CASE nx = mig_loop_disable(lp, s)
  <2> DEFINE p == [pfd EXCEPT !.fd = -1]
  <2>1. p \in PollFds /\ p.fd = -1
    BY <1>2 DEF PollFds
  <2>2. Fits(ent, p)
    BY <1>1, <1>3, <1>4, <2>1 DEF mig_loop_disable, Loops
  <2> QED  BY <1>2, <2>1, <2>2
<1>5. CASE nx = mig_loop_enable(lp, s)
  <2> DEFINE p == [pfd EXCEPT !.fd = ent.fd]
  <2>1. p \in PollFds /\ p.fd = ent.fd
    BY <1>2 DEF PollFds, Entries
  <2>2. Fits(ent, p)
    BY <1>1, <1>3, <1>5, <2>1 DEF mig_loop_enable, Loops
  <2> QED  BY <1>2, <2>1, <2>2
<1>6. ASSUME NEW cond \in Conds, nx = mig_loop_setcond(lp, s, cond)
      PROVE  \E e \in Entries, p \in PollFds : Fits(e, p)
  <2> DEFINE p == [pfd EXCEPT !.events = cond]
  <2>1. p \in PollFds /\ p.fd = pfd.fd
    BY <1>2 DEF PollFds
  <2>2. Fits(ent, p)
    BY <1>1, <1>3, <1>6, <2>1 DEF mig_loop_setcond, Loops
  <2> QED  BY <1>2, <2>1, <2>2
<1>7. ASSUME NEW fd \in Fds, nx = mig_loop_setfd(lp, s, fd)
      PROVE  \E e \in Entries, p \in PollFds : Fits(e, p)
  <2> DEFINE e == [ent EXCEPT !.fd = fd]
             p == [pfd EXCEPT !.fd = IF pfd.fd # -1 THEN fd ELSE pfd.fd]
  <2>1. p \in PollFds /\ p.fd \in {-1, fd}
    BY <1>2 DEF PollFds
  <2>2. e \in Entries /\ e.fd = fd /\ e.free = ent.free /\ e.calltype = ent.calltype /\ e.left = ent.left
    BY <1>2 DEF Entries
  <2>3. Fits(e, p)
    BY <1>1, <1>3, <1>7, <2>1, <2>2 DEF mig_loop_setfd, Loops
  <2> QED  BY <2>1, <2>2, <2>3
<1>8. ASSUME NEW ct \in {"CALLBACK", "CALLCHAIN"}, NEW left \in Chains, ct = "CALLBACK" => left = 0,
             nx = [lp EXCEPT !.entarr[s].calltype = ct, !.entarr[s].left = left]
      PROVE  \E e \in Entries, p \in PollFds : Fits(e, p)
  <2> DEFINE m == [ent EXCEPT !.calltype = ct]
             e == [m EXCEPT !.left = left]
  <2>1. /\ e \in Entries /\ e.fd = ent.fd /\ e.free = ent.free
        /\ e.calltype = ct /\ e.left = left
    <3>1. m \in Entries /\ m.fd = ent.fd /\ m.free = ent.free /\ m.calltype = ct
      BY <1>2 DEF Entries, CallTypes
    <3>2. left \in -1 .. ChainLen
      BY MigLoopAssumption DEF Chains
    <3> HIDE DEF m
    <3> QED  BY <3>1, <3>2 DEF Entries
  <2>2. nx = [lp EXCEPT !.entarr[s] = e, !.entfds[s] = pfd]
    BY <1>1, <1>8, ZenonT(30) DEF Loops
  <2>3. Fits(e, pfd)
    BY <1>3, <1>8, <2>1, <2>2
  <2> QED  BY <1>2, <2>1, <2>3
<1>9. ASSUME nx = [lp EXCEPT !.entarr[s].calltype = "NULL"]
      PROVE  \E e \in Entries, p \in PollFds : Fits(e, p)
  <2> DEFINE e == [ent EXCEPT !.calltype = "NULL"]
  <2>1. e \in Entries /\ e.fd = ent.fd /\ e.free = ent.free /\ e.calltype = "NULL"
    BY <1>2 DEF Entries, CallTypes
  <2>2. Fits(e, pfd)
    BY <1>1, <1>3, <1>9, <2>1, ZenonT(30) DEF Loops
  <2> QED  BY <1>2, <2>1, <2>2
<1>10. ASSUME NEW fp \in BOOLEAN, nx = mig_loop_setcall(lp, s, fp)
       PROVE  \E e \in Entries, p \in PollFds : Fits(e, p)
  <2>1. 0 \in Chains
    BY MigLoopAssumption DEF Chains
  <2> QED  BY <1>8, <1>9, <1>10, <2>1 DEF mig_loop_setcall
<1>11. ASSUME NEW chain \in Chains \cup {NullChain}, nx = mig_loop_setcallchain(lp, s, chain)
       PROVE  \E e \in Entries, p \in PollFds : Fits(e, p)
  <2>1. CASE chain = NullChain
    BY <1>9, <1>11, <2>1 DEF mig_loop_setcallchain
  <2>2. CASE chain # NullChain
    <3>1. chain \in Chains
      BY <1>11, <2>2
    <3> QED  BY <1>8, <1>11, <2>2, <3>1 DEF mig_loop_setcallchain
  <2> QED  BY <2>1, <2>2
<1> QED  BY <1>4, <1>5, <1>6, <1>7, <1>10, <1>11

\* The chain pointer moves by one.
LEMMA AdvanceCoherent ==
  ASSUME NEW lp, NEW held, NEW due, Coherent(lp, held, due), NEW s \in Slots,
         lp.entarr[s].calltype = "CALLCHAIN" => lp.entarr[s].left >= 0 /\ s \in held
  PROVE  Coherent(AdvanceChain(lp, s), held, due)
<1> DEFINE ent == lp.entarr[s]
           e   == [ent EXCEPT !.left = @ - 1]
<1>1. CASE ent.calltype # "CALLCHAIN"
  BY <1>1 DEF AdvanceChain
<1>2. CASE ent.calltype = "CALLCHAIN"
  <2>1. lp \in Loops /\ s \in held
    BY <1>2 DEF Coherent
  <2>2. ent \in Entries /\ lp.entfds[s] \in PollFds
    BY <2>1 DEF Loops
  <2>3. AdvanceChain(lp, s) = [lp EXCEPT !.entarr[s] = e, !.entfds[s] = lp.entfds[s]]
    BY <1>2, <2>1 DEF AdvanceChain, Loops
  <2>4. e \in Entries /\ e.fd = ent.fd /\ e.free = ent.free /\ e.calltype = "CALLCHAIN"
    BY <1>2, <2>2, MigLoopAssumption DEF Entries
  <2>5. lp.entfds[s].fd \in {-1, e.fd}
    BY <2>1, <2>4 DEF Coherent, EntriesOK
  <2> QED  BY <2>1, <2>2, <2>3, <2>4, <2>5, SlotCoherent
<1> QED  BY <1>1, <1>2

\* mig_loop_terminate touches neither entries nor stack.
LEMMA TerminateCoherent ==
  ASSUME NEW lp, NEW held, NEW due, Coherent(lp, held, due)
  PROVE  Coherent(mig_loop_terminate(lp), held, due)
BY DEF Coherent, EntriesOK, mig_loop_terminate, Loops

\* poll writes revents, and only of descriptors that are polled.
LEMMA PollCoherent ==
  ASSUME NEW lp, NEW held, NEW due, Coherent(lp, held, due), NEW R \in PollReports(lp)
  PROVE  Coherent(WithRevents(lp, R), held, due)
<1> DEFINE nx == WithRevents(lp, R)
<1>1. lp \in Loops /\ held \in SUBSET Slots /\ StackOK(lp.freestk, held) /\ EntriesOK(lp, held, due)
  BY DEF Coherent
<1>2. /\ nx.entarr = lp.entarr /\ nx.freestk = lp.freestk
      /\ nx.entfds = [s \in Slots |-> [lp.entfds[s] EXCEPT !.revents = R[s]]]
  BY <1>1 DEF WithRevents, Loops
<1>3. R \in [Slots -> SUBSET CondBits]
  BY DEF PollReports
<1>4. \A s \in Slots : [lp.entfds[s] EXCEPT !.revents = R[s]] \in PollFds
  <2>1. \A s \in Slots : lp.entfds[s] \in PollFds /\ R[s] \in SUBSET CondBits
    BY <1>1, <1>3 DEF Loops
  <2> QED  BY <2>1 DEF PollFds
<1>5. nx \in Loops
  BY <1>1, <1>4 DEF WithRevents, Loops
<1>6. \A s \in Slots \ held : nx.entfds[s] = IdlePollFd
  <2> SUFFICES ASSUME NEW s \in Slots \ held PROVE nx.entfds[s] = IdlePollFd
    OBVIOUS
  <2>1. lp.entfds[s] = IdlePollFd
    BY <1>1 DEF EntriesOK
  <2>2. R[s] = {}
    BY <2>1 DEF PollReports, IdlePollFd
  <2>3. nx.entfds[s] = [IdlePollFd EXCEPT !.revents = {}]
    BY <1>2, <2>1, <2>2
  <2> QED  BY <2>3 DEF IdlePollFd
<1>7. \A s \in held : nx.entfds[s].fd = lp.entfds[s].fd
  BY <1>1, <1>2 DEF Loops, PollFds
<1>8. EntriesOK(nx, held, due)
  BY <1>1, <1>2, <1>6, <1>7 DEF EntriesOK
<1> QED  BY <1>1, <1>2, <1>5, <1>8 DEF Coherent

-----------------------------------------------------------------------------
(* The steps of the program. *)

\* The program starts in a coherent loop.
LEMMA InitIInv == Init => IInv
<1> SUFFICES ASSUME Init PROVE IInv
  OBVIOUS
<1>1. Coherent(loop, live, owed)
  BY CreateCoherent DEF Init
<1>2. TypeOK
  <2>1. loop \in Loops
    BY <1>1 DEF Coherent
  <2>2. 0 \in 0 .. NSlots
    BY MigLoopAssumption
  <2> QED  BY <2>1, <2>2 DEF Init, TypeOK, CallTypes
<1> QED  BY <1>1, <1>2 DEF Init, IInv, ChainRuns, PastOnlySwitched

\* An entry that is reported is held: free slots are not polled.
LEMMA WantedHeld ==
  ASSUME NEW lp, NEW held, NEW due, Coherent(lp, held, due), NEW s \in Slots, Wanted(lp, s)
  PROVE  s \in held
BY DEF Coherent, EntriesOK, Wanted, IdlePollFd

\* The chain of slot t is what it was.
SameChain(lp, nx, t) ==
  nx.entarr[t].calltype = "CALLCHAIN" =>
    lp.entarr[t].calltype = "CALLCHAIN" /\ nx.entarr[t].left = lp.entarr[t].left

\* No client call moves a chain: each slot keeps its own, or is given another
\* one, which is remembered if the function that runs did it to its own slot.
KeepsChains ==
  \A t \in Slots :
    \/ /\ SameChain(loop, loop', t)
       /\ t \in switched => t \in switched'
    \/ /\ loop'.entarr[t].left >= 0
       /\ pc = "call" /\ kind = "CALLCHAIN" /\ t = idx => t \in switched'

\* mig_loop_unregister moves no chain of another slot.
LEMMA UnregisterKeepsChains ==
  ASSUME NEW lp \in Loops, NEW s \in Slots
  PROVE  \A t \in Slots : SameChain(lp, mig_loop_unregister(lp, s), t)
BY DEF SameChain, mig_loop_unregister, MIG_ENT_EMPTY, Loops

\* Giving slot s a chain is remembered of s alone.
LEMMA GivesChainKeeps ==
  ASSUME NEW s \in Slots, GivesChain(s), loop'.entarr[s].left >= 0,
         \A t \in Slots \ {s} : SameChain(loop, loop', t)
  PROVE  KeepsChains
BY DEF GivesChain, KeepsChains

\* Both ways to register are one operator.
LEMMA RegisterForm ==
  ASSUME NEW fd, NEW free, NEW cond, ClientRegisters(fd, free, cond)
  PROVE  \E ct \in {"CALLBACK", "CALLCHAIN"}, left \in Chains :
           /\ loop' = Register(loop, fd, ct, left, free, cond)
           /\ ct = "CALLBACK" => left = 0
           /\ ct = "CALLBACK" => UNCHANGED switched
           /\ ct = "CALLCHAIN" => GivesChain(zstk_top(loop.freestk))
<1>1. CASE loop' = mig_loop_register(loop, fd, free, cond) /\ UNCHANGED switched
  <2>1. 0 \in Chains
    BY MigLoopAssumption DEF Chains
  <2> QED  BY <1>1, <2>1 DEF mig_loop_register
<1>2. ASSUME NEW chain \in Chains, loop' = mig_loop_register_chain(loop, fd, chain, free, cond),
             GivesChain(zstk_top(loop.freestk))
      PROVE  loop' = Register(loop, fd, "CALLCHAIN", chain, free, cond)
  BY <1>2 DEF mig_loop_register_chain
<1> QED  BY <1>1, <1>2 DEF ClientRegisters

\* Client code keeps the loop coherent and moves no chain.
LEMMA ClientStep ==
  ASSUME IInv, Client
  PROVE  /\ Coherent(loop', live', owed') /\ misfreed' = FALSE
         /\ KeepsChains
         /\ UNCHANGED <<pc, rfds, hfds, idx, kind>> /\ switched' \subseteq Slots
<1> DEFINE Kept == UNCHANGED <<pc, rfds, hfds, idx, kind>>
           Good == /\ Coherent(loop', live', owed') /\ misfreed' = FALSE
                   /\ KeepsChains
                   /\ Kept /\ switched' \subseteq Slots
<1>1. ClientRuns
  BY DEF Client, ClientRegisters, ClientUnregisters, ClientSetsFree, ClientAdjusts, ClientSetsChain,
         ClientTerminates
<1>2. Coherent(loop, live, owed) /\ misfreed = FALSE /\ switched \subseteq Slots
  BY <1>1 DEF IInv, TypeOK, ClientRuns
<1>3. loop \in Loops /\ live \in SUBSET Slots
  BY <1>2 DEF Coherent
<1>same. ASSUME UNCHANGED switched, \A t \in Slots : SameChain(loop, loop', t)
         PROVE  KeepsChains /\ switched' \subseteq Slots
  BY <1>2, <1>same DEF KeepsChains
<1>4. ASSUME NEW fd \in Fds, NEW free \in BOOLEAN, NEW cond \in Conds, ClientRegisters(fd, free, cond)
      PROVE  Good
  <2> DEFINE s == zstk_top(loop.freestk)
  <2>1. PICK ct \in {"CALLBACK", "CALLCHAIN"}, left \in Chains :
          /\ loop' = Register(loop, fd, ct, left, free, cond)
          /\ ct = "CALLBACK" => left = 0
          /\ ct = "CALLBACK" => UNCHANGED switched
          /\ ct = "CALLCHAIN" => GivesChain(s)
    BY <1>4, RegisterForm
  <2>2. /\ CanRegister(loop) /\ live' = live \cup {s} /\ owed' = IF free THEN owed \cup {s} ELSE owed
        /\ Kept /\ misfreed' = misfreed
    BY <1>4 DEF ClientRegisters
  <2>3. s \in Slots /\ Coherent(loop', live', owed')
    <3>1. ct = "CALLBACK" => left = 0
      BY <2>1
    <3>2. /\ s \in Slots \ live
          /\ Coherent(Register(loop, fd, ct, left, free, cond), live \cup {s},
                      IF free THEN owed \cup {s} ELSE owed)
      BY <1>2, <2>2, <3>1, RegisterCoherent
    <3> QED  BY <2>1, <2>2, <3>2
  <2>4. /\ \A t \in Slots \ {s} : loop'.entarr[t] = loop.entarr[t]
        /\ loop'.entarr[s].calltype = ct /\ loop'.entarr[s].left = left
    BY <1>3, <2>1, <2>3 DEF Register, Loops
  <2>5. \A t \in Slots \ {s} : SameChain(loop, loop', t)
    BY <2>4 DEF SameChain
  <2>6. CASE ct = "CALLBACK"
    <3>1. SameChain(loop, loop', s)
      BY <2>4, <2>6 DEF SameChain
    <3> QED  BY <1>2, <1>same, <2>1, <2>2, <2>3, <2>5, <2>6, <3>1
  <2>7. CASE ct = "CALLCHAIN"
    <3>1. left >= 0
      BY MigLoopAssumption DEF Chains
    <3>2. KeepsChains
      BY <2>1, <2>3, <2>4, <2>5, <2>7, <3>1, GivesChainKeeps
    <3>3. switched' \subseteq Slots
      BY <1>2, <2>1, <2>3, <2>7 DEF GivesChain
    <3> QED  BY <1>2, <2>2, <2>3, <3>2, <3>3
  <2> QED  BY <2>6, <2>7
<1>5. ASSUME NEW s \in live, ClientUnregisters(s)
      PROVE  Good
  <2>1. Coherent(loop', live', owed') /\ misfreed' = FALSE
    BY <1>2, <1>3, <1>5, UnregisterCoherent DEF ClientUnregisters, Releases
  <2>2. \A t \in Slots : SameChain(loop, loop', t)
    BY <1>3, <1>5, UnregisterKeepsChains DEF ClientUnregisters, Releases
  <2> QED  BY <1>5, <1>same, <2>1, <2>2 DEF ClientUnregisters, scanvars
<1>6. ASSUME NEW s \in live, NEW free \in BOOLEAN, ClientSetsFree(s, free)
      PROVE  Good
  <2>1. Coherent(loop', live', owed')
    BY <1>2, <1>6, SetfreeCoherent DEF ClientSetsFree
  <2>2. \A t \in Slots : SameChain(loop, loop', t)
    BY <1>3, <1>6 DEF ClientSetsFree, SameChain, mig_loop_setfree, Loops, Entries
  <2> QED  BY <1>2, <1>6, <1>same, <2>1, <2>2 DEF ClientSetsFree, scanvars
<1>7. ASSUME NEW s \in live, ClientAdjusts(s)
      PROVE  Good
  <2>1. Coherent(loop', live, owed)
    BY <1>2, <1>7, AdjustCoherent DEF ClientAdjusts
  <2>2. live' = live /\ owed' = owed /\ misfreed' = FALSE /\ UNCHANGED <<pc, scanvars>>
    BY <1>2, <1>7 DEF ClientAdjusts, ghosts
  <2>3. \A t \in Slots : SameChain(loop, loop', t)
    <3>1. CASE loop' = mig_loop_disable(loop, s) \/ loop' = mig_loop_enable(loop, s)
      BY <1>3, <3>1 DEF SameChain, Loops, mig_loop_disable, mig_loop_enable
    <3>2. CASE \E cond \in Conds : loop' = mig_loop_setcond(loop, s, cond)
      BY <1>3, <3>2 DEF SameChain, Loops, mig_loop_setcond
    <3>3. CASE \E fd \in Fds : loop' = mig_loop_setfd(loop, s, fd)
      BY <1>3, <3>3 DEF SameChain, Loops, Entries, mig_loop_setfd
    <3>4. CASE \E fp \in BOOLEAN : loop' = mig_loop_setcall(loop, s, fp)
      BY <1>3, <3>4 DEF SameChain, Loops, Entries, mig_loop_setcall
    <3>5. CASE loop' = mig_loop_setcallchain(loop, s, NullChain)
      BY <1>3, <3>5 DEF SameChain, Loops, Entries, mig_loop_setcallchain
    <3> QED  BY <1>7, <3>1, <3>2, <3>3, <3>4, <3>5 DEF ClientAdjusts
  <2> QED  BY <1>same, <2>1, <2>2, <2>3 DEF scanvars
<1>8. ASSUME NEW s \in live, NEW chain \in Chains, ClientSetsChain(s, chain)
      PROVE  Good
  <2>1. /\ loop' = mig_loop_setcallchain(loop, s, chain) /\ GivesChain(s) /\ Kept
        /\ live' = live /\ owed' = owed /\ misfreed' = misfreed
    BY <1>8 DEF ClientSetsChain, ghosts
  <2>2. Coherent(loop', live', owed')
    BY <1>2, <2>1, AdjustCoherent
  <2>3. s \in Slots /\ chain >= 0 /\ chain # NullChain
    BY <1>3, MigLoopAssumption DEF Chains, NullChain
  <2>4. /\ \A t \in Slots \ {s} : loop'.entarr[t] = loop.entarr[t]
        /\ loop'.entarr[s].left = chain
    BY <1>3, <2>1, <2>3 DEF mig_loop_setcallchain, Loops, Entries
  <2>5. KeepsChains
    BY <2>1, <2>3, <2>4, GivesChainKeeps DEF SameChain
  <2>6. switched' \subseteq Slots
    BY <1>2, <2>1, <2>3 DEF GivesChain
  <2> QED  BY <1>2, <2>1, <2>2, <2>5, <2>6
<1>9. ASSUME ClientTerminates
      PROVE  Good
  <2>1. Coherent(loop', live', owed')
    BY <1>2, <1>9, TerminateCoherent DEF ClientTerminates, ghosts
  <2>2. \A t \in Slots : SameChain(loop, loop', t)
    BY <1>3, <1>9 DEF ClientTerminates, SameChain, mig_loop_terminate, Loops
  <2> QED  BY <1>2, <1>9, <1>same, <2>1, <2>2 DEF ClientTerminates, ghosts, scanvars
<1> QED  BY <1>4, <1>5, <1>6, <1>7, <1>8, <1>9 DEF Client

\* The counts of one scan have their types when poll has returned.
LEMMA ReportedCount ==
  ASSUME NEW R PROVE Cardinality(Reported(R)) \in 0 .. NSlots
<1>1. Reported(R) \in SUBSET Slots
  BY DEF Reported
<1> QED  BY <1>1, HeldFinite

\* Every step keeps the invariant.
LEMMA StepIInv == IInv /\ [Next]_vars => IInv'
<1> SUFFICES ASSUME IInv, [Next]_vars PROVE IInv'
  OBVIOUS
<1> DEFINE Locals == /\ rfds \in 0 .. NSlots /\ hfds \in 0 .. NSlots /\ idx \in 0 .. NSlots
                     /\ kind \in CallTypes /\ switched \subseteq Slots
           Places == {"setup", "top", "enter", "poll", "scan", "call", "astray", "done", "failed"}
<1>1. TypeOK /\ Locals /\ misfreed = FALSE
  BY DEF IInv, TypeOK
<1>2. NSlots \in Nat /\ ChainLen \in Nat
  BY MigLoopAssumption
<1>3. ASSUME Coherent(loop', live', owed'), misfreed' = FALSE, pc' \in Places, Locals',
             pc' = "call" => idx' < NSlots, ChainRuns', PastOnlySwitched'
      PROVE  IInv'
  <2>1. loop' \in Loops /\ live' \subseteq Slots /\ owed' \subseteq live'
    BY <1>3 DEF Coherent, EntriesOK
  <2>2. TypeOK'
    BY <1>3, <2>1 DEF TypeOK
  <2> QED  BY <1>3, <2>2 DEF IInv
<1>kept. ASSUME loop'.entarr = loop.entarr, live' = live, switched' = switched
         PROVE  PastOnlySwitched'
  BY <1>kept DEF PastOnlySwitched, PastSentinel, IInv
<1>4. CASE Client
  <2>1. /\ Coherent(loop', live', owed') /\ misfreed' = FALSE
        /\ KeepsChains /\ UNCHANGED <<pc, rfds, hfds, idx, kind>> /\ switched' \subseteq Slots
    BY <1>4, ClientStep
  <2>2. pc \in {"setup", "call"}
    BY <1>4 DEF Client, ClientRegisters, ClientUnregisters, ClientSetsFree, ClientAdjusts,
                ClientSetsChain, ClientTerminates, ClientRuns
  <2>3. Locals' /\ (pc' = "call" => idx' < NSlots)
    BY <1>1, <2>1 DEF IInv
  <2>4. ChainRuns'
    <3> SUFFICES ASSUME pc = "call", kind = "CALLCHAIN", loop'.entarr[idx].calltype = "CALLCHAIN"
                 PROVE  /\ loop'.entarr[idx].left >= 0
                        /\ loop'.entarr[idx].left = 0 => idx \in switched'
      BY <2>1 DEF ChainRuns
    <3>1. idx \in Slots
      BY <1>1, <1>2 DEF IInv, Slots
    <3> QED  BY <2>1, <3>1 DEF IInv, ChainRuns, KeepsChains, SameChain
  <2>5. PastOnlySwitched'
    <3> SUFFICES ASSUME NEW s \in live', PastSentinel(s)' PROVE s \in switched'
      BY DEF PastOnlySwitched
    <3>1. s \in Slots /\ loop'.entarr[s].calltype = "CALLCHAIN" /\ loop'.entarr[s].left < 0
      BY <2>1 DEF Coherent, PastSentinel
    <3>2. loop'.entarr[s].left \in Int
      BY <2>1, <3>1 DEF Coherent, Loops, Entries
    <3>3. SameChain(loop, loop', s) /\ (s \in switched => s \in switched')
      BY <2>1, <3>1, <3>2 DEF KeepsChains
    <3>4. PastSentinel(s)
      BY <3>1, <3>3 DEF SameChain, PastSentinel
    <3>5. s \in live
      <4>1. pc # "destroyed"
        BY <2>2
      <4> QED  BY <3>1, <3>4, <4>1 DEF IInv, Coherent, EntriesOK, PastSentinel, CallocEnt, MIG_ENT_EMPTY
    <3> QED  BY <3>3, <3>4, <3>5 DEF IInv, PastOnlySwitched
  <2> QED  BY <1>3, <2>1, <2>2, <2>3, <2>4, <2>5
<1>5. CASE Start \/ LoopTop \/ EnterPoll \/ PollFails
  <2>1. /\ Coherent(loop', live', owed') /\ misfreed' = FALSE
        /\ pc' \in Places \ {"call"} /\ Locals'
    BY <1>1, <1>5 DEF IInv, Start, LoopTop, EnterPoll, PollFails, scanvars, ghosts
  <2>2. PastOnlySwitched'
    BY <1>5, <1>kept DEF Start, LoopTop, EnterPoll, PollFails, scanvars, ghosts
  <2> QED  BY <1>3, <2>1, <2>2 DEF ChainRuns
<1>6. CASE PollReturns
  <2>1. PICK R \in PollReports(loop) : /\ loop' = WithRevents(loop, R)
                                       /\ rfds' = Cardinality(Reported(R))
    BY <1>6 DEF PollReturns
  <2>2. Coherent(loop', live', owed') /\ misfreed' = FALSE
    BY <1>6, <2>1, PollCoherent DEF PollReturns, IInv, ghosts
  <2>3. Locals' /\ pc' = "scan"
    BY <1>1, <1>2, <1>6, <2>1, ReportedCount DEF PollReturns
  <2>4. loop'.entarr = loop.entarr
    BY <1>1, <2>1 DEF TypeOK, Loops, WithRevents
  <2>5. PastOnlySwitched'
    BY <1>6, <1>kept, <2>4 DEF PollReturns, ghosts
  <2> QED  BY <1>3, <2>2, <2>3, <2>5 DEF ChainRuns
<1>7. CASE Scan
  <2>1. pc = "scan" /\ Coherent(loop, live, owed)
    BY <1>7 DEF Scan, ScanSkip, ScanDispatch, ScanNoCall, ScanSentinel, ScanAstray, ScanEnd, Scanning, IInv
  <2>2. CASE ScanSkip \/ ScanNoCall \/ ScanAstray \/ ScanEnd
    <3>1. Coherent(loop', live', owed') /\ misfreed' = FALSE /\ pc' \in Places \ {"call"}
      BY <1>1, <2>1, <2>2 DEF ScanSkip, ScanNoCall, ScanAstray, ScanEnd, Scanning, ghosts
    <3>2. Locals'
      BY <1>1, <1>2, <2>2 DEF ScanSkip, ScanNoCall, ScanAstray, ScanEnd, Scanning, CallTypes, scanvars
    <3>3. PastOnlySwitched'
      BY <1>kept, <2>2 DEF ScanSkip, ScanNoCall, ScanAstray, ScanEnd, ghosts, scanvars
    <3> QED  BY <1>3, <3>1, <3>2, <3>3 DEF ChainRuns
  <2>3. CASE ScanDispatch
    <3>1. Coherent(loop', live', owed') /\ misfreed' = FALSE /\ pc' = "call"
      BY <1>1, <2>1, <2>3 DEF ScanDispatch, ghosts
    <3>2. Locals' /\ idx' < NSlots
      BY <1>1, <1>2, <2>3 DEF ScanDispatch, Scanning, CallTypes
    <3>3. ChainRuns'
      <4>1. idx \in Slots /\ loop.entarr[idx] \in Entries
        BY <1>1, <1>2, <2>1, <2>3 DEF ScanDispatch, Scanning, Slots, Coherent, Loops
      <4>2. loop.entarr[idx].calltype = "CALLCHAIN" => loop.entarr[idx].left > 0
        BY <1>2, <2>3, <4>1 DEF ScanDispatch, AtSentinel, PastSentinel, Entries
      <4>3. loop' = loop /\ idx' = idx
        BY <2>3 DEF ScanDispatch
      <4> QED  BY <4>1, <4>2, <4>3 DEF ChainRuns, Entries
    <3>4. PastOnlySwitched'
      <4> SUFFICES ASSUME NEW s \in live, PastSentinel(s) PROVE s \in switched'
        BY <2>3 DEF PastOnlySwitched, PastSentinel, ScanDispatch, ghosts
      <4>1. s # idx /\ switched' = switched \ {idx}
        BY <2>3 DEF ScanDispatch
      <4> QED  BY <4>1 DEF IInv, PastOnlySwitched
    <3> QED  BY <1>3, <3>1, <3>2, <3>3, <3>4
  <2>4. CASE ScanSentinel
    <3>1. idx \in live
      BY <1>1, <1>2, <2>1, <2>4, WantedHeld DEF ScanSentinel, Scanning, Slots
    <3>2. Coherent(loop', live', owed') /\ misfreed' = FALSE
      BY <1>1, <2>1, <2>4, <3>1, UnregisterCoherent DEF ScanSentinel, Releases
    <3>3. Locals' /\ pc' = "scan"
      BY <1>1, <1>2, <2>4 DEF ScanSentinel, Scanning
    <3>4. PastOnlySwitched'
      <4> SUFFICES ASSUME NEW s \in live', PastSentinel(s)' PROVE s \in switched'
        BY DEF PastOnlySwitched
      <4>1. SameChain(loop, loop', s)
        BY <1>1, <2>1, <2>4, <3>1, <3>2, UnregisterKeepsChains DEF ScanSentinel, Releases, Coherent
      <4>2. s \in live /\ switched' = switched
        BY <2>4 DEF ScanSentinel, Releases
      <4> QED  BY <4>1, <4>2 DEF SameChain, PastSentinel, IInv, PastOnlySwitched
    <3> QED  BY <1>3, <3>2, <3>3, <3>4 DEF ChainRuns
  <2> QED  BY <1>7, <2>2, <2>3, <2>4 DEF Scan
<1>8. ASSUME NEW proceed \in BOOLEAN, CallReturns(proceed)
      PROVE  IInv'
  <2>1. Coherent(loop, live, owed) /\ idx \in Slots
    BY <1>1, <1>2, <1>8 DEF CallReturns, IInv, Slots
  <2>2. Coherent(loop', live', owed') /\ misfreed' = FALSE
    <3>1. live' = live /\ owed' = owed /\ misfreed' = FALSE
      BY <1>1, <1>8 DEF CallReturns, ghosts
    <3>2. CASE kind = "CALLCHAIN" /\ proceed
      <4>1. loop' = AdvanceChain(loop, idx)
        BY <1>8, <3>2 DEF CallReturns
      <4>2. loop.entarr[idx].calltype = "CALLCHAIN" => loop.entarr[idx].left >= 0
        BY <1>8, <3>2 DEF CallReturns, IInv, ChainRuns
      <4>3. loop.entarr[idx].calltype = "CALLCHAIN" => idx \in live
        BY <2>1 DEF Coherent, EntriesOK, CallocEnt, MIG_ENT_EMPTY
      <4> QED  BY <2>1, <3>1, <4>1, <4>2, <4>3, AdvanceCoherent
    <3>3. CASE ~(kind = "CALLCHAIN" /\ proceed)
      BY <1>8, <2>1, <3>1, <3>3 DEF CallReturns
    <3> QED  BY <3>2, <3>3
  <2>3. Locals' /\ pc' = "scan"
    BY <1>1, <1>2, <1>8, <2>1 DEF CallReturns, CallTypes, Slots
  <2>4. PastOnlySwitched'
    <3> SUFFICES ASSUME NEW s \in live, PastSentinel(s)' PROVE s \in switched
      BY <1>8 DEF PastOnlySwitched, CallReturns, ghosts
    <3>1. s \in Slots /\ loop.entarr[s] \in Entries /\ loop.entarr \in [Slots -> Entries]
      BY <2>1 DEF Coherent, Loops
    <3>2. CASE loop'.entarr[s] = loop.entarr[s]
      BY <3>2 DEF PastSentinel, IInv, PastOnlySwitched
    <3>3. CASE loop'.entarr[s] # loop.entarr[s]
      <4>1. /\ s = idx /\ kind = "CALLCHAIN" /\ loop.entarr[idx].calltype = "CALLCHAIN"
            /\ loop'.entarr[s].left = loop.entarr[idx].left - 1
        BY <1>8, <2>1, <3>1, <3>3 DEF CallReturns, AdvanceChain, Coherent, Loops, Entries
      <4>2. loop.entarr[idx].left \in Int /\ pc = "call"
        BY <1>8, <3>1, <4>1 DEF CallReturns, Entries
      <4> QED  BY <4>1, <4>2 DEF PastSentinel, IInv, ChainRuns
    <3> QED  BY <3>2, <3>3
  <2> QED  BY <1>3, <2>2, <2>3, <2>4 DEF ChainRuns
<1>9. CASE Sigint
  <2>1. Coherent(loop', live', owed') /\ misfreed' = FALSE /\ pc' \in Places /\ Locals'
    BY <1>1, <1>9, TerminateCoherent DEF Sigint, IInv, ghosts, scanvars
  <2>2. (pc' = "call" => pc = "call") /\ UNCHANGED scanvars /\ loop'.entarr = loop.entarr
    BY <1>1, <1>9 DEF Sigint, mig_loop_terminate, TypeOK, Loops
  <2>3. PastOnlySwitched'
    BY <1>9, <1>kept, <2>2 DEF Sigint, ghosts, scanvars
  <2> QED  BY <1>3, <2>1, <2>2, <2>3 DEF ChainRuns, IInv, scanvars
<1>10. CASE Destroy
  <2>1. Coherent(loop, live, owed)
    BY <1>10 DEF Destroy, IInv
  <2>2. FreedByDestroy(loop) = owed
    BY <2>1 DEF Coherent, EntriesOK, FreedByDestroy, CallocEnt, MIG_ENT_EMPTY
  <2>3. pc' = "destroyed" /\ live' = {} /\ owed' = {} /\ misfreed' = FALSE
    BY <1>1, <1>10, <2>2 DEF Destroy
  <2>4. TypeOK'
    BY <1>1, <1>10, <2>3 DEF Destroy, TypeOK, scanvars
  <2> QED  BY <2>3, <2>4 DEF IInv, ChainRuns, PastOnlySwitched
<1>11. CASE UNCHANGED vars
  BY <1>11 DEF vars, scanvars, ghosts, IInv, TypeOK, ChainRuns, PastOnlySwitched, PastSentinel
<1> QED  BY <1>4, <1>5, <1>6, <1>7, <1>8, <1>9, <1>10, <1>11 DEF Next, Exec, Ended

-----------------------------------------------------------------------------
(* The scan's budget: what is pending against rfds - hfds. *)

BudgetInv == pc \in {"scan", "call"} => Cardinality(Pending) <= rfds - hfds

\* Client code makes nothing pending: it leaves what was reported or clears it.
Quiet(lp, nx) ==
  \A t \in Slots : nx.entfds[t].revents \in {lp.entfds[t].revents, {}}

\* A client that is called back leaves what is still to be scanned, or clears it.
LEMMA ClientQuiet ==
  ASSUME IInv, Client PROVE Quiet(loop, loop')
<1>1. ClientRuns
  BY DEF Client, ClientRegisters, ClientUnregisters, ClientSetsFree, ClientAdjusts, ClientSetsChain,
         ClientTerminates
<1>2. Coherent(loop, live, owed) /\ loop \in Loops
  BY <1>1 DEF IInv, ClientRuns, Coherent
<1>3. ASSUME NEW fd \in Fds, NEW free \in BOOLEAN, NEW cond \in Conds, ClientRegisters(fd, free, cond)
      PROVE  Quiet(loop, loop')
  <2>1. PICK ct \in {"CALLBACK", "CALLCHAIN"}, left \in Chains :
          loop' = Register(loop, fd, ct, left, free, cond)
    BY <1>3, RegisterForm
  <2>2. zstk_top(loop.freestk) \in Slots
    BY <1>2, <1>3, StackPop, ZenonT(30) DEF ClientRegisters, CanRegister, Coherent
  <2> QED  BY <1>2, <2>1, <2>2 DEF Quiet, Register, Loops
<1>4. ASSUME NEW s \in live, ClientUnregisters(s)
      PROVE  Quiet(loop, loop')
  BY <1>2, <1>4 DEF ClientUnregisters, Releases, Quiet, mig_loop_unregister, IdlePollFd, Loops
<1>5. ASSUME NEW s \in live, NEW free \in BOOLEAN, ClientSetsFree(s, free)
      PROVE  Quiet(loop, loop')
  BY <1>2, <1>5 DEF ClientSetsFree, Quiet, mig_loop_setfree, Loops
<1>6. ASSUME NEW s \in live, ClientAdjusts(s)
      PROVE  Quiet(loop, loop')
  <2>1. CASE loop' = mig_loop_disable(loop, s) \/ loop' = mig_loop_enable(loop, s)
    BY <1>2, <2>1 DEF Quiet, mig_loop_disable, mig_loop_enable, Loops, PollFds
  <2>2. CASE \E cond \in Conds : loop' = mig_loop_setcond(loop, s, cond)
    BY <1>2, <2>2 DEF Quiet, mig_loop_setcond, Loops, PollFds
  <2>3. CASE \E fd \in Fds : loop' = mig_loop_setfd(loop, s, fd)
    BY <1>2, <2>3 DEF Quiet, mig_loop_setfd, Loops, PollFds
  <2>4. CASE \/ \E fp \in BOOLEAN : loop' = mig_loop_setcall(loop, s, fp)
             \/ loop' = mig_loop_setcallchain(loop, s, NullChain)
    BY <1>2, <2>4 DEF Quiet, mig_loop_setcall, mig_loop_setcallchain, Loops
  <2> QED  BY <1>6, <2>1, <2>2, <2>3, <2>4 DEF ClientAdjusts
<1>7. ASSUME NEW s \in live, NEW chain \in Chains, ClientSetsChain(s, chain)
      PROVE  Quiet(loop, loop')
  BY <1>2, <1>7 DEF ClientSetsChain, Quiet, mig_loop_setcallchain, Loops
<1>8. ASSUME ClientTerminates
      PROVE  Quiet(loop, loop')
  BY <1>2, <1>8 DEF ClientTerminates, Quiet, mig_loop_terminate, Loops
<1> QED  BY <1>3, <1>4, <1>5, <1>6, <1>7, <1>8 DEF Client

\* Pending is a finite set, and a subset of it counts no more.
LEMMA PendingFinite ==
  /\ Pending \in SUBSET Slots /\ IsFiniteSet(Pending) /\ Cardinality(Pending) \in Nat
  /\ \A T \in SUBSET Pending : Cardinality(T) \in Nat /\ Cardinality(T) <= Cardinality(Pending)
<1>1. Pending \in SUBSET Slots
  BY DEF Pending
<1>2. IsFiniteSet(Pending) /\ Cardinality(Pending) \in Nat
  BY <1>1, HeldFinite
<1>3. ASSUME NEW T \in SUBSET Pending
      PROVE  Cardinality(T) \in Nat /\ Cardinality(T) <= Cardinality(Pending)
  BY <1>1, <1>2, <1>3, HeldFinite, FS_Subset
<1> QED  BY <1>1, <1>2, <1>3

\* The step that dispatches or ends entry idx takes it out of Pending.
LEMMA PendingTake ==
  ASSUME IInv, Scanning, Wanted(loop, idx)
  PROVE  /\ idx \in Pending
         /\ Cardinality(Pending \ {idx}) = Cardinality(Pending) - 1
<1>1. idx \in Slots /\ pc = "scan"
  BY MigLoopAssumption DEF IInv, TypeOK, Scanning, Slots
<1>2. idx \in Pending
  BY <1>1, MigLoopAssumption DEF Pending, Wanted, Slots
<1> QED  BY <1>2, PendingFinite, FS_RemoveElement

\* Every step keeps the count of what is pending.
LEMMA StepBudget == IInv /\ BudgetInv /\ [Next]_vars => BudgetInv'
<1> SUFFICES ASSUME IInv, BudgetInv, [Next]_vars PROVE BudgetInv'
  OBVIOUS
<1>1. rfds \in Nat /\ hfds \in Nat /\ idx \in Nat /\ NSlots \in Nat /\ Slots \subseteq Nat
  BY MigLoopAssumption DEF IInv, TypeOK, Slots
<1>2. ASSUME pc \in {"scan", "call"}, Pending' \subseteq Pending, rfds' = rfds, hfds' = hfds
      PROVE  BudgetInv'
  <2>1. Cardinality(Pending') \in Nat /\ Cardinality(Pending') <= Cardinality(Pending)
    BY <1>2, PendingFinite
  <2>2. Cardinality(Pending) <= rfds - hfds
    BY <1>2 DEF BudgetInv
  <2> QED  BY <1>1, <1>2, <2>1, <2>2, PendingFinite DEF BudgetInv
<1>3. ASSUME Scanning, Wanted(loop, idx), Pending' = Pending \ {idx}, rfds' = rfds, hfds' = hfds + 1
      PROVE  BudgetInv'
  <2>1. Cardinality(Pending') = Cardinality(Pending) - 1
    BY <1>3, PendingTake
  <2>2. Cardinality(Pending) <= rfds - hfds
    BY <1>3 DEF BudgetInv, Scanning
  <2> QED  BY <1>1, <1>3, <2>1, <2>2, PendingFinite DEF BudgetInv
<1>4. CASE Client
  <2>1. Quiet(loop, loop') /\ UNCHANGED <<pc, rfds, hfds, idx, kind>>
    BY <1>4, ClientQuiet, ClientStep
  <2>2. CASE pc = "call"
    BY <1>2, <2>1, <2>2 DEF Pending, Quiet
  <2>3. CASE pc \notin {"scan", "call"}
    BY <2>1, <2>3 DEF BudgetInv
  <2>4. pc # "scan"
    BY <1>4 DEF Client, ClientRegisters, ClientUnregisters, ClientSetsFree, ClientAdjusts,
                ClientSetsChain, ClientTerminates, ClientRuns
  <2> QED  BY <2>2, <2>3, <2>4
<1>5. CASE Start \/ LoopTop \/ EnterPoll \/ PollFails \/ ScanAstray \/ ScanEnd \/ Destroy
  BY <1>5 DEF Start, LoopTop, EnterPoll, PollFails, ScanAstray, ScanEnd, Destroy, BudgetInv
<1>6. CASE PollReturns
  <2>1. PICK R \in PollReports(loop) : /\ loop' = WithRevents(loop, R)
                                       /\ rfds' = Cardinality(Reported(R))
    BY <1>6 DEF PollReturns
  <2>2. hfds' = 0 /\ idx' = 0 /\ pc' = "scan"
    BY <1>6 DEF PollReturns
  <2>3. \A s \in Slots : loop'.entfds[s].revents = R[s]
    BY <2>1 DEF WithRevents, IInv, TypeOK, Loops, PollFds
  <2>4. Pending' = Reported(R)
    BY <1>1, <2>2, <2>3 DEF Pending, Reported
  <2> QED  BY <2>1, <2>2, <2>4, ReportedCount DEF BudgetInv
<1>7. CASE ScanSkip
  BY <1>1, <1>2, <1>7 DEF ScanSkip, Scanning, Pending
<1>8. CASE ScanDispatch \/ ScanNoCall
  <2>1. Pending' = Pending \ {idx}
    BY <1>1, <1>8 DEF ScanDispatch, ScanNoCall, Scanning, Pending
  <2> QED  BY <1>3, <1>8, <2>1 DEF ScanDispatch, ScanNoCall
<1>9. CASE ScanSentinel
  <2>1. pc = "scan" /\ pc' = "scan" /\ idx' = idx + 1
    BY <1>9 DEF ScanSentinel, Scanning
  <2>2. \A s \in Slots \ {idx} : loop'.entfds[s] = loop.entfds[s]
    BY <1>9 DEF ScanSentinel, Releases, mig_loop_unregister, IInv, TypeOK, Loops
  <2>3. Pending' = Pending \ {idx}
    BY <1>1, <2>1, <2>2 DEF Pending
  <2> QED  BY <1>3, <1>9, <2>3 DEF ScanSentinel
<1>10. ASSUME NEW proceed \in BOOLEAN, CallReturns(proceed)
       PROVE  BudgetInv'
  <2>1. loop'.entfds = loop.entfds
    BY <1>10 DEF CallReturns, AdvanceChain, IInv, TypeOK, Loops
  <2>2. Pending' = Pending
    BY <1>1, <1>10, <2>1 DEF CallReturns, Pending
  <2> QED  BY <1>2, <1>10, <2>2 DEF CallReturns
<1>11. CASE Sigint
  <2>1. loop'.entfds = loop.entfds /\ UNCHANGED scanvars
    BY <1>11 DEF Sigint, mig_loop_terminate, IInv, TypeOK, Loops
  <2>2. CASE pc = "poll"
    BY <1>11, <2>2 DEF Sigint, BudgetInv
  <2>3. CASE pc # "poll"
    BY <1>11, <2>1, <2>3 DEF Sigint, BudgetInv, Pending, scanvars
  <2> QED  BY <2>2, <2>3
<1>12. CASE UNCHANGED vars
  BY <1>12 DEF vars, scanvars, BudgetInv, Pending
<1> QED  BY <1>4, <1>5, <1>6, <1>7, <1>8, <1>9, <1>10, <1>11, <1>12 DEF Next, Exec, Scan, Ended

\* A scan that stops before the end of the array has nothing left to deal with.
LEMMA ScanEndsEmpty ==
  ASSUME IInv, BudgetInv, ScanEnd PROVE Pending = {}
<1>1. CASE ~(idx < NSlots)
  BY <1>1, MigLoopAssumption DEF Pending, ScanEnd, Slots, IInv, TypeOK
<1>2. CASE ~(hfds < rfds)
  <2>1. Cardinality(Pending) = 0
    BY <1>2, PendingFinite DEF BudgetInv, ScanEnd, IInv, TypeOK
  <2> QED  BY <2>1, PendingFinite, FS_EmptySet
<1> QED  BY <1>1, <1>2 DEF ScanEnd

-----------------------------------------------------------------------------
(* The theorems. *)

\* Every reachable state satisfies the inductive invariant and the budget.
THEOREM Invariance == Spec => [](IInv /\ BudgetInv)
<1>1. Init => IInv /\ BudgetInv
  BY InitIInv DEF Init, BudgetInv
<1>2. (IInv /\ BudgetInv) /\ [Next]_vars => (IInv /\ BudgetInv)'
  BY StepIInv, StepBudget
<1> QED  BY <1>1, <1>2, PTL DEF Spec

\* The event loop's state keeps its types: no count of a scan leaves the array, and
\* no pointer into a chain is more than one past its sentinel.
THEOREM TypeCorrect == Spec => []TypeOK
<1>1. IInv => TypeOK
  BY DEF IInv
<1> QED  BY <1>1, Invariance, PTL

\* The free stack (mig_zstk) is exact whatever clients do: no slot is handed out
\* twice and none is lost.
THEOREM FreeStackCorrect == Spec => []FreeStackExact
<1>1. IInv => FreeStackExact
  BY DEF IInv, Coherent, StackOK, Distinct, Elems, FreeStackExact
<1> QED  BY <1>1, Invariance, PTL

\* A free slot is never polled, holds nothing pending and no free callback.
THEOREM FreeSlotsCorrect == Spec => []FreeSlotsInert
<1>1. IInv => FreeSlotsInert
  BY DEF IInv, Coherent, EntriesOK, FreeSlotsInert, CallocEnt, MIG_ENT_EMPTY
<1> QED  BY <1>1, Invariance, PTL

\* What is polled for a held slot is its own descriptor or nothing.
THEOREM PolledFdCorrect == Spec => []PolledFdAgrees
<1>1. IInv => PolledFdAgrees
  <2> SUFFICES ASSUME IInv, NEW s \in live PROVE loop.entfds[s].fd \in {-1, loop.entarr[s].fd}
    BY DEF PolledFdAgrees
  <2> QED  BY DEF IInv, Coherent, EntriesOK
<1> QED  BY <1>1, Invariance, PTL

\* Every free callback runs exactly once, by mig_loop_unregister or by
\* mig_loop_destroy.
THEOREM FreedOnceCorrect == Spec => []FreedExactlyOnce
<1>1. IInv => FreedExactlyOnce
  BY DEF IInv, FreedExactlyOnce
<1> QED  BY <1>1, Invariance, PTL

\* Callback pointers are not advanced as chains; and whatever chains clients use, of
\* whatever lengths, a pointer passes the sentinel only where the function that ran
\* gave its own slot a chain of the sentinel alone and returned true.
THEOREM CallUnionCorrect == Spec => []CallUnionIntact
<1>1. IInv => CallUnionIntact
  <2> SUFFICES ASSUME IInv, NEW s \in live
               PROVE  /\ loop.entarr[s].calltype = "CALLBACK" => loop.entarr[s].left = 0
                      /\ PastSentinel(s) => s \in switched
    BY DEF CallUnionIntact
  <2> QED  BY DEF IInv, Coherent, EntriesOK, PastOnlySwitched
<1> QED  BY <1>1, Invariance, PTL

\* The early exit of the scan in mig_loop_exec never leaves an event behind.
THEOREM ScanBudgetCorrect == Spec => []ScanBudget
<1>1. BudgetInv => ScanBudget
  BY DEF BudgetInv, ScanBudget
<1> QED  BY <1>1, Invariance, PTL

\* mig_loop_exec goes back to poll with everything reported dealt with.
THEOREM NothingLeftBehindCorrect == Spec => NothingLeftBehind
<1>1. IInv /\ BudgetInv /\ [Next]_vars => [pc = "scan" /\ pc' = "top" => Pending = {}]_vars
  <2> SUFFICES ASSUME IInv, BudgetInv, Next, pc = "scan", pc' = "top" PROVE Pending = {}
    OBVIOUS
  <2>1. ScanEnd
    BY DEF Next, Client, ClientRegisters, ClientUnregisters, ClientSetsFree, ClientAdjusts, ClientTerminates,
           ClientSetsChain, ClientRuns, Start, Exec, LoopTop, EnterPoll, PollReturns, PollFails, Scan,
           ScanSkip, ScanDispatch, ScanNoCall, ScanSentinel, ScanAstray, CallReturns, Sigint, Destroy,
           Ended
  <2> QED  BY <2>1, ScanEndsEmpty
<1> QED  BY <1>1, Invariance, PTL DEF Spec, NothingLeftBehind

-----------------------------------------------------------------------------
(* The event loop implements EventDelivery: the mapping reads the            *)
(* registrations off the held entries and the reports not dealt with off the *)
(* scan position (Pending).                                                  *)

absreg == [s \in Slots |-> IF s \in live THEN loop.entarr[s].fd ELSE -2]

\* A step that keeps the registrations and what is pending is a stutter.
LEMMA AbsStutter ==
  ASSUME absreg' = absreg, Pending' = Pending
  PROVE  [Promise!Next]_<<absreg, Pending>>
OBVIOUS

\* The mapping only reads descriptors of held slots.
LEMMA AbsregKept ==
  ASSUME live' = live, \A s \in live : loop'.entarr[s].fd = loop.entarr[s].fd
  PROVE  absreg' = absreg
BY DEF absreg

\* Client code maps to registering, releasing, moving a registration, or nothing.
LEMMA ClientRefines ==
  ASSUME IInv, Client PROVE [Promise!Next]_<<absreg, Pending>>
<1>1. ClientRuns
  BY DEF Client, ClientRegisters, ClientUnregisters, ClientSetsFree, ClientAdjusts, ClientSetsChain,
         ClientTerminates
<1>2. Coherent(loop, live, owed) /\ loop \in Loops /\ live \in SUBSET Slots
  BY <1>1 DEF IInv, ClientRuns, Coherent
<1>3. UNCHANGED <<pc, idx>>
  BY ClientStep
<1>held. ASSUME NEW s \in live PROVE s \in Slots /\ absreg[s] = loop.entarr[s].fd /\ absreg[s] # -2
  <2>1. s \in Slots /\ loop.entarr[s] \in Entries
    BY <1>2, <1>held DEF Loops
  <2>2. loop.entarr[s].fd \in Fds \cup {0}
    BY <2>1 DEF Entries
  <2>3. loop.entarr[s].fd # -2
    BY <2>2, MigLoopAssumption
  <2> QED  BY <1>held, <2>1, <2>3 DEF absreg
<1>4. ASSUME \A s \in Slots : loop'.entfds[s].revents = loop.entfds[s].revents
      PROVE  Pending' = Pending
  BY <1>3, <1>4 DEF Pending
<1>5. ASSUME NEW fd \in Fds, NEW free \in BOOLEAN, NEW cond \in Conds, ClientRegisters(fd, free, cond)
      PROVE  [Promise!Next]_<<absreg, Pending>>
  <2> DEFINE s == zstk_top(loop.freestk)
  <2>1. PICK ct \in {"CALLBACK", "CALLCHAIN"}, left \in Chains :
          loop' = Register(loop, fd, ct, left, free, cond)
    BY <1>5, RegisterForm
  <2>2. s \in Slots \ live /\ live' = live \cup {s}
    BY <1>2, <1>5, StackPop DEF ClientRegisters, CanRegister, Coherent
  <2>3. /\ \A t \in Slots \ {s} : loop'.entarr[t] = loop.entarr[t] /\ loop'.entfds[t] = loop.entfds[t]
        /\ loop'.entarr[s].fd = fd /\ loop'.entfds[s].revents = {}
    BY <1>2, <2>1, <2>2 DEF Register, Loops
  <2>4. loop.entfds[s].revents = {}
    BY <1>2, <2>2 DEF Coherent, EntriesOK, IdlePollFd
  <2>5. Pending' = Pending
    BY <1>4, <2>3, <2>4
  <2>6. s \notin Pending
    BY <2>4 DEF Pending
  <2>7. absreg[s] = -2 /\ absreg' = [absreg EXCEPT ![s] = fd]
    BY <2>2, <2>3 DEF absreg
  <2>8. Promise!Acquire(s, fd)
    BY <2>5, <2>6, <2>7 DEF Promise!Acquire, Promise!Nobody, absreg
  <2> QED  BY <1>5, <2>2, <2>8 DEF Promise!Next, Promise!Slots, Slots
<1>6. ASSUME NEW s \in live, ClientUnregisters(s)
      PROVE  [Promise!Next]_<<absreg, Pending>>
  <2>1. CASE loop.entarr[s].fd = -1
    BY <1>3, <1>6, <2>1 DEF ClientUnregisters, Releases, mig_loop_unregister, absreg, Pending
  <2>2. CASE loop.entarr[s].fd # -1
    <3>1. /\ live' = live \ {s}
          /\ \A t \in Slots \ {s} : loop'.entarr[t] = loop.entarr[t] /\ loop'.entfds[t] = loop.entfds[t]
          /\ loop'.entfds[s].revents = {}
      BY <1>2, <1>6, <2>2 DEF ClientUnregisters, Releases, mig_loop_unregister, IdlePollFd, Loops
    <3>2. Pending' = Pending \ {s}
      BY <1>3, <3>1 DEF Pending
    <3>3. absreg[s] # -2 /\ absreg' = [absreg EXCEPT ![s] = -2]
      BY <1>held, <3>1 DEF absreg
    <3>4. Promise!Release(s)
      BY <3>2, <3>3 DEF Promise!Release, Promise!Nobody, absreg
    <3> QED  BY <1>2, <3>4 DEF Promise!Next, Promise!Slots, Slots
  <2> QED  BY <2>1, <2>2
<1>7. ASSUME NEW s \in live, NEW free \in BOOLEAN, ClientSetsFree(s, free)
      PROVE  [Promise!Next]_<<absreg, Pending>>
  <2>1. /\ live' = live /\ loop'.entfds = loop.entfds
        /\ \A t \in Slots : loop'.entarr[t].fd = loop.entarr[t].fd
    BY <1>2, <1>7 DEF ClientSetsFree, mig_loop_setfree, Loops, Entries
  <2> QED  BY <1>2, <1>4, <2>1, AbsregKept, AbsStutter
<1>8. ASSUME NEW s \in live, NEW fd \in Fds, ClientAdjusts(s), loop' = mig_loop_setfd(loop, s, fd)
      PROVE  [Promise!Next]_<<absreg, Pending>>
  <2>1. s \in Slots /\ loop.entarr[s] \in Entries /\ loop.entfds[s] \in PollFds
    BY <1>2, <1>held DEF Loops
  <2>2. /\ loop'.entarr = [loop.entarr EXCEPT ![s].fd = fd]
        /\ loop'.entfds = [loop.entfds EXCEPT ![s].fd = IF @ # -1 THEN fd ELSE @]
        /\ live' = live
    BY <1>2, <1>8 DEF ClientAdjusts, ghosts, mig_loop_setfd, Loops
  <2>3. /\ \A t \in Slots \ {s} : loop'.entarr[t] = loop.entarr[t]
        /\ loop'.entarr[s].fd = fd
    BY <1>2, <2>1, <2>2 DEF Loops, Entries
  <2>4. \A t \in Slots : loop'.entfds[t].revents = loop.entfds[t].revents
    BY <1>2, <2>1, <2>2 DEF Loops, PollFds
  <2>5. absreg' = [absreg EXCEPT ![s] = fd]
    BY <2>1, <2>2, <2>3 DEF absreg
  <2>6. Promise!Rebind(s, fd)
    BY <1>4, <1>held, <2>4, <2>5 DEF Promise!Rebind, Promise!Nobody, absreg
  <2> QED  BY <1>8, <2>1, <2>6 DEF Promise!Next, Promise!Slots, Slots
<1>9. ASSUME NEW s \in live, ClientAdjusts(s), ~\E fd \in Fds : loop' = mig_loop_setfd(loop, s, fd)
      PROVE  [Promise!Next]_<<absreg, Pending>>
  <2> DEFINE SameFds     == \A t \in Slots : loop'.entarr[t].fd = loop.entarr[t].fd
             SameRevents == \A t \in Slots : loop'.entfds[t].revents = loop.entfds[t].revents
  <2>1. s \in Slots /\ loop.entarr[s] \in Entries /\ loop.entfds[s] \in PollFds
    BY <1>2, <1>held DEF Loops
  <2>2. ASSUME NEW fd, loop' = [loop EXCEPT !.entfds[s].fd = fd]
        PROVE  SameFds /\ SameRevents
    BY <1>2, <2>1, <2>2 DEF Loops, PollFds
  <2>3. ASSUME NEW cond, loop' = mig_loop_setcond(loop, s, cond)
        PROVE  SameFds /\ SameRevents
    BY <1>2, <2>1, <2>3 DEF mig_loop_setcond, Loops, PollFds
  <2>4. ASSUME NEW ct, NEW left, loop' = [loop EXCEPT !.entarr[s].calltype = ct, !.entarr[s].left = left]
        PROVE  SameFds /\ SameRevents
    BY <1>2, <2>1, <2>4 DEF Loops, Entries
  <2>5. ASSUME NEW ct, loop' = [loop EXCEPT !.entarr[s].calltype = ct]
        PROVE  SameFds /\ SameRevents
    BY <1>2, <2>1, <2>5 DEF Loops, Entries
  <2>6. SameFds /\ SameRevents
    BY <1>9, <2>2, <2>3, <2>4, <2>5 DEF ClientAdjusts, mig_loop_disable, mig_loop_enable,
                                       mig_loop_setcall, mig_loop_setcallchain
  <2>7. live' = live
    BY <1>9 DEF ClientAdjusts, ghosts
  <2> QED  BY <1>2, <1>4, <2>6, <2>7, AbsregKept, AbsStutter
<1>10. ASSUME NEW s \in live, NEW chain \in Chains, ClientSetsChain(s, chain)
       PROVE  [Promise!Next]_<<absreg, Pending>>
  <2>1. live' = live /\ loop' = mig_loop_setcallchain(loop, s, chain)
    BY <1>10 DEF ClientSetsChain, ghosts
  <2>2. /\ loop'.entfds = loop.entfds
        /\ \A t \in Slots : loop'.entarr[t].fd = loop.entarr[t].fd
    BY <1>2, <2>1 DEF mig_loop_setcallchain, Loops, Entries
  <2> QED  BY <1>2, <1>4, <2>1, <2>2, AbsregKept, AbsStutter
<1>11. ASSUME ClientTerminates
       PROVE  [Promise!Next]_<<absreg, Pending>>
  <2>1. live' = live /\ loop'.entarr = loop.entarr /\ loop'.entfds = loop.entfds
    BY <1>2, <1>11 DEF ClientTerminates, ghosts, mig_loop_terminate, Loops
  <2> QED  BY <1>4, <2>1, AbsregKept, AbsStutter
<1> QED  BY <1>5, <1>6, <1>7, <1>8, <1>9, <1>10, <1>11 DEF Client

\* Every step of the program is a step of EventDelivery or a stutter.
LEMMA StepRefines ==
  IInv /\ BudgetInv /\ [Next]_vars => [Promise!Next]_<<absreg, Pending>>
<1> SUFFICES ASSUME IInv, BudgetInv, [Next]_vars PROVE [Promise!Next]_<<absreg, Pending>>
  OBVIOUS
<1>1. /\ loop \in Loops /\ live \in SUBSET Slots /\ Slots \subseteq Nat
      /\ rfds \in Nat /\ hfds \in Nat /\ idx \in Nat /\ NSlots \in Nat
  BY MigLoopAssumption DEF IInv, TypeOK, Slots
<1>2. CASE Client
  BY <1>2, ClientRefines
<1>3. CASE Start \/ LoopTop \/ EnterPoll \/ PollFails
  <2>1. Pending = {} /\ Pending' = {}
    BY <1>3 DEF Start, LoopTop, EnterPoll, PollFails, Pending
  <2> QED  BY <1>3, <2>1 DEF Start, LoopTop, EnterPoll, PollFails, absreg, ghosts
<1>4. CASE PollReturns
  <2>1. Coherent(loop, live, owed) /\ pc = "poll" /\ pc' = "scan" /\ idx' = 0 /\ live' = live
    BY <1>4 DEF PollReturns, IInv, ghosts
  <2>2. PICK R \in PollReports(loop) : loop' = WithRevents(loop, R)
    BY <1>4 DEF PollReturns
  <2>3. loop'.entarr = loop.entarr /\ \A s \in Slots : loop'.entfds[s].revents = R[s]
    BY <1>1, <2>2 DEF WithRevents, Loops, PollFds
  <2>4. Pending = {} /\ Pending' = Reported(R) /\ absreg' = absreg
    BY <1>1, <2>1, <2>3 DEF Pending, Reported, absreg
  <2>5. \A s \in Reported(R) : s \in Slots /\ absreg[s] \notin {-2, -1}
    <3> SUFFICES ASSUME NEW s \in Reported(R) PROVE s \in Slots /\ absreg[s] \notin {-2, -1}
      OBVIOUS
    <3>1. s \in Slots /\ ~(loop.entfds[s].fd < 0)
      BY <2>2 DEF PollReports, Reported
    <3>2. s \in live
      BY <2>1, <3>1 DEF Coherent, EntriesOK, IdlePollFd
    <3>3. loop.entfds[s].fd \in {-1, loop.entarr[s].fd}
      BY <2>1, <3>2 DEF Coherent, EntriesOK
    <3> QED  BY <3>1, <3>2, <3>3 DEF absreg
  <2>6. Promise!Report(Reported(R))
    BY <2>4, <2>5 DEF Promise!Report, Promise!Nobody, absreg
  <2> QED  BY <2>5, <2>6 DEF Promise!Next, Promise!Slots, Slots
<1>5. ASSUME Scanning, loop.entfds[idx].revents # {}
      PROVE  idx \in live /\ idx \in Pending /\ absreg[idx] # -2
  <2>1. idx \in Slots /\ Coherent(loop, live, owed) /\ pc = "scan"
    BY <1>1, <1>5 DEF Scanning, Slots, IInv
  <2>2. idx \in live
    BY <1>5, <2>1 DEF Coherent, EntriesOK, IdlePollFd
  <2>3. loop.entarr[idx].fd \in Fds \cup {0}
    BY <1>1, <2>1 DEF Loops, Entries
  <2>4. absreg[idx] # -2
    BY <2>1, <2>2, <2>3, MigLoopAssumption DEF absreg
  <2>5. idx \in Pending
    BY <1>1, <1>5, <2>1 DEF Pending
  <2> QED  BY <2>2, <2>4, <2>5
<1>6. ASSUME Scanning, loop.entfds[idx].revents # {}, absreg' = absreg, Pending' = Pending \ {idx}
      PROVE  [Promise!Next]_<<absreg, Pending>>
  <2>1. Promise!Consume(idx)
    BY <1>5, <1>6 DEF Promise!Consume, Promise!Nobody, absreg
  <2> QED  BY <1>1, <1>5, <1>6, <2>1 DEF Promise!Next, Promise!Slots, Slots
<1>7. CASE ScanSkip
  <2>1. Scanning /\ absreg' = absreg /\ Pending' = Pending \ {idx}
    BY <1>1, <1>7 DEF ScanSkip, Scanning, absreg, ghosts, Pending
  <2>2. CASE loop.entfds[idx].revents # {}
    BY <1>6, <2>1, <2>2
  <2>3. CASE loop.entfds[idx].revents = {}
    <3>1. Pending' = Pending
      BY <2>1, <2>3 DEF Pending, Scanning
    <3> QED  BY <2>1, <3>1
  <2> QED  BY <2>2, <2>3
<1>8. CASE ScanDispatch \/ ScanNoCall
  <2>1. Scanning /\ loop.entfds[idx].revents # {} /\ absreg' = absreg
    BY <1>8 DEF ScanDispatch, ScanNoCall, Wanted, absreg, ghosts
  <2>2. Pending' = Pending \ {idx}
    BY <1>1, <1>8 DEF ScanDispatch, ScanNoCall, Scanning, Pending
  <2> QED  BY <1>6, <2>1, <2>2
<1>9. CASE ScanSentinel
  <2>1. /\ Scanning /\ loop.entfds[idx].revents # {} /\ pc = "scan" /\ pc' = "scan"
        /\ idx' = idx + 1 /\ idx \in Slots
    BY <1>1, <1>9 DEF ScanSentinel, Wanted, Scanning, Slots
  <2>2. \A s \in Slots \ {idx} : loop'.entfds[s] = loop.entfds[s] /\ loop'.entarr[s] = loop.entarr[s]
    BY <1>1, <1>9 DEF ScanSentinel, Releases, mig_loop_unregister, Loops
  <2>3. Pending' = Pending \ {idx}
    BY <1>1, <2>1, <2>2 DEF Pending
  <2>4. CASE loop.entarr[idx].fd = -1
    <3>1. absreg' = absreg
      BY <1>9, <2>4 DEF ScanSentinel, Releases, mig_loop_unregister, absreg
    <3> QED  BY <1>6, <2>1, <2>3, <3>1
  <2>5. CASE loop.entarr[idx].fd # -1
    <3>1. live' = live \ {idx}
      BY <1>9, <2>5 DEF ScanSentinel, Releases
    <3>2. absreg' = [absreg EXCEPT ![idx] = -2]
      BY <2>1, <2>2, <3>1 DEF absreg
    <3>3. PICK s \in Slots : s = idx
      BY <2>1
    <3>4. Promise!ConsumeAndRelease(s)
      BY <1>5, <2>1, <2>3, <3>2, <3>3 DEF Promise!ConsumeAndRelease, Promise!Nobody, absreg
    <3> QED  BY <3>4 DEF Promise!Next, Promise!Slots, Slots
  <2> QED  BY <2>4, <2>5
<1>10. CASE ScanEnd
  <2>1. Pending = {} /\ Pending' = {}
    BY <1>10, ScanEndsEmpty DEF ScanEnd, Pending
  <2> QED  BY <1>10, <2>1 DEF ScanEnd, absreg, ghosts
<1>15. CASE ScanAstray
  <2>1. Pending' = Pending /\ absreg' = absreg
    BY <1>15 DEF ScanAstray, Scanning, Pending, absreg, ghosts, scanvars
  <2> QED  BY <2>1, AbsStutter
<1>11. ASSUME NEW proceed \in BOOLEAN, CallReturns(proceed)
       PROVE  [Promise!Next]_<<absreg, Pending>>
  <2>1. /\ live' = live /\ loop'.entfds = loop.entfds
        /\ \A s \in Slots : loop'.entarr[s].fd = loop.entarr[s].fd
    BY <1>1, <1>11 DEF CallReturns, AdvanceChain, ghosts, Loops, Entries
  <2>2. Pending' = Pending
    BY <1>1, <1>11, <2>1 DEF CallReturns, Pending
  <2> QED  BY <1>1, <2>1, <2>2, AbsregKept, AbsStutter
<1>12. CASE Sigint
  <2>1. loop'.entfds = loop.entfds /\ loop'.entarr = loop.entarr /\ UNCHANGED <<scanvars, live>>
    BY <1>1, <1>12 DEF Sigint, mig_loop_terminate, Loops, ghosts
  <2>2. Pending' = Pending
    BY <1>12, <2>1 DEF Sigint, Pending, scanvars
  <2> QED  BY <2>1, <2>2, AbsregKept, AbsStutter
<1>13. CASE Destroy
  <2>1. Pending = {} /\ Pending' = {} /\ live' = {}
    BY <1>13 DEF Destroy, Pending
  <2>2. Promise!Destroy
    BY <2>1 DEF Promise!Destroy, Promise!Nobody, Promise!Slots, absreg, Slots
  <2> QED  BY <2>2 DEF Promise!Next
<1>14. CASE UNCHANGED vars
  BY <1>14 DEF vars, scanvars, ghosts, Pending, absreg
<1> QED  BY <1>2, <1>3, <1>4, <1>7, <1>8, <1>9, <1>10, <1>11, <1>12, <1>13, <1>14, <1>15
         DEF Next, Exec, Scan, Ended

\* The event loop delivers every report of the kernel to the registration it was
\* made for, once, and before it polls again.
THEOREM DeliversCorrect == Spec => Delivers
<1>1. Init => Promise!Init
  BY DEF Init, Promise!Init, Promise!Slots, Promise!Nobody, Slots, Pending
<1>2. IInv /\ BudgetInv /\ [Next]_vars => [Promise!Next]_(Promise!absvars)
  BY StepRefines DEF Promise!absvars, absreg
<1> QED  BY <1>1, <1>2, Invariance, PTL DEF Spec, Delivers, Promise!Spec
=============================================================================
