------------------------------ MODULE MigLoop ------------------------------
(***************************************************************************)
(* The midnight event loop: src/mig_core.c and src/mig_core.h.             *)
(*                                                                         *)
(* The first half gives every function of the API that changes the loop    *)
(* as an operator from the old struct mig_loop to the new one, so that     *)
(* modules of programs that run on the loop can use them.  The second half *)
(* is mig_loop_exec, one action per step, driven by the kernel (poll and   *)
(* SIGINT) and by callbacks that may make any API call in any order.       *)
(*                                                                         *)
(* Abstractions: the data pointer of an entry is left out; a pointer into  *)
(* a chain is the number of functions left before the sentinel, and chains *)
(* of different lengths may follow each other in one entry; the free       *)
(* callback is a flag, and it does not call the loop.                      *)
(***************************************************************************)
EXTENDS Integers, Sequences, FiniteSets

CONSTANTS
  NSlots,     \* maxfds of mig_loop_create
  Fds,        \* what a client passes as a descriptor; -1 is a failed open
  Conds,      \* the conditions clients wait for
  ChainLen    \* functions of the longest call chain before MIG_CALLCHAIN_SENTINEL

CondBits == {"IN", "OUT", "ERR"}

ASSUME MigLoopAssumption ==
  /\ NSlots \in Nat
  /\ Fds \subseteq Nat \cup {-1}
  /\ Conds \subseteq SUBSET CondBits
  /\ ChainLen \in Nat

VARIABLES
  loop,       \* struct mig_loop
  pc,         \* where the program is: before, in or after mig_loop_exec
  rfds,       \* what poll returned
  hfds,       \* how many ready entries this scan has dispatched
  idx,        \* the entry this scan has reached
  kind,       \* the calltype the running callback was dispatched by
  switched,   \* history: the slots that a chain's function gave another chain
              \* when it ran for them last
  live,       \* history: the slots clients hold
  owed,       \* history: the held slots whose free callback has yet to run
  misfreed    \* history: a free callback ran that was not owed

scanvars == <<rfds, hfds, idx, kind, switched>>
ghosts   == <<live, owed, misfreed>>
vars     == <<loop, pc, scanvars, ghosts>>

Slots == 0 .. NSlots - 1

-----------------------------------------------------------------------------
(* The data structure and its API. *)

CallTypes == {"EMPTY", "NULL", "CALLBACK", "CALLCHAIN"}

\* Chains by the number of their functions; NullChain is the null pointer.
Chains    == 0 .. ChainLen
NullChain == -1

PollFds == [fd : Fds \cup {-1, 0}, events : Conds \cup {{}}, revents : SUBSET CondBits]
Entries == [fd : Fds \cup {0}, calltype : CallTypes, left : -1 .. ChainLen, free : BOOLEAN]
Loops   == [entfds : [Slots -> PollFds], entarr : [Slots -> Entries],
            freestk : Seq(Slots), terminate : BOOLEAN]

\* What calloc leaves, and what the initializer of MIG_ENT_EMPTY really says:
\* its -1 is the calltype, and the descriptor is 0.
CallocEnt     == [fd |-> 0, calltype |-> "NULL", left |-> 0, free |-> FALSE]
MIG_ENT_EMPTY == [fd |-> 0, calltype |-> "EMPTY", left |-> 0, free |-> FALSE]
IdlePollFd    == [fd |-> -1, events |-> {}, revents |-> {}]

mig_loop_create ==
  [entfds    |-> [s \in Slots |-> IdlePollFd],
   entarr    |-> [s \in Slots |-> CallocEnt],
   freestk   |-> [n \in 1 .. NSlots |-> NSlots - n],
   terminate |-> FALSE]

\* mig_zstk_push, pop and isfull; the top of the stack is the end of the sequence.
\* Seeded fault: the push takes a stack with one place left for a full one.
PushStopsShort(stk, v) == IF Len(stk) < NSlots - 1 THEN Append(stk, v) ELSE stk
zstk_push(stk, v) == IF Len(stk) < NSlots THEN Append(stk, v) ELSE stk
zstk_top(stk)     == stk[Len(stk)]
zstk_rest(stk)    == SubSeq(stk, 1, Len(stk) - 1)
zstk_isfull(stk)  == Len(stk) = NSlots

\* Both ways to register; a full loop makes them return -1 and change nothing.
CanRegister(lp) == Len(lp.freestk) > 0
Register(lp, fd, calltype, left, free, cond) ==
  LET s == zstk_top(lp.freestk)
  IN  [lp EXCEPT
         !.entarr[s] = [fd |-> fd, calltype |-> calltype, left |-> left, free |-> free],
         !.entfds[s] = [fd |-> fd, events |-> cond, revents |-> {}],
         !.freestk   = zstk_rest(@)]
mig_loop_register(lp, fd, free, cond) == Register(lp, fd, "CALLBACK", 0, free, cond)
mig_loop_register_chain(lp, fd, chain, free, cond) ==
  Register(lp, fd, "CALLCHAIN", chain, free, cond)

\* The slots whose free callback mig_loop_unregister runs: one or none.
\* Seeded fault: the free callback of an entry is left to mig_loop_destroy.
FreesNobody(lp, s) == {}
FreedBy(lp, s) == {t \in {s} : lp.entarr[t].fd # -1 /\ lp.entarr[t].free}
\* Seeded fault: the pollfd stops being polled, and keeps events and revents.
UnregisterKeepsRevents(lp, s) ==
  IF lp.entarr[s].fd = -1 THEN lp
  ELSE [lp EXCEPT !.entarr[s] = MIG_ENT_EMPTY,
                  !.entfds[s].fd = -1,
                  !.freestk = zstk_push(@, s)]
mig_loop_unregister(lp, s) ==
  IF lp.entarr[s].fd = -1 THEN lp
  ELSE [lp EXCEPT !.entarr[s] = MIG_ENT_EMPTY,
                  !.entfds[s] = IdlePollFd,
                  !.freestk   = zstk_push(@, s)]

\* The slots whose free callback mig_loop_destroy runs.
FreedByDestroy(lp) == {s \in Slots : lp.entarr[s].free}

mig_loop_terminate(lp)        == [lp EXCEPT !.terminate = TRUE]
mig_loop_disable(lp, s)       == [lp EXCEPT !.entfds[s].fd = -1]
mig_loop_enable(lp, s)        == [lp EXCEPT !.entfds[s].fd = lp.entarr[s].fd]
mig_loop_setcond(lp, s, cond) == [lp EXCEPT !.entfds[s].events = cond]
mig_loop_setfree(lp, s, free) == [lp EXCEPT !.entarr[s].free = free]
\* Seeded fault: the pollfd goes on polling the old descriptor.
SetfdOfEntryOnly(lp, s, fd) == [lp EXCEPT !.entarr[s].fd = fd]
mig_loop_setfd(lp, s, fd) ==
  [lp EXCEPT !.entarr[s].fd = fd,
             !.entfds[s].fd = IF @ # -1 THEN fd ELSE @]

\* A null pointer leaves the union alone; any other overwrites it.
mig_loop_setcall(lp, s, fp) ==
  IF fp THEN [lp EXCEPT !.entarr[s].calltype = "CALLBACK", !.entarr[s].left = 0]
        ELSE [lp EXCEPT !.entarr[s].calltype = "NULL"]
mig_loop_setcallchain(lp, s, chain) ==
  IF chain # NullChain
  THEN [lp EXCEPT !.entarr[s].calltype = "CALLCHAIN", !.entarr[s].left = chain]
  ELSE [lp EXCEPT !.entarr[s].calltype = "NULL"]

\* Seeded fault: the union is advanced whatever it holds by now.
AdvanceAnything(lp, s) == [lp EXCEPT !.entarr[s].left = @ - 1]
\* After a chain function returned true: on to the next one, if the entry is a
\* chain still.  It need not be the chain that function belongs to.
AdvanceChain(lp, s) ==
  IF lp.entarr[s].calltype = "CALLCHAIN" THEN [lp EXCEPT !.entarr[s].left = @ - 1]
                                         ELSE lp

\* The entry asks for something that was reported of it.
Wanted(lp, s) == lp.entfds[s].events \cap lp.entfds[s].revents # {}

\* What poll may report: negative descriptors are passed over, errors need not
\* be asked for, and it returns only when there is something.
Reported(R) == {s \in Slots : R[s] # {}}
PollReports(lp) ==
  {R \in [Slots -> SUBSET CondBits] :
     /\ \A s \in Slots :
          R[s] \subseteq IF lp.entfds[s].fd < 0 THEN {}
                         ELSE lp.entfds[s].events \cup {"ERR"}
     /\ Reported(R) # {}}
WithRevents(lp, R) ==
  [lp EXCEPT !.entfds = [s \in Slots |-> [lp.entfds[s] EXCEPT !.revents = R[s]]]]

-----------------------------------------------------------------------------
(* The program: registrations, mig_loop_exec, mig_loop_destroy. *)

Init ==
  /\ loop = mig_loop_create
  /\ pc = "setup"
  /\ rfds = 0 /\ hfds = 0 /\ idx = 0 /\ kind = "NULL"
  /\ switched = {}
  /\ live = {} /\ owed = {} /\ misfreed = FALSE

\* Client code runs before the loop is started and in callbacks.
ClientRuns == pc \in {"setup", "call"}

\* The history of slot s being given a chain: by the function of a chain that
\* is running for that very slot, or by anybody else.
GivesChain(s) ==
  switched' = IF pc = "call" /\ kind = "CALLCHAIN" /\ s = idx THEN switched \cup {s}
                                                            ELSE switched \ {s}

ClientRegisters(fd, free, cond) ==
  /\ ClientRuns
  /\ CanRegister(loop)
  /\ LET s == zstk_top(loop.freestk)
     IN  /\ \/ /\ loop' = mig_loop_register(loop, fd, free, cond)
               /\ UNCHANGED switched
            \/ \E chain \in Chains :
                 /\ loop' = mig_loop_register_chain(loop, fd, chain, free, cond)
                 /\ GivesChain(s)
         /\ live' = live \cup {s}
         /\ owed' = IF free THEN owed \cup {s} ELSE owed
  /\ UNCHANGED <<pc, rfds, hfds, idx, kind, misfreed>>

\* The history of one mig_loop_unregister: with a descriptor of -1 it does
\* nothing, and the slot stays held.
Releases(s) ==
  /\ loop' = mig_loop_unregister(loop, s)
  /\ live' = IF loop.entarr[s].fd # -1 THEN live \ {s} ELSE live
  /\ owed' = owed \ FreedBy(loop, s)
  /\ misfreed' = (misfreed \/ ~(FreedBy(loop, s) \subseteq owed))

\* Clients unregister only what they hold.
ClientUnregisters(s) ==
  /\ ClientRuns
  /\ Releases(s)
  /\ UNCHANGED <<pc, scanvars>>

ClientSetsFree(s, free) ==
  /\ ClientRuns
  /\ loop' = mig_loop_setfree(loop, s, free)
  /\ owed' = IF free THEN owed \cup {s} ELSE owed \ {s}
  /\ UNCHANGED <<pc, scanvars, live, misfreed>>

\* The calls that change a held entry and nothing else.
ClientAdjusts(s) ==
  /\ ClientRuns
  /\ \/ loop' = mig_loop_disable(loop, s)
     \/ loop' = mig_loop_enable(loop, s)
     \/ \E cond \in Conds : loop' = mig_loop_setcond(loop, s, cond)
     \/ \E fd \in Fds : loop' = mig_loop_setfd(loop, s, fd)
     \/ \E fp \in BOOLEAN : loop' = mig_loop_setcall(loop, s, fp)
     \/ loop' = mig_loop_setcallchain(loop, s, NullChain)
  /\ UNCHANGED <<pc, scanvars, ghosts>>

ClientSetsChain(s, chain) ==
  /\ ClientRuns
  /\ loop' = mig_loop_setcallchain(loop, s, chain)
  /\ GivesChain(s)
  /\ UNCHANGED <<pc, rfds, hfds, idx, kind, ghosts>>

ClientTerminates ==
  /\ ClientRuns
  /\ loop' = mig_loop_terminate(loop)
  /\ UNCHANGED <<pc, scanvars, ghosts>>

Client ==
  \/ \E fd \in Fds, free \in BOOLEAN, cond \in Conds : ClientRegisters(fd, free, cond)
  \/ \E s \in live : \/ ClientUnregisters(s)
                     \/ \E free \in BOOLEAN : ClientSetsFree(s, free)
                     \/ ClientAdjusts(s)
                     \/ \E chain \in Chains : ClientSetsChain(s, chain)
  \/ ClientTerminates

Start ==
  /\ pc = "setup"
  /\ pc' = "top"
  /\ UNCHANGED <<loop, scanvars, ghosts>>

\* Seeded fault: terminate is not looked at.
LoopTopKeepsOn ==
  /\ pc = "top"
  /\ pc' = IF zstk_isfull(loop.freestk) THEN "done" ELSE "enter"
  /\ UNCHANGED <<loop, scanvars, ghosts>>
\* The conditions of the while loop and of the break in it.
LoopTop ==
  /\ pc = "top"
  /\ pc' = IF loop.terminate \/ zstk_isfull(loop.freestk) THEN "done" ELSE "enter"
  /\ UNCHANGED <<loop, scanvars, ghosts>>

\* The conditions have been read; from here on the thread sleeps in poll.
EnterPoll ==
  /\ pc = "enter"
  /\ pc' = "poll"
  /\ UNCHANGED <<loop, scanvars, ghosts>>

PollReturns ==
  /\ pc = "poll"
  /\ \E R \in PollReports(loop) :
       /\ loop' = WithRevents(loop, R)
       /\ rfds' = Cardinality(Reported(R))
  /\ hfds' = 0 /\ idx' = 0
  /\ pc' = "scan"
  /\ UNCHANGED <<kind, switched, ghosts>>

\* An error other than EINTR.
PollFails ==
  /\ pc = "poll"
  /\ pc' = "failed"
  /\ UNCHANGED <<loop, scanvars, ghosts>>

\* The signal handler runs at any point of mig_loop_exec and calls
\* mig_loop_terminate; a sleeping poll fails with EINTR and the loop continues.
Sigint ==
  /\ pc \in {"top", "enter", "poll", "scan", "call"}
  /\ loop' = mig_loop_terminate(loop)
  /\ pc' = IF pc = "poll" THEN "top" ELSE pc
  /\ UNCHANGED <<scanvars, ghosts>>

\* The condition of the for loop.
Scanning == pc = "scan" /\ idx < NSlots /\ hfds < rfds

\* Seeded fault: an entry that is passed over counts as dealt with.
ScanSkipCounts ==
  /\ Scanning
  /\ ~Wanted(loop, idx)
  /\ idx' = idx + 1 /\ hfds' = hfds + 1
  /\ UNCHANGED <<loop, pc, rfds, kind, switched, ghosts>>
\* Seeded fault: the scan stays at an entry that wants nothing.
ScanSkipStays == Scanning /\ ~Wanted(loop, idx) /\ UNCHANGED vars
\* An entry that asks for nothing of what was reported.
ScanSkip ==
  /\ Scanning
  /\ ~Wanted(loop, idx)
  /\ idx' = idx + 1
  /\ UNCHANGED <<loop, pc, rfds, hfds, kind, switched, ghosts>>

\* What the pointer of a chain has reached: the sentinel, or what lies behind it.
AtSentinel(s)   == loop.entarr[s].calltype = "CALLCHAIN" /\ loop.entarr[s].left = 0
PastSentinel(s) == loop.entarr[s].calltype = "CALLCHAIN" /\ loop.entarr[s].left < 0

\* A callback or a function of a chain is called.
ScanDispatch ==
  /\ Scanning
  /\ Wanted(loop, idx)
  /\ loop.entarr[idx].calltype \in {"CALLBACK", "CALLCHAIN"}
  /\ ~AtSentinel(idx) /\ ~PastSentinel(idx)
  /\ hfds' = hfds + 1
  /\ kind' = loop.entarr[idx].calltype
  /\ switched' = switched \ {idx}
  /\ pc' = "call"
  /\ UNCHANGED <<loop, rfds, idx, ghosts>>

\* What the memory behind a chain holds is called: nothing is known of the
\* program from here on.
ScanAstray ==
  /\ Scanning
  /\ Wanted(loop, idx)
  /\ PastSentinel(idx)
  /\ pc' = "astray"
  /\ UNCHANGED <<loop, scanvars, ghosts>>

\* A calltype the switch has no case for.
ScanNoCall ==
  /\ Scanning
  /\ Wanted(loop, idx)
  /\ loop.entarr[idx].calltype \notin {"CALLBACK", "CALLCHAIN"}
  /\ hfds' = hfds + 1
  /\ idx' = idx + 1
  /\ UNCHANGED <<loop, pc, rfds, kind, switched, ghosts>>

\* The sentinel unregisters the entry and returns false.
ScanSentinel ==
  /\ Scanning
  /\ Wanted(loop, idx)
  /\ AtSentinel(idx)
  /\ Releases(idx)
  /\ hfds' = hfds + 1
  /\ idx' = idx + 1
  /\ UNCHANGED <<pc, rfds, kind, switched>>

CallReturns(proceed) ==
  /\ pc = "call"
  /\ loop' = IF kind = "CALLCHAIN" /\ proceed THEN AdvanceChain(loop, idx) ELSE loop
  /\ idx' = idx + 1
  /\ kind' = "NULL"
  /\ pc' = "scan"
  /\ UNCHANGED <<rfds, hfds, switched, ghosts>>

\* The scan's locals are dead from here on; a canonical value stands for any.
ScanEnd ==
  /\ pc = "scan"
  /\ ~(idx < NSlots /\ hfds < rfds)
  /\ pc' = "top"
  /\ rfds' = 0 /\ hfds' = 0 /\ idx' = 0
  /\ UNCHANGED <<loop, kind, switched, ghosts>>

Destroy ==
  /\ pc \in {"done", "failed"}
  /\ pc' = "destroyed"
  /\ owed' = owed \ FreedByDestroy(loop)
  /\ misfreed' = (misfreed \/ ~(FreedByDestroy(loop) \subseteq owed))
  /\ live' = {}
  /\ UNCHANGED <<loop, scanvars>>

\* The program has ended, or is beyond what C says of it.
Ended == pc \in {"destroyed", "astray"} /\ UNCHANGED vars

Scan == ScanSkip \/ ScanDispatch \/ ScanNoCall \/ ScanSentinel \/ ScanAstray \/ ScanEnd
Exec == LoopTop \/ EnterPoll \/ PollReturns \/ PollFails \/ Scan

Next ==
  \/ Client
  \/ Start
  \/ Exec
  \/ \E proceed \in BOOLEAN : CallReturns(proceed)
  \/ Sigint
  \/ Destroy
  \/ Ended

Spec == Init /\ [][Next]_vars

\* The loop's thread runs and callbacks return.  Nothing is assumed of poll: it
\* sleeps as long as no descriptor becomes ready.
Fairness ==
  WF_vars(LoopTop \/ EnterPoll \/ Scan \/ \E proceed \in BOOLEAN : CallReturns(proceed))
FairSpec == Spec /\ Fairness
-----------------------------------------------------------------------------
(* What must hold. *)

\* The state has the types of the C declarations; a chain's pointer is never more
\* than one past its sentinel.
TypeOK ==
  /\ loop \in Loops
  /\ pc \in {"setup", "top", "enter", "poll", "scan", "call", "astray",
            "done", "failed", "destroyed"}
  /\ rfds \in 0 .. NSlots /\ hfds \in 0 .. NSlots /\ idx \in 0 .. NSlots
  /\ kind \in CallTypes /\ switched \subseteq Slots
  /\ live \subseteq Slots /\ owed \subseteq live /\ misfreed \in BOOLEAN

\* The free stack of mig_zstk holds every slot nobody holds and each of them
\* once, whatever order callbacks register and unregister in: no slot is handed
\* out twice and none is lost.
FreeStackExact ==
  pc # "destroyed" =>
    /\ \A m, n \in 1 .. Len(loop.freestk) : loop.freestk[m] = loop.freestk[n] => m = n
    /\ {loop.freestk[n] : n \in 1 .. Len(loop.freestk)} = Slots \ live

\* A slot nobody holds is not polled, has nothing pending from an earlier
\* holder, and has no free callback that mig_loop_destroy would run again.
FreeSlotsInert ==
  pc # "destroyed" =>
    \A s \in Slots \ live : loop.entfds[s] = IdlePollFd /\ ~loop.entarr[s].free

\* mig_loop_setfd, enable and disable keep the two arrays together: what is
\* polled for a held slot is its descriptor, or nothing.
PolledFdAgrees ==
  \A s \in live : loop.entfds[s].fd \in {-1, loop.entarr[s].fd}

\* Every free callback registered or set runs exactly once, at
\* mig_loop_unregister or else at mig_loop_destroy.
FreedExactlyOnce == ~misfreed /\ (pc = "destroyed" => owed = {})

\* What poll reported and the scan of mig_loop_exec has not dealt with.
Pending ==
  CASE pc \in {"scan", "astray"} -> {s \in Slots : s >= idx /\ loop.entfds[s].revents # {}}
    [] pc = "call"               -> {s \in Slots : s > idx /\ loop.entfds[s].revents # {}}
    [] OTHER                     -> {}

\* The scan's early exit (hfds < rfds) is sound: the count of what is left never
\* exceeds the budget left, although callbacks unregister entries, register new
\* ones in freed slots ahead of the scan and change what entries wait for.
ScanBudget == Cardinality(Pending) <= rfds - hfds \/ pc \notin {"scan", "call"}

\* mig_loop_exec goes back to poll with nothing reported left behind.
NothingLeftBehind == [][pc = "scan" /\ pc' = "top" => Pending = {}]_vars

\* A callback pointer is never advanced as if it were a chain's ("only if we're
\* still a callchain"), and a chain's pointer passes the sentinel in one way only:
\* the function that ran gave its own slot another chain and returned true.  That
\* chain held nothing but the sentinel, which mig_loop_exec then stepped over; with
\* a longer one it is the first function that is passed over.
CallUnionIntact ==
  \A s \in live : /\ loop.entarr[s].calltype = "CALLBACK" => loop.entarr[s].left = 0
                  /\ PastSentinel(s) => s \in switched

\* The loop implements what it promises its clients.
Promise == INSTANCE EventDelivery WITH
  reg   <- [s \in Slots |-> IF s \in live THEN loop.entarr[s].fd ELSE -2],
  ready <- Pending
Delivers == Promise!Spec

\* Every scan comes to its end if callbacks return, but for one that calls what
\* lies behind a chain.
ScanCompletes == pc = "scan" ~> pc \in {"top", "astray"}

\* mig_loop_terminate from a callback or from SIGINT outside of poll ends
\* mig_loop_exec, with no event needed, unless a scan goes astray.
TerminateFromScan ==
  (loop.terminate /\ pc \in {"top", "scan", "call"}) ~> (pc \in {"done", "astray"})

\* What main announces on SIGINT ("midnighttpd - terminating"): mig_loop_exec
\* returns.  It need not: the signal can come between the test of terminate and
\* the call of poll.
TerminateStops ==
  (loop.terminate /\ pc \in {"top", "enter", "poll", "scan", "call"}) ~> (pc \in {"done", "failed"})
=============================================================================
