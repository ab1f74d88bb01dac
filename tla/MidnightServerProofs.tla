----------------------- MODULE MidnightServerProofs -----------------------
(***************************************************************************)
(* Theorems about the server on the event loop, for every number of slots  *)
(* and descriptors and every set of sockets: that it uses the loop as the  *)
(* loop's interface asks for, so that what is proved of the loop holds in  *)
(* it, and that every descriptor that is open has one owner.               *)
(*                                                                         *)
(* Owners are counted as claims: an entry of the loop claims its           *)
(* descriptor, a request the file it sends, a local of listen_accept the   *)
(* connection it was given, and so on.  The claims are exact when they     *)
(* name the open descriptors and no two of them the same.  A step then     *)
(* adds a claim to a descriptor that was free, gives one up as it closes   *)
(* the descriptor, or moves one; there is a lemma for each.                *)
(***************************************************************************)
EXTENDS MidnightServer, MigLoopProofs, WellFoundedInduction

\* The variables that MigLoop does not have, and that only a callback that runs
\* has locals.
ServerTypes ==
  /\ ents \in Seq(Fds) /\ sock \in Fds
  /\ nofile \subseteq Fds \cap Nat
  /\ role \in [Slots -> Roles] /\ srcfd \in [Slots -> Fds]
  /\ step \in {"call", "accepted", "return", "close", "keepalive"}
  /\ pc # "call" => step = "call"
  /\ pc # "setup" => ents = <<>>

\* The slots with a descriptor, and the requests with a file that is open: it
\* is closed before its connection ends or goes on.
Held    == live \ failed
Closing == step \in {"close", "keepalive"}
Sending == {s \in Slots : role[s] = "resp_send_file" /\ srcfd[s] # -1 /\ ~(s = idx /\ Closing)}

\* A callback's entry is there until it is unregistered, and a request has a file
\* only while it is sent.
RolesOK ==
  /\ pc = "call" /\ step # "return" => idx \in Held
  /\ \A s \in Slots : role[s] # "resp_send_file" => srcfd[s] = -1
  /\ pc # "destroyed" => \A s \in Slots : role[s] = "resp_send_file" => s \in Held

\* Entries are registered with a callback and a free callback, and those of a
\* failed accept are not polled.
EntsOK ==
  pc # "destroyed" =>
    /\ failed \subseteq live
    /\ owed = live
    /\ \A s \in live : loop.entarr[s].calltype = "CALLBACK"
    /\ \A s \in Held : loop.entarr[s].fd # -1
    /\ \A s \in failed : /\ loop.entarr[s].fd = -1 /\ loop.entfds[s].fd = -1
                         /\ loop.entfds[s].revents = {}

HeldClaims   == {<<"held", s, loop.entarr[s].fd>> : s \in Held}
SourceClaims == {<<"source", s, srcfd[s]>> : s \in Sending}
LocalClaims  == IF step = "accepted" /\ sock # -1 THEN {<<"local", 0, sock>>} ELSE {}
EntClaims    == {<<"ent", n, ents[n]>> : n \in 1 .. Len(ents)}
DeafClaims   == {<<"deaf", 0, fd>> : fd \in deaf}
Claims       == HeldClaims \cup SourceClaims \cup LocalClaims \cup EntClaims \cup DeafClaims

Exact(C, O) == O = {c[3] : c \in C} /\ \A c, d \in C : c[3] = d[3] => c = d

OwnersOK ==
  /\ -1 \notin open /\ badclose = FALSE
  /\ pc # "destroyed" => Exact(Claims, open)
  /\ pc = "destroyed" => open = SourceFds \cup deaf

SInv == ServerTypes /\ RolesOK /\ EntsOK /\ OwnersOK

-----------------------------------------------------------------------------
(* The kernel and the claims. *)

\* The lowest descriptor that is free is one that is free.
LEMMA NewFdFree ==
  ASSUME nofile \subseteq Nat, FreeFds # {}
  PROVE  NewFd \in FreeFds
<1>1. FreeFds \subseteq Nat
  BY DEF FreeFds
<1>2. PICK m \in FreeFds : \A n \in FreeFds : ~(<<n, m>> \in OpToRel(<, Nat))
  BY <1>1, NatLessThanWellFounded, WFMin
<1>3. \A n \in FreeFds : m <= n
  <2> SUFFICES ASSUME NEW n \in FreeFds PROVE m <= n
    OBVIOUS
  <2>1. m \in Nat /\ n \in Nat
    BY <1>1
  <2>2. ~(n < m)
    BY <1>2, <2>1 DEF OpToRel
  <2> QED  BY <2>1, <2>2
<1> QED  BY <1>3 DEF NewFd, Min

\* What is claimed is open.
LEMMA ClaimOpen ==
  ASSUME NEW C, NEW O, Exact(C, O), NEW k, NEW n, NEW fd, <<k, n, fd>> \in C
  PROVE  fd \in O
<1>1. PICK c \in C : c = <<k, n, fd>>
  OBVIOUS
<1>2. c[3] \in O
  BY DEF Exact
<1> QED  BY <1>1, <1>2

\* A descriptor that was free gets its first claim.
LEMMA ClaimNew ==
  ASSUME NEW C, NEW O, Exact(C, O), NEW c, c[3] \notin O
  PROVE  Exact(C \cup {c}, O \cup {c[3]})
BY DEF Exact

\* Claims are given up with the descriptors.
LEMMA ClaimEnds ==
  ASSUME NEW C, NEW O, Exact(C, O), NEW D, D \subseteq C
  PROVE  Exact(C \ D, O \ {d[3] : d \in D})
BY DEF Exact

\* A descriptor passes from one owner to another.
LEMMA ClaimMoves ==
  ASSUME NEW C, NEW O, Exact(C, O), NEW c \in C, NEW d, d[3] = c[3]
  PROVE  Exact((C \ {c}) \cup {d}, O)
BY DEF Exact

-----------------------------------------------------------------------------
(* The steps of the server as steps of the loop. *)

\* What Coherent says of the loop while the program runs.
LEMMA LoopFacts ==
  ASSUME IInv, pc # "destroyed"
  PROVE  /\ loop \in Loops /\ live \subseteq Slots
         /\ \A s \in Slots : loop.entarr[s] \in Entries /\ loop.entfds[s] \in PollFds
         /\ \A s \in live : s \in owed <=> loop.entarr[s].free
         /\ owed \subseteq live
         /\ \A s \in Slots \ live : loop.entfds[s] = IdlePollFd
BY DEF IInv, Coherent, EntriesOK, Loops

\* mig_loop_register is a step of the loop's client, and takes a free slot.
LEMMA RegistersStep ==
  ASSUME IInv, pc \in {"setup", "call"}, CanRegister(loop), UNCHANGED <<pc, scanvars, misfreed>>,
         NEW fd \in Fds, NEW callback, Registers(fd, callback), NEW s, s = zstk_top(loop.freestk)
  PROVE  /\ Next
         /\ s \in Slots \ live
         /\ loop'.entarr = [loop.entarr EXCEPT ![s] =
                              [fd |-> fd, calltype |-> "CALLBACK", left |-> 0, free |-> TRUE]]
         /\ loop'.entfds = [loop.entfds EXCEPT ![s] = [fd |-> fd, events |-> {"IN"}, revents |-> {}]]
<1>1. {"IN"} \in Conds
  BY MidnightServerAssumption
<1>2. loop' = mig_loop_register(loop, fd, TRUE, {"IN"}) /\ live' = live \cup {s} /\ owed' = owed \cup {s}
  BY DEF Registers
<1>3. ClientRegisters(fd, TRUE, {"IN"})
  BY <1>2 DEF ClientRegisters, ClientRuns, scanvars
<1>4. Next
  BY <1>1, <1>3 DEF Next, Client
<1>5. s \in Slots \ live
  <2>1. Coherent(loop, live, owed)
    BY DEF IInv
  <2>2. Len(loop.freestk) > 0 /\ live \in SUBSET Slots /\ StackOK(loop.freestk, live)
    BY <2>1 DEF Coherent, CanRegister
  <2> QED  BY <2>2, StackPop
<1> QED  BY <1>2, <1>4, <1>5, LoopFacts DEF mig_loop_register, Register, Loops

\* mig_loop_setcond is a step of the loop's client, or none.
LEMMA AwaitsStep ==
  ASSUME IInv, pc = "call", idx \in live, NEW callback, NEW cond, NEW at, Awaits(callback, cond, at),
         cond \in Conds \/ cond = loop.entfds[idx].events
  PROVE  /\ [Next]_vars
         /\ loop'.entarr = loop.entarr
         /\ \A s \in Slots : /\ loop'.entfds[s].fd = loop.entfds[s].fd
                             /\ loop'.entfds[s].revents = loop.entfds[s].revents
<1>1. loop' = mig_loop_setcond(loop, idx, cond) /\ UNCHANGED <<pc, scanvars, ghosts>>
  BY DEF Awaits
<1>2. loop \in Loops /\ idx \in Slots
  BY LoopFacts
<1>3. [Next]_vars
  <2>1. CASE cond \in Conds
    BY <1>1, <2>1 DEF Next, Client, ClientAdjusts, ClientRuns
  <2>2. CASE cond = loop.entfds[idx].events
    <3>1. loop' = loop
      BY <1>1, <1>2, <2>2 DEF mig_loop_setcond, Loops, PollFds
    <3> QED  BY <1>1, <3>1 DEF vars
  <2> QED  BY <2>1, <2>2
<1> QED  BY <1>1, <1>2, <1>3 DEF mig_loop_setcond, Loops, PollFds

\* Every step of the server is one of the loop's, or leaves the loop alone.
LEMMA StepUsesLoop == IInv /\ SInv /\ [ServerNext]_allvars => [Next]_vars
<1> SUFFICES ASSUME IInv, SInv, ServerNext PROVE [Next]_vars
  BY DEF allvars
<1> USE DEF SInv
<1>1. ASSUME TakeEnt PROVE [Next]_vars
  <2>1. pc = "setup" /\ ents # <<>> /\ ents \in Seq(Fds) /\ UNCHANGED <<pc, scanvars, misfreed>>
    BY <1>1 DEF TakeEnt, ServerTypes
  <2>2. Last(ents) \in Fds
    BY <2>1 DEF Last
  <2>3. CASE CanRegister(loop)
    BY <1>1, <2>1, <2>2, <2>3, RegistersStep DEF TakeEnt
  <2>4. CASE ~CanRegister(loop)
    BY <1>1, <2>4 DEF TakeEnt, vars, ghosts
  <2> QED  BY <2>3, <2>4
<1>2. ASSUME BindDefault \/ PortsChange \/ Over \/ Accept PROVE [Next]_vars
  BY <1>2 DEF BindDefault, PortsChange, Over, Ended, Accept
<1>3. ASSUME StartLoop PROVE [Next]_vars
  BY <1>3 DEF StartLoop, Next
<1>4. ASSUME Poll PROVE [Next]_vars
  BY <1>4 DEF Poll, Next, Exec
<1>5. ASSUME Loop PROVE [Next]_vars
  BY <1>5 DEF Loop, Next, Exec
<1>6. ASSUME Interrupt PROVE [Next]_vars
  BY <1>6 DEF Interrupt, Next, Exec
<1>7. ASSUME DestroyAll PROVE [Next]_vars
  BY <1>7 DEF DestroyAll, Next
<1>8. ASSUME NEW fd \in Fds, Connect(fd) PROVE [Next]_vars
  BY <1>8 DEF Connect
<1>9. ASSUME Reject PROVE [Next]_vars
  BY <1>9 DEF Reject
<1>10. ASSUME AddConn PROVE [Next]_vars
  BY <1>10, RegistersStep DEF AddConn, Calling, ServerTypes
<1>11. ASSUME ReceiveHeaders PROVE [Next]_vars
  <2>1. {"OUT"} \in Conds /\ pc = "call" /\ idx \in live
    BY <1>11, MidnightServerAssumption DEF ReceiveHeaders, Calling, RolesOK, Held
  <2> QED  BY <1>11, <2>1, AwaitsStep DEF ReceiveHeaders
<1>12. ASSUME ReadHeaders PROVE [Next]_vars
  <2>1. {"OUT"} \in Conds /\ pc = "call" /\ idx \in live
    BY <1>12, MidnightServerAssumption DEF ReadHeaders, Calling, RolesOK, Held
  <2> QED  BY <1>12, <2>1, AwaitsStep DEF ReadHeaders
<1>13. ASSUME SendFile PROVE [Next]_vars
  <2>1. {"OUT"} \in Conds /\ pc = "call" /\ idx \in live
    BY <1>13, MidnightServerAssumption DEF SendFile, Calling, RolesOK, Held
  <2> QED  BY <1>13, <2>1, AwaitsStep DEF SendFile
<1>14. ASSUME Terminate PROVE [Next]_vars
  <2>1. pc = "call" /\ idx \in live
    BY <1>14 DEF Terminate, Calling, RolesOK, Held
  <2> QED  BY <1>14, <2>1 DEF Terminate, Next, Client, ClientUnregisters, ClientRuns
<1>15. ASSUME KeepAlive PROVE [Next]_vars
  <2>1. {"IN"} \in Conds /\ {"OUT"} \in Conds /\ pc = "call" /\ idx \in live
    BY <1>15, MidnightServerAssumption DEF KeepAlive, Calling, RolesOK, Held
  <2> QED  BY <1>15, <2>1, AwaitsStep DEF KeepAlive
<1>16. ASSUME Return PROVE [Next]_vars
  BY <1>16 DEF Return, Returns, Next
<1> QED
  BY <1>1, <1>2, <1>3, <1>4, <1>5, <1>6, <1>7, <1>8, <1>9, <1>10, <1>11, <1>12, <1>13, <1>14, <1>15, <1>16
  DEF ServerNext, Callback

-----------------------------------------------------------------------------
(* What the steps do to entries and to roles. *)

\* Scanning, polling and signals leave the server alone: entries stay what they
\* are, none is at a sentinel, and the entry a callback is called for is held.
LEMMA LoopStep ==
  ASSUME IInv, SInv, Poll \/ Loop \/ Interrupt
  PROVE  /\ UNCHANGED server
         /\ pc \notin {"setup", "destroyed"} /\ pc' \notin {"setup", "destroyed"}
         /\ UNCHANGED <<live, owed>> /\ loop'.entarr = loop.entarr
         /\ \A s \in failed : loop'.entfds[s].fd = -1 /\ loop'.entfds[s].revents = {}
         /\ \/ pc = "call" /\ pc' = "call" /\ idx' = idx
            \/ pc # "call" /\ (pc' = "call" => idx' \in Held)
<1>1. UNCHANGED server
  BY DEF Poll, Loop, Interrupt
<1>2. pc \notin {"setup", "destroyed"} /\ pc' \notin {"setup", "destroyed"}
  BY DEF Poll, Loop, Interrupt, LoopTop, EnterPoll, PollReturns, PollFails, Sigint, Scan, ScanSkip,
         ScanDispatch, ScanNoCall, ScanSentinel, ScanAstray, ScanEnd, Scanning
<1>3. /\ loop \in Loops /\ failed \subseteq live /\ live \subseteq Slots
      /\ \A s \in live : loop.entarr[s].calltype = "CALLBACK"
      /\ \A s \in failed : loop.entfds[s].fd = -1 /\ loop.entfds[s].revents = {}
  BY <1>2, LoopFacts DEF SInv, EntsOK
<1>4. ASSUME Scanning, Wanted(loop, idx) PROVE idx \in Held
  <2>1. idx \in Slots
    BY <1>4, MigLoopAssumption DEF Scanning, Slots, IInv, TypeOK
  <2>2. idx \in live
    BY <1>2, <1>4, <2>1, WantedHeld DEF IInv
  <2>3. idx \notin failed
    BY <1>3, <1>4 DEF Wanted
  <2> QED  BY <2>2, <2>3 DEF Held
<1>5. ~ScanSentinel /\ ~ScanAstray
  BY <1>3, <1>4 DEF ScanSentinel, ScanAstray, AtSentinel, PastSentinel, Held
<1>6. CASE Poll
  <2>1. PICK R \in PollReports(loop) : loop' = WithRevents(loop, R)
    BY <1>6 DEF Poll, PollReturns
  <2>2. /\ loop'.entarr = loop.entarr
        /\ loop'.entfds = [s \in Slots |-> [loop.entfds[s] EXCEPT !.revents = R[s]]]
    BY <1>3, <2>1 DEF WithRevents, Loops
  <2>3. \A s \in failed : loop'.entfds[s].fd = -1 /\ loop'.entfds[s].revents = {}
    <3> SUFFICES ASSUME NEW s \in failed
                 PROVE  loop'.entfds[s].fd = -1 /\ loop'.entfds[s].revents = {}
      OBVIOUS
    <3>1. s \in Slots /\ loop.entfds[s] \in PollFds /\ loop.entfds[s].fd = -1
      BY <1>3 DEF Loops
    <3>2. R[s] = {}
      BY <3>1 DEF PollReports
    <3> QED  BY <2>2, <3>1, <3>2 DEF PollFds
  <2> QED  BY <1>1, <1>2, <1>6, <2>2, <2>3 DEF Poll, PollReturns, ghosts
<1>7. CASE Interrupt
  <2>1. loop'.entarr = loop.entarr /\ loop'.entfds = loop.entfds
    BY <1>3, <1>7 DEF Interrupt, Sigint, PollFails, mig_loop_terminate, Loops
  <2> QED  BY <1>1, <1>2, <1>3, <1>7, <2>1 DEF Interrupt, Sigint, PollFails, ghosts, scanvars
<1>8. CASE Loop
  <2>1. loop' = loop /\ UNCHANGED ghosts /\ pc # "call"
    BY <1>5, <1>8 DEF Loop, LoopTop, EnterPoll, Scan, ScanSkip, ScanDispatch, ScanNoCall, ScanEnd, Scanning
  <2>2. pc' = "call" => idx' = idx /\ idx \in Held
    BY <1>4, <1>5, <1>8 DEF Loop, LoopTop, EnterPoll, Scan, ScanSkip, ScanDispatch, ScanNoCall, ScanEnd,
           Scanning
  <2> QED  BY <1>1, <1>2, <1>3, <2>1, <2>2 DEF ghosts
<1> QED  BY <1>6, <1>7, <1>8

\* Registering takes a slot nobody holds, for a descriptor or for none.
LEMMA RegistersHolds ==
  ASSUME IInv, SInv, pc \in {"setup", "call"}, CanRegister(loop), UNCHANGED <<pc, scanvars, misfreed>>,
         NEW fd \in Fds, NEW callback \in Roles \ {"resp_send_file"}, Registers(fd, callback),
         NEW s, s = zstk_top(loop.freestk)
  PROVE  /\ s \in Slots \ live
         /\ Held' = IF fd = -1 THEN Held ELSE Held \cup {s}
         /\ loop'.entarr[s].fd = fd
         /\ \A t \in live : loop'.entarr[t] = loop.entarr[t]
         /\ role' = [role EXCEPT ![s] = callback]
         /\ role[s] # "resp_send_file"
         /\ EntsOK'
<1>1. /\ s \in Slots \ live
      /\ loop'.entarr = [loop.entarr EXCEPT ![s] =
                           [fd |-> fd, calltype |-> "CALLBACK", left |-> 0, free |-> TRUE]]
      /\ loop'.entfds = [loop.entfds EXCEPT ![s] = [fd |-> fd, events |-> {"IN"}, revents |-> {}]]
  BY RegistersStep
<1>2. /\ live' = live \cup {s} /\ owed' = owed \cup {s} /\ role' = [role EXCEPT ![s] = callback]
      /\ failed' = IF fd = -1 THEN failed \cup {s} ELSE failed
  BY DEF Registers
<1>3. failed \subseteq live /\ owed = live /\ EntsOK /\ pc # "destroyed"
  BY DEF SInv, EntsOK
<1>4. loop \in Loops /\ live \subseteq Slots
  BY <1>3, LoopFacts
<1>5. /\ loop'.entarr[s] = [fd |-> fd, calltype |-> "CALLBACK", left |-> 0, free |-> TRUE]
      /\ loop'.entfds[s] = [fd |-> fd, events |-> {"IN"}, revents |-> {}]
      /\ \A t \in live : loop'.entarr[t] = loop.entarr[t] /\ loop'.entfds[t] = loop.entfds[t]
  BY <1>1, <1>4 DEF Loops
<1>6. Held' = IF fd = -1 THEN Held ELSE Held \cup {s}
  BY <1>1, <1>2, <1>3 DEF Held
<1>7. EntsOK'
  BY <1>1, <1>2, <1>3, <1>5 DEF EntsOK, Held
<1>8. role[s] # "resp_send_file"
  BY <1>1, <1>3 DEF SInv, RolesOK, Held
<1> QED  BY <1>1, <1>2, <1>5, <1>6, <1>7, <1>8

\* A connection that goes on keeps its entry.
LEMMA AwaitsHolds ==
  ASSUME IInv, SInv, pc = "call", step # "return", NEW callback, NEW cond, NEW at,
         Awaits(callback, cond, at), cond \in Conds \/ cond = loop.entfds[idx].events
  PROVE  /\ idx \in Held /\ idx \in Slots
         /\ Held' = Held /\ loop'.entarr = loop.entarr
         /\ idx' = idx /\ pc' = pc /\ step' = at
         /\ role' = [role EXCEPT ![idx] = callback]
         /\ UNCHANGED <<startvars, sock>>
         /\ EntsOK'
<1>1. idx \in Held /\ idx \in live /\ pc # "destroyed"
  BY DEF SInv, RolesOK, Held
<1>2. /\ loop'.entarr = loop.entarr
      /\ \A s \in Slots : /\ loop'.entfds[s].fd = loop.entfds[s].fd
                          /\ loop'.entfds[s].revents = loop.entfds[s].revents
  BY <1>1, AwaitsStep
<1>3. live \subseteq Slots /\ failed \subseteq live /\ EntsOK
  BY <1>1, LoopFacts DEF SInv, EntsOK
<1>4. /\ UNCHANGED <<live, owed, failed, pc, idx, startvars, sock>> /\ step' = at
      /\ role' = [role EXCEPT ![idx] = callback]
  BY DEF Awaits, ghosts, scanvars
<1>5. EntsOK'
  BY <1>1, <1>2, <1>3, <1>4 DEF EntsOK, Held
<1> QED  BY <1>1, <1>2, <1>3, <1>4, <1>5 DEF Held

\* Unregistering a connection gives its slot back.
LEMMA TerminateHolds ==
  ASSUME IInv, SInv, Terminate
  PROVE  /\ idx \in Held /\ idx \in Slots /\ pc = "call"
         /\ Held' = Held \ {idx}
         /\ \A t \in Slots \ {idx} : loop'.entarr[t] = loop.entarr[t]
         /\ EntsOK'
<1>1. pc = "call" /\ Releases(idx) /\ UNCHANGED <<pc, scanvars, failed>>
  BY DEF Terminate, Calling
<1>2. idx \in Held /\ idx \in live /\ idx \notin failed
  BY <1>1 DEF Terminate, Calling, SInv, RolesOK, Held
<1>3. /\ failed \subseteq live /\ owed = live /\ loop.entarr[idx].fd # -1 /\ EntsOK
      /\ loop \in Loops /\ live \subseteq Slots /\ loop.entarr[idx].free
  BY <1>1, <1>2, LoopFacts DEF SInv, EntsOK
<1>4. live' = live \ {idx} /\ owed' = owed \ {idx} /\ loop' = mig_loop_unregister(loop, idx)
  BY <1>1, <1>3 DEF Releases, FreedBy
<1>5. /\ loop'.entarr = [loop.entarr EXCEPT ![idx] = MIG_ENT_EMPTY]
      /\ loop'.entfds = [loop.entfds EXCEPT ![idx] = IdlePollFd]
  BY <1>3, <1>4 DEF mig_loop_unregister, Loops
<1>6. \A t \in Slots \ {idx} : loop'.entarr[t] = loop.entarr[t] /\ loop'.entfds[t] = loop.entfds[t]
  BY <1>3, <1>5 DEF Loops
<1>7. EntsOK'
  BY <1>1, <1>2, <1>3, <1>4, <1>6 DEF EntsOK, Held
<1> QED  BY <1>1, <1>2, <1>3, <1>4, <1>6, <1>7 DEF Held

\* The rest of the steps leave entries and roles alone.
LEMMA OtherStep ==
  ASSUME SInv, NEW fd \in Fds,
         BindDefault \/ StartLoop \/ Accept \/ Reject \/ Return \/ Connect(fd) \/ PortsChange \/ Over
  PROVE  /\ UNCHANGED <<loop, live, owed, failed, role, srcfd>>
         /\ pc = "destroyed" <=> pc' = "destroyed"
         /\ EntsOK'
<1>1. UNCHANGED <<loop, live, owed, failed, role, srcfd>> /\ (pc = "destroyed" <=> pc' = "destroyed")
  <2>1. CASE BindDefault
    BY <2>1 DEF BindDefault, connvars, vars, ghosts
  <2>2. CASE StartLoop
    BY <2>2 DEF StartLoop, Start, connvars, ghosts
  <2>3. CASE Accept
    BY <2>3 DEF Accept, connvars, vars, ghosts
  <2>4. CASE Reject
    BY <2>4 DEF Reject, connvars, vars, ghosts
  <2>5. CASE Return
    <3>1. pc = "call" /\ pc' = "scan" /\ UNCHANGED <<ghosts, connvars>>
      BY <2>5 DEF Return, Returns, CallReturns
    <3>2. loop' = loop
      BY <2>5 DEF Return, Returns, CallReturns
    <3> QED  BY <3>1, <3>2 DEF ghosts, connvars
  <2>6. CASE Connect(fd)
    BY <2>6 DEF Connect, connvars, vars, ghosts
  <2>7. CASE PortsChange
    BY <2>7 DEF PortsChange, connvars, vars, ghosts
  <2>8. CASE Over
    BY <2>8 DEF Over, Ended, server, connvars, vars, ghosts
  <2> QED  BY <2>1, <2>2, <2>3, <2>4, <2>5, <2>6, <2>7, <2>8
<1>2. EntsOK'
  BY <1>1 DEF SInv, EntsOK, Held
<1> QED  BY <1>1, <1>2

\* Entries stay registered, owed their free callback and with the descriptor
\* they were registered for.
LEMMA StepEnts == IInv /\ SInv /\ ServerNext => EntsOK'
<1> SUFFICES ASSUME IInv, SInv, ServerNext PROVE EntsOK'
  OBVIOUS
<1>1. ASSUME TakeEnt PROVE EntsOK'
  <2>1. pc = "setup" /\ ents # <<>> /\ ents \in Seq(Fds) /\ UNCHANGED <<pc, scanvars, misfreed>>
    BY <1>1 DEF TakeEnt, SInv, ServerTypes
  <2>2. Last(ents) \in Fds
    BY <2>1 DEF Last
  <2>3. CASE CanRegister(loop)
    BY <1>1, <2>1, <2>2, <2>3, RegistersHolds DEF TakeEnt, Roles
  <2>4. CASE ~CanRegister(loop)
    BY <1>1, <2>4 DEF TakeEnt, SInv, EntsOK, Held
  <2> QED  BY <2>3, <2>4
<1>2. ASSUME Poll \/ Loop \/ Interrupt PROVE EntsOK'
  BY <1>2, LoopStep DEF SInv, EntsOK, Held, server, connvars
<1>3. ASSUME DestroyAll PROVE EntsOK'
  BY <1>3 DEF DestroyAll, Destroy, EntsOK
<1>4. ASSUME AddConn PROVE EntsOK'
  BY <1>4, RegistersHolds DEF AddConn, Calling, SInv, ServerTypes, Roles
<1>5. ASSUME ReceiveHeaders PROVE EntsOK'
  <2>1. {"OUT"} \in Conds /\ pc = "call" /\ step # "return"
    BY <1>5, MidnightServerAssumption DEF ReceiveHeaders, Calling
  <2> QED  BY <1>5, <2>1, AwaitsHolds DEF ReceiveHeaders
<1>6. ASSUME ReadHeaders PROVE EntsOK'
  <2>1. {"OUT"} \in Conds /\ pc = "call" /\ step # "return"
    BY <1>6, MidnightServerAssumption DEF ReadHeaders, Calling
  <2> QED  BY <1>6, <2>1, AwaitsHolds DEF ReadHeaders
<1>7. ASSUME SendFile PROVE EntsOK'
  <2>1. {"OUT"} \in Conds /\ pc = "call" /\ step # "return"
    BY <1>7, MidnightServerAssumption DEF SendFile, Calling
  <2> QED  BY <1>7, <2>1, AwaitsHolds DEF SendFile
<1>8. ASSUME KeepAlive PROVE EntsOK'
  <2>1. {"IN"} \in Conds /\ {"OUT"} \in Conds /\ pc = "call" /\ step # "return"
    BY <1>8, MidnightServerAssumption DEF KeepAlive, Calling
  <2> QED  BY <1>8, <2>1, AwaitsHolds DEF KeepAlive
<1>9. ASSUME Terminate PROVE EntsOK'
  BY <1>9, TerminateHolds
<1>10. ASSUME NEW fd \in Fds,
              BindDefault \/ StartLoop \/ Accept \/ Reject \/ Return \/ Connect(fd) \/ PortsChange \/ Over
       PROVE  EntsOK'
  BY <1>10, OtherStep
<1>11. -1 \in Fds
  BY MidnightServerAssumption
<1> QED
  BY <1>1, <1>2, <1>3, <1>4, <1>5, <1>6, <1>7, <1>8, <1>9, <1>10, <1>11 DEF ServerNext, Callback

\* Types are kept, and a callback has locals only while it runs.
LEMMA StepTypes == IInv /\ SInv /\ ServerNext => ServerTypes'
<1> SUFFICES ASSUME IInv, SInv, ServerNext PROVE ServerTypes'
  OBVIOUS
<1> USE DEF ServerTypes
<1>1. ServerTypes /\ -1 \in Fds /\ {"IN"} \in Conds /\ {"OUT"} \in Conds
  BY MidnightServerAssumption DEF SInv
<1>2. ASSUME FreeFds # {} PROVE NewFd \in Fds
  BY <1>1, <1>2, NewFdFree DEF FreeFds
<1>3. ASSUME TakeEnt PROVE ServerTypes'
  <2>1. pc = "setup" /\ ents # <<>> /\ UNCHANGED <<pc, scanvars, misfreed>>
    BY <1>3 DEF TakeEnt
  <2>2. Last(ents) \in Fds
    BY <1>1, <2>1 DEF Last
  <2>3. ents' \in Seq(Fds)
    BY <1>1, <1>3, <2>1, SubSeqProperties DEF TakeEnt, Front
  <2>4. role' \in [Slots -> Roles]
    <3>1. CASE CanRegister(loop)
      BY <1>1, <1>3, <2>1, <2>2, <3>1, RegistersHolds DEF TakeEnt, Roles
    <3>2. CASE ~CanRegister(loop)
      BY <1>1, <1>3, <3>2 DEF TakeEnt
    <3> QED  BY <3>1, <3>2
  <2> QED  BY <1>1, <1>3, <2>1, <2>3, <2>4 DEF TakeEnt, callvars
<1>4. ASSUME BindDefault PROVE ServerTypes'
  <2>1. ents' \in Seq(Fds)
    <3>1. CASE default \in bindable /\ FreeFds # {}
      <4>1. NewFd \in Fds /\ ents' = <<NewFd>>
        BY <1>2, <1>4, <3>1 DEF BindDefault
      <4> QED  BY <4>1
    <3>2. CASE ~(default \in bindable /\ FreeFds # {})
      BY <1>1, <1>4, <3>2 DEF BindDefault
    <3> QED  BY <3>1, <3>2
  <2> QED  BY <1>1, <1>4, <2>1 DEF BindDefault, callvars, connvars, vars
<1>5. ASSUME StartLoop PROVE ServerTypes'
  BY <1>1, <1>5 DEF StartLoop, Start, callvars, connvars
<1>6. ASSUME Poll \/ Loop \/ Interrupt PROVE ServerTypes'
  <2>1. UNCHANGED server /\ pc # "setup" /\ (pc' # "call" => pc # "call")
    BY <1>6, LoopStep
  <2> QED  BY <1>1, <2>1 DEF server, startvars, callvars, connvars
<1>7. ASSUME DestroyAll PROVE ServerTypes'
  BY <1>1, <1>7 DEF DestroyAll, Destroy, startvars, callvars, connvars
<1>8. ASSUME NEW fd \in Fds, Connect(fd) \/ PortsChange \/ Over PROVE ServerTypes'
  BY <1>1, <1>8 DEF Connect, PortsChange, Over, Ended, server, startvars, callvars, connvars, vars
<1>9. ASSUME Accept PROVE ServerTypes'
  <2>1. sock' \in Fds
    BY <1>1, <1>2, <1>9 DEF Accept
  <2>2. pc = "call" /\ step' = "accepted"
    BY <1>9 DEF Accept, Calling
  <2>3. UNCHANGED <<pc, ents, nofile, role, srcfd>>
    BY <1>9 DEF Accept, startvars, connvars, vars
  <2> QED  BY <1>1, <2>1, <2>2, <2>3
<1>10. ASSUME Reject PROVE ServerTypes'
  BY <1>1, <1>10 DEF Reject, Calling, startvars, connvars, vars
<1>11. ASSUME AddConn PROVE ServerTypes'
  <2>1. role' \in [Slots -> Roles]
    BY <1>1, <1>11, RegistersHolds DEF AddConn, Calling, Roles
  <2> QED  BY <1>1, <1>11, <2>1 DEF AddConn, Calling, startvars
<1>12. ASSUME NEW callback \in Roles, NEW cond, cond \in Conds \/ cond = loop.entfds[idx].events,
              NEW at \in {"return", "close", "keepalive"}, Awaits(callback, cond, at), pc = "call",
              step # "return", srcfd' \in [Slots -> Fds]
       PROVE  ServerTypes'
  <2>1. pc' = "call" /\ step' = at /\ UNCHANGED <<startvars, sock>>
    BY <1>12, AwaitsHolds
  <2>2. role' \in [Slots -> Roles]
    BY <1>1, <1>12 DEF Awaits
  <2> QED  BY <1>1, <1>12, <2>1, <2>2 DEF startvars
<1>13. ASSUME ReceiveHeaders PROVE ServerTypes'
  BY <1>1, <1>12, <1>13 DEF ReceiveHeaders, Calling, Roles
<1>14. ASSUME ReadHeaders PROVE ServerTypes'
  <2>1. srcfd' \in [Slots -> Fds]
    BY <1>1, <1>2, <1>14 DEF ReadHeaders
  <2> QED  BY <1>1, <1>12, <1>14, <2>1 DEF ReadHeaders, Calling, Roles
<1>15. ASSUME SendFile PROVE ServerTypes'
  BY <1>1, <1>12, <1>15 DEF SendFile, Calling, Roles
<1>16. ASSUME KeepAlive PROVE ServerTypes'
  BY <1>1, <1>12, <1>16 DEF KeepAlive, Calling, Roles
<1>17. ASSUME Terminate PROVE ServerTypes'
  BY <1>1, <1>17 DEF Terminate, Calling, Roles, startvars
<1>18. ASSUME Return PROVE ServerTypes'
  BY <1>1, <1>18 DEF Return, Returns, CallReturns, startvars, connvars
<1> QED
  BY <1>1, <1>3, <1>4, <1>5, <1>6, <1>7, <1>8, <1>9, <1>10, <1>11, <1>13, <1>14, <1>15, <1>16, <1>17, <1>18
  DEF ServerNext, Callback

\* The entry of a callback that has not ended its connection is held, and no
\* connection is left with a file but the one that sends it.
LEMMA StepRoles == IInv /\ SInv /\ ServerNext => RolesOK'
<1> SUFFICES ASSUME IInv, SInv, ServerNext PROVE RolesOK'
  OBVIOUS
<1> USE DEF RolesOK
<1>1. ServerTypes /\ RolesOK /\ -1 \in Fds /\ {"IN"} \in Conds /\ {"OUT"} \in Conds
  BY MidnightServerAssumption DEF SInv
<1>2. ASSUME TakeEnt PROVE RolesOK'
  <2>1. pc = "setup" /\ ents # <<>> /\ UNCHANGED <<pc, scanvars, misfreed, srcfd, step>>
    BY <1>2 DEF TakeEnt, callvars
  <2>2. Last(ents) \in Fds
    BY <1>1, <2>1 DEF Last, ServerTypes
  <2>3. CASE CanRegister(loop)
    <3>1. PICK s \in Slots \ live :
            /\ role' = [role EXCEPT ![s] = "listen_accept"] /\ role[s] # "resp_send_file"
            /\ Held \subseteq Held'
      BY <1>2, <2>1, <2>2, <2>3, RegistersHolds DEF TakeEnt, Roles
    <3> QED  BY <1>1, <2>1, <3>1 DEF ServerTypes
  <2>4. CASE ~CanRegister(loop)
    BY <1>1, <1>2, <2>4 DEF TakeEnt, Held
  <2> QED  BY <2>3, <2>4
<1>3. ASSUME Poll \/ Loop \/ Interrupt PROVE RolesOK'
  <2>1. UNCHANGED <<role, srcfd, step>> /\ Held' = Held /\ pc # "destroyed"
    BY <1>3, LoopStep DEF server, connvars, callvars, Held
  <2> QED  BY <1>1, <1>3, <2>1, LoopStep
<1>4. ASSUME DestroyAll PROVE RolesOK'
  BY <1>1, <1>4 DEF DestroyAll, Destroy, connvars
<1>5. ASSUME NEW fd \in Fds,
             BindDefault \/ StartLoop \/ Accept \/ Reject \/ Return \/ Connect(fd) \/ PortsChange \/ Over
      PROVE  RolesOK'
  <2>1. UNCHANGED <<role, srcfd>> /\ Held' = Held /\ (pc = "destroyed" <=> pc' = "destroyed")
    BY <1>5, OtherStep DEF Held
  <2>2. pc' = "call" /\ step' # "return" => idx' \in Held
    <3>1. CASE Accept \/ Reject
      BY <1>1, <3>1 DEF Accept, Reject, Calling, vars, scanvars
    <3>2. CASE Return
      BY <3>2 DEF Return, Returns, CallReturns
    <3>3. CASE BindDefault \/ StartLoop
      BY <1>1, <3>3 DEF BindDefault, StartLoop, Start, vars
    <3>4. CASE Connect(fd) \/ PortsChange \/ Over
      BY <1>1, <3>4 DEF Connect, PortsChange, Over, Ended, server, callvars, vars, scanvars
    <3> QED  BY <1>5, <3>1, <3>2, <3>3, <3>4
  <2> QED  BY <1>1, <2>1, <2>2
<1>6. ASSUME AddConn PROVE RolesOK'
  <2>1. sock \in Fds /\ pc = "call" /\ step' = "return" /\ srcfd' = srcfd /\ pc' = pc
    BY <1>1, <1>6 DEF AddConn, Calling, ServerTypes
  <2>2. PICK s \in Slots \ live :
          /\ role' = [role EXCEPT ![s] = "conn_init"] /\ role[s] # "resp_send_file"
          /\ Held \subseteq Held'
    BY <1>6, <2>1, RegistersHolds DEF AddConn, Calling, Roles
  <2> QED  BY <1>1, <2>1, <2>2 DEF ServerTypes
<1>7. ASSUME NEW callback \in Roles, NEW cond, cond \in Conds \/ cond = loop.entfds[idx].events,
             NEW at, Awaits(callback, cond, at), pc = "call", step # "return",
             \A s \in Slots \ {idx} : srcfd'[s] = srcfd[s],
             callback # "resp_send_file" => srcfd'[idx] = -1
      PROVE  RolesOK'
  BY <1>1, <1>7, AwaitsHolds DEF ServerTypes
<1>8. ASSUME ReceiveHeaders PROVE RolesOK'
  <2>1. srcfd'[idx] = -1 /\ srcfd' = srcfd
    BY <1>1, <1>8, LoopFacts DEF ReceiveHeaders, Calling, Held
  <2> QED  BY <1>1, <1>7, <1>8, <2>1 DEF ReceiveHeaders, Calling, Roles
<1>9. ASSUME ReadHeaders PROVE RolesOK'
  <2>1. srcfd[idx] = -1 /\ idx \in Slots
    BY <1>1, <1>9, LoopFacts DEF ReadHeaders, Calling, Held
  <2>2. \A s \in Slots \ {idx} : srcfd'[s] = srcfd[s]
    BY <1>1, <1>9 DEF ReadHeaders, ServerTypes
  <2> QED  BY <1>1, <1>7, <1>9, <2>1, <2>2 DEF ReadHeaders, Calling, Roles
<1>10. ASSUME SendFile PROVE RolesOK'
  BY <1>1, <1>7, <1>10 DEF SendFile, Calling, Roles
<1>11. ASSUME KeepAlive PROVE RolesOK'
  <2>1. idx \in Slots
    BY <1>1, <1>11, LoopFacts DEF KeepAlive, Calling, Held
  <2>2. srcfd'[idx] = -1 /\ \A s \in Slots \ {idx} : srcfd'[s] = srcfd[s]
    BY <1>1, <1>11, <2>1 DEF KeepAlive, ServerTypes
  <2> QED  BY <1>1, <1>7, <1>11, <2>2 DEF KeepAlive, Calling, Roles
<1>12. ASSUME Terminate PROVE RolesOK'
  BY <1>1, <1>12, TerminateHolds DEF Terminate, ServerTypes
<1> QED
  BY <1>1, <1>2, <1>3, <1>4, <1>5, <1>6, <1>8, <1>9, <1>10, <1>11, <1>12 DEF ServerNext, Callback

-----------------------------------------------------------------------------
(* What the steps do to the claims. *)

\* A claim tells its kind: one kind is never taken for another.
LEMMA Kinds ==
  /\ \A c \in HeldClaims : c[1] = "held"
  /\ \A c \in SourceClaims : c[1] = "source"
  /\ \A c \in LocalClaims : c[1] = "local"
  /\ \A c \in EntClaims : c[1] = "ent"
  /\ \A c \in DeafClaims : c[1] = "deaf"
BY DEF HeldClaims, SourceClaims, LocalClaims, EntClaims, DeafClaims

\* Entries that stay held keep what they claim.
LEMMA HeldKept ==
  ASSUME Held' = Held, \A s \in Held : loop'.entarr[s] = loop.entarr[s]
  PROVE  HeldClaims' = HeldClaims
BY DEF HeldClaims

\* Requests keep their files as long as no callback closes or opens one.
LEMMA SourceKept ==
  ASSUME UNCHANGED <<role, srcfd>>, step \in {"call", "accepted", "return"},
         step' \in {"call", "accepted", "return"}
  PROVE  SourceClaims' = SourceClaims
<1>1. Sending' = Sending
  BY DEF Sending, Closing
<1> QED  BY <1>1 DEF SourceClaims

\* A slot that is taken anew sends no file.
LEMMA SourceRegistered ==
  ASSUME role \in [Slots -> Roles], UNCHANGED srcfd, step \in {"call", "accepted", "return"},
         step' \in {"call", "accepted", "return"}, NEW s \in Slots, role[s] # "resp_send_file",
         NEW callback \in Roles \ {"resp_send_file"}, role' = [role EXCEPT ![s] = callback]
  PROVE  SourceClaims' = SourceClaims
<1>1. Sending' = Sending
  BY DEF Sending, Closing
<1> QED  BY <1>1 DEF SourceClaims

\* Nobody else's claim changes when the running callback's does.
LEMMA OthersKept ==
  ASSUME ents' = ents, deaf' = deaf
  PROVE  EntClaims' = EntClaims /\ DeafClaims' = DeafClaims
BY DEF EntClaims, DeafClaims

\* A socket that is taken from the stack is the loop's, or listens without it.
LEMMA TakeEntOwners == IInv /\ SInv /\ TakeEnt => OwnersOK'
<1> SUFFICES ASSUME IInv, SInv, TakeEnt PROVE OwnersOK'
  OBVIOUS
<1> DEFINE fd == Last(ents)
           c  == <<"ent", Len(ents), fd>>
<1>1. pc = "setup" /\ step = "call" /\ UNCHANGED <<pc, scanvars, misfreed, srcfd, step, sock, open, badclose>>
  BY DEF TakeEnt, callvars, kernelvars, SInv, ServerTypes
<1>2. Exact(Claims, open) /\ -1 \notin open /\ badclose = FALSE
  BY <1>1 DEF SInv, OwnersOK
<1>3. ents \in Seq(Fds) /\ ents # <<>> /\ ents' = SubSeq(ents, 1, Len(ents) - 1) /\ role \in [Slots -> Roles]
  BY DEF TakeEnt, SInv, ServerTypes, Front
<1>4. /\ Len(ents) \in Nat \ {0} /\ Len(ents') = Len(ents) - 1
      /\ \A n \in 1 .. Len(ents') : ents'[n] = ents[n]
  <2>1. Len(ents) \in Nat \ {0}
    BY <1>3, EmptySeq, LenProperties
  <2>2. PICK n \in Nat : n = Len(ents) - 1
    BY <2>1
  <2>3. \A m \in 1 .. n : ents[m] \in Fds
    BY <1>3, <2>1, <2>2, ElementOfSeq
  <2>4. Len(ents') = n /\ \A m \in 1 .. n : ents'[m] = ents[m]
    BY <1>3, <2>2, <2>3, SubSeqProperties
  <2> QED  BY <2>1, <2>2, <2>4
<1>5. fd \in Fds /\ c \in EntClaims
  BY <1>3, <1>4 DEF Last, EntClaims
<1>6. EntClaims' = EntClaims \ {c}
  <2>1. \A n : n \in 1 .. Len(ents') <=> n \in 1 .. Len(ents) /\ n # Len(ents)
    BY <1>4
  <2>2. \A n \in 1 .. Len(ents') : <<"ent", n, ents'[n]>> = <<"ent", n, ents[n]>>
    BY <1>4
  <2>3. EntClaims' = {<<"ent", n, ents[n]>> : n \in 1 .. Len(ents')}
    BY <2>2 DEF EntClaims
  <2>4. c = <<"ent", Len(ents), ents[Len(ents)]>>
    BY DEF Last
  <2> QED  BY <2>1, <2>3, <2>4 DEF EntClaims
<1>7. fd \in open /\ fd # -1
  BY <1>2, <1>5 DEF Exact, Claims
<1>8. LocalClaims' = LocalClaims
  BY <1>1 DEF LocalClaims
<1>9. \E d : d[3] = fd /\ Claims' = (Claims \ {c}) \cup {d}
  <2>1. CASE CanRegister(loop)
    <3> DEFINE s == zstk_top(loop.freestk)
               d == <<"held", s, fd>>
    <3>1. Registers(fd, "listen_accept") /\ UNCHANGED deaf
      BY <2>1 DEF TakeEnt
    <3>2. /\ s \in Slots \ live /\ Held' = Held \cup {s} /\ loop'.entarr[s].fd = fd
          /\ \A t \in live : loop'.entarr[t] = loop.entarr[t]
          /\ role' = [role EXCEPT ![s] = "listen_accept"] /\ role[s] # "resp_send_file"
      BY <1>1, <1>5, <1>7, <2>1, <3>1, RegistersHolds DEF Roles
    <3> HIDE DEF s
    <3>3. HeldClaims' = HeldClaims \cup {d}
      BY <3>2 DEF HeldClaims, Held
    <3>4. SourceClaims' = SourceClaims
      BY <1>1, <1>3, <3>2, SourceRegistered DEF Roles
    <3>5. DeafClaims' = DeafClaims
      BY <3>1 DEF DeafClaims
    <3>6. Claims' = (Claims \ {c}) \cup {d}
      BY <1>6, <1>8, <3>3, <3>4, <3>5, Kinds DEF Claims
    <3> QED  BY <3>6
  <2>2. CASE ~CanRegister(loop)
    <3> DEFINE d == <<"deaf", 0, fd>>
    <3>1. deaf' = deaf \cup {fd} /\ UNCHANGED <<loop, live, failed, role>>
      BY <2>2 DEF TakeEnt
    <3>2. DeafClaims' = DeafClaims \cup {d}
      BY <3>1 DEF DeafClaims
    <3>3. HeldClaims' = HeldClaims
      BY <3>1, HeldKept DEF Held
    <3>4. SourceClaims' = SourceClaims
      BY <1>1, <3>1, SourceKept
    <3>5. Claims' = (Claims \ {c}) \cup {d}
      BY <1>6, <1>8, <3>2, <3>3, <3>4, Kinds DEF Claims
    <3> QED  BY <3>5
  <2> QED  BY <2>1, <2>2
<1>10. Exact(Claims', open)
  <2>1. c \in Claims /\ c[3] = fd
    BY <1>5 DEF Claims
  <2> HIDE DEF c
  <2> QED  BY <1>2, <1>9, <2>1, ClaimMoves
<1> QED  BY <1>1, <1>2, <1>10 DEF OwnersOK, Exact

\* The default address gets its socket a descriptor that was free, if any.
LEMMA BindOwners == SInv /\ BindDefault => OwnersOK'
<1> SUFFICES ASSUME SInv, BindDefault PROVE OwnersOK'
  OBVIOUS
<1>1. /\ pc = "setup" /\ pc' = pc /\ step = "call" /\ ents = <<>>
      /\ UNCHANGED <<loop, live, failed, role, srcfd, step, sock, badclose, deaf>>
  BY DEF BindDefault, vars, ghosts, connvars, callvars, SInv, ServerTypes
<1>2. Exact(Claims, open) /\ -1 \notin open /\ badclose = FALSE
  BY <1>1 DEF SInv, OwnersOK
<1>3. HeldClaims' = HeldClaims /\ SourceClaims' = SourceClaims /\ LocalClaims' = LocalClaims
      /\ DeafClaims' = DeafClaims
  BY <1>1, HeldKept, SourceKept DEF Held, LocalClaims, DeafClaims
<1>4. CASE UNCHANGED <<ents, open>>
  <2>1. Claims' = Claims
    BY <1>1, <1>3, <1>4, OthersKept DEF Claims
  <2> QED  BY <1>1, <1>2, <1>4, <2>1 DEF OwnersOK
<1>5. CASE FreeFds # {} /\ ents' = <<NewFd>> /\ open' = open \cup {NewFd}
  <2> DEFINE c == <<"ent", 1, NewFd>>
  <2>1. NewFd \in Nat /\ NewFd \notin open
    BY <1>5, NewFdFree DEF FreeFds, SInv, ServerTypes
  <2>2. EntClaims = {} /\ EntClaims' = {c}
    BY <1>1, <1>5 DEF EntClaims
  <2>3. Claims' = Claims \cup {c}
    BY <1>3, <2>2 DEF Claims
  <2>4. c[3] = NewFd
    OBVIOUS
  <2> HIDE DEF c
  <2>5. Exact(Claims', open')
    BY <1>2, <1>5, <2>1, <2>3, <2>4, ClaimNew
  <2> QED  BY <1>1, <1>2, <1>5, <2>1, <2>5 DEF OwnersOK
<1> QED  BY <1>4, <1>5 DEF BindDefault

\* accept hands out a descriptor that was free, or none.
LEMMA AcceptOwners == SInv /\ Accept => OwnersOK'
<1> SUFFICES ASSUME SInv, Accept PROVE OwnersOK'
  OBVIOUS
<1>1. /\ pc = "call" /\ pc' = pc /\ step = "call" /\ step' = "accepted"
      /\ UNCHANGED <<loop, live, failed, role, srcfd, ents, badclose, deaf>>
  BY DEF Accept, Calling, vars, ghosts, connvars, startvars
<1>2. Exact(Claims, open) /\ -1 \notin open /\ badclose = FALSE
  BY <1>1 DEF SInv, OwnersOK
<1>3. HeldClaims' = HeldClaims /\ SourceClaims' = SourceClaims /\ EntClaims' = EntClaims
      /\ DeafClaims' = DeafClaims /\ LocalClaims = {}
  BY <1>1, HeldKept, SourceKept, OthersKept DEF Held, LocalClaims
<1>4. CASE sock' = -1 /\ UNCHANGED open
  <2>1. LocalClaims' = {}
    BY <1>4 DEF LocalClaims
  <2>2. Claims' = Claims
    BY <1>3, <2>1 DEF Claims
  <2> QED  BY <1>1, <1>2, <1>4, <2>2 DEF OwnersOK
<1>5. CASE FreeFds # {} /\ sock' = NewFd /\ open' = open \cup {NewFd}
  <2> DEFINE c == <<"local", 0, NewFd>>
  <2>1. NewFd \in Nat /\ NewFd \notin open
    BY <1>5, NewFdFree DEF FreeFds, SInv, ServerTypes
  <2>2. LocalClaims' = {c}
    BY <1>1, <1>5, <2>1 DEF LocalClaims
  <2>3. Claims' = Claims \cup {c}
    BY <1>3, <2>2 DEF Claims
  <2>4. c[3] = NewFd
    OBVIOUS
  <2> HIDE DEF c
  <2>5. Exact(Claims', open')
    BY <1>2, <1>5, <2>1, <2>3, <2>4, ClaimNew
  <2> QED  BY <1>1, <1>2, <1>5, <2>1, <2>5 DEF OwnersOK
<1> QED  BY <1>4, <1>5 DEF Accept

\* The client that is sent away was listen_accept's.
LEMMA RejectOwners == SInv /\ Reject => OwnersOK'
<1> SUFFICES ASSUME SInv, Reject PROVE OwnersOK'
  OBVIOUS
<1>1. /\ pc = "call" /\ pc' = pc /\ step = "accepted" /\ step' = "return"
      /\ UNCHANGED <<loop, live, failed, role, srcfd, ents, deaf>>
      /\ open' = open \ {sock} /\ badclose' = (badclose \/ ~({sock} \ {-1} \subseteq open))
  BY DEF Reject, Calling, vars, ghosts, connvars, startvars, Close, Closes
<1>2. Exact(Claims, open) /\ -1 \notin open /\ badclose = FALSE
  BY <1>1 DEF SInv, OwnersOK
<1>3. HeldClaims' = HeldClaims /\ SourceClaims' = SourceClaims /\ EntClaims' = EntClaims
      /\ DeafClaims' = DeafClaims /\ LocalClaims' = {}
  BY <1>1, HeldKept, SourceKept, OthersKept DEF Held, LocalClaims
<1>4. LocalClaims = IF sock # -1 THEN {<<"local", 0, sock>>} ELSE {}
  BY <1>1 DEF LocalClaims
<1>5. Claims' = Claims \ LocalClaims
  BY <1>3, Kinds DEF Claims
<1>6. LocalClaims \subseteq Claims /\ open' = open \ {c[3] : c \in LocalClaims}
  <2>1. CASE sock = -1
    BY <1>1, <1>2, <1>4, <2>1
  <2>2. CASE sock # -1
    <3>1. {c[3] : c \in LocalClaims} = {sock}
      BY <1>4, <2>2
    <3> QED  BY <1>1, <3>1 DEF Claims
  <2> QED  BY <2>1, <2>2
<1>7. Exact(Claims', open')
  BY <1>2, <1>5, <1>6, ClaimEnds
<1>8. sock # -1 => sock \in open
  BY <1>2, <1>4 DEF Exact, Claims
<1> QED  BY <1>1, <1>2, <1>7, <1>8 DEF OwnersOK

\* The connection passes from listen_accept to its entry.
LEMMA AddConnOwners == IInv /\ SInv /\ AddConn => OwnersOK'
<1> SUFFICES ASSUME IInv, SInv, AddConn PROVE OwnersOK'
  OBVIOUS
<1> DEFINE s == zstk_top(loop.freestk)
           c == <<"local", 0, sock>>
           d == <<"held", s, sock>>
<1>1. /\ pc = "call" /\ pc' = pc /\ step = "accepted" /\ step' = "return" /\ CanRegister(loop)
      /\ Registers(sock, "conn_init") /\ UNCHANGED <<pc, scanvars, misfreed>>
      /\ UNCHANGED <<srcfd, ents, deaf, open, badclose>>
      /\ sock \in Fds /\ role \in [Slots -> Roles]
  BY DEF AddConn, Calling, startvars, kernelvars, SInv, ServerTypes
<1>2. Exact(Claims, open) /\ -1 \notin open /\ badclose = FALSE
  BY <1>1 DEF SInv, OwnersOK
<1>3. /\ s \in Slots \ live /\ loop'.entarr[s].fd = sock
      /\ Held' = IF sock = -1 THEN Held ELSE Held \cup {s}
      /\ \A t \in live : loop'.entarr[t] = loop.entarr[t]
      /\ role' = [role EXCEPT ![s] = "conn_init"] /\ role[s] # "resp_send_file"
  BY <1>1, RegistersHolds DEF Roles
<1> HIDE DEF s
<1>4. SourceClaims' = SourceClaims
  BY <1>1, <1>3, SourceRegistered DEF Roles
<1>5. EntClaims' = EntClaims /\ DeafClaims' = DeafClaims /\ LocalClaims' = {}
  BY <1>1, OthersKept DEF LocalClaims
<1>6. CASE sock = -1
  <2>1. LocalClaims = {} /\ HeldClaims' = HeldClaims
    BY <1>3, <1>6 DEF LocalClaims, HeldClaims, Held
  <2>2. Claims' = Claims
    BY <1>4, <1>5, <2>1 DEF Claims
  <2> QED  BY <1>1, <1>2, <2>2 DEF OwnersOK
<1>7. CASE sock # -1
  <2>1. LocalClaims = {c}
    BY <1>1, <1>7 DEF LocalClaims
  <2>2. HeldClaims' = HeldClaims \cup {d}
    BY <1>3, <1>7 DEF HeldClaims, Held
  <2>3. Claims' = (Claims \ {c}) \cup {d}
    BY <1>4, <1>5, <2>1, <2>2, Kinds DEF Claims
  <2>4. c \in Claims /\ c[3] = d[3]
    BY <2>1 DEF Claims
  <2> HIDE DEF c, d
  <2>5. Exact(Claims', open)
    BY <1>2, <2>3, <2>4, ClaimMoves
  <2> QED  BY <1>1, <1>2, <2>5 DEF OwnersOK
<1> QED  BY <1>6, <1>7

\* What a connection's callback that keeps its entry leaves as it was.
LEMMA AwaitsOwners ==
  ASSUME IInv, SInv, pc = "call", step \in {"call", "keepalive"}, NEW callback, NEW cond,
         NEW at \in {"return", "close", "keepalive"},
         Awaits(callback, cond, at), cond \in Conds \/ cond = loop.entfds[idx].events
  PROVE  /\ pc' # "destroyed" /\ step' = at /\ idx' = idx /\ idx \in Slots
         /\ role' = [role EXCEPT ![idx] = callback]
         /\ Exact(Claims, open) /\ -1 \notin open /\ badclose = FALSE
         /\ Claims = HeldClaims \cup SourceClaims \cup EntClaims \cup DeafClaims
         /\ Claims' = HeldClaims \cup SourceClaims' \cup EntClaims \cup DeafClaims
<1>1. /\ idx \in Slots /\ Held' = Held /\ loop'.entarr = loop.entarr /\ idx' = idx /\ pc' = pc
      /\ step' = at /\ role' = [role EXCEPT ![idx] = callback] /\ UNCHANGED <<startvars, sock>>
  BY AwaitsHolds
<1>2. HeldClaims' = HeldClaims /\ EntClaims' = EntClaims /\ DeafClaims' = DeafClaims
      /\ LocalClaims' = {} /\ LocalClaims = {}
  BY <1>1, HeldKept, OthersKept DEF startvars, LocalClaims
<1>3. Exact(Claims, open) /\ -1 \notin open /\ badclose = FALSE
  BY DEF SInv, OwnersOK
<1> QED  BY <1>1, <1>2, <1>3 DEF Claims

\* While its header is read a connection has no file.
LEMMA ReceiveOwners == IInv /\ SInv /\ ReceiveHeaders => OwnersOK'
<1> SUFFICES ASSUME IInv, SInv, ReceiveHeaders PROVE OwnersOK'
  OBVIOUS
<1>1. /\ pc = "call" /\ step = "call" /\ role[idx] # "resp_send_file"
      /\ UNCHANGED <<srcfd, open, badclose>> /\ role \in [Slots -> Roles]
  BY DEF ReceiveHeaders, Calling, kernelvars, SInv, ServerTypes
<1>2. PICK callback \in {"req_recv_headers", "req_read_headers"},
           cond \in Conds \cup {loop.entfds[idx].events}, at \in {"return", "close"} :
        Awaits(callback, cond, at)
  BY MidnightServerAssumption DEF ReceiveHeaders
<1>3. /\ pc' # "destroyed" /\ step' = at /\ idx' = idx /\ idx \in Slots
      /\ role' = [role EXCEPT ![idx] = callback]
      /\ Exact(Claims, open) /\ -1 \notin open /\ badclose = FALSE
      /\ Claims = HeldClaims \cup SourceClaims \cup EntClaims \cup DeafClaims
      /\ Claims' = HeldClaims \cup SourceClaims' \cup EntClaims \cup DeafClaims
  BY <1>1, <1>2, AwaitsOwners
<1>4. Sending' = Sending
  BY <1>1, <1>3 DEF Sending, Closing
<1>5. Claims' = Claims
  BY <1>1, <1>3, <1>4 DEF SourceClaims
<1> QED  BY <1>1, <1>3, <1>5 DEF OwnersOK

\* The file that is opened is the request's.
LEMMA ReadOwners == IInv /\ SInv /\ ReadHeaders => OwnersOK'
<1> SUFFICES ASSUME IInv, SInv, ReadHeaders PROVE OwnersOK'
  OBVIOUS
<1>1. /\ pc = "call" /\ step = "call" /\ role[idx] = "req_read_headers" /\ badclose' = badclose
      /\ role \in [Slots -> Roles] /\ srcfd \in [Slots -> Fds]
  BY DEF ReadHeaders, Calling, SInv, ServerTypes
<1>2. PICK callback \in {"req_read_headers", "resp_send_file"}, at \in {"return", "close", "keepalive"} :
        Awaits(callback, {"OUT"}, at)
  BY DEF ReadHeaders
<1>3. /\ pc' # "destroyed" /\ step' = at /\ idx' = idx /\ idx \in Slots
      /\ role' = [role EXCEPT ![idx] = callback]
      /\ Exact(Claims, open) /\ -1 \notin open /\ badclose = FALSE
      /\ Claims = HeldClaims \cup SourceClaims \cup EntClaims \cup DeafClaims
      /\ Claims' = HeldClaims \cup SourceClaims' \cup EntClaims \cup DeafClaims
  BY <1>1, <1>2, AwaitsOwners, MidnightServerAssumption
<1>4. srcfd[idx] = -1 /\ idx \notin Sending
  BY <1>1, <1>3 DEF SInv, RolesOK, Sending
<1>5. CASE UNCHANGED <<srcfd, open>>
  <2>1. Sending' = Sending
    BY <1>1, <1>3, <1>4, <1>5 DEF Sending, Closing
  <2>2. Claims' = Claims
    BY <1>3, <1>5, <2>1 DEF SourceClaims
  <2> QED  BY <1>1, <1>3, <1>5, <2>2 DEF OwnersOK
<1>6. CASE /\ FreeFds # {} /\ Awaits("resp_send_file", {"OUT"}, "return")
           /\ srcfd' = [srcfd EXCEPT ![idx] = NewFd] /\ open' = open \cup {NewFd}
  <2> DEFINE c == <<"source", idx, NewFd>>
  <2>1. NewFd \in Nat /\ NewFd \notin open
    BY <1>6, NewFdFree DEF FreeFds, SInv, ServerTypes
  <2>2. step' = "return" /\ role'[idx] = "resp_send_file" /\ \A s \in Slots \ {idx} : role'[s] = role[s]
    BY <1>1, <1>3, <1>6 DEF Awaits
  <2>3. srcfd'[idx] = NewFd /\ \A s \in Slots \ {idx} : srcfd'[s] = srcfd[s]
    BY <1>1, <1>3, <1>6
  <2>4. Sending' = Sending \cup {idx}
    BY <1>1, <1>3, <2>1, <2>2, <2>3 DEF Sending, Closing
  <2>5. SourceClaims' = SourceClaims \cup {c}
    BY <1>4, <2>3, <2>4 DEF SourceClaims, Sending
  <2>6. Claims' = Claims \cup {c} /\ c[3] = NewFd
    BY <1>3, <2>5
  <2> HIDE DEF c
  <2>7. Exact(Claims', open')
    BY <1>3, <1>6, <2>1, <2>6, ClaimNew
  <2> QED  BY <1>1, <1>3, <1>6, <2>1, <2>7 DEF OwnersOK
<1> QED  BY <1>5, <1>6 DEF ReadHeaders

\* A file is closed once, when it has been sent or cannot be.
LEMMA SendOwners == IInv /\ SInv /\ SendFile => OwnersOK'
<1> SUFFICES ASSUME IInv, SInv, SendFile PROVE OwnersOK'
  OBVIOUS
<1>1. /\ pc = "call" /\ step = "call" /\ role[idx] = "resp_send_file" /\ srcfd' = srcfd
      /\ role \in [Slots -> Roles] /\ srcfd \in [Slots -> Fds]
  BY DEF SendFile, Calling, SInv, ServerTypes
<1>2. PICK at \in {"return", "close", "keepalive"} : Awaits("resp_send_file", {"OUT"}, at)
  BY DEF SendFile
<1>3. /\ pc' # "destroyed" /\ step' = at /\ idx' = idx /\ idx \in Slots
      /\ role' = [role EXCEPT ![idx] = "resp_send_file"]
      /\ Exact(Claims, open) /\ -1 \notin open /\ badclose = FALSE
      /\ Claims = HeldClaims \cup SourceClaims \cup EntClaims \cup DeafClaims
      /\ Claims' = HeldClaims \cup SourceClaims' \cup EntClaims \cup DeafClaims
  BY <1>1, <1>2, AwaitsOwners, MidnightServerAssumption
<1>4. role' = role
  BY <1>1, <1>3
<1>5. CASE Awaits("resp_send_file", {"OUT"}, "return") /\ UNCHANGED kernelvars
  <2>1. Sending' = Sending
    BY <1>1, <1>3, <1>4, <1>5 DEF Sending, Closing, Awaits
  <2>2. Claims' = Claims
    BY <1>1, <1>3, <2>1 DEF SourceClaims
  <2> QED  BY <1>3, <1>5, <2>2 DEF OwnersOK, kernelvars
<1>6. ASSUME NEW end \in {"close", "keepalive"}, Awaits("resp_send_file", {"OUT"}, end), Close(srcfd[idx])
      PROVE  OwnersOK'
  <2> DEFINE c == <<"source", idx, srcfd[idx]>>
  <2>1. Sending' = Sending \ {idx}
    BY <1>1, <1>3, <1>4, <1>6 DEF Sending, Closing, Awaits
  <2>2. SourceClaims' = SourceClaims \ {c}
    BY <1>1, <2>1 DEF SourceClaims
  <2>3. Claims' = Claims \ {c}
    BY <1>3, <2>2, Kinds
  <2>4. open' = open \ {srcfd[idx]} /\ badclose' = (badclose \/ ~({srcfd[idx]} \ {-1} \subseteq open))
    BY <1>6 DEF Close, Closes
  <2>5. CASE srcfd[idx] = -1
    <3>1. c \notin SourceClaims
      BY <2>5 DEF SourceClaims, Sending
    <3>2. Claims' = Claims
      BY <2>3, <3>1, <1>3, Kinds
    <3>3. open' = open /\ badclose' = FALSE
      BY <1>3, <2>4, <2>5
    <3> QED  BY <1>3, <3>2, <3>3 DEF OwnersOK
  <2>6. CASE srcfd[idx] # -1
    <3>1. c \in Claims
      BY <1>1, <1>3, <2>6 DEF SourceClaims, Sending, Closing
    <3>2. c[3] = srcfd[idx]
      OBVIOUS
    <3> HIDE DEF c
    <3>3. PICK D : D = {c}
      OBVIOUS
    <3>4. D \subseteq Claims /\ {d[3] : d \in D} = {srcfd[idx]} /\ srcfd[idx] \in open
      BY <1>3, <3>1, <3>2, <3>3 DEF Exact
    <3>5. Exact(Claims \ D, open \ {d[3] : d \in D})
      BY <1>3, <3>4, ClaimEnds
    <3>6. Exact(Claims', open')
      BY <2>3, <2>4, <3>3, <3>4, <3>5
    <3>7. badclose' = FALSE
      BY <1>3, <2>4, <3>4
    <3> QED  BY <1>3, <2>4, <3>6, <3>7 DEF OwnersOK
  <2> QED  BY <2>5, <2>6
<1> QED  BY <1>5, <1>6 DEF SendFile

\* A connection that is kept has no file any more.
LEMMA KeepAliveOwners == IInv /\ SInv /\ KeepAlive => OwnersOK'
<1> SUFFICES ASSUME IInv, SInv, KeepAlive PROVE OwnersOK'
  OBVIOUS
<1>1. /\ pc = "call" /\ step = "keepalive" /\ srcfd' = [srcfd EXCEPT ![idx] = -1]
      /\ UNCHANGED <<open, badclose>> /\ role \in [Slots -> Roles] /\ srcfd \in [Slots -> Fds]
  BY DEF KeepAlive, Calling, kernelvars, SInv, ServerTypes
<1>2. PICK cond \in Conds : Awaits("req_recv_headers", cond, "return")
  BY MidnightServerAssumption DEF KeepAlive
<1>3. /\ pc' # "destroyed" /\ step' = "return" /\ idx' = idx /\ idx \in Slots
      /\ role' = [role EXCEPT ![idx] = "req_recv_headers"]
      /\ Exact(Claims, open) /\ -1 \notin open /\ badclose = FALSE
      /\ Claims = HeldClaims \cup SourceClaims \cup EntClaims \cup DeafClaims
      /\ Claims' = HeldClaims \cup SourceClaims' \cup EntClaims \cup DeafClaims
  BY <1>1, <1>2, AwaitsOwners
<1>4. Sending' = Sending /\ idx \notin Sending
  BY <1>1, <1>3 DEF Sending, Closing
<1>5. SourceClaims' = SourceClaims
  BY <1>1, <1>3, <1>4 DEF SourceClaims, Sending
<1> QED  BY <1>1, <1>3, <1>5 DEF OwnersOK

\* A connection that ends gives up its descriptor with its entry.
LEMMA TerminateOwners == IInv /\ SInv /\ Terminate => OwnersOK'
<1> SUFFICES ASSUME IInv, SInv, Terminate PROVE OwnersOK'
  OBVIOUS
<1> DEFINE fd == loop.entarr[idx].fd
           c  == <<"held", idx, fd>>
<1>1. /\ idx \in Held /\ idx \in Slots /\ pc = "call" /\ Held' = Held \ {idx}
      /\ \A t \in Slots \ {idx} : loop'.entarr[t] = loop.entarr[t]
  BY TerminateHolds
<1>2. /\ step = "close" /\ step' = "return" /\ UNCHANGED <<pc, idx, ents, deaf>>
      /\ role' = [role EXCEPT ![idx] = "none"] /\ srcfd' = [srcfd EXCEPT ![idx] = -1]
      /\ open' = open \ {fd} /\ badclose' = (badclose \/ ~({fd} \ {-1} \subseteq open))
      /\ role \in [Slots -> Roles] /\ srcfd \in [Slots -> Fds]
  BY DEF Terminate, Calling, startvars, scanvars, Close, Closes, SInv, ServerTypes
<1>3. Exact(Claims, open) /\ -1 \notin open /\ badclose = FALSE /\ Held \subseteq Slots
  BY <1>1, LoopFacts DEF SInv, OwnersOK, Held
<1>4. HeldClaims' = HeldClaims \ {c}
  <2>1. \A t \in Held' : <<"held", t, loop'.entarr[t].fd>> = <<"held", t, loop.entarr[t].fd>>
    BY <1>1, <1>3
  <2> QED  BY <1>1, <2>1 DEF HeldClaims
<1>5. SourceClaims' = SourceClaims
  <2>1. Sending' = Sending /\ idx \notin Sending
    BY <1>1, <1>2 DEF Sending, Closing
  <2> QED  BY <1>1, <1>2, <2>1 DEF SourceClaims, Sending
<1>6. EntClaims' = EntClaims /\ DeafClaims' = DeafClaims /\ LocalClaims' = {} /\ LocalClaims = {}
  BY <1>2, OthersKept DEF LocalClaims
<1>7. Claims' = Claims \ {c}
  BY <1>4, <1>5, <1>6, Kinds DEF Claims
<1>8. c \in Claims /\ c[3] = fd
  BY <1>1 DEF Claims, HeldClaims
<1> HIDE DEF c, fd
<1>9. {c} \subseteq Claims /\ {d[3] : d \in {c}} = {fd} /\ fd \in open
  BY <1>3, <1>8 DEF Exact
<1>10. Exact(Claims', open')
  BY <1>2, <1>3, <1>7, <1>9, ClaimEnds
<1> QED  BY <1>1, <1>2, <1>3, <1>9, <1>10 DEF OwnersOK

\* The loop, the signal and the world change no owner.
LEMMA QuietOwners ==
  ASSUME IInv, SInv, NEW fd \in Fds,
         Poll \/ Loop \/ Interrupt \/ StartLoop \/ Return \/ Connect(fd) \/ PortsChange \/ Over
  PROVE  OwnersOK'
<1>1. /\ UNCHANGED <<failed, role, srcfd, ents, deaf, open, badclose, live>> /\ loop'.entarr = loop.entarr
      /\ (pc = "destroyed" <=> pc' = "destroyed")
  <2>1. CASE Poll \/ Loop \/ Interrupt
    BY <2>1, LoopStep DEF server, startvars, connvars, kernelvars
  <2>2. CASE StartLoop
    BY <2>2 DEF StartLoop, Start, ghosts, connvars, kernelvars
  <2>3. CASE Return
    BY <2>3, OtherStep DEF Return, startvars, connvars, kernelvars
  <2>4. CASE Connect(fd) \/ PortsChange \/ Over
    <3>1. UNCHANGED vars
      BY <2>4 DEF Connect, PortsChange, Over, Ended
    <3>2. UNCHANGED <<failed, role, srcfd, ents, deaf, open, badclose>>
      BY <2>4 DEF Connect, PortsChange, Over, server, startvars, connvars, kernelvars
    <3> QED  BY <3>1, <3>2 DEF vars, ghosts
  <2> QED  BY <2>1, <2>2, <2>3, <2>4
<1>2. CASE pc = "destroyed"
  BY <1>1, <1>2 DEF SInv, OwnersOK, SourceFds
<1>3. CASE pc # "destroyed"
  <2>1. HeldClaims' = HeldClaims /\ EntClaims' = EntClaims /\ DeafClaims' = DeafClaims
    BY <1>1, HeldKept, OthersKept DEF Held
  <2>2. SourceClaims' = SourceClaims /\ LocalClaims' = LocalClaims
    <3>1. CASE Return
      <4>1. step = "return" /\ step' = "call"
        BY <3>1 DEF Return, Returns
      <4> QED  BY <1>1, <4>1, SourceKept DEF LocalClaims
    <3>2. CASE Poll \/ Loop \/ Interrupt
      <4>1. UNCHANGED <<step, sock>> /\ (idx' = idx \/ step = "call")
        BY <3>2, LoopStep DEF server, callvars, SInv, ServerTypes
      <4>2. Sending' = Sending
        BY <1>1, <4>1 DEF Sending, Closing
      <4> QED  BY <1>1, <4>1, <4>2 DEF SourceClaims, LocalClaims
    <3>3. CASE StartLoop \/ Connect(fd) \/ PortsChange \/ Over
      <4>1. UNCHANGED <<step, sock, idx>>
        BY <3>3 DEF StartLoop, Start, Connect, PortsChange, Over, Ended, server, callvars, vars, scanvars
      <4>2. Sending' = Sending
        BY <1>1, <4>1 DEF Sending, Closing
      <4> QED  BY <1>1, <4>1, <4>2 DEF SourceClaims, LocalClaims
    <3> QED  BY <3>1, <3>2, <3>3
  <2>3. Claims' = Claims
    BY <2>1, <2>2 DEF Claims
  <2> QED  BY <1>1, <1>3, <2>3 DEF SInv, OwnersOK
<1> QED  BY <1>2, <1>3

\* At the end the free callbacks close what entries claim, and nothing else.
LEMMA DestroyOwners == IInv /\ SInv /\ DestroyAll => OwnersOK'
<1> SUFFICES ASSUME IInv, SInv, DestroyAll PROVE OwnersOK'
  OBVIOUS
<1> DEFINE fds == {loop.entarr[s].fd : s \in FreedByDestroy(loop)}
<1>1. /\ pc \in {"done", "failed"} /\ pc' = "destroyed" /\ step = "call" /\ ents = <<>>
      /\ UNCHANGED <<role, srcfd, deaf>>
      /\ open' = open \ fds /\ badclose' = (badclose \/ ~(fds \ {-1} \subseteq open))
  BY DEF DestroyAll, Destroy, Closes, startvars, connvars, SInv, ServerTypes
<1>2. Exact(Claims, open) /\ -1 \notin open /\ badclose = FALSE
  BY <1>1 DEF SInv, OwnersOK
<1>3. /\ owed = live /\ failed \subseteq live /\ live \subseteq Slots
      /\ \A s \in failed : loop.entarr[s].fd = -1
  BY <1>1, LoopFacts DEF SInv, EntsOK
<1>4. FreedByDestroy(loop) = live
  <2>1. \A s \in Slots \ live : loop.entarr[s].free = FALSE
    BY <1>1 DEF IInv, Coherent, EntriesOK, CallocEnt, MIG_ENT_EMPTY
  <2>2. \A s \in live : loop.entarr[s].free
    BY <1>1, <1>3, LoopFacts
  <2> QED  BY <1>3, <2>1, <2>2 DEF FreedByDestroy
<1>5. \A fd : fd \in fds \ {-1} => \E s \in Held : fd = loop.entarr[s].fd
  BY <1>3, <1>4 DEF Held
<1>6. \A s \in Held : loop.entarr[s].fd \in fds
  BY <1>4 DEF Held
<1> HIDE DEF fds
<1>7. \A s \in Held : <<"held", s, loop.entarr[s].fd>> \in Claims /\ loop.entarr[s].fd \in open
  BY <1>2 DEF Claims, HeldClaims, Exact
<1>8. badclose' = FALSE
  BY <1>1, <1>2, <1>5, <1>7
<1>9. Claims = HeldClaims \cup SourceClaims \cup DeafClaims
  BY <1>1 DEF Claims, LocalClaims, EntClaims
<1>10. /\ \A fd : fd \in SourceFds <=> \E c \in SourceClaims : c[3] = fd
       /\ \A fd : fd \in deaf <=> \E c \in DeafClaims : c[3] = fd
  <2>1. Sending = {s \in Slots : role[s] = "resp_send_file" /\ srcfd[s] # -1}
    BY <1>1 DEF Sending, Closing
  <2>2. \A fd : fd \in SourceFds <=> \E s \in Sending : srcfd[s] = fd
    BY <2>1 DEF SourceFds
  <2>3. ASSUME NEW s \in Sending PROVE \E c \in SourceClaims : c[3] = srcfd[s]
    <3>1. <<"source", s, srcfd[s]>> \in SourceClaims
      BY DEF SourceClaims
    <3> QED  BY <3>1
  <2>4. ASSUME NEW c \in SourceClaims PROVE \E s \in Sending : srcfd[s] = c[3]
    BY DEF SourceClaims
  <2>5. ASSUME NEW fd \in deaf PROVE \E c \in DeafClaims : c[3] = fd
    <3>1. <<"deaf", 0, fd>> \in DeafClaims
      BY DEF DeafClaims
    <3> QED  BY <3>1
  <2>6. ASSUME NEW c \in DeafClaims PROVE c[3] \in deaf
    BY DEF DeafClaims
  <2> QED  BY <2>2, <2>3, <2>4, <2>5, <2>6
<1>11. \A c \in SourceClaims \cup DeafClaims : c[3] \in open \ fds
  <2> SUFFICES ASSUME NEW c \in SourceClaims \cup DeafClaims PROVE c[3] \in open \ fds
    OBVIOUS
  <2>1. c \in Claims /\ c[3] \in open /\ c[1] # "held"
    BY <1>2, <1>9, Kinds DEF Exact
  <2>2. ASSUME NEW s \in Held, c[3] = loop.entarr[s].fd PROVE FALSE
    <3>1. c = <<"held", s, loop.entarr[s].fd>>
      BY <1>2, <1>7, <2>1, <2>2 DEF Exact
    <3> QED  BY <2>1, <3>1
  <2> QED  BY <1>2, <1>5, <2>1, <2>2
<1>12. \A fd \in open \ fds : \E c \in SourceClaims \cup DeafClaims : c[3] = fd
  <2> SUFFICES ASSUME NEW fd \in open \ fds PROVE \E c \in SourceClaims \cup DeafClaims : c[3] = fd
    OBVIOUS
  <2>1. PICK c \in Claims : c[3] = fd
    BY <1>2 DEF Exact
  <2>2. c \notin HeldClaims
    BY <1>6, <2>1 DEF HeldClaims
  <2> QED  BY <1>9, <2>1, <2>2
<1>13. open' = SourceFds \cup deaf
  BY <1>1, <1>10, <1>11, <1>12
<1>14. SourceFds' = SourceFds
  BY <1>1 DEF SourceFds
<1> QED  BY <1>1, <1>2, <1>8, <1>13, <1>14 DEF OwnersOK

\* Every step of the server keeps the invariant.
LEMMA StepSInv == IInv /\ SInv /\ [ServerNext]_allvars => SInv'
<1>1. ASSUME IInv, SInv, ServerNext PROVE SInv'
  <2>1. OwnersOK'
    BY <1>1, TakeEntOwners, BindOwners, AcceptOwners, RejectOwners, AddConnOwners, ReceiveOwners, ReadOwners,
       SendOwners, KeepAliveOwners, TerminateOwners, QuietOwners, DestroyOwners, MidnightServerAssumption
    DEF ServerNext, Callback
  <2> QED  BY <1>1, <2>1, StepTypes, StepRoles, StepEnts DEF SInv
<1>2. ASSUME SInv, UNCHANGED allvars PROVE SInv'
  <2>1. UNCHANGED <<loop, pc, live, owed, idx, ents, role, srcfd, step, sock, nofile, open, badclose, failed, deaf>>
    BY <1>2 DEF allvars, vars, scanvars, ghosts, server, startvars, connvars, callvars, kernelvars
  <2>2. ServerTypes'
    BY <1>2, <2>1 DEF SInv, ServerTypes
  <2>3. Held' = Held /\ Sending' = Sending
    BY <2>1 DEF Held, Sending, Closing
  <2>4. RolesOK' /\ EntsOK'
    BY <1>2, <2>1, <2>3 DEF SInv, RolesOK, EntsOK
  <2>5. Claims' = Claims /\ SourceFds' = SourceFds
    BY <2>1, <2>3 DEF Claims, HeldClaims, SourceClaims, LocalClaims, EntClaims, DeafClaims, SourceFds
  <2>6. OwnersOK'
    BY <1>2, <2>1, <2>5 DEF SInv, OwnersOK
  <2> QED  BY <2>2, <2>4, <2>6 DEF SInv
<1> QED  BY <1>1, <1>2

\* The server starts with the sockets it has bound, each of them its own.
LEMMA InitSInv == ServerInit => SInv
<1> SUFFICES ASSUME ServerInit PROVE SInv
  OBVIOUS
<1>1. PICK s \in Setups : ents = [m \in 1 .. s[1] |-> m + 2] /\ nofile = 3 .. 2 + s[2]
  BY DEF ServerInit
<1>2. s[1] \in Nat /\ s[2] \in Nat /\ s[1] <= s[2] /\ 3 .. 2 + s[2] \subseteq Fds /\ -1 \in Fds
  BY MidnightServerAssumption
<1>3. /\ pc = "setup" /\ live = {} /\ owed = {} /\ failed = {} /\ deaf = {} /\ step = "call" /\ sock = -1
      /\ role = [t \in Slots |-> "none"] /\ srcfd = [t \in Slots |-> -1]
      /\ open = {ents[m] : m \in DOMAIN ents} /\ badclose = FALSE
  BY DEF ServerInit, Init
<1>4. ents \in Seq(Fds) /\ Len(ents) = s[1] /\ \A m \in 1 .. s[1] : ents[m] = m + 2
  <2>1. \A m \in 1 .. s[1] : m + 2 \in 3 .. 2 + s[2]
    BY <1>2
  <2>2. ents \in [1 .. s[1] -> Fds]
    BY <1>1, <1>2, <2>1
  <2>3. PICK n \in Nat : n = s[1]
    BY <1>2
  <2>4. ents \in [1 .. n -> Fds]
    BY <2>2, <2>3
  <2>5. ents \in Seq(Fds) /\ Len(ents) = n
    BY <2>4
  <2> QED  BY <1>1, <2>3, <2>5
<1>5. ServerTypes
  BY <1>1, <1>2, <1>3, <1>4 DEF ServerTypes, Roles
<1>6. RolesOK /\ EntsOK
  BY <1>3 DEF RolesOK, EntsOK, Held
<1>7. Claims = EntClaims
  BY <1>3 DEF Claims, HeldClaims, SourceClaims, LocalClaims, DeafClaims, Held, Sending
<1>8. Exact(EntClaims, open)
  <2>1. ASSUME NEW m \in 1 .. s[1] PROVE <<"ent", m, ents[m]>> \in EntClaims
    BY <1>4 DEF EntClaims
  <2>2. ASSUME NEW c \in EntClaims PROVE c[2] \in 1 .. s[1] /\ c = <<"ent", c[2], c[2] + 2>>
    BY <1>4 DEF EntClaims
  <2>3. \A fd : fd \in open <=> \E m \in 1 .. s[1] : fd = ents[m]
    BY <1>1, <1>3
  <2>4. \A fd : fd \in open <=> \E c \in EntClaims : fd = c[3]
    <3>1. ASSUME NEW c \in EntClaims PROVE c[3] \in open
      BY <1>4, <2>2, <2>3
    <3>2. ASSUME NEW m \in 1 .. s[1] PROVE \E c \in EntClaims : ents[m] = c[3]
      BY <2>1
    <3> QED  BY <2>3, <3>1, <3>2
  <2>5. ASSUME NEW c \in EntClaims, NEW d \in EntClaims, c[3] = d[3] PROVE c = d
    <3>1. c[2] + 2 = d[2] + 2 /\ c[2] \in Int /\ d[2] \in Int
      BY <1>2, <2>2, <2>5
    <3> QED  BY <2>2, <3>1
  <2> QED  BY <2>4, <2>5 DEF Exact
<1>9. -1 \notin open
  BY <1>1, <1>2, <1>3
<1>10. OwnersOK
  BY <1>3, <1>7, <1>8, <1>9 DEF OwnersOK
<1> QED  BY <1>5, <1>6, <1>10 DEF SInv

\* The claims are who the property says owns what is open.
LEMMA SInvOwned == IInv /\ SInv => DescriptorsOwned
<1> SUFFICES ASSUME IInv, SInv PROVE DescriptorsOwned
  OBVIOUS
<1>1. NeverClosedTwice /\ ClosedAtEnd
  BY DEF SInv, OwnersOK, NeverClosedTwice, ClosedAtEnd
<1>2. ASSUME pc # "destroyed", step \notin {"close", "keepalive"}
      PROVE  /\ open = HeldFds \cup SourceFds \cup LocalFds \cup ToSet(ents) \cup deaf
             /\ HeldFds \cap SourceFds = {}
             /\ \A s, t \in live \ failed : loop.entarr[s].fd = loop.entarr[t].fd => s = t
             /\ \A s, t \in Slots : role[s] = "resp_send_file" /\ role[t] = "resp_send_file"
                                    /\ srcfd[s] = srcfd[t] /\ srcfd[s] # -1 => s = t
  <2>1. Exact(Claims, open) /\ -1 \notin open
    BY <1>2 DEF SInv, OwnersOK
  <2>2. Sending = {s \in Slots : role[s] = "resp_send_file" /\ srcfd[s] # -1}
    BY <1>2 DEF Sending, Closing
  <2>3. \A s \in Held : <<"held", s, loop.entarr[s].fd>> \in Claims
    BY DEF Claims, HeldClaims
  <2>4. \A s \in Sending : <<"source", s, srcfd[s]>> \in Claims
    BY DEF Claims, SourceClaims
  <2>5. \A s, t \in Held : loop.entarr[s].fd = loop.entarr[t].fd => s = t
    <3> SUFFICES ASSUME NEW s \in Held, NEW t \in Held, loop.entarr[s].fd = loop.entarr[t].fd PROVE s = t
      OBVIOUS
    <3>1. <<"held", s, loop.entarr[s].fd>> = <<"held", t, loop.entarr[t].fd>>
      BY <2>1, <2>3 DEF Exact
    <3> QED  BY <3>1
  <2>6. \A s, t \in Sending : srcfd[s] = srcfd[t] => s = t
    <3> SUFFICES ASSUME NEW s \in Sending, NEW t \in Sending, srcfd[s] = srcfd[t] PROVE s = t
      OBVIOUS
    <3>1. <<"source", s, srcfd[s]>> = <<"source", t, srcfd[t]>>
      BY <2>1, <2>4 DEF Exact
    <3> QED  BY <3>1
  <2>7. \A s \in Held, t \in Sending : loop.entarr[s].fd # srcfd[t]
    <3> SUFFICES ASSUME NEW s \in Held, NEW t \in Sending, loop.entarr[s].fd = srcfd[t] PROVE FALSE
      OBVIOUS
    <3>1. <<"held", s, loop.entarr[s].fd>> = <<"source", t, srcfd[t]>>
      BY <2>1, <2>3, <2>4 DEF Exact
    <3> QED  BY <3>1
  <2>8. HeldFds = {loop.entarr[s].fd : s \in Held} /\ SourceFds = {srcfd[s] : s \in Sending}
    BY <2>2 DEF HeldFds, SourceFds, Held
  <2>9. ASSUME NEW fd \in open
        PROVE  fd \in HeldFds \cup SourceFds \cup LocalFds \cup ToSet(ents) \cup deaf
    <3>1. PICK c \in Claims : c[3] = fd
      BY <2>1 DEF Exact
    <3>2. CASE c \in HeldClaims
      BY <2>8, <3>1, <3>2 DEF HeldClaims
    <3>3. CASE c \in SourceClaims
      BY <2>8, <3>1, <3>3 DEF SourceClaims
    <3>4. CASE c \in LocalClaims
      BY <3>1, <3>4 DEF LocalClaims, LocalFds
    <3>5. CASE c \in EntClaims
      BY <3>1, <3>5, LenProperties DEF EntClaims, ToSet, SInv, ServerTypes
    <3>6. CASE c \in DeafClaims
      BY <3>1, <3>6 DEF DeafClaims
    <3> QED  BY <3>2, <3>3, <3>4, <3>5, <3>6 DEF Claims
  <2>10. /\ HeldFds \subseteq open /\ SourceFds \subseteq open
    <3>1. \A s \in Held : loop.entarr[s].fd \in open
      BY <2>1, <2>3, ClaimOpen
    <3>2. \A s \in Sending : srcfd[s] \in open
      BY <2>1, <2>4, ClaimOpen
    <3> QED  BY <2>8, <3>1, <3>2
  <2>11. LocalFds \subseteq open /\ deaf \subseteq open
    <3>1. \A fd \in LocalFds : <<"local", 0, fd>> \in Claims
      BY DEF LocalFds, LocalClaims, Claims
    <3>2. \A fd \in deaf : <<"deaf", 0, fd>> \in Claims
      BY DEF DeafClaims, Claims
    <3> QED  BY <2>1, <3>1, <3>2, ClaimOpen
  <2>12. ToSet(ents) \subseteq open
    <3>1. \A n \in 1 .. Len(ents) : <<"ent", n, ents[n]>> \in Claims
      BY DEF EntClaims, Claims
    <3>2. \A n \in 1 .. Len(ents) : ents[n] \in open
      BY <2>1, <3>1, ClaimOpen
    <3> QED  BY <3>2, LenProperties DEF ToSet, SInv, ServerTypes
  <2> QED  BY <2>2, <2>5, <2>6, <2>7, <2>8, <2>9, <2>10, <2>11, <2>12 DEF Held
<1> QED  BY <1>1, <1>2 DEF DescriptorsOwned, OpenIsOwned

-----------------------------------------------------------------------------
(* The theorems. *)

\* Every reachable state of the server satisfies the loop's invariant and the
\* server's own.
THEOREM ServerInvariance == ServerSpec => [](IInv /\ SInv)
<1>1. ServerInit => IInv /\ SInv
  BY InitIInv, InitSInv DEF ServerInit
<1>2. (IInv /\ SInv) /\ [ServerNext]_allvars => (IInv /\ SInv)'
  BY StepUsesLoop, StepIInv, StepSInv
<1> QED  BY <1>1, <1>2, PTL DEF ServerSpec

\* Callbacks and main of midnighttpd call the loop as its interface asks for: the
\* server is a client of MigLoop, whatever connections do.
THEOREM UsesLoopCorrect == ServerSpec => UsesLoop
<1>1. ServerInit => Init
  BY DEF ServerInit
<1>2. IInv /\ SInv /\ [ServerNext]_allvars => [Next]_vars
  BY StepUsesLoop
<1> QED  BY <1>1, <1>2, ServerInvariance, PTL DEF ServerSpec, UsesLoop, Spec

\* What is proved of the loop holds of the server's: no slot is handed out twice,
\* every free callback runs once, the scan leaves nothing behind.
THEOREM LoopInServer == ServerSpec => [](FreeStackExact /\ FreedExactlyOnce) /\ NothingLeftBehind
BY UsesLoopCorrect, FreeStackCorrect, FreedOnceCorrect, NothingLeftBehindCorrect, PTL DEF UsesLoop

\* Every descriptor that is open has exactly one owner, none is closed twice, and
\* what is left open at the end are the files that were sent and the listeners
\* the loop had no room for.
THEOREM DescriptorsCorrect == ServerSpec => []DescriptorsOwned
BY SInvOwned, ServerInvariance, PTL
=============================================================================
