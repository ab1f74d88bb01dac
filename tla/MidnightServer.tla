--------------------------- MODULE MidnightServer ---------------------------
(***************************************************************************)
(* The server as a program on the event loop: main of src/midnighttpd.c    *)
(* from bind_init on, and the callbacks of src/midnighttpd_core.c, with    *)
(* the descriptors they open and close.  Every call of a callback to the   *)
(* loop is a step, so that every step of the server is one of the loop's.  *)
(*                                                                         *)
(* Abstractions: what a connection's bytes say is a choice (see HttpConn); *)
(* of a listener's backlog the first connection counts; the callback of an *)
(* entry is its role.                                                      *)
(***************************************************************************)
EXTENDS MigLoop, SequencesExt

CONSTANT
  Setups      \* bound: how many sockets the configuration binds, and how many
              \* descriptors there are for them and what comes later

ASSUME MidnightServerAssumption ==
  /\ \A s \in Setups : s[1] \in Nat /\ s[2] \in Nat /\ s[1] <= s[2] /\ 3 .. 2 + s[2] \subseteq Fds
  /\ {"IN"} \in Conds /\ {"OUT"} \in Conds
  /\ -1 \in Fds              \* what a failed accept returns is registered

VARIABLES
  ents,       \* ent_stack: the sockets that are bound and not registered
  naddrs,     \* whether any has been taken from it
  default,    \* default_addr: the port that is left in it, "80" for none
  bindable,   \* environment: the ports that can be bound, none once it does not matter
  role,       \* of each slot, the callback of its entry
  srcfd,      \* of each slot, that of its request
  step,       \* where the running callback is
  sock,       \* local of listen_accept
  nofile,     \* kernel: the descriptors there are
  open,       \* kernel: the ones that are open
  backlog,    \* kernel: the listening sockets that a client waits at
  badclose,   \* history: a descriptor was closed that was not open
  failed,     \* history: the slots taken for what a failed accept returned
  deaf        \* history: the sockets that listen and were not registered

startvars  == <<ents, naddrs, default, bindable, deaf, nofile>>
connvars   == <<role, srcfd, failed>>
callvars   == <<step, sock>>
kernelvars == <<open, backlog, badclose>>
server     == <<startvars, connvars, callvars, kernelvars>>
allvars    == <<vars, server>>

Roles == {"none", "listen_accept", "conn_init", "req_recv_headers", "req_read_headers",
          "resp_send_file"}
Ports == {"8080", "80"}

\* The descriptors of the sockets that are bound: the first that are handed out.
BoundFds == 3 .. 2 + Max({1} \cup {s[1] : s \in Setups})

\* The kernel hands out the lowest descriptor that is free.
FreeFds == nofile \ open
NewFd   == Min(FreeFds)

\* What close does: -1 is refused.
Closes(fds) ==
  /\ open' = open \ fds
  /\ badclose' = (badclose \/ ~(fds \ {-1} \subseteq open))
Close(fd) == Closes({fd})

-----------------------------------------------------------------------------
ServerInit ==
  /\ Init
  /\ \E s \in Setups : ents = [m \in 1 .. s[1] |-> m + 2] /\ nofile = 3 .. 2 + s[2]
  /\ naddrs = FALSE /\ default = "8080" /\ bindable = {}
  /\ role = [s \in Slots |-> "none"] /\ srcfd = [s \in Slots |-> -1] /\ failed = {}
  /\ step = "call" /\ sock = -1
  /\ open = {ents[m] : m \in DOMAIN ents} /\ backlog = {} /\ badclose = FALSE /\ deaf = {}

\* mig_loop_register for one with a free callback, waiting to be read.
Registers(fd, callback) ==
  LET s == zstk_top(loop.freestk)
  IN  /\ loop' = mig_loop_register(loop, fd, TRUE, {"IN"})
      /\ live' = live \cup {s} /\ owed' = owed \cup {s}
      /\ role' = [role EXCEPT ![s] = callback]
      /\ failed' = IF fd = -1 THEN failed \cup {s} ELSE failed

\* bind_init: every socket of the stack listens, whether or not the loop has
\* room for it.
TakeEnt ==
  /\ pc = "setup" /\ ents # <<>>
  /\ \/ /\ CanRegister(loop)
        /\ Registers(Last(ents), "listen_accept")
        /\ UNCHANGED deaf
     \/ /\ ~CanRegister(loop)
        /\ deaf' = deaf \cup {Last(ents)}
        /\ UNCHANGED <<loop, live, owed, role, failed>>
  /\ ents' = Front(ents) /\ naddrs' = TRUE
  /\ UNCHANGED <<pc, scanvars, misfreed, default, bindable, nofile, srcfd, callvars, kernelvars>>

\* Nothing was bound: the default address, which is parsed in place and has
\* lost its port the next time.
\* Seeded fault: it is tried once.
BindDefaultOnce ==
  /\ pc = "setup" /\ ents = <<>> /\ ~naddrs /\ default = "8080"
  /\ default' = "80"
  /\ IF default \in bindable /\ FreeFds # {}
     THEN ents' = <<NewFd>> /\ open' = open \cup {NewFd}
     ELSE UNCHANGED <<ents, open>>
  /\ UNCHANGED <<vars, naddrs, bindable, deaf, nofile, connvars, callvars, backlog, badclose>>
BindDefault ==
  /\ pc = "setup" /\ ents = <<>> /\ ~naddrs
  /\ default' = "80"
  /\ IF default \in bindable /\ FreeFds # {}
     THEN ents' = <<NewFd>> /\ open' = open \cup {NewFd}
     ELSE UNCHANGED <<ents, open>>
  /\ UNCHANGED <<vars, naddrs, bindable, deaf, nofile, connvars, callvars, backlog, badclose>>

StartLoop ==
  /\ ents = <<>> /\ naddrs
  /\ Start
  /\ bindable' = {}
  /\ UNCHANGED <<ents, naddrs, default, deaf, nofile, connvars, callvars, kernelvars>>

-----------------------------------------------------------------------------
(* The callbacks. *)

Calling(at, roles) == pc = "call" /\ step = at /\ role[idx] \in roles
Returns == CallReturns(FALSE) /\ step' = "call" /\ sock' = -1

\* Seeded fault: a client is left waiting when the loop is full.
AcceptIfRoom ==
  /\ Calling("call", {"listen_accept"})
  /\ LET fd == loop.entarr[idx].fd
     IN  IF CanRegister(loop) /\ FreeFds # {} /\ fd \in backlog
         THEN /\ sock' = NewFd /\ open' = open \cup {NewFd}
              /\ backlog' = backlog \ {fd}
              /\ step' = "accepted"
         ELSE step' = "return" /\ UNCHANGED <<sock, open, backlog>>
  /\ UNCHANGED <<vars, startvars, connvars, badclose>>
\* listen_accept: accept fails for want of a descriptor, and the client waits on,
\* or because the client has gone.  What it returns is not looked at.
Accept ==
  /\ Calling("call", {"listen_accept"})
  /\ LET fd == loop.entarr[idx].fd
     IN  \/ /\ FreeFds # {} /\ fd \in backlog
            /\ sock' = NewFd /\ open' = open \cup {NewFd}
            /\ backlog' = backlog \ {fd}
         \/ /\ sock' = -1
            /\ backlog' = IF FreeFds = {} THEN backlog ELSE backlog \ {fd}
            /\ UNCHANGED open
  /\ step' = "accepted"
  /\ UNCHANGED <<vars, startvars, connvars, badclose>>

\* A full loop: the client is sent a 503.
Reject ==
  /\ Calling("accepted", {"listen_accept"}) /\ ~CanRegister(loop)
  /\ Close(sock)
  /\ step' = "return"
  /\ UNCHANGED <<vars, startvars, connvars, sock, backlog>>

AddConn ==
  /\ Calling("accepted", {"listen_accept"}) /\ CanRegister(loop)
  /\ Registers(sock, "conn_init")
  /\ step' = "return"
  /\ UNCHANGED <<pc, scanvars, misfreed, startvars, srcfd, sock, kernelvars>>

\* What the callbacks of a connection do to its entry: the callback that comes
\* next, and what it waits for.
Awaits(callback, cond, at) ==
  /\ loop' = mig_loop_setcond(loop, idx, cond)
  /\ role' = [role EXCEPT ![idx] = callback]
  /\ step' = at
  /\ UNCHANGED <<pc, scanvars, ghosts, startvars, failed, sock>>

\* conn_init and req_recv_headers: more is to come, the header is whole, or the
\* connection ends.
ReceiveHeaders ==
  /\ Calling("call", {"conn_init", "req_recv_headers"})
  /\ \/ Awaits("req_recv_headers", loop.entfds[idx].events, "return")
     \/ Awaits("req_read_headers", {"OUT"}, "return")
     \/ Awaits("req_recv_headers", loop.entfds[idx].events, "close")
  /\ UNCHANGED <<srcfd, kernelvars>>

\* req_read_headers: an answer without a body, or a file to be sent, which may
\* not open.
ReadHeaders ==
  /\ Calling("call", {"req_read_headers"})
  /\ \/ /\ \E end \in {"close", "keepalive"} : Awaits("req_read_headers", {"OUT"}, end)
        /\ UNCHANGED <<srcfd, open>>
     \/ /\ Awaits("resp_send_file", {"OUT"}, "return")
        /\ UNCHANGED <<srcfd, open>>
     \/ /\ FreeFds # {}
        /\ Awaits("resp_send_file", {"OUT"}, "return")
        /\ srcfd' = [srcfd EXCEPT ![idx] = NewFd]
        /\ open' = open \cup {NewFd}
  /\ UNCHANGED <<backlog, badclose>>

\* resp_send_file: the file is closed before the connection goes on or ends.
SendFile ==
  /\ Calling("call", {"resp_send_file"})
  /\ \/ Awaits("resp_send_file", {"OUT"}, "return") /\ UNCHANGED kernelvars
     \/ /\ \E end \in {"close", "keepalive"} : Awaits("resp_send_file", {"OUT"}, end)
        /\ Close(srcfd[idx]) /\ UNCHANGED backlog
  /\ UNCHANGED srcfd

\* conn_terminate: the connection is unregistered, and conn_free closes it; or
\* it is kept for another request, which may be in the buffer already.
\* Seeded fault: the entry is written to after it was unregistered.
TerminateThenWaits ==
  /\ Calling("close", Roles)
  /\ loop' = mig_loop_setcond(mig_loop_unregister(loop, idx), idx, {"IN"})
  /\ live' = live \ {idx} /\ owed' = owed \ {idx}
  /\ Close(loop.entarr[idx].fd)
  /\ role' = [role EXCEPT ![idx] = "none"] /\ srcfd' = [srcfd EXCEPT ![idx] = -1]
  /\ step' = "return"
  /\ UNCHANGED <<pc, scanvars, misfreed, startvars, failed, sock, backlog>>
\* Seeded fault: conn_free closes the request's file, too.
TerminateTwice ==
  /\ Calling("close", Roles)
  /\ Releases(idx)
  /\ Closes({loop.entarr[idx].fd, srcfd[idx]})
  /\ role' = [role EXCEPT ![idx] = "none"] /\ srcfd' = [srcfd EXCEPT ![idx] = -1]
  /\ step' = "return"
  /\ UNCHANGED <<pc, scanvars, startvars, failed, sock, backlog>>
Terminate ==
  /\ Calling("close", Roles)
  /\ Releases(idx)
  /\ Close(loop.entarr[idx].fd)
  /\ role' = [role EXCEPT ![idx] = "none"] /\ srcfd' = [srcfd EXCEPT ![idx] = -1]
  /\ step' = "return"
  /\ UNCHANGED <<pc, scanvars, startvars, failed, sock, backlog>>

KeepAlive ==
  /\ Calling("keepalive", Roles)
  /\ \E cond \in {{"IN"}, {"OUT"}} : Awaits("req_recv_headers", cond, "return")
  /\ srcfd' = [srcfd EXCEPT ![idx] = -1]
  /\ UNCHANGED kernelvars

Return ==
  /\ pc = "call" /\ step = "return"
  /\ Returns
  /\ UNCHANGED <<startvars, connvars, kernelvars>>

Callback ==
  \/ Accept \/ Reject \/ AddConn \/ ReceiveHeaders \/ ReadHeaders \/ SendFile
  \/ Terminate \/ KeepAlive \/ Return

-----------------------------------------------------------------------------
(* The loop and the rest of the world. *)

\* A listening socket is ready when a client waits at it.
Poll ==
  /\ PollReturns
  /\ \A s \in Slots : role[s] = "listen_accept" =>
       loop'.entfds[s].revents = IF loop.entarr[s].fd \in backlog THEN {"IN"} ELSE {}
  /\ UNCHANGED server
PollBacklog ==
  /\ \E s \in Slots : role[s] = "listen_accept" /\ loop.entarr[s].fd \in backlog
  /\ Poll

\* LoopTop, EnterPoll and the scan know nothing of the server.
Loop == (LoopTop \/ EnterPoll \/ Scan) /\ UNCHANGED server

\* SIGINT has its handler only once main is past bind_init.
Interrupt == (Sigint \/ PollFails) /\ UNCHANGED server

\* mig_loop_destroy: the free callbacks close the sockets that are registered.
DestroyAll ==
  /\ Destroy
  /\ Closes({loop.entarr[s].fd : s \in FreedByDestroy(loop)})
  /\ UNCHANGED <<startvars, connvars, callvars, backlog>>

Listening == {loop.entarr[s].fd : s \in {t \in Slots : role[t] = "listen_accept"}} \cup deaf
Connect(fd) ==
  /\ fd \in Listening \cap open
  /\ backlog' = backlog \cup {fd}
  /\ UNCHANGED <<vars, startvars, connvars, callvars, open, badclose>>
PortsChange ==
  /\ pc = "setup" /\ ents = <<>> /\ ~naddrs
  /\ bindable' \in SUBSET Ports
  /\ UNCHANGED <<vars, ents, naddrs, default, deaf, nofile, connvars, callvars, kernelvars>>
Over == Ended /\ UNCHANGED server

ServerNext ==
  \/ TakeEnt \/ BindDefault \/ StartLoop \/ Callback \/ Poll \/ Loop \/ Interrupt \/ DestroyAll
  \/ \E fd \in Fds : Connect(fd)
  \/ PortsChange \/ Over

ServerSpec == ServerInit /\ [][ServerNext]_allvars

\* The thread runs, and poll returns when a client waits at a listener that is
\* polled.  Nothing is assumed of clients, signals and other descriptors.
ServerFairness ==
  /\ WF_allvars(TakeEnt \/ BindDefault \/ StartLoop \/ Callback \/ Loop)
  /\ WF_allvars(PollBacklog)
FairServerSpec == ServerSpec /\ ServerFairness

-----------------------------------------------------------------------------
(* What must hold. *)

HeldFds   == {loop.entarr[s].fd : s \in live \ failed}
SourceFds == {srcfd[s] : s \in {t \in Slots : role[t] = "resp_send_file"}} \ {-1}
LocalFds  == IF step = "accepted" THEN {sock} \ {-1} ELSE {}

\* Every descriptor that is open is somebody's: of an entry of the loop, of a
\* request that sends a file, of a socket yet to be registered or listening
\* without it; and of one of them only.
OpenIsOwned ==
  pc # "destroyed" /\ step \notin {"close", "keepalive"} =>
    /\ open = HeldFds \cup SourceFds \cup LocalFds \cup ToSet(ents) \cup deaf
    /\ HeldFds \cap SourceFds = {}
    /\ \A s, t \in live \ failed : loop.entarr[s].fd = loop.entarr[t].fd => s = t
    /\ \A s, t \in Slots : role[s] = "resp_send_file" /\ role[t] = "resp_send_file"
                           /\ srcfd[s] = srcfd[t] /\ srcfd[s] # -1 => s = t

\* Nothing is closed twice, through the callbacks, conn_free and
\* mig_loop_destroy: by then the number may be another connection's.
NeverClosedTwice == ~badclose

\* When the server has ended, what is left open are the files it was sending and
\* the listeners that the loop had no room for.
ClosedAtEnd == pc = "destroyed" => open = SourceFds \cup deaf

\* Together: from accept or open to its one close every descriptor has an owner,
\* and what has none at the end is known.
DescriptorsOwned == OpenIsOwned /\ NeverClosedTwice /\ ClosedAtEnd

\* The server uses the loop as its interface asks for: every step of it is a
\* step of a client of MigLoop, or of the loop.
UsesLoop == Spec

\* A client that waits at a registered listener is accepted, sent away or gone
\* some time, as long as the server runs and has a descriptor left, whatever
\* other connections do.  Without one it waits for as long as they please.
Waiting(fd) ==
  fd \in backlog \ deaf /\ FreeFds # {} /\ pc \notin {"done", "failed", "destroyed"}
BacklogServed == \A fd \in BoundFds : Waiting(fd) ~> ~Waiting(fd)

\* main gets out of bind_init when port 80 can be bound, even if the port of the
\* default address never can: it is port 80 that is tried again.
StartsOnPort80 == <>[]("80" \in bindable) => <>(pc # "setup")
=============================================================================
