----------------------------- MODULE ConfigFile -----------------------------
(***************************************************************************)
(* Reading the configuration: midnighttpd_configfile_read, cfg_bind and    *)
(* cfg_bindunix of src/midnighttpd_config.c, as main calls them for its    *)
(* options and as configuration files call them for their lines, with the  *)
(* working directory and the descriptors they use; and the closing of the  *)
(* listeners when main ends, which unlinks the names of unix sockets.      *)
(*                                                                         *)
(* Abstractions: a line is its option and what it names (see StatMatch,    *)
(* SockAddr and ParseNum for how the text becomes that); a path is a       *)
(* directory and a name in it.  The directory is one of Dirs, for an        *)
(* absolute path, "." for a path without one, or relative to the working   *)
(* directory.                                                              *)
(***************************************************************************)
EXTENDS Integers, SequencesExt

CONSTANTS
  Options,   \* what main is called with: a sequence of lines
  Start,     \* the working directory it is called in
  Dirs,      \* the directories there are
  Below,     \* what relative ones are: directories by working directory and name
  Files,     \* the configuration files: lines by directory and name
  Taken,     \* names where something other than a socket is
  FdLimit    \* how many descriptors the process may open

\* Every line there is.
Lines == ToSet(Options) \cup UNION {ToSet(Files[at]) : at \in DOMAIN Files}

\* The directories of Dirs are absolute; what Below gives names to is not.
ASSUME ConfigFileAssumption ==
  /\ FdLimit \in Nat /\ Start \in Dirs /\ "." \notin Dirs
  /\ Options \in Seq(Lines)
  /\ \A at \in DOMAIN Files : at[1] \in Dirs /\ Files[at] \in Seq(Lines)
  /\ \A at \in DOMAIN Below : at[2] \notin Dirs \cup {"."}
  /\ \A line \in Lines : line.opt = "listen" => line.addrs \in Nat

VARIABLES
  frames,    \* main, and the files being read, the innermost last: what is left to
             \* read of each, its directory, and the one its cwd descriptor is for
  cwd,       \* the working directory
  fds,       \* how many descriptors are open
  ents,      \* ent_stack, then the listeners that are open: of each the path, its data,
             \* which is the path to unlink, and as history: whether the line had a
             \* directory that was not absolute, and what became of its name
  types,     \* config.mimetypes: the extensions that have one
  crashed,   \* strdup was given NULL
  stray      \* history: descriptors nothing refers to any more

vars == <<frames, cwd, fds, ents, types, crashed, stray>>

Missing == <<"no such file">>     \* what realpath returns NULL for

TcpEnts(n) ==
  [m \in 1 .. n |-> [path |-> <<"tcp">>, data |-> Missing, relative |-> FALSE, name |-> "none"]]

\* The name of a unix socket: its listener has it ("held"); a later line took it
\* for a listener of its own ("taken"), or took it and could not bind ("lost"); or
\* the close of another listener unlinked it, one of a relative path ("misled") or
\* any other ("gone").
UnixEnts == {n \in DOMAIN ents : ents[n].name # "none"}
Held(n)  == ents[n].name = "held"
\* The names there are of unix sockets.
Names    == {ents[n].path : n \in {m \in DOMAIN ents : Held(m)}}
\* What unlinking a path makes of the listeners in es.
Unlink(es, path, name) ==
  [n \in DOMAIN es |-> IF es[n].name = "held" /\ es[n].path = path
                       THEN [es[n] EXCEPT !.name = name] ELSE es[n]]

Top     == Last(frames)
Reading == frames # <<>> /\ ~crashed
Line    == Head(Top.rest)
At(opt) == Reading /\ Top.rest # <<>> /\ Line.opt = opt
\* The line is done with.
Onward  == [frames EXCEPT ![Len(frames)].rest = Tail(@)]
Resolve(from, path) ==
  CASE path[1] = "." -> <<from, path[2]>>
    [] <<from, path[1]>> \in DOMAIN Below -> <<Below[<<from, path[1]>>], path[2]>>
    [] OTHER -> path
Here == Resolve(cwd, Line.path)
Relative == Line.path[1] \notin Dirs \cup {"."}

\* Where there is something that is not a socket.
Occupied == Taken \cup DOMAIN Files

-----------------------------------------------------------------------------
Init ==
  /\ frames = <<[rest |-> Options, dir |-> Start, saved |-> Start, unixFailed |-> FALSE]>>
  /\ cwd = Start /\ fds = 0 /\ ents = <<>> /\ types = {}
  /\ crashed = FALSE /\ stray = 0

\* include, and main's -c: without a descriptor for the working directory, or
\* when the file's cannot be changed to, or when what is there is no file that
\* can be read, nothing is read and nothing left open.
\* Seeded fault: it is tried again.
IncludeNothingAgain ==
  /\ At("include") /\ fds = FdLimit
  /\ UNCHANGED vars
IncludeNothing ==
  /\ At("include")
  /\ fds = FdLimit \/ Here \in Names \cup Occupied
  /\ frames' = Onward
  /\ UNCHANGED <<cwd, fds, ents, types, crashed, stray>>

\* There is nothing of that name: the early return keeps the descriptor.
IncludeMissing ==
  /\ At("include") /\ fds < FdLimit /\ Here \notin Names \cup Occupied
  /\ frames' = Onward
  /\ fds' = fds + 1 /\ stray' = stray + 1
  /\ UNCHANGED <<cwd, ents, types, crashed>>

\* The file is read in its own directory; without a descriptor to load it with
\* it is an empty one.
IncludeFile ==
  /\ At("include") /\ fds < FdLimit /\ Here \in DOMAIN Files
  /\ LET path == Here
     IN  /\ frames' = Append(Onward,
              [rest |-> IF fds + 1 < FdLimit THEN Files[path] ELSE <<>>,
               dir |-> path[1], saved |-> cwd, unixFailed |-> FALSE])
         /\ cwd' = path[1]
  /\ fds' = fds + 1
  /\ UNCHANGED <<ents, types, crashed, stray>>

\* Seeded fault: the caller's directory is not gone back to.
EndOfFileStays ==
  /\ Reading /\ Top.rest = <<>> /\ Len(frames) > 1
  /\ frames' = Front(frames)
  /\ fds' = fds - 1
  /\ UNCHANGED <<cwd, ents, types, crashed, stray>>
EndOfFile ==
  /\ Reading /\ Top.rest = <<>> /\ Len(frames) > 1
  /\ frames' = Front(frames)
  /\ cwd' = Top.saved /\ fds' = fds - 1
  /\ UNCHANGED <<ents, types, crashed, stray>>

\* cfg_bind: of the addresses that the name has, some are bound; a socket that
\* is not is closed.
Listen ==
  /\ At("listen")
  /\ \E bound \in 0 .. Line.addrs :
       /\ fds + bound <= FdLimit
       /\ ents' = ents \o TcpEnts(bound)
       /\ fds' = fds + bound
  /\ frames' = Onward
  /\ UNCHANGED <<cwd, types, crashed, stray>>

\* cfg_bindunix: without a descriptor, or when changing to the directory or stat
\* fails, which they may for a path that is there too, nothing has changed.
UnixRefused ==
  /\ At("listen-unix")
  /\ frames' = Onward
  /\ UNCHANGED <<cwd, fds, ents, types, crashed, stray>>

\* realpath of the line's path, whole, from the socket's directory, which is the
\* working directory by then: it is another file's when the path is relative and
\* has a directory in it, if there is one.
RealPath(dir) ==
  LET path == Resolve(dir, Line.path)
  IN  IF path = Here \/ path \in Names \cup Occupied THEN path ELSE Missing

\* A socket that has the name already is unlinked before the new one is made,
\* whether or not it is one of this process.
UnixBound ==
  /\ At("listen-unix") /\ fds + 1 < FdLimit
  /\ LET path == Here
     IN  /\ path[1] \in Dirs /\ path \notin Occupied
         /\ ents' = Append(Unlink(ents, path, "taken"),
              [path |-> path, data |-> RealPath(path[1]), relative |-> Relative,
               name |-> "held"])
  /\ fds' = fds + 1
  /\ frames' = Onward
  /\ UNCHANGED <<cwd, types, crashed, stray>>

\* The bind fails, for whatever reason: the name is gone all the same, unless that
\* was what failed, and the early return neither changes back nor closes the
\* descriptor for that.
UnixFails ==
  /\ At("listen-unix") /\ fds < FdLimit
  /\ LET path == Here
     IN  /\ path[1] \in Dirs
         /\ cwd' = path[1]
         /\ \/ ents' = Unlink(ents, path, "lost")
            \/ UNCHANGED ents
  /\ fds' = fds + 1 /\ stray' = stray + 1
  /\ frames' = [Onward EXCEPT ![Len(frames)].unixFailed = @ \/ Line.path[1] # "."]
  /\ UNCHANGED <<types, crashed>>

\* mimetype and default-mimetype: strtok_r has no token in an empty line, and
\* strdup is given NULL.
Mimetype ==
  /\ At("mimetype") \/ At("default-mimetype")
  /\ \/ /\ Line.words = <<>>
        /\ crashed' = TRUE
        /\ UNCHANGED types
     \/ /\ Line.words # <<>>
        /\ types' = types \cup (IF Line.opt = "mimetype" THEN ToSet(Tail(Line.words)) ELSE {})
        /\ UNCHANGED crashed
  /\ frames' = Onward
  /\ UNCHANGED <<cwd, fds, ents, stray>>

\* root, dirindex, loop-slots and the sizes of the buffers are values that only
\* the running server reads, and any other line is passed over.
Setting ==
  /\ At("setting")
  /\ frames' = Onward
  /\ UNCHANGED <<cwd, fds, ents, types, crashed, stray>>

EndOfOptions ==
  /\ Reading /\ Top.rest = <<>> /\ Len(frames) = 1
  /\ frames' = <<>>
  /\ UNCHANGED <<cwd, fds, ents, types, crashed, stray>>

\* listen_close_sockunix, and listen_close_sock, which has nothing to unlink.
ListenClose(rest, closed) ==
  IF closed.data = Missing THEN rest
  ELSE Unlink(rest, closed.data, IF closed.relative THEN "misled" ELSE "gone")

\* Seeded fault: the stack is emptied from its other end.
CloseOldest ==
  /\ frames = <<>> /\ ~crashed /\ ents # <<>>
  /\ ents' = ListenClose(Tail(ents), Head(ents))
  /\ fds' = fds - 1
  /\ UNCHANGED <<frames, cwd, types, crashed, stray>>
\* main pops the stack into the slots of the loop, and mig_loop_destroy closes
\* from the first slot on: what was bound last is closed first.  A listener that
\* found no slot is not closed.
CloseListener ==
  /\ frames = <<>> /\ ~crashed /\ ents # <<>>
  /\ ents' = ListenClose(Front(ents), Last(ents))
  /\ fds' = fds - 1
  /\ UNCHANGED <<frames, cwd, types, crashed, stray>>

Done == ~Reading /\ UNCHANGED vars

Read == \/ IncludeNothing \/ IncludeMissing \/ IncludeFile \/ EndOfFile
        \/ Listen \/ UnixRefused \/ UnixBound \/ UnixFails \/ Mimetype \/ Setting \/ EndOfOptions
Next == Read \/ CloseListener \/ Done

\* main does nothing else before the configuration is read.  Nothing says that it
\* will ever close its listeners.
Spec == Init /\ [][Next]_vars /\ WF_vars(Read)

-----------------------------------------------------------------------------
(* What must hold. *)

\* The lines of a file are read in the directory of the file, whatever its
\* includes did, unless a unix socket could not be bound for one of them: what
\* it names relative to itself is then looked for in the socket's directory.
LinesInTheirDirectory ==
  Reading /\ ~Top.unixFailed => cwd = Top.dir

\* Whatever fails on the way, the descriptors that are open are the listeners,
\* one for each file being read, and the ones known to be lost: one for each file
\* that was not there and each unix socket that was not bound.
DescriptorsAccounted ==
  fds = Len(ents) + (IF frames = <<>> THEN 0 ELSE Len(frames) - 1) + stray

\* Listeners may share a name, since each line takes it from the one before.  Of
\* those that do the last one has it, unless a line after it failed; and when the
\* listeners are closed, each unlinking a name, none takes the name of another one
\* that is still open, but for the wrong file that a relative path may stand for.
ListenersHaveNames ==
  \A n \in UnixEnts :
    LET later == {m \in UnixEnts : m > n /\ ents[m].path = ents[n].path}
    IN  /\ ents[n].name # "gone"
        /\ Held(n) => later = {}
        /\ ents[n].name = "taken" /\ frames # <<>> => later # {}

\* The file that is unlinked when a listener is closed is the one that was bound
\* for it, where the configuration names it without a directory or absolutely.
\* Otherwise it may be any that is called so from the socket's directory.
UnlinksWhatItBound ==
  \A n \in UnixEnts : ~ents[n].relative => ents[n].data = ents[n].path

\* However files include one another and binds fail, each line is read where it
\* was meant to be, and no descriptor is lost but those that are counted.
FilesReadInPlace == LinesInTheirDirectory /\ DescriptorsAccounted

\* The names of unix sockets, from bind to unlink: which listener has which, and
\* whose each of them unlinks.
NamesOfSockets == ListenersHaveNames /\ UnlinksWhatItBound

\* Reading comes to an end even when files include themselves: each file that is
\* being read holds a descriptor, and without one nothing is included.
Terminates == <>(~Reading)
=============================================================================
