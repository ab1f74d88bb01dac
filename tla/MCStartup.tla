----------------------------- MODULE MCStartup -----------------------------
(***************************************************************************)
(* Small instances, for TLC, of what main goes through before it serves:   *)
(* the command line and the configuration files.  What is shown of each    *)
(* does not depend on the other: a behaviour is one of either, and the     *)
(* other one stays where it starts.                                        *)
(***************************************************************************)
EXTENDS ConfigFile, GetOpt

VARIABLE part      \* the part that runs: "config" or "getopt"

partvars == <<part, vars, getoptvars>>

-----------------------------------------------------------------------------
Include(dir, name) == [opt |-> "include", path |-> <<dir, name>>]
Unix(dir, name)    == [opt |-> "listen-unix", path |-> <<dir, name>>]
ListenTo(addrs)    == [opt |-> "listen", addrs |-> addrs]
Types(words)       == [opt |-> "mimetype", words |-> words]
DefaultType(words) == [opt |-> "default-mimetype", words |-> words]
Root               == [opt |-> "setting"]

\* A file with all there is; one that includes itself twice and is included by
\* the first; and one that a line finds only in the directory it is meant for.
MCFiles ==
  (<<"etc", "main">> :> <<DefaultType(<<"t">>), Root, Unix("run", "s"), ListenTo(2),
                          Include(".", "self"),
                          Types(<<"t", "c">>), Include(".", "none"), Include(".", "more")>>)
  @@ (<<"etc", "self">> :> <<Include(".", "self"), Unix(".", "s"), Include("etc", "self")>>)
  @@ (<<"run", "more">> :> <<Types(<<>>), Unix("none", "s")>>)
MCOptions == <<Include("etc", "main"), Unix("sub", "s"), Unix(".", "file"), Include(".", "x")>>
MCDirs    == {"home", "etc", "run"}
MCBelow   == (<<"home", "sub">> :> "run") @@ (<<"run", "sub">> :> "etc")
MCTaken   == {<<"home", "file">>}

\* A word, "-" alone, and an option of each kind that main's switch has.
MCArgs == {"word", "-", "-m", "-M", "-c", "-q", "-h"}

-----------------------------------------------------------------------------
PartsInit ==
  /\ part \in {"config", "getopt"}
  /\ Init
  /\ \E line \in IF part = "getopt" THEN CommandLines ELSE {<<Word>>} : GetoptStarts(line)

ConfigPart == part = "config" /\ Next /\ UNCHANGED <<part, getoptvars>>
GetoptPart == part = "getopt" /\ GetoptNext /\ UNCHANGED <<part, vars>>
PartsNext  == ConfigPart \/ GetoptPart

\* main does nothing else before it serves.
PartsSpec == PartsInit /\ [][PartsNext]_partvars /\ WF_partvars(PartsNext)

-----------------------------------------------------------------------------
\* main gets to the end of every configuration, whatever includes what, and of
\* every command line.
StartupReads ==
  (part = "config" => Terminates) /\ (part = "getopt" => ReadsToEnd)
=============================================================================
