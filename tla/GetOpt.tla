------------------------------- MODULE GetOpt -------------------------------
(***************************************************************************)
(* The command line: mig_getopt of src/mig_opt.c, called by the option     *)
(* loop of main in src/midnighttpd.c.                                      *)
(*                                                                         *)
(* Abstractions: an argument is a word, "-" alone or "-" with an option    *)
(* letter; argv is a sequence and argv pointers are positions in it; its   *)
(* null pointer is Null, and the environment's strings follow it, as they  *)
(* do on Linux, none of which starts with a dash.  What main does with an  *)
(* option is the list of the arguments it used, and the extensions it gave *)
(* a type.                                                                 *)
(***************************************************************************)
EXTENDS Integers, SequencesExt

CONSTANTS
  Args,      \* the arguments in use
  MaxArgs,   \* bound: arguments after the program's name
  Word,      \* an argument that is not an option
  Environ    \* strings in the environment

Null    == "null"
UINT_MAX == 2^16 - 1       \* stands for any number no command line reaches

\* The null pointer is no argument, and the letter of "-" alone is none either.
ASSUME GetOptAssumption ==
  /\ Args \subseteq STRING /\ {Null, "0"} \cap (Args \cup {Word}) = {}
  /\ MaxArgs \in 0 .. UINT_MAX - 2 /\ Environ \in Nat

VARIABLES
  args,     \* what the program was started with; args[1] is its name
  argv,     \* position of the caller's argv
  argc,     \* the caller's argc
  argn,     \* the caller's argn: entries to skip, arguments of the option
  opt,      \* what mig_getopt returned last
  pc,       \* "getopt", "switch" or where it ended: "run", "help", "crashed"
  used,     \* history: the arguments main used, in order, by position
  typed     \* history: pairs of a type's position and an extension's

getoptvars == <<args, argv, argc, argn, opt, pc, used, typed>>

\* The entry at a position, as C sees it: the name and arguments, null, the
\* environment, null.
ArgAt(p) ==
  IF p <= Len(args) THEN args[p]
  ELSE IF p - (Len(args) + 1) \in 1 .. Environ THEN Word
  ELSE Null
IsDash(a) == a # Word
Letter(a) == IF a = "-" THEN "0" ELSE a

\* What main sets with mig_setopt, -1 being UINT_MAX; others are 0 from calloc.
OneArgument == {"-c", "-M", "-l", "-u", "-r", "-t", "-n"}
Mandatory(a) == IF a \in OneArgument \cup {"-m"} THEN 1 ELSE 0
Optional(a)  == IF a = "-m" THEN UINT_MAX ELSE 0

\* How many arguments the option may have.  The bound is argc as the caller had
\* it, which counts the skipped entries and the option too.
Limit(a) ==
  LET lim == Optional(a)
      cap == IF lim > Mandatory(a) \/ lim = 0 THEN lim ELSE UINT_MAX
  IN  IF cap < argc THEN cap ELSE argc

\* Where the for loop that counts arguments stops: before a dash, or at the
\* limit, or by reading through a null pointer: the one at the end of argv, or
\* that of the environment when an option that is last lacks its argument.
Counted(a, first) ==
  CHOOSE n \in Mandatory(a) .. MaxArgs + 2 :
    /\ n >= Limit(a) \/ ArgAt(first + n) = Null \/ IsDash(ArgAt(first + n))
    /\ \A m \in Mandatory(a) .. n - 1 :
         m < Limit(a) /\ ArgAt(first + m) # Null /\ ~IsDash(ArgAt(first + m))
ReadsNull(a, first) == LET n == Counted(a, first) IN n < Limit(a) /\ ArgAt(first + n) = Null

-----------------------------------------------------------------------------
CommandLines == {<<Word>> \o rest : rest \in BoundedSeq(Args, MaxArgs)}
GetoptStarts(line) ==
  /\ args = line /\ argv = 1 /\ argc = Len(args) /\ argn = 1
  /\ opt = "0" /\ pc = "getopt" /\ used = <<>> /\ typed = {}
GetoptInit == \E line \in CommandLines : GetoptStarts(line)

AtEnd == argc <= argn

\* The entries are used up: -1.
GetoptEnds ==
  /\ pc = "getopt" /\ AtEnd
  /\ pc' = "run"
  /\ UNCHANGED <<args, argv, argc, argn, opt, used, typed>>

\* Not an option: 0, with itself as its argument.
GetoptWord ==
  /\ pc = "getopt" /\ ~AtEnd /\ ~IsDash(ArgAt(argv + argn))
  /\ argv' = argv + argn /\ argc' = argc - argn /\ argn' = 1
  /\ opt' = "0" /\ pc' = "switch"
  /\ UNCHANGED <<args, used, typed>>

GetoptOption ==
  /\ pc = "getopt" /\ ~AtEnd /\ IsDash(ArgAt(argv + argn))
  /\ LET a == ArgAt(argv + argn)
         first == argv + argn + 1
     IN  /\ ~ReadsNull(a, first)
         /\ argv' = first /\ argc' = argc - (argn + 1) /\ argn' = Counted(a, first)
         /\ opt' = Letter(a)
  /\ pc' = "switch"
  /\ UNCHANGED <<args, used, typed>>

\* The counting loop reads argv[offset][0] of the null pointer.
GetoptCrashes ==
  /\ pc = "getopt" /\ ~AtEnd /\ IsDash(ArgAt(argv + argn))
  /\ ReadsNull(ArgAt(argv + argn), argv + argn + 1)
  /\ pc' = "crashed"
  /\ UNCHANGED <<args, argv, argc, argn, opt, used, typed>>

\* Options whose argument main hands on without looking whether it is there.
\* A configuration file that is null is not found.
Derefs == {"0", "-M", "-l", "-u", "-r", "-t", "-n"}
Help   == {"-h", "-?"}

\* The cases of main's switch.
SwitchUses ==
  /\ pc = "switch" /\ opt \in Derefs \cup {"-c"} /\ ArgAt(argv) # Null
  /\ used' = Append(used, argv)
  /\ pc' = "getopt"
  /\ UNCHANGED <<args, argv, argc, argn, opt, typed>>
SwitchCrashes ==
  /\ pc = "switch" /\ opt \in Derefs /\ ArgAt(argv) = Null
  /\ pc' = "crashed"
  /\ UNCHANGED <<args, argv, argc, argn, opt, used, typed>>
\* Seeded fault: the loop over the extensions runs to argn.
SwitchMimetypeToEnd ==
  /\ pc = "switch" /\ opt = "-m"
  /\ used' = used \o [i \in 1 .. argn |-> argv + i - 1]
  /\ typed' = typed \cup {<<argv, argv + i>> : i \in 1 .. argn}
  /\ pc' = "getopt"
  /\ UNCHANGED <<args, argv, argc, argn, opt>>
SwitchMimetype ==
  /\ pc = "switch" /\ opt = "-m"
  /\ used' = used \o [i \in 1 .. argn |-> argv + i - 1]
  /\ typed' = typed \cup {<<argv, argv + i>> : i \in 1 .. argn - 1}
  /\ pc' = "getopt"
  /\ UNCHANGED <<args, argv, argc, argn, opt>>
SwitchHelp ==
  /\ pc = "switch" /\ opt \in Help
  /\ pc' = "help"
  /\ UNCHANGED <<args, argv, argc, argn, opt, used, typed>>
\* -q, -Q and what no case is for.
SwitchOther ==
  /\ pc = "switch"
  /\ \/ opt \notin Derefs \cup Help \cup {"-m", "-c"}
     \/ opt = "-c" /\ ArgAt(argv) = Null
  /\ pc' = "getopt"
  /\ UNCHANGED <<args, argv, argc, argn, opt, used, typed>>

Ended == pc \in {"run", "help", "crashed"} /\ UNCHANGED getoptvars

Getopt == GetoptEnds \/ GetoptWord \/ GetoptOption \/ GetoptCrashes
Switch == SwitchUses \/ SwitchCrashes \/ SwitchMimetype \/ SwitchHelp \/ SwitchOther
GetoptNext == Getopt \/ Switch \/ Ended

GetoptSpec == GetoptInit /\ [][GetoptNext]_getoptvars
\* One process runs it.
FairGetoptSpec == GetoptSpec /\ WF_getoptvars(Getopt \/ Switch)

-----------------------------------------------------------------------------
(* What must hold. *)

\* The three values that mig_getopt updates agree: argc counts what there is
\* from argv on, after an option that lacks its argument too.
CountsAgree == argc = Len(args) + 1 - argv

\* No argument is used twice, and they are used in order.  A "-" alone is no
\* option and takes no argument, but has main use the next one: that is used
\* again in its own right.
UsedInOrder ==
  \A m, n \in DOMAIN used : m < n =>
    \/ used[m] < used[n]
    \/ used[m] = used[n] /\ n = m + 1 /\ args[used[m] - 1] = "-"

\* When main starts the server, no argument was lost: each is used, an option,
\* or the missing end of one.
NoneLost ==
  pc = "run" => \A p \in 2 .. Len(args) :
                  (\E n \in DOMAIN used : used[n] = p) \/ IsDash(args[p])

\* The words after -m and a type get that type, up to the next option.  A -m
\* that is last has no type to give: its null goes to the environment's strings.
TypesOfExtensions ==
  \A pair \in typed : pair[1] <= Len(args) =>
    /\ \A p \in pair[1] + 1 .. pair[2] : args[p] = Word
    /\ args[pair[1] - 1] = "-m"

\* Every argument is used once, in its place and for what it is there for.
ArgumentsUsedOnce == CountsAgree /\ UsedInOrder /\ NoneLost /\ TypesOfExtensions

\* Every command line is read to an end.
ReadsToEnd == <>(pc \in {"run", "help", "crashed"})
=============================================================================
