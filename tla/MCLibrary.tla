----------------------------- MODULE MCLibrary -----------------------------
(***************************************************************************)
(* Small instances, for TLC, of the parts that the server and its start-up *)
(* are made of: the parsers of numbers, words and addresses, and the       *)
(* array, the tree and the buffers.                                        *)
(*                                                                         *)
(* They share no state, so a behaviour is one of one part; the others stay *)
(* where they start.                                                       *)
(***************************************************************************)
EXTENDS Parsers, MigBuf, RadixTree, DynArray

CONSTANTS
  MaxNumber, MaxWord   \* bounds: numbers and words of ParseNum

VARIABLE
  part   \* the part that runs

partvars == <<part, numvars, matchvars, addrvars, arrayvars, treevars, bufvars>>

-----------------------------------------------------------------------------
\* Digits that exist in each base, prefixes, signs and units; and the letters of
\* the words that mean true or false, which have three or begin as "true" and
\* "false" do.
NumberChars == {"0", "1", "9", "a", "-", "+", "b", "o", "x", "K", "i", "B"}
WordChars   == {"t", "r", "u", "f", "a", "l", "s", "e", "o", "N", "y"}
ShortWords  == BoundedSeq(WordChars, MaxWord)
\* Longer numbers, with zeros before them and more digits than an int has room
\* for, and every unit.
SomeNumbers == {<<"0", "0", "7">>, <<"-", "0", "1">>, <<"1", "9", "9">>, <<"-", "0", "x", "9", "f">>,
                <<"+", "0", "b", "1", "0">>, <<"-", "0", "o", "0", "7">>, <<"0", "X", "1">>, <<"-", "0", "x">>}
UnitEnds    == {<<u>> \o b : u \in {"K", "k", "M", "m", "G", "g", "T"},
                             b \in {<<>>, <<"i">>, <<"i", "B">>, <<"i", "B", "s">>, <<"B">>}}
NumStrings  ==
  BoundedSeq(NumberChars, MaxNumber) \cup ShortWords
  \cup {<<"t", "r">> \o w : w \in ShortWords} \cup {<<"f", "a">> \o w : w \in ShortWords}
  \cup {number \o unit : number \in SomeNumbers, unit \in UnitEnds}
\* Behind a string may come the end of one, or what goes on like a unit.
AnyAfter    == {<<"i", "B">>, <<"zero", "zero">>, <<"K", "i">>}

SomeTails == {<<>>, <<" ">>, <<"x">>, <<":", "e">>, <<"T", ":">>, <<"-", "u", "n">>}

\* One that realloc serves, one that it does not, and the ways of using an array
\* that do not make it a stack: failures, no room at first, a fixed size.
Growing == [itemSize |-> 3, alignment |-> 4, icount |-> 2, chunk |-> 1,
            fixed |-> FALSE, fails |-> FALSE, careful |-> TRUE]
SomeConfigs ==
  {Growing, [Growing EXCEPT !.alignment = 8, !.icount = 1, !.chunk = 2],
   [Growing EXCEPT !.icount = 0, !.fails = TRUE, !.careful = FALSE],
   [Growing EXCEPT !.fixed = TRUE]}

\* Keys that extend, shorten and cross one another, down to the empty one.
SomeKeys == {<<>>, <<"b">>, <<"a">>, <<"a", "b">>, <<"a", "a", "b">>, <<"a", "b", "b">>}
SomeOctets == {"a", "b"}

\* Files that fit, that fill the buffer and that do not fit.
MCFiles == {0, 1, 3, 5}

-----------------------------------------------------------------------------
\* What a part may start with: anything when it is the one, and one thing else.
If(name, inputs, one) == IF part = name THEN inputs ELSE {one}

PartsInit ==
  /\ part \in {"num", "match", "addr", "array", "tree", "buf"}
  /\ \E s \in If("num", Strings, <<>>), past \in If("num", Afters, <<"i", "B">>) :
       NumStarts(s, past)
  /\ \E t \in If("match", DOMAIN Tables, "method") :
       \E s \in If("match", Inputs(t), <<EndOfInput>>) : MatchStarts(t, s)
  /\ \E s \in If("addr", Addresses, <<>>) : AddrStarts(s)
  /\ \E c \in If("array", SomeConfigs, Growing) : ArrayStarts(c)
  /\ \E f \in If("tree", BOOLEAN, FALSE) : TreeStarts(f)
  /\ BufInit /\ (part = "buf" \/ alloced)

NumPart   == part = "num" /\ NumNext
  /\ UNCHANGED <<part, matchvars, addrvars, arrayvars, treevars, bufvars>>
MatchPart == part = "match" /\ MatchNext
  /\ UNCHANGED <<part, numvars, addrvars, arrayvars, treevars, bufvars>>
AddrPart  == part = "addr" /\ AddrNext
  /\ UNCHANGED <<part, numvars, matchvars, arrayvars, treevars, bufvars>>
ArrayPart == part = "array" /\ ArrayNext
  /\ UNCHANGED <<part, numvars, matchvars, addrvars, treevars, bufvars>>
TreePart  == part = "tree" /\ TreeNext
  /\ UNCHANGED <<part, numvars, matchvars, addrvars, arrayvars, bufvars>>
BufPart   == part = "buf" /\ BufNext
  /\ UNCHANGED <<part, numvars, matchvars, addrvars, arrayvars, treevars>>

PartsNext == NumPart \/ MatchPart \/ AddrPart \/ ArrayPart \/ TreePart \/ BufPart
PartsSpec == PartsInit /\ [][PartsNext]_partvars

=============================================================================
