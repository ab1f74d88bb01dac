------------------------------ MODULE UrlPath ------------------------------
(***************************************************************************)
(* The path of a request: mhttp_urldecode and mhttp_scrubpath of           *)
(* src/mhttp_util.c, called one after the other by mhttp_req_parse.        *)
(*                                                                         *)
(* Both work in place, reading ahead of what they write, so the string is  *)
(* an array here and every iteration of their loops is a step.             *)
(*                                                                         *)
(* Abstractions: the bytes that escapes make are those of Escapes, and     *)
(* Other for any other.                                                    *)
(***************************************************************************)
EXTENDS Integers, Sequences, SequencesExt

CONSTANTS
  Char,    \* what a place of the array may hold
  Paths    \* bound: the paths that come, sequences of characters

NUL   == "null byte"
Other == "other byte"

ASSUME UrlPathAssumption ==
  /\ {"/", ".", " ", NUL, Other} \subseteq Char
  /\ Paths \subseteq Seq(Char \ {NUL})

VARIABLES
  input,       \* the path as it came
  str,         \* the array, with a null byte behind the path
  src, dest,   \* positions read and written
  depth,       \* of mhttp_scrubpath
  rewriting,   \* "decode", "start", "scrub" or "done"
  decoded      \* history: what mhttp_urldecode made of it

pathvars == <<input, str, src, dest, depth, rewriting, decoded>>

HexDigits == {"0", "2", "a", "e", "f"}     \* those in Paths
Escapes == [pair \in HexDigits \X HexDigits |->
              CASE pair = <<"2", "e">> -> "."
                [] pair = <<"2", "f">> -> "/"
                [] pair = <<"0", "0">> -> NUL
                [] OTHER -> Other]

\* strlen and strchr, from position p on; strchr returns 0 for null.
EndOf(s) == CHOOSE p \in DOMAIN s : s[p] = NUL /\ \A q \in 1 .. p - 1 : s[q] # NUL
Slashes(s, p) == {q \in p .. EndOf(s) : s[q] = "/"}
FirstSlash(s, p) == CHOOSE q \in Slashes(s, p) : \A r \in Slashes(s, p) : q <= r
Text(s) == SubSeq(s, 1, EndOf(s) - 1)

-----------------------------------------------------------------------------
PathStarts(path) ==
  /\ input = path
  /\ str = Append(input, NUL)
  /\ src = 1 /\ dest = 1 /\ depth = 0 /\ rewriting = "decode" /\ decoded = <<>>
PathInit == \E path \in Paths : PathStarts(path)

\* One iteration of mhttp_urldecode read characters up to chr and wrote what.
\* The loop ends at a null byte, or at the limit, which is the length with it.
Decodes(n, chr, what) ==
  /\ src' = src + n /\ dest' = dest + Len(what)
  /\ LET s    == IF what = <<>> THEN str ELSE [str EXCEPT ![dest] = what[1]]
         last == IF dest' > Len(str) THEN dest' - 1 ELSE dest'
     IN  IF chr # NUL /\ dest' <= Len(str)
         THEN str' = s /\ UNCHANGED <<rewriting, decoded>>
         ELSE /\ str' = [s EXCEPT ![last] = NUL]
              /\ rewriting' = "start" /\ decoded' = Text(str')
  /\ UNCHANGED <<input, depth>>

\* Seeded fault: the digits of an escape are read again as characters.
DecodeEscapeShort ==
  /\ rewriting = "decode" /\ str[src] = "%"
  /\ LET high == str[src + 1]
         low  == str[src + 2]
     IN  \/ high \notin HexDigits /\ Decodes(2, high, <<>>)
         \/ high \in HexDigits /\ low \notin HexDigits /\ Decodes(3, low, <<>>)
         \/ high \in HexDigits /\ low \in HexDigits /\ Decodes(2, high, <<Escapes[<<high, low>>]>>)
\* An escape needs two digits; without them it is dropped with what was read.
DecodeEscape ==
  /\ rewriting = "decode" /\ str[src] = "%"
  /\ LET high == str[src + 1]
         low  == str[src + 2]
     IN  \/ high \notin HexDigits /\ Decodes(2, high, <<>>)
         \/ high \in HexDigits /\ low \notin HexDigits /\ Decodes(3, low, <<>>)
         \/ high \in HexDigits /\ low \in HexDigits /\ Decodes(3, low, <<Escapes[<<high, low>>]>>)

DecodePlus ==
  /\ rewriting = "decode" /\ str[src] = "+"
  /\ Decodes(1, "+", <<" ">>)

DecodePlain ==
  /\ rewriting = "decode" /\ str[src] \notin {"%", "+"}
  /\ Decodes(1, str[src], <<str[src]>>)

\* mhttp_scrubpath begins at the first slash; what is before it goes.
ScrubStart ==
  /\ rewriting = "start"
  /\ dest' = 1 /\ depth' = 0
  /\ \/ /\ Slashes(str, 1) = {}
        /\ str' = [str EXCEPT ![1] = NUL] /\ rewriting' = "done" /\ UNCHANGED src
     \/ /\ Slashes(str, 1) # {}
        /\ src' = FirstSlash(str, 1) /\ rewriting' = "scrub" /\ UNCHANGED str
  /\ UNCHANGED <<input, decoded>>

\* end was taken before the loop; nothing is written there before the loop ends.
End == Len(decoded) + 1
ComponentEnd(p) == IF Slashes(str, p + 1) # {} THEN FirstSlash(str, p + 1) ELSE End

\* Seeded fault: the last component may ascend.
AscendsNotAtEnd(p) == str[p + 1] = "." /\ str[p + 2] = "." /\ str[p + 3] = "/"
Ascends(p) == str[p + 1] = "." /\ str[p + 2] = "." /\ str[p + 3] \in {"/", NUL}
Empty(p)   == str[p + 1] \in {"/", NUL}

\* "/.." takes back the component written last; at the top it is left out, as
\* mhttp_req_parse does not allow ascent.
ScrubAscend ==
  /\ rewriting = "scrub" /\ src # End /\ Ascends(src)
  /\ IF depth > 0
     THEN /\ dest' = CHOOSE p \in 1 .. dest - 1 :
                       str[p] = "/" /\ \A q \in p + 1 .. dest - 1 : str[q] # "/"
          /\ depth' = depth - 1
     ELSE UNCHANGED <<dest, depth>>
  /\ src' = ComponentEnd(src)
  /\ UNCHANGED <<input, str, rewriting, decoded>>

ScrubEmpty ==
  /\ rewriting = "scrub" /\ src # End /\ Empty(src)
  /\ src' = ComponentEnd(src)
  /\ UNCHANGED <<input, str, dest, depth, rewriting, decoded>>

\* Any other component is moved down, with its slash.
ScrubCopy ==
  /\ rewriting = "scrub" /\ src # End /\ ~Ascends(src) /\ ~Empty(src)
  /\ LET n == ComponentEnd(src) - src
     IN  /\ str' = [p \in DOMAIN str |->
                      IF p \in dest .. dest + n - 1 THEN str[src + p - dest] ELSE str[p]]
         /\ dest' = dest + n
         /\ src' = src + n
  /\ depth' = depth + 1
  /\ UNCHANGED <<input, rewriting, decoded>>

ScrubEnd ==
  /\ rewriting = "scrub" /\ src = End
  /\ str' = [str EXCEPT ![dest] = NUL]
  /\ rewriting' = "done"
  /\ UNCHANGED <<input, src, dest, depth, decoded>>

PathDone == rewriting = "done" /\ UNCHANGED pathvars

Decode == DecodeEscape \/ DecodePlus \/ DecodePlain
Scrub  == ScrubStart \/ ScrubAscend \/ ScrubEmpty \/ ScrubCopy \/ ScrubEnd
PathNext == Decode \/ Scrub \/ PathDone
PathSpec == PathInit /\ [][PathNext]_pathvars

-----------------------------------------------------------------------------
(* What must hold. *)

\* What is written never overtakes what is still to be read, and both stay in
\* the array: working in place is safe.
InPlace ==
  /\ rewriting = "decode" => dest <= src /\ src <= Len(str)
  /\ rewriting = "scrub"  => dest <= src /\ src <= End

\* What a path says, escape by escape: "%" with two digits is their byte, and
\* without them nothing; a null byte ends it.
Unplus(c) == IF c = "+" THEN " " ELSE c
Hex(path, p) == p <= Len(path) /\ path[p] \in HexDigits
MeaningFrom(path) ==
  LET from[p \in 1 .. Len(path) + 3] ==
        IF p > Len(path) THEN <<>>
        ELSE IF path[p] # "%" THEN <<Unplus(path[p])>> \o from[p + 1]
        ELSE IF ~Hex(path, p + 1) THEN from[p + 2]
        ELSE IF ~Hex(path, p + 2) THEN from[p + 3]
        ELSE <<Escapes[<<path[p + 1], path[p + 2]>>]>> \o from[p + 3]
  IN  from
Meaning(path) == Text(Append(MeaningFrom(path)[1], NUL))

\* Decoding in place gives the path its meaning, to the last character.
DecodesMeaning == rewriting = "start" => decoded = Meaning(input)

\* The components of a path, from its first slash on: each with its slash.
SlashesOf(path) == {p \in DOMAIN path : path[p] = "/"}
NthSlash(path, n) ==
  CHOOSE p \in SlashesOf(path) : Cardinality({q \in SlashesOf(path) : q <= p}) = n
NthStop(path, n) ==
  IF n < Cardinality(SlashesOf(path)) THEN NthSlash(path, n + 1) - 1 ELSE Len(path)
Components(path) ==
  [n \in 1 .. Cardinality(SlashesOf(path)) |-> SubSeq(path, NthSlash(path, n), NthStop(path, n))]

\* Following a path from the root of the site, where ".." of the root is the
\* root.  "." is a component as any other, as it is for the code.
Step(at, c) == CASE c = <<"/">> -> at
                 [] c = <<"/", ".", ".">> -> IF at = <<>> THEN at ELSE Front(at)
                 [] OTHER -> Append(at, c)
Where(cs) ==
  LET at[n \in 0 .. Len(cs)] == IF n = 0 THEN <<>> ELSE Step(at[n - 1], cs[n])
  IN  at
Follow(path) == Where(Components(path))[Cardinality(SlashesOf(path))]

\* The scrubbed path is the one that following the components leads to.
ScrubFollows == rewriting = "done" => Text(str) = FlattenSeq(Follow(decoded))

\* It is empty or begins with a slash, and nothing in it leads up: with the "."
\* that is put before it, it names something below the document root.
NeverAscends ==
  rewriting = "done" =>
    /\ Text(str) # <<>> => str[1] = "/"
    /\ \A n \in DOMAIN Components(Text(str)) : Components(Text(str))[n] # <<"/", ".", ".">>

\* What mhttp_urldecode leaves in the array means what the path did; neither it nor
\* mhttp_scrubpath writes over what it has yet to read.
DecodesInPlace == InPlace /\ DecodesMeaning

\* What mhttp_scrubpath leaves there is where the path leads, below the root.
StaysBelowRoot == ScrubFollows /\ NeverAscends
=============================================================================
