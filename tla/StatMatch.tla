----------------------------- MODULE StatMatch -----------------------------
(***************************************************************************)
(* The matchers that tools/statmatch.py generates: nested switches that    *)
(* walk the tree of a set of words, one character of the string at each    *)
(* level.  The three of the repository are the Tables.                     *)
(*                                                                         *)
(* Abstractions: the callers' strings are the ones that follow a word for  *)
(* some characters and go on with a tail.                                  *)
(***************************************************************************)
EXTENDS Integers, SequencesExt

CONSTANT
  Tails   \* bound: what strings have behind the part they share with a word

(* The words of each enumeration, and whether case matters in them. *)

mhttp_match_method == [icase |-> FALSE,
  words |-> {"DELETE", "GET", "HEAD", "OPTIONS", "PATCH", "POST", "PUT"}]

mhttp_req_match_header == [icase |-> TRUE,
  words |-> {"WWW-Authenticate:", "Connection:", "Content-Length:", "Range:",
             "Transfer-Encoding:"}]

midnighttpd_match_config_opt == [icase |-> FALSE,
  words |-> {"default-mimetype:", "dirindex:", "include:", "listen:", "listen-unix:",
             "loop-slots:", "mimetype:", "receive-buffer:", "root:",
             "transmission-buffer:"}]

Tables == [method |-> mhttp_match_method, header |-> mhttp_req_match_header,
           option |-> midnighttpd_match_config_opt]

Chars(s) == [n \in 1 .. Len(s) |-> SubSeq(s, n, n)]
Uppers   == Chars("ABCDEFGHIJKLMNOPQRSTUVWXYZ")
Lowers   == Chars("abcdefghijklmnopqrstuvwxyz")
InCase(c, from, to) ==
  IF \E n \in DOMAIN from : from[n] = c THEN to[CHOOSE n \in DOMAIN from : from[n] = c] ELSE c
LowerOf(s) == [n \in DOMAIN s |-> InCase(s[n], Uppers, Lowers)]
UpperOf(s) == [n \in DOMAIN s |-> InCase(s[n], Lowers, Uppers)]

\* A case-insensitive switch has a label for the letter in either case.
Folded(t, s) == IF Tables[t].icase THEN LowerOf(s) ELSE s
Words(t)     == {Folded(t, Chars(w)) : w \in Tables[t].words}

VARIABLES
  table,   \* the matcher that was called
  input,   \* the string
  place,   \* the position it reads next
  node,    \* where it is in the tree: the characters it took
  res,     \* the word it found, or none
  osp      \* the position it returns, 0 before it does

matchvars == <<table, input, place, node, res, osp>>

EndOfInput == "null byte"
None == <<>>

\* mktree: the nodes are the words' prefixes.
Tree(t) == UNION {{SubSeq(w, 1, n) : n \in 0 .. Len(w)} : w \in Words(t)}

Inputs(t) ==
  LET starts == UNION {{SubSeq(Chars(w), 1, n) : n \in 0 .. Len(w)} : w \in Tables[t].words}
      cased  == starts \cup {LowerOf(s) : s \in starts} \cup {UpperOf(s) : s \in starts}
  IN  {s \o tail \o <<EndOfInput>> : s \in cased, tail \in Tails}

\* No word goes on from another: in the tree the end of a word is a leaf.  Strings
\* are characters, of which words have some, and end with one that words have not.
ASSUME StatMatchAssumption ==
  \A t \in DOMAIN Tables :
    /\ \A v, w \in Words(t) : IsPrefix(v, w) => v = w
    /\ Words(t) \subseteq Seq(STRING) \ {<<>>}
    /\ \A w \in Words(t) : \A n \in DOMAIN w : w[n] # Folded(t, <<EndOfInput>>)[1]
    /\ Inputs(t) \subseteq Seq(STRING) \ {<<>>}
    /\ \A s \in Inputs(t) : s[Len(s)] = EndOfInput

-----------------------------------------------------------------------------
MatchStarts(t, s) ==
  /\ table = t /\ input = s
  /\ place = 1 /\ node = <<>> /\ res = None /\ osp = 0
MatchInit == \E t \in DOMAIN Tables : \E s \in Inputs(t) : MatchStarts(t, s)

\* The node the character that was read leads to.
Child == Append(node, Folded(table, <<input[place]>>)[1])

\* A case of the switch: down the tree.
Descend ==
  /\ osp = 0 /\ Child \in Tree(table)
  /\ node' = Child /\ place' = place + 1
  /\ UNCHANGED <<table, input, res, osp>>

\* No case: the default, which is there at the end of a word only.  The
\* character that was read is given back.
Leave ==
  /\ osp = 0 /\ Child \notin Tree(table)
  /\ res' = IF node \in Words(table) THEN node ELSE None
  /\ place' = place + 1 /\ osp' = place' - 1
  /\ UNCHANGED <<table, input, node>>

Left == osp # 0 /\ UNCHANGED matchvars

MatchNext == Descend \/ Leave \/ Left
MatchSpec == MatchInit /\ [][MatchNext]_matchvars

-----------------------------------------------------------------------------
(* What must hold. *)

\* A matcher finds a word exactly when the string begins with it.
FindsThePrefix ==
  osp # 0 => /\ res \in Words(table) \cup {None}
             /\ \A w \in Words(table) : res = w <=> IsPrefix(w, Folded(table, input))

\* It returns the place behind the word, or the first character that no word
\* goes on with: the callers go on reading there, which must be in the string.
StopsBehind ==
  osp # 0 =>
    /\ osp \in DOMAIN input
    /\ Folded(table, SubSeq(input, 1, osp - 1)) \in Tree(table)
    /\ res # None => osp = Len(res) + 1
    /\ Folded(table, SubSeq(input, 1, osp)) \notin Tree(table)

\* The word is the one the string begins with, and reading goes on behind it.
WordsMatched == FindsThePrefix /\ StopsBehind
=============================================================================
