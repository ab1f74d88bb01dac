----------------------------- MODULE MCRequest -----------------------------
(***************************************************************************)
(* Small instances, for TLC, of what a request goes through before it is   *)
(* answered: the search for its end, the parsing of its header and of its  *)
(* path, and the choice of the range that is sent.                         *)
(*                                                                         *)
(* What is shown of each does not depend on the others (HttpConn has them  *)
(* in order, with whole requests): a behaviour is one of one part, and the *)
(* others stay where they start.                                           *)
(***************************************************************************)
EXTENDS ReqCheck, ReqParse, UrlPath, MhttpRange

CONSTANTS MaxPath, MaxDots                 \* bounds, see below

VARIABLE part                              \* the part that runs

partvars == <<part, vars, parsevars, pathvars, rangevars>>

-----------------------------------------------------------------------------
\* A request line of each version, one with arguments, and lines with too many
\* words or too few, down to an empty one.
SomeRequestLines ==
  {<<"GET", Blank, "/", Blank, "HTTP/1.1">>, <<"HEAD", Blank, "/", "?", "a", Blank, "HTTP/1.0">>,
   <<"GET", Blank, "/", Blank, "HTTP/1.1", Blank, "x">>, <<"GET", Blank, "/">>,
   <<"GET", Blank, "/", Blank>>, <<"x", "/", Blank, "?", Blank, "HTTP/1.1">>, <<"GET">>, <<>>}
\* Values good and bad, with blanks before them and without, and lines in which
\* the name of another header is a value, or a null byte ends the parsing.
SomeHeaderLines ==
  {<<"Connection:", Blank, "close">>, <<"Connection:", Blank, Blank, "keep-alive">>,
   <<"Connection:", "x">>, <<"Range:", "bytes=0-1">>, <<"Range:", Blank, "x">>,
   <<"Content-Length:", "7">>, <<"Content-Length:", "x">>,
   <<"Transfer-Encoding:", "chunked">>, <<"x", "?">>, <<"x", Blank, "Connection:", "close">>,
   <<"x", ZERO, "x">>}
\* What a client that does not wait has sent of its next request, or nothing.
Following == {<<>>, <<LF, "Connection:", "close", LF>>}
OneCharacter == {<<>>, <<Blank>>, <<"x">>}
Tokens ==
  {LF, ZERO, Blank, "/", "?", "a", "x", "7", "GET", "HEAD", "HTTP/1.0", "HTTP/1.1", "close",
   "keep-alive", "bytes=0-1", "chunked"} \cup Names

\* Short paths of all characters, and longer ones of those that scrubbing is about.
SomePaths == BoundedSeq({"/", ".", "%", "+", "0", "2", "e"}, MaxPath)
             \cup BoundedSeq({"/", ".", "a"}, MaxDots)
PathChars == {"/", ".", "%", "+", "0", "2", "a", "e", " ", NUL, Other}

\* Numbers on both sides of the files' sizes and of SIZE_MAX, which is 7.
MCNumbers == {0, 1, 2, 3, 5, 6, 7, 9, 10}
MCSizes   == {0, 1, 2, 4, 6}

-----------------------------------------------------------------------------
\* What a part may start with: anything when it is the one, and one thing else.
If(name, inputs, one) == IF part = name THEN inputs ELSE {one}

PartsInit ==
  /\ part \in {"check", "parse", "path", "range"}
  /\ Init
  /\ \E lines \in If("parse", Requests, <<<<>>, <<>>>>),
        behind \in If("parse", Behind, <<>>) : ParseStarts(lines, behind)
  /\ \E path \in If("path", Paths, <<>>) : PathStarts(path)
  /\ RangeInit

CheckPart == part = "check" /\ Next /\ UNCHANGED <<part, parsevars, pathvars, rangevars>>
ParsePart == part = "parse" /\ ParseNext /\ UNCHANGED <<part, vars, pathvars, rangevars>>
PathPart  == part = "path" /\ PathNext /\ UNCHANGED <<part, vars, parsevars, rangevars>>
RangePart == part = "range" /\ RangeNext /\ UNCHANGED <<part, vars, parsevars, pathvars>>

PartsNext == CheckPart \/ ParsePart \/ PathPart \/ RangePart
PartsSpec == PartsInit /\ [][PartsNext]_partvars
=============================================================================
