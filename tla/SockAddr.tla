------------------------------ MODULE SockAddr ------------------------------
(***************************************************************************)
(* Taking a socket address apart: sockaddr_parse of                        *)
(* src/midnighttpd_config.c.  It cuts the string in place and returns the  *)
(* places where the address and the port begin.                            *)
(*                                                                         *)
(* Abstractions: every character that is no colon and no bracket is "h";   *)
(* the pointers are positions, NoPlace the position 0, before any other.   *)
(***************************************************************************)
EXTENDS Integers, SequencesExt

CONSTANT MaxAddr   \* bound: the length of an address

ASSUME SockAddrAssumption == MaxAddr \in Nat

VARIABLES
  addrin,       \* the string as it came
  addrstr,      \* the array, with a null byte behind it
  addr, port    \* what is returned, NotParsed before it is

addrvars == <<addrin, addrstr, addr, port>>

NoPlace == 0
NotParsed == -1
EndMark == "zero"

\* strchr and strrchr in the string as it came.
Places(c) == {p \in DOMAIN addrin : addrin[p] = c}
strchr(c)  == IF Places(c) = {} THEN NoPlace ELSE Min(Places(c))
strrchr(c) == IF Places(c) = {} THEN NoPlace ELSE Max(Places(c))

lbrack == strchr("[")
rbrack == strchr("]")
colon  == strrchr(":")

CutAt(places) == [p \in DOMAIN addrstr |-> IF p \in places THEN EndMark ELSE addrstr[p]]

-----------------------------------------------------------------------------
Addresses == BoundedSeq({"h", ":", "[", "]"}, MaxAddr)
AddrStarts(s) ==
  /\ addrin = s
  /\ addrstr = Append(addrin, EndMark)
  /\ addr = NotParsed /\ port = NotParsed
AddrInit == \E s \in Addresses : AddrStarts(s)

\* The forms in the order they are tried.  Comparing with NoPlace is comparing
\* with the lowest address.
PortBehindBrackets == colon # NoPlace /\ lbrack # NoPlace /\ rbrack # NoPlace /\ rbrack < colon
PortOnly           == colon # NoPlace /\ lbrack = NoPlace /\ rbrack = NoPlace
BracketsOnly       == lbrack # NoPlace /\ colon < rbrack
Plain              == colon = NoPlace /\ lbrack = NoPlace /\ rbrack = NoPlace

BracketedWithPort ==
  /\ addr = NotParsed /\ PortBehindBrackets
  /\ addrstr' = CutAt({colon, lbrack, rbrack})
  /\ addr' = lbrack + 1 /\ port' = colon + 1
  /\ UNCHANGED addrin

AddressWithPort ==
  /\ addr = NotParsed /\ ~PortBehindBrackets /\ PortOnly
  /\ addrstr' = CutAt({colon})
  /\ addr' = 1 /\ port' = colon + 1
  /\ UNCHANGED addrin

Bracketed ==
  /\ addr = NotParsed /\ ~PortBehindBrackets /\ ~PortOnly /\ BracketsOnly
  /\ addrstr' = CutAt({lbrack, rbrack})
  /\ addr' = lbrack + 1 /\ port' = NoPlace
  /\ UNCHANGED addrin

AddressOnly ==
  /\ addr = NotParsed /\ ~PortBehindBrackets /\ ~PortOnly /\ ~BracketsOnly /\ Plain
  /\ addr' = 1 /\ port' = NoPlace
  /\ UNCHANGED <<addrin, addrstr>>

Malformed ==
  /\ addr = NotParsed /\ ~PortBehindBrackets /\ ~PortOnly /\ ~BracketsOnly /\ ~Plain
  /\ addr' = NoPlace /\ port' = NoPlace
  /\ UNCHANGED <<addrin, addrstr>>

Parsed == addr # NotParsed /\ UNCHANGED addrvars

AddrNext == BracketedWithPort \/ AddressWithPort \/ Bracketed \/ AddressOnly \/ Malformed \/ Parsed
AddrSpec == AddrInit /\ [][AddrNext]_addrvars

-----------------------------------------------------------------------------
(* What must hold. *)

\* The string at a place that was returned.
Text(p) == SubSeq(addrstr, p, Min({q \in p .. Len(addrstr) : addrstr[q] = EndMark}) - 1)

\* The grammar in the comment above the code.
Hosts == {s \in BoundedSeq({"h"}, MaxAddr) : s # <<>>}
IPv6  == {s \in BoundedSeq({"h", ":"}, MaxAddr) :
            \E p, q \in DOMAIN s : p # q /\ s[p] = ":" /\ s[q] = ":"}
Bracket(s) == <<"[">> \o s \o <<"]">>

\* An address with a port, or without: an IPv4 one or a name as it is, an IPv6
\* one in brackets, as the help text asks for.  It is taken apart at its last
\* colon outside the brackets, and cut so that neither part runs into the other.
GrammarParsed ==
  addr # NotParsed =>
    \A host \in {s \in Hosts \cup IPv6 : Len(s) <= Len(addrin)} :
      LET written == IF host \in Hosts THEN host ELSE Bracket(host)
      IN  /\ addrin = written => addr # NoPlace /\ Text(addr) = host /\ port = NoPlace
          /\ \A p \in {s \in Hosts : Len(s) < Len(addrin)} :
               addrin = written \o <<":">> \o p =>
                 addr # NoPlace /\ Text(addr) = host /\ port # NoPlace /\ Text(port) = p

\* A bracket without its counterpart is refused, wherever the colons are.
UnmatchedRefused == addr # NotParsed /\ (lbrack = NoPlace) # (rbrack = NoPlace) => addr = NoPlace

\* An address is taken apart as it is written, or refused.
AddressSplit == GrammarParsed /\ UnmatchedRefused
=============================================================================
