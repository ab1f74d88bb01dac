------------------------------ MODULE Parsers -------------------------------
(***************************************************************************)
(* The parsers of numbers, words and addresses that the configuration, the *)
(* command line and the requests are read with, and what is expected of    *)
(* all of them.  They share no state.                                      *)
(***************************************************************************)
EXTENDS ParseNum, StatMatch, SockAddr

\* The parsers read what is written: numbers, sizes and switches have their
\* values, whatever is behind them; the matchers find the word that a string
\* begins with, and go on in the string; sockaddr_parse takes the forms of its
\* grammar apart, and refuses a bracket without its counterpart.
ReadAsWritten == NumbersAsWritten /\ WordsMatched /\ AddressSplit
=============================================================================
