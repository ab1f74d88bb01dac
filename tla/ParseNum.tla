------------------------------ MODULE ParseNum ------------------------------
(***************************************************************************)
(* Numbers and switches of the command line and the configuration file:    *)
(* src/mig_parse.h.                                                        *)
(*                                                                         *)
(* A string is a sequence of characters; position Len + 1 of it is the     *)
(* null byte, and what memory holds after that is a variable of its own.   *)
(* An end pointer is a position, or NULL.  An int has IntMod values and    *)
(* wraps, as it does in the build; K, M and G stand for powers of Kilo.    *)
(***************************************************************************)
EXTENDS Integers, Sequences, SequencesExt

CONSTANTS
  Strings,     \* bound: what is parsed, sequences of characters
  Afters,      \* what memory may hold after a string, two characters
  IntMod, Kilo

NULL == 0
NUL  == "zero"

ASSUME ParseNumAssumption ==
  /\ Strings \subseteq Seq(STRING)
  /\ \A s \in Strings : \A n \in DOMAIN s : s[n] # NUL
  /\ \A past \in Afters : past \in Seq(STRING) /\ Len(past) = 2
  /\ IntMod \in Nat \ {0} /\ Kilo \in Nat

VARIABLES
  str, after,    \* a string, and the memory after it
  num,           \* what mig_parse_int returned of it: [val, end]
  size,          \* what mig_parse_size did
  truth          \* what mig_parse_bool did

numvars == <<str, after, num, size, truth>>

At(s, past, p) ==
  IF p <= Len(s) THEN s[p] ELSE IF p = Len(s) + 1 THEN NUL ELSE past[p - Len(s) - 1]

ToInt(n) == LET m == n % IntMod IN IF 2 * m >= IntMod THEN m - IntMod ELSE m

-----------------------------------------------------------------------------
(* The parsers. *)

Digits == <<"0", "1", "2", "3", "4", "5", "6", "7", "8", "9", "a", "b", "c", "d", "e", "f">>
Lower  == [c \in {"A", "B", "C", "D", "E", "F"} |->
             CASE c = "A" -> "a" [] c = "B" -> "b" [] c = "C" -> "c"
               [] c = "D" -> "d" [] c = "E" -> "e" [] c = "F" -> "f"]

\* mig_char2bin, oct, dec and hex; -1 is no digit.
CharToDigit(c, base) ==
  LET d == IF c \in DOMAIN Lower THEN Lower[c] ELSE c
  IN  IF \E n \in 1 .. base : Digits[n] = d THEN (CHOOSE n \in 1 .. base : Digits[n] = d) - 1 ELSE -1

\* How many digits there are from position p on.
DigitCount(s, p, base) ==
  CHOOSE n \in 0 .. Len(s) :
    /\ \A m \in 0 .. n - 1 : p + m <= Len(s) /\ CharToDigit(s[p + m], base) # -1
    /\ p + n > Len(s) \/ CharToDigit(s[p + n], base) = -1

\* mig_parse_uint_bin, oct, dec and hex: the value after each digit.
Taken(s, p, base, n) ==
  LET val[m \in 0 .. n] ==
        IF m = 0 THEN 0 ELSE ToInt(val[m - 1] * base + CharToDigit(s[p + m - 1], base))
  IN  val
mig_parse_uint(s, p, base) ==
  LET n == DigitCount(s, p, base)
  IN  [val |-> Taken(s, p, base, n)[n], end |-> IF n = 0 THEN NULL ELSE p + n]

Signed(sign, r) == [r EXCEPT !.val = ToInt(sign * @)]

\* mig_parse_int: an optional sign, a base prefix, digits.  "0" at the end of the
\* string is 0 with no end pointer.
mig_parse_int(s, past) ==
  LET sign == IF At(s, past, 1) = "-" THEN -1 ELSE 1
      p    == IF At(s, past, 1) \in {"-", "+"} THEN 2 ELSE 1
      mark == IF At(s, past, p) = "0" THEN At(s, past, p + 1) ELSE "none"
  IN  CASE mark = "b" -> Signed(sign, mig_parse_uint(s, p + 2, 2))
        [] mark = "o" -> Signed(sign, mig_parse_uint(s, p + 2, 8))
        [] mark = "x" -> Signed(sign, mig_parse_uint(s, p + 2, 16))
        [] mark = NUL -> [val |-> 0, end |-> NULL]
        [] OTHER      -> Signed(sign, mig_parse_uint(s, p, 10))

\* Seeded fault: the cases fall through to the last one.
UnitFallsThrough(s, past, p) ==
  IF At(s, past, p) \in {"K", "k", "M", "m", "G", "g"} THEN Kilo * Kilo * Kilo ELSE 1
Unit(s, past, p) ==
  LET c == At(s, past, p)
  IN  CASE c \in {"K", "k"} -> Kilo
        [] c \in {"M", "m"} -> Kilo * Kilo
        [] c \in {"G", "g"} -> Kilo * Kilo * Kilo
        [] OTHER            -> 1

\* mig_parse_size steps over the character after the number whatever it is, and
\* looks for "iB" behind it: of a number alone, behind the string.
mig_parse_size(s, past) ==
  LET mantissa == mig_parse_int(s, past)
      p        == mantissa.end
      suffixed == At(s, past, p + 1) = "i" /\ At(s, past, p + 2) = "B"
  IN  IF p = NULL THEN mantissa
      ELSE [val |-> ToInt(mantissa.val * ToInt(Unit(s, past, p))),
            end |-> IF suffixed THEN p + 3 ELSE p + 1]

\* strncasecmp with the rest of a word.
Lowered(c)      == LET cs == <<"T", "R", "U", "E", "F", "A", "L", "S", "Y", "N", "O">>
                       ds == <<"t", "r", "u", "e", "f", "a", "l", "s", "y", "n", "o">>
                   IN  IF Contains(cs, c) THEN ds[CHOOSE n \in DOMAIN cs : cs[n] = c] ELSE c
InLower(s)      == [n \in DOMAIN s |-> Lowered(s[n])]
Begins(s, word) == IsPrefix(word, InLower(s))
FirstIs(s, lower, upper) == Len(s) > 0 /\ s[1] \in {lower, upper}
mig_parse_bool(s) ==
  LET rest == Tail(s)
  IN  CASE FirstIs(s, "t", "T") -> IF Begins(rest, <<"r", "u", "e">>) THEN 1 ELSE -1
        [] FirstIs(s, "f", "F") -> IF Begins(rest, <<"a", "l", "s", "e">>) THEN 0 ELSE -1
        [] FirstIs(s, "y", "Y") -> IF Begins(rest, <<"e", "s">>) THEN 1 ELSE -1
        [] FirstIs(s, "n", "N") -> IF FirstIs(rest, "o", "O") THEN 0 ELSE -1
        [] FirstIs(s, "o", "O") ->
             (CASE FirstIs(rest, "n", "N") -> 1
                [] FirstIs(rest, "f", "F") -> IF FirstIs(Tail(rest), "f", "F") THEN 0 ELSE -1
                [] OTHER -> -1)
        [] OTHER -> -1

-----------------------------------------------------------------------------
Unparsed == [val |-> 0, end |-> NULL]
Unknown  == -2

NumStarts(s, past) ==
  /\ str = s /\ after = past
  /\ num = Unparsed /\ size = Unparsed /\ truth = Unknown
NumInit == \E s \in Strings, past \in Afters : NumStarts(s, past)

Parse ==
  /\ num' = mig_parse_int(str, after)
  /\ size' = mig_parse_size(str, after)
  /\ truth' = mig_parse_bool(str)
  /\ UNCHANGED <<str, after>>

NumNext == Parse
NumSpec == NumInit /\ [][NumNext]_numvars

-----------------------------------------------------------------------------
(* What must hold. *)

\* How a number may begin: the sign it has then, and its base.
Beginnings ==
  LET Lead(cs, sign, base) == [chars |-> cs, sign |-> sign, base |-> base]
      Marks == {<<"b", 2>>, <<"o", 8>>, <<"x", 16>>}
  IN  {Lead(<<>>, 1, 10), Lead(<<"-">>, -1, 10), Lead(<<"+">>, 1, 10)}
      \cup {Lead(<<"0", m[1]>>, 1, m[2]) : m \in Marks}
      \cup {Lead(<<"-", "0", m[1]>>, -1, m[2]) : m \in Marks}
      \cup {Lead(<<"+", "0", m[1]>>, 1, m[2]) : m \in Marks}

\* The digits of a base, in either case, and where they end after a beginning.
DigitsOf(base) == SubSeq(Digits, 1, base)
Small(c) == IF c \in DOMAIN Lower THEN Lower[c] ELSE c
IsDigit(c, base) == Contains(DigitsOf(base), Small(c))
EndOfDigits(l) ==
  CHOOSE n \in 0 .. Len(str) :
    /\ \A m \in Len(l.chars) + 1 .. n : IsDigit(str[m], l.base)
    /\ n = Len(str) \/ (n >= Len(l.chars) /\ ~IsDigit(str[n + 1], l.base))
Powers(base, n) == LET power[k \in 0 .. n] == IF k = 0 THEN 1 ELSE base * power[k - 1]
                   IN  power
Weighed(first, base, n) ==
  LET Worth(c) == CHOOSE d \in 0 .. 15 : Digits[d + 1] = Small(c)
      sum[m \in 0 .. n] ==
        IF m = 0 THEN 0
        ELSE sum[m - 1] + Worth(str[first + m - 1]) * Powers(base, n)[n - m]
  IN  sum
ValueOf(l, n) == LET count == n - Len(l.chars)
                 IN  Weighed(Len(l.chars) + 1, l.base, count)[count]

\* The string is a number with the beginning l and digits up to place n, and
\* whatever after them: zero may come first, unless that makes it another base.
WrittenAs(l, n) ==
  LET first == Len(l.chars) + 1
  IN  /\ IsPrefix(l.chars, str) /\ n >= first
      /\ l.base = 10 /\ str[first] = "0" /\ first < Len(str)
           => str[first + 1] \notin {"b", "o", "x"}
\* It is "0", "-0" or "+0" and nothing else.
ZeroAlone(l, n) ==
  l.base = 10 /\ n = Len(l.chars) + 1 /\ n = Len(str) /\ str[n] = "0"

NumParsed == truth # Unknown

\* A number in any base and with any sign has its value, modulo the width of an
\* int, and ends where its digits do; only zero written as nothing but "0" has no
\* end, as if it were no number.
IntAsWritten ==
  NumParsed => \A l \in Beginnings :
    LET n == EndOfDigits(l)
    IN  WrittenAs(l, n) => num = [val |-> ToInt(l.sign * ValueOf(l, n)),
                                  end |-> IF ZeroAlone(l, n) THEN NULL ELSE n + 1]

\* A size is the number times its unit, modulo the width of an int, and ends
\* after the unit, be it K or KiB; a character that is no unit is passed over too.
UnitWorth == [K |-> Kilo, M |-> Kilo * Kilo, G |-> Kilo * Kilo * Kilo,
              k |-> Kilo, m |-> Kilo * Kilo, g |-> Kilo * Kilo * Kilo]
UnitAt(n) == IF n <= Len(str) /\ str[n] \in DOMAIN UnitWorth THEN UnitWorth[str[n]] ELSE 1
SizeAsWritten ==
  NumParsed => \A l \in Beginnings :
    LET n      == EndOfDigits(l)
        binary == n + 3 <= Len(str) /\ str[n + 2] = "i" /\ str[n + 3] = "B"
    IN  WrittenAs(l, n) =>
          /\ size.val = ToInt(l.sign * ValueOf(l, n) * UnitAt(n + 1))
          /\ n < Len(str) => size.end = IF binary THEN n + 4 ELSE n + 2

\* The value of a size is that of the string, whatever comes after it in memory,
\* although mig_parse_size reads on behind its end.
SizeByString ==
  NumParsed => \A past \in Afters : mig_parse_size(str, past).val = size.val

\* "0 if false, 1 if true, -1 if error": the words are true, yes, on, and false,
\* no, off.
TrueWords  == {<<"t", "r", "u", "e">>, <<"y", "e", "s">>, <<"o", "n">>}
FalseWords == {<<"f", "a", "l", "s", "e">>, <<"n", "o">>, <<"o", "f", "f">>}
Says(words) == \E w \in words : Begins(str, w)
BoolAsDocumented ==
  NumParsed =>
    truth = CASE Says(TrueWords) -> 1 [] Says(FalseWords) -> 0 [] OTHER -> -1

\* Numbers, sizes and switches are read as they are written.
NumbersAsWritten == IntAsWritten /\ SizeAsWritten /\ SizeByString /\ BoolAsDocumented
=============================================================================
