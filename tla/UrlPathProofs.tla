--------------------------- MODULE UrlPathProofs ---------------------------
(***************************************************************************)
(* Proofs about UrlPath: decoding in place gives a path its meaning, and   *)
(* what scrubbing leaves is where the path's components lead, below the    *)
(* root.                                                                   *)
(*                                                                         *)
(* Meaning, Where and FlattenSeq are recursive functions.  That they       *)
(* satisfy their equations, and what they compute, is shown by induction   *)
(* with a set for the predicate (InductionUpTo).                           *)
(***************************************************************************)
EXTENDS UrlPath, SequenceTheorems, FiniteSetTheorems, Induction, TLAPS

\* The characters that the code writes.
LEMMA CharHas == NUL \in Char /\ " " \in Char /\ "/" \in Char
  BY UrlPathAssumption

-----------------------------------------------------------------------------
(* Strings that end at a null byte.                                          *)

\* EndOf is the first null byte, if there is one.
LEMMA EndIsFirst ==
  ASSUME NEW s, NEW l \in Nat, DOMAIN s = 1 .. l, NEW e \in 1 .. l, s[e] = NUL
  PROVE  /\ EndOf(s) \in 1 .. e /\ s[EndOf(s)] = NUL
         /\ \A q \in 1 .. EndOf(s) - 1 : s[q] # NUL
         /\ \A f \in 1 .. l : s[f] = NUL /\ (\A q \in 1 .. f - 1 : s[q] # NUL) => f = EndOf(s)
<1> DEFINE T == {p \in 1 .. l : s[p] = NUL}
<1>1. PICK n \in T : \A m \in T : n <= m
  <2>1. T \subseteq Nat /\ T # {}
    OBVIOUS
  <2> HIDE DEF T
  <2> QED  BY <2>1, LeastNat
<1>2. n \in DOMAIN s /\ s[n] = NUL /\ \A q \in 1 .. n - 1 : s[q] # NUL
  BY <1>1
<1>3. /\ EndOf(s) \in 1 .. l /\ s[EndOf(s)] = NUL
      /\ \A q \in 1 .. EndOf(s) - 1 : s[q] # NUL
  BY <1>2 DEF EndOf
<1>4. ASSUME NEW f \in 1 .. l, s[f] = NUL, \A q \in 1 .. f - 1 : s[q] # NUL
      PROVE  f = EndOf(s)
  <2>1. ~(f < EndOf(s)) /\ ~(EndOf(s) < f)
    BY <1>3, <1>4
  <2> QED  BY <1>3, <2>1
<1>5. ~(e < EndOf(s))
  BY <1>3
<1> QED  BY <1>3, <1>4, <1>5

\* The text of an array is decided by what is in it up to a null byte.
LEMMA TextOfPrefix ==
  ASSUME NEW s \in Seq(Char), NEW t \in Seq(Char), NEW k \in 1 .. Len(s),
         k <= Len(t), s[k] = NUL, \A q \in 1 .. k : s[q] = t[q]
  PROVE  Text(s) = Text(t)
<1>1. /\ DOMAIN s = 1 .. Len(s) /\ DOMAIN t = 1 .. Len(t) /\ Len(s) \in Nat /\ Len(t) \in Nat
  OBVIOUS
<1>2. /\ EndOf(s) \in 1 .. k /\ s[EndOf(s)] = NUL
      /\ \A q \in 1 .. EndOf(s) - 1 : s[q] # NUL
  BY <1>1, EndIsFirst
<1>3. t[EndOf(s)] = NUL /\ \A q \in 1 .. EndOf(s) - 1 : t[q] # NUL
  BY <1>2, <1>1
<1>4. EndOf(t) = EndOf(s)
  BY <1>1, <1>2, <1>3, EndIsFirst
<1>5. SubSeq(s, 1, EndOf(s) - 1) = SubSeq(t, 1, EndOf(s) - 1)
  BY <1>1, <1>2
<1> QED  BY <1>4, <1>5 DEF Text

-----------------------------------------------------------------------------
(* What a path says.                                                         *)

\* One equation of MeaningFrom.
MeaningStep(path, g, p) ==
  IF p > Len(path) THEN <<>>
  ELSE IF path[p] # "%" THEN <<Unplus(path[p])>> \o g[p + 1]
  ELSE IF ~Hex(path, p + 1) THEN g[p + 2]
  ELSE IF ~Hex(path, p + 2) THEN g[p + 3]
  ELSE <<Escapes[<<path[p + 1], path[p + 2]>>]>> \o g[p + 3]

\* It looks at what is behind p only.
LEMMA MeaningLooksAhead ==
  ASSUME NEW path \in Seq(Char), NEW g, NEW h, NEW p \in 1 .. Len(path) + 3,
         \A q \in p + 1 .. Len(path) + 3 : g[q] = h[q]
  PROVE  MeaningStep(path, g, p) = MeaningStep(path, h, p)
<1>1. CASE p > Len(path)
  BY <1>1 DEF MeaningStep
<1>2. CASE p <= Len(path)
  <2>1. {p + 1, p + 2, p + 3} \subseteq p + 1 .. Len(path) + 3
    BY <1>2
  <2>2. g[p + 1] = h[p + 1] /\ g[p + 2] = h[p + 2] /\ g[p + 3] = h[p + 3]
    BY <2>1
  <2> QED  BY <2>2 DEF MeaningStep
<1> QED  BY <1>1, <1>2

\* The equations have a solution, which is filled in from the end.
LEMMA MeaningDefined ==
  ASSUME NEW path \in Seq(Char)
  PROVE  MeaningFrom(path) =
           [p \in 1 .. Len(path) + 3 |-> MeaningStep(path, MeaningFrom(path), p)]
<1> DEFINE L == Len(path) + 3
           Solves(g, k) == /\ g = [p \in 1 .. L |-> g[p]]
                           /\ \A p \in L + 1 - k .. L : p >= 1 => g[p] = MeaningStep(path, g, p)
           S == {k \in 0 .. L : \E g : Solves(g, k)}
<1>0. L \in Nat /\ L >= 3
  OBVIOUS
<1>1. 0 \in S
  <2> DEFINE g == [p \in 1 .. L |-> <<>>]
  <2>1. Solves(g, 0)
    BY <1>0
  <2> QED  BY <2>1, <1>0
<1>2. ASSUME NEW k \in 0 .. L - 1, k \in S PROVE k + 1 \in S
  <2>1. PICK g : Solves(g, k)
    BY <1>2
  <2> DEFINE j == L - k
             h == [p \in 1 .. L |-> IF p = j THEN MeaningStep(path, g, j) ELSE g[p]]
  <2>2. j \in 1 .. L /\ \A p \in 1 .. L : h[p] = IF p = j THEN MeaningStep(path, g, j) ELSE g[p]
    BY <1>0
  <2>3. h = [p \in 1 .. L |-> h[p]]
    OBVIOUS
  <2> HIDE DEF h
  <2>4. ASSUME NEW p \in j .. L PROVE h[p] = MeaningStep(path, h, p)
    <3>1. p \in 1 .. L /\ \A q \in p + 1 .. L : g[q] = h[q]
      BY <2>2, <1>0
    <3>2. MeaningStep(path, g, p) = MeaningStep(path, h, p)
      BY <3>1, MeaningLooksAhead
    <3>3. CASE p = j
      BY <2>2, <3>2, <3>3
    <3>4. CASE p # j
      <4>1. p \in L + 1 - k .. L /\ p >= 1
        BY <3>4, <2>2, <1>0
      <4>2. g[p] = MeaningStep(path, g, p)
        BY <2>1, <4>1
      <4> QED  BY <2>2, <3>1, <3>2, <3>4, <4>2
    <3> QED  BY <3>3, <3>4
  <2>5. Solves(h, k + 1)
    <3>1. \A p \in L + 1 - (k + 1) .. L : p >= 1 => p \in j .. L
      BY <1>0
    <3> QED  BY <2>3, <2>4, <3>1
  <2>6. k + 1 \in 0 .. L
    BY <1>0
  <2> HIDE DEF Solves
  <2> QED  BY <2>5, <2>6
<1>3. L \in S
  <2>1. \A k \in 0 .. L - 1 : k \in S => k + 1 \in S
    BY <1>2
  <2> HIDE DEF S, L
  <2>2. \A k \in 0 .. L : k \in S
    BY <1>0, <1>1, <2>1, InductionUpTo
  <2> QED  BY <1>0, <2>2
<1>4. \E g : g = [p \in 1 .. L |-> MeaningStep(path, g, p)]
  <2>1. PICK g : Solves(g, L)
    BY <1>3
  <2>2. g = [p \in 1 .. L |-> g[p]] /\ \A p \in 1 .. L : g[p] = MeaningStep(path, g, p)
    BY <2>1, <1>0
  <2>3. g = [p \in 1 .. L |-> MeaningStep(path, g, p)]
    BY <2>2
  <2> QED  BY <2>3
<1>5. MeaningFrom(path) = CHOOSE g : g = [p \in 1 .. L |-> MeaningStep(path, g, p)]
  BY DEF MeaningFrom, MeaningStep
<1> QED  BY <1>4, <1>5

\* What a path says from p on is a string.
LEMMA MeaningType ==
  ASSUME NEW path \in Seq(Char)
  PROVE  \A p \in 1 .. Len(path) + 3 : MeaningFrom(path)[p] \in Seq(Char)
<1> DEFINE L == Len(path) + 3
           M == MeaningFrom(path)
           S == {k \in 0 .. L : \A p \in L + 1 - k .. L : p >= 1 => M[p] \in Seq(Char)}
<1>0. L \in Nat /\ L >= 3 /\ \A p \in 1 .. L : M[p] = MeaningStep(path, M, p)
  BY MeaningDefined
<1>1. 0 \in S
  BY <1>0
<1>2. ASSUME NEW k \in 0 .. L - 1, k \in S PROVE k + 1 \in S
  <2> DEFINE j == L - k
  <2>1. j \in 1 .. L /\ \A p \in j + 1 .. L : M[p] \in Seq(Char)
    BY <1>0, <1>2
  <2>2. M[j] = MeaningStep(path, M, j)
    BY <1>0, <2>1
  <2>3. M[j] \in Seq(Char)
    <3> HIDE DEF M, j
    <3>1. CASE j > Len(path)
      BY <2>2, <3>1 DEF MeaningStep
    <3>2. CASE j <= Len(path)
      <4>0. ~(j > Len(path))
        BY <2>1, <3>2
      <4>1. /\ M[j + 1] \in Seq(Char) /\ M[j + 2] \in Seq(Char) /\ M[j + 3] \in Seq(Char)
        BY <2>1, <3>2
      <4>2. path[j] \in Char /\ Unplus(path[j]) \in Char
        <5>1. j \in 1 .. Len(path)
          BY <2>1, <3>2
        <5>2. path[j] \in Char
          BY <5>1, ElementOfSeq
        <5> QED  BY <5>2, UrlPathAssumption DEF Unplus
      <4>3. Hex(path, j + 1) /\ Hex(path, j + 2) => Escapes[<<path[j + 1], path[j + 2]>>] \in Char
        BY UrlPathAssumption DEF Hex, Escapes
      <4>4. \A c \in Char, t \in Seq(Char) : <<c>> \o t \in Seq(Char)
        OBVIOUS
      <4>5. CASE path[j] # "%"
        <5>1. M[j] = <<Unplus(path[j])>> \o M[j + 1]
          BY <2>2, <4>0, <4>5 DEF MeaningStep
        <5> QED  BY <4>1, <4>2, <4>4, <5>1, Zenon
      <4>6. CASE path[j] = "%" /\ Hex(path, j + 1) /\ Hex(path, j + 2)
        BY <2>2, <3>2, <4>1, <4>3, <4>4, <4>6 DEF MeaningStep
      <4>7. CASE path[j] = "%" /\ ~(Hex(path, j + 1) /\ Hex(path, j + 2))
        BY <2>2, <3>2, <4>1, <4>7 DEF MeaningStep
      <4> QED  BY <4>5, <4>6, <4>7
    <3> QED  BY <2>1, <3>1, <3>2
  <2> QED  BY <2>1, <2>3, <1>0
<1>3. L \in S
  <2>1. \A k \in 0 .. L - 1 : k \in S => k + 1 \in S
    BY <1>2
  <2> HIDE DEF S, L
  <2>2. \A k \in 0 .. L : k \in S
    BY <1>0, <1>1, <2>1, InductionUpTo
  <2> QED  BY <1>0, <2>2
<1> QED  BY <1>3, <1>0

-----------------------------------------------------------------------------
(* Decoding.                                                                 *)

\* What is written and what the rest says are together what the path says.
Spelled ==
  LET M == MeaningFrom(input)
  IN  /\ Len(M[1]) = dest - 1 + Len(M[src])
      /\ \A q \in 1 .. dest - 1 : M[1][q] = str[q]
      /\ \A q \in 1 .. Len(M[src]) : M[1][dest - 1 + q] = M[src][q]

Arrays ==
  /\ input \in Seq(Char \ {NUL})
  /\ str \in Seq(Char) /\ Len(str) = Len(input) + 1

\* What is still to be read is as it came.
Decoding ==
  /\ src \in 1 .. Len(str) /\ dest \in 1 .. src
  /\ \A q \in src .. Len(str) : str[q] = Append(input, NUL)[q]
  /\ Spelled

Decoded ==
  /\ decoded = Meaning(input)
  /\ decoded = Text(str)
  /\ \E e \in 1 .. Len(str) : str[e] = NUL

DInv ==
  /\ Arrays
  /\ rewriting = "decode" => Decoding
  /\ rewriting = "start" => Decoded

\* Lengths, before and after a character is read and written.
LEMMA Regroup ==
  ASSUME NEW a, NEW b, NEW c, NEW d \in Nat, NEW e \in Nat, NEW f, NEW g \in Nat,
         a = d - 1 + b, b = c + e, f - 1 = d - 1 + c, c \in Nat, b \in Nat
  PROVE  a = f - 1 + e
  OBVIOUS

\* The places written are those before and the new one.
LEMMA OneMore ==
  ASSUME NEW d \in Nat, NEW n \in {0, 1}, NEW e, e = d + n, NEW q \in 1 .. e - 1
  PROVE  q \in 1 .. d - 1 \/ (q = d /\ n = 1)
  OBVIOUS

\* What is said from a place on is a string, and nothing behind the end.
LEMMA MeaningsOfInput ==
  ASSUME Arrays
  PROVE  /\ input \in Seq(Char) /\ Len(input) \in Nat
         /\ \A p \in 1 .. Len(input) + 3 : MeaningFrom(input)[p] \in Seq(Char)
         /\ \A p \in 1 .. Len(input) + 3 :
              MeaningFrom(input)[p] = MeaningStep(input, MeaningFrom(input), p)
<1>1. input \in Seq(Char)
  BY SeqMonotonic DEF Arrays
<1>2. /\ MeaningFrom(input) =
           [p \in 1 .. Len(input) + 3 |-> MeaningStep(input, MeaningFrom(input), p)]
      /\ \A p \in 1 .. Len(input) + 3 : MeaningFrom(input)[p] \in Seq(Char)
  BY <1>1, MeaningDefined, MeaningType
<1>3. \A p \in 1 .. Len(input) + 3 :
         MeaningFrom(input)[p] = MeaningStep(input, MeaningFrom(input), p)
  <2> DEFINE M == MeaningFrom(input)
  <2>1. M = [p \in 1 .. Len(input) + 3 |-> MeaningStep(input, M, p)]
    BY <1>2
  <2> HIDE DEF M
  <2>2. \A p \in 1 .. Len(input) + 3 : M[p] = MeaningStep(input, M, p)
    BY <2>1
  <2> QED  BY <2>2 DEF M
<1> QED  BY <1>1, <1>2, <1>3

\* An iteration that read no null byte goes on, and stays behind what it reads.
LEMMA DecodeGoesOn ==
  ASSUME Arrays, Decoding, NEW n \in 1 .. 3, NEW chr, chr # NUL,
         NEW what \in Seq(Char), Len(what) \in {0, 1}, Decodes(n, chr, what),
         src + n <= Len(str),
         MeaningFrom(input)[src] = what \o MeaningFrom(input)[src + n]
  PROVE  Arrays' /\ Decoding' /\ rewriting' = rewriting
<1> DEFINE M == MeaningFrom(input)
<1>1. /\ Len(str) \in Nat /\ src \in Nat /\ dest \in Nat /\ dest <= src /\ dest >= 1
      /\ src' = src + n /\ dest' = dest + Len(what) /\ Len(what) \in {0, 1}
      /\ dest' <= src' /\ src' <= Len(str) /\ input' = input
  <2>1. Len(str) \in Nat
    BY LenProperties DEF Arrays
  <2>2. src' = src + n /\ dest' = dest + Len(what) /\ input' = input
    BY DEF Decodes
  <2>3. Len(what) \in {0, 1} /\ Len(what) <= n
    OBVIOUS
  <2> QED  BY <2>1, <2>2, <2>3 DEF Decoding
<1>2. /\ str' = (IF what = <<>> THEN str ELSE [str EXCEPT ![dest] = what[1]])
      /\ rewriting' = rewriting
  BY <1>1 DEF Decodes
<1>3. /\ str' \in Seq(Char) /\ Len(str') = Len(str)
      /\ \A q \in 1 .. Len(str) : what = <<>> \/ q # dest => str'[q] = str[q]
      /\ what # <<>> => str'[dest] = what[1]
  <2>1. CASE what = <<>>
    BY <1>2, <2>1 DEF Arrays
  <2>2. CASE what # <<>>
    <3>1. what[1] \in Char /\ dest \in 1 .. Len(str) /\ str \in Seq(Char)
      BY <2>2, <1>1 DEF Arrays
    <3>2. str' = [str EXCEPT ![dest] = what[1]]
      BY <1>2, <2>2
    <3> QED  BY <2>2, <3>1, <3>2
  <2> QED  BY <2>1, <2>2
<1>4. Arrays'
  BY <1>1, <1>3 DEF Arrays
<1>5. \A q \in src' .. Len(str') : str'[q] = Append(input', NUL)[q]
  <2>1. \A q \in src' .. Len(str') : q \in src .. Len(str) /\ q # dest /\ q \in 1 .. Len(str)
    BY <1>1, <1>3
  <2> QED  BY <1>1, <1>3, <2>1 DEF Decoding
<1>6. Spelled'
  <2>1. M[src] \in Seq(Char) /\ M[src'] \in Seq(Char) /\ M[1] \in Seq(Char)
    <3>1. {1, src, src'} \subseteq 1 .. Len(input) + 3 /\ Len(input) \in Nat
      BY <1>1, MeaningsOfInput DEF Arrays
    <3> QED  BY <3>1, MeaningsOfInput
  <2>2. /\ Len(M[src]) = Len(what) + Len(M[src'])
        /\ \A q \in 1 .. Len(M[src']) : M[src][Len(what) + q] = M[src'][q]
        /\ what # <<>> => M[src][1] = what[1]
    <3> HIDE DEF M
    <3>1. M[src] = what \o M[src']
      BY <1>1, Zenon DEF M
    <3> DEFINE r == M[src']
    <3>2. r \in Seq(Char) /\ M[src] = what \o r
      BY <2>1, <3>1
    <3> HIDE DEF r
    <3>3. /\ Len(M[src]) = Len(what) + Len(r)
          /\ \A q \in 1 .. Len(r) : M[src][Len(what) + q] = r[q]
          /\ what # <<>> => M[src][1] = what[1]
      BY <3>2
    <3> QED  BY <3>3 DEF r
  <2>3. Spelled
    BY DEF Decoding
  <2>4. /\ Len(M[1]) = dest' - 1 + Len(M[src'])
        /\ \A q \in 1 .. dest' - 1 : M[1][q] = str'[q]
        /\ \A q \in 1 .. Len(M[src']) : M[1][dest' - 1 + q] = M[src'][q]
    <3> HIDE DEF M
    <3>0. /\ Len(M[1]) = dest - 1 + Len(M[src])
          /\ \A q \in 1 .. dest - 1 : M[1][q] = str[q]
          /\ \A q \in 1 .. Len(M[src]) : M[1][dest - 1 + q] = M[src][q]
      BY <2>3 DEF Spelled, M
    <3>1. Len(M[1]) \in Nat /\ Len(M[src]) \in Nat /\ Len(M[src']) \in Nat
      BY <2>1
    <3>2. Len(M[1]) = dest' - 1 + Len(M[src'])
      <4>1. Len(M[1]) = dest - 1 + Len(M[src]) /\ Len(M[src]) = Len(what) + Len(M[src'])
        BY <2>2, <3>0
      <4>2. dest' - 1 = dest - 1 + Len(what) /\ dest \in Nat /\ Len(what) \in Nat
        BY <1>1
      <4> QED  BY <3>1, <4>1, <4>2, Regroup
    <3>3. ASSUME NEW q \in 1 .. dest' - 1 PROVE M[1][q] = str'[q]
      <4>1. q \in 1 .. dest - 1 \/ (q = dest /\ what # <<>>)
        <5>1. dest' = dest + Len(what) /\ dest \in Nat /\ Len(what) \in {0, 1}
              /\ (Len(what) = 1 => what # <<>>)
          BY <1>1
        <5> QED  BY <3>3, <5>1, OneMore
      <4>2. ASSUME q \in 1 .. dest - 1 PROVE M[1][q] = str'[q]
        <5>1. q \in 1 .. Len(str) /\ q # dest
          BY <1>1, <4>2
        <5>2. str'[q] = str[q]
          BY <1>3, <5>1
        <5>3. M[1][q] = str[q]
          BY <3>0, <4>2
        <5> QED  BY <5>2, <5>3
      <4>3. ASSUME what # <<>> PROVE M[1][dest] = str'[dest]
        <5>1. 1 \in 1 .. Len(M[src])
          <6>1. Len(M[src]) = Len(what) + Len(M[src']) /\ Len(what) = 1
            BY <1>1, <2>2, <4>3
          <6> QED  BY <3>1, <6>1
        <5>2. M[1][dest - 1 + 1] = M[src][1]
          BY <3>0, <5>1
        <5>3. M[1][dest] = M[src][1]
          BY <1>1, <5>2
        <5>4. str'[dest] = what[1] /\ M[src][1] = what[1]
          BY <1>3, <2>2, <4>3
        <5> QED  BY <5>3, <5>4
      <4>4. CASE q \in 1 .. dest - 1
        BY <4>2, <4>4
      <4>5. CASE q = dest /\ what # <<>>
        BY <4>3, <4>5, SMTT(30)
      <4> QED  BY <4>1, <4>4, <4>5, Zenon
    <3>4. ASSUME NEW q \in 1 .. Len(M[src']) PROVE M[1][dest' - 1 + q] = M[src'][q]
      <4>1. Len(what) + q \in 1 .. Len(M[src])
        BY <1>1, <2>2, <3>1
      <4>2. M[1][dest - 1 + (Len(what) + q)] = M[src][Len(what) + q]
        BY <3>0, <4>1
      <4>3. dest - 1 + (Len(what) + q) = dest' - 1 + q
        BY <1>1, <3>1
      <4> QED  BY <2>2, <4>2, <4>3
    <3> QED  BY <3>2, <3>3, <3>4
  <2> QED  BY <1>1, <2>4 DEF Spelled
<1>7. src' \in 1 .. Len(str') /\ dest' \in 1 .. src'
  BY <1>1, <1>3
<1> QED  BY <1>2, <1>4, <1>5, <1>6, <1>7 DEF Decoding

\* The one that read the null byte is the last.
LEMMA DecodeEnds ==
  ASSUME Arrays, Decoding, NEW n \in 1 .. 3,
         NEW what \in Seq(Char), Len(what) \in {0, 1}, Len(what) = 1 => what[1] = NUL,
         Decodes(n, NUL, what),
         MeaningFrom(input)[src] = <<>>
  PROVE  Arrays' /\ Decoded' /\ rewriting' = "start"
<1> DEFINE M == MeaningFrom(input)
           s == IF what = <<>> THEN str ELSE [str EXCEPT ![dest] = what[1]]
           last == IF dest' > Len(str) THEN dest' - 1 ELSE dest'
<1>1. /\ Len(str) \in Nat /\ src \in Nat /\ dest \in Nat /\ dest <= src /\ dest >= 1
      /\ src <= Len(str)
      /\ src' = src + n /\ dest' = dest + Len(what) /\ input' = input
  <2>1. Len(str) \in Nat
    BY LenProperties DEF Arrays
  <2> QED  BY <2>1 DEF Decodes, Decoding
<1>a. Len(what) \in {0, 1} /\ (what # <<>> => what[1] = NUL /\ Len(what) = 1)
      /\ (what = <<>> => Len(what) = 0)
  OBVIOUS
<1>2. str' = [s EXCEPT ![last] = NUL] /\ rewriting' = "start" /\ decoded' = Text(str')
  BY DEF Decodes
<1>3. last \in 1 .. Len(str) /\ last >= dest /\ (what = <<>> => last = dest)
  <2>1. last \in {dest', dest' - 1} /\ (dest' <= Len(str) => last = dest')
        /\ (dest' > Len(str) => last = dest' - 1)
    BY <1>1, <1>a
  <2>2. dest' = dest + Len(what) /\ dest \in Nat /\ dest >= 1 /\ dest <= Len(str) /\ Len(str) \in Nat
    BY <1>1
  <2>3. CASE what = <<>>
    <3>1. dest' = dest
      BY <1>a, <2>2, <2>3
    <3> QED  BY <2>1, <2>2, <3>1
  <2>4. CASE what # <<>>
    <3>1. dest' = dest + 1
      BY <1>a, <2>2, <2>4
    <3> HIDE DEF last
    <3> QED  BY <2>1, <2>2, <2>4, <3>1
  <2> QED  BY <2>3, <2>4
<1>4. /\ s \in Seq(Char) /\ Len(s) = Len(str)
      /\ \A q \in 1 .. Len(str) : q # dest => s[q] = str[q]
      /\ what # <<>> => s[dest] = NUL
  <2>1. NUL \in Char /\ dest \in 1 .. Len(str) /\ str \in Seq(Char)
    <3>1. str \in Seq(Char)
      BY DEF Arrays
    <3>2. NUL \in Char
      BY CharHas, Zenon
    <3>3. dest \in 1 .. Len(str)
      BY <1>1
    <3> QED  BY <3>1, <3>2, <3>3, Zenon
  <2>2. CASE what = <<>>
    BY <2>1, <2>2
  <2>3. CASE what # <<>>
    <3>1. s = [str EXCEPT ![dest] = NUL]
      BY <1>a, <2>3
    <3> HIDE DEF s
    <3> QED  BY <2>1, <2>3, <3>1
  <2> QED  BY <2>2, <2>3
<1>5. /\ str' \in Seq(Char) /\ Len(str') = Len(str)
      /\ \A q \in 1 .. dest - 1 : str'[q] = str[q]
      /\ str'[dest] = NUL /\ str'[last] = NUL
  <2> HIDE DEF s, last
  <2>1. NUL \in Char
    BY CharHas
  <2>2. /\ str' \in Seq(Char) /\ Len(str') = Len(s)
        /\ \A q \in 1 .. Len(s) : str'[q] = IF q = last THEN NUL ELSE s[q]
    BY <1>2, <1>3, <1>4, <2>1, ExceptSeq
  <2>3. {dest, last} \subseteq 1 .. Len(s) /\ \A q \in 1 .. dest - 1 : q \in 1 .. Len(s) /\ q # dest /\ q # last
    BY <1>1, <1>3, <1>4
  <2>4. dest # last => what # <<>>
    BY <1>3
  <2> QED  BY <1>4, <2>2, <2>3, <2>4
<1>6. Text(str') = Text(Append(M[1], NUL))
  <2>1. M[1] \in Seq(Char) /\ NUL \in Char
    <3>1. Len(input) \in Nat /\ 1 \in 1 .. Len(input) + 3
      BY MeaningsOfInput
    <3> QED  BY <3>1, MeaningsOfInput, CharHas
  <2>2. Len(M[1]) = dest - 1 /\ \A q \in 1 .. dest - 1 : M[1][q] = str[q]
    <3>1. M[src] = <<>>
      OBVIOUS
    <3>2. Len(M[1]) = dest - 1 + Len(M[src]) /\ \A q \in 1 .. dest - 1 : M[1][q] = str[q]
      BY DEF Decoding, Spelled
    <3> HIDE DEF M
    <3>3. Len(M[src]) = 0
      BY <3>1
    <3>4. dest \in Nat /\ Len(M[1]) = dest - 1 + 0
      BY <1>1, <3>2, <3>3
    <3> QED  BY <3>2, <3>4
  <2> HIDE DEF M, s, last
  <2>3. /\ Append(M[1], NUL) \in Seq(Char) /\ Len(Append(M[1], NUL)) = dest
        /\ \A q \in 1 .. dest : str'[q] = Append(M[1], NUL)[q]
    BY <1>1, <1>5, <2>1, <2>2
  <2>4. dest \in 1 .. Len(str') /\ dest <= Len(Append(M[1], NUL))
    BY <1>1, <1>5, <2>3
  <2> QED  BY <1>5, <2>3, <2>4, TextOfPrefix
<1>7. Arrays'
  BY <1>1, <1>5 DEF Arrays
<1>8. Decoded'
  <2>1. last \in 1 .. Len(str') /\ str'[last] = NUL
    BY <1>3, <1>5
  <2>2. \E e \in 1 .. Len(str') : str'[e] = NUL
    BY <2>1
  <2>3. decoded' = Meaning(input')
    BY <1>1, <1>2, <1>6 DEF Meaning
  <2> QED  BY <1>2, <2>2, <2>3 DEF Decoded
<1> QED  BY <1>2, <1>7, <1>8

\* The character read is the one that came, or the null byte behind the last.
LEMMA ReadsInput ==
  ASSUME Arrays, Decoding, NEW p \in Nat, p >= src, p <= Len(str)
  PROVE  /\ Len(str) = Len(input) + 1 /\ Len(input) \in Nat /\ src \in Nat /\ src >= 1
         /\ str[p] = NUL <=> p = Len(str)
         /\ p # Len(str) => str[p] = input[p]
         /\ str[p] \in HexDigits <=> Hex(input, p)
         /\ str[p] \in Char
<1>1. /\ input \in Seq(Char \ {NUL}) /\ Len(str) = Len(input) + 1 /\ Len(input) \in Nat
      /\ src \in Nat /\ src >= 1
  BY DEF Arrays, Decoding
<1>2. str[p] = Append(input, NUL)[p]
  BY <1>1 DEF Decoding
<1>3. CASE p = Len(str)
  <2>1. str[p] = NUL
    BY <1>1, <1>2, <1>3
  <2>2. NUL \notin HexDigits /\ NUL \in Char
    BY CharHas DEF NUL, HexDigits
  <2>3. ~Hex(input, p)
    BY <1>1, <1>3 DEF Hex
  <2> QED  BY <1>1, <1>3, <2>1, <2>2, <2>3
<1>4. CASE p # Len(str)
  <2>1. p \in 1 .. Len(input)
    BY <1>1, <1>4
  <2>2. str[p] = input[p] /\ input[p] \in Char \ {NUL}
    BY <1>1, <1>2, <2>1
  <2>3. p <= Len(input)
    BY <2>1
  <2> QED  BY <1>1, <1>4, <2>2, <2>3 DEF Hex
<1> QED  BY <1>3, <1>4

\* An escape makes one character.
LEMMA EscapesAre ==
  ASSUME NEW high \in HexDigits, NEW low \in HexDigits
  PROVE  /\ <<Escapes[<<high, low>>]>> \in Seq(Char) /\ Len(<<Escapes[<<high, low>>]>>) \in {0, 1}
<1>1. Escapes[<<high, low>>] \in Char
  BY UrlPathAssumption DEF Escapes
<1>2. \A c \in Char : <<c>> \in Seq(Char) /\ Len(<<c>>) \in {0, 1}
  OBVIOUS
<1> QED  BY <1>1, <1>2, Zenon

\* An iteration of mhttp_urldecode either goes on, or is the last.
LEMMA DecodeKeeps ==
  ASSUME Arrays, Decoding, rewriting = "decode", Decode
  PROVE  /\ Arrays'
         /\ \/ Decoding' /\ rewriting' = "decode"
            \/ Decoded' /\ rewriting' = "start"
<1> DEFINE M == MeaningFrom(input)
<1>1. /\ src \in Nat /\ src >= 1 /\ src <= Len(str) /\ Len(str) = Len(input) + 1
      /\ Len(input) \in Nat
  BY ReadsInput DEF Decoding, Arrays
<1>2. /\ src \in 1 .. Len(input) + 3
      /\ \A p \in 1 .. Len(input) + 3 : M[p] = MeaningStep(input, M, p)
      /\ \A p \in 1 .. Len(input) + 3 : p > Len(input) => M[p] = <<>>
  <2>1. \A p \in 1 .. Len(input) + 3 : M[p] = MeaningStep(input, M, p)
    BY MeaningsOfInput
  <2>2. src \in 1 .. Len(input) + 3
    BY <1>1
  <2> QED  BY <2>1, <2>2 DEF MeaningStep
<1>3. <<>> \in Seq(Char) /\ Len(<<>>) \in {0, 1} /\ Len(<<>>) # 1
  OBVIOUS
<1> HIDE DEF M
<1>4. CASE DecodeEscape
  <2> DEFINE high == str[src + 1]
             low  == str[src + 2]
  <2>1. src # Len(str) /\ str[src] = input[src] /\ input[src] = "%"
    <3>1. str[src] = "%" /\ "%" # NUL
      BY <1>4 DEF DecodeEscape, NUL
    <3> QED  BY <1>1, <3>1, ReadsInput
  <2>2. /\ src + 1 \in Nat /\ src + 1 >= src /\ src + 1 <= Len(str)
        /\ src + 2 \in Nat /\ src + 2 >= src /\ ~(src > Len(input))
        /\ {src + 2, src + 3} \subseteq 1 .. Len(input) + 3
    BY <1>1, <2>1
  <2>3. /\ high = NUL <=> src + 1 = Len(str)
        /\ high \in HexDigits <=> Hex(input, src + 1)
        /\ src + 1 # Len(str) => high = input[src + 1]
    BY <2>2, ReadsInput
  <2>4. M[src] = MeaningStep(input, M, src)
    BY <1>2
  <2>5. CASE high \notin HexDigits /\ Decodes(2, high, <<>>)
    <3>1. M[src] = M[src + 2]
      BY <2>1, <2>2, <2>3, <2>4, <2>5 DEF MeaningStep
    <3>2. CASE high = NUL
      <4>1. M[src + 2] = <<>>
        BY <1>1, <1>2, <2>2, <2>3, <3>2
      <4>2. Decodes(2, NUL, <<>>) /\ MeaningFrom(input)[src] = <<>>
        BY <2>5, <3>1, <3>2, <4>1 DEF M
      <4>3. 2 \in 1 .. 3
        OBVIOUS
      <4> HIDE DEF high, low
      <4> QED  BY <1>3, <4>2, <4>3, DecodeEnds
    <3>3. CASE high # NUL
      <4>1. src + 2 <= Len(str)
        BY <1>1, <2>2, <2>3, <3>3
      <4>2. <<>> \o M[src + 2] = M[src + 2]
        <5>1. M[src + 2] \in Seq(Char)
          BY <2>2, MeaningsOfInput DEF M
        <5> QED  BY <5>1
      <4>3. Decodes(2, high, <<>>) /\ MeaningFrom(input)[src] = <<>> \o MeaningFrom(input)[src + 2]
        BY <2>5, <3>1, <4>2 DEF M
      <4>4. 2 \in 1 .. 3
        OBVIOUS
      <4> HIDE DEF high, low
      <4> QED  BY <1>3, <3>3, <4>1, <4>3, <4>4, DecodeGoesOn
    <3> QED  BY <3>2, <3>3
  <2>6. ASSUME high \in HexDigits
        PROVE  /\ src + 2 <= Len(str)
               /\ low = NUL <=> src + 2 = Len(str)
               /\ low \in HexDigits <=> Hex(input, src + 2)
               /\ src + 2 # Len(str) => low = input[src + 2]
               /\ high = input[src + 1] /\ Hex(input, src + 1)
    <3>1. high # NUL
      BY <2>6 DEF NUL, HexDigits
    <3>2. src + 2 <= Len(str)
      BY <1>1, <2>2, <2>3, <3>1
    <3> HIDE DEF high
    <3>3. /\ low = NUL <=> src + 2 = Len(str)
          /\ low \in HexDigits <=> Hex(input, src + 2)
          /\ src + 2 # Len(str) => low = input[src + 2]
      BY <2>2, <3>2, ReadsInput
    <3> QED  BY <2>3, <2>6, <3>1, <3>2, <3>3
  <2>7. CASE high \in HexDigits /\ low \notin HexDigits /\ Decodes(3, low, <<>>)
    <3>1. M[src] = M[src + 3]
      BY <2>1, <2>2, <2>6, <2>4, <2>7 DEF MeaningStep
    <3>2. CASE low = NUL
      <4>1. M[src + 3] = <<>>
        BY <1>1, <1>2, <2>2, <2>6, <2>7, <3>2
      <4>2. Decodes(3, NUL, <<>>) /\ MeaningFrom(input)[src] = <<>>
        BY <2>7, <3>1, <3>2, <4>1 DEF M
      <4>3. 3 \in 1 .. 3
        OBVIOUS
      <4> HIDE DEF high, low
      <4> QED  BY <1>3, <4>2, <4>3, DecodeEnds
    <3>3. CASE low # NUL
      <4>1. src + 3 <= Len(str)
        BY <1>1, <2>2, <2>6, <2>7, <3>3
      <4>2. <<>> \o M[src + 3] = M[src + 3]
        <5>1. M[src + 3] \in Seq(Char)
          BY <2>2, MeaningsOfInput DEF M
        <5> QED  BY <5>1
      <4>3. Decodes(3, low, <<>>) /\ MeaningFrom(input)[src] = <<>> \o MeaningFrom(input)[src + 3]
        BY <2>7, <3>1, <4>2 DEF M
      <4>4. 3 \in 1 .. 3
        OBVIOUS
      <4> HIDE DEF high, low
      <4> QED  BY <1>3, <3>3, <4>1, <4>3, <4>4, DecodeGoesOn
    <3> QED  BY <3>2, <3>3
  <2>8. CASE /\ high \in HexDigits /\ low \in HexDigits
             /\ Decodes(3, low, <<Escapes[<<high, low>>]>>)
    <3> DEFINE what == <<Escapes[<<high, low>>]>>
    <3>1. low # NUL
      BY <2>8 DEF NUL, HexDigits
    <3>2. src + 3 <= Len(str) /\ low = input[src + 2]
      <4>1. src + 2 <= Len(str) /\ src + 2 # Len(str) /\ low = input[src + 2]
        BY <2>6, <2>8, <3>1
      <4> HIDE DEF high, low
      <4> QED  BY <1>1, <4>1
    <3>3. what \in Seq(Char) /\ Len(what) \in {0, 1} /\ Decodes(3, low, what)
      BY <2>8, EscapesAre
    <3>4. M[src] = what \o M[src + 3]
      BY <2>1, <2>2, <2>6, <2>4, <2>8, <3>2 DEF MeaningStep
    <3>5. 3 \in 1 .. 3 /\ MeaningFrom(input)[src] = what \o MeaningFrom(input)[src + 3]
      BY <3>4 DEF M
    <3> HIDE DEF high, low, what
    <3> QED  BY <3>1, <3>2, <3>3, <3>5, DecodeGoesOn
  <2> QED  BY <1>4, <2>5, <2>7, <2>8 DEF DecodeEscape
<1>5. ASSUME NEW chr, chr # NUL, chr # "%", str[src] = chr, NEW c \in Char, c = Unplus(chr),
             Decodes(1, chr, <<c>>)
      PROVE  Arrays' /\ Decoding' /\ rewriting' = rewriting
  <2>1. src # Len(str) /\ input[src] = chr
    <3>1. src <= Len(str) /\ src >= src
      BY <1>1
    <3> QED  BY <1>1, <1>5, <3>1, ReadsInput
  <2>2. src + 1 <= Len(str) /\ ~(src > Len(input)) /\ 1 \in 1 .. 3
    BY <1>1, <2>1
  <2>3. M[src] = MeaningStep(input, M, src)
    BY <1>2
  <2>4. M[src] = <<c>> \o M[src + 1]
    BY <1>5, <2>1, <2>2, <2>3, Zenon DEF MeaningStep
  <2>5. <<c>> \in Seq(Char) /\ Len(<<c>>) \in {0, 1}
    BY <1>5
  <2>6. MeaningFrom(input)[src] = <<c>> \o MeaningFrom(input)[src + 1]
    BY <2>4 DEF M
  <2> QED  BY <1>5, <2>2, <2>5, <2>6, DecodeGoesOn
<1>6. CASE DecodePlus
  <2>1. "+" # NUL /\ "+" # "%" /\ str[src] = "+" /\ Decodes(1, "+", <<" ">>)
    BY <1>6 DEF DecodePlus, NUL
  <2>2. " " \in Char /\ " " = Unplus("+")
    BY CharHas DEF Unplus
  <2> QED  BY <1>5, <2>1, <2>2
<1>7. CASE DecodePlain
  <2>1. str[src] # "%" /\ str[src] # "+" /\ Decodes(1, str[src], <<str[src]>>)
    BY <1>7 DEF DecodePlain
  <2>2. str[src] \in Char /\ str[src] = Unplus(str[src])
    <3>1. str[src] \in Char
      BY <1>1, ReadsInput
    <3> QED  BY <2>1, <3>1 DEF Unplus
  <2>3. CASE str[src] # NUL
    BY <1>5, <2>1, <2>2, <2>3
  <2>4. CASE str[src] = NUL
    <3>1. src = Len(str)
      BY <1>1, <2>4, ReadsInput
    <3>2. MeaningFrom(input)[src] = <<>>
      BY <1>1, <1>2, <3>1 DEF M
    <3>3. Decodes(1, NUL, <<NUL>>) /\ 1 \in 1 .. 3
      BY <2>1, <2>4
    <3>4. \A c \in Char : <<c>> \in Seq(Char) /\ Len(<<c>>) \in {0, 1} /\ <<c>>[1] = c
      OBVIOUS
    <3>5. <<NUL>> \in Seq(Char) /\ Len(<<NUL>>) \in {0, 1} /\ <<NUL>>[1] = NUL
      BY <3>4, CharHas, Zenon
    <3> QED  BY <3>2, <3>3, <3>5, DecodeEnds
  <2> QED  BY <2>3, <2>4
<1> QED  BY <1>4, <1>5, <1>6, <1>7 DEF Decode

-----------------------------------------------------------------------------
(* Putting components together.                                              *)

\* The recursive function in FlattenSeq.
FlatStep(s, f, i) == IF i = 1 THEN s[i] ELSE f[i - 1] \o s[i]
Flat(s) == CHOOSE f : f = [i \in 1 .. Len(s) |-> FlatStep(s, f, i)]

\* Its equations have a solution, which is filled in from the beginning.
LEMMA FlatDefined ==
  ASSUME NEW s, Len(s) \in Nat
  PROVE  Flat(s) = [i \in 1 .. Len(s) |-> FlatStep(s, Flat(s), i)]
<1> DEFINE L == Len(s)
           Solves(f, k) == /\ f = [i \in 1 .. L |-> f[i]]
                           /\ \A i \in 1 .. k : f[i] = FlatStep(s, f, i)
           S == {k \in 0 .. L : \E f : Solves(f, k)}
<1>1. 0 \in S
  <2> DEFINE f == [i \in 1 .. L |-> <<>>]
  <2>1. Solves(f, 0) /\ 0 \in 0 .. L
    OBVIOUS
  <2> HIDE DEF Solves
  <2> QED  BY <2>1
<1>2. ASSUME NEW k \in 0 .. L - 1, k \in S PROVE k + 1 \in S
  <2>1. PICK f : Solves(f, k)
    BY <1>2
  <2> DEFINE h == [i \in 1 .. L |-> IF i = k + 1 THEN FlatStep(s, f, i) ELSE f[i]]
  <2>2. \A i \in 1 .. L : h[i] = IF i = k + 1 THEN FlatStep(s, f, i) ELSE f[i]
    OBVIOUS
  <2>3. h = [i \in 1 .. L |-> h[i]]
    OBVIOUS
  <2> HIDE DEF h
  <2>4. ASSUME NEW i \in 1 .. k + 1 PROVE h[i] = FlatStep(s, h, i)
    <3>1. i \in 1 .. L /\ (i # 1 => i - 1 \in 1 .. L /\ h[i - 1] = f[i - 1])
      BY <2>2
    <3>2. FlatStep(s, f, i) = FlatStep(s, h, i)
      BY <3>1 DEF FlatStep
    <3>3. CASE i = k + 1
      BY <2>2, <3>1, <3>2, <3>3
    <3>4. CASE i # k + 1
      <4>1. i \in 1 .. k
        BY <3>4
      <4> QED  BY <2>1, <2>2, <3>1, <3>2, <3>4, <4>1
    <3> QED  BY <3>3, <3>4
  <2>5. Solves(h, k + 1) /\ k + 1 \in 0 .. L
    BY <2>3, <2>4
  <2> HIDE DEF Solves
  <2> QED  BY <2>5
<1>3. L \in S
  <2>1. \A k \in 0 .. L - 1 : k \in S => k + 1 \in S
    BY <1>2
  <2> HIDE DEF S
  <2>2. \A k \in 0 .. L : k \in S
    BY <1>1, <2>1, InductionUpTo
  <2> QED  BY <2>2
<1>4. \E f : f = [i \in 1 .. Len(s) |-> FlatStep(s, f, i)]
  <2>1. PICK f : Solves(f, L)
    BY <1>3
  <2>2. f = [i \in 1 .. L |-> FlatStep(s, f, i)]
    BY <2>1
  <2> QED  BY <2>2
<1> QED  BY <1>4 DEF Flat

\* FlattenSeq is that function.
LEMMA FlattenIs ==
  ASSUME NEW s
  PROVE  FlattenSeq(s) = IF Len(s) = 0 THEN s ELSE Flat(s)[Len(s)]
  BY DEF FlattenSeq, Flat, FlatStep

\* Put together, components of characters are characters.
LEMMA FlattenType ==
  ASSUME NEW s \in Seq(Seq(Char))
  PROVE  FlattenSeq(s) \in Seq(Char)
<1> DEFINE L == Len(s)
           S == {k \in 0 .. L : k = 0 \/ Flat(s)[k] \in Seq(Char)}
<1>0. L \in Nat
  OBVIOUS
<1>1. 0 \in S
  BY <1>0
<1>2. ASSUME NEW k \in 0 .. L - 1, k \in S PROVE k + 1 \in S
  <2>1. k + 1 \in 1 .. L /\ s[k + 1] \in Seq(Char)
    BY <1>0
  <2>2. Flat(s)[k + 1] = FlatStep(s, Flat(s), k + 1)
    <3> DEFINE f == Flat(s)
    <3>1. f = [i \in 1 .. L |-> FlatStep(s, f, i)]
      BY <1>0, FlatDefined
    <3> HIDE DEF f
    <3>2. f[k + 1] = FlatStep(s, f, k + 1)
      BY <2>1, <3>1
    <3> QED  BY <3>2 DEF f
  <2>3. CASE k = 0
    <3>1. Flat(s)[k + 1] = s[k + 1]
      BY <2>2, <2>3 DEF FlatStep
    <3> QED  BY <2>1, <3>1, <1>0
  <2>4. CASE k # 0
    <3>1. k + 1 # 1 /\ k + 1 - 1 = k /\ Flat(s)[k] \in Seq(Char)
      BY <1>2, <2>4
    <3>2. Flat(s)[k + 1] = Flat(s)[k] \o s[k + 1]
      <4> DEFINE f == Flat(s)
                 i == k + 1
      <4>1. f[i] = FlatStep(s, f, i) /\ i # 1 /\ f[k] = f[i - 1]
        BY <2>2, <3>1
      <4> HIDE DEF f, i
      <4>2. f[i] = f[k] \o s[i]
        BY <4>1, Zenon DEF FlatStep
      <4> QED  BY <4>2 DEF f, i
    <3>3. Flat(s)[k + 1] \in Seq(Char)
      BY <2>1, <3>1, <3>2
    <3> QED  BY <2>1, <3>3, <1>0
  <2> QED  BY <2>3, <2>4
<1>3. L \in S
  <2>1. \A k \in 0 .. L - 1 : k \in S => k + 1 \in S
    BY <1>2
  <2> HIDE DEF S, L
  <2>2. \A k \in 0 .. L : k \in S
    BY <1>0, <1>1, <2>1, InductionUpTo
  <2> QED  BY <1>0, <2>2
<1>4. CASE L = 0
  <2>1. FlattenSeq(s) = s /\ s = <<>>
    BY <1>4, FlattenIs
  <2> QED  BY <2>1
<1>5. CASE L # 0
  BY <1>3, <1>5, FlattenIs
<1> QED  BY <1>4, <1>5

\* One more component is put behind the others.
LEMMA FlattenAppend ==
  ASSUME NEW s \in Seq(Seq(Char)), NEW c \in Seq(Char)
  PROVE  FlattenSeq(Append(s, c)) = FlattenSeq(s) \o c
<1> DEFINE L == Len(s)
           t == Append(s, c)
           F == Flat(s)
           G == Flat(t)
           S == {k \in 0 .. L : k = 0 \/ G[k] = F[k]}
<1>0. /\ L \in Nat /\ Len(t) = L + 1 /\ t[L + 1] = c /\ \A i \in 1 .. L : t[i] = s[i]
  OBVIOUS
<1>a. \A i \in 1 .. L : F[i] = FlatStep(s, F, i)
  <2>1. F = [i \in 1 .. L |-> FlatStep(s, F, i)]
    BY <1>0, FlatDefined
  <2> HIDE DEF F
  <2> QED  BY <2>1
<1>b. \A i \in 1 .. L + 1 : G[i] = FlatStep(t, G, i)
  <2>0. Len(t) \in Nat
    BY <1>0
  <2>1. G = [i \in 1 .. L + 1 |-> FlatStep(t, G, i)]
    <3> HIDE DEF t
    <3> QED  BY <1>0, <2>0, FlatDefined
  <2> HIDE DEF G
  <2> QED  BY <2>1
<1> HIDE DEF F, G
<1>1. 0 \in S
  BY <1>0
<1>2. ASSUME NEW k \in 0 .. L - 1, k \in S PROVE k + 1 \in S
  <2>1. k + 1 \in 1 .. L /\ k + 1 \in 1 .. L + 1 /\ t[k + 1] = s[k + 1] /\ k + 1 - 1 = k
    BY <1>0
  <2>2. k + 1 # 1 => G[k] = F[k]
    BY <1>2
  <2> HIDE DEF t, L
  <2>3. G[k + 1] = F[k + 1]
    BY <1>a, <1>b, <2>1, <2>2 DEF FlatStep
  <2> QED  BY <2>1, <2>3, <1>0
<1>3. L \in S
  <2>1. \A k \in 0 .. L - 1 : k \in S => k + 1 \in S
    BY <1>2
  <2> HIDE DEF S, L
  <2>2. \A k \in 0 .. L : k \in S
    BY <1>0, <1>1, <2>1, InductionUpTo
  <2> QED  BY <1>0, <2>2
<1>4. FlattenSeq(t) = G[L + 1]
  <2>1. Len(t) # 0
    BY <1>0
  <2> QED  BY <1>0, <2>1, FlattenIs DEF G
<1>5. CASE L = 0
  <2>1. G[L + 1] = t[L + 1]
    BY <1>b, <1>0, <1>5 DEF FlatStep
  <2>2. FlattenSeq(s) = s /\ s = <<>>
    BY <1>5, FlattenIs
  <2>3. <<>> \o c = c
    OBVIOUS
  <2> QED  BY <1>0, <1>4, <2>1, <2>2, <2>3
<1>6. CASE L # 0
  <2>1. FlattenSeq(s) = F[L]
    BY <1>6, FlattenIs DEF F
  <2>2. L + 1 \in 1 .. L + 1 /\ L + 1 # 1 /\ L + 1 - 1 = L /\ G[L] = F[L]
    BY <1>0, <1>3, <1>6
  <2> HIDE DEF t, L
  <2>3. G[L + 1] = G[L] \o c
    <3> DEFINE i == L + 1
    <3>1. G[i] = FlatStep(t, G, i) /\ i # 1 /\ G[L] = G[i - 1] /\ t[i] = c
      BY <1>0, <1>b, <2>2
    <3> HIDE DEF i
    <3>2. G[i] = G[L] \o t[i]
      BY <3>1, Zenon DEF FlatStep
    <3> QED  BY <3>1, <3>2 DEF i
  <2> QED  BY <1>4, <2>1, <2>2, <2>3 DEF t
<1> QED  BY <1>5, <1>6

-----------------------------------------------------------------------------
(* Where components lead.                                                    *)

WhereStep(cs, f, n) == IF n = 0 THEN <<>> ELSE Step(f[n - 1], cs[n])

\* Where follows one component after the other, as its recursion says.
LEMMA WhereDefined ==
  ASSUME NEW cs, Len(cs) \in Nat
  PROVE  \A n \in 0 .. Len(cs) : Where(cs)[n] = WhereStep(cs, Where(cs), n)
<1> DEFINE L == Len(cs)
           Solves(f, k) == /\ f = [i \in 0 .. L |-> f[i]]
                           /\ \A i \in 0 .. k : f[i] = WhereStep(cs, f, i)
           S == {k \in 0 .. L : \E f : Solves(f, k)}
<1>1. 0 \in S
  <2> DEFINE f == [i \in 0 .. L |-> <<>>]
  <2>1. Solves(f, 0)
    BY DEF WhereStep
  <2> QED  BY <2>1
<1>2. ASSUME NEW k \in 0 .. L - 1, k \in S PROVE k + 1 \in S
  <2>1. PICK f : Solves(f, k)
    BY <1>2
  <2> DEFINE h == [i \in 0 .. L |-> IF i = k + 1 THEN WhereStep(cs, f, i) ELSE f[i]]
  <2>2. \A i \in 0 .. L : h[i] = IF i = k + 1 THEN WhereStep(cs, f, i) ELSE f[i]
    OBVIOUS
  <2>3. h = [i \in 0 .. L |-> h[i]]
    OBVIOUS
  <2> HIDE DEF h
  <2>4. ASSUME NEW i \in 0 .. k + 1 PROVE h[i] = WhereStep(cs, h, i)
    <3>1. i \in 0 .. L /\ (i # 0 => i - 1 \in 0 .. L /\ h[i - 1] = f[i - 1])
      BY <2>2
    <3>2. WhereStep(cs, f, i) = WhereStep(cs, h, i)
      BY <3>1, Zenon DEF WhereStep
    <3>3. CASE i = k + 1
      BY <2>2, <3>1, <3>2, <3>3
    <3>4. CASE i # k + 1
      <4>1. i \in 0 .. k
        BY <3>4
      <4> QED  BY <2>1, <2>2, <3>1, <3>2, <3>4, <4>1
    <3> QED  BY <3>3, <3>4
  <2>5. Solves(h, k + 1) /\ k + 1 \in 0 .. L
    BY <2>3, <2>4
  <2> HIDE DEF Solves
  <2> QED  BY <2>5
<1>3. L \in S
  <2>1. \A k \in 0 .. L - 1 : k \in S => k + 1 \in S
    BY <1>2
  <2> HIDE DEF S
  <2>2. \A k \in 0 .. L : k \in S
    BY <1>1, <2>1, InductionUpTo
  <2> QED  BY <2>2
<1>4. \E f : f = [n \in 0 .. L |-> WhereStep(cs, f, n)]
  <2>1. PICK f : Solves(f, L)
    BY <1>3
  <2>2. f = [n \in 0 .. L |-> WhereStep(cs, f, n)]
    BY <2>1
  <2> QED  BY <2>2
<1>5. Where(cs) = CHOOSE f : f = [n \in 0 .. L |-> WhereStep(cs, f, n)]
  BY DEF Where, WhereStep
<1> DEFINE w == Where(cs)
<1>6. w = [n \in 0 .. L |-> WhereStep(cs, w, n)]
  BY <1>4, <1>5
<1> HIDE DEF w
<1>7. \A n \in 0 .. L : w[n] = WhereStep(cs, w, n)
  BY <1>6
<1> QED  BY <1>7 DEF w

-----------------------------------------------------------------------------
(* The components of a path.                                                 *)

\* How many components begin before a place.
UpTo(path, p) == {q \in SlashesOf(path) : q <= p}
Rank(path, p) == Cardinality({q \in SlashesOf(path) : q < p})

\* There are finitely many slashes, and not more in a part of a path.
LEMMA SlashesFinite ==
  ASSUME NEW path, Len(path) \in Nat, DOMAIN path = 1 .. Len(path)
  PROVE  /\ IsFiniteSet(SlashesOf(path)) /\ Cardinality(SlashesOf(path)) \in Nat
         /\ SlashesOf(path) \subseteq 1 .. Len(path)
         /\ \A T \in SUBSET SlashesOf(path) :
              /\ IsFiniteSet(T) /\ Cardinality(T) \in Nat
              /\ Cardinality(T) <= Cardinality(SlashesOf(path))
              /\ Cardinality(T) = Cardinality(SlashesOf(path)) => T = SlashesOf(path)
<1>1. SlashesOf(path) \subseteq 1 .. Len(path)
  BY DEF SlashesOf
<1>2. IsFiniteSet(1 .. Len(path))
  BY FS_Interval
<1>3. IsFiniteSet(SlashesOf(path))
  BY <1>1, <1>2, FS_Subset
<1> QED  BY <1>1, <1>3, FS_Subset, FS_CardinalityType

\* A slash is counted with those before it, and no other has its number.
LEMMA SlashCounted ==
  ASSUME NEW path, Len(path) \in Nat, DOMAIN path = 1 .. Len(path), NEW p \in SlashesOf(path)
  PROVE  /\ Cardinality(UpTo(path, p)) = Rank(path, p) + 1
         /\ Rank(path, p) \in Nat /\ Rank(path, p) + 1 <= Cardinality(SlashesOf(path))
         /\ NthSlash(path, Rank(path, p) + 1) = p
<1> DEFINE S == SlashesOf(path)
           B == {q \in S : q < p}
<1>1. /\ IsFiniteSet(S) /\ S \subseteq 1 .. Len(path)
      /\ \A T \in SUBSET S : IsFiniteSet(T) /\ Cardinality(T) \in Nat
                             /\ Cardinality(T) <= Cardinality(S)
  BY SlashesFinite
<1>2. IsFiniteSet(B) /\ UpTo(path, p) = B \cup {p} /\ p \notin B
  <2>1. IsFiniteSet(B)
    BY <1>1
  <2> QED  BY <1>1, <2>1 DEF UpTo
<1>3. Cardinality(UpTo(path, p)) = Rank(path, p) + 1
  BY <1>2, FS_AddElement DEF Rank
<1>4. Rank(path, p) \in Nat /\ Rank(path, p) + 1 <= Cardinality(S)
  <2>1. B \in SUBSET S /\ UpTo(path, p) \in SUBSET S
    BY DEF UpTo
  <2>2. Cardinality(B) \in Nat /\ Cardinality(UpTo(path, p)) <= Cardinality(S)
    BY <1>1, <2>1
  <2> QED  BY <1>3, <2>2 DEF Rank
<1>5. ASSUME NEW r \in S, NEW t \in S, r < t
      PROVE  Cardinality(UpTo(path, r)) # Cardinality(UpTo(path, t))
  <2>1. UpTo(path, r) \in SUBSET UpTo(path, t) /\ t \in UpTo(path, t) /\ t \notin UpTo(path, r)
    BY <1>1, <1>5 DEF UpTo
  <2>2. IsFiniteSet(UpTo(path, t))
    BY <1>1 DEF UpTo
  <2> QED  BY <2>1, <2>2, FS_Subset
<1>6. \A r \in S : Cardinality(UpTo(path, r)) = Rank(path, p) + 1 => r = p
  <2> SUFFICES ASSUME NEW r \in S, Cardinality(UpTo(path, r)) = Rank(path, p) + 1, r # p
               PROVE  FALSE
    OBVIOUS
  <2>1. r < p \/ p < r
    BY <1>1
  <2> QED  BY <2>1, <1>5, <1>3
<1>7. NthSlash(path, Rank(path, p) + 1) = p
  <2>1. NthSlash(path, Rank(path, p) + 1)
          = CHOOSE r \in S : Cardinality(UpTo(path, r)) = Rank(path, p) + 1
    BY DEF NthSlash, UpTo
  <2> QED  BY <2>1, <1>3, <1>6
<1> QED  BY <1>3, <1>4, <1>7

\* Up to the next slash, or the end, there is one component more.
LEMMA NextRank ==
  ASSUME NEW path, Len(path) \in Nat, DOMAIN path = 1 .. Len(path), NEW p \in SlashesOf(path),
         NEW e \in p + 1 .. Len(path) + 1, \A q \in p + 1 .. e - 1 : path[q] # "/"
  PROVE  Rank(path, e) = Rank(path, p) + 1
<1>1. SlashesOf(path) \subseteq 1 .. Len(path)
  BY SlashesFinite
<1>2. {q \in SlashesOf(path) : q < e} = UpTo(path, p)
  <2>1. ASSUME NEW q \in SlashesOf(path) PROVE q < e <=> q <= p
    BY <1>1 DEF SlashesOf
  <2> QED  BY <2>1 DEF UpTo
<1> QED  BY <1>2, SlashCounted DEF Rank

\* Behind the end every slash has been passed.
LEMMA RankAtEnd ==
  ASSUME NEW path, Len(path) \in Nat, DOMAIN path = 1 .. Len(path)
  PROVE  Rank(path, Len(path) + 1) = Cardinality(SlashesOf(path))
<1>1. {q \in SlashesOf(path) : q < Len(path) + 1} = SlashesOf(path)
  BY SlashesFinite
<1> QED  BY <1>1 DEF Rank

\* It is the component between the two.
LEMMA ComponentAt ==
  ASSUME NEW path, Len(path) \in Nat, DOMAIN path = 1 .. Len(path), NEW p \in SlashesOf(path),
         NEW e \in p + 1 .. Len(path) + 1, \A q \in p + 1 .. e - 1 : path[q] # "/",
         e = Len(path) + 1 \/ e \in SlashesOf(path)
  PROVE  LET n == Rank(path, p) + 1
         IN  n \in 1 .. Len(Components(path)) /\ Components(path)[n] = SubSeq(path, p, e - 1)
<1> DEFINE n == Rank(path, p) + 1
           C == Cardinality(SlashesOf(path))
<1>1. /\ n \in Nat /\ 1 <= n /\ n <= C /\ C \in Nat /\ NthSlash(path, n) = p
  BY SlashCounted, SlashesFinite
<1>2. Rank(path, e) = n
  BY NextRank
<1>3. NthStop(path, n) = e - 1
  <2>1. CASE n < C
    <3>1. e \in SlashesOf(path)
      <4>1. e # Len(path) + 1
        BY <1>1, <1>2, <2>1, RankAtEnd
      <4> QED  BY <4>1
    <3>2. NthSlash(path, n + 1) = e
      BY <1>2, <3>1, SlashCounted
    <3> QED  BY <2>1, <3>2 DEF NthStop
  <2>2. CASE ~(n < C)
    <3>1. e \notin SlashesOf(path)
      <4> SUFFICES ASSUME e \in SlashesOf(path) PROVE FALSE
        OBVIOUS
      <4>1. Rank(path, e) + 1 <= C
        BY SlashCounted
      <4> QED  BY <1>1, <1>2, <2>2, <4>1
    <3> QED  BY <2>2, <3>1 DEF NthStop
  <2> QED  BY <2>1, <2>2
<1>4. /\ Components(path) = [m \in 1 .. C |-> SubSeq(path, NthSlash(path, m), NthStop(path, m))]
      /\ Len(Components(path)) = C
  BY <1>1 DEF Components
<1>5. n \in 1 .. C
  BY <1>1
<1> HIDE DEF n, C
<1>6. Components(path)[n] = SubSeq(path, p, e - 1)
  BY <1>1, <1>3, <1>4, <1>5
<1> QED  BY <1>4, <1>5, <1>6 DEF n

\* There are as many slashes as that.
LEMMA SlashExists ==
  ASSUME NEW path, Len(path) \in Nat, DOMAIN path = 1 .. Len(path),
         NEW n \in 1 .. Cardinality(SlashesOf(path))
  PROVE  NthSlash(path, n) \in SlashesOf(path)
<1> DEFINE S == SlashesOf(path)
           C == Cardinality(S)
           T == {k \in 0 .. C : k = 0 \/ \E p \in S : Cardinality(UpTo(path, p)) = k}
<1>0. /\ C \in Nat /\ IsFiniteSet(S) /\ S \subseteq 1 .. Len(path)
      /\ \A U \in SUBSET S : IsFiniteSet(U) /\ Cardinality(U) \in Nat
  BY SlashesFinite
<1>1. 0 \in T
  BY <1>0
<1>2. ASSUME NEW k \in 0 .. C - 1, k \in T PROVE k + 1 \in T
  <2>1. PICK U \in SUBSET S : /\ Cardinality(U) = k
                              /\ \A q \in S, r \in U : q <= r => q \in U
    <3>1. CASE k = 0
      <4>1. {} \in SUBSET S /\ Cardinality({}) = 0
        BY FS_EmptySet
      <4> QED  BY <3>1, <4>1
    <3>2. CASE k # 0
      <4>1. PICK p \in S : Cardinality(UpTo(path, p)) = k
        BY <1>2, <3>2
      <4>2. UpTo(path, p) \in SUBSET S /\ \A q \in S, r \in UpTo(path, p) : q <= r => q \in UpTo(path, p)
        BY <1>0 DEF UpTo
      <4> HIDE DEF S
      <4> QED  BY <4>1, <4>2
    <3> QED  BY <3>1, <3>2
  <2>2. S \ U # {} /\ S \ U \subseteq Nat
    <3>1. U # S
      BY <1>0, <2>1
    <3> QED  BY <1>0, <3>1
  <2>3. PICK e \in S \ U : \A q \in S \ U : e <= q
    <3> DEFINE V == S \ U
    <3>1. V \subseteq Nat /\ V # {}
      BY <2>2
    <3> HIDE DEF V
    <3>2. \E m \in V : \A q \in V : m <= q
      BY <3>1, LeastNat
    <3> QED  BY <3>2 DEF V
  <2>4. UpTo(path, e) = U \cup {e} /\ e \notin U
    <3>1. ASSUME NEW q \in S PROVE q <= e <=> q \in U \cup {e}
      <4>1. q \in Nat /\ e \in Nat
        BY <1>0
      <4>2. q \in U => ~(e <= q)
        BY <2>1, <2>3
      <4>3. q \notin U => e <= q
        BY <2>3
      <4> QED  BY <4>1, <4>2, <4>3
    <3> QED  BY <2>3, <3>1 DEF UpTo
  <2>5. Cardinality(UpTo(path, e)) = k + 1
    <3>1. IsFiniteSet(U)
      BY <1>0
    <3>2. Cardinality(U \cup {e}) = Cardinality(U) + 1
      BY <2>4, <3>1, FS_AddElement
    <3> QED  BY <2>1, <2>4, <3>2
  <2>6. k + 1 \in 0 .. C
    BY <1>0
  <2> QED  BY <2>3, <2>5, <2>6
<1>3. \A k \in 0 .. C : k \in T
  <2>1. \A k \in 0 .. C - 1 : k \in T => k + 1 \in T
    BY <1>2
  <2> HIDE DEF T, C
  <2> QED  BY <1>0, <1>1, <2>1, InductionUpTo
<1>4. \E p \in S : Cardinality(UpTo(path, p)) = n
  <2>1. n \in 0 .. C /\ n # 0
    BY <1>0
  <2> QED  BY <1>3, <2>1
<1> QED  BY <1>4 DEF NthSlash, UpTo

\* Where the components before p lead, and what is behind p to where it next.
At(p) == Where(Components(decoded))[Rank(decoded, p)]

\* From a slash to the next one, a path is followed by one step.
LEMMA WhereNext ==
  ASSUME decoded \in Seq(Char), NEW p \in SlashesOf(decoded), NEW e \in p + 1 .. Len(decoded) + 1,
         \A q \in p + 1 .. e - 1 : decoded[q] # "/",
         e = Len(decoded) + 1 \/ e \in SlashesOf(decoded)
  PROVE  At(e) = Step(At(p), SubSeq(decoded, p, e - 1))
<1> DEFINE n == Rank(decoded, p) + 1
           cs == Components(decoded)
           w == Where(cs)
<1>1. Len(decoded) \in Nat /\ DOMAIN decoded = 1 .. Len(decoded)
  OBVIOUS
<1>2. n \in 1 .. Len(cs) /\ cs[n] = SubSeq(decoded, p, e - 1)
  BY <1>1, ComponentAt
<1>3. Rank(decoded, e) = n /\ Rank(decoded, p) \in Nat
  BY <1>1, NextRank, SlashCounted
<1>4. Len(cs) \in Nat
  BY <1>1, SlashesFinite DEF Components
<1>5. \A m \in 0 .. Len(cs) : w[m] = WhereStep(cs, w, m)
  BY <1>4, WhereDefined
<1>6. n # 0 /\ n \in 0 .. Len(cs) /\ n - 1 = Rank(decoded, p)
  BY <1>2, <1>3, <1>4
<1> HIDE DEF w, n, cs
<1>7. w[n] = Step(w[n - 1], cs[n])
  BY <1>5, <1>6 DEF WhereStep
<1> QED  BY <1>2, <1>3, <1>6, <1>7 DEF At, w, cs

\* Nothing was followed before the first slash.
LEMMA WhereFirst ==
  ASSUME decoded \in Seq(Char), NEW p \in Nat, \A q \in SlashesOf(decoded) : ~(q < p)
  PROVE  At(p) = <<>>
<1> DEFINE cs == Components(decoded)
           w == Where(cs)
<1>1. Rank(decoded, p) = 0
  <2>1. {q \in SlashesOf(decoded) : q < p} = {}
    OBVIOUS
  <2> QED  BY <2>1, FS_EmptySet DEF Rank
<1>2. Len(cs) \in Nat
  BY SlashesFinite DEF Components
<1>3. \A m \in 0 .. Len(cs) : w[m] = WhereStep(cs, w, m)
  BY <1>2, WhereDefined
<1>4. 0 \in 0 .. Len(cs)
  BY <1>2
<1> HIDE DEF w, cs
<1> QED  BY <1>1, <1>3, <1>4 DEF At, WhereStep, w, cs

-----------------------------------------------------------------------------
(* Scrubbing.                                                                *)

\* A component begins with its slash and has no other.
Parts == {c \in Seq(Char) : /\ Len(c) >= 1 /\ c[1] = "/"
                            /\ \A i \in 2 .. Len(c) : c[i] # "/"}

\* No component that was written leads up.
Clean(s, d) ==
  \A x \in 1 .. d - 3 : s[x] = "/" /\ s[x + 1] = "." /\ s[x + 2] = "."
                          => x + 3 < d /\ s[x + 3] # "/"

\* What is not read yet is as it was decoded.
Unread ==
  /\ decoded \in Seq(Char) /\ End \in 1 .. Len(str)
  /\ src \in 1 .. End /\ dest \in 1 .. src
  /\ str[End] = NUL /\ \A q \in 1 .. End - 1 : str[q] # NUL
  /\ \A q \in src .. End - 1 : str[q] = decoded[q]
  /\ src # End => src \in SlashesOf(decoded)

\* What is written is where the components read so far lead.
Written ==
  /\ At(src) \in Seq(Parts) /\ depth = Len(At(src))
  /\ SubSeq(str, 1, dest - 1) = FlattenSeq(At(src))
  /\ dest > 1 => str[1] = "/"
  /\ Clean(str, dest)

Scrubbing == Unread /\ Written

\* Components are strings.
LEMMA PartsAre == Seq(Parts) \subseteq Seq(Seq(Char)) /\ Parts \subseteq Seq(Char)
<1>1. Parts \subseteq Seq(Char)
  BY DEF Parts
<1> QED  BY <1>1, SeqMonotonic

\* strchr finds where the component that is read ends.
LEMMA NextEnd ==
  ASSUME Arrays, Unread, src # End
  PROVE  /\ ComponentEnd(src) \in src + 1 .. Len(decoded) + 1
         /\ \A q \in src + 1 .. ComponentEnd(src) - 1 : decoded[q] # "/"
         /\ ComponentEnd(src) = Len(decoded) + 1 \/ ComponentEnd(src) \in SlashesOf(decoded)
         /\ At(ComponentEnd(src))
              = Step(At(src), SubSeq(decoded, src, ComponentEnd(src) - 1))
<1> DEFINE S == Slashes(str, src + 1)
           e == ComponentEnd(src)
<1>1. /\ Len(decoded) \in Nat /\ Len(str) \in Nat /\ End = Len(decoded) + 1
      /\ DOMAIN str = 1 .. Len(str) /\ End \in 1 .. Len(str)
      /\ src \in Nat /\ src >= 1 /\ src < End
      /\ DOMAIN decoded = 1 .. Len(decoded)
  BY DEF Arrays, Unread, End
<1>2. EndOf(str) = End
  BY <1>1, EndIsFirst DEF Unread
<1>3. S = {q \in src + 1 .. Len(decoded) : decoded[q] = "/"}
  <2>1. "/" # NUL
    BY DEF NUL
  <2>2. \A q \in src + 1 .. End : str[q] = "/" <=> q # End /\ decoded[q] = "/"
    BY <1>1, <2>1 DEF Unread
  <2>3. S = {q \in src + 1 .. End : str[q] = "/"}
    BY <1>2 DEF Slashes
  <2> QED  BY <1>1, <2>2, <2>3
<1>4. CASE S = {}
  <2>1. e = End
    BY <1>4 DEF ComponentEnd
  <2> HIDE DEF e
  <2>2. \A q \in src + 1 .. e - 1 : decoded[q] # "/"
    BY <1>1, <1>3, <1>4, <2>1
  <2>3. e \in src + 1 .. Len(decoded) + 1
    BY <1>1, <2>1
  <2>4. src \in SlashesOf(decoded)
    BY DEF Unread
  <2>5. At(e) = Step(At(src), SubSeq(decoded, src, e - 1))
    BY <1>1, <2>1, <2>2, <2>3, <2>4, WhereNext DEF Unread
  <2> QED  BY <1>1, <2>1, <2>2, <2>3, <2>5 DEF e
<1>5. CASE S # {}
  <2>1. e \in S /\ \A r \in S : e <= r
    <3>1. S \subseteq Nat
      BY <1>1, <1>3
    <3>2. e = FirstSlash(str, src + 1)
      BY <1>5 DEF ComponentEnd
    <3> HIDE DEF e
    <3> QED  BY <1>5, <3>1, <3>2, FirstPlace DEF FirstSlash
  <2> HIDE DEF e, S
  <2>2. e \in src + 1 .. Len(decoded) + 1 /\ e \in SlashesOf(decoded)
    BY <1>1, <1>3, <2>1 DEF SlashesOf
  <2>3. \A q \in src + 1 .. e - 1 : decoded[q] # "/"
    <3> SUFFICES ASSUME NEW q \in src + 1 .. e - 1, decoded[q] = "/" PROVE FALSE
      OBVIOUS
    <3>1. q \in S
      BY <1>1, <1>3, <2>2
    <3> QED  BY <1>1, <2>1, <2>2, <3>1
  <2>4. src \in SlashesOf(decoded)
    BY DEF Unread
  <2>5. At(e) = Step(At(src), SubSeq(decoded, src, e - 1))
    BY <1>1, <2>2, <2>3, <2>4, WhereNext DEF Unread
  <2> QED  BY <2>2, <2>3, <2>5 DEF e
<1> QED  BY <1>4, <1>5

\* The shortest components, told by their characters.
LEMMA OneTwoThree ==
  ASSUME NEW s \in Seq(Char)
  PROVE  /\ Len(s) = 1 /\ s[1] = "/" => s = <<"/">>
         /\ Len(s) = 3 /\ s[1] = "/" /\ s[2] = "." /\ s[3] = "." => s = <<"/", ".", ".">>
<1>0. s = [i \in 1 .. Len(s) |-> s[i]]
  OBVIOUS
<1>1. ASSUME Len(s) = 1, s[1] = "/" PROVE s = <<"/">>
  <2>1. s = [i \in 1 .. 1 |-> "/"]
    <3>1. s = [i \in 1 .. 1 |-> s[i]]
      BY <1>0, <1>1
    <3>2. \A i \in 1 .. 1 : s[i] = "/"
      BY <1>1
    <3> QED  BY <3>1, <3>2
  <2>2. <<"/">> = [i \in 1 .. 1 |-> "/"]
    OBVIOUS
  <2> QED  BY <2>1, <2>2
<1>2. ASSUME Len(s) = 3, s[1] = "/", s[2] = ".", s[3] = "." PROVE s = <<"/", ".", ".">>
  <2>1. s = [i \in 1 .. 3 |-> IF i = 1 THEN "/" ELSE "."]
    <3>1. s = [i \in 1 .. 3 |-> s[i]]
      BY <1>0, <1>2
    <3>2. \A i \in 1 .. 3 : s[i] = IF i = 1 THEN "/" ELSE "."
      BY <1>2
    <3> QED  BY <3>1, <3>2
  <2>2. <<"/", ".", ".">> = [i \in 1 .. 3 |-> IF i = 1 THEN "/" ELSE "."]
    OBVIOUS
  <2> QED  BY <2>1, <2>2
<1> QED  BY <1>1, <1>2

\* A difference, as a sum.
LEMMA Apart ==
  ASSUME NEW s \in Int, NEW e \in Int, NEW n \in Int, e - s = n
  PROVE  e = s + n
  OBVIOUS

\* The place behind which an interval is empty.
LEMMA EndsThere ==
  ASSUME NEW s \in Nat, NEW e \in Nat, NEW n \in 1 .. 3, e >= s + n, ~(s + n \in s + 1 .. e - 1)
  PROVE  e = s + n
  OBVIOUS

\* The tests on its characters tell what the component is.
LEMMA ComponentKind ==
  ASSUME Arrays, Unread, src # End
  PROVE  LET c == SubSeq(decoded, src, ComponentEnd(src) - 1)
         IN  /\ c \in Parts /\ Len(c) = ComponentEnd(src) - src
             /\ \A i \in 1 .. Len(c) : c[i] = str[src + i - 1]
             /\ Ascends(src) <=> c = <<"/", ".", ".">>
             /\ Empty(src) <=> c = <<"/">>
<1> DEFINE e == ComponentEnd(src)
           c == SubSeq(decoded, src, e - 1)
<1>1. /\ Len(decoded) \in Nat /\ Len(str) \in Nat /\ End = Len(decoded) + 1
      /\ src \in Nat /\ src >= 1 /\ src < End
      /\ DOMAIN decoded = 1 .. Len(decoded)
      /\ src \in SlashesOf(decoded) /\ decoded \in Seq(Char)
      /\ str[End] = NUL
      /\ \A q \in src .. End - 1 : str[q] = decoded[q] /\ str[q] # NUL
  BY DEF Arrays, Unread, End
<1>2. /\ e \in src + 1 .. Len(decoded) + 1
      /\ \A q \in src + 1 .. e - 1 : decoded[q] # "/"
      /\ e = Len(decoded) + 1 \/ e \in SlashesOf(decoded)
  BY NextEnd
<1> HIDE DEF e
<1>3. /\ c \in Seq(Char) /\ Len(c) = e - src
      /\ \A i \in 1 .. Len(c) : c[i] = decoded[src + i - 1]
  <2>1. src \in 1 .. Len(decoded) + 1 /\ e - 1 \in src - 1 .. Len(decoded)
    BY <1>1, <1>2
  <2> QED  BY <1>1, <1>2, <2>1, SubSeqProperties
<1> HIDE DEF c
<1>4. \A i \in 1 .. Len(c) : src + i - 1 \in src .. End - 1 /\ c[i] = str[src + i - 1]
  <2>1. \A i \in 1 .. Len(c) : src + i - 1 \in src .. End - 1
    BY <1>1, <1>2, <1>3
  <2> QED  BY <1>1, <1>3, <2>1
<1>5. c \in Parts
  <2>1. Len(c) >= 1 /\ c[1] = "/"
    BY <1>1, <1>2, <1>3 DEF SlashesOf
  <2>2. ASSUME NEW i \in 2 .. Len(c) PROVE c[i] # "/"
    <3>1. i \in 1 .. Len(c) /\ src + i - 1 \in src + 1 .. e - 1
      BY <1>1, <1>2, <1>3
    <3> QED  BY <1>2, <1>3, <3>1
  <2> QED  BY <1>3, <2>1, <2>2 DEF Parts
<1>6. str[e] \in {"/", NUL} /\ \A q \in src + 1 .. e - 1 : str[q] \notin {"/", NUL}
  <2>1. e # End => str[e] = "/"
    BY <1>1, <1>2 DEF SlashesOf
  <2>2. \A q \in src + 1 .. e - 1 : q \in src .. End - 1
    BY <1>1, <1>2
  <2> QED  BY <1>1, <1>2, <2>1, <2>2
<1>7. e \in Nat /\ e >= src + 1
  BY <1>1, <1>2
<1>t. src \in Int /\ e \in Int /\ Len(c) = e - src
  BY <1>1, <1>3, <1>7
<1>d. "." # "/" /\ "." # NUL
  BY DEF NUL
<1>8. Empty(src) <=> c = <<"/">>
  <2>1. ASSUME Empty(src) PROVE c = <<"/">>
    <3>1. e = src + 1
      <4>1. ~(src + 1 \in src + 1 .. e - 1)
        BY <1>6, <2>1 DEF Empty
      <4> QED  BY <1>1, <1>7, <4>1, EndsThere
    <3>2. Len(c) = 1 /\ c[1] = "/"
      BY <1>1, <1>3, <1>5, <3>1 DEF Parts
    <3> QED  BY <1>3, <3>2, OneTwoThree
  <2>2. ASSUME c = <<"/">> PROVE Empty(src)
    <3>1. Len(c) = 1
      BY <2>2
    <3>2. e - src = 1 /\ e = src + 1
      <4>1. e - src = 1
        BY <1>t, <3>1, Zenon
      <4> QED  BY <1>t, <4>1, Apart
    <3> QED  BY <1>6, <3>2 DEF Empty
  <2> QED  BY <2>1, <2>2
<1>9. Ascends(src) <=> c = <<"/", ".", ".">>
  <2>1. ASSUME Ascends(src) PROVE c = <<"/", ".", ".">>
    <3>0. str[src + 1] = "." /\ str[src + 2] = "." /\ str[src + 3] \in {"/", NUL}
      BY <2>1 DEF Ascends
    <3>1. e # src + 1
      BY <1>6, <1>d, <3>0
    <3>2. e # src + 2
      BY <1>6, <1>d, <3>0
    <3>3. ~(src + 3 \in src + 1 .. e - 1)
      BY <1>6, <3>0
    <3>4. e = src + 3
      <4>1. e >= src + 3 /\ src \in Nat /\ 3 \in 1 .. 3
        BY <1>1, <1>7, <3>1, <3>2
      <4> QED  BY <1>7, <3>3, <4>1, EndsThere
    <3>5. Len(c) = 3
      BY <1>1, <1>3, <3>4
    <3>6. c[1] = "/" /\ c[2] = "." /\ c[3] = "."
      <4>1. {2, 3} \subseteq 1 .. Len(c) /\ src + 2 - 1 = src + 1 /\ src + 3 - 1 = src + 2
        BY <1>1, <3>5
      <4>2. c[2] = str[src + 2 - 1] /\ c[3] = str[src + 3 - 1]
        BY <1>4, <4>1
      <4> QED  BY <1>5, <3>0, <4>1, <4>2 DEF Parts
    <3> QED  BY <1>3, <3>5, <3>6, OneTwoThree
  <2>2. ASSUME c = <<"/", ".", ".">> PROVE Ascends(src)
    <3>1. Len(c) = 3 /\ c[2] = "." /\ c[3] = "."
      BY <2>2
    <3>2. e - src = 3 /\ e = src + 3
      <4>1. e - src = 3
        BY <1>t, <3>1, Zenon
      <4> QED  BY <1>t, <4>1, Apart
    <3>3. {2, 3} \subseteq 1 .. Len(c) /\ src + 2 - 1 = src + 1 /\ src + 3 - 1 = src + 2
      BY <1>1, <3>1
    <3>4. c[2] = str[src + 2 - 1] /\ c[3] = str[src + 3 - 1]
      BY <1>4, <3>3
    <3> QED  BY <1>6, <3>1, <3>2, <3>3, <3>4 DEF Ascends
  <2> QED  BY <2>1, <2>2
<1> QED  BY <1>3, <1>4, <1>5, <1>8, <1>9 DEF c, e

\* What every iteration of mhttp_scrubpath does: it reads one component.
LEMMA ScrubReads ==
  ASSUME Arrays, Unread, src # End, input' = input, decoded' = decoded,
         src' = ComponentEnd(src), dest' \in 1 .. src',
         str' \in Seq(Char), Len(str') = Len(str),
         \A q \in 1 .. src' - 1 : str'[q] # NUL,
         \A q \in src' .. Len(str) : str'[q] = str[q]
  PROVE  /\ Arrays' /\ Unread'
         /\ At(src)' = Step(At(src), SubSeq(decoded, src, src' - 1))
<1>1. /\ Len(decoded) \in Nat /\ Len(str) \in Nat /\ End = Len(decoded) + 1 /\ End' = End
      /\ End <= Len(str) /\ src \in Nat /\ src >= 1 /\ decoded \in Seq(Char)
  BY DEF Arrays, Unread, End
<1>2. /\ src' \in src + 1 .. Len(decoded) + 1
      /\ src' = Len(decoded) + 1 \/ src' \in SlashesOf(decoded)
      /\ At(src') = Step(At(src), SubSeq(decoded, src, src' - 1))
  BY NextEnd
<1>3. Arrays'
  BY DEF Arrays
<1>4. Unread'
  <2>1. decoded' \in Seq(Char) /\ End' \in 1 .. Len(str') /\ src' \in 1 .. End' /\ dest' \in 1 .. src'
    BY <1>1, <1>2
  <2>2. str'[End'] = NUL
    <3>1. End \in src' .. Len(str)
      BY <1>1, <1>2
    <3> QED  BY <1>1, <3>1 DEF Unread
  <2>3. \A q \in 1 .. End' - 1 : str'[q] # NUL
    <3> SUFFICES ASSUME NEW q \in 1 .. End - 1 PROVE str'[q] # NUL
      BY <1>1
    <3>1. q \in 1 .. src' - 1 \/ q \in src' .. Len(str)
      BY <1>1, <1>2
    <3> QED  BY <3>1 DEF Unread
  <2>4. \A q \in src' .. End' - 1 : str'[q] = decoded'[q]
    <3> SUFFICES ASSUME NEW q \in src' .. End - 1 PROVE str'[q] = decoded[q]
      BY <1>1
    <3>1. q \in src' .. Len(str) /\ q \in src .. End - 1
      BY <1>1, <1>2
    <3> QED  BY <3>1 DEF Unread
  <2>5. src' # End' => src' \in SlashesOf(decoded')
    BY <1>1, <1>2
  <2> QED  BY <2>1, <2>2, <2>3, <2>4, <2>5 DEF Unread
<1>5. At(src)' = At(src')
  BY DEF At
<1> QED  BY <1>2, <1>3, <1>4, <1>5

\* What is put together, part by part.
LEMMA FlattenParts ==
  ASSUME NEW at \in Seq(Parts)
  PROVE  /\ FlattenSeq(at) \in Seq(Char)
         /\ \A c \in Parts : /\ FlattenSeq(Append(at, c)) = FlattenSeq(at) \o c
                             /\ Append(at, c) \in Seq(Parts) /\ Len(Append(at, c)) = Len(at) + 1
  BY PartsAre, FlattenType, FlattenAppend

\* An empty component is left out, as it leads nowhere.
LEMMA ScrubEmptyKeeps ==
  ASSUME Arrays, Scrubbing, ScrubEmpty
  PROVE  Arrays' /\ Scrubbing'
<1>1. /\ src # End /\ Empty(src) /\ src' = ComponentEnd(src)
      /\ input' = input /\ str' = str /\ dest' = dest /\ depth' = depth /\ decoded' = decoded
  BY DEF ScrubEmpty
<1>2. Unread /\ Written
  BY DEF Scrubbing
<1>3. src' \in src + 1 .. Len(decoded) + 1 /\ Len(decoded) \in Nat /\ src \in Nat /\ dest \in 1 .. src
      /\ End = Len(decoded) + 1 /\ str \in Seq(Char) /\ Len(str) \in Nat
  BY <1>1, <1>2, NextEnd DEF Unread, Arrays, End
<1>4. /\ dest' \in 1 .. src' /\ str' \in Seq(Char) /\ Len(str') = Len(str)
      /\ \A q \in src' .. Len(str) : str'[q] = str[q]
  BY <1>1, <1>3
<1>5. \A q \in 1 .. src' - 1 : str'[q] # NUL
  BY <1>1, <1>2, <1>3 DEF Unread
<1>6. /\ Arrays' /\ Unread'
      /\ At(src)' = Step(At(src), SubSeq(decoded, src, src' - 1))
  BY <1>1, <1>2, <1>4, <1>5, ScrubReads
<1>7. SubSeq(decoded, src, src' - 1) = <<"/">>
  BY <1>1, <1>2, ComponentKind
<1>8. At(src)' = At(src)
  BY <1>6, <1>7 DEF Step
<1>9. Written'
  BY <1>1, <1>2, <1>8 DEF Written
<1> QED  BY <1>6, <1>9 DEF Scrubbing

\* A sequence is its front and its last element.
LEMMA FrontAndLast ==
  ASSUME NEW T, NEW s \in Seq(T), Len(s) > 0
  PROVE  /\ Front(s) \in Seq(T) /\ Len(Front(s)) = Len(s) - 1 /\ s # <<>>
         /\ s[Len(s)] \in T /\ s = Append(Front(s), s[Len(s)])
<1> DEFINE n == Len(s)
<1>0. n \in Nat /\ n > 0 /\ n \in 1 .. n /\ s # <<>>
  OBVIOUS
<1>1. Front(s) = SubSeq(s, 1, n - 1)
  BY DEF Front
<1>2. /\ Front(s) \in Seq(T) /\ Len(Front(s)) = n - 1
      /\ \A i \in 1 .. n - 1 : Front(s)[i] = s[i]
  <2> DEFINE k == n - 1
  <2>1. k \in Nat /\ \A i \in 1 .. k : s[i] \in T
    BY <1>0
  <2>2. \A i \in 1 .. k - 1 + 1 : 1 + i - 1 = i /\ i \in 1 .. k
    BY <2>1
  <2> HIDE DEF k
  <2>3. /\ SubSeq(s, 1, k) \in Seq(T) /\ Len(SubSeq(s, 1, k)) = IF 1 <= k THEN k - 1 + 1 ELSE 0
        /\ \A i \in 1 .. k - 1 + 1 : SubSeq(s, 1, k)[i] = s[1 + i - 1]
    BY <2>1, SubSeqProperties
  <2>4. Len(SubSeq(s, 1, k)) = k /\ \A i \in 1 .. k : i \in 1 .. k - 1 + 1
    BY <2>1, <2>3
  <2> QED  BY <1>1, <2>2, <2>3, <2>4 DEF k
<1>3. s[n] \in T
  BY <1>0
<1> DEFINE f == Front(s)
           t == Append(f, s[n])
<1> HIDE DEF n, f
<1>4. t \in Seq(T) /\ Len(t) = n /\ \A i \in 1 .. n : t[i] = s[i]
  BY <1>0, <1>2, <1>3 DEF f
<1> HIDE DEF t
<1>5. t = s
  BY <1>4, SeqEqual DEF n
<1> QED  BY <1>0, <1>2, <1>3, <1>5 DEF n, f, t

\* The last slash that was written is that of the last part.
LEMMA LastSlash ==
  ASSUME Arrays, Unread, Written, depth > 0
  PROVE  LET at == At(src)
             p  == CHOOSE p \in 1 .. dest - 1 :
                     str[p] = "/" /\ \A q \in p + 1 .. dest - 1 : str[q] # "/"
         IN  /\ Front(at) \in Seq(Parts) /\ Len(Front(at)) = Len(at) - 1 /\ at # <<>>
             /\ p \in 1 .. dest - 1 /\ str[p] = "/"
             /\ SubSeq(str, 1, p - 1) = FlattenSeq(Front(at))
<1> DEFINE at == At(src)
           f == Front(at)
           c == at[Len(at)]
           t == FlattenSeq(f)
           p0 == Len(t) + 1
<1>1. at \in Seq(Parts) /\ Len(at) > 0 /\ SubSeq(str, 1, dest - 1) = FlattenSeq(at)
  BY DEF Written
<1> HIDE DEF at
<1>2. f \in Seq(Parts) /\ Len(f) = Len(at) - 1 /\ c \in Parts /\ at = Append(f, c) /\ at # <<>>
  BY <1>1, FrontAndLast
<1> HIDE DEF f, c
<1>3. t \in Seq(Char) /\ FlattenSeq(at) = t \o c
  BY <1>2, FlattenParts
<1> HIDE DEF t
<1>4. /\ c \in Seq(Char) /\ Len(c) >= 1 /\ c[1] = "/" /\ \A i \in 2 .. Len(c) : c[i] # "/"
      /\ Len(t) \in Nat /\ Len(c) \in Nat
  BY <1>2, <1>3 DEF Parts
<1>5. /\ str \in Seq(Char) /\ Len(str) \in Nat /\ dest \in 1 .. Len(str) /\ dest \in Nat
      /\ Len(SubSeq(str, 1, dest - 1)) = dest - 1
      /\ \A q \in 1 .. dest - 1 : SubSeq(str, 1, dest - 1)[q] = str[q]
  <2>1. str \in Seq(Char) /\ Len(str) \in Nat /\ dest \in 1 .. Len(str) /\ dest \in Nat
    BY DEF Arrays, Unread
  <2> QED  BY <2>1
<1>6. /\ dest - 1 = Len(t) + Len(c)
      /\ \A q \in 1 .. Len(t) : str[q] = t[q]
      /\ \A i \in 1 .. Len(c) : str[Len(t) + i] = c[i]
  <2>1. /\ Len(t \o c) = Len(t) + Len(c)
        /\ \A q \in 1 .. Len(t) : (t \o c)[q] = t[q]
        /\ \A i \in 1 .. Len(c) : (t \o c)[Len(t) + i] = c[i]
    BY <1>3, <1>4
  <2>2. SubSeq(str, 1, dest - 1) = t \o c
    BY <1>1, <1>3
  <2>3. dest - 1 = Len(t) + Len(c)
    BY <1>5, <2>1, <2>2
  <2>4. \A q \in 1 .. dest - 1 : (t \o c)[q] = str[q]
    BY <1>5, <2>2
  <2>5. \A i \in 1 .. Len(c) : Len(t) + i \in 1 .. dest - 1
    BY <1>4, <2>3
  <2>6. \A q \in 1 .. Len(t) : q \in 1 .. dest - 1
    BY <1>4, <2>3
  <2> QED  BY <2>1, <2>3, <2>4, <2>5, <2>6
<1>7. p0 \in 1 .. dest - 1 /\ str[p0] = "/" /\ \A q \in p0 + 1 .. dest - 1 : str[q] # "/"
  <2>1. p0 \in 1 .. dest - 1 /\ str[p0] = "/"
    BY <1>4, <1>5, <1>6
  <2>2. ASSUME NEW q \in p0 + 1 .. dest - 1 PROVE str[q] # "/"
    <3> DEFINE i == q - Len(t)
    <3>1. i \in 2 .. Len(c) /\ i \in 1 .. Len(c) /\ Len(t) + i = q
      BY <1>4, <1>5, <1>6
    <3> HIDE DEF i
    <3> QED  BY <1>4, <1>6, <3>1
  <2> QED  BY <2>1, <2>2
<1> HIDE DEF p0
<1>8. \A r \in 1 .. dest - 1 :
         str[r] = "/" /\ (\A q \in r + 1 .. dest - 1 : str[q] # "/") => r = p0
  <2> SUFFICES ASSUME NEW r \in 1 .. dest - 1, str[r] = "/",
                      \A q \in r + 1 .. dest - 1 : str[q] # "/", r # p0
               PROVE  FALSE
    OBVIOUS
  <2>1. r \in p0 + 1 .. dest - 1 \/ p0 \in r + 1 .. dest - 1
    BY <1>5, <1>7
  <2> QED  BY <1>7, <2>1
<1> DEFINE p == CHOOSE p \in 1 .. dest - 1 :
                  str[p] = "/" /\ \A q \in p + 1 .. dest - 1 : str[q] # "/"
<1>9. p = p0
  BY <1>7, <1>8
<1>10. SubSeq(str, 1, p0 - 1) = t
  <2>1. p0 - 1 = Len(t) /\ Len(t) <= Len(str)
    BY <1>4, <1>5, <1>6 DEF p0
  <2>2. SubSeq(str, 1, Len(t)) = t
    BY <1>3, <1>4, <1>5, <1>6, <2>1
  <2> QED  BY <2>1, <2>2
<1> HIDE DEF p
<1> QED  BY <1>2, <1>7, <1>9, <1>10 DEF at, f, t, p

\* What is clean remains so when the last part is taken back.
LEMMA CleanShorter ==
  ASSUME NEW s, NEW d \in Nat, NEW e \in 1 .. d - 1, Clean(s, d), s[e] = "/"
  PROVE  Clean(s, e)
<1> SUFFICES ASSUME NEW x \in 1 .. e - 3, s[x] = "/", s[x + 1] = ".", s[x + 2] = "."
             PROVE  x + 3 < e /\ s[x + 3] # "/"
  BY DEF Clean
<1>1. x \in 1 .. d - 3
  OBVIOUS
<1>2. x + 3 < d /\ s[x + 3] # "/"
  BY <1>1 DEF Clean
<1>3. x + 3 # e
  BY <1>2
<1> QED  BY <1>2, <1>3

\* "/.." takes back the component that following the path would.
LEMMA ScrubAscendKeeps ==
  ASSUME Arrays, Scrubbing, ScrubAscend
  PROVE  Arrays' /\ Scrubbing'
<1>1. /\ src # End /\ Ascends(src) /\ src' = ComponentEnd(src)
      /\ input' = input /\ str' = str /\ decoded' = decoded
  BY DEF ScrubAscend
<1>2. Unread /\ Written
  BY DEF Scrubbing
<1>3. src' \in src + 1 .. Len(decoded) + 1 /\ Len(decoded) \in Nat /\ src \in Nat /\ dest \in 1 .. src
      /\ End = Len(decoded) + 1 /\ str \in Seq(Char) /\ Len(str) \in Nat
  BY <1>1, <1>2, NextEnd DEF Unread, Arrays, End
<1>4. /\ At(src) \in Seq(Parts) /\ depth = Len(At(src)) /\ depth \in Nat
      /\ SubSeq(str, 1, dest - 1) = FlattenSeq(At(src))
      /\ dest > 1 => str[1] = "/"
      /\ Clean(str, dest)
  BY <1>2 DEF Written
<1>7. /\ dest' \in 1 .. src'
      /\ LET at == IF At(src) = <<>> THEN At(src) ELSE Front(At(src))
         IN  at \in Seq(Parts) /\ depth' = Len(at) /\ SubSeq(str, 1, dest' - 1) = FlattenSeq(at)
      /\ dest' > 1 => str[1] = "/"
      /\ Clean(str, dest')
  <2>1. CASE depth > 0
    <3>1. dest' = CHOOSE p \in 1 .. dest - 1 :
                    str[p] = "/" /\ \A q \in p + 1 .. dest - 1 : str[q] # "/"
      BY <2>1 DEF ScrubAscend
    <3>2. depth' = depth - 1
      BY <2>1 DEF ScrubAscend
    <3>3. /\ Front(At(src)) \in Seq(Parts) /\ Len(Front(At(src))) = depth' /\ At(src) # <<>>
          /\ dest' \in 1 .. dest - 1 /\ str[dest'] = "/"
          /\ SubSeq(str, 1, dest' - 1) = FlattenSeq(Front(At(src)))
      BY <1>2, <1>4, <2>1, <3>1, <3>2, LastSlash
    <3>4. Clean(str, dest')
      <4>1. dest \in Nat
        BY <1>3
      <4> QED  BY <1>4, <3>3, <4>1, CleanShorter
    <3>5. dest' > 1 => str[1] = "/"
      BY <1>3, <1>4, <3>3
    <3>6. dest' \in 1 .. src'
      BY <1>3, <3>3
    <3> QED  BY <3>3, <3>4, <3>5, <3>6
  <2>2. CASE ~(depth > 0)
    <3>1. dest' = dest /\ depth' = depth
      BY <2>2 DEF ScrubAscend
    <3>2. At(src) = <<>>
      BY <1>4, <2>2
    <3>3. dest' \in 1 .. src'
      BY <1>3, <3>1
    <3> QED  BY <1>4, <3>1, <3>2, <3>3
  <2> QED  BY <2>1, <2>2
<1>8. /\ str' \in Seq(Char) /\ Len(str') = Len(str)
      /\ \A q \in src' .. Len(str) : str'[q] = str[q]
  BY <1>1, <1>3
<1>9. \A q \in 1 .. src' - 1 : str'[q] # NUL
  BY <1>1, <1>2, <1>3 DEF Unread
<1>10. /\ Arrays' /\ Unread'
       /\ At(src)' = Step(At(src), SubSeq(decoded, src, src' - 1))
  BY <1>1, <1>2, <1>7, <1>8, <1>9, ScrubReads
<1>11. SubSeq(decoded, src, src' - 1) = <<"/", ".", ".">>
  BY <1>1, <1>2, ComponentKind
<1>12. At(src)' = IF At(src) = <<>> THEN At(src) ELSE Front(At(src))
  <2>1. <<"/", ".", ".">> # <<"/">>
    <3>1. Len(<<"/", ".", ".">>) = 3 /\ Len(<<"/">>) = 1
      OBVIOUS
    <3> QED  BY <3>1
  <2> QED  BY <1>10, <1>11, <2>1, Zenon DEF Step
<1>13. Written'
  BY <1>1, <1>7, <1>12 DEF Written
<1> QED  BY <1>10, <1>13 DEF Scrubbing

\* A component that is moved down is put behind what is written.
LEMMA Moved ==
  ASSUME NEW s \in Seq(Char), NEW t \in Seq(Char), NEW d \in Nat, NEW c \in Seq(Char),
         d >= 1, d - 1 + Len(c) <= Len(s), Len(t) = Len(s),
         \A q \in 1 .. d - 1 : t[q] = s[q],
         \A i \in 1 .. Len(c) : t[d + i - 1] = c[i]
  PROVE  SubSeq(t, 1, d + Len(c) - 1) = SubSeq(s, 1, d - 1) \o c
<1> DEFINE l == SubSeq(t, 1, d + Len(c) - 1)
           f == SubSeq(s, 1, d - 1)
           r == f \o c
<1>1. Len(s) \in Nat /\ Len(c) \in Nat /\ d - 1 \in 0 .. Len(s) /\ d + Len(c) - 1 \in 0 .. Len(t)
      /\ 1 \in 1 .. Len(s) + 1
  OBVIOUS
<1>2. l \in Seq(Char) /\ Len(l) = d + Len(c) - 1 /\ \A q \in 1 .. d + Len(c) - 1 : l[q] = t[q]
  BY <1>1, SubSeqProperties
<1>3. f \in Seq(Char) /\ Len(f) = d - 1 /\ \A q \in 1 .. d - 1 : f[q] = s[q]
  BY <1>1, SubSeqProperties
<1> HIDE DEF l, f
<1>4. /\ r \in Seq(Char) /\ Len(r) = d - 1 + Len(c)
      /\ \A q \in 1 .. d - 1 : r[q] = f[q]
      /\ \A i \in 1 .. Len(c) : r[d - 1 + i] = c[i]
  <2>1. /\ r \in Seq(Char) /\ Len(r) = Len(f) + Len(c)
        /\ \A i \in 1 .. Len(f) + Len(c) : r[i] = IF i <= Len(f) THEN f[i] ELSE c[i - Len(f)]
    BY <1>3, ConcatProperties
  <2>2. \A q \in 1 .. d - 1 : q \in 1 .. Len(f) + Len(c) /\ q <= Len(f)
    BY <1>1, <1>3
  <2>3. \A i \in 1 .. Len(c) : /\ d - 1 + i \in 1 .. Len(f) + Len(c)
                                /\ ~(d - 1 + i <= Len(f)) /\ d - 1 + i - Len(f) = i
    BY <1>1, <1>3
  <2> HIDE DEF r
  <2>4. Len(r) = d - 1 + Len(c)
    BY <1>3, <2>1
  <2>5. \A q \in 1 .. d - 1 : r[q] = f[q]
    BY <2>1, <2>2
  <2>6. ASSUME NEW i \in 1 .. Len(c) PROVE r[d - 1 + i] = c[i]
    <3> DEFINE j == d - 1 + i
    <3>1. j \in 1 .. Len(f) + Len(c) /\ ~(j <= Len(f)) /\ j - Len(f) = i
      BY <2>3
    <3> HIDE DEF j
    <3>2. r[j] = c[i]
      BY <2>1, <3>1
    <3> QED  BY <3>2 DEF j
  <2> QED  BY <2>1, <2>4, <2>5, <2>6
<1> HIDE DEF r
<1>5. ASSUME NEW q \in 1 .. d + Len(c) - 1 PROVE l[q] = r[q]
  <2>1. CASE q <= d - 1
    <3>1. q \in 1 .. d - 1
      BY <2>1, <1>1
    <3> QED  BY <1>2, <1>3, <1>4, <3>1
  <2>2. CASE ~(q <= d - 1)
    <3> DEFINE i == q - (d - 1)
    <3>1. i \in 1 .. Len(c) /\ d - 1 + i = q /\ d + i - 1 = q
      BY <1>1, <2>2
    <3> HIDE DEF i
    <3>2. r[d - 1 + i] = c[i] /\ t[d + i - 1] = c[i]
      BY <1>4, <3>1
    <3> QED  BY <1>2, <3>1, <3>2
  <2> QED  BY <2>1, <2>2
<1>6. Len(l) = Len(r)
  BY <1>1, <1>2, <1>4
<1>7. l = r
  BY <1>2, <1>4, <1>5, <1>6, SeqEqual
<1> QED  BY <1>7 DEF l, r, f

\* Longer than three is beyond three.
LEMMA Exceeds ==
  ASSUME NEW d \in Nat, NEW n \in Nat, n >= 3, n # 3
  PROVE  d + 3 < d + n
  OBVIOUS

\* What is clean remains so when a component that does not lead up is added.
LEMMA CleanLonger ==
  ASSUME NEW s, NEW t, NEW d \in Nat, d >= 1, NEW c \in Parts, Clean(s, d),
         c # <<"/", ".", ".">>,
         \A q \in 1 .. d - 1 : t[q] = s[q],
         \A i \in 1 .. Len(c) : t[d + i - 1] = c[i]
  PROVE  Clean(t, d + Len(c))
<1> DEFINE e == d + Len(c)
<1>0. /\ c \in Seq(Char) /\ Len(c) \in Nat /\ Len(c) >= 1 /\ c[1] = "/"
      /\ \A i \in 2 .. Len(c) : c[i] # "/"
  BY DEF Parts
<1>1. t[d] = "/" /\ \A q \in d + 1 .. e - 1 : t[q] # "/"
  <2>1. t[d] = "/"
    <3>1. 1 \in 1 .. Len(c) /\ d + 1 - 1 = d
      BY <1>0
    <3>2. t[d + 1 - 1] = c[1]
      BY <3>1
    <3> QED  BY <1>0, <3>1, <3>2
  <2>2. ASSUME NEW q \in d + 1 .. e - 1 PROVE t[q] # "/"
    <3> DEFINE i == q - d + 1
    <3>1. i \in 2 .. Len(c) /\ i \in 1 .. Len(c) /\ d + i - 1 = q
      BY <1>0
    <3> HIDE DEF i
    <3> QED  BY <1>0, <3>1
  <2> QED  BY <2>1, <2>2
<1> SUFFICES ASSUME NEW x \in 1 .. e - 3, t[x] = "/", t[x + 1] = ".", t[x + 2] = "."
             PROVE  x + 3 < e /\ t[x + 3] # "/"
  BY DEF Clean
<1>2. CASE x < d
  <2>1. x + 1 # d /\ x + 2 # d
    BY <1>1
  <2>2. x + 2 < d /\ x \in 1 .. d - 1 /\ x + 1 \in 1 .. d - 1 /\ x + 2 \in 1 .. d - 1 /\ x \in 1 .. d - 3
    BY <1>2, <2>1
  <2>3. x + 3 < d /\ s[x + 3] # "/"
    BY <2>2 DEF Clean
  <2>4. x + 3 \in 1 .. d - 1
    BY <2>3
  <2> QED  BY <1>0, <2>3, <2>4
<1>3. CASE x = d
  <2>1. Len(c) >= 3 /\ e = d + Len(c)
    BY <1>0, <1>3
  <2>2. Len(c) # 3
    <3> SUFFICES ASSUME Len(c) = 3 PROVE FALSE
      OBVIOUS
    <3>1. {2, 3} \subseteq 1 .. Len(c) /\ d + 2 - 1 = x + 1 /\ d + 3 - 1 = x + 2
      BY <1>3
    <3>2. t[d + 2 - 1] = c[2] /\ t[d + 3 - 1] = c[3]
      BY <3>1
    <3>3. c[2] = "." /\ c[3] = "."
      BY <3>1, <3>2
    <3> QED  BY <1>0, <3>3, OneTwoThree
  <2>3. x + 3 < e /\ x + 3 \in d + 1 .. e - 1
    <3>1. d + 3 < e
      BY <1>0, <2>1, <2>2, Exceeds
    <3> HIDE DEF e
    <3>2. e \in Int
      BY <1>0 DEF e
    <3> QED  BY <1>3, <3>1, <3>2
  <2> QED  BY <1>1, <2>3
<1>4. CASE x > d
  <2>1. x \in d + 1 .. e - 1
    BY <1>0, <1>4
  <2> QED  BY <1>1, <2>1
<1> QED  BY <1>2, <1>3, <1>4

\* Any other component is moved down behind those written.
LEMMA ScrubCopyKeeps ==
  ASSUME Arrays, Scrubbing, ScrubCopy
  PROVE  Arrays' /\ Scrubbing'
<1> DEFINE e == ComponentEnd(src)
           n == e - src
           c == SubSeq(decoded, src, e - 1)
<1>1. /\ src # End /\ ~Ascends(src) /\ ~Empty(src)
      /\ str' = [p \in DOMAIN str |->
                   IF p \in dest .. dest + n - 1 THEN str[src + p - dest] ELSE str[p]]
      /\ dest' = dest + n /\ src' = src + n /\ depth' = depth + 1
      /\ input' = input /\ decoded' = decoded
  BY DEF ScrubCopy
<1>2. Unread /\ Written
  BY DEF Scrubbing
<1>3. /\ e \in src + 1 .. Len(decoded) + 1 /\ Len(decoded) \in Nat /\ src \in Nat
      /\ dest \in 1 .. src /\ dest \in Nat /\ dest >= 1 /\ dest <= src
      /\ End = Len(decoded) + 1 /\ str \in Seq(Char) /\ Len(str) \in Nat /\ End <= Len(str)
      /\ DOMAIN str = 1 .. Len(str)
  BY <1>1, <1>2, NextEnd DEF Unread, Arrays, End
<1>4. /\ c \in Parts /\ c \in Seq(Char) /\ Len(c) = n
      /\ \A i \in 1 .. n : c[i] = str[src + i - 1]
      /\ c # <<"/", ".", ".">> /\ c # <<"/">>
  BY <1>1, <1>2, ComponentKind, PartsAre
<1> HIDE DEF c, e
<1>a. n \in Nat /\ n >= 1 /\ src + n = e /\ e <= Len(str) /\ dest + n <= e
  BY <1>3
<1> HIDE DEF n
<1>5. /\ At(src) \in Seq(Parts) /\ depth = Len(At(src))
      /\ SubSeq(str, 1, dest - 1) = FlattenSeq(At(src))
      /\ dest > 1 => str[1] = "/"
      /\ Clean(str, dest)
  BY <1>2 DEF Written
<1>6. /\ \A p \in 1 .. Len(str) :
           str'[p] = IF p \in dest .. dest + n - 1 THEN str[src + p - dest] ELSE str[p]
      /\ str' \in Seq(Char) /\ Len(str') = Len(str)
  <2> DEFINE m == [p \in 1 .. Len(str) |->
                     IF p \in dest .. dest + n - 1 THEN str[src + p - dest] ELSE str[p]]
  <2>0. str' = m
    BY <1>1, <1>3, Zenon
  <2>1. \A p \in 1 .. Len(str) :
           str'[p] = IF p \in dest .. dest + n - 1 THEN str[src + p - dest] ELSE str[p]
    BY <2>0
  <2>2. \A p \in 1 .. Len(str) : str'[p] \in Char
    <3> TAKE p \in 1 .. Len(str)
    <3>1. p \in dest .. dest + n - 1 => src + p - dest \in 1 .. Len(str)
      BY <1>3, <1>a
    <3>2. \A q \in 1 .. Len(str) : str[q] \in Char
      BY <1>3
    <3> QED  BY <2>1, <3>1, <3>2
  <2>3. str' = [p \in 1 .. Len(str) |-> str'[p]]
    BY <2>0
  <2> HIDE DEF m
  <2>4. str' \in [1 .. Len(str) -> Char]
    BY <2>2, <2>3
  <2>5. str' \in Seq(Char) /\ Len(str') = Len(str)
    BY <1>3, <2>4
  <2> QED  BY <2>1, <2>5
<1>7. /\ \A q \in 1 .. dest - 1 : str'[q] = str[q]
      /\ \A i \in 1 .. n : str'[dest + i - 1] = c[i]
      /\ \A q \in e .. Len(str) : str'[q] = str[q]
  <2>1. \A q \in 1 .. dest - 1 : q \in 1 .. Len(str) /\ q \notin dest .. dest + n - 1
    BY <1>3, <1>a
  <2>2. \A q \in e .. Len(str) : q \in 1 .. Len(str) /\ q \notin dest .. dest + n - 1
    BY <1>3, <1>a
  <2>3. ASSUME NEW i \in 1 .. n PROVE str'[dest + i - 1] = c[i]
    <3>1. /\ dest + i - 1 \in 1 .. Len(str) /\ dest + i - 1 \in dest .. dest + n - 1
          /\ src + (dest + i - 1) - dest = src + i - 1
      BY <1>3, <1>a
    <3> QED  BY <1>4, <1>6, <3>1
  <2> QED  BY <1>6, <2>1, <2>2, <2>3
<1>8. \A q \in 1 .. e - 1 : str'[q] # NUL
  <2> TAKE q \in 1 .. e - 1
  <2>1. q \in 1 .. Len(str) /\ q \in 1 .. End - 1
    BY <1>3, <1>a
  <2>2. q \in dest .. dest + n - 1 => src + q - dest \in 1 .. End - 1
    BY <1>3, <1>a
  <2> QED  BY <1>2, <1>6, <2>1, <2>2 DEF Unread
<1>9. src' = e /\ dest' \in 1 .. src' /\ src' = ComponentEnd(src)
  BY <1>1, <1>3, <1>a DEF e
<1>10. /\ Arrays' /\ Unread'
       /\ At(src)' = Step(At(src), SubSeq(decoded, src, src' - 1))
  BY <1>1, <1>2, <1>6, <1>7, <1>8, <1>9, ScrubReads
<1>11. At(src)' = Append(At(src), c)
  <2>1. SubSeq(decoded, src, src' - 1) = c
    BY <1>9 DEF c
  <2> QED  BY <1>4, <1>10, <2>1, Zenon DEF Step
<1>12. /\ At(src)' \in Seq(Parts) /\ depth' = Len(At(src)')
       /\ FlattenSeq(At(src)') = FlattenSeq(At(src)) \o c
  BY <1>1, <1>4, <1>5, <1>11, FlattenParts
<1>13. SubSeq(str', 1, dest' - 1) = SubSeq(str, 1, dest - 1) \o c
  <2>1. dest - 1 + Len(c) <= Len(str)
    BY <1>3, <1>4, <1>a
  <2>2. \A i \in 1 .. Len(c) : str'[dest + i - 1] = c[i]
    BY <1>4, <1>7
  <2>3. dest' \in Nat /\ dest' = dest + Len(c)
    BY <1>1, <1>3, <1>4, <1>a
  <2>4. str \in Seq(Char) /\ str' \in Seq(Char) /\ Len(str') = Len(str) /\ c \in Seq(Char)
        /\ dest \in Nat /\ dest >= 1 /\ \A q \in 1 .. dest - 1 : str'[q] = str[q]
    BY <1>3, <1>4, <1>6, <1>7
  <2>5. SubSeq(str', 1, dest + Len(c) - 1) = SubSeq(str, 1, dest - 1) \o c
    BY <2>1, <2>2, <2>4, Moved
  <2>6. dest' \in Int /\ dest \in Int /\ Len(c) \in Int
    BY <2>3, <2>4
  <2>7. dest' - 1 = dest + Len(c) - 1
    BY <2>3, <2>6
  <2> QED  BY <2>5, <2>7
<1>14. dest' > 1 => str'[1] = "/"
  <2>1. CASE dest = 1
    <3>1. 1 \in 1 .. n /\ dest + 1 - 1 = 1
      BY <1>a, <2>1
    <3>2. str'[dest + 1 - 1] = c[1]
      BY <1>7, <3>1
    <3> QED  BY <1>4, <3>1, <3>2 DEF Parts
  <2>2. CASE dest # 1
    <3>1. 1 \in 1 .. dest - 1 /\ dest > 1
      BY <1>3, <2>2
    <3> QED  BY <1>5, <1>7, <3>1
  <2> QED  BY <2>1, <2>2
<1>15. Clean(str', dest')
  <2>1. \A i \in 1 .. Len(c) : str'[dest + i - 1] = c[i]
    BY <1>4, <1>7
  <2>2. Clean(str', dest + Len(c))
    BY <1>3, <1>4, <1>5, <1>7, <2>1, CleanLonger
  <2> QED  BY <1>1, <1>4, <2>2
<1>16. Written'
  BY <1>5, <1>12, <1>13, <1>14, <1>15 DEF Written
<1> QED  BY <1>10, <1>16 DEF Scrubbing

\* Scrubbing begins at the first slash, or leaves nothing without one.
LEMMA ScrubStartKeeps ==
  ASSUME Arrays, Decoded, ScrubStart
  PROVE  /\ Arrays'
         /\ \/ rewriting' = "scrub" /\ Scrubbing'
            \/ rewriting' = "done" /\ StaysBelowRoot'
<1>1. /\ str \in Seq(Char) /\ Len(str) \in Nat /\ DOMAIN str = 1 .. Len(str) /\ Len(str) >= 1
      /\ EndOf(str) \in 1 .. Len(str) /\ str[EndOf(str)] = NUL
      /\ \A q \in 1 .. EndOf(str) - 1 : str[q] # NUL
      /\ input' = input /\ decoded' = decoded
  <2>1. /\ str \in Seq(Char) /\ Len(str) \in Nat /\ DOMAIN str = 1 .. Len(str)
    BY DEF Arrays
  <2>2. PICK e \in 1 .. Len(str) : str[e] = NUL
    BY DEF Decoded
  <2>3. /\ EndOf(str) \in 1 .. e /\ str[EndOf(str)] = NUL
        /\ \A q \in 1 .. EndOf(str) - 1 : str[q] # NUL
    BY <2>1, <2>2, EndIsFirst
  <2>4. EndOf(str) \in 1 .. Len(str) /\ Len(str) >= 1
    BY <2>1, <2>3
  <2> QED  BY <2>1, <2>3, <2>4 DEF ScrubStart
<1>2. /\ decoded \in Seq(Char) /\ Len(decoded) = EndOf(str) - 1
      /\ DOMAIN decoded = 1 .. Len(decoded)
      /\ \A q \in 1 .. EndOf(str) - 1 : decoded[q] = str[q]
      /\ End = EndOf(str)
  <2> DEFINE e == EndOf(str) - 1
  <2>1. e \in Nat /\ \A q \in 1 .. e : q \in 1 .. Len(str) /\ str[q] \in Char
    BY <1>1
  <2>2. decoded = SubSeq(str, 1, e)
    BY DEF Decoded, Text
  <2> HIDE DEF e
  <2>3. /\ decoded \in Seq(Char) /\ Len(decoded) = e
        /\ \A q \in 1 .. e : decoded[q] = str[q]
    <3>1. /\ SubSeq(str, 1, e) \in Seq(Char) /\ Len(SubSeq(str, 1, e)) = IF 1 <= e THEN e - 1 + 1 ELSE 0
          /\ \A i \in 1 .. e - 1 + 1 : SubSeq(str, 1, e)[i] = str[1 + i - 1]
      BY <2>1, SubSeqProperties
    <3>2. Len(decoded) = e
      BY <2>1, <2>2, <3>1
    <3>3. \A q \in 1 .. e : q \in 1 .. e - 1 + 1 /\ 1 + q - 1 = q
      BY <2>1
    <3> QED  BY <2>2, <3>1, <3>2, <3>3
  <2>4. Len(decoded) + 1 = EndOf(str)
    <3>1. Len(decoded) = EndOf(str) - 1
      BY <2>3 DEF e
    <3> QED  BY <1>1, <3>1
  <2> QED  BY <2>3, <2>4 DEF e, End
<1>3. "/" # NUL
  BY DEF NUL
<1>4. Slashes(str, 1) = SlashesOf(decoded)
  <2>1. \A q \in 1 .. EndOf(str) : str[q] = "/" <=> q \in 1 .. Len(decoded) /\ decoded[q] = "/"
    BY <1>1, <1>2, <1>3
  <2>2. \A q \in 1 .. Len(decoded) : q \in 1 .. EndOf(str)
    BY <1>1, <1>2
  <2> QED  BY <1>2, <2>1, <2>2 DEF Slashes, SlashesOf
<1>5. CASE Slashes(str, 1) = {}
  <2>1. /\ str' = [str EXCEPT ![1] = NUL] /\ rewriting' = "done"
    BY <1>5 DEF ScrubStart
  <2>2. /\ str' \in Seq(Char) /\ Len(str') = Len(str) /\ DOMAIN str' = 1 .. Len(str)
        /\ str'[1] = NUL
    <3>1. 1 \in 1 .. Len(str)
      BY <1>1
    <3>2. /\ str' \in Seq(Char) /\ Len(str') = Len(str)
          /\ \A q \in 1 .. Len(str) : str'[q] = IF q = 1 THEN NUL ELSE str[q]
      <4>1. NUL \in Char
        BY CharHas, Zenon
      <4> QED  BY <1>1, <2>1, <3>1, <4>1, ExceptSeq
    <3> QED  BY <3>1, <3>2
  <2>3. Text(str') = <<>>
    <3>1. 1 = EndOf(str')
      <4>1. 1 \in 1 .. Len(str) /\ \A q \in 1 .. 1 - 1 : str'[q] # NUL
        BY <1>1
      <4> QED  BY <1>1, <2>2, <4>1, EndIsFirst
    <3> QED  BY <3>1, SubSeqEmpty DEF Text
  <2>4. Follow(decoded) = <<>>
    <3>1. At(Len(decoded) + 1) = <<>>
      <4>1. Len(decoded) + 1 \in Nat /\ SlashesOf(decoded) = {}
        BY <1>2, <1>4, <1>5
      <4> QED  BY <1>2, <4>1, WhereFirst
    <3>2. Rank(decoded, Len(decoded) + 1) = Cardinality(SlashesOf(decoded))
      BY <1>2, RankAtEnd
    <3> QED  BY <3>1, <3>2 DEF At, Follow
  <2>5. FlattenSeq(<<>>) = <<>>
    BY FlattenIs
  <2>6. Components(<<>>) = <<>>
    <3>1. SlashesOf(<<>>) = {}
      BY DEF SlashesOf
    <3> QED  BY <3>1, FS_EmptySet DEF Components
  <2>7. ScrubFollows'
    BY <1>1, <2>3, <2>4, <2>5 DEF ScrubFollows
  <2>8. NeverAscends'
    BY <2>3, <2>6 DEF NeverAscends
  <2>9. Arrays'
    BY <1>1, <2>2 DEF Arrays
  <2> QED  BY <2>1, <2>7, <2>8, <2>9 DEF StaysBelowRoot
<1>6. CASE Slashes(str, 1) # {}
  <2>1. /\ src' = FirstSlash(str, 1) /\ rewriting' = "scrub" /\ str' = str
        /\ dest' = 1 /\ depth' = 0
    BY <1>6 DEF ScrubStart
  <2>2. src' \in SlashesOf(decoded) /\ \A r \in SlashesOf(decoded) : src' <= r
    <3> DEFINE S == SlashesOf(decoded)
    <3>1. S \subseteq Nat /\ S # {}
      BY <1>2, <1>4, <1>6 DEF SlashesOf
    <3>2. src' = CHOOSE q \in S : \A r \in S : q <= r
      BY <1>4, <2>1 DEF FirstSlash
    <3> HIDE DEF S
    <3>3. src' \in S /\ \A r \in S : src' <= r
      BY <3>1, <3>2, FirstPlace
    <3> QED  BY <3>3 DEF S
  <2>3. src' \in 1 .. Len(decoded) /\ src' \in Nat
    BY <1>2, <2>2 DEF SlashesOf
  <2>4. Unread'
    <3>1. End' = End
      BY <1>1 DEF End
    <3>2. End \in 1 .. Len(str) /\ src' \in 1 .. End /\ dest' \in 1 .. src'
      BY <1>1, <1>2, <2>1, <2>3
    <3>3. \A q \in src' .. End - 1 : str[q] = decoded[q]
      BY <1>1, <1>2, <2>3
    <3> QED  BY <1>1, <1>2, <2>1, <2>2, <3>1, <3>2, <3>3 DEF Unread
  <2>5. At(src)' = <<>>
    <3>1. \A q \in SlashesOf(decoded) : ~(q < src')
      BY <1>2, <2>2, <2>3 DEF SlashesOf
    <3>2. At(src') = <<>>
      BY <1>2, <2>3, <3>1, WhereFirst
    <3> QED  BY <1>1, <3>2 DEF At
  <2>6. SubSeq(str', 1, dest' - 1) = FlattenSeq(<<>>)
    <3>1. FlattenSeq(<<>>) = <<>>
      BY FlattenIs
    <3>2. SubSeq(str', 1, dest' - 1) = <<>>
      BY <2>1, SubSeqEmpty
    <3> QED  BY <3>1, <3>2
  <2>7. Clean(str', dest')
    BY <2>1 DEF Clean
  <2>8. Written'
    BY <2>1, <2>5, <2>6, <2>7 DEF Written
  <2>9. Arrays'
    BY <1>1, <2>1 DEF Arrays
  <2> QED  BY <2>1, <2>4, <2>8, <2>9 DEF Scrubbing
<1> QED  BY <1>5, <1>6

\* Nothing in a path that is clean leads up.
LEMMA CleanNeverAscends ==
  ASSUME NEW s \in Seq(Char), NEW d \in Nat, d >= 1, Len(s) = d - 1, Clean(s, d),
         NEW n \in DOMAIN Components(s)
  PROVE  Components(s)[n] # <<"/", ".", ".">>
<1> DEFINE C == Cardinality(SlashesOf(s))
           p == NthSlash(s, n)
           z == NthStop(s, n)
<1>1. /\ Len(s) \in Nat /\ DOMAIN s = 1 .. Len(s) /\ C \in Nat
      /\ SlashesOf(s) \subseteq 1 .. Len(s)
  BY SlashesFinite
<1>2. n \in 1 .. C /\ Components(s)[n] = SubSeq(s, p, z)
  BY DEF Components
<1>3. p \in 1 .. Len(s) /\ s[p] = "/"
  BY <1>1, <1>2, SlashExists DEF SlashesOf
<1>4. z \in 0 .. Len(s) /\ (z = Len(s) \/ (z + 1 <= Len(s) /\ s[z + 1] = "/"))
  <2>1. CASE n < C
    <3>1. n + 1 \in 1 .. C
      BY <1>1, <1>2, <2>1
    <3>2. NthSlash(s, n + 1) \in 1 .. Len(s) /\ s[NthSlash(s, n + 1)] = "/"
      BY <1>1, <3>1, SlashExists DEF SlashesOf
    <3>3. z = NthSlash(s, n + 1) - 1
      BY <2>1 DEF NthStop
    <3> HIDE DEF z
    <3> DEFINE m == NthSlash(s, n + 1)
    <3> HIDE DEF m
    <3>4. m \in 1 .. Len(s) /\ s[m] = "/" /\ z = m - 1
      BY <3>2, <3>3 DEF m
    <3>5. z \in 0 .. Len(s) /\ z + 1 = m /\ m <= Len(s)
      BY <1>1, <3>4
    <3> QED  BY <3>4, <3>5
  <2>2. CASE ~(n < C)
    <3>1. z = Len(s)
      BY <2>2 DEF NthStop
    <3> QED  BY <1>1, <3>1
  <2> QED  BY <2>1, <2>2
<1> HIDE DEF p, z, C
<1>5. /\ Len(SubSeq(s, p, z)) = IF p <= z THEN z - p + 1 ELSE 0
      /\ \A i \in 1 .. z - p + 1 : SubSeq(s, p, z)[i] = s[p + i - 1]
  <2>1. p \in Int /\ z \in Int /\ \A i \in p .. z : s[i] \in Char
    <3>1. \A i \in p .. z : i \in 1 .. Len(s)
      BY <1>1, <1>3, <1>4
    <3>2. \A i \in 1 .. Len(s) : s[i] \in Char
      OBVIOUS
    <3> QED  BY <1>3, <1>4, <3>1, <3>2
  <2> QED  BY <2>1, SubSeqProperties
<1> SUFFICES ASSUME SubSeq(s, p, z) = <<"/", ".", ".">> PROVE FALSE
  BY <1>2
<1>6. Len(SubSeq(s, p, z)) = 3 /\ SubSeq(s, p, z)[2] = "." /\ SubSeq(s, p, z)[3] = "."
  OBVIOUS
<1>7. z = p + 2
  BY <1>3, <1>4, <1>5, <1>6
<1>8. s[p + 1] = "." /\ s[p + 2] = "."
  <2>1. {2, 3} \subseteq 1 .. z - p + 1 /\ p + 2 - 1 = p + 1 /\ p + 3 - 1 = p + 2
    BY <1>3, <1>7
  <2>2. SubSeq(s, p, z)[2] = s[p + 2 - 1] /\ SubSeq(s, p, z)[3] = s[p + 3 - 1]
    BY <1>5, <2>1
  <2> QED  BY <1>6, <2>1, <2>2
<1>9. p \in 1 .. d - 3
  BY <1>1, <1>3, <1>4, <1>7
<1>10. p + 3 < d /\ s[p + 3] # "/"
  BY <1>3, <1>8, <1>9 DEF Clean
<1> QED  BY <1>1, <1>3, <1>4, <1>7, <1>10

\* At the end of the path, what is written is where the path leads.
LEMMA ScrubEndKeeps ==
  ASSUME Arrays, Scrubbing, ScrubEnd
  PROVE  Arrays' /\ rewriting' = "done" /\ StaysBelowRoot'
<1>1. /\ src = End /\ str' = [str EXCEPT ![dest] = NUL] /\ rewriting' = "done"
      /\ input' = input /\ decoded' = decoded
  BY DEF ScrubEnd
<1>2. /\ str \in Seq(Char) /\ Len(str) \in Nat /\ dest \in 1 .. Len(str) /\ dest \in 1 .. End
      /\ decoded \in Seq(Char) /\ End = Len(decoded) + 1 /\ Len(decoded) \in Nat
      /\ \A q \in 1 .. End - 1 : str[q] # NUL
      /\ DOMAIN decoded = 1 .. Len(decoded)
  BY <1>1 DEF Arrays, Scrubbing, Unread, End
<1>3. /\ At(src) \in Seq(Parts) /\ SubSeq(str, 1, dest - 1) = FlattenSeq(At(src))
      /\ dest > 1 => str[1] = "/"
      /\ Clean(str, dest)
  BY DEF Scrubbing, Written
<1>4. /\ str' \in Seq(Char) /\ Len(str') = Len(str) /\ str'[dest] = NUL
      /\ \A q \in 1 .. dest - 1 : str'[q] = str[q]
  <2>1. /\ str' \in Seq(Char) /\ Len(str') = Len(str)
        /\ \A q \in 1 .. Len(str) : str'[q] = IF q = dest THEN NUL ELSE str[q]
    <3>1. NUL \in Char
      BY CharHas, Zenon
    <3> QED  BY <1>1, <1>2, <3>1, ExceptSeq
  <2>2. \A q \in 1 .. dest - 1 : q \in 1 .. Len(str) /\ q # dest
    BY <1>2
  <2> QED  BY <1>2, <2>1, <2>2
<1>5. EndOf(str') = dest
  <2>1. \A q \in 1 .. dest - 1 : str'[q] # NUL
    <3>1. \A q \in 1 .. dest - 1 : q \in 1 .. End - 1
      BY <1>2
    <3> QED  BY <1>2, <1>4, <3>1
  <2>2. DOMAIN str' = 1 .. Len(str')
    BY <1>4
  <2> QED  BY <1>2, <1>4, <2>1, <2>2, EndIsFirst
<1> DEFINE f == SubSeq(str, 1, dest - 1)
           k == dest - 1
<1>6. Text(str') = f /\ f \in Seq(Char) /\ Len(f) = dest - 1 /\ \A q \in 1 .. dest - 1 : f[q] = str[q]
  <2>1. k \in Nat /\ \A q \in 1 .. k : str[q] \in Char /\ str'[q] = str[q]
    BY <1>2, <1>4
  <2>2. Text(str') = SubSeq(str', 1, k)
    BY <1>5 DEF Text
  <2>3. \A q \in 1 .. k : q \in 1 .. k - 1 + 1 /\ 1 + q - 1 = q
    BY <2>1
  <2> HIDE DEF k
  <2>4. /\ SubSeq(str, 1, k) \in Seq(Char) /\ Len(SubSeq(str, 1, k)) = IF 1 <= k THEN k - 1 + 1 ELSE 0
        /\ \A i \in 1 .. k - 1 + 1 : SubSeq(str, 1, k)[i] = str[1 + i - 1]
    BY <2>1, SubSeqProperties
  <2>5. \A q \in 1 .. k : str'[q] \in Char
    BY <2>1
  <2>6. /\ SubSeq(str', 1, k) \in Seq(Char) /\ Len(SubSeq(str', 1, k)) = IF 1 <= k THEN k - 1 + 1 ELSE 0
        /\ \A i \in 1 .. k - 1 + 1 : SubSeq(str', 1, k)[i] = str'[1 + i - 1]
    BY <2>1, <2>5, SubSeqProperties
  <2>7. Len(SubSeq(str, 1, k)) = k /\ Len(SubSeq(str', 1, k)) = k
    BY <2>1, <2>4, <2>6
  <2>8. \A q \in 1 .. k : SubSeq(str, 1, k)[q] = str[q] /\ SubSeq(str', 1, k)[q] = str[q]
    BY <2>1, <2>3, <2>4, <2>6
  <2>9. SubSeq(str', 1, k) = SubSeq(str, 1, k)
    BY <2>4, <2>6, <2>7, <2>8, SeqEqual
  <2> QED  BY <2>2, <2>4, <2>7, <2>8, <2>9 DEF k
<1> HIDE DEF f
<1>7. ScrubFollows'
  <2>1. Follow(decoded) = At(src)
    <3>1. Rank(decoded, Len(decoded) + 1) = Cardinality(SlashesOf(decoded))
      BY <1>2, RankAtEnd
    <3> QED  BY <1>1, <1>2, <3>1 DEF At, Follow
  <2>2. Text(str') = FlattenSeq(Follow(decoded'))
    BY <1>1, <1>3, <1>6, <2>1 DEF f
  <2> QED  BY <2>2 DEF ScrubFollows
<1>8. Clean(f, dest)
  <2> SUFFICES ASSUME NEW x \in 1 .. dest - 3, f[x] = "/", f[x + 1] = ".", f[x + 2] = "."
               PROVE  x + 3 < dest /\ f[x + 3] # "/"
    BY DEF Clean
  <2>1. x \in 1 .. dest - 1 /\ x + 1 \in 1 .. dest - 1 /\ x + 2 \in 1 .. dest - 1
    BY <1>2
  <2>2. str[x] = "/" /\ str[x + 1] = "." /\ str[x + 2] = "."
    BY <1>6, <2>1
  <2>3. x + 3 < dest /\ str[x + 3] # "/"
    BY <1>3, <2>2 DEF Clean
  <2>4. x + 3 \in 1 .. dest - 1
    BY <1>2, <2>3
  <2> QED  BY <1>6, <2>3, <2>4
<1>9. NeverAscends'
  <2>1. Text(str') # <<>> => str'[1] = "/"
    <3> SUFFICES ASSUME Text(str') # <<>> PROVE str'[1] = "/"
      OBVIOUS
    <3>1. Len(f) # 0
      BY <1>6
    <3>2. dest > 1 /\ 1 \in 1 .. dest - 1
      BY <1>2, <1>6, <3>1
    <3> QED  BY <1>3, <1>4, <3>2
  <2>2. \A n \in DOMAIN Components(Text(str')) : Components(Text(str'))[n] # <<"/", ".", ".">>
    <3>1. dest \in Nat /\ dest >= 1
      BY <1>2
    <3> QED  BY <1>6, <1>8, <3>1, CleanNeverAscends
  <2> QED  BY <2>1, <2>2 DEF NeverAscends
<1>10. Arrays'
  BY <1>1, <1>4 DEF Arrays
<1> QED  BY <1>1, <1>7, <1>9, <1>10 DEF StaysBelowRoot

-----------------------------------------------------------------------------
(* The theorems.                                                             *)

\* The path, step by step.
PathInv ==
  /\ Arrays
  /\ rewriting \in {"decode", "start", "scrub", "done"}
  /\ rewriting = "decode" => Decoding
  /\ rewriting = "start" => Decoded
  /\ rewriting = "scrub" => Scrubbing
  /\ rewriting = "done" => StaysBelowRoot

\* A path as it came satisfies the invariant.
LEMMA PathInvInit == PathInit => PathInv
<1> SUFFICES ASSUME NEW path \in Paths, PathStarts(path) PROVE PathInv
  BY DEF PathInit
<1>1. /\ input = path /\ str = Append(input, NUL) /\ src = 1 /\ dest = 1
      /\ rewriting = "decode"
  BY DEF PathStarts
<1>2. input \in Seq(Char \ {NUL}) /\ input \in Seq(Char)
  <2>1. input \in Seq(Char \ {NUL})
    BY <1>1, UrlPathAssumption
  <2> QED  BY <2>1, SeqMonotonic
<1>3. Arrays
  <2>1. NUL \in Char
    BY CharHas, Zenon
  <2>2. str \in Seq(Char) /\ Len(str) = Len(input) + 1
    BY <1>1, <1>2, <2>1
  <2> QED  BY <1>2, <2>2 DEF Arrays
<1>4. Decoding
  <2>1. src \in 1 .. Len(str) /\ dest \in 1 .. src
    BY <1>1, <1>2
  <2>2. MeaningFrom(input)[1] \in Seq(Char)
    <3>1. Len(input) \in Nat /\ 1 \in 1 .. Len(input) + 3
      BY <1>2
    <3> QED  BY <1>2, <3>1, MeaningType
  <2> DEFINE m == MeaningFrom(input)[1]
  <2>3. Len(m) \in Nat
    BY <2>2
  <2> HIDE DEF m
  <2>4. /\ Len(m) = 1 - 1 + Len(m)
        /\ \A q \in 1 .. 1 - 1 : m[q] = str[q]
        /\ \A q \in 1 .. Len(m) : m[1 - 1 + q] = m[q]
    BY <2>3
  <2>5. Spelled
    BY <1>1, <2>4 DEF Spelled, m
  <2> QED  BY <1>1, <2>1, <2>5 DEF Decoding
<1> QED  BY <1>1, <1>3, <1>4 DEF PathInv

\* Every step keeps it.
LEMMA PathInvNext == PathInv /\ [PathNext]_pathvars => PathInv'
<1> SUFFICES ASSUME PathInv, [PathNext]_pathvars PROVE PathInv'
  OBVIOUS
<1>1. Arrays
  BY DEF PathInv
<1>2. CASE Decode
  <2>1. rewriting = "decode"
    BY <1>2 DEF Decode, DecodeEscape, DecodePlus, DecodePlain
  <2>2. Decoding
    BY <2>1 DEF PathInv
  <2>3. /\ Arrays'
        /\ \/ Decoding' /\ rewriting' = "decode"
           \/ Decoded' /\ rewriting' = "start"
    BY <1>1, <1>2, <2>1, <2>2, DecodeKeeps
  <2> QED  BY <2>3 DEF PathInv
<1>3. CASE ScrubStart
  <2>1. Decoded
    BY <1>3 DEF ScrubStart, PathInv
  <2>2. /\ Arrays'
        /\ \/ rewriting' = "scrub" /\ Scrubbing'
           \/ rewriting' = "done" /\ StaysBelowRoot'
    BY <1>1, <1>3, <2>1, ScrubStartKeeps
  <2> QED  BY <2>2 DEF PathInv
<1>4. CASE ScrubAscend \/ ScrubEmpty \/ ScrubCopy
  <2>1. rewriting = "scrub" /\ rewriting' = "scrub"
    BY <1>4 DEF ScrubAscend, ScrubEmpty, ScrubCopy
  <2>2. Scrubbing
    BY <2>1 DEF PathInv
  <2>3. Arrays' /\ Scrubbing'
    BY <1>1, <1>4, <2>2, ScrubAscendKeeps, ScrubEmptyKeeps, ScrubCopyKeeps
  <2> QED  BY <2>1, <2>3 DEF PathInv
<1>5. CASE ScrubEnd
  <2>1. Scrubbing
    BY <1>5 DEF ScrubEnd, PathInv
  <2>2. Arrays' /\ rewriting' = "done" /\ StaysBelowRoot'
    BY <1>1, <1>5, <2>1, ScrubEndKeeps
  <2> QED  BY <2>2 DEF PathInv
<1>6. CASE PathDone \/ UNCHANGED pathvars
  <2>1. UNCHANGED pathvars
    BY <1>6 DEF PathDone
  <2> QED  BY <2>1 DEF pathvars, PathInv, Arrays, Decoding, Spelled, Decoded, Scrubbing, Unread,
                       Written, At, End, StaysBelowRoot, ScrubFollows, NeverAscends
<1> QED  BY <1>2, <1>3, <1>4, <1>5, <1>6 DEF PathNext, Scrub

\* The invariant: what is written of a path is what the part read of it means and
\* where it leads, and what is still to be read is as it was.
THEOREM PathInvHolds == PathSpec => []PathInv
  BY PathInvInit, PathInvNext, PTL DEF PathSpec

\* What mhttp_urldecode leaves means what the path did, escape by escape, and
\* neither it nor mhttp_scrubpath writes over what it has yet to read: for every path.
THEOREM PathDecodesInPlace == PathSpec => []DecodesInPlace
<1>1. PathInv => DecodesInPlace
  <2> SUFFICES ASSUME PathInv PROVE DecodesInPlace
    OBVIOUS
  <2>1. rewriting = "decode" => dest <= src /\ src <= Len(str)
    <3> SUFFICES ASSUME rewriting = "decode" PROVE dest <= src /\ src <= Len(str)
      OBVIOUS
    <3>1. src \in 1 .. Len(str) /\ dest \in 1 .. src
      BY DEF PathInv, Decoding
    <3> QED  BY <3>1
  <2>2. rewriting = "scrub" => dest <= src /\ src <= End
    <3> SUFFICES ASSUME rewriting = "scrub" PROVE dest <= src /\ src <= End
      OBVIOUS
    <3>1. src \in 1 .. End /\ dest \in 1 .. src
      BY DEF PathInv, Scrubbing, Unread
    <3> QED  BY <3>1
  <2>3. DecodesMeaning
    BY DEF PathInv, Decoded, DecodesMeaning
  <2> QED  BY <2>1, <2>2, <2>3 DEF DecodesInPlace, InPlace
<1> QED  BY <1>1, PathInvHolds, PTL

\* What mhttp_scrubpath leaves is where following the path's components leads, and it
\* names something below the root: for every path.
THEOREM PathStaysBelowRoot == PathSpec => []StaysBelowRoot
<1>1. PathInv => StaysBelowRoot
  <2> SUFFICES ASSUME PathInv PROVE StaysBelowRoot
    OBVIOUS
  <2>1. CASE rewriting = "done"
    BY <2>1 DEF PathInv
  <2>2. CASE rewriting # "done"
    BY <2>2 DEF StaysBelowRoot, ScrubFollows, NeverAscends
  <2> QED  BY <2>1, <2>2
<1> QED  BY <1>1, PathInvHolds, PTL
=============================================================================
