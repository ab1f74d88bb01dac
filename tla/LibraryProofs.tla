--------------------------- MODULE LibraryProofs ---------------------------
(***************************************************************************)
(* Proofs about the data structures and the parsers.                       *)
(* MigBuf: whatever the size of a buffer, the sizes of files and the       *)
(* calls, the positions stay in the buffer and it is a queue.              *)
(* RadixTree: whatever the keys and the order in which they are inserted,  *)
(* the nodes form a tree and it is a map.                                  *)
(* DynArray: whatever the sizes, the bounds and the calls, its items are   *)
(* in its block, what is refused costs none of them, and it is a stack.    *)
(* StatMatch, SockAddr, ParseNum: whatever the strings and what is in      *)
(* memory behind them, words, addresses and numbers are read as they are   *)
(* written.                                                                *)
(***************************************************************************)
EXTENDS Parsers, MigBuf, RadixTree, DynArray, SequenceTheorems, FiniteSetTheorems, Induction, TLAPS

-----------------------------------------------------------------------------
(* The invariant. *)

BufTypes ==
  /\ alloced \in BOOLEAN
  /\ len \in Nat /\ end \in Nat /\ off \in Nat /\ count \in Nat /\ fds \in Nat
  /\ bytes \in [1 .. len -> Nat]

\* The positions are in order; there is no more in the buffer than was put in.
BInv ==
  /\ BufTypes
  /\ off <= end /\ end <= len /\ len < SizeMod
  /\ end <= count /\ count <= MaxBytes
  /\ ~alloced => len = 0

-----------------------------------------------------------------------------
(* Differences of positions, and what is between two of them. *)

\* A difference of positions in order is what it is in Nat.
LEMMA WrapSmall ==
  ASSUME NEW n \in Nat, n < SizeMod
  PROVE  Wrap(n) = n
BY MigBufAssumption DEF Wrap

\* What there is room for and what there is to read, as numbers.
LEMMA Differences ==
  ASSUME BInv
  PROVE  /\ Room = len - end /\ Room \in Nat
         /\ Level = end - off /\ Level \in Nat
<1>1. len - end \in Nat /\ len - end < SizeMod /\ end - off \in Nat /\ end - off < SizeMod
  BY MigBufAssumption DEF BInv, BufTypes
<1> QED
  BY <1>1, WrapSmall DEF Room, Level

\* What a buffer holds between two positions.
LEMMA Between ==
  ASSUME NEW l \in Nat, NEW b \in [1 .. l -> Nat],
         NEW o \in Nat, NEW e \in Nat, o <= e, e <= l
  PROVE  /\ SubSeq(b, o + 1, e) \in Seq(Nat)
         /\ Len(SubSeq(b, o + 1, e)) = e - o
         /\ \A i \in 1 .. e - o : SubSeq(b, o + 1, e)[i] = b[o + i]
<1>1. PICK m \in Nat : m = o + 1
  OBVIOUS
<1>2. \A i \in m .. e : b[i] \in Nat
  BY <1>1
<1>3. /\ SubSeq(b, m, e) \in Seq(Nat)
      /\ Len(SubSeq(b, m, e)) = IF m <= e THEN e - m + 1 ELSE 0
      /\ \A i \in 1 .. e - m + 1 : SubSeq(b, m, e)[i] = b[m + i - 1]
  BY <1>2, SubSeqProperties
<1>4. e - m + 1 = e - o /\ (~(m <= e) => e - o = 0)
  BY <1>1
<1>5. \A i \in 1 .. e - o : m + i - 1 = o + i
  BY <1>1
<1>6. Len(SubSeq(b, m, e)) = e - o
  BY <1>3, <1>4
<1>7. \A i \in 1 .. e - o : SubSeq(b, m, e)[i] = b[o + i]
  BY <1>3, <1>4, <1>5
<1> QED
  BY <1>1, <1>3, <1>6, <1>7

\* The same bytes at other positions are the same.
LEMMA Moved ==
  ASSUME NEW l \in Nat, NEW b \in [1 .. l -> Nat], NEW c \in [1 .. l -> Nat],
         NEW o \in Nat, NEW e \in Nat, o <= e, e <= l,
         NEW p \in Nat, p + (e - o) <= l,
         \A i \in 1 .. e - o : c[p + i] = b[o + i]
  PROVE  SubSeq(c, p + 1, p + (e - o)) = SubSeq(b, o + 1, e)
<1>1. PICK q \in Nat : q = p + (e - o) /\ q - p = e - o /\ p <= q /\ q <= l
  OBVIOUS
<1>2. /\ SubSeq(c, p + 1, q) \in Seq(Nat) /\ Len(SubSeq(c, p + 1, q)) = q - p
      /\ \A i \in 1 .. q - p : SubSeq(c, p + 1, q)[i] = c[p + i]
  BY <1>1, Between
<1>3. /\ SubSeq(b, o + 1, e) \in Seq(Nat) /\ Len(SubSeq(b, o + 1, e)) = e - o
      /\ \A i \in 1 .. e - o : SubSeq(b, o + 1, e)[i] = b[o + i]
  BY Between
<1>4. PICK s \in Seq(Nat) : s = SubSeq(c, p + 1, q)
  BY <1>2
<1>5. PICK t \in Seq(Nat) : t = SubSeq(b, o + 1, e)
  BY <1>3
<1>6. Len(s) = e - o /\ Len(t) = e - o /\ \A i \in 1 .. e - o : s[i] = t[i]
  BY <1>1, <1>2, <1>3, <1>4, <1>5
<1>7. s = t
  BY <1>6, SeqEqual
<1> QED
  BY <1>1, <1>4, <1>5, <1>7

\* A sequence that begins with one and goes on with another is the two of them.
LEMMA Extended ==
  ASSUME NEW s \in Seq(Nat), NEW new \in Seq(Nat), NEW t \in Seq(Nat),
         Len(t) = Len(s) + Len(new),
         \A i \in 1 .. Len(s) : t[i] = s[i],
         \A i \in 1 .. Len(new) : t[Len(s) + i] = new[i]
  PROVE  t = s \o new
<1>1. /\ s \o new \in Seq(Nat) /\ Len(s \o new) = Len(s) + Len(new)
      /\ \A i \in 1 .. Len(s) + Len(new) : (s \o new)[i] =
           IF i <= Len(s) THEN s[i] ELSE new[i - Len(s)]
  BY ConcatProperties
<1>2. Len(s) \in Nat /\ Len(new) \in Nat
  BY LenProperties
<1>3. PICK u \in Seq(Nat) : u = s \o new
  BY <1>1
<1>4. ASSUME NEW i \in 1 .. Len(t)
      PROVE  t[i] = u[i]
  <2>1. CASE i <= Len(s)
    <3>1. i \in 1 .. Len(s)
      BY <1>2, <2>1
    <3> QED
      BY <1>1, <1>2, <1>3, <2>1, <3>1
  <2>2. CASE ~(i <= Len(s))
    <3>0. i \in Int /\ i - Len(s) \in 1 .. Len(new) /\ i = Len(s) + (i - Len(s))
      BY <1>2, <2>2
    <3>1. PICK j \in 1 .. Len(new) : j = i - Len(s) /\ i = Len(s) + j
      BY <3>0
    <3> QED
      BY <1>1, <1>2, <1>3, <2>2, <3>1
  <2> QED
    BY <2>1, <2>2
<1> QED
  BY <1>1, <1>3, <1>4, SeqEqual

-----------------------------------------------------------------------------
(* The steps: each preserves the invariant, and is one of the queue or none. *)

Held == SubSeq(bytes, off + 1, end)

QueueStep == [Queue!Put \/ Queue!Take \/ Queue!Drop]_<<Held, count>>

\* A buffer is empty at first, and so is the queue.
LEMMA BufStarts ==
  ASSUME BufInit
  PROVE  BInv /\ Queue!Init
<1> USE DEF BufInit
<1>1. ASSUME alloced = TRUE, len = BufLen, bytes = [m \in 1 .. BufLen |-> 0]
      PROVE  BInv
  <2>1. bytes \in [1 .. len -> Nat]
    BY <1>1
  <2>2. BufLen \in Nat /\ MaxBytes \in Nat /\ BufLen < SizeMod
    BY MigBufAssumption
  <2>3. BufTypes
    BY <1>1, <2>1, <2>2 DEF BufTypes
  <2> QED
    BY <1>1, <2>2, <2>3 DEF BInv
<1>2. ASSUME alloced = FALSE, len = 0, bytes = <<>>
      PROVE  BInv
  <2>1. bytes \in [1 .. len -> Nat]
    BY <1>2
  <2>2. MaxBytes \in Nat /\ 0 < SizeMod
    BY MigBufAssumption
  <2>3. BufTypes
    BY <1>2, <2>1 DEF BufTypes
  <2> QED
    BY <1>2, <2>2, <2>3 DEF BInv
<1>3. Queue!Init
  <2>1. SubSeq(bytes, off + 1, end) = <<>>
    <3>1. off + 1 \in Int /\ end \in Int /\ end < off + 1
      OBVIOUS
    <3> QED
      BY <3>1, SubSeqEmpty
  <2> QED
    BY <2>1 DEF Queue!Init
<1> QED
  BY <1>1, <1>2, <1>3

\* Some bytes are put in behind the end of a buffer that has the room for them.
LEMMA PutIn ==
  ASSUME BInv, NEW n \in Nat, n <= Room, n <= MaxBytes - count,
         bytes' = Filled(end, n), end' = end + n, count' = count + n,
         UNCHANGED <<alloced, len, off, fds>>
  PROVE  BInv' /\ QueueStep
<1>1. /\ len \in Nat /\ end \in Nat /\ off \in Nat /\ count \in Nat
      /\ bytes \in [1 .. len -> Nat] /\ off <= end /\ end <= len /\ MaxBytes \in Nat
  BY MigBufAssumption DEF BInv, BufTypes
<1>2. end + n <= len
  BY <1>1, Differences
<1>3. bytes' = [m \in 1 .. len |-> IF m \in end + 1 .. end + n THEN count + m - end ELSE bytes[m]]
  BY <1>1 DEF Filled
<1>4. bytes' \in [1 .. len -> Nat]
  <2>1. ASSUME NEW m \in 1 .. len, m \in end + 1 .. end + n
        PROVE  count + m - end \in Nat
    BY <1>1, <2>1
  <2> QED
    BY <1>1, <1>3, <2>1
<1>5. BInv'
  <2>1. BufTypes'
    BY <1>1, <1>4 DEF BInv, BufTypes
  <2> QED
    BY <1>1, <1>2, <2>1 DEF BInv
<1>6. PICK new : new = [m \in 1 .. n |-> count + m]
  OBVIOUS
<1>7. new \in Seq(Nat) /\ Len(new) = n /\ \A i \in 1 .. n : new[i] = count + i
  <2>1. new \in [1 .. n -> Nat] /\ \A i \in 1 .. n : new[i] = count + i
    BY <1>1, <1>6
  <2> QED
    BY <2>1
<1>8. PICK s \in Seq(Nat) : /\ s = Held /\ Len(s) = end - off
                             /\ \A i \in 1 .. end - off : s[i] = bytes[off + i]
  <2>1. /\ SubSeq(bytes, off + 1, end) \in Seq(Nat)
        /\ Len(SubSeq(bytes, off + 1, end)) = end - off
        /\ \A i \in 1 .. end - off : SubSeq(bytes, off + 1, end)[i] = bytes[off + i]
    BY <1>1, Between
  <2> QED
    BY <2>1 DEF Held
<1>9. PICK t \in Seq(Nat) : /\ t = Held' /\ Len(t) = end + n - off
                             /\ \A i \in 1 .. end + n - off : t[i] = bytes'[off + i]
  <2>1. PICK c \in [1 .. len -> Nat] : c = bytes'
    BY <1>4
  <2>2. PICK e \in Nat : e = end + n /\ off <= e /\ e <= len
    BY <1>1, <1>2
  <2>3. PICK u \in Seq(Nat) : u = SubSeq(c, off + 1, e)
    BY <1>1, <2>1, <2>2, Between
  <2>4. Len(u) = e - off /\ \A i \in 1 .. e - off : u[i] = c[off + i]
    BY <1>1, <2>1, <2>2, <2>3, Between
  <2>5. u = Held'
    BY <1>1, <2>1, <2>2, <2>3 DEF Held
  <2>6. e - off = end + n - off
    BY <1>1, <2>2
  <2>7. Len(u) = end + n - off /\ \A i \in 1 .. end + n - off : u[i] = bytes'[off + i]
    BY <2>1, <2>4, <2>6
  <2> QED
    BY <2>5, <2>7
<1>10. t = s \o new
  <2>1. Len(t) = Len(s) + Len(new)
    BY <1>1, <1>7, <1>8, <1>9
  <2>2. ASSUME NEW i \in 1 .. Len(s)
        PROVE  t[i] = s[i]
    <3>1. /\ i \in 1 .. end - off /\ i \in 1 .. end + n - off
          /\ off + i \in 1 .. len /\ ~(off + i \in end + 1 .. end + n)
      BY <1>1, <1>8, <2>2
    <3>2. bytes'[off + i] = bytes[off + i]
      BY <1>3, <3>1
    <3> QED
      BY <1>8, <1>9, <3>1, <3>2
  <2>3. ASSUME NEW i \in 1 .. Len(new)
        PROVE  t[Len(s) + i] = new[i]
    <3>1. PICK m \in 1 .. len : m = end + i
      BY <1>1, <1>2, <1>7, <2>3
    <3>2. /\ i \in 1 .. n /\ Len(s) + i \in 1 .. end + n - off
          /\ off + (Len(s) + i) = m /\ m \in end + 1 .. end + n /\ count + m - end = count + i
      BY <1>1, <1>7, <1>8, <2>3, <3>1
    <3>3. bytes'[m] = count + i
      BY <1>3, <3>1, <3>2
    <3> QED
      BY <1>7, <1>9, <3>2, <3>3
  <2> QED
    BY <1>7, <1>8, <1>9, <2>1, <2>2, <2>3, Extended
<1>11. CASE n = 0
  <2>1. count' = count /\ end' = end
    BY <1>1, <1>11
  <2>2. bytes' = bytes
    <3>1. \A m \in 1 .. len : m \notin end + 1 .. end + n
      BY <1>1, <1>11
    <3> QED
      BY <1>1, <1>3, <3>1
  <2> QED
    BY <1>5, <2>1, <2>2 DEF QueueStep, Held
<1>12. CASE n # 0
  <2>1. n \in 1 .. MaxBytes /\ end + n - off <= MaxBytes
    BY <1>1, <1>12 DEF BInv
  <2>2. Queue!Put
    BY <1>6, <1>8, <1>9, <1>10, <2>1 DEF Queue!Put, Held
  <2> QED
    BY <1>5, <2>2 DEF QueueStep
<1> QED
  BY <1>11, <1>12

\* A write that is short puts in less.
LEMMA WriteStep ==
  ASSUME BInv, mig_buf_write
  PROVE  BInv' /\ QueueStep
<1>1. PICK n \in 0 .. Least(Room, MaxBytes - count) :
        bytes' = Filled(end, n) /\ end' = end + n /\ count' = count + n
  BY DEF mig_buf_write
<1>2. n \in Nat /\ n <= Room /\ n <= MaxBytes - count
  BY MigBufAssumption, Differences DEF Least, BInv, BufTypes
<1> QED
  BY <1>1, <1>2, PutIn DEF mig_buf_write

\* A file that does not fit is put in as far as it does.
LEMMA LoadIntoStep ==
  ASSUME BInv, LoadInto
  PROVE  BInv' /\ QueueStep
<1>1. PICK fileSize \in Files : \E n \in 0 .. Least(Least(Room, fileSize), MaxBytes - count) :
        bytes' = Filled(end, n) /\ end' = end + n /\ count' = count + n
  BY DEF LoadInto
<1>2. PICK n \in 0 .. Least(Least(Room, fileSize), MaxBytes - count) :
        bytes' = Filled(end, n) /\ end' = end + n /\ count' = count + n
  BY <1>1
<1>3. n \in Nat /\ n <= Room /\ n <= MaxBytes - count
  BY MigBufAssumption, Differences DEF Least, BInv, BufTypes
<1> QED
  BY <1>2, <1>3, PutIn DEF LoadInto

\* What is read was put in before what is left.
LEMMA ReadStep ==
  ASSUME BInv, mig_buf_read
  PROVE  BInv' /\ QueueStep
<1>1. /\ len \in Nat /\ end \in Nat /\ off \in Nat
      /\ bytes \in [1 .. len -> Nat] /\ off <= end /\ end <= len
  BY DEF BInv, BufTypes
<1>2. PICK n \in 0 .. Level : off' = off + n
  BY DEF mig_buf_read
<1>3. n \in Nat /\ off + n \in Nat /\ off + n <= end
  BY <1>1, Differences
<1>4. BInv'
  BY <1>1, <1>2, <1>3 DEF mig_buf_read, BInv, BufTypes
<1>5. PICK held \in Seq(Nat) : /\ held = Held /\ Len(held) = end - off
                               /\ \A i \in 1 .. end - off : held[i] = bytes[off + i]
  <2>1. /\ SubSeq(bytes, off + 1, end) \in Seq(Nat)
        /\ Len(SubSeq(bytes, off + 1, end)) = end - off
        /\ \A i \in 1 .. end - off : SubSeq(bytes, off + 1, end)[i] = bytes[off + i]
    BY <1>1, Between
  <2> QED  BY <2>1 DEF Held
<1>6. PICK o \in Nat : o = off + n
  BY <1>3
<1>7. PICK left \in Seq(Nat) : /\ left = SubSeq(bytes, o + 1, end) /\ Len(left) = end - o
                               /\ \A i \in 1 .. end - o : left[i] = bytes[o + i]
  <2>1. o <= end
    BY <1>3, <1>6
  <2>2. /\ SubSeq(bytes, o + 1, end) \in Seq(Nat)
        /\ Len(SubSeq(bytes, o + 1, end)) = end - o
        /\ \A i \in 1 .. end - o : SubSeq(bytes, o + 1, end)[i] = bytes[o + i]
    BY <1>1, <1>6, <2>1, Between
  <2> QED
    BY <2>2
<1>8. Held' = left
  BY <1>2, <1>6, <1>7 DEF Held, mig_buf_read
<1>9. left = SubSeq(held, n + 1, Len(held))
  <2>1. PICK d \in Nat : d = Len(held) /\ d = end - off /\ n <= d
    BY <1>1, <1>3, <1>5
  <2>2. held \in [1 .. d -> Nat]
    BY <1>5, <2>1, LenProperties
  <2>3. PICK t \in Seq(Nat) : /\ t = SubSeq(held, n + 1, d) /\ Len(t) = d - n
                              /\ \A i \in 1 .. d - n : t[i] = held[n + i]
    <3>1. /\ SubSeq(held, n + 1, d) \in Seq(Nat)
          /\ Len(SubSeq(held, n + 1, d)) = d - n
          /\ \A i \in 1 .. d - n : SubSeq(held, n + 1, d)[i] = held[n + i]
      BY <1>3, <2>1, <2>2, Between, SMTT(30)
    <3> QED
      BY <3>1
  <2>4. Len(left) = Len(t)
    BY <1>1, <1>3, <1>6, <1>7, <2>1, <2>3
  <2>5. ASSUME NEW i \in 1 .. Len(left)
        PROVE  left[i] = t[i]
    <3>1. /\ i \in 1 .. end - o /\ i \in 1 .. d - n
          /\ n + i \in 1 .. end - off /\ off + (n + i) = o + i
      BY <1>1, <1>3, <1>6, <1>7, <2>1, <2>5
    <3> QED
      BY <1>5, <1>7, <2>3, <3>1
  <2> QED
    BY <2>1, <2>3, <2>4, <2>5, SeqEqual
<1>10. CASE n = 0
  <2>1. off' = off
    BY <1>1, <1>2, <1>10
  <2> QED
    BY <1>4, <2>1 DEF QueueStep, Held, mig_buf_read
<1>11. CASE n # 0
  <2>1. n \in 1 .. Len(held)
    BY <1>1, <1>3, <1>5, <1>11
  <2>2. Queue!Take
    <3>1. SubSeq(bytes, off + 1, end) = held /\ SubSeq(bytes', off' + 1, end') = left
      BY <1>5, <1>8 DEF Held
    <3> QED
      BY <1>9, <2>1, <3>1 DEF Queue!Take, mig_buf_read
  <2> QED
    BY <1>4, <2>2 DEF QueueStep
<1> QED
  BY <1>10, <1>11

\* A shift moves what the buffer holds to its beginning.
LEMMA ShiftStep ==
  ASSUME BInv, mig_buf_shift
  PROVE  BInv' /\ QueueStep
<1>1. /\ len \in Nat /\ end \in Nat /\ off \in Nat
      /\ bytes \in [1 .. len -> Nat] /\ off <= end /\ end <= len
  BY DEF BInv, BufTypes
<1>2. /\ bytes' = [m \in 1 .. len |-> IF m <= end - off THEN bytes[m + off] ELSE bytes[m]]
      /\ end' = end - off /\ off' = 0
  <2>1. DOMAIN bytes = 1 .. len /\ Level = end - off
    BY <1>1, Differences
  <2> QED
    BY <2>1 DEF mig_buf_shift
<1>3. bytes' \in [1 .. len -> Nat]
  <2>1. ASSUME NEW m \in 1 .. len, m <= end - off
        PROVE  bytes[m + off] \in Nat
    <3>1. m + off \in 1 .. len
      BY <1>1, <2>1
    <3> QED
      BY <1>1, <3>1
  <2> QED
    BY <1>1, <1>2, <2>1
<1>4. BInv'
  <2>1. BufTypes'
    BY <1>1, <1>2, <1>3 DEF mig_buf_shift, BInv, BufTypes
  <2> QED
    BY <1>1, <1>2, <2>1 DEF mig_buf_shift, BInv, BufTypes
<1>5. Held' = Held
  <2>1. PICK c \in [1 .. len -> Nat] : c = bytes'
    BY <1>3
  <2>2. ASSUME NEW i \in 1 .. end - off
        PROVE  c[0 + i] = bytes[off + i]
    <3>1. 0 + i = i /\ i \in 1 .. len /\ i <= end - off /\ i + off = off + i
      BY <1>1, <2>2
    <3> QED
      BY <1>2, <2>1, <3>1
  <2>3. 0 + (end - off) <= len
    BY <1>1
  <2>4. SubSeq(c, 0 + 1, 0 + (end - off)) = SubSeq(bytes, off + 1, end)
    BY <1>1, <2>2, <2>3, Moved
  <2>5. 0 + (end - off) = end - off
    BY <1>1
  <2> QED
    BY <1>2, <2>1, <2>4, <2>5 DEF Held
<1> QED
  BY <1>4, <1>5 DEF QueueStep, mig_buf_shift

\* An emptied buffer holds nothing.
LEMMA EmptyStep ==
  ASSUME BInv, mig_buf_empty
  PROVE  BInv' /\ QueueStep
<1>1. BInv'
  BY DEF mig_buf_empty, BInv, BufTypes
<1>2. Held' = <<>>
  <2>1. SubSeq(bytes, 0 + 1, 0) = <<>>
    BY SubSeqEmpty
  <2> QED
    BY <2>1 DEF Held, mig_buf_empty
<1>3. Queue!Drop
  BY <1>2 DEF Queue!Drop, Held, mig_buf_empty
<1> QED
  BY <1>1, <1>3 DEF QueueStep

\* A buffer that is allocated for a file holds what was read of the file.
LEMMA LoadAllocatesStep ==
  ASSUME BInv, LoadAllocates
  PROVE  BInv' /\ QueueStep
<1>1. /\ ~alloced /\ len = 0 /\ end = 0 /\ off = 0 /\ fds' = fds
      /\ bytes \in [1 .. len -> Nat] /\ count \in Nat /\ count <= MaxBytes /\ MaxBytes \in Nat
  BY MigBufAssumption DEF LoadAllocates, BInv, BufTypes
<1>2. PICK fileSize \in Files : \E n \in 0 .. Least(fileSize, MaxBytes - count) :
        /\ alloced' = TRUE /\ len' = fileSize
        /\ bytes' = [m \in 1 .. fileSize |-> IF m <= n THEN count + m ELSE 0]
        /\ end' = n /\ off' = 0 /\ count' = count + n
  BY DEF LoadAllocates
<1>3. PICK n \in 0 .. Least(fileSize, MaxBytes - count) :
        /\ alloced' = TRUE /\ len' = fileSize
        /\ bytes' = [m \in 1 .. fileSize |-> IF m <= n THEN count + m ELSE 0]
        /\ end' = n /\ off' = 0 /\ count' = count + n
  BY <1>2
<1>4. fileSize \in Nat /\ fileSize < SizeMod /\ n \in Nat /\ n <= fileSize /\ n <= MaxBytes - count
  BY MigBufAssumption, <1>1 DEF Least
<1>5. bytes' \in [1 .. fileSize -> Nat]
  BY <1>1, <1>3, <1>4
<1>6. BInv'
  <2>1. BufTypes'
    BY <1>1, <1>3, <1>4, <1>5 DEF BInv, BufTypes
  <2> QED
    BY <1>1, <1>3, <1>4, <2>1 DEF BInv
<1>7. Held = <<>>
  <2>1. off + 1 \in Int /\ end \in Int /\ end < off + 1
    BY <1>1
  <2> QED
    BY <2>1, SubSeqEmpty DEF Held
<1>8. PICK new : new = [m \in 1 .. n |-> count + m]
  OBVIOUS
<1>9. new \in Seq(Nat) /\ Len(new) = n /\ \A i \in 1 .. n : new[i] = count + i
  <2>1. new \in [1 .. n -> Nat] /\ \A i \in 1 .. n : new[i] = count + i
    BY <1>1, <1>4, <1>8
  <2> QED
    BY <1>4, <2>1
<1>10. Held' = new
  <2>1. PICK c \in [1 .. fileSize -> Nat] : c = bytes'
    BY <1>5
  <2>2. PICK o \in Nat : o = 0
    OBVIOUS
  <2>3. o <= n /\ n <= fileSize /\ n - o = n
    BY <1>4, <2>2
  <2>4. PICK u \in Seq(Nat) : u = SubSeq(c, o + 1, n)
    BY <1>4, <2>1, <2>3, Between
  <2>5. Len(u) = n - o /\ \A i \in 1 .. n - o : u[i] = c[o + i]
    BY <1>4, <2>1, <2>3, <2>4, Between
  <2>6. ASSUME NEW i \in 1 .. n
        PROVE  u[i] = new[i]
    <3>1. o + i = i /\ i \in 1 .. fileSize /\ i <= n
      BY <1>4, <2>2, <2>6
    <3> QED
      BY <1>3, <1>9, <2>1, <2>3, <2>5, <3>1
  <2>7. u = new
    BY <1>9, <2>3, <2>5, <2>6, SeqEqual
  <2> QED
    BY <1>3, <2>1, <2>2, <2>4, <2>7 DEF Held
<1>11. Held \o new = new
  BY <1>7, <1>9, ConcatEmptySeq
<1>12. CASE n = 0
  <2>1. count' = count
    BY <1>1, <1>3, <1>12
  <2>2. Held' = <<>>
    <3>1. SubSeq(bytes', off' + 1, end') = <<>>
      <4>1. PICK b : b = bytes'
        OBVIOUS
      <4>2. SubSeq(b, 0 + 1, 0) = <<>>
        BY SubSeqEmpty
      <4> QED
        BY <1>3, <1>12, <4>1, <4>2
    <3> QED
      BY <3>1 DEF Held
  <2> QED
    BY <1>6, <1>7, <2>1, <2>2 DEF QueueStep
<1>13. CASE n # 0
  <2>1. n \in 1 .. MaxBytes /\ n <= MaxBytes
    BY <1>1, <1>4, <1>13
  <2>2. Queue!Put
    BY <1>1, <1>3, <1>4, <1>8, <1>9, <1>10, <1>11, <2>1 DEF Queue!Put, Held
  <2> QED
    BY <1>6, <2>2 DEF QueueStep
<1> QED
  BY <1>12, <1>13

\* Every step preserves the invariant, and is one of the queue or none.
LEMMA BufStep ==
  ASSUME BInv, [BufNext]_bufvars
  PROVE  BInv' /\ QueueStep
<1>1. CASE UNCHANGED bufvars
  BY <1>1 DEF bufvars, buf, BInv, BufTypes, QueueStep, Held
<1>2. CASE LoadNoMemory
  BY <1>2 DEF LoadNoMemory, buf, BInv, BufTypes, QueueStep, Held
<1>3. CASE mig_buf_write \/ mig_buf_read \/ mig_buf_shift \/ mig_buf_empty
  BY <1>3, WriteStep, ReadStep, ShiftStep, EmptyStep
<1>4. CASE LoadInto \/ LoadAllocates
  BY <1>4, LoadIntoStep, LoadAllocatesStep
<1> QED
  BY <1>1, <1>2, <1>3, <1>4 DEF BufNext, Load

-----------------------------------------------------------------------------
(* The theorem. *)

\* struct mig_buf: bytes come out in the order they went in, whatever shifts,
\* short reads and short writes there are between, and the positions stay in
\* order and in the buffer, so that no difference of them wraps.
THEOREM BufIsQueue == BufSpec => IsQueue
<1>1. BufInit => BInv /\ Queue!Init
  BY BufStarts
<1>2. BInv /\ [BufNext]_bufvars => BInv'
  BY BufStep
<1>3. BInv /\ [BufNext]_bufvars =>
        [Queue!Put \/ Queue!Take \/ Queue!Drop]_<<SubSeq(bytes, off + 1, end), count>>
  BY BufStep DEF QueueStep, Held
<1>4. BInv => InOrder
  BY Differences DEF InOrder, mig_buf_isfull, mig_buf_isempty, BInv, BufTypes
<1> QED
  BY <1>1, <1>2, <1>3, <1>4, PTL DEF BufSpec, IsQueue, Queue!Spec

-----------------------------------------------------------------------------
(* Beginnings of sequences.                                                  *)

Top(s, n)   == SubSeq(s, 1, n)
Under(p, q) == Len(p) <= Len(q) /\ \A n \in 1 .. Len(p) : p[n] = q[n]

\* A part of a sequence, by its places.
LEMMA SubSeqIs ==
  ASSUME NEW T, NEW s \in Seq(T), NEW m \in Nat, m >= 1, NEW n \in Nat, n <= Len(s), m - 1 <= n
  PROVE  /\ SubSeq(s, m, n) \in Seq(T)
         /\ Len(SubSeq(s, m, n)) = n - m + 1
         /\ \A i \in 1 .. n - m + 1 : SubSeq(s, m, n)[i] = s[m + i - 1]
<1>1. Len(s) \in Nat
  OBVIOUS
<1>2. \A i \in m .. n : s[i] \in T
  BY <1>1
<1>3. /\ SubSeq(s, m, n) \in Seq(T)
      /\ Len(SubSeq(s, m, n)) = IF m <= n THEN n - m + 1 ELSE 0
      /\ \A i \in 1 .. n - m + 1 : SubSeq(s, m, n)[i] = s[m + i - 1]
  BY <1>2, SubSeqProperties
<1>4. ~(m <= n) => n - m + 1 = 0
  OBVIOUS
<1> QED  BY <1>3, <1>4

\* The first n of a sequence.
LEMMA TopIs ==
  ASSUME NEW T, NEW s \in Seq(T), NEW n \in 0 .. Len(s)
  PROVE  /\ Top(s, n) \in Seq(T) /\ Len(Top(s, n)) = n
         /\ \A i \in 1 .. n : Top(s, n)[i] = s[i]
         /\ Under(Top(s, n), s)
<1>1. Len(s) \in Nat /\ n \in Nat /\ n <= Len(s) /\ 1 - 1 <= n /\ n - 1 + 1 = n
  OBVIOUS
<1>2. \A i \in 1 .. n : 1 + i - 1 = i
  BY <1>1
<1>3. /\ Top(s, n) \in Seq(T) /\ Len(Top(s, n)) = n - 1 + 1
      /\ \A i \in 1 .. n - 1 + 1 : Top(s, n)[i] = s[1 + i - 1]
  BY <1>1, SubSeqIs DEF Top
<1>4. Len(Top(s, n)) = n /\ \A i \in 1 .. n : Top(s, n)[i] = s[i]
  BY <1>1, <1>2, <1>3
<1> QED  BY <1>1, <1>3, <1>4 DEF Under

\* The rest of a sequence.
LEMMA FromIs ==
  ASSUME NEW T, NEW s \in Seq(T), NEW n \in 0 .. Len(s)
  PROVE  /\ From(s, n) \in Seq(T) /\ Len(From(s, n)) = Len(s) - n
         /\ \A i \in 1 .. Len(s) - n : From(s, n)[i] = s[n + i]
<1>1. Len(s) \in Nat /\ n \in Nat
  OBVIOUS
<1>2. PICK m \in Nat : m = n + 1
  BY <1>1
<1>3. PICK l \in Nat : l = Len(s)
  BY <1>1
<1>4. m >= 1 /\ l <= Len(s) /\ m - 1 <= l
  BY <1>1, <1>2, <1>3
<1>5. /\ SubSeq(s, m, l) \in Seq(T) /\ Len(SubSeq(s, m, l)) = l - m + 1
      /\ \A i \in 1 .. l - m + 1 : SubSeq(s, m, l)[i] = s[m + i - 1]
  BY <1>4, SubSeqIs
<1>6. From(s, n) = SubSeq(s, m, l)
  BY <1>2, <1>3 DEF From
<1>7. l - m + 1 = Len(s) - n /\ \A i \in 1 .. Len(s) - n : m + i - 1 = n + i
  BY <1>1, <1>2, <1>3
<1> QED  BY <1>5, <1>6, <1>7

\* Two sequences one behind the other.
LEMMA Joined ==
  ASSUME NEW T, NEW s \in Seq(T), NEW t \in Seq(T)
  PROVE  /\ s \o t \in Seq(T) /\ Len(s \o t) = Len(s) + Len(t)
         /\ Under(s, s \o t)
         /\ \A i \in 1 .. Len(t) : (s \o t)[Len(s) + i] = t[i]
<1>1. Len(s) \in Nat /\ Len(t) \in Nat
  OBVIOUS
<1>2. /\ s \o t \in Seq(T) /\ Len(s \o t) = Len(s) + Len(t)
      /\ \A i \in 1 .. Len(s) + Len(t) : (s \o t)[i] = IF i <= Len(s) THEN s[i] ELSE t[i - Len(s)]
  BY ConcatProperties
<1>3. \A i \in 1 .. Len(s) : i \in 1 .. Len(s) + Len(t) /\ i <= Len(s)
  BY <1>1
<1>4. \A i \in 1 .. Len(t) : /\ Len(s) + i \in 1 .. Len(s) + Len(t) /\ ~(Len(s) + i <= Len(s))
                             /\ Len(s) + i - Len(s) = i
  BY <1>1
<1>5. Len(s) <= Len(s) + Len(t)
  BY <1>1
<1> HIDE DEF Under
<1>6. Under(s, s \o t)
  BY <1>2, <1>3, <1>5, Zenon DEF Under
<1>7. ASSUME NEW i \in 1 .. Len(t) PROVE (s \o t)[Len(s) + i] = t[i]
  <2> DEFINE u == s \o t
  <2>1. \A j \in 1 .. Len(s) + Len(t) : u[j] = IF j <= Len(s) THEN s[j] ELSE t[j - Len(s)]
    BY <1>2
  <2> HIDE DEF u
  <2>2. PICK j : j = Len(s) + i
    OBVIOUS
  <2>3. j \in 1 .. Len(s) + Len(t) /\ ~(j <= Len(s)) /\ j - Len(s) = i
    BY <1>4, <2>2
  <2>4. u[j] = t[i]
    BY <2>1, <2>3
  <2> QED  BY <2>2, <2>4 DEF u
<1> QED  BY <1>2, <1>6, <1>7

\* A beginning is known by its length.
LEMMA UnderEqual ==
  ASSUME NEW T, NEW p \in Seq(T), NEW q \in Seq(T), Under(p, q), Len(p) = Len(q)
  PROVE  p = q
BY SeqEqual DEF Under

LEMMA UnderTop ==
  ASSUME NEW T, NEW s \in Seq(T), NEW p \in Seq(T), Under(p, s)
  PROVE  Len(p) \in 0 .. Len(s) /\ p = Top(s, Len(p))
<1>1. Len(p) \in Nat /\ Len(s) \in Nat /\ Len(p) <= Len(s)
  BY DEF Under
<1>2. Len(p) \in 0 .. Len(s)
  BY <1>1
<1>3. /\ Top(s, Len(p)) \in Seq(T) /\ Len(Top(s, Len(p))) = Len(p)
      /\ \A i \in 1 .. Len(p) : Top(s, Len(p))[i] = s[i]
  BY <1>2, TopIs
<1>4. \A i \in 1 .. Len(p) : p[i] = s[i]
  BY DEF Under
<1>5. Under(p, Top(s, Len(p)))
  BY <1>1, <1>3, <1>4 DEF Under
<1> QED  BY <1>2, <1>3, <1>5, UnderEqual

LEMMA UnderTrans ==
  ASSUME NEW T, NEW p \in Seq(T), NEW q \in Seq(T), NEW r \in Seq(T), Under(p, q), Under(q, r)
  PROVE  Under(p, r)
<1>1. Len(p) \in Nat /\ Len(q) \in Nat /\ Len(r) \in Nat /\ Len(p) <= Len(q) /\ Len(q) <= Len(r)
  BY DEF Under
<1>2. \A i \in 1 .. Len(p) : i \in 1 .. Len(q)
  BY <1>1
<1> QED  BY <1>1, <1>2 DEF Under

\* Of two beginnings of one sequence the shorter is a beginning of the other.
LEMMA UnderSame ==
  ASSUME NEW T, NEW p \in Seq(T), NEW q \in Seq(T), NEW r, Under(p, r), Under(q, r),
         Len(p) <= Len(q)
  PROVE  Under(p, q)
<1>1. Len(p) \in Nat /\ Len(q) \in Nat
  OBVIOUS
<1>2. \A i \in 1 .. Len(p) : i \in 1 .. Len(q)
  BY <1>1
<1> QED  BY <1>1, <1>2 DEF Under

\* What is empty, and what is not.
LEMMA EmptyIs ==
  ASSUME NEW T, NEW p \in Seq(T)
  PROVE  /\ Len(p) \in Nat /\ (p = <<>> <=> Len(p) = 0)
         /\ p # <<>> => /\ Len(p) - 1 \in 0 .. Len(p) /\ Len(p) >= 1
                        /\ Front(p) = Top(p, Len(p) - 1)
<1>1. Len(p) \in Nat /\ (p = <<>> <=> Len(p) = 0)
  BY EmptySeq
<1> QED  BY <1>1 DEF Front, Top

\* A beginning and the rest.
LEMMA TopAndFrom ==
  ASSUME NEW T, NEW s \in Seq(T), NEW n \in 0 .. Len(s)
  PROVE  Top(s, n) \o From(s, n) = s
<1> DEFINE a == Top(s, n)
           b == From(s, n)
<1>1. a \in Seq(T) /\ Len(a) = n /\ \A i \in 1 .. n : a[i] = s[i]
  BY TopIs
<1>2. b \in Seq(T) /\ Len(b) = Len(s) - n /\ \A i \in 1 .. Len(s) - n : b[i] = s[n + i]
  BY FromIs
<1> HIDE DEF a, b
<1>3. /\ a \o b \in Seq(T) /\ Len(a \o b) = Len(a) + Len(b)
      /\ Under(a, a \o b) /\ \A i \in 1 .. Len(b) : (a \o b)[Len(a) + i] = b[i]
  BY <1>1, <1>2, Joined
<1>4. Len(s) \in Nat /\ n \in Nat /\ n <= Len(s)
  OBVIOUS
<1>5. Len(a \o b) = Len(s)
  BY <1>1, <1>2, <1>3, <1>4
<1>6. ASSUME NEW i \in 1 .. Len(s) PROVE (a \o b)[i] = s[i]
  <2>1. CASE i <= n
    <3>1. i \in 1 .. n
      BY <1>4, <2>1
    <3> QED  BY <1>1, <1>3, <3>1 DEF Under
  <2>2. CASE ~(i <= n)
    <3>1. PICK j \in 1 .. Len(s) - n : i = n + j
      <4>1. i - n \in 1 .. Len(s) - n /\ i = n + (i - n)
        BY <1>4, <2>2
      <4> QED  BY <4>1
    <3> QED  BY <1>1, <1>2, <1>3, <3>1
  <2> QED  BY <2>1, <2>2
<1> QED  BY <1>3, <1>5, <1>6, SeqEqual DEF a, b
-----------------------------------------------------------------------------
(* The walk down the tree.                                                   *)

\* The inner loop stops at the first byte that does not match.
LEMMA MatchesIs ==
  ASSUME NEW key \in Seq(Octet), NEW koff \in 0 .. Len(key), NEW segment \in Seq(Octet)
  PROVE  LET m == Matches(key, koff, segment)
         IN  /\ m \in Nat /\ m <= Len(segment) /\ koff + m <= Len(key)
             /\ \A n \in 1 .. m : key[koff + n] = segment[n]
             /\ m < Len(segment) /\ koff + m < Len(key) => key[koff + m + 1] # segment[m + 1]
<1> DEFINE L == Len(segment)
           Match(m) == koff + m <= Len(key) /\ \A n \in 1 .. m : key[koff + n] = segment[n]
           M == {m \in 1 .. L : Match(m)}
           T == {m \in 1 .. L + 1 : m \notin M}
<1>1. L \in Nat /\ Len(key) \in Nat /\ koff \in Nat /\ koff <= Len(key)
  OBVIOUS
<1>2. PICK e \in T : \A m \in T : e <= m
  <2>1. L + 1 \in T
    BY <1>1
  <2>2. T \subseteq Nat
    BY <1>1
  <2> HIDE DEF T
  <2> QED  BY <2>1, <2>2, LeastNat
<1>3. e \in 1 .. L + 1 /\ e \in Nat /\ e - 1 \in Nat /\ e - 1 <= L /\ e \notin M
  BY <1>1, <1>2
<1>4. ASSUME NEW m \in 1 .. e - 1 PROVE m \in M
  <2>1. m \in 1 .. L + 1 /\ ~(e <= m)
    BY <1>1, <1>3
  <2>2. m \notin T
    BY <1>2, <2>1
  <2> HIDE DEF M
  <2> QED  BY <2>1, <2>2
<1>5. Match(e - 1)
  <2>1. CASE e - 1 = 0
    BY <1>1, <2>1
  <2>2. CASE e - 1 # 0
    <3>1. e - 1 \in 1 .. e - 1
      BY <1>3, <2>2
    <3>2. e - 1 \in M
      BY <1>4, <3>1
    <3> QED  BY <3>2
  <2> QED  BY <2>1, <2>2
<1>6. M = 1 .. e - 1
  <2>1. ASSUME NEW m \in M, m >= e PROVE FALSE
    <3>1. m \in 1 .. L /\ Match(m)
      OBVIOUS
    <3>2. e \in 1 .. L /\ e <= m
      BY <1>3, <2>1, <3>1
    <3>3. Match(e)
      <4>1. koff + e <= Len(key)
        BY <1>1, <1>3, <3>1, <3>2
      <4>2. \A n \in 1 .. e : n \in 1 .. m
        BY <1>3, <3>1, <3>2
      <4> QED  BY <3>1, <4>1, <4>2
    <3> QED  BY <1>3, <3>2, <3>3
  <2>2. \A m \in M : m \in Nat /\ m >= 1
    BY <1>1
  <2>3. \A m \in M : m \in 1 .. e - 1
    BY <1>3, <2>1, <2>2
  <2> HIDE DEF M
  <2> QED  BY <1>4, <2>3
<1>7. Matches(key, koff, segment) = e - 1
  <2>1. Matches(key, koff, segment) = Cardinality(M)
    BY DEF Matches
  <2>2. Cardinality(1 .. e - 1) = IF 1 > e - 1 THEN 0 ELSE e - 1 - 1 + 1
    BY <1>3, FS_Interval
  <2> HIDE DEF M
  <2> QED  BY <1>3, <1>6, <2>1, <2>2
<1>8. ASSUME e - 1 < L, koff + (e - 1) < Len(key), key[koff + (e - 1) + 1] = segment[e - 1 + 1] PROVE FALSE
  <2>1. e \in 1 .. L /\ e - 1 + 1 = e /\ koff + (e - 1) + 1 = koff + e
    BY <1>1, <1>3, <1>8
  <2>2. koff + e <= Len(key)
    BY <1>1, <1>3, <1>8
  <2>3. \A n \in 1 .. e : n \in 1 .. e - 1 \/ n = e
    BY <1>3
  <2>4. key[koff + e] = segment[e]
    BY <1>8, <2>1
  <2>5. Match(e)
    BY <1>5, <2>2, <2>3, <2>4
  <2> QED  BY <1>3, <2>1, <2>5
<1>9. PICK m \in Nat : m = e - 1
  BY <1>3
<1>10. /\ m <= L /\ koff + m <= Len(key) /\ \A n \in 1 .. m : key[koff + n] = segment[n]
       /\ m < L /\ koff + m < Len(key) => key[koff + m + 1] # segment[m + 1]
  BY <1>3, <1>5, <1>8, <1>9
<1> QED  BY <1>7, <1>9, <1>10

\* A tree's paths and segments are sequences of bytes.
Shaped(t) == DOMAIN t \subseteq Seq(Octet) /\ \A p \in DOMAIN t : t[p].segment \in Seq(Octet)

\* The key that the node at p stands for, and where the walk goes on from it.
KeyAt(t, p) == p \o t[p].segment
Goes(t, key, p) ==
  /\ p \in DOMAIN t
  /\ Matches(key, Len(p), t[p].segment) = Len(t[p].segment)
  /\ Len(p) + Len(t[p].segment) < Len(key)
Beyond(t, key, p) == Top(key, Len(p) + Len(t[p].segment) + 1)
WalkStep(t, key, f, p) == IF Goes(t, key, p) THEN <<p>> \o f[Beyond(t, key, p)] ELSE <<p>>

\* The beginnings of a key.
LEMMA PrefixesAre ==
  ASSUME NEW key \in Seq(Octet)
  PROVE  /\ \A p \in Prefixes(key) : /\ p \in Seq(Octet) /\ Len(p) \in 0 .. Len(key)
                                     /\ p = Top(key, Len(p)) /\ Under(p, key)
         /\ \A n \in 0 .. Len(key) : Top(key, n) \in Prefixes(key)
         /\ <<>> \in Prefixes(key)
<1>1. \A n \in 0 .. Len(key) : Top(key, n) \in Prefixes(key)
  BY DEF Prefixes, Top
<1>2. ASSUME NEW p \in Prefixes(key)
      PROVE  p \in Seq(Octet) /\ Len(p) \in 0 .. Len(key) /\ p = Top(key, Len(p)) /\ Under(p, key)
  <2>1. PICK n \in 0 .. Len(key) : p = Top(key, n)
    BY DEF Prefixes, Top
  <2>2. Top(key, n) \in Seq(Octet) /\ Len(Top(key, n)) = n /\ Under(Top(key, n), key)
    BY TopIs
  <2> QED  BY <2>1, <2>2
<1>3. <<>> \in Prefixes(key)
  <2>1. 0 \in 0 .. Len(key) /\ Top(key, 0) = <<>>
    BY DEF Top
  <2> QED  BY <1>1, <2>1
<1> QED  BY <1>1, <1>2, <1>3

\* The walk gets further along the key.
LEMMA BeyondIs ==
  ASSUME NEW t, Shaped(t), NEW key \in Seq(Octet), NEW p \in Prefixes(key), Goes(t, key, p)
  PROVE  /\ Beyond(t, key, p) \in Prefixes(key)
         /\ Len(Beyond(t, key, p)) = Len(p) + Len(t[p].segment) + 1
         /\ Len(Beyond(t, key, p)) > Len(p)
<1>1. Len(p) \in Nat /\ Len(key) \in Nat /\ Len(t[p].segment) \in Nat
  BY PrefixesAre DEF Shaped, Goes
<1>2. PICK n \in Nat : n = Len(p) + Len(t[p].segment) + 1
  BY <1>1
<1>3. n \in 0 .. Len(key) /\ n > Len(p)
  BY <1>1, <1>2 DEF Goes
<1>4. Top(key, n) \in Prefixes(key)
  BY <1>3, PrefixesAre
<1>5. Len(Top(key, n)) = n
  BY <1>3, TopIs
<1> QED  BY <1>2, <1>3, <1>4, <1>5 DEF Beyond

\* The walk goes down node by node, as its recursion says.
LEMMA WalkDefined ==
  ASSUME NEW t, Shaped(t), NEW key \in Seq(Octet)
  PROVE  \E w : /\ \A p \in Prefixes(key) : w[p] = WalkStep(t, key, w, p)
                /\ Visits(t, key) = w[<<>>]
<1> DEFINE L == Len(key)
           D == Prefixes(key)
           Solves(f, k) == /\ f = [p \in D |-> f[p]]
                           /\ \A p \in D : Len(p) >= L - k => f[p] = WalkStep(t, key, f, p)
           S == {k \in 0 .. L : \E f : Solves(f, k)}
<1>0. L \in Nat /\ \A p \in D : Len(p) \in Nat /\ Len(p) <= L
  BY PrefixesAre
<1>1. 0 \in S
  <2> DEFINE f == [p \in D |-> <<p>>]
  <2>1. ASSUME NEW p \in D, Len(p) >= L PROVE ~Goes(t, key, p)
    <3>1. p \in DOMAIN t => Len(t[p].segment) \in Nat
      BY DEF Shaped
    <3> QED  BY <1>0, <2>1, <3>1 DEF Goes
  <2>2. \A p \in D : f[p] = <<p>>
    OBVIOUS
  <2>3. f = [p \in D |-> f[p]]
    OBVIOUS
  <2> HIDE DEF f
  <2>4. ASSUME NEW p \in D, Len(p) >= L - 0 PROVE f[p] = WalkStep(t, key, f, p)
    BY <1>0, <2>1, <2>2, <2>4 DEF WalkStep
  <2>5. Solves(f, 0) /\ 0 \in 0 .. L
    BY <1>0, <2>3, <2>4
  <2> HIDE DEF Solves
  <2> QED  BY <2>5
<1>2. ASSUME NEW k \in 0 .. L - 1, k \in S PROVE k + 1 \in S
  <2>1. PICK f : Solves(f, k)
    BY <1>2
  <2> DEFINE h == [p \in D |-> IF Len(p) = L - (k + 1) THEN WalkStep(t, key, f, p) ELSE f[p]]
  <2>2. \A p \in D : h[p] = IF Len(p) = L - (k + 1) THEN WalkStep(t, key, f, p) ELSE f[p]
    OBVIOUS
  <2>3. h = [p \in D |-> h[p]]
    OBVIOUS
  <2> HIDE DEF h
  <2>4. ASSUME NEW p \in D, Len(p) >= L - (k + 1) PROVE h[p] = WalkStep(t, key, h, p)
    <3>1. WalkStep(t, key, f, p) = WalkStep(t, key, h, p)
      <4>1. CASE Goes(t, key, p)
        <5> DEFINE b == Beyond(t, key, p)
        <5>1. b \in D /\ Len(b) > Len(p)
          BY <4>1, BeyondIs
        <5> HIDE DEF b
        <5>2. Len(b) # L - (k + 1)
          BY <1>0, <2>4, <5>1
        <5>3. h[b] = f[b]
          BY <2>2, <5>1, <5>2
        <5> QED  BY <4>1, <5>3, Zenon DEF WalkStep, b
      <4>2. CASE ~Goes(t, key, p)
        BY <4>2, Zenon DEF WalkStep
      <4> QED  BY <4>1, <4>2
    <3>2. CASE Len(p) = L - (k + 1)
      BY <2>2, <3>1, <3>2
    <3>3. CASE Len(p) # L - (k + 1)
      <4>1. Len(p) >= L - k
        BY <1>0, <2>4, <3>3
      <4>2. f[p] = WalkStep(t, key, f, p)
        BY <2>1, <4>1
      <4>3. h[p] = f[p]
        BY <2>2, <3>3
      <4> QED  BY <3>1, <4>2, <4>3
    <3> QED  BY <3>2, <3>3
  <2>5. Solves(h, k + 1) /\ k + 1 \in 0 .. L
    BY <1>0, <2>3, <2>4
  <2> HIDE DEF Solves
  <2> QED  BY <2>5
<1>3. L \in S
  <2>1. \A k \in 0 .. L - 1 : k \in S => k + 1 \in S
    BY <1>2
  <2> HIDE DEF S
  <2>2. \A k \in 0 .. L : k \in S
    BY <1>0, <1>1, <2>1, InductionUpTo
  <2> QED  BY <1>0, <2>2
<1>4. \E f : f = [p \in D |-> WalkStep(t, key, f, p)]
  <2>1. PICK f : Solves(f, L)
    BY <1>3
  <2>2. \A p \in D : Len(p) >= L - L
    BY <1>0
  <2>3. f = [p \in D |-> WalkStep(t, key, f, p)]
    BY <2>1, <2>2
  <2> QED  BY <2>3
<1> DEFINE w == CHOOSE f : f = [p \in D |-> WalkStep(t, key, f, p)]
<1>5. Visits(t, key) = w[<<>>]
  BY DEF Visits, WalkStep, Goes, Beyond, Top
<1>6. w = [p \in D |-> WalkStep(t, key, w, p)]
  BY <1>4
<1> HIDE DEF w
<1>7. \A p \in D : w[p] = WalkStep(t, key, w, p)
  BY <1>6
<1> QED  BY <1>5, <1>7

\* How a walk from p ends: where it cannot go on, one step behind where it could.
Ended(t, key, p, v) ==
  /\ v \in Seq(Prefixes(key)) /\ Len(v) >= 1
  /\ ~Goes(t, key, v[Len(v)])
  /\ Len(v) = 1 => v[1] = p
  /\ Len(v) > 1 => /\ Goes(t, key, v[Len(v) - 1])
                   /\ v[Len(v)] = Beyond(t, key, v[Len(v) - 1])

\* A step more at its beginning does not change how it ends.
LEMMA EndsAlike ==
  ASSUME NEW t, Shaped(t), NEW key \in Seq(Octet), NEW p \in Prefixes(key), Goes(t, key, p),
         NEW u, Ended(t, key, Beyond(t, key, p), u)
  PROVE  Ended(t, key, p, <<p>> \o u)
<1> DEFINE D == Prefixes(key)
           a == <<p>>
           v == a \o u
<1>1. a \in Seq(D) /\ Len(a) = 1 /\ a[1] = p
  OBVIOUS
<1>2. u \in Seq(D) /\ Len(u) \in Nat /\ Len(u) >= 1
  BY DEF Ended
<1> HIDE DEF a
<1>3. v \in Seq(D) /\ Len(v) = Len(a) + Len(u) /\ Under(a, v) /\ \A i \in 1 .. Len(u) : v[Len(a) + i] = u[i]
  <2>1. a \in Seq(D) /\ u \in Seq(D)
    BY <1>1, <1>2
  <2> HIDE DEF D
  <2> QED  BY <2>1, Joined
<1> HIDE DEF v, D
<1>4. PICK n \in Nat : n = Len(u)
  BY <1>2
<1>5. Len(v) = n + 1 /\ n >= 1
  BY <1>1, <1>2, <1>3, <1>4
<1>6. \A i \in 1 .. n : v[1 + i] = u[i]
  BY <1>1, <1>3, <1>4
<1>7. v[1] = p
  BY <1>1, <1>3 DEF Under
<1>8. v[Len(v)] = u[Len(u)]
  <2>1. n \in 1 .. n /\ 1 + n = n + 1
    BY <1>5
  <2> QED  BY <1>4, <1>5, <1>6, <2>1
<1>9. Goes(t, key, v[Len(v) - 1]) /\ v[Len(v)] = Beyond(t, key, v[Len(v) - 1])
  <2>1. Len(v) - 1 = n
    BY <1>5
  <2>2. CASE n = 1
    <3>1. u[Len(u)] = Beyond(t, key, p)
      BY <1>4, <2>2 DEF Ended
    <3> QED  BY <1>7, <1>8, <2>1, <2>2, <3>1
  <2>3. CASE n # 1
    <3>1. n - 1 \in 1 .. n /\ 1 + (n - 1) = n /\ n > 1
      BY <1>5, <2>3
    <3>2. v[n] = u[n - 1]
      BY <1>6, <3>1
    <3>3. Goes(t, key, u[n - 1]) /\ u[Len(u)] = Beyond(t, key, u[n - 1])
      BY <1>4, <3>1 DEF Ended
    <3> QED  BY <1>8, <2>1, <3>2, <3>3
  <2> QED  BY <2>2, <2>3
<1>10. ~Goes(t, key, v[Len(v)])
  BY <1>8 DEF Ended
<1>11. Len(v) >= 1 /\ Len(v) # 1
  BY <1>5
<1> QED  BY <1>3, <1>9, <1>10, <1>11 DEF Ended, v, a, D

LEMMA WalkEnds ==
  ASSUME NEW t, Shaped(t), NEW key \in Seq(Octet)
  PROVE  Ended(t, key, <<>>, Visits(t, key))
<1> DEFINE L == Len(key)
           D == Prefixes(key)
<1>1. PICK w : (\A p \in D : w[p] = WalkStep(t, key, w, p)) /\ Visits(t, key) = w[<<>>]
  BY WalkDefined
<1>2. L \in Nat /\ <<>> \in D /\ \A p \in D : Len(p) \in Nat /\ Len(p) <= L
  BY PrefixesAre
<1> DEFINE S == {k \in 0 .. L : \A p \in D : Len(p) >= L - k => Ended(t, key, p, w[p])}
<1>3. ASSUME NEW p \in D, ~Goes(t, key, p) PROVE Ended(t, key, p, w[p])
  <2>1. w[p] = <<p>>
    BY <1>1, <1>3 DEF WalkStep
  <2>2. Ended(t, key, p, <<p>>)
    BY <1>3 DEF Ended
  <2> QED  BY <2>1, <2>2
<1>4. 0 \in S
  <2>1. ASSUME NEW p \in D, Len(p) >= L - 0 PROVE ~Goes(t, key, p)
    <3>1. p \in DOMAIN t => Len(t[p].segment) \in Nat
      BY DEF Shaped
    <3> QED  BY <1>2, <2>1, <3>1 DEF Goes
  <2> QED  BY <1>2, <1>3, <2>1
<1>5. ASSUME NEW k \in 0 .. L - 1, k \in S PROVE k + 1 \in S
  <2>1. k + 1 \in 0 .. L
    BY <1>2
  <2>2. ASSUME NEW p \in D, Len(p) >= L - (k + 1), Goes(t, key, p) PROVE Ended(t, key, p, w[p])
    <3> DEFINE b == Beyond(t, key, p)
    <3>1. b \in D /\ Len(b) > Len(p)
      BY <2>2, BeyondIs
    <3> HIDE DEF b
    <3>2. Len(b) >= L - k
      BY <1>2, <2>2, <3>1
    <3>3. Ended(t, key, b, w[b])
      BY <1>5, <3>1, <3>2
    <3>4. w[p] = <<p>> \o w[b]
      BY <1>1, <2>2 DEF WalkStep, b
    <3> QED  BY <2>2, <3>3, <3>4, EndsAlike DEF b
  <2> QED  BY <1>3, <2>1, <2>2
<1>6. L \in S
  <2>1. \A k \in 0 .. L - 1 : k \in S => k + 1 \in S
    BY <1>5
  <2> HIDE DEF S
  <2>2. \A k \in 0 .. L : k \in S
    BY <1>2, <1>4, <2>1, InductionUpTo
  <2> QED  BY <1>2, <2>2
<1>7. Len(<<>>) >= L - L
  BY <1>2
<1> QED  BY <1>1, <1>2, <1>6, <1>7

\* The node before the end of the walk, whose key leads there.
Before(t, key, q) ==
  /\ q \in DOMAIN t /\ Under(KeyAt(t, q), key) /\ Len(KeyAt(t, q)) < Len(key)
  /\ KeyAt(t, q) \in Seq(Octet)

\* What mig_radix_node_find returns: the place in the tree where key goes on, or
\* ends, and how much of the segment there it has.
Found(t, key, f) ==
  /\ f.slot \in Seq(Octet) /\ Under(f.slot, key)
  /\ f.soff \in Nat /\ f.koff = Len(f.slot) + f.soff /\ f.koff <= Len(key)
  /\ f.slot \in DOMAIN t =>
       /\ f.soff <= Len(t[f.slot].segment)
       /\ \A n \in 1 .. f.soff : key[Len(f.slot) + n] = t[f.slot].segment[n]
       /\ f.soff < Len(t[f.slot].segment) /\ f.koff < Len(key) =>
            key[f.koff + 1] # t[f.slot].segment[f.soff + 1]
       /\ f.soff = Len(t[f.slot].segment) => f.koff = Len(key)
  /\ f.slot \notin DOMAIN t => f.soff = 0
  /\ \/ f.prev = {} /\ f.slot = <<>>
     \/ \E q \in DOMAIN t :
          /\ f.prev = {q} /\ Before(t, key, q)
          /\ f.slot = Top(key, Len(KeyAt(t, q)) + 1)

LEMMA NodeFound ==
  ASSUME NEW t, Shaped(t), NEW key \in Seq(Octet)
  PROVE  Found(t, key, mig_radix_node_find(t, key))
<1> DEFINE f == mig_radix_node_find(t, key)
           v == Visits(t, key)
           p == v[Len(v)]
           m == Matches(key, Len(p), t[p].segment)
<1>1. Ended(t, key, <<>>, v)
  BY WalkEnds
<1>2. /\ f.slot = p /\ f.soff = (IF p \in DOMAIN t THEN m ELSE 0)
      /\ f.koff = Len(p) + f.soff
      /\ f.prev = IF Len(v) > 1 THEN {v[Len(v) - 1]} ELSE {}
  BY DEF mig_radix_node_find, Last
<1>3. v \in Seq(Prefixes(key)) /\ Len(v) \in Nat /\ Len(v) >= 1 /\ p \in Prefixes(key)
  BY <1>1 DEF Ended
<1>4. ~Goes(t, key, p)
  BY <1>1 DEF Ended
<1> HIDE DEF f, p
<1>5. p \in Seq(Octet) /\ Under(p, key) /\ Len(p) \in Nat /\ Len(key) \in Nat /\ Len(p) <= Len(key)
  BY <1>3, PrefixesAre
<1>6. ASSUME p \in DOMAIN t
      PROVE  /\ f.soff \in Nat /\ f.soff <= Len(t[p].segment) /\ Len(p) + f.soff <= Len(key)
             /\ \A n \in 1 .. f.soff : key[Len(p) + n] = t[p].segment[n]
             /\ f.soff < Len(t[p].segment) /\ Len(p) + f.soff < Len(key) =>
                  key[Len(p) + f.soff + 1] # t[p].segment[f.soff + 1]
             /\ f.soff = Len(t[p].segment) => Len(p) + f.soff = Len(key)
  <2>1. t[p].segment \in Seq(Octet) /\ Len(p) \in 0 .. Len(key) /\ f.soff = m
    BY <1>2, <1>5, <1>6 DEF Shaped
  <2>2. /\ m \in Nat /\ m <= Len(t[p].segment) /\ Len(p) + m <= Len(key)
        /\ \A n \in 1 .. m : key[Len(p) + n] = t[p].segment[n]
        /\ m < Len(t[p].segment) /\ Len(p) + m < Len(key) => key[Len(p) + m + 1] # t[p].segment[m + 1]
    BY <2>1, MatchesIs
  <2>3. m = Len(t[p].segment) => ~(Len(p) + Len(t[p].segment) < Len(key))
    BY <1>4, <1>6 DEF Goes
  <2> HIDE DEF m
  <2>4. m = Len(t[p].segment) => Len(p) + m = Len(key)
    BY <1>5, <2>2, <2>3
  <2> QED  BY <2>1, <2>2, <2>4
<1>7. p \notin DOMAIN t => f.soff = 0
  BY <1>2
<1>8. \/ f.prev = {} /\ p = <<>>
      \/ \E q \in DOMAIN t : f.prev = {q} /\ Before(t, key, q) /\ p = Top(key, Len(KeyAt(t, q)) + 1)
  <2>1. CASE Len(v) = 1
    <3>1. v[1] = <<>>
      BY <1>1, <2>1 DEF Ended
    <3> QED  BY <1>2, <2>1, <3>1 DEF p
  <2>2. CASE Len(v) # 1
    <3> DEFINE q == v[Len(v) - 1]
    <3>1. Len(v) > 1 /\ Len(v) - 1 \in 1 .. Len(v)
      <4>1. \A l \in Nat : l >= 1 /\ l # 1 => l > 1 /\ l - 1 \in 1 .. l
        OBVIOUS
      <4> HIDE DEF v
      <4> QED  BY <1>3, <2>2, <4>1, Zenon
    <3>2. q \in Prefixes(key)
      BY <1>3, <3>1
    <3>3. Goes(t, key, q) /\ p = Beyond(t, key, q)
      BY <1>1, <3>1 DEF Ended, p
    <3>4. f.prev = {q}
      BY <1>2, <3>1
    <3> HIDE DEF q
    <3>5. /\ q \in Seq(Octet) /\ Under(q, key) /\ Len(q) \in 0 .. Len(key)
          /\ t[q].segment \in Seq(Octet)
      BY <3>2, <3>3, PrefixesAre DEF Goes, Shaped
    <3>6. /\ KeyAt(t, q) \in Seq(Octet) /\ Len(KeyAt(t, q)) = Len(q) + Len(t[q].segment)
          /\ Under(q, KeyAt(t, q))
          /\ \A i \in 1 .. Len(t[q].segment) : KeyAt(t, q)[Len(q) + i] = t[q].segment[i]
      BY <3>5, Joined DEF KeyAt
    <3>7. \A n \in 1 .. Len(t[q].segment) : key[Len(q) + n] = t[q].segment[n]
      <4> DEFINE l == Matches(key, Len(q), t[q].segment)
      <4>1. \A n \in 1 .. l : key[Len(q) + n] = t[q].segment[n]
        BY <3>5, MatchesIs
      <4>2. l = Len(t[q].segment)
        BY <3>3 DEF Goes
      <4> QED  BY <4>1, <4>2
    <3>8. Len(KeyAt(t, q)) < Len(key)
      BY <3>3, <3>6 DEF Goes
    <3>9. ASSUME NEW i \in 1 .. Len(KeyAt(t, q)) PROVE KeyAt(t, q)[i] = key[i]
      <4> DEFINE k == KeyAt(t, q)
                 s == t[q].segment
      <4>0. Len(k) = Len(q) + Len(s) /\ Len(q) \in Nat /\ Len(s) \in Nat
        BY <3>5, <3>6
      <4>1. CASE i <= Len(q)
        <5>1. i \in 1 .. Len(q)
          BY <4>0, <4>1
        <5> QED  BY <3>5, <3>6, <5>1 DEF Under
      <4>2. CASE ~(i <= Len(q))
        <5>1. PICK j \in 1 .. Len(s) : i = Len(q) + j
          <6>1. i - Len(q) \in 1 .. Len(s) /\ i = Len(q) + (i - Len(q))
            BY <4>0, <4>2
          <6> QED  BY <6>1
        <5> QED  BY <3>6, <3>7, <5>1
      <4> QED  BY <4>1, <4>2
    <3>10. Len(KeyAt(t, q)) <= Len(key)
      BY <3>8, <3>6, <1>5
    <3>11. Before(t, key, q)
      BY <3>3, <3>6, <3>8, <3>9, <3>10 DEF Before, Under, Goes
    <3>12. p = Top(key, Len(KeyAt(t, q)) + 1) /\ q \in DOMAIN t
      BY <3>3, <3>6 DEF Beyond, Goes
    <3> QED  BY <3>4, <3>11, <3>12
  <2> QED  BY <2>1, <2>2
<1>9. f.soff \in Nat /\ Len(p) + f.soff <= Len(key)
  BY <1>5, <1>6, <1>7
<1>10. PICK k \in Nat : k = f.koff
  BY <1>2, <1>5, <1>9
<1>11. f.koff = Len(p) + f.soff /\ f.slot = p
  BY <1>2
<1>12. Found(t, key, f)
  BY <1>5, <1>6, <1>7, <1>8, <1>9, <1>11 DEF Found
<1> QED  BY <1>12 DEF f

\* A beginning of a sequence, with what it has behind it.
LEMMA Spliced ==
  ASSUME NEW T, NEW key \in Seq(T), NEW p \in Seq(T), NEW s \in Seq(T), Under(p, key),
         Len(p) + Len(s) <= Len(key), \A i \in 1 .. Len(s) : key[Len(p) + i] = s[i]
  PROVE  p \o s = Top(key, Len(p) + Len(s)) /\ Under(p \o s, key)
<1> DEFINE u == p \o s
<1>1. /\ u \in Seq(T) /\ Len(u) = Len(p) + Len(s) /\ Under(p, u)
      /\ \A i \in 1 .. Len(s) : u[Len(p) + i] = s[i]
  BY Joined
<1> HIDE DEF u
<1>2. Len(p) \in Nat /\ Len(s) \in Nat /\ Len(key) \in Nat
  OBVIOUS
<1>3. ASSUME NEW i \in 1 .. Len(u) PROVE u[i] = key[i]
  <2>1. CASE i <= Len(p)
    <3>1. i \in 1 .. Len(p)
      BY <1>1, <1>2, <2>1
    <3> QED  BY <1>1, <3>1 DEF Under
  <2>2. CASE ~(i <= Len(p))
    <3>1. PICK j \in 1 .. Len(s) : i = Len(p) + j
      <4>1. i - Len(p) \in 1 .. Len(s) /\ i = Len(p) + (i - Len(p))
        BY <1>1, <1>2, <2>2
      <4> QED  BY <4>1
    <3> QED  BY <1>1, <3>1
  <2> QED  BY <2>1, <2>2
<1>4. Under(u, key)
  BY <1>1, <1>2, <1>3 DEF Under
<1>5. u = Top(key, Len(u))
  BY <1>1, <1>4, UnderTop
<1> QED  BY <1>1, <1>4, <1>5 DEF u

-----------------------------------------------------------------------------
(* The shape of the tree.                                                    *)

\* There is a root if there is anything; every other node hangs on an edge.
Rooted(t) == DOMAIN t # {} => <<>> \in DOMAIN t
Hangs(t)  == \A p \in DOMAIN t \ {<<>>} : \E q \in DOMAIN t : KeyAt(t, q) = Front(p)

\* No node is within the segment of another, and what lies behind the segment of
\* a node lies behind one of its edges.
Branches(t) ==
  \A p, q \in DOMAIN t : Under(p, q) /\ Len(p) < Len(q) =>
    /\ Under(KeyAt(t, p), q) /\ Len(KeyAt(t, p)) < Len(q)
    /\ Top(q, Len(KeyAt(t, p)) + 1) \in DOMAIN t

Good(t) == Shaped(t) /\ Rooted(t) /\ Hangs(t) /\ Branches(t) /\ IsFiniteSet(DOMAIN t)

\* The key of a node.
LEMMA KeyFacts ==
  ASSUME NEW t, Shaped(t), NEW p \in DOMAIN t
  PROVE  /\ p \in Seq(Octet) /\ t[p].segment \in Seq(Octet) /\ KeyAt(t, p) \in Seq(Octet)
         /\ Len(p) \in Nat /\ Len(t[p].segment) \in Nat /\ Len(KeyAt(t, p)) \in Nat
         /\ Len(KeyAt(t, p)) = Len(p) + Len(t[p].segment) /\ Len(p) <= Len(KeyAt(t, p))
         /\ Under(p, KeyAt(t, p))
         /\ \A i \in 1 .. Len(t[p].segment) : KeyAt(t, p)[Len(p) + i] = t[p].segment[i]
<1>1. p \in Seq(Octet) /\ t[p].segment \in Seq(Octet)
  BY DEF Shaped
<1>2. /\ KeyAt(t, p) \in Seq(Octet) /\ Len(KeyAt(t, p)) = Len(p) + Len(t[p].segment)
      /\ Under(p, KeyAt(t, p))
      /\ \A i \in 1 .. Len(t[p].segment) : KeyAt(t, p)[Len(p) + i] = t[p].segment[i]
  BY <1>1, Joined DEF KeyAt
<1>3. Len(p) \in Nat /\ Len(t[p].segment) \in Nat /\ Len(KeyAt(t, p)) \in Nat
  BY <1>1, <1>2
<1>4. Len(p) <= Len(KeyAt(t, p))
  BY <1>2, <1>3
<1> QED  BY <1>1, <1>2, <1>3, <1>4

\* Two nodes whose paths begin one key.
LEMMA Comparable ==
  ASSUME NEW t, Good(t), NEW p \in DOMAIN t, NEW q \in DOMAIN t, NEW key \in Seq(Octet),
         Under(p, key), Under(q, key)
  PROVE  \/ p = q
         \/ /\ Len(p) < Len(q) /\ Len(KeyAt(t, p)) < Len(q) /\ Under(KeyAt(t, p), key)
            /\ Top(key, Len(KeyAt(t, p)) + 1) \in DOMAIN t
         \/ /\ Len(q) < Len(p) /\ Len(KeyAt(t, q)) < Len(p) /\ Under(KeyAt(t, q), key)
            /\ Top(key, Len(KeyAt(t, q)) + 1) \in DOMAIN t
<1>1. ASSUME NEW a \in DOMAIN t, NEW b \in DOMAIN t, Under(a, key), Under(b, key), Len(a) < Len(b)
      PROVE  /\ Len(KeyAt(t, a)) < Len(b) /\ Under(KeyAt(t, a), key)
             /\ Top(key, Len(KeyAt(t, a)) + 1) \in DOMAIN t
  <2>1. a \in Seq(Octet) /\ b \in Seq(Octet) /\ KeyAt(t, a) \in Seq(Octet)
        /\ Len(a) \in Nat /\ Len(b) \in Nat /\ Len(KeyAt(t, a)) \in Nat
    BY KeyFacts DEF Good
  <2>2. Under(a, b)
    BY <1>1, <2>1, UnderSame
  <2>3. /\ Under(KeyAt(t, a), b) /\ Len(KeyAt(t, a)) < Len(b)
        /\ Top(b, Len(KeyAt(t, a)) + 1) \in DOMAIN t
    BY <1>1, <2>2 DEF Good, Branches
  <2>4. Under(KeyAt(t, a), key)
    BY <1>1, <2>1, <2>3, UnderTrans
  <2> DEFINE n == Len(KeyAt(t, a)) + 1
             c == Top(b, n)
  <2>5. n \in 0 .. Len(b) /\ n \in Nat
    BY <2>1, <2>3
  <2> HIDE DEF n
  <2>6. c \in Seq(Octet) /\ Len(c) = n /\ Under(c, b)
    BY <2>1, <2>5, TopIs
  <2> HIDE DEF c
  <2>7. Under(c, key)
    BY <1>1, <2>1, <2>6, UnderTrans
  <2>8. c = Top(key, n)
    BY <2>6, <2>7, UnderTop
  <2> QED  BY <2>3, <2>4, <2>8 DEF n, c
<1>2. p \in Seq(Octet) /\ q \in Seq(Octet) /\ Len(p) \in Nat /\ Len(q) \in Nat
  BY KeyFacts DEF Good
<1>3. CASE Len(p) = Len(q)
  <2>1. Under(p, q)
    BY <1>2, <1>3, UnderSame
  <2> QED  BY <1>2, <1>3, <2>1, UnderEqual
<1>4. Len(p) = Len(q) \/ Len(p) < Len(q) \/ Len(q) < Len(p)
  BY <1>2
<1> QED  BY <1>1, <1>3, <1>4

\* A key belongs to one node at most.
LEMMA KeysDiffer ==
  ASSUME NEW t, Good(t), NEW p \in DOMAIN t, NEW q \in DOMAIN t, KeyAt(t, p) = KeyAt(t, q)
  PROVE  p = q
<1> DEFINE key == KeyAt(t, p)
<1>1. /\ key \in Seq(Octet) /\ Under(p, key) /\ Under(q, key)
      /\ Len(key) \in Nat /\ Len(p) <= Len(key) /\ Len(q) <= Len(key)
      /\ Len(p) \in Nat /\ Len(q) \in Nat
  BY KeyFacts DEF Good
<1> HIDE DEF key
<1>2. \/ p = q \/ Len(KeyAt(t, p)) < Len(q) \/ Len(KeyAt(t, q)) < Len(p)
  BY <1>1, Comparable
<1>3. KeyAt(t, p) = key /\ KeyAt(t, q) = key
  BY DEF key
<1> QED  BY <1>1, <1>2, <1>3

LEMMA OneMore ==
  \A a, b, c \in Nat : a < b => /\ a + 1 \in 1 .. b /\ c + (a + 1) = c + a + 1
                                /\ c + (a + 1) \in 1 .. c + b
OBVIOUS

\* The walk ends at the node of its key, if there is one.
LEMMA Reached ==
  ASSUME NEW t, Good(t), NEW p \in DOMAIN t
  PROVE  LET f == mig_radix_node_find(t, KeyAt(t, p))
         IN  f.slot = p /\ f.soff = Len(t[p].segment)
<1> DEFINE key == KeyAt(t, p)
           f == mig_radix_node_find(t, key)
           s == f.slot
<1>1. /\ p \in Seq(Octet) /\ key \in Seq(Octet) /\ Under(p, key)
      /\ Len(p) \in Nat /\ Len(key) \in Nat /\ Len(t[p].segment) \in Nat
      /\ Len(key) = Len(p) + Len(t[p].segment)
      /\ \A i \in 1 .. Len(t[p].segment) : key[Len(p) + i] = t[p].segment[i]
  BY KeyFacts DEF Good
<1> HIDE DEF key
<1>0. Found(t, key, f)
  BY <1>1, NodeFound DEF Good
<1> HIDE DEF f
<1>2. /\ s \in Seq(Octet) /\ Under(s, key)
      /\ f.soff \in Nat /\ f.koff = Len(s) + f.soff /\ f.koff <= Len(key)
      /\ s \in DOMAIN t =>
           /\ f.soff <= Len(t[s].segment)
           /\ \A n \in 1 .. f.soff : key[Len(s) + n] = t[s].segment[n]
           /\ f.soff < Len(t[s].segment) /\ f.koff < Len(key) =>
                key[f.koff + 1] # t[s].segment[f.soff + 1]
           /\ f.soff = Len(t[s].segment) => f.koff = Len(key)
      /\ \/ s = <<>>
         \/ \E q \in DOMAIN t : Before(t, key, q) /\ s = Top(key, Len(KeyAt(t, q)) + 1)
  BY <1>0, Zenon DEF Found
<1>3. s \in DOMAIN t
  <2> SUFFICES ASSUME s \notin DOMAIN t PROVE FALSE
    OBVIOUS
  <2>1. s # <<>>
    BY DEF Good, Rooted
  <2>2. PICK q \in DOMAIN t : Before(t, key, q) /\ s = Top(key, Len(KeyAt(t, q)) + 1)
    BY <1>2, <2>1
  <2>3. /\ q \in Seq(Octet) /\ KeyAt(t, q) \in Seq(Octet) /\ Under(q, KeyAt(t, q))
        /\ Len(q) \in Nat /\ Len(KeyAt(t, q)) \in Nat /\ Len(q) <= Len(KeyAt(t, q))
    BY KeyFacts DEF Good
  <2>4. Under(KeyAt(t, q), key) /\ Len(KeyAt(t, q)) < Len(key)
    BY <2>2 DEF Before
  <2>5. Under(q, key)
    BY <1>1, <2>3, <2>4, UnderTrans
  <2>6. \/ p = q \/ Top(key, Len(KeyAt(t, q)) + 1) \in DOMAIN t \/ Len(KeyAt(t, p)) < Len(q)
    BY <1>1, <2>5, Comparable
  <2>7. KeyAt(t, p) = key
    BY DEF key
  <2> QED  BY <1>1, <2>2, <2>3, <2>4, <2>6, <2>7
<1>4. s = p
  <2>1. \/ s = p
        \/ Len(s) < Len(p) /\ Len(KeyAt(t, s)) < Len(p) /\ Under(KeyAt(t, s), key)
        \/ Len(KeyAt(t, p)) < Len(s)
    BY <1>1, <1>2, <1>3, Comparable
  <2>2. Len(s) \in Nat /\ Len(s) <= Len(key)
    BY <1>1, <1>2 DEF Under
  <2>3. ASSUME Len(KeyAt(t, s)) < Len(p), Under(KeyAt(t, s), key) PROVE FALSE
    <3>1. /\ Len(t[s].segment) \in Nat /\ Len(KeyAt(t, s)) = Len(s) + Len(t[s].segment)
          /\ \A i \in 1 .. Len(t[s].segment) : KeyAt(t, s)[Len(s) + i] = t[s].segment[i]
      BY <1>3, KeyFacts DEF Good
    <3> DEFINE g == t[s].segment
    <3>2. f.koff < Len(key)
      BY <1>1, <1>2, <1>3, <2>2, <2>3, <3>1
    <3>3. f.soff < Len(g)
      BY <1>1, <1>2, <1>3, <2>2, <3>1, <3>2
    <3>4. key[f.koff + 1] # g[f.soff + 1]
      BY <1>2, <1>3, <3>2, <3>3
    <3> DEFINE i == f.soff + 1
    <3>5. i \in 1 .. Len(g) /\ Len(s) + i = Len(s) + f.soff + 1 /\ Len(s) + i \in 1 .. Len(s) + Len(g)
      BY <1>2, <2>2, <3>1, <3>3, OneMore
    <3> HIDE DEF g
    <3>6. i \in 1 .. Len(g) /\ Len(s) + i = f.koff + 1 /\ Len(s) + i \in 1 .. Len(KeyAt(t, s))
      BY <1>2, <3>1, <3>5, Zenon DEF g
    <3>7. KeyAt(t, s)[Len(s) + i] = g[i] /\ KeyAt(t, s)[Len(s) + i] = key[Len(s) + i]
      BY <2>3, <3>1, <3>6, Zenon DEF Under, g
    <3> QED  BY <3>4, <3>6, <3>7, Zenon
  <2>4. KeyAt(t, p) = key
    BY DEF key
  <2> QED  BY <1>1, <2>1, <2>2, <2>3, <2>4
<1>5. f.soff = Len(t[p].segment)
  <2> SUFFICES ASSUME f.soff # Len(t[p].segment) PROVE FALSE
    OBVIOUS
  <2>1. f.soff < Len(t[p].segment) /\ f.koff < Len(key) /\ f.koff = Len(p) + f.soff
    BY <1>1, <1>2, <1>3, <1>4
  <2>2. key[f.koff + 1] # t[p].segment[f.soff + 1]
    BY <1>2, <1>3, <1>4, <2>1
  <2> DEFINE i == f.soff + 1
  <2>3. i \in 1 .. Len(t[p].segment) /\ Len(p) + i = Len(p) + f.soff + 1
    BY <1>1, <1>2, <2>1, OneMore
  <2>4. i \in 1 .. Len(t[p].segment) /\ Len(p) + i = f.koff + 1
    BY <2>1, <2>3, Zenon
  <2>5. key[Len(p) + i] = t[p].segment[i]
    BY <1>1, <2>4, Zenon
  <2> QED  BY <2>2, <2>4, <2>5, Zenon
<1> QED  BY <1>4, <1>5 DEF f, key

\* What is found of a key at a node, and the key of a node all of which is found.
LEMMA SlotKey ==
  ASSUME NEW t, Shaped(t), NEW key \in Seq(Octet), mig_radix_node_find(t, key).slot \in DOMAIN t
  PROVE  LET f == mig_radix_node_find(t, key)
         IN  /\ f.slot \o Top(t[f.slot].segment, f.soff) = Top(key, f.koff)
             /\ f.soff = Len(t[f.slot].segment) => KeyAt(t, f.slot) = key
<1> DEFINE f == mig_radix_node_find(t, key)
           p == f.slot
           g == t[p].segment
           s == Top(g, f.soff)
<1>1. /\ p \in Seq(Octet) /\ Under(p, key) /\ p \in DOMAIN t
      /\ f.soff \in Nat /\ f.koff = Len(p) + f.soff /\ f.koff <= Len(key)
      /\ f.soff <= Len(g)
      /\ \A n \in 1 .. f.soff : key[Len(p) + n] = g[n]
      /\ f.soff = Len(g) => f.koff = Len(key)
  <2>1. Found(t, key, f)
    BY NodeFound
  <2> HIDE DEF f
  <2>2. p \in DOMAIN t
    BY DEF f
  <2> QED  BY <2>1, <2>2, Zenon DEF Found
<1>2. g \in Seq(Octet) /\ Len(g) \in Nat
  BY <1>1 DEF Shaped
<1> HIDE DEF f, p
<1>3. f.soff \in 0 .. Len(g)
  BY <1>1, <1>2
<1> HIDE DEF g
<1>4. s \in Seq(Octet) /\ Len(s) = f.soff /\ \A i \in 1 .. f.soff : s[i] = g[i]
  BY <1>2, <1>3, TopIs
<1> HIDE DEF s
<1>5. p \o s = Top(key, Len(p) + Len(s))
  <2>1. Len(p) + Len(s) <= Len(key) /\ \A i \in 1 .. Len(s) : key[Len(p) + i] = s[i]
    BY <1>1, <1>4, Zenon
  <2>2. p \in Seq(Octet) /\ s \in Seq(Octet) /\ Under(p, key)
    BY <1>1, <1>4
  <2> QED  BY <2>1, <2>2, Spliced
<1>6. Top(key, Len(p) + Len(s)) = Top(key, f.koff)
  BY <1>1, <1>4
<1>7. ASSUME f.soff = Len(g) PROVE p \o g = key
  <2>1. s = g
    BY <1>2, <1>4, <1>7, SeqEqual
  <2>2. f.koff = Len(key)
    BY <1>1, <1>7
  <2>3. Under(key, key) /\ key = Top(key, Len(key))
    <3>1. Under(key, key)
      BY DEF Under
    <3> QED  BY <3>1, UnderTop
  <2> QED  BY <1>5, <1>6, <2>1, <2>2, <2>3
<1> QED  BY <1>5, <1>6, <1>7 DEF KeyAt, f, p, g, s

\* A lookup returns the value of the node that has the key, if there is one.
LEMMA LookupIs ==
  ASSUME NEW t, Good(t), NEW key \in Seq(Octet)
  PROVE  \/ \E p \in DOMAIN t : KeyAt(t, p) = key /\ mig_radix_tree_lookup(t, key) = t[p].value
         \/ /\ \A p \in DOMAIN t : KeyAt(t, p) # key
            /\ mig_radix_tree_lookup(t, key) = NoValue
<1> DEFINE f == mig_radix_node_find(t, key)
           here == f.slot \in DOMAIN t /\ f.soff = Len(t[f.slot].segment)
<1>1. mig_radix_tree_lookup(t, key) = IF here THEN t[f.slot].value ELSE NoValue
  BY DEF mig_radix_tree_lookup
<1>2. here => KeyAt(t, f.slot) = key
  BY SlotKey DEF Good
<1>3. ASSUME NEW p \in DOMAIN t, KeyAt(t, p) = key PROVE here
  BY <1>3, Reached
<1> HIDE DEF here
<1>4. here => f.slot \in DOMAIN t
  BY DEF here
<1> QED  BY <1>1, <1>2, <1>3, <1>4
-----------------------------------------------------------------------------
(* What an insertion does to the tree.                                       *)

InParts(p, b, z) == (p \o b) \o z = p \o (b \o z)

LEMMA Associates ==
  ASSUME NEW T, NEW p \in Seq(T), NEW b \in Seq(T), NEW z \in Seq(T)
  PROVE  InParts(p, b, z)
BY ConcatAssociative DEF InParts

\* A key w cut inside the segment g behind p: k ends at the cut, c behind the byte
\* that follows it.
IsCut(T, p, g, n, k, c, w) ==
  /\ k \in Seq(T) /\ c \in Seq(T) /\ w \in Seq(T) /\ c \o From(g, n + 1) = w
  /\ Len(k) = Len(p) + n /\ Len(c) = Len(p) + n + 1 /\ Len(w) = Len(p) + Len(g)
  /\ Under(p, c) /\ Under(k, c) /\ Under(c, w) /\ Front(c) = k

LEMMA Cut ==
  ASSUME NEW T, NEW p \in Seq(T), NEW g \in Seq(T), NEW n \in Nat, n < Len(g)
  PROVE  IsCut(T, p, g, n, p \o Top(g, n), p \o Top(g, n + 1), p \o g)
<1> DEFINE a == Top(g, n)
           b == Top(g, n + 1)
           z == From(g, n + 1)
           k == p \o a
           c == p \o b
           w == p \o g
<1>1. Len(p) \in Nat /\ Len(g) \in Nat /\ n \in 0 .. Len(g) /\ n + 1 \in 0 .. Len(g)
  OBVIOUS
<1>2. a \in Seq(T) /\ Len(a) = n /\ \A i \in 1 .. n : a[i] = g[i]
  BY <1>1, TopIs
<1>3. b \in Seq(T) /\ Len(b) = n + 1 /\ \A i \in 1 .. n + 1 : b[i] = g[i]
  BY <1>1, TopIs
<1>4. z \in Seq(T) /\ b \o z = g
  BY <1>1, FromIs, TopAndFrom
<1> HIDE DEF a, b, z
<1>5. /\ w \in Seq(T) /\ Len(w) = Len(p) + Len(g) /\ Under(p, w)
      /\ \A i \in 1 .. Len(g) : w[Len(p) + i] = g[i]
  BY Joined
<1>6. k \in Seq(T) /\ Len(k) = Len(p) + n
  BY <1>2, Joined
<1>7. c \in Seq(T) /\ Len(c) = Len(p) + (n + 1) /\ Under(p, c)
  <2>1. b \in Seq(T)
    BY <1>3
  <2>2. c \in Seq(T) /\ Len(c) = Len(p) + Len(b) /\ Under(p, c)
    BY <2>1, Joined
  <2> QED  BY <1>3, <2>2
<1> HIDE DEF w
<1>8. Under(k, w)
  <2>1. Len(p) + Len(a) <= Len(w)
    BY <1>1, <1>2, <1>5
  <2>2. \A i \in 1 .. n : i \in 1 .. Len(g)
    BY <1>1
  <2>3. \A i \in 1 .. Len(a) : w[Len(p) + i] = a[i]
    BY <1>2, <1>5, <2>2, Zenon
  <2>4. a \in Seq(T) /\ w \in Seq(T) /\ Under(p, w)
    BY <1>2, <1>5
  <2> QED  BY <2>1, <2>3, <2>4, Spliced
<1>9. Under(c, w)
  <2>1. Len(p) + Len(b) <= Len(w)
    BY <1>1, <1>3, <1>5
  <2>2. \A i \in 1 .. n + 1 : i \in 1 .. Len(g)
    BY <1>1
  <2>3. \A i \in 1 .. Len(b) : w[Len(p) + i] = b[i]
    BY <1>3, <1>5, <2>2, Zenon
  <2>4. b \in Seq(T) /\ w \in Seq(T) /\ Under(p, w)
    BY <1>3, <1>5
  <2> QED  BY <2>1, <2>3, <2>4, Spliced
<1>10. c \o z = w
  <2>1. b \in Seq(T) /\ z \in Seq(T)
    BY <1>3, <1>4
  <2>2. InParts(p, b, z)
    BY <2>1, Associates
  <2> QED  BY <1>4, <2>2, Zenon DEF InParts, w
<1> HIDE DEF k, c
<1>11. Len(k) <= Len(c) /\ Len(c) = Len(p) + n + 1 /\ Len(c) >= 1 /\ Len(c) - 1 = Len(k)
  BY <1>1, <1>6, <1>7
<1>12. Under(k, c)
  BY <1>6, <1>7, <1>8, <1>9, <1>11, UnderSame
<1>13. Front(c) = k
  <2>1. k = Top(c, Len(k))
    BY <1>6, <1>7, <1>12, UnderTop
  <2> QED  BY <1>11, <2>1 DEF Front, Top
<1>14. IsCut(T, p, g, n, k, c, w)
  BY <1>5, <1>6, <1>7, <1>9, <1>10, <1>11, <1>12, <1>13 DEF IsCut, z
<1> QED  BY <1>14 DEF a, b, k, c, w

\* What a split is to the nodes: keys and values stay, and the new node at p has
\* what the segment of the old one begins with.
IsSplit(t, p, n, value, s, c) ==
  /\ DOMAIN s = DOMAIN t \cup {c} /\ c \notin DOMAIN t
  /\ s[p] = Node(Top(t[p].segment, n), value)
  /\ s[c] = Node(From(t[p].segment, n + 1), t[p].value)
  /\ \A q \in DOMAIN t : q # p => s[q] = t[q]
  /\ KeyAt(s, p) = p \o Top(t[p].segment, n)
  /\ KeyAt(s, c) = KeyAt(t, p)
  /\ \A q \in DOMAIN t : q # p => KeyAt(s, q) = KeyAt(t, q)

LEMMA SplitIs ==
  ASSUME NEW t, Good(t), NEW p \in DOMAIN t, NEW n \in Nat, n < Len(t[p].segment), NEW value
  PROVE  IsSplit(t, p, n, value, Split(t, p, n, value), p \o Top(t[p].segment, n + 1))
<1> DEFINE s == Split(t, p, n, value)
           g == t[p].segment
           c == p \o Top(g, n + 1)
<1>1. /\ p \in Seq(Octet) /\ g \in Seq(Octet) /\ Len(p) \in Nat /\ Len(g) \in Nat
      /\ Len(KeyAt(t, p)) = Len(p) + Len(g)
  BY KeyFacts DEF Good
<1>2. /\ c \in Seq(Octet) /\ Len(c) = Len(p) + n + 1 /\ Under(p, c)
      /\ c \o From(g, n + 1) = p \o g
  <2>1. IsCut(Octet, p, g, n, p \o Top(g, n), c, p \o g)
    BY <1>1, Cut
  <2> QED  BY <2>1, Zenon DEF IsCut
<1>3. c \notin DOMAIN t
  <2> SUFFICES ASSUME c \in DOMAIN t PROVE FALSE
    OBVIOUS
  <2> HIDE DEF c, g
  <2>1. Len(p) < Len(c)
    BY <1>1, <1>2
  <2>2. Len(KeyAt(t, p)) < Len(c)
    BY <1>2, <2>1 DEF Good, Branches
  <2>3. n < Len(g)
    BY DEF g
  <2> QED  BY <1>1, <1>2, <2>2, <2>3
<1> HIDE DEF c, g
<1>4. s = [q \in DOMAIN t \cup {c} |->
             CASE q = p  -> Node(Top(g, n), value)
               [] q = c  -> Node(From(g, n + 1), t[p].value)
               [] OTHER  -> t[q]]
  BY DEF Split, Top, c, g
<1>5. DOMAIN s = DOMAIN t \cup {c} /\ p # c
  BY <1>3, <1>4
<1>6. s[p] = Node(Top(g, n), value) /\ s[c] = Node(From(g, n + 1), t[p].value)
  BY <1>4, <1>5
<1>7. \A q \in DOMAIN t : q # p => s[q] = t[q]
  BY <1>3, <1>4
<1> HIDE DEF s
<1>8. /\ KeyAt(s, p) = p \o Top(g, n) /\ KeyAt(s, c) = KeyAt(t, p)
      /\ \A q \in DOMAIN t : q # p => KeyAt(s, q) = KeyAt(t, q)
  <2>1. s[p].segment = Top(g, n) /\ s[c].segment = From(g, n + 1)
    BY <1>6 DEF Node
  <2>2. KeyAt(t, p) = p \o g
    BY DEF KeyAt, g
  <2> QED  BY <1>2, <1>7, <2>1, <2>2, Zenon DEF KeyAt
<1>9. IsSplit(t, p, n, value, s, c)
  BY <1>3, <1>5, <1>6, <1>7, <1>8, Zenon DEF IsSplit, g
<1> QED  BY <1>9 DEF s, c, g

\* A node in an empty slot.
IsWith(t, p, g, value, s) ==
  /\ DOMAIN s = DOMAIN t \cup {p} /\ s[p] = Node(g, value) /\ KeyAt(s, p) = p \o g
  /\ \A q \in DOMAIN t : s[q] = t[q] /\ KeyAt(s, q) = KeyAt(t, q)

LEMMA WithNodeIs ==
  ASSUME NEW t, NEW p, p \notin DOMAIN t, NEW g, NEW value
  PROVE  IsWith(t, p, g, value, WithNode(t, p, g, value))
<1> DEFINE s == WithNode(t, p, g, value)
<1>1. DOMAIN s = DOMAIN t \cup {p} /\ s[p] = Node(g, value) /\ \A q \in DOMAIN t : s[q] = t[q]
  BY DEF WithNode
<1> HIDE DEF s
<1>2. KeyAt(s, p) = p \o g /\ \A q \in DOMAIN t : KeyAt(s, q) = KeyAt(t, q)
  BY <1>1 DEF KeyAt, Node
<1> QED  BY <1>1, <1>2 DEF s, IsWith

\* The way from a node to one that lies behind it.
Leads(t, p, q) ==
  /\ Under(KeyAt(t, p), q) /\ Len(KeyAt(t, p)) < Len(q)
  /\ Top(q, Len(KeyAt(t, p)) + 1) \in DOMAIN t

\* A split leaves a tree.
LEMMA SplitGood ==
  ASSUME NEW t, Good(t), NEW p \in DOMAIN t, NEW n \in Nat, n < Len(t[p].segment), NEW value
  PROVE  Good(Split(t, p, n, value))
<1> DEFINE s == Split(t, p, n, value)
           g == t[p].segment
           k == p \o Top(g, n)
           c == p \o Top(g, n + 1)
           w == KeyAt(t, p)
<1>1. /\ p \in Seq(Octet) /\ g \in Seq(Octet) /\ Len(p) \in Nat /\ Len(g) \in Nat
      /\ w \in Seq(Octet) /\ Len(w) \in Nat
  BY KeyFacts DEF Good
<1>2. /\ DOMAIN s = DOMAIN t \cup {c} /\ c \notin DOMAIN t
      /\ s[p] = Node(Top(g, n), value) /\ s[c] = Node(From(g, n + 1), t[p].value)
      /\ \A q \in DOMAIN t : q # p => s[q] = t[q]
      /\ KeyAt(s, p) = k /\ KeyAt(s, c) = w
      /\ \A q \in DOMAIN t : q # p => KeyAt(s, q) = KeyAt(t, q)
  <2>1. IsSplit(t, p, n, value, s, c)
    BY SplitIs
  <2> HIDE DEF s, c
  <2> QED  BY <2>1, Zenon DEF IsSplit
<1>3. /\ k \in Seq(Octet) /\ c \in Seq(Octet)
      /\ Len(k) = Len(p) + n /\ Len(c) = Len(p) + n + 1 /\ Len(w) = Len(p) + Len(g)
      /\ Under(p, c) /\ Under(k, c) /\ Under(c, w) /\ Front(c) = k
  <2>1. IsCut(Octet, p, g, n, k, c, w)
    BY <1>1, Cut DEF KeyAt
  <2> HIDE DEF k, c, w
  <2> QED  BY <2>1, Zenon DEF IsCut
<1>4. n < Len(g) /\ Top(g, n) \in Seq(Octet) /\ From(g, n + 1) \in Seq(Octet)
  <2>1. n \in 0 .. Len(g) /\ n + 1 \in 0 .. Len(g)
    BY <1>1
  <2> QED  BY <1>1, <2>1, TopIs, FromIs
<1> HIDE DEF s, g, k, c, w
<1>5. /\ Len(p) < Len(c) /\ Len(c) <= Len(w) /\ Len(k) < Len(w) /\ Len(k) < Len(c)
      /\ Len(k) + 1 = Len(c) /\ Len(k) \in Nat /\ Len(c) \in Nat /\ Len(p) <= Len(k)
  BY <1>1, <1>3, <1>4
<1>6. Shaped(s)
  <2>1. s[p].segment = Top(g, n) /\ s[c].segment = From(g, n + 1)
    BY <1>2 DEF Node
  <2>2. \A q \in DOMAIN t : q \in Seq(Octet) /\ t[q].segment \in Seq(Octet)
    BY DEF Good, Shaped
  <2> QED  BY <1>2, <1>3, <1>4, <2>1, <2>2, Zenon DEF Shaped
<1>7. Rooted(s) /\ IsFiniteSet(DOMAIN s)
  BY <1>2, FS_AddElement DEF Good, Rooted
<1>8. Hangs(s)
  <2>1. ASSUME NEW q \in DOMAIN t \ {<<>>} PROVE \E r \in DOMAIN s : KeyAt(s, r) = Front(q)
    <3>1. PICK r \in DOMAIN t : KeyAt(t, r) = Front(q)
      BY DEF Good, Hangs
    <3>2. CASE r = p
      BY <1>2, <3>1, <3>2 DEF w
    <3>3. CASE r # p
      BY <1>2, <3>1, <3>3
    <3> QED  BY <3>2, <3>3
  <2>2. \E r \in DOMAIN s : KeyAt(s, r) = Front(c)
    BY <1>2, <1>3
  <2> QED  BY <1>2, <2>1, <2>2 DEF Hangs
<1>9. ASSUME NEW a \in DOMAIN s, NEW b \in DOMAIN s, Under(a, b), Len(a) < Len(b)
      PROVE  Leads(s, a, b)
  <2>1. /\ a \in Seq(Octet) /\ b \in Seq(Octet) /\ Len(a) \in Nat /\ Len(b) \in Nat
    BY <1>6 DEF Shaped
  <2>2. \A q, r \in DOMAIN t : Under(q, r) /\ Len(q) < Len(r) => Leads(t, q, r)
    BY DEF Good, Branches, Leads
  <2>3. CASE a = p /\ b = c
    <3>1. c = Top(c, Len(k) + 1)
      <4>1. Under(c, c)
        BY <2>1, <2>3 DEF Under
      <4> QED  BY <1>3, <1>5, <4>1, UnderTop
    <3> QED  BY <1>2, <1>3, <1>5, <2>3, <3>1, Zenon DEF Leads
  <2>4. CASE a = p /\ b \in DOMAIN t
    <3>1. Under(w, b) /\ Len(w) < Len(b)
      BY <1>9, <2>2, <2>4 DEF Leads, w
    <3>2. Under(c, b)
      BY <1>1, <1>3, <2>1, <3>1, UnderTrans
    <3>3. Under(k, b)
      BY <1>3, <2>1, <3>2, UnderTrans
    <3>4. c = Top(b, Len(k) + 1)
      BY <1>3, <1>5, <2>1, <3>2, UnderTop
    <3>5. Len(k) < Len(b)
      BY <1>1, <1>5, <2>1, <3>1
    <3> QED  BY <1>2, <2>4, <3>3, <3>4, <3>5, Zenon DEF Leads
  <2>5. CASE a = c /\ b \in DOMAIN t
    <3>1. Under(p, b) /\ Len(p) < Len(b)
      <4>1. Under(p, c) /\ Under(c, b)
        BY <1>3, <1>9, <2>5
      <4> QED  BY <1>1, <1>3, <1>5, <1>9, <2>1, <2>5, <4>1, UnderTrans
    <3>2. Leads(t, p, b)
      BY <2>2, <2>5, <3>1
    <3> QED  BY <1>2, <2>5, <3>2 DEF Leads, w
  <2>6. CASE a \in DOMAIN t /\ a # p /\ b = c
    <3>1. \/ Len(a) < Len(p) /\ Len(KeyAt(t, a)) < Len(p) /\ Under(KeyAt(t, a), c)
             /\ Top(c, Len(KeyAt(t, a)) + 1) \in DOMAIN t
          \/ Len(p) < Len(a) /\ Len(w) < Len(a)
      BY <1>3, <1>9, <2>6, Comparable DEF w
    <3>2. ~(Len(w) < Len(a))
      BY <1>1, <1>5, <1>9, <2>1, <2>6
    <3>3. KeyAt(s, a) = KeyAt(t, a) /\ Len(KeyAt(t, a)) \in Nat
      BY <1>2, <2>6, KeyFacts DEF Good
    <3>4. Len(KeyAt(t, a)) < Len(c)
      BY <1>1, <1>5, <3>1, <3>2, <3>3
    <3> QED  BY <1>2, <2>6, <3>1, <3>2, <3>3, <3>4 DEF Leads
  <2>7. CASE a \in DOMAIN t /\ a # p /\ b \in DOMAIN t
    <3>1. Leads(t, a, b) /\ KeyAt(s, a) = KeyAt(t, a)
      BY <1>2, <1>9, <2>2, <2>7
    <3> QED  BY <1>2, <3>1 DEF Leads
  <2>8. ~(a = c /\ b = c)
    BY <1>5, <1>9
  <2> QED  BY <1>2, <2>3, <2>4, <2>5, <2>6, <2>7, <2>8
<1>10. Branches(s)
  BY <1>9 DEF Branches, Leads
<1> QED  BY <1>6, <1>7, <1>8, <1>10 DEF Good, s

\* A node in the empty slot of a node, or for the root, leaves a tree.
LEMMA WithNodeGood ==
  ASSUME NEW t, Good(t), NEW p \in Seq(Octet), p \notin DOMAIN t, NEW g \in Seq(Octet), NEW value,
         \/ DOMAIN t = {} /\ p = <<>>
         \/ p # <<>> /\ \E q \in DOMAIN t : KeyAt(t, q) = Front(p)
  PROVE  Good(WithNode(t, p, g, value))
<1> DEFINE s == WithNode(t, p, g, value)
<1>1. /\ DOMAIN s = DOMAIN t \cup {p} /\ s[p] = Node(g, value)
      /\ \A q \in DOMAIN t : s[q] = t[q] /\ KeyAt(s, q) = KeyAt(t, q)
  <2>1. IsWith(t, p, g, value, s)
    BY WithNodeIs
  <2> HIDE DEF s
  <2> QED  BY <2>1, Zenon DEF IsWith
<1> HIDE DEF s
<1>2. Shaped(s)
  <2>1. s[p].segment = g
    BY <1>1 DEF Node
  <2>2. \A q \in DOMAIN t : q \in Seq(Octet) /\ t[q].segment \in Seq(Octet)
    BY DEF Good, Shaped
  <2> QED  BY <1>1, <2>1, <2>2, Zenon DEF Shaped
<1>3. Rooted(s) /\ IsFiniteSet(DOMAIN s)
  BY <1>1, FS_AddElement DEF Good, Rooted
<1>4. Hangs(s)
  <2>1. ASSUME NEW q \in DOMAIN t \ {<<>>} PROVE \E r \in DOMAIN s : KeyAt(s, r) = Front(q)
    BY <1>1 DEF Good, Hangs
  <2> QED  BY <1>1, <2>1 DEF Hangs
<1>5. Len(p) \in Nat /\ \A q \in DOMAIN t : q \in Seq(Octet) /\ Len(q) \in Nat
  BY DEF Good, Shaped
<1>6. ASSUME DOMAIN t # {}
      PROVE  \E q \in DOMAIN t : /\ KeyAt(t, q) \in Seq(Octet) /\ Under(KeyAt(t, q), p) /\ Under(q, p)
                                 /\ Len(KeyAt(t, q)) \in Nat /\ Len(KeyAt(t, q)) + 1 = Len(p)
                                 /\ Len(q) <= Len(KeyAt(t, q))
  <2>1. p # <<>>
    BY <1>6
  <2>2. PICK q \in DOMAIN t : KeyAt(t, q) = Front(p)
    BY <1>6, <2>1
  <2>3. Len(p) - 1 \in 0 .. Len(p) /\ Front(p) = Top(p, Len(p) - 1)
    BY <2>1, EmptyIs
  <2>4. Len(Front(p)) = Len(p) - 1 /\ Under(Front(p), p)
    BY <2>3, TopIs
  <2>5. /\ KeyAt(t, q) \in Seq(Octet) /\ Len(KeyAt(t, q)) \in Nat /\ Under(q, KeyAt(t, q))
        /\ Len(q) <= Len(KeyAt(t, q)) /\ q \in Seq(Octet)
    BY KeyFacts DEF Good
  <2>6. Under(q, p)
    BY <2>2, <2>4, <2>5, UnderTrans
  <2>7. Len(KeyAt(t, q)) + 1 = Len(p)
    BY <1>5, <2>2, <2>4
  <2> QED  BY <2>2, <2>4, <2>5, <2>6, <2>7
<1>7. ASSUME NEW a \in DOMAIN s, NEW b \in DOMAIN s, Under(a, b), Len(a) < Len(b)
      PROVE  Leads(s, a, b)
  <2>1. \A q, r \in DOMAIN t : Under(q, r) /\ Len(q) < Len(r) => Leads(t, q, r)
    BY DEF Good, Branches, Leads
  <2>2. CASE a = p /\ b \in DOMAIN t
    <3>1. PICK q \in DOMAIN t :
            /\ Under(q, p) /\ Len(KeyAt(t, q)) \in Nat /\ Len(KeyAt(t, q)) + 1 = Len(p)
            /\ Len(q) <= Len(KeyAt(t, q))
      BY <1>6, <2>2
    <3>2. Under(q, b)
      BY <1>5, <1>7, <2>2, <3>1, UnderTrans
    <3>3. Len(q) < Len(b)
      BY <1>5, <1>7, <2>2, <3>1
    <3>4. Top(b, Len(p)) \in DOMAIN t
      BY <2>1, <2>2, <3>1, <3>2, <3>3 DEF Leads
    <3>5. p = Top(b, Len(p))
      BY <1>5, <1>7, <2>2, UnderTop
    <3> QED  BY <3>4, <3>5
  <2>3. CASE a \in DOMAIN t /\ b = p
    <3>1. PICK q \in DOMAIN t :
            /\ Under(KeyAt(t, q), p) /\ Under(q, p)
            /\ Len(KeyAt(t, q)) \in Nat /\ Len(KeyAt(t, q)) + 1 = Len(p)
            /\ Len(q) <= Len(KeyAt(t, q))
      BY <1>6, <2>3
    <3>2. KeyAt(s, a) = KeyAt(t, a) /\ Len(KeyAt(t, a)) \in Nat
      BY <1>1, <2>3, KeyFacts DEF Good
    <3>3. CASE a = q
      <4>1. Under(p, p) /\ p = Top(p, Len(p))
        <5>1. Under(p, p)
          BY <1>5 DEF Under
        <5> QED  BY <5>1, UnderTop
      <4>2. Len(KeyAt(t, q)) < Len(p)
        BY <3>1
      <4> QED  BY <1>1, <2>3, <3>1, <3>2, <3>3, <4>1, <4>2 DEF Leads
    <3>4. CASE a # q
      <4>1. \/ /\ Len(KeyAt(t, a)) < Len(q) /\ Under(KeyAt(t, a), p)
               /\ Top(p, Len(KeyAt(t, a)) + 1) \in DOMAIN t
            \/ Len(KeyAt(t, q)) < Len(a)
        BY <1>7, <2>3, <3>1, <3>4, Comparable
      <4>2. ~(Len(KeyAt(t, q)) < Len(a))
        BY <1>5, <1>7, <2>3, <3>1
      <4>3. Len(KeyAt(t, a)) < Len(p)
        BY <1>5, <3>1, <3>2, <4>1, <4>2
      <4> QED  BY <1>1, <2>3, <3>2, <4>1, <4>2, <4>3 DEF Leads
    <3> QED  BY <3>3, <3>4
  <2>4. CASE a \in DOMAIN t /\ b \in DOMAIN t
    <3>1. Leads(t, a, b) /\ KeyAt(s, a) = KeyAt(t, a)
      BY <1>1, <1>7, <2>1, <2>4
    <3> QED  BY <1>1, <3>1 DEF Leads
  <2>5. ~(a = p /\ b = p)
    BY <1>5, <1>7
  <2> QED  BY <1>1, <2>2, <2>3, <2>4, <2>5
<1>8. Branches(s)
  BY <1>7 DEF Branches, Leads
<1> QED  BY <1>2, <1>3, <1>4, <1>8 DEF Good, s

\* Values do not matter to the shape.
LEMMA GoodAlike ==
  ASSUME NEW t, Good(t), NEW s, DOMAIN s = DOMAIN t, \A p \in DOMAIN t : s[p].segment = t[p].segment
  PROVE  Good(s)
<1>1. \A p \in DOMAIN t : KeyAt(s, p) = KeyAt(t, p)
  BY DEF KeyAt
<1>2. Shaped(s) /\ Rooted(s) /\ IsFiniteSet(DOMAIN s)
  BY DEF Good, Shaped, Rooted
<1>3. Hangs(s)
  BY <1>1 DEF Good, Hangs
<1>4. Branches(s)
  BY <1>1, Zenon DEF Good, Branches
<1> QED  BY <1>2, <1>3, <1>4 DEF Good

-----------------------------------------------------------------------------
(* What an insertion does to the map.                                        *)

LEMMA LookupAt ==
  ASSUME NEW t, Good(t), NEW p \in DOMAIN t
  PROVE  mig_radix_tree_lookup(t, KeyAt(t, p)) = t[p].value
<1>1. KeyAt(t, p) \in Seq(Octet)
  BY KeyFacts DEF Good
<1>2. PICK q \in DOMAIN t : /\ KeyAt(t, q) = KeyAt(t, p)
                            /\ mig_radix_tree_lookup(t, KeyAt(t, p)) = t[q].value
  BY <1>1, LookupIs
<1>3. q = p
  BY <1>2, KeysDiffer
<1> QED  BY <1>2, <1>3

\* A split gives its value to the key cut off, if there is one, and changes
\* nothing for the others.
LEMMA SplitPuts ==
  ASSUME NEW t, Good(t), NEW s, Good(s), NEW p \in DOMAIN t, NEW n, NEW value, NEW c,
         IsSplit(t, p, n, value, s, c)
  PROVE  /\ mig_radix_tree_lookup(s, KeyAt(s, p)) = value
         /\ \A key \in Seq(Octet) : key # KeyAt(s, p) \/ value = NoValue =>
              mig_radix_tree_lookup(s, key) = mig_radix_tree_lookup(t, key)
<1>1. /\ DOMAIN s = DOMAIN t \cup {c} /\ p \in DOMAIN s /\ c \in DOMAIN s
      /\ s[p].value = value /\ s[c].value = t[p].value /\ KeyAt(s, c) = KeyAt(t, p)
      /\ \A q \in DOMAIN t : q # p => s[q] = t[q] /\ KeyAt(s, q) = KeyAt(t, q)
  BY DEF IsSplit, Node
<1>2. mig_radix_tree_lookup(s, KeyAt(s, p)) = value
  BY <1>1, LookupAt
<1>3. ASSUME NEW key \in Seq(Octet), key # KeyAt(s, p) \/ value = NoValue
      PROVE  mig_radix_tree_lookup(s, key) = mig_radix_tree_lookup(t, key)
  <2>1. ASSUME NEW q \in DOMAIN t, KeyAt(t, q) = key, mig_radix_tree_lookup(t, key) = t[q].value
        PROVE  mig_radix_tree_lookup(s, key) = mig_radix_tree_lookup(t, key)
    <3>1. CASE q = p
      <4>1. mig_radix_tree_lookup(s, KeyAt(s, c)) = s[c].value
        BY <1>1, LookupAt
      <4> QED  BY <1>1, <2>1, <3>1, <4>1
    <3>2. CASE q # p
      <4>1. mig_radix_tree_lookup(s, KeyAt(s, q)) = s[q].value
        BY <1>1, LookupAt
      <4> QED  BY <1>1, <2>1, <3>2, <4>1
    <3> QED  BY <3>1, <3>2
  <2>2. ASSUME \A q \in DOMAIN t : KeyAt(t, q) # key, mig_radix_tree_lookup(t, key) = NoValue
        PROVE  mig_radix_tree_lookup(s, key) = mig_radix_tree_lookup(t, key)
    <3>1. ASSUME NEW r \in DOMAIN s, KeyAt(s, r) = key PROVE s[r].value = NoValue
      BY <1>1, <1>3, <2>2, <3>1
    <3> QED  BY <2>2, <3>1, LookupIs
  <2> QED  BY <2>1, <2>2, LookupIs
<1> QED  BY <1>2, <1>3

LEMMA WithNodePuts ==
  ASSUME NEW t, Good(t), NEW s, Good(s), NEW p, NEW g, NEW value, IsWith(t, p, g, value, s)
  PROVE  /\ mig_radix_tree_lookup(s, p \o g) = value
         /\ \A key \in Seq(Octet) : key # p \o g =>
              mig_radix_tree_lookup(s, key) = mig_radix_tree_lookup(t, key)
<1>1. /\ DOMAIN s = DOMAIN t \cup {p} /\ p \in DOMAIN s /\ s[p].value = value /\ KeyAt(s, p) = p \o g
      /\ \A q \in DOMAIN t : s[q] = t[q] /\ KeyAt(s, q) = KeyAt(t, q)
  BY DEF IsWith, Node
<1>2. mig_radix_tree_lookup(s, KeyAt(s, p)) = value
  BY <1>1, LookupAt
<1>3. ASSUME NEW key \in Seq(Octet), key # p \o g
      PROVE  mig_radix_tree_lookup(s, key) = mig_radix_tree_lookup(t, key)
  <2>1. ASSUME NEW q \in DOMAIN t, KeyAt(t, q) = key, mig_radix_tree_lookup(t, key) = t[q].value
        PROVE  mig_radix_tree_lookup(s, key) = mig_radix_tree_lookup(t, key)
    <3>1. mig_radix_tree_lookup(s, KeyAt(s, q)) = s[q].value
      BY <1>1, LookupAt
    <3> QED  BY <1>1, <2>1, <3>1
  <2>2. ASSUME \A q \in DOMAIN t : KeyAt(t, q) # key, mig_radix_tree_lookup(t, key) = NoValue
        PROVE  mig_radix_tree_lookup(s, key) = mig_radix_tree_lookup(t, key)
    <3>1. \A r \in DOMAIN s : KeyAt(s, r) # key
      BY <1>1, <1>3, <2>2
    <3> QED  BY <2>2, <3>1, LookupIs
  <2> QED  BY <2>1, <2>2, LookupIs
<1> QED  BY <1>1, <1>2, <1>3

\* The value of a node changed in place.
HasValue(t, p, value, s) ==
  /\ DOMAIN s = DOMAIN t /\ s[p] = Node(t[p].segment, value)
  /\ \A q \in DOMAIN t : q # p => s[q] = t[q]

LEMMA ValuePuts ==
  ASSUME NEW t, Good(t), NEW s, NEW p \in DOMAIN t, NEW value, HasValue(t, p, value, s)
  PROVE  /\ Good(s) /\ mig_radix_tree_lookup(s, KeyAt(t, p)) = value
         /\ \A key \in Seq(Octet) : key # KeyAt(t, p) =>
              mig_radix_tree_lookup(s, key) = mig_radix_tree_lookup(t, key)
<1>0. DOMAIN s = DOMAIN t /\ \A q \in DOMAIN t : q # p => s[q] = t[q]
  BY DEF HasValue
<1>1. s[p].segment = t[p].segment /\ s[p].value = value
  BY DEF Node, HasValue
<1>2. \A q \in DOMAIN t : s[q].segment = t[q].segment
  BY <1>0, <1>1
<1>3. Good(s)
  BY <1>0, <1>2, GoodAlike
<1>4. \A q \in DOMAIN t : KeyAt(s, q) = KeyAt(t, q)
  BY <1>2 DEF KeyAt
<1>5. mig_radix_tree_lookup(s, KeyAt(t, p)) = value
  BY <1>0, <1>1, <1>3, <1>4, LookupAt
<1>6. ASSUME NEW key \in Seq(Octet), key # KeyAt(t, p)
      PROVE  mig_radix_tree_lookup(s, key) = mig_radix_tree_lookup(t, key)
  <2>1. ASSUME NEW q \in DOMAIN t, KeyAt(t, q) = key, mig_radix_tree_lookup(t, key) = t[q].value
        PROVE  mig_radix_tree_lookup(s, key) = mig_radix_tree_lookup(t, key)
    <3>1. mig_radix_tree_lookup(s, KeyAt(s, q)) = s[q].value
      BY <1>0, <1>3, LookupAt
    <3> QED  BY <1>0, <1>4, <1>6, <2>1, <3>1
  <2>2. ASSUME \A q \in DOMAIN t : KeyAt(t, q) # key, mig_radix_tree_lookup(t, key) = NoValue
        PROVE  mig_radix_tree_lookup(s, key) = mig_radix_tree_lookup(t, key)
    <3>1. \A r \in DOMAIN s : KeyAt(s, r) # key
      BY <1>0, <1>4, <2>2
    <3> QED  BY <1>3, <2>2, <3>1, LookupIs
  <2> QED  BY <2>1, <2>2, LookupIs
<1> QED  BY <1>3, <1>5, <1>6

-----------------------------------------------------------------------------
(* The insertion, case by case.                                              *)

\* Nodes have values that were given to a key in use.
Valued(t) ==
  \A p \in DOMAIN t : /\ t[p] \in [segment : Seq(Octet), value : Values \cup {NoValue}]
                      /\ t[p].value # NoValue => KeyAt(t, p) \in Keys

\* Two other nodes hang on the node at p; what has no value has two.
Forked(t, p) ==
  \E a, b \in DOMAIN t : /\ a # b /\ a # <<>> /\ b # <<>>
                         /\ Front(a) = KeyAt(t, p) /\ Front(b) = KeyAt(t, p)
Dense(t) == \A p \in DOMAIN t : t[p].value = NoValue => Forked(t, p)

LEMMA SplitValued ==
  ASSUME NEW t, Valued(t), NEW s, Good(s), NEW p \in DOMAIN t, NEW n,
         NEW value \in Values \cup {NoValue}, NEW c, IsSplit(t, p, n, value, s, c),
         value # NoValue => KeyAt(s, p) \in Keys
  PROVE  /\ Valued(s)
         /\ Dense(t) => \A q \in DOMAIN s : q # p /\ s[q].value = NoValue => Forked(s, q)
<1>1. /\ DOMAIN s = DOMAIN t \cup {c} /\ c \notin DOMAIN t
      /\ s[p] = Node(Top(t[p].segment, n), value)
      /\ s[c] = Node(From(t[p].segment, n + 1), t[p].value) /\ KeyAt(s, c) = KeyAt(t, p)
      /\ \A q \in DOMAIN t : q # p => s[q] = t[q] /\ KeyAt(s, q) = KeyAt(t, q)
  BY DEF IsSplit
<1>2. \A q \in DOMAIN s : s[q].segment \in Seq(Octet)
  BY DEF Good, Shaped
<1>3. \A q \in DOMAIN t : /\ t[q] \in [segment : Seq(Octet), value : Values \cup {NoValue}]
                          /\ t[q].value # NoValue => KeyAt(t, q) \in Keys
  BY DEF Valued
<1>4. s[p].value = value /\ s[c].value = t[p].value
  BY <1>1 DEF Node
<1>5. ASSUME NEW q \in DOMAIN s
      PROVE  /\ s[q] \in [segment : Seq(Octet), value : Values \cup {NoValue}]
             /\ s[q].value # NoValue => KeyAt(s, q) \in Keys
  <2>1. CASE q = p
    BY <1>1, <1>2, <1>4, <2>1 DEF Node
  <2>2. CASE q = c
    BY <1>1, <1>2, <1>3, <1>4, <2>2 DEF Node
  <2>3. CASE q # p /\ q # c
    BY <1>1, <1>3, <2>3
  <2> QED  BY <2>1, <2>2, <2>3
<1>6. ASSUME Dense(t), NEW q \in DOMAIN s, q # p, s[q].value = NoValue PROVE Forked(s, q)
  <2>1. PICK r \in DOMAIN t : t[r].value = NoValue /\ KeyAt(s, q) = KeyAt(t, r)
    BY <1>1, <1>4, <1>6
  <2>2. Forked(t, r)
    BY <1>6, <2>1 DEF Dense
  <2> QED  BY <1>1, <2>1, <2>2 DEF Forked
<1> QED  BY <1>5, <1>6 DEF Valued

LEMMA WithNodeValued ==
  ASSUME NEW t, Valued(t), NEW s, NEW p, NEW g \in Seq(Octet), NEW value \in Values \cup {NoValue},
         p \notin DOMAIN t, IsWith(t, p, g, value, s), p \o g \in Keys
  PROVE  Valued(s) /\ \A q \in DOMAIN t : Forked(t, q) => Forked(s, q)
<1>1. /\ DOMAIN s = DOMAIN t \cup {p} /\ s[p] = Node(g, value) /\ KeyAt(s, p) = p \o g
      /\ \A q \in DOMAIN t : s[q] = t[q] /\ KeyAt(s, q) = KeyAt(t, q)
  BY DEF IsWith
<1>2. Valued(s)
  <2>1. s[p] \in [segment : Seq(Octet), value : Values \cup {NoValue}]
    BY <1>1 DEF Node
  <2> QED  BY <1>1, <2>1, Zenon DEF Valued
<1>3. ASSUME NEW q \in DOMAIN t, Forked(t, q) PROVE Forked(s, q)
  BY <1>1, <1>3 DEF Forked
<1> QED  BY <1>2, <1>3

\* What an insertion leaves: the map as it was, or the key with its value.
Kept(t, s) ==
  /\ Good(s) /\ Valued(s)
  /\ \A k \in Seq(Octet) : mig_radix_tree_lookup(s, k) = mig_radix_tree_lookup(t, k)
Put(t, s, key, value) ==
  /\ Good(s) /\ Valued(s) /\ (Dense(t) => Dense(s))
  /\ mig_radix_tree_lookup(s, key) = value
  /\ \A k \in Seq(Octet) : k # key => mig_radix_tree_lookup(s, k) = mig_radix_tree_lookup(t, k)

\* An insertion that ends inside a segment.
LEMMA SplitAtEnd ==
  ASSUME NEW t, Good(t), Valued(t), NEW key \in Keys, NEW value \in Values \cup {NoValue},
         Sosl(t, mig_radix_node_find(t, key)),
         value = NoValue \/ ~Kokl(key, mig_radix_node_find(t, key))
  PROVE  LET f == mig_radix_node_find(t, key)
             s == Split(t, f.slot, f.soff, value)
         IN  IF value = NoValue THEN Kept(t, s) ELSE Put(t, s, key, value)
<1> DEFINE f == mig_radix_node_find(t, key)
           p == f.slot
           n == f.soff
           g == t[p].segment
           c == p \o Top(g, n + 1)
           s == Split(t, p, n, value)
<1>1. key \in Seq(Octet) /\ Shaped(t)
  BY RadixTreeAssumption DEF Good
<1>2. Found(t, key, f)
  BY <1>1, NodeFound
<1>3. p \in DOMAIN t /\ n < Len(g)
  BY DEF Sosl
<1>4. p \o Top(g, n) = Top(key, f.koff)
  BY <1>1, <1>3, SlotKey
<1>5. ~Kokl(key, f) => ~(f.koff < Len(key))
  BY DEF Kokl
<1> HIDE DEF f
<1>6. n \in Nat /\ f.koff \in Nat /\ f.koff <= Len(key)
  BY <1>1, <1>2, <1>3 DEF Found, Shaped
<1>7. value # NoValue => Top(key, f.koff) = key
  <2> SUFFICES ASSUME value # NoValue PROVE Top(key, f.koff) = key
    OBVIOUS
  <2>1. f.koff = Len(key)
    BY <1>1, <1>5, <1>6 DEF f
  <2>2. Under(key, key)
    BY <1>1 DEF Under
  <2> QED  BY <1>1, <2>1, <2>2, UnderTop
<1> HIDE DEF p, n
<1>8. Good(s) /\ IsSplit(t, p, n, value, s, c)
  BY <1>3, <1>6, SplitGood, SplitIs
<1> HIDE DEF s, c
<1>9. KeyAt(s, p) = Top(key, f.koff)
  BY <1>4, <1>8 DEF IsSplit
<1>10. /\ Valued(s)
       /\ Dense(t) => \A q \in DOMAIN s : q # p /\ s[q].value = NoValue => Forked(s, q)
  BY <1>3, <1>7, <1>8, <1>9, SplitValued
<1>11. /\ mig_radix_tree_lookup(s, KeyAt(s, p)) = value
       /\ \A k \in Seq(Octet) : k # KeyAt(s, p) \/ value = NoValue =>
            mig_radix_tree_lookup(s, k) = mig_radix_tree_lookup(t, k)
  BY <1>3, <1>8, SplitPuts
<1>12. CASE value = NoValue
  <2>1. Kept(t, s)
    BY <1>8, <1>10, <1>11, <1>12 DEF Kept
  <2> QED  BY <1>12, <2>1 DEF s, p, n, f
<1>13. CASE value # NoValue
  <2>1. s[p].value = value
    BY <1>8 DEF IsSplit, Node
  <2>2. Dense(t) => Dense(s)
    BY <1>10, <1>13, <2>1 DEF Dense
  <2>3. Put(t, s, key, value)
    BY <1>7, <1>8, <1>9, <1>10, <1>11, <1>13, <2>2 DEF Put
  <2> QED  BY <1>13, <2>3 DEF s, p, n, f
<1> QED  BY <1>12, <1>13

\* An insertion that ends in an empty slot.
LEMMA EmptySlot ==
  ASSUME NEW t, Good(t), Valued(t), NEW key \in Keys, NEW value \in Values,
         mig_radix_node_find(t, key).slot \notin DOMAIN t
  PROVE  LET f == mig_radix_node_find(t, key)
         IN  /\ f.koff \in Nat /\ f.koff <= Len(key) /\ From(key, f.koff) \in Seq(Octet)
             /\ Put(t, WithNode(t, f.slot, From(key, f.koff), value), key, value)
<1> DEFINE f == mig_radix_node_find(t, key)
           p == f.slot
           g == From(key, f.koff)
           s == WithNode(t, p, g, value)
<1>1. key \in Seq(Octet) /\ Shaped(t)
  BY RadixTreeAssumption DEF Good
<1>2. Found(t, key, f) /\ p \notin DOMAIN t
  BY <1>1, NodeFound
<1> HIDE DEF f
<1>3. /\ p \in Seq(Octet) /\ Under(p, key) /\ f.soff = 0
      /\ f.koff = Len(p) + f.soff /\ f.koff <= Len(key)
      /\ \/ p = <<>>
         \/ \E q \in DOMAIN t : Before(t, key, q) /\ p = Top(key, Len(KeyAt(t, q)) + 1)
  BY <1>2, Zenon DEF Found
<1> HIDE DEF p
<1>4. Len(p) \in Nat /\ Len(key) \in Nat /\ f.koff = Len(p) /\ f.koff \in 0 .. Len(key)
  BY <1>1, <1>3
<1>5. g \in Seq(Octet) /\ p \o g = key
  <2>1. g \in Seq(Octet) /\ Top(key, f.koff) \o g = key
    BY <1>1, <1>4, FromIs, TopAndFrom
  <2>2. p = Top(key, f.koff)
    BY <1>1, <1>3, <1>4, UnderTop
  <2> QED  BY <2>1, <2>2
<1> HIDE DEF g
<1>6. \/ DOMAIN t = {} /\ p = <<>>
      \/ p # <<>> /\ \E q \in DOMAIN t : KeyAt(t, q) = Front(p)
  <2>1. CASE p = <<>>
    BY <1>2, <2>1 DEF Good, Rooted
  <2>2. CASE p # <<>>
    <3>1. PICK q \in DOMAIN t : Before(t, key, q) /\ p = Top(key, Len(KeyAt(t, q)) + 1)
      BY <1>3, <2>2
    <3> DEFINE w == KeyAt(t, q)
    <3>2. w \in Seq(Octet) /\ Len(w) \in Nat /\ Under(w, key) /\ Len(w) < Len(key)
      BY <3>1, KeyFacts DEF Before, Good
    <3> HIDE DEF w
    <3>3. p = Top(key, Len(w) + 1)
      BY <3>1 DEF w
    <3>4. Len(w) + 1 \in 0 .. Len(key)
      BY <1>4, <3>2
    <3>5. Len(p) = Len(w) + 1
      BY <1>1, <3>3, <3>4, TopIs
    <3>6. Len(w) <= Len(p) /\ Len(p) - 1 = Len(w)
      BY <3>2, <3>5
    <3>7. Under(w, p)
      BY <1>3, <3>2, <3>6, UnderSame
    <3>8. w = Top(p, Len(w))
      BY <1>3, <3>2, <3>7, UnderTop
    <3>9. Front(p) = Top(p, Len(p) - 1)
      BY <1>3, <2>2, EmptyIs
    <3> QED  BY <2>2, <3>6, <3>8, <3>9 DEF w
  <2> QED  BY <2>1, <2>2
<1>7. Good(s) /\ IsWith(t, p, g, value, s)
  BY <1>2, <1>3, <1>5, <1>6, WithNodeGood, WithNodeIs
<1> HIDE DEF s
<1>8. Valued(s) /\ \A q \in DOMAIN t : Forked(t, q) => Forked(s, q)
  BY <1>2, <1>5, <1>7, WithNodeValued
<1>9. /\ mig_radix_tree_lookup(s, key) = value
      /\ \A k \in Seq(Octet) : k # key => mig_radix_tree_lookup(s, k) = mig_radix_tree_lookup(t, k)
  <2>1. /\ mig_radix_tree_lookup(s, p \o g) = value
        /\ \A k \in Seq(Octet) : k # p \o g =>
             mig_radix_tree_lookup(s, k) = mig_radix_tree_lookup(t, k)
    BY <1>7, WithNodePuts
  <2> QED  BY <1>5, <2>1
<1>10. ASSUME Dense(t) PROVE Dense(s)
  <2>1. /\ DOMAIN s = DOMAIN t \cup {p} /\ s[p].value = value /\ value # NoValue
        /\ \A q \in DOMAIN t : s[q] = t[q]
    BY <1>7, RadixTreeAssumption DEF IsWith, Node
  <2> QED  BY <1>8, <1>10, <2>1 DEF Dense
<1>11. Put(t, s, key, value)
  BY <1>7, <1>8, <1>9, <1>10 DEF Put
<1> QED  BY <1>4, <1>3, <1>5, <1>11 DEF f, p, g, s

\* An insertion that leaves the tree inside a segment.
LEMMA Intersects ==
  ASSUME NEW t, Good(t), Valued(t), NEW key \in Keys, NEW value \in Values,
         Sosl(t, mig_radix_node_find(t, key)), Kokl(key, mig_radix_node_find(t, key))
  PROVE  Put(t, Intersect(t, key, value, mig_radix_node_find(t, key)), key, value)
<1> DEFINE f == mig_radix_node_find(t, key)
           p == f.slot
           n == f.soff
           g == t[p].segment
           c == p \o Top(g, n + 1)
           m == Split(t, p, n, NoValue)
           e == Top(key, f.koff + 1)
           z == From(key, f.koff + 1)
           s == WithNode(m, e, z, value)
<1>1. key \in Seq(Octet) /\ Shaped(t) /\ NoValue \in Values \cup {NoValue}
  BY RadixTreeAssumption DEF Good
<1>2. Found(t, key, f)
  BY <1>1, NodeFound
<1>3. p \in DOMAIN t /\ n < Len(g) /\ f.koff < Len(key)
  BY DEF Sosl, Kokl
<1>4. p \o Top(g, n) = Top(key, f.koff)
  BY <1>1, <1>3, SlotKey
<1>5. Kept(t, m)
  BY SplitAtEnd
<1> HIDE DEF f
<1>6. /\ n \in Nat /\ f.koff \in Nat /\ Len(key) \in Nat /\ f.koff = Len(p) + n
      /\ p \in Seq(Octet) /\ Under(p, key) /\ Len(p) \in Nat /\ g \in Seq(Octet) /\ Len(g) \in Nat
  BY <1>1, <1>2, <1>3 DEF Found, Shaped
<1>7. key[f.koff + 1] # g[n + 1]
  BY <1>2, <1>3, Zenon DEF Found
<1> HIDE DEF p, n
<1>8. IsSplit(t, p, n, NoValue, m, c)
  BY <1>3, <1>6, SplitIs
<1>9. IsCut(Octet, p, g, n, p \o Top(g, n), c, KeyAt(t, p))
  BY <1>3, <1>6, Cut DEF KeyAt
<1> HIDE DEF m, c, g
<1>10. /\ f.koff + 1 \in 0 .. Len(key) /\ f.koff \in 0 .. Len(key)
       /\ f.koff + 1 \in 1 .. f.koff + 1 /\ n + 1 \in 1 .. Len(g)
  BY <1>3, <1>6
<1>11. /\ e \in Seq(Octet) /\ Len(e) = f.koff + 1 /\ Under(e, key)
       /\ e[f.koff + 1] = key[f.koff + 1]
  BY <1>1, <1>10, TopIs
<1>12. z \in Seq(Octet) /\ e \o z = key
  BY <1>1, <1>10, FromIs, TopAndFrom
<1>13. e # <<>> /\ Front(e) = Top(key, f.koff)
  <2> HIDE DEF e
  <2>1. e # <<>> /\ Len(e) - 1 = f.koff
    BY <1>6, <1>11
  <2>2. Front(e) = Top(e, f.koff)
    BY <1>11, <2>1, EmptyIs
  <2> DEFINE a == Top(key, f.koff)
  <2>3. a \in Seq(Octet) /\ Len(a) = f.koff /\ Under(a, key)
    BY <1>1, <1>10, TopIs
  <2> HIDE DEF a
  <2>4. Len(a) <= Len(e)
    BY <1>6, <1>11, <2>3
  <2>5. Under(a, e)
    BY <1>11, <2>3, <2>4, UnderSame
  <2>6. a = Top(e, f.koff)
    BY <1>11, <2>3, <2>5, UnderTop
  <2> QED  BY <2>1, <2>2, <2>6 DEF a
<1> HIDE DEF e, z
<1>14. e \notin DOMAIN t
  <2> SUFFICES ASSUME e \in DOMAIN t PROVE FALSE
    OBVIOUS
  <2>1. Len(p) < Len(e)
    BY <1>6, <1>11
  <2>2. Under(p, e)
    BY <1>6, <1>11, <2>1, UnderSame
  <2>3. Len(KeyAt(t, p)) < Len(e)
    BY <1>3, <2>1, <2>2 DEF Good, Branches
  <2>4. Len(KeyAt(t, p)) = Len(p) + Len(g)
    BY <1>3, KeyFacts DEF Good, g
  <2>5. n < Len(g)
    BY <1>3 DEF g
  <2> QED  BY <1>6, <1>11, <2>3, <2>4, <2>5
<1>15. c # <<>> /\ Front(c) = p \o Top(g, n)
  <2>1. Front(c) = p \o Top(g, n) /\ Len(c) = Len(p) + n + 1 /\ c \in Seq(Octet)
    BY <1>9 DEF IsCut
  <2> QED  BY <1>6, <2>1
<1>16. e # c
  <2>1. c = p \o Top(g, n + 1)
    BY DEF c
  <2> DEFINE b == Top(g, n + 1)
  <2>2. n + 1 \in 0 .. Len(g) /\ n + 1 \in 1 .. n + 1
    BY <1>6, <1>10
  <2>3. b \in Seq(Octet) /\ Len(b) = n + 1 /\ b[n + 1] = g[n + 1]
    BY <1>6, <2>2, TopIs
  <2> HIDE DEF b
  <2>4. (p \o b)[Len(p) + (n + 1)] = b[n + 1]
    BY <1>6, <2>2, <2>3, Joined
  <2>5. Len(p) + (n + 1) = f.koff + 1
    BY <1>6
  <2>6. c[f.koff + 1] = g[n + 1]
    BY <2>1, <2>3, <2>4, <2>5, Zenon DEF b
  <2> QED  BY <1>7, <1>11, <2>6 DEF g
<1>17. /\ DOMAIN m = DOMAIN t \cup {c} /\ e \notin DOMAIN m /\ p \in DOMAIN m /\ c \in DOMAIN m
       /\ KeyAt(m, p) = Front(e) /\ KeyAt(m, p) = Front(c)
  BY <1>3, <1>4, <1>8, <1>13, <1>14, <1>15, <1>16, Zenon DEF IsSplit, g
<1>18. Good(m) /\ Valued(m)
  BY <1>5 DEF Kept
<1>19. Good(s) /\ IsWith(m, e, z, value, s)
  BY <1>11, <1>12, <1>13, <1>17, <1>18, WithNodeGood, WithNodeIs
<1> HIDE DEF s
<1>20. Valued(s) /\ \A q \in DOMAIN m : Forked(m, q) => Forked(s, q)
  BY <1>12, <1>17, <1>18, <1>19, WithNodeValued
<1>21. /\ mig_radix_tree_lookup(s, key) = value
       /\ \A k \in Seq(Octet) : k # key => mig_radix_tree_lookup(s, k) = mig_radix_tree_lookup(t, k)
  <2>1. /\ mig_radix_tree_lookup(s, e \o z) = value
        /\ \A k \in Seq(Octet) : k # e \o z =>
             mig_radix_tree_lookup(s, k) = mig_radix_tree_lookup(m, k)
    BY <1>18, <1>19, WithNodePuts
  <2> QED  BY <1>5, <1>12, <2>1 DEF Kept
<1>22. ASSUME Dense(t) PROVE Dense(s)
  <2>1. \A q \in DOMAIN m : q # p /\ m[q].value = NoValue => Forked(m, q)
    BY <1>1, <1>3, <1>8, <1>18, <1>22, SplitValued
  <2>2. /\ DOMAIN s = DOMAIN m \cup {e} /\ s[e].value = value /\ value # NoValue
        /\ \A q \in DOMAIN m : s[q] = m[q] /\ KeyAt(s, q) = KeyAt(m, q)
    BY <1>19, RadixTreeAssumption DEF IsWith, Node
  <2>3. Forked(s, p)
    BY <1>13, <1>15, <1>16, <1>17, <2>2 DEF Forked
  <2> QED  BY <1>20, <2>1, <2>2, <2>3 DEF Dense
<1>23. Put(t, s, key, value)
  BY <1>19, <1>20, <1>21, <1>22 DEF Put
<1>24. s = Intersect(t, key, value, f)
  BY DEF Intersect, Top, s, m, e, z, p, n
<1> QED  BY <1>23, <1>24 DEF f

\* An insertion that ends at a node.
LEMMA Replaced ==
  ASSUME NEW t, Good(t), Valued(t), NEW p \in DOMAIN t, KeyAt(t, p) \in Keys, NEW value \in Values
  PROVE  Put(t, [t EXCEPT ![p].value = value], KeyAt(t, p), value)
<1> DEFINE s == [t EXCEPT ![p].value = value]
<1>1. /\ \A q \in DOMAIN t : t[q] \in [segment : Seq(Octet), value : Values \cup {NoValue}]
      /\ \A q \in DOMAIN t : t[q].value # NoValue => KeyAt(t, q) \in Keys
  BY DEF Valued
<1>2. /\ DOMAIN s = DOMAIN t /\ s[p] = [t[p] EXCEPT !.value = value]
      /\ \A q \in DOMAIN t : q # p => s[q] = t[q]
  OBVIOUS
<1> HIDE DEF s
<1>3. s[p] = Node(t[p].segment, value)
  BY <1>1, <1>2 DEF Node
<1>4. s[p].segment = t[p].segment /\ s[p].value = value
  BY <1>3 DEF Node
<1>5. HasValue(t, p, value, s)
  BY <1>2, <1>3 DEF HasValue
<1>6. /\ Good(s) /\ mig_radix_tree_lookup(s, KeyAt(t, p)) = value
      /\ \A k \in Seq(Octet) : k # KeyAt(t, p) =>
           mig_radix_tree_lookup(s, k) = mig_radix_tree_lookup(t, k)
  BY <1>5, ValuePuts
<1>7. \A q \in DOMAIN t : KeyAt(s, q) = KeyAt(t, q)
  BY <1>2, <1>4 DEF KeyAt
<1>8. Valued(s)
  <2>1. s[p] \in [segment : Seq(Octet), value : Values \cup {NoValue}]
    BY <1>1, <1>3 DEF Node
  <2> QED  BY <1>1, <1>2, <1>7, <2>1, Zenon DEF Valued
<1>9. ASSUME Dense(t) PROVE Dense(s)
  <2>1. ASSUME NEW q \in DOMAIN t, s[q].value = NoValue PROVE Forked(s, q)
    <3>1. q # p
      BY <1>4, <2>1, RadixTreeAssumption
    <3>2. Forked(t, q)
      BY <1>2, <1>9, <2>1, <3>1 DEF Dense
    <3> QED  BY <1>2, <1>7, <3>2, Zenon DEF Forked
  <2> QED  BY <1>2, <2>1 DEF Dense
<1>10. Put(t, s, KeyAt(t, p), value)
  BY <1>6, <1>8, <1>9 DEF Put
<1> QED  BY <1>10 DEF s

\* Whatever the case, an insertion gives the key its value, or finds no memory.
LEMMA Inserts ==
  ASSUME Good(tree), Valued(tree), NEW key \in Keys, NEW value \in Values,
         mig_radix_tree_insert(key, value)
  PROVE  (fails /\ Kept(tree, tree')) \/ Put(tree, tree', key, value)
<1> DEFINE f == mig_radix_node_find(tree, key)
           p == f.slot
<1>1. key \in Seq(Octet) /\ Shaped(tree) /\ NoValue \notin Values
  BY RadixTreeAssumption DEF Good
<1>2. Found(tree, key, f)
  BY <1>1, NodeFound
<1>3. /\ p \in DOMAIN tree => f.soff <= Len(tree[p].segment)
      /\ p \in DOMAIN tree /\ f.soff = Len(tree[p].segment) => f.koff = Len(key)
      /\ p \notin DOMAIN tree => f.soff = 0
      /\ f.soff \in Nat
  BY <1>2, Zenon DEF Found
<1>4. \A q \in DOMAIN tree : Len(tree[q].segment) \in Nat
  BY <1>1 DEF Shaped
<1>5. CASE (Kokl(key, f) \/ Sosl(tree, f)) /\ fails /\ UNCHANGED tree
  BY <1>5 DEF Kept
<1>6. CASE Kokl(key, f) /\ Sosl(tree, f) /\ tree' = Intersect(tree, key, value, f)
  BY <1>6, Intersects
<1>7. CASE Sosl(tree, f) /\ fails /\ tree' = Split(tree, p, f.soff, NoValue)
  <2>1. Kept(tree, Split(tree, p, f.soff, NoValue))
    BY <1>7, SplitAtEnd
  <2> QED  BY <1>7, <2>1
<1>8. CASE ~Kokl(key, f) /\ Sosl(tree, f) /\ tree' = Split(tree, p, f.soff, value)
  <2>1. Put(tree, Split(tree, p, f.soff, value), key, value)
    BY <1>1, <1>8, SplitAtEnd
  <2> QED  BY <1>8, <2>1
<1>9. ASSUME ~Sosl(tree, f), p \in DOMAIN tree PROVE f.soff = Len(tree[p].segment) /\ ~Kokl(key, f)
  <2>1. f.soff = Len(tree[p].segment)
    BY <1>3, <1>4, <1>9 DEF Sosl
  <2>2. f.koff = Len(key)
    BY <1>3, <1>9, <2>1
  <2>3. ~(Len(key) < Len(key))
    BY <1>1
  <2> QED  BY <2>1, <2>2, <2>3 DEF Kokl
<1>10. CASE Kokl(key, f) /\ ~Sosl(tree, f) /\ tree' = WithNode(tree, p, From(key, f.koff), value)
  <2>1. p \notin DOMAIN tree
    BY <1>9, <1>10
  <2> QED  BY <1>10, <2>1, EmptySlot
<1>11. CASE /\ ~Kokl(key, f) /\ ~Sosl(tree, f)
            /\ tree' = IF p \in DOMAIN tree THEN [tree EXCEPT ![p].value = value]
                       ELSE WithNode(tree, p, <<>>, value)
  <2>1. CASE p \in DOMAIN tree
    <3>1. KeyAt(tree, p) = key
      BY <1>1, <1>9, <1>11, <2>1, SlotKey
    <3> HIDE DEF f, p
    <3>2. Put(tree, [tree EXCEPT ![p].value = value], KeyAt(tree, p), value)
      BY <2>1, <3>1, Replaced
    <3> QED  BY <1>11, <2>1, <3>1, <3>2 DEF p, f
  <2>2. CASE p \notin DOMAIN tree
    <3>1. /\ f.koff \in Nat /\ f.koff <= Len(key)
          /\ Put(tree, WithNode(tree, p, From(key, f.koff), value), key, value)
      BY <2>2, EmptySlot
    <3>2. ~(f.koff < Len(key))
      BY <1>11 DEF Kokl
    <3> HIDE DEF f
    <3>3. f.koff = Len(key)
      BY <1>1, <3>1, <3>2
    <3>4. From(key, Len(key)) = <<>>
      <4>1. Len(key) \in 0 .. Len(key) /\ Len(key) - Len(key) = 0
        BY <1>1
      <4>2. From(key, Len(key)) \in Seq(Octet) /\ Len(From(key, Len(key))) = 0
        BY <1>1, <4>1, FromIs
      <4> QED  BY <4>2, EmptyIs
    <3>5. tree' = WithNode(tree, p, <<>>, value)
      BY <1>11, <2>2, Zenon DEF f
    <3> QED  BY <3>1, <3>3, <3>4, <3>5
  <2> QED  BY <2>1, <2>2
<1>12. \/ (Kokl(key, f) \/ Sosl(tree, f)) /\ fails /\ UNCHANGED tree
       \/ Kokl(key, f) /\ Sosl(tree, f) /\ tree' = Intersect(tree, key, value, f)
       \/ Sosl(tree, f) /\ fails /\ tree' = Split(tree, p, f.soff, NoValue)
       \/ ~Kokl(key, f) /\ Sosl(tree, f) /\ tree' = Split(tree, p, f.soff, value)
       \/ Kokl(key, f) /\ ~Sosl(tree, f) /\ tree' = WithNode(tree, p, From(key, f.koff), value)
       \/ /\ ~Kokl(key, f) /\ ~Sosl(tree, f)
          /\ tree' = IF p \in DOMAIN tree THEN [tree EXCEPT ![p].value = value]
                     ELSE WithNode(tree, p, <<>>, value)
  BY Zenon DEF mig_radix_tree_insert
<1> QED  BY <1>5, <1>6, <1>7, <1>8, <1>10, <1>11, <1>12

-----------------------------------------------------------------------------
(* The invariant, and the map.                                               *)

TreeInv == Good(tree) /\ Valued(tree) /\ (~fails => Dense(tree))

LEMMA TreeInvInit == TreeInit => TreeInv
<1> SUFFICES ASSUME TreeInit PROVE TreeInv
  OBVIOUS
<1>1. DOMAIN tree = {}
  BY DEF TreeInit, TreeStarts, mig_radix_tree_create
<1>2. IsFiniteSet(DOMAIN tree)
  BY <1>1, FS_EmptySet
<1> QED  BY <1>1, <1>2 DEF TreeInv, Good, Valued, Dense, Shaped, Rooted, Hangs, Branches

LEMMA TreeInvStep == TreeInv /\ [TreeNext]_treevars => TreeInv'
<1> SUFFICES ASSUME TreeInv, [TreeNext]_treevars PROVE TreeInv'
  OBVIOUS
<1>1. CASE UNCHANGED treevars
  <2>1. tree' = tree /\ fails' = fails
    BY <1>1 DEF treevars
  <2> QED  BY <2>1 DEF TreeInv
<1>2. CASE TreeNext
  <2>1. PICK key \in Keys, value \in Values : mig_radix_tree_insert(key, value)
    BY <1>2 DEF TreeNext
  <2>2. fails' = fails
    BY <1>2 DEF TreeNext
  <2>3. Good(tree) /\ Valued(tree)
    BY DEF TreeInv
  <2>4. (fails /\ Kept(tree, tree')) \/ Put(tree, tree', key, value)
    BY <2>1, <2>3, Inserts
  <2>5. Good(tree') /\ Valued(tree') /\ (~fails => Dense(tree'))
    BY <2>4 DEF TreeInv, Kept, Put
  <2> QED  BY <2>2, <2>5 DEF TreeInv
<1> QED  BY <1>1, <1>2

\* The nodes form one tree, no key twice in it, in every reachable state.
THEOREM TreeInvHolds == TreeSpec => []TreeInv
<1> QED  BY TreeInvInit, TreeInvStep, PTL DEF TreeSpec

\* Two members of a finite set.
LEMMA TwoMembers ==
  ASSUME NEW S, IsFiniteSet(S), NEW a \in S, NEW b \in S, a # b
  PROVE  Cardinality(S) >= 2
<1>1. IsFiniteSet({a}) /\ Cardinality({a}) = 1
  BY FS_Singleton
<1>2. IsFiniteSet({a} \cup {b}) /\ Cardinality({a} \cup {b}) = 2
  <2> DEFINE A == {a}
  <2>1. IsFiniteSet(A) /\ Cardinality(A) = 1 /\ b \notin A
    BY <1>1
  <2> HIDE DEF A
  <2>2. /\ IsFiniteSet(A \cup {b})
        /\ Cardinality(A \cup {b}) = IF b \in A THEN Cardinality(A) ELSE Cardinality(A) + 1
    BY <2>1, FS_AddElement
  <2>3. IsFiniteSet(A \cup {b}) /\ Cardinality(A \cup {b}) = 2
    BY <2>1, <2>2
  <2> QED  BY <2>3 DEF A
<1>3. {a} \cup {b} \in SUBSET S
  OBVIOUS
<1>4. Cardinality({a} \cup {b}) <= Cardinality(S)
  BY <1>3, FS_Subset
<1>5. Cardinality(S) \in Nat
  BY FS_CardinalityType
<1> QED  BY <1>2, <1>4, <1>5

LEMMA InvCompact == TreeInv => TreeTypes /\ Compact
<1> SUFFICES ASSUME TreeInv PROVE TreeTypes /\ Compact
  OBVIOUS
<1>1. \A p \in DOMAIN tree : KeyOf(p) = KeyAt(tree, p)
  BY DEF KeyOf, KeyAt
<1>2. TreeTypes
  <2>1. \A p \in DOMAIN tree : tree[p].value \in Values \cup {NoValue}
    BY DEF TreeInv, Valued
  <2> QED  BY <1>1, <2>1 DEF TreeTypes, TreeInv, Good, Hangs
<1>3. ASSUME ~fails, NEW p \in DOMAIN tree, tree[p].value = NoValue
      PROVE  Cardinality({q \in DOMAIN tree : q # <<>> /\ Front(q) = KeyOf(p)}) >= 2
  <2> DEFINE S == {q \in DOMAIN tree : q # <<>> /\ Front(q) = KeyOf(p)}
  <2>1. PICK a, b \in DOMAIN tree : /\ a # b /\ a # <<>> /\ b # <<>>
                                    /\ Front(a) = KeyAt(tree, p) /\ Front(b) = KeyAt(tree, p)
    BY <1>3 DEF TreeInv, Dense, Forked
  <2>2. a \in S /\ b \in S
    BY <1>1, <2>1
  <2>3. IsFiniteSet(DOMAIN tree) /\ S \in SUBSET DOMAIN tree
    BY DEF TreeInv, Good
  <2>4. IsFiniteSet(S)
    BY <2>3, FS_Subset
  <2> HIDE DEF S
  <2>5. Cardinality(S) >= 2
    BY <2>1, <2>2, <2>4, TwoMembers
  <2> QED  BY <2>5 DEF S
<1> QED  BY <1>2, <1>3 DEF Compact

LEMMA InvPrefix == TreeInv => LpmOfPrefix
<1> SUFFICES ASSUME TreeInv, NEW key \in Keys, mig_radix_tree_lpm(tree, key) # NoValue
             PROVE  \E j \in Keys : /\ IsPrefix(j, key)
                                    /\ mig_radix_tree_lookup(tree, j) = mig_radix_tree_lpm(tree, key)
  BY DEF LpmOfPrefix
<1> DEFINE f == mig_radix_node_find(tree, key)
           p == f.slot
           here == p \in DOMAIN tree /\ f.soff = Len(tree[p].segment)
           ends == IF here THEN {p} ELSE f.prev
<1>1. key \in Seq(Octet) /\ Good(tree) /\ Valued(tree) /\ Shaped(tree)
  BY RadixTreeAssumption DEF TreeInv, Good
<1>2. Found(tree, key, f)
  BY <1>1, NodeFound
<1>3. here => KeyAt(tree, p) = key
  BY <1>1, SlotKey
<1>4. mig_radix_tree_lpm(tree, key) = IF ends = {} THEN NoValue ELSE tree[CHOOSE q \in ends : TRUE].value
  BY Zenon DEF mig_radix_tree_lpm
<1> HIDE DEF f
<1>5. PICK q \in DOMAIN tree : ends = {q} /\ Under(KeyAt(tree, q), key)
  <2>1. CASE here
    <3>1. Under(key, key)
      BY <1>1 DEF Under
    <3> QED  BY <1>3, <2>1, <3>1
  <2>2. CASE ~here
    <3>1. ends = f.prev
      BY <2>2
    <3>2. ends # {}
      BY <1>4
    <3>3. \E q \in DOMAIN tree : f.prev = {q} /\ Before(tree, key, q)
      BY <1>2, <3>1, <3>2, Zenon DEF Found
    <3> HIDE DEF ends
    <3> QED  BY <3>1, <3>3 DEF Before
  <2> QED  BY <2>1, <2>2
<1> HIDE DEF ends
<1>6. mig_radix_tree_lpm(tree, key) = tree[q].value
  BY <1>4, <1>5
<1>7. KeyAt(tree, q) \in Keys
  BY <1>1, <1>6 DEF Valued
<1>8. mig_radix_tree_lookup(tree, KeyAt(tree, q)) = tree[q].value
  BY <1>1, LookupAt
<1>9. IsPrefix(KeyAt(tree, q), key)
  <2> DEFINE w == KeyAt(tree, q)
  <2>1. w \in Seq(Octet) /\ Under(w, key)
    BY <1>5, <1>7, RadixTreeAssumption
  <2> HIDE DEF w
  <2>2. Len(w) <= Len(key) /\ w = Top(key, Len(w))
    BY <1>1, <2>1, UnderTop DEF Under
  <2>3. Under(w, w)
    BY <2>1 DEF Under
  <2>4. w = Top(w, Len(w))
    BY <2>1, <2>3, UnderTop
  <2>5. SubSeq(w, 1, Len(w)) = SubSeq(key, 1, Len(w))
    BY <2>2, <2>4 DEF Top
  <2>6. IsPrefix(w, key)
    BY <2>2, <2>5 DEF IsPrefix
  <2> QED  BY <2>6 DEF w
<1> QED  BY <1>6, <1>7, <1>8, <1>9

\* No key has a value in an empty tree.
LEMMA MapInit == TreeInit => Map!Init
<1> SUFFICES ASSUME TreeInit PROVE Map!Init
  OBVIOUS
<1>1. Good(tree)
  BY TreeInvInit DEF TreeInv
<1>2. DOMAIN tree = {}
  BY DEF TreeInit, TreeStarts, mig_radix_tree_create
<1>3. ASSUME NEW k \in Keys PROVE mig_radix_tree_lookup(tree, k) = NoValue
  BY <1>1, <1>2, LookupIs, RadixTreeAssumption
<1> QED  BY <1>3 DEF Map!Init

\* An insertion is one of the map.
LEMMA MapSteps == TreeInv /\ [TreeNext]_treevars => MapStep
<1> SUFFICES ASSUME TreeInv, [TreeNext]_treevars PROVE MapStep
  OBVIOUS
<1> DEFINE map(t) == [k \in Keys |-> mig_radix_tree_lookup(t, k)]
           same == \A k \in Keys : mig_radix_tree_lookup(tree', k) = mig_radix_tree_lookup(tree, k)
<1>1. Keys \subseteq Seq(Octet)
  BY RadixTreeAssumption
<1>2. ASSUME same PROVE MapStep
  <2>1. [k \in Keys |-> mig_radix_tree_lookup(tree', k)] = [k \in Keys |-> mig_radix_tree_lookup(tree, k)]
    BY <1>2
  <2> QED  BY <2>1 DEF MapStep
<1>3. CASE UNCHANGED treevars
  <2>1. tree' = tree
    BY <1>3 DEF treevars
  <2> QED  BY <1>2, <2>1
<1>4. CASE TreeNext
  <2>1. PICK key \in Keys, value \in Values : mig_radix_tree_insert(key, value)
    BY <1>4 DEF TreeNext
  <2>2. Good(tree) /\ Valued(tree)
    BY DEF TreeInv
  <2>3. Kept(tree, tree') \/ Put(tree, tree', key, value)
    BY <2>1, <2>2, Inserts
  <2>4. CASE Kept(tree, tree')
    <3>1. same
      BY <1>1, <2>4 DEF Kept
    <3> QED  BY <1>2, <3>1
  <2>5. CASE Put(tree, tree', key, value)
    <3>1. /\ mig_radix_tree_lookup(tree', key) = value
          /\ \A k \in Keys : k # key => mig_radix_tree_lookup(tree', k) = mig_radix_tree_lookup(tree, k)
      BY <1>1, <2>5 DEF Put
    <3>2. CASE mig_radix_tree_lookup(tree, key) = value
      <4>1. same
        BY <3>1, <3>2
      <4> QED  BY <1>2, <4>1
    <3>3. CASE mig_radix_tree_lookup(tree, key) # value
      <4>1. {<<k, mig_radix_tree_lookup(tree', k)>> :
               k \in {j \in Keys : mig_radix_tree_lookup(tree', j) # mig_radix_tree_lookup(tree, j)}}
            = {<<key, value>>}
        <5>1. {j \in Keys : mig_radix_tree_lookup(tree', j) # mig_radix_tree_lookup(tree, j)} = {key}
          BY <3>1, <3>3
        <5> QED  BY <3>1, <5>1
      <4>2. Map!Added = {<<key, value>>}
        BY <4>1 DEF Map!Added
      <4>3. Map!Next
        BY <4>2 DEF Map!Next
      <4> QED  BY <4>3 DEF MapStep
    <3> QED  BY <3>2, <3>3
  <2> QED  BY <2>3, <2>4, <2>5
<1> QED  BY <1>3, <1>4

\* The radix tree is a map, for whatever keys and values and in whatever order
\* they are inserted.
THEOREM TreeIsMap == TreeSpec => IsMap
<1>1. TreeInv => TreeTypes /\ Compact /\ LpmOfPrefix
  BY InvCompact, InvPrefix
<1> QED  BY <1>1, TreeInvInit, TreeInvStep, MapInit, MapSteps, PTL DEF TreeSpec, IsMap

-----------------------------------------------------------------------------
(* Multiples of a unit. *)

LEMMA Quotient ==
  ASSUME NEW k \in Int, NEW p \in Nat \ {0}
  PROVE  (k * p) \div p = k /\ (k * p) % p = 0
OBVIOUS

LEMMA MultiplesOrdered ==
  ASSUME NEW j \in Int, NEW k \in Int, NEW p \in Nat \ {0}
  PROVE  /\ j <= k <=> j * p <= k * p
         /\ j < k <=> j * p < k * p
OBVIOUS

LEMMA MultiplesAdd ==
  ASSUME NEW j \in Int, NEW k \in Int, NEW p \in Int
  PROVE  /\ j * p \in Int
         /\ (j + k) * p = j * p + k * p /\ (j - k) * p = j * p - k * p
         /\ (j + 1) * p = j * p + p /\ (j - 1) * p = j * p - p
         /\ (-1) * p = -p /\ 0 * p = 0 /\ 1 * p = p
OBVIOUS

\* Rounding up takes a whole number of units, none of them for nothing.
LEMMA RoundsUp ==
  ASSUME NEW n \in Nat \ {0}, NEW u \in Nat \ {0}
  PROVE  CeilTo(n, u) \in Nat \ {0} /\ CeilTo(n, u) >= n /\ CeilTo(n, u) - n < u
<1> DEFINE a == n + u - 1
<1>1. a \in Nat
  OBVIOUS
<1>2. a \div u \in Int /\ a % u \in 0 .. u - 1 /\ a = (u * (a \div u)) + (a % u)
  BY <1>1
<1>3. CeilTo(n, u) = u * (a \div u) /\ u * (a \div u) \in Int
  <2>1. \A q \in Int : q * u = u * q /\ u * q \in Int
    OBVIOUS
  <2> QED  BY <1>2, <2>1 DEF CeilTo
<1>4. CeilTo(n, u) \in Int /\ n + u - 1 = CeilTo(n, u) + (a % u)
  BY <1>2, <1>3
<1> HIDE DEF a
<1> QED  BY <1>2, <1>4

-----------------------------------------------------------------------------
(* What is in the block, up to the top. *)

UpTo(m, k) == [n \in 1 .. k + 1 |-> m[n - 1]]

\* A block of s cells, of which those up to k are in use.
HeldItems == Items \cup {Junk}
InUse(m, s, k) == s \in Nat /\ m \in [0 .. s - 1 -> HeldItems] /\ k \in Int /\ -1 <= k /\ k < s

\* u is the sequence of them.
Lists(u, m, k) ==
  /\ u \in Seq(HeldItems) /\ Len(u) = k + 1 /\ DOMAIN u = 1 .. k + 1
  /\ \A n \in 1 .. k + 1 : u[n] = m[n - 1]
  /\ (u = <<>>) <=> k = -1

\* Reading through offsets reads the items.
LEMMA ReadsItems ==
  ASSUME NEW m, NEW s \in Nat, NEW k \in Int, NEW p \in Nat \ {0},
         DOMAIN m = 0 .. s - 1, -1 <= k, k < s
  PROVE  [n \in 1 .. ((k * p) \div p) + 1 |->
            IF ((n - 1) * p) \div p \in DOMAIN m THEN m[((n - 1) * p) \div p] ELSE Outside]
         = UpTo(m, k)
<1>1. (k * p) \div p = k
  BY Quotient
<1>2. ASSUME NEW n \in 1 .. k + 1
      PROVE  ((n - 1) * p) \div p = n - 1 /\ n - 1 \in DOMAIN m
  <2>1. PICK j \in Int : j = n - 1
    OBVIOUS
  <2> QED  BY <2>1, Quotient
<1> QED  BY <1>1, <1>2 DEF UpTo

LEMMA UpToSeq ==
  ASSUME NEW m, NEW s, NEW k, InUse(m, s, k)
  PROVE  Lists(UpTo(m, k), m, k)
<1>1. \A n \in 1 .. k + 1 : m[n - 1] \in HeldItems
  BY DEF InUse
<1>2. k + 1 \in Nat /\ k \in Int
  BY DEF InUse
<1>3. UpTo(m, k) \in [1 .. k + 1 -> HeldItems]
  BY <1>1 DEF UpTo
<1>4. UpTo(m, k) \in Seq(HeldItems) /\ Len(UpTo(m, k)) = k + 1
  BY <1>2, <1>3
<1>5. (UpTo(m, k) = <<>>) <=> k = -1
  BY <1>2, <1>4, EmptySeq
<1>6. \A n \in 1 .. k + 1 : UpTo(m, k)[n] = m[n - 1]
  BY DEF UpTo
<1> QED  BY <1>3, <1>4, <1>5, <1>6 DEF Lists

\* One more cell with an item is one more item.
Adds(n, m, k, v)    == n[k + 1] = v /\ \A i \in 0 .. k : n[i] = m[i]
Appends(n, m, k, v) == UpTo(n, k + 1) = Append(UpTo(m, k), v)

LEMMA UpToAppend ==
  ASSUME NEW m, NEW s, NEW k, InUse(m, s, k), NEW n, NEW v \in HeldItems, Adds(n, m, k, v)
  PROVE  Appends(n, m, k, v)
<1> DEFINE u == UpTo(m, k)
           w == Append(u, v)
<1>1. Lists(u, m, k)
  BY UpToSeq, Zenon
<1>2. n[k + 1] = v /\ \A i \in 1 .. k + 1 : n[i - 1] = m[i - 1]
  BY DEF InUse, Adds
<1> HIDE DEF u
<1>3. /\ w \in Seq(HeldItems) /\ Len(w) = Len(u) + 1 /\ w[Len(u) + 1] = v
      /\ \A i \in 1 .. Len(u) : w[i] = u[i]
  <2>1. u \in Seq(HeldItems)
    BY <1>1 DEF Lists
  <2> QED  BY <2>1, AppendProperties
<1> HIDE DEF w
<1>4. k \in Int /\ Len(w) = k + 2 /\ Len(u) = k + 1
  BY <1>1, <1>3 DEF Lists, InUse
<1>5. w = [i \in 1 .. k + 2 |-> w[i]]
  BY <1>3, <1>4
<1>6. \A i \in 1 .. k + 2 : w[i] = n[i - 1]
  BY <1>1, <1>2, <1>3, <1>4 DEF Lists
<1>7. UpTo(n, k + 1) = [i \in 1 .. k + 2 |-> n[i - 1]]
  BY <1>4 DEF UpTo
<1> QED  BY <1>5, <1>6, <1>7 DEF u, w, Appends

\* Fewer items are the first ones of a sequence.
CutsTo(m, k, j) == UpTo(m, j) = SubSeq(UpTo(m, k), 1, j + 1)

LEMMA UpToCut ==
  ASSUME NEW m, NEW s, NEW k, InUse(m, s, k), NEW j, InUse(m, s, j), j <= k
  PROVE  CutsTo(m, k, j)
<1> DEFINE u == UpTo(m, k)
<1>1. Lists(u, m, k)
  BY UpToSeq, Zenon
<1> HIDE DEF u
<1>2. k \in Int /\ u \in Seq(HeldItems) /\ Len(u) = k + 1 /\ \A i \in 1 .. k + 1 : u[i] = m[i - 1]
  BY <1>1 DEF Lists, InUse
<1>3. SubSeq(u, 1, j + 1) = [i \in 1 .. j + 1 |-> u[i]]
  BY <1>2 DEF InUse
<1> QED  BY <1>2, <1>3 DEF u, UpTo, InUse, CutsTo

LEMMA UpToAgree ==
  ASSUME NEW m, NEW n, NEW k \in Int, \A i \in 0 .. k : n[i] = m[i]
  PROVE  UpTo(n, k) = UpTo(m, k)
<1>1. \A i \in 1 .. k + 1 : n[i - 1] = m[i - 1]
  OBVIOUS
<1> QED  BY <1>1 DEF UpTo

LEMMA UpToPut ==
  ASSUME NEW m, NEW s, NEW k, InUse(m, s, k), NEW i \in 0 .. k, NEW v
  PROVE  UpTo([m EXCEPT ![i] = v], k) = [UpTo(m, k) EXCEPT ![i + 1] = v]
<1> DEFINE w == [m EXCEPT ![i] = v]
<1>1. ASSUME NEW j \in 1 .. k + 1 PROVE w[j - 1] = IF j = i + 1 THEN v ELSE m[j - 1]
  BY DEF InUse
<1> HIDE DEF w
<1>2. UpTo(w, k) = [j \in 1 .. k + 1 |-> IF j = i + 1 THEN v ELSE m[j - 1]]
  BY <1>1 DEF UpTo
<1>3. [UpTo(m, k) EXCEPT ![i + 1] = v]
      = [j \in 1 .. k + 1 |-> IF j = i + 1 THEN v ELSE m[j - 1]]
  BY DEF UpTo, InUse
<1> QED  BY <1>2, <1>3 DEF w

-----------------------------------------------------------------------------
(* The invariant. *)

\* A unit is as large as an item and not much larger.
LEMMA Units ==
  ASSUME NEW c \in Configs
  PROVE  /\ PaddedOf(c) \in Nat \ {0} /\ PaddedOf(c) >= c.itemSize
         /\ PaddedOf(c) - c.itemSize < AlignmentOf(c.alignment)
<1>1. /\ c.itemSize \in Nat \ {0} /\ c.alignment \in Nat \ {0}
      /\ Word \in {1, 2, 4, 8, 16}
  BY DynArrayAssumption DEF ConfigOK, PowersOfTwo
<1>2. AlignmentOf(c.alignment) \in Nat \ {0}
  <2>1. CASE c.alignment < Word
    <3>1. \E p \in {1, 2, 4, 8, 16} : p >= c.alignment /\ p < 2 * c.alignment
      BY <1>1, <2>1
    <3> QED  BY <2>1, <3>1 DEF AlignmentOf, PowersOfTwo
  <2>2. CASE ~(c.alignment < Word)
    <3>1. CeilTo(c.alignment, Word) \in Nat \ {0}
      BY <1>1, RoundsUp
    <3> QED  BY <2>2, <3>1 DEF AlignmentOf
  <2> QED  BY <2>1, <2>2
<1> QED  BY <1>1, <1>2, RoundsUp DEF PaddedOf

\* The top is item k and the block has room for s; k is -1 when there is no item.
Placed(k, s) ==
  /\ k \in Int /\ s \in Nat /\ -1 <= k
  /\ sp = k * padded_size /\ dynarray_size = s * padded_size
  /\ conf.icount <= s
  /\ Sound => base = "block" /\ DOMAIN mem = 0 .. s - 1 /\ k < s

Block ==
  /\ conf \in Configs
  /\ MaySucceed(dynarray_size)
  /\ base \in {"null", "block", "freed"} /\ aligned \in BOOLEAN
  /\ mem \in [DOMAIN mem -> HeldItems]

AInv == Block /\ \E k \in Int, s \in Nat : Placed(k, s)

\* What an operation owes.
KeptItems ==
  out' = Refused /\ base' # "freed" => \A n \in 1 .. mig_dynarray_len : Item(n)' = Item(n)
Preserved == AInv' /\ Stack!Next /\ KeptItems

\* What is known of a configuration.
LEMMA Configured ==
  ASSUME conf \in Configs
  PROVE  /\ padded_size \in Nat \ {0}
         /\ conf.chunk \in Nat \ {0} /\ conf.icount \in Nat
         /\ (MaxItems + conf.chunk) * padded_size < SizeLimit \div 2
         /\ SizeLimit \in Nat /\ MaxItems \in Nat
         /\ SizeLimit \div 2 \in Nat /\ 2 * (SizeLimit \div 2) <= SizeLimit
<1>1. SizeLimit \in Nat /\ MaxItems \in Nat
  BY DynArrayAssumption
<1>2. SizeLimit \div 2 \in Nat /\ 2 * (SizeLimit \div 2) <= SizeLimit
  BY <1>1
<1>3. ConfigOK(conf) /\ FitsInMemory(conf)
  BY DynArrayAssumption
<1> QED
  BY <1>1, <1>2, <1>3, Units DEF ConfigOK, FitsInMemory, MaySucceed, padded_size

\* As long as the configuration stays, so does what it determines.
LEMMA ConfStays ==
  ASSUME UNCHANGED conf
  PROVE  padded_size' = padded_size /\ Sound' = Sound /\ alignment' = alignment
BY DEF padded_size, PaddedOf, AlignmentOf, CeilTo, Sound, alignment

\* The cells of a block of whole units.
LEMMA CellsOf ==
  ASSUME conf \in Configs, NEW s \in Int
  PROVE  Cells(s * padded_size) = 0 .. s - 1
BY Configured, Quotient DEF Cells

\* The contents, before and after.
LEMMA ContentsAre ==
  ASSUME conf \in Configs, NEW k, NEW s, Placed(k, s), Sound
  PROVE  Contents = UpTo(mem, k) /\ mig_dynarray_len = k + 1
<1>1. padded_size \in Nat \ {0} /\ k \in Int /\ s \in Nat /\ -1 <= k /\ k < s
      /\ DOMAIN mem = 0 .. s - 1 /\ sp = k * padded_size
  BY Configured DEF Placed
<1>2. [n \in 1 .. ((k * padded_size) \div padded_size) + 1 |->
         IF ((n - 1) * padded_size) \div padded_size \in DOMAIN mem
         THEN mem[((n - 1) * padded_size) \div padded_size] ELSE Outside] = UpTo(mem, k)
  BY <1>1, ReadsItems
<1>3. Contents = UpTo(mem, k)
  BY <1>1, <1>2 DEF Contents, mig_dynarray_len, Item, Cell
<1> QED  BY <1>1, <1>3, Quotient DEF mig_dynarray_len

LEMMA ContentsWillBe ==
  ASSUME conf \in Configs, UNCHANGED conf, NEW k, NEW s, Placed(k, s)', Sound
  PROVE  Contents' = UpTo(mem', k)
<1>1. padded_size \in Nat \ {0} /\ k \in Int /\ s \in Nat /\ -1 <= k /\ k < s
      /\ DOMAIN mem' = 0 .. s - 1 /\ sp' = k * padded_size
  BY Configured, ConfStays DEF Placed
<1>2. [n \in 1 .. ((k * padded_size) \div padded_size) + 1 |->
         IF ((n - 1) * padded_size) \div padded_size \in DOMAIN mem'
         THEN mem'[((n - 1) * padded_size) \div padded_size] ELSE Outside] = UpTo(mem', k)
  BY <1>1, ReadsItems
<1> QED  BY <1>1, <1>2, ConfStays DEF Contents, mig_dynarray_len, Item, Cell

\* The items are in the block.
LEMMA UsedCells ==
  ASSUME Block, NEW k, NEW s, Placed(k, s), Sound
  PROVE  InUse(mem, s, k) /\ DOMAIN mem = 0 .. s - 1
BY DEF Block, Placed, InUse

\* The size of the block after growing, and after shrinking.
LEMMA Grown ==
  ASSUME conf \in Configs, MaySucceed(dynarray_size), NEW k, NEW s, Placed(k, s)
  PROVE  /\ GrownSize = (s + conf.chunk) * padded_size
         /\ s < MaxItems => MaySucceed(GrownSize)
<1> DEFINE p == padded_size
           c == conf.chunk
           h == SizeLimit \div 2
<1>1. /\ p \in Nat \ {0} /\ c \in Nat /\ h \in Nat /\ 2 * h <= SizeLimit /\ SizeLimit \in Nat
      /\ MaxItems \in Nat /\ (MaxItems + c) * p < h
      /\ s \in Nat /\ dynarray_size = s * p /\ s * p < h
  BY Configured DEF Placed, MaySucceed
<1>2. GrownSize = (dynarray_size + c * p) % SizeLimit
  BY DEF GrownSize, Unsigned
<1>3. (s < MaxItems => MaySucceed(GrownSize)) <=> (s < MaxItems => GrownSize < h)
  BY DEF MaySucceed
<1> HIDE DEF p, c, h
<1>4. (s + c) * p = s * p + c * p /\ c * p \in Int /\ s * p \in Int
  BY <1>1, MultiplesAdd
<1>5. c * p <= (MaxItems + c) * p
  BY <1>1, MultiplesOrdered
<1>6. 0 <= s * p /\ 0 <= c * p
  BY <1>1
<1>7. (MaxItems + c) * p \in Int
  BY <1>1
<1>8. GrownSize = s * p + c * p
  BY <1>1, <1>2, <1>4, <1>5, <1>6, <1>7
<1>9. ASSUME s < MaxItems PROVE GrownSize < h
  <2>1. (s + c) * p <= (MaxItems + c) * p
    BY <1>1, <1>9, MultiplesOrdered
  <2> QED  BY <1>1, <1>4, <1>7, <1>8, <2>1
<1> QED  BY <1>3, <1>4, <1>8, <1>9 DEF p, c

LEMMA Shrunk ==
  ASSUME conf \in Configs, MaySucceed(dynarray_size), NEW k, NEW s, Placed(k, s),
         MaySucceed(ShrunkSize)
  PROVE  conf.chunk <= s /\ ShrunkSize = (s - conf.chunk) * padded_size
<1> DEFINE p == padded_size
           c == conf.chunk
           h == SizeLimit \div 2
<1>1. /\ p \in Nat \ {0} /\ c \in Nat /\ h \in Nat /\ 2 * h <= SizeLimit /\ SizeLimit \in Nat
      /\ MaxItems \in Nat /\ (MaxItems + c) * p < h
      /\ s \in Nat /\ dynarray_size = s * p /\ s * p < h
  BY Configured DEF Placed, MaySucceed
<1>2. ShrunkSize = (dynarray_size - c * p) % SizeLimit /\ ShrunkSize < h
  BY DEF ShrunkSize, Unsigned, MaySucceed
<1> HIDE DEF p, c, h
<1>4. (s - c) * p = s * p - c * p /\ c * p \in Int /\ s * p \in Int
  BY <1>1, MultiplesAdd
<1>5. c * p <= (MaxItems + c) * p
  BY <1>1, MultiplesOrdered
<1>6. 0 <= s * p /\ 0 <= c * p /\ (MaxItems + c) * p \in Int
  BY <1>1
<1>7. c <= s
  <2> SUFFICES ASSUME s < c PROVE FALSE
    BY <1>1
  <2>1. s * p < c * p
    BY <1>1, MultiplesOrdered
  <2> DEFINE d == s * p - c * p
  <2>2. d \in Int /\ d < 0 /\ -h < d
    BY <1>1, <1>4, <1>5, <1>6, <2>1
  <2>3. d % SizeLimit < h
    BY <1>1, <1>2
  <2> HIDE DEF d
  <2>4. d % SizeLimit = d + SizeLimit
    BY <1>1, <2>2
  <2> QED  BY <1>1, <2>2, <2>3, <2>4
<1>8. c * p <= s * p
  BY <1>1, <1>7, MultiplesOrdered
<1>9. ShrunkSize = s * p - c * p
  BY <1>1, <1>2, <1>4, <1>6, <1>8
<1> QED  BY <1>4, <1>7, <1>9 DEF p, c

-----------------------------------------------------------------------------
(* The operations. *)

\* What a write and a resizing leave in the block.
LEMMA WritesItems ==
  ASSUME NEW m, m \in [DOMAIN m -> HeldItems], NEW o, NEW v \in Items
  PROVE  /\ Written(m, o, v) \in [DOMAIN m -> HeldItems] /\ DOMAIN Written(m, o, v) = DOMAIN m
         /\ o \div padded_size \in DOMAIN m =>
              Written(m, o, v) = [m EXCEPT ![o \div padded_size] = v]
BY DEF Written, HeldItems

LEMMA ResizesItems ==
  ASSUME Block, NEW bytesIn
  PROVE  /\ Resized(bytesIn) \in [Cells(bytesIn) -> HeldItems] /\ DOMAIN Resized(bytesIn) = Cells(bytesIn)
         /\ \A n \in Cells(bytesIn) \cap DOMAIN mem : Resized(bytesIn)[n] = mem[n]
<1>1. \A n \in DOMAIN mem : mem[n] \in HeldItems
  BY DEF Block
<1> QED  BY <1>1 DEF Resized, HeldItems

\* A configuration that is not sound says nothing of the stack.
LEMMA NotSound ==
  ASSUME UNCHANGED conf, ~Sound
  PROVE  Stack!Next
BY ConfStays DEF Contents, Returned, Stack!Next, Stack!Refuse

\* An operation that leaves the block and the position alone.
LEMMA Looks ==
  ASSUME AInv, UNCHANGED <<conf, block, sp>>
  PROVE  AInv' /\ KeptItems /\ Contents' = Contents
<1>1. AInv'
  BY ConfStays DEF AInv, Block, Placed, block, MaySucceed
<1>2. KeptItems
  BY ConfStays DEF KeptItems, Item, Cell, block
<1>3. Contents' = Contents
  BY ConfStays DEF Contents, mig_dynarray_len, Item, Cell, block
<1> QED  BY <1>1, <1>2, <1>3

LEMMA Refuses ==
  ASSUME AInv, UNCHANGED <<conf, block, sp>>, out' = Refused
  PROVE  Preserved
BY Looks, ConfStays DEF Preserved, Stack!Next, Stack!Refuse, Returned

\* The item on the top, and any other.
LEMMA ItemRead ==
  ASSUME conf \in Configs, Block, NEW k, NEW s, Placed(k, s), Sound, NEW i \in 0 .. k
  PROVE  /\ i + 1 \in DOMAIN Contents
         /\ Cell(i * padded_size) = Contents[i + 1] /\ i \in DOMAIN mem
         /\ Len(Contents) = k + 1 /\ Contents # <<>>
<1>1. padded_size \in Nat \ {0} /\ k \in Int /\ s \in Nat /\ -1 <= k /\ k < s
      /\ DOMAIN mem = 0 .. s - 1
  BY Configured DEF Placed
<1>2. Lists(UpTo(mem, k), mem, k)
  BY UsedCells, UpToSeq
<1>3. /\ Len(UpTo(mem, k)) = k + 1 /\ DOMAIN UpTo(mem, k) = 1 .. k + 1
      /\ \A n \in 1 .. k + 1 : UpTo(mem, k)[n] = mem[n - 1]
      /\ (UpTo(mem, k) = <<>>) <=> k = -1
  BY <1>2 DEF Lists
<1>4. Contents = UpTo(mem, k)
  BY ContentsAre
<1>5. Cell(i * padded_size) = mem[i] /\ i \in DOMAIN mem
  BY <1>1, Quotient DEF Cell
<1> QED  BY <1>1, <1>3, <1>4, <1>5

\* An index that is in range is that of an item.
LEMMA IndexInRange ==
  ASSUME conf \in Configs, MaySucceed(dynarray_size), NEW k, NEW s, Placed(k, s),
         Sound, ~IsEmpty, NEW i \in 0 .. MaxItems
  PROVE  InRange(i) <=> i \in 0 .. k
<1> DEFINE p == padded_size
           c == conf.chunk
           h == SizeLimit \div 2
<1>1. /\ p \in Nat \ {0} /\ c \in Nat /\ h \in Nat /\ 2 * h <= SizeLimit /\ SizeLimit \in Nat
      /\ MaxItems \in Nat /\ (MaxItems + c) * p < h
      /\ s \in Nat /\ k \in Int /\ dynarray_size = s * p /\ s * p < h /\ k < s
      /\ sp = k * p /\ ~(sp < 0)
  BY Configured DEF Placed, MaySucceed, IsEmpty
<1>2. InRange(i) <=> (i * p) % SizeLimit <= sp % SizeLimit
  BY DEF InRange, Unsigned
<1> HIDE DEF p, c, h
<1>3. k * p < s * p /\ i * p <= (MaxItems + c) * p
  BY <1>1, MultiplesOrdered
<1>4. i * p \in Nat /\ k * p \in Int /\ s * p \in Int /\ (MaxItems + c) * p \in Int
  BY <1>1
<1>5. (i * p) % SizeLimit = i * p /\ sp % SizeLimit = sp
  BY <1>1, <1>3, <1>4
<1>6. i * p <= k * p <=> i <= k
  BY <1>1, MultiplesOrdered
<1> QED  BY <1>1, <1>2, <1>5, <1>6

LEMMA PeekKeeps ==
  ASSUME AInv, UNCHANGED conf, Peek
  PROVE  Preserved
<1>1. PICK k \in Int, s \in Nat : Placed(k, s)
  BY DEF AInv
<1>2. AInv' /\ KeptItems /\ Contents' = Contents
  BY Looks DEF Peek
<1>3. CASE Sound
  <2>1. padded_size \in Nat \ {0} /\ sp = k * padded_size /\ -1 <= k
    BY <1>1, Configured DEF Placed, AInv, Block
  <2>2. k \in 0 .. k
    BY <2>1, MultiplesOrdered, MultiplesAdd DEF Peek
  <2>3. Len(Contents) = k + 1 /\ Cell(sp) = Contents[k + 1] /\ Contents # <<>>
    BY <1>1, <1>3, <2>1, <2>2, ItemRead DEF AInv, Block
  <2>4. Returned' = <<Contents[Len(Contents)]>>
    BY <1>3, <2>3, ConfStays DEF Returned, Peek
  <2> QED  BY <1>2, <2>3, <2>4 DEF Preserved, Stack!Next, Stack!Peek
<1> QED  BY <1>2, <1>3, NotSound DEF Preserved

LEMMA GetKeeps ==
  ASSUME AInv, UNCHANGED conf, NEW i \in 0 .. MaxItems, Get(i)
  PROVE  Preserved
<1>1. PICK k \in Int, s \in Nat : Placed(k, s)
  BY DEF AInv
<1>2. AInv' /\ KeptItems /\ Contents' = Contents
  BY Looks DEF Get
<1>3. CASE Sound /\ InRange(i)
  <2>1. i \in 0 .. k
    BY <1>1, <1>3, IndexInRange DEF AInv, Block, Get, Sound
  <2>2. Cell(i * padded_size) = Contents[i + 1] /\ i + 1 \in DOMAIN Contents
    BY <1>1, <1>3, <2>1, ItemRead DEF AInv, Block
  <2>3. Returned' = <<Contents[i + 1]>>
    BY <1>3, <2>2, ConfStays DEF Returned, Get
  <2> QED  BY <1>2, <2>2, <2>3 DEF Preserved, Stack!Next, Stack!Get
<1>4. CASE ~InRange(i)
  BY <1>4, Refuses DEF Get
<1> QED  BY <1>2, <1>3, <1>4, NotSound DEF Preserved

LEMMA ToArrayKeeps ==
  ASSUME AInv, UNCHANGED conf, ToArray
  PROVE  Preserved
<1>1. AInv' /\ KeptItems /\ Contents' = Contents
  BY Looks DEF ToArray
<1>2. CASE Sound
  <2>1. Returned' = Contents
    BY <1>2, ConfStays DEF Returned, Contents, ToArray
  <2> QED  BY <1>1, <2>1 DEF Preserved, Stack!Next, Stack!CopyOut
<1> QED  BY <1>1, <1>2, NotSound DEF Preserved

LEMMA PopKeeps ==
  ASSUME AInv, UNCHANGED conf, Pop
  PROVE  Preserved
<1> DEFINE p == padded_size
<1>1. PICK k \in Int, s \in Nat : Placed(k, s)
  BY DEF AInv
<1>2. p \in Nat \ {0} /\ sp = k * p /\ ~(sp < 0) /\ sp \in Int /\ sp' = sp - p /\ conf \in Configs
  <2>1. p \in Nat \ {0} /\ sp = k * p /\ conf \in Configs
    BY <1>1, Configured DEF Placed, AInv, Block
  <2> QED  BY <2>1 DEF Pop
<1>3. 0 <= k /\ sp' = (k - 1) * p
  <2> HIDE DEF p
  <2> QED  BY <1>2, MultiplesOrdered, MultiplesAdd
<1>4. Placed(k - 1, s)'
  BY <1>1, <1>3, ConfStays DEF Placed, Pop, block
<1>5. AInv'
  BY <1>1, <1>4, ConfStays DEF AInv, Block, Pop, block, MaySucceed, Placed
<1>6. KeptItems
  BY ConfStays DEF KeptItems, Item, Cell, block, Pop
<1>7. CASE Sound
  <2>1. k \in 0 .. k
    BY <1>3
  <2>2. Len(Contents) = k + 1 /\ Cell(sp) = Contents[k + 1] /\ Contents # <<>>
    BY <1>1, <1>2, <1>7, <2>1, ItemRead DEF AInv, Block
  <2>3. Returned' = <<Contents[Len(Contents)]>>
    BY <1>7, <2>2, ConfStays DEF Returned, Pop
  <2>4. Contents = UpTo(mem, k) /\ Contents' = UpTo(mem, k - 1)
    <3>1. mem' = mem
      BY DEF Pop, block
    <3> QED  BY <1>1, <1>2, <1>4, <1>7, <3>1, ContentsAre, ContentsWillBe
  <2>5. Contents' = SubSeq(Contents, 1, Len(Contents) - 1)
    <3>1. InUse(mem, s, k)
      BY <1>1, <1>7, UsedCells DEF AInv
    <3>2. CutsTo(mem, k, k - 1)
      <4>1. InUse(mem, s, k - 1) /\ k - 1 <= k
        BY <1>3, <3>1 DEF InUse
      <4> QED  BY <3>1, <4>1, UpToCut, Zenon
    <3>3. Len(Contents) - 1 = (k - 1) + 1
      BY <1>1, <2>2
    <3> QED  BY <2>4, <3>2, <3>3 DEF CutsTo
  <2> QED  BY <1>5, <1>6, <2>2, <2>3, <2>5 DEF Preserved, Stack!Next, Stack!Pop
<1> QED  BY <1>5, <1>6, <1>7, NotSound DEF Preserved

\* A value is not a refusal.
LEMMA ValueReturned ==
  ASSUME NEW v \in Items
  PROVE  <<v>> # Refused /\ <<>> # Refused
BY DynArrayAssumption

LEMMA SetKeeps ==
  ASSUME AInv, UNCHANGED conf, NEW i \in 0 .. MaxItems, NEW v \in Items, Set(i, v)
  PROVE  Preserved
<1>1. PICK k \in Int, s \in Nat : Placed(k, s)
  BY DEF AInv
<1>2. CASE ~InRange(i)
  BY <1>2, Refuses DEF Set, block
<1>3. CASE InRange(i)
  <2>1. /\ UNCHANGED <<dynarray_size, base, aligned, sp>> /\ out' = <<v>>
        /\ mem' = Written(mem, i * padded_size, v)
    BY <1>3 DEF Set
  <2>2. mem' \in [DOMAIN mem' -> HeldItems] /\ DOMAIN mem' = DOMAIN mem
    BY <2>1, WritesItems DEF AInv, Block
  <2>3. AInv' /\ Placed(k, s)'
    BY <1>1, <2>1, <2>2, ConfStays DEF AInv, Block, MaySucceed, Placed
  <2>4. KeptItems
    BY <2>1, ValueReturned DEF KeptItems
  <2>5. CASE Sound
    <3>1. conf \in Configs /\ InUse(mem, s, k)
      BY <1>1, <2>5, UsedCells DEF AInv, Block
    <3>2. i \in 0 .. k
      BY <1>1, <1>3, <2>5, IndexInRange DEF AInv, Block, Set, Sound
    <3>3. i + 1 \in DOMAIN Contents /\ i \in DOMAIN mem
      BY <1>1, <2>5, <3>2, ItemRead DEF AInv, Block
    <3>4. (i * padded_size) \div padded_size = i
      BY <3>1, Configured, Quotient
    <3>5. mem' = [mem EXCEPT ![i] = v]
      BY <2>1, <3>3, <3>4, WritesItems DEF AInv, Block
    <3>6. Contents = UpTo(mem, k) /\ Contents' = UpTo(mem', k)
      BY <1>1, <2>3, <2>5, <3>1, ContentsAre, ContentsWillBe
    <3>7. Contents' = [Contents EXCEPT ![i + 1] = v]
      <4>1. UpTo([mem EXCEPT ![i] = v], k) = [UpTo(mem, k) EXCEPT ![i + 1] = v]
        BY <3>1, <3>2, UpToPut
      <4> QED  BY <3>5, <3>6, <4>1
    <3>8. Returned' = <<v>>
      BY <2>1, <2>5, ConfStays DEF Returned
    <3> QED  BY <2>3, <2>4, <3>3, <3>7, <3>8 DEF Preserved, Stack!Next, Stack!Put
  <2> QED  BY <2>3, <2>4, <2>5, NotSound DEF Preserved
<1> QED  BY <1>2, <1>3

LEMMA GrowByHandKeeps ==
  ASSUME AInv, UNCHANGED conf, GrowByHand
  PROVE  Preserved
<1>1. PICK k \in Int, s \in Nat : Placed(k, s)
  BY DEF AInv
<1>2. CASE GrowFails /\ out' = Refused
  BY <1>2, Refuses DEF GrowByHand, GrowFails
<1>3. CASE Grow(Resized(GrownSize)) /\ out' = <<>>
  <2>0. PICK t \in Int : t = s + conf.chunk
    <3>1. conf \in Configs
      BY DEF AInv, Block
    <3>2. s \in Nat /\ conf.chunk \in Nat
      BY <3>1, Configured
    <3> QED  BY <3>2
  <2>1. /\ mem' = Resized(t * padded_size) /\ dynarray_size' = t * padded_size
        /\ base' = "block" /\ aligned' \in BOOLEAN /\ sp' = sp /\ MaySucceed(dynarray_size')
    BY <1>1, <1>3, <2>0, Grown DEF AInv, Block, Grow, GrowByHand
  <2>2. t \in Nat /\ s < t /\ conf \in Configs /\ conf.icount \in Nat /\ conf.icount <= s
    <3>1. conf \in Configs /\ conf.icount <= s /\ s \in Nat
      BY <1>1 DEF AInv, Block, Placed
    <3>2. conf.chunk \in Nat \ {0} /\ conf.icount \in Nat
      BY <3>1, Configured
    <3> QED  BY <2>0, <3>1, <3>2
  <2>3. /\ mem' \in [DOMAIN mem' -> HeldItems] /\ DOMAIN mem' = 0 .. t - 1
        /\ \A n \in (0 .. t - 1) \cap DOMAIN mem : mem'[n] = mem[n]
    <3>1. Cells(t * padded_size) = 0 .. t - 1 /\ Block
      BY <2>2, CellsOf DEF AInv
    <3> QED  BY <2>1, <3>1, ResizesItems
  <2>4. AInv' /\ Placed(k, t)'
    <3>1. conf.icount <= t /\ (Sound => k < t)
      BY <1>1, <2>2 DEF Placed
    <3>2. k \in Int /\ -1 <= k /\ sp = k * padded_size
      BY <1>1 DEF Placed
    <3>3. Placed(k, t)'
      <4>1. padded_size' = padded_size /\ Sound' = Sound /\ conf' = conf
        BY ConfStays
      <4> QED  BY <2>1, <2>2, <2>3, <3>1, <3>2, <4>1 DEF Placed
    <3> QED  BY <2>1, <2>2, <2>3, <3>2, <3>3 DEF AInv, Block, MaySucceed
  <2>5. KeptItems
    BY <1>3, DynArrayAssumption DEF KeptItems
  <2>6. CASE Sound
    <3>1. \A n \in 0 .. k : mem'[n] = mem[n]
      BY <1>1, <2>2, <2>3, <2>6 DEF Placed
    <3>2. Contents = UpTo(mem, k) /\ Contents' = UpTo(mem', k)
      BY <1>1, <2>2, <2>4, <2>6, ContentsAre, ContentsWillBe
    <3>3. Contents' = Contents
      BY <1>1, <3>1, <3>2, UpToAgree
    <3>4. Returned' = <<>>
      BY <1>3, <2>6, ConfStays DEF Returned
    <3> QED  BY <2>4, <2>5, <3>3, <3>4 DEF Preserved, Stack!Next, Stack!Adjust
  <2> QED  BY <2>4, <2>5, <2>6, NotSound DEF Preserved
<1> QED  BY <1>2, <1>3 DEF GrowByHand

LEMMA PushKeeps ==
  ASSUME AInv, UNCHANGED conf, NEW v \in Items, Push(v)
  PROVE  Preserved
<1> DEFINE p == padded_size
           o == sp + p
<1>1. PICK k \in Int, s \in Nat : Placed(k, s)
  BY DEF AInv
<1>2. /\ p \in Nat \ {0} /\ sp = k * p /\ dynarray_size = s * p /\ -1 <= k
      /\ conf \in Configs /\ MaxItems \in Nat /\ conf.chunk \in Nat \ {0}
      /\ conf.icount \in Nat /\ conf.icount <= s /\ (Sound => k < s /\ 0 < conf.icount)
  BY <1>1, Configured DEF Placed, AInv, Block, Sound
<1>3. o = (k + 1) * p /\ o \in Int
  <2> HIDE DEF p
  <2> QED  BY <1>2, MultiplesAdd
<1>4. /\ o \div p = k + 1 /\ k + 1 < MaxItems /\ sp' = (k + 1) * p
      /\ Overflows(o) <=> 0 < k + 1 /\ s <= k + 1
  <2>1. o \div p = k + 1
    BY <1>2, <1>3, Quotient
  <2>2. o \div p < MaxItems /\ sp' = o
    BY DEF Push
  <2>3. /\ 0 < k + 1 <=> 0 * p < (k + 1) * p
        /\ s <= k + 1 <=> s * p <= (k + 1) * p
        /\ 0 * p = 0
    <3> HIDE DEF p
    <3> QED  BY <1>2, MultiplesOrdered, MultiplesAdd
  <2>4. Overflows(o) <=> 0 < o /\ s * p <= o
    BY <1>2, <1>3 DEF Overflows
  <2> HIDE DEF p, o
  <2> QED  BY <1>3, <2>1, <2>2, <2>3, <2>4
<1>5. CASE ~Overflows(o) /\ mem' = Written(mem, o, v) /\ out' = <<v>>
           /\ UNCHANGED <<dynarray_size, base, aligned>>
  <2>1. mem' \in [DOMAIN mem' -> HeldItems] /\ DOMAIN mem' = DOMAIN mem
    BY <1>5, WritesItems DEF AInv, Block
  <2>2. Sound => k + 1 < s
    BY <1>2, <1>4, <1>5
  <2>3. AInv' /\ Placed(k + 1, s)'
    BY <1>1, <1>4, <1>5, <2>1, <2>2, ConfStays DEF AInv, Block, MaySucceed, Placed
  <2>4. KeptItems
    BY <1>5, ValueReturned DEF KeptItems
  <2>5. CASE Sound
    <3>1. InUse(mem, s, k) /\ DOMAIN mem = 0 .. s - 1
      BY <1>1, <2>5, UsedCells DEF AInv
    <3>2. mem' = [mem EXCEPT ![k + 1] = v]
      <4>1. o \div padded_size \in DOMAIN mem /\ o \div padded_size = k + 1
        BY <1>2, <1>4, <2>2, <2>5, <3>1
      <4>2. mem \in [DOMAIN mem -> HeldItems]
        BY DEF AInv, Block
      <4> HIDE DEF o
      <4> QED  BY <1>5, <4>1, <4>2, WritesItems
    <3>3. Adds(mem', mem, k, v)
      BY <1>2, <2>2, <2>5, <3>1, <3>2 DEF InUse, Adds
    <3>4. Contents = UpTo(mem, k) /\ Contents' = UpTo(mem', k + 1)
      BY <1>1, <1>2, <2>3, <2>5, ContentsAre, ContentsWillBe
    <3>5. Contents' = Append(Contents, v)
      <4>1. v \in HeldItems
        BY DEF HeldItems
      <4>2. Appends(mem', mem, k, v)
        BY <3>1, <3>3, <4>1, UpToAppend, Zenon
      <4> QED  BY <3>4, <4>2 DEF Appends
    <3>6. Returned' = <<v>>
      BY <1>5, <2>5, ConfStays DEF Returned
    <3> QED  BY <2>3, <2>4, <3>5, <3>6 DEF Preserved, Stack!Next, Stack!Push
  <2> QED  BY <2>3, <2>4, <2>5, NotSound DEF Preserved
<1>6. CASE Overflows(o) /\ Grow(Written(Resized(GrownSize), o, v)) /\ out' = <<v>>
  <2>0. PICK t \in Int : t = s + conf.chunk
    BY <1>2
  <2> DEFINE r == Resized(t * p)
  <2>1. /\ mem' = Written(r, o, v) /\ dynarray_size' = t * p
        /\ base' = "block" /\ aligned' \in BOOLEAN /\ MaySucceed(dynarray_size')
    BY <1>1, <1>6, <2>0, Grown DEF AInv, Block, Grow
  <2>2. t \in Nat /\ s < t
    BY <1>2, <2>0
  <2>3. /\ r \in [0 .. t - 1 -> HeldItems] /\ DOMAIN r = 0 .. t - 1
        /\ \A n \in (0 .. t - 1) \cap DOMAIN mem : r[n] = mem[n]
    <3>1. Cells(t * p) = 0 .. t - 1 /\ Block
      BY <1>2, <2>2, CellsOf DEF AInv
    <3> QED  BY <3>1, ResizesItems
  <2> HIDE DEF r
  <2>4. mem' \in [DOMAIN mem' -> HeldItems] /\ DOMAIN mem' = 0 .. t - 1
    BY <2>1, <2>3, WritesItems
  <2>5. Sound => k + 1 = s
    BY <1>1, <1>2, <1>4, <1>6 DEF Placed
  <2>6. AInv' /\ Placed(k + 1, t)'
    <3>1. (Sound => k + 1 < t) /\ conf.icount <= t /\ k + 1 \in Int /\ -1 <= k + 1
      BY <1>2, <2>2, <2>5
    <3>2. Placed(k + 1, t)'
      <4>1. padded_size' = padded_size /\ Sound' = Sound /\ conf' = conf
        BY ConfStays
      <4> QED  BY <1>4, <2>1, <2>2, <2>4, <3>1, <4>1 DEF Placed
    <3> QED  BY <1>2, <2>1, <2>2, <2>4, <3>1, <3>2 DEF AInv, Block, MaySucceed
  <2>7. KeptItems
    BY <1>6, ValueReturned DEF KeptItems
  <2>8. CASE Sound
    <3>1. InUse(mem, s, k) /\ DOMAIN mem = 0 .. s - 1
      BY <1>1, <2>8, UsedCells DEF AInv
    <3>2. mem' = [r EXCEPT ![k + 1] = v]
      <4>1. o \div padded_size \in DOMAIN r /\ o \div padded_size = k + 1
        BY <1>2, <1>4, <2>2, <2>3, <2>5, <2>8
      <4>2. r \in [DOMAIN r -> HeldItems]
        BY <2>3
      <4> HIDE DEF o
      <4> QED  BY <2>1, <4>1, <4>2, WritesItems
    <3>3. Adds(mem', mem, k, v)
      BY <1>2, <2>2, <2>3, <2>5, <2>8, <3>1, <3>2 DEF InUse, Adds
    <3>4. Contents = UpTo(mem, k) /\ Contents' = UpTo(mem', k + 1)
      BY <1>1, <1>2, <2>6, <2>8, ContentsAre, ContentsWillBe
    <3>5. Contents' = Append(Contents, v)
      <4>1. v \in HeldItems
        BY DEF HeldItems
      <4>2. Appends(mem', mem, k, v)
        BY <3>1, <3>3, <4>1, UpToAppend, Zenon
      <4> QED  BY <3>4, <4>2 DEF Appends
    <3>6. Returned' = <<v>>
      BY <1>6, <2>8, ConfStays DEF Returned
    <3> QED  BY <2>6, <2>7, <3>5, <3>6 DEF Preserved, Stack!Next, Stack!Push
  <2> QED  BY <2>6, <2>7, <2>8, NotSound DEF Preserved
<1>7. CASE Overflows(o) /\ (conf.fixed \/ MayFail \/ ~MaySucceed(GrownSize))
           /\ GrowFails /\ out' = Refused
  <2>1. ~Sound
    <3>1. s < MaxItems
      BY <1>2, <1>4, <1>7
    <3>2. MaySucceed(GrownSize)
      BY <1>1, <1>2, <3>1, Grown DEF AInv, Block
    <3> QED  BY <1>7, <3>2 DEF Sound, MayFail
  <2>2. AInv'
    <3>1. Placed(k + 1, s)'
      BY <1>1, <1>4, <1>7, <2>1, ConfStays DEF Placed, GrowFails, block
    <3> QED  BY <1>1, <1>7, <3>1, ConfStays DEF AInv, Block, MaySucceed, GrowFails, block, Placed
  <2>3. KeptItems
    BY <1>7, ConfStays DEF KeptItems, Item, Cell, GrowFails, block
  <2> QED  BY <2>1, <2>2, <2>3, NotSound DEF Preserved
<1> QED
  <2> HIDE DEF o, p
  <2>1. \/ ~Overflows(o) /\ mem' = Written(mem, o, v) /\ out' = <<v>>
              /\ UNCHANGED <<dynarray_size, base, aligned>>
        \/ Overflows(o) /\ Grow(Written(Resized(GrownSize), o, v)) /\ out' = <<v>>
        \/ Overflows(o) /\ (conf.fixed \/ MayFail \/ ~MaySucceed(GrownSize))
              /\ GrowFails /\ out' = Refused
    BY DEF Push, o, p
  <2> QED  BY <1>5, <1>6, <1>7, <2>1

\* Where the position is after shrinking to t items.
LEMMA TruncatedTo ==
  ASSUME AInv, NEW k, NEW s, Placed(k, s), NEW t \in Nat, 0 < t, t <= s
  PROVE  \E j \in Int : /\ Truncated(t * padded_size) = j * padded_size /\ -1 <= j
                        /\ Sound /\ ~IsEmpty => j <= k /\ j < t
<1> DEFINE p == padded_size
           h == SizeLimit \div 2
<1>1. /\ p \in Nat \ {0} /\ h \in Nat /\ 2 * h <= SizeLimit /\ SizeLimit \in Nat
      /\ s \in Nat /\ k \in Int /\ dynarray_size = s * p /\ s * p < h /\ -1 <= k
      /\ sp = k * p /\ (Sound => k < s)
  BY Configured DEF Placed, MaySucceed, AInv, Block
<1>2. Truncated(t * p) = IF sp % SizeLimit > (t * p - p) % SizeLimit THEN t * p - p ELSE sp
  BY DEF Truncated, Unsigned
<1>3. IsEmpty <=> sp < 0
  BY DEF IsEmpty
<1> DEFINE T == Truncated(t * p)
<1>4. T = IF sp % SizeLimit > (t * p - p) % SizeLimit THEN t * p - p ELSE sp
  BY <1>2
<1> HIDE DEF p, h, T
<1>5. t * p - p = (t - 1) * p /\ t * p \in Int /\ (t - 1) * p \in Int
  BY <1>1, MultiplesAdd
<1>6. CASE T = t * p - p
  <2>1. Sound /\ ~IsEmpty => t - 1 <= k
    <3> SUFFICES ASSUME Sound, ~IsEmpty, k < t - 1 PROVE FALSE
      BY <1>1
    <3>1. k * p < (t - 1) * p /\ t * p <= s * p /\ 0 <= k * p
      BY <1>1, <1>3, MultiplesOrdered
    <3>2. sp % SizeLimit = sp /\ (t * p - p) % SizeLimit = t * p - p
      <4>1. 0 <= t * p - p /\ t * p - p < SizeLimit /\ 0 <= sp /\ sp < SizeLimit
        <5>1. s * p \in Int /\ k * p \in Int
          BY <1>1
        <5> QED  BY <1>1, <1>5, <3>1, <5>1
      <4> QED  BY <1>1, <1>5, <4>1
    <3>3. k * p \in Int
      BY <1>1
    <3> QED  BY <1>1, <1>4, <1>5, <1>6, <3>1, <3>2, <3>3
  <2>2. T = (t - 1) * p /\ -1 <= t - 1 /\ t - 1 < t
    BY <1>5, <1>6
  <2> QED  BY <2>1, <2>2 DEF p, T
<1>7. CASE T = sp /\ ~(sp % SizeLimit > (t * p - p) % SizeLimit)
  <2>1. Sound /\ ~IsEmpty => k < t
    <3> SUFFICES ASSUME Sound, ~IsEmpty, t <= k PROVE FALSE
      BY <1>1
    <3>1. t * p <= k * p /\ t * p <= s * p /\ k * p <= s * p /\ 0 * p <= (t - 1) * p /\ 0 * p = 0
      BY <1>1, MultiplesOrdered
    <3>2. s * p \in Int /\ k * p \in Int
      BY <1>1
    <3>3. sp % SizeLimit = sp /\ (t * p - p) % SizeLimit = t * p - p
      <4>1. 0 <= t * p - p /\ t * p - p < SizeLimit /\ 0 <= sp /\ sp < SizeLimit
        BY <1>1, <1>5, <3>1, <3>2
      <4> QED  BY <1>1, <1>5, <4>1
    <3> QED  BY <1>1, <1>5, <1>7, <3>1, <3>2, <3>3
  <2> QED  BY <1>1, <1>7, <2>1 DEF p, T
<1> QED  BY <1>4, <1>6, <1>7

LEMMA ShrinkKeeps ==
  ASSUME AInv, UNCHANGED conf, Shrink
  PROVE  Preserved
<1> DEFINE p == padded_size
           t == ShrunkSize
<1>1. PICK k \in Int, s \in Nat : Placed(k, s)
  BY DEF AInv
<1>2. p \in Nat \ {0} /\ conf \in Configs /\ conf.chunk \in Nat /\ conf.icount \in Nat
      /\ minimum_size = conf.icount * p
  BY Configured DEF AInv, Block, minimum_size
<1>3. CASE out' = Refused /\ UNCHANGED <<block, sp>>
  BY <1>3, Refuses DEF block
<1>4. CASE /\ ShrunkSize >= minimum_size /\ ShrunkSize = 0
           /\ base' = "freed" /\ mem' = <<>> /\ UNCHANGED <<dynarray_size, aligned, sp>>
  <2>1. ~Sound
    <3>1. Sound => 1 <= conf.icount
      BY <1>2 DEF Sound
    <3>2. 1 <= conf.icount <=> 1 * p <= conf.icount * p
      BY <1>2, MultiplesOrdered
    <3>3. 1 * p = p /\ conf.icount * p \in Int
      BY <1>2
    <3> HIDE DEF p
    <3> QED  BY <1>2, <1>4, <3>1, <3>2, <3>3
  <2>2. AInv'
    <3>1. Placed(k, s)'
      BY <1>1, <1>4, <2>1, ConfStays DEF Placed
    <3>2. mem' \in [DOMAIN mem' -> HeldItems]
      BY <1>4
    <3> QED  BY <1>1, <1>4, <3>1, <3>2, ConfStays DEF AInv, Block, MaySucceed
  <2>3. KeptItems
    BY <1>4 DEF KeptItems
  <2> QED  BY <2>1, <2>2, <2>3, NotSound DEF Preserved
<1>5. CASE /\ ShrunkSize >= minimum_size /\ ShrunkSize > 0 /\ MaySucceed(ShrunkSize)
           /\ mem' = Resized(ShrunkSize)
           /\ dynarray_size' = ShrunkSize /\ base' = "block"
           /\ aligned' \in BOOLEAN
           /\ sp' = Truncated(ShrunkSize)
           /\ out' = <<>>
  <2>0. PICK u \in Int : u = s - conf.chunk
    BY <1>1, <1>2 DEF Placed
  <2>1. ShrunkSize = u * p /\ u \in Nat /\ u <= s
    <3>1. ShrunkSize = u * p /\ conf.chunk <= s
      BY <1>1, <1>2, <1>5, <2>0, Shrunk DEF AInv, Block
    <3> QED  BY <1>1, <1>2, <2>0, <3>1 DEF Placed
  <2>2. 0 < u /\ conf.icount <= u
    <3> HIDE DEF p
    <3>1. 0 * p < u * p <=> 0 < u
      BY <1>2, <2>1, MultiplesOrdered
    <3>2. conf.icount * p <= u * p <=> conf.icount <= u
      BY <1>2, <2>1, MultiplesOrdered
    <3> QED  BY <1>2, <1>5, <2>1, <3>1, <3>2
  <2>3. PICK j \in Int : /\ sp' = j * p /\ -1 <= j
                         /\ Sound /\ ~IsEmpty => j <= k /\ j < u
    BY <1>1, <1>5, <2>1, <2>2, TruncatedTo
  <2>4. Sound => j <= k /\ j < u
    BY <2>3 DEF Shrink, Sound
  <2>5. /\ mem' \in [DOMAIN mem' -> HeldItems] /\ DOMAIN mem' = 0 .. u - 1
        /\ \A n \in (0 .. u - 1) \cap DOMAIN mem : mem'[n] = mem[n]
    <3>1. Cells(u * p) = 0 .. u - 1 /\ Block
      BY <1>2, <2>1, CellsOf DEF AInv
    <3> QED  BY <1>5, <2>1, <3>1, ResizesItems
  <2>6. AInv' /\ Placed(j, u)'
    <3>1. Placed(j, u)'
      BY <1>5, <2>1, <2>2, <2>3, <2>4, <2>5, ConfStays DEF Placed
    <3>2. Block'
      BY <1>2, <1>5, <2>5 DEF Block, MaySucceed
    <3> QED  BY <2>1, <2>3, <3>1, <3>2 DEF AInv
  <2>7. KeptItems
    BY <1>5, DynArrayAssumption DEF KeptItems
  <2>8. CASE Sound
    <3>1. /\ InUse(mem, s, k) /\ DOMAIN mem = 0 .. s - 1
          /\ -1 <= j /\ j <= k /\ j < u
      BY <1>1, <2>3, <2>4, <2>8, UsedCells DEF AInv
    <3>2. Contents = UpTo(mem, k) /\ Contents' = UpTo(mem', j)
      BY <1>1, <1>2, <2>6, <2>8, ContentsAre, ContentsWillBe
    <3>3. UpTo(mem', j) = UpTo(mem, j)
      <4>1. \A n \in 0 .. j : mem'[n] = mem[n]
        BY <2>1, <2>5, <3>1 DEF InUse
      <4> QED  BY <4>1, UpToAgree
    <3>4. Contents' = SubSeq(Contents, 1, j + 1)
      <4>1. CutsTo(mem, k, j)
        <5>1. InUse(mem, s, k) /\ InUse(mem, s, j) /\ j <= k
          BY <2>1, <3>1 DEF InUse
        <5> QED  BY <5>1, UpToCut, Zenon
      <4> QED  BY <3>2, <3>3, <4>1 DEF CutsTo
    <3>5. Len(Contents) = k + 1
      <4>1. Len(UpTo(mem, k)) = k + 1
        BY <3>1, UpToSeq DEF Lists
      <4> QED  BY <3>2, <4>1
    <3>6. j + 1 \in 0 .. Len(Contents)
      BY <3>1, <3>5
    <3>7. Returned' = <<>>
      BY <1>5, <2>8, ConfStays DEF Returned
    <3>8. Stack!Drop
      BY <3>4, <3>6, <3>7 DEF Stack!Drop
    <3> QED  BY <2>6, <2>7, <3>8 DEF Preserved, Stack!Next
  <2> QED  BY <2>6, <2>7, <2>8, NotSound DEF Preserved
<1> QED
  <2>1. aligned \in BOOLEAN
    BY DEF AInv, Block
  <2> QED  BY <1>3, <1>4, <1>5, <2>1 DEF Shrink

-----------------------------------------------------------------------------
(* The theorems about the array. *)

LEMMA ArrayStarting ==
  ASSUME ArrayInit
  PROVE  AInv /\ Stack!Init
<1>1. PICK c \in Configs : ArrayStarts(c)
  BY DEF ArrayInit
<1>2. conf = c /\ conf \in Configs
  BY <1>1 DEF ArrayStarts
<1>3. /\ padded_size \in Nat \ {0} /\ conf.icount \in Nat
      /\ (-1) * padded_size = -padded_size
      /\ MaySucceed(conf.icount * padded_size)
  BY <1>2, Configured, DynArrayAssumption DEF FitsInMemory, padded_size
<1>4. Cells(conf.icount * padded_size) = 0 .. conf.icount - 1
  BY <1>2, <1>3, CellsOf
<1>5. mem \in [DOMAIN mem -> HeldItems] /\ (base = "block" => DOMAIN mem = 0 .. conf.icount - 1)
  BY <1>1, <1>4 DEF ArrayStarts, minimum_size, HeldItems
<1>6. Placed(-1, conf.icount)
  <2>1. Sound => base = "block" /\ -1 < conf.icount
    BY <1>1, <1>2, <1>3 DEF ArrayStarts, Sound
  <2> QED  BY <1>1, <1>3, <1>5, <2>1 DEF Placed, ArrayStarts, minimum_size
<1>7. AInv
  BY <1>1, <1>2, <1>3, <1>5, <1>6 DEF AInv, Block, ArrayStarts, minimum_size
<1>8. Contents = <<>>
  <2>1. CASE Sound
    <3>1. Contents = UpTo(mem, -1)
      BY <1>2, <1>6, <2>1, ContentsAre
    <3> QED  BY <3>1 DEF UpTo
  <2> QED  BY <2>1 DEF Contents
<1>9. Returned = Refused
  BY <1>1 DEF Returned, ArrayStarts
<1> QED  BY <1>7, <1>8, <1>9 DEF Stack!Init

\* Every step keeps the invariant, is one of the stack, and refuses without loss.
LEMMA ArraySteps ==
  ASSUME AInv, [ArrayNext]_arrayvars
  PROVE  AInv' /\ StackStep /\ (ArrayNext => KeptItems)
<1>1. CASE UNCHANGED arrayvars
  <2>1. AInv' /\ KeptItems
    BY <1>1, Looks DEF arrayvars, block
  <2>2. StackStep
    BY <1>1 DEF StackStep, arrayvars, block
  <2> QED  BY <2>1, <2>2
<1>2. CASE ArrayNext
  <2>1. UNCHANGED conf
    BY <1>2 DEF ArrayNext
  <2>2. ASSUME NEW v \in Items, Push(v) PROVE Preserved
    BY <2>1, <2>2, PushKeeps
  <2>3. ASSUME NEW i \in 0 .. MaxItems, NEW v \in Items, Set(i, v) PROVE Preserved
    BY <2>1, <2>3, SetKeeps
  <2>4. ASSUME Pop PROVE Preserved
    BY <2>1, <2>4, PopKeeps
  <2>5. ASSUME Peek PROVE Preserved
    BY <2>1, <2>5, PeekKeeps
  <2>6. ASSUME Underflow PROVE Preserved
    BY <2>1, <2>6, Refuses DEF Underflow
  <2>7. ASSUME ToArray PROVE Preserved
    BY <2>1, <2>7, ToArrayKeeps
  <2>8. ASSUME NEW i \in 0 .. MaxItems, Get(i) PROVE Preserved
    BY <2>1, <2>8, GetKeeps
  <2>9. ASSUME Shrink PROVE Preserved
    BY <2>1, <2>9, ShrinkKeeps
  <2>10. ASSUME GrowByHand PROVE Preserved
    BY <2>1, <2>10, GrowByHandKeeps
  <2>11. Preserved
    BY <1>2, <2>2, <2>3, <2>4, <2>5, <2>6, <2>7, <2>8, <2>9, <2>10, Zenon
       DEF ArrayNext, Operation
  <2> QED  BY <2>11 DEF Preserved, StackStep
<1> QED  BY <1>1, <1>2

\* What the invariant says of the types and of the room for items.
LEMMA ArrayInvImplies ==
  ASSUME AInv
  PROVE  ArrayTypes /\ ItemsFit
<1> DEFINE p == padded_size
<1>1. PICK k \in Int, s \in Nat : Placed(k, s)
  BY DEF AInv
<1>2. /\ p \in Nat \ {0} /\ -1 <= k /\ sp = k * p /\ dynarray_size = s * p
      /\ (Sound => k < s) /\ conf \in Configs
  BY <1>1, Configured DEF AInv, Block, Placed
<1>3. /\ sp % p = 0 /\ dynarray_size % p = 0 /\ sp >= -p
      /\ Sound => sp + p <= dynarray_size
  <2> HIDE DEF p
  <2>1. sp % p = 0 /\ dynarray_size % p = 0
    BY <1>2, Quotient
  <2>2. (-1) * p <= k * p /\ (-1) * p = -p /\ k * p \in Int
    BY <1>2, MultiplesOrdered
  <2>3. Sound => (k + 1) * p <= s * p /\ (k + 1) * p = k * p + p
    BY <1>2, MultiplesOrdered, MultiplesAdd
  <2> QED  BY <1>2, <2>1, <2>2, <2>3
<1>4. ArrayTypes
  BY <1>3 DEF ArrayTypes, AInv, Block, HeldItems
<1>5. ItemsFit
  BY <1>2, <1>3, Units DEF ItemsFit, padded_size, alignment
<1> QED  BY <1>4, <1>5

\* The inductive invariant of the array: its position and its size are those of
\* whole items, and the block has a cell for every item.
THEOREM ArrayInvHolds == ArraySpec => []AInv
<1>1. ArrayInit => AInv
  BY ArrayStarting
<1>2. AInv /\ [ArrayNext]_arrayvars => AInv'
  BY ArraySteps
<1> QED  BY <1>1, <1>2, PTL DEF ArraySpec

\* However an array is made and used, an operation that is refused costs no item,
\* and when it is made and used as its clients do it is a stack of items, each of
\* which is in the block.
THEOREM ArrayIsStack == ArraySpec => IsStack
<1>1. ArrayInit => Stack!Init
  BY ArrayStarting
<1>2. AInv /\ [ArrayNext]_arrayvars => [StackStep]_arrayvars
  BY ArraySteps
<1>3. AInv /\ [ArrayNext]_arrayvars =>
        [out' = Refused /\ base' # "freed" =>
           \A n \in 1 .. mig_dynarray_len : Item(n)' = Item(n)]_arrayvars
  BY ArraySteps DEF KeptItems
<1>4. AInv => ArrayTypes /\ ItemsFit
  BY ArrayInvImplies
<1> QED
  BY <1>1, <1>2, <1>3, <1>4, ArrayInvHolds, PTL DEF ArraySpec, IsStack, RefusedKeepsItems

-----------------------------------------------------------------------------
(* The matchers: strings and their beginnings. *)

\* A character as a matcher takes it.
FoldChar(t, c) == IF Tables[t].icase THEN InCase(c, Uppers, Lowers) ELSE c
Letters(t)     == {FoldChar(t, c) : c \in STRING}

\* The first n characters of a string, as a matcher takes them.
FoldedTo(t, s, n) == [i \in 1 .. n |-> FoldChar(t, s[i])]

IsFolded(u, t, s, n) ==
  u \in Seq(Letters(t)) /\ Len(u) = n /\ \A i \in 1 .. n : u[i] = FoldChar(t, s[i])

\* A matcher takes as many characters as there are.
LEMMA FoldedToIs ==
  ASSUME NEW t, NEW s \in Seq(STRING), NEW n \in 0 .. Len(s)
  PROVE  IsFolded(FoldedTo(t, s, n), t, s, n)
<1>1. \A i \in 1 .. n : FoldChar(t, s[i]) \in Letters(t)
  BY DEF Letters
<1>2. FoldedTo(t, s, n) \in [1 .. n -> Letters(t)] /\ n \in Nat
  BY <1>1 DEF FoldedTo
<1> QED  BY <1>2 DEF FoldedTo, IsFolded

\* A whole string is taken as all of its characters are,
LEMMA FoldedIs ==
  ASSUME NEW t, NEW s \in Seq(STRING)
  PROVE  Folded(t, s) = FoldedTo(t, s, Len(s))
<1>1. DOMAIN s = 1 .. Len(s) /\ s = [i \in 1 .. Len(s) |-> s[i]]
  OBVIOUS
<1> QED  BY <1>1 DEF Folded, LowerOf, FoldedTo, FoldChar

\* and what it begins with as its first ones.
LEMMA FoldedStart ==
  ASSUME NEW t, NEW s \in Seq(STRING), NEW n \in 0 .. Len(s)
  PROVE  Folded(t, SubSeq(s, 1, n)) = FoldedTo(t, s, n)
<1>1. /\ SubSeq(s, 1, n) \in Seq(STRING) /\ Len(SubSeq(s, 1, n)) = n
      /\ \A i \in 1 .. n : SubSeq(s, 1, n)[i] = s[i]
  OBVIOUS
<1>2. Folded(t, SubSeq(s, 1, n)) = FoldedTo(t, SubSeq(s, 1, n), n)
  BY <1>1, FoldedIs
<1> QED  BY <1>1, <1>2 DEF FoldedTo

\* One character is taken by itself.
LEMMA FoldedOne ==
  ASSUME NEW t, NEW c
  PROVE  Folded(t, <<c>>)[1] = FoldChar(t, c)
BY DEF Folded, LowerOf, FoldChar

\* A sequence begins with another when that one is not longer and they agree.
LEMMA PrefixIs ==
  ASSUME NEW S, NEW T, NEW v \in Seq(S), NEW w \in Seq(T)
  PROVE  IsPrefix(v, w) <=> Len(v) <= Len(w) /\ \A i \in 1 .. Len(v) : v[i] = w[i]
<1>1. ASSUME Len(v) <= Len(w)
      PROVE  (SubSeq(v, 1, Len(v)) = SubSeq(w, 1, Len(v))) <=> \A i \in 1 .. Len(v) : v[i] = w[i]
  <2>1. SubSeq(v, 1, Len(v)) = [i \in 1 .. Len(v) |-> v[i]]
    OBVIOUS
  <2>2. SubSeq(w, 1, Len(v)) = [i \in 1 .. Len(v) |-> w[i]]
    BY <1>1
  <2> QED  BY <2>1, <2>2
<1> QED  BY <1>1 DEF IsPrefix

-----------------------------------------------------------------------------
(* The matchers: the tree of the words. *)

\* x is how word w begins.
Starts(x, w) == Len(x) <= Len(w) /\ \A i \in 1 .. Len(x) : x[i] = w[i]

\* The assumption, on characters.
LEMMA WordsAre ==
  ASSUME NEW t \in DOMAIN Tables
  PROVE  /\ \A w \in Words(t) : w \in Seq(STRING) /\ w # <<>>
         /\ \A v, w \in Words(t) : Starts(v, w) => v = w
         /\ \A w \in Words(t) : \A n \in 1 .. Len(w) : w[n] # FoldChar(t, EndOfInput)
<1>1. \A w \in Words(t) : w \in Seq(STRING) /\ w # <<>>
  BY StatMatchAssumption
<1>2. ASSUME NEW v \in Words(t), NEW w \in Words(t), Starts(v, w) PROVE v = w
  <2>1. v \in Seq(STRING) /\ w \in Seq(STRING)
    BY <1>1
  <2>2. IsPrefix(v, w)
    BY <1>2, <2>1, PrefixIs DEF Starts
  <2> QED  BY <2>2, StatMatchAssumption
<1>3. ASSUME NEW w \in Words(t), NEW n \in 1 .. Len(w) PROVE w[n] # FoldChar(t, EndOfInput)
  <2>1. w[n] # Folded(t, <<EndOfInput>>)[1]
    BY <1>1, StatMatchAssumption
  <2> QED  BY <2>1, FoldedOne
<1> QED  BY <1>1, <1>2, <1>3

\* The nodes are what a word begins with.
LEMMA NodesAre ==
  ASSUME NEW t \in DOMAIN Tables, NEW S, NEW x \in Seq(S)
  PROVE  x \in Tree(t) <=> \E w \in Words(t) : Starts(x, w)
<1>1. ASSUME NEW w \in Words(t), NEW n \in 0 .. Len(w), x = SubSeq(w, 1, n) PROVE Starts(x, w)
  BY <1>1, WordsAre DEF Starts
<1>2. ASSUME NEW w \in Words(t), Starts(x, w)
      PROVE  Len(x) \in 0 .. Len(w) /\ x = SubSeq(w, 1, Len(x))
  <2>1. w \in Seq(STRING)
    BY WordsAre
  <2>2. Len(x) \in 0 .. Len(w) /\ x = [i \in 1 .. Len(x) |-> x[i]]
    BY <1>2, <2>1 DEF Starts
  <2>3. SubSeq(w, 1, Len(x)) = [i \in 1 .. Len(x) |-> w[i]]
    BY <2>1, <2>2
  <2> QED  BY <1>2, <2>2, <2>3 DEF Starts
<1>3. x \in Tree(t) <=> \E w \in Words(t) : \E n \in 0 .. Len(w) : x = SubSeq(w, 1, n)
  <2>1. x \in Tree(t) <=> \E w \in Words(t) : x \in {SubSeq(w, 1, n) : n \in 0 .. Len(w)}
    BY Zenon DEF Tree
  <2>2. ASSUME NEW w
        PROVE  x \in {SubSeq(w, 1, n) : n \in 0 .. Len(w)} <=> \E n \in 0 .. Len(w) : x = SubSeq(w, 1, n)
    BY Zenon
  <2> QED  BY <2>1, <2>2, Zenon
<1> QED  BY <1>1, <1>2, <1>3

-----------------------------------------------------------------------------
(* The matchers: the invariant. *)

\* The node is what was read up to there, which is in the string; where the walk
\* stopped, no word goes on with the next character.
MInv ==
  /\ table \in DOMAIN Tables /\ input \in Seq(STRING) \ {<<>>} /\ input[Len(input)] = EndOfInput
  /\ osp = 0 =>
       /\ place \in 1 .. Len(input) /\ node = FoldedTo(table, input, place - 1)
       /\ node \in Tree(table)
  /\ osp # 0 =>
       /\ osp \in 1 .. Len(input) /\ node = FoldedTo(table, input, osp - 1)
       /\ node \in Tree(table) /\ FoldedTo(table, input, osp) \notin Tree(table)
       /\ res = IF node \in Words(table) THEN node ELSE None

\* The child is what is read with one character more, and at the end there is none.
LEMMA ChildIs ==
  ASSUME MInv, osp = 0
  PROVE  Child = FoldedTo(table, input, place) /\ (Child \in Tree(table) => place < Len(input))
<1> DEFINE u == FoldedTo(table, input, place - 1)
           v == FoldedTo(table, input, place)
<1>1. /\ input \in Seq(STRING) /\ place \in 1 .. Len(input) /\ node = u
      /\ place - 1 \in 0 .. Len(input) /\ place \in 0 .. Len(input) /\ input[place] \in STRING
      /\ table \in DOMAIN Tables
  BY DEF MInv
<1>2. /\ u \in Seq(Letters(table)) /\ Len(u) = place - 1
      /\ \A i \in 1 .. place - 1 : u[i] = FoldChar(table, input[i])
      /\ v \in Seq(Letters(table)) /\ Len(v) = place
      /\ \A i \in 1 .. place : v[i] = FoldChar(table, input[i])
  BY <1>1, FoldedToIs DEF IsFolded
<1>3. Child = Append(u, FoldChar(table, input[place]))
  BY <1>1, FoldedOne DEF Child
<1> HIDE DEF u, v
<1>4. FoldChar(table, input[place]) \in Letters(table)
  BY <1>1 DEF Letters
<1>5. Child = v
  BY <1>1, <1>2, <1>3, <1>4
<1>6. ASSUME Child \in Tree(table), place = Len(input) PROVE FALSE
  <2>1. PICK w \in Words(table) : Starts(v, w)
    BY <1>1, <1>2, <1>5, <1>6, NodesAre
  <2>2. w \in Seq(STRING) /\ \A n \in 1 .. Len(w) : w[n] # FoldChar(table, EndOfInput)
    BY <1>1, WordsAre
  <2>3. place \in 1 .. Len(w) /\ w[place] = v[place]
    BY <1>1, <1>2, <2>1, <2>2 DEF Starts
  <2>4. v[place] = FoldChar(table, EndOfInput)
    BY <1>1, <1>2, <1>6 DEF MInv
  <2> QED  BY <2>2, <2>3, <2>4
<1> QED  BY <1>1, <1>5, <1>6 DEF v

\* The invariant holds at first, and every step preserves it.
LEMMA MatchStarting ==
  ASSUME MatchInit
  PROVE  MInv
<1>0. PICK t \in DOMAIN Tables : \E s \in Inputs(t) : MatchStarts(t, s)
  BY DEF MatchInit
<1>1. PICK s \in Inputs(t) : MatchStarts(t, s)
  BY <1>0
<1>2. s \in Seq(STRING) \ {<<>>} /\ s[Len(s)] = EndOfInput
  BY StatMatchAssumption
<1>3. FoldedTo(t, s, 1 - 1) = <<>>
  BY DEF FoldedTo
<1>4. <<>> \in Tree(t)
  <2>1. PICK w : w \in Words(t)
    <3>1. \E w : w \in Tables[t].words
      BY DEF Tables, mhttp_match_method, mhttp_req_match_header, midnighttpd_match_config_opt
    <3> QED  BY <3>1, Zenon DEF Words
  <2>2. w \in Seq(STRING)
    BY <2>1, WordsAre
  <2>3. Starts(<<>>, w) /\ <<>> \in Seq(STRING)
    BY <2>2 DEF Starts
  <2> QED  BY <2>1, <2>3, NodesAre
<1>5. 1 \in 1 .. Len(s)
  BY <1>2
<1> QED  BY <1>1, <1>2, <1>3, <1>4, <1>5 DEF MatchStarts, MInv

LEMMA MatchSteps ==
  ASSUME MInv, [MatchNext]_matchvars
  PROVE  MInv'
<1>1. CASE UNCHANGED matchvars
  BY <1>1 DEF MInv, matchvars
<1>2. CASE Descend
  <2>1. osp = 0 /\ Child = FoldedTo(table, input, place) /\ place < Len(input) /\ Child \in Tree(table)
    BY <1>2, ChildIs DEF Descend
  <2>2. place \in 1 .. Len(input) /\ (place + 1) - 1 = place
    BY <2>1 DEF MInv
  <2>3. place' \in 1 .. Len(input) /\ node' = FoldedTo(table, input, place' - 1)
    BY <1>2, <2>1, <2>2 DEF Descend, MInv
  <2> QED  BY <1>2, <2>1, <2>3 DEF Descend, MInv
<1>3. CASE Leave
  <2>1. osp = 0 /\ Child = FoldedTo(table, input, place) /\ Child \notin Tree(table)
    BY <1>3, ChildIs DEF Leave
  <2>2. place \in 1 .. Len(input) /\ osp' = place
    BY <1>3, <2>1 DEF MInv, Leave
  <2> QED  BY <1>3, <2>1, <2>2 DEF Leave, MInv
<1>4. CASE Left
  BY <1>4 DEF Left, MInv, matchvars
<1> QED  BY <1>1, <1>2, <1>3, <1>4 DEF MatchNext

\* It says that the word was matched.
LEMMA MatchInvImplies ==
  ASSUME MInv
  PROVE  WordsMatched
<1> SUFFICES ASSUME osp # 0 PROVE WordsMatched
  BY DEF WordsMatched, FindsThePrefix, StopsBehind
<1> DEFINE N == Len(input)
           u == FoldedTo(table, input, osp - 1)
           v == FoldedTo(table, input, osp)
           f == Folded(table, input)
<1>1. /\ input \in Seq(STRING) /\ osp \in 1 .. N /\ node = u /\ table \in DOMAIN Tables
      /\ u \in Tree(table) /\ v \notin Tree(table)
      /\ res = IF u \in Words(table) THEN u ELSE None
      /\ osp - 1 \in 0 .. N /\ osp \in 0 .. N /\ N \in Nat /\ N \in 0 .. N
  BY DEF MInv
<1>2. /\ u \in Seq(Letters(table)) /\ Len(u) = osp - 1
      /\ \A i \in 1 .. osp - 1 : u[i] = FoldChar(table, input[i])
      /\ v \in Seq(Letters(table)) /\ Len(v) = osp
      /\ \A i \in 1 .. osp : v[i] = FoldChar(table, input[i])
      /\ f \in Seq(Letters(table)) /\ Len(f) = N
      /\ \A i \in 1 .. N : f[i] = FoldChar(table, input[i])
  <2>1. f = FoldedTo(table, input, N)
    BY <1>1, FoldedIs
  <2>2. /\ IsFolded(u, table, input, osp - 1) /\ IsFolded(v, table, input, osp)
        /\ IsFolded(f, table, input, N)
    BY <1>1, <2>1, FoldedToIs
  <2> HIDE DEF u, v, f
  <2> QED  BY <2>2 DEF IsFolded
<1>3. Folded(table, SubSeq(input, 1, osp - 1)) = u /\ Folded(table, SubSeq(input, 1, osp)) = v
  BY <1>1, FoldedStart
<1> HIDE DEF u, v, f
<1>4. PICK x \in Words(table) : Starts(u, x)
  BY <1>1, <1>2, NodesAre
<1>5. ASSUME NEW w \in Words(table) PROVE res = w <=> IsPrefix(w, f)
  <2>1. w \in Seq(STRING) /\ w # <<>> /\ x \in Seq(STRING)
    BY <1>1, WordsAre
  <2>2. IsPrefix(w, f) <=> Len(w) <= N /\ \A i \in 1 .. Len(w) : w[i] = f[i]
    BY <1>2, <2>1, PrefixIs
  <2>3. ASSUME res = w PROVE IsPrefix(w, f)
    <3>1. w = u
      BY <1>1, <2>1, <2>3 DEF None
    <3> QED  BY <1>1, <1>2, <2>2, <3>1
  <2>4. ASSUME IsPrefix(w, f) PROVE res = w
    <3>1. Len(w) < osp
      <4> SUFFICES ASSUME osp <= Len(w) PROVE FALSE
        BY <1>1, <2>1
      <4>1. Starts(v, w)
        BY <1>1, <1>2, <2>1, <2>2, <2>4 DEF Starts
      <4> QED  BY <1>1, <1>2, <4>1, NodesAre
    <3>2. Starts(w, x)
      BY <1>1, <1>2, <1>4, <2>1, <2>2, <2>4, <3>1 DEF Starts
    <3>3. w = x
      BY <1>1, <3>2, WordsAre
    <3>4. Len(w) = osp - 1 /\ \A i \in 1 .. osp - 1 : w[i] = u[i]
      BY <1>1, <1>2, <1>4, <2>1, <3>1, <3>3 DEF Starts
    <3>5. w = u
      BY <1>2, <2>1, <3>4
    <3> QED  BY <1>1, <3>5
  <2> QED  BY <2>3, <2>4
<1>6. FindsThePrefix
  BY <1>1, <1>5 DEF FindsThePrefix, f
<1>7. StopsBehind
  <2>1. res # None => osp = Len(res) + 1
    BY <1>1, <1>2
  <2> QED  BY <1>1, <1>3, <2>1 DEF StopsBehind
<1> QED  BY <1>6, <1>7 DEF WordsMatched

\* Whatever a string has behind its words, a matcher finds the word that the
\* string begins with, and stops in the string, behind the word.
THEOREM MatcherFinds == MatchSpec => []WordsMatched
<1>1. MatchInit => MInv
  BY MatchStarting
<1>2. MInv /\ [MatchNext]_matchvars => MInv'
  BY MatchSteps
<1>3. MInv => WordsMatched
  BY MatchInvImplies
<1> QED  BY <1>1, <1>2, <1>3, PTL DEF MatchSpec

-----------------------------------------------------------------------------
(* Addresses: the first and the last place of a character. *)

\* What is a least and a greatest number.
LEMMA MinIs ==
  ASSUME NEW S, S \subseteq Int, NEW m \in S, \A q \in S : m <= q
  PROVE  Min(S) = m
<1>1. Min(S) \in S /\ \A q \in S : Min(S) <= q
  BY DEF Min
<1>2. Min(S) \in Int /\ m \in Int /\ Min(S) <= m /\ m <= Min(S)
  BY <1>1
<1> HIDE DEF Min
<1> QED  BY <1>2

LEMMA MaxIs ==
  ASSUME NEW S, S \subseteq Int, NEW m \in S, \A q \in S : m >= q
  PROVE  Max(S) = m
<1>1. Max(S) \in S /\ \A q \in S : Max(S) >= q
  BY DEF Max
<1>2. Max(S) \in Int /\ m \in Int /\ Max(S) >= m /\ m >= Max(S)
  BY <1>1
<1> HIDE DEF Max
<1> QED  BY <1>2

\* Some places in a string have a first one and a last one.
LEMMA MinOf ==
  ASSUME NEW n \in Nat, NEW S, S \subseteq 1 .. n, S # {}
  PROVE  Min(S) \in S /\ \A q \in S : Min(S) <= q
<1>1. S \subseteq Nat
  OBVIOUS
<1>2. \E m \in S : \A q \in S : m <= q
  BY <1>1, LeastNat
<1> QED  BY <1>2 DEF Min

LEMMA MaxOf ==
  ASSUME NEW n \in Nat, NEW S, S \subseteq 1 .. n, S # {}
  PROVE  Max(S) \in S /\ \A q \in S : Max(S) >= q
<1> DEFINE T == {n - q : q \in S}
<1>1. T \subseteq Nat /\ T # {}
  <2>1. \A q \in S : q \in Nat /\ n - q \in Nat
    OBVIOUS
  <2>2. PICK q \in S : TRUE
    OBVIOUS
  <2>3. n - q \in T
    BY <2>2
  <2> QED  BY <2>1, <2>3
<1>2. PICK t \in T : \A u \in T : t <= u
  <2> HIDE DEF T
  <2> QED  BY <1>1, LeastNat
<1>3. PICK m \in S : t = n - m
  BY <1>2
<1>4. ASSUME NEW q \in S PROVE m >= q
  <2>1. n - q \in T
    OBVIOUS
  <2>2. t <= n - q
    BY <1>2, <2>1
  <2> QED  BY <1>3, <2>2
<1> QED  BY <1>3, <1>4 DEF Max

-----------------------------------------------------------------------------
(* Addresses: what is cut where. *)

Letter == {"h", ":", "[", "]"}

\* The string with null bytes at some places and behind it.
Mangled(places) ==
  [p \in 1 .. Len(addrin) + 1 |->
     IF p \in places \/ p = Len(addrin) + 1 THEN EndMark ELSE addrin[p]]

\* The form of the string decides what is cut and returned.
Outcome ==
  \/ /\ PortBehindBrackets
     /\ addrstr = Mangled({colon, lbrack, rbrack}) /\ addr = lbrack + 1 /\ port = colon + 1
  \/ /\ ~PortBehindBrackets /\ PortOnly
     /\ addrstr = Mangled({colon}) /\ addr = 1 /\ port = colon + 1
  \/ /\ ~PortBehindBrackets /\ ~PortOnly /\ BracketsOnly
     /\ addrstr = Mangled({lbrack, rbrack}) /\ addr = lbrack + 1 /\ port = NoPlace
  \/ /\ ~PortBehindBrackets /\ ~PortOnly /\ ~BracketsOnly /\ Plain
     /\ addrstr = Mangled({}) /\ addr = 1 /\ port = NoPlace
  \/ /\ ~PortBehindBrackets /\ ~PortOnly /\ ~BracketsOnly /\ ~Plain
     /\ addr = NoPlace /\ port = NoPlace

AddrInv ==
  /\ addrin \in Seq(Letter)
  /\ addr = NotParsed => addrstr = Mangled({})
  /\ addr # NotParsed => Outcome

\* What a bounded sequence is.
LEMMA BoundedIsSeq ==
  ASSUME NEW S, NEW n \in Nat
  PROVE  \A s \in BoundedSeq(S, n) : s \in Seq(S) /\ Len(s) <= n
<1>1. ASSUME NEW s \in BoundedSeq(S, n) PROVE s \in Seq(S) /\ Len(s) <= n
  <2>1. PICK m \in 0 .. n : s \in [1 .. m -> S]
    BY <1>1 DEF BoundedSeq, SeqOf
  <2> QED  BY <2>1
<1> QED  BY <1>1

\* strchr and strrchr return a place in the string, of that character, or none.
LEMMA PlacesAre ==
  ASSUME addrin \in Seq(Letter), NEW c
  PROVE  /\ strchr(c) \in 0 .. Len(addrin) /\ strrchr(c) \in 0 .. Len(addrin)
         /\ strrchr(c) # 0 => addrin[strrchr(c)] = c
         /\ strchr(c) = 0 <=> \A p \in 1 .. Len(addrin) : addrin[p] # c
<1>1. DOMAIN addrin = 1 .. Len(addrin) /\ Len(addrin) \in Nat
  OBVIOUS
<1>2. Places(c) \subseteq 1 .. Len(addrin)
  BY <1>1 DEF Places
<1>3. CASE Places(c) = {}
  BY <1>1, <1>3 DEF strchr, strrchr, Places, NoPlace
<1>4. CASE Places(c) # {}
  <2>1. Min(Places(c)) \in Places(c) /\ Max(Places(c)) \in Places(c)
    BY <1>1, <1>2, <1>4, MinOf, MaxOf
  <2> QED  BY <1>1, <1>2, <1>4, <2>1 DEF strchr, strrchr, Places, NoPlace
<1> QED  BY <1>3, <1>4

\* Cutting puts null bytes at places.
LEMMA CutIs ==
  ASSUME addrin \in Seq(Letter), addrstr = Mangled({}), NEW places
  PROVE  CutAt(places) = Mangled(places)
<1>1. DOMAIN addrstr = 1 .. Len(addrin) + 1
  BY DEF Mangled
<1> QED  BY <1>1 DEF CutAt, Mangled

\* The invariant holds at first,
LEMMA AddrStartsRight == AddrInit => AddrInv
<1> SUFFICES ASSUME NEW s \in Addresses, AddrStarts(s) PROVE AddrInv
  BY DEF AddrInit
<1>1. addrin \in Seq(Letter)
  BY BoundedIsSeq, SockAddrAssumption DEF AddrStarts, Addresses, Letter
<1>2. addrstr = Mangled({})
  <2>1. addrstr = Append(addrin, EndMark)
    BY DEF AddrStarts
  <2>2. /\ addrstr \in Seq(Letter \cup {EndMark}) /\ Len(addrstr) = Len(addrin) + 1
        /\ \A p \in 1 .. Len(addrin) + 1 :
             addrstr[p] = IF p = Len(addrin) + 1 THEN EndMark ELSE addrin[p]
    BY <1>1, <2>1
  <2>3. addrstr = [p \in 1 .. Len(addrin) + 1 |-> addrstr[p]]
    BY <2>2
  <2> QED  BY <2>2, <2>3 DEF Mangled
<1> QED  BY <1>1, <1>2 DEF AddrInv, AddrStarts

\* The form is that of the string.
FormsKept ==
  /\ lbrack' = lbrack /\ rbrack' = rbrack /\ colon' = colon
  /\ PortBehindBrackets' = PortBehindBrackets /\ PortOnly' = PortOnly
  /\ BracketsOnly' = BracketsOnly /\ Plain' = Plain
  /\ Mangled({colon, lbrack, rbrack})' = Mangled({colon, lbrack, rbrack})
  /\ Mangled({colon})' = Mangled({colon})
  /\ Mangled({lbrack, rbrack})' = Mangled({lbrack, rbrack})
  /\ Mangled({})' = Mangled({})

\* A step that leaves the string as it came does not change its form.
LEMMA FormKept == addrin' = addrin => FormsKept
<1> SUFFICES ASSUME addrin' = addrin PROVE FormsKept
  OBVIOUS
<1>1. lbrack' = lbrack /\ rbrack' = rbrack /\ colon' = colon
  BY DEF lbrack, rbrack, colon, strchr, strrchr, Places
<1>2. /\ PortBehindBrackets' = PortBehindBrackets /\ PortOnly' = PortOnly
      /\ BracketsOnly' = BracketsOnly /\ Plain' = Plain
  BY <1>1 DEF PortBehindBrackets, PortOnly, BracketsOnly, Plain
<1>3. /\ Mangled({colon, lbrack, rbrack})' = Mangled({colon, lbrack, rbrack})
      /\ Mangled({colon})' = Mangled({colon})
      /\ Mangled({lbrack, rbrack})' = Mangled({lbrack, rbrack})
      /\ Mangled({})' = Mangled({})
  BY <1>1 DEF Mangled
<1> QED  BY <1>1, <1>2, <1>3 DEF FormsKept

\* and every step preserves it.
LEMMA AddrSteps == AddrInv /\ [AddrNext]_addrvars => AddrInv'
<1> SUFFICES ASSUME AddrInv, [AddrNext]_addrvars PROVE AddrInv'
  OBVIOUS
<1> USE DEF AddrInv
<1>1. CASE UNCHANGED addrvars \/ Parsed
  <2>1. UNCHANGED addrvars
    BY <1>1 DEF Parsed
  <2>2. FormsKept
    BY <2>1, FormKept DEF addrvars
  <2>3. Outcome' = Outcome
    BY <2>1, <2>2 DEF addrvars, FormsKept, Outcome
  <2> QED  BY <2>1, <2>2, <2>3 DEF addrvars, FormsKept
<1>2. CASE addrin' = addrin /\ addr = NotParsed
  <2>1. FormsKept
    BY <1>2, FormKept
  <2>4. addrstr = Mangled({}) /\ \A places : CutAt(places) = Mangled(places)
    BY <1>2, CutIs
  <2>5. lbrack \in Nat /\ rbrack \in Nat /\ colon \in Nat
    BY PlacesAre DEF lbrack, rbrack, colon
  <2>6. addr' # NotParsed => Outcome'
    <3>1. CASE BracketedWithPort
      BY <2>1, <2>4, <3>1 DEF BracketedWithPort, FormsKept, Outcome
    <3>2. CASE AddressWithPort
      BY <2>1, <2>4, <3>2 DEF AddressWithPort, FormsKept, Outcome
    <3>3. CASE Bracketed
      BY <2>1, <2>4, <3>3 DEF Bracketed, FormsKept, Outcome, NoPlace
    <3>4. CASE AddressOnly
      BY <2>1, <2>4, <3>4 DEF AddressOnly, FormsKept, Outcome
    <3>5. CASE Malformed
      BY <2>1, <3>5 DEF Malformed, FormsKept, Outcome
    <3>6. CASE UNCHANGED addrvars \/ Parsed
      BY <1>2, <3>6 DEF addrvars, Parsed
    <3> QED  BY <3>1, <3>2, <3>3, <3>4, <3>5, <3>6 DEF AddrNext
  <2>7. addr' = NotParsed => UNCHANGED addrvars
    BY <1>2, <2>5 DEF AddrNext, BracketedWithPort, AddressWithPort, Bracketed, AddressOnly,
      Malformed, Parsed, NotParsed, NoPlace, addrvars
  <2> QED  BY <1>1, <1>2, <2>6, <2>7
<1> QED
  BY <1>1, <1>2 DEF AddrNext, BracketedWithPort, AddressWithPort, Bracketed, AddressOnly,
    Malformed

-----------------------------------------------------------------------------
(* Addresses: the grammar. *)

\* The text at a place goes up to the next null byte.
LEMMA TextIs ==
  ASSUME addrin \in Seq(Letter), NEW places, addrstr = Mangled(places),
         NEW p \in 1 .. Len(addrin) + 1, NEW q \in p .. Len(addrin) + 1,
         q \in places \/ q = Len(addrin) + 1,
         \A r \in p .. q - 1 : r \notin places
  PROVE  Text(p) = [i \in 1 .. q - p |-> addrin[p + i - 1]]
<1>1. addrstr \in Seq(Letter \cup {EndMark}) /\ Len(addrstr) = Len(addrin) + 1
  <2>1. Mangled(places) \in [1 .. Len(addrin) + 1 -> Letter \cup {EndMark}]
    BY DEF Mangled
  <2> QED  BY <2>1
<1>2. \A r \in p .. Len(addrin) + 1 : addrstr[r] = EndMark <=> r \in places \/ r = Len(addrin) + 1
  BY DEF Mangled, Letter, EndMark
<1>3. Min({r \in p .. Len(addrstr) : addrstr[r] = EndMark}) = q
  <2> DEFINE S == {r \in p .. Len(addrstr) : addrstr[r] = EndMark}
  <2>1. S \subseteq Int /\ q \in S /\ \A r \in S : q <= r
    BY <1>1, <1>2
  <2> HIDE DEF S
  <2>2. Min(S) = q
    BY <2>1, MinIs
  <2> QED  BY <2>2 DEF S
<1>4. Text(p) = SubSeq(addrstr, p, q - 1)
  BY <1>3 DEF Text
<1>5. SubSeq(addrstr, p, q - 1) = [i \in 1 .. q - p |-> addrstr[p + i - 1]]
  BY <1>1
<1>6. \A i \in 1 .. q - p : addrstr[p + i - 1] = addrin[p + i - 1]
  BY DEF Mangled
<1> QED  BY <1>4, <1>5, <1>6

\* Where the first and the last of a character are.
LEMMA FirstAt ==
  ASSUME addrin \in Seq(Letter), NEW c, NEW p \in 1 .. Len(addrin), addrin[p] = c,
         \A q \in 1 .. p - 1 : addrin[q] # c
  PROVE  strchr(c) = p
<1>1. p \in Places(c) /\ Places(c) \subseteq Int /\ \A q \in Places(c) : p <= q
  BY DEF Places
<1> QED  BY <1>1, MinIs DEF strchr

LEMMA LastAt ==
  ASSUME addrin \in Seq(Letter), NEW c, NEW p \in 1 .. Len(addrin), addrin[p] = c,
         \A q \in p + 1 .. Len(addrin) : addrin[q] # c
  PROVE  strrchr(c) = p
<1>1. p \in Places(c) /\ Places(c) \subseteq Int /\ \A q \in Places(c) : p >= q
  BY DEF Places
<1> QED  BY <1>1, MaxIs DEF strrchr

\* A character that is not in the string is at no place.
LEMMA NowhereIn ==
  ASSUME addrin \in Seq(Letter), NEW c, \A q \in 1 .. Len(addrin) : addrin[q] # c
  PROVE  strchr(c) = NoPlace /\ strrchr(c) = NoPlace
BY PlacesAre DEF NoPlace

\* What the grammar writes, one character after the other.
LEMMA HostsAre ==
  ASSUME NEW host \in Hosts
  PROVE  /\ host \in Seq(Letter) /\ Len(host) \in Nat \ {0}
         /\ \A i \in 1 .. Len(host) : host[i] = "h"
<1>1. host \in Seq({"h"}) /\ host # <<>>
  BY BoundedIsSeq, SockAddrAssumption DEF Hosts
<1> QED  BY <1>1 DEF Letter

LEMMA IPv6Are ==
  ASSUME NEW host \in IPv6
  PROVE  /\ host \in Seq(Letter) /\ Len(host) \in Nat \ {0}
         /\ \A i \in 1 .. Len(host) : host[i] \in {"h", ":"}
         /\ host \notin Hosts
<1>1. host \in Seq({"h", ":"}) /\ \E p \in 1 .. Len(host) : host[p] = ":"
  <2>1. host \in Seq({"h", ":"}) /\ \E p \in DOMAIN host : host[p] = ":"
    BY BoundedIsSeq, SockAddrAssumption DEF IPv6
  <2> QED  BY <2>1
<1>2. host \in Seq(Letter) /\ Len(host) \in Nat \ {0}
  BY <1>1 DEF Letter
<1>3. host \notin Hosts
  BY <1>1, HostsAre
<1> QED  BY <1>1, <1>2, <1>3

LEMMA BracketIs ==
  ASSUME NEW host \in Seq(Letter)
  PROVE  /\ Bracket(host) \in Seq(Letter) /\ Len(Bracket(host)) = Len(host) + 2
         /\ Bracket(host)[1] = "[" /\ Bracket(host)[Len(host) + 2] = "]"
         /\ \A i \in 1 .. Len(host) : Bracket(host)[i + 1] = host[i]
BY DEF Bracket, Letter

IsWithPort(w, s, p) ==
  /\ w \in Seq(Letter) /\ Len(w) = Len(s) + 1 + Len(p)
  /\ \A i \in 1 .. Len(s) : w[i] = s[i]
  /\ w[Len(s) + 1] = ":"
  /\ \A i \in 1 .. Len(p) : w[Len(s) + 1 + i] = p[i]

LEMMA WithPortIs ==
  ASSUME NEW s \in Seq(Letter), NEW p \in Seq(Letter)
  PROVE  IsWithPort(s \o <<":">> \o p, s, p)
BY DEF Letter, IsWithPort

\* The text is a string that is written there.
LEMMA TextOf ==
  ASSUME addrin \in Seq(Letter), NEW places, addrstr = Mangled(places),
         NEW s \in Seq(Letter), NEW p \in 1 .. Len(addrin) + 1, p + Len(s) <= Len(addrin) + 1,
         \A i \in 1 .. Len(s) : addrin[p + i - 1] = s[i],
         p + Len(s) \in places \/ p + Len(s) = Len(addrin) + 1,
         \A r \in p .. p + Len(s) - 1 : r \notin places
  PROVE  Text(p) = s
<1>1. Len(s) \in Nat /\ Len(addrin) \in Nat /\ p + Len(s) \in p .. Len(addrin) + 1
  OBVIOUS
<1>2. Text(p) = [i \in 1 .. (p + Len(s)) - p |-> addrin[p + i - 1]]
  BY <1>1, TextIs
<1>3. (p + Len(s)) - p = Len(s)
  BY <1>1
<1>4. Text(p) = [i \in 1 .. Len(s) |-> s[i]]
  BY <1>2, <1>3
<1> QED  BY <1>4

\* A port begins behind the colon, in the string.
LEMMA BehindColon ==
  ASSUME NEW n \in Nat, NEW m \in Nat, NEW l, l = n + m
  PROVE  n + 1 \in 1 .. l + 1 /\ n + 1 + m <= l + 1 /\ n + 1 + m = l + 1
OBVIOUS

\* The four forms of the grammar: a host,
LEMMA HostParsed ==
  ASSUME AddrInv, addr # NotParsed, NEW host \in Hosts, addrin = host
  PROVE  addr # NoPlace /\ Text(addr) = host /\ port = NoPlace
<1>1. lbrack = NoPlace /\ rbrack = NoPlace /\ colon = NoPlace
  BY HostsAre, NowhereIn DEF lbrack, rbrack, colon
<1>2. addrstr = Mangled({}) /\ addr = 1 /\ port = NoPlace
  BY <1>1 DEF AddrInv, Outcome, PortBehindBrackets, PortOnly, BracketsOnly, Plain
<1>3. addrin \in Seq(Letter) /\ Len(addrin) \in Nat
  BY HostsAre
<1>4. Text(1) = host
  BY <1>2, <1>3, TextOf
<1> QED  BY <1>2, <1>4 DEF NoPlace

\* an IPv6 address in brackets,
LEMMA BracketParsed ==
  ASSUME AddrInv, addr # NotParsed, NEW host \in IPv6, addrin = Bracket(host)
  PROVE  addr # NoPlace /\ Text(addr) = host /\ port = NoPlace
<1> DEFINE n == Len(host)
<1>1. /\ addrin \in Seq(Letter) /\ n \in Nat /\ Len(addrin) = n + 2 /\ host \in Seq(Letter)
      /\ addrin[1] = "[" /\ addrin[n + 2] = "]"
      /\ \A i \in 1 .. n : addrin[i + 1] = host[i] /\ host[i] \in {"h", ":"}
  BY IPv6Are, BracketIs
<1> HIDE DEF n
<1>2. \A i \in 2 .. n + 1 : addrin[i] \in {"h", ":"}
  <2>1. ASSUME NEW i \in 2 .. n + 1 PROVE addrin[i] \in {"h", ":"}
    <3>1. i - 1 \in 1 .. n /\ (i - 1) + 1 = i
      BY <1>1
    <3> QED  BY <1>1, <3>1
  <2> QED  BY <2>1
<1>3. lbrack = 1
  BY <1>1, FirstAt DEF lbrack
<1>4. rbrack = n + 2
  <2>1. \A q \in 1 .. n + 1 : addrin[q] # "]"
    BY <1>1, <1>2
  <2> QED  BY <1>1, <2>1, FirstAt DEF rbrack
<1>5. colon \in Nat /\ colon < n + 2
  <2>1. colon \in 0 .. n + 2 /\ (colon # 0 => addrin[colon] = ":")
    BY <1>1, PlacesAre DEF colon
  <2> QED  BY <1>1, <2>1
<1>6. addrstr = Mangled({lbrack, rbrack}) /\ addr = 2 /\ port = NoPlace
  BY <1>1, <1>3, <1>4, <1>5 DEF AddrInv, Outcome, PortBehindBrackets, PortOnly, BracketsOnly, NoPlace
<1>7. Text(2) = host
  <2>1. 2 + Len(host) \in {lbrack, rbrack} /\ \A r \in 2 .. 2 + Len(host) - 1 : r \notin {lbrack, rbrack}
    BY <1>1, <1>3, <1>4 DEF n
  <2>2. \A i \in 1 .. Len(host) : addrin[2 + i - 1] = host[i]
    <3>1. \A i \in 1 .. Len(host) : 2 + i - 1 = i + 1
      BY <1>1 DEF n
    <3> QED  BY <1>1, <3>1 DEF n
  <2>3. 2 \in 1 .. Len(addrin) + 1 /\ 2 + Len(host) <= Len(addrin) + 1
    BY <1>1 DEF n
  <2> QED  BY <1>1, <1>6, <2>1, <2>2, <2>3, TextOf
<1> QED  BY <1>6, <1>7 DEF NoPlace

\* a host with a port,
LEMMA HostPortParsed ==
  ASSUME AddrInv, addr # NotParsed, NEW host \in Hosts, NEW p \in Hosts,
         addrin = host \o <<":">> \o p
  PROVE  addr # NoPlace /\ Text(addr) = host /\ port # NoPlace /\ Text(port) = p
<1> DEFINE n == Len(host)
<1>1. /\ addrin \in Seq(Letter) /\ n \in Nat /\ Len(p) \in Nat /\ Len(addrin) = n + 1 + Len(p)
      /\ host \in Seq(Letter) /\ p \in Seq(Letter) /\ addrin[n + 1] = ":"
      /\ \A i \in 1 .. n : addrin[i] = host[i] /\ host[i] = "h"
      /\ \A i \in 1 .. Len(p) : addrin[n + 1 + i] = p[i] /\ p[i] = "h"
  <2>1. IsWithPort(addrin, host, p)
    BY HostsAre, WithPortIs
  <2> QED  BY HostsAre, <2>1 DEF IsWithPort
<1> HIDE DEF n
<1>t. addrin \in Seq(Letter) /\ host \in Seq(Letter) /\ p \in Seq(Letter)
  BY <1>1
<1>a. n \in Nat /\ Len(p) \in Nat /\ Len(addrin) = n + 1 + Len(p)
  BY <1>1
<1>2. \A q \in n + 2 .. Len(addrin) : addrin[q] = "h"
  <2>1. ASSUME NEW q \in n + 2 .. Len(addrin) PROVE addrin[q] = "h"
    <3>1. q - (n + 1) \in 1 .. Len(p) /\ n + 1 + (q - (n + 1)) = q
      BY <1>1
    <3> QED  BY <1>1, <3>1
  <2> QED  BY <2>1
<1>3. colon = n + 1
  <2>1. n + 1 \in 1 .. Len(addrin) /\ \A q \in (n + 1) + 1 .. Len(addrin) : addrin[q] # ":"
    BY <1>1, <1>2
  <2> QED  BY <1>1, <2>1, LastAt DEF colon
<1>4. lbrack = NoPlace /\ rbrack = NoPlace
  <2>1. \A q \in 1 .. Len(addrin) : addrin[q] \in {"h", ":"}
    <3>1. \A q \in 1 .. Len(addrin) : q \in 1 .. n \/ q = n + 1 \/ q \in n + 2 .. Len(addrin)
      BY <1>1
    <3> QED  BY <1>1, <1>2, <3>1
  <2> QED  BY <1>1, <2>1, NowhereIn DEF lbrack, rbrack
<1>5. addrstr = Mangled({colon}) /\ addr = 1 /\ port = n + 2
  BY <1>1, <1>3, <1>4 DEF AddrInv, Outcome, PortBehindBrackets, PortOnly, NoPlace
<1>6. Text(1) = host
  <2>1. 1 \in 1 .. Len(addrin) + 1 /\ 1 + Len(host) <= Len(addrin) + 1 /\ 1 + Len(host) \in {colon}
    BY <1>a, <1>3 DEF n
  <2>2. \A i \in 1 .. Len(host) : addrin[1 + i - 1] = host[i]
    <3>1. \A i \in 1 .. Len(host) : 1 + i - 1 = i
      BY <1>a DEF n
    <3> QED  BY <1>1, <3>1 DEF n
  <2>3. \A r \in 1 .. 1 + Len(host) - 1 : r \notin {colon}
    BY <1>a, <1>3 DEF n
  <2> QED  BY <1>t, <1>5, <2>1, <2>2, <2>3, TextOf
<1>7. Text(n + 2) = p
  <2>1. n + 2 \in 1 .. Len(addrin) + 1 /\ n + 2 + Len(p) <= Len(addrin) + 1
        /\ n + 2 + Len(p) = Len(addrin) + 1
    BY <1>a
  <2>2. \A i \in 1 .. Len(p) : addrin[n + 2 + i - 1] = p[i]
    <3>1. \A i \in 1 .. Len(p) : n + 2 + i - 1 = n + 1 + i
      BY <1>1
    <3> QED  BY <1>1, <3>1
  <2>3. \A r \in n + 2 .. n + 2 + Len(p) - 1 : r \notin {colon}
    BY <1>1, <1>3
  <2> QED  BY <1>t, <1>5, <2>1, <2>2, <2>3, TextOf
<1> QED  BY <1>1, <1>5, <1>6, <1>7 DEF NoPlace

\* and an IPv6 address in brackets with a port.
LEMMA BracketPortParsed ==
  ASSUME AddrInv, addr # NotParsed, NEW host \in IPv6, NEW p \in Hosts,
         addrin = Bracket(host) \o <<":">> \o p
  PROVE  addr # NoPlace /\ Text(addr) = host /\ port # NoPlace /\ Text(port) = p
<1> DEFINE n == Len(host)
<1>1. /\ n \in Nat /\ Len(p) \in Nat /\ host \in Seq(Letter) /\ p \in Seq(Letter)
      /\ Bracket(host) \in Seq(Letter) /\ Len(Bracket(host)) = n + 2
      /\ Bracket(host)[1] = "[" /\ Bracket(host)[n + 2] = "]"
      /\ \A i \in 1 .. n : Bracket(host)[i + 1] = host[i] /\ host[i] \in {"h", ":"}
  BY HostsAre, IPv6Are, BracketIs
<1>2. /\ addrin \in Seq(Letter) /\ Len(addrin) = Len(Bracket(host)) + 1 + Len(p)
      /\ addrin[Len(Bracket(host)) + 1] = ":"
      /\ \A i \in 1 .. Len(Bracket(host)) : addrin[i] = Bracket(host)[i]
      /\ \A i \in 1 .. Len(p) : addrin[Len(Bracket(host)) + 1 + i] = p[i]
  <2>1. IsWithPort(addrin, Bracket(host), p)
    BY <1>1, WithPortIs
  <2> QED  BY <2>1 DEF IsWithPort
<1>h. \A i \in 1 .. Len(p) : p[i] = "h"
  BY HostsAre
<1> HIDE DEF n
<1>3. /\ Len(addrin) = n + 3 + Len(p) /\ addrin[n + 3] = ":"
      /\ addrin[1] = "[" /\ addrin[n + 2] = "]"
      /\ \A i \in 1 .. Len(p) : addrin[n + 3 + i] = p[i] /\ p[i] = "h"
  BY <1>1, <1>2, <1>h
<1>t. addrin \in Seq(Letter) /\ host \in Seq(Letter) /\ p \in Seq(Letter)
  BY <1>1, <1>2
<1>a. n \in Nat /\ Len(p) \in Nat /\ Len(addrin) = n + 3 + Len(p)
  BY <1>1, <1>3
<1>4. \A i \in 1 .. n : addrin[i + 1] = host[i]
  <2>1. ASSUME NEW i \in 1 .. n PROVE addrin[i + 1] = host[i]
    <3>1. i + 1 \in 1 .. Len(Bracket(host))
      BY <1>1
    <3> QED  BY <1>1, <1>2, <3>1
  <2> QED  BY <2>1
<1>5. \A q \in 2 .. n + 1 : addrin[q] \in {"h", ":"}
  <2>1. ASSUME NEW q \in 2 .. n + 1 PROVE addrin[q] \in {"h", ":"}
    <3>1. q - 1 \in 1 .. n /\ (q - 1) + 1 = q
      BY <1>1
    <3> QED  BY <1>1, <1>4, <3>1
  <2> QED  BY <2>1
<1>6. \A q \in n + 4 .. Len(addrin) : addrin[q] = "h"
  <2>1. ASSUME NEW q \in n + 4 .. Len(addrin) PROVE addrin[q] = "h"
    <3>1. q - (n + 3) \in 1 .. Len(p) /\ n + 3 + (q - (n + 3)) = q
      BY <1>1, <1>3
    <3> QED  BY <1>3, <3>1
  <2> QED  BY <2>1
<1>7. lbrack = 1
  <2>1. 1 \in 1 .. Len(addrin) /\ 1 .. 1 - 1 = {}
    BY <1>a
  <2> QED  BY <1>2, <1>3, <2>1, FirstAt DEF lbrack
<1>8. rbrack = n + 2
  <2>1. n + 2 \in 1 .. Len(addrin) /\ \A q \in 1 .. (n + 2) - 1 : q = 1 \/ q \in 2 .. n + 1
    BY <1>a
  <2>2. \A q \in 1 .. (n + 2) - 1 : addrin[q] # "]"
    BY <1>3, <1>5, <2>1
  <2> QED  BY <1>2, <1>3, <2>1, <2>2, FirstAt DEF rbrack
<1>9. colon = n + 3
  <2>1. n + 3 \in 1 .. Len(addrin) /\ \A q \in (n + 3) + 1 .. Len(addrin) : addrin[q] # ":"
    BY <1>1, <1>3, <1>6
  <2> QED  BY <1>2, <1>3, <2>1, LastAt DEF colon
<1>10. addrstr = Mangled({colon, lbrack, rbrack}) /\ addr = 2 /\ port = n + 4
  BY <1>1, <1>7, <1>8, <1>9 DEF AddrInv, Outcome, PortBehindBrackets, NoPlace
<1>11. Text(2) = host
  <2>1. 2 + Len(host) \in {colon, lbrack, rbrack}
        /\ \A r \in 2 .. 2 + Len(host) - 1 : r \notin {colon, lbrack, rbrack}
    BY <1>a, <1>7, <1>8, <1>9 DEF n
  <2>2. \A i \in 1 .. Len(host) : addrin[2 + i - 1] = host[i]
    <3>1. \A i \in 1 .. Len(host) : 2 + i - 1 = i + 1
      BY <1>a DEF n
    <3> QED  BY <1>4, <3>1 DEF n
  <2>3. 2 \in 1 .. Len(addrin) + 1 /\ 2 + Len(host) <= Len(addrin) + 1
    BY <1>a DEF n
  <2> QED  BY <1>t, <1>10, <2>1, <2>2, <2>3, TextOf
<1>12. Text(n + 4) = p
  <2>1. n + 4 \in 1 .. Len(addrin) + 1 /\ n + 4 + Len(p) <= Len(addrin) + 1
        /\ n + 4 + Len(p) = Len(addrin) + 1
    <3>1. n + 3 \in Nat /\ Len(addrin) = (n + 3) + Len(p) /\ n + 4 = (n + 3) + 1
      BY <1>a
    <3>2. /\ (n + 3) + 1 \in 1 .. Len(addrin) + 1 /\ (n + 3) + 1 + Len(p) <= Len(addrin) + 1
          /\ (n + 3) + 1 + Len(p) = Len(addrin) + 1
      BY <1>a, <3>1, BehindColon
    <3> QED  BY <3>1, <3>2
  <2>2. \A i \in 1 .. Len(p) : addrin[n + 4 + i - 1] = p[i]
    <3>1. \A i \in 1 .. Len(p) : n + 4 + i - 1 = n + 3 + i
      BY <1>a
    <3> QED  BY <1>3, <3>1
  <2>3. \A r \in n + 4 .. n + 4 + Len(p) - 1 : r \notin {colon, lbrack, rbrack}
    BY <1>a, <1>7, <1>8, <1>9
  <2> QED  BY <1>t, <1>10, <2>1, <2>2, <2>3, TextOf
<1> QED  BY <1>1, <1>10, <1>11, <1>12 DEF NoPlace

\* The invariant says that the address was taken apart as it is written.
LEMMA AddrInvImplies == AddrInv => AddressSplit
<1> SUFFICES ASSUME AddrInv, addr # NotParsed PROVE AddressSplit
  BY DEF AddressSplit, GrammarParsed, UnmatchedRefused
<1>1. ASSUME NEW host \in Hosts \cup IPv6
      PROVE  LET written == IF host \in Hosts THEN host ELSE Bracket(host)
             IN  /\ addrin = written => addr # NoPlace /\ Text(addr) = host /\ port = NoPlace
                 /\ \A p \in Hosts : addrin = written \o <<":">> \o p =>
                      addr # NoPlace /\ Text(addr) = host /\ port # NoPlace /\ Text(port) = p
  <2>1. CASE host \in Hosts
    BY <2>1, HostParsed, HostPortParsed
  <2>2. CASE host \notin Hosts
    BY <2>2, BracketParsed, BracketPortParsed
  <2> QED  BY <2>1, <2>2
<1>2. GrammarParsed
  BY <1>1 DEF GrammarParsed
<1>3. UnmatchedRefused
  <2>1. colon \in Nat /\ lbrack \in Nat /\ rbrack \in Nat
    BY PlacesAre DEF AddrInv, colon, lbrack, rbrack
  <2> QED
    BY <2>1 DEF UnmatchedRefused, AddrInv, Outcome, PortBehindBrackets, PortOnly, BracketsOnly,
      Plain, NoPlace
<1> QED  BY <1>2, <1>3 DEF AddressSplit

\* sockaddr_parse takes every string that the grammar has apart as it is written,
\* and refuses a bracket without its counterpart.
THEOREM AddressesSplit == AddrSpec => []AddressSplit
<1>1. AddrSpec => []AddrInv
  BY AddrStartsRight, AddrSteps, PTL DEF AddrSpec
<1> QED  BY <1>1, AddrInvImplies, PTL

-----------------------------------------------------------------------------
(* Numbers: recursion, a value after each step, g[m] being what step m does to it. *)

IsRun(f, n, S, z, g) ==
  f \in [0 .. n -> S] /\ f[0] = z /\ \A m \in 1 .. n : f[m] = g[m][f[m - 1]]

\* There is such a value after each of the steps.
LEMMA RunExists ==
  ASSUME NEW n \in Nat, NEW S, NEW z \in S, NEW g \in [1 .. n -> [S -> S]]
  PROVE  \E f : IsRun(f, n, S, z, g)
<1> DEFINE T == {k \in 0 .. n : \E f : IsRun(f, k, S, z, g)}
<1>1. 0 \in T
  <2>1. IsRun([m \in 0 .. 0 |-> z], 0, S, z, g)
    BY DEF IsRun
  <2> QED  BY <2>1
<1>2. ASSUME NEW k \in 0 .. n - 1, k \in T PROVE k + 1 \in T
  <2>1. PICK f : IsRun(f, k, S, z, g)
    BY <1>2
  <2> DEFINE h == [m \in 0 .. k + 1 |-> IF m = k + 1 THEN g[k + 1][f[k]] ELSE f[m]]
  <2>2. k + 1 \in 1 .. n /\ k \in 0 .. k /\ k \in Nat
    OBVIOUS
  <2>3. f[k] \in S /\ g[k + 1] \in [S -> S] /\ g[k + 1][f[k]] \in S
    BY <2>1, <2>2 DEF IsRun
  <2>4. h \in [0 .. k + 1 -> S] /\ h[0] = z
    BY <2>1, <2>2, <2>3 DEF IsRun
  <2>5. ASSUME NEW m \in 1 .. k + 1 PROVE h[m] = g[m][h[m - 1]]
    <3>1. m \in 0 .. k + 1 /\ m - 1 \in 0 .. k /\ m - 1 \in 0 .. k + 1 /\ m - 1 # k + 1
      BY <2>2
    <3>2. h[m - 1] = f[m - 1]
      BY <3>1
    <3>3. CASE m = k + 1
      BY <3>1, <3>2, <3>3, <2>2
    <3>4. CASE m # k + 1
      <4>1. m \in 1 .. k /\ h[m] = f[m]
        BY <3>1, <3>4, <2>2
      <4> QED  BY <4>1, <3>2, <2>1 DEF IsRun
    <3> QED  BY <3>3, <3>4
  <2>6. IsRun(h, k + 1, S, z, g)
    BY <2>4, <2>5 DEF IsRun
  <2> HIDE DEF h
  <2> QED  BY <2>2, <2>6
<1>3. \A k \in 0 .. n : k \in T
  <2> HIDE DEF T
  <2> QED  BY <1>1, <1>2, InductionUpTo
<1> QED  BY <1>3

-----------------------------------------------------------------------------
(* Numbers: modulo the width of an int. *)

\* Wrapping adds or takes away the width some times,
LEMMA ToIntIs ==
  ASSUME NEW x \in Int
  PROVE  ToInt(x) \in Int /\ \E k \in Int : ToInt(x) = x + k * IntMod
<1>1. IntMod \in Nat \ {0}
  BY ParseNumAssumption
<1>2. PICK q \in Int, r \in 0 .. IntMod - 1 : q = x \div IntMod /\ r = x % IntMod /\ x = q * IntMod + r
  BY <1>1
<1>3. r = x + (-q) * IntMod /\ r - IntMod = x + (-q - 1) * IntMod
  BY <1>1, <1>2
<1>4. ToInt(x) = IF 2 * r >= IntMod THEN r - IntMod ELSE r
  BY <1>2 DEF ToInt
<1>5. CASE 2 * r >= IntMod
  BY <1>1, <1>3, <1>4, <1>5
<1>6. CASE ~(2 * r >= IntMod)
  BY <1>1, <1>3, <1>4, <1>6
<1> QED  BY <1>5, <1>6

\* Multiples of a number leave no rest,
LEMMA SameRest ==
  ASSUME NEW M \in Nat \ {0}, NEW y \in Int, NEW k \in Int
  PROVE  (y + k * M) % M = y % M
<1>0. \A x \in Int : \E q \in Int : \E r \in 0 .. M - 1 : r = x % M /\ x = q * M + r
  OBVIOUS
<1>1. PICK q \in Int : \E r \in 0 .. M - 1 : r = y % M /\ y = q * M + r
  BY <1>0
<1>a. PICK r \in 0 .. M - 1 : r = y % M /\ y = q * M + r
  BY <1>1
<1>b. PICK x \in Int : x = y + k * M
  OBVIOUS
<1>c. PICK t \in Int : \E u \in 0 .. M - 1 : u = x % M /\ x = t * M + u
  BY <1>0
<1>2. PICK u \in 0 .. M - 1 : u = x % M /\ x = t * M + u
  BY <1>c
<1>3. (t - q - k) * M = r - u
  <2>1. (t - q - k) * M = t * M - q * M - k * M /\ t * M \in Int /\ q * M \in Int /\ k * M \in Int
    OBVIOUS
  <2>2. q * M + r + k * M = t * M + u
    BY <1>a, <1>b, <1>2
  <2> QED  BY <2>1, <2>2
<1>4. t - q - k = 0
  <2>1. \A j \in Int : j * M < M /\ j * M > -M => j = 0
    OBVIOUS
  <2>2. t - q - k \in Int /\ r - u < M /\ r - u > -M
    OBVIOUS
  <2> QED  BY <1>3, <2>1, <2>2
<1> QED  BY <1>a, <1>b, <1>2, <1>3, <1>4

\* and do not change what is wrapped.
LEMMA ToIntSame ==
  ASSUME NEW y \in Int, NEW k \in Int
  PROVE  ToInt(y + k * IntMod) = ToInt(y)
<1>1. (y + k * IntMod) % IntMod = y % IntMod
  BY ParseNumAssumption, SameRest
<1> QED  BY <1>1 DEF ToInt

\* It does not matter whether what is multiplied has been wrapped.
LEMMA ToIntAbsorbs ==
  ASSUME NEW a \in Int, NEW x \in Int, NEW d \in Int
  PROVE  ToInt(a * ToInt(x) + d) = ToInt(a * x + d)
<1>1. PICK k \in Int : ToInt(x) = x + k * IntMod
  BY ToIntIs
<1>2. IntMod \in Int
  BY ParseNumAssumption
<1>3. a * (x + k * IntMod) + d = (a * x + d) + (a * k) * IntMod
  BY <1>2
<1>4. a * x + d \in Int /\ a * k \in Int
  OBVIOUS
<1>5. ToInt((a * x + d) + (a * k) * IntMod) = ToInt(a * x + d)
  BY <1>4, ToIntSame
<1> QED  BY <1>1, <1>3, <1>5

\* Zero is not wrapped.
LEMMA ZeroStays == ToInt(0) = 0
<1>1. IntMod \in Nat \ {0} /\ 0 % IntMod = 0
  BY ParseNumAssumption
<1> QED  BY <1>1 DEF ToInt

-----------------------------------------------------------------------------
(* Numbers: digits. *)

Bases == {2, 8, 10, 16}

\* No two digits are the same.
LEMMA DigitsDiffer ==
  /\ Digits \in Seq({Digits[i] : i \in 1 .. 16}) /\ Len(Digits) = 16
  /\ \A i, j \in 1 .. 16 : Digits[i] = Digits[j] => i = j
<1>1. Len(Digits) = 16
  BY DEF Digits
<1>3. Digits \in Seq({Digits[i] : i \in 1 .. 16})
  <2>1. Digits = [i \in 1 .. 16 |-> Digits[i]]
    BY DEF Digits
  <2> QED  BY <2>1
<1>2. ASSUME NEW i \in 1 .. 16, NEW j \in 1 .. 16, Digits[i] = Digits[j] PROVE i = j
  BY <1>2 DEF Digits
<1> QED  BY <1>1, <1>2, <1>3

\* A digit is found where it is among the digits of a base.
LEMMA DigitIs ==
  ASSUME NEW c, NEW radix \in Bases
  PROVE  /\ CharToDigit(c, radix) \in -1 .. radix - 1
         /\ IsDigit(c, radix) <=> CharToDigit(c, radix) # -1
         /\ CharToDigit(c, radix) # -1 =>
              CharToDigit(c, radix) = CHOOSE d \in 0 .. 15 : Digits[d + 1] = Small(c)
<1> DEFINE d == Small(c)
<1>1. CharToDigit(c, radix) =
        IF \E n \in 1 .. radix : Digits[n] = d THEN (CHOOSE n \in 1 .. radix : Digits[n] = d) - 1 ELSE -1
  BY DEF CharToDigit, Small
<1>2. radix \in Nat /\ radix <= 16 /\ radix > 0
  BY DEF Bases
<1>3. IsDigit(c, radix) <=> \E n \in 1 .. radix : Digits[n] = d
  <2>1. Len(SubSeq(Digits, 1, radix)) = radix /\ \A n \in 1 .. radix : SubSeq(Digits, 1, radix)[n] = Digits[n]
    BY <1>2, DigitsDiffer
  <2> QED  BY <2>1 DEF IsDigit, DigitsOf, Contains
<1> HIDE DEF d
<1>4. CASE ~\E n \in 1 .. radix : Digits[n] = d
  BY <1>1, <1>2, <1>3, <1>4
<1>5. ASSUME NEW n \in 1 .. radix, Digits[n] = d
      PROVE  CharToDigit(c, radix) = n - 1 /\ (CHOOSE e \in 0 .. 15 : Digits[e + 1] = d) = n - 1
  <2>1. \A m \in 1 .. radix : Digits[m] = d => m = n
    <3>1. \A m \in 1 .. radix : m \in 1 .. 16
      BY <1>2
    <3> QED  BY <1>5, <3>1, DigitsDiffer
  <2>2. (CHOOSE m \in 1 .. radix : Digits[m] = d) = n
    BY <1>5, <2>1
  <2>3. n - 1 \in 0 .. 15 /\ Digits[(n - 1) + 1] = d
    BY <1>2, <1>5
  <2>4. \A e \in 0 .. 15 : Digits[e + 1] = d => e = n - 1
    <3>1. ASSUME NEW e \in 0 .. 15, Digits[e + 1] = d PROVE e = n - 1
      <4>1. e + 1 \in 1 .. 16 /\ n \in 1 .. 16
        BY <1>2
      <4>2. e + 1 = n
        BY <4>1, <3>1, <1>5, DigitsDiffer
      <4> QED  BY <4>2
    <3> QED  BY <3>1
  <2>5. (CHOOSE e \in 0 .. 15 : Digits[e + 1] = d) = n - 1
    BY <2>3, <2>4
  <2> QED  BY <1>1, <1>5, <2>2, <2>5
<1>6. CASE \E n \in 1 .. radix : Digits[n] = d
  <2>1. PICK n \in 1 .. radix : Digits[n] = d
    BY <1>6
  <2>2. CharToDigit(c, radix) = n - 1 /\ (CHOOSE e \in 0 .. 15 : Digits[e + 1] = d) = n - 1
    BY <1>5, <2>1
  <2>3. n - 1 \in -1 .. radix - 1 /\ n - 1 # -1
    BY <1>2
  <2>4. CharToDigit(c, radix) = CHOOSE e \in 0 .. 15 : Digits[e + 1] = Small(c)
    BY <2>2 DEF d
  <2> QED  BY <1>3, <1>6, <2>2, <2>3, <2>4
<1> QED  BY <1>4, <1>6

\* How many digits there are, and that all of them are.
LEMMA CountIs ==
  ASSUME NEW s, NEW p \in 1 .. Len(s) + 1, Len(s) \in Nat, NEW radix \in Bases
  PROVE  LET n == DigitCount(s, p, radix)
         IN  /\ n \in 0 .. Len(s) + 1 - p
             /\ \A m \in 0 .. n - 1 : CharToDigit(s[p + m], radix) # -1
             /\ p + n > Len(s) \/ CharToDigit(s[p + n], radix) = -1
<1> DEFINE Stops(n) == p + n > Len(s) \/ CharToDigit(s[p + n], radix) = -1
           T == {n \in 0 .. Len(s) + 1 - p : Stops(n)}
<1>1. Len(s) + 1 - p \in T /\ T \subseteq Nat
  OBVIOUS
<1>2. PICK n \in T : \A m \in T : n <= m
  <2> HIDE DEF T
  <2> QED  BY <1>1, LeastNat
<1>3. n \in 0 .. Len(s) /\ Stops(n)
  BY <1>2
<1>4. ASSUME NEW m \in 0 .. n - 1 PROVE p + m <= Len(s) /\ CharToDigit(s[p + m], radix) # -1
  <2>1. m \in 0 .. Len(s) + 1 - p /\ ~(n <= m)
    BY <1>2
  <2>2. ~Stops(m)
    BY <1>2, <2>1
  <2> QED  BY <2>1, <2>2
<1> DEFINE Right(k) == /\ \A m \in 0 .. k - 1 : p + m <= Len(s) /\ CharToDigit(s[p + m], radix) # -1
                       /\ Stops(k)
           c == DigitCount(s, p, radix)
<1>5. \E k \in 0 .. Len(s) : Right(k)
  BY <1>3, <1>4
<1>6. c \in 0 .. Len(s) /\ Right(c)
  <2>1. c = CHOOSE k \in 0 .. Len(s) : Right(k)
    BY DEF DigitCount
  <2> HIDE DEF Right, c
  <2> QED  BY <1>5, <2>1
<1>7. c \in 0 .. Len(s) + 1 - p
  <2>1. CASE c = 0
    BY <2>1
  <2>2. CASE c # 0
    <3>1. c - 1 \in 0 .. c - 1
      BY <1>6, <2>2
    <3>2. p + (c - 1) <= Len(s)
      BY <1>6, <3>1
    <3> QED  BY <1>6, <3>2
  <2> QED  BY <2>1, <2>2
<1> QED  BY <1>6, <1>7

-----------------------------------------------------------------------------
(* Numbers: the value of digits. *)

\* Where step m adds the digit d[m], and with what weight.
LEMMA TakenIs ==
  ASSUME NEW s, NEW p, NEW radix \in Bases, NEW n \in Nat
  PROVE  LET f == Taken(s, p, radix, n)
         IN  /\ f[0] = 0
             /\ \A m \in 1 .. n :
                  f[m] = ToInt(f[m - 1] * radix + CharToDigit(s[p + m - 1], radix))
<1> DEFINE g == [m \in 1 .. n |-> [v \in Int |-> ToInt(v * radix + CharToDigit(s[p + m - 1], radix))]]
           F(val) == [m \in 0 .. n |->
                        IF m = 0 THEN 0
                        ELSE ToInt(val[m - 1] * radix + CharToDigit(s[p + m - 1], radix))]
<1>1. g \in [1 .. n -> [Int -> Int]]
  <2>1. ASSUME NEW m \in 1 .. n, NEW v \in Int
        PROVE  ToInt(v * radix + CharToDigit(s[p + m - 1], radix)) \in Int
    <3>1. CharToDigit(s[p + m - 1], radix) \in Int /\ radix \in Int
      BY DigitIs DEF Bases
    <3>2. v * radix + CharToDigit(s[p + m - 1], radix) \in Int
      BY <3>1
    <3> QED  BY <3>2, ToIntIs
  <2> QED  BY <2>1
<1>2. PICK f : IsRun(f, n, Int, 0, g)
  <2>1. 0 \in Int
    OBVIOUS
  <2> HIDE DEF g
  <2> QED  BY <1>1, <2>1, RunExists
<1>3. \A m \in 1 .. n : f[m] = ToInt(f[m - 1] * radix + CharToDigit(s[p + m - 1], radix))
  <2>1. ASSUME NEW m \in 1 .. n
        PROVE  f[m] = ToInt(f[m - 1] * radix + CharToDigit(s[p + m - 1], radix))
    <3>1. m - 1 \in 0 .. n /\ f[m - 1] \in Int /\ f[m] = g[m][f[m - 1]]
      <4> HIDE DEF g
      <4> QED  BY <1>2 DEF IsRun
    <3> QED  BY <3>1
  <2> QED  BY <2>1
<1>4. f = F(f)
  <2>1. f = [m \in 0 .. n |-> f[m]]
    BY <1>2 DEF IsRun
  <2>2. \A m \in 0 .. n : f[m] = F(f)[m]
    <3> HIDE DEF g
    <3> QED  BY <1>2, <1>3 DEF IsRun
  <2> QED  BY <2>1, <2>2
<1>5. Taken(s, p, radix, n) = F(Taken(s, p, radix, n))
  <2>1. Taken(s, p, radix, n) = CHOOSE h : h = F(h)
    BY DEF Taken
  <2> HIDE DEF F
  <2> QED  BY <1>4, <2>1
<1> QED  BY <1>5

\* The powers of a base, and their types.
LEMMA PowersAre ==
  ASSUME NEW radix \in Bases, NEW n \in Nat
  PROVE  LET w == Powers(radix, n)
         IN  /\ w[0] = 1
             /\ \A k \in 1 .. n : w[k] = radix * w[k - 1]
             /\ \A k \in 0 .. n : w[k] \in Int
<1> DEFINE g == [k \in 1 .. n |-> [v \in Int |-> radix * v]]
           F(power) == [k \in 0 .. n |-> IF k = 0 THEN 1 ELSE radix * power[k - 1]]
<1>1. g \in [1 .. n -> [Int -> Int]] /\ 1 \in Int
  BY DEF Bases
<1>2. PICK f : IsRun(f, n, Int, 1, g)
  <2> HIDE DEF g
  <2> QED  BY <1>1, RunExists
<1>3. \A k \in 1 .. n : f[k] = radix * f[k - 1]
  <2>1. ASSUME NEW k \in 1 .. n PROVE f[k] = radix * f[k - 1]
    <3>1. k - 1 \in 0 .. n /\ f[k - 1] \in Int /\ f[k] = g[k][f[k - 1]]
      <4> HIDE DEF g
      <4> QED  BY <1>2 DEF IsRun
    <3> QED  BY <3>1
  <2> QED  BY <2>1
<1> HIDE DEF g
<1>4. f = F(f)
  <2>1. f = [k \in 0 .. n |-> f[k]]
    BY <1>2 DEF IsRun
  <2>2. \A k \in 0 .. n : f[k] = F(f)[k]
    BY <1>2, <1>3 DEF IsRun
  <2> QED  BY <2>1, <2>2
<1> DEFINE w == Powers(radix, n)
<1>5. w = F(w)
  <2>1. w = CHOOSE h : h = F(h)
    BY DEF Powers
  <2> HIDE DEF F, w
  <2> QED  BY <1>4, <2>1
<1>6. w[0] = 1 /\ \A k \in 1 .. n : w[k] = radix * w[k - 1]
  <2> HIDE DEF w
  <2> QED  BY <1>5
<1>7. \A k \in 0 .. n : w[k] \in Int
  <2> DEFINE T == {k \in 0 .. n : w[k] \in Int}
  <2>1. 0 \in T
    BY <1>6
  <2>2. ASSUME NEW k \in 0 .. n - 1, k \in T PROVE k + 1 \in T
    <3>1. k + 1 \in 1 .. n /\ (k + 1) - 1 = k /\ w[k] \in Int /\ radix \in Int
      BY <2>2 DEF Bases
    <3>2. w[k + 1] = radix * w[k]
      BY <1>6, <3>1
    <3> HIDE DEF w
    <3> QED  BY <3>1, <3>2
  <2> HIDE DEF T
  <2>3. \A k \in 0 .. n : k \in T
    BY <2>1, <2>2, InductionUpTo
  <2> QED  BY <2>3 DEF T
<1> QED  BY <1>6, <1>7

\* The digits of the string from a place on.
DigitAt(first, radix, m) == CharToDigit(str[first + m - 1], radix)

\* The value that is written, digit by digit.
LEMMA WeighedIs ==
  ASSUME NEW first, NEW radix \in Bases, NEW n \in Nat,
         \A m \in 1 .. n : DigitAt(first, radix, m) # -1
  PROVE  LET f == Weighed(first, radix, n)
         IN  /\ f[0] = 0
             /\ \A m \in 1 .. n :
                  f[m] = f[m - 1] + DigitAt(first, radix, m) * Powers(radix, n)[n - m]
<1> DEFINE Worth(c) == CHOOSE d \in 0 .. 15 : Digits[d + 1] = Small(c)
           w == Powers(radix, n)
           g == [m \in 1 .. n |-> [v \in Int |-> v + Worth(str[first + m - 1]) * w[n - m]]]
           F(sum) == [m \in 0 .. n |->
                        IF m = 0 THEN 0 ELSE sum[m - 1] + Worth(str[first + m - 1]) * w[n - m]]
<1>0. ASSUME NEW m \in 1 .. n
      PROVE  /\ Worth(str[first + m - 1]) = DigitAt(first, radix, m)
             /\ DigitAt(first, radix, m) \in Int /\ w[n - m] \in Int
  <2>1. DigitAt(first, radix, m) \in Int
    BY DigitIs DEF DigitAt, Bases
  <2>2. Worth(str[first + m - 1]) = DigitAt(first, radix, m)
    <3>1. CharToDigit(str[first + m - 1], radix) # -1
      BY DEF DigitAt
    <3> QED  BY <3>1, DigitIs DEF DigitAt
  <2>3. n - m \in 0 .. n
    OBVIOUS
  <2>4. w[n - m] \in Int
    BY <2>3, PowersAre
  <2> QED  BY <2>1, <2>2, <2>4
<1> HIDE DEF Worth, w
<1>1. g \in [1 .. n -> [Int -> Int]] /\ 0 \in Int
  <2>1. ASSUME NEW m \in 1 .. n, NEW v \in Int PROVE v + Worth(str[first + m - 1]) * w[n - m] \in Int
    BY <1>0
  <2> QED  BY <2>1
<1>2. PICK f : IsRun(f, n, Int, 0, g)
  <2> HIDE DEF g
  <2> QED  BY <1>1, RunExists
<1>3. \A m \in 1 .. n : f[m] = f[m - 1] + Worth(str[first + m - 1]) * w[n - m]
  <2>1. ASSUME NEW m \in 1 .. n
        PROVE  f[m] = f[m - 1] + Worth(str[first + m - 1]) * w[n - m]
    <3>1. m - 1 \in 0 .. n /\ f[m - 1] \in Int /\ f[m] = g[m][f[m - 1]]
      <4> HIDE DEF g
      <4> QED  BY <1>2 DEF IsRun
    <3> QED  BY <3>1
  <2> QED  BY <2>1
<1> HIDE DEF g
<1>4. f = F(f)
  <2>1. f = [m \in 0 .. n |-> f[m]]
    BY <1>2 DEF IsRun
  <2>2. \A m \in 0 .. n : f[m] = F(f)[m]
    BY <1>2, <1>3 DEF IsRun
  <2> QED  BY <2>1, <2>2
<1> DEFINE sum == Weighed(first, radix, n)
<1>5. sum = F(sum)
  <2>1. sum = CHOOSE h : h = F(h)
    BY DEF Weighed, Worth, w
  <2> HIDE DEF F, sum
  <2> QED  BY <1>4, <2>1
<1>6. sum[0] = 0 /\ \A m \in 1 .. n : sum[m] = sum[m - 1] + Worth(str[first + m - 1]) * w[n - m]
  <2> HIDE DEF sum
  <2> QED  BY <1>5
<1> QED  BY <1>0, <1>6 DEF w

\* What the digits are worth without the width of an int.
LEMMA ExactExists ==
  ASSUME NEW first, NEW radix \in Bases, NEW n \in Nat
  PROVE  \E h \in [0 .. n -> Int] :
           h[0] = 0 /\ \A m \in 1 .. n : h[m] = h[m - 1] * radix + DigitAt(first, radix, m)
<1> DEFINE g == [m \in 1 .. n |-> [v \in Int |-> v * radix + DigitAt(first, radix, m)]]
<1>1. g \in [1 .. n -> [Int -> Int]] /\ 0 \in Int
  BY DigitIs DEF DigitAt, Bases
<1>2. PICK f : IsRun(f, n, Int, 0, g)
  <2> HIDE DEF g
  <2> QED  BY <1>1, RunExists
<1>3. ASSUME NEW m \in 1 .. n PROVE f[m] = f[m - 1] * radix + DigitAt(first, radix, m)
  <2>1. m - 1 \in 0 .. n /\ f[m - 1] \in Int /\ f[m] = g[m][f[m - 1]]
    <3> HIDE DEF g
    <3> QED  BY <1>2 DEF IsRun
  <2> QED  BY <2>1
<1> HIDE DEF g
<1> QED  BY <1>2, <1>3 DEF IsRun

\* Adding up digit by digit with powers of the base is the same as multiplying
\* what there is by the base before each of them.
LEMMA ShiftAndAdd ==
  ASSUME NEW a \in Int, NEW radix \in Int, NEW w \in Int, NEW d \in Int
  PROVE  a * (radix * w) + d * w = (a * radix + d) * w
OBVIOUS

\* Wrapping after every digit is wrapping the value.
LEMMA ValueIs ==
  ASSUME NEW first, NEW radix \in Bases, NEW n \in Nat,
         \A m \in 1 .. n : DigitAt(first, radix, m) # -1
  PROVE  /\ Taken(str, first, radix, n)[n] = ToInt(Weighed(first, radix, n)[n])
         /\ Weighed(first, radix, n)[n] \in Int
<1>1. PICK h \in [0 .. n -> Int] :
        h[0] = 0 /\ \A m \in 1 .. n : h[m] = h[m - 1] * radix + DigitAt(first, radix, m)
  BY ExactExists
<1> DEFINE f == Taken(str, first, radix, n)
           sum == Weighed(first, radix, n)
           w == Powers(radix, n)
<1>2. f[0] = 0 /\ \A m \in 1 .. n : f[m] = ToInt(f[m - 1] * radix + DigitAt(first, radix, m))
  BY TakenIs DEF DigitAt
<1>3. sum[0] = 0 /\ \A m \in 1 .. n : sum[m] = sum[m - 1] + DigitAt(first, radix, m) * w[n - m]
  BY WeighedIs
<1>4. w[0] = 1 /\ (\A k \in 1 .. n : w[k] = radix * w[k - 1]) /\ \A k \in 0 .. n : w[k] \in Int
  BY PowersAre
<1>5. \A m \in 1 .. n : DigitAt(first, radix, m) \in Int
  <2>1. \A c : CharToDigit(c, radix) \in -1 .. radix - 1
    BY DigitIs
  <2> QED  BY <2>1 DEF DigitAt, Bases
<1>6. radix \in Int
  BY DEF Bases
<1> HIDE DEF f, sum, w
<1> DEFINE T == {m \in 0 .. n : f[m] = ToInt(h[m]) /\ sum[m] = h[m] * w[n - m]}
<1>7. 0 \in T
  <2>1. n - 0 = n /\ n \in 0 .. n /\ 0 \in 0 .. n
    OBVIOUS
  <2>2. h[0] * w[n - 0] = 0
    BY <1>1, <1>4, <2>1
  <2> QED  BY <1>1, <1>2, <1>3, <2>1, <2>2, ZeroStays
<1>8. ASSUME NEW k \in 0 .. n - 1, k \in T PROVE k + 1 \in T
  <2>1. k + 1 \in 1 .. n /\ (k + 1) - 1 = k /\ k \in 0 .. n /\ n - k \in 1 .. n
        /\ (n - k) - 1 = n - (k + 1) /\ n - (k + 1) \in 0 .. n
    OBVIOUS
  <2>2. PICK d \in Int : d = DigitAt(first, radix, k + 1)
    BY <1>5, <2>1
  <2>3. PICK a \in Int : a = h[k]
    BY <2>1
  <2>4. h[k + 1] = a * radix + d
    BY <1>1, <2>1, <2>2, <2>3
  <2>5. f[k + 1] = ToInt(h[k + 1])
    <3>1. f[k + 1] = ToInt(ToInt(a) * radix + d)
      BY <1>2, <1>8, <2>1, <2>2, <2>3
    <3>2. ToInt(a) * radix = radix * ToInt(a) /\ a * radix = radix * a
      BY <1>6, ToIntIs
    <3>3. ToInt(radix * ToInt(a) + d) = ToInt(radix * a + d)
      BY <1>6, ToIntAbsorbs
    <3> QED  BY <2>4, <3>1, <3>2, <3>3
  <2>6. sum[k + 1] = h[k + 1] * w[n - (k + 1)]
    <3>1. PICK v \in Int : v = w[n - (k + 1)]
      BY <1>4, <2>1
    <3>2. w[n - k] = radix * v
      BY <1>4, <2>1, <3>1
    <3>3. sum[k] = a * (radix * v)
      BY <1>8, <2>3, <3>2
    <3>4. sum[k + 1] = a * (radix * v) + d * v
      BY <1>3, <2>1, <2>2, <3>1, <3>3
    <3>5. a * (radix * v) + d * v = (a * radix + d) * v
      BY <1>6, ShiftAndAdd
    <3> QED  BY <2>4, <3>1, <3>4, <3>5
  <2> QED  BY <2>1, <2>5, <2>6
<1>9. n \in T
  <2>1. n \in 0 .. n
    OBVIOUS
  <2> HIDE DEF T
  <2> QED  BY <1>7, <1>8, <2>1, InductionUpTo
<1>10. sum[n] = h[n] /\ h[n] \in Int
  <2>1. n - n = 0 /\ h[n] \in Int
    OBVIOUS
  <2> QED  BY <1>4, <1>9, <2>1
<1> QED  BY <1>9, <1>10 DEF f, sum

-----------------------------------------------------------------------------
(* Numbers: what is written. *)

\* How a number may begin, character by character.
Marks == {"-", "+", "0", "b", "o", "x"}

MarkOf(c, radix) == (c = "b" /\ radix = 2) \/ (c = "o" /\ radix = 8) \/ (c = "x" /\ radix = 16)

Begun(l) ==
  \/ Len(l.chars) = 0 /\ l.sign = 1 /\ l.base = 10
  \/ Len(l.chars) = 1 /\ l.chars[1] = "-" /\ l.sign = -1 /\ l.base = 10
  \/ Len(l.chars) = 1 /\ l.chars[1] = "+" /\ l.sign = 1 /\ l.base = 10
  \/ /\ Len(l.chars) = 2 /\ l.chars[1] = "0" /\ l.sign = 1
     /\ MarkOf(l.chars[2], l.base)
  \/ /\ Len(l.chars) = 3 /\ l.chars[1] = "-" /\ l.chars[2] = "0" /\ l.sign = -1
     /\ MarkOf(l.chars[3], l.base)
  \/ /\ Len(l.chars) = 3 /\ l.chars[1] = "+" /\ l.chars[2] = "0" /\ l.sign = 1
     /\ MarkOf(l.chars[3], l.base)

LEMMA LeadsAre ==
  ASSUME NEW l \in Beginnings
  PROVE  /\ l.base \in Bases /\ l.sign \in {1, -1} /\ Len(l.chars) \in Nat
         /\ l.chars \in Seq(Marks) /\ Begun(l)
<1> DEFINE Lead(cs, sign, radix) == [chars |-> cs, sign |-> sign, base |-> radix]
           MarkSet == {<<"b", 2>>, <<"o", 8>>, <<"x", 16>>}
<1>1. ASSUME NEW cs, NEW sign, NEW radix, l = Lead(cs, sign, radix),
             cs \in Seq(Marks), Begun(Lead(cs, sign, radix)), sign \in {1, -1}, radix \in Bases
      PROVE  /\ l.base \in Bases /\ l.sign \in {1, -1} /\ Len(l.chars) \in Nat
             /\ l.chars \in Seq(Marks) /\ Begun(l)
  BY <1>1
<1>2. CASE l = Lead(<<>>, 1, 10)
  BY <1>1, <1>2 DEF Marks, Bases, Begun
<1>3. CASE l = Lead(<<"-">>, -1, 10)
  BY <1>1, <1>3 DEF Marks, Bases, Begun
<1>4. CASE l = Lead(<<"+">>, 1, 10)
  BY <1>1, <1>4 DEF Marks, Bases, Begun
<1>m. ASSUME NEW m \in MarkSet
      PROVE  m[1] \in Marks /\ m[2] \in Bases /\ MarkOf(m[1], m[2])
  BY DEF Marks, Bases, MarkOf
<1>5. ASSUME NEW m \in MarkSet, l = Lead(<<"0", m[1]>>, 1, m[2])
      PROVE  /\ l.base \in Bases /\ l.sign \in {1, -1} /\ Len(l.chars) \in Nat
             /\ l.chars \in Seq(Marks) /\ Begun(l)
  <2>1. PICK c, radix : c = m[1] /\ radix = m[2]
    OBVIOUS
  <2>2. c \in Marks /\ radix \in Bases /\ MarkOf(c, radix) /\ "0" \in Marks
    BY <1>m, <2>1 DEF Marks
  <2>3. l.chars = <<"0", c>> /\ l.sign = 1 /\ l.base = radix
    BY <1>5, <2>1
  <2> HIDE DEF MarkSet
  <2> QED  BY <2>2, <2>3 DEF Begun
<1>6. ASSUME NEW m \in MarkSet, l = Lead(<<"-", "0", m[1]>>, -1, m[2])
      PROVE  /\ l.base \in Bases /\ l.sign \in {1, -1} /\ Len(l.chars) \in Nat
             /\ l.chars \in Seq(Marks) /\ Begun(l)
  <2>1. PICK c, radix : c = m[1] /\ radix = m[2]
    OBVIOUS
  <2>2. c \in Marks /\ radix \in Bases /\ MarkOf(c, radix) /\ "0" \in Marks /\ "-" \in Marks
    BY <1>m, <2>1 DEF Marks
  <2>3. l.chars = <<"-", "0", c>> /\ l.sign = -1 /\ l.base = radix
    BY <1>6, <2>1
  <2> HIDE DEF MarkSet
  <2> QED  BY <2>2, <2>3 DEF Begun
<1>7. ASSUME NEW m \in MarkSet, l = Lead(<<"+", "0", m[1]>>, 1, m[2])
      PROVE  /\ l.base \in Bases /\ l.sign \in {1, -1} /\ Len(l.chars) \in Nat
             /\ l.chars \in Seq(Marks) /\ Begun(l)
  <2>1. PICK c, radix : c = m[1] /\ radix = m[2]
    OBVIOUS
  <2>2. c \in Marks /\ radix \in Bases /\ MarkOf(c, radix) /\ "0" \in Marks /\ "+" \in Marks
    BY <1>m, <2>1 DEF Marks
  <2>3. l.chars = <<"+", "0", c>> /\ l.sign = 1 /\ l.base = radix
    BY <1>7, <2>1
  <2> HIDE DEF MarkSet
  <2> QED  BY <2>2, <2>3 DEF Begun
<1>8. \/ l \in {Lead(<<>>, 1, 10), Lead(<<"-">>, -1, 10), Lead(<<"+">>, 1, 10)}
      \/ l \in {Lead(<<"0", m[1]>>, 1, m[2]) : m \in MarkSet}
      \/ l \in {Lead(<<"-", "0", m[1]>>, -1, m[2]) : m \in MarkSet}
      \/ l \in {Lead(<<"+", "0", m[1]>>, 1, m[2]) : m \in MarkSet}
  BY DEF Beginnings
<1> HIDE DEF Lead, MarkSet
<1> QED  BY <1>2, <1>3, <1>4, <1>5, <1>6, <1>7, <1>8

\* The digits end where counting them does.
LEMMA EndIs ==
  ASSUME str \in Seq(STRING), NEW l \in Beginnings, Len(l.chars) <= Len(str)
  PROVE  LET c == DigitCount(str, Len(l.chars) + 1, l.base)
         IN  /\ EndOfDigits(l) = Len(l.chars) + c /\ c \in Nat
             /\ \A m \in 1 .. c : DigitAt(Len(l.chars) + 1, l.base, m) # -1
<1> DEFINE k == Len(l.chars)
           p == k + 1
           c == DigitCount(str, p, l.base)
           Right(n) == /\ \A m \in k + 1 .. n : IsDigit(str[m], l.base)
                       /\ n = Len(str) \/ (n >= k /\ ~IsDigit(str[n + 1], l.base))
<1>1. k \in Nat /\ l.base \in Bases /\ Len(str) \in Nat /\ k <= Len(str)
  BY LeadsAre
<1>p. p = k + 1
  OBVIOUS
<1>2. /\ c \in 0 .. Len(str) + 1 - p
      /\ \A m \in 0 .. c - 1 : CharToDigit(str[p + m], l.base) # -1
      /\ p + c > Len(str) \/ CharToDigit(str[p + c], l.base) = -1
  <2>1. p \in 1 .. Len(str) + 1
    BY <1>1
  <2> QED  BY <1>1, <2>1, CountIs
<1> HIDE DEF c, k, p
<1>3. \A m \in 0 .. c - 1 : IsDigit(str[p + m], l.base)
  BY <1>1, <1>2, DigitIs
<1>4. p + c > Len(str) \/ ~IsDigit(str[p + c], l.base)
  BY <1>1, <1>2, DigitIs
<1>5. c \in Nat /\ k + c \in 0 .. Len(str)
  BY <1>1, <1>p, <1>2
<1>6. Right(k + c)
  <2>1. ASSUME NEW m \in k + 1 .. k + c PROVE IsDigit(str[m], l.base)
    <3>1. m - p \in 0 .. c - 1 /\ p + (m - p) = m
      BY <1>1, <1>p, <1>5
    <3> QED  BY <1>3, <3>1
  <2>2. k + c = Len(str) \/ (k + c >= k /\ ~IsDigit(str[(k + c) + 1], l.base))
    <3>1. p + c = (k + c) + 1
      BY <1>1, <1>p, <1>5
    <3> QED  BY <1>1, <1>4, <1>5, <3>1
  <2> QED  BY <2>1, <2>2
<1>7. ASSUME NEW n \in 0 .. Len(str), Right(n) PROVE n = k + c
  <2>0. n >= k
    BY <1>1, <1>7
  <2>1. CASE n < k + c
    <3>1. n + 1 \in k + 1 .. k + c /\ n # Len(str)
      BY <1>1, <1>5, <2>0, <2>1
    <3>2. IsDigit(str[n + 1], l.base)
      BY <1>6, <3>1
    <3> QED  BY <1>7, <3>1, <3>2
  <2>2. CASE n > k + c
    <3>1. (k + c) + 1 \in k + 1 .. n /\ k + c # Len(str)
      BY <1>1, <1>5, <2>2
    <3>2. IsDigit(str[(k + c) + 1], l.base)
      BY <1>7, <3>1
    <3> QED  BY <1>6, <3>1, <3>2
  <2> QED  BY <1>1, <1>5, <2>1, <2>2
<1>8. EndOfDigits(l) = k + c
  <2>1. EndOfDigits(l) = CHOOSE n \in 0 .. Len(str) : Right(n)
    BY DEF EndOfDigits, k
  <2> HIDE DEF Right
  <2> QED  BY <1>5, <1>6, <1>7, <2>1
<1>9. \A m \in 1 .. c : DigitAt(p, l.base, m) # -1
  <2>1. ASSUME NEW m \in 1 .. c PROVE DigitAt(p, l.base, m) # -1
    <3>1. m - 1 \in 0 .. c - 1 /\ p + (m - 1) = p + m - 1
      BY <1>1, <1>p, <1>5
    <3> QED  BY <1>2, <3>1 DEF DigitAt
  <2> QED  BY <2>1
<1> QED  BY <1>5, <1>8, <1>9 DEF c, p, k

\* A string of the parsers: its characters are not the null byte.
IsText(s) == s \in Seq(STRING) /\ \A n \in 1 .. Len(s) : s[n] # NUL

\* A number is parsed by the sign and the base that it begins with.
LEMMA LeadTaken ==
  ASSUME IsText(str), NEW l \in Beginnings, IsPrefix(l.chars, str),
         Len(str) > Len(l.chars), IsDigit(str[Len(l.chars) + 1], l.base),
         l.base = 10 /\ str[Len(l.chars) + 1] = "0" =>
           /\ Len(l.chars) + 1 < Len(str)
           /\ str[Len(l.chars) + 2] \notin {"b", "o", "x"}
  PROVE  mig_parse_int(str, after) = Signed(l.sign, mig_parse_uint(str, Len(l.chars) + 1, l.base))
<1>0. str \in Seq(STRING)
  BY DEF IsText
<1>1. Len(str) \in Nat /\ Len(l.chars) \in Nat
  BY <1>0, LeadsAre
<1>2. \A i \in 1 .. Len(l.chars) : l.chars[i] = str[i]
  BY <1>0, LeadsAre, PrefixIs
<1>3. ASSUME NEW c \in {"-", "+"} PROVE ~IsDigit(c, 10)
  <2>1. Small(c) = c
    BY DEF Small, Lower
  <2>2. \A n \in 1 .. 10 : Digits[n] # c
    BY DEF Digits
  <2>3. Len(SubSeq(Digits, 1, 10)) = 10 /\ \A n \in 1 .. 10 : SubSeq(Digits, 1, 10)[n] = Digits[n]
    BY DigitsDiffer
  <2> QED  BY <2>1, <2>2, <2>3 DEF IsDigit, DigitsOf, Contains
<1>4. \A i \in 1 .. Len(str) : At(str, after, i) = str[i]
  BY <1>1 DEF At
<1> DEFINE k == Len(l.chars)
           mark == IF At(str, after, k + 1) = "0" THEN At(str, after, k + 1 + 1) ELSE "none"
<1>m. l.base = 10 => mark \notin {"b", "o", "x", NUL}
  <2>1. k + 1 \in 1 .. Len(str) /\ At(str, after, k + 1) = str[k + 1]
    BY <1>1, <1>4
  <2>2. CASE str[k + 1] # "0"
    BY <2>1, <2>2 DEF NUL
  <2>3. CASE l.base = 10 /\ str[k + 1] = "0"
    <3>1. k + 1 + 1 = k + 2 /\ k + 2 \in 1 .. Len(str)
      BY <1>1, <2>3
    <3>2. mark = str[k + 2] /\ str[k + 2] # NUL
      BY <1>4, <2>1, <2>3, <3>1 DEF IsText
    <3> QED  BY <2>3, <3>2
  <2> QED  BY <2>2, <2>3
<1> DEFINE uint(p, radix) == mig_parse_uint(str, p, radix)
<1>5. CASE Len(l.chars) = 0 /\ l.base = 10 /\ l.sign = 1
  <2>1. At(str, after, 1) = str[1] /\ str[1] \notin {"-", "+"} /\ k + 1 = 1
    BY <1>1, <1>3, <1>4, <1>5
  <2>3. (IF At(str, after, 1) = "0" THEN At(str, after, 1 + 1) ELSE "none") \notin {"b", "o", "x", NUL}
    BY <1>5, <1>m, <2>1
  <2> HIDE DEF uint, mark
  <2>2. mig_parse_int(str, after) = Signed(1, uint(1, 10))
    BY <2>1, <2>3 DEF mig_parse_int, uint
  <2> QED  BY <1>5, <2>1, <2>2 DEF uint
<1>6. CASE Len(l.chars) = 1 /\ l.chars[1] = "-" /\ l.base = 10 /\ l.sign = -1
  <2>1. At(str, after, 1) = "-" /\ k + 1 = 2
    BY <1>1, <1>2, <1>4, <1>6
  <2>3. (IF At(str, after, 2) = "0" THEN At(str, after, 2 + 1) ELSE "none") \notin {"b", "o", "x", NUL}
    BY <1>6, <1>m, <2>1
  <2> HIDE DEF uint, mark
  <2>2. mig_parse_int(str, after) = Signed(-1, uint(2, 10))
    BY <2>1, <2>3 DEF mig_parse_int, uint
  <2> QED  BY <1>6, <2>1, <2>2 DEF uint
<1>7. CASE Len(l.chars) = 1 /\ l.chars[1] = "+" /\ l.base = 10 /\ l.sign = 1
  <2>1. At(str, after, 1) = "+" /\ k + 1 = 2
    BY <1>1, <1>2, <1>4, <1>7
  <2>3. (IF At(str, after, 2) = "0" THEN At(str, after, 2 + 1) ELSE "none") \notin {"b", "o", "x", NUL}
    BY <1>7, <1>m, <2>1
  <2> HIDE DEF uint, mark
  <2>2. mig_parse_int(str, after) = Signed(1, uint(2, 10))
    BY <2>1, <2>3 DEF mig_parse_int, uint
  <2> QED  BY <1>7, <2>1, <2>2 DEF uint
<1> HIDE DEF mark
<1>8. CASE Len(l.chars) = 2 /\ l.chars[1] = "0" /\ l.sign = 1 /\ MarkOf(l.chars[2], l.base)
  <2>1. /\ At(str, after, 1) = "0" /\ At(str, after, 1 + 1) = l.chars[2] /\ Len(l.chars) + 1 = 1 + 2
    BY <1>1, <1>2, <1>4, <1>8
  <2>2. CASE l.chars[2] = "b" /\ l.base = 2
    <3>1. mig_parse_int(str, after) = Signed(1, uint(1 + 2, 2))
      BY <2>1, <2>2 DEF mig_parse_int, NUL
    <3> QED  BY <1>8, <2>1, <2>2, <3>1
  <2>3. CASE l.chars[2] = "o" /\ l.base = 8
    <3>1. mig_parse_int(str, after) = Signed(1, uint(1 + 2, 8))
      BY <2>1, <2>3 DEF mig_parse_int, NUL
    <3> QED  BY <1>8, <2>1, <2>3, <3>1
  <2>4. CASE l.chars[2] = "x" /\ l.base = 16
    <3>1. mig_parse_int(str, after) = Signed(1, uint(1 + 2, 16))
      BY <2>1, <2>4 DEF mig_parse_int, NUL
    <3> QED  BY <1>8, <2>1, <2>4, <3>1
  <2> QED  BY <1>8, <2>2, <2>3, <2>4 DEF MarkOf
<1>9. CASE /\ Len(l.chars) = 3 /\ l.chars[2] = "0" /\ MarkOf(l.chars[3], l.base)
           /\ \/ l.chars[1] = "-" /\ l.sign = -1
              \/ l.chars[1] = "+" /\ l.sign = 1
  <2>1. /\ At(str, after, 1) = l.chars[1] /\ At(str, after, 2) = "0"
        /\ At(str, after, 2 + 1) = l.chars[3] /\ Len(l.chars) + 1 = 2 + 2
    BY <1>1, <1>2, <1>4, <1>9
  <2>0. /\ At(str, after, 1) \in {"-", "+"}
        /\ (IF At(str, after, 1) = "-" THEN -1 ELSE 1) = l.sign
    BY <1>9, <2>1
  <2>2. CASE l.chars[3] = "b" /\ l.base = 2
    <3>1. mig_parse_int(str, after) = Signed(l.sign, uint(2 + 2, 2))
      BY <2>0, <2>1, <2>2 DEF mig_parse_int, NUL
    <3> QED  BY <2>1, <2>2, <3>1
  <2>3. CASE l.chars[3] = "o" /\ l.base = 8
    <3>1. mig_parse_int(str, after) = Signed(l.sign, uint(2 + 2, 8))
      BY <2>0, <2>1, <2>3 DEF mig_parse_int, NUL
    <3> QED  BY <2>1, <2>3, <3>1
  <2>4. CASE l.chars[3] = "x" /\ l.base = 16
    <3>1. mig_parse_int(str, after) = Signed(l.sign, uint(2 + 2, 16))
      BY <2>0, <2>1, <2>4 DEF mig_parse_int, NUL
    <3> QED  BY <2>1, <2>4, <3>1
  <2> QED  BY <1>9, <2>2, <2>3, <2>4 DEF MarkOf
<1> QED  BY <1>5, <1>6, <1>7, <1>8, <1>9, LeadsAre DEF Begun

\* Zero written as nothing but "0" is zero without an end.
LEMMA ZeroIs ==
  ASSUME IsText(str), NEW l \in Beginnings, IsPrefix(l.chars, str), l.base = 10,
         Len(l.chars) + 1 = Len(str), str[Len(str)] = "0"
  PROVE  mig_parse_int(str, after) = [val |-> 0, end |-> NULL]
<1>0. str \in Seq(STRING)
  BY DEF IsText
<1>1. Len(str) \in Nat /\ Len(l.chars) \in Nat
  BY <1>0, LeadsAre
<1>2. \A i \in 1 .. Len(l.chars) : l.chars[i] = str[i]
  BY <1>0, LeadsAre, PrefixIs
<1>3. \A i \in 1 .. Len(str) : At(str, after, i) = str[i]
  BY <1>1 DEF At
<1>4. At(str, after, Len(str)) = "0" /\ At(str, after, Len(str) + 1) = NUL
  BY <1>1, <1>3 DEF At
<1>5. CASE Len(l.chars) = 0
  <2>0. Len(str) = 1
    BY <1>1, <1>5
  <2>1. At(str, after, 1) = "0" /\ At(str, after, 1 + 1) = NUL
    BY <1>4, <2>0, Zenon
  <2> QED  BY <2>1 DEF mig_parse_int, NUL
<1>6. CASE Len(l.chars) = 1 /\ l.chars[1] \in {"-", "+"}
  <2>0. Len(str) = 2 /\ 1 \in 1 .. Len(l.chars) /\ 1 \in 1 .. Len(str)
    <3>1. PICK k : k = Len(l.chars) /\ k + 1 = Len(str)
      OBVIOUS
    <3>2. k = 1
      BY <1>6, <3>1, Zenon
    <3>3. 1 + 1 = 2 /\ 1 \in 1 .. 1 /\ 1 \in 1 .. 2
      OBVIOUS
    <3>4. Len(str) = 2
      BY <3>1, <3>2, <3>3, Zenon
    <3> QED  BY <3>1, <3>2, <3>3, <3>4, Zenon
  <2>2. At(str, after, 1) \in {"-", "+"}
    BY <1>2, <1>3, <1>6, <2>0
  <2>3. At(str, after, 2) = "0" /\ At(str, after, 2 + 1) = NUL
    BY <1>4, <2>0, Zenon
  <2>1. At(str, after, 1) \in {"-", "+"} /\ At(str, after, 2) = "0" /\ At(str, after, 2 + 1) = NUL
    BY <2>2, <2>3
  <2> QED  BY <2>1 DEF mig_parse_int, NUL
<1> QED  BY <1>5, <1>6, LeadsAre DEF Begun, MarkOf

\* A number is parsed as it is written.
LEMMA NumberIs ==
  ASSUME IsText(str), NEW l \in Beginnings, WrittenAs(l, EndOfDigits(l))
  PROVE  LET n == EndOfDigits(l)
         IN  /\ n \in 1 .. Len(str) /\ ValueOf(l, n) \in Int /\ l.sign \in Int
             /\ mig_parse_int(str, after) =
                  [val |-> ToInt(l.sign * ValueOf(l, n)),
                   end |-> IF ZeroAlone(l, n) THEN NULL ELSE n + 1]
<1> DEFINE k == Len(l.chars)
           c == DigitCount(str, k + 1, l.base)
           n == EndOfDigits(l)
<1>0. str \in Seq(STRING) /\ IsPrefix(l.chars, str)
  BY DEF IsText, WrittenAs
<1>1. l.base \in Bases /\ l.sign \in Int /\ k \in Nat /\ k <= Len(str) /\ Len(str) \in Nat
  BY <1>0, LeadsAre, PrefixIs
<1>2. n = k + c /\ c \in Nat /\ \A m \in 1 .. c : DigitAt(k + 1, l.base, m) # -1
  BY <1>0, <1>1, EndIs
<1>w. /\ n >= k + 1
      /\ l.base = 10 /\ str[k + 1] = "0" /\ k + 1 < Len(str)
           => str[k + 1 + 1] \notin {"b", "o", "x"}
  BY DEF WrittenAs
<1>d. c \in 0 .. Len(str) + 1 - (k + 1)
  <2>1. k + 1 \in 1 .. Len(str) + 1
    BY <1>1
  <2> QED  BY <1>1, <2>1, CountIs
<1> HIDE DEF c, n
<1>3. c > 0 /\ (k + c) - k = c
  BY <1>1, <1>2, <1>w
<1>4. IsDigit(str[k + 1], l.base)
  <2>1. DigitAt(k + 1, l.base, 1) # -1 /\ k + 1 + 1 - 1 = k + 1
    BY <1>1, <1>2, <1>3
  <2> QED  BY <1>1, <2>1, DigitIs DEF DigitAt
<1>5. Len(str) > k /\ n \in 1 .. Len(str)
  BY <1>1, <1>2, <1>3, <1>d
<1> DEFINE sum == Weighed(k + 1, l.base, c)[c]
<1>7. Taken(str, k + 1, l.base, c)[c] = ToInt(sum) /\ sum \in Int
  BY <1>1, <1>2, ValueIs
<1>9. ValueOf(l, n) = sum
  BY <1>2, <1>3 DEF ValueOf
<1>z. CASE ZeroAlone(l, n)
  <2>1. l.base = 10 /\ k + 1 = Len(str) /\ str[Len(str)] = "0" /\ c = 1 /\ k + 1 + 1 - 1 = Len(str)
    BY <1>1, <1>2, <1>z DEF ZeroAlone
  <2>2. mig_parse_int(str, after) = [val |-> 0, end |-> NULL]
    BY <1>0, <2>1, ZeroIs
  <2>3. DigitAt(k + 1, l.base, 1) = 0
    <3>1. Small("0") = "0" /\ Digits[1] = "0" /\ 1 \in 1 .. 16
      BY DEF Small, Lower, Digits
    <3>2. CharToDigit("0", 10) = 0
      <4>1. \A m \in 1 .. 10 : Digits[m] = "0" => m = 1
        BY DEF Digits
      <4>2. (CHOOSE m \in 1 .. 10 : Digits[m] = "0") = 1
        BY <3>1, <4>1
      <4> QED  BY <3>1, <4>2 DEF CharToDigit, Small
    <3> QED  BY <2>1, <3>2 DEF DigitAt
  <2>4. sum = 0
    <3>1. \A m \in 1 .. c : DigitAt(k + 1, l.base, m) # -1
      BY <1>2
    <3>2. PICK w : w = Weighed(k + 1, l.base, c)
      OBVIOUS
    <3>3. w[0] = 0 /\ w[1] = w[1 - 1] + DigitAt(k + 1, l.base, 1) * Powers(l.base, c)[c - 1]
      <4>1. /\ w[0] = 0
            /\ \A m \in 1 .. c :
                 w[m] = w[m - 1] + DigitAt(k + 1, l.base, m) * Powers(l.base, c)[c - m]
        BY <1>1, <1>2, <3>1, <3>2, WeighedIs
      <4>2. 1 \in 1 .. c
        BY <2>1
      <4> QED  BY <4>1, <4>2
    <3>4. Powers(l.base, c)[0] \in Int
      BY <1>1, <1>2, PowersAre
    <3>5. w[1] = 0
      BY <2>1, <2>3, <3>3, <3>4
    <3> QED  BY <2>1, <3>2, <3>5
  <2> HIDE DEF sum
  <2>5. l.sign * ValueOf(l, n) = 0
    BY <1>1, <1>9, <2>4
  <2>6. ToInt(l.sign * ValueOf(l, n)) = 0
    BY <2>5, ZeroStays
  <2>7. mig_parse_int(str, after) =
          [val |-> ToInt(l.sign * ValueOf(l, n)), end |-> IF ZeroAlone(l, n) THEN NULL ELSE n + 1]
    BY <1>z, <2>2, <2>6
  <2> QED  BY <1>1, <1>5, <1>7, <1>9, <2>7 DEF n
<1>y. CASE ~ZeroAlone(l, n)
  <2>0. l.base = 10 /\ str[k + 1] = "0" =>
          k + 1 < Len(str) /\ str[k + 2] \notin {"b", "o", "x"}
    <3> SUFFICES ASSUME l.base = 10, str[k + 1] = "0"
                 PROVE  k + 1 < Len(str) /\ str[k + 2] \notin {"b", "o", "x"}
      OBVIOUS
    <3>1. CASE k + 1 = Len(str)
      <4>1. n = k + 1
        BY <1>1, <1>5, <1>w, <3>1
      <4> QED  BY <1>y, <3>1, <4>1 DEF ZeroAlone
    <3>2. CASE k + 1 # Len(str)
      <4>1. k + 1 < Len(str) /\ k + 1 + 1 = k + 2
        BY <1>1, <1>5, <3>2
      <4> QED  BY <1>w, <4>1
    <3> QED  BY <3>1, <3>2
  <2>6. mig_parse_int(str, after) = Signed(l.sign, mig_parse_uint(str, k + 1, l.base))
    BY <1>0, <1>4, <1>5, <2>0, LeadTaken
  <2>8. mig_parse_uint(str, k + 1, l.base) = [val |-> ToInt(sum), end |-> k + 1 + c]
    BY <1>3, <1>7 DEF mig_parse_uint, c
  <2> HIDE DEF sum
  <2>10. ToInt(l.sign * ToInt(sum)) = ToInt(l.sign * sum)
    <3>1. PICK t \in Int : t = sum
      BY <1>7
    <3>2. PICK g \in Int : g = l.sign
      BY <1>1
    <3>3. g * ToInt(t) + 0 = g * ToInt(t) /\ g * t + 0 = g * t
      <4>1. PICK u \in Int : u = ToInt(t)
        BY ToIntIs
      <4>2. g * u + 0 = g * u /\ g * t + 0 = g * t
        OBVIOUS
      <4> QED  BY <4>1, <4>2
    <3>4. ToInt(g * ToInt(t) + 0) = ToInt(g * t + 0)
      BY ToIntAbsorbs
    <3> QED  BY <3>1, <3>2, <3>3, <3>4
  <2>11. mig_parse_int(str, after) = [val |-> ToInt(l.sign * ToInt(sum)), end |-> k + 1 + c]
    BY <2>6, <2>8 DEF Signed
  <2>12. k + 1 + c = n + 1
    BY <1>1, <1>2
  <2>13. mig_parse_int(str, after) =
           [val |-> ToInt(l.sign * ValueOf(l, n)), end |-> IF ZeroAlone(l, n) THEN NULL ELSE n + 1]
    BY <1>9, <1>y, <2>10, <2>11, <2>12
  <2> QED  BY <1>1, <1>5, <1>7, <1>9, <2>13 DEF n
<1> QED  BY <1>y, <1>z

LEMMA IntIsWritten ==
  ASSUME IsText(str), num = mig_parse_int(str, after)
  PROVE  IntAsWritten
BY NumberIs DEF IntAsWritten

-----------------------------------------------------------------------------
(* Numbers: sizes. *)

\* Within a string and its null byte nothing depends on what comes after it.
LEMMA AtIs ==
  ASSUME NEW s \in Seq(STRING), NEW past
  PROVE  /\ \A p \in 1 .. Len(s) : At(s, past, p) = s[p]
         /\ At(s, past, Len(s) + 1) = NUL
         /\ \A q : \A p \in 1 .. Len(s) + 1 : At(s, past, p) = At(s, q, p)
<1>1. Len(s) \in Nat
  OBVIOUS
<1>2. \A p \in 1 .. Len(s) : At(s, past, p) = s[p]
  BY <1>1 DEF At
<1>3. At(s, past, Len(s) + 1) = NUL
  BY <1>1 DEF At
<1>4. \A q : \A p \in 1 .. Len(s) + 1 : At(s, past, p) = At(s, q, p)
  BY <1>1 DEF At
<1> QED  BY <1>2, <1>3, <1>4

\* A number ends in the string or at its null byte,
LEMMA UIntEnds ==
  ASSUME NEW s \in Seq(STRING), NEW p \in 1 .. Len(s) + 1, NEW radix \in Bases, NEW sign
  PROVE  Signed(sign, mig_parse_uint(s, p, radix)).end \in 0 .. Len(s) + 1
<1>1. DigitCount(s, p, radix) \in 0 .. Len(s) + 1 - p /\ Len(s) \in Nat
  BY CountIs
<1>2. mig_parse_uint(s, p, radix).end \in 0 .. Len(s) + 1
  BY <1>1 DEF mig_parse_uint, NULL
<1>3. Signed(sign, mig_parse_uint(s, p, radix)).end = mig_parse_uint(s, p, radix).end
  BY DEF Signed, mig_parse_uint
<1> QED  BY <1>2, <1>3

\* and nothing but the string decides what it is.
LEMMA IntByString ==
  ASSUME NEW s \in Seq(STRING), NEW past, NEW other
  PROVE  /\ mig_parse_int(s, past) = mig_parse_int(s, other)
         /\ mig_parse_int(s, past).end \in 0 .. Len(s) + 1
<1> DEFINE sign == IF At(s, past, 1) = "-" THEN -1 ELSE 1
           p    == IF At(s, past, 1) \in {"-", "+"} THEN 2 ELSE 1
           mark == IF At(s, past, p) = "0" THEN At(s, past, p + 1) ELSE "none"
<1>1. Len(s) \in Nat /\ NUL = "zero"
  BY DEF NUL
<1>2. At(s, past, 1) = At(s, other, 1)
  <2>1. 1 \in 1 .. Len(s) + 1
    BY <1>1
  <2> QED  BY <2>1, AtIs
<1>3. p \in 1 .. Len(s) + 1
  <2>1. CASE At(s, past, 1) \in {"-", "+"}
    <3>1. 1 # Len(s) + 1
      BY <1>1, <2>1, AtIs
    <3> QED  BY <1>1, <2>1, <3>1
  <2>2. CASE At(s, past, 1) \notin {"-", "+"}
    BY <1>1, <2>2
  <2> QED  BY <2>1, <2>2
<1>4. At(s, past, p) = At(s, other, p)
  BY <1>3, AtIs
<1>5. At(s, past, p) = "0" => p + 1 \in 1 .. Len(s) + 1
  <2>1. At(s, past, p) = "0" => p # Len(s) + 1
    BY <1>1, AtIs
  <2> HIDE DEF p
  <2> QED  BY <1>1, <1>3, <2>1
<1>6. At(s, past, p) = "0" => At(s, past, p + 1) = At(s, other, p + 1)
  BY <1>5, AtIs
<1>7. mark \in {"b", "o", "x"} => p + 2 \in 1 .. Len(s) + 1
  <2>1. mark \in {"b", "o", "x"} => p + 1 # Len(s) + 1 /\ p + 1 \in 1 .. Len(s) + 1
    BY <1>1, <1>5, AtIs
  <2> HIDE DEF p, mark
  <2> QED  BY <1>1, <1>3, <2>1
<1> DEFINE result == CASE mark = "b" -> Signed(sign, mig_parse_uint(s, p + 2, 2))
                       [] mark = "o" -> Signed(sign, mig_parse_uint(s, p + 2, 8))
                       [] mark = "x" -> Signed(sign, mig_parse_uint(s, p + 2, 16))
                       [] mark = NUL -> [val |-> 0, end |-> NULL]
                       [] OTHER      -> Signed(sign, mig_parse_uint(s, p, 10))
<1>8. mig_parse_int(s, past) = result
  BY DEF mig_parse_int
<1>9. mig_parse_int(s, other) = result
  <2> DEFINE p2    == IF At(s, other, 1) \in {"-", "+"} THEN 2 ELSE 1
             mark2 == IF At(s, other, p2) = "0" THEN At(s, other, p2 + 1) ELSE "none"
  <2>1. p2 = p
    BY <1>2
  <2>2. mark2 = mark
    <3> HIDE DEF p, p2
    <3> QED  BY <1>4, <1>6, <2>1
  <2>3. (IF At(s, other, 1) = "-" THEN -1 ELSE 1) = sign
    BY <1>2
  <2> HIDE DEF p, mark, sign
  <2> QED  BY <2>1, <2>2, <2>3 DEF mig_parse_int
<1> HIDE DEF p, mark, sign
<1>10. result.end \in 0 .. Len(s) + 1
  <2>1. \A b \in Bases : mark \in {"b", "o", "x"} =>
          Signed(sign, mig_parse_uint(s, p + 2, b)).end \in 0 .. Len(s) + 1
    BY <1>7, UIntEnds
  <2>2. Signed(sign, mig_parse_uint(s, p, 10)).end \in 0 .. Len(s) + 1
    BY <1>3, UIntEnds DEF Bases
  <2>3. CASE mark = "b"
    <3>1. result = Signed(sign, mig_parse_uint(s, p + 2, 2)) /\ 2 \in Bases
      BY <1>1, <2>3 DEF Bases
    <3> HIDE DEF result
    <3> QED  BY <2>1, <2>3, <3>1
  <2>4. CASE mark = "o"
    <3>1. result = Signed(sign, mig_parse_uint(s, p + 2, 8)) /\ 8 \in Bases
      BY <1>1, <2>4 DEF Bases
    <3> HIDE DEF result
    <3> QED  BY <2>1, <2>4, <3>1
  <2>5. CASE mark = "x"
    <3>1. result = Signed(sign, mig_parse_uint(s, p + 2, 16)) /\ 16 \in Bases
      BY <1>1, <2>5 DEF Bases
    <3> HIDE DEF result
    <3> QED  BY <2>1, <2>5, <3>1
  <2>6. CASE mark = NUL
    BY <1>1, <2>6 DEF NULL
  <2>7. CASE mark \notin {"b", "o", "x", NUL}
    BY <2>2, <2>7
  <2> QED  BY <2>3, <2>4, <2>5, <2>6, <2>7
<1> HIDE DEF result
<1> QED  BY <1>8, <1>9, <1>10

\* Nor does anything else decide what size it is.
LEMMA SizeIsByString ==
  ASSUME str \in Seq(STRING), size = mig_parse_size(str, after)
  PROVE  SizeByString
<1> SUFFICES ASSUME NEW past \in Afters
             PROVE  mig_parse_size(str, past).val = mig_parse_size(str, after).val
  BY DEF SizeByString
<1>1. PICK m : m = mig_parse_int(str, after) /\ m = mig_parse_int(str, past) /\ m.end \in 0 .. Len(str) + 1
  BY IntByString
<1>2. CASE m.end = NULL
  BY <1>1, <1>2 DEF mig_parse_size
<1>3. CASE m.end # NULL
  <2>1. Unit(str, past, m.end) = Unit(str, after, m.end)
    <3>1. m.end \in 1 .. Len(str) + 1
      BY <1>1, <1>3 DEF NULL
    <3>2. At(str, past, m.end) = At(str, after, m.end)
      BY <3>1, AtIs
    <3> QED  BY <3>2 DEF Unit
  <2> QED  BY <1>1, <1>3, <2>1 DEF mig_parse_size
<1> QED  BY <1>2, <1>3

\* A size is the number with the unit that is written.
LEMMA SizeIsWritten ==
  ASSUME IsText(str), size = mig_parse_size(str, after)
  PROVE  SizeAsWritten
<1> SUFFICES ASSUME NEW l \in Beginnings, WrittenAs(l, EndOfDigits(l))
             PROVE  LET n      == EndOfDigits(l)
                        binary == n + 3 <= Len(str) /\ str[n + 2] = "i" /\ str[n + 3] = "B"
                    IN  /\ size.val = ToInt(l.sign * ValueOf(l, n) * UnitAt(n + 1))
                        /\ n < Len(str) => size.end = IF binary THEN n + 4 ELSE n + 2
  BY DEF SizeAsWritten
<1>0. PICK n : n = EndOfDigits(l)
  OBVIOUS
<1>1. PICK value \in Int : value = l.sign * ValueOf(l, n)
  BY <1>0, NumberIs
<1>2. n \in 1 .. Len(str) /\ Len(str) \in Nat /\ n \in Nat
  BY <1>0, NumberIs DEF IsText
<1>3. mig_parse_int(str, after) = [val |-> ToInt(value), end |-> IF ZeroAlone(l, n) THEN NULL ELSE n + 1]
  BY <1>0, <1>1, NumberIs
<1>4. \A i \in 1 .. Len(str) : At(str, after, i) = str[i] /\ str[i] # NUL
  BY AtIs DEF IsText
<1>5. At(str, after, Len(str) + 1) = NUL
  BY AtIs DEF IsText
<1>6. UnitAt(n + 1) \in Int /\ UnitAt(n + 1) = Unit(str, after, n + 1)
  <2>k. Kilo \in Int /\ Kilo * Kilo \in Int /\ Kilo * Kilo * Kilo \in Int
    BY ParseNumAssumption
  <2>u. DOMAIN UnitWorth = {"K", "M", "G", "k", "m", "g"}
    BY DEF UnitWorth
  <2>1. CASE n = Len(str)
    <3>1. ~(n + 1 <= Len(str)) /\ At(str, after, n + 1) = NUL
      BY <1>2, <1>5, <2>1
    <3> QED  BY <3>1 DEF UnitAt, Unit, NUL
  <2>2. CASE n # Len(str)
    <3>1. n + 1 \in 1 .. Len(str) /\ n + 1 <= Len(str)
      BY <1>2, <2>2
    <3>2. PICK c : c = str[n + 1] /\ c = At(str, after, n + 1)
      BY <1>4, <3>1
    <3>3. UnitAt(n + 1) = IF c \in DOMAIN UnitWorth THEN UnitWorth[c] ELSE 1
      BY <3>1, <3>2 DEF UnitAt
    <3>4. CASE c \in {"K", "k"}
      <4>1. UnitWorth[c] = Kilo
        BY <3>4 DEF UnitWorth
      <4>2. Unit(str, after, n + 1) = Kilo
        BY <3>2, <3>4 DEF Unit
      <4> QED  BY <2>k, <2>u, <3>3, <3>4, <4>1, <4>2
    <3>5. CASE c \in {"M", "m"}
      <4>1. UnitWorth[c] = Kilo * Kilo
        BY <3>5 DEF UnitWorth
      <4>2. Unit(str, after, n + 1) = Kilo * Kilo
        BY <3>2, <3>5 DEF Unit
      <4> QED  BY <2>k, <2>u, <3>3, <3>5, <4>1, <4>2
    <3>6. CASE c \in {"G", "g"}
      <4>1. UnitWorth[c] = Kilo * Kilo * Kilo
        BY <3>6 DEF UnitWorth
      <4>2. Unit(str, after, n + 1) = Kilo * Kilo * Kilo
        BY <3>2, <3>6 DEF Unit
      <4> QED  BY <2>k, <2>u, <3>3, <3>6, <4>1, <4>2
    <3>7. CASE c \notin {"K", "M", "G", "k", "m", "g"}
      <4>1. Unit(str, after, n + 1) = 1
        BY <3>2, <3>7 DEF Unit
      <4> QED  BY <2>u, <3>3, <3>7, <4>1
    <3> QED  BY <3>4, <3>5, <3>6, <3>7
  <2> QED  BY <2>1, <2>2
<1>7. PICK u \in Int : u = UnitAt(n + 1)
  BY <1>6
<1>8. CASE ZeroAlone(l, n)
  <2>1. n = Len(str) /\ ~(n < Len(str))
    BY <1>2, <1>8 DEF ZeroAlone
  <2>2. size = [val |-> ToInt(value), end |-> NULL]
    BY <1>3, <1>8 DEF mig_parse_size
  <2>3. UnitAt(n + 1) = 1
    <3>1. ~(n + 1 <= Len(str))
      BY <1>2, <2>1
    <3> QED  BY <3>1 DEF UnitAt
  <2>4. value * UnitAt(n + 1) = value
    BY <2>3
  <2> QED  BY <1>0, <1>1, <2>1, <2>2, <2>4
<1>9. CASE ~ZeroAlone(l, n)
  <2>1. mig_parse_int(str, after).end = n + 1 /\ mig_parse_int(str, after).val = ToInt(value)
    BY <1>3, <1>9
  <2>2. n + 1 # NULL
    BY <1>2 DEF NULL
  <2> DEFINE suffixed == At(str, after, n + 1 + 1) = "i" /\ At(str, after, n + 1 + 2) = "B"
             binary == n + 3 <= Len(str) /\ str[n + 2] = "i" /\ str[n + 3] = "B"
  <2>3. /\ size.val = ToInt(ToInt(value) * ToInt(u))
        /\ size.end = IF suffixed THEN n + 1 + 3 ELSE n + 1 + 1
    BY <1>6, <1>7, <2>1, <2>2 DEF mig_parse_size
  <2>4. ToInt(ToInt(value) * ToInt(u)) = ToInt(value * u)
    <3>1. PICK v \in Int : v = ToInt(value)
      BY ToIntIs
    <3>2. PICK t \in Int : t = ToInt(u)
      BY ToIntIs
    <3>3. /\ v * t + 0 = v * t /\ v * u + 0 = v * u
          /\ u * v + 0 = v * u /\ u * value + 0 = value * u
      OBVIOUS
    <3>4. ToInt(v * t + 0) = ToInt(v * u + 0)
      BY <3>2, ToIntAbsorbs
    <3>5. ToInt(u * v + 0) = ToInt(u * value + 0)
      BY <3>1, ToIntAbsorbs
    <3> QED  BY <3>1, <3>2, <3>3, <3>4, <3>5
  <2>5. n < Len(str) => (suffixed <=> binary)
    <3> SUFFICES ASSUME n < Len(str) PROVE suffixed <=> binary
      OBVIOUS
    <3>0. n + 1 + 1 = n + 2 /\ n + 1 + 2 = n + 3
      BY <1>2
    <3>1. CASE n + 3 <= Len(str)
      <4>1. n + 2 \in 1 .. Len(str) /\ n + 3 \in 1 .. Len(str)
        BY <1>2, <3>1
      <4> QED  BY <1>4, <3>0, <3>1, <4>1
    <3>2. CASE n + 2 = Len(str)
      <4>1. n + 3 = Len(str) + 1 /\ ~(n + 3 <= Len(str))
        BY <1>2, <3>2
      <4>2. At(str, after, n + 1 + 2) = NUL
        BY <1>5, <3>0, <4>1
      <4> QED  BY <4>1, <4>2 DEF NUL
    <3>3. CASE n + 1 = Len(str)
      <4>1. n + 2 = Len(str) + 1 /\ ~(n + 3 <= Len(str))
        BY <1>2, <3>3
      <4>2. At(str, after, n + 1 + 1) = NUL
        BY <1>5, <3>0, <4>1
      <4> QED  BY <4>1, <4>2 DEF NUL
    <3> QED  BY <1>2, <3>1, <3>2, <3>3
  <2>6. n + 1 + 3 = n + 4 /\ n + 1 + 1 = n + 2
    BY <1>2
  <2> HIDE DEF suffixed, binary
  <2>7. /\ size.val = ToInt(value * u)
        /\ n < Len(str) => size.end = IF binary THEN n + 4 ELSE n + 2
    BY <2>3, <2>4, <2>5, <2>6
  <2> QED  BY <1>0, <1>1, <1>7, <2>7 DEF binary
<1> QED  BY <1>8, <1>9

-----------------------------------------------------------------------------
(* Numbers: switches. *)

\* What a character becomes in lower case, for the letters of the words.
LEMMA LoweredIs ==
  ASSUME NEW c
  PROVE  /\ Lowered(c) = "t" <=> c \in {"t", "T"}
         /\ Lowered(c) = "r" <=> c \in {"r", "R"}
         /\ Lowered(c) = "u" <=> c \in {"u", "U"}
         /\ Lowered(c) = "e" <=> c \in {"e", "E"}
         /\ Lowered(c) = "f" <=> c \in {"f", "F"}
         /\ Lowered(c) = "a" <=> c \in {"a", "A"}
         /\ Lowered(c) = "l" <=> c \in {"l", "L"}
         /\ Lowered(c) = "s" <=> c \in {"s", "S"}
         /\ Lowered(c) = "y" <=> c \in {"y", "Y"}
         /\ Lowered(c) = "n" <=> c \in {"n", "N"}
         /\ Lowered(c) = "o" <=> c \in {"o", "O"}
BY DEF Lowered, Contains

\* A string in lower case has as many characters.
LEMMA LowerIs ==
  ASSUME NEW s \in Seq(STRING)
  PROVE  /\ InLower(s) \in Seq({Lowered(c) : c \in STRING}) /\ Len(InLower(s)) = Len(s)
         /\ \A i \in 1 .. Len(s) : InLower(s)[i] = Lowered(s[i])
<1>1. DOMAIN s = 1 .. Len(s) /\ Len(s) \in Nat
  OBVIOUS
<1>2. InLower(s) \in [1 .. Len(s) -> {Lowered(c) : c \in STRING}]
  BY <1>1 DEF InLower
<1> QED  BY <1>1, <1>2 DEF InLower

BeginsAs(s, w) == Len(w) <= Len(s) /\ \A i \in 1 .. Len(w) : w[i] = Lowered(s[i])

\* A string begins with a word when its characters in lower case are those of the word.
LEMMA BeginsIs ==
  ASSUME NEW s \in Seq(STRING), NEW S, NEW w \in Seq(S)
  PROVE  Begins(s, w) <=> BeginsAs(s, w)
<1>1. PICK q \in Seq({Lowered(c) : c \in STRING}) :
        q = InLower(s) /\ Len(q) = Len(s) /\ \A i \in 1 .. Len(s) : q[i] = Lowered(s[i])
  BY LowerIs
<1>2. IsPrefix(w, q) <=> Len(w) <= Len(q) /\ \A i \in 1 .. Len(w) : w[i] = q[i]
  BY PrefixIs
<1>3. Len(w) \in Nat /\ Len(s) \in Nat
  OBVIOUS
<1> QED  BY <1>1, <1>2, <1>3 DEF Begins, BeginsAs

\* The words, by their length.
LEMMA Begins2 ==
  ASSUME NEW s \in Seq(STRING), NEW a, NEW b
  PROVE  Begins(s, <<a, b>>) <=>
           Len(s) >= 2 /\ Lowered(s[1]) = a /\ Lowered(s[2]) = b
<1>1. <<a, b>> \in Seq({a, b}) /\ Len(<<a, b>>) = 2 /\ Len(s) \in Nat
  OBVIOUS
<1>2. Begins(s, <<a, b>>) <=> BeginsAs(s, <<a, b>>)
  BY <1>1, BeginsIs
<1> QED  BY <1>1, <1>2 DEF BeginsAs

LEMMA Begins3 ==
  ASSUME NEW s \in Seq(STRING), NEW a, NEW b, NEW c
  PROVE  Begins(s, <<a, b, c>>) <=>
           Len(s) >= 3 /\ Lowered(s[1]) = a /\ Lowered(s[2]) = b /\ Lowered(s[3]) = c
<1>1. <<a, b, c>> \in Seq({a, b, c}) /\ Len(<<a, b, c>>) = 3 /\ Len(s) \in Nat
  OBVIOUS
<1>2. Begins(s, <<a, b, c>>) <=> BeginsAs(s, <<a, b, c>>)
  BY <1>1, BeginsIs
<1> QED  BY <1>1, <1>2 DEF BeginsAs

LEMMA Begins4 ==
  ASSUME NEW s \in Seq(STRING), NEW a, NEW b, NEW c, NEW d
  PROVE  Begins(s, <<a, b, c, d>>) <=>
           Len(s) >= 4 /\ Lowered(s[1]) = a /\ Lowered(s[2]) = b /\ Lowered(s[3]) = c /\ Lowered(s[4]) = d
<1>1. <<a, b, c, d>> \in Seq({a, b, c, d}) /\ Len(<<a, b, c, d>>) = 4 /\ Len(s) \in Nat
  OBVIOUS
<1>2. Begins(s, <<a, b, c, d>>) <=> BeginsAs(s, <<a, b, c, d>>)
  BY <1>1, BeginsIs
<1> QED  BY <1>1, <1>2 DEF BeginsAs

LEMMA Begins5 ==
  ASSUME NEW s \in Seq(STRING), NEW a, NEW b, NEW c, NEW d, NEW e
  PROVE  Begins(s, <<a, b, c, d, e>>) <=>
           Len(s) >= 5 /\ Lowered(s[1]) = a /\ Lowered(s[2]) = b /\ Lowered(s[3]) = c /\ Lowered(s[4]) = d /\ Lowered(s[5]) = e
<1>1. <<a, b, c, d, e>> \in Seq({a, b, c, d, e}) /\ Len(<<a, b, c, d, e>>) = 5 /\ Len(s) \in Nat
  OBVIOUS
<1>2. Begins(s, <<a, b, c, d, e>>) <=> BeginsAs(s, <<a, b, c, d, e>>)
  BY <1>1, BeginsIs
<1> QED  BY <1>1, <1>2 DEF BeginsAs

\* A switch is on or off by the word that it begins with.
LEMMA BoolIsDocumented ==
  ASSUME str \in Seq(STRING), truth = mig_parse_bool(str)
  PROVE  BoolAsDocumented
<1> DEFINE L(i) == Lowered(str[i])
           n    == Len(str)
           rest == Tail(str)
<1>1. n \in Nat
  OBVIOUS
<1>2. /\ Says(TrueWords) <=>
           \/ n >= 4 /\ L(1) = "t" /\ L(2) = "r" /\ L(3) = "u" /\ L(4) = "e"
           \/ n >= 3 /\ L(1) = "y" /\ L(2) = "e" /\ L(3) = "s"
           \/ n >= 2 /\ L(1) = "o" /\ L(2) = "n"
      /\ Says(FalseWords) <=>
           \/ n >= 5 /\ L(1) = "f" /\ L(2) = "a" /\ L(3) = "l" /\ L(4) = "s" /\ L(5) = "e"
           \/ n >= 2 /\ L(1) = "n" /\ L(2) = "o"
           \/ n >= 3 /\ L(1) = "o" /\ L(2) = "f" /\ L(3) = "f"
  <2>1. Says(TrueWords) <=>
          \/ Begins(str, <<"t", "r", "u", "e">>) \/ Begins(str, <<"y", "e", "s">>)
          \/ Begins(str, <<"o", "n">>)
    BY DEF Says, TrueWords
  <2>2. Says(FalseWords) <=>
          \/ Begins(str, <<"f", "a", "l", "s", "e">>) \/ Begins(str, <<"n", "o">>)
          \/ Begins(str, <<"o", "f", "f">>)
    BY DEF Says, FalseWords
  <2> HIDE DEF L
  <2>3. /\ Begins(str, <<"t", "r", "u", "e">>) <=>
             n >= 4 /\ L(1) = "t" /\ L(2) = "r" /\ L(3) = "u" /\ L(4) = "e"
        /\ Begins(str, <<"y", "e", "s">>) <=> n >= 3 /\ L(1) = "y" /\ L(2) = "e" /\ L(3) = "s"
        /\ Begins(str, <<"o", "n">>) <=> n >= 2 /\ L(1) = "o" /\ L(2) = "n"
    BY Begins2, Begins3, Begins4 DEF L
  <2>4. /\ Begins(str, <<"f", "a", "l", "s", "e">>) <=>
             n >= 5 /\ L(1) = "f" /\ L(2) = "a" /\ L(3) = "l" /\ L(4) = "s" /\ L(5) = "e"
        /\ Begins(str, <<"n", "o">>) <=> n >= 2 /\ L(1) = "n" /\ L(2) = "o"
        /\ Begins(str, <<"o", "f", "f">>) <=> n >= 3 /\ L(1) = "o" /\ L(2) = "f" /\ L(3) = "f"
    BY Begins2, Begins3, Begins5 DEF L
  <2> QED  BY <2>1, <2>2, <2>3, <2>4
<1>3. /\ FirstIs(str, "t", "T") <=> n > 0 /\ L(1) = "t"
      /\ FirstIs(str, "f", "F") <=> n > 0 /\ L(1) = "f"
      /\ FirstIs(str, "y", "Y") <=> n > 0 /\ L(1) = "y"
      /\ FirstIs(str, "n", "N") <=> n > 0 /\ L(1) = "n"
      /\ FirstIs(str, "o", "O") <=> n > 0 /\ L(1) = "o"
  BY LoweredIs DEF FirstIs
<1>4. CASE n = 0
  <2>1. ~Says(TrueWords) /\ ~Says(FalseWords)
    BY <1>2, <1>4
  <2>2. mig_parse_bool(str) = -1
    BY <1>3, <1>4 DEF mig_parse_bool
  <2> QED  BY <2>1, <2>2 DEF BoolAsDocumented
<1>5. CASE n > 0
  <2>1. rest \in Seq(STRING) /\ Len(rest) = n - 1 /\ \A i \in 1 .. n - 1 : rest[i] = str[i + 1]
    BY <1>5
  <2> HIDE DEF rest, n
  <2>2. /\ n > 1 => rest[1] = str[2] /\ rest[1 + 0] = rest[1]
        /\ n > 2 => rest[2] = str[3]
        /\ n > 3 => rest[3] = str[4]
        /\ n > 4 => rest[4] = str[5]
    BY <1>1, <2>1
  <2>3. /\ Begins(rest, <<"r", "u", "e">>) <=> n >= 4 /\ L(2) = "r" /\ L(3) = "u" /\ L(4) = "e"
        /\ Begins(rest, <<"a", "l", "s", "e">>) <=>
             n >= 5 /\ L(2) = "a" /\ L(3) = "l" /\ L(4) = "s" /\ L(5) = "e"
        /\ Begins(rest, <<"e", "s">>) <=> n >= 3 /\ L(2) = "e" /\ L(3) = "s"
    <3>1. Begins(rest, <<"r", "u", "e">>) <=>
            Len(rest) >= 3 /\ Lowered(rest[1]) = "r" /\ Lowered(rest[2]) = "u" /\ Lowered(rest[3]) = "e"
      BY <2>1, Begins3
    <3>2. Begins(rest, <<"a", "l", "s", "e">>) <=>
            Len(rest) >= 4 /\ Lowered(rest[1]) = "a" /\ Lowered(rest[2]) = "l"
                       /\ Lowered(rest[3]) = "s" /\ Lowered(rest[4]) = "e"
      BY <2>1, Begins4
    <3>3. Begins(rest, <<"e", "s">>) <=>
            Len(rest) >= 2 /\ Lowered(rest[1]) = "e" /\ Lowered(rest[2]) = "s"
      BY <2>1, Begins2
    <3>4. /\ Len(rest) >= 2 <=> n >= 3
          /\ Len(rest) >= 3 <=> n >= 4
          /\ Len(rest) >= 4 <=> n >= 5
      BY <1>1, <2>1
    <3>5. (n >= 3 => n > 2) /\ (n >= 4 => n > 3 /\ n > 2) /\ (n >= 5 => n > 4 /\ n > 3 /\ n > 2)
      BY <1>1
    <3>6. n > 2 => n > 1
      BY <1>1
    <3> QED  BY <2>2, <3>1, <3>2, <3>3, <3>4, <3>5, <3>6
  <2>4. /\ FirstIs(rest, "o", "O") <=> n >= 2 /\ L(2) = "o"
        /\ FirstIs(rest, "n", "N") <=> n >= 2 /\ L(2) = "n"
        /\ FirstIs(rest, "f", "F") <=> n >= 2 /\ L(2) = "f"
    <3> QED  BY <1>1, <2>1, <2>2, LoweredIs DEF FirstIs
  <2>5. n >= 2 => (FirstIs(Tail(rest), "f", "F") <=> n >= 3 /\ L(3) = "f")
    <3>1. ASSUME n >= 2
          PROVE  Len(Tail(rest)) = n - 2 /\ (n >= 3 => Tail(rest)[1] = rest[2])
      <4>1. n - 1 \in Nat \ {0}
        BY <1>1, <3>1
      <4>2. rest \in Seq(STRING) /\ Len(rest) = n - 1
        BY <2>1
      <4>3. rest # <<>>
        BY <4>1, <4>2
      <4>4. Len(Tail(rest)) = Len(rest) - 1 /\ \A i \in 1 .. Len(rest) - 1 : Tail(rest)[i] = rest[i + 1]
        BY <4>2, <4>3
      <4>5. n >= 3 => 1 \in 1 .. Len(rest) - 1
        <5>1. PICK k \in Nat : k = n
          BY <1>1
        <5>2. k >= 3 => 1 \in 1 .. (k - 1) - 1
          OBVIOUS
        <5> QED  BY <4>2, <5>1, <5>2
      <4> QED  BY <1>1, <3>1, <4>2, <4>4, <4>5
    <3> QED  BY <1>1, <2>2, <3>1, LoweredIs DEF FirstIs
  <2> DEFINE parsed ==
        CASE L(1) = "t" -> IF n >= 4 /\ L(2) = "r" /\ L(3) = "u" /\ L(4) = "e" THEN 1 ELSE -1
          [] L(1) = "f" -> IF n >= 5 /\ L(2) = "a" /\ L(3) = "l" /\ L(4) = "s" /\ L(5) = "e"
                           THEN 0 ELSE -1
          [] L(1) = "y" -> IF n >= 3 /\ L(2) = "e" /\ L(3) = "s" THEN 1 ELSE -1
          [] L(1) = "n" -> IF n >= 2 /\ L(2) = "o" THEN 0 ELSE -1
          [] L(1) = "o" -> IF n >= 2 /\ L(2) = "n" THEN 1
                           ELSE IF n >= 3 /\ L(2) = "f" /\ L(3) = "f" THEN 0 ELSE -1
          [] OTHER -> -1
  <2> HIDE DEF L
  <2>6. mig_parse_bool(str) = parsed
    BY <1>1, <1>3, <1>5, <2>3, <2>4, <2>5 DEF mig_parse_bool, rest
  <2>7. parsed = CASE Says(TrueWords) -> 1 [] Says(FalseWords) -> 0 [] OTHER -> -1
    BY <1>1, <1>2, <1>5
  <2> HIDE DEF parsed
  <2> QED  BY <2>6, <2>7 DEF BoolAsDocumented
<1> QED  BY <1>1, <1>4, <1>5

-----------------------------------------------------------------------------
(* Numbers: the specification. *)

NumInv ==
  /\ str \in Strings /\ after \in Afters
  /\ \/ num = Unparsed /\ size = Unparsed /\ truth = Unknown
     \/ /\ num = mig_parse_int(str, after) /\ size = mig_parse_size(str, after)
        /\ truth = mig_parse_bool(str)

\* The invariant of the number parsers: their results are those of the string.
LEMMA NumStartsRight == NumInit => NumInv
BY DEF NumInit, NumStarts, NumInv

LEMMA NumSteps == NumInv /\ [NumNext]_numvars => NumInv'
<1> SUFFICES ASSUME NumInv, [NumNext]_numvars PROVE NumInv'
  OBVIOUS
<1>1. CASE Parse
  <2>1. /\ num' = mig_parse_int(str', after') /\ size' = mig_parse_size(str', after')
        /\ truth' = mig_parse_bool(str') /\ str' = str /\ after' = after
    BY <1>1 DEF Parse
  <2> QED  BY <2>1 DEF NumInv
<1>2. CASE UNCHANGED numvars
  <2>1. str' = str /\ after' = after /\ num' = num /\ size' = size /\ truth' = truth
    BY <1>2 DEF numvars
  <2> QED  BY <2>1 DEF NumInv
<1> QED  BY <1>1, <1>2 DEF NumNext

\* It says that they were read as they are written.
LEMMA NumInvImplies == NumInv => NumbersAsWritten
<1> SUFFICES ASSUME NumInv PROVE NumbersAsWritten
  OBVIOUS
<1>1. IsText(str) /\ str \in Seq(STRING)
  <2>1. str \in Seq(STRING) /\ \A n \in DOMAIN str : str[n] # NUL
    BY ParseNumAssumption DEF NumInv
  <2> QED  BY <2>1 DEF IsText
<1>2. CASE num = Unparsed /\ size = Unparsed /\ truth = Unknown
  BY <1>2 DEF NumbersAsWritten, IntAsWritten, SizeAsWritten, SizeByString, BoolAsDocumented, NumParsed
<1>3. CASE /\ num = mig_parse_int(str, after) /\ size = mig_parse_size(str, after)
           /\ truth = mig_parse_bool(str)
  BY <1>1, <1>3, IntIsWritten, SizeIsWritten, SizeIsByString, BoolIsDocumented DEF NumbersAsWritten
<1> QED  BY <1>2, <1>3 DEF NumInv

\* Whatever is parsed and wherever it is in memory, numbers, sizes and switches
\* have the values that are written.
THEOREM NumbersRead == NumSpec => []NumbersAsWritten
<1>1. NumSpec => []NumInv
  BY NumStartsRight, NumSteps, PTL DEF NumSpec
<1> QED  BY <1>1, NumInvImplies, PTL

-----------------------------------------------------------------------------
(* All of the parsers. *)

\* Whatever they are given, the parsers read what is written: numbers, sizes and
\* switches, the words of the matchers, and addresses.
THEOREM ParsersRead == NumSpec /\ MatchSpec /\ AddrSpec => []ReadAsWritten
<1>1. NumbersAsWritten /\ WordsMatched /\ AddressSplit => ReadAsWritten
  BY DEF ReadAsWritten
<1> QED  BY <1>1, NumbersRead, MatcherFinds, AddressesSplit, PTL
=============================================================================
