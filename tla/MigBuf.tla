------------------------------- MODULE MigBuf -------------------------------
(***************************************************************************)
(* The buffers: struct mig_buf of src/mig_io.h, and mig_buf_loadfile of    *)
(* src/mig_io.c.  rxbuf and txbuf of a request and the configuration file  *)
(* in memory are such buffers.                                             *)
(*                                                                         *)
(* Bytes are numbered in the order they are put in; 0 is a byte nobody     *)
(* wrote.  len, end and off are size_t, so differences are taken modulo    *)
(* SizeMod.  A read or write that a signal interrupts is tried again, and  *)
(* is one step.  mig_buf_memwrite and the printf functions, which nothing  *)
(* in the repository calls, are left out.                                  *)
(***************************************************************************)
EXTENDS Integers, Sequences

CONSTANTS
  BufLen,      \* len of a buffer that its owner allocated
  Files,       \* sizes of the files that are loaded
  MaxBytes,    \* bound: bytes put in
  SizeMod      \* SIZE_MAX + 1

ASSUME MigBufAssumption ==
  /\ BufLen \in Nat \ {0} /\ MaxBytes \in Nat /\ Files \subseteq Nat
  /\ SizeMod \in Nat /\ SizeMod > 2 * (BufLen + MaxBytes)
  /\ \A n \in Files : n < SizeMod

VARIABLES
  alloced,         \* base is not null
  len, end, off,   \* struct mig_buf
  bytes,           \* what is at base
  count,           \* history: how many bytes were put in
  fds              \* descriptors that mig_buf_loadfile has left open

buf  == <<alloced, len, end, off>>
bufvars == <<buf, bytes, count, fds>>

Wrap(n) == n % SizeMod
Least(a, b) == IF a < b THEN a ELSE b
Room       == Wrap(len - end)
Level      == Wrap(end - off)

\* The next n bytes at position p of base.
Filled(p, n) ==
  [m \in DOMAIN bytes |-> IF m \in p + 1 .. p + n THEN count + m - p ELSE bytes[m]]

-----------------------------------------------------------------------------
\* The owner has allocated base, or leaves that to mig_buf_loadfile.
BufInit ==
  /\ \/ alloced = TRUE  /\ len = BufLen /\ bytes = [m \in 1 .. BufLen |-> 0]
     \/ alloced = FALSE /\ len = 0      /\ bytes = <<>>
  /\ end = 0 /\ off = 0 /\ count = 0 /\ fds = 0

\* mig_buf_write: the descriptor gives some of what it is asked for, or fails,
\* which changes nothing.
mig_buf_write ==
  /\ alloced
  /\ \E n \in 0 .. Least(Room, MaxBytes - count) :
       /\ bytes' = Filled(end, n)
       /\ end' = end + n
       /\ count' = count + n
  /\ UNCHANGED <<alloced, len, off, fds>>

\* mig_buf_read, the descriptor takes some of it, and mig_buf_memread, which takes
\* what it is asked for.
mig_buf_read ==
  /\ alloced
  /\ \E n \in 0 .. Level : off' = off + n
  /\ UNCHANGED <<alloced, len, end, bytes, count, fds>>

\* Seeded fault: end stays where it was.
ShiftLeavesEnd ==
  /\ alloced
  /\ bytes' = [m \in DOMAIN bytes |-> IF m <= Level THEN bytes[m + off] ELSE bytes[m]]
  /\ off' = 0
  /\ UNCHANGED <<alloced, len, end, count, fds>>
mig_buf_shift ==
  /\ alloced
  /\ bytes' = [m \in DOMAIN bytes |-> IF m <= Level THEN bytes[m + off] ELSE bytes[m]]
  /\ end' = end - off /\ off' = 0
  /\ UNCHANGED <<alloced, len, count, fds>>

mig_buf_empty ==
  /\ alloced
  /\ end' = 0 /\ off' = 0
  /\ UNCHANGED <<alloced, len, bytes, count, fds>>

mig_buf_isfull  == end >= len
mig_buf_isempty == end <= off

\* mig_buf_loadfile into a buffer: as much of the file as there is room for.
LoadInto ==
  /\ alloced
  /\ \E size \in Files : \E n \in 0 .. Least(Least(Room, size), MaxBytes - count) :
       /\ bytes' = Filled(end, n)
       /\ end' = end + n /\ count' = count + n
  /\ UNCHANGED <<alloced, len, off, fds>>

\* ... and with a buffer of the file's size that it allocates.  A failed open or
\* fstat changes nothing; a failed read leaves the buffer allocated and empty.
LoadAllocates ==
  /\ ~alloced
  /\ \E size \in Files : \E n \in 0 .. Least(size, MaxBytes - count) :
       /\ alloced' = TRUE /\ len' = size
       /\ bytes' = [m \in 1 .. size |-> IF m <= n THEN count + m ELSE 0]
       /\ end' = n /\ off' = 0 /\ count' = count + n
  /\ UNCHANGED fds

\* ... which fails, and the descriptor stays open.
LoadNoMemory ==
  /\ ~alloced /\ fds < MaxBytes
  /\ fds' = fds + 1
  /\ UNCHANGED <<buf, bytes, count>>

Load == LoadInto \/ LoadAllocates \/ LoadNoMemory
BufNext ==
  mig_buf_write \/ mig_buf_read \/ mig_buf_shift \/ mig_buf_empty \/ Load

BufSpec == BufInit /\ [][BufNext]_bufvars

-----------------------------------------------------------------------------
(* What must hold. *)

\* The calls that midnighttpd makes keep the positions in order and in the
\* buffer, so that no difference of two of them wraps; a full buffer has no room
\* and an empty one gives nothing.
InOrder ==
  /\ off <= end /\ end <= len
  /\ mig_buf_isfull <=> Room = 0
  /\ mig_buf_isempty <=> Level = 0

\* The buffer is a queue: bytes come out in the order they went in, whatever
\* shifts, short reads and short writes there are between.
Queue == INSTANCE ByteQueue WITH
  Room <- MaxBytes, queue <- SubSeq(bytes, off + 1, end), count <- count
IsQueue == Queue!Spec /\ []InOrder
=============================================================================
