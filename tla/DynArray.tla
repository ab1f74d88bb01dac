------------------------------ MODULE DynArray ------------------------------
(***************************************************************************)
(* The dynamic array: src/mig_dynarray.c.  Positions and sizes are in      *)
(* bytes, as in the code; ptrdiff_t sp is compared with size_t values, so  *)
(* a negative one is taken modulo SizeLimit there.                           *)
(*                                                                         *)
(* Abstractions: the block is a function from item positions to values     *)
(* (Junk where nothing was written), the address is whether it keeps the   *)
(* alignment asked for; a reference that points outside of the block is    *)
(* the value Outside.  The variants that take and return references and    *)
(* the ones that copy are one operation.                                   *)
(***************************************************************************)
EXTENDS Integers, Sequences

CONSTANTS
  Items,            \* what an array holds
  Junk, Outside, Refused,
  Word,             \* alignof(void *)
  SizeLimit,        \* SIZE_MAX + 1
  Configs,          \* how arrays are made and used
  MaxItems          \* bound: items in the block

VARIABLES
  conf,                \* the array's configuration, which stays
  dynarray_size, sp,   \* of struct mig_dynarray
  base,                \* "null", "block" or "freed"
  aligned,             \* the block's address is a multiple of alignment
  mem,                 \* what is in the block
  out                  \* what the last operation returned

block     == <<dynarray_size, base, aligned, mem>>
arrayvars == <<conf, block, sp, out>>

Unsigned(n) == n % SizeLimit
CeilTo(n, unit) == ((n + unit - 1) \div unit) * unit

-----------------------------------------------------------------------------
(* mig_dynarray_init. *)

\* Below a pointer's, alignments go up to a power of two; the shifts that spread
\* the highest bit also do so when the first, by -1, leaves anything.
PowersOfTwo == {1, 2, 4, 8, 16}
AlignmentOf(a) ==
  IF a < Word THEN CHOOSE p \in PowersOfTwo : p >= a /\ p < 2 * a ELSE CeilTo(a, Word)
PaddedOf(c)  == CeilTo(c.itemSize, AlignmentOf(c.alignment))
alignment    == AlignmentOf(conf.alignment)
padded_size  == PaddedOf(conf)
minimum_size == conf.icount * padded_size

\* Sizes past PTRDIFF_MAX are refused always.
MaySucceed(size) == size < SizeLimit \div 2

\* A configuration: the arguments of mig_dynarray_init, MIG_DYNARRAY_FIXED_SIZE and
\* chunk_multiplier; whether allocations may fail; and whether clients shrink and
\* index only arrays that are not empty.
ConfigOK(c) ==
  /\ c.itemSize \in Nat \ {0} /\ c.alignment \in Nat \ {0} /\ c.chunk \in Nat \ {0}
  /\ c.icount \in Nat
  /\ c.fixed \in BOOLEAN /\ c.fails \in BOOLEAN /\ c.careful \in BOOLEAN

\* The block asked for at first, and one that grows when MaxItems are in it, are
\* not larger than blocks can be.
FitsInMemory(c) ==
  /\ MaySucceed(c.icount * PaddedOf(c))
  /\ MaySucceed((MaxItems + c.chunk) * PaddedOf(c))

ASSUME DynArrayAssumption ==
  /\ Word \in PowersOfTwo /\ MaxItems \in Nat \ {0} /\ SizeLimit \in Nat
  /\ \A c \in Configs : ConfigOK(c) /\ FitsInMemory(c)
  /\ Refused # <<>> /\ \A v \in Items : Refused # <<v>>

Cells(size) == 0 .. (size \div padded_size) - 1

\* mig_dynarray_create and mig_dynarray_init; aligned_alloc is not checked, and
\* the size is set as if it had returned the block.
ArrayStarts(c) ==
  /\ conf = c
  /\ sp = -padded_size
  /\ dynarray_size = minimum_size
  /\ base \in IF conf.fails THEN {"block", "null"} ELSE {"block"}
  /\ aligned = TRUE
  /\ mem = IF base = "block" THEN [n \in Cells(minimum_size) |-> Junk] ELSE <<>>
  /\ out = Refused
ArrayInit == \E c \in Configs : ArrayStarts(c)

-----------------------------------------------------------------------------
(* The block. *)

\* What is read through a reference to offset o, and the block after a write.
Cell(o) == LET n == o \div padded_size IN IF n \in DOMAIN mem THEN mem[n] ELSE Outside
Written(m, o, v) ==
  LET n == o \div padded_size IN IF n \in DOMAIN m THEN [m EXCEPT ![n] = v] ELSE m

Resized(size) == [n \in Cells(size) |-> IF n \in DOMAIN mem THEN mem[n] ELSE Junk]

MayFail == conf.fails
ByRealloc == Word % alignment = 0

\* mig_dynarray_grow: with an alignment that realloc does not keep, a new block
\* is allocated and the items are copied.
GrownSize == Unsigned(dynarray_size + conf.chunk * padded_size)
Grow(contents) ==
  /\ base # "freed" /\ MaySucceed(GrownSize)
  /\ mem' = contents
  /\ dynarray_size' = GrownSize
  /\ base' = "block"
  /\ aligned' = (IF ByRealloc THEN aligned ELSE TRUE)

GrowFails == UNCHANGED block

-----------------------------------------------------------------------------
(* The operations. *)

\* Seeded fault: the end of the block is taken for room.
OverflowsLate(o) == o > 0 /\ o > dynarray_size
\* The test of mig_dynarray_pushref, on the position already moved.
Overflows(o) == o > 0 /\ o >= dynarray_size

\* mig_dynarray_pushref and push.  The position stays moved when it fails.
Push(v) ==
  LET o == sp + padded_size
  IN  /\ o \div padded_size < MaxItems
      /\ sp' = o
      /\ \/ /\ ~Overflows(o)
            /\ mem' = Written(mem, o, v) /\ out' = <<v>>
            /\ UNCHANGED <<dynarray_size, base, aligned>>
         \/ /\ Overflows(o) /\ ~conf.fixed
            /\ Grow(Written(Resized(GrownSize), o, v))
            /\ out' = <<v>>
         \/ /\ Overflows(o)
            /\ conf.fixed \/ MayFail \/ ~MaySucceed(GrownSize)
            /\ GrowFails
            /\ out' = Refused

\* mig_dynarray_popref and pop.
Pop ==
  /\ sp >= 0
  /\ out' = <<Cell(sp)>>
  /\ sp' = sp - padded_size
  /\ UNCHANGED block

\* mig_dynarray_peekref and peek.
Peek ==
  /\ sp >= 0
  /\ out' = <<Cell(sp)>>
  /\ UNCHANGED <<block, sp>>

\* Pop and peek of an empty array.
Underflow ==
  /\ sp < 0
  /\ out' = Refused
  /\ UNCHANGED <<block, sp>>

IsEmpty == sp < 0
\* mig_dynarray_indexref, get and set.
InRange(i) == Unsigned(i * padded_size) <= Unsigned(sp)
Get(i) ==
  /\ conf.careful => ~IsEmpty
  /\ out' = IF InRange(i) THEN <<Cell(i * padded_size)>> ELSE Refused
  /\ UNCHANGED <<block, sp>>
Set(i, v) ==
  /\ conf.careful => ~IsEmpty
  /\ \/ /\ InRange(i)
        /\ mem' = Written(mem, i * padded_size, v) /\ out' = <<v>>
     \/ /\ ~InRange(i)
        /\ out' = Refused /\ UNCHANGED mem
  /\ UNCHANGED <<dynarray_size, base, aligned, sp>>

\* "Truncate dynarray pointer to highest valid index", a comparison in size_t.
Truncated(size) ==
  IF Unsigned(sp) > Unsigned(size - padded_size) THEN size - padded_size ELSE sp

\* mig_dynarray_shrink.  A realloc to size 0 frees the block and returns null,
\* which is taken for a failure.  Any other realloc keeps the alignment of
\* malloc only.
ShrunkSize == Unsigned(dynarray_size - conf.chunk * padded_size)
Shrink ==
  /\ conf.careful => ~IsEmpty
  /\ base # "freed"
  /\ \/ /\ ShrunkSize < minimum_size \/ ~MaySucceed(ShrunkSize) \/ MayFail
        /\ out' = Refused
        /\ UNCHANGED <<block, sp>>
     \/ /\ ShrunkSize >= minimum_size /\ ShrunkSize = 0
        /\ base' = "freed" /\ mem' = <<>>
        /\ out' = Refused
        /\ UNCHANGED <<dynarray_size, aligned, sp>>
     \/ /\ ShrunkSize >= minimum_size /\ ShrunkSize > 0 /\ MaySucceed(ShrunkSize)
        /\ mem' = Resized(ShrunkSize)
        /\ dynarray_size' = ShrunkSize /\ base' = "block"
        /\ aligned' \in IF ByRealloc THEN {aligned} ELSE BOOLEAN
        /\ sp' = Truncated(ShrunkSize)
        /\ out' = <<>>

\* mig_dynarray_grow, which the header calls private(ish).
GrowByHand ==
  /\ GrownSize <= MaxItems * padded_size
  /\ \/ Grow(Resized(GrownSize)) /\ out' = <<>>
     \/ MayFail /\ GrowFails /\ out' = Refused
  /\ UNCHANGED sp

\* mig_dynarray_len, and mig_dynarray_to_array.
mig_dynarray_len == sp \div padded_size + 1
Item(n) == Cell((n - 1) * padded_size)
ToArray ==
  /\ out' = [n \in 1 .. mig_dynarray_len |-> Item(n)]
  /\ UNCHANGED <<block, sp>>

Operation ==
  \/ \E v \in Items : Push(v) \/ \E i \in 0 .. MaxItems : Set(i, v)
  \/ Pop \/ Peek \/ Underflow \/ ToArray
  \/ \E i \in 0 .. MaxItems : Get(i)
  \/ Shrink \/ GrowByHand
ArrayNext == Operation /\ UNCHANGED conf

ArraySpec == ArrayInit /\ [][ArrayNext]_arrayvars

-----------------------------------------------------------------------------
(* What must hold. *)

\* The types; the position is that of an item or one item before the first.
ArrayTypes ==
  /\ sp % padded_size = 0 /\ sp >= -padded_size
  /\ dynarray_size % padded_size = 0
  /\ base \in {"null", "block", "freed"} /\ aligned \in BOOLEAN
  /\ \A n \in DOMAIN mem : mem[n] \in Items \cup {Junk}

\* Nothing fails, the array has room for an item to begin with and may grow, and
\* clients are careful: any of these missing, a refused push moves the position,
\* shrinking an empty array makes items, or the first push has no room.
Sound == conf.careful /\ ~conf.fails /\ ~conf.fixed /\ conf.icount > 0

\* The array is a stack of items: none is lost, doubled or overwritten by
\* growing, with realloc or by copying, shrinking and access by index, and an
\* operation that is refused changes nothing.
Contents == IF Sound THEN [n \in 1 .. mig_dynarray_len |-> Item(n)] ELSE <<>>
Returned == IF Sound THEN out ELSE Refused
Stack == INSTANCE ItemStack WITH Values <- Items, stk <- Contents, out <- Returned
StackStep == <<sp, mem, out>>' # <<sp, mem, out>> => Stack!Next

\* Every item is in the block and takes a whole number of alignment units, no
\* more of them than it needs.
ItemsFit ==
  /\ Sound => sp + padded_size <= dynarray_size
  /\ padded_size >= conf.itemSize /\ padded_size - conf.itemSize < alignment

\* Whatever is refused, by a failed allocation or for a bad index, the items that
\* were in the array are there as before.
RefusedKeepsItems ==
  [][out' = Refused /\ base' # "freed" =>
       \A n \in 1 .. mig_dynarray_len : Item(n)' = Item(n)]_arrayvars

\* It implements ItemStack, within its block, and a refusal costs no item.
IsStack ==
  Stack!Init /\ [][StackStep]_arrayvars /\ [](ArrayTypes /\ ItemsFit) /\ RefusedKeepsItems
=============================================================================
