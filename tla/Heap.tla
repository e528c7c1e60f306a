-------------------------------- MODULE Heap --------------------------------
(***************************************************************************)
(* One heap arena, modules/hnsorens/memory/heap/heap.c: an intrusive,      *)
(* doubly linked list of blocks, each a header followed by its payload,    *)
(* that covers a region obtained from the virtual memory manager.          *)
(*                                                                         *)
(* Addresses and block sizes are counted in units of 16 bytes, to which    *)
(* HEAP_ALIGN rounds everything; the region starts at address 0.  hdr is   *)
(* the header memory: what was last written as a header at each address,   *)
(* whether or not a block starts there now.  is_free always equals         *)
(* "magic = HEAP_MAGIC_FREE" on a linked block and is not kept apart.      *)
(* Payload contents are left out; no client writes a magic number.         *)
(*                                                                         *)
(* Calls are atomic: one processor, no interrupts.  lent records the blocks*)
(* the clients have been given; the code has no such variable.             *)
(***************************************************************************)
EXTENDS Integers, FiniteSets

CONSTANTS
  Unit,          \* bytes per unit: 16
  Word,          \* the number of values of a u64
  Header,        \* BLOCK_HEADER_SIZE in units: 2
  MinBlock,      \* HEAP_MIN_BLOCK_SIZE in units: 2
  Context,       \* CONTEXT_SIZE in units: 3
  Total,         \* total_size of the arena, in units
  MallocSizes,   \* the sizes in bytes clients allocate
  ReallocSizes,  \* the sizes in bytes clients resize to
  Alignments,    \* the alignments in bytes clients ask for
  UsedBound      \* no block is cut in place once used_size exceeds this bound

NULL == -1
Addr == Context .. (Total - 1)
Size == 0 .. (Word \div Unit - 1)

(* x & (x - 1) is zero: no odd number but 1 divides x.                     *)
PowerOfTwo(x) == x > 0 /\ \A d \in 2 .. x : x % d = 0 => d % 2 = 0

ASSUME HeapAssumption ==
  /\ {Unit, Word, Header, MinBlock, Context, Total} \subseteq Nat \ {0}
  /\ PowerOfTwo(Unit) /\ Word % Unit = 0
  /\ Context + Header < Total
  /\ Total \in Size
  /\ MallocSizes \cup ReallocSizes \subseteq 0 .. (Word - 1)
  /\ Alignments \subseteq 0 .. (Word - 1)

VARIABLES
  hdr,        \* the header memory
  used_size,  \* heap->used_size, in units
  lent        \* the payloads in clients' hands: [ptr, size, alignment]

vars == <<hdr, used_size, lent>>

-----------------------------------------------------------------------------
NoHeader == [magic |-> "none", size |-> 0, next |-> NULL, prev |-> NULL]

Init ==
  /\ hdr = [a \in Addr |->
              IF a = Context
              THEN [magic |-> "FREE", size |-> Total - Context - Header, next |-> NULL, prev |-> NULL]
              ELSE NoHeader]
  /\ used_size = 0
  /\ lent = {}

(* The blocks the list reaches from head.                                  *)
Listed ==
  LET reach[n \in 0 .. Total] ==
        IF n = 0 THEN {Context}
        ELSE LET near == reach[n - 1] IN near \cup ({hdr[a].next : a \in near} \cap Addr)
  IN  reach[Total \div Header]

FreeBlocks == {a \in Listed : hdr[a].magic = "FREE"}

(* The list is searched from head; it is in address order.                 *)
First(S) == CHOOSE a \in S : \A b \in S : a <= b

-----------------------------------------------------------------------------
(* Operations on the header memory                                         *)

(* HEAP_ALIGN, in units: the sum may wrap.                                 *)
HEAP_ALIGN(bytes) == ((bytes + Unit - 1) % Word) \div Unit

SetPrev(h, a, p) == IF a = NULL THEN h ELSE [h EXCEPT ![a].prev = p]

(* The block at a keeps n units if what remains can be a block.            *)
split_block(h, a, n) ==
  LET b == a + Header + n
      rem == (h[a].size - n) % (Word \div Unit)
  IN  IF rem < Header + MinBlock THEN h
      ELSE SetPrev([h EXCEPT ![b] = [magic |-> "FREE", size |-> rem - Header, next |-> h[a].next, prev |-> a],
                             ![a].next = b, ![a].size = n],
                   h[a].next, b)

(* Block a absorbs its successor b, whose magic is cleared; nothing reads  *)
(* the rest of a dead header.  Faulty variant: the block that now follows  *)
(* still points back to b.                                                 *)
MergeOneWay(h, a, b) ==
  [h EXCEPT ![a].size = @ + Header + h[b].size, ![a].next = h[b].next, ![b] = NoHeader]
Merge(h, a, b) == SetPrev(MergeOneWay(h, a, b), h[b].next, a)

(* Faulty variant: the neighbour is taken to be free.                      *)
IsFreeUnchecked(h, a) == a # NULL
IsFree(h, a) == a # NULL /\ h[a].magic = "FREE"

coalesce_blocks(h, a) ==
  LET f == IF IsFree(h, h[a].next) THEN Merge(h, a, h[a].next) ELSE h
  IN  IF IsFree(f, f[a].prev) THEN Merge(f, f[a].prev, a) ELSE f

Footprint(h, a) == Header + h[a].size

(* Mark the block at a allocated after cutting it to n units.              *)
Claim(h, a, n) == [split_block(h, a, n) EXCEPT ![a].magic = "ALOC"]

(* What freeing the block at a makes of the memory and of used_size.       *)
(* Faulty variant: used_size is updated after the block has merged.        *)
Freed(h, a) == coalesce_blocks([h EXCEPT ![a].magic = "FREE"], a)
UsedAfterCoalescing(h, used, a) ==
  LET after == Freed(h, a)
      merged == IF after[a].magic = "FREE" THEN Footprint(after, a) ELSE Footprint(h, a)
  IN  IF used >= merged THEN used - merged ELSE 0
UsedAfterFree(h, used, a) == IF used >= Footprint(h, a) THEN used - Footprint(h, a) ELSE 0

-----------------------------------------------------------------------------
(* The calls.  A client frees and resizes the pointers it was given, and   *)
(* may free or resize a pointer again after giving it up.                  *)

Payload == {a + Header : a \in Addr}
Holding(p) == {m \in lent : m.ptr = p}
Grant(a, size, alignment) == [ptr |-> a + Header, size |-> size, alignment |-> alignment]

(* A call that is refused with status, or has nothing to do.               *)
Return(status) == UNCHANGED vars

Fitting(h, n) == {a \in FreeBlocks : h[a].size >= n}

heap_malloc(size) ==
  LET n == HEAP_ALIGN(size) IN
  \/ size = 0 /\ Return("NULL")
  \/ size # 0 /\ Fitting(hdr, n) = {} /\ Return("ENOMEM")
  \/ /\ size # 0 /\ Fitting(hdr, n) # {}
     /\ LET a == First(Fitting(hdr, n)) IN
        /\ hdr' = Claim(hdr, a, n)
        /\ used_size' = used_size + Footprint(hdr', a)
        /\ lent' = lent \cup {Grant(a, size, 1)}

IsAllocated(p) == hdr[p - Header].magic = "ALOC"

Release(p) ==
  /\ hdr' = Freed(hdr, p - Header)
  /\ used_size' = UsedAfterFree(hdr, used_size, p - Header)
  /\ lent' = lent \ Holding(p)

heap_free(p) ==
  \/ p = NULL /\ Return("OK")
  \/ p # NULL /\ ~IsAllocated(p) /\ Return("EINVAL")
  \/ p # NULL /\ IsAllocated(p) /\ Release(p)

(* Path Alpha: the block is large enough; it may be cut.                   *)
ReallocInPlace(p, size) ==
  LET a == p - Header
      n == HEAP_ALIGN(size)
  IN
  /\ hdr[a].size >= n
  /\ used_size <= UsedBound
  /\ hdr' = split_block(hdr, a, n)
  /\ lent' = (lent \ Holding(p)) \cup {Grant(a, size, 1)}
  /\ UNCHANGED used_size

(* Path Beta: the free successor is absorbed and the excess cut off.       *)
CanExtend(a, n) ==
  /\ IsFree(hdr, hdr[a].next)
  /\ hdr[a].size + Header + hdr[hdr[a].next].size >= n

ReallocExtend(p, size) ==
  LET a == p - Header
      n == HEAP_ALIGN(size)
  IN
  /\ hdr[a].size < n
  /\ CanExtend(a, n)
  /\ hdr' = split_block(Merge(hdr, a, hdr[a].next), a, n)
  /\ used_size' = used_size - Footprint(hdr, a) + Footprint(hdr', a)
  /\ lent' = (lent \ Holding(p)) \cup {Grant(a, size, 1)}

(* Path Gamma: a new block, a copy of the old payload, the old block freed.*)
ReallocMove(p, size) ==
  LET a == p - Header
      n == HEAP_ALIGN(size)
  IN
  /\ hdr[a].size < n
  /\ ~CanExtend(a, n)
  /\ \/ Fitting(hdr, n) = {} /\ Return("ENOMEM")
     \/ /\ Fitting(hdr, n) # {}
        /\ LET b == First(Fitting(hdr, n))
               copied == Claim(hdr, b, n)
           IN
           /\ hdr' = Freed(copied, a)
           /\ used_size' = UsedAfterFree(copied, used_size + Footprint(copied, b), a)
           /\ lent' = (lent \ Holding(p)) \cup {Grant(b, size, 1)}
   
heap_realloc(p, size) ==
  \/ p = NULL /\ heap_malloc(size)
  \/ p # NULL /\ size = 0 /\ ~IsAllocated(p) /\ Return("NULL")
  \/ p # NULL /\ size = 0 /\ IsAllocated(p) /\ Release(p)
  \/ p # NULL /\ size # 0 /\ ~IsAllocated(p) /\ Return("EINVAL")
  \/ /\ p # NULL /\ size # 0 /\ IsAllocated(p)
     /\ ReallocInPlace(p, size) \/ ReallocExtend(p, size) \/ ReallocMove(p, size)

(* The distance from the payload of block a to the first aligned address   *)
(* that leaves either no room before it or room for a whole block.         *)
Padding(a, alignment) ==
  LET pad == (-(a + Header)) % alignment
      short == Header + MinBlock - pad
  IN  IF pad = 0 \/ short <= 0 THEN pad
      ELSE pad + short + ((-short) % alignment)

FittingAligned(n, alignment) ==
  {a \in FreeBlocks : hdr[a].size >= (Padding(a, alignment) + n) % (Word \div Unit)}

(* The block at a is cut in two, the second part starting pad units on.    *)
Carve(h, a, pad) ==
  IF pad = 0 THEN h
  ELSE SetPrev([h EXCEPT ![a + pad] = [magic |-> "FREE", size |-> h[a].size - pad, next |-> h[a].next, prev |-> a],
                         ![a].next = a + pad, ![a].size = pad - Header],
               h[a].next, a + pad)

(* Smaller alignments are raised to 16 bytes.                              *)
UnitAlignment(bytes) == IF bytes < Unit THEN 1 ELSE bytes \div Unit

heap_memalign(bytes, size) ==
  LET alignment == UnitAlignment(bytes)
      n == HEAP_ALIGN(size)
      fitting == FittingAligned(n, alignment)
  IN
  \/ ~PowerOfTwo(bytes) /\ Return("EINVAL")
  \/ PowerOfTwo(bytes) /\ size = 0 /\ Return("NULL")
  \/ PowerOfTwo(bytes) /\ size # 0 /\ fitting = {} /\ Return("ENOMEM")
  \/ /\ PowerOfTwo(bytes) /\ size # 0 /\ fitting # {}
     /\ LET a == First(fitting)
            b == a + Padding(a, alignment)
        IN
        /\ hdr' = Claim(Carve(hdr, a, b - a), b, n)
        /\ used_size' = used_size + Footprint(hdr', b)
        /\ lent' = lent \cup {Grant(b, size, alignment)}

(* No request is so large that a sum of the code wraps with it.            *)
NoRequestWraps ==
  /\ \A size \in MallocSizes \cup ReallocSizes : size + Unit - 1 < Word
  /\ \A bytes \in Alignments, size \in MallocSizes :
       Header + MinBlock + UnitAlignment(bytes) + HEAP_ALIGN(size) < Word \div Unit

Next ==
  \/ \E size \in MallocSizes : heap_malloc(size)
  \/ \E p \in Payload \cup {NULL} : heap_free(p)
  \/ \E p \in Payload \cup {NULL}, size \in ReallocSizes : heap_realloc(p, size)
  \/ \E bytes \in Alignments, size \in MallocSizes : heap_memalign(bytes, size)

Spec == Init /\ [][Next]_vars

-----------------------------------------------------------------------------
(* Properties                                                              *)

(* Every variable keeps its type.                                          *)
TypeOK ==
  /\ hdr \in [Addr -> [magic : {"none", "FREE", "ALOC"}, size : Size,
                       next : Addr \cup {NULL}, prev : Addr \cup {NULL}]]
  /\ used_size \in Nat
  /\ lent \subseteq [ptr : Payload, size : MallocSizes \cup ReallocSizes, alignment : Nat \ {0}]

(* The blocks lie one behind the other from the first unit to the last, and*)
(* the links are the addresses: no split, merge or carve loses a unit or   *)
(* leaves a pointer to a header that is gone.                              *)
BlocksTileRegion ==
  /\ hdr[Context].prev = NULL
  /\ \A a \in Listed :
       LET end == a + Footprint(hdr, a) IN
       \/ hdr[a].next = NULL /\ end = Total
       \/ hdr[a].next = end /\ hdr[end].prev = a

(* The headers marked allocated, stale ones included, are exactly those of *)
(* the payloads in clients' hands, so a second free is always refused; each*)
(* is a linked block, aligned as asked and as large as asked.              *)
PayloadsAreBlocks ==
  /\ {a \in Addr : hdr[a].magic = "ALOC"} = {m.ptr - Header : m \in lent}
  /\ \A m \in lent :
       /\ Holding(m.ptr) = {m}
       /\ m.ptr - Header \in Listed
       /\ m.ptr % m.alignment = 0
       /\ hdr[m.ptr - Header].size * Unit >= m.size

(* Headers, links and clients agree, whatever was split, merged, carved,   *)
(* moved and freed twice.                                                  *)
BlocksSound == TypeOK /\ BlocksTileRegion /\ PayloadsAreBlocks

(* The units an allocated block occupies, its header included.             *)
Busy == UNION {(m.ptr - Header) .. (m.ptr + hdr[m.ptr - Header].size - 1) : m \in lent}
Idle == Addr \ Busy

(* used_size never falls below what the allocated blocks occupy, so the    *)
(* subtraction in realloc cannot wrap and free never has to clamp it.      *)
UsedCoversLent == used_size >= Cardinality(Busy)

(* heap.h: used_size is the aggregated capacity of the active blocks,      *)
(* headers and payloads.  It is until realloc first cuts a block in place; *)
(* from then on it stays too large, and the remainder cut off may stay     *)
(* beside a free block.                                                    *)
UsedSizeExact == used_size = Cardinality(Busy)

(* ENOMEM is honest.  malloc reports it only if there is no run of idle    *)
(* units, however divided into free blocks, with room for a header and the *)
(* payload, unless a block was cut in place; memalign only if in no free   *)
(* block an aligned payload fits, at its start or behind a leading block of*)
(* at least minimal size.                                                  *)
NoFalseOutOfMemory ==
  \A size \in MallocSizes \ {0} : LET n == HEAP_ALIGN(size) IN
    /\ UsedSizeExact /\ Fitting(hdr, n) = {} => \A a \in Addr : ~(a .. (a + Header + n - 1) \subseteq Idle)
    /\ \A bytes \in {b \in Alignments : PowerOfTwo(b)} :
         FittingAligned(n, UnitAlignment(bytes)) = {} =>
           \A a \in FreeBlocks, p \in Payload :
             ~ /\ (p * Unit) % bytes = 0
               /\ p = a + Header \/ p >= a + Header + Header + MinBlock
               /\ p + n <= a + Footprint(hdr, a)

(* Once everything is freed and used_size is back to zero, all the free    *)
(* blocks have merged into the one the heap was created with.              *)
WholeWhenUnused == lent = {} /\ used_size = 0 => Listed = {Context}

(* What the heap says of its free space is true: used_size is enough to    *)
(* cover the allocated blocks, zero means a heap in one piece, and ENOMEM  *)
(* is honest.                                                              *)
FreeSpaceTrusted == UsedCoversLent /\ WholeWhenUnused /\ NoFalseOutOfMemory

(* The tests: once everything is freed, everything has merged.             *)
WholeWhenAllFreed == lent = {} => Listed = {Context}

(* heap.h: size is the minimum capacity to yield.                          *)
CapacityAsAsked == \A m \in lent : hdr[m.ptr - Header].size * Unit >= m.size

(* The heap lends disjoint pieces of its arena.                            *)
Arena == INSTANCE Arena WITH
  Space <- Context .. (Total - 1),
  loans <- {[at |-> m.ptr, len |-> HEAP_ALIGN(m.size)] : m \in lent}
ImplementsArena == Arena!Spec
=============================================================================
