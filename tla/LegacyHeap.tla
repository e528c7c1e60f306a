----------------------------- MODULE LegacyHeap -----------------------------
(***************************************************************************)
(* The older kernel heap, modules2/src2/kmm/heap.c: blocks that lie one    *)
(* behind the other, each behind its header, and a list of the free ones in*)
(* no particular order, searched for the best fit.                         *)
(*                                                                         *)
(* Addresses and sizes are counted in units of ALIGNMENT bytes, the region *)
(* starts at address 0 and the list is a sequence.  hdr holds what was last*)
(* written as a header at each address.  Calls are atomic: one processor,  *)
(* no interrupts.  Clients free and resize what they were given and still  *)
(* hold; a pointer that malloc_aligned moved off the start of its block has*)
(* no header and is never given back.  lent records what clients hold.     *)
(***************************************************************************)
EXTENDS Integers, SequencesExt

CONSTANTS
  Unit,          \* ALIGNMENT: 8 bytes
  Header,        \* sizeof(block_header_t) in units: 3
  Total,         \* the size of the region, in units
  MallocSizes,   \* the sizes in bytes clients allocate
  ReallocSizes,  \* the sizes in bytes clients resize to
  Counts,        \* the numbers of elements clients ask calloc for
  Alignments     \* the alignments in bytes clients ask for

NULL == -1
Addr == 0 .. Total - 1

VARIABLES
  hdr,        \* the header memory: [size, is_free]
  free_list,  \* the addresses of the blocks on the list
  lent        \* what clients hold: [block, ptr, size]

vars == <<hdr, free_list, lent>>

-----------------------------------------------------------------------------
(* Operations on a heap [hdr, list]                                        *)

ALIGN(size) == (size + Unit - 1) \div Unit

NoHeader == [size |-> 0, is_free |-> FALSE]

heap_init ==
  /\ hdr = [a \in Addr |-> IF a = 0 THEN [size |-> Total - Header, is_free |-> TRUE] ELSE NoHeader]
  /\ free_list = <<0>>
  /\ lent = {}

End(h, a) == a + Header + h.hdr[a].size

(* The first of the smallest blocks of the list that hold n units.         *)
Fitting(h, n) == {i \in DOMAIN h.list : h.hdr[h.list[i]].size >= n}
BestFit(h, n) ==
  CHOOSE i \in Fitting(h, n) : \A j \in Fitting(h, n) :
    LET I == h.hdr[h.list[i]].size
        J == h.hdr[h.list[j]].size
    IN  I < J \/ (I = J /\ i <= j)

(* A block keeps n units, if what remains can be a block of one unit.      *)
split_block(h, a, n) ==
  LET b == a + Header + n
      rest == h.hdr[a].size - n - Header
  IN  IF rest < 1 THEN h
      ELSE [hdr |-> [h.hdr EXCEPT ![a].size = n, ![b] = [size |-> rest, is_free |-> TRUE]],
            list |-> <<b>> \o h.list]

(* One pass of the bubble sort, which does not repeat: swapped is never set*)
BubblePass(list) ==
  FoldLeft(LAMBDA done, a : IF done # <<>> /\ Last(done) > a THEN Front(done) \o <<a, Last(done)>> ELSE Append(done, a),
           <<>>, list)

(* Blocks that are neighbours on the list and in memory become one.        *)
(* Nothing reads the header of the second one again.                       *)
coalesce_blocks(h) ==
  FoldLeft(LAMBDA g, a :
             IF g.list # <<>> /\ End(g, Last(g.list)) = a
             THEN [g EXCEPT !.hdr[Last(g.list)].size = @ + Header + g.hdr[a].size, !.hdr[a] = NoHeader]
             ELSE [g EXCEPT !.list = Append(@, a)],
           [hdr |-> h.hdr, list |-> <<>>], BubblePass(h.list))

(* The block malloc takes for n units, and the heap it is cut from: the    *)
(* list is coalesced when nothing fits as it is.                           *)
Searched(h, n) == IF Fitting(h, n) # {} THEN h ELSE coalesce_blocks(h)
Taken(h, n) == h.list[BestFit(h, n)]
Carved(h, n) ==
  LET a == Taken(h, n) IN
  split_block([hdr |-> [h.hdr EXCEPT ![a].is_free = FALSE], list |-> RemoveAt(h.list, BestFit(h, n))], a, n)

Freed(h, a) == coalesce_blocks([hdr |-> [h.hdr EXCEPT ![a].is_free = TRUE], list |-> <<a>> \o h.list])

-----------------------------------------------------------------------------
(* The calls                                                               *)

Heap == [hdr |-> hdr, list |-> free_list]
Becomes(h) == hdr' = h.hdr /\ free_list' = h.list

(* A call that is refused after the list was searched for n units.         *)
OutOfMemory(n) == Fitting(Searched(Heap, n), n) = {}
Fail(n) == OutOfMemory(n) /\ Becomes(Searched(Heap, n)) /\ UNCHANGED lent

(* size bytes in a block of n units, moved up to a multiple of units.      *)
Grant(n, size, units) ==
  /\ ~OutOfMemory(n)
  /\ \E h \in {Searched(Heap, n)} :
       LET a == Taken(h, n)
           ptr == a + Header
       IN  /\ Becomes(Carved(h, n))
           /\ lent' = lent \cup {[block |-> a, ptr |-> ptr + ((-ptr) % units), size |-> size]}

heap_malloc(size) == size # 0 /\ (Fail(ALIGN(size)) \/ Grant(ALIGN(size), size, 1))
heap_calloc(num, size) == heap_malloc(num * size)

(* No odd number but 1 divides a power of two.                             *)
PowerOfTwo(x) == x > 0 /\ \A d \in 2 .. x : x % d = 0 => d % 2 = 0

heap_malloc_aligned(size, alignment) ==
  LET n == ALIGN(size + alignment - 1)
      units == IF alignment < Unit THEN 1 ELSE alignment \div Unit
  IN  size # 0 /\ PowerOfTwo(alignment) /\ (Fail(n) \/ Grant(n, size, units))

Returnable == {m \in lent : m.ptr = m.block + Header}

heap_free(m) ==
  /\ Becomes(Freed(Heap, m.block))
  /\ lent' = lent \ {m}

Resize(m, size) == lent' = (lent \ {m}) \cup {[m EXCEPT !.size = size]}

ReallocInPlace(m, size) ==
  /\ hdr[m.block].size >= ALIGN(size)
  /\ Becomes(split_block(Heap, m.block, ALIGN(size)))
  /\ Resize(m, size)

(* Faulty variant: the free neighbour stays on the list.                   *)
AbsorbedStaysListed(h, a) ==
  [h EXCEPT !.hdr[a].size = @ + Header + h.hdr[End(h, a)].size, !.hdr[End(h, a)] = NoHeader]
Absorbed(h, a) ==
  [hdr |-> [h.hdr EXCEPT ![a].size = @ + Header + h.hdr[End(h, a)].size, ![End(h, a)] = NoHeader],
   list |-> Remove(h.list, End(h, a))]

CanExtend(a, n) ==
  LET b == End(Heap, a) IN
  /\ b < Total
  /\ hdr[b].is_free
  /\ hdr[a].size + Header + hdr[b].size >= n

ReallocExtend(m, size) ==
  /\ hdr[m.block].size < ALIGN(size)
  /\ CanExtend(m.block, ALIGN(size))
  /\ Becomes(split_block(Absorbed(Heap, m.block), m.block, ALIGN(size)))
  /\ Resize(m, size)

ReallocMove(m, size) ==
  LET n == ALIGN(size) IN
  /\ hdr[m.block].size < n
  /\ ~CanExtend(m.block, n)
  /\ \/ Fail(n)
     \/ /\ ~OutOfMemory(n)
        /\ \E h \in {Searched(Heap, n)} :
             LET a == Taken(h, n) IN
             /\ Becomes(Freed(Carved(h, n), m.block))
             /\ lent' = (lent \ {m}) \cup {[block |-> a, ptr |-> a + Header, size |-> size]}

heap_realloc(m, size) ==
  \/ size = 0 /\ heap_free(m)
  \/ size # 0 /\ (ReallocInPlace(m, size) \/ ReallocExtend(m, size) \/ ReallocMove(m, size))

Next ==
  \/ \E size \in MallocSizes : heap_malloc(size)
  \/ \E num \in Counts, size \in MallocSizes : heap_calloc(num, size)
  \/ \E size \in MallocSizes, alignment \in Alignments : heap_malloc_aligned(size, alignment)
  \/ \E m \in Returnable : heap_free(m) \/ \E size \in ReallocSizes : heap_realloc(m, size)

Spec == heap_init /\ [][Next]_vars

-----------------------------------------------------------------------------
(* Properties                                                              *)

(* The blocks passed when stepping from header to header.                  *)
Blocks ==
  LET from[a \in 0 .. Total] == IF a >= Total THEN {} ELSE {a} \cup from[End(Heap, a)]
  IN  from[0]
SizeOf(S) == MapThenSumSet(LAMBDA a : hdr[a].size, S)
heap_get_used_memory == SizeOf({a \in Blocks : ~hdr[a].is_free})
heap_get_free_memory == SizeOf(ToSet(free_list))

(* The blocks fill the region, each is on the list once or lent once, is   *)
(* marked accordingly and as large as its client asked, and the two        *)
(* measures of memory account for all of it: no split, merge or move loses *)
(* a block, and realloc may trust the mark of the block behind its own.    *)
BlocksAccounted ==
  /\ \A a \in Blocks : End(Heap, a) <= Total
  /\ IsInjective(free_list)
  /\ ToSet(free_list) = {a \in Blocks : hdr[a].is_free}
  /\ \A a \in Blocks : Cardinality({m \in lent : m.block = a}) = IF hdr[a].is_free THEN 0 ELSE 1
  /\ \A m \in lent : m.ptr * Unit + m.size <= End(Heap, m.block) * Unit
  /\ heap_get_used_memory + heap_get_free_memory + Header * Cardinality(Blocks) = Total
=============================================================================
