-------------------------------- MODULE Pmm --------------------------------
(***************************************************************************)
(* The physical memory manager, modules/hnsorens/memory/pmm/pmm.c: a binary*)
(* buddy allocator over the page frames of the boot memory map, with a     *)
(* metadata record (reference count, order, free bit) for every frame.     *)
(*                                                                         *)
(* Addresses are page indices and sizes are counted in pages: every size   *)
(* and address the code computes is a multiple of PMM_PAGE_SIZE.           *)
(*                                                                         *)
(* The free list of an order is modelled by the SET of the blocks linked   *)
(* in it.  The code pops the head of the list, or the first node that      *)
(* satisfies the caller's constraint; here any such block may be taken, so *)
(* every order the lists can have is covered.                              *)
(*                                                                         *)
(* The kernel runs on one processor and takes no interrupts, so a call is  *)
(* one step.  holds and reserved record what the callers have been given;  *)
(* the code has no such variables.                                         *)
(***************************************************************************)
EXTENDS BuddyGeometry, FiniteSets

CONSTANTS
  Client,      \* the modules that call the manager
  MemoryMap,   \* the boot memory map: a sequence of [start, size, type]
  MetaPages,   \* the pages of the metadata array (meta_pages_needed)
  TotalPages,  \* g_pmm_total_pages: one past the highest page of the map
  Counts,      \* the page counts callers ask for, 0 and too large ones included
  Alignments,  \* the alignments callers ask for, bad ones included
  Limits,      \* the address limits callers ask for
  Ranges       \* the ranges [start, size] callers reserve

Page  == 0 .. (TotalPages - 1)

RegionEnd(i) == MemoryMap[i].start + MemoryMap[i].size

ASSUME ClientAssumption == IsFiniteSet(Client)

(* Every argument is an unsigned integer.                                  *)
ASSUME CallAssumption ==
  /\ Counts \subseteq Nat /\ Limits \subseteq Nat
  /\ \A r \in Ranges : r.start \in Nat /\ r.size \in Nat

ASSUME MapAssumption ==
  /\ TotalPages \in Nat
  /\ MetaPages \in Nat
  /\ \A i \in DOMAIN MemoryMap :
       /\ MemoryMap[i].start \in Nat
       /\ MemoryMap[i].size \in Nat
       /\ RegionEnd(i) <= TotalPages
  /\ \A i, j \in DOMAIN MemoryMap :
       i # j => RegionEnd(i) <= MemoryMap[j].start \/ RegionEnd(j) <= MemoryMap[i].start

VARIABLES
  free_blocks,  \* orders[o]: the base pages of the free blocks of each order
  is_free,      \* metadata: the page lies in a free block
  order,        \* metadata: the order of the page's block
  ref_count,    \* metadata: the references to the page's block
  free_memory,  \* free_memory_bytes, in pages
  ret,          \* what the last call returned
  holds,        \* for each client the blocks <<base, order>> it refers to
  reserved      \* the pages pmm_reserve_range has taken out of the lists

vars == <<free_blocks, is_free, order, ref_count, free_memory, ret, holds, reserved>>

-----------------------------------------------------------------------------
(* pmm_init                                                                *)

FreeRegions == {i \in DOMAIN MemoryMap : MemoryMap[i].type = "FREE"}

(* No free region goes on where another ends: the loader merges them.      *)
ASSUME ApartAssumption ==
  \A i, j \in FreeRegions :
    i # j => RegionEnd(i) < MemoryMap[j].start \/ RegionEnd(j) < MemoryMap[i].start

(* The first free region with room gives its first pages to the metadata.  *)
Donor == MinOf({i \in FreeRegions : MemoryMap[i].size >= MetaPages})

Usable(i) ==
  (IF i = Donor THEN MemoryMap[i].start + MetaPages ELSE MemoryMap[i].start)
    .. (RegionEnd(i) - 1)

Managed == UNION {Usable(i) : i \in FreeRegions}

(* The code computes the size of a block in bytes, which wraps to zero from *)
(* order 52 up; a carving cursor at address 0 would be divided by it, which *)
(* is undefined.  At any other address such an order does not fit.          *)
ASSUME FirstPageAssumption == 0 \notin Managed

(* The carving loop takes, at each cursor, the largest block that is       *)
(* aligned there and fits the region: a page ends up in the largest aligned*)
(* block around it that lies inside its region.                            *)
CarvedOrder(p) ==
  MaxOf({o \in Order : \E i \in FreeRegions : p \in Usable(i) /\ Block(Base(p, o), o) \subseteq Usable(i)})

CarvedBlocks(o) == {p \in Managed : CarvedOrder(p) = o /\ p % Span[o] = 0}

Init ==
  /\ free_blocks = [o \in Order |-> CarvedBlocks(o)]
  /\ is_free = [p \in Page |-> p \in Managed]
  /\ order = [p \in Page |-> IF p \in Managed THEN CarvedOrder(p) ELSE 0]
  /\ ref_count = [p \in Page |-> 0]
  /\ free_memory = Cardinality(Managed)
  /\ ret = "OK"
  /\ holds = [c \in Client |-> {}]
  /\ reserved = {}

-----------------------------------------------------------------------------
(* Allocation                                                              *)

Fail(error) ==
  /\ ret' = error
  /\ UNCHANGED <<free_blocks, is_free, order, ref_count, free_memory, holds, reserved>>

(* What a split of the block of order k at b leaves over: upper halves, the*)
(* one of order j at b + Span[j].  Faulty variant: they are forgotten.     *)
RestForgotten(b, k, o) == {}
Rest(b, k, o) == Block(b, k) \ Block(b, o)
SplitOrder(b, p) == CHOOSE j \in Order : p \in Block(b + Span[j], j)

(* Unlink the block of order k at b, split it down to order o, return the  *)
(* upper halves to the lists and hand the lowest part to client c: the tail*)
(* the three allocation functions share.                                   *)
TakeBlock(c, b, k, o) ==
  LET rest == Rest(b, k, o) IN
  /\ free_blocks' =
       [j \in Order |-> IF j = k THEN free_blocks[k] \ {b}
                        ELSE IF j \in o .. (k - 1) THEN free_blocks[j] \cup {b + Span[j]}
                        ELSE free_blocks[j]]
  /\ is_free' = [p \in Page |-> IF p \in Block(b, k) THEN p \in rest ELSE is_free[p]]
  /\ order' = [p \in Page |-> IF p = b THEN o
                              ELSE IF p \in rest THEN SplitOrder(b, p)
                              ELSE order[p]]
  /\ ref_count' = [p \in Page |-> IF p = b THEN 1 ELSE IF p \in rest THEN 0 ELSE ref_count[p]]
  /\ free_memory' = free_memory - Span[o]
  /\ ret' = "OK"
  /\ holds' = [holds EXCEPT ![c] = @ \cup {<<b, o>>}]
  /\ UNCHANGED reserved

(* Faulty variant: only the list of order o itself is searched.            *)
AllocFromNoSearch(c, o, allowed) ==
  \/ free_blocks[o] \cap allowed = {} /\ Fail("ENOMEM")
  \/ \E b \in free_blocks[o] \cap allowed : TakeBlock(c, b, o, o)

(* Search upwards from order o for a list with a block based in allowed.   *)
AllocFrom(c, o, allowed) ==
  LET fitting == {k \in o .. TopOrder : free_blocks[k] \cap allowed # {}} IN
  \/ fitting = {} /\ Fail("ENOMEM")
  \/ /\ fitting # {}
     /\ LET k == MinOf(fitting)
        IN  \E b \in free_blocks[k] \cap allowed : TakeBlock(c, b, k, o)

pmm_alloc_page(c, o) ==
  \/ o \notin Order /\ Fail("EINVAL")
  \/ o \in Order /\ AllocFrom(c, o, Page)

(* The smallest order whose blocks have room for count pages.              *)
BadCount(count) == count = 0 \/ count > Span[TopOrder]
OrderFor(count) == MinOf({o \in Order : Span[o] >= count})

PowersOfTwo == {Span[o] : o \in Order}

pmm_alloc_aligned(c, count, alignment) ==
  \/ (BadCount(count) \/ alignment \notin PowersOfTwo) /\ Fail("EINVAL")
  \/ /\ ~BadCount(count)
     /\ alignment \in PowersOfTwo
     /\ AllocFrom(c, OrderFor(count), {p \in Page : p % alignment = 0})

pmm_alloc_in_range(c, count, max) ==
  \/ BadCount(count) /\ Fail("EINVAL")
  \/ /\ ~BadCount(count)
     /\ LET o == OrderFor(count)
        IN  AllocFrom(c, o, {p \in Page : p + Span[o] <= max})

-----------------------------------------------------------------------------
(* References and freeing                                                  *)

(* Faulty variants: the buddy's order is not compared, its free bit is not *)
(* tested, the loop stops one order too low.                               *)
MergeableAnyOrder(f, k) ==
  LET buddy == Buddy(Base(f, k), k)
  IN  k < TopOrder /\ buddy < TotalPages /\ is_free[buddy]
MergeableNotFree(f, k) ==
  LET buddy == Buddy(Base(f, k), k)
  IN  k < TopOrder /\ buddy < TotalPages /\ order[buddy] = k
MergeableStopsEarly(f, k) ==
  LET buddy == Buddy(Base(f, k), k)
  IN  k < TopOrder - 1 /\ buddy < TotalPages /\ is_free[buddy] /\ order[buddy] = k

(* The merge loop goes on from order k while the buddy exists, is free and *)
(* is one whole block of order k.                                          *)
Mergeable(f, k) ==
  LET buddy == Buddy(Base(f, k), k) IN
  /\ k < TopOrder
  /\ buddy < TotalPages
  /\ is_free[buddy]
  /\ order[buddy] = k

MergedOrder(f, o) == MinOf({k \in o .. TopOrder : ~Mergeable(f, k)})

pmm_free_page(o, f) ==
  LET m == MergedOrder(f, o)
      merged == Block(Base(f, m), m)
  IN
  /\ free_blocks' =
       [k \in Order |-> IF k = m THEN free_blocks[m] \cup {Base(f, m)}
                        ELSE IF k \in o .. (m - 1) THEN free_blocks[k] \ {Buddy(Base(f, k), k)}
                        ELSE free_blocks[k]]
  /\ is_free' = [p \in Page |-> p \in merged \/ is_free[p]]
  /\ order' = [p \in Page |-> IF p \in merged THEN m ELSE order[p]]
  /\ ref_count' = [p \in Page |-> IF p \in merged THEN 0 ELSE ref_count[p]]
  /\ free_memory' = free_memory + Span[o]

Held == UNION {holds[c] : c \in Client}
HeldBases == {h[1] : h \in Held}

(* A client retains a frame some client has passed to it; the frame may    *)
(* have been freed in the meantime, or may not exist.                      *)
pmm_retain(c, f) ==
  \/ (f \in Page => is_free[f]) /\ Fail("EFAULT")
  \/ /\ f \in Page /\ ~is_free[f]
     /\ \E h \in Held \ holds[c] :
          h[1] = f /\ holds' = [holds EXCEPT ![c] = @ \cup {h}]
     /\ ref_count' = [ref_count EXCEPT ![f] = @ + 1]
     /\ ret' = "OK"
     /\ UNCHANGED <<free_blocks, is_free, order, free_memory, reserved>>

(* A client releases a block it holds, releases one a second time, or      *)
(* names a page that nobody was ever given.                                *)
pmm_release(c, f) ==
  \/ (f \in Page => is_free[f]) /\ Fail("EFAULT")
  \/ f \in Page /\ ~is_free[f] /\ ref_count[f] = 0 /\ Fail("EFAULT")
  \/ /\ f \in Page /\ ~is_free[f] /\ ref_count[f] > 0
     /\ \E h \in holds[c] : h[1] = f /\ holds' = [holds EXCEPT ![c] = @ \ {h}]
     /\ \/ /\ ref_count[f] = 1
           /\ pmm_free_page(order[f], f)
        \/ /\ ref_count[f] > 1
           /\ ref_count' = [ref_count EXCEPT ![f] = @ - 1]
           /\ UNCHANGED <<free_blocks, is_free, order, free_memory>>
     /\ ret' = "OK"
     /\ UNCHANGED reserved

-----------------------------------------------------------------------------
(* Reservation: every free block that meets the range leaves the lists.    *)

pmm_reserve_range(start, size) ==
  LET range == start .. (start + size - 1)
      met == {p \in range : is_free[p]}
      evicted == UNION {Block(Base(p, order[p]), order[p]) : p \in met}
  IN
  \/ size = 0 /\ Fail("OK")
  \/ size > 0 /\ start + size > TotalPages /\ Fail("EINVAL")
  \/ /\ size > 0 /\ start + size <= TotalPages
     /\ free_blocks' = [o \in Order |-> free_blocks[o] \ {Base(p, order[p]) : p \in {q \in met : order[q] = o}}]
     /\ is_free' = [p \in Page |-> is_free[p] /\ p \notin evicted]
     /\ ref_count' = [p \in Page |-> IF p \in evicted THEN 1 ELSE ref_count[p]]
     /\ order' = [p \in Page |-> IF p \in evicted THEN 0 ELSE order[p]]
     /\ free_memory' = free_memory - Cardinality(evicted)
     /\ ret' = "OK"
     /\ reserved' = reserved \cup evicted
     /\ UNCHANGED holds

-----------------------------------------------------------------------------
Next ==
  \/ \E c \in Client :
       \/ \E o \in 0 .. MaxOrder : pmm_alloc_page(c, o)
       \/ \E count \in Counts, a \in Alignments : pmm_alloc_aligned(c, count, a)
       \/ \E count \in Counts, max \in Limits : pmm_alloc_in_range(c, count, max)
       \/ \E f \in 0 .. TotalPages : pmm_retain(c, f) \/ pmm_release(c, f)
  \/ \E r \in Ranges : pmm_reserve_range(r.start, r.size)

Spec == Init /\ [][Next]_vars

-----------------------------------------------------------------------------
(* Properties                                                              *)

FreePages == {p \in Page : is_free[p]}
HeldPages == UNION {Block(h[1], h[2]) : h \in Held}

(* Every variable keeps its type.                                          *)
TypeOK ==
  /\ free_blocks \in [Order -> SUBSET Page]
  /\ is_free \in [Page -> BOOLEAN]
  /\ order \in [Page -> Order]
  /\ ref_count \in [Page -> Nat]
  /\ free_memory \in Int
  /\ ret \in {"OK", "EINVAL", "ENOMEM", "EFAULT"}
  /\ holds \in [Client -> SUBSET (Page \X Order)]
  /\ reserved \subseteq Page

(* Lists and metadata tell the same story: a linked block is aligned, in   *)
(* range, free on all of its pages and of one order, and every free page   *)
(* belongs to a linked block of its own order.  The merge loop unlinks a   *)
(* buddy on the metadata's word alone.                                     *)
ListsMatchMetadata ==
  /\ \A o \in Order : \A b \in free_blocks[o] :
       /\ b % Span[o] = 0
       /\ Block(b, o) \subseteq Page
       /\ \A p \in Block(b, o) : is_free[p] /\ order[p] = o /\ ref_count[p] = 0
  /\ \A p \in Page : is_free[p] => Base(p, order[p]) \in free_blocks[order[p]]

(* A block in a client's hands is nobody else's: none of its pages is free,*)
(* reserved or part of another lent block, however often it is shared,     *)
(* split and merged around; its reference count is the number of its       *)
(* clients and its recorded order the one it was asked for with.           *)
LentBlocksAreExclusive ==
  /\ \A h \in Held :
       /\ h[1] % Span[h[2]] = 0
       /\ Block(h[1], h[2]) \subseteq Page \ (FreePages \cup reserved)
       /\ order[h[1]] = h[2]
       /\ ref_count[h[1]] = Cardinality({c \in Client : h \in holds[c]})
  /\ \A h, g \in Held : h # g => Block(h[1], h[2]) \cap Block(g[1], g[2]) = {}

(* No frame is lost: every page the manager was given is free, lent or     *)
(* reserved, no page it was not given ever enters circulation, and no      *)
(* reserved page comes back.                                               *)
NoFrameLost ==
  /\ FreePages \cup HeldPages \cup reserved = Managed
  /\ FreePages \cap reserved = {}

(* pmm_get_free_memory counts the free pages exactly.                      *)
FreeMemoryExact == free_memory = Cardinality(FreePages)

(* Frames are well described: types, lists and metadata.                   *)
MetadataSound == TypeOK /\ ListsMatchMetadata

(* Frames are well counted: none is lost, and the counter is exact.        *)
FramesConserved == NoFrameLost /\ FreeMemoryExact

(* When nothing is lent or reserved the lists are those pmm_init built:    *)
(* no history of calls fragments memory for good.                          *)
ReleaseRestoresInit ==
  (Held = {} /\ reserved = {}) => \A o \in Order : free_blocks[o] = CarvedBlocks(o)

(* ENOMEM is never reported while a naturally aligned run of free pages of *)
(* the rounded-up size satisfies the caller's constraint.                  *)
FreeRuns(o) == {b \in Page : b % Span[o] = 0 /\ Block(b, o) \subseteq FreePages}

NoFalseOutOfMemory ==
  [][ret' = "ENOMEM" => \A c \in Client :
       /\ \A o \in Order : pmm_alloc_page(c, o) => FreeRuns(o) = {}
       /\ \A count \in {n \in Counts : ~BadCount(n)} :
            LET runs == FreeRuns(OrderFor(count)) IN
            runs # {} =>
              /\ \A a \in PowersOfTwo \cap Alignments :
                   pmm_alloc_aligned(c, count, a) => \A b \in runs : b % a # 0
              /\ \A max \in Limits :
                   pmm_alloc_in_range(c, count, max) => \A b \in runs : b + Span[OrderFor(count)] > max
    ]_vars

(* The manager implements the ledger: a call grants, shares, drops or      *)
(* withdraws whole blocks, and does nothing else to anybody's pages.       *)
Ledger == INSTANCE FrameLedger WITH available <- FreePages
ImplementsLedger == Ledger!Spec
=============================================================================
