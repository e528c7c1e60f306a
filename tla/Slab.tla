-------------------------------- MODULE Slab --------------------------------
(***************************************************************************)
(* An object cache, modules/hnsorens/memory/slab/slab.c: objects of one    *)
(* size are carved from pages that keep their own header, a list of free   *)
(* slots threaded through the slots, and links that put the page in one of *)
(* the cache's queues: full, partial or empty.                             *)
(*                                                                         *)
(* Addresses are integers and a page is named by its base address.  Pages  *)
(* come from vmm.allocate with the kernel root, where the hint lies in the *)
(* boot region, so each call maps a new page above it or fails for want of *)
(* memory.  The pages are all the memory there is.                         *)
(*                                                                         *)
(* Calls are atomic: one processor, no interrupts.  A client holds one     *)
(* cache at a time, frees the objects it holds, and may pass an address    *)
(* inside an object when Skews has more than 0.  lent and use record who   *)
(* holds what; the code has no such variables.                             *)
(***************************************************************************)
EXTENDS Integers, FiniteSets

CONSTANTS
  PageSize,     \* SLAB_PAGE_SIZE
  SlabHeader,   \* sizeof(k_slab_t): 24
  LinkSize,     \* sizeof(u32): 4
  Word,         \* the number of values of a u64
  PageCount,    \* the number of pages in the machine
  ObjSizes,     \* the object sizes clients ask for
  Alignments,   \* the alignments clients ask for
  Skews         \* how far behind the start of an object its address may be

Pages == {PageSize * i : i \in 1 .. PageCount}
NULL == 0
DATA == -1            \* what a client has written over a link
SLAB_LIST_END == -2
Queues == {"full", "partial", "empty"}

ASSUME SlabAssumption ==
  /\ {PageSize, SlabHeader, LinkSize, Word, PageCount} \subseteq Nat \ {0}
  /\ SlabHeader < PageSize
  /\ PageSize * (PageCount + 1) < Word
  /\ ObjSizes \cup Alignments \subseteq 0 .. (Word - 1)
  /\ Skews \subseteq Nat

VARIABLES
  cache,   \* the descriptor last created: its parameters, and is_allocated
  heads,   \* its queue heads
  slabs,   \* the header of every page
  link,    \* the first word of every slot
  use,     \* what a page is mapped for
  lent     \* the addresses of the objects in the client's hands

vars == <<cache, heads, slabs, link, use, lent>>

NoSlab == [free_count |-> 0, next_free_slot |-> SLAB_LIST_END, next |-> NULL, prev |-> NULL]
Unlinked == [i \in 0 .. (PageSize \div LinkSize) |-> DATA]

Init ==
  /\ cache = [is_allocated |-> FALSE, asked |-> 0, obj_size |-> 0, alignment |-> 0, slots |-> 0]
  /\ heads = [q \in Queues |-> NULL]
  /\ slabs = [p \in Pages |-> NoSlab]
  /\ link = [p \in Pages |-> Unlinked]
  /\ use = [p \in Pages |-> "none"]
  /\ lent = {}

Unmapped == {p \in Pages : use[p] = "none"}
SlabPages == {p \in Pages : use[p] = "slab"}

-----------------------------------------------------------------------------
(* Queues.  A pool is a record of the heads and the page headers.          *)

Pool == [heads |-> heads, slabs |-> slabs]

enqueue_slab(pool, q, p) ==
  LET old == pool.heads[q]
      linked == [pool.slabs EXCEPT ![p].next = old, ![p].prev = NULL]
  IN  [heads |-> [pool.heads EXCEPT ![q] = p],
       slabs |-> IF old = NULL THEN linked ELSE [linked EXCEPT ![old].prev = p]]

(* Faulty variant: the successor keeps its back pointer.                   *)
DequeueHalf(pool, q, p) ==
  LET next == pool.slabs[p].next
      prev == pool.slabs[p].prev
      s == IF prev = NULL THEN pool.slabs ELSE [pool.slabs EXCEPT ![prev].next = next]
  IN  [heads |-> IF prev = NULL /\ pool.heads[q] = p THEN [pool.heads EXCEPT ![q] = next] ELSE pool.heads,
       slabs |-> [s EXCEPT ![p].next = NULL, ![p].prev = NULL]]

dequeue_slab(pool, q, p) ==
  LET next == pool.slabs[p].next
      prev == pool.slabs[p].prev
      s == IF prev = NULL THEN pool.slabs ELSE [pool.slabs EXCEPT ![prev].next = next]
      t == IF next = NULL THEN s ELSE [s EXCEPT ![next].prev = prev]
  IN  [heads |-> IF prev = NULL /\ pool.heads[q] = p THEN [pool.heads EXCEPT ![q] = next] ELSE pool.heads,
       slabs |-> [t EXCEPT ![p].next = NULL, ![p].prev = NULL]]

(* The pages a queue reaches from its head.                                *)
Queue(q) ==
  LET reach[n \in 0 .. PageCount] ==
        IF n = 0 THEN {heads[q]} ELSE reach[n - 1] \cup {slabs[p].next : p \in reach[n - 1] \cap Pages}
  IN  reach[PageCount] \ {NULL}

-----------------------------------------------------------------------------
(* The geometry of a page                                                  *)

RoundUp(x, alignment) ==
  LET sum == (x + alignment - 1) % Word IN sum - (sum % alignment)

get_payload_start(p, alignment) == RoundUp(p + SlabHeader, alignment)

Slot(p, i) == get_payload_start(p, cache.alignment) + i * cache.obj_size

(* x & (x - 1) is zero: no odd number but 1 divides x.                     *)
PowerOfTwo(x) == x > 0 /\ \A d \in 2 .. x : x % d = 0 => d % 2 = 0

-----------------------------------------------------------------------------
(* The calls                                                               *)

(* A call that is refused with status.                                     *)
Return(status) == UNCHANGED vars

(* Faulty variant: the slot count ignores the page's header.               *)
RoomAfterNothing(alignment) == PageSize
Room(alignment) == (PageSize - RoundUp(SlabHeader, alignment)) % Word

ObjectSize(size, alignment) ==
  LET rounded == RoundUp(size, alignment) IN IF rounded < LinkSize THEN LinkSize ELSE rounded

(* A room for no slot at all is refused before a page is taken.            *)
k_slab_create_cache(size, alignment) ==
  LET invalid == size = 0 \/ ~PowerOfTwo(alignment)
      fits == ObjectSize(size, alignment) <= Room(alignment)
  IN
  /\ ~cache.is_allocated
  /\ \/ invalid /\ Return("EINVAL")
     \/ ~invalid /\ ~fits /\ Return("EINVAL")
     \/ ~invalid /\ fits /\ Unmapped = {} /\ Return("ENOMEM")
     \/ \E p \in Unmapped :
          /\ ~invalid /\ fits
          /\ use' = [use EXCEPT ![p] = "cache"]
          /\ cache' = [is_allocated |-> TRUE, asked |-> size, obj_size |-> ObjectSize(size, alignment),
                       alignment |-> alignment,
                       slots |-> Room(alignment) \div ObjectSize(size, alignment)]
          /\ heads' = [q \in Queues |-> NULL]
          /\ UNCHANGED <<slabs, link, lent>>

(* Take the first free slot of p, which is in queue q or, fresh from the   *)
(* VMM or taken from the empty queue, in none.  A next_free_slot that is   *)
(* no slot leads to a write outside the page; the model does not go there. *)
Route(pool, p, fresh) ==
  LET filled == pool.slabs[p].free_count = 0
      out == IF fresh \/ ~filled THEN pool ELSE dequeue_slab(pool, "partial", p)
  IN  IF filled THEN enqueue_slab(out, "full", p)
      ELSE IF fresh THEN enqueue_slab(out, "partial", p) ELSE out

Take(pool, links, p, fresh) ==
  LET i == pool.slabs[p].next_free_slot
      popped == [pool EXCEPT !.slabs[p].next_free_slot = links[p][i], !.slabs[p].free_count = @ - 1]
      routed == Route(popped, p, fresh)
  IN
  /\ i \in 0 .. (cache.slots - 1)
  /\ heads' = routed.heads
  /\ slabs' = routed.slabs
  /\ link' = [links EXCEPT ![p][i] = DATA]
  /\ lent' = lent \cup {Slot(p, i)}
  /\ UNCHANGED cache

(* A page just mapped: every slot is free and links to the next.           *)
FreshSlab == [NoSlab EXCEPT !.free_count = cache.slots, !.next_free_slot = 0]
FreshLinks ==
  [i \in DOMAIN Unlinked |->
     IF i < cache.slots - 1 THEN i + 1 ELSE IF i = cache.slots - 1 THEN SLAB_LIST_END ELSE DATA]

(* Faulty variant: empty pages are not looked for.                         *)
NoneReusable == FALSE
Reusable == heads["empty"] # NULL

k_slab_alloc ==
  LET partial == heads["partial"] # NULL
      empty == ~partial /\ Reusable
      new == ~partial /\ ~empty
  IN
  \/ ~cache.is_allocated /\ Return("EINVAL")
  \/ /\ cache.is_allocated /\ partial
     /\ Take(Pool, link, heads["partial"], FALSE)
     /\ UNCHANGED use
  \/ /\ cache.is_allocated /\ empty
     /\ Take(dequeue_slab(Pool, "empty", heads["empty"]), link, heads["empty"], TRUE)
     /\ UNCHANGED use
  \/ cache.is_allocated /\ new /\ Unmapped = {} /\ Return("ENOMEM")
  \/ \E p \in Unmapped :
       /\ cache.is_allocated /\ new
       /\ Take([Pool EXCEPT !.slabs[p] = FreshSlab], [link EXCEPT ![p] = FreshLinks], p, TRUE)
       /\ use' = [use EXCEPT ![p] = "slab"]

PageOf(obj) == obj - (obj % PageSize)
Behind(obj) == obj - get_payload_start(PageOf(obj), cache.alignment)
SlotIndex(obj) == Behind(obj) \div cache.obj_size

(* Which queue a page leaves, and which it joins, when its slot is freed.  *)
Leave(pool, p) ==
  IF pool.slabs[p].free_count = 0 THEN dequeue_slab(pool, "full", p)
  ELSE IF pool.slabs[p].free_count + 1 = cache.slots THEN dequeue_slab(pool, "partial", p)
  ELSE pool
Join(pool, p) ==
  IF pool.slabs[p].free_count = cache.slots THEN enqueue_slab(pool, "empty", p)
  ELSE IF pool.slabs[p].free_count = 1 THEN enqueue_slab(pool, "partial", p)
  ELSE pool

(* The link is written where obj points, which may be behind the start of  *)
(* the slot.                                                               *)
Linked(obj, p, i) ==
  IF Behind(obj) % cache.obj_size = 0 THEN [link EXCEPT ![p][i] = slabs[p].next_free_slot] ELSE link

k_slab_free(obj) ==
  LET p == PageOf(obj)
      outside == Behind(obj) < 0 \/ SlotIndex(obj) >= cache.slots
  IN
  \/ (~cache.is_allocated \/ obj = NULL) /\ Return("EINVAL")
  \/ cache.is_allocated /\ obj # NULL /\ outside /\ Return("EINVAL")
  \/ /\ cache.is_allocated /\ obj # NULL /\ ~outside
     /\ LET pushed == [Leave(Pool, p) EXCEPT !.slabs[p].next_free_slot = SlotIndex(obj),
                                             !.slabs[p].free_count = @ + 1]
            joined == Join(pushed, p)
        IN
        /\ heads' = joined.heads
        /\ slabs' = joined.slabs
     /\ link' = Linked(obj, p, SlotIndex(obj))
     /\ lent' = lent \ {Slot(p, SlotIndex(obj))}
     /\ UNCHANGED <<cache, use>>

(* Pages S go back to the VMM.                                             *)
Unmap(S) ==
  /\ slabs' = [p \in Pages |-> IF p \in S THEN NoSlab ELSE slabs[p]]
  /\ link' = [p \in Pages |-> IF p \in S THEN Unlinked ELSE link[p]]

k_slab_shrink ==
  \/ ~cache.is_allocated /\ Return("EINVAL")
  \/ /\ cache.is_allocated
     /\ Unmap(Queue("empty"))
     /\ use' = [p \in Pages |-> IF p \in Queue("empty") THEN "none" ELSE use[p]]
     /\ heads' = [heads EXCEPT !["empty"] = NULL]
     /\ UNCHANGED <<cache, lent>>

(* The final call of k_slab_shrink is refused, is_allocated being false:   *)
(* the empty pages and the descriptor stay mapped, with no one to free them*)
k_slab_destroy_cache ==
  \/ ~cache.is_allocated /\ Return("EINVAL")
  \/ /\ cache.is_allocated
     /\ LET returned == Queue("full") \cup Queue("partial") IN
        /\ Unmap(returned)
        /\ use' = [p \in Pages |-> IF p \in returned THEN "none"
                                   ELSE IF use[p] = "none" THEN "none" ELSE "stranded"]
     /\ heads' = [heads EXCEPT !["full"] = NULL, !["partial"] = NULL]
     /\ cache' = [cache EXCEPT !.is_allocated = FALSE]
     /\ lent' = {}

(* What clients pass to free: what they hold, perhaps skewed, NULL, the    *)
(* first byte of a page and the last, when that belongs to no slot.        *)
FreeInputs ==
  {obj + skew : obj \in lent, skew \in Skews} \cup {NULL} \cup SlabPages
    \cup {p + PageSize - 1 : p \in {q \in SlabPages : Slot(q, cache.slots) <= q + PageSize - 1}}

Next ==
  \/ \E size \in ObjSizes, alignment \in Alignments : k_slab_create_cache(size, alignment)
  \/ k_slab_alloc
  \/ \E obj \in FreeInputs : k_slab_free(obj)
  \/ k_slab_shrink
  \/ k_slab_destroy_cache

Spec == Init /\ [][Next]_vars

-----------------------------------------------------------------------------
(* What the guarantees below suppose of the clients                        *)

(* Clients free the addresses they were given.                             *)
AddressesReturned == Skews = {0}

(* An alignment that is accepted divides a page, and no size rounded up to *)
(* it wraps.                                                               *)
AlignmentsDividePages == \A a \in Alignments : PowerOfTwo(a) => PageSize % a = 0
NoRequestWraps == \A size \in ObjSizes, a \in Alignments : size + a <= Word

-----------------------------------------------------------------------------
(* Properties                                                              *)

FreeSlots(p) == {i \in 0 .. (cache.slots - 1) : Slot(p, i) \notin lent}

(* Every variable keeps its type.                                          *)
TypeOK ==
  /\ cache.is_allocated \in BOOLEAN
  /\ heads \in [Queues -> Pages \cup {NULL}]
  /\ \A p \in Pages :
       /\ slabs[p].free_count \in 0 .. IF use[p] = "slab" THEN cache.slots ELSE PageSize
       /\ {slabs[p].next, slabs[p].prev} \subseteq Pages \cup {NULL}
       /\ slabs[p].next_free_slot \in Nat \cup {SLAB_LIST_END}
  /\ use \in [Pages -> {"none", "cache", "slab", "stranded"}]
  /\ lent \subseteq 0 .. (Word - 1)

(* Every slab page is in exactly one queue, that of its free count, and    *)
(* the links of a queue agree in both directions.                          *)
QueuesMatchCounts ==
  cache.is_allocated =>
    /\ UNION {Queue(q) : q \in Queues} = SlabPages
    /\ \A p \in Queue("full") : slabs[p].free_count = 0
    /\ \A p \in Queue("partial") : slabs[p].free_count \in 1 .. (cache.slots - 1)
    /\ \A p \in Queue("empty") : slabs[p].free_count = cache.slots
    /\ \A q \in Queues : \A p \in Queue(q) :
         /\ (slabs[p].prev = NULL) = (heads[q] = p)
         /\ slabs[p].next # NULL => slabs[slabs[p].next].prev = p
         /\ slabs[p].prev # NULL => slabs[slabs[p].prev].next = p

(* The list of free slots of a page holds each slot no client holds, once, *)
(* and its length is the count in the header.                              *)
FreeListsExact ==
  cache.is_allocated =>
    \A p \in SlabPages :
      LET nth[n \in 0 .. cache.slots] ==
            IF n = 0 THEN slabs[p].next_free_slot
            ELSE IF nth[n - 1] \in 0 .. (cache.slots - 1) THEN link[p][nth[n - 1]] ELSE nth[n - 1]
          free == slabs[p].free_count
      IN  /\ free = Cardinality(FreeSlots(p))
          /\ {nth[n] : n \in 0 .. (free - 1)} = FreeSlots(p)
          /\ nth[free] = SLAB_LIST_END

(* Queues, counts, free lists and clients agree, in whatever order objects *)
(* come back.                                                              *)
SlabsSound == TypeOK /\ QueuesMatchCounts /\ FreeListsExact

(* A page goes back to the VMM only when no object in it is lent, unless   *)
(* the cache is destroyed, and a page is taken only when no slot is free.  *)
PagesMoveLate ==
  [][cache.is_allocated /\ cache'.is_allocated =>
       /\ \A p \in SlabPages : use'[p] = "none" => \A obj \in lent : PageOf(obj) # p
       /\ \A p \in Pages : use[p] = "none" /\ use'[p] = "slab" =>
            \A s \in SlabPages : FreeSlots(s) = {}]_vars

(* api/slab.h: destroying a cache returns all its pages and its descriptor *)
DestroyReturnsAll == \A p \in Pages : use[p] # "stranded"

(* api/slab.h: free refuses an address that breaks the alignment rules of  *)
(* its page, so that only slots from which an object came become free.     *)
FreeTakesObjects ==
  [][\A p \in SlabPages : slabs'[p].free_count > slabs[p].free_count =>
       link'[p][slabs'[p].next_free_slot] # DATA]_vars

(* api/slab.h: create refuses an object that does not fit a page.          *)
ObjectsFit ==
  cache.is_allocated =>
    /\ cache.obj_size >= cache.asked
    /\ RoundUp(SlabHeader, cache.alignment) + cache.slots * cache.obj_size <= PageSize

(* The cache lends disjoint pieces of its pages, behind their headers, with*)
(* the alignment and at least the size asked for.                          *)
Arena == INSTANCE Arena WITH
  Space <- UNION {p + SlabHeader .. p + PageSize - 1 : p \in Pages},
  loans <- {[at |-> obj, len |-> cache.asked] : obj \in lent}
ImplementsArena == Arena!Spec
=============================================================================
