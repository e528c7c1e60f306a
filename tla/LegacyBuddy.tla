---------------------------- MODULE LegacyBuddy ----------------------------
(***************************************************************************)
(* The older physical memory manager, modules2/src2/pmm: a buddy allocator *)
(* with a free list and a bitmap for each order.                           *)
(*                                                                         *)
(* Memory is counted in pages and a block is named by its first page; page *)
(* 0 is the null pointer and never in circulation.  The links of a list are*)
(* in the blocks themselves: next in the first word, prev in the ninth.    *)
(* Whoever puts a block on a list writes its next and not its prev, which  *)
(* keeps what was there.  Calls are atomic: one processor, no interrupts.  *)
(***************************************************************************)
EXTENDS Integers, SequencesExt

CONSTANTS
  LastPage,      \* the last page
  MaxOrder,  \* MAX_ORDER, above the order of any block
  MapBits,   \* the bits of the bitmaps that one page holds
  Low, High, \* only regions that start between these pages are used
  Maps,      \* the memory maps: sequences of [start, size, free]
  Careful    \* whether clients clear what they free, and keep what it does harm to free

NULL == 0
Junk == -1   \* what else may be in a word
Page == 1 .. LastPage
Orders == 0 .. MaxOrder - 1

VARIABLES
  sections,  \* for each order: top, block_count and the set bits of its bitmap
  next,      \* the first word of each page
  prev,      \* its ninth word
  total,     \* the pages the bitmaps were made for
  pool,      \* the pages that were put into circulation
  lent       \* the blocks in clients' hands: <<first page, pages>>

vars == <<sections, next, prev, total, pool, lent>>

Ups(from, to) == [i \in 1 .. to - from + 1 |-> from + i - 1]
Downs(from, to) == [i \in 1 .. from - to + 1 |-> from - i + 1]

-----------------------------------------------------------------------------
(* Operations on an allocator [sections, next, prev, total]                *)

(* A position behind the end of a bitmap is ignored, and reads as clear.   *)
InBitmap(A, a, o) == a \div 2 ^ o < (A.total \div 2 ^ o) + 1
bitmap_test(A, a, o) == InBitmap(A, a, o) /\ a \div 2 ^ o \in A.sections[o].bits
bitmap_set(A, a, o) ==
  IF InBitmap(A, a, o) THEN [A EXCEPT !.sections[o].bits = @ \cup {a \div 2 ^ o}] ELSE A
bitmap_clear(A, a, o) ==
  IF InBitmap(A, a, o) THEN [A EXCEPT !.sections[o].bits = @ \ {a \div 2 ^ o}] ELSE A

(* A word written through a link; one that is no page's changes nothing    *)
(* that is modelled.                                                       *)
SetPrev(A, a, w) == IF a \in Page THEN [A EXCEPT !.prev[a] = w] ELSE A
SetNext(A, a, w) == IF a \in Page THEN [A EXCEPT !.next[a] = w] ELSE A

add_block_to_freelist(A, a, o) ==
  LET B == SetNext(SetPrev(A, A.sections[o].top, a), a, A.sections[o].top)
  IN  bitmap_set([B EXCEPT !.sections[o].top = a, !.sections[o].block_count = @ + 1], a, o)

(* A block without a prev is taken for the head of its list.               *)
remove_block_from_freelist(A, a, o) ==
  LET B == IF A.prev[a] # NULL THEN SetNext(A, A.prev[a], A.next[a]) ELSE [A EXCEPT !.sections[o].top = A.next[a]]
      C == [SetPrev(B, A.next[a], A.prev[a]) EXCEPT !.sections[o].block_count = @ - 1]
  IN  bitmap_clear(IF C.sections[o].block_count = 0 THEN [C EXCEPT !.sections[o].top = NULL] ELSE C, a, o)

(* The order of the largest aligned block at a that ends by end.           *)
find_max_block_size(a, end) ==
  CHOOSE o \in Orders : /\ 2 ^ o <= end - a /\ a % 2 ^ o = 0
                        /\ \A p \in Orders : p > o => ~(2 ^ p <= end - a /\ a % 2 ^ p = 0)
Blocks(a, end) ==
  LET from[b \in a .. end] ==
        IF b = end THEN <<>>
        ELSE <<[at |-> b, order |-> find_max_block_size(b, end)]>> \o from[b + 2 ^ find_max_block_size(b, end)]
  IN  from[a]

(* The smallest order that has a block: its first one is split, and the    *)
(* upper halves are listed.                                                *)
Sources(A, o) == {c \in Orders : c >= o /\ A.sections[c].block_count # 0}
Source(A, o) == CHOOSE c \in Sources(A, o) : \A d \in Sources(A, o) : c <= d
Found(A, o) == A.sections[Source(A, o)].top
buddy_alloc_phys(A, o) ==
  LET c == Source(A, o)
      a == Found(A, o)
      B == [A EXCEPT !.sections[c].top = A.next[a], !.sections[c].block_count = @ - 1]
      C == bitmap_clear(SetPrev(B, A.next[a], NULL), a, c)
  IN  FoldLeft(LAMBDA D, k : add_block_to_freelist(D, a + 2 ^ k, k), C, Downs(c - 1, o))

Buddy(a, o) == IF (a \div 2 ^ o) % 2 = 0 THEN a + 2 ^ o ELSE a - 2 ^ o

(* The merges a free makes: the buddies it takes off their lists, in turn. *)
Merged(A, a, o) ==
  FoldLeft(LAMBDA m, k :
             LET b == Buddy(m.at, k) IN
             IF m.order = k /\ bitmap_test(m.A, b, k)
             THEN [A |-> remove_block_from_freelist(m.A, b, k), at |-> IF b < m.at THEN b ELSE m.at, order |-> k + 1,
                   taken |-> Append(m.taken, [A |-> m.A, at |-> b, order |-> k])]
             ELSE m,
           [A |-> A, at |-> a, order |-> o, taken |-> <<>>], Ups(o, MaxOrder - 2))

buddy_free_phys(A, a, o) ==
  LET m == Merged(A, a, o) IN add_block_to_freelist(m.A, m.at, m.order)

(* The blocks one passes when following the list of an order.              *)
Listed(A, o) ==
  LET from[p \in (Page \cup {NULL, Junk}) \X (0 .. LastPage)] ==
        IF p[1] \notin Page \/ p[2] = 0 THEN <<>> ELSE <<p[1]>> \o from[<<A.next[p[1]], p[2] - 1>>]
  IN  from[<<A.sections[o].top, LastPage>>]

(* Every block a free takes off its list is preceded by its prev.          *)
Harmless(A, a, o) ==
  \A i \in DOMAIN Merged(A, a, o).taken :
    LET t == Merged(A, a, o).taken[i]
        list == Listed(t.A, t.order)
    IN  t.A.prev[t.at] = IF list[1] = t.at THEN NULL
                         ELSE CHOOSE p \in ToSet(list) : t.A.next[p] = t.at

-----------------------------------------------------------------------------
(* pmm_start: the bitmaps take the start of the first large free region,   *)
(* and the regions within bounds are divided into blocks.                  *)

calculate_total_memory(map) == FoldLeft(LAMBDA sum, r : sum + r.size, 0, map)
buddy_get_memory_size(pages) ==
  FoldLeft(LAMBDA sum, o : IF 2 ^ o <= pages THEN sum + (pages \div 2 ^ o) + 1 ELSE sum, 0, Ups(0, MaxOrder - 1))
BitmapPages(map) == (buddy_get_memory_size(calculate_total_memory(map)) \div MapBits) + 1
Hosts(map) == {i \in DOMAIN map : map[i].size > BitmapPages(map) /\ map[i].free}
Shrunk(map) ==
  LET i == CHOOSE i \in Hosts(map) : \A j \in Hosts(map) : i <= j
  IN  [map EXCEPT ![i].size = @ - BitmapPages(map), ![i].start = @ + BitmapPages(map)]

Used(map) == SelectSeq(Shrunk(map), LAMBDA r : r.free /\ r.start > Low /\ r.start < High)
buddy_init(A, map) ==
  FoldLeft(LAMBDA B, r :
             FoldLeft(LAMBDA C, b : add_block_to_freelist(C, b.at, b.order), B, Blocks(r.start, r.start + r.size)),
           A, Used(map))

pmm_start(map, word) ==
  \E A \in {buddy_init([sections |-> [o \in Orders |-> [top |-> NULL, block_count |-> 0, bits |-> {}]],
                        next |-> [a \in Page |-> word], prev |-> [a \in Page |-> word],
                        total |-> calculate_total_memory(map)], map)} :
    /\ sections = A.sections /\ next = A.next /\ prev = A.prev /\ total = A.total
    /\ pool = UNION {Used(map)[i].start .. Used(map)[i].start + Used(map)[i].size - 1 : i \in DOMAIN Used(map)}
    /\ lent = {}

Init == \E map \in Maps, word \in {NULL, Junk} : pmm_start(map, word)

-----------------------------------------------------------------------------
(* The calls                                                               *)

Now == [sections |-> sections, next |-> next, prev |-> prev, total |-> total]
Becomes(A) ==
  /\ sections' = A.sections /\ next' = A.next /\ prev' = A.prev
  /\ UNCHANGED <<total, pool>>

alloc_phys(o) ==
  /\ Sources(Now, o) # {}
  /\ Becomes(buddy_alloc_phys(Now, o))
  /\ lent' = lent \cup {<<Found(Now, o), 2 ^ o>>}

(* The pages of a block behind the first n are given back at once.         *)
buddy_alloc_phys_exact(n) ==
  LET o == CHOOSE o \in Orders : n <= 2 ^ o /\ (o > 0 => 2 ^ (o - 1) < n) IN
  /\ Sources(Now, o) # {}
  /\ \E a \in {Found(Now, o)}, A \in {buddy_alloc_phys(Now, o)} :
       /\ Becomes(FoldLeft(LAMBDA B, b : buddy_free_phys(B, b.at, b.order), A, Blocks(a + n, a + 2 ^ o)))
       /\ lent' = lent \cup {<<a, n>>}

(* The clients have left their data in the pages they free.                *)
free_phys(a, o, word) ==
  /\ <<a, 2 ^ o>> \in lent
  /\ \E A \in {[Now EXCEPT !.prev = [p \in Page |-> IF p \in a .. a + 2 ^ o - 1 THEN word ELSE prev[p]]]} :
       /\ Careful => word = NULL /\ Harmless(A, a, o)
       /\ Becomes(buddy_free_phys(A, a, o))
  /\ lent' = lent \ {<<a, 2 ^ o>>}

Next ==
  \/ \E o \in Orders : alloc_phys(o)
  \/ \E n \in 1 .. 2 ^ (MaxOrder - 1) : buddy_alloc_phys_exact(n)
  \/ \E a \in Page, o \in Orders, word \in {NULL, Junk} : free_phys(a, o, word)

Spec == Init /\ [][Next]_vars

-----------------------------------------------------------------------------
(* Properties                                                              *)

PagesOf(a, n) == a .. a + n - 1
FreePages == UNION {UNION {PagesOf(a, 2 ^ o) : a \in ToSet(Listed(Now, o))} : o \in Orders}
LentPages == UNION {PagesOf(l[1], l[2]) : l \in lent}

(* buddy.h: a block that is freed returns to a free list.  Every page that *)
(* was put into circulation is lent or listed.                             *)
NothingLost == pool \subseteq FreePages \cup LentPages

(* Each list has the blocks its count says, those within the bitmap are    *)
(* exactly the ones whose bit is set, no two free or lent blocks overlap,  *)
(* and the measure of available memory is what the lists hold.             *)
buddy_memory_available == FoldLeft(LAMBDA sum, o : sum + 2 ^ o * sections[o].block_count, 0, Ups(0, MaxOrder - 1))
ListsExact ==
  /\ \A o \in Orders :
       LET list == Listed(Now, o) IN
       /\ IsInjective(list) /\ Len(list) = sections[o].block_count
       /\ sections[o].bits = {a \div 2 ^ o : a \in {b \in ToSet(list) : InBitmap(Now, b, o)}}
       /\ \A a \in ToSet(list) : a % 2 ^ o = 0
  /\ NothingLost /\ FreePages \cap LentPages = {}
  /\ \A l, m \in lent : l = m \/ PagesOf(l[1], l[2]) \cap PagesOf(m[1], m[2]) = {}
  /\ buddy_memory_available = Cardinality(FreePages)
=============================================================================
