----------------------------- MODULE SlabProofs -----------------------------
(***************************************************************************)
(* The object cache for every page size, number of pages and set of object *)
(* sizes, when clients free what they were given and the alignments that   *)
(* are accepted divide a page: queues, counts, free lists and clients      *)
(* agree, pages are taken and returned no earlier than they must, and every*)
(* call is a step of the abstract arena.                                   *)
(*                                                                         *)
(* The links are described by two witnesses: a rank that grows along each  *)
(* queue, and for each page the sequence of its free slots, the top last.  *)
(***************************************************************************)
EXTENDS Slab, FiniteSetTheorems, WellFoundedInduction, TLAPS

SlotIndices == 0 .. (PageSize \div LinkSize)
Cache == [is_allocated : BOOLEAN, asked : Nat, obj_size : Nat, alignment : Nat, slots : Nat]
Record == [free_count : 0 .. PageSize, next_free_slot : Nat \cup {SLAB_LIST_END},
           next : Pages \cup {NULL}, prev : Pages \cup {NULL}]
Links == [Pages -> [SlotIndices -> Nat \cup {DATA, SLAB_LIST_END}]]

(* The pages mem are linked from head, in the order of their ranks.        *)
IsQueue(head, mem, records) ==
  /\ head \in mem \cup {NULL}
  /\ \A p \in mem :
       /\ records[p].next \in mem \cup {NULL} /\ records[p].prev \in mem \cup {NULL}
       /\ (records[p].prev = NULL) = (head = p)
       /\ records[p].next # NULL => records[records[p].next].prev = p
       /\ records[p].prev # NULL => records[records[p].prev].next = p
  /\ \E rank \in [Pages -> Nat] :
       \A p \in mem : records[p].prev # NULL => rank[records[p].prev] < rank[p]

(* mem says which pages each queue of the pool has.                        *)
IsPool(pool, mem) ==
  /\ pool \in [heads : [Queues -> Pages \cup {NULL}], slabs : [Pages -> Record]]
  /\ mem \in [Queues -> SUBSET Pages]
  /\ \A q, r \in Queues : q # r => mem[q] \cap mem[r] = {}
  /\ \A q \in Queues : IsQueue(pool.heads[q], mem[q], pool.slabs)

(* The queue of a page with so many free slots.                            *)
Class(count) == IF count = 0 THEN "full" ELSE IF count = cache.slots THEN "empty" ELSE "partial"
Members == [q \in Queues |-> {p \in SlabPages : Class(slabs[p].free_count) = q}]

(* stack lists the n slots of free, each once, from the last to be served  *)
(* to the first, and the links follow it down.                             *)
IsFreeList(stack, n, first, linked, free) ==
  /\ stack \in [1 .. n -> free]
  /\ \A k, m \in 1 .. n : stack[k] = stack[m] => k = m
  /\ \A i \in free : \E k \in 1 .. n : stack[k] = i
  /\ first = IF n = 0 THEN SLAB_LIST_END ELSE stack[n]
  /\ \A k \in 1 .. n : linked[stack[k]] = IF k = 1 THEN SLAB_LIST_END ELSE stack[k - 1]

HasFreeList(n, first, linked, free) == \E stack \in [1 .. n -> free] : IsFreeList(stack, n, first, linked, free)

(* The objects of a cache lie behind the headers of its pages.             *)
Geometry(c) ==
  LET header == RoundUp(SlabHeader, c.alignment) IN
  /\ c.alignment > 0 /\ PageSize % c.alignment = 0
  /\ LinkSize <= c.obj_size /\ c.slots > 0
  /\ header + c.slots * c.obj_size <= PageSize
  /\ (NoRequestWraps => c.asked <= c.obj_size)

IInv ==
  /\ cache \in Cache /\ link \in Links
  /\ use \in [Pages -> {"none", "cache", "slab", "stranded"}]
  /\ cache.is_allocated => Geometry(cache)
  /\ ~cache.is_allocated => SlabPages = {} /\ lent = {}
  /\ heads \in [Queues -> Pages \cup {NULL}] /\ slabs \in [Pages -> Record]
  /\ cache.is_allocated => IsPool(Pool, Members)
  /\ lent \subseteq {Slot(p, i) : p \in SlabPages, i \in 0 .. (cache.slots - 1)}
  /\ \A p \in SlabPages :
       HasFreeList(slabs[p].free_count, slabs[p].next_free_slot, link[p], FreeSlots(p))

-----------------------------------------------------------------------------
(* Numbers                                                                 *)

LEMMA Constants ==
  /\ PageSize \in Nat \ {0} /\ SlabHeader \in Nat \ {0} /\ LinkSize \in Nat \ {0}
  /\ Word \in Nat \ {0} /\ PageCount \in Nat \ {0}
  /\ SlabHeader < PageSize /\ PageSize * (PageCount + 1) < Word
  /\ ObjSizes \subseteq Nat /\ Alignments \subseteq Nat
  /\ 2 * PageSize < Word
<1>1. /\ PageSize \in Nat \ {0} /\ SlabHeader \in Nat \ {0} /\ LinkSize \in Nat \ {0}
      /\ Word \in Nat \ {0} /\ PageCount \in Nat \ {0}
      /\ SlabHeader < PageSize /\ PageSize * (PageCount + 1) < Word
  BY SlabAssumption
<1>2. ObjSizes \subseteq Nat /\ Alignments \subseteq Nat
  BY <1>1, SlabAssumption
<1>3. 2 * PageSize <= PageSize * (PageCount + 1)
  <2>1. PageSize * (PageCount - 1) >= 0
    BY <1>1
  <2>2. PageSize * (PageCount + 1) = PageSize * (PageCount - 1) + 2 * PageSize
    BY <1>1
  <2>3. PageSize * (PageCount - 1) \in Int
    BY <1>1
  <2>4. QED
    BY <2>1, <2>2, <2>3, <1>1
<1>4. PageSize * (PageCount + 1) \in Nat
  BY <1>1
<1>5. QED
  BY <1>1, <1>2, <1>3, <1>4

LEMMA Least ==
  ASSUME NEW S \in SUBSET Nat, S # {}
  PROVE  \E x \in S : \A y \in S : x <= y
<1> DEFINE lt == OpToRel(<, Nat)
<1>1. \E x \in S : \A y \in S : <<y, x>> \notin lt
  <2>1. IsWellFoundedOn(lt, Nat)
    BY NatLessThanWellFounded
  <2> HIDE DEF lt
  <2>2. QED
    BY <2>1, WFMin
<1>2. \A x, y \in Nat : <<y, x>> \notin lt => x <= y
  BY DEF OpToRel
<1>3. QED
  <2> HIDE DEF lt
  <2>1. QED
    BY <1>1, <1>2

LEMMA Times ==
  ASSUME NEW m \in Nat, NEW n \in Nat, NEW d \in Nat, m <= n
  PROVE  m * d \in Nat /\ n * d \in Nat /\ m * d <= n * d
<1>1. (n - m) * d >= 0 /\ (n - m) * d = n * d - m * d
  OBVIOUS
<1>2. m * d \in Nat /\ n * d \in Nat
  OBVIOUS
<1>3. QED
  BY <1>1, <1>2

LEMMA Multiple ==
  ASSUME NEW x \in Int, NEW d \in Nat \ {0}
  PROVE  x % d = 0 <=> \E q \in Int : x = q * d
<1>1. x % d = x - (x \div d) * d /\ x \div d \in Int
  OBVIOUS
<1>2. ASSUME NEW q \in Int, x = q * d PROVE x % d = 0
  BY <1>2
<1>3. ASSUME x % d = 0 PROVE \E q \in Int : x = q * d
  <2> DEFINE q == x \div d
  <2>1. q \in Int /\ x - q * d = 0
    BY <1>1, <1>3
  <2> HIDE DEF q
  <2>2. q * d \in Int
    BY <2>1
  <2>3. x = q * d
    BY <2>1, <2>2
  <2>4. QED
    BY <2>1, <2>3
<1>4. QED
  BY <1>2, <1>3

LEMMA MultipleSum ==
  ASSUME NEW x \in Int, NEW y \in Int, NEW d \in Nat \ {0}, x % d = 0, y % d = 0
  PROVE  (x + y) % d = 0 /\ (x - y) % d = 0
<1>1. PICK q \in Int : x = q * d
  BY Multiple
<1>2. PICK r \in Int : y = r * d
  BY Multiple
<1>3. /\ x + y = (q + r) * d /\ q + r \in Int /\ x + y \in Int
      /\ x - y = (q - r) * d /\ q - r \in Int /\ x - y \in Int
  BY <1>1, <1>2
<1>4. QED
  BY <1>3, Multiple

LEMMA MultipleOfMultiple ==
  ASSUME NEW x \in Int, NEW y \in Nat \ {0}, NEW d \in Nat \ {0}, x % y = 0, y % d = 0
  PROVE  x % d = 0
<1>1. PICK q \in Int : x = q * y
  BY Multiple
<1>2. PICK r \in Int : y = r * d
  BY Multiple
<1>3. x = (q * r) * d /\ q * r \in Int
  <2>1. q * (r * d) = (q * r) * d
    OBVIOUS
  <2>2. QED
    BY <2>1, <1>1, <1>2
<1>4. QED
  BY <1>3, Multiple

(* A positive multiple is at least the divisor.                            *)
LEMMA AtLeastOne ==
  ASSUME NEW x \in Nat \ {0}, NEW d \in Nat \ {0}, x % d = 0
  PROVE  d <= x
<1>1. PICK q \in Int : x = q * d
  <2>1. x \in Int
    OBVIOUS
  <2>2. QED
    BY <2>1, Multiple
<1>2. q >= 1
  <2>1. SUFFICES ASSUME q <= 0 PROVE FALSE
    OBVIOUS
  <2>2. (0 - q) * d >= 0 /\ (0 - q) * d = 0 - q * d
    BY <2>1
  <2>3. q * d \in Int
    OBVIOUS
  <2>4. QED
    BY <2>2, <2>3, <1>1
<1>3. (q - 1) * d >= 0 /\ (q - 1) * d = q * d - d
  BY <1>2
<1>4. q * d \in Int
  OBVIOUS
<1>5. QED
  BY <1>1, <1>3, <1>4

LEMMA Remainder ==
  ASSUME NEW q \in Int, NEW d \in Nat \ {0}, NEW r \in 0 .. (d - 1)
  PROVE  (q * d + r) \div d = q /\ (q * d + r) % d = r
<1> DEFINE x == q * d + r
           k == x \div d
           s == x % d
<1>1. q * d \in Int
  OBVIOUS
<1>2. x \in Int
  BY <1>1
<1> HIDE DEF x
<1>3. s \in 0 .. (d - 1) /\ k \in Int /\ x = k * d + s
  BY <1>2
<1> HIDE DEF k, s
<1>4. (k - q) * d = r - s
  <2>1. k * d \in Int /\ (k - q) * d = k * d - q * d
    BY <1>3
  <2>2. k * d + s = q * d + r
    BY <1>3 DEF x
  <2>3. QED
    BY <2>1, <2>2, <1>1, <1>3
<1>5. k = q
  <2>1. CASE k > q
    <3>1. (k - q - 1) * d >= 0 /\ (k - q - 1) * d = (k - q) * d - d
      BY <2>1, <1>3
    <3>2. QED
      BY <3>1, <1>3, <1>4
  <2>2. CASE k < q
    <3>1. (q - k - 1) * d >= 0 /\ (q - k - 1) * d = 0 - (k - q) * d - d
      BY <2>2, <1>3
    <3>2. QED
      BY <3>1, <1>3, <1>4
  <2>3. QED
    BY <2>1, <2>2, <1>3
<1>6. s = r
  <2>1. (k - q) * d = 0
    BY <1>5
  <2>2. QED
    BY <2>1, <1>3, <1>4
<1>7. k = q /\ s = r
  BY <1>5, <1>6
<1>8. QED
  BY <1>7 DEF k, s, x

LEMMA RoundUpType ==
  ASSUME NEW x \in Nat, NEW a \in Nat \ {0}
  PROVE  RoundUp(x, a) \in Nat
<1> DEFINE s == (x + a - 1) % Word
<1>1. s \in Nat
  BY Constants
<1> HIDE DEF s
<1>2. s % a \in 0 .. (a - 1) /\ s % a <= s
  <2> DEFINE k == s \div a
             r == s % a
  <2>1. k \in Nat
    BY <1>1
  <2>2. r \in 0 .. (a - 1)
    BY <1>1
  <2>3. s = k * a + r
    BY <1>1
  <2> HIDE DEF k, r
  <2>4. k * a >= 0 /\ k * a \in Int
    BY <2>1
  <2>5. r <= s /\ r \in 0 .. (a - 1)
    BY <2>2, <2>3, <2>4
  <2>6. QED
    BY <2>5 DEF r
<1>3. s - (s % a) \in Nat
  BY <1>1, <1>2
<1>4. QED
  BY <1>3 DEF RoundUp, s

(* Without a wrap, it is the first multiple from x on.                     *)
LEMMA RoundUpFacts ==
  ASSUME NEW x \in Nat, NEW a \in Nat \ {0}, x + a - 1 < Word
  PROVE  /\ x <= RoundUp(x, a) /\ RoundUp(x, a) <= x + a - 1 /\ RoundUp(x, a) % a = 0
         /\ \A y \in Nat : y % a = 0 /\ x <= y /\ y <= x + a - 1 => y = RoundUp(x, a)
<1> DEFINE s == x + a - 1
           r == s % a
           t == RoundUp(x, a)
<1>1. s \in Nat /\ s % Word = s
  BY Constants
<1>2. t = s - r
  BY <1>1 DEF RoundUp
<1>3. r \in 0 .. (a - 1)
  BY <1>1
<1>4. (s - r) % a = 0
  <2> DEFINE k == s \div a
  <2>1. s = k * a + r /\ k \in Int
    BY <1>1
  <2> HIDE DEF k, s, r
  <2>2. k * a \in Int
    BY <2>1
  <2>3. s - r = k * a
    BY <2>1, <2>2, <1>1, <1>3
  <2>4. s - r \in Int
    BY <1>1, <1>3
  <2>5. QED
    BY <2>1, <2>3, <2>4, Multiple
<1>5. t \in Nat
  BY RoundUpType
<1> HIDE DEF t, r
<1>6. x <= t /\ t <= x + a - 1 /\ t % a = 0
  BY <1>2, <1>3, <1>4
<1>7. ASSUME NEW y \in Nat, y % a = 0, x <= y, y <= x + a - 1
      PROVE  y = t
  <2>1. CASE y < t
    <3>1. (t - y) % a = 0
      <4>1. t \in Int /\ y \in Int
        BY <1>5
      <4>2. QED
        BY <4>1, <1>6, <1>7, MultipleSum
    <3>2. t - y \in Nat \ {0}
      BY <2>1, <1>5
    <3>3. a <= t - y
      BY <3>1, <3>2, AtLeastOne
    <3>4. QED
      BY <3>3, <1>5, <1>6, <1>7
  <2>2. CASE t < y
    <3>1. (y - t) % a = 0
      <4>1. t \in Int /\ y \in Int
        BY <1>5
      <4>2. QED
        BY <4>1, <1>6, <1>7, MultipleSum
    <3>2. y - t \in Nat \ {0}
      BY <2>2, <1>5
    <3>3. a <= y - t
      BY <3>1, <3>2, AtLeastOne
    <3>4. QED
      BY <3>3, <1>5, <1>6, <1>7
  <2>3. QED
    BY <2>1, <2>2, <1>5
<1>8. QED
  BY <1>6, <1>7 DEF t

-----------------------------------------------------------------------------
(* The geometry of a page                                                  *)

LEMMA PageFacts ==
  ASSUME NEW p \in Pages
  PROVE  p \in Nat \ {0} /\ p # NULL /\ p % PageSize = 0 /\ p + PageSize < Word
<1>1. PICK i \in 1 .. PageCount : p = PageSize * i
  BY DEF Pages
<1>2. PageSize \in Nat \ {0} /\ i \in Nat \ {0} /\ i <= PageCount /\ PageCount \in Nat
  BY <1>1, Constants
<1>3. 1 * PageSize <= i * PageSize /\ i * PageSize <= PageCount * PageSize
      /\ PageCount * PageSize \in Nat /\ i * PageSize \in Nat
  BY <1>2, Times
<1>4. PageSize * (PageCount + 1) = PageCount * PageSize + PageSize /\ PageSize * i = i * PageSize
  BY <1>2
<1>5. p \in Nat \ {0} /\ p + PageSize < Word
  BY <1>1, <1>2, <1>3, <1>4, Constants
<1>6. p % PageSize = 0
  <2>1. p \in Int /\ p = i * PageSize /\ i \in Int
    BY <1>1, <1>2, <1>4, <1>5
  <2>2. QED
    BY <2>1, <1>2, Multiple
<1>7. QED
  BY <1>5, <1>6 DEF NULL

Start(c) == RoundUp(SlabHeader, c.alignment)

(* Objects start behind the header, as far into every page as into the     *)
(* page at 0 by which create counts the slots.                             *)
LEMMA StartFacts ==
  ASSUME NEW c \in Cache, Geometry(c)
  PROVE  /\ Start(c) \in Nat /\ SlabHeader <= Start(c)
         /\ c.slots * c.obj_size \in Nat /\ Start(c) + c.slots * c.obj_size <= PageSize
         /\ c.slots \in 1 .. (PageSize \div LinkSize) /\ c.obj_size \in Nat \ {0}
         /\ c.slots <= PageSize
         /\ \A p \in Pages : get_payload_start(p, c.alignment) = p + Start(c)
<1> DEFINE a == c.alignment
           h == Start(c)
           size == c.obj_size
           n == c.slots
<1>1. a \in Nat \ {0} /\ PageSize % a = 0 /\ size \in Nat \ {0} /\ n \in Nat \ {0} /\ LinkSize <= size
      /\ h + n * size <= PageSize
  <2>1. a \in Nat /\ a > 0 /\ PageSize % a = 0 /\ LinkSize <= size /\ n > 0 /\ h + n * size <= PageSize
    BY DEF Geometry, Start, Cache
  <2>2. size \in Nat /\ n \in Nat
    BY DEF Cache
  <2>3. a \in Nat \ {0} /\ size \in Nat \ {0} /\ n \in Nat \ {0}
    BY <2>1, <2>2, Constants DEF Cache
  <2>4. QED
    BY <2>1, <2>3
<1> HIDE DEF n, size
<1>2. a <= PageSize
  BY <1>1, AtLeastOne, Constants
<1>3. SlabHeader + a - 1 < Word
  BY <1>1, <1>2, Constants
<1>4. h \in Nat /\ SlabHeader <= h /\ h <= SlabHeader + a - 1 /\ h % a = 0
  BY <1>1, <1>3, RoundUpType, RoundUpFacts, Constants DEF Start
<1> HIDE DEF a, h
<1>5. n * LinkSize <= n * size /\ 1 * size <= n * size /\ n * size \in Nat /\ n * LinkSize \in Nat
      /\ n * 1 <= n * LinkSize
  <2>1. 1 * size <= n * size /\ n * size \in Nat
    BY <1>1, Times
  <2>2. LinkSize * n <= size * n /\ LinkSize * n \in Nat /\ 1 * n <= LinkSize * n
    BY <1>1, Times, Constants
  <2>3. LinkSize * n = n * LinkSize /\ size * n = n * size
    BY <1>1, Constants
  <2>4. QED
    BY <2>1, <2>2, <2>3, <1>1
<1>6. n <= PageSize \div LinkSize
  <2> DEFINE k == PageSize \div LinkSize
             r == PageSize % LinkSize
  <2>1. k \in Nat /\ r \in 0 .. (LinkSize - 1) /\ PageSize = k * LinkSize + r
    BY Constants
  <2>2. n * LinkSize <= PageSize
    BY <1>1, <1>4, <1>5, Constants
  <2> HIDE DEF k, r
  <2>3. SUFFICES ASSUME k < n PROVE FALSE
    BY <2>1, <1>1 DEF k
  <2>4. (k + 1) * LinkSize <= n * LinkSize /\ (k + 1) * LinkSize = k * LinkSize + LinkSize
        /\ k * LinkSize \in Nat
    <3>1. k + 1 \in Nat /\ k + 1 <= n
      BY <2>1, <2>3, <1>1
    <3>2. (k + 1) * LinkSize <= n * LinkSize
      BY <3>1, <1>1, Times, Constants
    <3>3. QED
      BY <3>2, <2>1, Constants
  <2>5. QED
    BY <2>1, <2>2, <2>4, <1>5, Constants
<1>7. n <= PageSize
  <2>1. n <= n * LinkSize /\ n * LinkSize <= n * size /\ n * size <= PageSize
    BY <1>1, <1>4, <1>5, Constants
  <2>2. QED
    BY <2>1, <1>1, <1>5, Constants
<1>8. h + a <= PageSize
  <2>1. h < PageSize
    BY <1>1, <1>4, <1>5, Constants
  <2>2. PageSize - h \in Nat \ {0}
    BY <2>1, <1>4, Constants
  <2>3. (PageSize - h) % a = 0
    <3>1. PageSize \in Int /\ h \in Int
      BY <1>4, Constants
    <3>2. QED
      BY <3>1, <1>1, <1>4, MultipleSum
  <2>4. a <= PageSize - h
    BY <2>2, <2>3, <1>1, AtLeastOne
  <2>5. QED
    BY <2>4, <1>1, <1>4, Constants
<1>9. ASSUME NEW p \in Pages
      PROVE  get_payload_start(p, a) = p + h
  <2>1. p \in Nat /\ p % PageSize = 0 /\ p + PageSize < Word
    BY PageFacts
  <2>2. p % a = 0
    <3>1. p \in Int
      BY <2>1
    <3>2. QED
      BY <3>1, <2>1, <1>1, MultipleOfMultiple, Constants
  <2>3. p + h \in Nat /\ (p + h) % a = 0
    <3>1. p \in Int /\ h \in Int
      BY <2>1, <1>4
    <3>2. (p + h) % a = 0
      BY <3>1, <2>2, <1>1, <1>4, MultipleSum
    <3>3. QED
      BY <3>2, <2>1, <1>4
  <2> DEFINE x == p + SlabHeader
  <2>4. x \in Nat /\ x + a - 1 < Word
    BY <2>1, <1>1, <1>4, <1>8, Constants
  <2>5. x <= p + h /\ p + h <= x + a - 1
    BY <2>1, <1>1, <1>4, Constants
  <2>6. p + h = RoundUp(x, a)
    <3> HIDE DEF x
    <3>1. QED
      BY <2>3, <2>4, <2>5, <1>1, RoundUpFacts
  <2>7. QED
    BY <2>6 DEF get_payload_start
<1>10. QED
  BY <1>1, <1>4, <1>5, <1>6, <1>7, <1>9, Constants DEF a, h, n, size

(* The address of a slot lies in its page and gives back page and slot.    *)
LEMMA SlotFacts ==
  ASSUME cache \in Cache, Geometry(cache), NEW p \in Pages, NEW i \in 0 .. (cache.slots - 1)
  PROVE  /\ Slot(p, i) = p + Start(cache) + i * cache.obj_size /\ i * cache.obj_size \in Nat
         /\ Slot(p, i) \in 1 .. (Word - 1)
         /\ p + SlabHeader <= Slot(p, i) /\ Slot(p, i) + cache.obj_size <= p + PageSize
         /\ PageOf(Slot(p, i)) = p /\ SlotIndex(Slot(p, i)) = i
         /\ Behind(Slot(p, i)) = i * cache.obj_size /\ Behind(Slot(p, i)) % cache.obj_size = 0
         /\ i \in SlotIndices
<1> DEFINE h == Start(cache)
           size == cache.obj_size
           n == cache.slots
           at == Slot(p, i)
<1>1. /\ h \in Nat /\ SlabHeader <= h /\ n * size \in Nat /\ h + n * size <= PageSize
      /\ n \in 1 .. (PageSize \div LinkSize) /\ size \in Nat \ {0}
      /\ \A r \in Pages : get_payload_start(r, cache.alignment) = r + h
  BY StartFacts
<1>2. p \in Nat \ {0} /\ p % PageSize = 0 /\ p + PageSize < Word
  BY PageFacts
<1>3. at = p + h + i * size
  BY <1>1 DEF Slot
<1>4. i \in 0 .. (n - 1) /\ i \in Nat /\ n \in Nat \ {0}
  <2>1. PageSize \div LinkSize \in Nat
    BY Constants
  <2>2. QED
    BY <2>1, <1>1
<1>5. i \in SlotIndices
  <2>1. PageSize \div LinkSize \in Nat
    BY Constants
  <2>2. QED
    BY <2>1, <1>1, <1>4 DEF SlotIndices
<1> HIDE DEF h, size, n
<1>6. i * size \in Nat /\ i * size + size <= n * size
  <2>1. (i + 1) * size <= n * size /\ (i + 1) * size = i * size + size /\ i * size \in Nat
    <3>1. i + 1 \in Nat /\ i + 1 <= n
      BY <1>4
    <3>2. (i + 1) * size <= n * size
      BY <3>1, <1>1, <1>4, Times
    <3>3. QED
      BY <3>2, <1>1, <1>4
  <2>2. QED
    BY <2>1
<1>7. /\ at \in 1 .. (Word - 1) /\ p + SlabHeader <= at /\ at + size <= p + PageSize
  BY <1>1, <1>2, <1>3, <1>6, Constants
<1>8. at % PageSize = at - p
  <2>1. PICK k \in Int : p = k * PageSize
    <3>1. p \in Int
      BY <1>2
    <3>2. QED
      BY <3>1, <1>2, Multiple, Constants
  <2> DEFINE r == h + i * size
  <2>2. r \in 0 .. (PageSize - 1) /\ at = p + r
    BY <1>1, <1>2, <1>3, <1>6, <1>7, Constants
  <2> HIDE DEF r
  <2>3. (k * PageSize + r) % PageSize = r
    BY <2>2, Remainder, Constants
  <2>4. at % PageSize = r
    BY <2>1, <2>2, <2>3
  <2>5. r = at - p
    BY <2>2, <1>2, <1>7, Constants
  <2>6. QED
    BY <2>4, <2>5
<1>9. PageOf(at) = p
  BY <1>2, <1>7, <1>8 DEF PageOf
<1>10. Behind(at) = i * size
  <2>1. Behind(at) = at - (p + h)
    BY <1>1, <1>9 DEF Behind
  <2>2. QED
    BY <2>1, <1>1, <1>2, <1>3, <1>6
<1>11. (i * size) \div size = i /\ (i * size) % size = 0
  <2>1. 0 \in 0 .. (size - 1) /\ i \in Int
    BY <1>1, <1>4
  <2>2. (i * size + 0) \div size = i /\ (i * size + 0) % size = 0
    BY <2>1, <1>1, Remainder
  <2>3. i * size + 0 = i * size
    BY <1>6
  <2>4. QED
    BY <2>2, <2>3
<1>12. SlotIndex(at) = i /\ Behind(at) % size = 0
  BY <1>10, <1>11 DEF SlotIndex, size
<1>13. QED
  BY <1>3, <1>5, <1>6, <1>7, <1>9, <1>10, <1>12 DEF h, size, n

(* So no two slots have the same address.                                  *)
LEMMA SlotsDiffer ==
  ASSUME cache \in Cache, Geometry(cache), NEW p \in Pages, NEW i \in 0 .. (cache.slots - 1),
         NEW r \in Pages, NEW j \in 0 .. (cache.slots - 1), Slot(p, i) = Slot(r, j)
  PROVE  p = r /\ i = j
<1>1. PageOf(Slot(p, i)) = p /\ SlotIndex(Slot(p, i)) = i
  BY SlotFacts
<1>2. PageOf(Slot(r, j)) = r /\ SlotIndex(Slot(r, j)) = j
  BY SlotFacts
<1>3. QED
  BY <1>1, <1>2

-----------------------------------------------------------------------------
(* Queues                                                                  *)

Headers == [Pages -> Record]

SameCount(s, t, p) == t[p].free_count = s[p].free_count /\ t[p].next_free_slot = s[p].next_free_slot

NextSet(s, t, r, v) ==
  /\ t \in Headers
  /\ \A p \in Pages : /\ t[p].next = IF p = r THEN v ELSE s[p].next
                      /\ t[p].prev = s[p].prev /\ SameCount(s, t, p)

LEMMA SetNext ==
  ASSUME NEW s \in Headers, NEW r \in Pages, NEW v \in Pages \cup {NULL}
  PROVE  NextSet(s, [s EXCEPT ![r].next = v], r, v)
<1> DEFINE t == [s EXCEPT ![r].next = v]
           e == [s[r] EXCEPT !.next = v]
<1>1. s[r] \in Record
  BY DEF Headers
<1>2. e \in Record /\ e.next = v /\ e.prev = s[r].prev /\ e.free_count = s[r].free_count
      /\ e.next_free_slot = s[r].next_free_slot
  BY <1>1 DEF Record
<1>3. t = [s EXCEPT ![r] = e]
  OBVIOUS
<1> HIDE DEF e, t
<1>4. t \in Headers /\ \A p \in Pages : t[p] = IF p = r THEN e ELSE s[p]
  BY <1>2, <1>3 DEF Headers
<1>5. NextSet(s, t, r, v)
  BY <1>2, <1>4 DEF SameCount, NextSet
<1>6. QED
  BY <1>5 DEF t

PrevSet(s, t, r, v) ==
  /\ t \in Headers
  /\ \A p \in Pages : /\ t[p].prev = IF p = r THEN v ELSE s[p].prev
                      /\ t[p].next = s[p].next /\ SameCount(s, t, p)

LEMMA SetPrev ==
  ASSUME NEW s \in Headers, NEW r \in Pages, NEW v \in Pages \cup {NULL}
  PROVE  PrevSet(s, [s EXCEPT ![r].prev = v], r, v)
<1> DEFINE t == [s EXCEPT ![r].prev = v]
           e == [s[r] EXCEPT !.prev = v]
<1>1. s[r] \in Record
  BY DEF Headers
<1>2. e \in Record /\ e.prev = v /\ e.next = s[r].next /\ e.free_count = s[r].free_count
      /\ e.next_free_slot = s[r].next_free_slot
  BY <1>1 DEF Record
<1>3. t = [s EXCEPT ![r] = e]
  OBVIOUS
<1> HIDE DEF e, t
<1>4. t \in Headers /\ \A p \in Pages : t[p] = IF p = r THEN e ELSE s[p]
  BY <1>2, <1>3 DEF Headers
<1>5. PrevSet(s, t, r, v)
  BY <1>2, <1>4 DEF SameCount, PrevSet
<1>6. QED
  BY <1>5 DEF t

LEMMA NullFacts == NULL \notin Pages
  BY PageFacts DEF NULL

(* A queue without a head has no page: the page of least rank is a head.   *)
LEMMA Headless ==
  ASSUME NEW mem \in SUBSET Pages, NEW s, IsQueue(NULL, mem, s)
  PROVE  mem = {}
<1>1. SUFFICES ASSUME mem # {} PROVE FALSE
  OBVIOUS
<1>2. PICK rank \in [Pages -> Nat] : \A p \in mem : s[p].prev # NULL => rank[s[p].prev] < rank[p]
  BY DEF IsQueue
<1> DEFINE R == {rank[p] : p \in mem}
<1>3. R \in SUBSET Nat /\ R # {}
  BY <1>1, <1>2
<1>4. PICK x \in R : \A y \in R : x <= y
  <2> HIDE DEF R
  <2>1. QED
    BY <1>3, Least
<1>5. PICK p \in mem : x = rank[p]
  BY <1>4
<1>6. p # NULL
  BY NullFacts
<1>7. s[p].prev \in mem /\ rank[s[p].prev] < rank[p]
  BY <1>2, <1>6 DEF IsQueue
<1>8. rank[p] <= rank[s[p].prev]
  BY <1>4, <1>5, <1>7
<1>9. rank[p] \in Nat /\ rank[s[p].prev] \in Nat
  BY <1>2, <1>7
<1>10. QED
  BY <1>7, <1>8, <1>9

(* Links elsewhere do not matter to a queue.                               *)
LEMMA Elsewhere ==
  ASSUME NEW mem \in SUBSET Pages, NEW s, NEW t, NEW head, IsQueue(head, mem, s),
         \A p \in mem : t[p].next = s[p].next /\ t[p].prev = s[p].prev
  PROVE  IsQueue(head, mem, t)
<1>1. ASSUME NEW p \in mem
      PROVE  /\ t[p].next \in mem \cup {NULL} /\ t[p].prev \in mem \cup {NULL}
             /\ (t[p].prev = NULL) = (head = p)
             /\ t[p].next # NULL => t[t[p].next].prev = p
             /\ t[p].prev # NULL => t[t[p].prev].next = p
  BY DEF IsQueue
<1>2. PICK rank \in [Pages -> Nat] : \A p \in mem : s[p].prev # NULL => rank[s[p].prev] < rank[p]
  BY DEF IsQueue
<1>3. \A p \in mem : t[p].prev # NULL => rank[t[p].prev] < rank[p]
  BY <1>2
<1>4. head \in mem \cup {NULL}
  BY DEF IsQueue
<1>5. QED
  BY <1>1, <1>2, <1>3, <1>4 DEF IsQueue

(* new is the pool after a page has joined or left a queue.                *)
Moved(pool, new, mem) == IsPool(new, mem) /\ \A p \in Pages : SameCount(pool.slabs, new.slabs, p)

LEMMA EnqueueKeeps ==
  ASSUME NEW pool, NEW mem, IsPool(pool, mem), NEW q \in Queues, NEW p \in Pages,
         \A r \in Queues : p \notin mem[r]
  PROVE  Moved(pool, enqueue_slab(pool, q, p), [mem EXCEPT ![q] = @ \cup {p}])
<1> DEFINE s == pool.slabs
           old == pool.heads[q]
           linked == [s EXCEPT ![p].next = old, ![p].prev = NULL]
           t == IF old = NULL THEN linked ELSE [linked EXCEPT ![old].prev = p]
           hd == [pool.heads EXCEPT ![q] = p]
           new == enqueue_slab(pool, q, p)
           M == mem[q]
           after == [mem EXCEPT ![q] = @ \cup {p}]
<1>1. new = [heads |-> hd, slabs |-> t]
  BY DEF enqueue_slab
<1>2. /\ s \in Headers /\ pool.heads \in [Queues -> Pages \cup {NULL}]
      /\ mem \in [Queues -> SUBSET Pages]
      /\ \A r, x \in Queues : r # x => mem[r] \cap mem[x] = {}
      /\ \A r \in Queues : IsQueue(pool.heads[r], mem[r], s)
  BY DEF IsPool, Headers
<1>3. IsQueue(old, M, s) /\ M \in SUBSET Pages /\ p \notin M /\ old \in M \cup {NULL}
  BY <1>2 DEF IsQueue
<1>4. old \in Pages \cup {NULL} /\ NULL \notin Pages
  BY <1>3, NullFacts
<1> HIDE DEF s, old, M
<1>5. /\ t \in Headers
      /\ \A r \in Pages : /\ t[r].next = IF r = p THEN old ELSE s[r].next
                          /\ t[r].prev = IF r = p THEN NULL ELSE IF r = old THEN p ELSE s[r].prev
                          /\ SameCount(s, t, r)
  <2> DEFINE u == [s EXCEPT ![p].next = old]
  <2>1. /\ u \in Headers
        /\ \A r \in Pages : /\ u[r].next = IF r = p THEN old ELSE s[r].next
                            /\ u[r].prev = s[r].prev /\ SameCount(s, u, r)
    BY <1>2, <1>4, SetNext DEF NextSet
  <2>2. linked = [u EXCEPT ![p].prev = NULL]
    BY <1>2 DEF Headers, Record
  <2> HIDE DEF u, linked
  <2>3. /\ linked \in Headers
        /\ \A r \in Pages : /\ linked[r].prev = IF r = p THEN NULL ELSE u[r].prev
                            /\ linked[r].next = u[r].next /\ SameCount(u, linked, r)
    <3>1. PrevSet(u, linked, p, NULL)
      <4>1. NULL \in Pages \cup {NULL}
        OBVIOUS
      <4>2. QED
        BY <4>1, <2>1, <2>2, SetPrev
    <3>2. QED
      BY <3>1 DEF PrevSet
  <2>4. CASE old = NULL
    <3>1. t = linked
      BY <2>4
    <3>2. QED
      BY <3>1, <2>1, <2>3, <2>4, <1>4 DEF SameCount
  <2>5. CASE old # NULL
    <3>1. t = [linked EXCEPT ![old].prev = p]
      BY <2>5
    <3> HIDE DEF t
    <3>2. /\ t \in Headers
          /\ \A r \in Pages : /\ t[r].prev = IF r = old THEN p ELSE linked[r].prev
                              /\ t[r].next = linked[r].next /\ SameCount(linked, t, r)
      <4>1. p \in Pages \cup {NULL} /\ old \in Pages
        BY <2>5, <1>4
      <4>2. PrevSet(linked, t, old, p)
        BY <4>1, <3>1, <2>3, SetPrev
      <4>3. QED
        BY <4>2 DEF PrevSet
    <3>3. old # p
      BY <1>3, <2>5
    <3>4. QED
      BY <3>2, <3>3, <2>1, <2>3 DEF SameCount
  <2>6. QED
    BY <2>4, <2>5
<1> HIDE DEF t
<1>6. IsQueue(p, M \cup {p}, t)
  <2>1. PICK rank \in [Pages -> Nat] : \A r \in M : s[r].prev # NULL => rank[s[r].prev] < rank[r]
    BY <1>3 DEF IsQueue
  <2>2. ASSUME NEW r \in M
        PROVE  /\ s[r].next \in M \cup {NULL} /\ s[r].prev \in M \cup {NULL}
               /\ (s[r].prev = NULL) = (old = r)
               /\ s[r].next # NULL => s[s[r].next].prev = r
               /\ s[r].prev # NULL => s[s[r].prev].next = r
    BY <1>3 DEF IsQueue
  <2>3. ASSUME NEW r \in M \cup {p}
        PROVE  /\ t[r].next \in M \cup {p, NULL} /\ t[r].prev \in M \cup {p, NULL}
               /\ (t[r].prev = NULL) = (p = r)
               /\ t[r].next # NULL => t[t[r].next].prev = r
               /\ t[r].prev # NULL => t[t[r].prev].next = r
    <3>1. CASE r = p
      BY <3>1, <1>3, <1>4, <1>5
    <3>2. CASE r # p
      <4>1. r \in M /\ r \in Pages /\ r # NULL
        BY <3>2, <1>3, <1>4
      <4>2. t[r].next = s[r].next /\ t[r].prev = IF r = old THEN p ELSE s[r].prev
        BY <4>1, <3>2, <1>5
      <4>3. t[r].prev # NULL /\ t[r].prev \in M \cup {p}
        BY <4>1, <4>2, <2>2, <1>4
      <4>4. ASSUME t[r].next # NULL PROVE t[t[r].next].prev = r
        <5>1. s[r].next \in M /\ s[r].next \in Pages /\ s[r].next # p
          BY <4>1, <4>2, <4>4, <2>2, <1>3
        <5>2. s[s[r].next].prev = r
          BY <4>1, <4>2, <4>4, <2>2
        <5>3. s[r].next # old
          BY <5>1, <5>2, <4>1, <2>2
        <5>4. QED
          BY <5>1, <5>2, <5>3, <4>2, <1>5
      <4>5. t[t[r].prev].next = r
        <5>1. CASE r = old
          BY <5>1, <4>2, <1>5
        <5>2. CASE r # old
          <6>1. s[r].prev \in M /\ s[r].prev \in Pages /\ s[r].prev # p /\ s[s[r].prev].next = r
            BY <5>2, <4>1, <4>2, <2>2, <1>3
          <6>2. QED
            BY <6>1, <5>2, <4>2, <1>5
        <5>3. QED
          BY <5>1, <5>2
      <4>6. QED
        BY <4>1, <4>2, <4>3, <4>4, <4>5, <3>2, <2>2
    <3>3. QED
      BY <3>1, <3>2
  <2>4. \E new_rank \in [Pages -> Nat] :
           \A r \in M \cup {p} : t[r].prev # NULL => new_rank[t[r].prev] < new_rank[r]
    <3> DEFINE nr == [r \in Pages |-> IF r = p THEN 0 ELSE rank[r] + 1]
    <3>1. nr \in [Pages -> Nat]
      BY <2>1
    <3>2. ASSUME NEW r \in M \cup {p}, t[r].prev # NULL PROVE nr[t[r].prev] < nr[r]
      <4>1. r # p /\ r \in M /\ r \in Pages
        BY <3>2, <1>3, <1>5
      <4>2. CASE r = old
        <5>1. t[r].prev = p
          BY <4>1, <4>2, <1>5
        <5>2. rank[r] \in Nat
          BY <4>1, <2>1
        <5>3. QED
          BY <5>1, <5>2, <4>1
      <4>3. CASE r # old
        <5>1. t[r].prev = s[r].prev /\ s[r].prev \in M /\ s[r].prev \in Pages /\ s[r].prev # p
          BY <4>1, <4>3, <3>2, <2>2, <1>3, <1>5
        <5>2. rank[s[r].prev] < rank[r] /\ rank[s[r].prev] \in Nat /\ rank[r] \in Nat
          BY <5>1, <4>1, <3>2, <2>1
        <5>3. QED
          BY <5>1, <5>2, <4>1
      <4>4. QED
        BY <4>2, <4>3
    <3> HIDE DEF nr
    <3>3. QED
      BY <3>1, <3>2
  <2>5. QED
    BY <2>3, <2>4 DEF IsQueue
<1>7. ASSUME NEW r \in Queues, r # q
      PROVE  IsQueue(pool.heads[r], mem[r], t)
  <2>1. mem[r] \cap M = {} /\ mem[r] \in SUBSET Pages
    BY <1>2, <1>7 DEF M
  <2>2. \A x \in mem[r] : x # p /\ x # old /\ x \in Pages
    BY <2>1, <1>3, <1>4
  <2>3. \A x \in mem[r] : t[x].next = s[x].next /\ t[x].prev = s[x].prev
    BY <2>2, <1>5
  <2>4. IsQueue(pool.heads[r], mem[r], s)
    BY <1>2
  <2>5. QED
    BY <2>1, <2>3, <2>4, Elsewhere
<1>8. /\ hd \in [Queues -> Pages \cup {NULL}] /\ hd[q] = p
      /\ \A r \in Queues : r # q => hd[r] = pool.heads[r]
  BY <1>2
<1>9. /\ after \in [Queues -> SUBSET Pages] /\ after[q] = M \cup {p}
      /\ \A r \in Queues : r # q => after[r] = mem[r]
  BY <1>2 DEF M
<1> HIDE DEF hd, after
<1>10. \A r, x \in Queues : r # x => after[r] \cap after[x] = {}
  BY <1>2, <1>9 DEF M
<1>11. \A r \in Queues : IsQueue(hd[r], after[r], t)
  BY <1>6, <1>7, <1>8, <1>9
<1>12. new.heads = hd /\ new.slabs = t /\ new \in [heads : [Queues -> Pages \cup {NULL}], slabs : [Pages -> Record]]
  BY <1>1, <1>5, <1>8 DEF Headers
<1> HIDE DEF new
<1>13. IsPool(new, after)
  BY <1>9, <1>10, <1>11, <1>12 DEF IsPool
<1>14. \A r \in Pages : SameCount(pool.slabs, new.slabs, r)
  BY <1>5, <1>12 DEF s
<1>15. QED
  BY <1>13, <1>14 DEF Moved, new, after

LEMMA DequeueKeeps ==
  ASSUME NEW pool, NEW mem, IsPool(pool, mem), NEW q \in Queues, NEW p \in mem[q]
  PROVE  Moved(pool, dequeue_slab(pool, q, p), [mem EXCEPT ![q] = @ \ {p}])
<1> DEFINE s == pool.slabs
           head == pool.heads[q]
           nx == s[p].next
           pv == s[p].prev
           u == IF pv = NULL THEN s ELSE [s EXCEPT ![pv].next = nx]
           w == IF nx = NULL THEN u ELSE [u EXCEPT ![nx].prev = pv]
           t == [w EXCEPT ![p].next = NULL, ![p].prev = NULL]
           hd == IF pv = NULL /\ pool.heads[q] = p THEN [pool.heads EXCEPT ![q] = nx] ELSE pool.heads
           new == dequeue_slab(pool, q, p)
           M == mem[q]
           after == [mem EXCEPT ![q] = @ \ {p}]
<1>1. new = [heads |-> hd, slabs |-> t]
  BY DEF dequeue_slab
<1>2. /\ s \in Headers /\ pool.heads \in [Queues -> Pages \cup {NULL}]
      /\ mem \in [Queues -> SUBSET Pages]
      /\ \A r, x \in Queues : r # x => mem[r] \cap mem[x] = {}
      /\ \A r \in Queues : IsQueue(pool.heads[r], mem[r], s)
  BY DEF IsPool, Headers
<1>3. IsQueue(head, M, s) /\ M \in SUBSET Pages /\ p \in M /\ p \in Pages /\ head \in M \cup {NULL}
  BY <1>2 DEF IsQueue
<1>4. NULL \notin Pages /\ p # NULL
  BY <1>3, NullFacts
<1>5. PICK rank \in [Pages -> Nat] : \A r \in M : s[r].prev # NULL => rank[s[r].prev] < rank[r]
  BY <1>3 DEF IsQueue
<1> HIDE DEF M, head
<1>6. ASSUME NEW r \in M
      PROVE  /\ s[r].next \in M \cup {NULL} /\ s[r].prev \in M \cup {NULL}
             /\ (s[r].prev = NULL) = (head = r)
             /\ s[r].next # NULL => s[s[r].next].prev = r
             /\ s[r].prev # NULL => s[s[r].prev].next = r
             /\ s[r].next # NULL => rank[r] < rank[s[r].next]
  <2>1. /\ s[r].next \in M \cup {NULL} /\ s[r].prev \in M \cup {NULL}
        /\ (s[r].prev = NULL) = (head = r)
        /\ s[r].next # NULL => s[s[r].next].prev = r
        /\ s[r].prev # NULL => s[s[r].prev].next = r
    BY <1>3 DEF IsQueue
  <2>2. ASSUME s[r].next # NULL PROVE rank[r] < rank[s[r].next]
    <3>1. s[r].next \in M /\ s[s[r].next].prev = r /\ r # NULL
      BY <2>1, <2>2, <1>3, <1>4
    <3>2. QED
      BY <3>1, <1>5
  <2>3. QED
    BY <2>1, <2>2
<1>7. nx \in M \cup {NULL} /\ pv \in M \cup {NULL} /\ nx \in Pages \cup {NULL} /\ pv \in Pages \cup {NULL}
  BY <1>3, <1>6
<1>8. \A r \in M : rank[r] \in Nat
  BY <1>3, <1>5
<1>9. nx # p /\ pv # p /\ (nx = pv => nx = NULL)
  <2>1. nx # NULL => rank[p] < rank[nx] /\ nx \in M
    BY <1>3, <1>6, <1>7
  <2>2. pv # NULL => rank[pv] < rank[p] /\ pv \in M
    BY <1>3, <1>5, <1>7
  <2>3. QED
    BY <2>1, <2>2, <1>3, <1>4, <1>8
<1> HIDE DEF s, nx, pv
<1>10. /\ t \in Headers
       /\ \A r \in Pages :
            /\ t[r].next = IF r = p THEN NULL ELSE IF r = pv THEN nx ELSE s[r].next
            /\ t[r].prev = IF r = p THEN NULL ELSE IF r = nx THEN pv ELSE s[r].prev
            /\ SameCount(s, t, r)
  <2>1. /\ u \in Headers
        /\ \A r \in Pages : /\ u[r].next = IF r = pv THEN nx ELSE s[r].next
                            /\ u[r].prev = s[r].prev /\ SameCount(s, u, r)
    <3>1. CASE pv = NULL
      BY <3>1, <1>2, <1>4 DEF SameCount
    <3>2. CASE pv # NULL
      <4>1. u = [s EXCEPT ![pv].next = nx] /\ pv \in Pages
        BY <3>2, <1>7
      <4> HIDE DEF u
      <4>2. NextSet(s, u, pv, nx)
        BY <4>1, <1>2, <1>7, SetNext
      <4>3. QED
        BY <4>2 DEF NextSet
    <3>3. QED
      BY <3>1, <3>2
  <2> HIDE DEF u
  <2>2. /\ w \in Headers
        /\ \A r \in Pages : /\ w[r].prev = IF r = nx THEN pv ELSE u[r].prev
                            /\ w[r].next = u[r].next /\ SameCount(u, w, r)
    <3>1. CASE nx = NULL
      BY <3>1, <2>1, <1>4 DEF SameCount
    <3>2. CASE nx # NULL
      <4>1. w = [u EXCEPT ![nx].prev = pv] /\ nx \in Pages
        BY <3>2, <1>7
      <4> HIDE DEF w
      <4>2. PrevSet(u, w, nx, pv)
        BY <4>1, <2>1, <1>7, SetPrev
      <4>3. QED
        BY <4>2 DEF PrevSet
    <3>3. QED
      BY <3>1, <3>2
  <2> HIDE DEF w
  <2> DEFINE y == [w EXCEPT ![p].next = NULL]
  <2>3. t = [y EXCEPT ![p].prev = NULL]
    BY <2>2, <1>3 DEF Headers, Record
  <2>4. /\ y \in Headers
        /\ \A r \in Pages : /\ y[r].next = IF r = p THEN NULL ELSE w[r].next
                            /\ y[r].prev = w[r].prev /\ SameCount(w, y, r)
    <3>1. NULL \in Pages \cup {NULL}
      OBVIOUS
    <3>2. NextSet(w, y, p, NULL)
      BY <3>1, <2>2, <1>3, SetNext
    <3>3. QED
      BY <3>2 DEF NextSet
  <2> HIDE DEF y, t
  <2>5. /\ t \in Headers
        /\ \A r \in Pages : /\ t[r].prev = IF r = p THEN NULL ELSE y[r].prev
                            /\ t[r].next = y[r].next /\ SameCount(y, t, r)
    <3>1. NULL \in Pages \cup {NULL}
      OBVIOUS
    <3>2. PrevSet(y, t, p, NULL)
      BY <3>1, <2>3, <2>4, <1>3, SetPrev
    <3>3. QED
      BY <3>2 DEF PrevSet
  <2>6. QED
    BY <2>1, <2>2, <2>4, <2>5 DEF SameCount
<1> HIDE DEF t
<1> DEFINE top == IF head = p THEN nx ELSE head
<1>11. IsQueue(top, M \ {p}, t)
  <2>1. nx = s[p].next /\ pv = s[p].prev /\ ((pv = NULL) = (head = p))
    BY <1>3, <1>6 DEF nx, pv
  <2>2. top \in (M \ {p}) \cup {NULL}
    BY <1>3, <1>7, <1>9
  <2>3. ASSUME NEW r \in M \ {p}
        PROVE  /\ t[r].next \in (M \ {p}) \cup {NULL} /\ t[r].prev \in (M \ {p}) \cup {NULL}
               /\ (t[r].prev = NULL) = (top = r)
               /\ t[r].next # NULL => t[t[r].next].prev = r
               /\ t[r].prev # NULL => t[t[r].prev].next = r
               /\ t[r].prev # NULL => rank[t[r].prev] < rank[r]
    <3>1. r \in M /\ r \in Pages /\ r # p /\ r # NULL
      BY <1>3, <1>4
    <3>2. /\ t[r].next = IF r = pv THEN nx ELSE s[r].next
          /\ t[r].prev = IF r = nx THEN pv ELSE s[r].prev
      BY <3>1, <1>10
    <3>3. s[r].next = p <=> r = pv
      BY <3>1, <2>1, <1>3, <1>4, <1>6
    <3>4. s[r].prev = p <=> r = nx
      BY <3>1, <2>1, <1>3, <1>4, <1>6
    <3>5. t[r].next \in (M \ {p}) \cup {NULL} /\ t[r].prev \in (M \ {p}) \cup {NULL}
      BY <3>1, <3>2, <3>3, <3>4, <1>6, <1>7, <1>9
    <3>6. (t[r].prev = NULL) = (top = r)
      <4>1. CASE r = nx
        BY <4>1, <3>1, <3>2, <3>4, <2>1, <1>4, <1>6
      <4>2. CASE r # nx
        BY <4>2, <3>1, <3>2, <2>1, <1>6
      <4>3. QED
        BY <4>1, <4>2
    <3>7. ASSUME t[r].next # NULL PROVE t[t[r].next].prev = r
      <4> DEFINE z == t[r].next
      <4>1. z \in M /\ z # p /\ z \in Pages
        BY <3>5, <3>7, <1>3
      <4>2. t[z].prev = IF z = nx THEN pv ELSE s[z].prev
        BY <4>1, <1>10
      <4>3. CASE r = pv
        <5>1. z = nx
          BY <4>3, <3>2
        <5>2. QED
          BY <5>1, <4>2, <4>3
      <4>4. CASE r # pv
        <5>1. z = s[r].next
          BY <4>4, <3>2
        <5>2. s[z].prev = r
          BY <5>1, <3>1, <3>7, <1>6
        <5>3. z # nx
          BY <5>1, <5>2, <3>1, <3>7, <2>1, <1>3, <1>6
        <5>4. QED
          BY <5>2, <5>3, <4>2
      <4>5. QED
        BY <4>3, <4>4
    <3>8. ASSUME t[r].prev # NULL PROVE t[t[r].prev].next = r
      <4> DEFINE z == t[r].prev
      <4>1. z \in M /\ z # p /\ z \in Pages
        BY <3>5, <3>8, <1>3
      <4>2. t[z].next = IF z = pv THEN nx ELSE s[z].next
        BY <4>1, <1>10
      <4>3. CASE r = nx
        <5>1. z = pv
          BY <4>3, <3>2
        <5>2. QED
          BY <5>1, <4>2, <4>3
      <4>4. CASE r # nx
        <5>1. z = s[r].prev
          BY <4>4, <3>2
        <5>2. s[z].next = r
          BY <5>1, <3>1, <3>8, <1>6
        <5>3. z # pv
          BY <5>1, <5>2, <3>1, <3>8, <2>1, <1>3, <1>6
        <5>4. QED
          BY <5>2, <5>3, <4>2
      <4>5. QED
        BY <4>3, <4>4
    <3>9. ASSUME t[r].prev # NULL PROVE rank[t[r].prev] < rank[r]
      <4>1. CASE r = nx
        <5>1. t[r].prev = pv /\ pv # NULL /\ pv \in M
          BY <4>1, <3>2, <3>9, <1>7
        <5>2. rank[pv] < rank[p] /\ rank[p] < rank[r]
          BY <5>1, <4>1, <3>1, <2>1, <1>3, <1>5, <1>6
        <5>3. rank[pv] \in Nat /\ rank[p] \in Nat /\ rank[r] \in Nat
          BY <5>1, <3>1, <1>3, <1>8
        <5>4. QED
          BY <5>1, <5>2, <5>3
      <4>2. CASE r # nx
        BY <4>2, <3>1, <3>2, <3>9, <1>5
      <4>3. QED
        BY <4>1, <4>2
    <3>10. QED
      BY <3>5, <3>6, <3>7, <3>8, <3>9
  <2> HIDE DEF top
  <2>4. \A r \in M \ {p} : t[r].prev # NULL => rank[t[r].prev] < rank[r]
    BY <2>3
  <2>5. \A r \in M \ {p} :
               /\ t[r].next \in (M \ {p}) \cup {NULL} /\ t[r].prev \in (M \ {p}) \cup {NULL}
               /\ (t[r].prev = NULL) = (top = r)
               /\ t[r].next # NULL => t[t[r].next].prev = r
               /\ t[r].prev # NULL => t[t[r].prev].next = r
    BY <2>3
  <2>6. QED
    BY <2>2, <2>4, <2>5, <1>5 DEF IsQueue
<1>12. ASSUME NEW r \in Queues, r # q
       PROVE  IsQueue(pool.heads[r], mem[r], t)
  <2>1. mem[r] \cap M = {} /\ mem[r] \in SUBSET Pages
    BY <1>2, <1>12 DEF M
  <2>2. \A x \in mem[r] : x # p /\ x # nx /\ x # pv /\ x \in Pages
    BY <2>1, <1>3, <1>4, <1>7
  <2>3. \A x \in mem[r] : t[x].next = s[x].next /\ t[x].prev = s[x].prev
    BY <2>2, <1>10
  <2>4. IsQueue(pool.heads[r], mem[r], s)
    BY <1>2
  <2>5. QED
    BY <2>1, <2>3, <2>4, Elsewhere
<1>13. /\ hd \in [Queues -> Pages \cup {NULL}] /\ hd[q] = top
       /\ \A r \in Queues : r # q => hd[r] = pool.heads[r]
  <2>1. (pv = NULL) = (head = p)
    BY <1>3, <1>6 DEF pv
  <2>2. CASE head = p
    BY <2>1, <2>2, <1>2, <1>7 DEF head
  <2>3. CASE head # p
    BY <2>1, <2>3, <1>2, <1>7 DEF head
  <2>4. QED
    BY <2>2, <2>3
<1>14. /\ after \in [Queues -> SUBSET Pages] /\ after[q] = M \ {p}
       /\ \A r \in Queues : r # q => after[r] = mem[r]
  BY <1>2 DEF M
<1> HIDE DEF hd, after, top
<1>15. \A r, x \in Queues : r # x => after[r] \cap after[x] = {}
  BY <1>2, <1>14 DEF M
<1>16. \A r \in Queues : IsQueue(hd[r], after[r], t)
  BY <1>11, <1>12, <1>13, <1>14
<1>17. new.heads = hd /\ new.slabs = t /\ new \in [heads : [Queues -> Pages \cup {NULL}], slabs : [Pages -> Record]]
  BY <1>1, <1>10, <1>13 DEF Headers
<1> HIDE DEF new
<1>18. IsPool(new, after)
  BY <1>14, <1>15, <1>16, <1>17 DEF IsPool
<1>19. \A r \in Pages : SameCount(pool.slabs, new.slabs, r)
  BY <1>10, <1>17 DEF s
<1>20. QED
  BY <1>18, <1>19 DEF Moved, new, after

-----------------------------------------------------------------------------
(* Lists of free slots                                                     *)

(* The slot on top is free, and taking it leaves a list of the others.     *)
LEMMA PopKeeps ==
  ASSUME NEW n \in Nat \ {0}, NEW first, NEW linked, NEW free \in SUBSET SlotIndices,
         DOMAIN linked = SlotIndices, HasFreeList(n, first, linked, free)
  PROVE  /\ first \in free /\ linked[first] \in free \cup {SLAB_LIST_END}
         /\ HasFreeList(n - 1, linked[first], [linked EXCEPT ![first] = DATA], free \ {first})
<1>1. PICK stack \in [1 .. n -> free] : IsFreeList(stack, n, first, linked, free)
  BY DEF HasFreeList
<1> DEFINE top == stack[n]
           less == [k \in 1 .. (n - 1) |-> stack[k]]
           after == [linked EXCEPT ![first] = DATA]
           rest == free \ {first}
<1>2. /\ \A k, m \in 1 .. n : stack[k] = stack[m] => k = m
      /\ \A i \in free : \E k \in 1 .. n : stack[k] = i
      /\ first = top
      /\ \A k \in 1 .. n : linked[stack[k]] = IF k = 1 THEN SLAB_LIST_END ELSE stack[k - 1]
  BY <1>1 DEF IsFreeList
<1>3. n \in 1 .. n /\ first \in free
  BY <1>2
<1>4. \A k \in 1 .. (n - 1) : k \in 1 .. n /\ k # n
  OBVIOUS
<1>5. \A i \in free : i # first => after[i] = linked[i]
  OBVIOUS
<1> HIDE DEF after
<1>6. less \in [1 .. (n - 1) -> rest]
  <2>1. \A k \in 1 .. (n - 1) : stack[k] \in rest
    BY <1>2, <1>3, <1>4
  <2>2. QED
    BY <2>1
<1>7. \A k, m \in 1 .. (n - 1) : less[k] = less[m] => k = m
  BY <1>2, <1>4
<1>8. \A i \in rest : \E k \in 1 .. (n - 1) : less[k] = i
  <2>1. SUFFICES ASSUME NEW i \in rest PROVE \E k \in 1 .. (n - 1) : less[k] = i
    OBVIOUS
  <2>2. PICK k \in 1 .. n : stack[k] = i
    BY <1>2
  <2>3. k # n
    BY <2>2, <1>2
  <2>4. k \in 1 .. (n - 1)
    BY <2>3
  <2>5. QED
    BY <2>2, <2>4
<1>9. linked[first] = IF n - 1 = 0 THEN SLAB_LIST_END ELSE less[n - 1]
  <2>1. linked[first] = IF n = 1 THEN SLAB_LIST_END ELSE stack[n - 1]
    BY <1>2, <1>3
  <2>2. n # 1 => n - 1 \in 1 .. (n - 1)
    OBVIOUS
  <2>3. QED
    BY <2>1, <2>2
<1>10. ASSUME NEW k \in 1 .. (n - 1)
       PROVE  after[less[k]] = IF k = 1 THEN SLAB_LIST_END ELSE less[k - 1]
  <2>1. less[k] = stack[k] /\ stack[k] \in rest
    BY <1>6
  <2>2. after[less[k]] = linked[stack[k]]
    BY <2>1, <1>5
  <2>3. k # 1 => less[k - 1] = stack[k - 1]
    <3>1. k # 1 => k - 1 \in 1 .. (n - 1)
      OBVIOUS
    <3>2. QED
      BY <3>1
  <2>4. QED
    BY <2>2, <2>3, <1>2, <1>4
<1> HIDE DEF less, rest
<1>11. IsFreeList(less, n - 1, linked[first], after, rest)
  BY <1>6, <1>7, <1>8, <1>9, <1>10 DEF IsFreeList
<1>12. HasFreeList(n - 1, linked[first], after, rest)
  BY <1>6, <1>11 DEF HasFreeList
<1>13. linked[first] \in free \cup {SLAB_LIST_END}
  <2>1. n # 1 => n - 1 \in 1 .. n
    OBVIOUS
  <2>2. QED
    BY <2>1, <1>2, <1>3
<1>14. QED
  BY <1>3, <1>12, <1>13 DEF after, rest

(* A slot that was not free goes on top.                                   *)
LEMMA PushKeeps ==
  ASSUME NEW n \in Nat, NEW first, NEW linked, NEW free \in SUBSET SlotIndices,
         DOMAIN linked = SlotIndices, HasFreeList(n, first, linked, free),
         NEW i \in SlotIndices \ free
  PROVE  HasFreeList(n + 1, i, [linked EXCEPT ![i] = first], free \cup {i})
<1>1. PICK stack \in [1 .. n -> free] : IsFreeList(stack, n, first, linked, free)
  BY DEF HasFreeList
<1> DEFINE more == [k \in 1 .. (n + 1) |-> IF k = n + 1 THEN i ELSE stack[k]]
           after == [linked EXCEPT ![i] = first]
           all == free \cup {i}
<1>2. /\ \A k, m \in 1 .. n : stack[k] = stack[m] => k = m
      /\ \A j \in free : \E k \in 1 .. n : stack[k] = j
      /\ first = IF n = 0 THEN SLAB_LIST_END ELSE stack[n]
      /\ \A k \in 1 .. n : linked[stack[k]] = IF k = 1 THEN SLAB_LIST_END ELSE stack[k - 1]
  BY <1>1 DEF IsFreeList
<1>3. \A k \in 1 .. (n + 1) : k # n + 1 => k \in 1 .. n
  OBVIOUS
<1>4. \A k \in 1 .. n : k \in 1 .. (n + 1) /\ k # n + 1 /\ stack[k] \in free /\ stack[k] # i
  OBVIOUS
<1>5. after[i] = first /\ \A j \in free : after[j] = linked[j]
  OBVIOUS
<1> HIDE DEF after
<1>6. more \in [1 .. (n + 1) -> all]
  BY <1>3
<1>7. more[n + 1] = i /\ \A k \in 1 .. n : more[k] = stack[k]
  BY <1>4
<1>8. \A k \in 1 .. (n + 1) : k = n + 1 \/ k \in 1 .. n
  OBVIOUS
<1> HIDE DEF more
<1>9. \A k, m \in 1 .. (n + 1) : more[k] = more[m] => k = m
  BY <1>2, <1>4, <1>7, <1>8
<1>10. \A j \in all : \E k \in 1 .. (n + 1) : more[k] = j
  <2>1. SUFFICES ASSUME NEW j \in all PROVE \E k \in 1 .. (n + 1) : more[k] = j
    OBVIOUS
  <2>2. CASE j = i
    <3>1. n + 1 \in 1 .. (n + 1)
      OBVIOUS
    <3>2. QED
      BY <3>1, <2>2, <1>7
  <2>3. CASE j \in free
    BY <2>3, <1>2, <1>4, <1>7
  <2>4. QED
    BY <2>2, <2>3
<1>11. ASSUME NEW k \in 1 .. (n + 1)
       PROVE  after[more[k]] = IF k = 1 THEN SLAB_LIST_END ELSE more[k - 1]
  <2>1. CASE k = n + 1
    <3>1. after[more[k]] = first
      BY <2>1, <1>5, <1>7
    <3>2. CASE n = 0
      BY <3>1, <3>2, <2>1, <1>2
    <3>3. CASE n # 0
      <4>1. k # 1 /\ k - 1 = n /\ n \in 1 .. n
        BY <2>1, <3>3
      <4>2. QED
        BY <4>1, <3>1, <3>3, <1>2, <1>7
    <3>4. QED
      BY <3>2, <3>3
  <2>2. CASE k \in 1 .. n
    <3>1. after[more[k]] = linked[stack[k]]
      BY <2>2, <1>4, <1>5, <1>7
    <3>2. k # 1 => more[k - 1] = stack[k - 1]
      <4>1. k # 1 => k - 1 \in 1 .. n
        BY <2>2
      <4>2. QED
        BY <4>1, <1>7
    <3>3. QED
      BY <3>1, <3>2, <2>2, <1>2
  <2>3. QED
    BY <2>1, <2>2, <1>8
<1>12. i = IF n + 1 = 0 THEN SLAB_LIST_END ELSE more[n + 1]
  BY <1>7
<1> HIDE DEF all
<1>13. IsFreeList(more, n + 1, i, after, all)
  BY <1>6, <1>9, <1>10, <1>11, <1>12 DEF IsFreeList
<1>14. HasFreeList(n + 1, i, after, all)
  BY <1>6, <1>13 DEF HasFreeList
<1>15. QED
  BY <1>14 DEF after, all

(* A page just mapped has them all, from the first slot on.                *)
LEMMA FreshHas ==
  ASSUME NEW n \in Nat \ {0}, n - 1 \in SlotIndices, NEW linked,
         \A i \in 0 .. (n - 1) : linked[i] = IF i = n - 1 THEN SLAB_LIST_END ELSE i + 1
  PROVE  HasFreeList(n, 0, linked, 0 .. (n - 1))
<1> DEFINE stack == [k \in 1 .. n |-> n - k]
<1>1. stack \in [1 .. n -> 0 .. (n - 1)]
  OBVIOUS
<1>2. \A k, m \in 1 .. n : stack[k] = stack[m] => k = m
  OBVIOUS
<1>3. \A i \in 0 .. (n - 1) : \E k \in 1 .. n : stack[k] = i
  <2>1. \A i \in 0 .. (n - 1) : n - i \in 1 .. n /\ n - (n - i) = i
    OBVIOUS
  <2>2. QED
    BY <2>1
<1>4. 0 = IF n = 0 THEN SLAB_LIST_END ELSE stack[n]
  OBVIOUS
<1>5. ASSUME NEW k \in 1 .. n
      PROVE  linked[stack[k]] = IF k = 1 THEN SLAB_LIST_END ELSE stack[k - 1]
  <2>1. stack[k] = n - k /\ n - k \in 0 .. (n - 1)
    OBVIOUS
  <2>2. linked[stack[k]] = IF n - k = n - 1 THEN SLAB_LIST_END ELSE n - k + 1
    BY <2>1
  <2>3. k # 1 => k - 1 \in 1 .. n
    OBVIOUS
  <2>4. k # 1 => stack[k - 1] = n - (k - 1)
    BY <2>3
  <2>5. (n - k = n - 1) = (k = 1) /\ n - (k - 1) = n - k + 1
    OBVIOUS
  <2>6. QED
    BY <2>2, <2>4, <2>5
<1> HIDE DEF stack
<1>6. IsFreeList(stack, n, 0, linked, 0 .. (n - 1))
  BY <1>1, <1>2, <1>3, <1>4, <1>5 DEF IsFreeList
<1>7. QED
  BY <1>1, <1>6 DEF HasFreeList

(* The list depends on the links of its slots only.                        *)
LEMMA SameFreeList ==
  ASSUME NEW n \in Nat, NEW first, NEW linked, NEW free, HasFreeList(n, first, linked, free),
         NEW other, \A i \in free : other[i] = linked[i]
  PROVE  HasFreeList(n, first, other, free)
<1>1. PICK stack \in [1 .. n -> free] : IsFreeList(stack, n, first, linked, free)
  BY DEF HasFreeList
<1>2. IsFreeList(stack, n, first, other, free)
  <2>1. \A k \in 1 .. n : other[stack[k]] = linked[stack[k]]
    OBVIOUS
  <2>2. QED
    BY <2>1, <1>1 DEF IsFreeList
<1>3. QED
  BY <1>2 DEF HasFreeList

-----------------------------------------------------------------------------
(* A page changes its count, and its queue with it.                        *)

PoolType == [heads : [Queues -> Pages \cup {NULL}], slabs : Headers]

(* In new, p has another count and another top; nothing else changes.      *)
Recounted(pool, new, p, first, count) ==
  /\ new \in PoolType /\ new.heads = pool.heads
  /\ new.slabs[p].free_count = count /\ new.slabs[p].next_free_slot = first
  /\ \A r \in Pages : /\ new.slabs[r].next = pool.slabs[r].next /\ new.slabs[r].prev = pool.slabs[r].prev
                      /\ r # p => SameCount(pool.slabs, new.slabs, r)

LEMMA PoolHasType == \A pool, mem : IsPool(pool, mem) => pool \in PoolType
BY DEF IsPool, PoolType, Headers

LEMMA Recount ==
  ASSUME NEW pool \in PoolType, NEW p \in Pages, NEW first \in Nat \cup {SLAB_LIST_END},
         NEW count \in 0 .. PageSize
  PROVE  Recounted(pool, [pool EXCEPT !.slabs[p].next_free_slot = first, !.slabs[p].free_count = count],
                   p, first, count)
<1> DEFINE s == pool.slabs
           e == [s[p] EXCEPT !.next_free_slot = first, !.free_count = count]
           t == [s EXCEPT ![p] = e]
           new == [pool EXCEPT !.slabs[p].next_free_slot = first, !.slabs[p].free_count = count]
<1>1. s \in Headers /\ s[p] \in Record
  BY DEF PoolType, Headers
<1>2. new = [pool EXCEPT !.slabs = t]
  BY <1>1 DEF PoolType, Headers, Record
<1>3. e \in Record /\ e.next = s[p].next /\ e.prev = s[p].prev /\ e.free_count = count /\ e.next_free_slot = first
  BY <1>1 DEF Record
<1> HIDE DEF e
<1>4. t \in Headers /\ \A r \in Pages : t[r] = IF r = p THEN e ELSE s[r]
  BY <1>1, <1>3 DEF Headers
<1> HIDE DEF t
<1>5. new \in PoolType /\ new.heads = pool.heads /\ new.slabs = t
  BY <1>2, <1>4 DEF PoolType
<1> HIDE DEF new
<1>6. Recounted(pool, new, p, first, count)
  BY <1>3, <1>4, <1>5 DEF Recounted, SameCount, s
<1>7. QED
  BY <1>6 DEF new

LEMMA RecountKeeps ==
  ASSUME NEW pool, NEW mem, IsPool(pool, mem), NEW new, NEW p \in Pages, NEW first, NEW count,
         Recounted(pool, new, p, first, count)
  PROVE  IsPool(new, mem)
<1>1. /\ mem \in [Queues -> SUBSET Pages]
      /\ \A q, r \in Queues : q # r => mem[q] \cap mem[r] = {}
      /\ \A q \in Queues : IsQueue(pool.heads[q], mem[q], pool.slabs)
  BY DEF IsPool
<1>2. /\ new \in PoolType /\ new.heads = pool.heads
      /\ \A r \in Pages : new.slabs[r].next = pool.slabs[r].next /\ new.slabs[r].prev = pool.slabs[r].prev
  BY DEF Recounted
<1>3. ASSUME NEW q \in Queues PROVE IsQueue(new.heads[q], mem[q], new.slabs)
  <2>1. mem[q] \in SUBSET Pages /\ IsQueue(pool.heads[q], mem[q], pool.slabs)
    BY <1>1
  <2>2. \A r \in mem[q] : new.slabs[r].next = pool.slabs[r].next /\ new.slabs[r].prev = pool.slabs[r].prev
    BY <2>1, <1>2
  <2>3. IsQueue(pool.heads[q], mem[q], new.slabs)
    BY <2>1, <2>2, Elsewhere
  <2>4. QED
    BY <2>3, <1>2
<1>4. QED
  BY <1>1, <1>2, <1>3 DEF IsPool, PoolType, Headers

(* p is in queue q and in no other.                                        *)
Placed(mem, p, q) == [x \in Queues |-> IF x = q THEN mem[x] \cup {p} ELSE mem[x] \ {p}]

LEMMA Enqueued ==
  ASSUME NEW pool, NEW mem, IsPool(pool, mem), NEW q \in Queues, NEW p \in Pages,
         \A r \in Queues : p \notin mem[r]
  PROVE  Moved(pool, enqueue_slab(pool, q, p), Placed(mem, p, q))
<1>1. mem \in [Queues -> SUBSET Pages]
  BY DEF IsPool
<1>2. [mem EXCEPT ![q] = @ \cup {p}] = Placed(mem, p, q)
  BY <1>1 DEF Placed
<1>3. QED
  BY <1>2, EnqueueKeeps

LEMMA Staying ==
  ASSUME NEW pool, NEW mem, IsPool(pool, mem), NEW q \in Queues, NEW p \in mem[q]
  PROVE  Moved(pool, pool, Placed(mem, p, q))
<1>1. mem \in [Queues -> SUBSET Pages] /\ \A x, r \in Queues : x # r => mem[x] \cap mem[r] = {}
  BY DEF IsPool
<1>2. mem = Placed(mem, p, q)
  BY <1>1 DEF Placed
<1>3. QED
  BY <1>2 DEF Moved, SameCount

(* What dequeue leaves, with p nowhere.                                    *)
Without(mem, p) == [x \in Queues |-> mem[x] \ {p}]

LEMMA Dequeued ==
  ASSUME NEW pool, NEW mem, IsPool(pool, mem), NEW q \in Queues, NEW p \in mem[q]
  PROVE  Moved(pool, dequeue_slab(pool, q, p), Without(mem, p))
<1>1. mem \in [Queues -> SUBSET Pages] /\ \A x, r \in Queues : x # r => mem[x] \cap mem[r] = {}
  BY DEF IsPool
<1>2. [mem EXCEPT ![q] = @ \ {p}] = Without(mem, p)
  BY <1>1, ZenonT(60) DEF Without
<1>3. QED
  BY <1>2, DequeueKeeps

LEMMA Nowhere ==
  ASSUME NEW mem, NEW p, NEW q
  PROVE  /\ \A r \in Queues : p \notin Without(mem, p)[r]
         /\ Placed(Without(mem, p), p, q) = Placed(mem, p, q)
BY DEF Without, Placed

(* One move after another.                                                 *)
LEMMA MovedTwice ==
  ASSUME NEW a, NEW b, NEW c, NEW mem, NEW more, Moved(a, b, mem), Moved(b, c, more)
  PROVE  Moved(a, c, more)
BY DEF Moved, SameCount

LEMMA QueueNames == "full" \in Queues /\ "partial" \in Queues /\ "empty" \in Queues
BY DEF Queues

LEMMA RouteKeeps ==
  ASSUME NEW pool, NEW mem, IsPool(pool, mem), NEW p \in Pages, NEW fresh \in BOOLEAN,
         fresh => \A x \in Queues : p \notin mem[x],
         ~fresh => p \in mem["partial"]
  PROVE  Moved(pool, Route(pool, p, fresh),
               Placed(mem, p, IF pool.slabs[p].free_count = 0 THEN "full" ELSE "partial"))
<1> DEFINE filled == pool.slabs[p].free_count = 0
           out == dequeue_slab(pool, "partial", p)
<1>1. CASE fresh
  <2>1. Route(pool, p, fresh) = enqueue_slab(pool, IF filled THEN "full" ELSE "partial", p)
    BY <1>1 DEF Route
  <2>2. QED
    BY <2>1, <1>1, Enqueued, QueueNames
<1>2. CASE ~fresh /\ filled
  <2>1. Route(pool, p, fresh) = enqueue_slab(out, "full", p)
    BY <1>2 DEF Route
  <2>2. Moved(pool, out, Without(mem, p))
    BY <1>2, Dequeued, QueueNames
  <2>3. IsPool(out, Without(mem, p))
    BY <2>2 DEF Moved
  <2>4. Moved(out, enqueue_slab(out, "full", p), Placed(Without(mem, p), p, "full"))
    BY <2>3, Enqueued, Nowhere, QueueNames
  <2>5. QED
    BY <2>1, <2>2, <2>4, <1>2, MovedTwice, Nowhere
<1>3. CASE ~fresh /\ ~filled
  <2>1. Route(pool, p, fresh) = pool
    BY <1>3 DEF Route
  <2>2. QED
    BY <2>1, <1>3, Staying, QueueNames
<1>4. QED
  BY <1>1, <1>2, <1>3

(* Leave: a page about to have one more free slot, if its queue changes.   *)
LEMMA LeaveKeeps ==
  ASSUME NEW pool, NEW mem, IsPool(pool, mem), NEW p \in Pages, cache.slots \in Nat \ {0},
         NEW n \in 0 .. (cache.slots - 1), pool.slabs[p].free_count = n, p \in mem[Class(n)]
  PROVE  Moved(pool, Leave(pool, p), IF n = 0 \/ n + 1 = cache.slots THEN Without(mem, p) ELSE mem)
<1>1. Class(n) \in Queues /\ (n = 0 => Class(n) = "full") /\ (n # 0 => Class(n) = "partial")
  BY DEF Class, Queues
<1>2. CASE n = 0
  <2>1. Leave(pool, p) = dequeue_slab(pool, "full", p)
    BY <1>2 DEF Leave
  <2>2. QED
    BY <2>1, <1>1, <1>2, Dequeued, QueueNames
<1>3. CASE n # 0 /\ n + 1 = cache.slots
  <2>1. Leave(pool, p) = dequeue_slab(pool, "partial", p)
    BY <1>3 DEF Leave
  <2>2. QED
    BY <2>1, <1>1, <1>3, Dequeued, QueueNames
<1>4. CASE n # 0 /\ n + 1 # cache.slots
  <2>1. Leave(pool, p) = pool
    BY <1>4 DEF Leave
  <2>2. QED
    BY <2>1, <1>4 DEF Moved, SameCount
<1>5. QED
  BY <1>2, <1>3, <1>4

LEMMA JoinKeeps ==
  ASSUME NEW pool, NEW mem, IsPool(pool, mem), NEW p \in Pages, cache.slots \in Nat \ {0},
         NEW n \in 0 .. (cache.slots - 1), pool.slabs[p].free_count = n + 1,
         n = 0 \/ n + 1 = cache.slots => \A x \in Queues : p \notin mem[x],
         ~ (n = 0 \/ n + 1 = cache.slots) => p \in mem["partial"]
  PROVE  Moved(pool, Join(pool, p), Placed(mem, p, Class(n + 1)))
<1>1. n \in Nat /\ n + 1 # 0
  OBVIOUS
<1>2. CASE n + 1 = cache.slots
  <2>1. Join(pool, p) = enqueue_slab(pool, "empty", p) /\ Class(n + 1) = "empty"
    BY <1>1, <1>2 DEF Join, Class
  <2>2. QED
    BY <2>1, <1>2, Enqueued, QueueNames
<1>3. CASE n + 1 # cache.slots /\ n = 0
  <2>1. Join(pool, p) = enqueue_slab(pool, "partial", p) /\ Class(n + 1) = "partial"
    BY <1>1, <1>3 DEF Join, Class
  <2>2. QED
    BY <2>1, <1>3, Enqueued, QueueNames
<1>4. CASE n + 1 # cache.slots /\ n # 0
  <2>1. Join(pool, p) = pool /\ Class(n + 1) = "partial"
    BY <1>1, <1>4 DEF Join, Class
  <2>2. QED
    BY <2>1, <1>4, Staying, QueueNames
<1>5. QED
  BY <1>2, <1>3, <1>4

-----------------------------------------------------------------------------
(* What every call may use of the invariant.                               *)

LEMMA InitIInv == Init => IInv
<1> SUFFICES ASSUME Init PROVE IInv
  OBVIOUS
<1>1. cache = [is_allocated |-> FALSE, asked |-> 0, obj_size |-> 0, alignment |-> 0, slots |-> 0]
      /\ heads = [q \in Queues |-> NULL] /\ slabs = [p \in Pages |-> NoSlab]
      /\ link = [p \in Pages |-> Unlinked] /\ use = [p \in Pages |-> "none"] /\ lent = {}
  BY DEF Init
<1>2. cache \in Cache /\ ~cache.is_allocated
  BY <1>1 DEF Cache
<1>3. heads \in [Queues -> Pages \cup {NULL}]
  BY <1>1
<1>4. slabs \in [Pages -> Record]
  <2>1. NoSlab \in Record
    BY Constants DEF NoSlab, Record
  <2>2. QED
    BY <2>1, <1>1
<1>5. link \in Links
  <2>1. Unlinked \in [SlotIndices -> Nat \cup {DATA, SLAB_LIST_END}]
    BY DEF Unlinked, SlotIndices
  <2>2. QED
    BY <2>1, <1>1 DEF Links
<1>6. use \in [Pages -> {"none", "cache", "slab", "stranded"}] /\ SlabPages = {}
  BY <1>1 DEF SlabPages
<1>7. QED
  BY <1>1, <1>2, <1>3, <1>4, <1>5, <1>6 DEF IInv

LEMMA FreeSlotsType ==
  ASSUME cache \in Cache, Geometry(cache), NEW p
  PROVE  /\ FreeSlots(p) \in SUBSET (0 .. (cache.slots - 1)) /\ FreeSlots(p) \in SUBSET SlotIndices
         /\ cache.slots \in Nat \ {0} /\ cache.slots <= PageSize
         /\ \A i \in 0 .. (cache.slots - 1) : i \in SlotIndices
<1>1. cache.slots \in 1 .. (PageSize \div LinkSize) /\ cache.slots <= PageSize
  BY StartFacts
<1>2. PageSize \div LinkSize \in Nat
  BY Constants
<1>3. \A i \in 0 .. (cache.slots - 1) : i \in SlotIndices
  BY <1>1, <1>2 DEF SlotIndices
<1>4. FreeSlots(p) \in SUBSET (0 .. (cache.slots - 1))
  BY DEF FreeSlots
<1>5. QED
  BY <1>1, <1>2, <1>3, <1>4

(* The count in a header is the number of free slots.                      *)
LEMMA CountIs ==
  ASSUME NEW n \in Nat, NEW first, NEW linked, NEW free, HasFreeList(n, first, linked, free)
  PROVE  IsFiniteSet(free) /\ Cardinality(free) = n
<1>1. PICK stack \in [1 .. n -> free] : IsFreeList(stack, n, first, linked, free)
  BY DEF HasFreeList
<1>2. stack \in Bijection(1 .. n, free)
  BY <1>1 DEF IsFreeList, Bijection, Injection, Surjection, IsInjective
<1>3. ExistsBijection(1 .. n, free)
  BY <1>2 DEF ExistsBijection
<1>4. Cardinality(free) = n
  BY <1>3, FS_CountingElements
<1>5. IsFiniteSet(free)
  BY <1>3, FS_NatBijection
<1>6. QED
  BY <1>4, <1>5

LEMMA CountBound ==
  ASSUME cache \in Cache, Geometry(cache), NEW p, NEW n \in Nat, NEW first, NEW linked,
         HasFreeList(n, first, linked, FreeSlots(p))
  PROVE  /\ n \in 0 .. cache.slots
         /\ \A i \in 0 .. (cache.slots - 1) : i \notin FreeSlots(p) => n < cache.slots
         /\ n = cache.slots => FreeSlots(p) = 0 .. (cache.slots - 1)
<1> DEFINE all == 0 .. (cache.slots - 1)
<1>1. cache.slots \in Nat \ {0} /\ FreeSlots(p) \in SUBSET all
  BY FreeSlotsType
<1>2. IsFiniteSet(all) /\ Cardinality(all) = cache.slots
  <2>1. 0 \in Int /\ cache.slots - 1 \in Int /\ ~ (0 > cache.slots - 1)
    BY <1>1
  <2>2. Cardinality(all) = cache.slots - 1 - 0 + 1 /\ IsFiniteSet(all)
    BY <2>1, FS_Interval
  <2>3. QED
    BY <2>2, <1>1
<1>3. Cardinality(FreeSlots(p)) = n
  BY CountIs
<1> HIDE DEF all
<1>4. n <= cache.slots /\ (n = cache.slots => FreeSlots(p) = all)
  <2>1. Cardinality(FreeSlots(p)) <= Cardinality(all)
        /\ (Cardinality(FreeSlots(p)) = Cardinality(all) => FreeSlots(p) = all)
    BY <1>1, <1>2, FS_Subset
  <2>2. QED
    BY <2>1, <1>2, <1>3
<1>5. QED
  BY <1>1, <1>4 DEF all

LEMMA SameCache ==
  ASSUME cache' = cache
  PROVE  /\ \A p, i : Slot(p, i)' = Slot(p, i)
         /\ \A p : FreeSlots(p)' = {i \in 0 .. (cache.slots - 1) : Slot(p, i) \notin lent'}
         /\ \A n : Class(n)' = Class(n)
<1>1. \A p, i : Slot(p, i)' = Slot(p, i)
  BY DEF Slot
<1>2. \A p : FreeSlots(p)' = {i \in 0 .. (cache.slots - 1) : Slot(p, i) \notin lent'}
  BY <1>1 DEF FreeSlots
<1>3. QED
  BY <1>1, <1>2 DEF Class

LEMMA MembersAfter ==
  ASSUME cache' = cache, NEW p \in Pages, SlabPages' = SlabPages \cup {p},
         \A r \in SlabPages \ {p} : slabs'[r].free_count = slabs[r].free_count
  PROVE  Members' = Placed(Members, p, Class(slabs'[p].free_count))
<1> DEFINE C(n) == IF n = 0 THEN "full" ELSE IF n = cache.slots THEN "empty" ELSE "partial"
<1>1. \A n : C(n) \in Queues
  BY DEF Queues
<1>2. Members = [q \in Queues |-> {r \in SlabPages : C(slabs[r].free_count) = q}]
  BY DEF Members, Class
<1>3. Members' = [q \in Queues |-> {r \in SlabPages' : C(slabs'[r].free_count) = q}]
  BY DEF Members, Class
<1>4. Class(slabs'[p].free_count) = C(slabs'[p].free_count)
  BY DEF Class
<1> HIDE DEF C
<1> DEFINE here == C(slabs'[p].free_count)
<1>5. ASSUME NEW q \in Queues
      PROVE  {r \in SlabPages' : C(slabs'[r].free_count) = q} =
               IF q = here THEN Members[q] \cup {p} ELSE Members[q] \ {p}
  BY <1>2
<1>6. QED
  BY <1>3, <1>4, <1>5 DEF Placed

(* A call that changes the count of one page, keeps the invariant if that  *)
(* page is in the queue and has the free list of its new count.            *)
LEMMA PageStep ==
  ASSUME IInv, cache.is_allocated, cache' = cache, NEW p \in Pages, SlabPages' = SlabPages \cup {p},
         use' \in [Pages -> {"none", "cache", "slab", "stranded"}], link' \in Links,
         NEW n \in Nat, NEW new, heads' = new.heads, slabs' = new.slabs,
         IsPool(new, Placed(Members, p, Class(n))),
         slabs'[p].free_count = n,
         \A r \in SlabPages \ {p} : /\ SameCount(slabs, slabs', r) /\ link'[r] = link[r]
                                    /\ FreeSlots(r)' = FreeSlots(r),
         HasFreeList(n, slabs'[p].next_free_slot, link'[p], FreeSlots(p)'),
         lent' \subseteq {Slot(r, i) : r \in SlabPages \cup {p}, i \in 0 .. (cache.slots - 1)}
  PROVE  IInv'
<1>1. Members' = Placed(Members, p, Class(n))
  BY MembersAfter DEF SameCount
<1>2. new \in PoolType
  BY PoolHasType
<1>3. Pool' = new
  BY <1>2 DEF Pool, PoolType
<1>4. IsPool(Pool', Members')
  BY <1>1, <1>3
<1>5. heads' \in [Queues -> Pages \cup {NULL}] /\ slabs' \in [Pages -> Record]
  BY <1>2 DEF PoolType, Headers
<1>6. cache' \in Cache /\ Geometry(cache') /\ cache'.is_allocated
  BY DEF IInv
<1>7. ASSUME NEW r \in SlabPages'
      PROVE  HasFreeList(slabs'[r].free_count, slabs'[r].next_free_slot, link'[r], FreeSlots(r)')
  <2>1. CASE r = p
    BY <2>1
  <2>2. CASE r # p
    <3>1. r \in SlabPages \ {p}
      BY <2>2
    <3>2. HasFreeList(slabs[r].free_count, slabs[r].next_free_slot, link[r], FreeSlots(r))
      BY <3>1 DEF IInv
    <3>3. QED
      BY <3>1, <3>2 DEF SameCount
  <2>3. QED
    BY <2>1, <2>2
<1>8. lent' \subseteq {Slot(r, i)' : r \in SlabPages', i \in 0 .. (cache'.slots - 1)}
  BY SameCache
<1>9. QED
  BY <1>4, <1>5, <1>6, <1>7, <1>8 DEF IInv

-----------------------------------------------------------------------------
(* Lending a slot                                                          *)

LEMMA TakeStep ==
  ASSUME IInv, cache.is_allocated, NEW pool, NEW mem, IsPool(pool, mem), NEW links \in Links,
         NEW p \in Pages, NEW fresh \in BOOLEAN, Take(pool, links, p, fresh),
         fresh => \A x \in Queues : p \notin mem[x],
         ~fresh => p \in mem["partial"],
         \A q \in Queues : mem[q] \ {p} = Members[q] \ {p},
         pool.slabs[p].free_count \in 1 .. cache.slots,
         HasFreeList(pool.slabs[p].free_count, pool.slabs[p].next_free_slot, links[p], FreeSlots(p)),
         \A r \in Pages \ {p} : links[r] = link[r] /\ SameCount(slabs, pool.slabs, r),
         use' \in [Pages -> {"none", "cache", "slab", "stranded"}], SlabPages' = SlabPages \cup {p}
  PROVE  IInv' /\ \E i \in FreeSlots(p) : lent' = lent \cup {Slot(p, i)}
<1> DEFINE n == pool.slabs[p].free_count
           i == pool.slabs[p].next_free_slot
           popped == [pool EXCEPT !.slabs[p].next_free_slot = links[p][i], !.slabs[p].free_count = @ - 1]
           routed == Route(popped, p, fresh)
           after == [links[p] EXCEPT ![i] = DATA]
           rest == FreeSlots(p) \ {i}
           last == cache.slots
<1>1. /\ i \in 0 .. (last - 1) /\ heads' = routed.heads /\ slabs' = routed.slabs
      /\ link' = [links EXCEPT ![p][i] = DATA] /\ lent' = lent \cup {Slot(p, i)} /\ cache' = cache
  BY DEF Take
<1>2. cache \in Cache /\ Geometry(cache)
  BY DEF IInv
<1>3. /\ FreeSlots(p) \in SUBSET (0 .. (last - 1)) /\ FreeSlots(p) \in SUBSET SlotIndices
      /\ last \in Nat \ {0} /\ last <= PageSize
      /\ n \in 1 .. last /\ n \in Nat \ {0}
  <2>1. /\ FreeSlots(p) \in SUBSET (0 .. (last - 1)) /\ FreeSlots(p) \in SUBSET SlotIndices
        /\ last \in Nat \ {0} /\ last <= PageSize
    BY <1>2, FreeSlotsType
  <2>2. QED
    BY <2>1
<1>4. links[p] \in [SlotIndices -> Nat \cup {DATA, SLAB_LIST_END}]
  BY DEF Links
<1>5. i \in FreeSlots(p) /\ links[p][i] \in FreeSlots(p) \cup {SLAB_LIST_END}
      /\ HasFreeList(n - 1, links[p][i], after, rest)
  <2> HIDE DEF n, i
  <2>1. n \in Nat \ {0} /\ DOMAIN links[p] = SlotIndices /\ HasFreeList(n, i, links[p], FreeSlots(p))
    BY <1>3, <1>4 DEF n, i
  <2>2. QED
    BY <2>1, <1>3, PopKeeps
<1>6. Recounted(pool, popped, p, links[p][i], n - 1)
  <2>1. pool \in PoolType
    BY PoolHasType
  <2>2. popped = [pool EXCEPT !.slabs[p].next_free_slot = links[p][i], !.slabs[p].free_count = n - 1]
    BY <2>1 DEF PoolType, Headers, Record
  <2>3. links[p][i] \in Nat \cup {SLAB_LIST_END} /\ n - 1 \in 0 .. PageSize
    BY <1>3, <1>5, Constants
  <2> HIDE DEF popped, n, i
  <2>4. QED
    BY <2>1, <2>2, <2>3, Recount
<1> HIDE DEF popped
<1>7. IsPool(popped, mem)
  BY <1>6, RecountKeeps
<1>8. popped.slabs[p].free_count = n - 1 /\ popped.slabs[p].next_free_slot = links[p][i]
      /\ \A r \in Pages \ {p} : SameCount(pool.slabs, popped.slabs, r)
  BY <1>6 DEF Recounted
<1> DEFINE q == IF n - 1 = 0 THEN "full" ELSE "partial"
<1>9. Moved(popped, routed, Placed(mem, p, q))
  BY <1>7, <1>8, RouteKeeps
<1> HIDE DEF routed
<1>10. Class(n - 1) = q
  BY <1>3 DEF Class
<1>11. Placed(mem, p, q) = Placed(Members, p, q)
  <2> HIDE DEF q
  <2>1. \A x \in Queues : mem[x] \ {p} = Members[x] \ {p} /\ mem[x] \cup {p} = Members[x] \cup {p}
    <3>1. SUFFICES ASSUME NEW x \in Queues PROVE mem[x] \cup {p} = Members[x] \cup {p}
      OBVIOUS
    <3>2. mem[x] \ {p} = Members[x] \ {p}
      OBVIOUS
    <3>3. QED
      BY <3>2
  <2>2. QED
    BY <2>1 DEF Placed
<1>12. IsPool(routed, Placed(Members, p, Class(n - 1)))
  BY <1>9, <1>10, <1>11 DEF Moved
<1>13. /\ slabs'[p].free_count = n - 1 /\ slabs'[p].next_free_slot = links[p][i]
       /\ \A r \in SlabPages \ {p} : SameCount(slabs, slabs', r)
  <2>1. \A r \in Pages : SameCount(popped.slabs, slabs', r)
    BY <1>1, <1>9 DEF Moved
  <2>2. slabs'[p].free_count = n - 1 /\ slabs'[p].next_free_slot = links[p][i]
    BY <2>1, <1>8 DEF SameCount
  <2>3. ASSUME NEW r \in SlabPages \ {p} PROVE SameCount(slabs, slabs', r)
    <3>1. r \in Pages \ {p}
      BY DEF SlabPages
    <3>2. SameCount(slabs, pool.slabs, r) /\ SameCount(pool.slabs, popped.slabs, r)
          /\ SameCount(popped.slabs, slabs', r)
      BY <3>1, <2>1, <1>8
    <3>3. QED
      BY <3>2 DEF SameCount
  <2>4. QED
    BY <2>2, <2>3
<1>14. link'[p] = after /\ (\A r \in SlabPages \ {p} : link'[r] = link[r]) /\ link' \in Links
  <2>1. after \in [SlotIndices -> Nat \cup {DATA, SLAB_LIST_END}]
    BY <1>4
  <2>2. link' = [links EXCEPT ![p] = after]
    BY <1>1
  <2> HIDE DEF after
  <2>3. link'[p] = after /\ (\A r \in Pages \ {p} : link'[r] = links[r]) /\ link' \in Links
    BY <2>1, <2>2 DEF Links
  <2>4. \A r \in SlabPages \ {p} : link'[r] = link[r]
    BY <2>3 DEF SlabPages
  <2>5. QED
    BY <2>3, <2>4
<1>15. FreeSlots(p)' = rest /\ \A r \in SlabPages \ {p} : FreeSlots(r)' = FreeSlots(r)
  <2>1. \A r : FreeSlots(r)' = {j \in 0 .. (last - 1) : Slot(r, j) \notin lent'}
    BY <1>1, SameCache
  <2>2. ASSUME NEW r \in Pages, NEW j \in 0 .. (last - 1)
        PROVE  Slot(r, j) \in lent' <=> Slot(r, j) \in lent \/ (r = p /\ j = i)
    <3>1. Slot(r, j) = Slot(p, i) => r = p /\ j = i
      BY <1>1, <1>2, SlotsDiffer
    <3>2. QED
      BY <3>1, <1>1
  <2>3. FreeSlots(p)' = rest
    BY <2>1, <2>2 DEF FreeSlots
  <2>4. ASSUME NEW r \in SlabPages \ {p} PROVE FreeSlots(r)' = FreeSlots(r)
    <3>1. r \in Pages /\ r # p
      BY DEF SlabPages
    <3>2. QED
      BY <3>1, <2>1, <2>2 DEF FreeSlots
  <2>5. QED
    BY <2>3, <2>4
<1>16. lent' \subseteq {Slot(r, j) : r \in SlabPages \cup {p}, j \in 0 .. (last - 1)}
  <2>1. lent \subseteq {Slot(r, j) : r \in SlabPages, j \in 0 .. (last - 1)}
    BY DEF IInv
  <2>2. QED
    BY <2>1, <1>1
<1>17. HasFreeList(n - 1, slabs'[p].next_free_slot, link'[p], FreeSlots(p)')
  BY <1>5, <1>13, <1>14, <1>15
<1>18. IInv'
  <2>1. n - 1 \in Nat
    BY <1>3
  <2>2. \A r \in SlabPages \ {p} : /\ SameCount(slabs, slabs', r) /\ link'[r] = link[r]
                                   /\ FreeSlots(r)' = FreeSlots(r)
    BY <1>13, <1>14, <1>15
  <2>3. slabs'[p].free_count = n - 1 /\ link' \in Links /\ cache' = cache
        /\ heads' = routed.heads /\ slabs' = routed.slabs
    BY <1>1, <1>13, <1>14
  <2> DEFINE m == n - 1
  <2>4. m \in Nat /\ slabs'[p].free_count = m /\ IsPool(routed, Placed(Members, p, Class(m)))
        /\ HasFreeList(m, slabs'[p].next_free_slot, link'[p], FreeSlots(p)')
        /\ lent' \subseteq {Slot(r, j) : r \in SlabPages \cup {p}, j \in 0 .. (cache.slots - 1)}
    BY <2>1, <2>3, <1>12, <1>16, <1>17
  <2> HIDE DEF m, n, last, routed
  <2>5. QED
    BY <2>2, <2>3, <2>4, PageStep
<1>19. QED
  BY <1>1, <1>5, <1>18

(* A page of a queue is one of the cache's, with its free slots in a list. *)
LEMMA MemberFacts ==
  ASSUME IInv, NEW q \in Queues, NEW p \in Members[q]
  PROVE  /\ p \in Pages /\ p \in SlabPages /\ Class(slabs[p].free_count) = q
         /\ slabs[p].free_count \in Nat
         /\ HasFreeList(slabs[p].free_count, slabs[p].next_free_slot, link[p], FreeSlots(p))
<1>1. p \in SlabPages /\ Class(slabs[p].free_count) = q
  BY DEF Members
<1>2. p \in Pages
  BY <1>1 DEF SlabPages
<1>3. slabs[p].free_count \in Nat
  BY <1>2, Constants DEF IInv, Record
<1>4. QED
  BY <1>1, <1>2, <1>3 DEF IInv

LEMMA HeadFacts ==
  ASSUME IInv, cache.is_allocated, NEW q \in Queues
  PROVE  heads[q] # NULL => heads[q] \in Members[q]
<1>1. IsQueue(heads[q], Members[q], slabs)
  BY DEF IInv, IsPool, Pool
<1>2. QED
  BY <1>1 DEF IsQueue

LEMMA AllocPartial ==
  ASSUME IInv, cache.is_allocated, heads["partial"] # NULL,
         Take(Pool, link, heads["partial"], FALSE), UNCHANGED use
  PROVE  IInv' /\ \E p \in SlabPages : \E i \in FreeSlots(p) : lent' = lent \cup {Slot(p, i)}
<1> DEFINE p == heads["partial"]
<1>1. p \in Members["partial"]
  BY HeadFacts, QueueNames
<1>2. /\ p \in Pages /\ p \in SlabPages /\ Class(slabs[p].free_count) = "partial"
      /\ slabs[p].free_count \in Nat
      /\ HasFreeList(slabs[p].free_count, slabs[p].next_free_slot, link[p], FreeSlots(p))
  BY <1>1, MemberFacts, QueueNames
<1> HIDE DEF p
<1>3. slabs[p].free_count \in 1 .. cache.slots
  <2>1. slabs[p].free_count # 0
    BY <1>2 DEF Class
  <2>2. slabs[p].free_count \in 0 .. cache.slots
    BY <1>2, CountBound DEF IInv
  <2>3. QED
    BY <2>1, <2>2
<1>4. IsPool(Pool, Members) /\ link \in Links /\ Pool.slabs = slabs
  BY DEF IInv, Pool
<1>5. SlabPages' = SlabPages \cup {p} /\ use' \in [Pages -> {"none", "cache", "slab", "stranded"}]
  BY <1>2 DEF SlabPages, IInv
<1>6. \A r \in Pages \ {p} : link[r] = link[r] /\ SameCount(slabs, Pool.slabs, r)
  BY <1>4 DEF SameCount
<1>7. Take(Pool, link, p, FALSE)
  BY DEF p
<1>8. IInv' /\ \E i \in FreeSlots(p) : lent' = lent \cup {Slot(p, i)}
  BY <1>1, <1>2, <1>3, <1>4, <1>5, <1>6, <1>7, TakeStep
<1>9. QED
  BY <1>2, <1>8

LEMMA AllocEmpty ==
  ASSUME IInv, cache.is_allocated, heads["empty"] # NULL,
         Take(dequeue_slab(Pool, "empty", heads["empty"]), link, heads["empty"], TRUE), UNCHANGED use
  PROVE  IInv' /\ \E p \in SlabPages : \E i \in FreeSlots(p) : lent' = lent \cup {Slot(p, i)}
<1> DEFINE p == heads["empty"]
           pool == dequeue_slab(Pool, "empty", p)
<1>1. p \in Members["empty"]
  BY HeadFacts, QueueNames
<1>2. /\ p \in Pages /\ p \in SlabPages /\ Class(slabs[p].free_count) = "empty"
      /\ slabs[p].free_count \in Nat
      /\ HasFreeList(slabs[p].free_count, slabs[p].next_free_slot, link[p], FreeSlots(p))
  BY <1>1, MemberFacts, QueueNames
<1>3. IsPool(Pool, Members) /\ link \in Links /\ Pool.slabs = slabs
  BY DEF IInv, Pool
<1>4. Take(pool, link, p, TRUE)
  OBVIOUS
<1> HIDE DEF p
<1>5. slabs[p].free_count \in 1 .. cache.slots
  <2>1. slabs[p].free_count # 0
    BY <1>2 DEF Class
  <2>2. slabs[p].free_count \in 0 .. cache.slots
    BY <1>2, CountBound DEF IInv
  <2>3. QED
    BY <2>1, <2>2
<1>6. Moved(Pool, pool, Without(Members, p))
  BY <1>1, <1>3, Dequeued, QueueNames
<1> HIDE DEF pool
<1>7. IsPool(pool, Without(Members, p)) /\ \A r \in Pages : SameCount(slabs, pool.slabs, r)
  BY <1>3, <1>6 DEF Moved
<1>8. SlabPages' = SlabPages \cup {p} /\ use' \in [Pages -> {"none", "cache", "slab", "stranded"}]
  BY <1>2 DEF SlabPages, IInv
<1>9. \A x \in Queues : p \notin Without(Members, p)[x] /\ Without(Members, p)[x] \ {p} = Members[x] \ {p}
  BY DEF Without
<1>10. pool.slabs[p].free_count = slabs[p].free_count /\ pool.slabs[p].next_free_slot = slabs[p].next_free_slot
  BY <1>2, <1>7 DEF SameCount
<1>11. IInv' /\ \E i \in FreeSlots(p) : lent' = lent \cup {Slot(p, i)}
  <2>1. \A r \in Pages \ {p} : link[r] = link[r] /\ SameCount(slabs, pool.slabs, r)
    BY <1>7
  <2>2. pool.slabs[p].free_count \in 1 .. cache.slots
        /\ HasFreeList(pool.slabs[p].free_count, pool.slabs[p].next_free_slot, link[p], FreeSlots(p))
    BY <1>2, <1>5, <1>10
  <2>3. /\ \A x \in Queues : p \notin Without(Members, p)[x]
        /\ \A x \in Queues : Without(Members, p)[x] \ {p} = Members[x] \ {p}
    BY <1>9
  <2>4. TRUE \in BOOLEAN
    OBVIOUS
  <2> DEFINE mem == Without(Members, p)
  <2>5. IsPool(pool, mem) /\ (\A x \in Queues : p \notin mem[x]) /\ (\A x \in Queues : mem[x] \ {p} = Members[x] \ {p})
    BY <2>3, <1>7
  <2> HIDE DEF mem
  <2>6. QED
    BY <1>2, <1>3, <1>4, <1>8, <2>1, <2>2, <2>4, <2>5, TakeStep, ZenonT(60)
<1>12. QED
  BY <1>2, <1>11

(* No object lies in a page that is not the cache's.                       *)
LEMMA NothingElsewhere ==
  ASSUME IInv, cache.is_allocated, NEW p \in Pages \ SlabPages
  PROVE  FreeSlots(p) = 0 .. (cache.slots - 1) /\ \A q \in Queues : p \notin Members[q]
<1>1. cache \in Cache /\ Geometry(cache)
      /\ lent \subseteq {Slot(r, i) : r \in SlabPages, i \in 0 .. (cache.slots - 1)}
  BY DEF IInv
<1>2. ASSUME NEW i \in 0 .. (cache.slots - 1) PROVE Slot(p, i) \notin lent
  <2>1. SUFFICES ASSUME Slot(p, i) \in lent PROVE FALSE
    OBVIOUS
  <2>2. PICK r \in SlabPages, j \in 0 .. (cache.slots - 1) : Slot(p, i) = Slot(r, j)
    BY <1>1, <2>1
  <2>3. r \in Pages /\ p \in Pages /\ r # p
    BY DEF SlabPages
  <2>4. QED
    BY <2>2, <2>3, <1>1, SlotsDiffer
<1>3. QED
  BY <1>2 DEF FreeSlots, Members

LEMMA AllocNew ==
  ASSUME IInv, cache.is_allocated, NEW p \in Unmapped,
         Take([Pool EXCEPT !.slabs[p] = FreshSlab], [link EXCEPT ![p] = FreshLinks], p, TRUE),
         use' = [use EXCEPT ![p] = "slab"]
  PROVE  IInv' /\ \E i \in 0 .. (cache.slots - 1) : lent' = lent \cup {Slot(p, i)}
<1> DEFINE pool == [Pool EXCEPT !.slabs[p] = FreshSlab]
           links == [link EXCEPT ![p] = FreshLinks]
           last == cache.slots
<1>1. p \in Pages /\ p \notin SlabPages
  BY DEF Unmapped, SlabPages
<1>2. FreeSlots(p) = 0 .. (last - 1) /\ \A q \in Queues : p \notin Members[q]
  BY <1>1, NothingElsewhere
<1>3. /\ last \in Nat \ {0} /\ last <= PageSize /\ (\A i \in 0 .. (last - 1) : i \in SlotIndices)
  BY FreeSlotsType DEF IInv
<1>4. Take(pool, links, p, TRUE)
  OBVIOUS
<1>5. IsPool(Pool, Members) /\ link \in Links /\ Pool.slabs = slabs /\ Pool.heads = heads
      /\ Pool \in PoolType
  BY PoolHasType DEF IInv, Pool
<1>6. FreshSlab \in Record /\ FreshSlab.free_count = last /\ FreshSlab.next_free_slot = 0
  <2>1. NoSlab \in Record
    BY Constants DEF NoSlab, Record
  <2>2. last \in 0 .. PageSize
    BY <1>3, Constants
  <2>3. QED
    BY <2>1, <2>2 DEF FreshSlab, Record
<1>7. pool \in PoolType /\ pool.heads = heads /\ pool.slabs = [slabs EXCEPT ![p] = FreshSlab]
  BY <1>5, <1>6 DEF PoolType, Headers
<1>8. pool.slabs[p] = FreshSlab /\ \A r \in Pages \ {p} : pool.slabs[r] = slabs[r]
  BY <1>1, <1>5, <1>7 DEF PoolType, Headers
<1> HIDE DEF pool
<1>9. IsPool(pool, Members)
  <2>1. ASSUME NEW q \in Queues PROVE IsQueue(pool.heads[q], Members[q], pool.slabs)
    <3>1. IsQueue(heads[q], Members[q], slabs) /\ Members[q] \in SUBSET Pages
      BY <1>5 DEF IsPool
    <3>2. \A r \in Members[q] : r \in Pages \ {p}
      BY <3>1, <1>2
    <3>3. \A r \in Members[q] : pool.slabs[r].next = slabs[r].next /\ pool.slabs[r].prev = slabs[r].prev
      BY <3>2, <1>8
    <3>4. IsQueue(heads[q], Members[q], pool.slabs)
      BY <3>1, <3>3, Elsewhere
    <3>5. QED
      BY <3>4, <1>7
  <2>2. QED
    BY <2>1, <1>5, <1>7 DEF IsPool, PoolType, Headers
<1>10. FreshLinks \in [SlotIndices -> Nat \cup {DATA, SLAB_LIST_END}]
  <2>1. DOMAIN Unlinked = SlotIndices
    BY DEF Unlinked, SlotIndices
  <2>2. \A i \in SlotIndices : i \in Nat
    BY Constants DEF SlotIndices
  <2>3. \A i \in SlotIndices : i + 1 \in Nat
    BY <2>2
  <2>4. QED
    BY <2>1, <2>3 DEF FreshLinks
<1>11. links \in Links /\ links[p] = FreshLinks /\ \A r \in Pages \ {p} : links[r] = link[r]
  BY <1>1, <1>5, <1>10 DEF Links
<1> HIDE DEF links
<1>12. HasFreeList(last, 0, FreshLinks, 0 .. (last - 1))
  <2>1. DOMAIN Unlinked = SlotIndices
    BY DEF Unlinked, SlotIndices
  <2>2. ASSUME NEW i \in 0 .. (last - 1)
        PROVE  FreshLinks[i] = IF i = last - 1 THEN SLAB_LIST_END ELSE i + 1
    <3>1. FreshLinks[i] = IF i < last - 1 THEN i + 1 ELSE IF i = last - 1 THEN SLAB_LIST_END ELSE DATA
      BY <2>1, <1>3 DEF FreshLinks
    <3>2. i < last - 1 \/ i = last - 1
      BY <1>3
    <3>3. QED
      BY <3>1, <3>2, <1>3
  <2>3. last - 1 \in SlotIndices
    BY <1>3
  <2> HIDE DEF last
  <2>4. QED
    BY <2>2, <2>3, <1>3, FreshHas
<1>13. HasFreeList(pool.slabs[p].free_count, pool.slabs[p].next_free_slot, links[p], FreeSlots(p))
  BY <1>2, <1>6, <1>8, <1>11, <1>12
<1>14. pool.slabs[p].free_count \in 1 .. last
  BY <1>3, <1>6, <1>8
<1>15. \A r \in Pages \ {p} : links[r] = link[r] /\ SameCount(slabs, pool.slabs, r)
  BY <1>8, <1>11 DEF SameCount
<1>16. SlabPages' = SlabPages \cup {p} /\ use' \in [Pages -> {"none", "cache", "slab", "stranded"}]
  <2>1. use \in [Pages -> {"none", "cache", "slab", "stranded"}]
    BY DEF IInv
  <2>2. QED
    BY <2>1, <1>1 DEF SlabPages
<1>17. IInv' /\ \E i \in FreeSlots(p) : lent' = lent \cup {Slot(p, i)}
  <2>1. TRUE \in BOOLEAN /\ links \in Links /\ pool.slabs[p].free_count \in 1 .. cache.slots
    BY <1>11, <1>14
  <2>2. \A x \in Queues : p \notin Members[x]
    BY <1>2
  <2>3. \A x \in Queues : Members[x] \ {p} = Members[x] \ {p}
    OBVIOUS
  <2> HIDE DEF last
  <2>4. QED
    BY <1>1, <1>4, <1>9, <1>13, <1>15, <1>16, <2>1, <2>2, <2>3, TakeStep, ZenonT(60)
<1>18. QED
  BY <1>2, <1>17

(* A call that is refused changes nothing.                                 *)
LEMMA RefusedStep ==
  ASSUME IInv, UNCHANGED vars
  PROVE  IInv'
<1>1. /\ cache' = cache /\ heads' = heads /\ slabs' = slabs /\ link' = link /\ use' = use /\ lent' = lent
  BY DEF vars
<1>2. SlabPages' = SlabPages /\ Pool' = Pool
  BY <1>1 DEF SlabPages, Pool
<1>3. Members' = Members
  BY <1>1, <1>2 DEF Members, Class
<1>4. \A p, i : Slot(p, i)' = Slot(p, i)
  BY <1>1, SameCache
<1>5. \A p : FreeSlots(p)' = FreeSlots(p)
  BY <1>1, <1>4 DEF FreeSlots
<1>6. \A p \in SlabPages' : HasFreeList(slabs'[p].free_count, slabs'[p].next_free_slot, link'[p], FreeSlots(p)')
  BY <1>1, <1>2, <1>5 DEF IInv
<1>7. lent' \subseteq {Slot(p, i)' : p \in SlabPages', i \in 0 .. (cache'.slots - 1)}
  BY <1>1, <1>2, <1>4 DEF IInv
<1>8. QED
  BY <1>1, <1>2, <1>3, <1>6, <1>7 DEF IInv

-----------------------------------------------------------------------------
(* Taking a slot back                                                      *)

(* Of what clients pass, only an object is accepted.                       *)
LEMMA OnlyObjects ==
  ASSUME AddressesReturned, IInv, cache.is_allocated, NEW obj \in FreeInputs, obj # NULL,
         ~ (Behind(obj) < 0), ~ (SlotIndex(obj) >= cache.slots)
  PROVE  obj \in lent
<1>1. cache \in Cache /\ Geometry(cache) /\ cache.slots \in Nat
  BY DEF IInv, Cache
<1> DEFINE h == Start(cache)
           size == cache.obj_size
           last == cache.slots
<1>2. /\ h \in Nat /\ SlabHeader <= h /\ last * size \in Nat /\ h + last * size <= PageSize
      /\ size \in Nat \ {0} /\ \A r \in Pages : get_payload_start(r, cache.alignment) = r + h
  BY <1>1, StartFacts
<1>3. ASSUME NEW p \in Pages, NEW r \in 0 .. (PageSize - 1), obj = p + r
      PROVE  Behind(obj) = r - h
  <2>1. p \in Nat /\ p % PageSize = 0
    BY PageFacts
  <2>2. PICK k \in Int : p = k * PageSize
    <3>1. p \in Int
      BY <2>1
    <3>2. QED
      BY <3>1, <2>1, Multiple, Constants
  <2>3. (k * PageSize + r) % PageSize = r
    BY Remainder, Constants
  <2>4. obj % PageSize = r
    BY <2>2, <2>3, <1>3
  <2>5. PageOf(obj) = p
    BY <2>1, <2>4, <1>3, Constants DEF PageOf
  <2>6. Behind(obj) = obj - (p + h)
    BY <2>5, <1>2 DEF Behind
  <2>7. QED
    BY <2>1, <2>6, <1>2, <1>3, Constants
<1>4. CASE obj \in SlabPages
  <2>1. obj \in Pages /\ obj \in Nat
    BY <1>4, PageFacts DEF SlabPages
  <2>2. 0 \in 0 .. (PageSize - 1) /\ obj = obj + 0
    BY <2>1, Constants
  <2>3. Behind(obj) = 0 - h
    BY <2>1, <2>2, <1>3
  <2> HIDE DEF h
  <2>4. QED
    BY <2>3, <1>2, Constants
<1>5. ASSUME NEW p \in SlabPages, Slot(p, last) <= p + PageSize - 1, obj = p + PageSize - 1
      PROVE  FALSE
  <2> DEFINE r == PageSize - 1
  <2>1. p \in Pages /\ p \in Nat
    BY PageFacts DEF SlabPages
  <2>2. r \in 0 .. (PageSize - 1) /\ obj = p + r
    BY <2>1, <1>5, Constants
  <2>3. Behind(obj) = r - h
    <3> HIDE DEF r, h
    <3>1. QED
      BY <2>1, <2>2, <1>3
  <2>4. Slot(p, last) = p + h + last * size
    BY <2>1, <1>2 DEF Slot
  <2> DEFINE b == Behind(obj)
  <2>5. b \in Nat /\ last * size <= b
    <3> HIDE DEF h
    <3>1. QED
      BY <2>1, <2>3, <2>4, <1>2, <1>5, Constants
  <2> HIDE DEF b
  <2> DEFINE k == b \div size
             m == b % size
  <2>6. k \in Int /\ m \in 0 .. (size - 1) /\ b = k * size + m
    <3> HIDE DEF size
    <3>1. k \in Int
      BY <2>5, <1>2
    <3>2. m \in 0 .. (size - 1)
      BY <2>5, <1>2
    <3>3. b = k * size + m
      BY <2>5, <1>2
    <3>4. QED
      BY <3>1, <3>2, <3>3
  <2> HIDE DEF k, m
  <2>7. k >= last
    <3>1. SUFFICES ASSUME k < last PROVE FALSE
      BY <2>6, <1>1
    <3>2. (last - 1 - k) * size >= 0
      BY <3>1, <2>6, <1>1, <1>2
    <3>3. (last - 1 - k) * size = last * size - size - k * size /\ k * size \in Int
      BY <2>6, <1>1, <1>2
    <3>4. QED
      BY <3>2, <3>3, <2>5, <2>6, <1>2
  <2>8. SlotIndex(obj) = k
    BY DEF SlotIndex, k, b
  <2>9. QED
    BY <2>7, <2>8
<1>6. Skews = {0}
  BY DEF AddressesReturned
<1>7. ASSUME NEW l \in lent, obj = l + 0 PROVE obj \in lent
  <2>1. PICK p \in SlabPages, i \in 0 .. (last - 1) : l = Slot(p, i)
    BY DEF IInv
  <2>2. l \in Nat
    BY <2>1, <1>1, SlotFacts, Constants DEF SlabPages
  <2>3. QED
    BY <2>2, <1>7
<1>8. QED
  BY <1>4, <1>5, <1>6, <1>7 DEF FreeInputs

LEMMA FreeStep ==
  ASSUME AddressesReturned, IInv, NEW obj \in FreeInputs, k_slab_free(obj)
  PROVE  IInv' /\ cache' = cache /\ (lent' = lent \/ \E l \in lent : lent' = lent \ {l})
<1> DEFINE p == PageOf(obj)
           i == SlotIndex(obj)
           left == Leave(Pool, p)
           pushed == [left EXCEPT !.slabs[p].next_free_slot = i, !.slabs[p].free_count = @ + 1]
           joined == Join(pushed, p)
           n == slabs[p].free_count
           last == cache.slots
<1>1. CASE UNCHANGED vars
  <2>1. IInv'
    BY <1>1, RefusedStep
  <2>2. QED
    BY <2>1, <1>1 DEF vars
<1>2. CASE ~ UNCHANGED vars
  <2>1. /\ cache.is_allocated /\ obj # NULL /\ ~ (Behind(obj) < 0) /\ ~ (i >= last)
        /\ heads' = joined.heads /\ slabs' = joined.slabs
        /\ link' = Linked(obj, p, i) /\ lent' = lent \ {Slot(p, i)} /\ cache' = cache /\ use' = use
    BY <1>2 DEF k_slab_free, Return
  <2>2. obj \in lent
    BY <2>1, OnlyObjects
  <2>3. cache \in Cache /\ Geometry(cache)
    BY <2>1 DEF IInv
  <2>4. PICK page \in SlabPages, slot \in 0 .. (last - 1) : obj = Slot(page, slot)
    BY <2>2 DEF IInv
  <2>5. page \in Pages
    BY DEF SlabPages
  <2>6. /\ p = page /\ i = slot /\ Behind(obj) % cache.obj_size = 0 /\ i \in SlotIndices
    BY <2>3, <2>4, <2>5, SlotFacts
  <2>7. p \in SlabPages /\ p \in Pages /\ i \in 0 .. (last - 1) /\ obj = Slot(p, i)
    BY <2>4, <2>5, <2>6
  <2> HIDE DEF p, i
  <2>8. /\ n \in Nat /\ HasFreeList(n, slabs[p].next_free_slot, link[p], FreeSlots(p))
        /\ slabs[p] \in Record
    <3>1. slabs[p] \in Record
      BY <2>7 DEF IInv
    <3>2. QED
      BY <3>1, <2>7, Constants DEF IInv, Record
  <2>9. /\ FreeSlots(p) \in SUBSET SlotIndices /\ last \in Nat \ {0} /\ last <= PageSize
    BY <2>3, FreeSlotsType
  <2>10. i \notin FreeSlots(p)
    BY <2>2, <2>7 DEF FreeSlots
  <2>11. n \in 0 .. (last - 1)
    <3>1. n < last
      BY <2>3, <2>7, <2>8, <2>10, CountBound
    <3>2. QED
      BY <3>1, <2>8, <2>9
  <2>12. IsPool(Pool, Members) /\ Pool.slabs = slabs /\ link \in Links
    BY <2>1 DEF IInv, Pool
  <2>13. p \in Members[Class(n)] /\ \A q \in Queues : q # Class(n) => p \notin Members[q]
    <3>1. Class(n) \in Queues
      BY DEF Class, Queues
    <3>2. QED
      BY <3>1, <2>7 DEF Members
  <2> DEFINE moves == n = 0 \/ n + 1 = last
             mem == IF moves THEN Without(Members, p) ELSE Members
  <2>14. Moved(Pool, left, mem)
    BY <2>7, <2>9, <2>11, <2>12, <2>13, LeaveKeeps
  <2> HIDE DEF left
  <2>15. IsPool(left, mem) /\ (\A r \in Pages : SameCount(slabs, left.slabs, r)) /\ left \in PoolType
    BY <2>12, <2>14, PoolHasType DEF Moved
  <2>16. left.slabs[p].free_count = n
    BY <2>7, <2>15 DEF SameCount
  <2>17. Recounted(left, pushed, p, i, n + 1)
    <3>1. pushed = [left EXCEPT !.slabs[p].next_free_slot = i, !.slabs[p].free_count = n + 1]
      BY <2>7, <2>15, <2>16 DEF PoolType, Headers, Record
    <3>2. i \in Nat \cup {SLAB_LIST_END} /\ n + 1 \in 0 .. PageSize
      BY <2>7, <2>9, <2>11, Constants
    <3> HIDE DEF pushed, n
    <3>3. QED
      BY <3>1, <3>2, <2>7, <2>15, Recount
  <2> HIDE DEF pushed
  <2>18. /\ IsPool(pushed, mem) /\ pushed.slabs[p].free_count = n + 1 /\ pushed.slabs[p].next_free_slot = i
         /\ \A r \in Pages \ {p} : SameCount(left.slabs, pushed.slabs, r)
    <3>1. IsPool(pushed, mem)
      <4> HIDE DEF mem, n
      <4>1. QED
        BY <2>7, <2>15, <2>17, RecountKeeps
    <3>2. QED
      BY <3>1, <2>17 DEF Recounted
  <2>19. Moved(pushed, joined, Placed(mem, p, Class(n + 1)))
    <3>1. moves => \A x \in Queues : p \notin mem[x]
      BY Nowhere
    <3>2. ~moves => p \in mem["partial"]
      <4>1. ~moves => Class(n) = "partial"
        BY <2>11, <2>9 DEF Class
      <4>2. QED
        BY <4>1, <2>13
    <3> HIDE DEF mem, n
    <3>3. QED
      BY <3>1, <3>2, <2>7, <2>9, <2>11, <2>18, JoinKeeps
  <2> HIDE DEF joined
  <2>20. Placed(mem, p, Class(n + 1)) = Placed(Members, p, Class(n + 1))
    BY Nowhere
  <2>21. IsPool(joined, Placed(Members, p, Class(n + 1)))
    BY <2>19, <2>20 DEF Moved
  <2>22. /\ slabs'[p].free_count = n + 1 /\ slabs'[p].next_free_slot = i
         /\ \A r \in SlabPages \ {p} : SameCount(slabs, slabs', r)
    <3>1. \A r \in Pages : SameCount(pushed.slabs, slabs', r)
      BY <2>1, <2>19 DEF Moved
    <3>2. slabs'[p].free_count = n + 1 /\ slabs'[p].next_free_slot = i
      BY <3>1, <2>7, <2>18 DEF SameCount
    <3>3. ASSUME NEW r \in SlabPages \ {p} PROVE SameCount(slabs, slabs', r)
      <4>1. r \in Pages \ {p}
        BY DEF SlabPages
      <4>2. SameCount(slabs, left.slabs, r) /\ SameCount(left.slabs, pushed.slabs, r)
            /\ SameCount(pushed.slabs, slabs', r)
        BY <4>1, <3>1, <2>15, <2>18
      <4>3. QED
        BY <4>2 DEF SameCount
    <3>4. QED
      BY <3>2, <3>3
  <2> DEFINE after == [link[p] EXCEPT ![i] = slabs[p].next_free_slot]
  <2>23. link' = [link EXCEPT ![p] = after]
    BY <2>1, <2>6 DEF Linked
  <2>24. link[p] \in [SlotIndices -> Nat \cup {DATA, SLAB_LIST_END}]
    BY <2>7, <2>12 DEF Links
  <2>25. link'[p] = after /\ (\A r \in SlabPages \ {p} : link'[r] = link[r]) /\ link' \in Links
    <3>1. after \in [SlotIndices -> Nat \cup {DATA, SLAB_LIST_END}]
      BY <2>8, <2>24 DEF Record
    <3> HIDE DEF after
    <3>2. link'[p] = after /\ (\A r \in Pages \ {p} : link'[r] = link[r]) /\ link' \in Links
      BY <3>1, <2>7, <2>12, <2>23 DEF Links
    <3>3. QED
      BY <3>2 DEF SlabPages
  <2>26. HasFreeList(n + 1, i, after, FreeSlots(p) \cup {i})
    <3>1. i \in SlotIndices \ FreeSlots(p) /\ DOMAIN link[p] = SlotIndices
      BY <2>6, <2>10, <2>24
    <3> HIDE DEF n
    <3>2. QED
      BY <3>1, <2>8, <2>9, PushKeeps
  <2>27. FreeSlots(p)' = FreeSlots(p) \cup {i} /\ \A r \in SlabPages \ {p} : FreeSlots(r)' = FreeSlots(r)
    <3>1. \A r : FreeSlots(r)' = {j \in 0 .. (last - 1) : Slot(r, j) \notin lent'}
      BY <2>1, SameCache
    <3>2. ASSUME NEW r \in Pages, NEW j \in 0 .. (last - 1)
          PROVE  Slot(r, j) \notin lent' <=> Slot(r, j) \notin lent \/ (r = p /\ j = i)
      <4>1. Slot(r, j) = Slot(p, i) => r = p /\ j = i
        BY <2>3, <2>7, SlotsDiffer
      <4>2. QED
        BY <4>1, <2>1
    <3>3. FreeSlots(p)' = FreeSlots(p) \cup {i}
      BY <3>1, <3>2, <2>7 DEF FreeSlots
    <3>4. ASSUME NEW r \in SlabPages \ {p} PROVE FreeSlots(r)' = FreeSlots(r)
      <4>1. r \in Pages /\ r # p
        BY DEF SlabPages
      <4>2. QED
        BY <4>1, <3>1, <3>2 DEF FreeSlots
    <3>5. QED
      BY <3>3, <3>4
  <2>28. IInv'
    <3> DEFINE m == n + 1
    <3>1. m \in Nat /\ slabs'[p].free_count = m /\ IsPool(joined, Placed(Members, p, Class(m)))
          /\ HasFreeList(m, slabs'[p].next_free_slot, link'[p], FreeSlots(p)')
      BY <2>11, <2>21, <2>22, <2>25, <2>26, <2>27
    <3>2. \A r \in SlabPages \ {p} : /\ SameCount(slabs, slabs', r) /\ link'[r] = link[r]
                                     /\ FreeSlots(r)' = FreeSlots(r)
      BY <2>22, <2>25, <2>27
    <3>3. lent' \subseteq {Slot(r, j) : r \in SlabPages \cup {p}, j \in 0 .. (last - 1)}
      BY <2>1 DEF IInv
    <3>4. SlabPages' = SlabPages \cup {p} /\ use' \in [Pages -> {"none", "cache", "slab", "stranded"}]
      BY <2>1, <2>7 DEF SlabPages, IInv
    <3>5. link' \in Links /\ heads' = joined.heads /\ slabs' = joined.slabs /\ cache' = cache /\ cache.is_allocated
      BY <2>1, <2>25
    <3> HIDE DEF m, n, joined
    <3>6. QED
      BY <3>1, <3>2, <3>3, <3>4, <3>5, <2>7, PageStep
  <2>29. QED
    BY <2>1, <2>2, <2>7, <2>28
<1>3. QED
  BY <1>1, <1>2

-----------------------------------------------------------------------------
(* Walking a queue from its head reaches all of its pages.                 *)

LEMMA PagesCounted == IsFiniteSet(Pages) /\ Cardinality(Pages) <= PageCount
<1> DEFINE f == [i \in 1 .. PageCount |-> PageSize * i]
<1>1. f \in Surjection(1 .. PageCount, Pages)
  BY DEF Pages, Surjection
<1>2. ExistsSurjection(1 .. PageCount, Pages)
  BY <1>1 DEF ExistsSurjection
<1>3. QED
  BY <1>2, FS_NatSurjection, FS_SurjCardinalityBound, Constants

Further(s, near) == near \cup {s[p].next : p \in near \cap Pages}

Reach(head, s, top) ==
  CHOOSE f : f = [n \in 0 .. top |-> IF n = 0 THEN {head} ELSE Further(s, f[n - 1])]

(* The recursive function exists: one that is right up to n extends to one *)
(* that is right up to n + 1.                                              *)
LEMMA ReachDefined ==
  ASSUME NEW head, NEW s, NEW top \in Nat
  PROVE  /\ Reach(head, s, top)[0] = {head}
         /\ \A n \in 1 .. top : Reach(head, s, top)[n] = Further(s, Reach(head, s, top)[n - 1])
<1> DEFINE Right(f, t) == f = [n \in 0 .. t |-> IF n = 0 THEN {head} ELSE Further(s, f[n - 1])]
           Bad == {t \in Nat : ~ \E f : Right(f, t)}
<1>1. Bad = {}
  <2>1. SUFFICES ASSUME Bad # {} PROVE FALSE
    OBVIOUS
  <2>2. Bad \in SUBSET Nat
    OBVIOUS
  <2>3. PICK t \in Bad : \A y \in Bad : t <= y
    <3> HIDE DEF Bad
    <3>1. QED
      BY <2>1, <2>2, Least
  <2> t \in Nat
    BY <2>3
  <2>4. t # 0
    <3>1. Right([n \in 0 .. 0 |-> {head}], 0)
      <4>1. \A n \in 0 .. 0 : n = 0
        OBVIOUS
      <4>2. QED
        BY <4>1
    <3>2. QED
      BY <3>1
  <2>5. PICK g : Right(g, t - 1)
    <3>1. t - 1 \in Nat /\ t - 1 < t
      BY <2>4
    <3>2. t - 1 \notin Bad
      <4>1. ~ (t <= t - 1)
        OBVIOUS
      <4> HIDE DEF Bad
      <4>2. QED
        BY <2>3, <4>1
    <3>3. QED
      BY <3>1, <3>2
  <2> DEFINE f == [n \in 0 .. t |-> IF n = t THEN Further(s, g[t - 1]) ELSE g[n]]
  <2>6. ASSUME NEW n \in 0 .. t
        PROVE  f[n] = IF n = 0 THEN {head} ELSE Further(s, f[n - 1])
    <3>1. CASE n = 0
      BY <3>1, <2>4, <2>5
    <3>2. CASE n # 0
      <4>1. n - 1 \in 0 .. t /\ n - 1 # t /\ n - 1 \in 0 .. (t - 1)
        BY <3>2
      <4>2. f[n - 1] = g[n - 1]
        BY <4>1
      <4>3. CASE n = t
        BY <4>3, <4>2, <3>2
      <4>4. CASE n # t
        <5>1. n \in 0 .. (t - 1)
          BY <4>4
        <5>2. g[n] = Further(s, g[n - 1])
          BY <5>1, <3>2, <2>5, Zenon
        <5>3. f[n] = g[n]
          BY <4>4
        <5>4. QED
          BY <5>2, <5>3, <4>2, <3>2
      <4>5. QED
        BY <4>3, <4>4
    <3>3. QED
      BY <3>1, <3>2
  <2>7. Right(f, t)
    <3>1. f = [n \in 0 .. t |-> f[n]]
      OBVIOUS
    <3> HIDE DEF f
    <3>2. QED
      BY <3>1, <2>6
  <2>8. QED
    <3> HIDE DEF f
    <3>1. QED
      BY <2>7
<1>2. Right(Reach(head, s, top), top)
  <2>1. \E f : Right(f, top)
    BY <1>1
  <2>2. QED
    BY <2>1 DEF Reach
<1> DEFINE r == Reach(head, s, top)
<1>3. r = [n \in 0 .. top |-> IF n = 0 THEN {head} ELSE Further(s, r[n - 1])]
  BY <1>2
<1> HIDE DEF r
<1>4. r[0] = {head}
  <2>1. 0 \in 0 .. top
    OBVIOUS
  <2>2. QED
    BY <2>1, <1>3
<1>5. ASSUME NEW n \in 1 .. top PROVE r[n] = Further(s, r[n - 1])
  <2>1. n \in 0 .. top /\ n # 0
    OBVIOUS
  <2>2. QED
    BY <2>1, <1>3, Zenon
<1>6. QED
  BY <1>4, <1>5 DEF r

(* Each step reaches another page until all are reached: of those missing, *)
(* the predecessor of the one of least rank is not.                        *)
LEMMA ReachAll ==
  ASSUME NEW mem \in SUBSET Pages, NEW s, NEW head, IsQueue(head, mem, s)
  PROVE  Reach(head, s, PageCount)[PageCount] \ {NULL} = mem
<1> DEFINE top == PageCount
           R == Reach(head, s, top)
<1>1. top \in Nat /\ top \in 0 .. top
  BY Constants
<1>2. R[0] = {head} /\ \A n \in 1 .. top : R[n] = Further(s, R[n - 1])
  BY <1>1, ReachDefined
<1> HIDE DEF R
<1>3. PICK rank \in [Pages -> Nat] : \A p \in mem : s[p].prev # NULL => rank[s[p].prev] < rank[p]
  BY DEF IsQueue
<1>4. head \in mem \cup {NULL} /\ NULL \notin Pages
  BY NullFacts DEF IsQueue
<1>5. ASSUME NEW p \in mem
      PROVE  /\ s[p].next \in mem \cup {NULL} /\ s[p].prev \in mem \cup {NULL}
             /\ (s[p].prev = NULL) = (head = p)
             /\ s[p].prev # NULL => s[s[p].prev].next = p
  BY DEF IsQueue
<1> DEFINE Good(n) == /\ R[n] \subseteq mem \cup {NULL} /\ head \in R[n]
                      /\ mem \subseteq R[n] \/ Cardinality(R[n] \cap mem) >= n + 1
           Bad == {n \in 0 .. top : ~ Good(n)}
<1>6. mem # {} => head \in mem
  BY <1>4, Headless
<1>7. \A S \in SUBSET mem : IsFiniteSet(S) /\ Cardinality(S) \in Nat /\ Cardinality(S) <= top
  <2>1. ASSUME NEW S \in SUBSET mem PROVE IsFiniteSet(S) /\ Cardinality(S) \in Nat /\ Cardinality(S) <= top
    <3>1. S \in SUBSET Pages
      OBVIOUS
    <3>2. IsFiniteSet(S) /\ Cardinality(S) <= Cardinality(Pages) /\ Cardinality(Pages) \in Nat
      BY <3>1, PagesCounted, FS_Subset, FS_CardinalityType
    <3>3. Cardinality(S) \in Nat
      BY <3>2, FS_CardinalityType
    <3>4. QED
      BY <3>2, <3>3, PagesCounted, Constants
  <2>2. QED
    BY <2>1
<1>8. Good(0)
  <2>1. R[0] \subseteq mem \cup {NULL} /\ head \in R[0]
    BY <1>2, <1>4
  <2>2. CASE mem = {}
    BY <2>1, <2>2
  <2>3. CASE mem # {}
    <3>1. R[0] \cap mem = {} \cup {head} /\ R[0] \cap mem \in SUBSET mem
      BY <2>3, <1>2, <1>6
    <3>2. Cardinality({head}) = 1
      BY FS_Singleton
    <3>3. QED
      BY <2>1, <3>1, <3>2
  <2>4. QED
    BY <2>2, <2>3
<1>9. ASSUME NEW n \in 1 .. top, Good(n - 1) PROVE Good(n)
  <2> DEFINE was == R[n - 1]
             is == R[n]
  <2>1. is = Further(s, was) /\ was \subseteq mem \cup {NULL} /\ head \in was
        /\ (mem \subseteq was \/ Cardinality(was \cap mem) >= n)
    BY <1>2, <1>9
  <2> HIDE DEF was, is
  <2>2. was \subseteq is /\ is \subseteq mem \cup {NULL} /\ head \in is
    <3>1. \A p \in was \cap Pages : p \in mem
      BY <2>1, <1>4
    <3>2. QED
      BY <3>1, <2>1, <1>5 DEF Further
  <2>3. CASE mem \subseteq was
    BY <2>2, <2>3 DEF is
  <2>4. CASE ~ (mem \subseteq was)
    <3> DEFINE missing == mem \ was
               ranks == {rank[p] : p \in missing}
    <3>1. missing # {} /\ ranks # {} /\ ranks \in SUBSET Nat
      BY <2>4, <1>3
    <3>2. PICK x \in ranks : \A y \in ranks : x <= y
      <4> HIDE DEF ranks
      <4>1. QED
        BY <3>1, Least
    <3>3. PICK p \in missing : x = rank[p]
      BY <3>2
    <3>4. p \in mem /\ p \notin was /\ p \in Pages /\ p # head
      BY <3>3, <2>1
    <3>5. s[p].prev # NULL /\ s[p].prev \in mem /\ s[s[p].prev].next = p /\ rank[s[p].prev] < rank[p]
      BY <3>4, <1>3, <1>5
    <3>6. s[p].prev \in was
      <4>1. SUFFICES ASSUME s[p].prev \in missing PROVE FALSE
        BY <3>5
      <4>2. rank[p] <= rank[s[p].prev]
        BY <4>1, <3>2, <3>3
      <4>3. rank[p] \in Nat /\ rank[s[p].prev] \in Nat
        BY <3>4, <3>5, <1>3
      <4>4. QED
        BY <4>2, <4>3, <3>5
    <3>7. p \in is
      <4>1. s[p].prev \in was \cap Pages
        BY <3>5, <3>6
      <4>2. QED
        BY <4>1, <3>5, <2>1 DEF Further
    <3>8. (was \cap mem) \cup {p} \in SUBSET (is \cap mem) /\ p \notin was \cap mem
          /\ was \cap mem \in SUBSET mem /\ is \cap mem \in SUBSET mem
      BY <3>4, <3>7, <2>2
    <3> DEFINE before == was \cap mem
               after == is \cap mem
    <3>9. IsFiniteSet(before) /\ IsFiniteSet(after) /\ Cardinality(before) \in Nat /\ Cardinality(after) \in Nat
      BY <3>8, <1>7
    <3>10. before \cup {p} \in SUBSET after /\ p \notin before /\ Cardinality(before) >= n
      BY <3>8, <2>1, <2>4
    <3>11. is = R[n]
      BY DEF is
    <3> HIDE DEF before
    <3>12. Cardinality(before \cup {p}) = Cardinality(before) + 1
      BY <3>9, <3>10, FS_AddElement
    <3>13. Cardinality(before \cup {p}) <= Cardinality(after)
      <4> HIDE DEF after
      <4>1. QED
        BY <3>9, <3>10, FS_Subset
    <3>14. Cardinality(after) >= n + 1
      BY <3>9, <3>10, <3>12, <3>13
    <3>15. QED
      BY <3>11, <3>14, <2>2
  <2>5. QED
    BY <2>3, <2>4
<1>10. Bad = {}
  <2>1. SUFFICES ASSUME Bad # {} PROVE FALSE
    OBVIOUS
  <2>2. Bad \in SUBSET Nat
    BY <1>1
  <2>3. PICK n \in Bad : \A y \in Bad : n <= y
    <3> HIDE DEF Bad
    <3>1. QED
      BY <2>1, <2>2, Least
  <2>4. n \in 0 .. top /\ ~ Good(n)
    BY <2>3
  <2>5. n # 0
    BY <2>4, <1>8
  <2>6. n \in 1 .. top /\ n - 1 \in 0 .. top /\ ~ (n <= n - 1)
    BY <2>4, <2>5, <1>1
  <2>7. n - 1 \notin Bad
    <3> HIDE DEF Bad
    <3>1. QED
      BY <2>3, <2>6
  <2>8. Good(n - 1)
    BY <2>6, <2>7
  <2> HIDE DEF Good
  <2>9. QED
    BY <2>4, <2>6, <2>8, <1>9
<1>11. Good(top)
  <2> HIDE DEF Good
  <2>1. QED
    BY <1>1, <1>10
<1>12. mem \subseteq R[top]
  <2>1. R[top] \cap mem \in SUBSET mem
    OBVIOUS
  <2>2. Cardinality(R[top] \cap mem) \in Nat /\ Cardinality(R[top] \cap mem) <= top
    BY <2>1, <1>7
  <2>3. ~ (Cardinality(R[top] \cap mem) >= top + 1)
    BY <2>2, <1>1
  <2>4. QED
    BY <2>3, <1>11
<1>13. R[top] \ {NULL} = mem
  BY <1>4, <1>11, <1>12
<1>14. QED
  BY <1>13 DEF R

LEMMA QueueIs ==
  ASSUME IInv, cache.is_allocated, NEW q \in Queues
  PROVE  Queue(q) = Members[q]
<1>1. Queue(q) = Reach(heads[q], slabs, PageCount)[PageCount] \ {NULL}
  BY DEF Queue, Reach, Further
<1>2. IsQueue(heads[q], Members[q], slabs) /\ Members[q] \in SUBSET Pages
  BY DEF IInv, IsPool, Pool
<1>3. QED
  BY <1>1, <1>2, ReachAll

-----------------------------------------------------------------------------
(* Creating, shrinking and destroying a cache                              *)

LEMMA RoomFacts ==
  ASSUME NEW a \in Nat \ {0}, PageSize % a = 0
  PROVE  /\ RoundUp(SlabHeader, a) \in Nat /\ Room(a) = PageSize - RoundUp(SlabHeader, a) /\ Room(a) \in Nat
<1> DEFINE h == RoundUp(SlabHeader, a)
<1>1. a <= PageSize
  BY AtLeastOne, Constants
<1>2. SlabHeader + a - 1 < Word
  BY <1>1, Constants
<1>3. h \in Nat /\ h <= SlabHeader + a - 1 /\ h % a = 0
  BY <1>2, RoundUpType, RoundUpFacts, Constants
<1> HIDE DEF h
<1>4. h <= PageSize
  <2>1. SUFFICES ASSUME PageSize < h PROVE FALSE
    BY <1>3, Constants
  <2>2. h - PageSize \in Nat \ {0} /\ (h - PageSize) % a = 0
    <3>1. h \in Int /\ PageSize \in Int
      BY <1>3, Constants
    <3>2. (h - PageSize) % a = 0
      BY <3>1, <1>3, MultipleSum
    <3>3. QED
      BY <3>2, <2>1, <1>3, Constants
  <2>3. a <= h - PageSize
    BY <2>2, AtLeastOne
  <2>4. QED
    BY <2>3, <1>3, Constants
<1>5. PageSize - h \in 0 .. (Word - 1)
  BY <1>3, <1>4, Constants
<1>6. (PageSize - h) % Word = PageSize - h
  BY <1>5, Constants
<1>7. Room(a) = (PageSize - h) % Word
  BY DEF Room, h
<1>8. QED
  BY <1>3, <1>5, <1>6, <1>7 DEF h

(* What create writes into the descriptor.                                 *)
NewCache(size, a) ==
  [is_allocated |-> TRUE, asked |-> size, obj_size |-> ObjectSize(size, a), alignment |-> a,
   slots |-> Room(a) \div ObjectSize(size, a)]

LEMMA NewCacheFacts ==
  ASSUME AlignmentsDividePages, NEW size \in ObjSizes, NEW a \in Alignments, PowerOfTwo(a),
         ObjectSize(size, a) <= Room(a)
  PROVE  NewCache(size, a) \in Cache /\ Geometry(NewCache(size, a))
<1> DEFINE h == RoundUp(SlabHeader, a)
           obj == ObjectSize(size, a)
           room == Room(a)
           k == room \div obj
           m == room % obj
           c == NewCache(size, a)
<1>1. a \in Nat \ {0} /\ PageSize % a = 0 /\ size \in Nat
  BY Constants DEF AlignmentsDividePages, PowerOfTwo
<1>2. h \in Nat /\ room = PageSize - h /\ room \in Nat
  BY <1>1, RoomFacts
<1>3. obj \in Nat \ {0} /\ LinkSize <= obj
  BY <1>1, RoundUpType, Constants DEF ObjectSize
<1>4. NoRequestWraps => size <= obj
  <2>1. SUFFICES ASSUME NoRequestWraps PROVE size <= obj
    OBVIOUS
  <2>2. size + a <= Word
    BY <2>1 DEF NoRequestWraps
  <2>3. size + a - 1 < Word
    BY <2>2, <1>1, Constants
  <2>4. size <= RoundUp(size, a) /\ RoundUp(size, a) \in Nat
    BY <2>3, <1>1, RoundUpFacts, RoundUpType
  <2>5. QED
    BY <2>4, <1>1, Constants DEF ObjectSize
<1>5. c.is_allocated = TRUE /\ c.asked = size /\ c.obj_size = obj /\ c.alignment = a /\ c.slots = k
  BY DEF NewCache
<1>6. obj <= room
  OBVIOUS
<1> HIDE DEF h, obj, room
<1>7. k \in Nat
  BY <1>2, <1>3
<1>8. m \in 0 .. (obj - 1)
  BY <1>2, <1>3
<1>9. room = k * obj + m
  BY <1>2, <1>3, SMTT(30)
<1>10. c \in Cache
  BY <1>1, <1>3, <1>7 DEF NewCache, Cache, obj, room
<1> HIDE DEF k, m, c
<1>11. k > 0 /\ h + k * obj <= PageSize
  <2>1. k * obj \in Nat
    BY <1>3, <1>7
  <2>2. k = 0 => k * obj = 0
    BY <1>3
  <2>3. QED
    BY <2>1, <2>2, <1>2, <1>3, <1>6, <1>7, <1>8, <1>9, Constants
<1>12. Geometry(c)
  <2>1. RoundUp(SlabHeader, c.alignment) = h
    BY <1>5 DEF h
  <2>2. QED
    BY <2>1, <1>1, <1>3, <1>4, <1>5, <1>11 DEF Geometry
<1>13. QED
  BY <1>10, <1>12 DEF c

(* Pools of a cache without a page.                                        *)
LEMMA NoMember ==
  ASSUME NEW s
  PROVE  IsQueue(NULL, {}, s)
<1>1. [p \in Pages |-> 0] \in [Pages -> Nat]
  OBVIOUS
<1>2. QED
  BY <1>1 DEF IsQueue

LEMMA CreateStep ==
  ASSUME AlignmentsDividePages, IInv, NEW size \in ObjSizes, NEW a \in Alignments,
         k_slab_create_cache(size, a)
  PROVE  IInv' /\ lent' = {} /\ lent = {}
<1>1. ~cache.is_allocated /\ SlabPages = {} /\ lent = {}
  BY DEF k_slab_create_cache, IInv
<1>2. CASE UNCHANGED vars
  BY <1>1, <1>2, RefusedStep DEF vars
<1>3. CASE ~ UNCHANGED vars
  <2>1. PICK p \in Unmapped :
          /\ PowerOfTwo(a) /\ ObjectSize(size, a) <= Room(a)
          /\ use' = [use EXCEPT ![p] = "cache"] /\ cache' = NewCache(size, a)
          /\ heads' = [q \in Queues |-> NULL] /\ slabs' = slabs /\ link' = link /\ lent' = lent
    BY <1>3 DEF k_slab_create_cache, Return, NewCache
  <2>2. cache' \in Cache /\ Geometry(cache') /\ cache'.is_allocated
    <3>1. cache' \in Cache /\ Geometry(cache')
      BY <2>1, NewCacheFacts
    <3>2. QED
      BY <3>1, <2>1 DEF NewCache
  <2>3. use' \in [Pages -> {"none", "cache", "slab", "stranded"}] /\ SlabPages' = {}
    <3>1. p \in Pages /\ use \in [Pages -> {"none", "cache", "slab", "stranded"}]
      BY <2>1 DEF Unmapped, IInv
    <3>2. \A r \in Pages : use[r] # "slab"
      BY <1>1 DEF SlabPages
    <3>3. QED
      BY <2>1, <3>1, <3>2 DEF SlabPages
  <2>4. Members' = [q \in Queues |-> {}]
    BY <2>3 DEF Members
  <2>5. slabs' \in [Pages -> Record] /\ link' \in Links /\ heads' \in [Queues -> Pages \cup {NULL}]
    BY <2>1 DEF IInv
  <2>6. IsPool(Pool', Members')
    <3>1. Pool' = [heads |-> heads', slabs |-> slabs']
      BY DEF Pool
    <3>2. Pool' \in [heads : [Queues -> Pages \cup {NULL}], slabs : [Pages -> Record]]
      BY <3>1, <2>5
    <3>3. \A q \in Queues : IsQueue(Pool'.heads[q], Members'[q], Pool'.slabs)
      BY <3>1, <2>1, <2>4, NoMember
    <3>4. QED
      BY <3>2, <3>3, <2>4 DEF IsPool
  <2>7. QED
    BY <1>1, <2>1, <2>2, <2>3, <2>5, <2>6 DEF IInv
<1>4. QED
  BY <1>2, <1>3

LEMMA UnmapTypes ==
  ASSUME IInv, NEW S, Unmap(S)
  PROVE  /\ slabs' \in [Pages -> Record] /\ link' \in Links
         /\ \A p \in Pages \ S : slabs'[p] = slabs[p] /\ link'[p] = link[p]
<1>1. NoSlab \in Record
  BY Constants DEF NoSlab, Record
<1>2. Unlinked \in [SlotIndices -> Nat \cup {DATA, SLAB_LIST_END}]
  BY DEF Unlinked, SlotIndices
<1>3. slabs \in [Pages -> Record] /\ link \in Links
  BY DEF IInv
<1>4. QED
  BY <1>1, <1>2, <1>3 DEF Unmap, Links

(* Only pages without an object go back.                                   *)
LEMMA EmptyIsFree ==
  ASSUME IInv, cache.is_allocated, NEW p \in Members["empty"]
  PROVE  FreeSlots(p) = 0 .. (cache.slots - 1)
<1>1. /\ Class(slabs[p].free_count) = "empty" /\ slabs[p].free_count \in Nat
      /\ HasFreeList(slabs[p].free_count, slabs[p].next_free_slot, link[p], FreeSlots(p))
  BY MemberFacts, QueueNames
<1>2. slabs[p].free_count = cache.slots
  BY <1>1 DEF Class
<1>3. QED
  BY <1>1, <1>2, CountBound DEF IInv

LEMMA ShrinkStep ==
  ASSUME IInv, k_slab_shrink
  PROVE  IInv' /\ cache' = cache /\ lent' = lent
<1>1. CASE UNCHANGED vars
  BY <1>1, RefusedStep DEF vars
<1>2. CASE ~ UNCHANGED vars
  <2> DEFINE S == Members["empty"]
  <2>1. cache.is_allocated
    BY <1>2 DEF k_slab_shrink, Return
  <2>2. Queue("empty") = S
    BY <2>1, QueueIs, QueueNames
  <2>3. /\ Unmap(S) /\ use' = [p \in Pages |-> IF p \in S THEN "none" ELSE use[p]]
        /\ heads' = [heads EXCEPT !["empty"] = NULL] /\ cache' = cache /\ lent' = lent
    BY <1>2, <2>2 DEF k_slab_shrink, Return
  <2>4. /\ slabs' \in [Pages -> Record] /\ link' \in Links
        /\ \A p \in Pages \ S : slabs'[p] = slabs[p] /\ link'[p] = link[p]
    BY <2>3, UnmapTypes
  <2>5. /\ use \in [Pages -> {"none", "cache", "slab", "stranded"}] /\ IsPool(Pool, Members)
        /\ heads \in [Queues -> Pages \cup {NULL}] /\ cache \in Cache /\ Geometry(cache)
    BY <2>1 DEF IInv
  <2>6. use' \in [Pages -> {"none", "cache", "slab", "stranded"}] /\ SlabPages' = SlabPages \ S
    BY <2>3, <2>5 DEF SlabPages
  <2>7. Members' = [q \in Queues |-> IF q = "empty" THEN {} ELSE Members[q]]
    <3>1. \A p \in SlabPages \ S : slabs'[p] = slabs[p] /\ Class(slabs[p].free_count) # "empty"
      BY <2>4 DEF SlabPages, Members, Queues
    <3>2. Members' = [q \in Queues |-> {p \in SlabPages \ S : Class(slabs'[p].free_count) = q}]
      BY <2>3, <2>6 DEF Members, Class
    <3>3. Members = [q \in Queues |-> {p \in SlabPages : Class(slabs[p].free_count) = q}]
      BY DEF Members
    <3>4. ASSUME NEW q \in Queues
          PROVE  {p \in SlabPages \ S : Class(slabs'[p].free_count) = q} = IF q = "empty" THEN {} ELSE Members[q]
      <4>1. CASE q = "empty"
        BY <4>1, <3>1
      <4>2. CASE q # "empty"
        <5>1. \A p \in S : Class(slabs[p].free_count) = "empty"
          BY <3>3, QueueNames
        <5>2. QED
          BY <5>1, <4>2, <3>1, <3>3
      <4>3. QED
        BY <4>1, <4>2
    <3>5. QED
      BY <3>2, <3>4
  <2>8. heads' \in [Queues -> Pages \cup {NULL}]
    BY <2>3, <2>5
  <2>9. IsPool(Pool', Members')
    <3>1. Pool' = [heads |-> heads', slabs |-> slabs'] /\ Pool = [heads |-> heads, slabs |-> slabs]
      BY DEF Pool
    <3>2. Pool' \in [heads : [Queues -> Pages \cup {NULL}], slabs : [Pages -> Record]]
      BY <3>1, <2>4, <2>8
    <3>3. Members \in [Queues -> SUBSET Pages] /\ \A q, r \in Queues : q # r => Members[q] \cap Members[r] = {}
      BY <2>5 DEF IsPool
    <3>4. ASSUME NEW q \in Queues PROVE IsQueue(heads'[q], Members'[q], slabs')
      <4>1. CASE q = "empty"
        <5>1. heads'[q] = NULL /\ Members'[q] = {}
          BY <4>1, <2>3, <2>5, <2>7
        <5>2. QED
          BY <5>1, NoMember
      <4>2. CASE q # "empty"
        <5>1. heads'[q] = heads[q] /\ Members'[q] = Members[q]
          BY <4>2, <2>3, <2>5, <2>7
        <5>2. IsQueue(heads[q], Members[q], slabs) /\ Members[q] \in SUBSET Pages
          BY <2>5, <3>1, <3>3 DEF IsPool
        <5>3. Members[q] \cap S = {}
          BY <4>2, <3>3, QueueNames
        <5>4. \A p \in Members[q] : slabs'[p].next = slabs[p].next /\ slabs'[p].prev = slabs[p].prev
          BY <5>2, <5>3, <2>4
        <5>5. IsQueue(heads[q], Members[q], slabs')
          <6> DEFINE M == Members[q]
                     h == heads[q]
          <6>1. M \in SUBSET Pages /\ IsQueue(h, M, slabs)
                /\ \A p \in M : slabs'[p].next = slabs[p].next /\ slabs'[p].prev = slabs[p].prev
            BY <5>2, <5>4
          <6> HIDE DEF M, h
          <6>2. IsQueue(h, M, slabs')
            BY <6>1, Elsewhere
          <6>3. QED
            BY <6>2 DEF M, h
        <5>6. QED
          BY <5>1, <5>5
      <4>3. QED
        BY <4>1, <4>2
    <3>5. \A q \in Queues : IsQueue(Pool'.heads[q], Members'[q], Pool'.slabs)
      BY <3>1, <3>4
    <3>6. Members' \in [Queues -> SUBSET Pages]
          /\ \A q, r \in Queues : q # r => Members'[q] \cap Members'[r] = {}
      BY <2>7, <3>3
    <3>7. QED
      BY <3>2, <3>5, <3>6 DEF IsPool
  <2>10. \A p : FreeSlots(p)' = FreeSlots(p)
    BY <2>3, SameCache DEF FreeSlots
  <2>11. ASSUME NEW p \in SlabPages'
         PROVE  HasFreeList(slabs'[p].free_count, slabs'[p].next_free_slot, link'[p], FreeSlots(p)')
    <3>1. p \in SlabPages /\ p \in Pages \ S
      BY <2>6 DEF SlabPages
    <3>2. HasFreeList(slabs[p].free_count, slabs[p].next_free_slot, link[p], FreeSlots(p))
      BY <3>1 DEF IInv
    <3>3. QED
      BY <3>1, <3>2, <2>4, <2>10
  <2>12. lent' \subseteq {Slot(p, i)' : p \in SlabPages', i \in 0 .. (cache'.slots - 1)}
    <3>1. SUFFICES ASSUME NEW l \in lent
                   PROVE  \E p \in SlabPages \ S, i \in 0 .. (cache.slots - 1) : l = Slot(p, i)
      BY <2>3, <2>6, SameCache
    <3>2. PICK p \in SlabPages, i \in 0 .. (cache.slots - 1) : l = Slot(p, i)
      BY DEF IInv
    <3>3. p \notin S
      <4>1. i \notin FreeSlots(p)
        BY <3>2 DEF FreeSlots
      <4>2. QED
        BY <4>1, <2>1, EmptyIsFree
    <3>4. QED
      BY <3>2, <3>3
  <2>13. cache' \in Cache /\ Geometry(cache') /\ cache'.is_allocated
    BY <2>1, <2>3, <2>5
  <2>14. IInv'
    BY <2>4, <2>6, <2>8, <2>9, <2>11, <2>12, <2>13 DEF IInv
  <2>15. QED
    BY <2>3, <2>14
<1>3. QED
  BY <1>1, <1>2

LEMMA DestroyStep ==
  ASSUME IInv, k_slab_destroy_cache
  PROVE  IInv' /\ ((cache' = cache /\ lent' = lent) \/ lent' = {})
<1>1. CASE UNCHANGED vars
  BY <1>1, RefusedStep DEF vars
<1>2. CASE ~ UNCHANGED vars
  <2> DEFINE S == Queue("full") \cup Queue("partial")
  <2>1. /\ Unmap(S)
        /\ use' = [p \in Pages |-> IF p \in S THEN "none" ELSE IF use[p] = "none" THEN "none" ELSE "stranded"]
        /\ heads' = [heads EXCEPT !["full"] = NULL, !["partial"] = NULL]
        /\ cache' = [cache EXCEPT !.is_allocated = FALSE] /\ lent' = {}
    BY <1>2 DEF k_slab_destroy_cache, Return
  <2>2. slabs' \in [Pages -> Record] /\ link' \in Links
    BY <2>1, UnmapTypes
  <2>3. cache' \in Cache /\ ~cache'.is_allocated
    <3>1. cache \in Cache
      BY DEF IInv
    <3>2. QED
      BY <3>1, <2>1 DEF Cache
  <2>4. use' \in [Pages -> {"none", "cache", "slab", "stranded"}] /\ SlabPages' = {}
    BY <2>1 DEF SlabPages
  <2>5. heads' \in [Queues -> Pages \cup {NULL}]
    <3>1. heads \in [Queues -> Pages \cup {NULL}]
      BY DEF IInv
    <3>2. QED
      BY <3>1, <2>1
  <2>6. QED
    BY <2>1, <2>2, <2>3, <2>4, <2>5 DEF IInv
<1>3. QED
  BY <1>1, <1>2

-----------------------------------------------------------------------------
(* Every call keeps the invariant, and lends, takes back or closes.        *)
CallStep ==
  /\ IInv'
  /\ \/ lent' = {}
     \/ cache' = cache /\ lent' = lent
     \/ cache' = cache /\ \E l \in lent : lent' = lent \ {l}
     \/ cache' = cache /\ cache.is_allocated /\ \E p \in Pages :
          \E i \in 0 .. (cache.slots - 1) : Slot(p, i) \notin lent /\ lent' = lent \cup {Slot(p, i)}

LEMMA AllocStep ==
  ASSUME IInv, k_slab_alloc
  PROVE  CallStep
<1>1. CASE UNCHANGED vars
  BY <1>1, RefusedStep DEF vars, CallStep
<1>2. CASE ~ UNCHANGED vars
  <2>1. cache.is_allocated /\ cache' = cache
    BY <1>2 DEF k_slab_alloc, Take, Return
  <2>2. ASSUME IInv', NEW p \in SlabPages, NEW i \in FreeSlots(p), lent' = lent \cup {Slot(p, i)}
        PROVE  CallStep
    <3>1. p \in Pages /\ i \in 0 .. (cache.slots - 1) /\ Slot(p, i) \notin lent
      BY DEF SlabPages, FreeSlots
    <3>2. QED
      BY <2>1, <2>2, <3>1 DEF CallStep
  <2>3. CASE heads["partial"] # NULL /\ Take(Pool, link, heads["partial"], FALSE) /\ UNCHANGED use
    BY <2>1, <2>2, <2>3, AllocPartial
  <2>4. CASE /\ heads["empty"] # NULL /\ UNCHANGED use
             /\ Take(dequeue_slab(Pool, "empty", heads["empty"]), link, heads["empty"], TRUE)
    BY <2>1, <2>2, <2>4, AllocEmpty
  <2>5. ASSUME NEW p \in Unmapped, use' = [use EXCEPT ![p] = "slab"],
               Take([Pool EXCEPT !.slabs[p] = FreshSlab], [link EXCEPT ![p] = FreshLinks], p, TRUE)
        PROVE  CallStep
    <3>1. IInv' /\ \E i \in 0 .. (cache.slots - 1) : lent' = lent \cup {Slot(p, i)}
      BY <2>1, <2>5, AllocNew
    <3>2. p \in Pages \ SlabPages
      BY DEF Unmapped, SlabPages
    <3>3. FreeSlots(p) = 0 .. (cache.slots - 1)
      BY <2>1, <3>2, NothingElsewhere
    <3>4. QED
      BY <2>1, <3>1, <3>2, <3>3 DEF CallStep, FreeSlots
  <2>6. QED
    BY <1>2, <2>3, <2>4, <2>5 DEF k_slab_alloc, Return, Reusable
<1>3. QED
  BY <1>1, <1>2

LEMMA NextStep ==
  ASSUME AddressesReturned, AlignmentsDividePages, IInv, [Next]_vars
  PROVE  CallStep
<1>1. ASSUME NEW size \in ObjSizes, NEW a \in Alignments, k_slab_create_cache(size, a) PROVE CallStep
  BY <1>1, CreateStep DEF CallStep
<1>2. ASSUME k_slab_alloc PROVE CallStep
  BY <1>2, AllocStep
<1>3. ASSUME NEW obj \in FreeInputs, k_slab_free(obj) PROVE CallStep
  BY <1>3, FreeStep DEF CallStep
<1>4. ASSUME k_slab_shrink PROVE CallStep
  BY <1>4, ShrinkStep DEF CallStep
<1>5. ASSUME k_slab_destroy_cache PROVE CallStep
  BY <1>5, DestroyStep DEF CallStep
<1>6. ASSUME UNCHANGED vars PROVE CallStep
  BY <1>6, RefusedStep DEF CallStep, vars
<1>7. QED
  BY <1>1, <1>2, <1>3, <1>4, <1>5, <1>6 DEF Next

LEMMA Invariance ==
  ASSUME AddressesReturned, AlignmentsDividePages
  PROVE  Spec => []IInv
<1>1. IInv /\ [Next]_vars => IInv'
  BY NextStep DEF CallStep
<1>2. QED
  BY <1>1, InitIInv, PTL DEF Spec

-----------------------------------------------------------------------------
(* What the invariant says to a reader of the module                       *)

NthFree(first, linked, last) ==
  CHOOSE f : f = [n \in 0 .. last |->
    IF n = 0 THEN first
    ELSE IF f[n - 1] \in 0 .. (last - 1) THEN linked[f[n - 1]] ELSE f[n - 1]]

(* Following the links goes down the stack, to the end of the list.        *)
LEMMA NthIs ==
  ASSUME NEW last \in Nat, NEW n \in 0 .. last, NEW first, NEW linked,
         NEW free \in SUBSET (0 .. (last - 1)),
         NEW stack, IsFreeList(stack, n, first, linked, free)
  PROVE  \A k \in 0 .. last :
           NthFree(first, linked, last)[k] = IF k < n THEN stack[n - k] ELSE SLAB_LIST_END
<1> DEFINE Follow(v) == IF v \in 0 .. (last - 1) THEN linked[v] ELSE v
           Right(f) == f = [k \in 0 .. last |-> IF k = 0 THEN first ELSE Follow(f[k - 1])]
           g == [k \in 0 .. last |-> IF k < n THEN stack[n - k] ELSE SLAB_LIST_END]
           F == NthFree(first, linked, last)
<1>1. /\ stack \in [1 .. n -> free]
      /\ first = IF n = 0 THEN SLAB_LIST_END ELSE stack[n]
      /\ \A k \in 1 .. n : linked[stack[k]] = IF k = 1 THEN SLAB_LIST_END ELSE stack[k - 1]
  BY DEF IsFreeList
<1>2. g[0] = first
  <2>1. 0 \in 0 .. last /\ n - 0 = n
    OBVIOUS
  <2>2. QED
    BY <2>1, <1>1
<1>3. ASSUME NEW k \in 1 .. last PROVE g[k] = Follow(g[k - 1])
  <2>1. k \in 0 .. last /\ k - 1 \in 0 .. last
    OBVIOUS
  <2>2. CASE k - 1 < n
    <3> DEFINE m == n - (k - 1)
    <3>1. m \in 1 .. n /\ m - 1 = n - k /\ (m = 1) = (k = n) /\ (k < n) = (m # 1)
      BY <2>2
    <3>2. g[k - 1] = stack[m]
      BY <2>1, <2>2
    <3>3. stack[m] \in 0 .. (last - 1) /\ linked[stack[m]] = IF m = 1 THEN SLAB_LIST_END ELSE stack[m - 1]
      BY <3>1, <1>1
    <3>4. g[k] = IF m # 1 THEN stack[m - 1] ELSE SLAB_LIST_END
      BY <3>1, <2>1
    <3> HIDE DEF m, g
    <3>5. QED
      BY <3>2, <3>3, <3>4
  <2>3. CASE ~ (k - 1 < n)
    <3>1. g[k - 1] = SLAB_LIST_END /\ g[k] = SLAB_LIST_END
      BY <2>1, <2>3
    <3>2. SLAB_LIST_END \notin 0 .. (last - 1)
      BY DEF SLAB_LIST_END
    <3> HIDE DEF g
    <3>3. QED
      BY <3>1, <3>2
  <2>4. QED
    BY <2>2, <2>3
<1>4. \A k \in 0 .. last : g[k] = IF k < n THEN stack[n - k] ELSE SLAB_LIST_END
  OBVIOUS
<1>5. g = [k \in 0 .. last |-> g[k]]
  OBVIOUS
<1> HIDE DEF g
<1>6. Right(g)
  <2>1. \A k \in 0 .. last : g[k] = IF k = 0 THEN first ELSE Follow(g[k - 1])
    <3> HIDE DEF Follow
    <3>1. \A k \in 0 .. last : k = 0 \/ k \in 1 .. last
      OBVIOUS
    <3>2. QED
      BY <3>1, <1>2, <1>3
  <2> HIDE DEF Follow
  <2>2. QED
    BY <2>1, <1>5
<1>7. Right(F)
  <2>1. F = CHOOSE f : Right(f)
    BY DEF NthFree
  <2> HIDE DEF Right, F
  <2>2. QED
    BY <2>1, <1>6
<1> HIDE DEF F
<1>8. \A k \in 0 .. last : F[k] = IF k = 0 THEN first ELSE Follow(F[k - 1])
  <2> HIDE DEF Follow
  <2>1. F = [k \in 0 .. last |-> IF k = 0 THEN first ELSE Follow(F[k - 1])]
    BY <1>7
  <2>2. QED
    BY <2>1, Zenon
<1> HIDE DEF Follow
<1>9. \A k \in 0 .. last : F[k] = g[k]
  <2> DEFINE Bad == {k \in 0 .. last : F[k] # g[k]}
  <2>1. SUFFICES ASSUME Bad # {} PROVE FALSE
    OBVIOUS
  <2>2. Bad \in SUBSET Nat
    OBVIOUS
  <2>3. PICK k \in Bad : \A y \in Bad : k <= y
    <3> HIDE DEF Bad
    <3>1. QED
      BY <2>1, <2>2, Least
  <2>4. k \in 0 .. last /\ F[k] # g[k]
    BY <2>3
  <2>5. k # 0
    BY <2>4, <1>2, <1>8
  <2>6. k \in 1 .. last /\ k - 1 \in 0 .. last /\ ~ (k <= k - 1)
    BY <2>4, <2>5
  <2>7. F[k - 1] = g[k - 1]
    BY <2>3, <2>6
  <2>8. F[k] = Follow(F[k - 1])
    BY <2>4, <2>5, <1>8
  <2>9. QED
    BY <2>4, <2>6, <2>7, <2>8, <1>3
<1>10. QED
  BY <1>4, <1>9 DEF F

LEMMA TypesHold == IInv => TypeOK
<1> SUFFICES ASSUME IInv PROVE TypeOK
  OBVIOUS
<1>1. /\ cache \in Cache /\ slabs \in [Pages -> Record] /\ heads \in [Queues -> Pages \cup {NULL}]
      /\ use \in [Pages -> {"none", "cache", "slab", "stranded"}]
  BY DEF IInv
<1>2. ASSUME NEW p \in Pages
      PROVE  /\ slabs[p].free_count \in 0 .. IF use[p] = "slab" THEN cache.slots ELSE PageSize
             /\ {slabs[p].next, slabs[p].prev} \subseteq Pages \cup {NULL}
             /\ slabs[p].next_free_slot \in Nat \cup {SLAB_LIST_END}
  <2>1. slabs[p] \in Record
    BY <1>1
  <2>2. slabs[p].free_count \in 0 .. PageSize /\ slabs[p].free_count \in Nat
    BY <2>1, Constants DEF Record
  <2>3. ASSUME use[p] = "slab" PROVE slabs[p].free_count \in 0 .. cache.slots
    <3>1. p \in SlabPages
      BY <2>3 DEF SlabPages
    <3>2. cache.is_allocated /\ Geometry(cache)
      BY <3>1 DEF IInv
    <3>3. HasFreeList(slabs[p].free_count, slabs[p].next_free_slot, link[p], FreeSlots(p))
      BY <3>1 DEF IInv
    <3>4. QED
      BY <3>2, <3>3, <2>2, <1>1, CountBound
  <2>4. QED
    BY <2>1, <2>2, <2>3 DEF Record
<1>3. lent \subseteq 0 .. (Word - 1)
  <2>1. SUFFICES ASSUME NEW l \in lent PROVE l \in 0 .. (Word - 1)
    OBVIOUS
  <2>2. PICK p \in SlabPages, i \in 0 .. (cache.slots - 1) : l = Slot(p, i)
    BY DEF IInv
  <2>3. cache.is_allocated /\ Geometry(cache) /\ p \in Pages
    BY <2>2 DEF IInv, SlabPages
  <2>4. Slot(p, i) \in 1 .. (Word - 1)
    BY <2>3, <1>1, SlotFacts
  <2>5. QED
    BY <2>2, <2>4, Constants
<1>4. cache.is_allocated \in BOOLEAN
  BY <1>1 DEF Cache
<1>5. QED
  BY <1>1, <1>2, <1>3, <1>4 DEF TypeOK

LEMMA QueuesHold == IInv => QueuesMatchCounts
<1> SUFFICES ASSUME IInv, cache.is_allocated
             PROVE  QueuesMatchCounts
  BY DEF QueuesMatchCounts
<1>1. \A q \in Queues : Queue(q) = Members[q]
  BY QueueIs
<1>2. cache \in Cache /\ Geometry(cache) /\ cache.slots \in Nat
  BY DEF IInv, Cache
<1>3. UNION {Queue(q) : q \in Queues} = SlabPages
  <2>1. \A p \in SlabPages : Class(slabs[p].free_count) \in Queues
    BY DEF Class, Queues
  <2>2. QED
    BY <2>1, <1>1 DEF Members
<1>4. ASSUME NEW p \in SlabPages PROVE slabs[p].free_count \in 0 .. cache.slots
  <2>1. TypeOK /\ p \in Pages /\ use[p] = "slab"
    BY TypesHold DEF SlabPages
  <2>2. QED
    BY <2>1 DEF TypeOK
<1>5. /\ \A p \in Queue("full") : slabs[p].free_count = 0
      /\ \A p \in Queue("partial") : slabs[p].free_count \in 1 .. (cache.slots - 1)
      /\ \A p \in Queue("empty") : slabs[p].free_count = cache.slots
  <2>1. \A q \in Queues : \A p \in Queue(q) : p \in SlabPages /\ Class(slabs[p].free_count) = q
    BY <1>1 DEF Members
  <2>2. QED
    BY <2>1, <1>2, <1>4, QueueNames DEF Class
<1>6. ASSUME NEW q \in Queues, NEW p \in Queue(q)
      PROVE  /\ (slabs[p].prev = NULL) = (heads[q] = p)
             /\ slabs[p].next # NULL => slabs[slabs[p].next].prev = p
             /\ slabs[p].prev # NULL => slabs[slabs[p].prev].next = p
  <2>1. IsQueue(heads[q], Members[q], slabs)
    BY DEF IInv, IsPool, Pool
  <2>2. QED
    BY <2>1, <1>1 DEF IsQueue
<1>7. QED
  BY <1>3, <1>5, <1>6 DEF QueuesMatchCounts

LEMMA FreeListsHold == IInv => FreeListsExact
<1> SUFFICES ASSUME IInv, cache.is_allocated, NEW p \in SlabPages
             PROVE  LET nth == NthFree(slabs[p].next_free_slot, link[p], cache.slots)
                        free == slabs[p].free_count
                    IN  /\ free = Cardinality(FreeSlots(p))
                        /\ {nth[n] : n \in 0 .. (free - 1)} = FreeSlots(p)
                        /\ nth[free] = SLAB_LIST_END
  BY DEF FreeListsExact, NthFree
<1> DEFINE free == slabs[p].free_count
           first == slabs[p].next_free_slot
           nth == NthFree(first, link[p], cache.slots)
           last == cache.slots
<1>1. cache \in Cache /\ Geometry(cache) /\ last \in Nat /\ p \in Pages
  BY DEF IInv, Cache, SlabPages
<1>2. free \in 0 .. last /\ free \in Nat
  <2>1. TypeOK /\ use[p] = "slab"
    BY TypesHold DEF SlabPages
  <2>2. QED
    BY <2>1, <1>1 DEF TypeOK
<1>3. HasFreeList(free, first, link[p], FreeSlots(p))
  BY DEF IInv
<1>4. FreeSlots(p) \in SUBSET (0 .. (last - 1))
  BY <1>1, FreeSlotsType
<1> HIDE DEF free, first, last
<1>5. free = Cardinality(FreeSlots(p))
  BY <1>2, <1>3, CountIs
<1>6. PICK stack \in [1 .. free -> FreeSlots(p)] : IsFreeList(stack, free, first, link[p], FreeSlots(p))
  BY <1>3 DEF HasFreeList
<1>7. \A k \in 0 .. last : nth[k] = IF k < free THEN stack[free - k] ELSE SLAB_LIST_END
  BY <1>1, <1>2, <1>4, <1>6, NthIs DEF last
<1> HIDE DEF nth
<1>8. nth[free] = SLAB_LIST_END
  BY <1>2, <1>7
<1>9. {nth[n] : n \in 0 .. (free - 1)} = FreeSlots(p)
  <2>1. \A n \in 0 .. (free - 1) : nth[n] = stack[free - n] /\ free - n \in 1 .. free
    BY <1>1, <1>2, <1>7
  <2>2. \A i \in FreeSlots(p) : \E k \in 1 .. free : stack[k] = i
    BY <1>6 DEF IsFreeList
  <2>3. \A k \in 1 .. free : free - k \in 0 .. (free - 1) /\ nth[free - k] = stack[k]
    <3>1. ASSUME NEW k \in 1 .. free PROVE free - k \in 0 .. (free - 1) /\ nth[free - k] = stack[k]
      <4>1. free - k \in 0 .. (free - 1) /\ free - (free - k) = k
        BY <1>2
      <4>2. QED
        BY <4>1, <2>1
    <3>2. QED
      BY <3>1
  <2>4. QED
    BY <2>1, <2>2, <2>3
<1>10. QED
  BY <1>5, <1>8, <1>9 DEF free, first, nth, last

-----------------------------------------------------------------------------
(* In whatever order objects come back, a page is in the queue of its free *)
(* count, the links of a queue agree in both directions, and the free list *)
(* of a page holds each slot no client holds, once (slab.c).               *)
THEOREM Sound ==
  ASSUME AddressesReturned, AlignmentsDividePages
  PROVE  Spec => []SlabsSound
<1>1. IInv => SlabsSound
  BY TypesHold, QueuesHold, FreeListsHold DEF SlabsSound
<1>2. Spec => []IInv
  BY Invariance
<1>3. QED
  BY <1>1, <1>2, PTL

-----------------------------------------------------------------------------
(* When pages come and go                                                  *)

MovesLate ==
  cache.is_allocated /\ cache'.is_allocated =>
    /\ \A p \in SlabPages : use'[p] = "none" => \A obj \in lent : PageOf(obj) # p
    /\ \A p \in Pages : use[p] = "none" /\ use'[p] = "slab" => \A s \in SlabPages : FreeSlots(s) = {}

(* Without a partial or an empty page every slot is taken.                 *)
LEMMA AllFull ==
  ASSUME IInv, cache.is_allocated, heads["partial"] = NULL, heads["empty"] = NULL,
         NEW s \in SlabPages
  PROVE  FreeSlots(s) = {}
<1>1. \A q \in Queues : IsQueue(heads[q], Members[q], slabs) /\ Members[q] \in SUBSET Pages
  BY DEF IInv, IsPool, Pool
<1>2. Members["partial"] = {} /\ Members["empty"] = {}
  BY <1>1, Headless, QueueNames
<1>3. Class(slabs[s].free_count) = "full"
  <2>1. Class(slabs[s].free_count) \in Queues
    BY DEF Class, Queues
  <2>2. s \in Members[Class(slabs[s].free_count)]
    BY <2>1 DEF Members
  <2>3. QED
    BY <2>1, <2>2, <1>2 DEF Queues
<1>4. slabs[s].free_count = 0
  BY <1>3 DEF Class
<1>5. HasFreeList(0, slabs[s].next_free_slot, link[s], FreeSlots(s))
  BY <1>4 DEF IInv
<1>6. \A i \in FreeSlots(s) : \E k \in 1 .. 0 : TRUE
  BY <1>5 DEF HasFreeList, IsFreeList
<1>7. QED
  BY <1>6

LEMMA SameUse ==
  ASSUME use' = use
  PROVE  MovesLate
BY DEF MovesLate, SlabPages

LEMMA AllocLate ==
  ASSUME IInv, k_slab_alloc
  PROVE  MovesLate
<1>1. CASE use' = use
  BY <1>1, SameUse
<1>2. CASE use' # use
  <2>1. PICK p \in Unmapped : /\ cache.is_allocated /\ heads["partial"] = NULL /\ heads["empty"] = NULL
                              /\ use' = [use EXCEPT ![p] = "slab"]
    BY <1>2 DEF k_slab_alloc, Return, vars, Reusable
  <2>2. \A s \in SlabPages : FreeSlots(s) = {}
    BY <2>1, AllFull
  <2>3. use \in [Pages -> {"none", "cache", "slab", "stranded"}]
    BY DEF IInv
  <2>4. \A s \in SlabPages : use'[s] # "none"
    BY <2>1, <2>3 DEF SlabPages
  <2>5. QED
    BY <2>2, <2>4 DEF MovesLate
<1>3. QED
  BY <1>1, <1>2

LEMMA ShrinkLate ==
  ASSUME IInv, k_slab_shrink
  PROVE  MovesLate
<1>1. CASE use' = use
  BY <1>1, SameUse
<1>2. CASE use' # use
  <2>1. cache.is_allocated /\ use' = [p \in Pages |-> IF p \in Queue("empty") THEN "none" ELSE use[p]]
    BY <1>2 DEF k_slab_shrink, Return, vars
  <2>2. Queue("empty") = Members["empty"]
    BY <2>1, QueueIs, QueueNames
  <2>3. ASSUME NEW p \in SlabPages, use'[p] = "none", NEW obj \in lent PROVE PageOf(obj) # p
    <3>1. p \in Pages /\ use[p] = "slab"
      BY DEF SlabPages
    <3>2. p \in Members["empty"]
      BY <2>1, <2>2, <2>3, <3>1
    <3>3. FreeSlots(p) = 0 .. (cache.slots - 1)
      BY <2>1, <3>2, EmptyIsFree
    <3>4. PICK r \in SlabPages, i \in 0 .. (cache.slots - 1) : obj = Slot(r, i)
      BY DEF IInv
    <3>5. r \in Pages /\ cache \in Cache /\ Geometry(cache)
      BY <2>1 DEF SlabPages, IInv
    <3>6. PageOf(obj) = r
      BY <3>4, <3>5, SlotFacts
    <3>7. i \notin FreeSlots(r)
      BY <3>4 DEF FreeSlots
    <3>8. QED
      BY <3>3, <3>6, <3>7
  <2>4. \A p \in Pages : use[p] = "none" => use'[p] # "slab"
    BY <2>1
  <2>5. QED
    BY <2>3, <2>4 DEF MovesLate
<1>3. QED
  BY <1>1, <1>2

LEMMA StepMovesLate == IInv /\ [Next]_vars => MovesLate
<1> SUFFICES ASSUME IInv, [Next]_vars PROVE MovesLate
  OBVIOUS
<1>1. ASSUME NEW size \in ObjSizes, NEW a \in Alignments, k_slab_create_cache(size, a) PROVE MovesLate
  BY <1>1 DEF k_slab_create_cache, MovesLate
<1>2. ASSUME NEW obj \in FreeInputs, k_slab_free(obj) PROVE MovesLate
  BY <1>2, SameUse DEF k_slab_free, Return, vars
<1>3. ASSUME k_slab_destroy_cache PROVE MovesLate
  <2>1. CASE use' = use
    BY <2>1, SameUse
  <2>2. CASE use' # use
    <3>1. cache' = [cache EXCEPT !.is_allocated = FALSE]
      BY <1>3, <2>2 DEF k_slab_destroy_cache, Return, vars
    <3>2. cache \in Cache
      BY DEF IInv
    <3>3. ~cache'.is_allocated
      BY <3>1, <3>2 DEF Cache
    <3>4. QED
      BY <3>3 DEF MovesLate
  <2>3. QED
    BY <2>1, <2>2
<1>4. CASE UNCHANGED vars
  BY <1>4, SameUse DEF vars
<1>5. QED
  BY <1>1, <1>2, <1>3, <1>4, AllocLate, ShrinkLate DEF Next

(* A page goes back only when no object in it is lent, unless the cache is *)
(* destroyed, and a page is taken only when no slot of the others is free. *)
THEOREM Lateness ==
  ASSUME AddressesReturned, AlignmentsDividePages
  PROVE  Spec => PagesMoveLate
<1>1. IInv /\ [Next]_vars => [MovesLate]_vars
  BY StepMovesLate
<1>2. Spec => []IInv
  BY Invariance
<1>3. Spec => [][MovesLate]_vars
  BY <1>1, <1>2, PTL DEF Spec
<1>4. QED
  BY <1>3 DEF PagesMoveLate, MovesLate

-----------------------------------------------------------------------------
(* The abstract arena                                                      *)

LEMMA PagesApart ==
  ASSUME NEW p \in Pages, NEW r \in Pages, p < r
  PROVE  p + PageSize <= r
<1>1. p \in Nat /\ r \in Nat /\ p % PageSize = 0 /\ r % PageSize = 0
  BY PageFacts
<1>2. p \in Int /\ r \in Int /\ r - p \in Nat \ {0}
  BY <1>1
<1>3. (r - p) % PageSize = 0
  BY <1>1, <1>2, MultipleSum, Constants
<1>4. PageSize <= r - p
  BY <1>2, <1>3, AtLeastOne, Constants
<1>5. QED
  BY <1>1, <1>4, Constants

(* Two slots lie an object's length apart.                                 *)
LEMMA SlotsApart ==
  ASSUME cache \in Cache, Geometry(cache), NEW p \in Pages, NEW i \in 0 .. (cache.slots - 1),
         NEW r \in Pages, NEW j \in 0 .. (cache.slots - 1), Slot(p, i) # Slot(r, j)
  PROVE  \/ Slot(p, i) + cache.obj_size <= Slot(r, j)
         \/ Slot(r, j) + cache.obj_size <= Slot(p, i)
<1> DEFINE size == cache.obj_size
<1>1. size \in Nat \ {0} /\ cache.slots \in Nat /\ Start(cache) \in Nat
  BY StartFacts DEF Cache
<1>2. p \in Nat /\ r \in Nat
  BY PageFacts
<1>3. /\ Slot(p, i) = p + Start(cache) + i * size /\ i * size \in Nat /\ Slot(p, i) \in Nat
      /\ p + SlabHeader <= Slot(p, i) /\ Slot(p, i) + size <= p + PageSize
  BY SlotFacts, Constants
<1>4. /\ Slot(r, j) = r + Start(cache) + j * size /\ j * size \in Nat /\ Slot(r, j) \in Nat
      /\ r + SlabHeader <= Slot(r, j) /\ Slot(r, j) + size <= r + PageSize
  BY SlotFacts, Constants
<1> DEFINE x == Slot(p, i)
           y == Slot(r, j)
<1> HIDE DEF size, x, y
<1>5. CASE p < r
  <2>1. p + PageSize <= r
    BY <1>5, PagesApart
  <2>2. x + size <= y
    BY <2>1, <1>1, <1>2, <1>3, <1>4, Constants DEF x, y
  <2>3. QED
    BY <2>2 DEF x, y, size
<1>6. CASE r < p
  <2>1. r + PageSize <= p
    BY <1>6, PagesApart
  <2>2. y + size <= x
    BY <2>1, <1>1, <1>2, <1>3, <1>4, Constants DEF x, y
  <2>3. QED
    BY <2>2 DEF x, y, size
<1>7. CASE p = r
  <2>1. ASSUME NEW k \in Nat, NEW m \in Nat, k < m PROVE k * size + size <= m * size
    <3>1. (m - k - 1) * size >= 0 /\ (m - k - 1) * size = m * size - k * size - size
      BY <2>1, <1>1
    <3>2. m * size \in Nat /\ k * size \in Nat
      BY <1>1
    <3>3. QED
      BY <3>1, <3>2, <1>1
  <2>2. i \in Nat /\ j \in Nat /\ i # j
    BY <1>1, <1>7
  <2>3. CASE i < j
    <3>1. i * size + size <= j * size
      BY <2>1, <2>2, <2>3
    <3>2. x + size <= y
      BY <3>1, <1>1, <1>2, <1>3, <1>4, <1>7 DEF x, y
    <3>3. QED
      BY <3>2 DEF x, y, size
  <2>4. CASE j < i
    <3>1. j * size + size <= i * size
      BY <2>1, <2>2, <2>4
    <3>2. y + size <= x
      BY <3>1, <1>1, <1>2, <1>3, <1>4, <1>7 DEF x, y
    <3>3. QED
      BY <3>2 DEF x, y, size
  <2>5. QED
    BY <2>2, <2>3, <2>4
<1>8. QED
  BY <1>2, <1>5, <1>6, <1>7

LoanOf(c, obj) == [at |-> obj, len |-> c.asked]
LoansOf(c, lending) == {LoanOf(c, obj) : obj \in lending}
ArenaStep == Arena!Next \/ LoansOf(cache', lent') = LoansOf(cache, lent)

LEMMA StepArena ==
  ASSUME NoRequestWraps, IInv, CallStep
  PROVE  ArenaStep
<1> DEFINE old == LoansOf(cache, lent)
           new == LoansOf(cache', lent')
<1>1. Arena!Next <=> Arena!Lend(old, new) \/ Arena!Return(old, new) \/ Arena!Exchange(old, new) \/ Arena!Close(new)
  BY DEF Arena!Next, LoansOf, LoanOf
<1>2. CASE lent' = {}
  <2>1. new = {}
    BY <1>2 DEF LoansOf
  <2>2. QED
    BY <2>1, <1>1 DEF ArenaStep, Arena!Close
<1>3. CASE cache' = cache /\ lent' = lent
  BY <1>3 DEF ArenaStep
<1>4. ASSUME cache' = cache, NEW l \in lent, lent' = lent \ {l}
      PROVE  ArenaStep
  <2>1. LoanOf(cache, l) \in old
    BY DEF LoansOf
  <2>2. \A k, m \in lent : LoanOf(cache, k) = LoanOf(cache, m) => k = m
    <3>1. \A k : LoanOf(cache, k).at = k
      BY DEF LoanOf
    <3>2. QED
      BY <3>1
  <2>3. new = old \ {LoanOf(cache, l)}
    BY <2>2, <1>4 DEF LoansOf
  <2>4. QED
    BY <2>1, <2>3, <1>1 DEF ArenaStep, Arena!Return
<1>5. ASSUME cache' = cache, cache.is_allocated, NEW p \in Pages, NEW i \in 0 .. (cache.slots - 1),
             Slot(p, i) \notin lent, lent' = lent \cup {Slot(p, i)}
      PROVE  ArenaStep
  <2> DEFINE x == Slot(p, i)
             l == LoanOf(cache, x)
             Space == UNION {r + SlabHeader .. r + PageSize - 1 : r \in Pages}
  <2>1. cache \in Cache /\ Geometry(cache) /\ cache.asked \in Nat
    BY <1>5 DEF IInv, Cache
  <2>2. cache.asked <= cache.obj_size /\ cache.obj_size \in Nat
    BY <2>1 DEF Geometry, Cache
  <2>3. x \in Nat /\ p + SlabHeader <= x /\ x + cache.obj_size <= p + PageSize /\ p \in Nat
    BY <2>1, SlotFacts, PageFacts, Constants
  <2>4. new = old \cup {l}
    BY <1>5 DEF LoansOf
  <2>5. l \notin old
    <3>1. \A k : LoanOf(cache, k).at = k
      BY DEF LoanOf
    <3>2. QED
      BY <3>1, <1>5 DEF LoansOf
  <2>6. Arena!Piece(l) = x .. (x + cache.asked - 1)
    BY DEF Arena!Piece, LoanOf
  <2>7. Arena!Piece(l) \subseteq Space
    <3> HIDE DEF x
    <3>1. \A y \in x .. (x + cache.asked - 1) : y \in p + SlabHeader .. p + PageSize - 1
      BY <2>1, <2>2, <2>3, Constants
    <3>2. QED
      BY <3>1, <2>6
  <2>8. ASSUME NEW m \in old PROVE Arena!Piece(l) \cap Arena!Piece(m) = {}
    <3>1. PICK obj \in lent : m = LoanOf(cache, obj)
      BY DEF LoansOf
    <3>2. PICK r \in SlabPages, j \in 0 .. (cache.slots - 1) : obj = Slot(r, j)
      BY DEF IInv
    <3>3. r \in Pages
      BY DEF SlabPages
    <3>4. x # obj
      BY <1>5
    <3>5. x + cache.obj_size <= obj \/ obj + cache.obj_size <= x
      BY <2>1, <3>2, <3>3, <3>4, SlotsApart
    <3>6. obj \in Nat
      BY <2>1, <3>2, <3>3, SlotFacts, Constants
    <3>7. Arena!Piece(m) = obj .. (obj + cache.asked - 1)
      BY <3>1 DEF Arena!Piece, LoanOf
    <3> HIDE DEF x
    <3>8. \A y \in x .. (x + cache.asked - 1) : y \notin obj .. (obj + cache.asked - 1)
      BY <2>1, <2>2, <2>3, <3>5, <3>6
    <3>9. QED
      BY <3>7, <3>8, <2>6
  <2>9. Arena!Apart(l, old)
    BY <2>7, <2>8 DEF Arena!Apart
  <2>10. Arena!Lend(old, new)
    <3>1. l \in new \ old
      BY <2>4, <2>5
    <3> HIDE DEF l, old, new
    <3>2. QED
      BY <3>1, <2>4, <2>9 DEF Arena!Lend
  <2>11. QED
    BY <2>10, <1>1 DEF ArenaStep
<1>6. QED
  BY <1>2, <1>3, <1>4, <1>5 DEF CallStep

(* The cache lends disjoint pieces of its pages, behind their headers and  *)
(* of at least the size asked for: every call is a step of the arena.      *)
THEOREM Implementation ==
  ASSUME AddressesReturned, AlignmentsDividePages, NoRequestWraps
  PROVE  Spec => ImplementsArena
<1>1. Init => Arena!Init
  BY DEF Init, Arena!Init
<1>2. IInv /\ [Next]_vars => ArenaStep
  BY NextStep, StepArena
<1>3. ArenaStep => [Arena!Next]_{[at |-> obj, len |-> cache.asked] : obj \in lent}
  BY DEF ArenaStep, LoansOf, LoanOf
<1>4. Spec => []IInv
  BY Invariance
<1>5. QED
  BY <1>1, <1>2, <1>3, <1>4, PTL DEF Spec, ImplementsArena, Arena!Spec
=============================================================================
