----------------------------- MODULE HeapProofs -----------------------------
(***************************************************************************)
(* The heap arena for every region size, header size and set of requests   *)
(* that do not wrap: the blocks tile the region, the headers marked        *)
(* allocated are the payloads in clients' hands, what the heap says of its *)
(* free space is true, and every call is a step of the abstract arena.     *)
(*                                                                         *)
(* Every call is made of two changes to the header memory, each described  *)
(* below by what it does to every header: a block is cut in two, or a block*)
(* absorbs its successor.  Both keep the tiling.                           *)
(* What is said of the free space rests on units counted, not on sums: the *)
(* blocks taken are apart, so lending or freeing one changes the count by  *)
(* its footprint.                                                          *)
(***************************************************************************)
EXTENDS Heap, FiniteSetTheorems, WellFoundedInduction, TLAPS

Hdr == [magic : {"none", "FREE", "ALOC"}, size : Size,
        next : Addr \cup {NULL}, prev : Addr \cup {NULL}]
Headers == [Addr -> Hdr]

(* The headers that are not dead, and those marked allocated.              *)
Live(h) == {a \in Addr : h[a].magic # "none"}
Allocated(h) == {a \in Addr : h[a].magic = "ALOC"}
EndOf(h, a) == a + Header + h[a].size

(* The live headers lie one behind the other and are linked to each other. *)
Tiled(h) ==
  /\ Context \in Live(h) /\ h[Context].prev = NULL
  /\ \A a \in Live(h) :
       \/ h[a].next = NULL /\ EndOf(h, a) = Total
       \/ h[a].next = EndOf(h, a) /\ EndOf(h, a) \in Live(h) /\ h[EndOf(h, a)].prev = a
  /\ \A a, b \in Live(h) : a < b => EndOf(h, a) <= b
  /\ \A b \in Live(h) \ {Context} : h[b].prev \in Live(h) /\ h[h[b].prev].next = b

(* A free block right behind a free block.                                 *)
Frees(h) == {a \in Addr : h[a].magic = "FREE"}
Touch(h, x, y) == x \in Frees(h) /\ y \in Frees(h) /\ EndOf(h, x) = y
Merged(h) == \A x, y \in Addr : ~Touch(h, x, y)

(* The clients have what the headers say is allocated.                     *)
Held(h, loans) ==
  /\ Allocated(h) = {m.ptr - Header : m \in loans}
  /\ \A m, k \in loans : m.ptr = k.ptr => m = k
  /\ \A m \in loans : /\ m.ptr % m.alignment = 0
                      /\ HEAP_ALIGN(m.size) <= h[m.ptr - Header].size

(* The units of blocks.  used_size covers those of the allocated ones, and *)
(* as long as it is no more than that, free blocks are merged.             *)
Units(h, a) == a .. (EndOf(h, a) - 1)
Taken(h, S) == UNION {Units(h, a) : a \in S}
Count(h, S) == Cardinality(Taken(h, S))

Trusted(h, used) ==
  LET taken == Count(h, Allocated(h)) IN
  /\ used >= taken
  /\ used = taken => Merged(h)

Loan == [ptr : Payload, size : MallocSizes \cup ReallocSizes, alignment : Nat \ {0}]

IInv ==
  /\ hdr \in Headers /\ used_size \in Nat /\ lent \in SUBSET Loan
  /\ Tiled(hdr)
  /\ Held(hdr, lent)
  /\ Trusted(hdr, used_size)

-----------------------------------------------------------------------------
(* Least elements.                                                         *)

LEMMA Least ==
  ASSUME NEW S \in SUBSET Nat, S # {}
  PROVE  \E x \in S : \A y \in S : x <= y
<1> DEFINE lt == OpToRel(<, Nat)
<1>1. \E x \in S : \A y \in S : <<y, x>> \notin lt
  <2>1. S \subseteq Nat
    OBVIOUS
  <2>2. IsWellFoundedOn(lt, Nat)
    BY NatLessThanWellFounded
  <2> HIDE DEF lt
  <2>3. QED
    BY <2>1, <2>2, WFMin
<1>2. \A x, y \in Nat : <<y, x>> \notin lt => x <= y
  BY DEF OpToRel
<1>3. QED
  <2> HIDE DEF lt
  <2>1. QED
    BY <1>1, <1>2

LEMMA Constants ==
  /\ Unit \in Nat \ {0} /\ Word \in Nat \ {0} /\ Header \in Nat \ {0}
  /\ MinBlock \in Nat \ {0} /\ Context \in Nat \ {0} /\ Total \in Nat \ {0}
  /\ Context + Header < Total /\ Total < Word \div Unit /\ Word \div Unit \in Nat \ {0}
  /\ NULL \notin Addr /\ Addr \subseteq Nat /\ Context \in Addr
<1>1. Unit \in Nat \ {0} /\ Word \in Nat \ {0}
  BY HeapAssumption
<1>2. Word \div Unit \in Nat
  BY <1>1
<1>3. Total \in 0 .. (Word \div Unit - 1) /\ Total \in Nat \ {0}
  BY HeapAssumption DEF Size
<1>4. QED
  BY <1>1, <1>2, <1>3, HeapAssumption DEF Addr, NULL

LEMMA FirstOf ==
  ASSUME NEW S \in SUBSET Addr, S # {}
  PROVE  First(S) \in S
<1>1. S \in SUBSET Nat
  BY Constants
<1>2. \E x \in S : \A y \in S : x <= y
  BY <1>1, Least
<1>3. QED
  BY <1>2 DEF First

-----------------------------------------------------------------------------
(* The list, walked from its head, has exactly the live headers.           *)

(* One step of the walk.                                                   *)
Further(h, near) == near \cup ({h[a].next : a \in near} \cap Addr)

Walk(h, top) ==
  CHOOSE f : f = [n \in 0 .. top |-> IF n = 0 THEN {Context} ELSE Further(h, f[n - 1])]

(* The recursive function exists: one that is right up to n extends to one *)
(* that is right up to n + 1.                                              *)
LEMMA WalkDefined ==
  ASSUME NEW h, NEW top \in Nat
  PROVE  /\ Walk(h, top)[0] = {Context}
         /\ \A n \in 1 .. top : Walk(h, top)[n] = Further(h, Walk(h, top)[n - 1])
<1> DEFINE Right(f, t) == f = [n \in 0 .. t |-> IF n = 0 THEN {Context} ELSE Further(h, f[n - 1])]
           Bad == {t \in Nat : ~ \E f : Right(f, t)}
<1>1. Bad = {}
  <2>1. SUFFICES ASSUME Bad # {} PROVE FALSE
    OBVIOUS
  <2>2. Bad \in SUBSET Nat
    OBVIOUS
  <2>3. PICK t \in Bad : \A y \in Bad : t <= y
    <3> HIDE DEF Bad
    <3>1. QED
      BY <2>1, <2>2, Least
  <2> t \in Nat
    BY <2>3
  <2>4. t # 0
    <3>1. Right([n \in 0 .. 0 |-> {Context}], 0)
      <4>1. \A n \in 0 .. 0 : n = 0
        OBVIOUS
      <4>2. QED
        BY <4>1
    <3>2. QED
      BY <3>1
  <2>5. PICK g : Right(g, t - 1)
    <3>1. t - 1 \in Nat /\ t - 1 < t
      BY <2>4
    <3>2. t - 1 \notin Bad
      <4>1. ~ (t <= t - 1)
        OBVIOUS
      <4> HIDE DEF Bad
      <4>2. QED
        BY <2>3, <4>1
    <3>3. QED
      BY <3>1, <3>2
  <2> DEFINE f == [n \in 0 .. t |-> IF n = t THEN Further(h, g[t - 1]) ELSE g[n]]
  <2>6. ASSUME NEW n \in 0 .. t
        PROVE  f[n] = IF n = 0 THEN {Context} ELSE Further(h, f[n - 1])
    <3>1. CASE n = 0
      BY <3>1, <2>4, <2>5
    <3>2. CASE n # 0
      <4>1. n - 1 \in 0 .. t /\ n - 1 # t /\ n - 1 \in 0 .. (t - 1)
        BY <3>2
      <4>2. f[n - 1] = g[n - 1]
        BY <4>1
      <4>3. CASE n = t
        BY <4>3, <4>2, <3>2
      <4>4. CASE n # t
        <5>1. n \in 0 .. (t - 1)
          BY <4>4
        <5>2. g[n] = Further(h, g[n - 1])
          BY <5>1, <3>2, <2>5, Zenon
        <5>3. f[n] = g[n]
          BY <4>4
        <5>4. QED
          BY <5>2, <5>3, <4>2, <3>2
      <4>5. QED
        BY <4>3, <4>4
    <3>3. QED
      BY <3>1, <3>2
  <2>7. Right(f, t)
    <3>1. f = [n \in 0 .. t |-> f[n]]
      OBVIOUS
    <3> HIDE DEF f
    <3>2. QED
      BY <3>1, <2>6
  <2>8. QED
    <3> HIDE DEF f
    <3>1. QED
      BY <2>7
<1>2. Right(Walk(h, top), top)
  <2>1. \E f : Right(f, top)
    BY <1>1
  <2>2. QED
    BY <2>1 DEF Walk
<1> DEFINE w == Walk(h, top)
<1>3. \A n \in 0 .. top : w[n] = IF n = 0 THEN {Context} ELSE Further(h, w[n - 1])
  <2>1. w = [n \in 0 .. top |-> IF n = 0 THEN {Context} ELSE Further(h, w[n - 1])]
    BY <1>2
  <2> HIDE DEF w
  <2>2. TAKE n \in 0 .. top
  <2>3. QED
    BY <2>1
<1>4. 0 \in 0 .. top /\ \A n \in 1 .. top : n \in 0 .. top /\ n # 0
  OBVIOUS
<1>5. QED
  <2> HIDE DEF w
  <2>1. w[0] = {Context} /\ \A n \in 1 .. top : w[n] = Further(h, w[n - 1])
    BY <1>3, <1>4
  <2>2. QED
    BY <2>1 DEF w

LEMMA ListedIsWalk == Listed = Walk(hdr, Total)[Total \div Header]
  BY DEF Listed, Walk, Further

LEMMA Division ==
  ASSUME NEW a \in Nat, NEW s \in Nat \ {0}
  PROVE  /\ a \div s \in 0 .. a
         /\ (a \div s) * s \in Nat /\ (a \div s) * s <= a /\ (a \div s) * s > a - s
<1>1. a % s \in 0 .. (s - 1)
  OBVIOUS
<1>2. a = (a \div s) * s + (a % s)
  OBVIOUS
<1>3. a \div s \in Nat
  OBVIOUS
<1> DEFINE q == a \div s
<1>4. q * s \in Nat /\ q * s >= q
  <2>1. q \in Nat
    BY <1>3
  <2> HIDE DEF q
  <2>2. q * s \in Nat
    BY <2>1
  <2>3. q * (s - 1) >= 0
    BY <2>1
  <2>4. q * (s - 1) = q * s - q
    BY <2>1
  <2>5. QED
    BY <2>1, <2>2, <2>3, <2>4
<1>5. q * s <= a /\ q * s > a - s
  <2>1. a = q * s + (a % s)
    BY <1>2
  <2> HIDE DEF q
  <2>2. QED
    BY <2>1, <1>1, <1>4
<1>6. QED
  BY <1>3, <1>4, <1>5

(* Header units per block are enough to get anywhere in the region.        *)
LEMMA FarEnough ==
  /\ Total \div Header \in 0 .. Total
  /\ (Total \div Header) * Header > Total - Header
  BY Division, Constants

LEMMA ListedIsLive ==
  ASSUME hdr \in Headers, Tiled(hdr)
  PROVE  Listed = Live(hdr)
<1> DEFINE w == Walk(hdr, Total)
<1>1. w[0] = {Context} /\ \A n \in 1 .. Total : w[n] = Further(hdr, w[n - 1])
  BY WalkDefined, Constants
<1> HIDE DEF w
<1>2. \A n \in 0 .. Total : w[n] \subseteq Live(hdr)
  <2> DEFINE Bad == {n \in 0 .. Total : ~ (w[n] \subseteq Live(hdr))}
  <2>1. SUFFICES ASSUME Bad # {} PROVE FALSE
    OBVIOUS
  <2>2. Bad \in SUBSET Nat
    OBVIOUS
  <2>3. PICK n \in Bad : \A y \in Bad : n <= y
    <3> HIDE DEF Bad
    <3>1. QED
      BY <2>1, <2>2, Least
  <2>4. n \in 0 .. Total /\ Total \in Nat /\ ~ (w[n] \subseteq Live(hdr))
    BY Constants
  <2>5. n # 0
    BY <2>4, <1>1 DEF Tiled
  <2>6. n \in 1 .. Total /\ n - 1 \in 0 .. Total /\ n - 1 < n
    BY <2>4, <2>5
  <2>7. w[n - 1] \subseteq Live(hdr)
    <3>1. n - 1 \notin Bad
      <4> HIDE DEF Bad
      <4>1. QED
        BY <2>3, <2>4, <2>6
    <3>2. QED
      BY <3>1, <2>6
  <2>8. w[n] = w[n - 1] \cup ({hdr[a].next : a \in w[n - 1]} \cap Addr)
    BY <2>6, <1>1 DEF Further
  <2>9. \A a \in Live(hdr) : hdr[a].next \in Addr => hdr[a].next \in Live(hdr)
    BY Constants DEF Tiled
  <2>10. QED
    BY <2>4, <2>7, <2>8, <2>9
<1>3. ASSUME NEW a \in Live(hdr) PROVE a \in Nat /\ a - Context \in Nat /\ a <= Total - Header
  <2>1. a \in Nat /\ Context <= a /\ hdr[a].size \in Nat
    BY Constants DEF Live, Headers, Hdr, Addr, Size
  <2>2. EndOf(hdr, a) <= Total
    <3>1. Total \in Nat /\ \A b \in Addr : b <= Total
      BY Constants DEF Addr
    <3>2. EndOf(hdr, a) = Total \/ EndOf(hdr, a) \in Addr
      BY DEF Tiled, Live
    <3>3. QED
      BY <3>1, <3>2
  <2>3. QED
    BY <2>1, <2>2, Constants DEF EndOf
<1>4. \A n \in 0 .. Total : \A a \in Live(hdr) : n * Header >= a - Context => a \in w[n]
  <2> DEFINE Bad == {n \in 0 .. Total :
                       \E a \in Live(hdr) : n * Header >= a - Context /\ a \notin w[n]}
  <2>1. SUFFICES ASSUME Bad # {} PROVE FALSE
    OBVIOUS
  <2>2. Bad \in SUBSET Nat
    OBVIOUS
  <2>3. PICK n \in Bad : \A y \in Bad : n <= y
    <3> HIDE DEF Bad
    <3>1. QED
      BY <2>1, <2>2, Least
  <2>4. n \in 0 .. Total /\ Total \in Nat
    BY Constants
  <2>5. PICK a \in Live(hdr) : n * Header >= a - Context /\ a \notin w[n]
    OBVIOUS
  <2>6. n # 0
    <3>1. SUFFICES ASSUME n = 0 PROVE FALSE
      OBVIOUS
    <3>2. n * Header = 0
      BY <3>1, Constants
    <3>3. a - Context = 0
      BY <3>2, <2>5, <1>3
    <3>4. a = Context
      BY <3>3, Constants DEF Live
    <3>5. QED
      BY <3>4, <3>1, <2>5, <1>1
  <2>7. n \in 1 .. Total /\ n - 1 \in 0 .. Total /\ n - 1 < n
    BY <2>4, <2>6
  <2>8. \A b \in Live(hdr) : (n - 1) * Header >= b - Context => b \in w[n - 1]
    <3>1. n - 1 \notin Bad
      <4> HIDE DEF Bad
      <4>1. QED
        BY <2>3, <2>4, <2>7
    <3>2. QED
      BY <3>1, <2>7
  <2>9. (n - 1) * Header = n * Header - Header /\ (n - 1) * Header >= 0
    BY <2>7, Constants
  <2>10. w[n] = w[n - 1] \cup ({hdr[b].next : b \in w[n - 1]} \cap Addr)
    BY <2>7, <1>1 DEF Further
  <2>11. CASE a = Context
    <3>1. (n - 1) * Header >= a - Context
      BY <2>11, <2>9, Constants
    <3>2. QED
      BY <3>1, <2>8, <2>10, <2>5
  <2>12. CASE a # Context
    <3> DEFINE p == hdr[a].prev
    <3>1. p \in Live(hdr) /\ hdr[p].next = a
      BY <2>12 DEF Tiled
    <3>2. a = p + Header + hdr[p].size
      <4>1. a # NULL
        BY Constants DEF Live
      <4>2. QED
        BY <3>1, <4>1 DEF Tiled, EndOf
    <3>3. p \in Nat /\ hdr[p].size \in Nat
      <4>1. p \in Addr /\ Addr \subseteq Nat
        BY <3>1, Constants DEF Live
      <4>2. hdr[p] \in Hdr
        BY <4>1 DEF Headers
      <4> HIDE DEF p
      <4>3. QED
        BY <4>1, <4>2 DEF Hdr, Size
    <3>4. (n - 1) * Header >= p - Context
      <4> HIDE DEF p
      <4>1. n * Header \in Int
        BY <2>4, Constants
      <4>2. QED
        BY <4>1, <3>2, <3>3, <2>9, <2>5, Constants
    <3>5. p \in w[n - 1]
      BY <3>1, <3>4, <2>8
    <3>6. a \in Addr
      BY DEF Live
    <3> HIDE DEF p
    <3>7. QED
      BY <3>5, <3>1, <3>6, <2>10, <2>5
  <2>13. QED
    BY <2>11, <2>12
<1>5. ASSUME NEW a \in Live(hdr) PROVE a \in w[Total \div Header]
  <2> DEFINE q == Total \div Header
  <2>1. q \in 0 .. Total /\ q * Header > Total - Header
    BY FarEnough
  <2> HIDE DEF q
  <2>2. q * Header \in Int
    BY <2>1, Constants
  <2>3. q * Header >= a - Context
    BY <2>1, <2>2, <1>3, Constants
  <2>4. QED
    BY <2>1, <2>3, <1>4 DEF q
<1>6. w[Total \div Header] \subseteq Live(hdr)
  BY <1>2, FarEnough
<1>7. QED
  BY <1>5, <1>6, ListedIsWalk DEF w

-----------------------------------------------------------------------------
(* The two changes to the header memory.                                   *)

(* g is h but that block a, if there is one, points back to p.             *)
IsSetPrev(h, g, a, p) ==
  /\ g \in Headers
  /\ \A x \in Addr :
       /\ g[x].magic = h[x].magic /\ g[x].size = h[x].size /\ g[x].next = h[x].next
       /\ g[x].prev = IF x = a THEN p ELSE h[x].prev

(* g is h with block a cut to n units, the rest a free block of its own.   *)
IsCut(h, g, a, n) ==
  LET b == a + Header + n IN
  /\ g \in Headers
  /\ \A x \in Addr :
       /\ g[x].magic = IF x = b THEN "FREE" ELSE h[x].magic
       /\ g[x].size = IF x = b THEN h[a].size - n - Header ELSE IF x = a THEN n ELSE h[x].size
       /\ g[x].next = IF x = b THEN h[a].next ELSE IF x = a THEN b ELSE h[x].next
       /\ g[x].prev = IF x = b THEN a ELSE IF x = h[a].next THEN b ELSE h[x].prev

(* g is h with block a having absorbed its successor b.                    *)
IsMerge(h, g, a, b) ==
  /\ g \in Headers
  /\ \A x \in Addr :
       /\ g[x].magic = IF x = b THEN "none" ELSE h[x].magic
       /\ g[x].size = IF x = b THEN 0
                      ELSE IF x = a THEN h[a].size + Header + h[b].size ELSE h[x].size
       /\ g[x].next = IF x = b THEN NULL ELSE IF x = a THEN h[b].next ELSE h[x].next
       /\ g[x].prev = IF x = b THEN NULL ELSE IF x = h[b].next THEN a ELSE h[x].prev

LEMMA HeaderType ==
  ASSUME NEW h \in Headers, NEW a \in Addr
  PROVE  /\ h[a] \in Hdr
         /\ h[a].magic \in {"none", "FREE", "ALOC"} /\ h[a].size \in Nat /\ h[a].size \in Size
         /\ h[a].next \in Addr \cup {NULL} /\ h[a].prev \in Addr \cup {NULL}
<1>1. h[a] \in Hdr
  BY DEF Headers
<1>2. Size \subseteq Nat
  BY DEF Size
<1>3. QED
  BY <1>1, <1>2 DEF Hdr

LEMMA SetPrevIs ==
  ASSUME NEW h \in Headers, NEW a \in Addr \cup {NULL}, NEW p \in Addr \cup {NULL}
  PROVE  IsSetPrev(h, SetPrev(h, a, p), a, p)
<1>1. CASE a = NULL
  BY <1>1, Constants DEF SetPrev, IsSetPrev
<1>2. CASE a # NULL
  <2>1. SetPrev(h, a, p) = [x \in Addr |-> IF x = a THEN [h[x] EXCEPT !.prev = p] ELSE h[x]]
    BY <1>2 DEF SetPrev, Headers
  <2>2. \A r \in Hdr : /\ [r EXCEPT !.prev = p] \in Hdr
                       /\ [r EXCEPT !.prev = p].magic = r.magic
                       /\ [r EXCEPT !.prev = p].size = r.size
                       /\ [r EXCEPT !.prev = p].next = r.next
                       /\ [r EXCEPT !.prev = p].prev = p
    BY DEF Hdr
  <2>3. \A x \in Addr : h[x] \in Hdr
    BY DEF Headers
  <2>4. QED
    BY <2>1, <2>2, <2>3 DEF Headers, IsSetPrev
<1>3. QED
  BY <1>1, <1>2

(* A cut, as split_block and heap_memalign write it.                       *)
LEMMA CutIs ==
  ASSUME NEW h \in Headers, NEW a \in Addr, NEW n \in Nat, NEW s \in Nat, NEW k \in Nat,
         NEW b \in Addr, b = a + Header + n, s = h[a].size - n - Header, k = n,
         h[a].next # a, h[a].next # b
  PROVE  IsCut(h, SetPrev([h EXCEPT ![b] = [magic |-> "FREE", size |-> s, next |-> h[a].next, prev |-> a],
                                    ![a].next = b, ![a].size = k], h[a].next, b), a, n)
<1> DEFINE new == [magic |-> "FREE", size |-> s, next |-> h[a].next, prev |-> a]
           f == [h EXCEPT ![b] = new, ![a].next = b, ![a].size = k]
<1>1. a # b
  BY Constants
<1>2. new \in Hdr
  <2>1. s \in Size /\ h[a].next \in Addr \cup {NULL}
    BY HeaderType, Constants DEF Size
  <2>2. QED
    BY <2>1 DEF Hdr
<1> DEFINE old == [[h[a] EXCEPT !.next = b] EXCEPT !.size = k]
<1>3. /\ old \in Hdr
      /\ old.magic = h[a].magic /\ old.size = k /\ old.next = b /\ old.prev = h[a].prev
  <2>1. k \in Size /\ h[a] \in Hdr
    BY HeaderType, Constants DEF Size
  <2>2. QED
    BY <2>1 DEF Hdr
<1>4. f = [x \in Addr |-> IF x = b THEN new ELSE IF x = a THEN old ELSE h[x]]
  BY <1>1 DEF Headers
<1>5. /\ new.magic = "FREE" /\ new.size = s /\ new.next = h[a].next /\ new.prev = a
  OBVIOUS
<1> HIDE DEF f, new, old
<1>6. f \in Headers
  BY <1>2, <1>3, <1>4 DEF Headers
<1>7. h[a].next \in Addr \cup {NULL}
  BY HeaderType
<1> DEFINE g == SetPrev(f, h[a].next, b)
<1>8. IsSetPrev(f, g, h[a].next, b)
  BY <1>6, <1>7, SetPrevIs
<1> HIDE DEF g
<1>9. ASSUME NEW x \in Addr
      PROVE  /\ g[x].magic = IF x = b THEN "FREE" ELSE h[x].magic
             /\ g[x].size = IF x = b THEN s ELSE IF x = a THEN k ELSE h[x].size
             /\ g[x].next = IF x = b THEN h[a].next ELSE IF x = a THEN b ELSE h[x].next
             /\ g[x].prev = IF x = b THEN a ELSE IF x = h[a].next THEN b ELSE h[x].prev
  <2>1. CASE x = b
    BY <2>1, <1>4, <1>5, <1>8 DEF IsSetPrev
  <2>2. CASE x = a
    BY <2>2, <1>1, <1>3, <1>4, <1>8 DEF IsSetPrev
  <2>3. CASE x # a /\ x # b
    BY <2>3, <1>4, <1>8 DEF IsSetPrev
  <2>4. QED
    BY <2>1, <2>2, <2>3
<1>10. IsCut(h, g, a, n)
  BY <1>8, <1>9 DEF IsSetPrev, IsCut
<1>11. QED
  BY <1>10 DEF g, f, new

LEMMA MergeIs ==
  ASSUME NEW h \in Headers, NEW a \in Addr, NEW b \in Addr, a # b,
         h[a].size + Header + h[b].size \in Size, h[b].next # b
  PROVE  IsMerge(h, Merge(h, a, b), a, b)
<1> DEFINE s == h[a].size + Header + h[b].size
           f == [h EXCEPT ![a].size = @ + Header + h[b].size, ![a].next = h[b].next, ![b] = NoHeader]
           old == [[h[a] EXCEPT !.size = s] EXCEPT !.next = h[b].next]
<1>1. h[b].next \in Addr \cup {NULL}
  BY HeaderType
<1>2. /\ old \in Hdr
      /\ old.magic = h[a].magic /\ old.size = s /\ old.next = h[b].next /\ old.prev = h[a].prev
  <2>1. h[a] \in Hdr
    BY HeaderType
  <2>2. QED
    BY <2>1, <1>1 DEF Hdr
<1>3. /\ NoHeader \in Hdr
      /\ NoHeader.magic = "none" /\ NoHeader.size = 0
      /\ NoHeader.next = NULL /\ NoHeader.prev = NULL
  BY Constants DEF NoHeader, Hdr, Size
<1>4. f = [x \in Addr |-> IF x = b THEN NoHeader ELSE IF x = a THEN old ELSE h[x]]
  BY DEF Headers
<1> HIDE DEF f, old
<1>5. f \in Headers
  BY <1>2, <1>3, <1>4 DEF Headers
<1> DEFINE g == SetPrev(f, h[b].next, a)
<1>6. IsSetPrev(f, g, h[b].next, a)
  BY <1>5, <1>1, SetPrevIs
<1> HIDE DEF g
<1>7. ASSUME NEW x \in Addr
      PROVE  /\ g[x].magic = IF x = b THEN "none" ELSE h[x].magic
             /\ g[x].size = IF x = b THEN 0 ELSE IF x = a THEN s ELSE h[x].size
             /\ g[x].next = IF x = b THEN NULL ELSE IF x = a THEN h[b].next ELSE h[x].next
             /\ g[x].prev = IF x = b THEN NULL ELSE IF x = h[b].next THEN a ELSE h[x].prev
  <2>1. CASE x = b
    BY <2>1, <1>3, <1>4, <1>6 DEF IsSetPrev
  <2>2. CASE x = a
    BY <2>2, <1>2, <1>4, <1>6 DEF IsSetPrev
  <2>3. CASE x # a /\ x # b
    BY <2>3, <1>4, <1>6 DEF IsSetPrev
  <2>4. QED
    BY <2>1, <2>2, <2>3
<1>8. IsMerge(h, g, a, b)
  BY <1>6, <1>7 DEF IsSetPrev, IsMerge
<1>9. QED
  BY <1>8 DEF g, f, Merge, MergeOneWay

-----------------------------------------------------------------------------
(* Both changes keep the tiling.                                           *)

LEMMA BlockFacts ==
  ASSUME NEW h \in Headers, Tiled(h), NEW a \in Live(h)
  PROVE  /\ a \in Addr /\ a \in Nat /\ Context <= a
         /\ h[a].size \in Nat /\ EndOf(h, a) \in Nat /\ a + Header <= EndOf(h, a)
         /\ EndOf(h, a) <= Total /\ h[a].size < Total
         /\ h[a].next \in Addr \cup {NULL}
         /\ h[a].next = NULL => EndOf(h, a) = Total
         /\ h[a].next # NULL => h[a].next = EndOf(h, a) /\ h[a].next \in Live(h) /\ h[h[a].next].prev = a
         /\ h[a].next # a
<1>1. a \in Addr /\ a \in Nat /\ Context <= a
  BY Constants DEF Live, Addr
<1>2. h[a].size \in Nat /\ h[a].next \in Addr \cup {NULL}
  BY <1>1, HeaderType
<1>3. EndOf(h, a) \in Nat /\ a + Header <= EndOf(h, a) /\ a < EndOf(h, a)
  BY <1>1, <1>2, Constants DEF EndOf
<1>4. \/ h[a].next = NULL /\ EndOf(h, a) = Total
      \/ h[a].next = EndOf(h, a) /\ EndOf(h, a) \in Live(h) /\ h[EndOf(h, a)].prev = a
  BY DEF Tiled
<1>5. \A b \in Addr : b < Total
  BY Constants DEF Addr
<1>6. EndOf(h, a) <= Total
  <2>1. CASE EndOf(h, a) = Total
    BY <2>1, Constants
  <2>2. CASE EndOf(h, a) \in Live(h)
    BY <2>2, <1>5, <1>3, Constants DEF Live
  <2>3. QED
    BY <2>1, <2>2, <1>4
<1>7. h[a].next # a
  BY <1>1, <1>3, <1>4, Constants
<1>8. h[a].size < Total
  BY <1>6, <1>1, <1>2, Constants DEF EndOf
<1>9. /\ h[a].next = NULL => EndOf(h, a) = Total
      /\ h[a].next # NULL => h[a].next = EndOf(h, a) /\ h[a].next \in Live(h) /\ h[h[a].next].prev = a
  BY <1>4, Constants DEF Live
<1>10. QED
  BY <1>1, <1>2, <1>3, <1>6, <1>7, <1>8, <1>9

LEMMA CutTiled ==
  ASSUME NEW h \in Headers, Tiled(h), NEW a \in Live(h), NEW n \in Nat, n + Header <= h[a].size,
         NEW g, IsCut(h, g, a, n)
  PROVE  /\ Tiled(g) /\ g \in Headers
         /\ a + Header + n \in Addr \ Live(h)
         /\ Live(g) = Live(h) \cup {a + Header + n} /\ Allocated(g) = Allocated(h)
<1> DEFINE b == a + Header + n
           next == h[a].next
<1>1. /\ a \in Addr /\ a \in Nat /\ Context <= a /\ h[a].size \in Nat
      /\ EndOf(h, a) = a + Header + h[a].size /\ EndOf(h, a) <= Total
      /\ next \in Addr \cup {NULL} /\ next # a
      /\ next = NULL => EndOf(h, a) = Total
      /\ next # NULL => next = EndOf(h, a) /\ next \in Live(h) /\ h[next].prev = a
  BY BlockFacts DEF EndOf
<1>2. b \in Addr /\ b \in Nat /\ a < b /\ b + Header <= EndOf(h, a) /\ b # Context
  BY <1>1, Constants DEF Addr
<1>3. b \notin Live(h)
  <2>1. SUFFICES ASSUME b \in Live(h) PROVE FALSE
    OBVIOUS
  <2>2. EndOf(h, a) <= b
    BY <2>1, <1>2 DEF Tiled
  <2> HIDE DEF b
  <2>3. QED
    BY <2>2, <1>1, <1>2, Constants
<1> HIDE DEF next
<1>4. /\ g \in Headers
      /\ \A x \in Addr :
           /\ g[x].magic = IF x = b THEN "FREE" ELSE h[x].magic
           /\ g[x].size = IF x = b THEN h[a].size - n - Header ELSE IF x = a THEN n ELSE h[x].size
           /\ g[x].next = IF x = b THEN next ELSE IF x = a THEN b ELSE h[x].next
           /\ g[x].prev = IF x = b THEN a ELSE IF x = next THEN b ELSE h[x].prev
  BY DEF IsCut, next
<1>5. EndOf(g, a) = b /\ EndOf(g, b) = EndOf(h, a)
  <2>1. g[a].size = n /\ g[b].size = h[a].size - n - Header
    BY <1>1, <1>2, <1>4
  <2>2. QED
    BY <2>1, <1>1, <1>2, Constants DEF EndOf
<1> HIDE DEF b
<1>6. \A x \in Live(h) : x \in Addr /\ x # b
  BY <1>3 DEF Live
<1>7. Live(g) = Live(h) \cup {b} /\ Allocated(g) = Allocated(h)
  BY <1>2, <1>3, <1>4 DEF Live, Allocated
<1>8. \A x \in Live(h) \ {a} : g[x].next = h[x].next /\ EndOf(g, x) = EndOf(h, x)
  BY <1>4, <1>6 DEF EndOf
<1>9. \A x \in Live(h) \ {next} : g[x].prev = h[x].prev
  BY <1>4, <1>6
<1>10. g[a].next = b /\ g[b].next = next /\ g[b].prev = a /\ (next # NULL => g[next].prev = b)
  BY <1>1, <1>2, <1>3, <1>4
<1>11. Context \in Live(g) /\ g[Context].prev = NULL
  <2>1. Context # next
    BY <1>1, <1>2, Constants
  <2>2. QED
    BY <2>1, <1>7, <1>9 DEF Tiled
<1>12. ASSUME NEW x \in Live(g)
       PROVE  \/ g[x].next = NULL /\ EndOf(g, x) = Total
              \/ g[x].next = EndOf(g, x) /\ EndOf(g, x) \in Live(g) /\ g[EndOf(g, x)].prev = x
  <2>1. CASE x = a
    BY <2>1, <1>5, <1>7, <1>10
  <2>2. CASE x = b
    <3>1. CASE next = NULL
      BY <3>1, <2>2, <1>1, <1>5, <1>10
    <3>2. CASE next # NULL
      BY <3>2, <2>2, <1>1, <1>5, <1>7, <1>10
    <3>3. QED
      BY <3>1, <3>2
  <2>3. CASE x # a /\ x # b
    <3>1. x \in Live(h) \ {a}
      BY <2>3, <1>7
    <3>2. g[x].next = h[x].next /\ EndOf(g, x) = EndOf(h, x)
      BY <3>1, <1>8
    <3>3. CASE h[x].next = NULL /\ EndOf(h, x) = Total
      BY <3>2, <3>3
    <3>4. CASE h[x].next = EndOf(h, x) /\ EndOf(h, x) \in Live(h) /\ h[EndOf(h, x)].prev = x
      <4>1. EndOf(h, x) # next
        BY <3>1, <3>4, <1>1, Constants DEF Live
      <4>2. QED
        BY <4>1, <3>2, <3>4, <1>7, <1>9
    <3>5. QED
      BY <3>1, <3>3, <3>4 DEF Tiled
  <2>4. QED
    BY <2>1, <2>2, <2>3
<1>13. ASSUME NEW x \in Live(g), NEW y \in Live(g), x < y
       PROVE  EndOf(g, x) <= y
  <2>1. \A z \in Live(h) : z \in Nat /\ EndOf(h, z) \in Nat /\ z < EndOf(h, z)
    BY BlockFacts, Constants
  <2>2. \A z, t \in Live(h) : z < t => EndOf(h, z) <= t
    BY DEF Tiled
  <2>3. CASE x \in Live(h) /\ y \in Live(h)
    <3>1. CASE x = a
      BY <3>1, <2>1, <2>2, <2>3, <1>1, <1>2, <1>5, <1>13, Constants
    <3>2. CASE x # a
      BY <3>2, <2>2, <2>3, <1>8, <1>13
    <3>3. QED
      BY <3>1, <3>2
  <2>4. CASE x = b /\ y \in Live(h)
    BY <2>4, <2>1, <2>2, <1>1, <1>2, <1>5, <1>13
  <2>5. CASE x \in Live(h) /\ y = b
    <3>1. CASE x = a
      BY <3>1, <2>5, <1>2, <1>5
    <3>2. CASE x # a
      <4>1. x < a
        <5>1. ~ (a < x)
          BY <2>1, <2>2, <2>5, <1>1, <1>2, <1>13, Constants
        <5>2. x \in Nat /\ a \in Nat
          BY <2>1, <2>5, <1>1
        <5>3. QED
          BY <5>1, <5>2, <3>2
      <4>2. EndOf(h, x) <= a
        BY <4>1, <2>2, <2>5
      <4>3. QED
        BY <4>2, <3>2, <2>1, <2>5, <1>1, <1>2, <1>8
    <3>3. QED
      BY <3>1, <3>2
  <2>6. x # b \/ y # b
    BY <1>2, <1>13
  <2>7. QED
    BY <2>3, <2>4, <2>5, <2>6, <1>7
<1>14. ASSUME NEW y \in Live(g) \ {Context}
       PROVE  g[y].prev \in Live(g) /\ g[g[y].prev].next = y
  <2>1. CASE y = b
    BY <2>1, <1>7, <1>10
  <2>2. CASE y = next
    BY <2>2, <1>1, <1>7, <1>10, Constants DEF Live
  <2>3. CASE y # b /\ y # next
    <3>1. y \in Live(h) \ {Context}
      BY <2>3, <1>7
    <3>2. h[y].prev \in Live(h) /\ h[h[y].prev].next = y
      BY <3>1 DEF Tiled
    <3>3. h[y].prev # a
      BY <3>2, <2>3 DEF next
    <3>4. QED
      BY <3>1, <3>2, <3>3, <2>3, <1>7, <1>8, <1>9
  <2>4. QED
    BY <2>1, <2>2, <2>3
<1>15. Tiled(g)
  BY <1>11, <1>12, <1>13, <1>14 DEF Tiled
<1>16. QED
  BY <1>2, <1>3, <1>4, <1>7, <1>15 DEF b

LEMMA MergeTiled ==
  ASSUME NEW h \in Headers, Tiled(h), NEW a \in Live(h), h[a].next # NULL,
         NEW g, IsMerge(h, g, a, h[a].next)
  PROVE  /\ Tiled(g) /\ g \in Headers
         /\ Live(g) = Live(h) \ {h[a].next} /\ Allocated(g) = Allocated(h) \ {h[a].next}
<1> DEFINE b == h[a].next
           next == h[b].next
<1>1. /\ a \in Addr /\ a \in Nat /\ h[a].size \in Nat
      /\ b = EndOf(h, a) /\ b \in Live(h) /\ b # a /\ h[b].prev = a
      /\ a < EndOf(h, a) /\ EndOf(h, a) = a + Header + h[a].size
  BY BlockFacts, Constants DEF EndOf
<1> HIDE DEF b
<1>2. /\ b \in Addr /\ b \in Nat /\ h[b].size \in Nat
      /\ EndOf(h, b) = b + Header + h[b].size /\ b < EndOf(h, b)
      /\ next \in Addr \cup {NULL} /\ next # b
      /\ next = NULL => EndOf(h, b) = Total
      /\ next # NULL => next = EndOf(h, b) /\ next \in Live(h) /\ h[next].prev = b
  BY <1>1, BlockFacts, Constants DEF EndOf
<1> HIDE DEF next
<1>3. next # a /\ next # Context /\ b # Context
  BY <1>1, <1>2, Constants DEF Addr
<1>4. /\ g \in Headers
      /\ \A x \in Addr :
           /\ g[x].magic = IF x = b THEN "none" ELSE h[x].magic
           /\ g[x].size = IF x = b THEN 0
                          ELSE IF x = a THEN h[a].size + Header + h[b].size ELSE h[x].size
           /\ g[x].next = IF x = b THEN NULL ELSE IF x = a THEN next ELSE h[x].next
           /\ g[x].prev = IF x = b THEN NULL ELSE IF x = next THEN a ELSE h[x].prev
  BY DEF IsMerge, b, next
<1>5. EndOf(g, a) = EndOf(h, b)
  <2>1. g[a].size = h[a].size + Header + h[b].size
    BY <1>1, <1>4
  <2>2. QED
    BY <2>1, <1>1, <1>2, Constants DEF EndOf
<1>6. Live(g) = Live(h) \ {b} /\ Allocated(g) = Allocated(h) \ {b}
  BY <1>4 DEF Live, Allocated
<1>7. \A x \in Live(h) \ {a, b} : g[x].next = h[x].next /\ EndOf(g, x) = EndOf(h, x)
  BY <1>4 DEF EndOf, Live
<1>8. \A x \in Live(h) \ {b, next} : g[x].prev = h[x].prev
  BY <1>4 DEF Live
<1>9. g[a].next = next /\ (next # NULL => g[next].prev = a)
  BY <1>1, <1>2, <1>4
<1>10. a \in Live(g)
  BY <1>1, <1>6
<1>11. Context \in Live(g) /\ g[Context].prev = NULL
  BY <1>3, <1>6, <1>8 DEF Tiled
<1>12. ASSUME NEW x \in Live(g)
       PROVE  \/ g[x].next = NULL /\ EndOf(g, x) = Total
              \/ g[x].next = EndOf(g, x) /\ EndOf(g, x) \in Live(g) /\ g[EndOf(g, x)].prev = x
  <2>1. CASE x = a
    BY <2>1, <1>2, <1>5, <1>6, <1>9
  <2>2. CASE x # a
    <3>1. x \in Live(h) \ {a, b}
      BY <2>2, <1>6
    <3>2. g[x].next = h[x].next /\ EndOf(g, x) = EndOf(h, x)
      BY <3>1, <1>7
    <3>3. CASE h[x].next = NULL /\ EndOf(h, x) = Total
      BY <3>2, <3>3
    <3>4. CASE h[x].next = EndOf(h, x) /\ EndOf(h, x) \in Live(h) /\ h[EndOf(h, x)].prev = x
      <4>1. EndOf(h, x) # next /\ EndOf(h, x) # b
        BY <3>1, <3>4, <1>1, <1>2, Constants DEF Live
      <4>2. QED
        BY <4>1, <3>2, <3>4, <1>6, <1>8
    <3>5. QED
      BY <3>1, <3>3, <3>4 DEF Tiled
  <2>3. QED
    BY <2>1, <2>2
<1>13. ASSUME NEW x \in Live(g), NEW y \in Live(g), x < y
       PROVE  EndOf(g, x) <= y
  <2>1. \A z \in Live(h) : z \in Nat /\ EndOf(h, z) \in Nat /\ z < EndOf(h, z)
    BY BlockFacts, Constants
  <2>2. \A z, t \in Live(h) : z < t => EndOf(h, z) <= t
    BY DEF Tiled
  <2>3. x \in Live(h) /\ y \in Live(h) /\ x # b /\ y # b
    BY <1>6
  <2>4. CASE x = a
    <3>1. b <= y
      BY <2>1, <2>2, <2>3, <2>4, <1>1, <1>13
    <3>2. b < y
      BY <3>1, <2>1, <2>3, <1>2
    <3>3. QED
      BY <3>2, <2>2, <2>3, <2>4, <1>1, <1>5
  <2>5. CASE x # a
    BY <2>5, <2>2, <2>3, <1>7, <1>13
  <2>6. QED
    BY <2>4, <2>5
<1>14. ASSUME NEW y \in Live(g) \ {Context}
       PROVE  g[y].prev \in Live(g) /\ g[g[y].prev].next = y
  <2>1. CASE y = next
    BY <2>1, <1>2, <1>9, <1>10, Constants DEF Live
  <2>2. CASE y # next
    <3>1. y \in Live(h) \ {Context, b}
      BY <1>6
    <3>2. h[y].prev \in Live(h) /\ h[h[y].prev].next = y
      BY <3>1 DEF Tiled
    <3>3. h[y].prev # a /\ h[y].prev # b
      BY <3>1, <3>2, <2>2 DEF next, b
    <3>4. QED
      BY <3>1, <3>2, <3>3, <2>2, <1>6, <1>7, <1>8
  <2>3. QED
    BY <2>1, <2>2
<1>15. Tiled(g)
  BY <1>11, <1>12, <1>13, <1>14 DEF Tiled
<1>16. QED
  BY <1>4, <1>6, <1>15 DEF b

-----------------------------------------------------------------------------
(* What the functions of heap.c do to the header memory.                   *)

(* The headers in S read as before.                                        *)
Same(h, g, S) == \A x \in S : g[x].magic = h[x].magic /\ g[x].size = h[x].size

(* g is h with block a marked m.                                           *)
IsMarked(h, g, a, m) ==
  /\ g \in Headers /\ Tiled(g) /\ Live(g) = Live(h)
  /\ g[a].magic = m
  /\ \A x \in Addr : /\ g[x].size = h[x].size
                     /\ x # a => g[x].magic = h[x].magic

LEMMA Marked ==
  ASSUME NEW h \in Headers, Tiled(h), NEW a \in Live(h), NEW m \in {"FREE", "ALOC"}
  PROVE  IsMarked(h, [h EXCEPT ![a].magic = m], a, m)
<1> DEFINE g == [h EXCEPT ![a].magic = m]
           new == [h[a] EXCEPT !.magic = m]
<1>1. a \in Addr /\ h[a] \in Hdr
  BY HeaderType DEF Live
<1>2. /\ new \in Hdr /\ new.magic = m
      /\ new.size = h[a].size /\ new.next = h[a].next /\ new.prev = h[a].prev
  BY <1>1 DEF Hdr
<1>3. g = [x \in Addr |-> IF x = a THEN new ELSE h[x]]
  BY <1>1 DEF Headers
<1> HIDE DEF g, new
<1>4. g \in Headers
  BY <1>2, <1>3 DEF Headers
<1>5. /\ g[a].magic = m
      /\ \A x \in Addr : /\ g[x].size = h[x].size /\ g[x].next = h[x].next
                         /\ g[x].prev = h[x].prev
                         /\ x # a => g[x].magic = h[x].magic
  BY <1>1, <1>2, <1>3
<1>6. Live(g) = Live(h)
  BY <1>5 DEF Live
<1>7. \A x \in Live(h) : /\ EndOf(g, x) = EndOf(h, x) /\ g[x].next = h[x].next
                         /\ g[x].prev = h[x].prev
  BY <1>5 DEF Live, EndOf
<1>8. Tiled(g)
  BY <1>6, <1>7 DEF Tiled
<1>9. QED
  BY <1>4, <1>5, <1>6, <1>8 DEF g, IsMarked

(* Cutting a block makes at most the two parts touch, if nothing free is   *)
(* behind it.                                                              *)
LEMMA CutTouch ==
  ASSUME NEW h \in Headers, Tiled(h), NEW a \in Live(h), NEW n \in Nat, n + Header <= h[a].size,
         NEW g, IsCut(h, g, a, n), EndOf(h, a) \notin Frees(h),
         NEW x \in Addr, NEW y \in Addr, Touch(g, x, y)
  PROVE  (x = a /\ y = a + Header + n) \/ Touch(h, x, y)
<1> DEFINE b == a + Header + n
<1>1. /\ a \in Addr /\ a \in Nat /\ h[a].size \in Nat
      /\ EndOf(h, a) = a + Header + h[a].size /\ EndOf(h, a) <= Total
  BY BlockFacts DEF EndOf
<1>2. b \in Nat /\ b \in Addr /\ a < b /\ b < EndOf(h, a)
  BY <1>1, Constants DEF Addr
<1>3. b \notin Live(h) /\ Tiled(g) /\ Live(g) = Live(h) \cup {b}
  BY CutTiled
<1> HIDE DEF b
<1>4. /\ \A z \in Addr : /\ g[z].magic = IF z = b THEN "FREE" ELSE h[z].magic
                        /\ g[z].size = IF z = b THEN h[a].size - n - Header ELSE IF z = a THEN n ELSE h[z].size
  BY DEF IsCut, b
<1>5. EndOf(g, b) = EndOf(h, a) /\ EndOf(g, a) = b
  <2>1. g[a].size = n /\ g[b].size = h[a].size - n - Header
    BY <1>1, <1>2, <1>4
  <2>2. QED
    BY <2>1, <1>1, Constants DEF EndOf, b
<1>6. \A z \in Addr \ {a, b} : EndOf(g, z) = EndOf(h, z)
  BY <1>4 DEF EndOf
<1>7. x \in Frees(g) /\ y \in Frees(g) /\ EndOf(g, x) = y
  BY DEF Touch
<1>8. \A z \in Frees(g) \ {b} : z \in Frees(h) /\ z \in Live(h)
  BY <1>4 DEF Frees, Live
<1>9. CASE x = b
  <2>1. y = EndOf(h, a) /\ y # b
    BY <1>9, <1>7, <1>5, <1>2, <1>1
  <2>2. QED
    BY <2>1, <1>7, <1>8
<1>10. CASE x = a
  BY <1>10, <1>7, <1>5 DEF b
<1>11. CASE x # a /\ x # b
  <2>1. EndOf(h, x) = y /\ x \in Live(h) /\ x \in Frees(h)
    BY <1>11, <1>6, <1>7, <1>8
  <2>2. EndOf(h, x) \in Live(h) \/ EndOf(h, x) = Total
    BY <2>1 DEF Tiled
  <2>3. y # b
    <3>1. b # Total
      BY <1>2, Constants DEF Addr
    <3>2. QED
      BY <3>1, <2>1, <2>2, <1>3
  <2>4. QED
    BY <2>1, <2>3, <1>7, <1>8 DEF Touch
<1>12. QED
  BY <1>9, <1>10, <1>11

LEMMA SplitBlock ==
  ASSUME NEW h \in Headers, Tiled(h), NEW a \in Live(h), NEW n \in Nat, n <= h[a].size
  PROVE  LET g == split_block(h, a, n) IN
         /\ g \in Headers /\ Tiled(g) /\ Live(h) \subseteq Live(g)
         /\ Allocated(g) = Allocated(h)
         /\ Same(h, g, Live(h) \ {a})
         /\ g[a].magic = h[a].magic /\ n <= g[a].size
         /\ g = h \/ g[a].size < h[a].size
         /\ EndOf(h, a) \notin Frees(h) => \A x, y \in Addr : Touch(g, x, y) => x = a \/ Touch(h, x, y)
<1> DEFINE g == split_block(h, a, n)
           b == a + Header + n
           rem == (h[a].size - n) % (Word \div Unit)
<1>1. /\ a \in Addr /\ a \in Nat /\ Context <= a /\ h[a].size \in Nat /\ h[a].size < Total
      /\ EndOf(h, a) = a + Header + h[a].size /\ EndOf(h, a) <= Total
      /\ h[a].next # a
      /\ h[a].next # NULL => h[a].next = EndOf(h, a)
  BY BlockFacts DEF EndOf
<1>2. rem = h[a].size - n /\ rem \in Nat
  <2>1. h[a].size - n \in 0 .. (Word \div Unit - 1)
    BY <1>1, Constants
  <2>2. QED
    BY <2>1, Constants
<1> HIDE DEF rem
<1>3. CASE rem < Header + MinBlock
  <2>1. g = h
    BY <1>3 DEF split_block, rem
  <2>2. QED
    BY <2>1 DEF Same
<1>4. CASE ~ (rem < Header + MinBlock)
  <2>1. /\ n + Header <= h[a].size /\ rem - Header \in Nat
        /\ rem - Header = h[a].size - n - Header
    BY <1>1, <1>2, <1>4, Constants
  <2>2. b \in Addr /\ h[a].next # b
    BY <1>1, <2>1, Constants DEF Addr
  <2> HIDE DEF b
  <2>3. b = a + Header + n
    BY DEF b
  <2>4. IsCut(h, SetPrev([h EXCEPT ![b] = [magic |-> "FREE", size |-> rem - Header,
                                           next |-> h[a].next, prev |-> a],
                                   ![a].next = b, ![a].size = n], h[a].next, b), a, n)
    BY <1>1, <2>1, <2>2, <2>3, CutIs
  <2>5. IsCut(h, g, a, n)
    BY <1>4, <2>4 DEF split_block, b, rem
  <2> HIDE DEF g
  <2>6. /\ Tiled(g) /\ g \in Headers /\ b \notin Live(h)
        /\ Live(g) = Live(h) \cup {b} /\ Allocated(g) = Allocated(h)
    BY <2>1, <2>5, CutTiled DEF b
  <2>7. Same(h, g, Live(h) \ {a}) /\ g[a].magic = h[a].magic /\ g[a].size = n
    <3>1. \A x \in Addr : /\ g[x].magic = IF x = b THEN "FREE" ELSE h[x].magic
                          /\ g[x].size = IF x = b THEN h[a].size - n - Header
                                         ELSE IF x = a THEN n ELSE h[x].size
      BY <2>5 DEF IsCut, b
    <3>2. \A x \in Live(h) : x \in Addr /\ x # b
      BY <2>6 DEF Live
    <3>3. QED
      BY <3>1, <3>2 DEF Same
  <2>8. g[a].size < h[a].size
    BY <1>1, <2>1, <2>7, Constants
  <2>9. ASSUME EndOf(h, a) \notin Frees(h), NEW x \in Addr, NEW y \in Addr, Touch(g, x, y)
        PROVE  x = a \/ Touch(h, x, y)
    BY <2>1, <2>5, <2>6, <2>9, CutTouch DEF b
  <2>10. QED
    BY <2>6, <2>7, <2>8, <2>9 DEF g
<1>5. QED
  BY <1>3, <1>4

(* g is h with block a having absorbed its free successor.                 *)
Absorbed(h, g, a) ==
  LET b == h[a].next IN
  /\ b \in Live(h) \ {a} /\ h[b].magic = "FREE"
  /\ g \in Headers /\ Tiled(g) /\ Live(g) = Live(h) \ {b}
  /\ Allocated(g) = Allocated(h)
  /\ Same(h, g, Live(h) \ {a, b})
  /\ g[a].magic = h[a].magic /\ g[a].size = h[a].size + Header + h[b].size

LEMMA MergeNext ==
  ASSUME NEW h \in Headers, Tiled(h), NEW a \in Live(h), IsFree(h, h[a].next)
  PROVE  Absorbed(h, Merge(h, a, h[a].next), a)
<1> DEFINE b == h[a].next
           g == Merge(h, a, b)
<1>1. b # NULL /\ h[b].magic = "FREE"
  BY DEF IsFree
<1>2. /\ b \in Live(h) /\ b # a /\ b = EndOf(h, a) /\ a \in Nat /\ a \in Addr
      /\ EndOf(h, a) = a + Header + h[a].size /\ h[a].size \in Nat
  BY <1>1, BlockFacts DEF EndOf
<1>3. /\ b \in Addr /\ h[b].next # b /\ EndOf(h, b) <= Total /\ h[b].size \in Nat
      /\ EndOf(h, b) = b + Header + h[b].size /\ b \in Nat
      /\ h[b].next # NULL => h[b].next = EndOf(h, b)
  BY <1>2, BlockFacts DEF EndOf
<1>4. h[a].size + Header + h[b].size \in Size
  <2>1. h[a].size + Header + h[b].size \in Nat /\ h[a].size + Header + h[b].size < Total
    <3> HIDE DEF b
    <3>1. QED
      BY <1>2, <1>3, Constants
  <2>2. QED
    BY <2>1, Constants DEF Size
<1>5. IsMerge(h, g, a, b)
  BY <1>2, <1>3, <1>4, MergeIs
<1> HIDE DEF g
<1>7. /\ Tiled(g) /\ g \in Headers /\ Live(g) = Live(h) \ {b}
      /\ Allocated(g) = Allocated(h) \ {b}
  BY <1>1, <1>5, MergeTiled
<1>8. Allocated(g) = Allocated(h)
  BY <1>1, <1>7 DEF Allocated
<1>9. /\ Same(h, g, Live(h) \ {a, b})
      /\ g[a].magic = h[a].magic /\ g[a].size = h[a].size + Header + h[b].size
  <2>1. \A x \in Addr : /\ g[x].magic = IF x = b THEN "none" ELSE h[x].magic
                        /\ g[x].size = IF x = b THEN 0
                             ELSE IF x = a THEN h[a].size + Header + h[b].size ELSE h[x].size
    BY <1>5 DEF IsMerge
  <2>2. \A x \in Live(h) : x \in Addr
    BY DEF Live
  <2> HIDE DEF b
  <2>3. QED
    BY <2>1, <2>2, <1>2 DEF Same
<1>10. QED
  BY <1>1, <1>2, <1>7, <1>8, <1>9 DEF g, Absorbed

(* A block that absorbs another touches what that one touched.             *)
LEMMA AbsorbedTouch ==
  ASSUME NEW h \in Headers, Tiled(h), NEW a \in Live(h), NEW g, Absorbed(h, g, a),
         NEW x \in Addr, NEW y \in Addr, Touch(g, x, y)
  PROVE  /\ y \in Frees(h) /\ y # h[a].next
         /\ IF x = a THEN Touch(h, h[a].next, y) ELSE Touch(h, x, y)
<1> DEFINE b == h[a].next
<1>1. /\ b \in Live(h) \ {a} /\ h[b].magic = "FREE" /\ Live(g) = Live(h) \ {b}
      /\ Same(h, g, Live(h) \ {a, b})
      /\ g[a].magic = h[a].magic /\ g[a].size = h[a].size + Header + h[b].size
  BY DEF Absorbed
<1>2. /\ b = EndOf(h, a) /\ a \in Nat /\ h[a].size \in Nat /\ b \in Addr /\ b \in Nat /\ h[b].size \in Nat
  BY <1>1, BlockFacts, Constants DEF Live
<1> HIDE DEF b
<1>3. EndOf(g, a) = EndOf(h, b)
  BY <1>1, <1>2, Constants DEF EndOf
<1>4. x \in Frees(g) /\ y \in Frees(g) /\ EndOf(g, x) = y
  BY DEF Touch
<1>5. \A z \in Frees(g) : z \in Frees(h) /\ z # b /\ z \in Live(h)
  <2>1. \A z \in Frees(g) : z \in Live(g)
    BY DEF Frees, Live
  <2>2. QED
    BY <2>1, <1>1 DEF Frees, Live, Same
<1>6. \A z \in Frees(g) \ {a} : EndOf(g, z) = EndOf(h, z)
  BY <1>1, <1>5 DEF Same, EndOf
<1>7. b \in Frees(h)
  BY <1>1, <1>2 DEF Frees
<1>8. QED
  BY <1>3, <1>4, <1>5, <1>6, <1>7 DEF Touch, b

LEMMA AbsorbedMerged ==
  ASSUME NEW h \in Headers, Tiled(h), NEW a \in Live(h), NEW g, Absorbed(h, g, a), Merged(h)
  PROVE  Merged(g) /\ EndOf(g, a) \notin Frees(g)
<1> DEFINE b == h[a].next
<1>1. b \in Addr /\ a \in Addr
  BY DEF Absorbed, Live
<1>2. Merged(g)
  BY <1>1, AbsorbedTouch DEF Merged
<1>3. ASSUME EndOf(g, a) \in Frees(g) PROVE FALSE
  <2> DEFINE y == EndOf(g, a)
  <2>1. /\ b \in Live(h) \ {a} /\ h[b].magic = "FREE" /\ Live(g) = Live(h) \ {b} /\ Same(h, g, Live(h) \ {a, b})
        /\ g[a].magic = h[a].magic /\ g[a].size = h[a].size + Header + h[b].size
    BY DEF Absorbed
  <2>2. /\ b = EndOf(h, a) /\ a \in Nat /\ h[a].size \in Nat /\ b \in Nat /\ h[b].size \in Nat
    BY <2>1, BlockFacts, Constants DEF Live
  <2>3. y \in Frees(h) /\ y \in Addr
    <3>1. y \in Live(g) /\ g[y].magic = "FREE" /\ y \in Addr
      BY <1>3 DEF Live, Frees
    <3> HIDE DEF y
    <3>2. QED
      BY <3>1, <2>1 DEF Frees, Same
  <2>4. y = EndOf(h, b)
    <3> HIDE DEF b
    <3>1. QED
      BY <2>1, <2>2, Constants DEF EndOf
  <2>5. b \in Frees(h)
    BY <1>1, <2>1 DEF Frees
  <2>6. QED
    BY <1>1, <2>3, <2>4, <2>5 DEF Merged, Touch
<1>4. QED
  BY <1>2, <1>3

LEMMA Coalesced ==
  ASSUME NEW h \in Headers, Tiled(h), NEW a \in Live(h), h[a].magic = "FREE"
  PROVE  LET g == coalesce_blocks(h, a) IN
         /\ g \in Headers /\ Tiled(g) /\ Allocated(g) = Allocated(h)
         /\ Same(h, g, Allocated(h))
         /\ (\A x, y \in Addr : Touch(h, x, y) => x = a \/ y = a) => Merged(g)
<1> DEFINE f == IF IsFree(h, h[a].next) THEN Merge(h, a, h[a].next) ELSE h
           g == IF IsFree(f, f[a].prev) THEN Merge(f, f[a].prev, a) ELSE f
<1>1. coalesce_blocks(h, a) = g
  BY DEF coalesce_blocks
<1>2. /\ f \in Headers /\ Tiled(f) /\ a \in Live(f) /\ f[a].magic = "FREE"
      /\ Allocated(f) = Allocated(h) /\ Same(h, f, Allocated(h))
      /\ (\A x, y \in Addr : Touch(h, x, y) => x = a \/ y = a) => \A x, y \in Addr : Touch(f, x, y) => y = a
  <2>1. CASE IsFree(h, h[a].next)
    <3> DEFINE b == h[a].next
    <3>1. /\ b \in Live(h) \ {a} /\ h[b].magic = "FREE"
          /\ f \in Headers /\ Tiled(f) /\ Live(f) = Live(h) \ {b}
          /\ Allocated(f) = Allocated(h) /\ Same(h, f, Live(h) \ {a, b})
          /\ f[a].magic = h[a].magic /\ Absorbed(h, f, a)
      <4>1. Absorbed(h, f, a)
        BY <2>1, MergeNext
      <4> HIDE DEF f
      <4>2. QED
        BY <4>1 DEF Absorbed
    <3> HIDE DEF f, b
    <3>2. Allocated(h) \subseteq Live(h) \ {a, b}
      BY <3>1 DEF Allocated, Live
    <3>3. Same(h, f, Allocated(h)) /\ a \in Live(f)
      BY <3>1, <3>2 DEF Same
    <3>4. ASSUME \A x, y \in Addr : Touch(h, x, y) => x = a \/ y = a,
                 NEW x \in Addr, NEW y \in Addr, Touch(f, x, y)
          PROVE  y = a
      <4>1. IF x = a THEN Touch(h, b, y) ELSE Touch(h, x, y)
        BY <3>1, <3>4, AbsorbedTouch DEF b
      <4>2. b \in Addr /\ b # a
        BY <3>1 DEF Live
      <4>3. QED
        BY <4>1, <4>2, <3>4
    <3>5. QED
      BY <3>1, <3>3, <3>4
  <2>2. CASE ~ IsFree(h, h[a].next)
    <3>1. f = h /\ Same(h, f, Allocated(h))
      BY <2>2 DEF Same
    <3>2. ASSUME NEW y \in Addr, Touch(h, a, y)
          PROVE  FALSE
      <4>1. y = EndOf(h, a) /\ h[y].magic = "FREE" /\ y < Total
        BY <3>2, Constants DEF Touch, Frees, Addr
      <4>2. h[a].next = y
        BY <4>1, BlockFacts, Constants
      <4>3. QED
        BY <4>1, <4>2, <2>2, Constants DEF IsFree
    <3>3. QED
      BY <3>1, <3>2
  <2>3. QED
    BY <2>1, <2>2
<1> HIDE DEF f
<1>3. CASE IsFree(f, f[a].prev)
  <2> DEFINE p == f[a].prev
  <2>1. p # NULL /\ f[p].magic = "FREE"
    BY <1>3 DEF IsFree
  <2>2. a # Context
    BY <1>2, <2>1 DEF Tiled
  <2>3. p \in Live(f) /\ f[p].next = a
    BY <1>2, <2>2 DEF Tiled
  <2>4. IsFree(f, f[p].next)
    BY <2>3, <1>2, Constants DEF IsFree, Live
  <2> HIDE DEF p
  <2>5. g = Merge(f, p, f[p].next)
    BY <1>3, <2>3 DEF p
  <2> HIDE DEF g
  <2>6. /\ g \in Headers /\ Tiled(g) /\ Allocated(g) = Allocated(f)
        /\ Same(f, g, Live(f) \ {p, a}) /\ f[p].magic = "FREE" /\ Absorbed(f, g, p)
    <3>1. Absorbed(f, g, p)
      BY <1>2, <2>3, <2>4, <2>5, MergeNext
    <3>2. QED
      BY <3>1, <2>1, <2>3 DEF Absorbed, p
  <2>7. Allocated(f) \subseteq Live(f) \ {p, a}
    BY <1>2, <2>6 DEF Allocated, Live
  <2>8. ASSUME \A x, y \in Addr : Touch(f, x, y) => y = a
        PROVE  Merged(g)
    <3>1. SUFFICES ASSUME NEW x \in Addr, NEW y \in Addr, Touch(g, x, y) PROVE FALSE
      BY DEF Merged
    <3>2. y # a /\ (IF x = p THEN Touch(f, a, y) ELSE Touch(f, x, y))
      <4>1. Absorbed(f, g, p)
        BY <2>6
      <4>2. QED
        BY <4>1, <3>1, <2>3, <1>2, AbsorbedTouch
    <3>3. a \in Addr
      BY <1>2 DEF Live
    <3>4. QED
      BY <3>2, <3>3, <2>8
  <2>9. QED
    BY <1>1, <1>2, <2>6, <2>7, <2>8 DEF Same
<1>4. CASE ~ IsFree(f, f[a].prev)
  <2>1. ASSUME \A x, y \in Addr : Touch(f, x, y) => y = a
        PROVE  Merged(f)
    <3>1. SUFFICES ASSUME NEW x \in Addr, Touch(f, x, a) PROVE FALSE
      BY <2>1 DEF Merged
    <3>2. x \in Live(f) /\ EndOf(f, x) = a /\ f[x].magic = "FREE"
      BY <3>1 DEF Touch, Frees, Live
    <3>3. a # Total
      BY <1>2, Constants DEF Live, Addr
    <3>4. f[a].prev = x
      BY <3>2, <3>3, <1>2 DEF Tiled
    <3>5. QED
      BY <3>2, <3>4, <1>4, Constants DEF IsFree, Live
  <2>2. QED
    BY <2>1, <1>1, <1>2, <1>4
<1>5. QED
  BY <1>3, <1>4

LEMMA FreedBlock ==
  ASSUME NEW h \in Headers, Tiled(h), NEW a \in Allocated(h)
  PROVE  LET g == Freed(h, a) IN
         /\ g \in Headers /\ Tiled(g) /\ Allocated(g) = Allocated(h) \ {a}
         /\ Same(h, g, Allocated(h) \ {a})
         /\ Merged(h) => Merged(g)
<1> DEFINE f == [h EXCEPT ![a].magic = "FREE"]
           g == coalesce_blocks(f, a)
<1>1. a \in Live(h) /\ a \in Addr
  BY DEF Allocated, Live
<1>2. IsMarked(h, f, a, "FREE")
  BY <1>1, Marked
<1> HIDE DEF f
<1>3. /\ g \in Headers /\ Tiled(g) /\ Allocated(g) = Allocated(f) /\ Same(f, g, Allocated(f))
      /\ (\A x, y \in Addr : Touch(f, x, y) => x = a \/ y = a) => Merged(g)
  BY <1>1, <1>2, Coalesced DEF IsMarked
<1> HIDE DEF g
<1>4. Allocated(f) = Allocated(h) \ {a} /\ \A x \in Allocated(f) : f[x].size = h[x].size /\ f[x].magic = h[x].magic
  BY <1>2 DEF Allocated, IsMarked
<1>5. ASSUME Merged(h), NEW x \in Addr, NEW y \in Addr, Touch(f, x, y)
      PROVE  x = a \/ y = a
  BY <1>2, <1>5 DEF IsMarked, Merged, Touch, Frees, EndOf
<1>6. QED
  BY <1>3, <1>4, <1>5 DEF Freed, f, g, Same

LEMMA Claimed ==
  ASSUME NEW h \in Headers, Tiled(h), NEW a \in Live(h), h[a].magic = "FREE",
         NEW n \in Nat, n <= h[a].size
  PROVE  LET g == Claim(h, a, n) IN
         /\ g \in Headers /\ Tiled(g) /\ Allocated(g) = Allocated(h) \cup {a}
         /\ Same(h, g, Allocated(h)) /\ n <= g[a].size
         /\ EndOf(h, a) \notin Frees(h) /\ (\A x, y \in Addr : Touch(h, x, y) => y = a) => Merged(g)
         /\ Merged(h) => Merged(g)
<1> DEFINE f == split_block(h, a, n)
           g == [f EXCEPT ![a].magic = "ALOC"]
<1>1. /\ f \in Headers /\ Tiled(f) /\ Live(h) \subseteq Live(f) /\ Allocated(f) = Allocated(h)
      /\ Same(h, f, Live(h) \ {a}) /\ n <= f[a].size
      /\ EndOf(h, a) \notin Frees(h) => \A x, y \in Addr : Touch(f, x, y) => x = a \/ Touch(h, x, y)
  BY SplitBlock
<1>2. Claim(h, a, n) = g
  BY DEF Claim
<1> HIDE DEF f
<1>3. a \in Live(f) /\ a \in Addr
  BY <1>1 DEF Live
<1>4. IsMarked(f, g, a, "ALOC")
  BY <1>1, <1>3, Marked
<1> HIDE DEF g
<1>5. Allocated(g) = Allocated(f) \cup {a}
  BY <1>3, <1>4 DEF Allocated, IsMarked
<1>6. Allocated(h) \subseteq Live(h) \ {a} /\ Allocated(h) \subseteq Addr \ {a}
  BY DEF Allocated, Live
<1>7. Same(h, g, Allocated(h))
  BY <1>1, <1>4, <1>6 DEF Same, IsMarked
<1>8. ASSUME EndOf(h, a) \notin Frees(h), \A x, y \in Addr : Touch(h, x, y) => y = a
      PROVE  Merged(g)
  <2>1. SUFFICES ASSUME NEW x \in Addr, NEW y \in Addr, Touch(g, x, y) PROVE FALSE
    BY DEF Merged
  <2>2. x # a /\ y # a /\ Touch(f, x, y)
    BY <2>1, <1>4 DEF Touch, Frees, EndOf, IsMarked
  <2>3. QED
    BY <2>2, <1>1, <1>8
<1>9. ASSUME Merged(h) PROVE Merged(g)
  <2>1. a \in Frees(h)
    BY <1>3 DEF Frees
  <2>2. EndOf(h, a) \notin Frees(h)
    BY <1>9, <2>1 DEF Merged, Touch, Frees
  <2>3. QED
    BY <1>8, <1>9, <2>2 DEF Merged
<1>10. QED
  BY <1>1, <1>2, <1>3, <1>4, <1>5, <1>7, <1>8, <1>9 DEF IsMarked

(* heap_memalign cuts off a leading block, if any, and keeps the rest free.*)
LEMMA Carved ==
  ASSUME NEW h \in Headers, Tiled(h), NEW a \in Live(h), h[a].magic = "FREE",
         NEW pad \in Nat, pad <= h[a].size, pad = 0 \/ Header <= pad
  PROVE  LET g == Carve(h, a, pad) IN
         /\ g \in Headers /\ Tiled(g) /\ Allocated(g) = Allocated(h)
         /\ Same(h, g, Allocated(h))
         /\ a + pad \in Live(g) /\ g[a + pad].magic = "FREE" /\ g[a + pad].size = h[a].size - pad
         /\ Merged(h) => /\ EndOf(g, a + pad) \notin Frees(g)
                         /\ \A x, y \in Addr : Touch(g, x, y) => y = a + pad
<1> DEFINE g == Carve(h, a, pad)
<1>1. /\ a \in Addr /\ a \in Nat /\ Context <= a /\ h[a].size \in Nat
      /\ EndOf(h, a) = a + Header + h[a].size /\ EndOf(h, a) <= Total
      /\ h[a].next # a
      /\ h[a].next # NULL => h[a].next = EndOf(h, a)
  BY BlockFacts DEF EndOf
<1>2. ASSUME Merged(h) PROVE EndOf(h, a) \notin Frees(h)
  BY <1>1, <1>2 DEF Merged, Touch, Frees
<1>3. CASE pad = 0
  <2>1. g = h /\ a + pad = a /\ h[a].size - pad = h[a].size
    BY <1>1, <1>3 DEF Carve
  <2>2. QED
    BY <2>1, <1>2 DEF Same, Merged
<1>4. CASE pad # 0
  <2> DEFINE b == a + pad
             n == pad - Header
             s == h[a].size - pad
  <2>1. /\ n \in Nat /\ s \in Nat /\ b = a + Header + n /\ s = h[a].size - n - Header
        /\ n + Header <= h[a].size
    BY <1>1, <1>4, Constants
  <2>2. b \in Addr /\ h[a].next # b
    BY <1>1, <2>1, Constants DEF Addr
  <2>3. g = SetPrev([h EXCEPT ![b] = [magic |-> "FREE", size |-> s, next |-> h[a].next, prev |-> a],
                              ![a].next = b, ![a].size = n], h[a].next, b)
    BY <1>4 DEF Carve
  <2> HIDE DEF b, n, s, g
  <2>4. IsCut(h, g, a, n)
    BY <1>1, <2>1, <2>2, <2>3, CutIs
  <2>5. /\ Tiled(g) /\ g \in Headers /\ b \notin Live(h)
        /\ Live(g) = Live(h) \cup {b} /\ Allocated(g) = Allocated(h)
    BY <2>1, <2>4, CutTiled
  <2>6. \A x \in Addr : /\ g[x].magic = IF x = b THEN "FREE" ELSE h[x].magic
                        /\ g[x].size = IF x = b THEN s ELSE IF x = a THEN n ELSE h[x].size
    BY <2>1, <2>4 DEF IsCut
  <2>7. \A x \in Allocated(h) : x \in Addr /\ x # a /\ x # b
    BY <2>5 DEF Allocated, Live
  <2>8. Same(h, g, Allocated(h))
    BY <2>6, <2>7 DEF Same
  <2>9. ASSUME Merged(h) PROVE /\ EndOf(g, b) \notin Frees(g)
                              /\ \A x, y \in Addr : Touch(g, x, y) => y = b
    <3>1. ASSUME NEW x \in Addr, NEW y \in Addr, Touch(g, x, y)
          PROVE  x = a /\ y = b
      <4>1. EndOf(h, a) \notin Frees(h) /\ n + Header <= h[a].size /\ n \in Nat
        BY <2>1, <2>9, <1>2
      <4>2. (x = a /\ y = a + Header + n) \/ Touch(h, x, y)
        BY <4>1, <3>1, <2>4, CutTouch
      <4>3. QED
        BY <4>2, <2>1, <2>9 DEF Merged
    <3>2. b \in Frees(g) /\ b # a
      BY <1>1, <2>1, <2>2, <2>6, Constants DEF Frees
    <3>3. EndOf(g, b) \notin Frees(g)
      <4>1. SUFFICES ASSUME EndOf(g, b) \in Frees(g) PROVE FALSE
        OBVIOUS
      <4>2. Touch(g, b, EndOf(g, b)) /\ EndOf(g, b) \in Addr
        BY <4>1, <3>2 DEF Touch, Frees
      <4>3. QED
        BY <4>2, <3>1, <3>2, <2>2
    <3>4. QED
      BY <3>1, <3>3
  <2>10. QED
    BY <2>2, <2>5, <2>6, <2>8, <2>9 DEF b, s, g
<1>5. QED
  BY <1>3, <1>4

-----------------------------------------------------------------------------
(* Counting the units of blocks.                                           *)

LEMMA UnitsCount ==
  ASSUME NEW h \in Headers, Tiled(h), NEW a \in Live(h)
  PROVE  /\ Units(h, a) \subseteq Addr /\ IsFiniteSet(Units(h, a))
         /\ Cardinality(Units(h, a)) = Footprint(h, a) /\ Footprint(h, a) \in Nat
<1>1. /\ a \in Nat /\ Context <= a /\ h[a].size \in Nat /\ EndOf(h, a) = a + Header + h[a].size
      /\ EndOf(h, a) <= Total /\ EndOf(h, a) \in Nat
  BY BlockFacts DEF EndOf
<1> DEFINE e == EndOf(h, a)
<1>2. e - 1 \in Int /\ a <= e - 1 /\ e - 1 - a + 1 = Footprint(h, a) /\ Footprint(h, a) \in Nat
  BY <1>1, Constants DEF Footprint
<1> HIDE DEF e
<1>3. IsFiniteSet(a .. (e - 1)) /\ Cardinality(a .. (e - 1)) = e - 1 - a + 1
  BY <1>1, <1>2, FS_Interval
<1>4. a .. (e - 1) \subseteq Addr
  BY <1>1, <1>2, Constants DEF Addr, e
<1>5. QED
  BY <1>2, <1>3, <1>4 DEF Units, e

LEMMA TakenFinite ==
  ASSUME NEW h \in Headers, Tiled(h), NEW S \in SUBSET Live(h)
  PROVE  /\ Taken(h, S) \subseteq Addr /\ IsFiniteSet(Taken(h, S)) /\ Count(h, S) \in Nat
<1>1. Taken(h, S) \subseteq Addr
  BY UnitsCount DEF Taken
<1>2. IsFiniteSet(Addr)
  BY Constants, FS_Interval DEF Addr
<1>3. QED
  BY <1>1, <1>2, FS_Subset, FS_CardinalityType DEF Count

(* One block more is as many units more, since blocks do not overlap.      *)
LEMMA CountAdded ==
  ASSUME NEW h \in Headers, Tiled(h), NEW S \in SUBSET Live(h), NEW a \in Live(h), a \notin S
  PROVE  Count(h, S \cup {a}) = Count(h, S) + Footprint(h, a)
<1>1. Taken(h, S \cup {a}) = Taken(h, S) \cup Units(h, a)
  BY DEF Taken
<1>2. Taken(h, S) \cap Units(h, a) = {}
  <2>1. SUFFICES ASSUME NEW x \in S, NEW c \in Units(h, x), c \in Units(h, a) PROVE FALSE
    BY DEF Taken
  <2>2. /\ x \in Nat /\ a \in Nat /\ EndOf(h, x) \in Nat /\ EndOf(h, a) \in Nat /\ x # a
    BY BlockFacts
  <2>3. EndOf(h, x) <= a \/ EndOf(h, a) <= x
    BY <2>2 DEF Tiled
  <2>4. c \in Int /\ x <= c /\ c < EndOf(h, x) /\ a <= c /\ c < EndOf(h, a)
    BY <2>1, <2>2 DEF Units
  <2>5. QED
    BY <2>2, <2>3, <2>4
<1>3. IsFiniteSet(Taken(h, S)) /\ IsFiniteSet(Units(h, a)) /\ Cardinality(Units(h, a)) = Footprint(h, a)
  BY TakenFinite, UnitsCount
<1>4. Cardinality(Taken(h, S) \cup Units(h, a))
        = Cardinality(Taken(h, S)) + Cardinality(Units(h, a)) - Cardinality(Taken(h, S) \cap Units(h, a))
  BY <1>3, FS_Union
<1>5. Cardinality(Taken(h, S) \cap Units(h, a)) = 0
  BY <1>2, FS_EmptySet
<1>6. Count(h, S) \in Nat /\ Footprint(h, a) \in Nat
  BY TakenFinite, UnitsCount
<1>7. Count(h, S \cup {a}) = Count(h, S) + Footprint(h, a) - 0
  BY <1>1, <1>3, <1>4, <1>5 DEF Count
<1>8. QED
  BY <1>6, <1>7

LEMMA CountSame ==
  ASSUME NEW h, NEW g, NEW S, Same(h, g, S)
  PROVE  Count(g, S) = Count(h, S)
<1>1. \A x \in S : Units(g, x) = Units(h, x)
  BY DEF Same, Units, EndOf
<1>2. Taken(g, S) = Taken(h, S)
  BY <1>1 DEF Taken
<1>3. QED
  BY <1>2 DEF Count

LEMMA CountLent ==
  ASSUME NEW h \in Headers, Tiled(h), NEW g \in Headers, Tiled(g), NEW a \in Addr \ Allocated(h),
         Allocated(g) = Allocated(h) \cup {a}, Same(h, g, Allocated(h))
  PROVE  Count(g, Allocated(g)) = Count(h, Allocated(h)) + Footprint(g, a)
<1>1. Allocated(h) \in SUBSET Live(g) /\ a \in Live(g)
  BY DEF Allocated, Live
<1>2. QED
  BY <1>1, CountAdded, CountSame

LEMMA CountFreed ==
  ASSUME NEW h \in Headers, Tiled(h), NEW g \in Headers, Tiled(g), NEW a \in Allocated(h),
         Allocated(g) = Allocated(h) \ {a}, Same(h, g, Allocated(h) \ {a})
  PROVE  Count(h, Allocated(h)) = Count(g, Allocated(g)) + Footprint(h, a)
<1>1. Allocated(g) \in SUBSET Live(h) /\ a \in Live(h) /\ a \notin Allocated(g)
      /\ Allocated(h) = Allocated(g) \cup {a}
  BY DEF Allocated, Live
<1>2. QED
  BY <1>1, CountAdded, CountSame

LEMMA CountChanged ==
  ASSUME NEW h \in Headers, Tiled(h), NEW g \in Headers, Tiled(g), NEW a \in Allocated(h),
         Allocated(g) = Allocated(h), Same(h, g, Allocated(h) \ {a})
  PROVE  Count(h, Allocated(h)) - Footprint(h, a) = Count(g, Allocated(g)) - Footprint(g, a)
<1> DEFINE S == Allocated(h) \ {a}
<1>1. S \in SUBSET Live(h) /\ S \in SUBSET Live(g) /\ a \in Live(h) /\ a \in Live(g) /\ a \notin S
      /\ Allocated(h) = S \cup {a}
  BY DEF Allocated, Live
<1>2. Same(h, g, S)
  OBVIOUS
<1> HIDE DEF S
<1>3. Count(h, S \cup {a}) = Count(h, S) + Footprint(h, a) /\ Count(g, S \cup {a}) = Count(g, S) + Footprint(g, a)
  BY <1>1, CountAdded
<1>4. Count(g, S) = Count(h, S) /\ Count(h, S) \in Nat /\ Footprint(h, a) \in Nat /\ Footprint(g, a) \in Nat
  BY <1>1, <1>2, CountSame, TakenFinite, UnitsCount
<1>5. QED
  BY <1>1, <1>3, <1>4

LEMMA CountType ==
  ASSUME NEW h \in Headers, Tiled(h)
  PROVE  /\ Count(h, Allocated(h)) \in Nat
         /\ \A a \in Allocated(h) : Footprint(h, a) \in Nat
<1>1. Allocated(h) \in SUBSET Live(h)
  BY DEF Allocated, Live
<1>2. QED
  BY <1>1, TakenFinite, UnitsCount

LEMMA TrustLent ==
  ASSUME NEW h \in Headers, Tiled(h), NEW g \in Headers, Tiled(g), NEW a \in Addr \ Allocated(h),
         Allocated(g) = Allocated(h) \cup {a}, Same(h, g, Allocated(h)),
         Merged(h) => Merged(g), NEW used \in Nat, Trusted(h, used)
  PROVE  Trusted(g, used + Footprint(g, a))
<1> DEFINE c == Count(h, Allocated(h))
           d == Count(g, Allocated(g))
           k == Footprint(g, a)
<1>1. d = c + k
  BY CountLent
<1>2. c \in Nat /\ k \in Nat
  BY CountType
<1>3. used >= c /\ (used = c => Merged(g))
  BY DEF Trusted
<1> HIDE DEF c, d, k
<1>4. used + k >= d /\ (used + k = d => Merged(g))
  BY <1>1, <1>2, <1>3
<1>5. QED
  BY <1>4 DEF Trusted, c, d, k

(* free never has to clamp used_size.                                      *)
LEMMA TrustFreed ==
  ASSUME NEW h \in Headers, Tiled(h), NEW g \in Headers, Tiled(g), NEW a \in Allocated(h),
         Allocated(g) = Allocated(h) \ {a}, Same(h, g, Allocated(h) \ {a}),
         Merged(h) => Merged(g), NEW used \in Nat, Trusted(h, used)
  PROVE  Trusted(g, UsedAfterFree(h, used, a))
<1> DEFINE c == Count(h, Allocated(h))
           d == Count(g, Allocated(g))
           k == Footprint(h, a)
<1>1. c = d + k
  BY CountFreed
<1>2. c \in Nat /\ d \in Nat /\ k \in Nat
  BY CountType
<1>3. used >= c /\ (used = c => Merged(g))
  BY DEF Trusted
<1>4. UsedAfterFree(h, used, a) = IF used >= k THEN used - k ELSE 0
  BY DEF UsedAfterFree
<1> HIDE DEF c, d, k
<1>5. UsedAfterFree(h, used, a) >= d /\ (UsedAfterFree(h, used, a) = d => Merged(g))
  BY <1>1, <1>2, <1>3, <1>4
<1>6. QED
  BY <1>5 DEF Trusted, d

LEMMA TrustResized ==
  ASSUME NEW h \in Headers, Tiled(h), NEW g \in Headers, Tiled(g), NEW a \in Allocated(h),
         Allocated(g) = Allocated(h), Same(h, g, Allocated(h) \ {a}), NEW used \in Nat, Trusted(h, used)
  PROVE  /\ (Merged(h) => Merged(g)) => Trusted(g, used - Footprint(h, a) + Footprint(g, a))
         /\ Footprint(g, a) < Footprint(h, a) => Trusted(g, used)
<1> DEFINE c == Count(h, Allocated(h))
           d == Count(g, Allocated(g))
           k == Footprint(h, a)
           l == Footprint(g, a)
<1>1. c - k = d - l
  BY CountChanged
<1>2. c \in Nat /\ d \in Nat /\ k \in Nat /\ l \in Nat
  BY CountType
<1>3. used >= c /\ (used = c => Merged(h))
  BY DEF Trusted
<1> HIDE DEF c, d, k, l
<1>4. used - k + l >= d /\ (used - k + l = d => Merged(h))
  BY <1>1, <1>2, <1>3
<1>5. l < k => used >= d /\ used # d
  BY <1>1, <1>2, <1>3
<1>6. QED
  BY <1>4, <1>5 DEF Trusted, d, k, l

-----------------------------------------------------------------------------
(* The padding of heap_memalign.                                           *)

LEMMA Multiple ==
  ASSUME NEW x \in Int, NEW d \in Nat \ {0}
  PROVE  x % d = 0 <=> \E q \in Int : x = q * d
<1>1. x % d = x - (x \div d) * d /\ x \div d \in Int
  OBVIOUS
<1>2. ASSUME NEW q \in Int, x = q * d PROVE x % d = 0
  BY <1>2
<1>3. ASSUME x % d = 0 PROVE \E q \in Int : x = q * d
  <2> DEFINE q == x \div d
  <2>1. q \in Int /\ x - q * d = 0
    BY <1>1, <1>3
  <2> HIDE DEF q
  <2>2. q * d \in Int
    BY <2>1
  <2>3. x = q * d
    BY <2>1, <2>2
  <2>4. QED
    BY <2>1, <2>3
<1>4. QED
  BY <1>2, <1>3

(* What is missing to the next multiple of d.                              *)
LEMMA Missing ==
  ASSUME NEW x \in Int, NEW d \in Nat \ {0}
  PROVE  (-x) % d \in 0 .. (d - 1) /\ (x + ((-x) % d)) % d = 0
<1> DEFINE y == -x
           r == y % d
           q == y \div d
<1>1. y \in Int
  OBVIOUS
<1> HIDE DEF y
<1>2. r \in 0 .. (d - 1) /\ y = q * d + r /\ q \in Int
  BY <1>1
<1> HIDE DEF r, q
<1>3. q * d \in Int /\ (-q) * d \in Int /\ (-q) * d = -(q * d)
  BY <1>2
<1>4. x + r = (-q) * d
  <2>1. x = -y
    BY DEF y
  <2>2. QED
    BY <2>1, <1>1, <1>2, <1>3
<1>5. x + r \in Int /\ -q \in Int
  BY <1>2
<1>6. (x + r) % d = 0
  BY <1>4, <1>5, Multiple
<1>7. QED
  BY <1>2, <1>6 DEF r, y

LEMMA MultipleSum ==
  ASSUME NEW x \in Int, NEW y \in Int, NEW d \in Nat \ {0}, x % d = 0, y % d = 0
  PROVE  (x + y) % d = 0
<1>1. PICK q \in Int : x = q * d
  BY Multiple
<1>2. PICK r \in Int : y = r * d
  BY Multiple
<1>3. x + y = (q + r) * d /\ q + r \in Int /\ x + y \in Int
  BY <1>1, <1>2
<1>4. QED
  BY <1>3, Multiple

(* A multiple of d that is not below -d + 1 is not negative.               *)
LEMMA NextMultiple ==
  ASSUME NEW y \in Int, NEW x \in Int, NEW d \in Nat \ {0}, y % d = 0, x % d = 0, y - x > -d
  PROVE  y - x >= 0
<1>1. PICK q \in Int : y = q * d
  BY Multiple
<1>2. PICK r \in Int : x = r * d
  BY Multiple
<1> DEFINE k == q - r
<1>3. y - x = k * d /\ k \in Int
  BY <1>1, <1>2
<1> HIDE DEF k
<1>4. k >= 0
  <2>1. SUFFICES ASSUME k + 1 <= 0 PROVE FALSE
    BY <1>3
  <2>2. (k + 1) * d <= 0
    BY <2>1, <1>3
  <2>3. (k + 1) * d = k * d + d /\ k * d \in Int
    BY <1>3
  <2>4. QED
    BY <2>2, <2>3, <1>3
<1>5. k * d >= 0
  BY <1>3, <1>4
<1>6. QED
  BY <1>3, <1>5

LEMMA Quotient ==
  ASSUME NEW y \in Nat, NEW d \in Nat \ {0}
  PROVE  y = (y \div d) * d + (y % d) /\ y \div d \in Int
<1>1. y = (y \div d) * d + (y % d)
  OBVIOUS
<1>2. QED
  BY <1>1, Division

LEMMA Halved ==
  ASSUME NEW x \in Nat, PowerOfTwo(x), x > 1
  PROVE  \E u \in Nat : x = 2 * u /\ PowerOfTwo(u)
<1>1. x \in 2 .. x /\ x % x = 0
  OBVIOUS
<1>2. x % 2 = 0
  BY <1>1 DEF PowerOfTwo
<1>3. PICK u \in Int : x = u * 2
  BY <1>2, Multiple
<1>4. u \in Nat /\ u > 0 /\ x = 2 * u
  BY <1>3
<1>5. ASSUME NEW d \in 2 .. u, u % d = 0
      PROVE  d % 2 = 0
  <2>1. d \in Nat \ {0} /\ d \in 2 .. x
    BY <1>4
  <2>2. PICK q \in Int : u = q * d
    BY <2>1, <1>4, <1>5, Multiple
  <2>3. x = (2 * q) * d /\ 2 * q \in Int
    BY <2>1, <2>2, <1>4
  <2>4. x % d = 0
    BY <2>1, <2>3, Multiple
  <2>5. QED
    BY <2>1, <2>4 DEF PowerOfTwo
<1>6. QED
  BY <1>4, <1>5 DEF PowerOfTwo

LEMMA PaddingFacts ==
  ASSUME NEW a \in Nat, NEW d \in Nat \ {0}
  PROVE  /\ Padding(a, d) \in Nat /\ Padding(a, d) < Header + MinBlock + d
         /\ Padding(a, d) = 0 \/ Header <= Padding(a, d)
         /\ (a + Header + Padding(a, d)) % d = 0
<1> DEFINE x == a + Header
           pad == (-x) % d
           short == Header + MinBlock - pad
           more == (-short) % d
<1>1. x \in Int
  BY Constants
<1>2. Padding(a, d) = IF pad = 0 \/ short <= 0 THEN pad ELSE pad + short + more
  BY DEF Padding
<1> HIDE DEF x
<1>3. pad \in 0 .. (d - 1) /\ (x + pad) % d = 0
  BY <1>1, Missing
<1> HIDE DEF pad
<1>4. short \in Int
  BY <1>3, Constants
<1>5. pad + short = Header + MinBlock
  BY <1>3, Constants
<1> HIDE DEF short
<1>6. more \in 0 .. (d - 1) /\ (short + more) % d = 0
  BY <1>4, Missing
<1> HIDE DEF more
<1>7. CASE pad = 0 \/ short <= 0
  <2>1. Padding(a, d) = pad
    BY <1>2, <1>7
  <2>2. pad = 0 \/ Header <= pad
    BY <1>3, <1>4, <1>5, <1>7, Constants
  <2>3. QED
    BY <2>1, <2>2, <1>3, Constants DEF x
<1>8. CASE ~ (pad = 0 \/ short <= 0)
  <2>1. Padding(a, d) = Header + MinBlock + more
    BY <1>2, <1>3, <1>4, <1>5, <1>6, <1>8, Constants
  <2>2. x + Padding(a, d) = (x + pad) + (short + more)
    BY <2>1, <1>1, <1>3, <1>4, <1>5, <1>6, Constants
  <2>3. (x + Padding(a, d)) % d = 0
    <3>1. x + pad \in Int /\ short + more \in Int
      BY <1>1, <1>3, <1>4, <1>6
    <3>2. QED
      BY <3>1, <2>2, <1>3, <1>6, MultipleSum
  <2>4. QED
    BY <2>1, <2>3, <1>6, Constants DEF x
<1>9. QED
  BY <1>7, <1>8

(* No aligned place, at the start or behind a leading block, comes before. *)
LEMMA PaddingLeast ==
  ASSUME NEW a \in Nat, NEW d \in Nat \ {0}, NEW p \in Nat, p % d = 0,
         p = a + Header \/ p >= a + Header + Header + MinBlock
  PROVE  a + Header + Padding(a, d) <= p
<1> DEFINE x == a + Header
           pad == (-x) % d
           short == Header + MinBlock - pad
           more == (-short) % d
<1>1. x \in Nat /\ x \in Int
  BY Constants
<1>2. Padding(a, d) = IF pad = 0 \/ short <= 0 THEN pad ELSE pad + short + more
  BY DEF Padding
<1>3. p = x \/ p >= x + Header + MinBlock
  OBVIOUS
<1> SUFFICES x + Padding(a, d) <= p
  OBVIOUS
<1> HIDE DEF x
<1>4. pad \in 0 .. (d - 1) /\ (x + pad) % d = 0
  BY <1>1, Missing
<1>5. CASE p = x
  <2>1. PICK q \in Int : x = q * d
    BY <1>1, <1>5, Multiple
  <2>2. -x = (-q) * d /\ -q \in Int /\ -x \in Int
    BY <2>1, <1>1
  <2>3. pad = 0
    BY <2>2, Multiple
  <2>4. QED
    BY <2>3, <1>1, <1>2, <1>5
<1> HIDE DEF pad
<1>6. short \in Int /\ pad + short = Header + MinBlock
  BY <1>4, Constants
<1> HIDE DEF short
<1>7. more \in 0 .. (d - 1) /\ (short + more) % d = 0
  BY <1>6, Missing
<1> HIDE DEF more
<1>8. CASE p >= x + Header + MinBlock
  <2>1. CASE pad = 0 \/ short <= 0
    <3> DEFINE y == x + pad
    <3>1. p - y > -d /\ y \in Int /\ y % d = 0 /\ p \in Int
      BY <1>1, <1>4, <1>8, Constants
    <3> HIDE DEF y
    <3>2. p - y >= 0
      BY <3>1, NextMultiple
    <3>3. QED
      BY <3>1, <3>2, <2>1, <1>1, <1>2, <1>4 DEF y
  <2>2. CASE ~ (pad = 0 \/ short <= 0)
    <3> DEFINE y == x + pad + (short + more)
    <3>1. y = x + Padding(a, d) /\ y \in Int /\ y = x + (Header + MinBlock) + more
      BY <2>2, <1>1, <1>2, <1>4, <1>6, <1>7, Constants
    <3>2. y % d = 0
      <4>1. x + pad \in Int /\ short + more \in Int
        BY <1>1, <1>4, <1>6, <1>7
      <4>2. QED
        BY <4>1, <1>4, <1>7, MultipleSum
    <3> HIDE DEF y
    <3>3. p - y > -d
      BY <3>1, <1>1, <1>7, <1>8, Constants
    <3>4. p \in Int
      OBVIOUS
    <3>5. p - y >= 0
      BY <3>1, <3>2, <3>3, <3>4, NextMultiple
    <3>6. QED
      BY <3>1, <3>4, <3>5
  <2>3. QED
    BY <2>1, <2>2
<1>9. QED
  BY <1>3, <1>5, <1>8

(* A power of two divides the greater ones.                                *)
LEMMA PowersDivide ==
  ASSUME NEW x \in Nat, PowerOfTwo(x), NEW y \in Nat, PowerOfTwo(y), x <= y
  PROVE  y % x = 0
<1> DEFINE Bad == {z \in Nat : PowerOfTwo(z) /\ \E t \in Nat : PowerOfTwo(t) /\ z <= t /\ t % z # 0}
<1>1. Bad = {}
  <2>1. SUFFICES ASSUME Bad # {} PROVE FALSE
    OBVIOUS
  <2>2. PICK z \in Bad : \A u \in Bad : z <= u
    <3>1. Bad \in SUBSET Nat
      OBVIOUS
    <3> HIDE DEF Bad
    <3>2. QED
      BY <2>1, <3>1, Least
  <2>3. PICK t \in Nat : PowerOfTwo(t) /\ z <= t /\ t % z # 0
    OBVIOUS
  <2>4. z \in Nat /\ PowerOfTwo(z) /\ z > 0
    BY DEF PowerOfTwo
  <2>5. z # 1
    BY <2>3
  <2>6. PICK u \in Nat : z = 2 * u /\ PowerOfTwo(u)
    BY <2>4, <2>5, Halved
  <2>7. PICK v \in Nat : t = 2 * v /\ PowerOfTwo(v)
    <3>1. t > 1
      BY <2>3, <2>4, <2>5
    <3>2. QED
      BY <2>3, <3>1, Halved
  <2>8. u \notin Bad
    BY <2>2, <2>4, <2>6
  <2>9. v % u = 0 /\ u \in Nat \ {0} /\ v \in Int
    <3>1. u <= v /\ v \in Int
      BY <2>3, <2>4, <2>6, <2>7
    <3>2. u \in Nat \ {0}
      BY <2>6 DEF PowerOfTwo
    <3>3. QED
      BY <3>1, <3>2, <2>6, <2>7, <2>8
  <2>10. PICK q \in Int : v = q * u
    BY <2>9, Multiple
  <2>11. t = q * z
    <3>1. 2 * (q * u) = q * (2 * u)
      BY <2>10
    <3>2. QED
      BY <3>1, <2>6, <2>7, <2>10
  <2>12. t % z = 0
    BY <2>3, <2>4, <2>11, Multiple
  <2>13. QED
    BY <2>3, <2>12
<1>2. x \notin Bad
  BY <1>1
<1>3. QED
  BY <1>2

(* Addresses aligned to bytes are, in units, multiples of the alignment.   *)
LEMMA UnitAligned ==
  ASSUME NEW bytes \in Nat, PowerOfTwo(bytes), NEW p \in Nat, (p * Unit) % bytes = 0
  PROVE  p % UnitAlignment(bytes) = 0
<1>1. Unit \in Nat \ {0} /\ PowerOfTwo(Unit) /\ bytes \in Nat \ {0}
  BY HeapAssumption DEF PowerOfTwo
<1>2. CASE bytes < Unit
  BY <1>2 DEF UnitAlignment
<1>3. CASE ~ (bytes < Unit)
  <2> DEFINE k == bytes \div Unit
  <2>1. bytes % Unit = 0
    BY <1>1, <1>3, PowersDivide
  <2>2. bytes = k * Unit + (bytes % Unit) /\ k \in Int
    BY <1>1, Quotient
  <2> HIDE DEF k
  <2>3. k * Unit \in Int
    BY <2>2, <1>1
  <2>4. bytes = k * Unit
    <3> DEFINE r == k * Unit
    <3>1. bytes = r + 0 /\ r \in Int
      <4>1. bytes = r + (bytes % Unit)
        BY <2>2
      <4>2. QED
        BY <2>1, <2>3, <4>1
    <3> HIDE DEF r
    <3>2. bytes = r
      BY <3>1
    <3>3. QED
      BY <3>2 DEF r
  <2>5. k \in Nat \ {0}
    <3>1. SUFFICES ASSUME k <= 0 PROVE FALSE
      BY <2>2
    <3>2. k * Unit <= 0
      BY <3>1, <2>2, <1>1
    <3>3. QED
      BY <3>2, <2>4, <1>1
  <2>6. PICK q \in Int : p * Unit = q * bytes
    <3>1. p * Unit \in Int
      BY <1>1
    <3>2. QED
      BY <3>1, <1>1, Multiple
  <2>7. p * Unit = (q * k) * Unit /\ q * k \in Int
    BY <2>4, <2>5, <2>6, <1>1
  <2>8. p = q * k
    <3> DEFINE r == q * k
    <3>1. r \in Int /\ p * Unit = r * Unit
      BY <2>7
    <3> HIDE DEF r
    <3>2. (p - r) * Unit = 0
      BY <3>1, <1>1
    <3>3. p = r
      BY <3>1, <3>2, <1>1
    <3>4. QED
      BY <3>3 DEF r
  <2>9. p % k = 0
    BY <2>5, <2>8, Multiple
  <2>10. UnitAlignment(bytes) = k
    BY <1>3 DEF UnitAlignment, k
  <2>11. QED
    BY <2>9, <2>10
<1>4. QED
  BY <1>2, <1>3

(* The length of a piece, in units.                                        *)
LEMMA AlignFacts ==
  ASSUME NEW bytes \in Nat
  PROVE  /\ HEAP_ALIGN(bytes) \in Nat
         /\ bytes + Unit - 1 < Word => bytes <= HEAP_ALIGN(bytes) * Unit
<1> DEFINE x == (bytes + Unit - 1) % Word
<1>1. x \in Nat
  BY Constants
<1>2. HEAP_ALIGN(bytes) = x \div Unit
  BY DEF HEAP_ALIGN
<1>3. bytes + Unit - 1 < Word => x = bytes + Unit - 1
  BY Constants
<1> HIDE DEF x
<1>4. x \div Unit \in Nat /\ (x \div Unit) * Unit > x - Unit /\ (x \div Unit) * Unit \in Nat
  <2>1. Unit \in Nat \ {0}
    BY Constants
  <2>2. x \div Unit \in 0 .. x
    BY <1>1, <2>1, Division
  <2>3. (x \div Unit) * Unit \in Nat /\ (x \div Unit) * Unit > x - Unit
    BY <1>1, <2>1, Division
  <2>4. QED
    BY <1>1, <2>2, <2>3
<1>5. QED
  BY <1>1, <1>2, <1>3, <1>4, Constants

-----------------------------------------------------------------------------
(* The inductive invariant.                                                *)

LEMMA InitIInv == Init => IInv
<1> SUFFICES ASSUME Init PROVE IInv
  OBVIOUS
<1> DEFINE s == Total - Context - Header
           whole == [magic |-> "FREE", size |-> s, next |-> NULL, prev |-> NULL]
<1>1. /\ Total - Context - Header \in Size /\ Total - Context - Header \in Nat
      /\ Context + Header + (Total - Context - Header) = Total
  BY Constants DEF Size
<1>2. /\ NoHeader \in Hdr /\ NoHeader.magic = "none"
      /\ whole \in Hdr /\ whole.magic = "FREE" /\ whole.size = s
      /\ whole.next = NULL /\ whole.prev = NULL
  <2>1. s \in Size /\ 0 \in Size
    BY <1>1, Constants DEF Size
  <2> HIDE DEF s
  <2>2. QED
    BY <2>1 DEF NoHeader, Hdr
<1>3. hdr = [a \in Addr |-> IF a = Context THEN whole ELSE NoHeader]
  BY DEF Init
<1> HIDE DEF whole
<1>4. hdr \in Headers
  BY <1>2, <1>3 DEF Headers
<1>5. Live(hdr) = {Context} /\ Allocated(hdr) = {}
  BY <1>2, <1>3, Constants DEF Live, Allocated
<1>6. /\ hdr[Context].next = NULL /\ hdr[Context].prev = NULL
      /\ EndOf(hdr, Context) = Total
  BY <1>1, <1>2, <1>3, Constants DEF EndOf
<1>7. Tiled(hdr)
  BY <1>5, <1>6, Constants DEF Tiled
<1>8. lent = {} /\ used_size = 0
  BY DEF Init
<1>9. Trusted(hdr, used_size)
  <2>1. Count(hdr, Allocated(hdr)) = 0
    BY <1>5, FS_EmptySet DEF Count, Taken
  <2>2. Merged(hdr)
    <3>1. \A x \in Frees(hdr) : x = Context
      BY <1>5 DEF Frees, Live
    <3>2. Total \notin Addr
      BY Constants DEF Addr
    <3>3. QED
      BY <1>6, <3>1, <3>2 DEF Merged, Touch
  <2>3. QED
    BY <2>1, <2>2, <1>8 DEF Trusted
<1>10. QED
  BY <1>4, <1>5, <1>7, <1>8, <1>9 DEF IInv, Held

LEMMA LoanFacts ==
  ASSUME NEW m \in Loan
  PROVE  /\ m.ptr \in Payload /\ m.ptr - Header \in Addr /\ m.ptr \in Nat
         /\ m.size \in MallocSizes \cup ReallocSizes /\ m.size \in Nat
         /\ m.alignment \in Nat \ {0}
         /\ HEAP_ALIGN(m.size) \in Nat
<1>1. m.ptr \in Payload /\ m.size \in MallocSizes \cup ReallocSizes /\ m.alignment \in Nat \ {0}
  BY DEF Loan
<1>2. PICK a \in Addr : m.ptr = a + Header
  BY <1>1 DEF Payload
<1>3. a \in Nat
  BY Constants
<1>4. m.ptr - Header = a /\ m.ptr \in Nat
  BY <1>2, <1>3, Constants
<1>5. m.size \in Nat
  BY <1>1, HeapAssumption
<1>6. QED
  BY <1>1, <1>4, <1>5, AlignFacts

LEMMA GrantFacts ==
  ASSUME NEW a \in Addr, NEW size \in MallocSizes \cup ReallocSizes, NEW al \in Nat \ {0}
  PROVE  /\ Grant(a, size, al) \in Loan
         /\ Grant(a, size, al).ptr = a + Header /\ Grant(a, size, al).ptr - Header = a
         /\ Grant(a, size, al).size = size /\ Grant(a, size, al).alignment = al
<1>1. a \in Nat /\ Header \in Nat
  BY Constants
<1>2. QED
  BY <1>1 DEF Grant, Loan, Payload

(* Whoever may free a pointer holds it.                                    *)
LEMMA HolderOf ==
  ASSUME NEW h \in Headers, NEW loans \in SUBSET Loan, Held(h, loans),
         NEW p \in Payload, p - Header \in Allocated(h)
  PROVE  \E m \in loans : m.ptr = p /\ {k \in loans : k.ptr = p} = {m}
<1>1. PICK m \in loans : p - Header = m.ptr - Header
  BY DEF Held
<1>2. m.ptr = p
  <2>1. PICK a \in Addr : p = a + Header
    BY DEF Payload
  <2>2. p \in Nat /\ m.ptr \in Nat
    BY <2>1, LoanFacts, Constants
  <2>3. QED
    BY <2>2, <1>1, Constants
<1>3. QED
  BY <1>2 DEF Held

(* The client's view of what is lent after a block was freed.              *)
LEMMA HeldAfterFree ==
  ASSUME NEW h \in Headers, NEW g \in Headers, NEW loans \in SUBSET Loan, Held(h, loans),
         NEW p \in Payload, p - Header \in Allocated(h),
         Allocated(g) = Allocated(h) \ {p - Header}, Same(h, g, Allocated(h) \ {p - Header})
  PROVE  Held(g, loans \ {m \in loans : m.ptr = p})
<1>1. PICK m \in loans : m.ptr = p /\ {k \in loans : k.ptr = p} = {m}
  BY HolderOf
<1> DEFINE rest == loans \ {m}
<1>4. \A k \in rest : k.ptr - Header # p - Header /\ k \in Loan
  <2>1. \A k \in rest : k.ptr # m.ptr /\ k.ptr \in Nat /\ m.ptr \in Nat
    BY LoanFacts DEF Held
  <2>2. QED
    BY <2>1, <1>1, Constants
<1>5. Allocated(g) = {k.ptr - Header : k \in rest}
  BY <1>1, <1>4 DEF Held
<1>6. \A k \in rest : g[k.ptr - Header].size = h[k.ptr - Header].size
  BY <1>5 DEF Same
<1>7. Held(g, rest)
  BY <1>5, <1>6 DEF Held
<1>8. QED
  BY <1>1, <1>7

(* ... and after a block was allocated.                                    *)
LEMMA HeldAfterGrant ==
  ASSUME NEW h \in Headers, NEW g \in Headers, NEW loans \in SUBSET Loan, Held(h, loans),
         NEW a \in Addr \ Allocated(h), NEW size \in MallocSizes \cup ReallocSizes,
         NEW al \in Nat \ {0}, (a + Header) % al = 0,
         Allocated(g) = Allocated(h) \cup {a}, Same(h, g, Allocated(h)),
         HEAP_ALIGN(size) <= g[a].size
  PROVE  Held(g, loans \cup {Grant(a, size, al)})
<1> DEFINE new == Grant(a, size, al)
<1>1. /\ new.ptr = a + Header /\ new.ptr - Header = a /\ new.size = size
      /\ new.alignment = al
  BY GrantFacts
<1> HIDE DEF new
<1>2. Allocated(g) = {m.ptr - Header : m \in loans \cup {new}}
  BY <1>1 DEF Held
<1>3. \A m \in loans : m.ptr - Header \in Allocated(h)
  BY DEF Held
<1>4. \A m \in loans : m.ptr # new.ptr
  BY <1>1, <1>3
<1>5. \A m, k \in loans \cup {new} : m.ptr = k.ptr => m = k
  BY <1>4 DEF Held
<1>6. \A m \in loans : m.ptr % m.alignment = 0 /\ HEAP_ALIGN(m.size) <= g[m.ptr - Header].size
  BY <1>3 DEF Held, Same
<1>7. new.ptr % new.alignment = 0 /\ HEAP_ALIGN(new.size) <= g[new.ptr - Header].size
  BY <1>1
<1>8. QED
  BY <1>2, <1>5, <1>6, <1>7 DEF Held, new

(* ... and after one block was exchanged for another, or for itself resized.*)
LEMMA HeldAfterExchange ==
  ASSUME NEW h \in Headers, NEW g \in Headers, NEW loans \in SUBSET Loan, Held(h, loans),
         NEW p \in Payload, p - Header \in Allocated(h),
         NEW a \in Addr, a \notin Allocated(h) \ {p - Header},
         NEW size \in MallocSizes \cup ReallocSizes,
         Allocated(g) = (Allocated(h) \ {p - Header}) \cup {a},
         Same(h, g, Allocated(h) \ {p - Header}),
         HEAP_ALIGN(size) <= g[a].size
  PROVE  Held(g, (loans \ {m \in loans : m.ptr = p}) \cup {Grant(a, size, 1)})
<1>1. PICK m \in loans : m.ptr = p /\ {k \in loans : k.ptr = p} = {m}
  BY HolderOf
<1> DEFINE rest == loans \ {m}
           new == Grant(a, size, 1)
<1>4. \A k \in rest : k.ptr - Header # p - Header /\ k.ptr - Header \in Allocated(h)
  <2>1. \A k \in rest : k.ptr # m.ptr /\ k.ptr \in Nat /\ m.ptr \in Nat
    BY LoanFacts DEF Held
  <2>2. QED
    BY <2>1, <1>1, Constants DEF Held
<1>5. /\ new.ptr = a + Header /\ new.ptr - Header = a /\ new.size = size /\ new.alignment = 1
  BY GrantFacts
<1> HIDE DEF new
<1>6. Allocated(h) \ {p - Header} = {k.ptr - Header : k \in rest}
  BY <1>1, <1>4 DEF Held
<1>7. Allocated(g) = {k.ptr - Header : k \in rest \cup {new}}
  BY <1>5, <1>6
<1>8. \A k \in rest : k.ptr # new.ptr
  BY <1>4, <1>5
<1>9. \A k, j \in rest \cup {new} : k.ptr = j.ptr => k = j
  BY <1>8 DEF Held
<1>10. \A k \in rest : k.ptr % k.alignment = 0 /\ HEAP_ALIGN(k.size) <= g[k.ptr - Header].size
  BY <1>4 DEF Held, Same
<1>11. new.ptr % new.alignment = 0 /\ HEAP_ALIGN(new.size) <= g[new.ptr - Header].size
  <2>1. a + Header \in Nat
    BY Constants
  <2>2. QED
    BY <2>1, <1>5
<1>12. Held(g, rest \cup {new})
  BY <1>7, <1>9, <1>10, <1>11 DEF Held
<1>13. loans \ {k \in loans : k.ptr = p} = rest
  BY <1>1, Zenon
<1> HIDE DEF rest
<1>14. QED
  BY <1>12, <1>13 DEF new

-----------------------------------------------------------------------------
(* Every call keeps the invariant, and deals with one loan.                *)

Lent == \E new \in Loan : (\A m \in lent : m.ptr # new.ptr) /\ lent' = lent \cup {new}
Returned == \E m \in lent : lent' = lent \ {m}
Exchanged == \E m \in lent, new \in Loan : lent' = (lent \ {m}) \cup {new}
ClientStep == lent' = lent \/ Lent \/ Returned \/ Exchanged

LEMMA FreeBlocksFacts ==
  ASSUME IInv
  PROVE  \A a \in FreeBlocks : /\ a \in Live(hdr) /\ hdr[a].magic = "FREE"
                               /\ a \in Addr \ Allocated(hdr) /\ a \in Nat /\ hdr[a].size \in Nat
<1>1. Listed = Live(hdr)
  BY ListedIsLive DEF IInv
<1>2. \A a \in FreeBlocks : a \in Live(hdr) /\ hdr[a].magic = "FREE"
  BY <1>1 DEF FreeBlocks
<1>3. \A a \in Live(hdr) : a \in Addr /\ a \in Nat /\ hdr[a].size \in Nat
  BY BlockFacts DEF IInv
<1>4. QED
  BY <1>2, <1>3 DEF Allocated

LEMMA FootprintType ==
  ASSUME NEW h \in Headers, NEW a \in Addr
  PROVE  Footprint(h, a) \in Nat /\ Footprint(h, a) = Header + h[a].size
  BY HeaderType, Constants DEF Footprint

LEMMA UsedAfterFreeType ==
  ASSUME NEW h \in Headers, NEW a \in Addr, NEW used \in Nat
  PROVE  UsedAfterFree(h, used, a) \in Nat
  BY FootprintType DEF UsedAfterFree

LEMMA MallocStep ==
  ASSUME IInv, NEW size \in MallocSizes \cup ReallocSizes, heap_malloc(size)
  PROVE  IInv' /\ ClientStep
<1> DEFINE n == HEAP_ALIGN(size)
<1>1. n \in Nat /\ n \in Int
  <2>1. size \in Nat
    BY HeapAssumption
  <2>2. QED
    BY <2>1, AlignFacts
<1> HIDE DEF n
<1>2. CASE UNCHANGED vars
  BY <1>2 DEF vars, IInv, ClientStep
<1>3. CASE /\ Fitting(hdr, n) # {}
           /\ LET a == First(Fitting(hdr, n)) IN
              /\ hdr' = Claim(hdr, a, n)
              /\ used_size' = used_size + Footprint(hdr', a)
              /\ lent' = lent \cup {Grant(a, size, 1)}
  <2> DEFINE a == First(Fitting(hdr, n))
  <2>1. a \in FreeBlocks /\ hdr[a].size >= n
    <3>1. Fitting(hdr, n) \in SUBSET Addr
      BY FreeBlocksFacts DEF Fitting
    <3>2. a \in Fitting(hdr, n)
      BY <3>1, <1>3, FirstOf
    <3>3. QED
      BY <3>2 DEF Fitting
  <2>2. /\ hdr' = Claim(hdr, a, n)
        /\ used_size' = used_size + Footprint(hdr', a)
        /\ lent' = lent \cup {Grant(a, size, 1)}
    BY <1>3
  <2> HIDE DEF a
  <2>3. /\ a \in Live(hdr) /\ hdr[a].magic = "FREE" /\ a \in Addr \ Allocated(hdr)
        /\ a \in Nat /\ n <= hdr[a].size
    BY <2>1, <1>1, FreeBlocksFacts
  <2>4. /\ hdr' \in Headers /\ Tiled(hdr') /\ Allocated(hdr') = Allocated(hdr) \cup {a}
        /\ Same(hdr, hdr', Allocated(hdr)) /\ n <= hdr'[a].size
        /\ Merged(hdr) => Merged(hdr')
    BY <2>2, <2>3, <1>1, Claimed DEF IInv
  <2>5. (a + Header) % 1 = 0 /\ 1 \in Nat \ {0}
    BY <2>3, Constants
  <2>6. Held(hdr', lent')
    BY <2>2, <2>3, <2>4, <2>5, HeldAfterGrant DEF IInv, n
  <2>7. /\ Grant(a, size, 1) \in Loan /\ Grant(a, size, 1).ptr - Header = a
    BY <2>3, <2>5, GrantFacts
  <2>8. lent' \in SUBSET Loan
    BY <2>2, <2>7 DEF IInv
  <2>9. used_size' \in Nat
    BY <2>2, <2>3, <2>4, FootprintType DEF IInv
  <2>10. \A m \in lent : m.ptr # Grant(a, size, 1).ptr
    BY <2>3, <2>7 DEF IInv, Held
  <2>11. Lent
    BY <2>2, <2>7, <2>10 DEF Lent
  <2>12. Trusted(hdr', used_size')
    BY <2>2, <2>3, <2>4, TrustLent DEF IInv
  <2>13. IInv'
    BY <2>4, <2>6, <2>8, <2>9, <2>12 DEF IInv
  <2>14. QED
    BY <2>11, <2>13 DEF ClientStep
<1>4. QED
  BY <1>2, <1>3 DEF heap_malloc, Return, n

LEMMA ReleaseStep ==
  ASSUME IInv, NEW p \in Payload, IsAllocated(p), p - Header \in Addr, Release(p)
  PROVE  IInv' /\ ClientStep
<1> DEFINE a == p - Header
<1>1. a \in Allocated(hdr)
  BY DEF IsAllocated, Allocated
<1>2. /\ hdr' \in Headers /\ Tiled(hdr') /\ Allocated(hdr') = Allocated(hdr) \ {a}
      /\ Same(hdr, hdr', Allocated(hdr) \ {a}) /\ (Merged(hdr) => Merged(hdr'))
  BY <1>1, FreedBlock DEF Release, IInv
<1>3. lent' = lent \ {m \in lent : m.ptr = p}
  BY DEF Release, Holding
<1>4. /\ Held(hdr', lent')
      /\ \E m \in lent : m.ptr = p /\ {k \in lent : k.ptr = p} = {m}
  <2>1. hdr \in Headers /\ lent \in SUBSET Loan /\ Held(hdr, lent)
    BY DEF IInv
  <2>2. Held(hdr', lent \ {m \in lent : m.ptr = p})
    BY <1>1, <1>2, <2>1, HeldAfterFree
  <2>3. \E m \in lent : m.ptr = p /\ {k \in lent : k.ptr = p} = {m}
    BY <1>1, <2>1, HolderOf
  <2>4. QED
    BY <2>2, <2>3, <1>3
<1>5. Returned
  BY <1>3, <1>4 DEF Returned
<1>6. used_size' \in Nat
  BY UsedAfterFreeType DEF Release, IInv
<1>7. lent' \in SUBSET Loan
  BY <1>3 DEF IInv
<1>8. Trusted(hdr', used_size')
  BY <1>1, <1>2, TrustFreed DEF Release, IInv
<1>9. QED
  BY <1>2, <1>4, <1>5, <1>6, <1>7, <1>8 DEF IInv, ClientStep

LEMMA ExchangeStep ==
  ASSUME IInv, NEW p \in Payload, p - Header \in Allocated(hdr),
         NEW a \in Addr, a \notin Allocated(hdr) \ {p - Header},
         NEW size \in MallocSizes \cup ReallocSizes,
         hdr' \in Headers, Tiled(hdr'),
         Allocated(hdr') = (Allocated(hdr) \ {p - Header}) \cup {a},
         Same(hdr, hdr', Allocated(hdr) \ {p - Header}),
         HEAP_ALIGN(size) <= hdr'[a].size,
         used_size' \in Nat, Trusted(hdr', used_size'),
         lent' = (lent \ Holding(p)) \cup {Grant(a, size, 1)}
  PROVE  IInv' /\ ClientStep
<1>1. hdr \in Headers /\ lent \in SUBSET Loan /\ Held(hdr, lent)
  BY DEF IInv
<1>2. Held(hdr', (lent \ {m \in lent : m.ptr = p}) \cup {Grant(a, size, 1)})
  BY <1>1, HeldAfterExchange
<1>3. PICK m \in lent : m.ptr = p /\ {k \in lent : k.ptr = p} = {m}
  BY <1>1, HolderOf
<1>4. lent' = (lent \ {m}) \cup {Grant(a, size, 1)} /\ Held(hdr', lent')
  BY <1>2, <1>3 DEF Holding
<1>5. Grant(a, size, 1) \in Loan
  BY GrantFacts
<1>6. Exchanged /\ lent' \in SUBSET Loan
  BY <1>1, <1>4, <1>5 DEF Exchanged
<1>7. QED
  BY <1>4, <1>6 DEF IInv, ClientStep

LEMMA ReallocStep ==
  ASSUME IInv, NEW p \in Payload \cup {NULL}, NEW size \in ReallocSizes, heap_realloc(p, size)
  PROVE  IInv' /\ ClientStep
<1> DEFINE n == HEAP_ALIGN(size)
           a == p - Header
<1>1. n \in Nat /\ size \in MallocSizes \cup ReallocSizes
  <2>1. size \in Nat
    BY HeapAssumption
  <2>2. QED
    BY <2>1, AlignFacts
<1>2. CASE p = NULL /\ heap_malloc(size)
  BY <1>1, <1>2, MallocStep
<1>3. CASE UNCHANGED vars
  BY <1>3 DEF vars, IInv, ClientStep
<1>4. ASSUME p # NULL PROVE a \in Addr
  <2>1. PICK b \in Addr : p = b + Header
    BY <1>4 DEF Payload
  <2>2. b \in Nat
    BY Constants
  <2>3. QED
    BY <2>1, <2>2, Constants
<1>5. CASE p # NULL /\ IsAllocated(p) /\ Release(p)
  BY <1>4, <1>5, ReleaseStep
<1>6. CASE p # NULL /\ IsAllocated(p) /\ (ReallocInPlace(p, size) \/ ReallocExtend(p, size) \/ ReallocMove(p, size))
  <2>1. p \in Payload /\ a \in Addr /\ a \in Allocated(hdr) /\ a \in Live(hdr) /\ hdr[a].magic = "ALOC"
    BY <1>4, <1>6 DEF IsAllocated, Allocated, Live
  <2>2. /\ hdr \in Headers /\ Tiled(hdr) /\ used_size \in Nat /\ hdr[a].size \in Nat
        /\ Footprint(hdr, a) = Header + hdr[a].size
    BY <2>1, HeaderType, FootprintType DEF IInv
  <2>3. Allocated(hdr) = (Allocated(hdr) \ {a}) \cup {a} /\ a \notin Allocated(hdr) \ {a}
    BY <2>1
  <2>4. Allocated(hdr) \ {a} \subseteq Live(hdr) \ {a}
    BY DEF Allocated, Live
  <2>5. CASE ReallocInPlace(p, size)
    <3>1. /\ n <= hdr[a].size
          /\ hdr' = split_block(hdr, a, n)
          /\ lent' = (lent \ Holding(p)) \cup {Grant(a, size, 1)}
          /\ used_size' = used_size
      BY <2>5, <2>2, <1>1 DEF ReallocInPlace
    <3> HIDE DEF a, n
    <3>2. /\ hdr' \in Headers /\ Tiled(hdr') /\ Allocated(hdr') = Allocated(hdr)
          /\ Same(hdr, hdr', Live(hdr) \ {a}) /\ n <= hdr'[a].size
          /\ hdr' = hdr \/ hdr'[a].size < hdr[a].size
      BY <3>1, <2>1, <2>2, <1>1, SplitBlock
    <3>3. Same(hdr, hdr', Allocated(hdr) \ {a})
      BY <3>2, <2>4 DEF Same
    <3>4. Trusted(hdr', used_size')
      <4>1. CASE hdr' = hdr
        BY <4>1, <3>1 DEF IInv
      <4>2. CASE hdr'[a].size < hdr[a].size
        <5>1. Footprint(hdr', a) < Footprint(hdr, a)
          BY <4>2, <3>2, <2>1, <2>2, HeaderType, Constants DEF Footprint
        <5>2. QED
          BY <5>1, <3>1, <3>2, <3>3, <2>1, <2>2, TrustResized DEF IInv
      <4>3. QED
        BY <4>1, <4>2, <3>2
    <3>5. QED
      BY <3>1, <3>2, <3>3, <3>4, <2>1, <2>2, <2>3, <1>1, ExchangeStep DEF a, n
  <2>6. CASE ReallocExtend(p, size)
    <3> DEFINE b == hdr[a].next
               f == Merge(hdr, a, b)
    <3>1. /\ hdr[a].size < n
          /\ IsFree(hdr, b) /\ hdr[a].size + Header + hdr[b].size >= n
          /\ hdr' = split_block(f, a, n)
          /\ used_size' = used_size - Footprint(hdr, a) + Footprint(hdr', a)
          /\ lent' = (lent \ Holding(p)) \cup {Grant(a, size, 1)}
      BY <2>6 DEF ReallocExtend, CanExtend
    <3> HIDE DEF a, n
    <3>2. /\ b \in Live(hdr) \ {a} /\ hdr[b].magic = "FREE"
          /\ f \in Headers /\ Tiled(f) /\ Live(f) = Live(hdr) \ {b}
          /\ Allocated(f) = Allocated(hdr) /\ Same(hdr, f, Live(hdr) \ {a, b})
          /\ f[a].size = hdr[a].size + Header + hdr[b].size /\ f[a].magic = "ALOC"
          /\ Merged(hdr) => Merged(f) /\ EndOf(f, a) \notin Frees(f)
      <4>1. hdr \in Headers /\ Tiled(hdr) /\ a \in Live(hdr) /\ IsFree(hdr, hdr[a].next)
        BY <3>1, <2>1, <2>2
      <4>2. Absorbed(hdr, f, a)
        BY <4>1, MergeNext
      <4> HIDE DEF f
      <4>3. Merged(hdr) => Merged(f) /\ EndOf(f, a) \notin Frees(f)
        BY <4>1, <4>2, AbsorbedMerged
      <4>4. QED
        BY <4>2, <4>3, <2>1 DEF Absorbed
    <3>3. b \in Addr /\ hdr[b].size \in Nat /\ a \in Live(f) /\ n <= f[a].size
      <4>1. b \in Addr
        BY <3>2 DEF Live
      <4>2. hdr[b].size \in Nat
        BY <4>1, <2>2, HeaderType
      <4>3. a \in Live(f)
        BY <3>2, <2>1
      <4>4. n <= f[a].size
        BY <3>1, <3>2, <4>2, <2>2, <1>1, Constants
      <4>5. QED
        BY <4>1, <4>2, <4>3, <4>4
    <3> HIDE DEF f
    <3>4. /\ hdr' \in Headers /\ Tiled(hdr') /\ Allocated(hdr') = Allocated(f)
          /\ Same(f, hdr', Live(f) \ {a}) /\ n <= hdr'[a].size /\ hdr'[a].magic = f[a].magic
          /\ EndOf(f, a) \notin Frees(f) => \A x, y \in Addr : Touch(hdr', x, y) => x = a \/ Touch(f, x, y)
      BY <3>1, <3>2, <3>3, <1>1, SplitBlock
    <3>5. Same(hdr, hdr', Allocated(hdr) \ {a})
      <4>1. Allocated(hdr) \ {a} \subseteq Live(hdr) \ {a, b}
        BY <3>2 DEF Allocated, Live
      <4>2. QED
        BY <4>1, <3>2, <3>4 DEF Same
    <3>6. used_size' \in Nat
      <4>1. Footprint(hdr', a) \in Nat /\ Footprint(hdr', a) = Header + hdr'[a].size /\ hdr'[a].size \in Nat
        BY <3>4, <2>1, FootprintType, HeaderType
      <4>2. QED
        BY <4>1, <3>1, <3>4, <2>2, <1>1, Constants
    <3>7. Merged(hdr) => Merged(hdr')
      BY <3>2, <3>4 DEF Merged, Touch, Frees
    <3>8. Trusted(hdr', used_size')
      <4>1. Allocated(hdr') = Allocated(hdr)
        BY <3>2, <3>4
      <4>2. QED
        BY <4>1, <3>1, <3>4, <3>5, <3>7, <2>1, <2>2, TrustResized DEF IInv
    <3>9. QED
      BY <3>1, <3>2, <3>4, <3>5, <3>6, <3>8, <2>1, <2>3, <1>1, ExchangeStep DEF a, n
  <2>7. CASE ReallocMove(p, size)
    <3>1. CASE Fitting(hdr, n) = {} /\ Return("ENOMEM")
      BY <3>1, <1>3 DEF Return
    <3>2. CASE Fitting(hdr, n) # {}
      <4> DEFINE b == First(Fitting(hdr, n))
                 copied == Claim(hdr, b, n)
      <4>1. b \in FreeBlocks /\ hdr[b].size >= n
        <5>1. Fitting(hdr, n) \in SUBSET Addr
          BY FreeBlocksFacts DEF Fitting
        <5>2. b \in Fitting(hdr, n)
          BY <5>1, <3>2, FirstOf
        <5>3. QED
          BY <5>2 DEF Fitting
      <4>2. \/ UNCHANGED vars
            \/ /\ hdr' = Freed(copied, a)
               /\ used_size' = UsedAfterFree(copied, used_size + Footprint(copied, b), a)
               /\ lent' = (lent \ Holding(p)) \cup {Grant(b, size, 1)}
        BY <2>7 DEF ReallocMove, Return
      <4> HIDE DEF b, n, a
      <4>3. /\ b \in Live(hdr) /\ hdr[b].magic = "FREE" /\ b \in Addr \ Allocated(hdr)
            /\ n <= hdr[b].size /\ b # a
        BY <4>1, <2>1, <1>1, FreeBlocksFacts
      <4>4. /\ copied \in Headers /\ Tiled(copied) /\ Allocated(copied) = Allocated(hdr) \cup {b}
            /\ Same(hdr, copied, Allocated(hdr)) /\ n <= copied[b].size
            /\ Merged(hdr) => Merged(copied)
        BY <4>3, <2>2, <1>1, Claimed
      <4> HIDE DEF copied
      <4>5. CASE /\ hdr' = Freed(copied, a)
                 /\ used_size' = UsedAfterFree(copied, used_size + Footprint(copied, b), a)
                 /\ lent' = (lent \ Holding(p)) \cup {Grant(b, size, 1)}
        <5>1. /\ hdr' \in Headers /\ Tiled(hdr') /\ Allocated(hdr') = Allocated(copied) \ {a}
              /\ Same(copied, hdr', Allocated(copied) \ {a})
              /\ Merged(copied) => Merged(hdr')
          BY <4>4, <4>5, <2>1, FreedBlock
        <5>2. Allocated(hdr') = (Allocated(hdr) \ {a}) \cup {b} /\ b \notin Allocated(hdr) \ {a}
          BY <5>1, <4>3, <4>4
        <5>3. Same(hdr, hdr', Allocated(hdr) \ {a}) /\ n <= hdr'[b].size
          BY <5>1, <4>3, <4>4 DEF Same
        <5>4. used_size' \in Nat
          <6>1. used_size + Footprint(copied, b) \in Nat
            BY <4>3, <4>4, <2>2, FootprintType
          <6>2. QED
            BY <6>1, <4>4, <4>5, <2>1, UsedAfterFreeType
        <5>5. Trusted(hdr', used_size')
          <6>1. Trusted(copied, used_size + Footprint(copied, b)) /\ used_size + Footprint(copied, b) \in Nat
            BY <4>3, <4>4, <2>2, TrustLent, FootprintType DEF IInv
          <6>2. a \in Allocated(copied)
            BY <4>4, <2>1
          <6>3. QED
            BY <6>1, <6>2, <5>1, <4>4, <4>5, TrustFreed
        <5>6. QED
          BY <5>1, <5>2, <5>3, <5>4, <5>5, <4>3, <4>5, <2>1, <1>1, ExchangeStep DEF a, n
      <4>6. QED
        BY <4>2, <4>5, <1>3
    <3>3. QED
      BY <2>7, <3>1, <3>2 DEF ReallocMove
  <2>8. QED
    BY <1>6, <2>5, <2>6, <2>7
<1>7. QED
  BY <1>2, <1>3, <1>5, <1>6 DEF heap_realloc, Return

LEMMA UnitAlignmentType ==
  ASSUME NEW bytes \in Nat, PowerOfTwo(bytes)
  PROVE  UnitAlignment(bytes) \in Nat \ {0}
<1>1. CASE bytes < Unit
  BY <1>1 DEF UnitAlignment
<1>2. CASE ~ (bytes < Unit)
  <2>1. bytes \div Unit \in Nat /\ (bytes \div Unit) * Unit > bytes - Unit
    <3>1. Unit \in Nat \ {0}
      BY Constants
    <3>2. bytes \div Unit \in 0 .. bytes
      BY <3>1, Division
    <3>3. (bytes \div Unit) * Unit > bytes - Unit
      BY <3>1, Division
    <3>4. QED
      BY <3>2, <3>3
  <2>2. bytes \div Unit # 0
    <3>1. SUFFICES ASSUME bytes \div Unit = 0 PROVE FALSE
      OBVIOUS
    <3>2. 0 * Unit > bytes - Unit
      BY <2>1, <3>1
    <3>3. QED
      BY <3>2, <1>2, Constants
  <2>3. QED
    BY <2>1, <2>2, <1>2 DEF UnitAlignment
<1>3. QED
  BY <1>1, <1>2

LEMMA MemalignStep ==
  ASSUME NoRequestWraps, IInv, NEW bytes \in Alignments, NEW size \in MallocSizes,
         heap_memalign(bytes, size)
  PROVE  IInv' /\ ClientStep
<1> DEFINE n == HEAP_ALIGN(size)
           alignment == UnitAlignment(bytes)
           fitting == FittingAligned(n, alignment)
<1>1. n \in Nat /\ size \in MallocSizes \cup ReallocSizes /\ bytes \in Nat
  <2>1. size \in Nat /\ bytes \in Nat
    BY HeapAssumption
  <2>2. QED
    BY <2>1, AlignFacts
<1>2. CASE UNCHANGED vars
  BY <1>2 DEF vars, IInv, ClientStep
<1>3. CASE /\ PowerOfTwo(bytes) /\ fitting # {}
           /\ LET a == First(fitting)
                  b == a + Padding(a, alignment)
              IN
              /\ hdr' = Claim(Carve(hdr, a, b - a), b, n)
              /\ used_size' = used_size + Footprint(hdr', b)
              /\ lent' = lent \cup {Grant(b, size, alignment)}
  <2> DEFINE a == First(fitting)
             pad == Padding(a, alignment)
             b == a + pad
             f == Carve(hdr, a, pad)
  <2>1. a \in FreeBlocks /\ hdr[a].size >= (pad + n) % (Word \div Unit)
    <3>1. fitting \in SUBSET Addr
      BY FreeBlocksFacts DEF FittingAligned
    <3>2. a \in fitting
      BY <3>1, <1>3, FirstOf
    <3>3. QED
      BY <3>2 DEF FittingAligned
  <2>2. /\ a \in Live(hdr) /\ hdr[a].magic = "FREE" /\ a \in Nat /\ hdr[a].size \in Nat
        /\ a \in Addr \ Allocated(hdr)
    BY <2>1, FreeBlocksFacts
  <2>3. alignment \in Nat \ {0}
    BY <1>1, <1>3, UnitAlignmentType
  <2>4. /\ pad \in Nat /\ pad < Header + MinBlock + alignment
        /\ pad = 0 \/ Header <= pad
        /\ (a + Header + pad) % alignment = 0
    <3> HIDE DEF a, alignment
    <3>1. QED
      BY <2>2, <2>3, PaddingFacts
  <2>5. Header + MinBlock + alignment + n < Word \div Unit
    BY DEF NoRequestWraps
  <2>6. /\ hdr' = Claim(Carve(hdr, a, b - a), b, n)
        /\ used_size' = used_size + Footprint(hdr', b)
        /\ lent' = lent \cup {Grant(b, size, alignment)}
    BY <1>3
  <2> HIDE DEF a, alignment, pad, n
  <2>7. b - a = pad
    BY <2>2, <2>4
  <2>8. pad + n <= hdr[a].size
    <3>1. pad + n \in 0 .. (Word \div Unit - 1)
      BY <2>3, <2>4, <2>5, <1>1, Constants
    <3>2. (pad + n) % (Word \div Unit) = pad + n
      BY <3>1, Constants
    <3>3. QED
      BY <3>2, <2>1
  <2>9. hdr' = Claim(f, b, n)
    BY <2>6, <2>7
  <2>10. /\ f \in Headers /\ Tiled(f) /\ Allocated(f) = Allocated(hdr)
         /\ Same(hdr, f, Allocated(hdr))
         /\ b \in Live(f) /\ f[b].magic = "FREE" /\ f[b].size = hdr[a].size - pad
         /\ Merged(hdr) => EndOf(f, b) \notin Frees(f) /\ \A x, y \in Addr : Touch(f, x, y) => y = b
    <3>1. pad <= hdr[a].size
      BY <2>8, <2>2, <2>4, <1>1
    <3>2. QED
      BY <3>1, <2>2, <2>4, Carved DEF IInv
  <2>11. b \in Addr \ Allocated(hdr) /\ n <= f[b].size
    <3>1. b \in Addr
      BY <2>10 DEF Live
    <3>2. b \notin Allocated(f)
      BY <2>10 DEF Allocated
    <3>3. n <= f[b].size
      BY <2>8, <2>10, <2>2, <2>4, <1>1
    <3>4. QED
      BY <3>1, <3>2, <3>3, <2>10
  <2> HIDE DEF f
  <2>12. /\ hdr' \in Headers /\ Tiled(hdr') /\ Allocated(hdr') = Allocated(f) \cup {b}
         /\ Same(f, hdr', Allocated(f)) /\ n <= hdr'[b].size
         /\ EndOf(f, b) \notin Frees(f) /\ (\A x, y \in Addr : Touch(f, x, y) => y = b) => Merged(hdr')
    BY <2>9, <2>10, <2>11, <1>1, Claimed
  <2>13. Allocated(hdr') = Allocated(hdr) \cup {b} /\ Same(hdr, hdr', Allocated(hdr))
    BY <2>10, <2>12 DEF Same
  <2>14. (b + Header) % alignment = 0
    <3>1. b + Header = a + Header + pad
      BY <2>2, <2>4, Constants
    <3>2. QED
      BY <3>1, <2>4
  <2> HIDE DEF b
  <2>15. Held(hdr', lent')
    BY <2>3, <2>6, <2>11, <2>12, <2>13, <2>14, <1>1, HeldAfterGrant DEF IInv, n
  <2>16. /\ Grant(b, size, alignment) \in Loan /\ Grant(b, size, alignment).ptr - Header = b
    BY <2>3, <2>11, <1>1, GrantFacts
  <2>17. lent' \in SUBSET Loan
    BY <2>6, <2>16 DEF IInv
  <2>18. used_size' \in Nat
    BY <2>6, <2>11, <2>12, FootprintType DEF IInv
  <2>19. \A m \in lent : m.ptr # Grant(b, size, alignment).ptr
    BY <2>11, <2>16 DEF IInv, Held
  <2>20. Lent
    BY <2>6, <2>16, <2>19 DEF Lent
  <2>21. Trusted(hdr', used_size')
    <3>1. Merged(hdr) => Merged(hdr')
      BY <2>10, <2>12
    <3>2. QED
      BY <3>1, <2>6, <2>11, <2>12, <2>13, TrustLent DEF IInv
  <2>22. IInv'
    BY <2>12, <2>15, <2>17, <2>18, <2>21 DEF IInv
  <2>23. QED
    BY <2>20, <2>22 DEF ClientStep
<1>4. QED
  BY <1>2, <1>3 DEF heap_memalign, Return

LEMMA FreeStep ==
  ASSUME IInv, NEW p \in Payload \cup {NULL}, heap_free(p)
  PROVE  IInv' /\ ClientStep
<1>1. CASE UNCHANGED vars
  BY <1>1 DEF vars, IInv, ClientStep
<1>2. CASE p # NULL /\ IsAllocated(p) /\ Release(p)
  <2>1. PICK b \in Addr : p = b + Header
    BY <1>2 DEF Payload
  <2>2. p - Header \in Addr /\ p \in Payload
    BY <2>1, <1>2, Constants
  <2>3. QED
    BY <2>2, <1>2, ReleaseStep
<1>3. QED
  BY <1>1, <1>2 DEF heap_free, Return

(* Every step keeps the invariant, and is one the clients may see.         *)
LEMMA NextStep ==
  ASSUME NoRequestWraps, IInv, [Next]_vars
  PROVE  IInv' /\ ClientStep
<1>1. ASSUME NEW size \in MallocSizes, heap_malloc(size)
      PROVE  IInv' /\ ClientStep
  BY <1>1, MallocStep
<1>2. ASSUME NEW p \in Payload \cup {NULL}, heap_free(p)
      PROVE  IInv' /\ ClientStep
  BY <1>2, FreeStep
<1>3. ASSUME NEW p \in Payload \cup {NULL}, NEW size \in ReallocSizes, heap_realloc(p, size)
      PROVE  IInv' /\ ClientStep
  BY <1>3, ReallocStep
<1>4. ASSUME NEW bytes \in Alignments, NEW size \in MallocSizes, heap_memalign(bytes, size)
      PROVE  IInv' /\ ClientStep
  BY <1>4, MemalignStep
<1>5. CASE UNCHANGED vars
  BY <1>5 DEF vars, IInv, ClientStep
<1>6. QED
  BY <1>1, <1>2, <1>3, <1>4, <1>5 DEF Next

LEMMA Invariance ==
  ASSUME NoRequestWraps
  PROVE  Spec => []IInv
<1>1. Init => IInv
  BY InitIInv
<1>2. IInv /\ [Next]_vars => IInv'
  BY NextStep
<1>3. QED
  BY <1>1, <1>2, PTL DEF Spec

-----------------------------------------------------------------------------
(* What is said of the free space.                                         *)

(* Every unit is in a block.                                               *)
LEMMA InBlock ==
  ASSUME NEW h \in Headers, Tiled(h), NEW c \in Addr
  PROVE  \E b \in Live(h) : b <= c /\ c < EndOf(h, b)
<1>1. c \in Nat /\ Context <= c /\ c < Total
  BY Constants DEF Addr
<1>2. \A b \in Live(h) : b \in Nat /\ EndOf(h, b) \in Nat /\ b < EndOf(h, b)
  BY BlockFacts, Constants
<1> DEFINE D == {c - b : b \in {x \in Live(h) : x <= c}}
<1>3. D \in SUBSET Nat /\ D # {}
  <2>1. Context \in Live(h)
    BY DEF Tiled
  <2>2. \A b \in {x \in Live(h) : x <= c} : c - b \in Nat
    BY <1>1, <1>2
  <2>3. QED
    BY <2>1, <2>2, <1>1
<1>4. PICK m \in D : \A k \in D : m <= k
  <2> HIDE DEF D
  <2>1. QED
    BY <1>3, Least
<1>5. PICK b \in Live(h) : b <= c /\ m = c - b
  OBVIOUS
<1>6. c < EndOf(h, b)
  <2>1. SUFFICES ASSUME EndOf(h, b) <= c PROVE FALSE
    BY <1>1, <1>2
  <2>2. EndOf(h, b) # Total
    BY <2>1, <1>1, <1>2, Constants
  <2>3. EndOf(h, b) \in Live(h)
    BY <2>2 DEF Tiled
  <2>4. m <= c - EndOf(h, b)
    BY <2>1, <2>3, <1>4
  <2>5. QED
    BY <2>4, <1>1, <1>2, <1>5
<1>7. QED
  BY <1>5, <1>6

LEMMA BusyIs ==
  ASSUME IInv
  PROVE  Busy = Taken(hdr, Allocated(hdr))
<1>1. Allocated(hdr) = {m.ptr - Header : m \in lent}
  BY DEF IInv, Held
<1>2. ASSUME NEW m \in lent
      PROVE  (m.ptr - Header) .. (m.ptr + hdr[m.ptr - Header].size - 1) = Units(hdr, m.ptr - Header)
  <2> DEFINE a == m.ptr - Header
             s == hdr[a].size
  <2>1. m \in Loan
    BY DEF IInv
  <2>2. a \in Addr /\ m.ptr \in Nat
    BY <2>1, LoanFacts
  <2>3. s \in Nat
    BY <2>2, HeaderType DEF IInv
  <2> HIDE DEF s
  <2>4. m.ptr + s - 1 = EndOf(hdr, a) - 1
    BY <2>2, <2>3, Constants DEF EndOf, s
  <2>5. QED
    BY <2>4 DEF Units, s
<1>3. QED
  BY <1>1, <1>2 DEF Busy, Taken

LEMMA IInvTrusted ==
  ASSUME NoRequestWraps, IInv
  PROVE  FreeSpaceTrusted
<1>1. Listed = Live(hdr) /\ hdr \in Headers /\ Tiled(hdr)
  BY ListedIsLive DEF IInv
<1>2. FreeBlocks = Frees(hdr)
  BY <1>1 DEF FreeBlocks, Live, Frees
<1>3. Cardinality(Busy) = Count(hdr, Allocated(hdr))
  BY BusyIs DEF Count
<1>4. UsedCoversLent /\ (UsedSizeExact => Merged(hdr))
  BY <1>3 DEF UsedCoversLent, UsedSizeExact, IInv, Trusted
<1>5. WholeWhenUnused
  <2>1. SUFFICES ASSUME lent = {}, used_size = 0 PROVE Listed = {Context}
    BY DEF WholeWhenUnused
  <2>2. Busy = {}
    BY <2>1 DEF Busy
  <2>3. Merged(hdr)
    BY <2>1, <2>2, <1>4, FS_EmptySet DEF UsedSizeExact
  <2>4. Allocated(hdr) = {}
    BY <2>1 DEF IInv, Held
  <2>5. Live(hdr) = Frees(hdr)
    BY <1>1, <2>4, HeaderType DEF Live, Frees, Allocated
  <2>6. Context \in Live(hdr)
    BY <1>1 DEF Tiled
  <2>7. EndOf(hdr, Context) \notin Live(hdr)
    BY <2>3, <2>5, <2>6 DEF Merged, Touch, Frees
  <2>8. EndOf(hdr, Context) = Total
    BY <2>6, <2>7, <1>1 DEF Tiled
  <2>9. ASSUME NEW b \in Live(hdr), b # Context PROVE FALSE
    <3>1. b \in Nat /\ Context <= b /\ b < Total
      BY <2>9, Constants DEF Live, Addr
    <3>2. EndOf(hdr, Context) <= b
      BY <3>1, <2>6, <2>9, <1>1, Constants DEF Tiled
    <3>3. QED
      BY <3>1, <3>2, <2>8, Constants
  <2>10. QED
    BY <1>1, <2>6, <2>9
<1>6. ASSUME NEW size \in MallocSizes \ {0}, UsedSizeExact, Fitting(hdr, HEAP_ALIGN(size)) = {},
             NEW c \in Addr, c .. (c + Header + HEAP_ALIGN(size) - 1) \subseteq Idle
      PROVE  FALSE
  <2> DEFINE n == HEAP_ALIGN(size)
             run == c .. (c + Header + n - 1)
  <2>1. n \in Nat
    BY HeapAssumption, AlignFacts
  <2> HIDE DEF n
  <2>2. c \in Nat /\ Header \in Nat \ {0}
    BY Constants
  <2>3. \A a \in Allocated(hdr) : \A x \in Units(hdr, a) : x \notin run
    BY <1>6, BusyIs DEF Idle, Taken, n
  <2>4. run \subseteq Addr
    BY <1>6 DEF Idle, n
  <2>5. PICK b \in Live(hdr) : b <= c /\ c < EndOf(hdr, b)
    BY <1>1, InBlock
  <2>6. /\ b \in Nat /\ b \in Addr /\ hdr[b].size \in Nat
        /\ EndOf(hdr, b) = b + Header + hdr[b].size
    BY <1>1, BlockFacts DEF EndOf
  <2>7. ASSUME NEW x \in Live(hdr), NEW y \in run, y \in Units(hdr, x)
        PROVE  x \in Frees(hdr)
    <3>1. x \notin Allocated(hdr)
      BY <2>3, <2>7
    <3>2. x \in Addr /\ hdr[x].magic \in {"none", "FREE", "ALOC"}
      BY <1>1, HeaderType DEF Live
    <3>3. QED
      BY <3>1, <3>2 DEF Allocated, Frees, Live
  <2>8. b \in Frees(hdr)
    <3>1. c \in run
      BY <2>1, <2>2
    <3>2. c \in Units(hdr, b)
      BY <2>2, <2>5, <2>6 DEF Units
    <3> HIDE DEF run
    <3>3. QED
      BY <3>1, <3>2, <2>7
  <2>9. ~ (hdr[b].size >= n)
    BY <1>2, <1>6, <2>8 DEF Fitting, n
  <2> DEFINE e == EndOf(hdr, b)
  <2>10. e \in run
    <3>1. e \in Nat /\ c <= e /\ e <= c + Header + n - 1
      BY <2>1, <2>2, <2>5, <2>6, <2>9
    <3>2. QED
      BY <3>1
  <2>11. e \in Addr /\ e # Total
    BY <2>4, <2>10, Constants DEF Addr
  <2>12. e \in Live(hdr)
    BY <2>11, <1>1 DEF Tiled
  <2>13. e \in Units(hdr, e)
    BY <2>12, <1>1, BlockFacts, Constants DEF Units
  <2>14. e \in Frees(hdr)
    <3> HIDE DEF run, e
    <3>1. QED
      BY <2>7, <2>10, <2>12, <2>13
  <2>15. QED
    BY <2>6, <2>8, <2>11, <2>14, <1>4, <1>6 DEF Merged, Touch
<1>7. ASSUME NEW size \in MallocSizes \ {0}, NEW bytes \in Alignments, PowerOfTwo(bytes),
             FittingAligned(HEAP_ALIGN(size), UnitAlignment(bytes)) = {},
             NEW a \in FreeBlocks, NEW p \in Payload, (p * Unit) % bytes = 0,
             p = a + Header \/ p >= a + Header + Header + MinBlock,
             p + HEAP_ALIGN(size) <= a + Footprint(hdr, a)
      PROVE  FALSE
  <2> DEFINE n == HEAP_ALIGN(size)
             d == UnitAlignment(bytes)
             pad == Padding(a, d)
             w == Word \div Unit
  <2>1. n \in Nat /\ bytes \in Nat
    BY HeapAssumption, AlignFacts
  <2>2. d \in Nat \ {0} /\ Header + MinBlock + d + n < w
    BY <2>1, <1>7, UnitAlignmentType DEF NoRequestWraps
  <2>3. a \in Nat /\ a \in Addr /\ hdr[a].size \in Nat
    BY FreeBlocksFacts
  <2>4. p \in Nat
    <3>1. PICK x \in Addr : p = x + Header
      BY DEF Payload
    <3>2. QED
      BY <3>1, Constants
  <2>5. p % d = 0
    BY <2>1, <2>4, <1>7, UnitAligned
  <2> HIDE DEF d
  <2>6. pad \in Nat /\ pad < Header + MinBlock + d /\ a + Header + pad <= p
    BY <2>2, <2>3, <2>4, <2>5, <1>7, PaddingFacts, PaddingLeast
  <2> HIDE DEF n, pad, w
  <2>7. p + n <= a + Header + hdr[a].size
    BY <2>3, <1>7, Constants DEF Footprint, n
  <2>8. w \in Nat \ {0}
    BY Constants DEF w
  <2>9. (pad + n) % w = pad + n
    <3>1. pad + n \in 0 .. (w - 1)
      BY <2>1, <2>2, <2>6, <2>8, Constants
    <3>2. QED
      BY <3>1, <2>8
  <2>10. hdr[a].size >= (pad + n) % w
    BY <2>1, <2>3, <2>4, <2>6, <2>7, <2>9, Constants
  <2>11. QED
    BY <2>10, <1>7 DEF FittingAligned, n, d, pad, w
<1>8. NoFalseOutOfMemory
  BY <1>6, <1>7 DEF NoFalseOutOfMemory
<1>9. QED
  BY <1>4, <1>5, <1>8 DEF FreeSpaceTrusted

-----------------------------------------------------------------------------
(* The theorems.                                                           *)

LEMMA IInvSound ==
  ASSUME NoRequestWraps, IInv
  PROVE  BlocksSound
<1>1. Listed = Live(hdr)
  BY ListedIsLive DEF IInv
<1>2. TypeOK
  BY DEF IInv, TypeOK, Headers, Hdr, Loan
<1>3. BlocksTileRegion
  <2>1. hdr[Context].prev = NULL
    BY DEF IInv, Tiled
  <2>2. ASSUME NEW a \in Listed
        PROVE  LET end == a + Footprint(hdr, a) IN
               \/ hdr[a].next = NULL /\ end = Total
               \/ hdr[a].next = end /\ hdr[end].prev = a
    <3>1. a \in Live(hdr) /\ a \in Nat /\ hdr[a].size \in Nat
      BY <1>1, BlockFacts DEF IInv
    <3>2. a + Footprint(hdr, a) = EndOf(hdr, a)
      BY <3>1, Constants DEF Footprint, EndOf
    <3>3. QED
      BY <3>1, <3>2 DEF IInv, Tiled
  <2>3. QED
    BY <2>1, <2>2 DEF BlocksTileRegion
<1>4. PayloadsAreBlocks
  <2>1. Allocated(hdr) = {m.ptr - Header : m \in lent}
    BY DEF IInv, Held
  <2>2. ASSUME NEW m \in lent
        PROVE  /\ Holding(m.ptr) = {m}
               /\ m.ptr - Header \in Listed
               /\ m.ptr % m.alignment = 0
               /\ hdr[m.ptr - Header].size * Unit >= m.size
    <3>1. Holding(m.ptr) = {m} /\ m.ptr % m.alignment = 0
      BY DEF IInv, Held, Holding
    <3>2. m.ptr - Header \in Listed
      BY <1>1, <2>1 DEF Allocated, Live
    <3> DEFINE n == HEAP_ALIGN(m.size)
               s == hdr[m.ptr - Header].size
    <3>3. /\ m.size \in Nat /\ m.size + Unit - 1 < Word /\ n \in Nat /\ m.size <= n * Unit
      <4>1. m.size \in Nat /\ m.size \in MallocSizes \cup ReallocSizes /\ n \in Nat
        BY LoanFacts DEF IInv
      <4>2. m.size + Unit - 1 < Word
        BY <4>1 DEF NoRequestWraps
      <4>3. QED
        BY <4>1, <4>2, AlignFacts
    <3>4. s \in Nat /\ n <= s
      <4>1. m.ptr - Header \in Addr
        BY LoanFacts DEF IInv
      <4>2. QED
        BY <4>1, HeaderType DEF IInv, Held
    <3> HIDE DEF n, s
    <3>5. s * Unit >= m.size
      <4>1. Unit \in Nat /\ Unit > 0
        BY Constants
      <4>2. n * Unit <= s * Unit
        <5>1. (s - n) * Unit >= 0
          BY <3>3, <3>4, <4>1
        <5>2. (s - n) * Unit = s * Unit - n * Unit
          BY <3>3, <3>4, <4>1
        <5>3. s * Unit \in Int /\ n * Unit \in Int
          BY <3>3, <3>4, <4>1
        <5>4. QED
          BY <5>1, <5>2, <5>3
      <4>3. s * Unit \in Int /\ n * Unit \in Int
        BY <3>3, <3>4, <4>1
      <4>4. QED
        BY <4>2, <4>3, <3>3
    <3>6. QED
      BY <3>1, <3>2, <3>5 DEF s
  <2>3. QED
    BY <2>1, <2>2 DEF PayloadsAreBlocks, Allocated
<1>5. QED
  BY <1>2, <1>3, <1>4 DEF BlocksSound

(* Whatever is allocated, aligned, resized and freed, twice included, and  *)
(* however long: the blocks tile the region, linked both ways, and those   *)
(* marked allocated are the payloads in clients' hands, as large and as    *)
(* aligned as asked (heap_malloc to heap_memalign).                        *)
THEOREM Sound ==
  ASSUME NoRequestWraps
  PROVE  Spec => []BlocksSound
<1>1. Spec => []IInv
  BY Invariance
<1>2. IInv => BlocksSound
  BY IInvSound
<1>3. QED
  BY <1>1, <1>2, PTL

(* What the heap says of its free space is true (heap.c): used_size covers *)
(* what is allocated, so that it can be subtracted from and zero means one *)
(* block; and ENOMEM is reported only when nothing fits, as long as no     *)
(* block was cut in place.                                                 *)
THEOREM Trust ==
  ASSUME NoRequestWraps
  PROVE  Spec => []FreeSpaceTrusted
<1>1. Spec => []IInv
  BY Invariance
<1>2. IInv => FreeSpaceTrusted
  BY IInvTrusted
<1>3. QED
  BY <1>1, <1>2, PTL

-----------------------------------------------------------------------------
(* The abstract arena.                                                     *)

LoanOf(m) == [at |-> m.ptr, len |-> HEAP_ALIGN(m.size)]
LoansOf(lending) == {LoanOf(m) : m \in lending}
ArenaStep == Arena!Next \/ LoansOf(lent') = LoansOf(lent)

(* Payloads lie in the region, none in another.                            *)
LEMMA LoansApart ==
  ASSUME NEW h \in Headers, Tiled(h), NEW loans \in SUBSET Loan, Held(h, loans)
  PROVE  /\ \A m \in loans : Arena!Piece(LoanOf(m)) \subseteq Context .. (Total - 1)
         /\ \A m, k \in loans :
              m # k => Arena!Piece(LoanOf(m)) \cap Arena!Piece(LoanOf(k)) = {}
<1>1. ASSUME NEW m \in loans
      PROVE  LET a == m.ptr - Header IN
             /\ a \in Live(h) /\ a \in Nat /\ m.ptr \in Nat /\ m.ptr = a + Header
             /\ Context <= a /\ EndOf(h, a) \in Nat /\ EndOf(h, a) <= Total
             /\ \A x \in Arena!Piece(LoanOf(m)) : x \in Int /\ a < x /\ x < EndOf(h, a)
  <2> DEFINE a == m.ptr - Header
             n == HEAP_ALIGN(m.size)
  <2>1. a \in Live(h) /\ n <= h[a].size /\ m.ptr \in Nat /\ n \in Nat
    BY LoanFacts DEF Held, Allocated, Live
  <2>2. /\ a \in Nat /\ Context <= a /\ EndOf(h, a) \in Nat /\ EndOf(h, a) <= Total
        /\ h[a].size \in Nat /\ EndOf(h, a) = a + Header + h[a].size
    BY <2>1, BlockFacts DEF EndOf
  <2>3. m.ptr = a + Header
    BY <2>1, Constants
  <2>4. Arena!Piece(LoanOf(m)) = m.ptr .. (m.ptr + n - 1)
    BY DEF Arena!Piece, LoanOf
  <2> HIDE DEF a, n
  <2>5. \A x \in Arena!Piece(LoanOf(m)) : x \in Int /\ a < x /\ x < EndOf(h, a)
    <3> SUFFICES ASSUME NEW x \in m.ptr .. (m.ptr + n - 1)
                 PROVE  x \in Int /\ a < x /\ x < EndOf(h, a)
      BY <2>4
    <3> DEFINE p == m.ptr
               size == h[a].size
               end == EndOf(h, a)
    <3>1. /\ p = a + Header /\ end = a + Header + size /\ n <= size /\ p \in Nat /\ n \in Nat
          /\ a \in Nat /\ size \in Nat /\ x \in p .. (p + n - 1) /\ Header \in Nat \ {0}
      BY <2>1, <2>2, <2>3, Constants
    <3> HIDE DEF p, size, end
    <3>2. x \in Int /\ a < x /\ x < end
      BY <3>1
    <3>3. QED
      BY <3>2 DEF end
  <2>6. QED
    BY <2>1, <2>2, <2>3, <2>5 DEF a
<1>2. ASSUME NEW m \in loans, NEW x \in Arena!Piece(LoanOf(m))
      PROVE  x \in Context .. (Total - 1)
  BY <1>1, Constants
<1>3. ASSUME NEW m \in loans, NEW k \in loans, m # k,
             NEW x \in Arena!Piece(LoanOf(m)), x \in Arena!Piece(LoanOf(k))
      PROVE  FALSE
  <2> DEFINE a == m.ptr - Header
             b == k.ptr - Header
  <2>1. /\ a \in Live(h) /\ a \in Nat /\ m.ptr = a + Header /\ EndOf(h, a) \in Nat
        /\ x \in Int /\ a < x /\ x < EndOf(h, a)
    BY <1>1
  <2>2. /\ b \in Live(h) /\ b \in Nat /\ k.ptr = b + Header /\ EndOf(h, b) \in Nat
        /\ x < EndOf(h, b) /\ b < x
    BY <1>1, <1>3
  <2>3. m.ptr # k.ptr
    BY <1>3 DEF Held
  <2> HIDE DEF a, b
  <2>4. a # b
    BY <2>1, <2>2, <2>3
  <2>5. (a < b => EndOf(h, a) <= b) /\ (b < a => EndOf(h, b) <= a)
    BY <2>1, <2>2 DEF Tiled
  <2>6. QED
    BY <2>1, <2>2, <2>4, <2>5
<1>4. QED
  BY <1>2, <1>3

(* No two loans of a consistent heap are the same piece.                   *)
LEMMA LoansDistinct ==
  ASSUME NEW h, NEW loans, Held(h, loans), NEW m \in loans, NEW k \in loans,
         LoanOf(m) = LoanOf(k)
  PROVE  m = k
<1>1. LoanOf(m).at = m.ptr /\ LoanOf(k).at = k.ptr
  BY DEF LoanOf
<1>2. QED
  BY <1>1 DEF Held

LEMMA StepArena ==
  ASSUME IInv, IInv', ClientStep
  PROVE  ArenaStep
<1> DEFINE old == LoansOf(lent)
           new == LoansOf(lent')
<1>1. /\ hdr \in Headers /\ Tiled(hdr) /\ lent \in SUBSET Loan /\ Held(hdr, lent)
      /\ hdr' \in Headers /\ Tiled(hdr') /\ lent' \in SUBSET Loan /\ Held(hdr', lent')
  BY DEF IInv
<1>2. /\ \A m \in lent' : Arena!Piece(LoanOf(m)) \subseteq Context .. (Total - 1)
      /\ \A m, k \in lent' :
           m # k => Arena!Piece(LoanOf(m)) \cap Arena!Piece(LoanOf(k)) = {}
  BY <1>1, LoansApart
<1>3. CASE lent' = lent
  BY <1>3 DEF ArenaStep
<1>4. CASE Lent
  <2>1. PICK l \in Loan : (\A m \in lent : m.ptr # l.ptr) /\ lent' = lent \cup {l}
    BY <1>4 DEF Lent
  <2>2. l \notin lent /\ l \in lent'
    BY <2>1
  <2>3. LoanOf(l) \in new \ old
    <3>1. \A m \in lent : m \in lent' /\ m # l
      BY <2>1, <2>2
    <3>2. \A m \in lent : LoanOf(m) # LoanOf(l)
      BY <3>1, <2>2, <1>1, LoansDistinct
    <3>3. QED
      BY <3>2, <2>2 DEF LoansOf
  <2>4. new = old \cup {LoanOf(l)}
    BY <2>1 DEF LoansOf
  <2>5. Arena!Apart(LoanOf(l), old)
    BY <2>1, <2>2, <1>2 DEF Arena!Apart, LoansOf
  <2>6. Arena!Lend(old, new)
    BY <2>3, <2>4, <2>5 DEF Arena!Lend
  <2>7. QED
    BY <2>6 DEF ArenaStep, Arena!Next, LoansOf, LoanOf
<1>5. CASE Returned
  <2>1. PICK l \in lent : lent' = lent \ {l}
    BY <1>5 DEF Returned
  <2>2. \A m \in lent : LoanOf(m) = LoanOf(l) => m = l
    BY <1>1, LoansDistinct
  <2>3. new = old \ {LoanOf(l)} /\ LoanOf(l) \in old
    BY <2>1, <2>2 DEF LoansOf
  <2>4. Arena!Return(old, new)
    BY <2>3 DEF Arena!Return
  <2>5. QED
    BY <2>4 DEF ArenaStep, Arena!Next, LoansOf, LoanOf
<1>6. CASE Exchanged
  <2>1. PICK l \in lent, k \in Loan : lent' = (lent \ {l}) \cup {k}
    BY <1>6 DEF Exchanged
  <2>2. \A m \in lent : LoanOf(m) = LoanOf(l) => m = l
    BY <1>1, LoansDistinct
  <2>3. new = (old \ {LoanOf(l)}) \cup {LoanOf(k)} /\ LoanOf(l) \in old /\ LoanOf(k) \in new
    BY <2>1, <2>2 DEF LoansOf
  <2>4. CASE k \in lent \ {l}
    <3>1. new = old \ {LoanOf(l)}
      BY <2>1, <2>2, <2>4 DEF LoansOf
    <3>2. Arena!Return(old, new)
      BY <3>1, <2>3 DEF Arena!Return
    <3>3. QED
      BY <3>2 DEF ArenaStep, Arena!Next, LoansOf, LoanOf
  <2>5. CASE k \notin lent \ {l}
    <3>1. \A m \in lent \ {l} : m \in lent' /\ k \in lent' /\ m # k
      BY <2>1, <2>5
    <3>2. k \in lent'
      BY <2>1
    <3>3. old \ {LoanOf(l)} = LoansOf(lent \ {l})
      BY <2>2 DEF LoansOf
    <3>4. Arena!Apart(LoanOf(k), old \ {LoanOf(l)})
      BY <3>1, <3>2, <3>3, <1>2 DEF Arena!Apart, LoansOf
    <3>5. Arena!Exchange(old, new)
      BY <2>3, <3>4 DEF Arena!Exchange
    <3>6. QED
      BY <3>5 DEF ArenaStep, Arena!Next, LoansOf, LoanOf
  <2>6. QED
    BY <2>4, <2>5
<1>7. QED
  BY <1>3, <1>4, <1>5, <1>6 DEF ClientStep

(* Every call of the heap is a step of the arena: it lends a piece that    *)
(* overlaps no other, ends a loan, exchanges one, or lends nothing.        *)
THEOREM Implementation ==
  ASSUME NoRequestWraps
  PROVE  Spec => ImplementsArena
<1>1. Init => Arena!Init
  BY DEF Init, Arena!Init
<1>2. IInv /\ IInv' /\ [Next]_vars => ArenaStep
  BY NextStep, StepArena
<1>3. ArenaStep => [Arena!Next]_{[at |-> m.ptr, len |-> HEAP_ALIGN(m.size)] : m \in lent}
  BY DEF ArenaStep, LoansOf, LoanOf
<1>4. Spec => []IInv
  BY Invariance
<1>5. QED
  BY <1>1, <1>2, <1>3, <1>4, PTL DEF Spec, ImplementsArena, Arena!Spec

=============================================================================
