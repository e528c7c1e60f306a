----------------------------- MODULE VmmProofs -----------------------------
(***************************************************************************)
(* The virtual memory manager for every number of pages, frames, nodes and *)
(* spaces, every set of sizes and hints, and page tables that fail or not. *)
(*                                                                         *)
(* A call changes the areas and the table of one space, and memory.  What  *)
(* it may do to memory is said of a pair of memory and table (OneUse,      *)
(* Stock), what it may do to areas of a set of areas and a table (Backed,  *)
(* Apart); the other spaces then follow.  Nodes are counted (Due), and what*)
(* a call makes of the abstract spaces is said of two sets of areas        *)
(* (Stepped).  What the areas of a space say of its table (Coherent) needs *)
(* memory for each call (Plenty).                                          *)
(*                                                                         *)
(* The second part is about module VmaTree, the tree that holds the areas. *)
(***************************************************************************)
EXTENDS Vmm, FiniteSetTheorems, WellFoundedInduction, TLAPS

Memory == [free : SUBSET Frame, nodes : Nat, descs : Nat, slabs : SUBSET Frame]
Mapping == [frame : Frame \cup {DEVICE, -2}, flags : Flags \cup {"boot", "none"}]
Table == [Page -> Mapping]
AreaType == [base : Nat, size : Nat \ {0}, flags : Flags \cup {"boot", "none"},
             type : Types \cup {"DATA", "GUARD", "MMIO"}, is_paged : BOOLEAN]

(* The areas of a space lie in it, the loader's is where it was, and none  *)
(* looks like no area.                                                     *)
IsArea(root, a) ==
  /\ a \in AreaType /\ a.base + a.size <= Top
  /\ a.flags = "boot" => root = KernelRoot /\ a.base = 0 /\ a.size = BootPages
  /\ a.is_paged \/ a.type # "none"
IsSpace(root, as) == IsFiniteSet(as) /\ \A a \in as : IsArea(root, a)

Typed ==
  /\ mem \in Memory
  /\ DOMAIN areas = DOMAIN pt /\ KernelRoot \in DOMAIN pt /\ DOMAIN pt \subseteq Frame \cup UnknownRoots
  /\ IsFiniteSet(DOMAIN areas)
  /\ \A root \in DOMAIN areas : IsSpace(root, areas[root]) /\ pt[root] \in Table

(* The frames a table maps, and with those of memory, those it has to do   *)
(* with.  Each of them has one use.                                        *)
Held(table) == {table[p].frame : p \in Page} \cap Frame
Stock(m, table) == m.free \cup m.slabs \cup Held(table)
OneUse(m, table) ==
  /\ m.free \cap m.slabs = {}
  /\ (m.free \cup m.slabs) \cap Held(table) = {}
  /\ \A p, q \in Page : table[p].frame \in Frame /\ table[p].frame = table[q].frame => p = q

Exclusive ==
  /\ \A root \in DOMAIN pt : OneUse(mem, pt[root]) /\ DOMAIN pt \cap Stock(mem, pt[root]) = {}
  /\ \A r1, r2 \in DOMAIN pt : r1 # r2 => Held(pt[r1]) \cap Held(pt[r2]) = {}

(* The areas whose pages are backed, and that they do not share them.      *)
Own(a) == a.is_paged /\ a.flags # "boot"
Disjoint(a, b) == Extent(a) \cap Extent(b) = {}
Backed(as, table) ==
  /\ \A a \in as : Own(a) => \A p \in Extent(a) : table[p].frame \in Frame
  /\ \A a, b \in as : Own(a) /\ Own(b) /\ a # b => Disjoint(a, b)
Apart(as) == \A a, b \in as : a # b => Disjoint(a, b)

(* The nodes that are free or, n of them, in use, less those there are.    *)
Due(m, n) == m.nodes + m.descs + n - NodesPerPage * Cardinality(m.slabs)
Uses == {u \in (DOMAIN areas) \X UNION {areas[r] : r \in DOMAIN areas} : u[2] \in areas[u[1]]}
Balanced == Due(mem, Cardinality(Uses) + Cardinality(DOMAIN areas)) = 0

(* What the pages of a space with areas as are used for, and what a call   *)
(* may make of it.                                                         *)
Use(a) == <<a.type, a.flags, a.is_paged>>
UseBy(holds) == IF holds = {} THEN NoUse ELSE Use(CHOOSE a \in holds : TRUE)
UseIn(as, p) == UseBy({a \in as : p \in Extent(a)})
ViewOf(as) == [p \in Page |-> UseIn(as, p)]
Stepped(old, new) ==
  \/ Spaces!Claimed(ViewOf(old), ViewOf(new))
  \/ Spaces!Dropped(ViewOf(old), ViewOf(new))
  \/ Spaces!Recast(ViewOf(old), ViewOf(new))

IInv ==
  /\ Typed
  /\ Exclusive
  /\ Lossless => NoFrameLost
  /\ Executable => \A root \in DOMAIN areas : Backed(areas[root], pt[root])
  /\ Careful => Balanced /\ \A root \in DOMAIN areas : Apart(areas[root])

(* A step of the abstract address spaces, or none.                         *)
View == [root \in DOMAIN areas |-> [p \in Page |-> UseOf(root, p)]]
Views == [root \in DOMAIN areas |-> ViewOf(areas[root])]
Refined ==
  \/ Spaces!Create(View, View') \/ Spaces!Destroy(View, View') \/ Spaces!Use(View, View')
  \/ View' = View
Kept == IInv' /\ (Careful => Refined)

-----------------------------------------------------------------------------
(* Numbers                                                                 *)

LEMMA Constants ==
  /\ {Top, UserMin, UserMax, KernelMin, FastMin, BootPages, FrameCount, NodesPerPage} \subseteq Nat
  /\ 0 < UserMin /\ UserMin <= UserMax /\ UserMax <= KernelMin /\ KernelMin <= Top
  /\ 0 < BootPages /\ BootPages <= Top /\ "boot" \notin Flags /\ "none" \notin Flags
  /\ FrameCount >= 3 /\ NodesPerPage >= 2 /\ NoExec \subseteq Flags
  /\ Hints \subseteq Nat /\ UnknownRoots \cap Frame = {}
  /\ AllocSizes \subseteq Nat /\ FreeSizes \subseteq Nat
  /\ ReserveSizes \subseteq Nat \ {0} /\ DeviceSizes \subseteq Nat \ {0}
  /\ ProtectSizes \subseteq Nat \ {0} /\ Growth \subseteq Nat \ {0}
BY VmmAssumption

LEMMA Sets ==
  /\ Page \subseteq Nat /\ Frame \subseteq Nat /\ IsFiniteSet(Frame)
  /\ DEVICE \notin Frame /\ -2 \notin Frame /\ NoMapping \in Mapping /\ NoMapping.frame \notin Frame
<1>1. IsFiniteSet(0 .. (FrameCount - 1))
  BY Constants, FS_Interval
<1>2. QED
  BY <1>1, Constants DEF Page, Frame, DEVICE, NoMapping, Mapping

LEMMA Least ==
  ASSUME NEW S \in SUBSET Nat, S # {}
  PROVE  \E x \in S : \A y \in S : x <= y
<1> DEFINE lt == OpToRel(<, Nat)
<1>1. \E x \in S : \A y \in S : <<y, x>> \notin lt
  <2>1. IsWellFoundedOn(lt, Nat)
    BY NatLessThanWellFounded
  <2> HIDE DEF lt
  <2>2. QED
    BY <2>1, WFMin
<1>2. \A x, y \in Nat : <<y, x>> \notin lt => x <= y
  BY DEF OpToRel
<1>3. QED
  <2> HIDE DEF lt
  <2>1. QED
    BY <1>1, <1>2

LEMMA LowestIs ==
  ASSUME NEW S \in SUBSET Nat, S # {}
  PROVE  Lowest(S) \in S
BY Least DEF Lowest

-----------------------------------------------------------------------------
(* Memory                                                                  *)

(* Taking a node takes no frame away: at most a free one becomes one of    *)
(* nodes.                                                                  *)
LEMMA NodeIs ==
  ASSUME NEW m \in Memory, NEW kind \in {"nodes", "descs"}, NEW r \in Node(m, kind)
  PROVE  /\ r \in Memory /\ r.free \subseteq m.free
         /\ r.free \cup r.slabs = m.free \cup m.slabs
         /\ m.free \cap m.slabs = {} => r.free \cap r.slabs = {}
<1>1. CASE m[kind] > 0
  <2>1. r = [m EXCEPT ![kind] = @ - 1]
    BY <1>1 DEF Node
  <2>2. QED
    BY <1>1, <2>1 DEF Memory
<1>2. CASE ~(m[kind] > 0)
  <2> DEFINE f == Lowest(m.free)
  <2>1. m.free # {}
    BY <1>2 DEF Node
  <2>2. f \in m.free
    BY <2>1, LowestIs, Sets DEF Memory
  <2>3. r = [m EXCEPT !.free = @ \ {f}, !.slabs = @ \cup {f}, ![kind] = NodesPerPage - 1]
    BY <1>2, <2>1 DEF Node
  <2>4. f \in Frame /\ NodesPerPage - 1 \in Nat
    BY <2>2, Constants DEF Memory
  <2> HIDE DEF f
  <2>5. r.free = m.free \ {f} /\ r.slabs = m.slabs \cup {f}
    BY <2>3 DEF Memory
  <2>6. r \in Memory
    BY <2>3, <2>4 DEF Memory
  <2>7. QED
    BY <2>2, <2>5, <2>6
<1>3. QED
  BY <1>1, <1>2

LEMMA NodeUse ==
  ASSUME NEW m \in Memory, NEW r \in vma_alloc(m), NEW table, OneUse(m, table)
  PROVE  r \in Memory /\ r.free \subseteq m.free /\ OneUse(r, table) /\ Stock(r, table) = Stock(m, table)
<1>1. /\ r \in Memory /\ r.free \subseteq m.free
      /\ r.free \cup r.slabs = m.free \cup m.slabs
      /\ m.free \cap m.slabs = {} => r.free \cap r.slabs = {}
  BY NodeIs DEF vma_alloc
<1>2. QED
  BY <1>1 DEF OneUse, Stock

LEMMA FreeNodeUse ==
  ASSUME NEW m \in Memory, NEW table, OneUse(m, table)
  PROVE  /\ vma_free(m) \in Memory /\ vma_free(m).free = m.free /\ vma_free(m).slabs = m.slabs
         /\ OneUse(vma_free(m), table) /\ Stock(vma_free(m), table) = Stock(m, table)
<1>1. vma_free(m) \in Memory /\ vma_free(m).free = m.free /\ vma_free(m).slabs = m.slabs
  BY DEF vma_free, Memory
<1>2. QED
  BY <1>1 DEF OneUse, Stock

LEMMA SlabNodes ==
  ASSUME NEW m \in Memory
  PROVE  /\ IsFiniteSet(m.slabs) /\ Cardinality(m.slabs) \in Nat
         /\ NodesPerPage \in Nat /\ NodesPerPage * Cardinality(m.slabs) \in Nat
<1>1. IsFiniteSet(m.slabs)
  BY Sets, FS_Subset DEF Memory
<1>2. Cardinality(m.slabs) \in Nat /\ NodesPerPage \in Nat
  BY <1>1, Constants, FS_CardinalityType
<1>3. QED
  BY <1>1, <1>2

(* Nodes change their state, and new ones come in pages.                   *)
LEMMA NodeDue ==
  ASSUME NEW m \in Memory, m.free \cap m.slabs = {}, NEW kind \in {"nodes", "descs"}, NEW r \in Node(m, kind),
         NEW n \in Nat
  PROVE  Due(r, n + 1) = Due(m, n)
<1> DEFINE c == Cardinality(m.slabs)
<1>1. IsFiniteSet(m.slabs) /\ c \in Nat /\ NodesPerPage \in Nat /\ NodesPerPage * c \in Nat
  BY SlabNodes
<1>2. CASE m[kind] > 0
  <2>1. r = [m EXCEPT ![kind] = @ - 1]
    BY <1>2 DEF Node
  <2>2. r.nodes + r.descs = m.nodes + m.descs - 1 /\ r.slabs = m.slabs /\ m.nodes \in Nat /\ m.descs \in Nat
    BY <1>2, <2>1 DEF Memory
  <2> DEFINE k == NodesPerPage * c
  <2>3. Due(r, n + 1) = r.nodes + r.descs + (n + 1) - k /\ Due(m, n) = m.nodes + m.descs + n - k /\ k \in Nat
    BY <1>1, <2>2 DEF Due
  <2> HIDE DEF k
  <2>4. QED
    BY <2>2, <2>3
<1>3. CASE ~(m[kind] > 0)
  <2> DEFINE f == Lowest(m.free)
  <2>1. m.free # {}
    BY <1>3 DEF Node
  <2>2. f \in m.free
    BY <2>1, LowestIs, Sets DEF Memory
  <2>3. r = [m EXCEPT !.free = @ \ {f}, !.slabs = @ \cup {f}, ![kind] = NodesPerPage - 1]
    BY <1>3, <2>1 DEF Node
  <2> HIDE DEF f
  <2>4. m[kind] = 0 /\ m.nodes \in Nat /\ m.descs \in Nat
    BY <1>3 DEF Memory
  <2>5. r.slabs = m.slabs \cup {f}
    BY <2>3 DEF Memory
  <2>6. r.nodes + r.descs = m.nodes + m.descs + (NodesPerPage - 1)
    <3>1. CASE kind = "nodes"
      <4>1. r.nodes = NodesPerPage - 1 /\ r.descs = m.descs /\ m.nodes = 0
        BY <2>3, <2>4, <3>1 DEF Memory
      <4>2. QED
        BY <1>1, <2>4, <4>1
    <3>2. CASE kind = "descs"
      <4>1. r.descs = NodesPerPage - 1 /\ r.nodes = m.nodes /\ m.descs = 0
        BY <2>3, <2>4, <3>2 DEF Memory
      <4>2. QED
        BY <1>1, <2>4, <4>1
    <3>3. QED
      BY <3>1, <3>2
  <2>7. Cardinality(r.slabs) = c + 1
    BY <1>1, <2>2, <2>5, FS_AddElement
  <2> HIDE DEF c
  <2>8. NodesPerPage * (c + 1) = NodesPerPage * c + NodesPerPage
    BY <1>1
  <2> DEFINE k == NodesPerPage * c
  <2>9. Due(r, n + 1) = r.nodes + r.descs + (n + 1) - (k + NodesPerPage) /\ Due(m, n) = m.nodes + m.descs + n - k
    BY <2>7, <2>8 DEF Due, c
  <2>10. k \in Nat
    BY <1>1
  <2> HIDE DEF k
  <2>11. QED
    BY <1>1, <2>4, <2>6, <2>9, <2>10
<1>4. QED
  BY <1>2, <1>3

LEMMA AllocDue ==
  ASSUME NEW m \in Memory, m.free \cap m.slabs = {}, NEW r \in vma_alloc(m), NEW n \in Nat
  PROVE  Due(r, n + 1) = Due(m, n)
BY NodeDue DEF vma_alloc

LEMMA FreeDue ==
  ASSUME NEW m \in Memory, NEW n \in Nat
  PROVE  Due(vma_free(m), n) = Due(m, n + 1)
<1>1. vma_free(m).nodes = m.nodes + 1 /\ vma_free(m).descs = m.descs /\ vma_free(m).slabs = m.slabs
  BY DEF vma_free, Memory
<1>2. m.nodes \in Nat /\ m.descs \in Nat /\ (m.nodes + 1) + m.descs + n = m.nodes + m.descs + (n + 1)
  BY DEF Memory
<1> DEFINE k == NodesPerPage * Cardinality(m.slabs)
<1>3. Due(vma_free(m), n) = (m.nodes + 1) + m.descs + n - k /\ Due(m, n + 1) = m.nodes + m.descs + (n + 1) - k
  BY <1>1 DEF Due
<1>4. k \in Nat
  BY SlabNodes
<1> HIDE DEF k
<1>5. QED
  BY <1>2, <1>3, <1>4

(* Frames that are freed or mapped make no difference.                     *)
LEMMA SameDue ==
  ASSUME NEW m \in Memory, NEW r, NEW F, r = [m EXCEPT !.free = F], NEW n
  PROVE  Due(r, n) = Due(m, n)
<1>1. r.nodes = m.nodes /\ r.descs = m.descs /\ r.slabs = m.slabs
  BY DEF Memory
<1>2. QED
  BY <1>1 DEF Due

-----------------------------------------------------------------------------
(* Mapping pages                                                           *)

OneMore(s, p, i, flags) ==
  LET f == Lowest(s.mem.free) IN
  [mem |-> [s.mem EXCEPT !.free = @ \ {f}],
   table |-> [s.table EXCEPT ![p + i - 1] = [frame |-> f, flags |-> flags]]]
IsCourse(f, start, p, n, flags) ==
  f = [i \in 0 .. n |-> IF i = 0 THEN start ELSE OneMore(f[i - 1], p, i, flags)]

LEMMA CourseExists ==
  ASSUME NEW start, NEW p, NEW flags, NEW k \in Nat
  PROVE  \E f : IsCourse(f, start, p, k, flags)
<1> DEFINE Q(n) == \E f : IsCourse(f, start, p, n, flags)
           S == {n \in Nat : ~Q(n)}
<1>1. ASSUME S # {} PROVE FALSE
  <2>1. PICK n \in S : \A y \in S : n <= y
    BY <1>1, Least
  <2>2. CASE n = 0
    <3> DEFINE f == [i \in 0 .. 0 |-> start]
    <3>1. IsCourse(f, start, p, 0, flags)
      BY DEF IsCourse
    <3> HIDE DEF f
    <3>2. QED
      BY <2>1, <2>2, <3>1
  <2>3. CASE n # 0
    <3>1. n \in Nat /\ n - 1 \in Nat /\ n - 1 \notin S
      BY <2>1, <2>3
    <3>2. PICK f : IsCourse(f, start, p, n - 1, flags)
      BY <3>1
    <3> DEFINE g == [i \in 0 .. n |-> IF i = n THEN OneMore(f[n - 1], p, n, flags) ELSE f[i]]
    <3>3. ASSUME NEW i \in 0 .. n
          PROVE  g[i] = IF i = 0 THEN start ELSE OneMore(g[i - 1], p, i, flags)
      <4>1. CASE i = n
        <5>1. g[i] = OneMore(f[i - 1], p, i, flags) /\ g[i - 1] = f[i - 1] /\ i # 0
          BY <3>1, <4>1, <2>3
        <5> HIDE DEF g
        <5>2. QED
          BY <5>1
      <4>2. CASE i = 0
        <5>1. g[0] = f[0] /\ 0 \in 0 .. (n - 1)
          BY <3>1, <2>3
        <5>2. f[0] = start
          BY <3>2, <5>1 DEF IsCourse
        <5> HIDE DEF g
        <5>3. QED
          BY <4>2, <5>1, <5>2
      <4>3. CASE i # n /\ i # 0
        <5>1. g[i] = f[i] /\ g[i - 1] = f[i - 1] /\ i \in 0 .. (n - 1)
          BY <3>1, <4>3
        <5>2. f[i] = OneMore(f[i - 1], p, i, flags)
          BY <3>2, <4>3, <5>1 DEF IsCourse
        <5> HIDE DEF g
        <5>3. QED
          BY <4>3, <5>1, <5>2
      <4>4. QED
        BY <4>1, <4>2, <4>3
    <3>4. g = [i \in 0 .. n |-> g[i]]
      OBVIOUS
    <3> HIDE DEF g
    <3>5. IsCourse(g, start, p, n, flags)
      BY <3>3, <3>4 DEF IsCourse
    <3>6. QED
      BY <2>1, <3>5
  <2>4. QED
    BY <2>2, <2>3
<1>2. QED
  BY <1>1

LEMMA MappedIs ==
  ASSUME NEW m, NEW table, NEW p, NEW flags, NEW k \in Nat
  PROVE  \E f : /\ IsCourse(f, [mem |-> m, table |-> table], p, k, flags)
                /\ Mapped(m, table, p, k, flags) = f[k]
<1> DEFINE start == [mem |-> m, table |-> table]
           course == CHOOSE f : IsCourse(f, start, p, k, flags)
<1>1. Mapped(m, table, p, k, flags) = course[k]
  BY DEF Mapped, IsCourse, OneMore
<1>2. IsCourse(course, start, p, k, flags)
  BY CourseExists
<1>3. QED
  BY <1>1, <1>2

(* The pages R are mapped to frames that were free, and nothing else has   *)
(* changed.                                                                *)
Moved(m, table, R, flags, r, T) ==
  /\ r \in Memory /\ r = [m EXCEPT !.free = r.free] /\ r.free \subseteq m.free
  /\ T \in Table /\ OneUse(r, T) /\ Stock(r, T) = Stock(m, table)
  /\ \A q \in Page \ R : T[q] = table[q]
  /\ \A q \in R : T[q].frame \in Frame /\ T[q].flags = flags

LEMMA MoveOne ==
  ASSUME NEW m \in Memory, NEW table \in Table, OneUse(m, table),
         NEW flags \in Flags \cup {"boot", "none"}, NEW f \in m.free,
         NEW r \in Page, table[r] = NoMapping
  PROVE  Moved(m, table, {r}, flags, [m EXCEPT !.free = @ \ {f}],
               [table EXCEPT ![r] = [frame |-> f, flags |-> flags]])
<1> DEFINE n == [m EXCEPT !.free = @ \ {f}]
           T == [table EXCEPT ![r] = [frame |-> f, flags |-> flags]]
<1>1. n \in Memory /\ n.free = m.free \ {f} /\ n.slabs = m.slabs /\ n = [m EXCEPT !.free = n.free]
  BY DEF Memory
<1>2. f \in Frame /\ f \notin m.slabs /\ f \notin Held(table)
  BY DEF Memory, OneUse
<1>3. /\ T \in Table /\ T[r].frame = f /\ T[r].flags = flags
      /\ \A q \in Page : q # r => T[q] = table[q]
  BY <1>2 DEF Table, Mapping
<1>4. table[r].frame \notin Frame
  BY Sets
<1> HIDE DEF n, T
<1>5. Held(T) = Held(table) \cup {f}
  <2>1. ASSUME NEW x \in Held(T) PROVE x \in Held(table) \cup {f}
    BY <1>3, <2>1 DEF Held
  <2>2. ASSUME NEW x \in Held(table) PROVE x \in Held(T)
    BY <1>3, <1>4, <2>2 DEF Held
  <2>3. f \in Held(T)
    BY <1>2, <1>3 DEF Held
  <2>4. QED
    BY <2>1, <2>2, <2>3
<1>6. OneUse(n, T)
  <2>1. ASSUME NEW q1 \in Page, NEW q2 \in Page, T[q1].frame \in Frame, T[q1].frame = T[q2].frame
        PROVE  q1 = q2
    <3>1. ASSUME NEW q \in Page, q # r PROVE T[q].frame # f
      BY <1>2, <1>3, <3>1 DEF Held
    <3>2. CASE q1 # r /\ q2 # r
      BY <1>3, <2>1, <3>2 DEF OneUse
    <3>3. QED
      BY <1>3, <2>1, <3>1, <3>2
  <2>2. QED
    BY <1>1, <1>2, <1>5, <2>1 DEF OneUse
<1>7. Stock(n, T) = Stock(m, table)
  BY <1>1, <1>5 DEF Stock
<1>8. Moved(m, table, {r}, flags, n, T)
  BY <1>1, <1>2, <1>3, <1>6, <1>7 DEF Moved
<1>9. QED
  BY <1>8 DEF n, T

LEMMA MovedIs ==
  ASSUME NEW m \in Memory, NEW table \in Table, OneUse(m, table),
         NEW flags \in Flags \cup {"boot", "none"}, NEW p \in Nat, NEW k \in Nat,
         p + k <= Top, k <= Cardinality(m.free), \A i \in 0 .. (k - 1) : table[p + i] = NoMapping
  PROVE  LET done == Mapped(m, table, p, k, flags)
         IN  Moved(m, table, p .. (p + k - 1), flags, done.mem, done.table)
<1> DEFINE start == [mem |-> m, table |-> table]
<1>1. PICK f : IsCourse(f, start, p, k, flags) /\ Mapped(m, table, p, k, flags) = f[k]
  BY MappedIs
<1> DEFINE Good(i) == /\ Moved(m, table, p .. (p + i - 1), flags, f[i].mem, f[i].table)
                      /\ Cardinality(f[i].mem.free) = Cardinality(m.free) - i
           Bad == {i \in 0 .. k : ~Good(i)}
<1>2. IsFiniteSet(m.free) /\ Cardinality(m.free) \in Nat
  BY Sets, FS_Subset, FS_CardinalityType DEF Memory
<1>3. Good(0)
  <2>1. f[0] = start
    BY <1>1 DEF IsCourse
  <2>2. f[0].mem = m /\ f[0].table = table
    BY <2>1
  <2>3. p .. (p + 0 - 1) = {} /\ m = [m EXCEPT !.free = m.free]
    BY DEF Memory
  <2> HIDE DEF start
  <2>4. QED
    BY <1>2, <2>2, <2>3 DEF Moved
<1>4. ASSUME NEW i \in 1 .. k, Good(i - 1) PROVE Good(i)
  <2> DEFINE s == f[i - 1]
             b == Lowest(s.mem.free)
             r == p + i - 1
  <2>1. f[i] = OneMore(s, p, i, flags)
    BY <1>1 DEF IsCourse
  <2>2. i - 1 \in Nat /\ p + (i - 1) = r /\ r \in Page /\ p .. (p + (i - 1) - 1) = p .. (r - 1)
    BY Constants DEF Page
  <2>3. /\ Moved(m, table, p .. (r - 1), flags, s.mem, s.table)
        /\ Cardinality(s.mem.free) = Cardinality(m.free) - (i - 1)
    BY <1>4, <2>2
  <2> HIDE DEF s
  <2>4. s.mem \in Memory /\ s.table \in Table /\ OneUse(s.mem, s.table) /\ s.table[r] = table[r]
    BY <2>2, <2>3 DEF Moved
  <2>5. table[r] = NoMapping
    BY <2>2
  <2>6. IsFiniteSet(s.mem.free) /\ s.mem.free # {}
    <3>1. IsFiniteSet(s.mem.free)
      BY <2>4, Sets, FS_Subset DEF Memory
    <3>2. Cardinality(s.mem.free) > 0
      BY <1>2, <2>3
    <3>3. QED
      BY <3>1, <3>2, FS_EmptySet
  <2>7. b \in s.mem.free
    BY <2>4, <2>6, LowestIs, Sets DEF Memory
  <2> HIDE DEF b
  <2> DEFINE n == [s.mem EXCEPT !.free = @ \ {b}]
             T == [s.table EXCEPT ![r] = [frame |-> b, flags |-> flags]]
  <2>8. f[i].mem = n /\ f[i].table = T
    BY <2>1 DEF OneMore, b
  <2>9. Moved(s.mem, s.table, {r}, flags, n, T)
    BY <2>2, <2>4, <2>5, <2>7, MoveOne
  <2>10. n.free = s.mem.free \ {b} /\ Cardinality(n.free) = Cardinality(m.free) - i
    <3>1. n.free = s.mem.free \ {b}
      BY <2>4 DEF Memory
    <3>2. Cardinality(s.mem.free \ {b}) = Cardinality(s.mem.free) - 1
      BY <2>6, <2>7, FS_RemoveElement
    <3>3. QED
      BY <1>2, <2>3, <3>1, <3>2
  <2> HIDE DEF n, T
  <2>11. n = [m EXCEPT !.free = n.free]
    BY <2>3, <2>9 DEF Moved
  <2>12. p .. (p + i - 1) = (p .. (r - 1)) \cup {r} /\ r \notin p .. (r - 1)
    BY <2>2
  <2>13. Moved(m, table, p .. (p + i - 1), flags, n, T)
    <3>1. ASSUME NEW q \in Page \ (p .. (p + i - 1)) PROVE T[q] = table[q]
      <4>1. q \notin {r} /\ q \notin p .. (r - 1)
        BY <2>12
      <4>2. T[q] = s.table[q] /\ s.table[q] = table[q]
        BY <2>3, <2>9, <4>1 DEF Moved
      <4>3. QED
        BY <4>2
    <3>2. ASSUME NEW q \in p .. (p + i - 1) PROVE T[q].frame \in Frame /\ T[q].flags = flags
      <4>1. CASE q = r
        BY <2>9, <4>1 DEF Moved
      <4>2. CASE q # r
        <5>1. q \in p .. (r - 1) /\ q \in Page \ {r}
          BY Constants, <2>2, <2>12, <4>2 DEF Page
        <5>2. T[q] = s.table[q] /\ s.table[q].frame \in Frame /\ s.table[q].flags = flags
          BY <2>3, <2>9, <5>1 DEF Moved
        <5>3. QED
          BY <5>2
      <4>3. QED
        BY <4>1, <4>2
    <3>3. QED
      BY <2>3, <2>9, <2>11, <3>1, <3>2 DEF Moved
  <2>14. QED
    BY <2>8, <2>10, <2>13
<1> HIDE DEF Good
<1>5. Bad = {}
  <2>1. ASSUME Bad # {} PROVE FALSE
    <3>1. Bad \subseteq Nat
      OBVIOUS
    <3>2. PICK i \in Bad : \A j \in Bad : i <= j
      BY <2>1, <3>1, Least
    <3>3. i # 0
      BY <1>3, <3>2
    <3>4. i \in 1 .. k /\ i - 1 \in 0 .. k /\ i - 1 \notin Bad
      BY <3>2, <3>3
    <3>5. QED
      BY <1>4, <3>2, <3>4
  <2>2. QED
    BY <2>1
<1>6. Good(k)
  BY <1>5
<1>7. QED
  BY <1>1, <1>6 DEF Good

(* Pages that were not mapped are mapped to frames of a device.            *)
DeviceTable(table, R, flags) ==
  [q \in Page |-> IF q \in R THEN [frame |-> DEVICE, flags |-> flags] ELSE table[q]]

LEMMA DeviceUse ==
  ASSUME NEW m \in Memory, NEW table \in Table, OneUse(m, table),
         NEW flags \in Flags, NEW R, \A q \in R \cap Page : table[q] = NoMapping
  PROVE  LET T == DeviceTable(table, R, flags)
         IN  T \in Table /\ OneUse(m, T) /\ Stock(m, T) = Stock(m, table)
<1> DEFINE T == DeviceTable(table, R, flags)
<1>1. T = [q \in Page |-> IF q \in R THEN [frame |-> DEVICE, flags |-> flags] ELSE table[q]]
  BY DEF DeviceTable
<1> HIDE DEF T
<1>2. T \in Table
  BY <1>1 DEF Table, Mapping
<1>3. \A q \in Page : T[q].frame \in Frame \/ table[q].frame \in Frame => T[q] = table[q]
  BY <1>1, Sets
<1>4. Held(T) = Held(table)
  BY <1>3 DEF Held
<1>5. OneUse(m, T) /\ Stock(m, T) = Stock(m, table)
  BY <1>3, <1>4 DEF OneUse, Stock
<1>6. QED
  BY <1>2, <1>5 DEF T

(* Pages change their flags.                                               *)
LEMMA RecolouredUse ==
  ASSUME NEW m \in Memory, NEW table \in Table, OneUse(m, table), NEW flags \in Flags, NEW R
  PROVE  LET T == Recoloured(table, R, flags)
         IN  /\ T \in Table /\ OneUse(m, T) /\ Stock(m, T) = Stock(m, table)
             /\ \A q \in Page : T[q].frame = table[q].frame
<1> DEFINE T == Recoloured(table, R, flags)
<1>1. T \in Table /\ \A q \in Page : T[q].frame = table[q].frame
  BY DEF Recoloured, Table, Mapping
<1> HIDE DEF T
<1>2. Held(T) = Held(table)
  BY <1>1 DEF Held
<1>3. OneUse(m, T) /\ Stock(m, T) = Stock(m, table)
  BY <1>1, <1>2 DEF OneUse, Stock
<1>4. QED
  BY <1>1, <1>3 DEF T

(* Pages are unmapped and their frames released.                           *)
LEMMA UnmappedUse ==
  ASSUME NEW m \in Memory, NEW table \in Table, OneUse(m, table), NEW R \in SUBSET Page
  PROVE  LET T == Unmapped(table, R)
             n == [m EXCEPT !.free = @ \cup FramesIn(table, R)]
         IN  /\ T \in Table /\ n \in Memory /\ n.free = m.free \cup FramesIn(table, R)
             /\ OneUse(n, T) /\ Stock(n, T) \subseteq Stock(m, table)
             /\ Executable => Stock(n, T) = Stock(m, table)
             /\ \A q \in Page \ R : T[q] = table[q]
<1> DEFINE T == Unmapped(table, R)
           n == [m EXCEPT !.free = @ \cup FramesIn(table, R)]
<1>1. FramesIn(table, R) \subseteq Held(table)
  BY DEF FramesIn, Held
<1>2. /\ n \in Memory /\ n.free = m.free \cup FramesIn(table, R) /\ n.slabs = m.slabs
  BY <1>1 DEF Held, Memory
<1>3. /\ T \in Table /\ \A q \in R : T[q] = NoMapping
      /\ \A q \in Page \ R : T[q] = table[q]
  BY Sets DEF Unmapped, Table
<1> HIDE DEF T, n
<1>4. Held(T) \subseteq Held(table) \ FramesIn(table, R)
  <2>1. ASSUME NEW q \in Page, T[q].frame \in Frame PROVE T[q].frame \in Held(table) \ FramesIn(table, R)
    <3>1. q \in Page \ R /\ T[q] = table[q]
      BY <1>3, <2>1, Sets
    <3>2. ASSUME NEW x \in R PROVE table[x].frame # table[q].frame
      BY <2>1, <3>1 DEF OneUse
    <3>3. QED
      BY <2>1, <3>1, <3>2 DEF Held, FramesIn
  <2>2. QED
    BY <2>1 DEF Held
<1>5. ASSUME Executable PROVE Held(table) \subseteq Held(T) \cup FramesIn(table, R)
  <2>1. ASSUME NEW q \in Page, table[q].frame \in Frame PROVE table[q].frame \in Held(T) \cup FramesIn(table, R)
    BY <1>3, <1>5, <2>1 DEF Held, FramesIn, Executable
  <2>2. QED
    BY <2>1 DEF Held
<1>6. OneUse(n, T)
  <2>1. \A p, q \in Page : T[p].frame \in Frame /\ T[p].frame = T[q].frame => p = q
    BY <1>3, Sets DEF OneUse
  <2>2. QED
    BY <1>1, <1>2, <1>4, <2>1 DEF OneUse
<1>7. Stock(n, T) \subseteq Stock(m, table)
  BY <1>1, <1>2, <1>4 DEF Stock
<1>8. Executable => Stock(n, T) = Stock(m, table)
  BY <1>1, <1>2, <1>4, <1>5 DEF Stock
<1>9. QED
  BY <1>2, <1>3, <1>6, <1>7, <1>8 DEF T, n

-----------------------------------------------------------------------------
(* One space of several                                                    *)

(* What a call does to a space, its table and memory.                      *)
Keeps(root, as, table, m) ==
  /\ m \in Memory /\ table \in Table /\ IsSpace(root, as)
  /\ OneUse(m, table) /\ Stock(m, table) \subseteq Stock(mem, pt[root])
  /\ Executable => Stock(m, table) = Stock(mem, pt[root])
  /\ Executable => Backed(as, table)
  /\ Careful => /\ Apart(as) /\ Stepped(areas[root], as)
                /\ Due(m, Cardinality(as)) = Due(mem, Cardinality(areas[root]))

(* The areas of the other spaces.                                          *)
Others(root) == {u \in Uses : u[1] # root}
Split ==
  /\ IsFiniteSet(Uses)
  /\ \A root \in DOMAIN areas : /\ IsFiniteSet(Others(root))
                               /\ Cardinality(Uses) = Cardinality(Others(root)) + Cardinality(areas[root])

LEMMA SplitIs == Typed => Split
<1> SUFFICES ASSUME Typed PROVE Split
  OBVIOUS
<1> DEFINE T == {areas[r] : r \in DOMAIN areas}
<1>1. IsFiniteSet(T)
  <2> DEFINE f == [r \in DOMAIN areas |-> areas[r]]
  <2>1. f \in Surjection(DOMAIN areas, T)
    BY DEF Surjection
  <2> HIDE DEF f, T
  <2>2. IsFiniteSet(DOMAIN areas)
    BY DEF Typed
  <2>3. QED
    BY <2>1, <2>2, FS_Surjection
<1>2. \A S \in T : IsFiniteSet(S)
  BY DEF Typed, IsSpace
<1>3. IsFiniteSet(Uses)
  <2>1. IsFiniteSet(UNION T)
    BY <1>1, <1>2, FS_UNION
  <2>2. IsFiniteSet((DOMAIN areas) \X UNION T)
    BY <2>1, FS_Product DEF Typed
  <2>3. Uses \subseteq (DOMAIN areas) \X UNION T
    BY DEF Uses
  <2> HIDE DEF T
  <2>4. QED
    BY <2>2, <2>3, FS_Subset
<1>4. ASSUME NEW root \in DOMAIN areas
      PROVE  /\ IsFiniteSet(Others(root))
             /\ Cardinality(Uses) = Cardinality(Others(root)) + Cardinality(areas[root])
  <2> DEFINE own == {root} \X areas[root]
  <2>1. IsFiniteSet(Others(root))
    BY <1>3, FS_Subset DEF Others
  <2>2. IsFiniteSet(areas[root]) /\ IsFiniteSet({root}) /\ Cardinality({root}) = 1
    BY FS_Singleton DEF Typed, IsSpace
  <2>3. IsFiniteSet(own) /\ Cardinality(own) = 1 * Cardinality(areas[root])
    BY <2>2, FS_Product
  <2>4. Uses = Others(root) \cup own /\ Others(root) \cap own = {}
    <3>1. \A u \in Uses : u[1] = root => u \in own
      BY DEF Uses
    <3>2. \A u \in own : u \in Uses /\ u[1] = root
      BY DEF Uses
    <3> HIDE DEF own
    <3>3. QED
      BY <3>1, <3>2 DEF Others
  <2> HIDE DEF own
  <2>5. /\ Cardinality(areas[root]) \in Nat /\ Cardinality(own) \in Nat /\ Cardinality(Others(root)) \in Nat
        /\ Cardinality(Others(root) \cap own) = 0
    BY <2>1, <2>2, <2>3, <2>4, FS_CardinalityType, FS_EmptySet
  <2>6. Cardinality(Uses) = Cardinality(Others(root)) + Cardinality(own) - Cardinality(Others(root) \cap own)
    BY <2>1, <2>3, <2>4, FS_Union
  <2>7. QED
    BY <2>1, <2>3, <2>5, <2>6
<1>5. QED
  BY <1>3, <1>4 DEF Split

LEMMA SplitNext == Typed' => Split'
BY SplitIs, PTL

LEMMA ViewIs == View = Views
BY DEF View, Views, ViewOf, UseIn, UseBy, UseOf, Holds, find_vma, Use

LEMMA ViewNext == (View = Views)'
BY ViewIs, PTL

(* What is due stays due when the same is added on both sides.             *)
LEMMA DueShift ==
  ASSUME NEW m \in Memory, NEW r \in Memory, NEW a \in Nat, NEW b \in Nat, Due(m, a) = Due(r, b), NEW c \in Int
  PROVE  Due(m, a + c) = Due(r, b + c)
<1> DEFINE x == NodesPerPage * Cardinality(m.slabs)
           y == NodesPerPage * Cardinality(r.slabs)
<1>1. x \in Nat /\ y \in Nat
  BY SlabNodes
<1>2. /\ m.nodes \in Nat /\ m.descs \in Nat /\ r.nodes \in Nat /\ r.descs \in Nat
      /\ m.nodes + m.descs + a - x = r.nodes + r.descs + b - y
  BY DEF Memory, Due
<1>3. /\ Due(m, a + c) = m.nodes + m.descs + (a + c) - x
      /\ Due(r, b + c) = r.nodes + r.descs + (b + c) - y
  BY DEF Due
<1> HIDE DEF x, y
<1>4. QED
  BY <1>1, <1>2, <1>3

NothingLost ==
  \A f \in Frame : \/ f \in mem.free \cup mem.slabs \cup DOMAIN pt
                   \/ \E root \in DOMAIN pt : f \in Held(pt[root])

LEMMA LostIs == NoFrameLost <=> NothingLost
<1>1. ASSUME NEW f \in Frame
      PROVE  f \in {FrameOf(u) : u \in Mappings} <=> \E root \in DOMAIN pt : f \in Held(pt[root])
  <2>1. ASSUME f \in {FrameOf(u) : u \in Mappings} PROVE \E root \in DOMAIN pt : f \in Held(pt[root])
    BY <2>1 DEF FrameOf, Mappings, Held
  <2>2. ASSUME NEW root \in DOMAIN pt, f \in Held(pt[root]) PROVE f \in {FrameOf(u) : u \in Mappings}
    <3>1. PICK p \in Page : pt[root][p].frame = f
      BY <2>2 DEF Held
    <3>2. <<root, p>> \in Mappings /\ FrameOf(<<root, p>>) = f
      BY <3>1 DEF Mappings, FrameOf
    <3>3. QED
      BY <3>2
  <2>3. QED
    BY <2>1, <2>2
<1>2. QED
  BY <1>1 DEF NoFrameLost, NothingLost

LEMMA LostIsNext == NoFrameLost' <=> NothingLost'
BY LostIs, PTL

LEMMA ExclusiveIs == ASSUME Typed, Exclusive PROVE FramesExclusive
<1>1. ASSUME NEW u \in Mappings PROVE FrameOf(u) \in Held(pt[u[1]]) /\ u[1] \in DOMAIN pt /\ u[2] \in Page
  BY DEF Mappings, FrameOf, Held
<1>2. ASSUME NEW u \in Mappings PROVE FrameOf(u) \notin mem.free \cup DOMAIN pt \cup mem.slabs
  BY <1>1 DEF Exclusive, OneUse, Stock
<1>3. ASSUME NEW u \in Mappings, NEW v \in Mappings, FrameOf(u) = FrameOf(v) PROVE u = v
  <2>1. u[1] = v[1]
    BY <1>1, <1>3 DEF Exclusive
  <2>2. u[2] = v[2]
    BY <1>1, <1>3, <2>1 DEF Exclusive, OneUse, FrameOf, Mappings
  <2>3. QED
    BY <2>1, <2>2 DEF Mappings
<1>4. mem.free \cap (DOMAIN pt \cup mem.slabs) = {} /\ DOMAIN pt \cap mem.slabs = {}
  BY DEF Typed, Exclusive, OneUse, Stock
<1>5. QED
  BY <1>2, <1>3, <1>4 DEF FramesExclusive

LEMMA CallKeeps ==
  ASSUME IInv, NEW root \in DOMAIN areas, NEW as, NEW table, NEW m, Keeps(root, as, table, m),
         mem' = m, SetSpace(root, as, table)
  PROVE  Kept
<1>1. /\ DOMAIN areas' = DOMAIN areas /\ DOMAIN pt' = DOMAIN pt /\ root \in DOMAIN pt
      /\ areas'[root] = as /\ pt'[root] = table
      /\ \A r \in DOMAIN areas : r # root => areas'[r] = areas[r] /\ pt'[r] = pt[r]
  BY DEF SetSpace, IInv, Typed
<1>2. Typed'
  BY <1>1 DEF Keeps, IInv, Typed
<1>3. Exclusive'
  <2>1. Held(table) \subseteq Stock(mem, pt[root]) /\ mem'.free \cup mem'.slabs \subseteq Stock(mem, pt[root])
    BY DEF Keeps, Stock
  <2>2. ASSUME NEW r \in DOMAIN pt, r # root PROVE Held(pt[r]) \cap Stock(mem, pt[root]) = {}
    BY <1>1, <2>2 DEF IInv, Exclusive, OneUse, Stock
  <2>3. ASSUME NEW r \in DOMAIN pt, r # root
        PROVE  OneUse(mem', pt'[r]) /\ DOMAIN pt \cap Stock(mem', pt'[r]) = {}
    <3>1. OneUse(mem, pt[r]) /\ DOMAIN pt \cap Stock(mem, pt[r]) = {} /\ pt'[r] = pt[r]
      BY <1>1, <2>3 DEF IInv, Exclusive, Typed
    <3>2. DOMAIN pt \cap Stock(mem, pt[root]) = {} /\ mem'.free \cap mem'.slabs = {}
      BY <1>1 DEF IInv, Exclusive, Keeps, OneUse
    <3>3. Held(pt[r]) \cap Stock(mem, pt[root]) = {}
      BY <2>2, <2>3
    <3>4. QED
      BY <2>1, <3>1, <3>2, <3>3 DEF OneUse, Stock
  <2>4. OneUse(mem', table) /\ DOMAIN pt \cap Stock(mem', table) = {}
    BY <1>1 DEF IInv, Exclusive, Keeps
  <2>5. ASSUME NEW r1 \in DOMAIN pt, NEW r2 \in DOMAIN pt, r1 # r2
        PROVE  Held(pt'[r1]) \cap Held(pt'[r2]) = {}
    <3>1. CASE r1 # root /\ r2 # root
      BY <1>1, <2>5, <3>1 DEF IInv, Exclusive, Typed
    <3>2. CASE r1 = root \/ r2 = root
      BY <1>1, <2>1, <2>2, <2>5, <3>2 DEF IInv, Typed
    <3>3. QED
      BY <3>1, <3>2
  <2>6. QED
    BY <1>1, <2>3, <2>4, <2>5 DEF Exclusive
<1>4. ASSUME Lossless PROVE NoFrameLost'
  <2>1. Stock(m, table) = Stock(mem, pt[root])
    BY <1>4 DEF Keeps, Lossless
  <2>2. ASSUME NEW f \in Frame
        PROVE  \/ f \in mem'.free \cup mem'.slabs \cup DOMAIN pt'
               \/ \E r \in DOMAIN pt' : f \in Held(pt'[r])
    <3>1. \/ f \in mem.free \cup mem.slabs \cup DOMAIN pt
          \/ \E r \in DOMAIN pt : f \in Held(pt[r])
      BY <1>4, LostIs DEF IInv, NothingLost
    <3>2. CASE f \in Stock(mem, pt[root])
      BY <1>1, <2>1, <3>2 DEF Stock
    <3>3. CASE f \notin Stock(mem, pt[root])
      <4>1. CASE f \in DOMAIN pt
        BY <1>1, <4>1
      <4>2. CASE \E r \in DOMAIN pt : f \in Held(pt[r])
        <5>1. PICK r \in DOMAIN pt : f \in Held(pt[r])
          BY <4>2
        <5>2. r # root
          BY <3>3, <5>1 DEF Stock
        <5>3. QED
          BY <1>1, <5>1, <5>2 DEF IInv, Typed
      <4>3. QED
        BY <3>1, <3>3, <4>1, <4>2 DEF Stock
    <3>4. QED
      BY <3>2, <3>3
  <2>3. QED
    BY <2>2, LostIsNext DEF NothingLost
<1>5. ASSUME Executable PROVE \A r \in DOMAIN areas' : Backed(areas'[r], pt'[r])
  BY <1>1, <1>5 DEF IInv, Keeps
<1>6. ASSUME Careful PROVE \A r \in DOMAIN areas' : Apart(areas'[r])
  BY <1>1, <1>6 DEF IInv, Keeps
<1>7. ASSUME Careful PROVE Balanced'
  <2> DEFINE o == Cardinality(Others(root))
             d == Cardinality(DOMAIN areas)
             old == Cardinality(areas[root])
             new == Cardinality(as)
  <2>1. Uses' = Others(root) \cup ({root} \X as) /\ Others(root)' = Others(root)
    <3>1. ASSUME NEW u PROVE u \in Others(root)' <=> u \in Others(root)
      BY <1>1 DEF Others, Uses
    <3>2. ASSUME NEW u PROVE u \in Uses' <=> u \in Others(root) \/ u \in {root} \X as
      <4>1. ASSUME u \in Uses', u[1] = root PROVE u \in {root} \X as
        BY <1>1, <4>1 DEF Uses
      <4>2. ASSUME u \in Uses', u[1] # root PROVE u \in Others(root)
        BY <3>1, <4>2 DEF Others
      <4>3. ASSUME u \in Others(root) PROVE u \in Uses'
        BY <3>1, <4>3 DEF Others
      <4>4. ASSUME u \in {root} \X as PROVE u \in Uses'
        BY <1>1, <4>4 DEF Uses
      <4>5. QED
        BY <4>1, <4>2, <4>3, <4>4
    <3>3. QED
      BY <3>1, <3>2
  <2>2. /\ Cardinality(Uses) = o + old /\ Cardinality(Uses)' = o + new
        /\ o \in Nat /\ d \in Nat /\ old \in Nat /\ new \in Nat
    <3>1. Split /\ Split' /\ IsFiniteSet(DOMAIN areas) /\ IsFiniteSet(areas[root]) /\ IsFiniteSet(as)
      BY <1>2, SplitIs, SplitNext DEF IInv, Typed, Keeps, IsSpace
    <3>2. Cardinality(Uses)' = Cardinality(Others(root)') + Cardinality(areas'[root])
      BY <1>1, <3>1 DEF Split
    <3>3. QED
      BY <1>1, <2>1, <3>1, <3>2, FS_CardinalityType DEF Split
  <2>3. Due(m, new) = Due(mem, old) /\ m \in Memory /\ mem \in Memory
    BY <1>7 DEF Keeps, IInv, Typed
  <2>4. o + d \in Int
    BY <2>2
  <2> HIDE DEF o, d, old, new
  <2>5. Due(m, new + (o + d)) = Due(mem, old + (o + d))
    <3>1. old \in Nat /\ new \in Nat
      BY <2>2
    <3>2. QED
      BY <2>3, <2>4, <3>1, DueShift, ZenonT(60)
  <2>6. new + (o + d) = o + new + d /\ old + (o + d) = o + old + d
    BY <2>2
  <2>7. Due(m, o + new + d) = Due(mem, o + old + d)
    BY <2>5, <2>6
  <2>8. Due(mem, o + old + d) = 0
    BY <1>7, <2>2 DEF IInv, Balanced, d
  <2>9. Balanced' <=> Due(m, o + new + d) = 0
    BY <1>1, <2>2 DEF Balanced, Due, d
  <2>10. QED
    BY <2>7, <2>8, <2>9
<1>8. ASSUME Careful PROVE Refined
  <2>1. View = Views /\ View' = Views'
    BY ViewIs, ViewNext
  <2>2. /\ DOMAIN Views' = DOMAIN Views /\ root \in DOMAIN Views
        /\ Views[root] = ViewOf(areas[root]) /\ Views'[root] = ViewOf(as)
        /\ \A r \in DOMAIN Views \ {root} : Views'[r] = Views[r]
    <3>1. /\ Views' = [r \in DOMAIN areas' |-> ViewOf(areas'[r])] /\ Views = [r \in DOMAIN areas |-> ViewOf(areas[r])]
          /\ ViewOf(areas[root])' = ViewOf(areas'[root])
      BY DEF Views, ViewOf, UseIn
    <3>2. QED
      BY <1>1, <3>1
  <2>3. Stepped(areas[root], as)
    BY <1>8 DEF Keeps
  <2>4. Spaces!Use(Views, Views')
    BY <2>2, <2>3 DEF Stepped, Spaces!Use
  <2>5. QED
    BY <2>1, <2>4 DEF Refined
<1>9. QED
  BY <1>2, <1>3, <1>4, <1>5, <1>6, <1>7, <1>8 DEF Kept, IInv, Executable, Careful, Lossless

LEMMA NoCall == ASSUME IInv, UNCHANGED vars PROVE Kept
<1>1. NoFrameLost' <=> NoFrameLost
  BY DEF vars, NoFrameLost, FrameOf, Mappings
<1>2. View' = View
  BY DEF vars, View, UseOf, Holds, find_vma
<1>3. Balanced' <=> Balanced
  BY DEF vars, Balanced, Uses
<1>4. IInv'
  BY <1>1, <1>3 DEF vars, IInv, Typed, Exclusive, Executable, Lossless, Careful
<1>5. QED
  BY <1>2, <1>4 DEF Kept, Refined

LEMMA EmptyHeld == EmptyTable \in Table /\ Held(EmptyTable) = {}
BY Sets DEF EmptyTable, Table, Held

(* A space without areas comes into being.                                 *)
LEMMA NewSpace ==
  ASSUME IInv, NEW root \in Frame \cup UnknownRoots, root \notin DOMAIN areas,
         root \in mem.free \cup UnknownRoots,
         mem' \in Memory, mem'.free \cap mem'.slabs = {},
         mem'.free \cup mem'.slabs = (mem.free \cup mem.slabs) \ {root},
         Due(mem', 1) = Due(mem, 0),
         areas' = [r \in DOMAIN areas \cup {root} |-> IF r = root THEN {} ELSE areas[r]],
         pt' = [r \in DOMAIN pt \cup {root} |-> IF r = root THEN EmptyTable ELSE pt[r]]
  PROVE  Kept
<1>1. /\ DOMAIN areas' = DOMAIN areas \cup {root} /\ DOMAIN pt' = DOMAIN pt \cup {root}
      /\ DOMAIN areas = DOMAIN pt /\ areas'[root] = {} /\ pt'[root] = EmptyTable
      /\ \A r \in DOMAIN pt : areas'[r] = areas[r] /\ pt'[r] = pt[r]
  BY DEF IInv, Typed
<1>2. Typed'
  <2>1. IsFiniteSet(DOMAIN areas')
    BY <1>1, FS_AddElement DEF IInv, Typed
  <2>2. QED
    BY <1>1, <2>1, EmptyHeld, FS_EmptySet DEF IInv, Typed, IsSpace
<1>3. Exclusive'
  <2>1. mem.free \cap mem.slabs = {} /\ \A r \in DOMAIN pt : root \notin Held(pt[r])
    <3>1. KernelRoot \in DOMAIN pt
      BY DEF IInv, Typed
    <3>2. mem.free \cap mem.slabs = {}
      BY <3>1 DEF IInv, Exclusive, OneUse
    <3>3. ASSUME NEW r \in DOMAIN pt PROVE root \notin Held(pt[r])
      BY Constants DEF IInv, Exclusive, OneUse, Held
    <3>4. QED
      BY <3>2, <3>3
  <2>2. root \notin mem'.free \cup mem'.slabs
    OBVIOUS
  <2>3. ASSUME NEW r \in DOMAIN pt PROVE OneUse(mem', pt[r]) /\ DOMAIN pt' \cap Stock(mem', pt[r]) = {}
    <3>1. OneUse(mem, pt[r]) /\ DOMAIN pt \cap Stock(mem, pt[r]) = {}
      BY DEF IInv, Exclusive
    <3>2. QED
      BY <1>1, <2>1, <2>2, <3>1 DEF OneUse, Stock
  <2>4. OneUse(mem', EmptyTable) /\ DOMAIN pt' \cap Stock(mem', EmptyTable) = {}
    <3>1. \A p, q \in Page : EmptyTable[p].frame \notin Frame
      BY Sets DEF EmptyTable
    <3>2. DOMAIN pt \cap (mem.free \cup mem.slabs) = {}
      BY DEF IInv, Typed, Exclusive, Stock
    <3>3. QED
      BY <1>1, <2>2, <3>1, <3>2, EmptyHeld DEF OneUse, Stock
  <2>5. ASSUME NEW r1 \in DOMAIN pt', NEW r2 \in DOMAIN pt', r1 # r2 PROVE Held(pt'[r1]) \cap Held(pt'[r2]) = {}
    <3>1. CASE r1 # root /\ r2 # root
      BY <1>1, <2>5, <3>1 DEF IInv, Exclusive
    <3>2. CASE r1 = root \/ r2 = root
      BY <1>1, <3>2, EmptyHeld
    <3>3. QED
      BY <3>1, <3>2
  <2>6. QED
    BY <1>1, <2>3, <2>4, <2>5 DEF Exclusive
<1>4. ASSUME Lossless PROVE NoFrameLost'
  <2>1. ASSUME NEW f \in Frame
        PROVE  \/ f \in mem'.free \cup mem'.slabs \cup DOMAIN pt'
               \/ \E r \in DOMAIN pt' : f \in Held(pt'[r])
    <3>1. \/ f \in mem.free \cup mem.slabs \cup DOMAIN pt
          \/ \E r \in DOMAIN pt : f \in Held(pt[r])
      BY <1>4, LostIs DEF IInv, NothingLost
    <3>2. CASE f \in mem.free \cup mem.slabs \cup DOMAIN pt
      BY <1>1, <3>2
    <3>3. CASE \E r \in DOMAIN pt : f \in Held(pt[r])
      BY <1>1, <3>3
    <3>4. QED
      BY <3>1, <3>2, <3>3
  <2>2. QED
    BY <2>1, LostIsNext DEF NothingLost
<1>5. ASSUME Executable PROVE \A r \in DOMAIN areas' : Backed(areas'[r], pt'[r])
  BY <1>1, <1>5 DEF IInv, Backed
<1>6. ASSUME Careful PROVE \A r \in DOMAIN areas' : Apart(areas'[r])
  BY <1>1, <1>6 DEF IInv, Apart
<1>7. ASSUME Careful PROVE Balanced'
  <2> DEFINE u == Cardinality(Uses)
             d == Cardinality(DOMAIN areas)
  <2>1. Uses' = Uses
    BY <1>1 DEF Uses
  <2>2. IsFiniteSet(Uses) /\ IsFiniteSet(DOMAIN areas)
    BY SplitIs DEF Split, IInv, Typed
  <2>3. Cardinality(Uses') = u /\ Cardinality(DOMAIN areas') = d + 1 /\ u \in Nat /\ d \in Nat
    BY <1>1, <2>1, <2>2, FS_AddElement, FS_CardinalityType
  <2>4. mem \in Memory /\ u + d \in Int
    BY <2>3 DEF IInv, Typed
  <2> HIDE DEF u, d
  <2>5. Due(mem', 1 + (u + d)) = Due(mem, 0 + (u + d))
    BY <2>4, DueShift
  <2>6. 1 + (u + d) = u + (d + 1) /\ 0 + (u + d) = u + d
    BY <2>3
  <2>7. Due(mem, u + d) = 0
    BY <1>7 DEF IInv, Balanced, u, d
  <2>8. Due(mem', u + (d + 1)) = 0
    BY <2>5, <2>6, <2>7
  <2>9. QED
    BY <2>3, <2>8 DEF Balanced, Due
<1>8. Refined
  <2>1. View = Views /\ View' = Views'
    BY ViewIs, ViewNext
  <2>2. ViewOf({}) = [p \in Page |-> NoUse]
    BY DEF ViewOf, UseIn, UseBy
  <2>3. Views' = [r \in DOMAIN Views \cup {root} |-> IF r = root THEN [p \in Page |-> NoUse] ELSE Views[r]]
    <3>1. /\ Views' = [r \in DOMAIN areas' |-> ViewOf(areas'[r])] /\ Views = [r \in DOMAIN areas |-> ViewOf(areas[r])]
          /\ DOMAIN Views = DOMAIN areas
      BY DEF Views, ViewOf, UseIn
    <3>2. QED
      BY <1>1, <2>2, <3>1
  <2>4. root \in DOMAIN Views' \ DOMAIN Views
    BY <1>1 DEF Views
  <2>5. Spaces!Create(Views, Views')
    BY <2>3, <2>4 DEF Spaces!Create
  <2>6. QED
    BY <2>1, <2>5 DEF Refined
<1>9. QED
  BY <1>2, <1>3, <1>4, <1>5, <1>6, <1>7, <1>8 DEF Kept, IInv, Executable, Careful, Lossless

LEMMA MetaIs ==
  ASSUME NEW m \in Memory, m.free \cap m.slabs = {}, NEW r \in vmm_space_meta_alloc(m)
  PROVE  /\ r \in Memory /\ r.free \cup r.slabs = m.free \cup m.slabs /\ r.free \cap r.slabs = {}
         /\ Due(r, 1) = Due(m, 0)
<1>1. 0 \in Nat /\ 0 + 1 = 1
  OBVIOUS
<1>2. QED
  BY <1>1, NodeIs, NodeDue DEF vmm_space_meta_alloc

LEMMA CreateKeeps == ASSUME IInv, vmm_space_create PROVE Kept
<1> DEFINE root == Lowest(mem.free)
           m == [mem EXCEPT !.free = @ \ {root}]
<1>1. CASE UNCHANGED vars
  BY <1>1, NoCall
<1>2. CASE ~UNCHANGED vars
  <2>1. /\ mem.free # {} /\ mem' \in vmm_space_meta_alloc(m)
        /\ areas' = [r \in DOMAIN areas \cup {root} |-> IF r = root THEN {} ELSE areas[r]]
        /\ pt' = [r \in DOMAIN pt \cup {root} |-> IF r = root THEN EmptyTable ELSE pt[r]]
    BY <1>2 DEF vmm_space_create, Return
  <2>2. mem \in Memory /\ mem.free \cap mem.slabs = {} /\ DOMAIN areas = DOMAIN pt
        /\ DOMAIN pt \cap mem.free = {}
    BY DEF IInv, Typed, Exclusive, OneUse, Stock
  <2>3. root \in mem.free
    BY <2>1, <2>2, LowestIs, Sets DEF Memory
  <2> HIDE DEF root
  <2>4. m \in Memory /\ m.free = mem.free \ {root} /\ m.slabs = mem.slabs /\ Due(m, 0) = Due(mem, 0)
    BY <2>2, SameDue DEF Memory
  <2> HIDE DEF m
  <2>5. /\ mem' \in Memory /\ mem'.free \cup mem'.slabs = m.free \cup m.slabs /\ mem'.free \cap mem'.slabs = {}
        /\ Due(mem', 1) = Due(mem, 0)
    BY <2>1, <2>2, <2>4, MetaIs
  <2>6. mem'.free \cup mem'.slabs = (mem.free \cup mem.slabs) \ {root}
    BY <2>2, <2>3, <2>4, <2>5
  <2>7. root \in Frame /\ root \notin DOMAIN areas
    BY <2>2, <2>3 DEF Memory
  <2>8. QED
    BY <2>1, <2>3, <2>5, <2>6, <2>7, NewSpace
<1>3. QED
  BY <1>1, <1>2

LEMMA QueryKeeps ==
  ASSUME IInv, NEW root \in DOMAIN areas \cup UnknownRoots, vmm_query(root)
  PROVE  Kept
<1>1. CASE UNCHANGED vars
  BY <1>1, NoCall
<1>2. CASE ~UNCHANGED vars
  <2>1. /\ root \notin DOMAIN areas /\ mem' \in vmm_space_meta_alloc(mem)
        /\ areas' = [r \in DOMAIN areas \cup {root} |-> IF r = root THEN {} ELSE areas[r]]
        /\ pt' = [r \in DOMAIN pt \cup {root} |-> IF r = root THEN EmptyTable ELSE pt[r]]
    BY <1>2 DEF vmm_query, Return
  <2>2. mem \in Memory /\ mem.free \cap mem.slabs = {}
    BY DEF IInv, Typed, Exclusive, OneUse
  <2>3. /\ mem' \in Memory /\ mem'.free \cup mem'.slabs = mem.free \cup mem.slabs /\ mem'.free \cap mem'.slabs = {}
        /\ Due(mem', 1) = Due(mem, 0)
    BY <2>1, <2>2, MetaIs
  <2>4. root \in UnknownRoots /\ root \notin mem.free \cup mem.slabs
    BY <2>1, <2>2, Constants DEF Memory
  <2>5. QED
    BY <2>1, <2>3, <2>4, NewSpace
<1>3. QED
  BY <1>1, <1>2

LEMMA DestroyKeeps ==
  ASSUME IInv, NEW root \in DOMAIN areas, vmm_space_destroy(root)
  PROVE  Kept
<1>1. /\ root # KernelRoot /\ root \notin UnknownRoots
      /\ mem' = [mem EXCEPT !.free = @ \cup {root}, !.nodes = @ + NodesBack(root), !.descs = @ + 1]
      /\ FreeFirst => \A p \in Page : pt[root][p].frame \notin Frame
  BY DEF vmm_space_destroy
<1>2. /\ DOMAIN areas' = DOMAIN areas \ {root} /\ DOMAIN pt' = DOMAIN pt \ {root}
      /\ DOMAIN areas = DOMAIN pt /\ root \in Frame /\ mem \in Memory
      /\ \A r \in DOMAIN pt : r # root => areas'[r] = areas[r] /\ pt'[r] = pt[r]
  BY <1>1 DEF vmm_space_destroy, IInv, Typed
<1>3. /\ mem' \in Memory /\ mem'.free = mem.free \cup {root} /\ mem'.slabs = mem.slabs
      /\ mem'.nodes = mem.nodes + Cardinality(areas[root]) /\ mem'.descs = mem.descs + 1
  <2> DEFINE n == NodesBack(root)
  <2>1. n \in Nat
    BY FS_CardinalityType DEF NodesBack, IInv, Typed, IsSpace
  <2>2. mem' = [mem EXCEPT !.free = @ \cup {root}, !.nodes = @ + n, !.descs = @ + 1]
    BY <1>1
  <2> HIDE DEF n
  <2>3. mem \in Memory /\ root \in Frame
    BY <1>2
  <2>4. mem' = [free |-> mem.free \cup {root}, nodes |-> mem.nodes + n, descs |-> mem.descs + 1, slabs |-> mem.slabs]
    BY <2>2, <2>3 DEF Memory
  <2>5. mem.free \cup {root} \in SUBSET Frame /\ mem.nodes + n \in Nat /\ mem.descs + 1 \in Nat
    BY <2>1, <2>3 DEF Memory
  <2>6. n = Cardinality(areas[root])
    BY DEF n, NodesBack
  <2>7. QED
    BY <2>3, <2>4, <2>5, <2>6 DEF Memory
<1>4. Typed'
  <2>1. IsFiniteSet(DOMAIN areas')
    BY <1>2, FS_RemoveElement DEF IInv, Typed
  <2>2. QED
    BY <1>1, <1>2, <1>3, <2>1 DEF IInv, Typed
<1>5. Exclusive'
  <2>1. ASSUME NEW r \in DOMAIN pt, r # root PROVE OneUse(mem', pt[r]) /\ DOMAIN pt' \cap Stock(mem', pt[r]) = {}
    <3>1. OneUse(mem, pt[r]) /\ DOMAIN pt \cap Stock(mem, pt[r]) = {} /\ root \in DOMAIN pt
      BY <1>2 DEF IInv, Exclusive
    <3>2. QED
      BY <1>2, <1>3, <3>1 DEF OneUse, Stock
  <2>2. QED
    BY <1>2, <2>1 DEF IInv, Exclusive
<1>6. ASSUME Lossless PROVE NoFrameLost'
  <2>1. Held(pt[root]) = {}
    BY <1>1, <1>6 DEF Held, Lossless
  <2>2. ASSUME NEW f \in Frame
        PROVE  \/ f \in mem'.free \cup mem'.slabs \cup DOMAIN pt'
               \/ \E r \in DOMAIN pt' : f \in Held(pt'[r])
    <3>1. \/ f \in mem.free \cup mem.slabs \cup DOMAIN pt
          \/ \E r \in DOMAIN pt : f \in Held(pt[r])
      BY <1>6, LostIs DEF IInv, NothingLost
    <3>2. CASE f \in mem.free \cup mem.slabs \cup DOMAIN pt
      BY <1>2, <1>3, <3>2
    <3>3. CASE \E r \in DOMAIN pt : f \in Held(pt[r])
      BY <1>2, <2>1, <3>3
    <3>4. QED
      BY <3>1, <3>2, <3>3
  <2>3. QED
    BY <2>2, LostIsNext DEF NothingLost
<1>7. ASSUME Executable PROVE \A r \in DOMAIN areas' : Backed(areas'[r], pt'[r])
  BY <1>2, <1>7 DEF IInv
<1>8. ASSUME Careful PROVE \A r \in DOMAIN areas' : Apart(areas'[r])
  BY <1>2, <1>8 DEF IInv
<1>9. ASSUME Careful PROVE Balanced'
  <2> DEFINE o == Cardinality(Others(root))
             c == Cardinality(areas[root])
             d == Cardinality(DOMAIN areas)
             k == NodesPerPage * Cardinality(mem.slabs)
  <2>1. Uses' = Others(root)
    BY <1>2 DEF Others, Uses
  <2>2. Split /\ IsFiniteSet(DOMAIN areas) /\ IsFiniteSet(areas[root])
    BY SplitIs DEF IInv, Typed, IsSpace
  <2>3. /\ Cardinality(Uses) = o + c /\ Cardinality(Uses') = o
        /\ Cardinality(DOMAIN areas') = d - 1 /\ o \in Nat /\ c \in Nat /\ d \in Nat
    BY <1>2, <2>1, <2>2, FS_RemoveElement, FS_CardinalityType, ZenonT(60) DEF Split
  <2>4. mem.nodes \in Nat /\ mem.descs \in Nat /\ k \in Nat
    BY <1>2, SlabNodes DEF Memory
  <2>5. mem.nodes + mem.descs + (o + c + d) - k = 0
    BY <1>9, <2>3 DEF IInv, Balanced, Due
  <2>6. Balanced' <=> (mem.nodes + c) + (mem.descs + 1) + (o + (d - 1)) - k = 0
    BY <1>3, <2>3 DEF Balanced, Due
  <2> HIDE DEF o, c, d, k
  <2>7. QED
    BY <2>3, <2>4, <2>5, <2>6
<1>10. Refined
  <2>1. View = Views /\ View' = Views'
    BY ViewIs, ViewNext
  <2>2. root \in DOMAIN Views /\ Views' = [r \in DOMAIN Views \ {root} |-> Views[r]]
    <3>1. /\ Views' = [r \in DOMAIN areas' |-> ViewOf(areas'[r])] /\ Views = [r \in DOMAIN areas |-> ViewOf(areas[r])]
          /\ DOMAIN Views = DOMAIN areas
      BY DEF Views, ViewOf, UseIn
    <3>2. QED
      BY <1>2, <3>1
  <2>3. Spaces!Destroy(Views, Views')
    BY <2>2 DEF Spaces!Destroy
  <2>4. QED
    BY <2>1, <2>3 DEF Refined
<1>11. QED
  BY <1>4, <1>5, <1>6, <1>7, <1>8, <1>9, <1>10 DEF Kept, IInv, Executable, Careful, Lossless

-----------------------------------------------------------------------------
(* Areas                                                                   *)

LEMMA ExtentIs ==
  ASSUME NEW root, NEW a, IsArea(root, a)
  PROVE  /\ Extent(a) \subseteq Page /\ a.base \in Extent(a)
         /\ a.base \in Nat /\ a.size \in Nat /\ a.size > 0 /\ a.base + a.size <= Top
         /\ \A p \in Int : p \in Extent(a) <=> a.base <= p /\ p < a.base + a.size
BY Constants DEF IsArea, AreaType, Extent, Page

(* An area of pages that no other has.                                     *)
LEMMA Added ==
  ASSUME NEW as, NEW b, \A a \in as : Disjoint(a, b)
  PROVE  /\ Apart(as) => Apart(as \cup {b})
         /\ \A table : Backed(as, table) /\ (Own(b) => \A p \in Extent(b) : table[p].frame \in Frame)
                          => Backed(as \cup {b}, table)
BY DEF Apart, Backed, Disjoint

(* What a page is used for, when one area has it, and when none has.       *)
LEMMA UseIs ==
  ASSUME NEW as, NEW p
  PROVE  /\ \A a : {b \in as : p \in Extent(b)} = {a} => UseIn(as, p) = Use(a)
         /\ {b \in as : p \in Extent(b)} = {} => UseIn(as, p) = NoUse
BY DEF UseIn, UseBy

LEMMA SameUse ==
  ASSUME NEW as, NEW new, NEW p \in Page, {b \in new : p \in Extent(b)} = {b \in as : p \in Extent(b)}
  PROVE  UseIn(new, p) = UseIn(as, p) /\ ViewOf(new)[p] = ViewOf(as)[p]
<1>1. UseIn(new, p) = UseIn(as, p)
  BY DEF UseIn
<1>2. QED
  BY <1>1 DEF ViewOf

LEMMA InUse == ASSUME NEW root, NEW a, IsArea(root, a) PROVE Use(a) # NoUse
BY DEF IsArea, AreaType, Use, NoUse

LEMMA RowIs ==
  ASSUME NEW x \in Nat, NEW y \in Nat, NEW R, R = x .. (y - 1)
  PROVE  Spaces!Row(R) /\ Spaces!Row({})
BY DEF Spaces!Row

(* Nothing changes.                                                        *)
LEMMA NotStepped == ASSUME NEW old, NEW new, ViewOf(new) = ViewOf(old) PROVE Stepped(old, new)
BY DEF Stepped, Spaces!Claimed, Spaces!Changed, Spaces!Row

(* What an area of new pages does to the view and the number of areas.     *)
LEMMA AddedStep ==
  ASSUME NEW root, NEW as, IsSpace(root, as), NEW b, IsArea(root, b), \A a \in as : Disjoint(a, b)
  PROVE  Stepped(as, as \cup {b}) /\ Cardinality(as \cup {b}) = Cardinality(as) + 1
<1> DEFINE new == as \cup {b}
<1>1. /\ Extent(b) \subseteq Page /\ b.base \in Extent(b) /\ b.base \in Nat /\ b.size \in Nat
      /\ Extent(b) = b.base .. (b.base + b.size - 1)
  BY ExtentIs DEF Extent
<1>2. ASSUME NEW p \in Page PROVE ViewOf(new)[p] = IF p \in Extent(b) THEN Use(b) ELSE ViewOf(as)[p]
  <2>1. CASE p \in Extent(b)
    <3>1. {a \in new : p \in Extent(a)} = {b}
      BY <2>1 DEF Disjoint
    <3>2. QED
      BY <2>1, <3>1, UseIs, ZenonT(60) DEF ViewOf
  <2>2. CASE p \notin Extent(b)
    <3>1. {a \in new : p \in Extent(a)} = {a \in as : p \in Extent(a)}
      BY <2>2
    <3> HIDE DEF new
    <3>2. QED
      BY <2>2, <3>1, SameUse
  <2>3. QED
    BY <2>1, <2>2
<1>3. ASSUME NEW p \in Extent(b) PROVE ViewOf(as)[p] = NoUse
  <2>1. {a \in as : p \in Extent(a)} = {}
    BY <1>3 DEF Disjoint
  <2>2. QED
    BY <1>1, <2>1, UseIs DEF ViewOf
<1>4. Use(b) # NoUse
  BY InUse
<1>5. b \notin as
  BY <1>1 DEF Disjoint
<1>6. Cardinality(new) = Cardinality(as) + 1
  BY <1>5, FS_AddElement DEF IsSpace
<1> HIDE DEF new
<1>7. Spaces!Changed(ViewOf(as), ViewOf(new)) = Extent(b)
  <2>1. \A p \in Page : ViewOf(new)[p] # ViewOf(as)[p] <=> p \in Extent(b)
    BY <1>2, <1>3, <1>4
  <2>2. QED
    BY <1>1, <2>1 DEF Spaces!Changed
<1>8. Spaces!Row(Extent(b))
  <2> DEFINE y == b.base + b.size
  <2>1. Extent(b) = b.base .. (y - 1)
    BY <1>1
  <2> HIDE DEF y
  <2>2. y \in Nat
    BY <1>1 DEF y
  <2>3. QED
    BY <1>1, <2>1, <2>2, RowIs
<1>9. Spaces!Claimed(ViewOf(as), ViewOf(new))
  BY <1>1, <1>2, <1>3, <1>7, <1>8 DEF Spaces!Claimed
<1>10. QED
  BY <1>6, <1>9 DEF Stepped, new

(* A table in which the pages of as, but those of R, are mapped still.     *)
LEMMA StillBacked ==
  ASSUME NEW root, NEW as, IsSpace(root, as), NEW old, Backed(as, old), NEW table,
         \A p \in Page : old[p].frame \in Frame => table[p].frame \in Frame
  PROVE  Backed(as, table)
<1>1. \A a \in as : Extent(a) \subseteq Page
  BY ExtentIs DEF IsSpace
<1>2. QED
  BY <1>1 DEF Backed

LEMMA HoleIs ==
  ASSUME NEW root, NEW hint \in Hints, NEW n \in Nat \ {0}, HolesFrom(root, hint, n) # {}
  PROVE  LET p == Lowest(HolesFrom(root, hint, n))
         IN  p \in Nat /\ p + n <= Top /\ Fits(root, p, n)
<1> DEFINE kernel == hint >= KernelMin
           first == IF ~kernel /\ hint < UserMin THEN UserMin ELSE hint
           limit == IF kernel THEN Top ELSE UserMax
           holes == HolesFrom(root, hint, n)
<1>1. holes = {p \in first .. (limit - n) : Fits(root, p, n)}
  BY DEF HolesFrom
<1>2. first \in Nat /\ limit \in Nat /\ limit <= Top
  BY Constants
<1> HIDE DEF first, limit
<1>3. holes \subseteq Nat
  BY <1>1, <1>2
<1>4. Lowest(holes) \in holes
  BY <1>3, LowestIs
<1> HIDE DEF holes
<1>5. Lowest(holes) \in Nat /\ Lowest(holes) + n <= Top /\ Fits(root, Lowest(holes), n)
  BY <1>1, <1>2, <1>4, Constants
<1>6. QED
  BY <1>5 DEF holes

(* Calls that only change the table, or nothing at all.                    *)
LEMMA Unchanged ==
  ASSUME IInv, NEW root \in DOMAIN areas
  PROVE  /\ mem \in Memory /\ pt[root] \in Table /\ IsSpace(root, areas[root]) /\ root \in DOMAIN pt
         /\ OneUse(mem, pt[root])
         /\ Executable => Backed(areas[root], pt[root])
         /\ Careful => Apart(areas[root])
         /\ mem.free \cap mem.slabs = {} /\ Cardinality(areas[root]) \in Nat
         /\ Stepped(areas[root], areas[root])
<1>1. Cardinality(areas[root]) \in Nat
  BY FS_CardinalityType DEF IInv, Typed, IsSpace
<1>2. Stepped(areas[root], areas[root])
  BY NotStepped
<1>3. QED
  BY <1>1, <1>2 DEF IInv, Typed, Exclusive, OneUse

LEMMA MappableIs ==
  ASSUME NEW m, NEW table, NEW p, NEW n, NEW k \in Mappable(m, table, p, n)
  PROVE  k \in 0 .. n /\ k <= Cardinality(m.free) /\ \A i \in 0 .. (k - 1) : table[p + i] = NoMapping
BY DEF Mappable

(* Mapping free frames in pages that were not mapped keeps what is backed. *)
LEMMA MovedBacked ==
  ASSUME NEW m, NEW table, NEW p \in Nat, NEW k \in Nat, NEW flags, NEW r, NEW T,
         Moved(m, table, p .. (p + k - 1), flags, r, T)
  PROVE  \A q \in Page : table[q].frame \in Frame => T[q].frame \in Frame
BY DEF Moved

LEMMA AllocateKeeps ==
  ASSUME IInv, NEW root \in DOMAIN areas, NEW hint \in Hints, NEW n \in AllocSizes,
         NEW flags \in Flags, NEW type \in Types, vmm_allocate(root, hint, n, flags, type)
  PROVE  Kept
<1> DEFINE p == Lowest(HolesFrom(root, hint, n))
           N == Area(p, n, flags, type, TRUE)
<1>1. CASE UNCHANGED vars
  BY <1>1, NoCall
<1>2. CASE ~UNCHANGED vars
  <2>1. n > 0 /\ HolesFrom(root, hint, n) # {}
    BY <1>2 DEF vmm_allocate, Return
  <2>2. n \in Nat \ {0}
    BY <2>1, Constants
  <2>3. p \in Nat /\ p + n <= Top /\ Fits(root, p, n)
    BY <2>1, <2>2, HoleIs
  <2>4. PICK m \in vma_alloc(mem) : \E k \in Mappable(m, pt[root], p, n) :
          LET done == Mapped(m, pt[root], p, k, flags) IN
          \/ /\ k = n /\ mem' = done.mem
             /\ SetSpace(root, areas[root] \cup {N}, done.table)
          \/ /\ k < n /\ mem' = vma_free(done.mem)
             /\ SetSpace(root, areas[root], done.table)
    BY <1>2 DEF vmm_allocate, Return
  <2>5. PICK k \in Mappable(m, pt[root], p, n) :
          LET done == Mapped(m, pt[root], p, k, flags) IN
          \/ /\ k = n /\ mem' = done.mem
             /\ SetSpace(root, areas[root] \cup {N}, done.table)
          \/ /\ k < n /\ mem' = vma_free(done.mem)
             /\ SetSpace(root, areas[root], done.table)
    BY <2>4
  <2> HIDE DEF p
  <2>6. /\ mem \in Memory /\ pt[root] \in Table /\ IsSpace(root, areas[root])
        /\ OneUse(mem, pt[root])
        /\ Executable => Backed(areas[root], pt[root])
        /\ Careful => Apart(areas[root])
        /\ mem.free \cap mem.slabs = {} /\ Cardinality(areas[root]) \in Nat
        /\ Stepped(areas[root], areas[root])
    BY Unchanged
  <2>7. /\ m \in Memory /\ OneUse(m, pt[root]) /\ Stock(m, pt[root]) = Stock(mem, pt[root])
        /\ Due(m, Cardinality(areas[root]) + 1) = Due(mem, Cardinality(areas[root]))
    BY <2>6, NodeUse, AllocDue
  <2>8. /\ k \in 0 .. n /\ k \in Nat /\ k <= Cardinality(m.free) /\ p + k <= Top
        /\ \A i \in 0 .. (k - 1) : pt[root][p + i] = NoMapping
    BY <2>2, <2>3, MappableIs, Constants
  <2> DEFINE r == Mapped(m, pt[root], p, k, flags).mem
             T == Mapped(m, pt[root], p, k, flags).table
  <2>9. Moved(m, pt[root], p .. (p + k - 1), flags, r, T)
    BY <2>3, <2>6, <2>7, <2>8, MovedIs
  <2>10. \/ k = n /\ mem' = r /\ SetSpace(root, areas[root] \cup {N}, T)
         \/ k < n /\ mem' = vma_free(r) /\ SetSpace(root, areas[root], T)
    BY <2>5
  <2> HIDE DEF r, T
  <2>11. /\ r \in Memory /\ T \in Table /\ OneUse(r, T) /\ Stock(r, T) = Stock(mem, pt[root])
         /\ Due(r, Cardinality(areas[root]) + 1) = Due(mem, Cardinality(areas[root]))
    BY <2>7, <2>9, SameDue DEF Moved
  <2>12. \A q \in Page : pt[root][q].frame \in Frame => T[q].frame \in Frame
    <3>1. ASSUME NEW q \in Page, pt[root][q].frame \in Frame PROVE T[q].frame \in Frame
      BY <2>9, <3>1 DEF Moved
    <3>2. QED
      BY <3>1
  <2>13. Executable => Backed(areas[root], T)
    BY <2>6, <2>12, StillBacked
  <2>14. CASE k = n /\ mem' = r /\ SetSpace(root, areas[root] \cup {N}, T)
    <3>1. IsArea(root, N) /\ Extent(N) = p .. (p + k - 1)
      BY <2>2, <2>3, <2>14, Constants DEF Area, IsArea, AreaType, Extent
    <3>2. \A a \in areas[root] : Disjoint(a, N)
      BY <2>3, <2>14, <3>1 DEF Fits, Holds, Disjoint
    <3>3. \A q \in Extent(N) : T[q].frame \in Frame
      BY <2>9, <3>1 DEF Moved
    <3> HIDE DEF N
    <3>4. IsSpace(root, areas[root] \cup {N})
      BY <2>6, <3>1, FS_AddElement DEF IsSpace
    <3>5. Executable => Backed(areas[root] \cup {N}, T)
      BY <2>13, <3>2, <3>3, Added
    <3>6. Careful => Apart(areas[root] \cup {N})
      BY <2>6, <3>2, Added
    <3>7. /\ Stepped(areas[root], areas[root] \cup {N})
          /\ Cardinality(areas[root] \cup {N}) = Cardinality(areas[root]) + 1
      BY <2>6, <3>1, <3>2, AddedStep
    <3>8. Keeps(root, areas[root] \cup {N}, T, r)
      BY <2>11, <3>4, <3>5, <3>6, <3>7 DEF Keeps
    <3>9. QED
      BY <2>14, <3>8, CallKeeps
  <2>15. CASE k < n /\ mem' = vma_free(r) /\ SetSpace(root, areas[root], T)
    <3>1. /\ vma_free(r) \in Memory /\ OneUse(vma_free(r), T) /\ Stock(vma_free(r), T) = Stock(r, T)
          /\ Due(vma_free(r), Cardinality(areas[root])) = Due(mem, Cardinality(areas[root]))
      BY <2>6, <2>11, FreeNodeUse, FreeDue
    <3>2. Keeps(root, areas[root], T, vma_free(r))
      BY <2>6, <2>11, <2>13, <3>1 DEF Keeps
    <3>3. QED
      BY <2>15, <3>2, CallKeeps
  <2>16. QED
    BY <2>10, <2>14, <2>15
<1>3. QED
  BY <1>1, <1>2

(* Looking at both ends of a short range is looking at all of it.          *)
LEMMA BlockedIs ==
  ASSUME NEW root, NEW p \in Nat, NEW n \in {1, 2}, ~Blocked(root, p, n),
         NEW b, Extent(b) = p .. (p + n - 1)
  PROVE  \A a \in areas[root] : Disjoint(a, b)
<1>1. Holds(root, p) = {} /\ Holds(root, p + n - 1) = {}
  BY DEF Blocked
<1>2. \A q \in p .. (p + n - 1) : q = p \/ q = p + n - 1
  OBVIOUS
<1>3. QED
  BY <1>1, <1>2 DEF Holds, Disjoint

LEMMA ReserveKeeps ==
  ASSUME IInv, NEW root \in DOMAIN areas, NEW p \in Clients(root), NEW n \in ReserveSizes,
         p + n <= Top, vmm_reserve(root, p, n)
  PROVE  Kept
<1> DEFINE N == Area(p, n, "none", "GUARD", FALSE)
<1>1. CASE UNCHANGED vars
  BY <1>1, NoCall
<1>2. CASE ~UNCHANGED vars
  <2>1. /\ p # 0 /\ ~Blocked(root, p, n) /\ mem' \in vma_alloc(mem)
        /\ SetSpace(root, areas[root] \cup {N}, pt[root])
    BY <1>2 DEF vmm_reserve, Return
  <2>2. /\ mem \in Memory /\ pt[root] \in Table /\ IsSpace(root, areas[root])
        /\ OneUse(mem, pt[root])
        /\ Executable => Backed(areas[root], pt[root])
        /\ Careful => Apart(areas[root])
        /\ mem.free \cap mem.slabs = {} /\ Cardinality(areas[root]) \in Nat
        /\ Stepped(areas[root], areas[root])
    BY Unchanged
  <2>3. /\ mem' \in Memory /\ OneUse(mem', pt[root]) /\ Stock(mem', pt[root]) = Stock(mem, pt[root])
        /\ Due(mem', Cardinality(areas[root]) + 1) = Due(mem, Cardinality(areas[root]))
    BY <2>1, <2>2, NodeUse, AllocDue
  <2>4. p \in Nat /\ n \in Nat \ {0}
    BY Constants, Sets DEF Clients
  <2>5. IsArea(root, N) /\ Extent(N) = p .. (p + n - 1) /\ ~Own(N)
    BY <2>4, Constants DEF Area, IsArea, AreaType, Extent, Own
  <2> HIDE DEF N
  <2>6. IsSpace(root, areas[root] \cup {N})
    BY <2>2, <2>5, FS_AddElement DEF IsSpace
  <2>7. Executable => Backed(areas[root] \cup {N}, pt[root])
    BY <2>2, <2>5 DEF Backed
  <2>8. ASSUME Careful
        PROVE  /\ Apart(areas[root] \cup {N}) /\ Stepped(areas[root], areas[root] \cup {N})
               /\ Cardinality(areas[root] \cup {N}) = Cardinality(areas[root]) + 1
    <3>1. \A a \in areas[root] : Disjoint(a, N)
      BY <2>1, <2>4, <2>5, <2>8, BlockedIs DEF Careful
    <3>2. QED
      BY <2>2, <2>5, <2>8, <3>1, Added, AddedStep
  <2>9. Keeps(root, areas[root] \cup {N}, pt[root], mem')
    BY <2>2, <2>3, <2>6, <2>7, <2>8 DEF Keeps
  <2>10. QED
    BY <2>1, <2>9, CallKeeps
<1>3. QED
  BY <1>1, <1>2

LEMMA MapExternalKeeps ==
  ASSUME IInv, NEW root \in DOMAIN areas, NEW p \in Clients(root), NEW n \in DeviceSizes, NEW flags \in Flags,
         p + n <= Top, vmm_map_external(root, p, n, flags)
  PROVE  Kept
<1> DEFINE N == Area(p, n, flags, "MMIO", FALSE)
           T(k) == [q \in Page |-> IF q \in p .. (p + k - 1)
                                   THEN [frame |-> DEVICE, flags |-> flags] ELSE pt[root][q]]
<1>1. CASE UNCHANGED vars
  BY <1>1, NoCall
<1>2. CASE ~UNCHANGED vars
  <2>1. PICK m \in vma_alloc(mem) : \E k \in DeviceMappable(pt[root], p, n) :
          \/ k = n /\ mem' = m /\ SetSpace(root, areas[root] \cup {N}, T(k))
          \/ k < n /\ mem' = vma_free(m) /\ SetSpace(root, areas[root], T(k))
    BY <1>2 DEF vmm_map_external, Return
  <2>2. PICK k \in DeviceMappable(pt[root], p, n) :
          \/ k = n /\ mem' = m /\ SetSpace(root, areas[root] \cup {N}, T(k))
          \/ k < n /\ mem' = vma_free(m) /\ SetSpace(root, areas[root], T(k))
    BY <2>1
  <2>3. ~Blocked(root, p, n)
    BY <1>2 DEF vmm_map_external, Return
  <2>4. /\ mem \in Memory /\ pt[root] \in Table /\ IsSpace(root, areas[root])
        /\ OneUse(mem, pt[root])
        /\ Executable => Backed(areas[root], pt[root])
        /\ Careful => Apart(areas[root])
        /\ mem.free \cap mem.slabs = {} /\ Cardinality(areas[root]) \in Nat
        /\ Stepped(areas[root], areas[root])
    BY Unchanged
  <2>5. /\ m \in Memory /\ OneUse(m, pt[root]) /\ Stock(m, pt[root]) = Stock(mem, pt[root])
        /\ Due(m, Cardinality(areas[root]) + 1) = Due(mem, Cardinality(areas[root]))
    BY <2>4, NodeUse, AllocDue
  <2>6. p \in Nat /\ n \in Nat \ {0}
    BY Constants, Sets DEF Clients
  <2>7. k \in 0 .. n /\ \A i \in 0 .. (k - 1) : pt[root][p + i] = NoMapping
    BY DEF DeviceMappable
  <2>8. ASSUME NEW q \in p .. (p + k - 1) PROVE pt[root][q] = NoMapping
    <3>1. q - p \in 0 .. (k - 1) /\ p + (q - p) = q
      BY <2>6, <2>7
    <3>2. QED
      BY <2>7, <3>1
  <2> DEFINE table == T(k)
             R == p .. (p + k - 1)
  <2>9. table \in Table /\ OneUse(m, table) /\ Stock(m, table) = Stock(mem, pt[root])
    <3>1. table = DeviceTable(pt[root], R, flags)
      BY DEF DeviceTable
    <3>2. \A q \in R \cap Page : pt[root][q] = NoMapping
      BY <2>8
    <3>3. m \in Memory /\ pt[root] \in Table /\ OneUse(m, pt[root])
      BY <2>4, <2>5
    <3> HIDE DEF table, R
    <3>4. table \in Table /\ OneUse(m, table) /\ Stock(m, table) = Stock(m, pt[root])
      BY <3>1, <3>2, <3>3, DeviceUse
    <3>5. QED
      BY <2>5, <3>4
  <2>10. \A q \in Page : pt[root][q].frame \in Frame => table[q].frame \in Frame
    BY <2>8, Sets
  <2>11. \/ k = n /\ mem' = m /\ SetSpace(root, areas[root] \cup {N}, table)
         \/ k < n /\ mem' = vma_free(m) /\ SetSpace(root, areas[root], table)
    BY <2>2
  <2> HIDE DEF table
  <2>12. Executable => Backed(areas[root], table)
    BY <2>4, <2>10, StillBacked
  <2>13. CASE k = n /\ mem' = m /\ SetSpace(root, areas[root] \cup {N}, table)
    <3>1. IsArea(root, N) /\ Extent(N) = p .. (p + n - 1) /\ ~Own(N)
      BY <2>6, Constants DEF Area, IsArea, AreaType, Extent, Own
    <3> HIDE DEF N
    <3>2. IsSpace(root, areas[root] \cup {N})
      BY <2>4, <3>1, FS_AddElement DEF IsSpace
    <3>3. Executable => Backed(areas[root] \cup {N}, table)
      BY <2>12, <3>1 DEF Backed
    <3>4. ASSUME Careful
          PROVE  /\ Apart(areas[root] \cup {N}) /\ Stepped(areas[root], areas[root] \cup {N})
                 /\ Cardinality(areas[root] \cup {N}) = Cardinality(areas[root]) + 1
      <4>1. \A a \in areas[root] : Disjoint(a, N)
        BY <2>3, <2>6, <3>1, <3>4, BlockedIs DEF Careful
      <4>2. QED
        BY <2>4, <3>1, <3>4, <4>1, Added, AddedStep
    <3>5. Keeps(root, areas[root] \cup {N}, table, m)
      BY <2>5, <2>9, <3>2, <3>3, <3>4 DEF Keeps
    <3>6. QED
      BY <2>13, <3>5, CallKeeps
  <2>14. CASE k < n /\ mem' = vma_free(m) /\ SetSpace(root, areas[root], table)
    <3>1. /\ vma_free(m) \in Memory /\ OneUse(vma_free(m), table) /\ Stock(vma_free(m), table) = Stock(m, table)
          /\ Due(vma_free(m), Cardinality(areas[root])) = Due(mem, Cardinality(areas[root]))
      BY <2>4, <2>5, <2>9, FreeNodeUse, FreeDue
    <3>2. Keeps(root, areas[root], table, vma_free(m))
      BY <2>4, <2>9, <2>12, <3>1 DEF Keeps
    <3>3. QED
      BY <2>14, <3>2, CallKeeps
  <2>15. QED
    BY <2>11, <2>13, <2>14
<1>3. QED
  BY <1>1, <1>2
-----------------------------------------------------------------------------
(* Areas that shrink, split and change                                     *)

LEMMA Replaced ==
  ASSUME NEW root, NEW as, IsSpace(root, as), NEW a \in as, NEW new, IsFiniteSet(new),
         \A b \in new : IsArea(root, b) /\ Extent(b) \subseteq Extent(a),
         \A b, c \in new : b # c => Disjoint(b, c)
  PROVE  IsSpace(root, (as \ {a}) \cup new) /\ (Apart(as) => Apart((as \ {a}) \cup new))
<1>1. IsFiniteSet((as \ {a}) \cup new)
  BY FS_RemoveElement, FS_Union DEF IsSpace
<1>2. IsSpace(root, (as \ {a}) \cup new)
  BY <1>1 DEF IsSpace
<1>3. ASSUME Apart(as) PROVE Apart((as \ {a}) \cup new)
  BY <1>3 DEF Apart, Disjoint
<1>4. QED
  BY <1>2, <1>3

(* What becomes of the view and the number of areas then.                  *)
LEMMA ReplacedView ==
  ASSUME NEW root, NEW as, IsSpace(root, as), Apart(as), NEW a \in as, NEW new, IsFiniteSet(new),
         \A b \in new : IsArea(root, b) /\ Extent(b) \subseteq Extent(a),
         NEW next, next = (as \ {a}) \cup new
  PROVE  /\ Cardinality(next) = Cardinality(as) - 1 + Cardinality(new)
         /\ \A p \in Page : p \in Extent(a) => ViewOf(as)[p] = Use(a) /\ ViewOf(next)[p] = UseIn(new, p)
         /\ \A p \in Page : p \notin Extent(a) => ViewOf(next)[p] = ViewOf(as)[p]
<1>1. Cardinality(next) = Cardinality(as) - 1 + Cardinality(new)
  <2>1. (as \ {a}) \cap new = {}
    <3>1. \A b \in new : Extent(b) # {}
      BY ExtentIs
    <3>2. QED
      BY <3>1, ZenonT(60) DEF Apart, Disjoint
  <2>2. /\ IsFiniteSet(as) /\ IsFiniteSet(as \ {a}) /\ Cardinality(as \ {a}) = Cardinality(as) - 1
        /\ Cardinality(as) \in Nat /\ Cardinality(new) \in Nat
    BY FS_RemoveElement, FS_CardinalityType DEF IsSpace
  <2>3. Cardinality((as \ {a}) \cap new) = 0
    BY <2>1, FS_EmptySet
  <2>4. Cardinality(next) = Cardinality(as \ {a}) + Cardinality(new) - Cardinality((as \ {a}) \cap new)
    BY <2>2, FS_Union
  <2> DEFINE x == Cardinality((as \ {a}) \cap new)
             y == Cardinality(next)
             z == Cardinality(as \ {a})
  <2>5. x = 0 /\ y = z + Cardinality(new) - x /\ z = Cardinality(as) - 1
    BY <2>2, <2>3, <2>4
  <2> HIDE DEF x, y, z
  <2>6. y = Cardinality(as) - 1 + Cardinality(new)
    <3> DEFINE c == Cardinality(as)
               d == Cardinality(new)
    <3>1. c \in Nat /\ d \in Nat /\ x = 0 /\ y = z + d - x /\ z = c - 1
      BY <2>2, <2>5
    <3> HIDE DEF c, d
    <3>2. y = c - 1 + d
      BY <3>1
    <3>3. QED
      BY <3>2 DEF c, d
  <2>7. QED
    BY <2>6 DEF y
<1>2. ASSUME NEW p \in Page, p \in Extent(a) PROVE ViewOf(as)[p] = Use(a) /\ ViewOf(next)[p] = UseIn(new, p)
  <2>1. {b \in as : p \in Extent(b)} = {a}
    BY <1>2 DEF Apart, Disjoint
  <2>2. {b \in next : p \in Extent(b)} = {b \in new : p \in Extent(b)}
    BY <2>1
  <2>3. ViewOf(as)[p] = UseIn(as, p) /\ ViewOf(next)[p] = UseIn(next, p)
    BY <1>2 DEF ViewOf
  <2>4. UseIn(as, p) = Use(a)
    BY ONLY <2>1, UseIs, ZenonT(60)
  <2>5. UseIn(next, p) = UseIn(new, p)
    BY <1>2, <2>2, SameUse
  <2>6. QED
    BY <2>3, <2>4, <2>5
<1>3. ASSUME NEW p \in Page, p \notin Extent(a) PROVE ViewOf(next)[p] = ViewOf(as)[p]
  <2>1. {b \in next : p \in Extent(b)} = {b \in as : p \in Extent(b)}
    BY <1>3
  <2>2. QED
    BY <1>3, <2>1, SameUse
<1>4. QED
  BY <1>1, <1>2, <1>3

LEMMA PartUse ==
  ASSUME NEW new, \A b, c \in new : b # c => Disjoint(b, c), NEW b \in new, NEW q \in Extent(b)
  PROVE  UseIn(new, q) = Use(b)
<1>1. {c \in new : q \in Extent(c)} = {b}
  BY DEF Disjoint
<1>2. QED
  BY <1>1, UseIs

(* The pages R, if any, were of a, which was backed.                       *)
LEMMA ReplacedBacked ==
  ASSUME NEW root, NEW as, IsSpace(root, as), NEW a \in as, NEW new,
         \A b \in new : Extent(b) \subseteq Extent(a) /\ (Own(b) => Own(a)),
         \A b, c \in new : b # c => Disjoint(b, c),
         NEW old, Backed(as, old), NEW table, NEW R,
         R # {} => Own(a) /\ R \subseteq Extent(a),
         \A q \in Page \ R : old[q].frame \in Frame => table[q].frame \in Frame,
         \A b \in new : Own(b) => \A q \in Extent(b) : table[q].frame \in Frame
  PROVE  Backed((as \ {a}) \cup new, table)
<1> DEFINE next == (as \ {a}) \cup new
<1>1. ASSUME NEW b \in as, NEW c \in as, Own(b), Own(c), b # c PROVE Disjoint(b, c)
  BY <1>1 DEF Backed
<1>2. ASSUME NEW b \in next, Own(b), NEW q \in Extent(b) PROVE table[q].frame \in Frame
  <2>1. CASE b \in new
    BY <1>2, <2>1
  <2>2. CASE b \notin new
    <3>1. b \in as /\ b # a
      BY <1>2, <2>2
    <3>2. q \in Page /\ old[q].frame \in Frame
      BY <1>2, <3>1, ExtentIs DEF IsSpace, Backed
    <3>3. q \notin R
      BY <1>1, <1>2, <3>1 DEF Disjoint
    <3>4. QED
      BY <3>2, <3>3
  <2>3. QED
    BY <2>1, <2>2
<1>3. ASSUME NEW b \in next, NEW c \in next, Own(b), Own(c), b # c PROVE Disjoint(b, c)
  <2>1. CASE b \in new /\ c \in new
    BY <1>3, <2>1
  <2>2. CASE b \notin new /\ c \notin new
    BY <1>1, <1>3, <2>2
  <2>3. CASE b \in new /\ c \notin new
    <3>1. Own(a) /\ Extent(b) \subseteq Extent(a) /\ c \in as /\ c # a
      BY <1>3, <2>3
    <3>2. Disjoint(a, c)
      BY <1>1, <1>3, <3>1
    <3>3. QED
      BY <3>1, <3>2 DEF Disjoint
  <2>4. CASE b \notin new /\ c \in new
    <3>1. Own(a) /\ Extent(c) \subseteq Extent(a) /\ b \in as /\ b # a
      BY <1>3, <2>4
    <3>2. Disjoint(b, a)
      BY <1>1, <1>3, <3>1
    <3>3. QED
      BY <3>1, <3>2 DEF Disjoint
  <2>5. QED
    BY <2>1, <2>2, <2>3, <2>4
<1> HIDE DEF next
<1>4. Backed(next, table)
  BY <1>2, <1>3 DEF Backed
<1>5. QED
  BY <1>4 DEF next

Front(a, p) == [a EXCEPT !.size = p - a.base]
Back(a, p, n) == [a EXCEPT !.base = p + n, !.size = a.base + a.size - (p + n)]

LEMMA FrontIs ==
  ASSUME NEW root, NEW a, IsArea(root, a), a.flags # "boot", NEW p \in Nat, NEW n \in Nat,
         a.base <= p, p + n <= a.base + a.size
  PROVE  /\ Front(a, p).size = p - a.base
         /\ p > a.base => IsArea(root, Front(a, p)) /\ Extent(Front(a, p)) = a.base .. (p - 1)
         /\ Front(a, p).flags = a.flags /\ Front(a, p).is_paged = a.is_paged /\ Front(a, p).type = a.type
<1>1. /\ Front(a, p).size = p - a.base /\ Front(a, p).base = a.base
      /\ Front(a, p).flags = a.flags /\ Front(a, p).is_paged = a.is_paged /\ Front(a, p).type = a.type
  BY DEF Front, IsArea, AreaType
<1>2. ASSUME p > a.base PROVE Front(a, p) \in AreaType
  <2>1. p - a.base \in Nat \ {0}
    BY <1>2 DEF IsArea, AreaType
  <2>2. QED
    BY <2>1 DEF Front, IsArea, AreaType
<1>3. Extent(Front(a, p)) = a.base .. (p - 1) /\ Front(a, p).base + Front(a, p).size <= Top
  <2>1. a.base \in Nat /\ a.size \in Nat /\ a.base + a.size <= Top
    BY DEF IsArea, AreaType
  <2>2. a.base + (p - a.base) = p /\ p <= Top
    BY <2>1, Constants
  <2>3. Extent(Front(a, p)) = a.base .. (a.base + (p - a.base) - 1)
    BY <1>1 DEF Extent
  <2>4. QED
    BY <1>1, <2>1, <2>2, <2>3
<1>4. ASSUME p > a.base PROVE IsArea(root, Front(a, p))
  BY <1>1, <1>2, <1>3, <1>4 DEF IsArea
<1>5. QED
  BY <1>1, <1>3, <1>4

LEMMA BackIs ==
  ASSUME NEW root, NEW a, IsArea(root, a), a.flags # "boot", NEW p \in Nat, NEW n \in Nat,
         a.base <= p, p + n <= a.base + a.size
  PROVE  /\ Back(a, p, n).size = a.base + a.size - (p + n)
         /\ p + n < a.base + a.size => /\ IsArea(root, Back(a, p, n))
                                       /\ Extent(Back(a, p, n)) = (p + n) .. (a.base + a.size - 1)
         /\ Back(a, p, n).flags = a.flags /\ Back(a, p, n).is_paged = a.is_paged /\ Back(a, p, n).type = a.type
<1>1. /\ Back(a, p, n).size = a.base + a.size - (p + n) /\ Back(a, p, n).base = p + n
      /\ Back(a, p, n).flags = a.flags /\ Back(a, p, n).is_paged = a.is_paged /\ Back(a, p, n).type = a.type
  BY DEF Back, IsArea, AreaType
<1>2. ASSUME p + n < a.base + a.size PROVE Back(a, p, n) \in AreaType
  <2>1. p + n \in Nat /\ a.base + a.size - (p + n) \in Nat \ {0}
    BY <1>2 DEF IsArea, AreaType
  <2>2. QED
    BY <2>1 DEF Back, IsArea, AreaType
<1>3. Extent(Back(a, p, n)) = (p + n) .. (a.base + a.size - 1)
  BY <1>1 DEF Extent, IsArea, AreaType
<1>4. QED
  BY <1>1, <1>2, <1>3, SMTT(30) DEF IsArea, AreaType

LEMMA PiecesAre ==
  ASSUME NEW root, NEW a, IsArea(root, a), a.flags # "boot", NEW p \in Nat, NEW n \in Nat,
         a.base <= p, p + n <= a.base + a.size
  PROVE  /\ IsFiniteSet(Pieces(a, p, n))
         /\ \A b \in Pieces(a, p, n) :
              /\ IsArea(root, b) /\ Extent(b) \subseteq Extent(a) \ (p .. (p + n - 1))
              /\ b.flags = a.flags /\ b.is_paged = a.is_paged /\ b.type = a.type
         /\ \A b, c \in Pieces(a, p, n) : b # c => Disjoint(b, c)
         /\ \A q \in Extent(a) \ (p .. (p + n - 1)) : \E b \in Pieces(a, p, n) : q \in Extent(b)
<1> DEFINE front == Front(a, p)
           back == Back(a, p, n)
<1>1. Pieces(a, p, n) = {b \in {front, back} : b.size > 0}
  BY DEF Pieces, Front, Back
<1>2. IsFiniteSet(Pieces(a, p, n))
  <2>1. IsFiniteSet({front})
    BY FS_Singleton
  <2>2. IsFiniteSet({front} \cup {back})
    BY <2>1, FS_AddElement
  <2>3. Pieces(a, p, n) \subseteq {front} \cup {back}
    BY <1>1
  <2>4. QED
    BY <2>2, <2>3, FS_Subset
<1>3. /\ front.size = p - a.base
      /\ p > a.base => IsArea(root, front) /\ Extent(front) = a.base .. (p - 1)
      /\ front.flags = a.flags /\ front.is_paged = a.is_paged /\ front.type = a.type
  BY FrontIs
<1>4. /\ back.size = a.base + a.size - (p + n)
      /\ p + n < a.base + a.size => IsArea(root, back) /\ Extent(back) = (p + n) .. (a.base + a.size - 1)
      /\ back.flags = a.flags /\ back.is_paged = a.is_paged /\ back.type = a.type
  BY BackIs
<1>5. a.base \in Nat /\ a.size \in Nat /\ Extent(a) = a.base .. (a.base + a.size - 1)
  BY DEF IsArea, AreaType, Extent
<1> HIDE DEF front, back
<1>6. front \in Pieces(a, p, n) => p > a.base
  BY <1>1, <1>3, <1>5
<1>7. back \in Pieces(a, p, n) => p + n < a.base + a.size
  BY <1>1, <1>4, <1>5
<1>8. ASSUME NEW b \in Pieces(a, p, n)
      PROVE  /\ IsArea(root, b) /\ Extent(b) \subseteq Extent(a) \ (p .. (p + n - 1))
             /\ b.flags = a.flags /\ b.is_paged = a.is_paged /\ b.type = a.type
  <2>1. CASE b = front
    <3>1. IsArea(root, b) /\ Extent(b) = a.base .. (p - 1)
      BY <1>3, <1>6, <2>1
    <3>2. QED
      BY <1>3, <1>5, <2>1, <3>1, SMTT(30)
  <2>2. CASE b = back
    <3>1. IsArea(root, b) /\ Extent(b) = (p + n) .. (a.base + a.size - 1)
      BY <1>4, <1>7, <2>2
    <3>2. QED
      BY <1>4, <1>5, <2>2, <3>1
  <2>3. QED
    BY <1>1, <2>1, <2>2
<1>9. ASSUME front \in Pieces(a, p, n), back \in Pieces(a, p, n) PROVE Disjoint(front, back) /\ Disjoint(back, front)
  <2>1. Extent(front) = a.base .. (p - 1) /\ Extent(back) = (p + n) .. (a.base + a.size - 1)
    BY <1>3, <1>4, <1>6, <1>7, <1>9
  <2>2. QED
    BY <1>5, <2>1 DEF Disjoint
<1>10. \A b, c \in Pieces(a, p, n) : b # c => Disjoint(b, c)
  BY <1>1, <1>9
<1>11. ASSUME NEW q \in Extent(a) \ (p .. (p + n - 1)) PROVE \E b \in Pieces(a, p, n) : q \in Extent(b)
  <2>1. q \in Int /\ (q < p \/ q >= p + n) /\ a.base <= q /\ q < a.base + a.size
    BY <1>5
  <2>2. CASE q < p
    <3>1. front.size > 0 /\ q \in Extent(front)
      BY <1>3, <1>5, <2>1, <2>2
    <3>2. QED
      BY <1>1, <3>1
  <2>3. CASE q >= p + n
    <3>1. back.size > 0 /\ q \in Extent(back)
      BY <1>4, <1>5, <2>1, <2>3
    <3>2. QED
      BY <1>1, <3>1
  <2>4. QED
    BY <2>1, <2>2, <2>3
<1>12. QED
  BY <1>2, <1>8, <1>10, <1>11

(* How many pieces there are.                                              *)
LEMMA PieceCount ==
  ASSUME NEW root, NEW a, IsArea(root, a), a.flags # "boot", NEW p \in Nat, NEW n \in Nat,
         a.base <= p, p + n <= a.base + a.size
  PROVE  Cardinality(Pieces(a, p, n)) =
           (IF p = a.base THEN 0 ELSE 1) + (IF p + n = a.base + a.size THEN 0 ELSE 1)
<1> DEFINE front == Front(a, p)
           back == Back(a, p, n)
<1>1. Pieces(a, p, n) = {b \in {front, back} : b.size > 0}
  BY DEF Pieces, Front, Back
<1>2. /\ front.size = p - a.base /\ back.size = a.base + a.size - (p + n)
      /\ front.base = a.base /\ back.base = p + n /\ a.base \in Nat /\ a.size \in Nat
  BY DEF Front, Back, IsArea, AreaType
<1> HIDE DEF front, back
<1>3. CASE p = a.base /\ p + n = a.base + a.size
  <2>1. Pieces(a, p, n) = {}
    BY <1>1, <1>2, <1>3
  <2>2. QED
    BY <1>3, <2>1, FS_EmptySet
<1>4. CASE p # a.base /\ p + n = a.base + a.size
  <2>1. Pieces(a, p, n) = {front}
    BY <1>1, <1>2, <1>4
  <2>2. QED
    BY <1>4, <2>1, FS_Singleton
<1>5. CASE p = a.base /\ p + n # a.base + a.size
  <2>1. Pieces(a, p, n) = {back}
    BY <1>1, <1>2, <1>5
  <2>2. Cardinality(Pieces(a, p, n)) = 1
    BY <2>1, FS_Singleton
  <2>3. QED
    BY <1>5, <2>2
<1>6. CASE p # a.base /\ p + n # a.base + a.size
  <2>1. Pieces(a, p, n) = {front} \cup {back} /\ back \notin {front}
    BY <1>1, <1>2, <1>6
  <2>2. IsFiniteSet({front}) /\ Cardinality({front}) = 1
    BY FS_Singleton
  <2>3. Cardinality({front} \cup {back}) = 2
    BY <2>1, <2>2, FS_AddElement
  <2>4. QED
    BY <1>6, <2>1, <2>3
<1>7. QED
  BY <1>3, <1>4, <1>5, <1>6

LEMMA NoNode ==
  ASSUME NEW m \in Memory, vma_alloc(m) = {}
  PROVE  m.free = {}
BY DEF vma_alloc, Node, Memory

(* Clients leave the loader's area alone.                                  *)
LEMMA NotBoot ==
  ASSUME NEW root, NEW a, IsArea(root, a), NEW p \in Clients(root), p \in Extent(a)
  PROVE  a.flags # "boot"
BY Constants DEF IsArea, AreaType, Extent, Clients, Page

LEMMA FreeKeeps ==
  ASSUME IInv, NEW root \in DOMAIN areas, NEW p \in Clients(root), NEW n \in Nat, vmm_free(root, p, n)
  PROVE  Kept
<1> DEFINE a == find_vma(root, p)
           R == IF a.is_paged THEN p .. (p + n - 1) ELSE {}
           table == Unmapped(pt[root], R)
           m == [mem EXCEPT !.free = @ \cup FramesIn(pt[root], R)]
           rest == (areas[root] \ {a}) \cup Pieces(a, p, n)
           split == p # a.base /\ p + n # a.base + a.size
<1>1. CASE UNCHANGED vars
  BY <1>1, NoCall
<1>2. CASE ~UNCHANGED vars
  <2>1. Holds(root, p) # {} /\ p + n <= a.base + a.size
    BY <1>2 DEF vmm_free, Return
  <2>2. \/ p = a.base /\ n = a.size /\ mem' = vma_free(m) /\ SetSpace(root, rest, table)
        \/ ~split /\ n # a.size /\ mem' = m /\ SetSpace(root, rest, table)
        \/ split /\ vma_alloc(m) = {} /\ mem' = m /\ SetSpace(root, areas[root], table)
        \/ split /\ mem' \in vma_alloc(m) /\ SetSpace(root, rest, table)
    BY <1>2 DEF vmm_free, Return
  <2>3. a \in areas[root] /\ p \in Extent(a)
    BY <2>1 DEF find_vma, Holds
  <2> HIDE DEF a
  <2>4. /\ mem \in Memory /\ pt[root] \in Table /\ IsSpace(root, areas[root])
        /\ OneUse(mem, pt[root])
        /\ Executable => Backed(areas[root], pt[root])
        /\ Careful => Apart(areas[root])
        /\ mem.free \cap mem.slabs = {} /\ Cardinality(areas[root]) \in Nat
        /\ Stepped(areas[root], areas[root])
    BY Unchanged
  <2>5. IsArea(root, a) /\ a.flags # "boot" /\ p \in Nat
    BY <2>3, <2>4, NotBoot, Sets DEF IsSpace, Clients
  <2>6. /\ a.base \in Nat /\ a.size \in Nat /\ a.base <= p /\ p < a.base + a.size /\ a.base + a.size <= Top
        /\ Extent(a) = a.base .. (a.base + a.size - 1)
    BY <2>3, <2>5 DEF IsArea, AreaType, Extent
  <2>7. R \subseteq Extent(a) /\ R \subseteq Page /\ (R # {} => Own(a))
    <3>1. Extent(a) \subseteq Page
      BY <2>5, ExtentIs
    <3>2. p .. (p + n - 1) \subseteq Extent(a)
      BY <2>1, <2>5, <2>6
    <3>3. QED
      BY <2>5, <3>1, <3>2 DEF Own
  <2>8. /\ table \in Table /\ m \in Memory /\ m.free = mem.free \cup FramesIn(pt[root], R)
        /\ OneUse(m, table) /\ Stock(m, table) \subseteq Stock(mem, pt[root])
        /\ Executable => Stock(m, table) = Stock(mem, pt[root])
        /\ \A q \in Page \ R : table[q] = pt[root][q]
        /\ Due(m, Cardinality(areas[root])) = Due(mem, Cardinality(areas[root]))
    <3> HIDE DEF R
    <3>1. QED
      BY <2>4, <2>7, UnmappedUse, SameDue, SMTT(30)
  <2>9. /\ IsFiniteSet(Pieces(a, p, n))
        /\ \A b \in Pieces(a, p, n) :
             /\ IsArea(root, b) /\ Extent(b) \subseteq Extent(a) \ (p .. (p + n - 1))
             /\ b.flags = a.flags /\ b.is_paged = a.is_paged /\ b.type = a.type
        /\ \A b, c \in Pieces(a, p, n) : b # c => Disjoint(b, c)
        /\ \A q \in Extent(a) \ (p .. (p + n - 1)) : \E b \in Pieces(a, p, n) : q \in Extent(b)
    <3>1. IsArea(root, a) /\ a.flags # "boot" /\ p \in Nat /\ n \in Nat /\ a.base <= p /\ p + n <= a.base + a.size
      BY <2>1, <2>5, <2>6
    <3> HIDE DEF a
    <3>2. QED
      BY <3>1, PiecesAre
  <2>10. IsSpace(root, rest) /\ (Careful => Apart(rest))
    BY <2>3, <2>4, <2>9, Replaced
  <2>11. ASSUME Executable PROVE Backed(rest, table)
    <3>1. \A q \in Page \ R : pt[root][q].frame \in Frame => table[q].frame \in Frame
      BY <2>8
    <3>2. ASSUME NEW b \in Pieces(a, p, n), Own(b), NEW q \in Extent(b) PROVE table[q].frame \in Frame
      <4>1. Own(a) /\ q \in Extent(a) /\ q \notin R
        BY <2>9, <3>2 DEF Own
      <4>2. q \in Page /\ pt[root][q].frame \in Frame
        BY <2>3, <2>4, <2>5, <2>11, <4>1, ExtentIs DEF Backed
      <4>3. QED
        BY <3>1, <4>1, <4>2
    <3>3. \A b \in Pieces(a, p, n) : Extent(b) \subseteq Extent(a) /\ (Own(b) => Own(a))
      BY <2>9 DEF Own
    <3>4. /\ IsSpace(root, areas[root]) /\ Backed(areas[root], pt[root]) /\ (R # {} => Own(a) /\ R \subseteq Extent(a))
          /\ \A b, c \in Pieces(a, p, n) : b # c => Disjoint(b, c)
      BY <2>4, <2>7, <2>9, <2>11
    <3> HIDE DEF R, table, m, split
    <3>5. QED
      BY <2>3, <3>1, <3>2, <3>3, <3>4, ReplacedBacked, ZenonT(60)
  <2>12. ASSUME vma_alloc(m) = {}, Executable PROVE Backed(areas[root], table)
    <3>1. FramesIn(pt[root], R) = {}
      BY <2>8, <2>12, NoNode
    <3>2. ASSUME NEW q \in R PROVE FALSE
      <4>1. pt[root][q].frame \in Frame
        BY <2>3, <2>4, <2>7, <2>12 DEF Backed
      <4>2. QED
        BY <2>12, <3>1, <4>1 DEF FramesIn, Executable
    <3>3. \A q \in Page : pt[root][q].frame \in Frame => table[q].frame \in Frame
      BY <2>8, <3>2
    <3>4. QED
      BY <2>4, <2>12, <3>3, StillBacked
  <2> DEFINE whole == p = a.base /\ n = a.size
  <2>13. ASSUME Careful
         PROVE  /\ Stepped(areas[root], rest)
                /\ whole => Cardinality(rest) + 1 = Cardinality(areas[root])
                /\ ~split /\ n # a.size => Cardinality(rest) = Cardinality(areas[root])
                /\ split => Cardinality(rest) = Cardinality(areas[root]) + 1
    <3> DEFINE new == Pieces(a, p, n)
               gone == p .. (p + n - 1)
               old_view == ViewOf(areas[root])
               new_view == ViewOf(rest)
    <3>1. /\ Cardinality(rest) = Cardinality(areas[root]) - 1 + Cardinality(new)
          /\ \A q \in Page : q \in Extent(a) => old_view[q] = Use(a) /\ new_view[q] = UseIn(new, q)
          /\ \A q \in Page : q \notin Extent(a) => new_view[q] = old_view[q]
      <4>1. /\ IsSpace(root, areas[root]) /\ Apart(areas[root]) /\ IsFiniteSet(new)
            /\ \A b \in new : IsArea(root, b) /\ Extent(b) \subseteq Extent(a)
        BY <2>4, <2>9, <2>13
      <4>2. rest = (areas[root] \ {a}) \cup new
        OBVIOUS
      <4> HIDE DEF new, rest
      <4>3. QED
        BY <2>3, <4>1, <4>2, ReplacedView
    <3>2. Cardinality(new) = (IF p = a.base THEN 0 ELSE 1) + (IF p + n = a.base + a.size THEN 0 ELSE 1)
      BY <2>1, <2>5, <2>6, PieceCount
    <3>3. ASSUME NEW q \in gone PROVE UseIn(new, q) = NoUse /\ q \in Extent(a) /\ q \in Page
      <4>1. {b \in new : q \in Extent(b)} = {}
        BY <2>9
      <4>2. q \in Extent(a)
        BY <2>1, <2>5, <2>6
      <4>3. Extent(a) \subseteq Page
        BY <2>5, ExtentIs
      <4>4. QED
        BY <4>1, <4>2, <4>3, UseIs
    <3>4. ASSUME NEW q \in Extent(a) \ gone PROVE UseIn(new, q) = Use(a)
      <4>1. PICK b \in new : q \in Extent(b)
        BY <2>9
      <4>2. Use(b) = Use(a)
        BY <2>9, <4>1 DEF Use
      <4>3. QED
        BY <2>9, <4>1, <4>2, PartUse
    <3>5. Use(a) # NoUse
      BY <2>5, InUse
    <3>6. Spaces!Row(gone)
      <4> DEFINE y == p + n
      <4>1. gone = p .. (y - 1) /\ y \in Nat /\ p \in Nat
        BY <2>5
      <4> HIDE DEF y, gone
      <4>2. QED
        BY <4>1, RowIs
    <3> HIDE DEF rest, new, gone, old_view, new_view
    <3>7. Spaces!Changed(old_view, new_view) = gone
      BY <3>1, <3>3, <3>4, <3>5 DEF Spaces!Changed
    <3>8. Spaces!Dropped(old_view, new_view)
      BY <3>1, <3>3, <3>5, <3>6, <3>7 DEF Spaces!Dropped
    <3>9. Stepped(areas[root], rest)
      BY <3>8 DEF Stepped, old_view, new_view
    <3>10. /\ whole => Cardinality(rest) + 1 = Cardinality(areas[root])
           /\ ~split /\ n # a.size => Cardinality(rest) = Cardinality(areas[root])
           /\ split => Cardinality(rest) = Cardinality(areas[root]) + 1
      BY <2>1, <2>4, <2>5, <2>6, <3>1, <3>2, SMTT(30)
    <3>11. QED
      BY <3>9, <3>10
  <2> DEFINE old == Cardinality(areas[root])
  <2>14. Due(m, old) = Due(mem, old) /\ old \in Nat /\ m.free \cap m.slabs = {}
    BY <2>4, <2>8 DEF OneUse
  <2>15. IsFiniteSet(rest) /\ Cardinality(rest) \in Nat
    BY <2>10, FS_CardinalityType DEF IsSpace
  <2> HIDE DEF rest, table, m, R, split, whole
  <2>16. CASE whole /\ mem' = vma_free(m) /\ SetSpace(root, rest, table)
    <3>1. vma_free(m) \in Memory /\ OneUse(vma_free(m), table) /\ Stock(vma_free(m), table) = Stock(m, table)
      BY <2>8, FreeNodeUse
    <3>2. Careful => Due(vma_free(m), Cardinality(rest)) = Due(mem, old)
      BY <2>8, <2>13, <2>14, <2>15, <2>16, FreeDue
    <3>3. Keeps(root, rest, table, vma_free(m))
      BY <2>8, <2>10, <2>11, <2>13, <3>1, <3>2 DEF Keeps
    <3>4. QED
      BY <2>16, <3>3, CallKeeps
  <2>17. CASE ~split /\ n # a.size /\ mem' = m /\ SetSpace(root, rest, table)
    <3>1. Careful => Due(m, Cardinality(rest)) = Due(mem, old)
      BY <2>13, <2>14, <2>17
    <3>2. Keeps(root, rest, table, m)
      BY <2>8, <2>10, <2>11, <2>13, <3>1 DEF Keeps
    <3>3. QED
      BY <2>17, <3>2, CallKeeps
  <2>18. CASE vma_alloc(m) = {} /\ mem' = m /\ SetSpace(root, areas[root], table)
    <3>1. Keeps(root, areas[root], table, m)
      BY <2>4, <2>8, <2>12, <2>18 DEF Keeps
    <3>2. QED
      BY <2>18, <3>1, CallKeeps
  <2>19. CASE split /\ mem' \in vma_alloc(m) /\ SetSpace(root, rest, table)
    <3>1. mem' \in Memory /\ OneUse(mem', table) /\ Stock(mem', table) = Stock(m, table)
      BY <2>8, <2>19, NodeUse
    <3>2. Due(mem', old + 1) = Due(m, old)
      BY <2>8, <2>14, <2>19, AllocDue
    <3>3. Careful => Due(mem', Cardinality(rest)) = Due(mem, old)
      BY <2>13, <2>14, <2>19, <3>2
    <3>4. Keeps(root, rest, table, mem')
      BY <2>8, <2>10, <2>11, <2>13, <3>1, <3>3 DEF Keeps
    <3>5. QED
      BY <2>19, <3>4, CallKeeps
  <2>20. QED
    BY <2>2, <2>16, <2>17, <2>18, <2>19 DEF whole
<1>3. QED
  BY <1>1, <1>2

LEMMA OneLonger ==
  ASSUME NEW x \in Nat, NEW y \in Nat, NEW z, z = y + 1
  PROVE  /\ x .. (x + z - 1) = (x .. (x + y - 1)) \cup {x + y}
         /\ x + y \notin x .. (x + y - 1)
OBVIOUS

LEMMA GrowKeeps ==
  ASSUME IInv, NEW root \in DOMAIN areas, NEW a \in areas[root], a.is_paged, a.base \in Clients(root),
         NEW n \in Nat, n > a.size, Careful => n = a.size + 1, Grow(root, a, n)
  PROVE  Kept
<1> DEFINE p == a.base + a.size
           more == n - a.size
           big == [a EXCEPT !.size = n]
<1>1. CASE UNCHANGED vars
  BY <1>1, NoCall
<1>2. CASE ~UNCHANGED vars
  <2>1. Holds(root, p) = {} /\ a.base + n <= UserMax
    BY <1>2 DEF Grow, Return
  <2>2. PICK k \in Mappable(mem, pt[root], p, more) :
          LET done == Mapped(mem, pt[root], p, k, a.flags) IN
          /\ mem' = done.mem
          /\ SetSpace(root, IF k = more THEN (areas[root] \ {a}) \cup {big} ELSE areas[root], done.table)
    BY <1>2 DEF Grow, Return
  <2>3. /\ mem \in Memory /\ pt[root] \in Table /\ IsSpace(root, areas[root])
        /\ OneUse(mem, pt[root])
        /\ Executable => Backed(areas[root], pt[root])
        /\ Careful => Apart(areas[root])
        /\ mem.free \cap mem.slabs = {} /\ Cardinality(areas[root]) \in Nat
        /\ Stepped(areas[root], areas[root])
    BY Unchanged
  <2>4. /\ IsArea(root, a) /\ a.base \in Nat /\ a.size \in Nat /\ a.size > 0 /\ a.base + a.size <= Top
        /\ Extent(a) \subseteq Page /\ a.base \in Extent(a)
        /\ Extent(a) = a.base .. (a.base + a.size - 1)
    BY <2>3, ExtentIs DEF IsSpace, Extent
  <2>5. a.flags # "boot" /\ a.flags \in Flags \cup {"boot", "none"} /\ Own(a)
    BY <2>4, NotBoot DEF Own, IsArea, AreaType
  <2>6. p \in Nat /\ more \in Nat /\ more > 0 /\ p + more = a.base + n
    BY <2>4
  <2>7. /\ k \in 0 .. more /\ k \in Nat /\ k <= Cardinality(mem.free) /\ p + k <= Top
        /\ \A i \in 0 .. (k - 1) : pt[root][p + i] = NoMapping
    BY <2>1, <2>6, MappableIs, Constants
  <2>8. big.size = n /\ big.base = a.base /\ big.flags = a.flags /\ big.is_paged /\ IsArea(root, big)
    <3>1. big.size = n /\ big.base = a.base /\ big.flags = a.flags /\ big.is_paged = a.is_paged /\ big.type = a.type
      BY <2>4 DEF IsArea, AreaType
    <3>2. big \in AreaType
      BY <2>4 DEF IsArea, AreaType
    <3> HIDE DEF big
    <3>3. QED
      <4>1. big.base + big.size <= Top
        <5>1. UserMax \in Nat /\ Top \in Nat /\ UserMax <= Top
          BY Constants
        <5>2. a.base \in Nat /\ a.base + n <= UserMax /\ big.base + big.size = a.base + n
          BY <2>1, <2>4, <3>1
        <5>3. QED
          BY <5>1, <5>2
      <4>2. QED
        BY <2>4, <2>5, <3>1, <3>2, <4>1 DEF IsArea
  <2>9. Extent(big) = a.base .. (a.base + n - 1)
    BY <2>8 DEF Extent
  <2> HIDE DEF big
  <2> DEFINE r == Mapped(mem, pt[root], p, k, a.flags).mem
             T == Mapped(mem, pt[root], p, k, a.flags).table
  <2>10. Moved(mem, pt[root], p .. (p + k - 1), a.flags, r, T)
    <3> HIDE DEF p
    <3>1. QED
      BY <2>3, <2>5, <2>6, <2>7, MovedIs
  <2>11. mem' = r /\ SetSpace(root, IF k = more THEN (areas[root] \ {a}) \cup {big} ELSE areas[root], T)
    BY <2>2
  <2> HIDE DEF r, T
  <2>12. /\ r \in Memory /\ T \in Table /\ OneUse(r, T) /\ Stock(r, T) = Stock(mem, pt[root])
         /\ Due(r, Cardinality(areas[root])) = Due(mem, Cardinality(areas[root]))
    BY <2>3, <2>10, SameDue DEF Moved
  <2>13. \A q \in Page : pt[root][q].frame \in Frame => T[q].frame \in Frame
    <3>1. ASSUME NEW q \in Page, pt[root][q].frame \in Frame PROVE T[q].frame \in Frame
      BY <2>10, <3>1 DEF Moved
    <3>2. QED
      BY <3>1
  <2>14. Executable => Backed(areas[root], T)
    BY <2>3, <2>13, StillBacked
  <2>15. CASE k = more
    <3> DEFINE next == (areas[root] \ {a}) \cup {big}
    <3>1. ASSUME NEW q \in Extent(big) PROVE q \in Extent(a) \/ q \in p .. (p + k - 1)
      <4>1. q \in Int /\ a.base <= q /\ q < a.base + n
        BY <2>4, <2>9
      <4>2. p + k = a.base + n /\ Extent(a) = a.base .. (p - 1)
        BY <2>4, <2>6, <2>15, SMTT(30)
      <4> HIDE DEF p
      <4>3. CASE q < p
        BY <2>4, <2>6, <4>1, <4>2, <4>3, SMTT(30)
      <4>4. CASE ~(q < p)
        BY <2>4, <2>6, <2>7, <4>1, <4>2, <4>4
      <4>5. QED
        BY <4>3, <4>4
    <3>2. ASSUME NEW q \in p .. (p + k - 1) PROVE pt[root][q] = NoMapping
      <4>1. q - p \in 0 .. (k - 1) /\ p + (q - p) = q
        BY <2>6, <2>7
      <4>2. QED
        BY <2>7, <4>1
    <3>3. IsSpace(root, next)
      <4>1. IsFiniteSet(next)
        BY <2>3, FS_RemoveElement, FS_AddElement DEF IsSpace
      <4>2. QED
        BY <2>3, <2>8, <4>1 DEF IsSpace
    <3>4. ASSUME Executable PROVE Backed(next, T)
      <4>1. Backed(areas[root], T) /\ Backed(areas[root], pt[root])
        BY <2>3, <2>14, <3>4
      <4>2. ASSUME NEW b \in areas[root] \ {a}, Own(b) PROVE Disjoint(b, big) /\ Disjoint(big, b)
        <5>1. Disjoint(b, a)
          BY <2>5, <4>1, <4>2 DEF Backed
        <5>2. ASSUME NEW q \in p .. (p + k - 1) PROVE q \notin Extent(b)
          BY <3>2, <4>1, <4>2, Sets DEF Backed
        <5>3. QED
          BY <3>1, <5>1, <5>2 DEF Disjoint
      <4>3. ASSUME NEW q \in Extent(big) PROVE T[q].frame \in Frame
        <5>1. CASE q \in Extent(a)
          BY <2>5, <4>1, <5>1 DEF Backed
        <5>2. CASE q \in p .. (p + k - 1)
          BY <2>10, <5>2 DEF Moved
        <5>3. QED
          BY <3>1, <5>1, <5>2
      <4>4. QED
        BY <4>1, <4>2, <4>3 DEF Backed
    <3>5. ASSUME Careful PROVE Apart(next)
      <4>1. p .. (p + k - 1) = {p}
        BY <2>6, <2>15, <2>4, <3>5, SMTT(30)
      <4>2. ASSUME NEW b \in areas[root] \ {a} PROVE Disjoint(b, big) /\ Disjoint(big, b)
        <5>1. Disjoint(b, a) /\ p \notin Extent(b)
          BY <2>1, <2>3, <3>5 DEF Apart, Holds
        <5>2. QED
          BY <3>1, <4>1, <5>1 DEF Disjoint
      <4>3. QED
        BY <2>3, <3>5, <4>2 DEF Apart
    <3>6. ASSUME Careful PROVE Cardinality(next) = Cardinality(areas[root])
      <4>1. big \notin areas[root] \ {a}
        <5>1. a.base \in Extent(big) /\ a.base \in Extent(a)
          BY <2>4, <2>8, ExtentIs
        <5>2. QED
          BY <2>3, <3>6, <5>1 DEF Apart, Disjoint
      <4>2. /\ IsFiniteSet(areas[root] \ {a}) /\ Cardinality(areas[root] \ {a}) = Cardinality(areas[root]) - 1
        BY <2>3, FS_RemoveElement DEF IsSpace
      <4>3. Cardinality(next) = Cardinality(areas[root] \ {a}) + 1
        BY <4>1, <4>2, FS_AddElement
      <4>4. QED
        BY <2>3, <4>2, <4>3
    <3>7. ASSUME Careful PROVE Stepped(areas[root], next)
      <4> DEFINE old_view == ViewOf(areas[root])
                 new_view == ViewOf(next)
      <4>1. p \in Page /\ n = a.size + 1 /\ Extent(big) = Extent(a) \cup {p} /\ p \notin Extent(a)
        <5>1. n = a.size + 1 /\ p + 1 <= Top /\ p \in Nat
          BY <2>4, <2>6, <2>7, <2>15, <3>7
        <5>2. p \in Page
          BY <5>1, Constants DEF Page
        <5>3. a.base .. (a.base + n - 1) = (a.base .. (a.base + a.size - 1)) \cup {p}
              /\ p \notin a.base .. (a.base + a.size - 1)
          <6>1. a.base \in Nat /\ a.size \in Nat
            BY <2>4
          <6>2. QED
            BY <5>1, <6>1, OneLonger
        <5>4. Extent(a) = a.base .. (a.base + a.size - 1)
          BY <2>4
        <5>5. QED
          BY <2>9, <5>1, <5>2, <5>3, <5>4
      <4>2. Use(big) = Use(a) /\ Use(a) # NoUse
        <5>1. big.type = a.type /\ big.is_paged = a.is_paged
          BY <2>4 DEF big, IsArea, AreaType
        <5>2. QED
          BY <2>4, <2>8, <5>1, InUse DEF Use
      <4>3. ASSUME NEW q \in Page, q \in Extent(a) PROVE old_view[q] = Use(a) /\ new_view[q] = Use(a)
        <5>1. {b \in areas[root] : q \in Extent(b)} = {a}
          BY <2>3, <3>7, <4>3 DEF Apart, Disjoint
        <5>2. {b \in next : q \in Extent(b)} = {big}
          BY <4>1, <4>3, <5>1
        <5> HIDE DEF next
        <5>3. UseIn(areas[root], q) = Use(a) /\ UseIn(next, q) = Use(big)
          BY <5>1, <5>2, UseIs
        <5>4. QED
          BY <4>2, <5>3 DEF ViewOf
      <4>4. old_view[p] = NoUse /\ new_view[p] = Use(a)
        <5>1. {b \in areas[root] : p \in Extent(b)} = {}
          BY <2>1 DEF Holds
        <5>2. {b \in next : p \in Extent(b)} = {big}
          BY <4>1, <5>1
        <5> HIDE DEF next, p
        <5>3. UseIn(areas[root], p) = NoUse /\ UseIn(next, p) = Use(big)
          BY <5>1, <5>2, UseIs
        <5>4. QED
          BY <4>1, <4>2, <5>3 DEF ViewOf
      <4>5. ASSUME NEW q \in Page, q \notin Extent(a), q # p PROVE new_view[q] = old_view[q]
        <5>1. {b \in next : q \in Extent(b)} = {b \in areas[root] : q \in Extent(b)}
          BY <2>3, <4>1, <4>5
        <5> HIDE DEF next
        <5>2. QED
          BY <5>1, SameUse
      <4> HIDE DEF next, p, old_view, new_view
      <4>6. Spaces!Changed(old_view, new_view) = {p}
        BY <4>1, <4>2, <4>3, <4>4, <4>5 DEF Spaces!Changed
      <4>7. Spaces!Row({p})
        BY <2>6, RowIs DEF Spaces!Row
      <4>8. Spaces!Claimed(old_view, new_view)
        BY <4>4, <4>6, <4>7 DEF Spaces!Claimed
      <4>9. QED
        BY <4>8 DEF Stepped, old_view, new_view
    <3>8. Keeps(root, next, T, r)
      BY <2>12, <3>3, <3>4, <3>5, <3>6, <3>7 DEF Keeps
    <3>9. QED
      BY <2>11, <2>15, <3>8, CallKeeps
  <2>16. CASE k # more
    <3>1. Keeps(root, areas[root], T, r)
      BY <2>3, <2>12, <2>14 DEF Keeps
    <3>2. QED
      BY <2>11, <2>16, <3>1, CallKeeps
  <2>17. QED
    BY <2>15, <2>16
<1>3. QED
  BY <1>1, <1>2

LEMMA ResizeKeeps ==
  ASSUME IInv, NEW root \in DOMAIN areas, NEW a \in areas[root], a.is_paged, a.base \in Clients(root),
         NEW n \in 0 .. a.size \cup {a.size + g : g \in Growth}, vmm_resize(root, a, n)
  PROVE  Kept
<1>1. /\ IsArea(root, a) /\ a.base \in Nat /\ a.size \in Nat /\ a.size > 0 /\ a.base + a.size <= Top
  BY ExtentIs DEF IInv, Typed, IsSpace
<1>2. n \in Nat /\ (Careful /\ n > a.size => n = a.size + 1)
  BY <1>1, Constants DEF Careful
<1>3. CASE n = a.size
  BY <1>1, <1>2, <1>3, NoCall DEF vmm_resize, Return
<1>4. CASE n < a.size
  <2>1. vmm_free(root, a.base + n, a.size - n)
    BY <1>1, <1>2, <1>4 DEF vmm_resize
  <2>2. a.base + n \in Clients(root) /\ a.size - n \in Nat
    BY <1>1, <1>2, <1>4, Constants DEF Clients, Page
  <2>3. QED
    BY <2>1, <2>2, FreeKeeps
<1>5. CASE n > a.size
  <2>1. Grow(root, a, n)
    BY <1>1, <1>2, <1>5 DEF vmm_resize
  <2>2. QED
    BY <1>2, <1>5, <2>1, GrowKeeps
<1>6. QED
  BY <1>1, <1>2, <1>3, <1>4, <1>5

(* The nodes protect takes, and what is left when there are too few.       *)
LEMMA ProtectNodesUse ==
  ASSUME NEW a, NEW p, NEW n, NEW table, mem \in Memory, OneUse(mem, table),
         NEW r, r \in ProtectNodes(a, p, n) \/ r = AfterNoNodes
  PROVE  r \in Memory /\ OneUse(r, table) /\ Stock(r, table) = Stock(mem, table)
<1>1. ASSUME NEW m \in vma_alloc(mem)
      PROVE  m \in Memory /\ OneUse(m, table) /\ Stock(m, table) = Stock(mem, table)
  BY NodeUse
<1>2. CASE r = mem
  BY <1>2
<1>3. CASE r \in vma_alloc(mem)
  BY <1>1, <1>3
<1>4. CASE r \in UNION {vma_alloc(m) : m \in vma_alloc(mem)}
  <2>1. PICK m \in vma_alloc(mem) : r \in vma_alloc(m)
    BY <1>4
  <2>2. m \in Memory /\ OneUse(m, table) /\ Stock(m, table) = Stock(mem, table)
    BY <1>1
  <2>3. QED
    BY <2>1, <2>2, NodeUse
<1>5. CASE r = AfterNoNodes /\ vma_alloc(mem) # {}
  <2> DEFINE m == CHOOSE m \in vma_alloc(mem) : TRUE
  <2>1. m \in vma_alloc(mem) /\ r = vma_free(m)
    BY <1>5 DEF AfterNoNodes
  <2> HIDE DEF m
  <2>2. m \in Memory /\ OneUse(m, table) /\ Stock(m, table) = Stock(mem, table)
    BY <1>1, <2>1
  <2>3. QED
    BY <2>1, <2>2, FreeNodeUse
<1>6. QED
  BY <1>2, <1>3, <1>4, <1>5 DEF ProtectNodes, AfterNoNodes

(* A node for each area there are more.                                    *)
LEMMA ProtectNodesDue ==
  ASSUME NEW a, NEW p, NEW n, mem \in Memory, mem.free \cap mem.slabs = {}, NEW c \in Nat
  PROVE  /\ Due(AfterNoNodes, c) = Due(mem, c)
         /\ \A r \in ProtectNodes(a, p, n) :
              Due(r, c + (IF p = a.base THEN 0 ELSE 1) + (IF p + n = a.base + a.size THEN 0 ELSE 1)) = Due(mem, c)
<1>1. ASSUME NEW m \in vma_alloc(mem)
      PROVE  m \in Memory /\ m.free \cap m.slabs = {} /\ Due(m, c + 1) = Due(mem, c)
  BY AllocDue, NodeIs DEF vma_alloc
<1>2. Due(AfterNoNodes, c) = Due(mem, c)
  <2>1. CASE vma_alloc(mem) = {}
    BY <2>1 DEF AfterNoNodes
  <2>2. CASE vma_alloc(mem) # {}
    <3> DEFINE m == CHOOSE m \in vma_alloc(mem) : TRUE
    <3>1. m \in vma_alloc(mem) /\ AfterNoNodes = vma_free(m)
      BY <2>2 DEF AfterNoNodes
    <3> HIDE DEF m
    <3>2. QED
      BY <1>1, <3>1, FreeDue
  <2>3. QED
    BY <2>1, <2>2
<1>3. ASSUME NEW m \in vma_alloc(mem), NEW r \in vma_alloc(m) PROVE Due(r, c + 1 + 1) = Due(mem, c)
  <2>1. c + 1 \in Nat
    OBVIOUS
  <2>2. QED
    BY <1>1, <2>1, AllocDue
<1>4. ASSUME NEW r \in ProtectNodes(a, p, n)
      PROVE  Due(r, c + (IF p = a.base THEN 0 ELSE 1) + (IF p + n = a.base + a.size THEN 0 ELSE 1)) = Due(mem, c)
  <2>1. c + 0 = c /\ c + 0 + 0 = c /\ c + 0 + 1 = c + 1 /\ c + 1 + 0 = c + 1
    OBVIOUS
  <2>2. CASE p = a.base /\ p + n = a.base + a.size
    BY <1>4, <2>1, <2>2 DEF ProtectNodes
  <2>3. CASE p = a.base /\ p + n # a.base + a.size
    BY <1>1, <1>4, <2>1, <2>3 DEF ProtectNodes
  <2>4. CASE p # a.base /\ p + n = a.base + a.size
    BY <1>1, <1>4, <2>1, <2>4 DEF ProtectNodes
  <2>5. CASE p # a.base /\ p + n # a.base + a.size
    <3>1. r \in UNION {vma_alloc(m) : m \in vma_alloc(mem)}
      BY <1>4, <2>5 DEF ProtectNodes
    <3>2. QED
      BY <1>3, <2>5, <3>1
  <2>6. QED
    BY <2>2, <2>3, <2>4, <2>5
<1>5. QED
  BY <1>2, <1>4

LEMMA ProtectKeeps ==
  ASSUME IInv, NEW root \in DOMAIN areas, NEW p \in Clients(root), NEW n \in ProtectSizes, NEW flags \in Flags,
         vmm_protect(root, p, n, flags)
  PROVE  Kept
<1> DEFINE a == find_vma(root, p)
           done == {q \in p .. (p + n - 1) : \A i \in p .. q : pt[root][i] # NoMapping}
           table == Recoloured(pt[root], done, flags)
           mid == [a EXCEPT !.base = p, !.size = n, !.flags = flags]
           new == Pieces(a, p, n) \cup {mid}
           rest == (areas[root] \ {a}) \cup new
<1>1. CASE UNCHANGED vars
  BY <1>1, NoCall
<1>2. CASE ~UNCHANGED vars
  <2>1. Holds(root, p) # {} /\ p + n <= a.base + a.size
    BY <1>2 DEF vmm_protect, Return
  <2>2. \/ mem' = mem /\ SetSpace(root, areas[root], table)
        \/ mem' = AfterNoNodes /\ SetSpace(root, areas[root], table)
        \/ mem' \in ProtectNodes(a, p, n) /\ SetSpace(root, rest, table)
    <3>1. (areas[root] \ {a}) \cup Pieces(a, p, n) \cup {mid} = rest
      OBVIOUS
    <3> HIDE DEF rest
    <3>2. QED
      BY <1>2, <3>1 DEF vmm_protect, Return
  <2>3. a \in areas[root] /\ p \in Extent(a)
    BY <2>1 DEF find_vma, Holds
  <2> HIDE DEF a, done
  <2>4. /\ mem \in Memory /\ pt[root] \in Table /\ IsSpace(root, areas[root])
        /\ OneUse(mem, pt[root])
        /\ Executable => Backed(areas[root], pt[root])
        /\ Careful => Apart(areas[root])
        /\ mem.free \cap mem.slabs = {} /\ Cardinality(areas[root]) \in Nat
        /\ Stepped(areas[root], areas[root])
    BY Unchanged
  <2>5. IsArea(root, a) /\ a.flags # "boot" /\ p \in Nat /\ n \in Nat \ {0}
    BY <2>3, <2>4, NotBoot, Sets, Constants DEF IsSpace, Clients
  <2>6. /\ a.base \in Nat /\ a.size \in Nat /\ a.base <= p /\ p < a.base + a.size /\ a.base + a.size <= Top
        /\ Extent(a) = a.base .. (a.base + a.size - 1)
    BY <2>3, <2>5 DEF IsArea, AreaType, Extent
  <2>7. /\ table \in Table /\ OneUse(mem, table) /\ Stock(mem, table) = Stock(mem, pt[root])
        /\ \A q \in Page : table[q].frame = pt[root][q].frame
    BY <2>4, RecolouredUse
  <2> HIDE DEF table
  <2>8. IsArea(root, mid) /\ Extent(mid) = p .. (p + n - 1) /\ mid.is_paged = a.is_paged /\ mid.flags = flags /\ mid.type = a.type
    <3>1. /\ mid.base = p /\ mid.size = n /\ mid.flags = flags /\ mid.is_paged = a.is_paged /\ mid.type = a.type
          /\ mid \in AreaType
      BY <2>5, <2>6 DEF IsArea, AreaType
    <3> HIDE DEF mid
    <3>2. p + n <= Top
      BY <2>1, <2>5, <2>6, Constants, SMTT(30)
    <3>3. QED
      BY <2>5, <3>1, <3>2, Constants DEF IsArea, Extent
  <2> HIDE DEF mid
  <2>9. /\ IsFiniteSet(Pieces(a, p, n))
        /\ \A b \in Pieces(a, p, n) :
             /\ IsArea(root, b) /\ Extent(b) \subseteq Extent(a) \ (p .. (p + n - 1))
             /\ b.flags = a.flags /\ b.is_paged = a.is_paged /\ b.type = a.type
        /\ \A b, c \in Pieces(a, p, n) : b # c => Disjoint(b, c)
        /\ \A q \in Extent(a) \ (p .. (p + n - 1)) : \E b \in Pieces(a, p, n) : q \in Extent(b)
    <3>1. IsArea(root, a) /\ a.flags # "boot" /\ p \in Nat /\ n \in Nat /\ a.base <= p /\ p + n <= a.base + a.size
      BY <2>1, <2>5, <2>6
    <3> HIDE DEF a
    <3>2. QED
      BY <3>1, PiecesAre
  <2>10. /\ IsFiniteSet(new)
         /\ \A b \in new : IsArea(root, b) /\ Extent(b) \subseteq Extent(a) /\ (Own(b) => Own(a))
         /\ \A b, c \in new : b # c => Disjoint(b, c)
    <3>1. IsFiniteSet(new)
      BY <2>9, FS_AddElement
    <3>2. Extent(mid) \subseteq Extent(a)
      BY <2>1, <2>5, <2>6, <2>8
    <3>3. \A b \in new : IsArea(root, b) /\ Extent(b) \subseteq Extent(a) /\ (Own(b) => Own(a))
      BY <2>5, <2>8, <2>9, <3>2 DEF Own
    <3>4. \A b, c \in new : b # c => Disjoint(b, c)
      BY <2>8, <2>9 DEF Disjoint
    <3>5. QED
      BY <3>1, <3>3, <3>4
  <2> DEFINE more == (IF p = a.base THEN 0 ELSE 1) + (IF p + n = a.base + a.size THEN 0 ELSE 1)
  <2>11. Cardinality(new) = more + 1 /\ more \in Nat
    <3>1. Cardinality(Pieces(a, p, n)) = more
      BY <2>1, <2>5, <2>6, PieceCount
    <3>2. mid \notin Pieces(a, p, n)
      <4>1. p \in p .. (p + n - 1)
        BY <2>5
      <4>2. QED
        BY <2>8, <2>9, <4>1
    <3>3. IsFiniteSet(Pieces(a, p, n)) /\ new = Pieces(a, p, n) \cup {mid} /\ more \in Nat
      BY <2>9
    <3> HIDE DEF new, more
    <3>4. QED
      BY <3>1, <3>2, <3>3, FS_AddElement
  <2>12. ASSUME NEW q \in Extent(a)
         PROVE  UseIn(new, q) = IF q \in p .. (p + n - 1) THEN Use(mid) ELSE Use(a)
    <3>1. CASE q \in p .. (p + n - 1)
      <4>1. mid \in new /\ q \in Extent(mid)
        BY <2>8, <3>1
      <4> HIDE DEF new
      <4>2. QED
        BY <2>10, <3>1, <4>1, PartUse
    <3>2. CASE q \notin p .. (p + n - 1)
      <4>1. PICK b \in Pieces(a, p, n) : q \in Extent(b)
        BY <2>9, <3>2
      <4>2. Use(b) = Use(a) /\ b \in new
        BY <2>9, <4>1 DEF Use
      <4> HIDE DEF new
      <4>3. QED
        BY <2>10, <3>2, <4>1, <4>2, PartUse
    <3>3. QED
      BY <3>1, <3>2
  <2> HIDE DEF new
  <2>13. IsSpace(root, rest) /\ (Careful => Apart(rest))
    BY <2>3, <2>4, <2>10, Replaced
  <2>14. ASSUME Executable PROVE Backed(rest, table)
    <3>1. ASSUME NEW b \in new, Own(b), NEW q \in Extent(b) PROVE table[q].frame \in Frame
      <4>1. Own(a) /\ q \in Extent(a)
        BY <2>10, <3>1
      <4>2. q \in Page /\ pt[root][q].frame \in Frame
        BY <2>3, <2>4, <2>5, <2>14, <4>1, ExtentIs DEF Backed
      <4>3. QED
        BY <2>7, <4>2
    <3> DEFINE R == {}
    <3>2. R # {} => Own(a) /\ R \subseteq Extent(a)
      OBVIOUS
    <3>3. \A q \in Page \ R : pt[root][q].frame \in Frame => table[q].frame \in Frame
      BY <2>7
    <3>4. /\ IsSpace(root, areas[root]) /\ Backed(areas[root], pt[root])
          /\ \A b \in new : Extent(b) \subseteq Extent(a) /\ (Own(b) => Own(a))
          /\ \A b, c \in new : b # c => Disjoint(b, c)
      BY <2>4, <2>10, <2>14
    <3> HIDE DEF R
    <3>5. QED
      BY <2>3, <3>1, <3>2, <3>3, <3>4, ReplacedBacked
  <2>15. Executable => Backed(areas[root], table)
    BY <2>4, <2>7, StillBacked
  <2>16. ASSUME Careful
         PROVE  Stepped(areas[root], rest) /\ Cardinality(rest) = Cardinality(areas[root]) + more
    <3> DEFINE old_view == ViewOf(areas[root])
               new_view == ViewOf(rest)
               R == p .. (p + n - 1)
    <3>1. /\ Cardinality(rest) = Cardinality(areas[root]) - 1 + Cardinality(new)
          /\ \A q \in Page : q \in Extent(a) => old_view[q] = Use(a) /\ new_view[q] = UseIn(new, q)
          /\ \A q \in Page : q \notin Extent(a) => new_view[q] = old_view[q]
      <4>1. /\ IsSpace(root, areas[root]) /\ Apart(areas[root]) /\ IsFiniteSet(new)
            /\ \A b \in new : IsArea(root, b) /\ Extent(b) \subseteq Extent(a)
        BY <2>4, <2>10, <2>16
      <4>2. rest = (areas[root] \ {a}) \cup new
        OBVIOUS
      <4> HIDE DEF rest
      <4>3. QED
        BY <2>3, <4>1, <4>2, ReplacedView
    <3>2. R \subseteq Extent(a) /\ R \subseteq Page
      <4>1. R \subseteq Extent(a)
        BY <2>1, <2>5, <2>6
      <4>2. QED
        BY <2>5, <4>1, ExtentIs
    <3>3. Use(a) # NoUse /\ Use(mid) # NoUse
      BY <2>5, <2>8, InUse
    <3>4. Spaces!Row(R) /\ Spaces!Row({})
      <4> DEFINE y == p + n
      <4>1. R = p .. (y - 1) /\ y \in Nat /\ p \in Nat
        BY <2>5
      <4> HIDE DEF y, R
      <4>2. QED
        BY <4>1, RowIs
    <3> HIDE DEF rest, old_view, new_view, R
    <3>5. /\ \A q \in R : q \in Page /\ old_view[q] = Use(a) /\ new_view[q] = Use(mid)
          /\ \A q \in Page \ R : new_view[q] = old_view[q]
      BY <2>12, <3>1, <3>2 DEF R
    <3>6. Spaces!Recast(old_view, new_view)
      <4>1. CASE Use(mid) = Use(a)
        <5>1. Spaces!Changed(old_view, new_view) = {}
          BY <3>5, <4>1 DEF Spaces!Changed
        <5>2. QED
          BY <3>4, <5>1 DEF Spaces!Recast
      <4>2. CASE Use(mid) # Use(a)
        <5>1. Spaces!Changed(old_view, new_view) = R
          BY <3>5, <4>2 DEF Spaces!Changed
        <5>2. QED
          BY <3>3, <3>4, <3>5, <5>1 DEF Spaces!Recast
      <4>3. QED
        BY <4>1, <4>2
    <3>7. Stepped(areas[root], rest)
      BY <3>6 DEF Stepped, old_view, new_view
    <3>8. Cardinality(rest) = Cardinality(areas[root]) + more
      <4> DEFINE c == Cardinality(areas[root])
      <4>1. c \in Nat /\ more \in Nat /\ Cardinality(rest) = c - 1 + (more + 1)
        BY <2>4, <2>11, <3>1
      <4> HIDE DEF c, more
      <4>2. Cardinality(rest) = c + more
        BY <4>1
      <4>3. QED
        BY <4>2 DEF c
    <3>9. QED
      BY <3>7, <3>8
  <2>17. /\ Due(AfterNoNodes, Cardinality(areas[root])) = Due(mem, Cardinality(areas[root]))
         /\ \A r \in ProtectNodes(a, p, n) :
               Due(r, Cardinality(areas[root]) + more) = Due(mem, Cardinality(areas[root]))
    <3> DEFINE c == Cardinality(areas[root])
               x == IF p = a.base THEN 0 ELSE 1
               y == IF p + n = a.base + a.size THEN 0 ELSE 1
    <3>1. c \in Nat /\ mem \in Memory /\ mem.free \cap mem.slabs = {}
      BY <2>4
    <3>2. c + x + y = c + (x + y)
      BY <3>1
    <3> HIDE DEF c
    <3>3. /\ Due(AfterNoNodes, c) = Due(mem, c)
          /\ \A r \in ProtectNodes(a, p, n) : Due(r, c + x + y) = Due(mem, c)
      BY <3>1, ProtectNodesDue
    <3>4. QED
      BY <3>2, <3>3 DEF c
  <2> HIDE DEF rest, more
  <2>18. CASE SetSpace(root, areas[root], table) /\ (mem' = mem \/ mem' = AfterNoNodes)
    <3>1. mem' \in Memory /\ OneUse(mem', table) /\ Stock(mem', table) = Stock(mem, table)
      BY <2>4, <2>7, <2>18, ProtectNodesUse
    <3>2. Keeps(root, areas[root], table, mem')
      BY <2>4, <2>7, <2>15, <2>18, <2>17, <3>1 DEF Keeps
    <3>3. QED
      BY <2>18, <3>2, CallKeeps
  <2>19. CASE SetSpace(root, rest, table) /\ mem' \in ProtectNodes(a, p, n)
    <3>1. mem' \in Memory /\ OneUse(mem', table) /\ Stock(mem', table) = Stock(mem, table)
      BY <2>4, <2>7, <2>19, ProtectNodesUse
    <3>2. Keeps(root, rest, table, mem')
      BY <2>7, <2>13, <2>14, <2>19, <2>16, <2>17, <3>1 DEF Keeps
    <3>3. QED
      BY <2>19, <3>2, CallKeeps
  <2>20. QED
    BY <2>2, <2>18, <2>19
<1>3. QED
  BY <1>1, <1>2

-----------------------------------------------------------------------------
(* The invariant                                                           *)

LEMMA InitInv == Init => IInv
<1> SUFFICES ASSUME Init PROVE IInv
  OBVIOUS
<1> DEFINE boot == Area(0, BootPages, "boot", "DATA", TRUE)
           table == [p \in Page |-> IF p < BootPages THEN [frame |-> DEVICE, flags |-> "boot"] ELSE NoMapping]
<1>1. /\ mem = [free |-> 3 .. (FrameCount - 1), nodes |-> NodesPerPage - 1, descs |-> NodesPerPage - 1, slabs |-> {1, 2}]
      /\ DOMAIN areas = {KernelRoot} /\ DOMAIN pt = {KernelRoot}
      /\ areas[KernelRoot] = {boot} /\ pt[KernelRoot] = table
  BY DEF Init
<1>2. mem \in Memory /\ mem.free = 3 .. (FrameCount - 1) /\ mem.slabs = {1, 2}
  BY <1>1, Constants, SMTT(30) DEF Memory, Frame
<1>3. table \in Table /\ Held(table) = {}
  BY Sets DEF Table, Mapping, Held
<1>4. boot.base = 0 /\ boot.size = BootPages /\ boot.flags = "boot" /\ boot.type = "DATA" /\ boot.is_paged /\ IsArea(KernelRoot, boot)
  BY Constants DEF Area, IsArea, AreaType
<1> HIDE DEF boot, table
<1>5. IsSpace(KernelRoot, {boot})
  BY <1>4, FS_Singleton DEF IsSpace
<1>6. KernelRoot \in Frame
  BY Constants DEF KernelRoot, Frame
<1>7. Typed
  <2>1. IsFiniteSet({KernelRoot})
    BY FS_Singleton
  <2>2. QED
    BY <1>1, <1>2, <1>3, <1>5, <1>6, <2>1 DEF Typed
<1>8. Exclusive
  <2>1. OneUse(mem, table)
    BY <1>2, <1>3, Constants DEF OneUse, Held
  <2>2. KernelRoot \notin Stock(mem, table)
    BY <1>2, <1>3, Constants DEF Stock, KernelRoot
  <2>3. QED
    BY <1>1, <2>1, <2>2 DEF Exclusive
<1>9. NoFrameLost
  <2>1. \A f \in Frame : f \in mem.free \cup mem.slabs \cup DOMAIN pt
    BY <1>1, <1>2, Constants DEF Frame, KernelRoot
  <2>2. QED
    BY <2>1, LostIs DEF NothingLost
<1>10. \A root \in DOMAIN areas : Backed(areas[root], pt[root]) /\ Apart(areas[root])
  BY <1>1, <1>4 DEF Backed, Apart, Own
<1>11. Balanced
  <2>1. Uses = {<<KernelRoot, boot>>}
    <3>1. ASSUME NEW u PROVE u \in Uses <=> u = <<KernelRoot, boot>>
      BY <1>1 DEF Uses
    <3>2. QED
      BY <3>1
  <2>2. Cardinality(Uses) = 1 /\ Cardinality(DOMAIN areas) = 1
    BY <1>1, <2>1, FS_Singleton
  <2>3. Cardinality(mem.slabs) = 2
    <3>1. {1, 2} = {1} \cup {2} /\ 2 \notin {1}
      OBVIOUS
    <3>2. IsFiniteSet({1}) /\ Cardinality({1}) = 1
      BY FS_Singleton
    <3>3. Cardinality({1} \cup {2}) = 1 + 1
      BY <3>1, <3>2, FS_AddElement
    <3>4. mem.slabs = {1} \cup {2}
      BY <1>2, <3>1
    <3>5. Cardinality(mem.slabs) = 1 + 1
      BY <3>3, <3>4, Zenon
    <3>6. QED
      BY <3>5
  <2>4. mem.nodes = NodesPerPage - 1 /\ mem.descs = NodesPerPage - 1 /\ NodesPerPage \in Nat
    BY <1>1, Constants
  <2>5. QED
    BY <2>2, <2>3, <2>4 DEF Balanced, Due
<1>12. QED
  BY <1>7, <1>8, <1>9, <1>10, <1>11 DEF IInv

LEMMA NextKept == IInv /\ [Next]_vars => Kept
<1> SUFFICES ASSUME IInv, [Next]_vars PROVE Kept
  OBVIOUS
<1>1. CASE UNCHANGED vars
  BY <1>1, NoCall
<1>2. CASE vmm_space_create
  BY <1>2, CreateKeeps
<1>3. ASSUME NEW root \in DOMAIN areas, vmm_space_destroy(root) PROVE Kept
  BY <1>3, DestroyKeeps
<1>4. ASSUME NEW root \in DOMAIN areas, NEW hint \in Hints, NEW n \in AllocSizes, NEW flags \in Flags, NEW type \in Types,
             vmm_allocate(root, hint, n, flags, type)
      PROVE  Kept
  BY <1>4, AllocateKeeps
<1>5. ASSUME NEW root \in DOMAIN areas, NEW p \in Clients(root), NEW n \in ReserveSizes,
             p + n <= Top, vmm_reserve(root, p, n)
      PROVE  Kept
  BY <1>5, ReserveKeeps
<1>6. ASSUME NEW root \in DOMAIN areas, NEW p \in Clients(root), NEW n \in FreeSizes, vmm_free(root, p, n)
      PROVE  Kept
  <2>1. n \in Nat
    BY Constants
  <2>2. QED
    BY <1>6, <2>1, FreeKeeps
<1>7. ASSUME NEW root \in DOMAIN areas, NEW p \in Clients(root), NEW n \in DeviceSizes, NEW flags \in Flags,
             p + n <= Top, vmm_map_external(root, p, n, flags)
      PROVE  Kept
  BY <1>7, MapExternalKeeps
<1>8. ASSUME NEW root \in DOMAIN areas, NEW p \in Clients(root), NEW n \in ProtectSizes, NEW flags \in Flags,
             vmm_protect(root, p, n, flags)
      PROVE  Kept
  BY <1>8, ProtectKeeps
<1>9. ASSUME NEW root \in DOMAIN areas, NEW a \in areas[root], a.is_paged, a.base \in Clients(root),
             NEW n \in 0 .. a.size \cup {a.size + g : g \in Growth}, vmm_resize(root, a, n)
      PROVE  Kept
  BY <1>9, ResizeKeeps
<1>10. ASSUME NEW root \in DOMAIN areas \cup UnknownRoots, vmm_query(root) PROVE Kept
  BY <1>10, QueryKeeps
<1>11. QED
  BY <1>1, <1>2, <1>3, <1>4, <1>5, <1>6, <1>7, <1>8, <1>9, <1>10 DEF Next

LEMMA NextInv == IInv /\ [Next]_vars => IInv'
BY NextKept DEF Kept

(* A frame is never free and in use, nor in use twice.                     *)
LEMMA TypesHold == IInv => TypeOK /\ FramesExclusive
<1>1. ASSUME IInv PROVE TypeOK
  <2>1. ASSUME NEW root \in DOMAIN areas, NEW a \in areas[root] PROVE Extent(a) \subseteq Page /\ Extent(a) # {}
    BY <1>1, ExtentIs DEF IInv, Typed, IsSpace
  <2>2. QED
    BY <1>1, <2>1 DEF IInv, Typed, TypeOK, Memory, Table, Mapping
<1>2. QED
  BY <1>1, ExclusiveIs DEF IInv

(* Every node of the pages taken for nodes is free or describes an area or *)
(* a space, though protect may need two and find one.                      *)
LEMMA NodesAre == ASSUME IInv, Careful PROVE NodesConserved
<1> DEFINE u == Cardinality(Uses)
           d == Cardinality(DOMAIN areas)
           k == NodesPerPage * Cardinality(mem.slabs)
<1>1. mem.nodes + mem.descs + (u + d) - k = 0
  BY DEF IInv, Balanced, Due
<1>2. u \in Nat /\ d \in Nat
  BY SplitIs, FS_CardinalityType DEF IInv, Typed, Split
<1>3. mem.nodes \in Nat /\ mem.descs \in Nat /\ k \in Nat
  <2>1. mem \in Memory
    BY DEF IInv, Typed
  <2>2. QED
    BY <2>1, SlabNodes DEF Memory
<1>4. NodesConserved <=> mem.nodes + u + mem.descs + d = k
  BY DEF NodesConserved, Uses
<1> DEFINE x == mem.nodes
           y == mem.descs
<1>5. x + y + (u + d) - k = 0 /\ x \in Nat /\ y \in Nat /\ u \in Nat /\ d \in Nat /\ k \in Nat
  BY <1>1, <1>2, <1>3
<1> HIDE DEF u, d, k, x, y
<1>6. x + u + y + d = k
  BY <1>5
<1>7. QED
  BY <1>4, <1>6 DEF x, y

(* Whatever runs out in the middle of a call and whatever clients do, no   *)
(* frame is free and in use, or in use twice; and for clients that keep to *)
(* what is asked of them the pages of an area are always there, no frame   *)
(* and no node is lost, and the areas of a space never overlap (vmm.c).    *)
THEOREM Accounting == Spec => []BackedAndAccounted
<1>1. IInv => (Executable => BackedByFrames)
  BY DEF IInv, BackedByFrames, Backed, Own
<1>2. IInv => (Lossless => NoFrameLost)
  BY DEF IInv
<1>3. IInv => (Careful => AreasDisjoint)
  BY DEF IInv, AreasDisjoint, Apart, Disjoint
<1>4. IInv => BackedAndAccounted
  BY <1>1, <1>2, <1>3, TypesHold, NodesAre DEF BackedAndAccounted
<1>5. QED
  BY <1>4, InitInv, NextInv, PTL DEF Spec

(* Every call, and every failure of one, is a step of the abstract address *)
(* spaces: it changes one row of pages of one space, or nothing (vmm.c).   *)
THEOREM Implementation == ASSUME Careful PROVE Spec => ImplementsAddressSpace
<1>1. Kept => [Spaces!Next]_View
  BY DEF Kept, Refined, Spaces!Next, View
<1>2. QED
  BY <1>1, InitInv, NextInv, NextKept, PTL DEF Spec, ImplementsAddressSpace, Spaces!Spec, View

-----------------------------------------------------------------------------
(* What areas say while memory lasts                                       *)

(* What areas as say of the pages is what the table does.                  *)
Coherent(as, table) ==
  /\ \A a \in as : a.is_paged \/ a.type = "GUARD"
  /\ \A p \in Page : table[p] # NoMapping =>
       /\ \E a \in as : p \in Extent(a)
       /\ \A a \in as : p \in Extent(a) => a.type # "GUARD" /\ a.flags = table[p].flags
AllCoherent == \A root \in DOMAIN areas : Coherent(areas[root], pt[root])

(* A call that changes one space.                                          *)
LEMMA SetCoherent ==
  ASSUME Typed, AllCoherent, NEW root \in DOMAIN areas, NEW as, NEW table, Coherent(as, table),
         SetSpace(root, as, table)
  PROVE  AllCoherent'
<1>1. DOMAIN areas = DOMAIN pt
  BY DEF Typed
<1>2. DOMAIN areas' = DOMAIN areas /\ areas'[root] = as /\ pt'[root] = table
  BY <1>1 DEF SetSpace
<1>3. \A other \in DOMAIN areas : other # root => areas'[other] = areas[other] /\ pt'[other] = pt[other]
  BY <1>1 DEF SetSpace
<1>4. \A other \in DOMAIN areas' : Coherent(areas'[other], pt'[other])
  BY <1>2, <1>3 DEF AllCoherent
<1>5. QED
  BY <1>4 DEF AllCoherent

LEMMA SameCoherent == ASSUME AllCoherent, UNCHANGED vars PROVE AllCoherent'
BY DEF AllCoherent, vars

LEMMA EmptyCoherent == Coherent({}, EmptyTable)
BY DEF Coherent, EmptyTable

LEMMA NewSpaceCoherent ==
  ASSUME AllCoherent, NEW root, areas' = [r \in DOMAIN areas \cup {root} |-> IF r = root THEN {} ELSE areas[r]],
         pt' = [r \in DOMAIN pt \cup {root} |-> IF r = root THEN EmptyTable ELSE pt[r]], Typed
  PROVE  AllCoherent'
<1>1. DOMAIN areas = DOMAIN pt
  BY DEF Typed
<1>2. areas'[root] = {} /\ pt'[root] = EmptyTable /\ DOMAIN areas' = DOMAIN areas \cup {root}
  OBVIOUS
<1>3. \A r \in DOMAIN areas : r # root => areas'[r] = areas[r] /\ pt'[r] = pt[r]
  BY <1>1
<1>4. \A r \in DOMAIN areas' : Coherent(areas'[r], pt'[r])
  BY <1>2, <1>3, EmptyCoherent DEF AllCoherent
<1>5. QED
  BY <1>4 DEF AllCoherent

LEMMA CreateCoherent == ASSUME Typed, AllCoherent, vmm_space_create PROVE AllCoherent'
<1>1. \/ UNCHANGED vars
      \/ \E root : /\ areas' = [r \in DOMAIN areas \cup {root} |-> IF r = root THEN {} ELSE areas[r]]
                   /\ pt' = [r \in DOMAIN pt \cup {root} |-> IF r = root THEN EmptyTable ELSE pt[r]]
  BY Zenon DEF vmm_space_create, Return
<1>2. QED
  BY <1>1, SameCoherent, NewSpaceCoherent

LEMMA QueryCoherent == ASSUME Typed, AllCoherent, NEW root, vmm_query(root) PROVE AllCoherent'
<1>1. \/ UNCHANGED vars
      \/ /\ areas' = [r \in DOMAIN areas \cup {root} |-> IF r = root THEN {} ELSE areas[r]]
         /\ pt' = [r \in DOMAIN pt \cup {root} |-> IF r = root THEN EmptyTable ELSE pt[r]]
  BY Zenon DEF vmm_query, Return
<1>2. QED
  BY <1>1, SameCoherent, NewSpaceCoherent

LEMMA DestroyCoherent == ASSUME Typed, AllCoherent, NEW root, vmm_space_destroy(root) PROVE AllCoherent'
<1>1. DOMAIN areas = DOMAIN pt
  BY DEF Typed
<1>2. DOMAIN areas' = DOMAIN areas \ {root} /\ \A r \in DOMAIN areas' : areas'[r] = areas[r] /\ pt'[r] = pt[r]
  BY <1>1 DEF vmm_space_destroy
<1>3. QED
  BY <1>2 DEF AllCoherent

(* There is a node, and then there are as many frames as pages.            *)
LEMMA PlentyNodes ==
  ASSUME NEW m \in Memory, Cardinality(m.free) >= 1
  PROVE  vma_alloc(m) # {} /\ \A r \in vma_alloc(m) : Cardinality(r.free) >= Cardinality(m.free) - 1
<1>1. IsFiniteSet(m.free) /\ m.free \in SUBSET Nat
  BY Sets, FS_Subset DEF Memory
<1>2. Cardinality(m.free) \in Nat /\ m.free # {}
  BY <1>1, Constants, FS_CardinalityType, FS_EmptySet
<1>3. vma_alloc(m) # {}
  BY <1>2, NoNode
<1>4. ASSUME NEW r \in vma_alloc(m) PROVE Cardinality(r.free) >= Cardinality(m.free) - 1
  <2>1. CASE r.free = m.free
    BY <1>2, <2>1
  <2>2. CASE r.free # m.free
    <3>1. r.free = m.free \ {Lowest(m.free)} /\ Lowest(m.free) \in m.free
      BY <1>1, <1>2, <1>4, <2>2, LowestIs DEF vma_alloc, Node, Memory
    <3> DEFINE S == m.free
               x == Lowest(m.free)
    <3>2. IsFiniteSet(S) /\ x \in S /\ r.free = S \ {x}
      BY <1>1, <3>1
    <3> HIDE DEF S, x
    <3>3. Cardinality(S \ {x}) = Cardinality(S) - 1
      BY <3>2, FS_RemoveElement
    <3>4. Cardinality(r.free) = Cardinality(m.free) - 1
      BY <3>2, <3>3 DEF S
    <3>5. QED
      BY <1>2, <3>4
  <2>3. QED
    BY <2>1, <2>2
<1>5. QED
  BY <1>3, <1>4

(* All pages that are asked for are mapped.                                *)
LEMMA PlentyPages ==
  ASSUME Orderly, NEW m \in Memory, NEW table, NEW p \in Nat, NEW n \in Nat, Cardinality(m.free) >= n,
         \A q \in p .. (p + n - 1) : table[q] = NoMapping, NEW k \in Mappable(m, table, p, n)
  PROVE  k = n
<1>1. IsFiniteSet(m.free)
  BY Sets, FS_Subset DEF Memory
<1>2. Cardinality(m.free) \in Nat
  BY <1>1, Constants, FS_CardinalityType
<1>3. k \in 0 .. n /\ (k = n \/ k = Cardinality(m.free) \/ table[p + k] # NoMapping)
  BY DEF Mappable, Orderly
<1>4. k < n => p + k \in p .. (p + n - 1)
  BY <1>3
<1>5. QED
  BY <1>2, <1>3, <1>4

(* A page in no area is not mapped.                                        *)
LEMMA HeldIfMapped ==
  ASSUME NEW root \in DOMAIN areas, AllCoherent, NEW p \in Page, Holds(root, p) = {}
  PROVE  pt[root][p] = NoMapping
BY DEF AllCoherent, Coherent, Holds

(* An area of new pages, mapped with its flags or a guard and not mapped.  *)
LEMMA AddedCoherent ==
  ASSUME NEW as, NEW old, Coherent(as, old), NEW b, \A a \in as : Disjoint(a, b), NEW table,
         \A p \in Page \ Extent(b) : table[p] = old[p],
         \/ b.is_paged /\ b.type # "GUARD" /\ \A p \in Extent(b) : table[p].flags = b.flags
         \/ b.type = "GUARD" /\ \A p \in Page \cap Extent(b) : table[p] = NoMapping
  PROVE  Coherent(as \cup {b}, table)
<1>1. \A a \in as \cup {b} : a.is_paged \/ a.type = "GUARD"
  BY DEF Coherent
<1>2. ASSUME NEW p \in Page, table[p] # NoMapping
      PROVE  /\ \E a \in as \cup {b} : p \in Extent(a)
             /\ \A a \in as \cup {b} : p \in Extent(a) => a.type # "GUARD" /\ a.flags = table[p].flags
  <2>1. CASE p \in Extent(b)
    BY <1>2, <2>1 DEF Disjoint
  <2>2. CASE p \notin Extent(b)
    BY <1>2, <2>2, ZenonT(60) DEF Coherent
  <2>3. QED
    BY <2>1, <2>2
<1>3. QED
  BY <1>1, <1>2 DEF Coherent

LEMMA AllocateCoherent ==
  ASSUME IInv, Orderly, Plenty, AllCoherent, NEW root \in DOMAIN areas, NEW hint \in Hints, NEW n \in AllocSizes,
         NEW flags \in Flags, NEW type \in Types, vmm_allocate(root, hint, n, flags, type)
  PROVE  AllCoherent'
<1> DEFINE p == Lowest(HolesFrom(root, hint, n))
           N == Area(p, n, flags, type, TRUE)
<1>1. CASE UNCHANGED vars
  BY <1>1, SameCoherent
<1>2. CASE ~UNCHANGED vars
  <2>1. n > 0 /\ HolesFrom(root, hint, n) # {}
    BY <1>2 DEF vmm_allocate, Return
  <2>2. n \in Nat \ {0}
    BY <2>1, Constants
  <2>3. p \in Nat /\ p + n <= Top /\ Fits(root, p, n)
    BY <2>1, <2>2, HoleIs
  <2>4. PICK m \in vma_alloc(mem) : \E k \in Mappable(m, pt[root], p, n) :
          LET done == Mapped(m, pt[root], p, k, flags) IN
          \/ k = n /\ SetSpace(root, areas[root] \cup {N}, done.table)
          \/ k < n /\ SetSpace(root, areas[root], done.table)
    BY <1>2 DEF vmm_allocate, Return
  <2>5. PICK k \in Mappable(m, pt[root], p, n) :
          LET done == Mapped(m, pt[root], p, k, flags) IN
          \/ k = n /\ SetSpace(root, areas[root] \cup {N}, done.table)
          \/ k < n /\ SetSpace(root, areas[root], done.table)
    BY <2>4
  <2> HIDE DEF p
  <2>6. mem \in Memory /\ pt[root] \in Table /\ IsSpace(root, areas[root]) /\ OneUse(mem, pt[root]) /\ Typed
    BY Unchanged DEF IInv
  <2>7. m \in Memory /\ OneUse(m, pt[root])
    BY <2>6, NodeUse
  <2>8. Cardinality(m.free) >= n
    <3>1. Cardinality(mem.free) \in Nat /\ Cardinality(m.free) \in Nat
      BY <2>6, <2>7, Sets, FS_Subset, FS_CardinalityType DEF Memory
    <3>2. Cardinality(m.free) >= Cardinality(mem.free) - 1
      BY <2>6, <3>1, PlentyNodes DEF Plenty
    <3>3. n \in Nat /\ Cardinality(mem.free) > n
      BY <2>2 DEF Plenty
    <3>4. QED
      BY <3>1, <3>2, <3>3
  <2>9. ASSUME NEW q \in p .. (p + n - 1) PROVE q \in Page /\ Holds(root, q) = {} /\ pt[root][q] = NoMapping
    <3>1. q \in Page /\ Holds(root, q) = {}
      BY <2>2, <2>3, Constants DEF Fits, Page
    <3>2. QED
      BY <3>1, HeldIfMapped
  <2>10. k = n
    BY <2>2, <2>3, <2>7, <2>8, <2>9, PlentyPages
  <2>11. k <= Cardinality(m.free) /\ k \in Nat /\ \A i \in 0 .. (k - 1) : pt[root][p + i] = NoMapping
    BY <2>2, <2>10, MappableIs
  <2> DEFINE r == Mapped(m, pt[root], p, k, flags).mem
             T == Mapped(m, pt[root], p, k, flags).table
  <2>12. Moved(m, pt[root], p .. (p + k - 1), flags, r, T)
    BY <2>3, <2>6, <2>7, <2>10, <2>11, MovedIs
  <2>13. SetSpace(root, areas[root] \cup {N}, T)
    BY <2>2, <2>5, <2>10
  <2> HIDE DEF r, T
  <2>14. /\ N.is_paged /\ N.type # "GUARD" /\ N.flags = flags /\ Extent(N) = p .. (p + n - 1)
    BY DEF Orderly, Area, Extent
  <2> HIDE DEF N
  <2>15. \A a \in areas[root] : Disjoint(a, N)
    BY <2>9, <2>14 DEF Holds, Disjoint
  <2>16. \A q \in Page \ Extent(N) : T[q] = pt[root][q]
    BY <2>10, <2>12, <2>14 DEF Moved
  <2>17. \A q \in Extent(N) : T[q].flags = N.flags
    BY <2>10, <2>12, <2>14 DEF Moved
  <2>18. Coherent(areas[root], pt[root])
    BY DEF AllCoherent
  <2>19. Coherent(areas[root] \cup {N}, T)
    <3>1. N.is_paged /\ N.type # "GUARD" /\ \A q \in Extent(N) : T[q].flags = N.flags
      BY <2>14, <2>17
    <3> QED
      BY <2>15, <2>16, <2>18, <3>1, AddedCoherent
  <2>20. QED
    BY <2>6, <2>13, <2>19, SetCoherent
<1>3. QED
  BY <1>1, <1>2

LEMMA ReserveCoherent ==
  ASSUME IInv, Orderly, AllCoherent, NEW root \in DOMAIN areas, NEW p \in Clients(root), NEW n \in ReserveSizes,
         p + n <= Top, vmm_reserve(root, p, n)
  PROVE  AllCoherent'
<1> DEFINE N == Area(p, n, "none", "GUARD", FALSE)
<1>1. CASE UNCHANGED vars
  BY <1>1, SameCoherent
<1>2. CASE ~UNCHANGED vars
  <2>1. ~Blocked(root, p, n) /\ SetSpace(root, areas[root] \cup {N}, pt[root])
    BY <1>2 DEF vmm_reserve, Return
  <2>2. p \in Nat /\ n \in {1, 2}
    BY Sets DEF Clients, Orderly, Careful
  <2>3. N.type = "GUARD" /\ Extent(N) = p .. (p + n - 1)
    BY DEF Area, Extent
  <2> HIDE DEF N
  <2>4. \A a \in areas[root] : Disjoint(a, N)
    BY <2>1, <2>2, <2>3, BlockedIs
  <2>5. ASSUME NEW q \in Page \cap Extent(N) PROVE pt[root][q] = NoMapping
    <3>1. Holds(root, q) = {}
      BY <2>4 DEF Holds, Disjoint
    <3>2. QED
      BY <3>1, HeldIfMapped
  <2>6. Coherent(areas[root], pt[root])
    BY DEF AllCoherent
  <2>7. Coherent(areas[root] \cup {N}, pt[root])
    BY <2>3, <2>4, <2>5, <2>6, AddedCoherent, ZenonT(60)
  <2>8. Typed
    BY DEF IInv
  <2>9. QED
    BY <2>1, <2>7, <2>8, SetCoherent
<1>3. QED
  BY <1>1, <1>2

(* A guard's pages stay mapped nowhere when they are freed.                *)
LEMMA FreeCoherent ==
  ASSUME IInv, Plenty, AllCoherent, NEW root \in DOMAIN areas, NEW p \in Clients(root), NEW n \in Nat,
         vmm_free(root, p, n)
  PROVE  AllCoherent'
<1> DEFINE a == find_vma(root, p)
           gone == p .. (p + n - 1)
           R == IF a.is_paged THEN gone ELSE {}
           table == Unmapped(pt[root], R)
           m == [mem EXCEPT !.free = @ \cup FramesIn(pt[root], R)]
           rest == (areas[root] \ {a}) \cup Pieces(a, p, n)
<1>1. CASE UNCHANGED vars
  BY <1>1, SameCoherent
<1>2. CASE ~UNCHANGED vars
  <2>1. Holds(root, p) # {} /\ p + n <= a.base + a.size
    BY <1>2 DEF vmm_free, Return
  <2>2. SetSpace(root, rest, table) \/ vma_alloc(m) = {}
    BY <1>2 DEF vmm_free, Return
  <2>3. a \in areas[root] /\ p \in Extent(a)
    BY <2>1 DEF find_vma, Holds
  <2> HIDE DEF a
  <2>4. mem \in Memory /\ pt[root] \in Table /\ IsSpace(root, areas[root]) /\ OneUse(mem, pt[root]) /\ Typed
    BY Unchanged DEF IInv
  <2>5. IsArea(root, a) /\ a.flags # "boot" /\ p \in Nat
    BY <2>3, <2>4, NotBoot, Sets DEF IsSpace, Clients
  <2>6. a.base <= p
    BY <2>3, <2>5, ExtentIs
  <2>7. vma_alloc(m) # {}
    <3>1. m \in Memory /\ m.free = mem.free \cup FramesIn(pt[root], R)
      BY <2>4, Sets DEF Memory, FramesIn
    <3>2. mem.free # {}
      <4>1. mem.free = {} => Cardinality(mem.free) = 0
        BY FS_EmptySet
      <4>2. QED
        BY <4>1 DEF Plenty
    <3> HIDE DEF m
    <3>3. QED
      BY <3>1, <3>2, NoNode
  <2>8. /\ \A b \in Pieces(a, p, n) :
             /\ Extent(b) \subseteq Extent(a) \ gone
             /\ b.flags = a.flags /\ b.is_paged = a.is_paged /\ b.type = a.type
        /\ \A q \in Extent(a) \ gone : \E b \in Pieces(a, p, n) : q \in Extent(b)
    BY <2>1, <2>5, <2>6, PiecesAre
  <2>9. Coherent(areas[root], pt[root])
    BY DEF AllCoherent
  <2>10. \A b \in rest : b.is_paged \/ b.type = "GUARD"
    BY <2>3, <2>8, <2>9 DEF Coherent
  <2>11. ASSUME NEW q \in Page, table[q] # NoMapping PROVE q \notin R /\ table[q] = pt[root][q]
    BY <2>11 DEF Unmapped
  <2> HIDE DEF table, m
  <2>12. ASSUME NEW q \in Page, table[q] # NoMapping
         PROVE  /\ \E b \in rest : q \in Extent(b)
                /\ \A b \in rest : q \in Extent(b) => b.type # "GUARD" /\ b.flags = table[q].flags
    <3>1. q \notin R /\ table[q] = pt[root][q]
      BY <2>11, <2>12
    <3>2. PICK b \in areas[root] : q \in Extent(b)
      BY <2>9, <2>12, <3>1 DEF Coherent
    <3>3. \A c \in areas[root] : q \in Extent(c) => c.type # "GUARD" /\ c.flags = table[q].flags
      BY <2>9, <2>12, <3>1 DEF Coherent
    <3>4. q \in Extent(a) => q \notin gone
      BY <2>3, <2>9, <3>1, <3>3 DEF Coherent
    <3> HIDE DEF gone
    <3>5. \E c \in rest : q \in Extent(c)
      BY <2>8, <3>2, <3>4
    <3>6. ASSUME NEW c \in rest, q \in Extent(c) PROVE c.type # "GUARD" /\ c.flags = table[q].flags
      BY <2>3, <2>8, <3>3, <3>6
    <3>7. QED
      BY <3>5, <3>6
  <2> HIDE DEF rest
  <2>13. Coherent(rest, table)
    BY <2>10, <2>12 DEF Coherent
  <2>14. QED
    BY <2>2, <2>4, <2>7, <2>13, SetCoherent
<1>3. QED
  BY <1>1, <1>2

(* An area that is mapped is no guard, and only a guard is not.            *)
LEMMA GuardOrMapped ==
  ASSUME IInv, Executable, AllCoherent, NEW root \in DOMAIN areas, NEW a \in areas[root], a.flags # "boot"
  PROVE  \/ a.type # "GUARD" /\ a.is_paged /\ \A q \in Extent(a) : pt[root][q] # NoMapping
         \/ a.type = "GUARD" /\ ~a.is_paged /\ \A q \in Extent(a) : pt[root][q] = NoMapping
<1>1. IsSpace(root, areas[root]) /\ Backed(areas[root], pt[root])
  BY Unchanged
<1>2. Coherent(areas[root], pt[root])
  BY DEF AllCoherent
<1>3. Extent(a) \subseteq Page /\ a.base \in Extent(a)
  BY <1>1, ExtentIs DEF IsSpace
<1>4. CASE a.is_paged
  <2>1. \A q \in Extent(a) : pt[root][q] # NoMapping
    BY <1>1, <1>4, Sets DEF Backed, Own
  <2>2. QED
    BY <1>2, <1>3, <1>4, <2>1 DEF Coherent
<1>5. CASE ~a.is_paged
  BY <1>2, <1>3, <1>5 DEF Coherent
<1>6. QED
  BY <1>4, <1>5

LEMMA GrowCoherent ==
  ASSUME IInv, Orderly, Plenty, AllCoherent, NEW root \in DOMAIN areas, NEW a \in areas[root], a.is_paged,
         a.base \in Clients(root), NEW n \in Nat, n = a.size + 1, Grow(root, a, n)
  PROVE  AllCoherent'
<1> DEFINE p == a.base + a.size
           more == n - a.size
           big == [a EXCEPT !.size = n]
           next == (areas[root] \ {a}) \cup {big}
<1>1. CASE UNCHANGED vars
  BY <1>1, SameCoherent
<1>2. CASE ~UNCHANGED vars
  <2>1. Holds(root, p) = {} /\ a.base + n <= UserMax
    BY <1>2 DEF Grow, Return
  <2>2. PICK k \in Mappable(mem, pt[root], p, more) :
          LET done == Mapped(mem, pt[root], p, k, a.flags)
          IN  SetSpace(root, IF k = more THEN next ELSE areas[root], done.table)
    BY <1>2 DEF Grow, Return
  <2>3. mem \in Memory /\ pt[root] \in Table /\ IsSpace(root, areas[root]) /\ OneUse(mem, pt[root]) /\ Typed
    BY Unchanged DEF IInv
  <2>4. /\ IsArea(root, a) /\ a.base \in Nat /\ a.size \in Nat /\ a.base \in Extent(a)
        /\ Extent(a) = a.base .. (a.base + a.size - 1)
    BY <2>3, ExtentIs DEF IsSpace, Extent
  <2>5. a.flags # "boot" /\ a.flags \in Flags \cup {"boot", "none"}
    BY <2>4, NotBoot DEF IsArea, AreaType
  <2>6. p \in Nat /\ more = 1 /\ p + 1 <= Top /\ p \in Page
    <3>1. p \in Nat /\ more = 1 /\ p + 1 = a.base + n
      BY <2>4, SMTT(30)
    <3> HIDE DEF p, more
    <3>2. QED
      BY <2>1, <3>1, Constants DEF Page
  <2>7. pt[root][p] = NoMapping
    BY <2>1, <2>6, HeldIfMapped
  <2>8. k = 1
    <3>1. Cardinality(mem.free) >= more
      <4>1. Cardinality(mem.free) \in Nat
        BY <2>3, Sets, FS_Subset, FS_CardinalityType DEF Memory
      <4>2. QED
        BY <2>6, <4>1 DEF Plenty
    <3>2. \A q \in p .. (p + more - 1) : pt[root][q] = NoMapping
      BY <2>6, <2>7
    <3> HIDE DEF p, more
    <3>3. QED
      BY <2>3, <2>6, <3>1, <3>2, PlentyPages
  <2>9. k <= Cardinality(mem.free) /\ \A i \in 0 .. (k - 1) : pt[root][p + i] = NoMapping
    BY MappableIs
  <2>10. /\ big.base = a.base /\ big.size = n /\ big.flags = a.flags /\ big.is_paged = a.is_paged
         /\ big.type = a.type
    BY <2>4 DEF IsArea, AreaType
  <2>11. Extent(big) = Extent(a) \cup {p}
    <3> HIDE DEF big
    <3>1. Extent(big) = a.base .. (a.base + n - 1)
      BY <2>10 DEF Extent
    <3>2. a.base .. (a.base + n - 1) = (a.base .. (a.base + a.size - 1)) \cup {a.base + a.size}
      BY <2>4, OneLonger
    <3>3. QED
      BY <2>4, <3>1, <3>2
  <2> DEFINE T == Mapped(mem, pt[root], p, k, a.flags).table
             r == Mapped(mem, pt[root], p, k, a.flags).mem
  <2>12. Moved(mem, pt[root], p .. (p + k - 1), a.flags, r, T)
    <3> HIDE DEF p
    <3>1. QED
      BY <2>3, <2>5, <2>6, <2>8, <2>9, MovedIs
  <2>13. SetSpace(root, next, T)
    BY <2>2, <2>6, <2>8
  <2> HIDE DEF T, r, big, p
  <2>14. T[p].flags = a.flags /\ \A q \in Page : q # p => T[q] = pt[root][q]
    BY <2>6, <2>8, <2>12 DEF Moved
  <2>15. a.type # "GUARD"
    BY <2>5, GuardOrMapped DEF Orderly
  <2>16. Coherent(areas[root], pt[root])
    BY DEF AllCoherent
  <2>17. \A c \in areas[root] : p \notin Extent(c)
    BY <2>1 DEF Holds
  <2>18. ASSUME NEW q \in Page, T[q] # NoMapping
         PROVE  /\ \E b \in next : q \in Extent(b)
                /\ \A b \in next : q \in Extent(b) => b.type # "GUARD" /\ b.flags = T[q].flags
    <3>1. CASE q = p
      BY <2>10, <2>11, <2>14, <2>15, <2>17, <3>1
    <3>2. CASE q # p
      <4>1. T[q] = pt[root][q] /\ (q \in Extent(big) <=> q \in Extent(a))
        BY <2>11, <2>14, <3>2
      <4>2. /\ \E b \in areas[root] : q \in Extent(b)
            /\ \A b \in areas[root] : q \in Extent(b) => b.type # "GUARD" /\ b.flags = T[q].flags
        BY <2>16, <2>18, <4>1 DEF Coherent
      <4>3. QED
        BY <2>10, <4>1, <4>2
    <3>3. QED
      BY <3>1, <3>2
  <2>19. \A b \in next : b.is_paged \/ b.type = "GUARD"
    BY <2>10, <2>16 DEF Coherent
  <2> HIDE DEF next
  <2>20. Coherent(next, T)
    BY <2>18, <2>19 DEF Coherent
  <2>21. QED
    BY <2>3, <2>13, <2>20, SetCoherent
<1>3. QED
  BY <1>1, <1>2

LEMMA ResizeCoherent ==
  ASSUME IInv, Orderly, Plenty, AllCoherent, NEW root \in DOMAIN areas, NEW a \in areas[root], a.is_paged,
         a.base \in Clients(root), NEW n \in 0 .. a.size \cup {a.size + g : g \in Growth}, vmm_resize(root, a, n)
  PROVE  AllCoherent'
<1>1. /\ IsArea(root, a) /\ a.base \in Nat /\ a.size \in Nat /\ a.size > 0 /\ a.base + a.size <= Top
  BY ExtentIs DEF IInv, Typed, IsSpace
<1>2. n \in Nat /\ (n > a.size => n = a.size + 1)
  BY <1>1, Constants DEF Careful, Orderly
<1>3. CASE n = a.size
  BY <1>1, <1>2, <1>3, SameCoherent DEF vmm_resize, Return
<1>4. CASE n < a.size
  <2>1. vmm_free(root, a.base + n, a.size - n)
    BY <1>1, <1>2, <1>4 DEF vmm_resize
  <2>2. a.base + n \in Clients(root) /\ a.size - n \in Nat
    BY <1>1, <1>2, <1>4, Constants DEF Clients, Page
  <2>3. QED
    BY <2>1, <2>2, FreeCoherent
<1>5. CASE n > a.size
  <2>1. Grow(root, a, n)
    BY <1>1, <1>2, <1>5 DEF vmm_resize
  <2>2. QED
    BY <1>2, <1>5, <2>1, GrowCoherent
<1>6. QED
  BY <1>1, <1>2, <1>3, <1>4, <1>5

(* There are the nodes protect needs.                                      *)
LEMMA PlentyProtects ==
  ASSUME Plenty, mem \in Memory, NEW a, NEW p, NEW n
  PROVE  ProtectNodes(a, p, n) # {}
<1>1. Cardinality(mem.free) \in Nat
  BY Sets, FS_Subset, FS_CardinalityType DEF Memory
<1>2. vma_alloc(mem) # {} /\ \A r \in vma_alloc(mem) : Cardinality(r.free) >= Cardinality(mem.free) - 1
  BY <1>1, PlentyNodes DEF Plenty
<1>3. ASSUME NEW m \in vma_alloc(mem) PROVE vma_alloc(m) # {}
  <2>1. m \in Memory
    BY NodeIs DEF vma_alloc
  <2>2. Cardinality(m.free) \in Nat
    BY <2>1, Sets, FS_Subset, FS_CardinalityType DEF Memory
  <2>3. Cardinality(m.free) >= 1
    BY <1>1, <1>2, <2>2 DEF Plenty
  <2>4. QED
    BY <2>1, <2>3, PlentyNodes
<1>4. QED
  BY <1>2, <1>3 DEF ProtectNodes

LEMMA ProtectCoherent ==
  ASSUME IInv, Orderly, Plenty, AllCoherent, NEW root \in DOMAIN areas, NEW p \in Clients(root),
         NEW n \in ProtectSizes, NEW flags \in Flags, vmm_protect(root, p, n, flags)
  PROVE  AllCoherent'
<1> DEFINE a == find_vma(root, p)
           gone == p .. (p + n - 1)
           done == {q \in gone : \A i \in p .. q : pt[root][i] # NoMapping}
           table == Recoloured(pt[root], done, flags)
           mid == [a EXCEPT !.base = p, !.size = n, !.flags = flags]
           rest == (areas[root] \ {a}) \cup Pieces(a, p, n) \cup {mid}
<1>1. CASE UNCHANGED vars
  BY <1>1, SameCoherent
<1>2. CASE ~UNCHANGED vars
  <2>1. Holds(root, p) # {} /\ p + n <= a.base + a.size
    BY <1>2 DEF vmm_protect, Return
  <2>2. \/ done # gone /\ SetSpace(root, areas[root], table)
        \/ ProtectNodes(a, p, n) = {}
        \/ done = gone /\ SetSpace(root, rest, table)
    BY <1>2 DEF vmm_protect, Return
  <2>3. a \in areas[root] /\ p \in Extent(a)
    BY <2>1 DEF find_vma, Holds
  <2> HIDE DEF a
  <2>4. /\ mem \in Memory /\ pt[root] \in Table /\ IsSpace(root, areas[root]) /\ Apart(areas[root]) /\ Typed
    BY Unchanged DEF IInv, Orderly
  <2>5. IsArea(root, a) /\ a.flags # "boot" /\ p \in Nat /\ n \in Nat \ {0}
    BY <2>3, <2>4, NotBoot, Sets, Constants DEF IsSpace, Clients
  <2>6. gone \subseteq Extent(a) /\ Extent(a) \subseteq Page /\ a.base <= p
    BY <2>1, <2>3, <2>5, ExtentIs
  <2>7. ProtectNodes(a, p, n) # {}
    BY <2>4, PlentyProtects
  <2>8. Coherent(areas[root], pt[root])
    BY DEF AllCoherent
  <2>9. /\ \A q \in Page \ done : table[q] = pt[root][q]
        /\ \A q \in done : table[q].flags = flags /\ pt[root][q] # NoMapping
    <3>1. done \subseteq Page /\ \A q \in done : pt[root][q] # NoMapping
      BY <2>5, <2>6
    <3>2. \A q \in Page : pt[root][q] = [frame |-> pt[root][q].frame, flags |-> pt[root][q].flags]
      BY <2>4 DEF Table, Mapping
    <3> HIDE DEF done
    <3>3. QED
      BY <3>1, <3>2 DEF Recoloured
  <2>10. a.type = "GUARD" => done = {} /\ done # gone
    <3>1. CASE a.type = "GUARD"
      <4>1. pt[root][p] = NoMapping
        BY <2>3, <2>5, <3>1, GuardOrMapped DEF Orderly
      <4>2. p \in gone /\ \A q \in gone : p \in p .. q
        BY <2>5
      <4>3. QED
        BY <4>1, <4>2
    <3>2. QED
      BY <3>1
  <2>11. a.type # "GUARD" => done = gone /\ a.is_paged
    <3>1. CASE a.type # "GUARD"
      <4>1. a.is_paged /\ \A q \in Extent(a) : pt[root][q] # NoMapping
        BY <2>3, <2>5, <3>1, GuardOrMapped DEF Orderly
      <4>2. \A q \in gone : p .. q \subseteq gone
        BY <2>5
      <4>3. QED
        BY <2>6, <4>1, <4>2
    <3>2. QED
      BY <3>1
  <2>12. /\ \A b \in Pieces(a, p, n) :
              /\ Extent(b) \subseteq Extent(a) \ gone
              /\ b.flags = a.flags /\ b.is_paged = a.is_paged /\ b.type = a.type
         /\ \A q \in Extent(a) \ gone : \E b \in Pieces(a, p, n) : q \in Extent(b)
    BY <2>1, <2>5, <2>6, PiecesAre
  <2>13. Extent(mid) = gone /\ mid.is_paged = a.is_paged /\ mid.flags = flags /\ mid.type = a.type
    BY <2>5 DEF IsArea, AreaType, Extent
  <2> HIDE DEF mid, table, gone, done
  <2>14. CASE done # gone /\ SetSpace(root, areas[root], table)
    <3>1. \A q \in Page : table[q] = pt[root][q]
      BY <2>9, <2>10, <2>11, <2>14
    <3>2. Coherent(areas[root], table)
      BY <2>8, <3>1 DEF Coherent
    <3>3. QED
      BY <2>4, <2>14, <3>2, SetCoherent
  <2>15. CASE done = gone /\ SetSpace(root, rest, table)
    <3>1. a.type # "GUARD" /\ a.is_paged
      BY <2>10, <2>11, <2>15
    <3>2. \A b \in rest : b.is_paged \/ b.type = "GUARD"
      BY <2>8, <2>12, <2>13, <3>1 DEF Coherent
    <3>3. ASSUME NEW q \in Page, table[q] # NoMapping
          PROVE  /\ \E b \in rest : q \in Extent(b)
                 /\ \A b \in rest : q \in Extent(b) => b.type # "GUARD" /\ b.flags = table[q].flags
      <4>1. CASE q \in gone
        <5>1. table[q].flags = flags /\ q \in Extent(a)
          BY <2>6, <2>9, <2>15, <4>1
        <5>2. \A c \in areas[root] \ {a} : q \notin Extent(c)
          BY <2>3, <2>4, <5>1 DEF Apart, Disjoint
        <5>3. \A b \in rest : q \in Extent(b) => b = mid
          BY <2>12, <4>1, <5>2
        <5>4. QED
          BY <2>13, <3>1, <4>1, <5>1, <5>3
      <4>2. CASE q \notin gone
        <5>1. table[q] = pt[root][q]
          BY <2>9, <2>15, <4>2
        <5>2. /\ \E b \in areas[root] : q \in Extent(b)
              /\ \A b \in areas[root] : q \in Extent(b) => b.type # "GUARD" /\ b.flags = table[q].flags
          BY <2>8, <3>3, <5>1 DEF Coherent
        <5>3. \E b \in rest : q \in Extent(b)
          BY <2>12, <4>2, <5>2
        <5>4. ASSUME NEW b \in rest, q \in Extent(b) PROVE b.type # "GUARD" /\ b.flags = table[q].flags
          BY <2>3, <2>12, <2>13, <4>2, <5>2, <5>4
        <5>5. QED
          BY <5>3, <5>4
      <4>3. QED
        BY <4>1, <4>2
    <3> HIDE DEF rest
    <3>4. Coherent(rest, table)
      BY <3>2, <3>3 DEF Coherent
    <3>5. QED
      BY <2>4, <2>15, <3>4, SetCoherent
  <2>16. QED
    BY <2>2, <2>7, <2>14, <2>15
<1>3. QED
  BY <1>1, <1>2

LEMMA InitCoherent == Init => AllCoherent
<1> SUFFICES ASSUME Init PROVE AllCoherent
  OBVIOUS
<1> DEFINE boot == Area(0, BootPages, "boot", "DATA", TRUE)
<1>1. DOMAIN areas = {KernelRoot} /\ areas[KernelRoot] = {boot}
  BY DEF Init
<1>2. pt[KernelRoot] = [p \in Page |-> IF p < BootPages THEN [frame |-> DEVICE, flags |-> "boot"] ELSE NoMapping]
  BY DEF Init
<1>3. boot.type = "DATA" /\ boot.is_paged /\ boot.flags = "boot" /\ Extent(boot) = 0 .. (BootPages - 1)
  <2>1. boot.base = 0 /\ boot.size = BootPages
    BY DEF Area
  <2>2. boot.type = "DATA" /\ boot.is_paged /\ boot.flags = "boot"
    BY DEF Area
  <2> HIDE DEF boot
  <2>3. BootPages \in Nat /\ 0 + BootPages - 1 = BootPages - 1
    BY Constants
  <2>4. QED
    BY <2>1, <2>2, <2>3 DEF Extent
<1> HIDE DEF boot
<1>4. ASSUME NEW p \in Page, pt[KernelRoot][p] # NoMapping
      PROVE  p \in Extent(boot) /\ pt[KernelRoot][p].flags = "boot"
  BY <1>2, <1>3, <1>4, Constants DEF Page
<1>5. Coherent(areas[KernelRoot], pt[KernelRoot])
  BY <1>1, <1>3, <1>4 DEF Coherent
<1>6. QED
  BY <1>1, <1>5 DEF AllCoherent

LEMMA NextCoherent == ASSUME Orderly PROVE IInv /\ Plenty /\ AllCoherent /\ [Next]_vars => AllCoherent'
<1> SUFFICES ASSUME IInv, Plenty, AllCoherent, [Next]_vars PROVE AllCoherent'
  OBVIOUS
<1>1. CASE UNCHANGED vars
  BY <1>1, SameCoherent
<1>2. CASE vmm_space_create
  BY <1>2, CreateCoherent DEF IInv
<1>3. ASSUME NEW root \in DOMAIN areas, vmm_space_destroy(root) PROVE AllCoherent'
  BY <1>3, DestroyCoherent DEF IInv
<1>4. ASSUME NEW root \in DOMAIN areas, NEW hint \in Hints, NEW n \in AllocSizes, NEW flags \in Flags, NEW type \in Types,
             vmm_allocate(root, hint, n, flags, type)
      PROVE  AllCoherent'
  BY <1>4, AllocateCoherent
<1>5. ASSUME NEW root \in DOMAIN areas, NEW p \in Clients(root), NEW n \in ReserveSizes,
             p + n <= Top, vmm_reserve(root, p, n)
      PROVE  AllCoherent'
  BY <1>5, ReserveCoherent
<1>6. ASSUME NEW root \in DOMAIN areas, NEW p \in Clients(root), NEW n \in FreeSizes, vmm_free(root, p, n)
      PROVE  AllCoherent'
  <2>1. n \in Nat
    BY Constants
  <2>2. QED
    BY <1>6, <2>1, FreeCoherent
<1>7. ASSUME NEW root \in DOMAIN areas, NEW p \in Clients(root), NEW n \in ProtectSizes, NEW flags \in Flags,
             vmm_protect(root, p, n, flags)
      PROVE  AllCoherent'
  BY <1>7, ProtectCoherent
<1>8. ASSUME NEW root \in DOMAIN areas, NEW a \in areas[root], a.is_paged, a.base \in Clients(root),
             NEW n \in 0 .. a.size \cup {a.size + g : g \in Growth}, vmm_resize(root, a, n)
      PROVE  AllCoherent'
  BY <1>8, ResizeCoherent
<1>9. ASSUME NEW root \in DOMAIN areas \cup UnknownRoots, vmm_query(root) PROVE AllCoherent'
  BY <1>9, QueryCoherent DEF IInv
<1>10. DeviceSizes = {}
  BY DEF Orderly
<1>11. QED
  BY <1>1, <1>2, <1>3, <1>4, <1>5, <1>6, <1>7, <1>8, <1>9, <1>10 DEF Next

(* While there is memory for any one call, what the areas of a space say is*)
(* what its table does: areas do not overlap, no guard is mapped, every    *)
(* mapped page lies in an area, and with the flags of that area (vmm.c).   *)
THEOREM Coherence == ASSUME Orderly PROVE Spec /\ []Plenty => []SpacesCoherent
<1>1. ASSUME IInv, AllCoherent PROVE SpacesCoherent
  <2>1. AreasDisjoint
    BY <1>1 DEF IInv, Orderly, AreasDisjoint, Apart, Disjoint
  <2>2. ASSUME NEW root \in DOMAIN areas, NEW a \in areas[root] PROVE Extent(a) \subseteq Page
    BY <1>1, ExtentIs DEF IInv, Typed, IsSpace
  <2>3. GuardsStayUnmapped /\ FlagsAgree
    BY <1>1 DEF AllCoherent, Coherent, GuardsStayUnmapped, FlagsAgree, MappedPages
  <2>4. MappedPagesTracked
    BY <1>1 DEF AllCoherent, Coherent, MappedPagesTracked, MappedPages, Covered
  <2>5. QED
    BY <2>1, <2>3, <2>4 DEF SpacesCoherent
<1>2. Init => AllCoherent
  BY InitCoherent
<1>3. IInv /\ Plenty /\ AllCoherent /\ [Next]_vars => AllCoherent'
  BY NextCoherent
<1>4. QED
  BY <1>1, <1>2, <1>3, InitInv, NextInv, PTL DEF Spec

-----------------------------------------------------------------------------
(* The tree of areas, for every number of nodes and pages: no node is lost,*)
(* lookups are exact, and the calls are those of an address space looked up*)
(* page by page.                                                           *)
(*                                                                         *)
(* A tree is described by the set of nodes under each of its nodes, which  *)
(* says where the areas on either side are (Shaped), and by areas that are *)
(* apart (Sized).  Walks go to smaller and smaller sets (Descent).  What   *)
(* insert_vma and remove_tree_node do to the shape is shown first, then    *)
(* what they do to the set of areas (Gained, Removed), and from there on   *)
(* only the areas matter: a call gives one range of pages one use          *)
(* (Painted).                                                              *)

CONSTANT Nodes
VARIABLES exists, node, head, cache, free

Vma == INSTANCE VmaTree

Link == Vma!Node \cup {Vma!NULL}
NodeType == [base : Vma!Page, size : 0 .. Top, flags : Flags \cup {"none"}, prev : Link, next : Link]
SpaceType == [node : [Vma!Node -> NodeType], head : Link, cache : Link, free : SUBSET Vma!Node]
End(s, v) == s.node[v].base + s.node[v].size

(* The nodes N are a search tree, with under[v] the nodes from v on down.  *)
Shaped(s, N, under) ==
  /\ N \in SUBSET Vma!Node /\ s.head \in N \cup {Vma!NULL}
  /\ under \in [Link -> SUBSET N] /\ under[Vma!NULL] = {} /\ under[s.head] = N
  /\ \A v \in N :
       /\ s.node[v].prev \in N \cup {Vma!NULL} /\ s.node[v].next \in N \cup {Vma!NULL}
       /\ under[v] = {v} \cup under[s.node[v].prev] \cup under[s.node[v].next]
       /\ \A u \in under[s.node[v].prev] : End(s, u) <= s.node[v].base
       /\ \A u \in under[s.node[v].next] : End(s, v) <= s.node[u].base
  /\ \A u \in N : \A v \in under[u] : under[v] \subseteq under[u]
  /\ \A u, v \in N : under[u] \cap under[v] = {} \/ u \in under[v] \/ v \in under[u]

(* Their areas lie in the space and do not overlap.                        *)
Sized(s, N) ==
  /\ \A v \in N : s.node[v].size > 0 /\ End(s, v) <= Top
  /\ \A u, v \in N : u # v => End(s, u) <= s.node[v].base \/ End(s, v) <= s.node[u].base

Tree(s, N, under) == Vma!VmaTreeAssumption /\ s \in SpaceType /\ Shaped(s, N, under) /\ Sized(s, N)

(* vma_alloc takes a node of the pool.                                     *)
LEMMA LowestNode ==
  ASSUME Vma!VmaTreeAssumption, NEW S \in SUBSET Vma!Node, S # {}
  PROVE  Vma!Lowest(S) \in S
<1>1. S \in SUBSET Nat
  BY DEF Vma!Node
<1>2. QED
  BY <1>1, Least DEF Vma!Lowest

(* The types of a space, taken apart.                                      *)
LEMMA TreeTypes ==
  ASSUME NEW s \in SpaceType, Vma!VmaTreeAssumption
  PROVE  /\ Top \in Nat /\ Nodes \in Nat /\ Vma!NULL \notin Vma!Node
         /\ \A v \in Vma!Node :
              /\ s.node[v] \in NodeType /\ s.node[v].base \in Nat /\ s.node[v].size \in Nat /\ End(s, v) \in Nat
              /\ s.node[v].prev \in Link /\ s.node[v].next \in Link
<1>1. \A v \in Vma!Node : s.node[v] \in NodeType
  BY DEF SpaceType
<1>2. Top \in Nat /\ Nodes \in Nat
  BY DEF Vma!VmaTreeAssumption
<1>3. \A v \in Vma!Node : s.node[v].base \in Nat /\ s.node[v].size \in Nat
  BY <1>1, <1>2 DEF NodeType, Vma!Page
<1>4. QED
  BY <1>1, <1>2, <1>3 DEF End, NodeType, Vma!Node, Vma!NULL

(* Sets of nodes are finite, and no larger than the pool was.              *)
LEMMA NodesFinite ==
  ASSUME Vma!VmaTreeAssumption, NEW S \in SUBSET Vma!Node
  PROVE  IsFiniteSet(S) /\ Cardinality(S) \in Nat /\ Cardinality(S) <= Nodes
<1>1. 1 \in Int /\ Nodes \in Int /\ Nodes \in Nat /\ Vma!Node = 1 .. Nodes
  BY DEF Vma!VmaTreeAssumption, Vma!Node
<1>2. IsFiniteSet(Vma!Node) /\ Cardinality(Vma!Node) = IF 1 > Nodes THEN 0 ELSE Nodes - 1 + 1
  BY <1>1, FS_Interval
<1>3. Cardinality(Vma!Node) = Nodes
  BY <1>1, <1>2
<1>4. IsFiniteSet(S) /\ Cardinality(S) <= Cardinality(Vma!Node)
  BY <1>2, FS_Subset
<1>5. QED
  BY <1>3, <1>4, FS_CardinalityType

(* What is under a node.                                                   *)
LEMMA Under ==
  ASSUME NEW s, NEW N, NEW under, Tree(s, N, under), NEW v \in N
  PROVE  LET l == s.node[v].prev
             r == s.node[v].next
         IN  /\ v \in Vma!Node /\ v \in under[v] /\ under[v] \subseteq N
             /\ v \notin under[l] /\ v \notin under[r] /\ under[l] \cap under[r] = {}
             /\ under[l] \subseteq under[v] /\ under[r] \subseteq under[v]
             /\ \A u \in under[v] : u # v => u \in under[l] \/ u \in under[r]
<1> DEFINE l == s.node[v].prev
           r == s.node[v].next
<1>1. /\ v \in Vma!Node /\ N \in SUBSET Vma!Node /\ l \in Link /\ r \in Link
      /\ under[v] = {v} \cup under[l] \cup under[r]
      /\ under[v] \subseteq N /\ under[l] \subseteq N /\ under[r] \subseteq N
      /\ \A u \in under[l] : End(s, u) <= s.node[v].base
      /\ \A u \in under[r] : End(s, v) <= s.node[u].base
  BY DEF Tree, Shaped, Link
<1>2. \A u \in N : s.node[u].base \in Nat /\ End(s, u) \in Nat /\ s.node[u].base < End(s, u)
  BY <1>1, TreeTypes DEF Tree, Sized, End
<1>3. v \notin under[l] /\ v \notin under[r]
  BY <1>1, <1>2
<1>4. under[l] \cap under[r] = {}
  BY <1>1, <1>2
<1>5. QED
  BY <1>1, <1>3, <1>4

(* Two nodes are not each below the other.                                 *)
LEMMA Antisymmetric ==
  ASSUME NEW s, NEW N, NEW under, Tree(s, N, under), NEW u \in N, NEW v \in under[u], u \in under[v]
  PROVE  u = v
<1>1. v \in N /\ under[u] = under[v]
  <2>1. under[u] \subseteq N
    BY Under
  <2>2. \A x \in N : \A y \in under[x] : under[y] \subseteq under[x]
    BY DEF Tree, Shaped
  <2>3. QED
    BY <2>1, <2>2
<1>2. ASSUME u # v PROVE FALSE
  <2> DEFINE l == s.node[v].prev
             r == s.node[v].next
  <2>1. u \in under[l] \/ u \in under[r]
    BY <1>1, <1>2, Under
  <2>2. (under[l] # {} => l \in N) /\ (under[r] # {} => r \in N)
    BY <1>1, SMTT(30) DEF Tree, Shaped
  <2>3. v \in under[l] \/ v \in under[r]
    BY <1>1, <2>1, <2>2, Under DEF Tree, Shaped
  <2>4. QED
    BY <1>1, <2>3, Under
<1>3. QED
  BY <1>2

(* A way down gets to smaller and smaller trees.                           *)
LEMMA Smaller ==
  ASSUME NEW s, NEW N, NEW under, Tree(s, N, under), NEW v \in N, NEW c \in {s.node[v].prev, s.node[v].next}
  PROVE  /\ Cardinality(under[c]) \in Nat /\ Cardinality(under[v]) \in Nat
         /\ Cardinality(under[c]) < Cardinality(under[v]) /\ Cardinality(under[v]) > 0
<1>1. under[c] \subseteq under[v] \ {v} /\ v \in under[v] /\ under[v] \in SUBSET Vma!Node
  <2>1. N \subseteq Vma!Node
    BY DEF Tree, Shaped
  <2>2. QED
    BY <2>1, Under
<1> DEFINE S == under[v]
           C == under[c]
<1>2. IsFiniteSet(S) /\ Cardinality(S) \in Nat /\ Cardinality(C) \in Nat
  BY <1>1, NodesFinite DEF Tree
<1>3. C \subseteq S \ {v} /\ v \in S
  BY <1>1
<1> HIDE DEF S, C
<1>4. IsFiniteSet(S \ {v}) /\ Cardinality(S \ {v}) = Cardinality(S) - 1
  BY <1>2, <1>3, FS_RemoveElement
<1>5. Cardinality(C) <= Cardinality(S \ {v})
  BY <1>3, <1>4, FS_Subset
<1>6. QED
  BY <1>2, <1>4, <1>5 DEF S, C

-----------------------------------------------------------------------------
(* Ways                                                                    *)

IsWay(f, v, step, n) == f = [i \in 0 .. n |-> IF i = 0 THEN v ELSE step[f[i - 1]]]

(* The recursive definition of a way has a solution,                       *)
LEMMA WayExists ==
  ASSUME NEW v, NEW step, NEW k \in Nat
  PROVE  \E f : IsWay(f, v, step, k)
<1> DEFINE Q(n) == \E f : IsWay(f, v, step, n)
           S == {n \in Nat : ~Q(n)}
<1>1. ASSUME S # {} PROVE FALSE
  <2>1. PICK n \in S : \A y \in S : n <= y
    BY <1>1, Least
  <2>2. CASE n = 0
    <3> DEFINE f == [i \in 0 .. 0 |-> v]
    <3>1. IsWay(f, v, step, 0)
      BY DEF IsWay
    <3> HIDE DEF f
    <3>2. QED
      BY <2>1, <2>2, <3>1
  <2>3. CASE n # 0
    <3>1. n \in Nat /\ n - 1 \in Nat /\ n - 1 \notin S
      BY <2>1, <2>3
    <3>2. PICK f : IsWay(f, v, step, n - 1)
      BY <3>1
    <3> DEFINE g == [i \in 0 .. n |-> IF i = n THEN step[f[n - 1]] ELSE f[i]]
    <3>3. ASSUME NEW i \in 0 .. n
          PROVE  g[i] = IF i = 0 THEN v ELSE step[g[i - 1]]
      <4>1. CASE i = n
        <5>1. g[i] = step[f[i - 1]] /\ g[i - 1] = f[i - 1] /\ i # 0
          BY <3>1, <4>1, <2>3
        <5> HIDE DEF g
        <5>2. QED
          BY <5>1
      <4>2. CASE i = 0
        <5>1. g[0] = f[0] /\ 0 \in 0 .. (n - 1)
          BY <3>1, <2>3
        <5>2. f[0] = v
          BY <3>2, <5>1 DEF IsWay
        <5> HIDE DEF g
        <5>3. QED
          BY <4>2, <5>1, <5>2
      <4>3. CASE i # n /\ i # 0
        <5>1. g[i] = f[i] /\ g[i - 1] = f[i - 1] /\ i \in 0 .. (n - 1)
          BY <3>1, <4>3, SMTT(30)
        <5>2. f[i] = step[f[i - 1]]
          BY <3>2, <4>3, <5>1 DEF IsWay
        <5> HIDE DEF g
        <5>3. QED
          BY <4>3, <5>1, <5>2
      <4>4. QED
        BY <4>1, <4>2, <4>3
    <3>4. g = [i \in 0 .. n |-> g[i]]
      OBVIOUS
    <3> HIDE DEF g
    <3>5. IsWay(g, v, step, n)
      BY <3>3, <3>4 DEF IsWay
    <3>6. QED
      BY <2>1, <3>5
  <2>4. QED
    BY <2>2, <2>3
<1>2. QED
  BY <1>1

(* and so Way obeys its recurrence.                                        *)
LEMMA WayIs ==
  ASSUME Vma!VmaTreeAssumption, NEW v, NEW step
  PROVE  /\ Nodes \in Nat /\ Vma!Way(v, step)[0] = v
         /\ \A i \in 0 .. Nodes : i # 0 => Vma!Way(v, step)[i] = step[Vma!Way(v, step)[i - 1]]
<1>1. Nodes \in Nat
  BY DEF Vma!VmaTreeAssumption
<1>2. Vma!Way(v, step) = CHOOSE f : IsWay(f, v, step, Nodes)
  BY DEF Vma!Way, IsWay
<1>3. IsWay(Vma!Way(v, step), v, step, Nodes)
  BY <1>1, <1>2, WayExists
<1> DEFINE f == Vma!Way(v, step)
<1>4. f = [i \in 0 .. Nodes |-> IF i = 0 THEN v ELSE step[f[i - 1]]]
  BY <1>3 DEF IsWay
<1> HIDE DEF f
<1>5. f[0] = v /\ \A i \in 0 .. Nodes : i # 0 => f[i] = step[f[i - 1]]
  BY <1>1, <1>4
<1>6. QED
  BY <1>1, <1>5 DEF f

(* Steps that go down from D or stay, and keep the nodes K below.          *)
Descends(s, D, under, step, K) ==
  /\ step[Vma!NULL] = Vma!NULL \/ (D # {} /\ \A v \in D : step[v] # Vma!NULL)
  /\ \A v \in D : /\ step[v] \in {v, s.node[v].prev, s.node[v].next}
                  /\ K \subseteq under[v] => K \subseteq under[step[v]]
(* The way they lead, and where it ends.                                   *)
Arrives(D, under, w, step, K) ==
  /\ \A i \in 0 .. Nodes : w[i] \in D \cup {Vma!NULL} /\ K \subseteq under[w[i]]
  /\ step[w[Nodes]] = w[Nodes]

(* Such steps arrive within as many turns as there are nodes, since each   *)
(* goes to a smaller tree.                                                 *)
LEMMA Descent ==
  ASSUME NEW s, NEW N, NEW under, Tree(s, N, under), NEW start \in N \cup {Vma!NULL}, NEW step,
         NEW K \in SUBSET N, K \subseteq under[start],
         Descends(s, under[start], under, step, K)
  PROVE  Arrives(under[start], under, Vma!Way(start, step), step, K)
<1> DEFINE w == Vma!Way(start, step)
           D == under[start]
           Ok(i) == /\ w[i] \in N \cup {Vma!NULL} /\ w[i] \in D \cup {Vma!NULL} /\ K \subseteq under[w[i]]
                    /\ step[Vma!NULL] = Vma!NULL \/ w[i] # Vma!NULL
                    /\ w[i] \in N => step[w[i]] = w[i] \/ Cardinality(under[w[i]]) + i <= Nodes
           Bad == {i \in 0 .. Nodes : ~Ok(i)}
<1>1. Nodes \in Nat /\ w[0] = start /\ \A i \in 0 .. Nodes : i # 0 => w[i] = step[w[i - 1]]
  BY WayIs DEF Tree
<1>0. start \in D \cup {Vma!NULL} /\ D \subseteq N
  <2>1. start \in N => start \in D
    BY Under
  <2>2. QED
    BY <2>1 DEF Tree, Shaped, Link
<1> HIDE DEF w
<1>2. Ok(0)
  <2>3. step[Vma!NULL] = Vma!NULL \/ start # Vma!NULL
    BY DEF Descends, Tree, Shaped
  <2>1. ASSUME start \in N PROVE Cardinality(under[start]) + 0 <= Nodes
    <3>1. under[start] \in SUBSET Vma!Node
      BY <2>1 DEF Tree, Shaped, Link
    <3>2. QED
      BY <1>1, <3>1, NodesFinite DEF Tree
  <2>2. QED
    BY <1>0, <1>1, <2>1, <2>3
<1>3. ASSUME NEW i \in 0 .. Nodes, i # 0, Ok(i - 1) PROVE Ok(i)
  <2>1. w[i] = step[w[i - 1]]
    BY <1>1, <1>3
  <2>2. CASE w[i - 1] = Vma!NULL
    <3>1. w[i] = Vma!NULL /\ Vma!NULL \notin N /\ step[Vma!NULL] = Vma!NULL
      BY <1>3, <2>1, <2>2 DEF Tree, Shaped, Vma!Node, Vma!NULL, Descends
    <3>2. QED
      BY <1>3, <2>2, <3>1
  <2>3. CASE w[i - 1] \in N
    <3> DEFINE v == w[i - 1]
    <3>1. v \in N /\ v \in D /\ w[i] = step[v] /\ K \subseteq under[v] /\ (step[v] = v \/ Cardinality(under[v]) + (i - 1) <= Nodes)
      <4>1. v \in D
        BY <1>3, <2>3 DEF Tree, Shaped, Vma!Node, Vma!NULL
      <4>2. QED
        BY <1>3, <2>1, <2>3, <4>1
    <3> HIDE DEF v
    <3>2. /\ step[v] \in {v, s.node[v].prev, s.node[v].next} /\ K \subseteq under[w[i]]
          /\ step[Vma!NULL] = Vma!NULL \/ w[i] # Vma!NULL
      BY <3>1 DEF Descends
    <3>3. CASE step[v] = v
      BY <3>1, <3>2, <3>3
    <3>4. CASE step[v] # v
      <4>1. step[v] \in {s.node[v].prev, s.node[v].next} /\ Cardinality(under[v]) + (i - 1) <= Nodes
        BY <3>1, <3>2, <3>4
      <4> DEFINE a == Cardinality(under[v])
                 b == Cardinality(under[step[v]])
      <4>2. a \in Nat /\ b \in Nat /\ b < a
        BY <3>1, <4>1, Smaller
      <4>3. step[v] \in N \cup {Vma!NULL}
        BY <3>1, <4>1 DEF Tree, Shaped
      <4>6. step[v] \in D \cup {Vma!NULL}
        <5>1. under[v] \subseteq D
          <6>1. start \in N
            BY <3>1 DEF Tree, Shaped
          <6>2. QED
            BY <3>1, <6>1 DEF Tree, Shaped
        <5>2. step[v] \in N => step[v] \in under[step[v]]
          BY Under
        <5>3. under[step[v]] \subseteq under[v]
          BY <3>1, <4>1, Under
        <5>4. QED
          BY <4>3, <5>1, <5>2, <5>3
      <4>4. b + i <= Nodes
        <5> HIDE DEF a, b
        <5>1. a + (i - 1) <= Nodes
          BY <4>1 DEF a
        <5>2. QED
          BY <1>1, <4>2, <5>1
      <4>5. QED
        BY <3>1, <3>2, <4>3, <4>4, <4>6
    <3>5. QED
      BY <3>3, <3>4
  <2>4. QED
    BY <1>3, <2>2, <2>3
<1> HIDE DEF Ok
<1>4. Bad = {}
  <2>1. ASSUME Bad # {} PROVE FALSE
    <3>1. PICK i \in Bad : \A j \in Bad : i <= j
      <4>1. Bad \in SUBSET Nat
        BY <1>1
      <4>2. QED
        BY <2>1, <4>1, Least
    <3>2. i # 0 /\ i \in 0 .. Nodes /\ ~Ok(i)
      BY <1>2, <3>1
    <3>3. Ok(i - 1)
      BY <1>1, <3>1, <3>2
    <3>4. QED
      BY <1>3, <3>2, <3>3
  <2>2. QED
    BY <2>1
<1>5. \A i \in 0 .. Nodes : Ok(i)
  BY <1>4
<1>6. step[w[Nodes]] = w[Nodes]
  <2>1. Nodes \in 0 .. Nodes
    BY <1>1
  <2>2. Ok(Nodes)
    BY <1>5, <2>1
  <2>3. CASE w[Nodes] \in N /\ Cardinality(under[w[Nodes]]) + Nodes <= Nodes
    <3>1. Cardinality(under[w[Nodes]]) \in Nat /\ Cardinality(under[w[Nodes]]) > 0
      BY <2>3, Smaller
    <3>2. QED
      BY <1>1, <2>3, <3>1
  <2>4. QED
    BY <2>2, <2>3 DEF Ok, Descends
<1>7. \A i \in 0 .. Nodes : w[i] \in D \cup {Vma!NULL} /\ K \subseteq under[w[i]]
  BY <1>5 DEF Ok
<1>8. QED
  BY <1>6, <1>7 DEF w, Arrives

(* The node of the tree that holds a page is found.                        *)
LEMMA WalkIs ==
  ASSUME NEW s, NEW N, NEW under, Tree(s, N, under), NEW p \in Int
  PROVE  \/ Vma!Walk(s, p) \in N /\ Vma!Inside(s, Vma!Walk(s, p), p)
         \/ Vma!Walk(s, p) = Vma!NULL /\ \A v \in N : ~Vma!Inside(s, v, p)
<1> DEFINE step == [v \in Link |->
                      IF v = Vma!NULL \/ Vma!Inside(s, v, p) THEN v
                      ELSE IF p < s.node[v].base THEN s.node[v].prev ELSE s.node[v].next]
           K == {v \in N : Vma!Inside(s, v, p)}
           w == Vma!Way(s.head, step)
<1>1. Vma!Walk(s, p) = w[Nodes]
  BY DEF Vma!Walk, Link
<1>2. step[Vma!NULL] = Vma!NULL /\ N \subseteq Vma!Node /\ Vma!Node \subseteq Link /\ Vma!NULL \in Link
  BY SMTT(30) DEF Tree, Shaped, Link
<1>3. ASSUME NEW v \in N
      PROVE  /\ step[v] \in {v, s.node[v].prev, s.node[v].next}
             /\ K \subseteq under[v] => K \subseteq under[step[v]]
  <2>1. v \in Link /\ v # Vma!NULL
    BY <1>2 DEF Vma!Node, Vma!NULL
  <2>2. step[v] = IF Vma!Inside(s, v, p) THEN v ELSE IF p < s.node[v].base THEN s.node[v].prev ELSE s.node[v].next
    BY <2>1
  <2>3. ASSUME K \subseteq under[v], NEW x \in K PROVE x \in under[step[v]]
    <3>1. x \in N /\ Vma!Inside(s, x, p) /\ x \in under[v]
      BY <2>3
    <3>2. /\ \A u \in N : s.node[u].base \in Nat /\ End(s, u) \in Nat /\ End(s, u) = s.node[u].base + s.node[u].size
      BY <1>2, TreeTypes DEF Tree, End
    <3>3. CASE x = v
      BY <2>2, <3>1, <3>3
    <3>4. CASE x \in under[s.node[v].prev]
      <4>1. End(s, x) <= s.node[v].base
        BY <3>4 DEF Tree, Shaped
      <4>2. p < s.node[v].base /\ ~Vma!Inside(s, v, p)
        BY <3>1, <3>2, <4>1 DEF Vma!Inside
      <4>3. QED
        BY <2>2, <3>4, <4>2
    <3>5. CASE x \in under[s.node[v].next]
      <4>1. End(s, v) <= s.node[x].base
        BY <3>5 DEF Tree, Shaped
      <4>2. ~(p < s.node[v].base) /\ ~Vma!Inside(s, v, p)
        <5>1. s.node[v].base < End(s, v)
          BY <3>2, TreeTypes, <1>2 DEF Tree, Sized
        <5>2. QED
          BY <3>1, <3>2, <4>1, <5>1 DEF Vma!Inside
      <4>3. QED
        BY <2>2, <3>5, <4>2
    <3>6. QED
      BY <3>1, <3>3, <3>4, <3>5, Under
  <2>4. QED
    BY <2>2, <2>3
<1>4. s.head \in N \cup {Vma!NULL} /\ K \in SUBSET N /\ K \subseteq under[s.head]
  BY DEF Tree, Shaped
<1> HIDE DEF step, K
<1>5. /\ \A i \in 0 .. Nodes : w[i] \in N \cup {Vma!NULL} /\ K \subseteq under[w[i]]
      /\ step[w[Nodes]] = w[Nodes]
  <2>1. Descends(s, N, under, step, K)
    BY <1>2, <1>3 DEF Descends
  <2>2. Arrives(N, under, w, step, K)
    <3>1. under[s.head] = N
      BY DEF Tree, Shaped
    <3>2. QED
      BY <1>4, <2>1, <3>1, Descent
  <2>3. QED
    BY <2>2 DEF Arrives
<1> DEFINE x == w[Nodes]
<1>6. x \in N \cup {Vma!NULL} /\ K \subseteq under[x] /\ step[x] = x
  <2>1. Nodes \in 0 .. Nodes
    BY DEF Tree, Vma!VmaTreeAssumption
  <2>2. QED
    BY <1>5, <2>1
<1> HIDE DEF x
<1>7. CASE x \in N
  <2>1. x \notin {s.node[x].prev, s.node[x].next}
    <3>1. x \in under[x] /\ x \notin under[s.node[x].prev] /\ x \notin under[s.node[x].next]
      BY <1>7, Under, SMTT(60)
    <3>2. QED
      BY <3>1
  <2>2. Vma!Inside(s, x, p)
    <3>1. x \in Link /\ x # Vma!NULL
      BY <1>2, <1>7 DEF Vma!Node, Vma!NULL
    <3>2. step[x] = IF Vma!Inside(s, x, p) THEN x ELSE IF p < s.node[x].base THEN s.node[x].prev ELSE s.node[x].next
      BY <3>1 DEF step
    <3>3. QED
      BY <1>6, <2>1, <3>2
  <2>3. QED
    BY <1>1, <1>7, <2>2 DEF x
<1>8. CASE x = Vma!NULL
  <2>1. K = {}
    BY <1>6, <1>8 DEF Tree, Shaped
  <2>2. QED
    BY <1>1, <1>8, <2>1 DEF x, K
<1>9. QED
  BY <1>6, <1>7, <1>8

(* A lookup finds the node that holds the page, if the cache is no stray.  *)
Cached(s, N) == s.cache \in N \cup {Vma!NULL}
(* With the cache empty or on a node of the tree, so does find_vma.        *)
LEMMA FindIs ==
  ASSUME NEW s, NEW N, NEW under, Tree(s, N, under), Cached(s, N), NEW p \in Int
  PROVE  \/ Vma!find_vma(s, p) \in N /\ Vma!Inside(s, Vma!find_vma(s, p), p)
         \/ Vma!find_vma(s, p) = Vma!NULL /\ \A v \in N : ~Vma!Inside(s, v, p)
BY WalkIs DEF Vma!find_vma, Cached

(* No other node holds it.                                                 *)
LEMMA OneHolder ==
  ASSUME NEW s, NEW N, NEW under, Tree(s, N, under), NEW p \in Int, NEW u \in N, NEW v \in N,
         Vma!Inside(s, u, p), Vma!Inside(s, v, p)
  PROVE  u = v
<1>1. u \in Vma!Node /\ v \in Vma!Node
  BY DEF Tree, Shaped
<1>2. /\ s.node[u].base \in Nat /\ s.node[v].base \in Nat
      /\ End(s, u) = s.node[u].base + s.node[u].size /\ End(s, v) = s.node[v].base + s.node[v].size
      /\ End(s, u) \in Nat /\ End(s, v) \in Nat
  BY <1>1, TreeTypes DEF Tree, End
<1>3. s.node[u].base <= p /\ p < End(s, u) /\ s.node[v].base <= p /\ p < End(s, v)
  BY <1>2 DEF Vma!Inside
<1>4. u # v => End(s, u) <= s.node[v].base \/ End(s, v) <= s.node[u].base
  BY DEF Tree, Sized
<1>5. QED
  BY <1>2, <1>3, <1>4

(* Every node but the head has a parent, and one only.                     *)
LEMMA HasParent ==
  ASSUME NEW s, NEW N, NEW under, Tree(s, N, under), NEW v \in N, v # s.head
  PROVE  \E u \in N : v \in {s.node[u].prev, s.node[u].next}
<1> DEFINE S == {k \in Nat : \E u \in N : u # v /\ v \in under[u] /\ Cardinality(under[u]) = k}
<1>1. \A u \in N : Cardinality(under[u]) \in Nat
  BY Smaller
<1>2. s.head \in N /\ v \in under[s.head]
  BY DEF Tree, Shaped
<1>3. S # {}
  BY <1>1, <1>2
<1>4. PICK k \in S : \A j \in S : k <= j
  BY <1>3, Least
<1>5. PICK u \in N : u # v /\ v \in under[u] /\ Cardinality(under[u]) = k
  BY <1>4
<1>6. PICK c \in {s.node[u].prev, s.node[u].next} : v \in under[c]
  BY <1>5, Under
<1>7. c \in N
  BY <1>5, <1>6 DEF Tree, Shaped
<1>8. Cardinality(under[c]) \in Nat /\ Cardinality(under[c]) < k
  BY <1>5, <1>6, Smaller
<1>9. c = v
  BY <1>4, <1>6, <1>7, <1>8
<1>10. QED
  BY <1>5, <1>6, <1>9

(* A node is a child on one side of one node.                              *)
LEMMA OneParent ==
  ASSUME NEW s, NEW N, NEW under, Tree(s, N, under), NEW v \in N,
         NEW a \in N, v \in {s.node[a].prev, s.node[a].next}
  PROVE  /\ v # s.head /\ a # v /\ v \in under[a]
         /\ \A b \in N : v \in {s.node[b].prev, s.node[b].next} => b = a
         /\ s.node[a].prev = v => s.node[a].next # v
<1>1. ASSUME NEW b \in N, v \in {s.node[b].prev, s.node[b].next}
      PROVE  v \in under[b] /\ b # v /\ ~(s.node[b].prev = v /\ s.node[b].next = v)
  <2>1. v \in under[v]
    BY Under
  <2>2. QED
    BY <1>1, <2>1, Under, SMTT(30)
<1>2. ASSUME NEW b \in N, NEW c \in N, v \in {s.node[b].prev, s.node[b].next}, v \in {s.node[c].prev, s.node[c].next},
             b # c, b \in under[c]
      PROVE  FALSE
  <2>1. v \in under[b] /\ b # v /\ v \in under[c] /\ c # v
    BY <1>1, <1>2
  <2>2. PICK d \in {s.node[c].prev, s.node[c].next} : b \in under[d]
    BY <1>2, Under
  <2>3. d \in N
    BY <2>2 DEF Tree, Shaped
  <2>4. v \in under[d]
    BY <2>1, <2>2, <2>3 DEF Tree, Shaped
  <2>5. d = v
    <3>1. v \in under[v]
      BY Under
    <3>2. under[s.node[c].prev] \cap under[s.node[c].next] = {}
      BY Under
    <3>3. QED
      BY <1>2, <2>4, <3>1, <3>2
  <2>6. b = v
    BY <2>1, <2>2, <2>3, <2>5, Antisymmetric
  <2>7. QED
    BY <2>1, <2>6
<1>3. v # s.head
  <2>1. ASSUME v = s.head PROVE FALSE
    <3>1. a \in under[v] /\ v \in under[a]
      BY <1>1, <2>1 DEF Tree, Shaped
    <3>2. a = v
      BY <3>1, Antisymmetric
    <3>3. QED
      BY <1>1, <3>2
  <2>2. QED
    BY <2>1
<1>4. ASSUME NEW b \in N, v \in {s.node[b].prev, s.node[b].next} PROVE b = a
  <2>1. b \in under[a] \/ a \in under[b]
    <3>1. v \in under[a] /\ v \in under[b]
      BY <1>1, <1>4
    <3>2. QED
      BY <3>1 DEF Tree, Shaped
  <2>2. QED
    BY <1>2, <1>4, <2>1
<1>5. QED
  BY <1>1, <1>3, <1>4

(* The nodes in use outside the tree are unlinked.                         *)
Loose(s, N) == N \cap s.free = {} /\ \A u \in Vma!Node \ (s.free \cup N) : s.node[u].prev = Vma!NULL /\ s.node[u].next = Vma!NULL

(* Parent finds it, among all nodes that are not in the pool.              *)
LEMMA ParentIs ==
  ASSUME NEW s, NEW N, NEW under, Tree(s, N, under), Loose(s, N), NEW v \in N, v # s.head
  PROVE  Vma!Parent(s, v) \in N /\ v \in {s.node[Vma!Parent(s, v)].prev, s.node[Vma!Parent(s, v)].next}
<1> DEFINE above == {u \in Vma!Node \ s.free : v \in {s.node[u].prev, s.node[u].next}}
<1>1. PICK u \in N : v \in {s.node[u].prev, s.node[u].next}
  BY HasParent
<1>2. N \subseteq Vma!Node \ s.free /\ v # Vma!NULL
  BY DEF Loose, Tree, Shaped, Vma!Node, Vma!NULL
<1>3. u \in above
  BY <1>1, <1>2
<1>4. \A w \in above : w \in N
  BY <1>2 DEF Loose
<1>5. Vma!Parent(s, v) \in above
  BY <1>3 DEF Vma!Parent
<1>6. QED
  BY <1>4, <1>5

(* Nothing but links changes, and those of the nodes N only.               *)
SameArea(s, t, v) == t.node[v].base = s.node[v].base /\ t.node[v].size = s.node[v].size /\ t.node[v].flags = s.node[v].flags
Relinked(s, t, N) ==
  /\ t.free = s.free /\ t.cache = s.cache
  /\ \A v \in Vma!Node : SameArea(s, t, v)
  /\ \A v \in Vma!Node \ N : t.node[v] = s.node[v]

(* A node apart from the tree, with an area of its own.                    *)
Separate(s, N, v) ==
  /\ v \in Vma!Node \ N /\ s.node[v].prev = Vma!NULL /\ s.node[v].next = Vma!NULL
  /\ s.node[v].size > 0 /\ End(s, v) <= Top
  /\ \A u \in N : End(s, u) <= s.node[v].base \/ End(s, v) <= s.node[u].base

(* The way down to where b goes leads on the proper side of every node.    *)
Sides(s, under, w, b, u) ==
  /\ w \in under[s.node[u].prev] => b < s.node[u].base
  /\ w \in under[s.node[u].next] => ~(b < s.node[u].base)

(* A turn of the way down keeps to the proper side.                        *)
LEMMA SidesKept ==
  ASSUME NEW s, NEW N, NEW under, Tree(s, N, under), NEW b \in Int, NEW x \in N, \A u \in N : Sides(s, under, x, b, u),
         NEW c \in N, c = (IF b < s.node[x].base THEN s.node[x].prev ELSE s.node[x].next), NEW u \in N
  PROVE  Sides(s, under, c, b, u)
<1>1. c \in under[c] /\ c \in {s.node[x].prev, s.node[x].next} /\ c \in under[x]
  BY Under
<1>2. CASE u = x
  <2>1. under[s.node[x].prev] \cap under[s.node[x].next] = {}
    BY Under, SMTT(30)
  <2>2. QED
    BY <1>1, <1>2, <2>1 DEF Sides
<1>3. ASSUME u # x, c \in under[s.node[u].prev] \/ c \in under[s.node[u].next], x \notin under[u]
      PROVE  FALSE
  <2>1. c \in under[u]
    BY <1>3, Under, SMTT(30)
  <2>2. u \in under[x]
    BY <1>1, <1>3, <2>1 DEF Tree, Shaped
  <2>3. PICK d \in {s.node[x].prev, s.node[x].next} : u \in under[d]
    BY <1>3, <2>2, Under
  <2>4. d \in N
    BY <2>3 DEF Tree, Shaped
  <2>5. c \in under[d]
    BY <2>1, <2>3, <2>4 DEF Tree, Shaped
  <2>6. d = c
    <3>1. under[s.node[x].prev] \cap under[s.node[x].next] = {}
      BY Under
    <3>2. QED
      BY <1>1, <2>3, <2>5, <3>1
  <2>7. u = c
    BY <2>1, <2>3, <2>6, Antisymmetric, SMTT(30)
  <2>8. c \notin under[s.node[c].prev] /\ c \notin under[s.node[c].next]
    BY Under
  <2>9. QED
    BY <1>3, <2>7, <2>8
<1>4. ASSUME u # x, x \in under[u], NEW d \in {s.node[u].prev, s.node[u].next}, c \in under[d]
      PROVE  x \in under[d]
  <2>1. PICK e \in {s.node[u].prev, s.node[u].next} : x \in under[e]
    BY <1>4, Under
  <2>2. e \in N
    BY <2>1 DEF Tree, Shaped
  <2>3. c \in under[e]
    BY <1>1, <2>1, <2>2 DEF Tree, Shaped
  <2>4. under[s.node[u].prev] \cap under[s.node[u].next] = {}
    BY Under
  <2>5. QED
    BY <1>4, <2>1, <2>3, <2>4
<1>5. QED
  BY <1>2, <1>3, <1>4 DEF Sides

(* Where insert_vma links a node.                                          *)
Place(s, N, under, b, w) ==
  /\ w \in N /\ \A u \in N : Sides(s, under, w, b, u)
  /\ (IF b < s.node[w].base THEN s.node[w].prev ELSE s.node[w].next) = Vma!NULL

(* A node hung below w.                                                    *)
Hung(s, t, w, v) ==
  t = IF s.node[v].base < s.node[w].base THEN [s EXCEPT !.node[w].prev = v] ELSE [s EXCEPT !.node[w].next = v]

(* The loop of insert_vma ends at such a place.                            *)
LEMMA PlaceIs ==
  ASSUME NEW s, NEW N, NEW under, Tree(s, N, under), N # {}, NEW v \in Vma!Node
  PROVE  /\ s.head # Vma!NULL
         /\ \E w \in N :
              /\ Place(s, N, under, s.node[v].base, w)
              /\ Hung(s, Vma!insert_vma(s, v), w, v)
<1> DEFINE b == s.node[v].base
           down == [u \in Link |->
                      IF u = Vma!NULL THEN Vma!NULL ELSE IF b < s.node[u].base THEN s.node[u].prev ELSE s.node[u].next]
           way == Vma!Way(s.head, down)
           last == CHOOSE i \in 0 .. Nodes : way[i] # Vma!NULL /\ (i = Nodes \/ way[i + 1] = Vma!NULL)
<1>1. s.head \in N /\ s.head # Vma!NULL /\ N \subseteq Vma!Node /\ b \in Int /\ Vma!NULL \notin N
  BY TreeTypes, SMTT(60) DEF Tree, Shaped, Vma!Node, Vma!NULL
<1>2. Vma!insert_vma(s, v) = IF b < s.node[way[last]].base THEN [s EXCEPT !.node[way[last]].prev = v]
                         ELSE [s EXCEPT !.node[way[last]].next = v]
  BY <1>1, ZenonT(60) DEF Vma!insert_vma, Link
<1>3. down[Vma!NULL] = Vma!NULL /\ \A u \in N : down[u] = IF b < s.node[u].base THEN s.node[u].prev ELSE s.node[u].next
  BY <1>1 DEF Link
<1>4. Nodes \in Nat /\ way[0] = s.head /\ \A i \in 0 .. Nodes : i # 0 => way[i] = down[way[i - 1]]
  <2> HIDE DEF down
  <2>1. QED
    BY WayIs DEF Tree
<1>5. /\ \A i \in 0 .. Nodes : way[i] \in N \cup {Vma!NULL}
      /\ down[way[Nodes]] = way[Nodes]
  <2>1. Descends(s, N, under, down, {})
    BY <1>3 DEF Descends
  <2>2. under[s.head] = N
    BY DEF Tree, Shaped
  <2> HIDE DEF down
  <2>3. Arrives(N, under, way, down, {})
    BY <1>1, <2>1, <2>2, Descent
  <2>4. QED
    BY <2>3 DEF Arrives
<1> HIDE DEF way
<1>6. way[Nodes] = Vma!NULL
  <2>1. ASSUME way[Nodes] \in N PROVE FALSE
    <3>1. way[Nodes] \in {s.node[way[Nodes]].prev, s.node[way[Nodes]].next}
      BY <1>3, <1>5, <2>1
    <3>2. QED
      BY <2>1, <3>1, Under
  <2>2. QED
    BY <1>4, <1>5, <2>1
<1>7. last \in 0 .. Nodes /\ way[last] # Vma!NULL /\ last # Nodes /\ way[last + 1] = Vma!NULL
  <2> DEFINE S == {i \in 0 .. Nodes : way[i] = Vma!NULL}
  <2>1. PICK i \in S : \A j \in S : i <= j
    <3>1. S \in SUBSET Nat /\ S # {}
      BY <1>4, <1>6
    <3>2. QED
      BY <3>1, Least
  <2>2. i # 0 /\ i - 1 \in 0 .. Nodes /\ i - 1 \notin S
    BY <1>1, <1>4, <2>1
  <2>3. way[i - 1] # Vma!NULL /\ way[(i - 1) + 1] = Vma!NULL
    BY <2>1, <2>2
  <2>4. \E j \in 0 .. Nodes : way[j] # Vma!NULL /\ (j = Nodes \/ way[j + 1] = Vma!NULL)
    BY <2>2, <2>3
  <2>5. last \in 0 .. Nodes /\ way[last] # Vma!NULL /\ (last = Nodes \/ way[last + 1] = Vma!NULL)
    BY <2>4
  <2> HIDE DEF last
  <2>6. QED
    BY <1>6, <2>5
<1> HIDE DEF last
<1>8. \A i \in 0 .. Nodes : way[i] # Vma!NULL => \A u \in N : Sides(s, under, way[i], b, u)
  <2> DEFINE Bad == {i \in 0 .. Nodes : way[i] # Vma!NULL /\ ~(\A u \in N : Sides(s, under, way[i], b, u))}
  <2>1. ASSUME Bad # {} PROVE FALSE
    <3>1. PICK i \in Bad : \A j \in Bad : i <= j
      <4>1. Bad \in SUBSET Nat
        BY <1>4
      <4>2. QED
        BY <2>1, <4>1, Least
    <3>2. CASE i = 0
      <4>1. ASSUME NEW u \in N, s.head \in under[s.node[u].prev] \/ s.head \in under[s.node[u].next] PROVE FALSE
        <5>1. s.head \in under[u] /\ u \in under[s.head]
          BY <4>1, Under DEF Tree, Shaped
        <5>2. s.head = u
          BY <5>1, <1>1, Antisymmetric
        <5>3. QED
          BY <4>1, <5>2, Under, SMTT(30)
      <4>2. QED
        BY <1>4, <3>1, <3>2, <4>1 DEF Sides
    <3>3. CASE i # 0
      <4> DEFINE x == way[i - 1]
                 c == way[i]
      <4>1. i \in 0 .. Nodes /\ i - 1 \in 0 .. Nodes /\ i - 1 \notin Bad /\ c = down[x] /\ c # Vma!NULL /\ c \in N
        BY <1>4, <1>5, <3>1, <3>3, SMTT(30)
      <4>2. x # Vma!NULL /\ x \in N
        <5>1. x \in N \cup {Vma!NULL}
          BY <1>5, <4>1
        <5>2. QED
          BY <1>3, <4>1, <5>1
      <4>3. \A u \in N : Sides(s, under, x, b, u)
        BY <4>1, <4>2, SMTT(30)
      <4>4. c = IF b < s.node[x].base THEN s.node[x].prev ELSE s.node[x].next
        BY <1>3, <4>1, <4>2
      <4> HIDE DEF x, c, b, down
      <4>5. \A u \in N : Sides(s, under, c, b, u)
        BY <1>1, <4>1, <4>2, <4>3, <4>4, SidesKept
      <4>6. QED
        BY <3>1, <4>5 DEF c
    <3>4. QED
      BY <3>2, <3>3
  <2>2. QED
    BY <2>1
<1> DEFINE w == way[last]
<1>9. w \in N /\ \A u \in N : Sides(s, under, w, b, u)
  BY <1>5, <1>7, <1>8
<1>10. down[w] = Vma!NULL
  BY <1>4, <1>7
<1>11. Place(s, N, under, b, w)
  BY <1>3, <1>9, <1>10 DEF Place
<1>12. Hung(s, Vma!insert_vma(s, v), w, v)
  BY <1>2 DEF Hung
<1>13. QED
  BY <1>1, <1>9, <1>11, <1>12

(* What hanging a node changes.                                            *)
LEMMA HungIs ==
  ASSUME NEW s \in SpaceType, NEW t, NEW w \in Vma!Node, NEW v \in Vma!Node, v # w, Hung(s, t, w, v)
  PROVE  /\ t \in SpaceType /\ t.head = s.head /\ Relinked(s, t, {w})
         /\ t.node[w].prev = IF s.node[v].base < s.node[w].base THEN v ELSE s.node[w].prev
         /\ t.node[w].next = IF s.node[v].base < s.node[w].base THEN s.node[w].next ELSE v
<1> DEFINE y == IF s.node[v].base < s.node[w].base THEN [s.node[w] EXCEPT !.prev = v] ELSE [s.node[w] EXCEPT !.next = v]
<1>1. s = [node |-> s.node, head |-> s.head, cache |-> s.cache, free |-> s.free] /\ s.node \in [Vma!Node -> NodeType]
  BY DEF SpaceType
<1>2. s.node[w] \in NodeType
  BY <1>1
<1>3. t = [s EXCEPT !.node = [s.node EXCEPT ![w] = y]]
  BY <1>1, <1>2 DEF Hung
<1>4. y \in NodeType /\ y.base = s.node[w].base /\ y.size = s.node[w].size /\ y.flags = s.node[w].flags
      /\ y.prev = (IF s.node[v].base < s.node[w].base THEN v ELSE s.node[w].prev)
      /\ y.next = (IF s.node[v].base < s.node[w].base THEN s.node[w].next ELSE v)
  BY <1>2 DEF NodeType, Link
<1> HIDE DEF y
<1>5. t.node = [s.node EXCEPT ![w] = y] /\ t.head = s.head /\ t.cache = s.cache /\ t.free = s.free /\ t \in SpaceType
  <2>1. [s.node EXCEPT ![w] = y] \in [Vma!Node -> NodeType]
    BY <1>1, <1>4
  <2>2. QED
    BY <1>1, <1>3, <2>1 DEF SpaceType
<1>6. t.node[w] = y /\ \A u \in Vma!Node : u # w => t.node[u] = s.node[u]
  BY <1>1, <1>5
<1>7. QED
  BY <1>4, <1>5, <1>6 DEF Relinked, SameArea

(* A node hung where its base belongs leaves a search tree.                *)
LEMMA HungShaped ==
  ASSUME NEW s, NEW N, NEW under, Tree(s, N, under), NEW v, Separate(s, N, v), NEW w, Place(s, N, under, s.node[v].base, w),
         NEW t, Hung(s, t, w, v)
  PROVE  \E under2 : Shaped(t, N \cup {v}, under2)
<1> DEFINE b == s.node[v].base
           N2 == N \cup {v}
           under2 == [u \in Link |-> IF u = v THEN {v} ELSE IF w \in under[u] THEN under[u] \cup {v} ELSE under[u]]
<1>1. /\ N \subseteq Vma!Node /\ Vma!NULL \notin Vma!Node /\ v \in Vma!Node /\ v \notin N /\ w \in N /\ w \in Vma!Node /\ v # w /\ v # Vma!NULL
      /\ s \in SpaceType /\ s.head \in N \cup {Vma!NULL} /\ Vma!Node \subseteq Link /\ Vma!NULL \in Link
  BY DEF Tree, Shaped, Separate, Place, Vma!Node, Vma!NULL, Link
<1>2. /\ t \in SpaceType /\ t.head = s.head /\ Relinked(s, t, {w})
      /\ t.node[w].prev = IF b < s.node[w].base THEN v ELSE s.node[w].prev
      /\ t.node[w].next = IF b < s.node[w].base THEN s.node[w].next ELSE v
  BY <1>1, HungIs, SMTT(60)
<1>3. under \in [Link -> SUBSET N] /\ under[Vma!NULL] = {} /\ under[s.head] = N /\ s.head # Vma!NULL
  BY <1>1 DEF Tree, Shaped
<1>4. /\ under2 \in [Link -> SUBSET N2] /\ under2[Vma!NULL] = {} /\ under2[v] = {v} /\ under2[s.head] = N2
      /\ \A u \in Link : u # v => under2[u] = IF w \in under[u] THEN under[u] \cup {v} ELSE under[u]
  BY <1>1, <1>3
<1> HIDE DEF under2
<1>5. \A u \in Vma!Node : t.node[u].base = s.node[u].base /\ End(t, u) = End(s, u)
  BY <1>2 DEF Relinked, SameArea, End
<1>6. \A u \in N : /\ s.node[u].base \in Int /\ End(s, u) \in Int /\ s.node[u].base < End(s, u)
                   /\ End(s, u) <= b \/ End(s, v) <= s.node[u].base
  BY <1>1, TreeTypes DEF Separate, Tree, Sized, End
<1>7. b \in Int /\ End(s, v) \in Int /\ b < End(s, v)
  BY <1>1, TreeTypes DEF Separate, Tree, End
<1>8. s.node[v].prev = Vma!NULL /\ s.node[v].next = Vma!NULL /\ t.node[v].prev = Vma!NULL /\ t.node[v].next = Vma!NULL
  BY <1>1, <1>2 DEF Separate, Relinked
<1>9. ASSUME NEW u \in N
      PROVE  /\ s.node[u].prev \in N \cup {Vma!NULL} /\ s.node[u].next \in N \cup {Vma!NULL}
             /\ under[u] = {u} \cup under[s.node[u].prev] \cup under[s.node[u].next]
             /\ \A x \in under[s.node[u].prev] : End(s, x) <= s.node[u].base
             /\ \A x \in under[s.node[u].next] : End(s, u) <= s.node[x].base
  BY DEF Tree, Shaped
<1>10. \A u \in N : Sides(s, under, w, b, u)
  BY DEF Place
<1> DEFINE Fine(u) ==
       /\ t.node[u].prev \in N2 \cup {Vma!NULL} /\ t.node[u].next \in N2 \cup {Vma!NULL}
       /\ under2[u] = {u} \cup under2[t.node[u].prev] \cup under2[t.node[u].next]
       /\ \A x \in under2[t.node[u].prev] : End(t, x) <= t.node[u].base
       /\ \A x \in under2[t.node[u].next] : End(t, u) <= t.node[x].base
<1>11. ASSUME NEW u \in N, u # w PROVE Fine(u)
  <2>1. t.node[u] = s.node[u] /\ u # v /\ u \in Link
    BY <1>1, <1>2, <1>11 DEF Relinked
  <2> DEFINE l == s.node[u].prev
             r == s.node[u].next
  <2>2. l \in Link /\ r \in Link /\ l # v /\ r # v /\ l \in N \cup {Vma!NULL} /\ r \in N \cup {Vma!NULL}
    BY <1>1, <1>9
  <2>3. w \in under[u] <=> (w \in under[l] \/ w \in under[r])
    BY <1>9, <1>11
  <2>4. ASSUME NEW x \in under2[l] PROVE End(s, x) <= s.node[u].base
    <3>1. CASE x \in under[l]
      BY <1>9, <3>1
    <3>2. CASE x \notin under[l]
      <4>1. x = v /\ w \in under[l]
        BY <1>4, <2>2, <2>4, <3>2
      <4>2. b < s.node[u].base
        BY <1>10, <4>1 DEF Sides
      <4>3. QED
        BY <1>6, <1>7, <4>1, <4>2
    <3>3. QED
      BY <3>1, <3>2
  <2>5. ASSUME NEW x \in under2[r] PROVE End(s, u) <= s.node[x].base
    <3>1. CASE x \in under[r]
      BY <1>9, <3>1
    <3>2. CASE x \notin under[r]
      <4>1. x = v /\ w \in under[r]
        BY <1>4, <2>2, <2>5, <3>2
      <4>2. ~(b < s.node[u].base)
        BY <1>10, <4>1 DEF Sides
      <4>3. QED
        BY <1>6, <1>7, <4>1, <4>2
    <3>3. QED
      BY <3>1, <3>2
  <2>6. under2[u] = {u} \cup under2[l] \cup under2[r]
    BY <1>4, <1>9, <2>1, <2>2, <2>3
  <2>7. under2[l] \subseteq Vma!Node /\ under2[r] \subseteq Vma!Node
    BY <1>1, <1>4, <2>2
  <2>8. QED
    BY <1>1, <1>5, <2>1, <2>2, <2>4, <2>5, <2>6, <2>7
<1>12. Fine(w)
  <2> DEFINE l == s.node[w].prev
             r == s.node[w].next
  <2>1. l \in N \cup {Vma!NULL} /\ r \in N \cup {Vma!NULL} /\ l \in Link /\ r \in Link /\ l # v /\ r # v /\ w \in Link
        /\ under[w] = {w} \cup under[l] \cup under[r]
        /\ (\A x \in under[l] : End(s, x) <= s.node[w].base)
        /\ (\A x \in under[r] : End(s, w) <= s.node[x].base)
    BY <1>1, <1>9
  <2>2. w \in under[w] /\ w \notin under[l] /\ w \notin under[r]
    BY <1>1, Under
  <2>3. under2[l] = under[l] /\ under2[r] = under[r] /\ under2[w] = under[w] \cup {v}
    BY <1>1, <1>4, <2>1, <2>2
  <2>4. under[l] \subseteq Vma!Node /\ under[r] \subseteq Vma!Node
    BY <1>1, <1>3, <2>1
  <2>5. CASE b < s.node[w].base
    <3>1. l = Vma!NULL /\ t.node[w].prev = v /\ t.node[w].next = r
      BY <1>2, <2>5 DEF Place
    <3>2. End(s, v) <= s.node[w].base
      BY <1>1, <1>6, <1>7, <2>5
    <3>3. under2[w] = {w} \cup under2[v] \cup under2[r]
      BY <1>3, <1>4, <2>1, <2>3, <3>1
    <3> HIDE DEF l, r
    <3>4. QED
      BY <1>1, <1>4, <1>5, <2>1, <2>3, <2>4, <3>1, <3>2, <3>3
  <2>6. CASE ~(b < s.node[w].base)
    <3>1. r = Vma!NULL /\ t.node[w].prev = l /\ t.node[w].next = v
      BY <1>2, <2>6 DEF Place
    <3>2. End(s, w) <= b
      BY <1>1, <1>6, <1>7, <2>6
    <3>3. under2[w] = {w} \cup under2[v] \cup under2[l]
      BY <1>3, <1>4, <2>1, <2>3, <3>1
    <3> HIDE DEF l, r
    <3>4. QED
      BY <1>1, <1>4, <1>5, <2>1, <2>3, <2>4, <3>1, <3>2, <3>3
  <2>7. QED
    BY <2>5, <2>6
<1>13. Fine(v)
  BY <1>4, <1>8
<1>14. \A u \in N2 : Fine(u)
  BY <1>11, <1>12, <1>13
<1>15. ASSUME NEW u \in N2, NEW x \in under2[u] PROVE under2[x] \subseteq under2[u]
  <2>1. CASE u = v
    BY <1>4, <1>15, <2>1
  <2>2. CASE u # v /\ x = v
    BY <1>1, <1>4, <1>15, <2>2
  <2>3. CASE u # v /\ x # v
    <3>1. u \in N /\ u \in Link /\ x \in under[u]
      BY <1>1, <1>4, <1>15, <2>3
    <3>2. x \in N /\ x \in Link /\ under[x] \subseteq under[u]
      BY <1>1, <1>3, <3>1 DEF Tree, Shaped
    <3>3. QED
      BY <1>4, <2>3, <3>1, <3>2
  <2>4. QED
    BY <2>1, <2>2, <2>3
<1>16. ASSUME NEW u \in N2, NEW x \in N2 PROVE under2[u] \cap under2[x] = {} \/ u \in under2[x] \/ x \in under2[u]
  <2>1. CASE u = v /\ x = v
    BY <1>4, <2>1
  <2>2. CASE u # v /\ x = v
    BY <1>1, <1>4, <2>2
  <2>3. CASE u = v /\ x # v
    BY <1>1, <1>4, <2>3
  <2>4. CASE u # v /\ x # v
    <3>1. u \in N /\ u \in Link /\ x \in N /\ x \in Link
      BY <1>1, <2>4
    <3>2. under[u] \cap under[x] = {} \/ u \in under[x] \/ x \in under[u]
      BY <3>1 DEF Tree, Shaped
    <3>3. v \notin under[u] /\ v \notin under[x]
      BY <1>1, <1>3, <3>1
    <3>4. QED
      BY <1>4, <2>4, <3>1, <3>2, <3>3
  <2>5. QED
    BY <2>1, <2>2, <2>3, <2>4
<1>17. Shaped(t, N2, under2)
  <2>1. N2 \in SUBSET Vma!Node /\ t.head \in N2 \cup {Vma!NULL} /\ under2[t.head] = N2
    BY <1>1, <1>2, <1>4
  <2>2. QED
    BY <1>4, <1>14, <1>15, <1>16, <2>1 DEF Shaped
<1>18. QED
  BY <1>17

(* So does a first node.                                                   *)
LEMMA HeadShaped ==
  ASSUME NEW s \in SpaceType, NEW v, Separate(s, {}, v), NEW t, t = [s EXCEPT !.head = v]
  PROVE  \E under2 : Shaped(t, {v}, under2)
<1> DEFINE under2 == [u \in Link |-> IF u = v THEN {v} ELSE {}]
<1>1. v \in Vma!Node /\ v # Vma!NULL /\ v \in Link /\ Vma!NULL \in Link /\ t.head = v /\ t.node = s.node
      /\ t.node[v].prev = Vma!NULL /\ t.node[v].next = Vma!NULL
  BY DEF Separate, Link, Vma!Node, Vma!NULL, SpaceType
<1>2. under2 \in [Link -> SUBSET {v}] /\ under2[Vma!NULL] = {} /\ under2[v] = {v}
  BY <1>1
<1> HIDE DEF under2
<1>3. QED
  BY <1>1, <1>2 DEF Shaped

(* Inserting a node keeps the tree.                                        *)
HasTree(s, N) == \E under : Tree(s, N, under)

LEMMA InsertTree ==
  ASSUME NEW s, NEW N, HasTree(s, N), NEW v, Separate(s, N, v)
  PROVE  HasTree(Vma!insert_vma(s, v), N \cup {v}) /\ Relinked(s, Vma!insert_vma(s, v), N)
<1> DEFINE t == Vma!insert_vma(s, v)
<1>1. PICK under : Tree(s, N, under)
  BY DEF HasTree
<1>2. s \in SpaceType /\ N \subseteq Vma!Node /\ v \in Vma!Node \ N /\ Vma!NULL \notin Vma!Node /\ Vma!VmaTreeAssumption
  BY <1>1 DEF Tree, Shaped, Separate, Vma!Node, Vma!NULL
<1>3. /\ Relinked(s, t, N) /\ t \in SpaceType /\ \E under2 : Shaped(t, N \cup {v}, under2)
  <2>1. CASE N = {}
    <3>1. s.head = Vma!NULL
      BY <1>1, <2>1, SMTT(30) DEF Tree, Shaped
    <3>2. t = [s EXCEPT !.head = v]
      BY <3>1 DEF Vma!insert_vma
    <3>3. t \in SpaceType /\ t.node = s.node /\ t.free = s.free /\ t.cache = s.cache
      BY <1>2, <3>2 DEF SpaceType, Link
    <3> HIDE DEF t
    <3>4. \E under2 : Shaped(t, {v}, under2)
      BY <1>2, <2>1, <3>2, HeadShaped
    <3>5. QED
      BY <2>1, <3>3, <3>4 DEF Relinked, SameArea
  <2>2. CASE N # {}
    <3>1. PICK w \in N : Place(s, N, under, s.node[v].base, w) /\ Hung(s, t, w, v)
      BY <1>1, <1>2, <2>2, PlaceIs
    <3> HIDE DEF t
    <3>2. t \in SpaceType /\ Relinked(s, t, {w})
      BY <1>2, <3>1, HungIs
    <3>3. \E under2 : Shaped(t, N \cup {v}, under2)
      BY <1>1, <3>1, HungShaped
    <3>4. QED
      BY <3>2, <3>3 DEF Relinked
  <2>3. QED
    BY <2>1, <2>2
<1> HIDE DEF t
<1>4. Sized(t, N \cup {v})
  <2>1. \A u \in Vma!Node : t.node[u].base = s.node[u].base /\ t.node[u].size = s.node[u].size /\ End(t, u) = End(s, u)
    BY <1>3 DEF Relinked, SameArea, End
  <2>2. Sized(s, N)
    BY <1>1 DEF Tree
  <2>3. QED
    BY <1>2, <2>1, <2>2 DEF Sized, Separate
<1>5. QED
  BY <1>2, <1>3, <1>4 DEF HasTree, Tree, t

(* The leftmost node of the right subtree comes next.                      *)
LEMMA SuccessorIs ==
  ASSUME NEW s, NEW N, NEW under, Tree(s, N, under), NEW v \in N, s.node[v].next \in N
  PROVE  /\ Vma!Successor(s, v) \in under[s.node[v].next] /\ s.node[Vma!Successor(s, v)].prev = Vma!NULL
         /\ \A y \in under[s.node[v].next] : y # Vma!Successor(s, v) => End(s, Vma!Successor(s, v)) <= s.node[y].base
<1> DEFINE r == s.node[v].next
           left == [u \in Vma!Node |-> IF s.node[u].prev = Vma!NULL THEN u ELSE s.node[u].prev]
           S == {s.node[y].base : y \in under[r]}
           way == Vma!Way(r, left)
           x == way[Nodes]
<1>1. /\ r \in N /\ r \in under[r] /\ under[r] \subseteq N /\ N \subseteq Vma!Node /\ Vma!NULL \notin Vma!Node /\ Nodes \in Nat
      /\ \A y \in N : s.node[y].base \in Nat /\ End(s, y) \in Nat /\ s.node[y].base < End(s, y)
  <2>1. N \subseteq Vma!Node
    BY DEF Tree, Shaped
  <2>2. \A y \in N : s.node[y].base \in Nat /\ End(s, y) \in Nat /\ s.node[y].base < End(s, y)
    BY <2>1, TreeTypes DEF Tree, Sized, End
  <2>3. QED
    BY <2>1, <2>2, Under, TreeTypes DEF Tree
<1>2. Vma!Successor(s, v) = x
  BY DEF Vma!Successor
<1>3. PICK m \in under[r] : \A y \in under[r] : s.node[m].base <= s.node[y].base
  <2>1. S \in SUBSET Nat /\ S # {}
    BY <1>1
  <2>2. PICK b \in S : \A c \in S : b <= c
    <3> HIDE DEF S
    <3>1. QED
      BY <2>1, Least
  <2>3. QED
    BY <2>2
<1>4. \A u \in N : left[u] = IF s.node[u].prev = Vma!NULL THEN u ELSE s.node[u].prev
  BY <1>1
<1>5. Descends(s, under[r], under, left, {m})
  <2>1. ASSUME NEW u \in under[r]
        PROVE  /\ left[u] # Vma!NULL /\ left[u] \in {u, s.node[u].prev, s.node[u].next}
               /\ {m} \subseteq under[u] => {m} \subseteq under[left[u]]
    <3>1. u \in N /\ u # Vma!NULL
      BY <1>1, <2>1
    <3>2. CASE s.node[u].prev = Vma!NULL
      BY <1>4, <3>1, <3>2
    <3>3. CASE s.node[u].prev # Vma!NULL
      <4> DEFINE l == s.node[u].prev
      <4>1. l \in N /\ left[u] = l /\ l \in under[l] /\ under[u] \subseteq under[r] /\ under[l] \subseteq under[u]
        <5>1. l \in N /\ left[u] = l
          BY <1>4, <3>1, <3>3 DEF Tree, Shaped
        <5>2. under[u] \subseteq under[r]
          BY <1>1, <2>1 DEF Tree, Shaped
        <5>3. QED
          BY <3>1, <5>1, <5>2, Under
      <4>2. End(s, l) <= s.node[u].base /\ \A y \in under[s.node[u].next] : End(s, u) <= s.node[y].base
        BY <3>1, <4>1 DEF Tree, Shaped
      <4>3. s.node[m].base <= s.node[l].base
        BY <1>3, <4>1
      <4>4. m # u /\ m \notin under[s.node[u].next]
        BY <1>1, <1>3, <3>1, <4>1, <4>2, <4>3
      <4>5. m \in under[u] => m \in under[l]
        BY <3>1, <4>4, Under
      <4>6. QED
        BY <3>3, <4>1, <4>5
    <3>4. QED
      BY <3>2, <3>3
  <2> HIDE DEF left
  <2>2. QED
    BY <1>1, <2>1 DEF Descends
<1>6. /\ x \in under[r] \cup {Vma!NULL} /\ m \in under[x] /\ left[x] = x
  <2> HIDE DEF left
  <2>1. Arrives(under[r], under, way, left, {m})
    BY <1>1, <1>3, <1>5, Descent
  <2>2. Nodes \in 0 .. Nodes
    BY <1>1
  <2>3. QED
    BY <2>1, <2>2 DEF Arrives
<1> HIDE DEF x
<1>7. x \in under[r] /\ x \in N /\ s.node[x].prev = Vma!NULL
  <2>1. x \in N
    BY <1>1, <1>6 DEF Tree, Shaped
  <2>2. s.node[x].prev # x
    BY <2>1, Under
  <2>3. QED
    BY <1>1, <1>4, <1>6, <2>1, <2>2
<1>8. m = x
  <2>1. m \in under[s.node[x].next] => End(s, x) <= s.node[m].base
    BY <1>7 DEF Tree, Shaped
  <2>2. s.node[m].base <= s.node[x].base
    BY <1>3, <1>7
  <2>3. m \notin under[s.node[x].next]
    BY <1>1, <1>3, <1>7, <2>1, <2>2
  <2>4. m \notin under[s.node[x].prev]
    BY <1>7 DEF Tree, Shaped
  <2>5. QED
    BY <1>6, <1>7, <2>3, <2>4, Under
<1>9. ASSUME NEW y \in under[r], y # x PROVE End(s, x) <= s.node[y].base
  <2>1. s.node[x].base <= s.node[y].base
    BY <1>3, <1>8
  <2>2. End(s, x) <= s.node[y].base \/ End(s, y) <= s.node[x].base
    BY <1>1, <1>7, <1>9 DEF Tree, Sized
  <2>3. QED
    BY <1>1, <1>7, <2>1, <2>2
<1>10. QED
  BY <1>2, <1>7, <1>9

(* The child of a node that has one takes its place.                       *)
OneChild(s, v, c) == {s.node[v].prev, s.node[v].next} = {c, Vma!NULL}
Swapped(x, v, c) == IF x = v THEN c ELSE x
Spliced(s, t, N, v, c) ==
  /\ t.head = Swapped(s.head, v, c)
  /\ \A u \in N \ {v} : /\ t.node[u].prev = Swapped(s.node[u].prev, v, c) /\ t.node[u].next = Swapped(s.node[u].next, v, c)
                        /\ SameArea(s, t, u)

(* What is left is a search tree.                                          *)
LEMMA SplicedShaped ==
  ASSUME NEW s, NEW N, NEW under, Tree(s, N, under), NEW v \in N, NEW c, OneChild(s, v, c), NEW t, Spliced(s, t, N, v, c)
  PROVE  Shaped(t, N \ {v}, [u \in Link |-> under[u] \ {v}])
<1> DEFINE N2 == N \ {v}
           under2 == [u \in Link |-> under[u] \ {v}]
<1>1. /\ N \subseteq Vma!Node /\ Vma!NULL \notin Vma!Node /\ v # Vma!NULL /\ Vma!Node \subseteq Link /\ Vma!NULL \in Link
      /\ under \in [Link -> SUBSET N] /\ under[Vma!NULL] = {} /\ under[s.head] = N /\ s.head \in N \cup {Vma!NULL}
  BY DEF Tree, Shaped, Vma!Node, Vma!NULL, Link
<1>2. /\ c \in N \cup {Vma!NULL} /\ under[v] = {v} \cup under[c] /\ v \notin under[c] /\ c # v
  <2>1. c \in {s.node[v].prev, s.node[v].next}
    BY DEF OneChild
  <2>2. c \in N \cup {Vma!NULL}
    BY <2>1 DEF Tree, Shaped
  <2>3. v \notin under[c] /\ v \in under[v]
    BY <2>1, Under
  <2>4. under[v] = {v} \cup under[s.node[v].prev] \cup under[s.node[v].next]
    BY DEF Tree, Shaped
  <2>5. QED
    BY <1>1, <2>2, <2>3, <2>4 DEF OneChild
<1>3. under2 \in [Link -> SUBSET N2] /\ \A u \in Link : under2[u] = under[u] \ {v}
  BY <1>1
<1> HIDE DEF under2
<1>4. \A x \in N \cup {Vma!NULL} : Swapped(x, v, c) \in N2 \cup {Vma!NULL} /\ under2[Swapped(x, v, c)] = under[x] \ {v}
  BY <1>1, <1>2, <1>3 DEF Swapped
<1>5. \A u \in N2 : t.node[u].base = s.node[u].base /\ End(t, u) = End(s, u)
  BY DEF Spliced, SameArea, End
<1>6. ASSUME NEW u \in N2
      PROVE  /\ t.node[u].prev \in N2 \cup {Vma!NULL} /\ t.node[u].next \in N2 \cup {Vma!NULL}
             /\ under2[u] = {u} \cup under2[t.node[u].prev] \cup under2[t.node[u].next]
             /\ \A x \in under2[t.node[u].prev] : End(t, x) <= t.node[u].base
             /\ \A x \in under2[t.node[u].next] : End(t, u) <= t.node[x].base
  <2> DEFINE l == s.node[u].prev
             r == s.node[u].next
  <2>1. /\ l \in N \cup {Vma!NULL} /\ r \in N \cup {Vma!NULL} /\ u \in Link /\ l \in Link /\ r \in Link
        /\ under[u] = {u} \cup under[l] \cup under[r]
        /\ \A x \in under[l] : End(s, x) <= s.node[u].base
        /\ \A x \in under[r] : End(s, u) <= s.node[x].base
    BY <1>1 DEF Tree, Shaped
  <2>2. t.node[u].prev = Swapped(l, v, c) /\ t.node[u].next = Swapped(r, v, c)
    BY DEF Spliced
  <2> HIDE DEF l, r
  <2>3. under2[t.node[u].prev] = under[l] \ {v} /\ under2[t.node[u].next] = under[r] \ {v}
    BY <1>4, <2>1, <2>2
  <2>4. under2[u] = {u} \cup (under[l] \ {v}) \cup (under[r] \ {v})
    BY <1>3, <2>1
  <2>5. under[l] \subseteq N /\ under[r] \subseteq N
    BY <1>1, <2>1
  <2>6. QED
    BY <1>4, <1>5, <2>1, <2>2, <2>3, <2>4, <2>5
<1>7. \A u \in N2 : \A x \in under2[u] : under2[x] \subseteq under2[u]
  <2>1. ASSUME NEW u \in N2, NEW x \in under2[u] PROVE under2[x] \subseteq under2[u]
    <3>1. x \in under[u] /\ u \in N /\ u \in Link /\ x \in N /\ x \in Link
      BY <1>1, <1>3, <2>1
    <3>2. under[x] \subseteq under[u]
      BY <3>1 DEF Tree, Shaped
    <3>3. QED
      BY <1>3, <3>1, <3>2
  <2>2. QED
    BY <2>1
<1>8. \A u, x \in N2 : under2[u] \cap under2[x] = {} \/ u \in under2[x] \/ x \in under2[u]
  <2>1. ASSUME NEW u \in N2, NEW x \in N2 PROVE under2[u] \cap under2[x] = {} \/ u \in under2[x] \/ x \in under2[u]
    <3>1. u \in N /\ u \in Link /\ x \in N /\ x \in Link /\ u # v /\ x # v
      BY <1>1
    <3>2. under[u] \cap under[x] = {} \/ u \in under[x] \/ x \in under[u]
      BY <3>1 DEF Tree, Shaped
    <3>3. QED
      BY <1>3, <3>1, <3>2
  <2>2. QED
    BY <2>1
<1>9. N2 \in SUBSET Vma!Node /\ t.head \in N2 \cup {Vma!NULL} /\ under2[t.head] = N2 /\ under2[Vma!NULL] = {}
  BY <1>1, <1>3, <1>4 DEF Spliced
<1>10. Shaped(t, N2, under2)
  BY <1>3, <1>6, <1>7, <1>8, <1>9 DEF Shaped
<1>11. QED
  BY <1>10 DEF under2

(* What Relink changes.                                                    *)
LEMMA RelinkIs ==
  ASSUME NEW s \in SpaceType, NEW u \in Vma!Node, NEW v, NEW c \in Link
  PROVE  LET t == Vma!Relink(s, u, v, c)
         IN  /\ t \in SpaceType /\ t.head = s.head /\ Relinked(s, t, {u})
             /\ t.node[u].prev = Swapped(s.node[u].prev, v, c) /\ t.node[u].next = Swapped(s.node[u].next, v, c)
<1> DEFINE t == Vma!Relink(s, u, v, c)
           y == [s.node[u] EXCEPT !.prev = Swapped(@, v, c), !.next = Swapped(@, v, c)]
<1>1. s.node \in [Vma!Node -> NodeType] /\ s.node[u] \in NodeType
  BY DEF SpaceType
<1>2. t = [s EXCEPT !.node = [s.node EXCEPT ![u] = y]]
  <2>1. s.node[u].next = [s.node[u] EXCEPT !.prev = Swapped(@, v, c)].next
    BY <1>1 DEF NodeType
  <2>2. t = [s EXCEPT !.node[u].prev = Swapped(@, v, c), !.node[u].next = Swapped(@, v, c)]
    BY DEF Vma!Relink, Swapped
  <2>3. s = [node |-> s.node, head |-> s.head, cache |-> s.cache, free |-> s.free]
    BY DEF SpaceType
  <2> HIDE DEF t
  <2>4. QED
    BY <1>1, <2>1, <2>2, <2>3
<1>3. /\ y \in NodeType /\ y.base = s.node[u].base /\ y.size = s.node[u].size /\ y.flags = s.node[u].flags
      /\ y.prev = Swapped(s.node[u].prev, v, c) /\ y.next = Swapped(s.node[u].next, v, c)
  BY <1>1 DEF NodeType, Link, Swapped
<1> HIDE DEF y, t
<1>4. /\ t.node = [s.node EXCEPT ![u] = y] /\ t.head = s.head /\ t.cache = s.cache /\ t.free = s.free
      /\ t \in SpaceType
  <2>1. [s.node EXCEPT ![u] = y] \in [Vma!Node -> NodeType]
    BY <1>1, <1>3
  <2>2. QED
    BY <1>1, <1>2, <2>1 DEF SpaceType
<1>5. t.node[u] = y /\ \A w \in Vma!Node : w # u => t.node[w] = s.node[w]
  BY <1>1, <1>4
<1>6. Relinked(s, t, {u})
  BY <1>3, <1>4, <1>5 DEF Relinked, SameArea
<1>7. QED
  BY <1>3, <1>4, <1>5, <1>6 DEF t

(* Relinking the parent is all it takes, since no other node leads to v.   *)
LEMMA SplicedIs ==
  ASSUME NEW s, NEW N, NEW under, Tree(s, N, under), Loose(s, N), NEW v \in N, v # s.head, NEW c, OneChild(s, v, c),
         NEW t, t = Vma!Relink(s, Vma!Parent(s, v), v, c)
  PROVE  t \in SpaceType /\ Spliced(s, t, N, v, c) /\ Relinked(s, t, N \ {v})
<1> DEFINE u == Vma!Parent(s, v)
<1>1. u \in N /\ v \in {s.node[u].prev, s.node[u].next}
  BY ParentIs
<1>2. u # v /\ \A w \in N : v \in {s.node[w].prev, s.node[w].next} => w = u
  BY <1>1, OneParent
<1>3. s \in SpaceType /\ N \subseteq Vma!Node /\ c \in Link
  <2>1. c \in {s.node[v].prev, s.node[v].next}
    BY DEF OneChild
  <2>2. QED
    BY <2>1 DEF Tree, Shaped, Link
<1> HIDE DEF u
<1>4. /\ t \in SpaceType /\ t.head = s.head /\ Relinked(s, t, {u})
      /\ t.node[u].prev = Swapped(s.node[u].prev, v, c) /\ t.node[u].next = Swapped(s.node[u].next, v, c)
  <2>1. t = Vma!Relink(s, u, v, c) /\ u \in Vma!Node
    BY <1>1, <1>3 DEF u
  <2>2. QED
    <3>1. /\ Vma!Relink(s, u, v, c) \in SpaceType /\ Vma!Relink(s, u, v, c).head = s.head
          /\ Relinked(s, Vma!Relink(s, u, v, c), {u})
          /\ Vma!Relink(s, u, v, c).node[u].prev = Swapped(s.node[u].prev, v, c)
          /\ Vma!Relink(s, u, v, c).node[u].next = Swapped(s.node[u].next, v, c)
      <4>1. s \in SpaceType /\ u \in Vma!Node /\ c \in Link
        BY <1>3, <2>1
      <4>2. QED
        BY <4>1, RelinkIs
    <3>2. QED
      BY <2>1, <3>1
<1>5. ASSUME NEW w \in N \ {v}
      PROVE  /\ t.node[w].prev = Swapped(s.node[w].prev, v, c) /\ t.node[w].next = Swapped(s.node[w].next, v, c)
             /\ SameArea(s, t, w)
  <2>1. SameArea(s, t, w)
    BY <1>3, <1>4 DEF Relinked
  <2>2. CASE w = u
    BY <1>4, <2>1, <2>2
  <2>3. CASE w # u
    <3>1. t.node[w] = s.node[w] /\ s.node[w].prev # v /\ s.node[w].next # v
      BY <1>2, <1>3, <1>4, <2>3 DEF Relinked
    <3>2. QED
      BY <2>1, <3>1 DEF Swapped
  <2>4. QED
    BY <2>2, <2>3
<1>6. t.head = Swapped(s.head, v, c)
  BY <1>4 DEF Swapped
<1>7. QED
  BY <1>1, <1>2, <1>3, <1>4, <1>5, <1>6 DEF Spliced, Relinked

(* What is left once the area of v is gone, and the node x with it.        *)
AreaOf(s, v) == <<s.node[v].base, s.node[v].size, s.node[v].flags>>
Removed(s, t, N, v, x) ==
  /\ t.free = s.free \cup {x} /\ t.cache = Vma!NULL
  /\ \A u \in Vma!Node \ N : t.node[u] = s.node[u]
  /\ \A u \in N \ {x} : AreaOf(t, u) = IF u = v THEN AreaOf(s, x) ELSE AreaOf(s, u)

(* What vma_free changes.                                                  *)
LEMMA DroppedIs ==
  ASSUME NEW s \in SpaceType, NEW v \in Vma!Node
  PROVE  LET t == Vma!Dropped(s, v)
         IN  t \in SpaceType /\ t.node = s.node /\ t.head = s.head /\ t.cache = Vma!NULL /\ t.free = s.free \cup {v}
BY DEF Vma!Dropped, SpaceType, Link

(* A node with at most one child is taken out of the tree.                 *)
LEMMA EndRemoved ==
  ASSUME NEW s, NEW N, NEW under, Tree(s, N, under), NEW v \in N, NEW c, OneChild(s, v, c),
         NEW t \in SpaceType, Spliced(s, t, N, v, c), \A u \in Vma!Node \ N : t.node[u] = s.node[u], t.free = s.free
  PROVE  HasTree(Vma!Dropped(t, v), N \ {v}) /\ Removed(s, Vma!Dropped(t, v), N, v, v)
<1> DEFINE d == Vma!Dropped(t, v)
<1>1. N \subseteq Vma!Node /\ v \in Vma!Node
  BY DEF Tree, Shaped
<1>2. d \in SpaceType /\ d.node = t.node /\ d.head = t.head /\ d.cache = Vma!NULL /\ d.free = t.free \cup {v}
  BY <1>1, DroppedIs
<1> HIDE DEF d
<1>3. Spliced(s, d, N, v, c)
  BY <1>2 DEF Spliced, SameArea
<1> DEFINE under2 == [u \in Link |-> under[u] \ {v}]
<1>4. Shaped(d, N \ {v}, under2)
  BY <1>3, SplicedShaped
<1>5. Sized(d, N \ {v})
  <2>1. \A u \in N \ {v} : d.node[u].base = s.node[u].base /\ d.node[u].size = s.node[u].size /\ End(d, u) = End(s, u)
    BY <1>3 DEF Spliced, SameArea, End
  <2>2. Sized(s, N)
    BY DEF Tree
  <2>3. QED
    BY <2>1, <2>2 DEF Sized
<1>6. Removed(s, d, N, v, v)
  BY <1>2, <1>3 DEF Removed, Spliced, SameArea, AreaOf
<1>7. HasTree(d, N \ {v})
  <2> HIDE DEF under2
  <2>1. QED
    BY <1>2, <1>4, <1>5 DEF HasTree, Tree
<1>8. QED
  BY <1>6, <1>7 DEF d

(* An area may change in place as long as it stays between its neighbours. *)
AreaOnly(s, t, v) ==
  /\ t.head = s.head
  /\ \A u \in Vma!Node \ {v} : t.node[u] = s.node[u]
  /\ t.node[v].prev = s.node[v].prev /\ t.node[v].next = s.node[v].next
Between(s, N, under, v, t) ==
  /\ \A x \in N \ {v} : /\ v \in under[s.node[x].prev] => End(t, v) <= s.node[x].base
                        /\ v \in under[s.node[x].next] => End(s, x) <= t.node[v].base
  /\ \A x \in under[s.node[v].prev] : End(s, x) <= t.node[v].base
  /\ \A x \in under[s.node[v].next] : End(t, v) <= s.node[x].base

(* The tree keeps its shape.                                               *)
LEMMA BetweenShaped ==
  ASSUME NEW s, NEW N, NEW under, Tree(s, N, under), NEW v \in N, NEW t, AreaOnly(s, t, v), Between(s, N, under, v, t)
  PROVE  Shaped(t, N, under)
<1>1. N \subseteq Vma!Node /\ under \in [Link -> SUBSET N]
  BY DEF Tree, Shaped
<1>2. \A u \in N \ {v} : t.node[u] = s.node[u] /\ End(t, u) = End(s, u)
  BY <1>1 DEF AreaOnly, End
<1>3. \A u \in N : t.node[u].prev = s.node[u].prev /\ t.node[u].next = s.node[u].next
  BY <1>2 DEF AreaOnly
<1>4. ASSUME NEW u \in N
      PROVE  /\ t.node[u].prev \in N \cup {Vma!NULL} /\ t.node[u].next \in N \cup {Vma!NULL}
             /\ under[u] = {u} \cup under[t.node[u].prev] \cup under[t.node[u].next]
             /\ \A x \in under[t.node[u].prev] : End(t, x) <= t.node[u].base
             /\ \A x \in under[t.node[u].next] : End(t, u) <= t.node[x].base
  <2> DEFINE l == s.node[u].prev
             r == s.node[u].next
  <2>1. /\ l \in N \cup {Vma!NULL} /\ r \in N \cup {Vma!NULL} /\ under[u] = {u} \cup under[l] \cup under[r]
        /\ \A x \in under[l] : End(s, x) <= s.node[u].base
        /\ \A x \in under[r] : End(s, u) <= s.node[x].base
    BY DEF Tree, Shaped
  <2>2. under[l] \subseteq N /\ under[r] \subseteq N /\ u \notin under[l] /\ u \notin under[r]
    <3>1. under[u] \subseteq N
      BY Under
    <3>2. QED
      BY <3>1, <2>1, Under
  <2>3. CASE u = v
    BY <1>2, <1>3, <2>1, <2>2, <2>3 DEF Between
  <2>4. CASE u # v
    <3>1. \A x \in under[l] : End(t, x) <= t.node[u].base
      BY <1>2, <2>1, <2>2, <2>4 DEF Between
    <3>2. \A x \in under[r] : End(t, u) <= t.node[x].base
      BY <1>2, <2>1, <2>2, <2>4 DEF Between
    <3> HIDE DEF l, r
    <3>3. t.node[u].prev = l /\ t.node[u].next = r
      BY <1>3 DEF l, r
    <3>4. QED
      BY <2>1, <3>1, <3>2, <3>3
  <2>5. QED
    BY <2>3, <2>4
<1>5. QED
  BY <1>4 DEF Tree, Shaped, AreaOnly

(* A node with two children takes over the next area.                      *)
LEMMA TwoRemoved ==
  ASSUME NEW s, NEW N, NEW under, Tree(s, N, under), Loose(s, N), NEW v \in N,
         s.node[v].prev # Vma!NULL, s.node[v].next # Vma!NULL
  PROVE  \E x \in N : HasTree(Vma!Unlinked(s, v), N \ {x}) /\ Removed(s, Vma!Unlinked(s, v), N, v, x)
<1> DEFINE u == Vma!Successor(s, v)
           c == s.node[u].next
           t == Vma!Relink(s, Vma!Parent(s, u), u, c)
           a == [t EXCEPT !.node[v].base = s.node[u].base, !.node[v].size = s.node[u].size, !.node[v].flags = s.node[u].flags]
           d == Vma!Unlinked(s, v)
           under2 == [w \in Link |-> under[w] \ {u}]
           N2 == N \ {u}
<1>1. s \in SpaceType /\ N \subseteq Vma!Node /\ Vma!Node \subseteq Link /\ s.node[v].next \in N /\ Vma!VmaTreeAssumption
      /\ under \in [Link -> SUBSET N]
  BY DEF Tree, Shaped, Link
<1>2. /\ u \in under[s.node[v].next] /\ s.node[u].prev = Vma!NULL
      /\ \A y \in under[s.node[v].next] : y # u => End(s, u) <= s.node[y].base
  BY <1>1, SuccessorIs
<1>3. d = Vma!Dropped(a, u)
  BY DEF Vma!Unlinked
<1> HIDE DEF u
<1>4. u \in N /\ u \in under[v] /\ u # v /\ v \in under[v]
  <2>1. under[s.node[v].next] \subseteq N
    BY <1>1 DEF Tree, Shaped
  <2>2. QED
    BY <1>2, <2>1, Under
<1>5. u # s.head
  <2>1. ASSUME u = s.head PROVE FALSE
    <3>1. v \in under[u]
      BY <2>1 DEF Tree, Shaped
    <3>2. QED
      BY <1>4, <3>1, Antisymmetric
  <2>2. QED
    BY <2>1
<1>6. OneChild(s, u, c)
  BY <1>2 DEF OneChild
<1>7. t \in SpaceType /\ Spliced(s, t, N, u, c) /\ Relinked(s, t, N2)
  <2> HIDE DEF c
  <2>1. QED
    BY <1>4, <1>5, <1>6, SplicedIs
<1> HIDE DEF t, c, d
<1>8. Shaped(t, N2, under2)
  BY <1>4, <1>6, <1>7, SplicedShaped
<1>9. \A w \in Vma!Node : SameArea(s, t, w) /\ End(t, w) = End(s, w)
  BY <1>7 DEF Relinked, SameArea, End
<1>10. Sized(t, N2)
  <2>1. \A w \in N2 : t.node[w].base = s.node[w].base /\ t.node[w].size = s.node[w].size /\ End(t, w) = End(s, w)
    BY <1>1, <1>9 DEF SameArea
  <2>2. Sized(s, N)
    BY DEF Tree
  <2>3. QED
    BY <2>1, <2>2 DEF Sized
<1> HIDE DEF under2
<1>11. Tree(t, N2, under2)
  BY <1>1, <1>7, <1>8, <1>10 DEF Tree
<1>12. /\ a \in SpaceType /\ a.head = t.head /\ a.free = t.free /\ a.cache = t.cache
       /\ \A w \in Vma!Node \ {v} : a.node[w] = t.node[w]
       /\ a.node[v].prev = t.node[v].prev /\ a.node[v].next = t.node[v].next
       /\ a.node[v].base = s.node[u].base /\ a.node[v].size = s.node[u].size /\ a.node[v].flags = s.node[u].flags
  <2> DEFINE y == [t.node[v] EXCEPT !.base = s.node[u].base, !.size = s.node[u].size, !.flags = s.node[u].flags]
  <2>1. s.node[u] \in NodeType /\ t.node[v] \in NodeType /\ t.node \in [Vma!Node -> NodeType] /\ v \in Vma!Node
    BY <1>1, <1>4, <1>7 DEF SpaceType
  <2>2. /\ y \in NodeType /\ y.base = s.node[u].base /\ y.size = s.node[u].size /\ y.flags = s.node[u].flags
        /\ y.prev = t.node[v].prev /\ y.next = t.node[v].next
    BY <2>1 DEF NodeType
  <2>3. a = [t EXCEPT !.node = [t.node EXCEPT ![v] = y]]
    BY <1>7, <2>1 DEF SpaceType
  <2> HIDE DEF y, a
  <2>4. [t.node EXCEPT ![v] = y] \in [Vma!Node -> NodeType]
    BY <2>1, <2>2
  <2>5. a.node = [t.node EXCEPT ![v] = y] /\ a.head = t.head /\ a.free = t.free /\ a.cache = t.cache /\ a \in SpaceType
    BY <1>7, <2>3, <2>4 DEF SpaceType
  <2>6. a.node[v] = y /\ \A w \in Vma!Node \ {v} : a.node[w] = t.node[w]
    BY <2>1, <2>5
  <2>7. QED
    BY <2>2, <2>5, <2>6
<1> HIDE DEF a
<1>13. a.node[v].base = s.node[u].base /\ End(a, v) = End(s, u) /\ v \in N2
  BY <1>4, <1>12 DEF End
<1>14. Between(t, N2, under2, v, a)
  <2>1. \A w \in Link : under2[w] = under[w] \ {u}
    BY DEF under2
  <2>2. \A w \in N2 : \A x \in {t.node[w].prev, t.node[w].next} : x \in Link
    BY <1>1, <1>7 DEF SpaceType, NodeType
  <2>3. \A w \in N2 : under2[t.node[w].prev] = under[s.node[w].prev] \ {u} /\ under2[t.node[w].next] = under[s.node[w].next] \ {u}
    <3>1. ASSUME NEW x \in N \cup {Vma!NULL} PROVE under2[Swapped(x, u, c)] = under[x] \ {u}
      <4>1. c \in N \cup {Vma!NULL} /\ under[u] = {u} \cup under[c] /\ x \in Link /\ c \in Link
        <5>1. c \in {s.node[u].prev, s.node[u].next}
          BY DEF c
        <5>2. c \in N \cup {Vma!NULL} /\ x \in Link /\ c \in Link
          BY <1>1, <1>4, <5>1 DEF Tree, Shaped, Link
        <5>3. under[u] = {u} \cup under[s.node[u].prev] \cup under[s.node[u].next] /\ under[Vma!NULL] = {}
          BY <1>4 DEF Tree, Shaped
        <5>4. QED
          BY <1>2, <5>2, <5>3 DEF c
      <4>2. u \notin under[c]
        BY <1>4, Under DEF c
      <4>3. QED
        BY <2>1, <4>1, <4>2 DEF Swapped
    <3>2. \A w \in N : s.node[w].prev \in N \cup {Vma!NULL} /\ s.node[w].next \in N \cup {Vma!NULL}
      BY DEF Tree, Shaped
    <3>3. QED
      BY <1>7, <3>1, <3>2 DEF Spliced
  <2>4. \A w \in N2 : t.node[w].base = s.node[w].base /\ End(t, w) = End(s, w)
    BY <1>1, <1>9 DEF SameArea
  <2>5. ASSUME NEW x \in N2 \ {v}, NEW y \in {s.node[x].prev, s.node[x].next}, v \in under[y] PROVE u \in under[y]
    <3>1. y \in N
      BY <2>5 DEF Tree, Shaped
    <3>2. QED
      BY <1>4, <2>5, <3>1 DEF Tree, Shaped
  <2>6. \A x \in N : /\ \A w \in under[s.node[x].prev] : End(s, w) <= s.node[x].base
                     /\ \A w \in under[s.node[x].next] : End(s, x) <= s.node[w].base
    BY DEF Tree, Shaped
  <2>7. \A x \in N2 \ {v} : /\ v \in under[s.node[x].prev] => End(s, u) <= s.node[x].base
                            /\ v \in under[s.node[x].next] => End(s, x) <= s.node[u].base
    BY <2>5, <2>6
  <2>8. \A x \in under[s.node[v].prev] : End(s, x) <= s.node[u].base
    <3>1. End(s, v) <= s.node[u].base
      BY <1>2, <2>6
    <3>2. s.node[v].base < End(s, v) /\ s.node[v].base \in Int /\ s.node[u].base \in Int /\ End(s, v) \in Int
      BY <1>1, <1>4, TreeTypes DEF Tree, Sized, End
    <3>3. \A x \in under[s.node[v].prev] : End(s, x) <= s.node[v].base /\ End(s, x) \in Int
      <4>1. under[s.node[v].prev] \subseteq Vma!Node
        BY <1>1 DEF Tree, Shaped
      <4>2. QED
        BY <1>1, <2>6, <4>1, TreeTypes
    <3>4. QED
      BY <3>1, <3>2, <3>3
  <2>9. /\ \A x \in N2 \ {v} : /\ v \in under2[t.node[x].prev] => End(a, v) <= t.node[x].base
                               /\ v \in under2[t.node[x].next] => End(t, x) <= a.node[v].base
    BY <1>4, <1>13, <2>3, <2>4, <2>7
  <2>10. \A x \in under2[t.node[v].prev] : End(t, x) <= a.node[v].base
    <3>1. \A x \in under[s.node[v].prev] \ {u} : x \in N2
      BY <1>1 DEF Tree, Shaped
    <3>2. QED
      BY <1>13, <2>3, <2>4, <2>8, <3>1
  <2>11. \A x \in under2[t.node[v].next] : End(a, v) <= t.node[x].base
    <3>1. \A x \in under[s.node[v].next] \ {u} : x \in N2
      BY <1>1 DEF Tree, Shaped
    <3>2. QED
      BY <1>2, <1>13, <2>3, <2>4, <3>1
  <2>12. QED
    BY <2>9, <2>10, <2>11 DEF Between
<1>15. Shaped(a, N2, under2)
  <2>1. AreaOnly(t, a, v)
    BY <1>12 DEF AreaOnly
  <2>2. QED
    BY <1>11, <1>13, <1>14, <2>1, BetweenShaped
<1>16. d \in SpaceType /\ d.node = a.node /\ d.head = a.head /\ d.cache = Vma!NULL /\ d.free = a.free \cup {u}
  BY <1>1, <1>3, <1>4, <1>12, DroppedIs
<1>17. Removed(s, d, N, v, u)
  <2>1. d.free = s.free \cup {u} /\ \A w \in Vma!Node \ N : d.node[w] = s.node[w]
    BY <1>7, <1>12, <1>16 DEF Relinked
  <2>2. \A w \in N \ {u} : AreaOf(d, w) = IF w = v THEN AreaOf(s, u) ELSE AreaOf(s, w)
    BY <1>1, <1>9, <1>12, <1>16 DEF SameArea, AreaOf
  <2>3. QED
    BY <1>16, <2>1, <2>2 DEF Removed
<1>18. Sized(d, N2)
  <2> DEFINE From(w) == IF w = v THEN u ELSE w
  <2>1. \A w \in N2 : /\ From(w) \in N \ {v} /\ d.node[w].base = s.node[From(w)].base /\ d.node[w].size = s.node[From(w)].size
                      /\ End(d, w) = End(s, From(w))
    <3>1. \A w \in N2 : From(w) \in N \ {v} /\ d.node[w].base = s.node[From(w)].base /\ d.node[w].size = s.node[From(w)].size
      BY <1>1, <1>4, <1>9, <1>12, <1>16 DEF SameArea
    <3>2. QED
      BY <3>1 DEF End
  <2>2. \A w, x \in N2 : w # x => From(w) # From(x)
    OBVIOUS
  <2>3. Sized(s, N)
    BY DEF Tree
  <2> HIDE DEF From
  <2>4. QED
    BY <2>1, <2>2, <2>3 DEF Sized
<1>19. Shaped(d, N2, under2)
  BY <1>15, <1>16 DEF Shaped, End
<1>20. HasTree(d, N2)
  BY <1>1, <1>16, <1>18, <1>19 DEF HasTree, Tree
<1>21. QED
  BY <1>4, <1>17, <1>20 DEF d

(* remove_tree_node leaves a tree without one node and without one area.   *)
LEMMA RemoveTree ==
  ASSUME NEW s, NEW N, HasTree(s, N), Loose(s, N), NEW v \in N
  PROVE  LET t == Vma!remove_tree_node(s, v)
         IN  \E x \in N : HasTree(t, N \ {x}) /\ Removed(s, t, N, v, x) /\ Loose(t, N \ {x})
<1> DEFINE t == Vma!remove_tree_node(s, v)
           c == IF s.node[v].prev # Vma!NULL THEN s.node[v].prev ELSE s.node[v].next
<1>1. PICK under : Tree(s, N, under)
  BY DEF HasTree
<1>2. s \in SpaceType /\ N \subseteq Vma!Node /\ v \in Vma!Node /\ s.head \in N \cup {Vma!NULL} /\ v # Vma!NULL
  BY <1>1 DEF Tree, Shaped, Vma!Node, Vma!NULL
<1>3. \E x \in N : HasTree(t, N \ {x}) /\ Removed(s, t, N, v, x)
  <2>1. CASE s.node[v].prev # Vma!NULL /\ s.node[v].next # Vma!NULL
    <3>1. t = Vma!Unlinked(s, v)
      BY <2>1 DEF Vma!remove_tree_node
    <3>2. QED
      BY <1>1, <2>1, <3>1, TwoRemoved
  <2>2. CASE ~(s.node[v].prev # Vma!NULL /\ s.node[v].next # Vma!NULL)
    <3>1. OneChild(s, v, c) /\ c \in Link
      <4>1. s.node[v].prev \in Link /\ s.node[v].next \in Link
        BY <1>1, <1>2, TreeTypes DEF Tree
      <4>2. QED
        BY <2>2, <4>1 DEF OneChild
    <3>2. CASE v = s.head
      <4> DEFINE h == [s EXCEPT !.head = c]
      <4>1. t = Vma!Dropped(h, v)
        BY <2>2, <3>2 DEF Vma!remove_tree_node
      <4> HIDE DEF c
      <4>2. h \in SpaceType /\ h.node = s.node /\ h.free = s.free /\ h.head = c
        BY <1>2, <3>1 DEF SpaceType
      <4> HIDE DEF h
      <4>3. Spliced(s, h, N, v, c)
        <5>1. \A u \in N \ {v} : s.node[u].prev # v /\ s.node[u].next # v
          BY <1>1, <3>2, OneParent
        <5>2. QED
          BY <3>2, <4>2, <5>1 DEF Spliced, Swapped, SameArea
      <4>4. HasTree(Vma!Dropped(h, v), N \ {v}) /\ Removed(s, Vma!Dropped(h, v), N, v, v)
        BY <1>1, <3>1, <4>2, <4>3, EndRemoved
      <4>5. QED
        BY <4>1, <4>4
    <3>3. CASE v # s.head
      <4> DEFINE h == Vma!Relink(s, Vma!Parent(s, v), v, c)
      <4>1. t = Vma!Dropped(h, v)
        BY <2>2, <3>3 DEF Vma!remove_tree_node
      <4> HIDE DEF c
      <4>2. h \in SpaceType /\ Spliced(s, h, N, v, c) /\ Relinked(s, h, N \ {v})
        BY <1>1, <3>1, <3>3, SplicedIs
      <4> HIDE DEF h
      <4>3. (\A u \in Vma!Node \ N : h.node[u] = s.node[u]) /\ h.free = s.free
        BY <4>2 DEF Relinked
      <4>4. HasTree(Vma!Dropped(h, v), N \ {v}) /\ Removed(s, Vma!Dropped(h, v), N, v, v)
        BY <1>1, <3>1, <4>2, <4>3, EndRemoved
      <4>5. QED
        BY <4>1, <4>4
    <3>4. QED
      BY <3>2, <3>3
  <2>3. QED
    BY <2>1, <2>2
<1> HIDE DEF t
<1>4. \A x \in N : Removed(s, t, N, v, x) => Loose(t, N \ {x})
  BY DEF Removed, Loose
<1>5. QED
  BY <1>3, <1>4 DEF t

(* The areas of a tree.                                                    *)
Areas(s, N) == {AreaOf(s, v) : v \in N}

(* A node comes to the tree, with the area a.                              *)
Gained(s, t, N, v, a) ==
  /\ HasTree(t, N \cup {v}) /\ Loose(t, N \cup {v}) /\ t.free = s.free \ {v} /\ t.cache = s.cache
  /\ \A u \in Vma!Node \ (N \cup {v}) : t.node[u] = s.node[u]
  /\ Areas(t, N \cup {v}) = Areas(s, N) \cup {a}

(* insert_vma adds the node, and the area it has.                          *)
LEMMA InsertAreas ==
  ASSUME NEW s, NEW N, HasTree(s, N), Loose(s, N), NEW v, Separate(s, N, v), v \notin s.free
  PROVE  Gained(s, Vma!insert_vma(s, v), N, v, AreaOf(s, v))
<1> DEFINE t == Vma!insert_vma(s, v)
<1>1. HasTree(t, N \cup {v}) /\ Relinked(s, t, N)
  BY InsertTree
<1>2. N \subseteq Vma!Node /\ v \in Vma!Node
  BY DEF HasTree, Tree, Shaped, Separate
<1> HIDE DEF t
<1>3. \A u \in Vma!Node : AreaOf(t, u) = AreaOf(s, u)
  BY <1>1 DEF Relinked, SameArea, AreaOf
<1>4. Areas(t, N \cup {v}) = Areas(s, N) \cup {AreaOf(s, v)}
  BY <1>2, <1>3 DEF Areas
<1>5. Loose(t, N \cup {v})
  BY <1>1, <1>2 DEF Relinked, Loose
<1>6. t.free = s.free \ {v} /\ t.cache = s.cache /\ \A u \in Vma!Node \ (N \cup {v}) : t.node[u] = s.node[u]
  BY <1>1 DEF Relinked
<1>7. QED
  BY <1>1, <1>4, <1>5, <1>6 DEF Gained, t

(* A node from the pool.                                                   *)
LEMMA AllocIs ==
  ASSUME NEW s, NEW N, HasTree(s, N), Loose(s, N), s.free # {},
         NEW b \in Vma!Page, NEW z \in 0 .. Top, NEW f \in Flags \cup {"none"}
  PROVE  LET v == Vma!Lowest(s.free)
             t == Vma!vma_alloc(s, b, z, f)
         IN  /\ v \in s.free /\ v \in Vma!Node \ N /\ HasTree(t, N) /\ Loose(t, N) /\ t.free = s.free \ {v} /\ t.cache = s.cache
             /\ AreaOf(t, v) = <<b, z, f>> /\ t.node[v].prev = Vma!NULL /\ t.node[v].next = Vma!NULL
             /\ \A u \in Vma!Node \ {v} : t.node[u] = s.node[u]
<1> DEFINE v == Vma!Lowest(s.free)
           t == Vma!vma_alloc(s, b, z, f)
           y == [Vma!Blank EXCEPT !.base = b, !.size = z, !.flags = f]
<1>1. PICK under : Tree(s, N, under)
  BY DEF HasTree
<1>2. s \in SpaceType /\ Vma!VmaTreeAssumption /\ N \subseteq Vma!Node /\ s.free \in SUBSET Vma!Node /\ s.node \in [Vma!Node -> NodeType]
  BY <1>1 DEF Tree, Shaped, SpaceType
<1>3. v \in s.free
  BY <1>2, LowestNode
<1>4. v \in Vma!Node /\ v \notin N
  BY <1>2, <1>3 DEF Loose
<1>5. /\ y \in NodeType /\ y.base = b /\ y.size = z /\ y.flags = f /\ y.prev = Vma!NULL /\ y.next = Vma!NULL
  BY DEF Vma!Blank, NodeType, Link
<1>6. t = [s EXCEPT !.free = s.free \ {v}, !.node = [s.node EXCEPT ![v] = y]]
  BY <1>2 DEF Vma!vma_alloc, SpaceType
<1> HIDE DEF v, y, t
<1>7. /\ t \in SpaceType /\ t.free = s.free \ {v} /\ t.cache = s.cache /\ t.head = s.head
      /\ t.node = [s.node EXCEPT ![v] = y]
  <2>1. [s.node EXCEPT ![v] = y] \in [Vma!Node -> NodeType]
    BY <1>2, <1>4, <1>5
  <2>2. QED
    BY <1>2, <1>6, <2>1 DEF SpaceType
<1>8. t.node[v] = y /\ \A u \in Vma!Node \ {v} : t.node[u] = s.node[u]
  BY <1>2, <1>4, <1>7
<1>9. \A u \in N : t.node[u] = s.node[u] /\ End(t, u) = End(s, u)
  BY <1>2, <1>4, <1>8 DEF End
<1>10. Shaped(t, N, under)
  <2>1. Shaped(s, N, under) /\ under \in [Link -> SUBSET N]
    BY <1>1 DEF Tree, Shaped
  <2>2. \A u \in N : under[s.node[u].prev] \subseteq N /\ under[s.node[u].next] \subseteq N
    BY <1>1, Under
  <2>3. QED
    BY <1>7, <1>9, <2>1, <2>2 DEF Shaped
<1>11. Sized(t, N)
  BY <1>1, <1>9 DEF Tree, Sized
<1>12. HasTree(t, N)
  BY <1>2, <1>7, <1>10, <1>11 DEF HasTree, Tree
<1>13. Loose(t, N)
  BY <1>2, <1>3, <1>5, <1>7, <1>8 DEF Loose
<1>14. QED
  BY <1>3, <1>4, <1>5, <1>7, <1>8, <1>12, <1>13 DEF AreaOf, v, t

(* A new area in the tree.                                                 *)
Clear(s, N, b, z) == \A u \in N : End(s, u) <= b \/ b + z <= s.node[u].base

LEMMA InsertedIs ==
  ASSUME NEW s, NEW N, HasTree(s, N), Loose(s, N), s.free # {},
         NEW b \in Vma!Page, NEW z \in Nat \ {0}, NEW f \in Flags \cup {"none"}, b + z <= Top, Clear(s, N, b, z)
  PROVE  LET v == Vma!Lowest(s.free)
             t == Vma!Inserted(s, b, z, f)
         IN  v \in s.free /\ v \in Vma!Node \ N /\ Gained(s, t, N, v, <<b, z, f>>)
<1> DEFINE v == Vma!Lowest(s.free)
           r == Vma!vma_alloc(s, b, z, f)
           t == Vma!Inserted(s, b, z, f)
<1>1. z \in 0 .. Top /\ N \subseteq Vma!Node
  BY DEF HasTree, Tree, Shaped, Vma!VmaTreeAssumption, Vma!Page
<1>2. /\ v \in s.free /\ v \in Vma!Node \ N /\ HasTree(r, N) /\ Loose(r, N) /\ r.free = s.free \ {v} /\ r.cache = s.cache
      /\ AreaOf(r, v) = <<b, z, f>> /\ r.node[v].prev = Vma!NULL /\ r.node[v].next = Vma!NULL
      /\ \A u \in Vma!Node \ {v} : r.node[u] = s.node[u]
  BY <1>1, AllocIs
<1>3. t = Vma!insert_vma(r, v)
  BY DEF Vma!Inserted
<1> HIDE DEF v, r, t
<1>4. r.node[v].base = b /\ r.node[v].size = z /\ End(r, v) = b + z
  BY <1>2 DEF AreaOf, End
<1>5. Separate(r, N, v)
  <2>1. \A u \in N : End(r, u) = End(s, u) /\ r.node[u].base = s.node[u].base
    BY <1>1, <1>2 DEF End
  <2>2. QED
    BY <1>2, <1>4, <2>1 DEF Separate, Clear
<1>6. Gained(r, t, N, v, AreaOf(r, v))
  <2>1. v \notin r.free /\ HasTree(r, N) /\ Loose(r, N)
    BY <1>2
  <2>2. QED
    BY <1>3, <1>5, <2>1, InsertAreas
<1>7. Areas(r, N) = Areas(s, N)
  <2>1. \A u \in N : AreaOf(r, u) = AreaOf(s, u)
    BY <1>1, <1>2 DEF AreaOf
  <2>2. QED
    BY <2>1 DEF Areas
<1>8. QED
  <2>1. t.free = s.free \ {v} /\ t.cache = s.cache /\ \A u \in Vma!Node \ (N \cup {v}) : t.node[u] = s.node[u]
    BY <1>2, <1>6 DEF Gained
  <2>2. HasTree(t, N \cup {v}) /\ Loose(t, N \cup {v}) /\ Areas(t, N \cup {v}) = Areas(s, N) \cup {<<b, z, f>>}
    BY <1>2, <1>6, <1>7 DEF Gained
  <2>3. Gained(s, t, N, v, <<b, z, f>>)
    BY <2>1, <2>2 DEF Gained
  <2>4. QED
    BY <1>2, <2>3 DEF v, t

(* An area changed in place.                                               *)
ReArea(s, t, v, b, z, f) ==
  /\ t \in SpaceType /\ AreaOnly(s, t, v) /\ t.free = s.free /\ t.cache = s.cache /\ AreaOf(t, v) = <<b, z, f>>

(* The change leaves the area between its neighbours.                      *)
FitsIn(s, N, v, b, z) ==
  /\ v \in N /\ b \in Nat /\ z \in Nat \ {0} /\ b + z <= Top
  /\ \A u \in N \ {v} : /\ End(s, u) <= s.node[v].base => End(s, u) <= b
                        /\ End(s, v) <= s.node[u].base => b + z <= s.node[u].base

(* Such a change replaces one area.                                        *)
LEMMA ReAreaIs ==
  ASSUME NEW s, NEW N, HasTree(s, N), Loose(s, N), NEW v, NEW t, NEW b, NEW z, NEW f,
         ReArea(s, t, v, b, z, f), FitsIn(s, N, v, b, z)
  PROVE  /\ HasTree(t, N) /\ Loose(t, N)
         /\ Areas(t, N) = {AreaOf(s, u) : u \in N \ {v}} \cup {<<b, z, f>>}
<1>0. /\ v \in N /\ b \in Nat /\ z \in Nat \ {0} /\ b + z <= Top
      /\ \A u \in N \ {v} : /\ End(s, u) <= s.node[v].base => End(s, u) <= b
                            /\ End(s, v) <= s.node[u].base => b + z <= s.node[u].base
  BY DEF FitsIn
<1>1. PICK under : Tree(s, N, under)
  BY DEF HasTree
<1>2. N \subseteq Vma!Node /\ v \in Vma!Node /\ under \in [Link -> SUBSET N]
  BY <1>0, <1>1 DEF Tree, Shaped
<1>3. /\ t \in SpaceType /\ t.free = s.free /\ t.node[v].base = b /\ t.node[v].size = z /\ End(t, v) = b + z
      /\ \A u \in Vma!Node \ {v} : t.node[u] = s.node[u] /\ End(t, u) = End(s, u)
      /\ t.node[v].prev = s.node[v].prev /\ t.node[v].next = s.node[v].next
  BY DEF ReArea, AreaOnly, AreaOf, End
<1>4. Between(s, N, under, v, t)
  <2>1. ASSUME NEW x \in N
        PROVE  /\ \A w \in under[s.node[x].prev] : End(s, w) <= s.node[x].base /\ w \in N /\ w # x
               /\ \A w \in under[s.node[x].next] : End(s, x) <= s.node[w].base /\ w \in N /\ w # x
    <3>1. under[s.node[x].prev] \subseteq N /\ under[s.node[x].next] \subseteq N
      BY <1>1, Under
    <3>2. x \notin under[s.node[x].prev] /\ x \notin under[s.node[x].next]
      BY <1>1, Under
    <3>3. QED
      BY <1>1, <3>1, <3>2 DEF Tree, Shaped
  <2>2. QED
    BY <1>0, <1>3, <2>1 DEF Between
<1>5. Shaped(t, N, under)
  BY <1>0, <1>1, <1>4, BetweenShaped DEF ReArea
<1>6. Sized(t, N)
  <2>1. Sized(s, N)
    BY <1>1 DEF Tree
  <2>2. \A u \in N \ {v} : End(s, u) <= s.node[v].base \/ End(s, v) <= s.node[u].base
    BY <1>0, <2>1 DEF Sized
  <2>3. \A u \in N \ {v} : End(t, u) <= t.node[v].base \/ End(t, v) <= t.node[u].base
    BY <1>0, <1>2, <1>3, <2>2
  <2>4. \A u \in N \ {v}, w \in N \ {v} : u # w => End(t, u) <= t.node[w].base \/ End(t, w) <= t.node[u].base
    BY <1>0, <1>2, <1>3, <2>1 DEF Sized
  <2>5. \A u \in N : t.node[u].size > 0 /\ End(t, u) <= Top
    BY <1>0, <1>2, <1>3, <2>1 DEF Sized
  <2>6. QED
    BY <2>3, <2>4, <2>5 DEF Sized
<1>7. HasTree(t, N)
  BY <1>1, <1>3, <1>5, <1>6 DEF HasTree, Tree
<1>8. Loose(t, N)
  BY <1>2, <1>3 DEF Loose
<1>9. Areas(t, N) = {AreaOf(s, u) : u \in N \ {v}} \cup {<<b, z, f>>}
  <2>1. \A u \in N \ {v} : AreaOf(t, u) = AreaOf(s, u)
    BY <1>2, <1>3 DEF AreaOf
  <2>2. AreaOf(t, v) = <<b, z, f>>
    BY DEF ReArea
  <2>3. QED
    BY <1>0, <2>1, <2>2 DEF Areas
<1>10. QED
  BY <1>7, <1>8, <1>9

(* The forms the calls use.                                                *)
LEMMA TrimmedFrontIs ==
  ASSUME NEW s \in SpaceType, NEW v \in Vma!Node, NEW n, s.node[v].base + n \in Vma!Page, s.node[v].size - n \in 0 .. Top
  PROVE  ReArea(s, Vma!TrimmedFront(s, v, n), v, s.node[v].base + n, s.node[v].size - n, s.node[v].flags)
<1> DEFINE t == Vma!TrimmedFront(s, v, n)
           y == [s.node[v] EXCEPT !.base = @ + n, !.size = @ - n]
<1>1. s.node \in [Vma!Node -> NodeType] /\ s.node[v] \in NodeType
  BY DEF SpaceType
<1>2. t = [s EXCEPT !.node = [s.node EXCEPT ![v] = y]]
  BY <1>1 DEF Vma!TrimmedFront, SpaceType, NodeType
<1>3. /\ y \in NodeType /\ y.base = s.node[v].base + n /\ y.size = s.node[v].size - n /\ y.flags = s.node[v].flags
      /\ y.prev = s.node[v].prev /\ y.next = s.node[v].next
  BY <1>1 DEF NodeType
<1> HIDE DEF y, t
<1>4. [s.node EXCEPT ![v] = y] \in [Vma!Node -> NodeType]
  BY <1>1, <1>3
<1>5. t \in SpaceType /\ t.node = [s.node EXCEPT ![v] = y] /\ t.head = s.head /\ t.cache = s.cache /\ t.free = s.free
  BY <1>2, <1>4 DEF SpaceType
<1>6. t.node[v] = y /\ \A u \in Vma!Node \ {v} : t.node[u] = s.node[u]
  BY <1>1, <1>5
<1>7. QED
  BY <1>3, <1>5, <1>6 DEF ReArea, AreaOnly, AreaOf, t

LEMMA ResizedIs ==
  ASSUME NEW s \in SpaceType, NEW v \in Vma!Node, NEW z \in 0 .. Top
  PROVE  ReArea(s, [s EXCEPT !.node[v].size = z], v, s.node[v].base, z, s.node[v].flags)
<1> DEFINE t == [s EXCEPT !.node[v].size = z]
           y == [s.node[v] EXCEPT !.size = z]
<1>1. s.node \in [Vma!Node -> NodeType] /\ s.node[v] \in NodeType
  BY DEF SpaceType
<1>2. t = [s EXCEPT !.node = [s.node EXCEPT ![v] = y]]
  BY <1>1 DEF SpaceType, NodeType
<1>3. /\ y \in NodeType /\ y.base = s.node[v].base /\ y.size = z /\ y.flags = s.node[v].flags
      /\ y.prev = s.node[v].prev /\ y.next = s.node[v].next
  BY <1>1 DEF NodeType
<1> HIDE DEF y, t
<1>4. [s.node EXCEPT ![v] = y] \in [Vma!Node -> NodeType]
  BY <1>1, <1>3
<1>5. t \in SpaceType /\ t.node = [s.node EXCEPT ![v] = y] /\ t.head = s.head /\ t.cache = s.cache /\ t.free = s.free
  BY <1>2, <1>4 DEF SpaceType
<1>6. t.node[v] = y /\ \A u \in Vma!Node \ {v} : t.node[u] = s.node[u]
  BY <1>1, <1>5
<1>7. QED
  BY <1>3, <1>5, <1>6 DEF ReArea, AreaOnly, AreaOf, t

LEMMA ReflaggedIs ==
  ASSUME NEW s \in SpaceType, NEW v \in Vma!Node, NEW f \in Flags
  PROVE  ReArea(s, [s EXCEPT !.node[v].flags = f], v, s.node[v].base, s.node[v].size, f)
<1> DEFINE t == [s EXCEPT !.node[v].flags = f]
           y == [s.node[v] EXCEPT !.flags = f]
<1>1. s.node \in [Vma!Node -> NodeType] /\ s.node[v] \in NodeType
  BY DEF SpaceType
<1>2. t = [s EXCEPT !.node = [s.node EXCEPT ![v] = y]]
  BY <1>1 DEF SpaceType, NodeType
<1>3. /\ y \in NodeType /\ y.base = s.node[v].base /\ y.size = s.node[v].size /\ y.flags = f
      /\ y.prev = s.node[v].prev /\ y.next = s.node[v].next
  BY <1>1 DEF NodeType
<1> HIDE DEF y, t
<1>4. [s.node EXCEPT ![v] = y] \in [Vma!Node -> NodeType]
  BY <1>1, <1>3
<1>5. t \in SpaceType /\ t.node = [s.node EXCEPT ![v] = y] /\ t.head = s.head /\ t.cache = s.cache /\ t.free = s.free
  BY <1>2, <1>4 DEF SpaceType
<1>6. t.node[v] = y /\ \A u \in Vma!Node \ {v} : t.node[u] = s.node[u]
  BY <1>1, <1>5
<1>7. QED
  BY <1>3, <1>5, <1>6 DEF ReArea, AreaOnly, AreaOf, t

-----------------------------------------------------------------------------
(* Spaces                                                                  *)

(* A space between calls, and the use of a page of it.                     *)
Live(s) == Vma!Node \ s.free
Sound(s) == HasTree(s, Live(s)) /\ Cached(s, Live(s))
UseAt(s, p) == LET v == Vma!find_vma(s, p) IN IF v = Vma!NULL THEN "unused" ELSE s.node[v].flags
HoldsPage(a, p) == p >= a[1] /\ p < a[1] + a[2]

(* What is known of a sound space.                                         *)
LEMMA SoundIs ==
  ASSUME NEW s, Sound(s)
  PROVE  /\ s \in SpaceType /\ Vma!VmaTreeAssumption /\ Loose(s, Live(s)) /\ Live(s) \subseteq Vma!Node /\ Vma!NULL \notin Vma!Node
         /\ s.free \subseteq Vma!Node /\ Top \in Nat /\ s.node \in [Vma!Node -> NodeType]
         /\ \A v \in Live(s) : /\ s.node[v].base \in Vma!Page /\ s.node[v].size \in Nat \ {0} /\ End(s, v) \in Nat /\ End(s, v) <= Top
                               /\ End(s, v) = s.node[v].base + s.node[v].size
                               /\ s.node[v].flags \in Flags \cup {"none"} /\ v \in Vma!Node /\ v # Vma!NULL
         /\ \A u, v \in Live(s) : u # v => End(s, u) <= s.node[v].base \/ End(s, v) <= s.node[u].base
<1>1. PICK under : Tree(s, Live(s), under)
  BY DEF Sound, HasTree
<1>2. /\ s \in SpaceType /\ Vma!VmaTreeAssumption /\ Sized(s, Live(s)) /\ Live(s) \subseteq Vma!Node /\ Vma!NULL \notin Vma!Node /\ Top \in Nat
  BY <1>1, TreeTypes DEF Tree, Live
<1>3. s.free \subseteq Vma!Node /\ s.node \in [Vma!Node -> NodeType] /\ Loose(s, Live(s))
  BY <1>2 DEF SpaceType, Loose, Live
<1>4. ASSUME NEW v \in Live(s)
      PROVE  /\ s.node[v].base \in Vma!Page /\ s.node[v].size \in Nat \ {0} /\ End(s, v) \in Nat /\ End(s, v) <= Top
             /\ End(s, v) = s.node[v].base + s.node[v].size
             /\ s.node[v].flags \in Flags \cup {"none"} /\ v \in Vma!Node /\ v # Vma!NULL
  <2>1. s.node[v] \in NodeType /\ v \in Vma!Node
    BY <1>2, <1>3
  <2>2. s.node[v].size > 0 /\ End(s, v) <= Top
    BY <1>2 DEF Sized
  <2>3. s.node[v].size \in Nat /\ End(s, v) \in Nat
    BY <1>2, <2>1, TreeTypes
  <2>4. QED
    BY <1>2, <2>1, <2>2, <2>3 DEF NodeType, End
<1>5. \A u, v \in Live(s) : u # v => End(s, u) <= s.node[v].base \/ End(s, v) <= s.node[u].base
  BY <1>2 DEF Sized
<1>6. QED
  BY <1>2, <1>3, <1>4, <1>5

(* Inside, of an area.                                                     *)
LEMMA InsideIs ==
  ASSUME NEW s, NEW v, NEW p
  PROVE  /\ Vma!Inside(s, v, p) <=> HoldsPage(AreaOf(s, v), p)
         /\ AreaOf(s, v)[1] = s.node[v].base /\ AreaOf(s, v)[2] = s.node[v].size /\ AreaOf(s, v)[3] = s.node[v].flags
BY DEF Vma!Inside, HoldsPage, AreaOf

(* A lookup finds the node whose area holds the page, if there is one,     *)
LEMMA FindsIt ==
  ASSUME NEW s, Sound(s), NEW p \in Int
  PROVE  \/ Vma!find_vma(s, p) \in Live(s) /\ Vma!Inside(s, Vma!find_vma(s, p), p)
         \/ Vma!find_vma(s, p) = Vma!NULL /\ \A v \in Live(s) : ~Vma!Inside(s, v, p)
<1>1. PICK under : Tree(s, Live(s), under)
  BY DEF Sound, HasTree
<1>2. Cached(s, Live(s))
  BY DEF Sound
<1>3. QED
  BY <1>1, <1>2, FindIs

(* and there is one such node.                                             *)
LEMMA FindsNode ==
  ASSUME NEW s, Sound(s), NEW p \in Int, NEW v \in Live(s), Vma!Inside(s, v, p)
  PROVE  Vma!find_vma(s, p) = v
<1>1. PICK under : Tree(s, Live(s), under)
  BY DEF Sound, HasTree
<1>2. Vma!find_vma(s, p) \in Live(s) /\ Vma!Inside(s, Vma!find_vma(s, p), p)
  BY FindsIt
<1>3. QED
  BY <1>1, <1>2, OneHolder

(* The use of a page is that of the area that holds it.                    *)
LEMMA UseAtIs ==
  ASSUME NEW s, Sound(s), NEW p \in Int
  PROVE  /\ \A a \in Areas(s, Live(s)) : HoldsPage(a, p) => UseAt(s, p) = a[3] /\ UseAt(s, p) # "unused"
         /\ (\A a \in Areas(s, Live(s)) : ~HoldsPage(a, p)) => UseAt(s, p) = "unused"
         /\ Vma!find_vma(s, p) = Vma!NULL <=> UseAt(s, p) = "unused"
         /\ Vma!find_vma(s, p) # Vma!NULL => \E a \in Areas(s, Live(s)) : HoldsPage(a, p)
<1>1. /\ \A v \in Live(s) : s.node[v].flags # "unused" /\ v # Vma!NULL
  <2>1. "unused" \notin Flags
    BY SoundIs DEF Vma!VmaTreeAssumption
  <2>2. QED
    BY <2>1, SoundIs
<1>2. ASSUME NEW a \in Areas(s, Live(s)), HoldsPage(a, p) PROVE UseAt(s, p) = a[3] /\ UseAt(s, p) # "unused"
  <2>1. PICK v \in Live(s) : a = AreaOf(s, v)
    BY DEF Areas
  <2>2. Vma!Inside(s, v, p) /\ a[3] = s.node[v].flags
    BY <1>2, <2>1, InsideIs
  <2>3. Vma!find_vma(s, p) = v
    BY <2>2, FindsNode
  <2>4. QED
    BY <1>1, <2>2, <2>3 DEF UseAt
<1>3. ASSUME Vma!find_vma(s, p) # Vma!NULL PROVE \E a \in Areas(s, Live(s)) : HoldsPage(a, p)
  <2>1. Vma!find_vma(s, p) \in Live(s) /\ Vma!Inside(s, Vma!find_vma(s, p), p)
    BY <1>3, FindsIt
  <2>2. QED
    BY <2>1, InsideIs DEF Areas
<1>4. QED
  BY <1>2, <1>3 DEF UseAt

(* What a call does: the pages of a range get the use u.                   *)
Painted(s, t, p, n, u) ==
  Sound(t) /\ \A q \in Vma!Page : UseAt(t, q) = IF p <= q /\ q < p + n THEN u ELSE UseAt(s, q)

(* The same, of its areas.                                                 *)
Repaints(A, B, p, n, u) ==
  /\ \A q \in Vma!Page : (p <= q /\ q < p + n) =>
       IF u = "unused" THEN \A b \in B : ~HoldsPage(b, q) ELSE \E b \in B : HoldsPage(b, q) /\ b[3] = u
  /\ \A q \in Vma!Page : ~(p <= q /\ q < p + n) =>
       /\ \A a \in A : HoldsPage(a, q) => \E b \in B : HoldsPage(b, q) /\ b[3] = a[3]
       /\ \A b \in B : HoldsPage(b, q) => \E a \in A : HoldsPage(a, q)

(* What is true of the areas is true of the lookups.                       *)
LEMMA PaintedIs ==
  ASSUME NEW s, Sound(s), NEW t, Sound(t), NEW p \in Int, NEW n \in Int, NEW u,
         Repaints(Areas(s, Live(s)), Areas(t, Live(t)), p, n, u)
  PROVE  Painted(s, t, p, n, u)
<1> DEFINE A == Areas(s, Live(s))
           B == Areas(t, Live(t))
<1>0. /\ \A q \in Vma!Page : (p <= q /\ q < p + n) =>
           IF u = "unused" THEN \A b \in B : ~HoldsPage(b, q) ELSE \E b \in B : HoldsPage(b, q) /\ b[3] = u
      /\ \A q \in Vma!Page : ~(p <= q /\ q < p + n) =>
           /\ \A a \in A : HoldsPage(a, q) => \E b \in B : HoldsPage(b, q) /\ b[3] = a[3]
           /\ \A b \in B : HoldsPage(b, q) => \E a \in A : HoldsPage(a, q)
  BY DEF Repaints
<1>1. \A q \in Vma!Page : q \in Int
  BY SoundIs DEF Vma!Page
<1>2. ASSUME NEW q \in Vma!Page, p <= q /\ q < p + n PROVE UseAt(t, q) = u
  <2>1. CASE u = "unused"
    BY <1>0, <1>1, <1>2, <2>1, UseAtIs
  <2>2. CASE u # "unused"
    <3>1. PICK b \in B : HoldsPage(b, q) /\ b[3] = u
      BY <1>0, <1>2, <2>2
    <3>2. QED
      BY <1>1, <3>1, UseAtIs
  <2>3. QED
    BY <2>1, <2>2
<1>3. ASSUME NEW q \in Vma!Page, ~(p <= q /\ q < p + n) PROVE UseAt(t, q) = UseAt(s, q)
  <2>1. CASE \E a \in A : HoldsPage(a, q)
    <3>1. PICK a \in A : HoldsPage(a, q)
      BY <2>1
    <3>2. PICK b \in B : HoldsPage(b, q) /\ b[3] = a[3]
      BY <1>0, <1>3, <3>1
    <3>3. UseAt(s, q) = a[3]
      BY <1>1, <3>1, UseAtIs
    <3>4. UseAt(t, q) = b[3]
      BY <1>1, <3>2, UseAtIs
    <3>5. QED
      BY <3>2, <3>3, <3>4
  <2>2. CASE \A a \in A : ~HoldsPage(a, q)
    <3>1. \A b \in B : ~HoldsPage(b, q)
      BY <1>0, <1>3, <2>2
    <3>2. QED
      BY <1>1, <2>2, <3>1, UseAtIs
  <2>3. QED
    BY <2>1, <2>2
<1>4. QED
  BY <1>2, <1>3 DEF Painted

(* The cache may name any node of the tree.                                *)
LEMMA Recached ==
  ASSUME NEW s, HasTree(s, Live(s)), NEW c \in Live(s) \cup {Vma!NULL}, NEW t, t = [s EXCEPT !.cache = c]
  PROVE  Sound(t) /\ Live(t) = Live(s) /\ Areas(t, Live(t)) = Areas(s, Live(s)) /\ t.node = s.node /\ t.free = s.free
<1>1. PICK under : Tree(s, Live(s), under)
  BY DEF HasTree
<1>2. s \in SpaceType /\ c \in Link
  BY <1>1 DEF Tree, Live, Link
<1>3. t \in SpaceType /\ t.node = s.node /\ t.head = s.head /\ t.free = s.free /\ t.cache = c
  BY <1>2 DEF SpaceType
<1>4. Live(t) = Live(s) /\ \A v : End(t, v) = End(s, v) /\ AreaOf(t, v) = AreaOf(s, v)
  BY <1>3 DEF Live, End, AreaOf
<1>5. Shaped(t, Live(t), under) /\ Sized(t, Live(t))
  BY <1>1, <1>3, <1>4 DEF Tree, Shaped, Sized
<1>6. Sound(t)
  BY <1>1, <1>3, <1>4, <1>5 DEF Sound, HasTree, Tree, Cached
<1>7. Areas(t, Live(t)) = Areas(s, Live(s))
  BY <1>4 DEF Areas
<1>8. QED
  BY <1>3, <1>4, <1>6, <1>7

(* The cache may be emptied.                                               *)
LEMMA UncachedIs ==
  ASSUME NEW s, HasTree(s, Live(s))
  PROVE  Sound(Vma!Uncached(s)) /\ Areas(Vma!Uncached(s), Live(Vma!Uncached(s))) = Areas(s, Live(s))
<1>1. Vma!NULL \in Live(s) \cup {Vma!NULL} /\ Vma!Uncached(s) = [s EXCEPT !.cache = Vma!NULL]
  BY DEF Vma!Uncached
<1>2. QED
  BY <1>1, Recached

(* A lookup changes the cache only.                                        *)
LEMMA FoundIs ==
  ASSUME NEW s, Sound(s), NEW p \in Int, NEW t, t = Vma!Found(s, p)
  PROVE  /\ Sound(t) /\ Live(t) = Live(s) /\ Areas(t, Live(t)) = Areas(s, Live(s)) /\ t.node = s.node /\ t.free = s.free
         /\ Painted(s, t, 0, 0, "unused")
         /\ Vma!find_vma(t, p) = Vma!find_vma(s, p)
<1> DEFINE v == Vma!find_vma(s, p)
<1>1. Sound(t) /\ Live(t) = Live(s) /\ Areas(t, Live(t)) = Areas(s, Live(s)) /\ t.node = s.node /\ t.free = s.free
  <2>1. CASE v = Vma!NULL
    BY <2>1 DEF Vma!Found
  <2>2. CASE v # Vma!NULL
    <3>1. v \in Live(s) \cup {Vma!NULL} /\ HasTree(s, Live(s))
      BY FindsIt DEF Sound
    <3>2. t = [s EXCEPT !.cache = v]
      BY <2>2 DEF Vma!Found
    <3> HIDE DEF v
    <3>3. QED
      BY <3>1, <3>2, Recached
  <2>3. QED
    BY <2>1, <2>2
<1>2. Painted(s, t, 0, 0, "unused")
  <2>1. \A q \in Vma!Page : q \in Int
    BY SoundIs DEF Vma!Page
  <2>2. Repaints(Areas(s, Live(s)), Areas(t, Live(t)), 0, 0, "unused")
    BY <1>1, <2>1 DEF Repaints
  <2>3. QED
    BY <1>1, <2>2, PaintedIs
<1>3. Vma!find_vma(t, p) = v
  <2>1. \A u : Vma!Inside(t, u, p) <=> Vma!Inside(s, u, p)
    BY <1>1 DEF Vma!Inside
  <2>2. CASE v \in Live(s) /\ Vma!Inside(s, v, p)
    BY <1>1, <2>1, <2>2, FindsNode
  <2>3. CASE v = Vma!NULL /\ \A u \in Live(s) : ~Vma!Inside(s, u, p)
    BY <1>1, <2>1, <2>3, FindsIt
  <2>4. QED
    BY <2>2, <2>3, FindsIt
<1>4. QED
  BY <1>1, <1>2, <1>3

(* Nothing is changed.                                                     *)
LEMMA SameSpace ==
  ASSUME NEW s, Sound(s)
  PROVE  Painted(s, s, 0, 0, "unused")
<1>1. \A q \in Vma!Page : q \in Int
  BY SoundIs DEF Vma!Page
<1>2. QED
  BY <1>1 DEF Painted

(* Spaces with the same areas show the same uses.                          *)
LEMMA AreasUse ==
  ASSUME NEW s, Sound(s), NEW t, Sound(t), Areas(t, Live(t)) = Areas(s, Live(s))
  PROVE  \A q \in Vma!Page : UseAt(t, q) = UseAt(s, q)
<1>1. ASSUME NEW q \in Vma!Page PROVE UseAt(t, q) = UseAt(s, q)
  <2>1. q \in Int
    BY SoundIs DEF Vma!Page
  <2>2. QED
    BY <2>1, UseAtIs
<1>2. QED
  BY <1>1

LEMMA PaintedSame ==
  ASSUME NEW s, NEW r, NEW p, NEW n, NEW u, Painted(s, r, p, n, u), NEW t, Sound(t), Areas(t, Live(t)) = Areas(r, Live(r))
  PROVE  Painted(s, t, p, n, u)
<1>1. Sound(r)
  BY DEF Painted
<1>2. \A q \in Vma!Page : UseAt(t, q) = UseAt(r, q)
  BY <1>1, AreasUse
<1>3. QED
  BY <1>2 DEF Painted

(* A node from the pool that is linked is in use.                          *)
LEMMA GainedLive ==
  ASSUME NEW s, NEW N, NEW t, NEW v, NEW a, Gained(s, t, N, v, a), N = Live(s), v \in s.free, s.free \subseteq Vma!Node
  PROVE  Live(t) = Live(s) \cup {v} /\ HasTree(t, Live(t)) /\ Areas(t, Live(t)) = Areas(s, N) \cup {a}
<1>1. t.free = s.free \ {v} /\ HasTree(t, N \cup {v}) /\ Areas(t, N \cup {v}) = Areas(s, N) \cup {a}
  BY DEF Gained
<1>2. Live(t) = N \cup {v}
  BY <1>1 DEF Live
<1>3. QED
  BY <1>1, <1>2

(* A new area where no page is used.                                       *)
LEMMA ClearIs ==
  ASSUME NEW s, Sound(s), NEW p \in Vma!Page, NEW n \in Nat \ {0}, \A q \in p .. (p + n - 1) : Vma!find_vma(s, q) = Vma!NULL
  PROVE  Clear(s, Live(s), p, n)
<1>1. ASSUME NEW u \in Live(s), ~(End(s, u) <= p \/ p + n <= s.node[u].base) PROVE FALSE
  <2> DEFINE q == IF p <= s.node[u].base THEN s.node[u].base ELSE p
  <2>1. s.node[u].base \in Nat /\ End(s, u) \in Nat /\ s.node[u].base < End(s, u) /\ p \in Nat
        /\ End(s, u) = s.node[u].base + s.node[u].size
    BY SoundIs DEF Vma!Page
  <2>2. q \in p .. (p + n - 1) /\ Vma!Inside(s, u, q) /\ q \in Int
    BY <1>1, <2>1 DEF Vma!Inside
  <2> HIDE DEF q
  <2>3. Vma!find_vma(s, q) = Vma!NULL
    BY <2>2
  <2>4. QED
    BY <2>2, <2>3, FindsIt, SoundIs
<1>2. QED
  BY <1>1 DEF Clear

(* An area inserted into a hole gives its pages their use.                 *)
LEMMA Claims ==
  ASSUME NEW s, Sound(s), NEW p \in Vma!Page, NEW n \in Nat \ {0}, p + n <= Top, NEW f \in Flags \cup {"none"},
         \A q \in p .. (p + n - 1) : Vma!find_vma(s, q) = Vma!NULL, s.free # {}, NEW t, t = Vma!Inserted(s, p, n, f)
  PROVE  Painted(s, t, p, n, f) /\ Vma!Lowest(s.free) \in Live(t)
<1> DEFINE v == Vma!Lowest(s.free)
           a == <<p, n, f>>
           N == Live(s)
           A == Areas(s, N)
           B == Areas(t, Live(t))
<1>1. HasTree(s, N) /\ Loose(s, N) /\ Clear(s, N, p, n) /\ s.free \subseteq Vma!Node /\ Top \in Nat /\ p \in Int
  BY SoundIs, ClearIs DEF Sound, Vma!Page
<1>2. v \in s.free /\ v \in Vma!Node \ N /\ Gained(s, t, N, v, a)
  BY <1>1, InsertedIs
<1> HIDE DEF v, a
<1>3. Live(t) = N \cup {v} /\ HasTree(t, Live(t)) /\ B = A \cup {a}
  BY <1>1, <1>2, GainedLive
<1>4. Sound(t)
  BY <1>2, <1>3 DEF Gained, Sound, Cached
<1>5. Painted(s, t, p, n, f)
  <2>1. \A q \in Vma!Page : HoldsPage(a, q) <=> (p <= q /\ q < p + n)
    BY <1>1 DEF HoldsPage, a, Vma!Page
  <2>2. a[3] = f /\ f # "unused"
    BY SoundIs DEF a, Vma!VmaTreeAssumption
  <2> HIDE DEF A, B
  <2>3. A = Areas(s, Live(s)) /\ B = Areas(t, Live(t))
    BY DEF A, B
  <2>4. Repaints(A, B, p, n, f)
    BY <1>3, <2>1, <2>2 DEF Repaints
  <2>5. QED
    BY <1>1, <1>4, <2>3, <2>4, PaintedIs
<1>6. QED
  BY <1>3, <1>5 DEF v

(* The cache may name the node that was found or inserted.                 *)
LEMMA PaintedCached ==
  ASSUME NEW s, NEW r, NEW p, NEW n, NEW u, Painted(s, r, p, n, u), NEW v \in Live(r) \cup {Vma!NULL},
         NEW t, t = [r EXCEPT !.cache = v]
  PROVE  Painted(s, t, p, n, u)
<1>1. HasTree(r, Live(r))
  BY DEF Painted, Sound
<1>2. Sound(t) /\ Areas(t, Live(t)) = Areas(r, Live(r))
  BY <1>1, Recached
<1>3. QED
  BY <1>2, PaintedSame

(* The two together, for vmm_allocate.                                     *)
LEMMA vmm_allocateIs ==
  ASSUME NEW s, Sound(s), NEW p \in Vma!Page, NEW n \in Nat \ {0}, p + n <= Top, NEW f \in Flags \cup {"none"},
         \A q \in p .. (p + n - 1) : Vma!find_vma(s, q) = Vma!NULL, s.free # {},
         NEW t, t = [Vma!Inserted(s, p, n, f) EXCEPT !.cache = Vma!Lowest(s.free)]
  PROVE  Painted(s, t, p, n, f)
<1> DEFINE r == Vma!Inserted(s, p, n, f)
           v == Vma!Lowest(s.free)
<1>1. Painted(s, r, p, n, f) /\ v \in Live(r)
  BY Claims
<1>2. t = [r EXCEPT !.cache = v]
  OBVIOUS
<1>3. v \in Live(r) \cup {Vma!NULL}
  BY <1>1
<1> HIDE DEF r, v
<1>4. QED
  BY <1>1, <1>2, <1>3, PaintedCached

(* A node and its area, and the areas beside it.                           *)
LEMMA Beside ==
  ASSUME NEW s, Sound(s), NEW v \in Live(s)
  PROVE  LET a == AreaOf(s, v)
             others == {AreaOf(s, u) : u \in Live(s) \ {v}}
         IN  /\ a[1] = s.node[v].base /\ a[2] = s.node[v].size /\ a[3] = s.node[v].flags
             /\ a[1] \in Nat /\ a[2] \in Nat \ {0} /\ a[1] + a[2] <= Top /\ a[3] # "unused"
             /\ Areas(s, Live(s)) = others \cup {a}
             /\ \A b \in others : /\ b[1] \in Nat /\ b[2] \in Nat \ {0}
                                  /\ b[1] + b[2] <= a[1] \/ a[1] + a[2] <= b[1]
<1> DEFINE a == AreaOf(s, v)
           others == {AreaOf(s, u) : u \in Live(s) \ {v}}
<1>1. \A u : AreaOf(s, u)[1] = s.node[u].base /\ AreaOf(s, u)[2] = s.node[u].size /\ AreaOf(s, u)[3] = s.node[u].flags
  BY InsideIs
<1>2. \A u \in Live(s) : /\ s.node[u].base \in Nat /\ s.node[u].size \in Nat \ {0}
                         /\ End(s, u) = s.node[u].base + s.node[u].size /\ End(s, u) <= Top /\ s.node[u].flags # "unused"
  BY SoundIs DEF Vma!Page, Vma!VmaTreeAssumption
<1>3. Areas(s, Live(s)) = others \cup {a}
  BY DEF Areas
<1>4. \A b \in others : /\ b[1] \in Nat /\ b[2] \in Nat \ {0}
                        /\ b[1] + b[2] <= a[1] \/ a[1] + a[2] <= b[1]
  <2>1. ASSUME NEW u \in Live(s) \ {v}
        PROVE  /\ s.node[u].base \in Nat /\ s.node[u].size \in Nat \ {0}
               /\ s.node[u].base + s.node[u].size <= s.node[v].base \/ s.node[v].base + s.node[v].size <= s.node[u].base
    <3>1. End(s, u) <= s.node[v].base \/ End(s, v) <= s.node[u].base
      BY SoundIs
    <3>2. QED
      BY <1>2, <3>1
  <2>2. QED
    BY <1>1, <2>1
<1>5. QED
  BY <1>1, <1>2, <1>3, <1>4

(* The pages of a range that an area holds are used.                       *)
LEMMA UsedIs ==
  ASSUME NEW s, Sound(s), NEW v \in Live(s), NEW p \in Nat, NEW n \in Nat, p >= s.node[v].base, p + n <= End(s, v)
  PROVE  \A q \in Vma!Page : (p <= q /\ q < p + n) => UseAt(s, q) # "unused"
<1>1. ASSUME NEW q \in Vma!Page, p <= q /\ q < p + n PROVE UseAt(s, q) # "unused"
  <2>1. s.node[v].base \in Int /\ End(s, v) = s.node[v].base + s.node[v].size /\ End(s, v) \in Int /\ q \in Int
    BY SoundIs DEF Vma!Page
  <2>2. Vma!Inside(s, v, q)
    BY <1>1, <2>1 DEF Vma!Inside
  <2>3. HoldsPage(AreaOf(s, v), q) /\ AreaOf(s, v) \in Areas(s, Live(s))
    BY <2>2, InsideIs DEF Areas
  <2>4. QED
    BY <2>1, <2>3, UseAtIs
<1>2. QED
  BY <1>1

(* Areas beside a stretch do not matter to a call that stays within it.    *)
Beyond(O, lo, hi) ==
  \A b \in O : b[1] \in Nat /\ b[2] \in Nat /\ (b[1] + b[2] <= lo \/ hi <= b[1])

LEMMA RepaintsAmong ==
  ASSUME NEW O, NEW lo \in Int, NEW hi \in Int, Beyond(O, lo, hi), NEW p \in Int, NEW n \in Int, lo <= p, p + n <= hi,
         NEW u, NEW X, NEW Y, Repaints(X, Y, p, n, u), Vma!Page \subseteq Int
  PROVE  Repaints(O \cup X, O \cup Y, p, n, u)
<1>1. ASSUME NEW q \in Vma!Page, p <= q /\ q < p + n, NEW b \in O PROVE ~HoldsPage(b, q)
  <2>1. q \in Int /\ lo <= q /\ q < hi
    BY <1>1
  <2>2. b[1] \in Nat /\ b[2] \in Nat /\ (b[1] + b[2] <= lo \/ hi <= b[1])
    BY DEF Beyond
  <2>3. QED
    BY <2>1, <2>2 DEF HoldsPage
<1>2. ASSUME NEW q \in Vma!Page, p <= q /\ q < p + n
      PROVE  IF u = "unused" THEN \A b \in O \cup Y : ~HoldsPage(b, q) ELSE \E b \in O \cup Y : HoldsPage(b, q) /\ b[3] = u
  BY <1>1, <1>2 DEF Repaints
<1>3. ASSUME NEW q \in Vma!Page, ~(p <= q /\ q < p + n)
      PROVE  /\ \A a \in O \cup X : HoldsPage(a, q) => \E b \in O \cup Y : HoldsPage(b, q) /\ b[3] = a[3]
             /\ \A b \in O \cup Y : HoldsPage(b, q) => \E a \in O \cup X : HoldsPage(a, q)
  BY <1>3 DEF Repaints
<1>4. QED
  BY <1>2, <1>3 DEF Repaints

(* The same space with the area of v replaced.                             *)
LEMMA AreaReplaced ==
  ASSUME NEW s, Sound(s), NEW v \in Live(s), NEW p \in Int, NEW n \in Int, s.node[v].base <= p, p + n <= End(s, v),
         NEW u, NEW Y, Repaints({AreaOf(s, v)}, Y, p, n, u),
         NEW t, Sound(t), Areas(t, Live(t)) = {AreaOf(s, w) : w \in Live(s) \ {v}} \cup Y
  PROVE  Painted(s, t, p, n, u)
<1> DEFINE O == {AreaOf(s, w) : w \in Live(s) \ {v}}
           a == AreaOf(s, v)
<1>1. /\ a[1] = s.node[v].base /\ a[2] = s.node[v].size /\ a[1] \in Nat /\ a[2] \in Nat
      /\ Areas(s, Live(s)) = O \cup {a}
      /\ \A b \in O : b[1] \in Nat /\ b[2] \in Nat /\ (b[1] + b[2] <= a[1] \/ a[1] + a[2] <= b[1])
  BY Beside
<1>2. End(s, v) = a[1] + a[2] /\ Vma!Page \subseteq Int
  BY <1>1, SoundIs DEF Vma!Page, End
<1> HIDE DEF O, a
<1>3. Beyond(O, a[1], a[1] + a[2]) /\ a[1] <= p /\ p + n <= a[1] + a[2]
  BY <1>1, <1>2 DEF Beyond
<1>4. Repaints(O \cup {a}, O \cup Y, p, n, u)
  <2>1. Repaints({a}, Y, p, n, u)
    BY DEF a
  <2>2. a[1] \in Int /\ a[1] + a[2] \in Int
    BY <1>1
  <2>3. QED
    BY <1>2, <1>3, <2>1, <2>2, RepaintsAmong
<1>5. Repaints(Areas(s, Live(s)), Areas(t, Live(t)), p, n, u)
  BY <1>1, <1>4 DEF O
<1>6. QED
  BY <1>5, PaintedIs

(* Removing the node of an area removes this area, whichever node goes.    *)
LEMMA RemovedAreas ==
  ASSUME NEW s, NEW t, NEW N, NEW v \in N, NEW x \in N, Removed(s, t, N, v, x)
  PROVE  Areas(t, N \ {x}) = {AreaOf(s, u) : u \in N \ {v}}
<1>1. \A u \in N \ {x} : AreaOf(t, u) = IF u = v THEN AreaOf(s, x) ELSE AreaOf(s, u)
  BY DEF Removed
<1>2. ASSUME NEW a \in Areas(t, N \ {x}) PROVE a \in {AreaOf(s, u) : u \in N \ {v}}
  <2>1. PICK u \in N \ {x} : a = AreaOf(t, u)
    BY DEF Areas
  <2>2. QED
    BY <1>1, <2>1
<1>3. ASSUME NEW u \in N \ {v} PROVE AreaOf(s, u) \in Areas(t, N \ {x})
  <2>1. CASE u = x
    BY <1>1, <1>3, <2>1 DEF Areas
  <2>2. CASE u # x
    BY <1>1, <1>3, <2>2 DEF Areas
  <2>3. QED
    BY <2>1, <2>2
<1>4. QED
  BY <1>2, <1>3

(* It leaves a sound space, whose cache is empty.                          *)
LEMMA RemoveSound ==
  ASSUME NEW s, Sound(s), NEW v \in Live(s), NEW t, t = Vma!remove_tree_node(s, v)
  PROVE  /\ Sound(t) /\ Areas(t, Live(t)) = {AreaOf(s, u) : u \in Live(s) \ {v}} /\ t.cache = Vma!NULL
         /\ \E x \in Live(s) : Live(t) = Live(s) \ {x}
<1> DEFINE N == Live(s)
<1>1. HasTree(s, N) /\ Loose(s, N)
  BY SoundIs DEF Sound
<1>2. PICK x \in N : HasTree(t, N \ {x}) /\ Removed(s, t, N, v, x)
  BY <1>1, RemoveTree
<1>3. t.cache = Vma!NULL /\ Live(t) = N \ {x}
  BY <1>2 DEF Removed, Live
<1>4. Areas(t, N \ {x}) = {AreaOf(s, u) : u \in N \ {v}}
  BY <1>2, RemovedAreas
<1>5. QED
  BY <1>2, <1>3, <1>4 DEF Sound, Cached

(* So does shrinking an area in place, apart from the cache, which is on a *)
(* node that stays.                                                        *)
LEMMA ReAreaSound ==
  ASSUME NEW s, Sound(s), NEW v \in Live(s), NEW t, NEW b \in Nat, NEW z \in Nat \ {0}, NEW f,
         ReArea(s, t, v, b, z, f), s.node[v].base <= b, b + z <= End(s, v)
  PROVE  /\ Sound(t) /\ Live(t) = Live(s) /\ Loose(t, Live(t)) /\ t.free = s.free /\ t.node[v].flags = f
         /\ Areas(t, Live(t)) = {AreaOf(s, u) : u \in Live(s) \ {v}} \cup {<<b, z, f>>}
<1> DEFINE N == Live(s)
<1>1. HasTree(s, N) /\ Loose(s, N) /\ s.cache \in N \cup {Vma!NULL}
  BY SoundIs DEF Sound, Cached
<1>2. /\ s.node[v].base \in Nat /\ End(s, v) \in Nat /\ End(s, v) <= Top /\ Top \in Nat
      /\ \A u \in N : s.node[u].base \in Nat /\ End(s, u) \in Nat
  BY SoundIs DEF Vma!Page
<1>3. b + z <= Top /\ \A u \in N \ {v} : /\ End(s, u) <= s.node[v].base => End(s, u) <= b
                                         /\ End(s, v) <= s.node[u].base => b + z <= s.node[u].base
  BY <1>2
<1>4. HasTree(t, N) /\ Loose(t, N) /\ Areas(t, N) = {AreaOf(s, u) : u \in N \ {v}} \cup {<<b, z, f>>}
  <2>1. FitsIn(s, N, v, b, z)
    BY <1>3 DEF FitsIn
  <2>2. QED
    BY <1>1, <2>1, ReAreaIs
<1>5. t.free = s.free /\ t.cache = s.cache /\ t.node[v].flags = f
  BY DEF ReArea, AreaOf
<1>6. Live(t) = N
  BY <1>5 DEF Live
<1>7. QED
  BY <1>1, <1>4, <1>5, <1>6 DEF Sound, Cached

-----------------------------------------------------------------------------
(* The calls, on a space                                                   *)

(* A range of pages within the area of v.                                  *)
Within(s, v, p, n) ==
  /\ Sound(s) /\ v \in Live(s) /\ p \in Vma!Page /\ n \in Nat
  /\ s.node[v].base <= p /\ p < End(s, v) /\ p + n <= End(s, v)

(* The bounds this gives.                                                  *)
LEMMA WithinIs ==
  ASSUME NEW s, NEW v, NEW p, NEW n, Within(s, v, p, n)
  PROVE  LET b == s.node[v].base
             e == End(s, v)
         IN  /\ s \in SpaceType /\ v \in Vma!Node /\ v \in Live(s) /\ Vma!Page \subseteq Nat /\ Top \in Nat /\ p \in Nat /\ n \in Nat
             /\ b \in Nat /\ e \in Nat /\ e = b + s.node[v].size /\ s.node[v].size \in Nat \ {0} /\ e <= Top
             /\ b <= p /\ p < e /\ p + n <= e
             /\ \A x : b <= x /\ x < e /\ x \in Nat => x \in Vma!Page
             /\ s.node[v].flags # "unused" /\ s.node[v].flags \in Flags \cup {"none"}
<1>1. Sound(s) /\ v \in Live(s)
  BY DEF Within
<1>2. /\ s \in SpaceType /\ v \in Vma!Node /\ Top \in Nat /\ End(s, v) \in Nat /\ End(s, v) <= Top
      /\ End(s, v) = s.node[v].base + s.node[v].size /\ s.node[v].base \in Vma!Page /\ s.node[v].size \in Nat \ {0}
      /\ s.node[v].flags \in Flags \cup {"none"}
  BY <1>1, SoundIs
<1>3. s.node[v].flags # "unused"
  BY <1>1, Beside
<1>4. QED
  BY <1>1, <1>2, <1>3 DEF Within, Vma!Page

(* The pages of the area,                                                  *)
LEMMA AreaIn ==
  ASSUME NEW s, NEW v, NEW p, NEW n, Within(s, v, p, n), NEW q \in Int
  PROVE  HoldsPage(AreaOf(s, v), q) <=> s.node[v].base <= q /\ q < End(s, v)
BY WithinIs, InsideIs DEF HoldsPage, End

(* and of an area with given bounds.                                       *)
LEMMA NewIn ==
  ASSUME NEW b \in Int, NEW z \in Int, NEW f, NEW q \in Int
  PROVE  /\ HoldsPage(<<b, z, f>>, q) <=> b <= q /\ q < b + z
         /\ <<b, z, f>>[3] = f
BY DEF HoldsPage

(* vmm_free of a whole area, of its front, of its back and of its middle.  *)
LEMMA FreeWhole ==
  ASSUME NEW s, NEW v, NEW p, NEW n, Within(s, v, p, n), p = s.node[v].base, p + n = End(s, v),
         NEW t, t = Vma!remove_tree_node(s, v)
  PROVE  Painted(s, t, p, n, "unused")
<1>1. Sound(t) /\ Areas(t, Live(t)) = {AreaOf(s, u) : u \in Live(s) \ {v}} \cup {}
  BY RemoveSound DEF Within
<1>2. p \in Int /\ n \in Int /\ s.node[v].base <= p /\ p + n <= End(s, v) /\ Vma!Page \subseteq Int
  BY WithinIs
<1>3. Repaints({AreaOf(s, v)}, {}, p, n, "unused")
  BY <1>2, AreaIn DEF Repaints
<1>4. QED
  BY <1>1, <1>2, <1>3, AreaReplaced DEF Within

LEMMA FreeFront ==
  ASSUME NEW s, NEW v, NEW p, NEW n, Within(s, v, p, n), p = s.node[v].base, p + n < End(s, v),
         NEW t, t = Vma!Uncached(Vma!TrimmedFront(s, v, n))
  PROVE  Painted(s, t, p, n, "unused")
<1> DEFINE r == Vma!TrimmedFront(s, v, n)
           b == s.node[v].base + n
           z == s.node[v].size - n
           f == s.node[v].flags
           new == <<b, z, f>>
<1>1. /\ p \in Int /\ n \in Int /\ s.node[v].base <= p /\ p + n <= End(s, v) /\ Vma!Page \subseteq Int
      /\ s \in SpaceType /\ v \in Vma!Node /\ b \in Vma!Page /\ z \in 0 .. Top /\ b \in Nat /\ z \in Nat \ {0}
      /\ s.node[v].base <= b /\ b + z <= End(s, v) /\ b = p + n /\ b + z = End(s, v)
  BY WithinIs
<1>2. ReArea(s, r, v, b, z, f)
  BY <1>1, TrimmedFrontIs
<1> HIDE DEF r, b, z, f
<1>3. Sound(r) /\ Areas(r, Live(r)) = {AreaOf(s, u) : u \in Live(s) \ {v}} \cup {new}
  BY <1>1, <1>2, ReAreaSound, SMTT(30) DEF Within
<1>4. Sound(t) /\ Areas(t, Live(t)) = {AreaOf(s, u) : u \in Live(s) \ {v}} \cup {new}
  BY <1>3, UncachedIs DEF Sound, r
<1>5. Repaints({AreaOf(s, v)}, {new}, p, n, "unused")
  <2>1. \A q \in Vma!Page : HoldsPage(AreaOf(s, v), q) <=> s.node[v].base <= q /\ q < End(s, v)
    BY <1>1, AreaIn
  <2>2. \A q \in Vma!Page : HoldsPage(new, q) <=> b <= q /\ q < b + z
    BY <1>1, NewIn
  <2>3. new[3] = AreaOf(s, v)[3]
    BY InsideIs DEF f
  <2> HIDE DEF new
  <2>4. QED
    BY <1>1, <2>1, <2>2, <2>3 DEF Repaints
<1>6. QED
  BY <1>1, <1>4, <1>5, AreaReplaced DEF Within

LEMMA FreeBack ==
  ASSUME NEW s, NEW v, NEW p, NEW n, Within(s, v, p, n), p > s.node[v].base, p + n = End(s, v),
         NEW t, t = Vma!Uncached([s EXCEPT !.node[v].size = s.node[v].size - n])
  PROVE  Painted(s, t, p, n, "unused")
<1> DEFINE b == s.node[v].base
           z == s.node[v].size - n
           f == s.node[v].flags
           r == [s EXCEPT !.node[v].size = z]
           new == <<b, z, f>>
<1>1. /\ p \in Int /\ n \in Int /\ s.node[v].base <= p /\ p + n <= End(s, v) /\ Vma!Page \subseteq Int
      /\ s \in SpaceType /\ v \in Vma!Node /\ z \in 0 .. Top /\ b \in Nat /\ z \in Nat \ {0}
      /\ s.node[v].base <= b /\ b + z <= End(s, v) /\ b + z = p
  BY WithinIs
<1>2. ReArea(s, r, v, b, z, f)
  BY <1>1, ResizedIs
<1>3. t = Vma!Uncached(r)
  OBVIOUS
<1> HIDE DEF r, b, z, f
<1>4. Sound(r) /\ Areas(r, Live(r)) = {AreaOf(s, u) : u \in Live(s) \ {v}} \cup {new}
  BY <1>1, <1>2, ReAreaSound DEF Within
<1>5. Sound(t) /\ Areas(t, Live(t)) = {AreaOf(s, u) : u \in Live(s) \ {v}} \cup {new}
  BY <1>3, <1>4, UncachedIs DEF Sound
<1>6. Repaints({AreaOf(s, v)}, {new}, p, n, "unused")
  <2>1. \A q \in Vma!Page : HoldsPage(AreaOf(s, v), q) <=> s.node[v].base <= q /\ q < End(s, v)
    BY <1>1, AreaIn
  <2>2. \A q \in Vma!Page : HoldsPage(new, q) <=> b <= q /\ q < b + z
    BY <1>1, NewIn
  <2>3. new[3] = AreaOf(s, v)[3]
    BY InsideIs DEF f
  <2> HIDE DEF new
  <2>4. QED
    BY <1>1, <2>1, <2>2, <2>3 DEF Repaints, b
<1>7. QED
  BY <1>1, <1>5, <1>6, AreaReplaced DEF Within

(* A node from the pool takes a part of the area of v, cut to b .. b + z.  *)
Parts(s, v, r, b, z, f, c, y, g) ==
  /\ Sound(s) /\ v \in Live(s) /\ s.free # {}
  /\ b \in Nat /\ z \in Nat \ {0} /\ ReArea(s, r, v, b, z, f) /\ s.node[v].base <= b /\ b + z <= End(s, v)
  /\ c \in Vma!Page /\ y \in Nat \ {0} /\ g \in Flags \cup {"none"} /\ s.node[v].base <= c /\ c + y <= End(s, v)
  /\ b + z <= c \/ c + y <= b

(* The space then has both parts.                                          *)
LEMMA SplitArea ==
  ASSUME NEW s, NEW v, NEW r, NEW b, NEW z, NEW f, NEW c, NEW y, NEW g, Parts(s, v, r, b, z, f, c, y, g)
  PROVE  LET t == Vma!Inserted(r, c, y, g)
         IN  /\ HasTree(t, Live(t))
             /\ Areas(t, Live(t)) = {AreaOf(s, u) : u \in Live(s) \ {v}} \cup {<<b, z, f>>, <<c, y, g>>}
<1>0. /\ Sound(s) /\ v \in Live(s) /\ s.free # {}
      /\ b \in Nat /\ z \in Nat \ {0} /\ ReArea(s, r, v, b, z, f) /\ s.node[v].base <= b /\ b + z <= End(s, v)
      /\ c \in Vma!Page /\ y \in Nat \ {0} /\ g \in Flags \cup {"none"} /\ s.node[v].base <= c /\ c + y <= End(s, v)
      /\ b + z <= c \/ c + y <= b
  BY DEF Parts
<1> DEFINE t == Vma!Inserted(r, c, y, g)
<1> DEFINE N == Live(s)
           x == Vma!Lowest(r.free)
           a == <<c, y, g>>
<1>1. /\ Sound(r) /\ Live(r) = N /\ Loose(r, N) /\ r.free = s.free
      /\ Areas(r, N) = {AreaOf(s, u) : u \in Live(s) \ {v}} \cup {<<b, z, f>>}
  <2>1. /\ Sound(r) /\ Live(r) = Live(s) /\ Loose(r, Live(r)) /\ r.free = s.free /\ r.node[v].flags = f
        /\ Areas(r, Live(r)) = {AreaOf(s, u) : u \in Live(s) \ {v}} \cup {<<b, z, f>>}
    BY <1>0, ReAreaSound
  <2>2. QED
    BY <2>1
<1>2. HasTree(r, N)
  BY <1>1 DEF Sound
<1>3. c + y <= Top /\ Clear(r, N, c, y)
  <2>1. /\ \A u \in N : s.node[u].base \in Nat /\ End(s, u) \in Nat /\ u \in Vma!Node
        /\ Top \in Nat /\ c \in Nat /\ End(s, v) <= Top
        /\ \A u \in N : u # v => End(s, u) <= s.node[v].base \/ End(s, v) <= s.node[u].base
    BY <1>0, SoundIs DEF Vma!Page
  <2>2. \A u \in N : u # v => End(r, u) = End(s, u) /\ r.node[u].base = s.node[u].base
    BY <1>0, <2>1 DEF ReArea, AreaOnly, End
  <2>3. r.node[v].base = b /\ End(r, v) = b + z
    BY <1>0 DEF ReArea, AreaOf, End
  <2>4. ASSUME NEW u \in N PROVE End(r, u) <= c \/ c + y <= r.node[u].base
    <3>1. CASE u = v
      BY <1>0, <2>3, <3>1
    <3>2. CASE u # v
      BY <1>0, <2>1, <2>2, <3>2
    <3>3. QED
      BY <3>1, <3>2
  <2>5. QED
    BY <1>0, <2>1, <2>4 DEF Clear
<1>4. x \in r.free /\ Gained(r, t, N, x, a)
  BY <1>0, <1>1, <1>2, <1>3, InsertedIs
<1>5. r.free \subseteq Vma!Node
  BY <1>1, SoundIs
<1> HIDE DEF x, a, t
<1>6. HasTree(t, Live(t)) /\ Areas(t, Live(t)) = Areas(r, N) \cup {a}
  BY <1>1, <1>4, <1>5, GainedLive
<1>7. QED
  BY <1>1, <1>6 DEF a, t

LEMMA FreeMiddle ==
  ASSUME NEW s, NEW v, NEW p, NEW n, Within(s, v, p, n), p > s.node[v].base, p + n < End(s, v), s.free # {},
         NEW t, t = Vma!Uncached(Vma!Inserted([s EXCEPT !.node[v].size = p - s.node[v].base],
                                      p + n, End(s, v) - (p + n), s.node[v].flags))
  PROVE  Painted(s, t, p, n, "unused")
<1> DEFINE b == s.node[v].base
           z == p - b
           c == p + n
           y == End(s, v) - c
           f == s.node[v].flags
           r == [s EXCEPT !.node[v].size = z]
           i == Vma!Inserted(r, c, y, f)
           left == <<b, z, f>>
           right == <<c, y, f>>
<1>1. /\ p \in Int /\ n \in Int /\ s.node[v].base <= p /\ p + n <= End(s, v) /\ Vma!Page \subseteq Int
      /\ s \in SpaceType /\ v \in Vma!Node /\ z \in 0 .. Top /\ b \in Nat /\ z \in Nat \ {0} /\ c \in Vma!Page /\ y \in Nat \ {0}
      /\ s.node[v].base <= b /\ b + z <= End(s, v) /\ b + z = p /\ s.node[v].base <= c /\ c + y = End(s, v)
      /\ c + y <= End(s, v) /\ (b + z <= c \/ c + y <= b) /\ c \in Int /\ n >= 0
      /\ f \in Flags \cup {"none"} /\ Sound(s) /\ v \in Live(s) /\ b <= p
  BY WithinIs DEF Within
<1>2. ReArea(s, r, v, b, z, f)
  BY <1>1, ResizedIs
<1>3. t = Vma!Uncached(i)
  OBVIOUS
<1>4. c = p + n
  OBVIOUS
<1>5. AreaOf(s, v)[3] = f
  BY InsideIs
<1> HIDE DEF r, z, f, c, y
<1>6. HasTree(i, Live(i)) /\ Areas(i, Live(i)) = {AreaOf(s, u) : u \in Live(s) \ {v}} \cup {left, right}
  <2>1. Parts(s, v, r, b, z, f, c, y, f)
    BY <1>1, <1>2 DEF Parts
  <2>2. QED
    BY <2>1, SplitArea
<1> HIDE DEF i
<1>7. Sound(t) /\ Areas(t, Live(t)) = {AreaOf(s, u) : u \in Live(s) \ {v}} \cup {left, right}
  BY <1>3, <1>6, UncachedIs
<1>8. Repaints({AreaOf(s, v)}, {left, right}, p, n, "unused")
  <2>1. \A q \in Vma!Page : HoldsPage(AreaOf(s, v), q) <=> s.node[v].base <= q /\ q < End(s, v)
    BY <1>1, AreaIn
  <2>2. \A q \in Vma!Page : HoldsPage(left, q) <=> b <= q /\ q < b + z
    BY <1>1, NewIn
  <2>3. \A q \in Vma!Page : HoldsPage(right, q) <=> c <= q /\ q < c + y
    BY <1>1, NewIn
  <2>4. left[3] = f /\ right[3] = f
    OBVIOUS
  <2> HIDE DEF left, right
  <2>5. QED
    BY <1>1, <1>4, <1>5, <2>1, <2>2, <2>3, <2>4 DEF Repaints
<1>9. QED
  BY <1>1, <1>7, <1>8, AreaReplaced

(* vmm_protect of a whole area, of its front and of its back.              *)
LEMMA ProtectAll ==
  ASSUME NEW s, NEW v, NEW p, NEW n, Within(s, v, p, n), p = s.node[v].base, p + n = End(s, v), NEW g \in Flags,
         NEW t, t = Vma!Uncached([s EXCEPT !.node[v].flags = g])
  PROVE  Painted(s, t, p, n, g)
<1> DEFINE b == s.node[v].base
           z == s.node[v].size
           r == [s EXCEPT !.node[v].flags = g]
           new == <<b, z, g>>
<1>1. /\ p \in Int /\ n \in Int /\ s.node[v].base <= p /\ p + n <= End(s, v) /\ Vma!Page \subseteq Int
      /\ s \in SpaceType /\ v \in Vma!Node /\ b \in Nat /\ z \in Nat \ {0} /\ s.node[v].base <= b /\ b + z <= End(s, v)
      /\ b + z = End(s, v) /\ Sound(s) /\ v \in Live(s)
  BY WithinIs DEF Within
<1>2. ReArea(s, r, v, b, z, g)
  BY <1>1, ReflaggedIs
<1>3. t = Vma!Uncached(r) /\ g # "unused"
  BY <1>1, SoundIs DEF Vma!VmaTreeAssumption
<1> HIDE DEF r, b, z
<1>4. Sound(r) /\ Areas(r, Live(r)) = {AreaOf(s, u) : u \in Live(s) \ {v}} \cup {new}
  BY <1>1, <1>2, ReAreaSound
<1>5. Sound(t) /\ Areas(t, Live(t)) = {AreaOf(s, u) : u \in Live(s) \ {v}} \cup {new}
  BY <1>3, <1>4, UncachedIs DEF Sound
<1>6. Repaints({AreaOf(s, v)}, {new}, p, n, g)
  <2>1. \A q \in Vma!Page : HoldsPage(AreaOf(s, v), q) <=> s.node[v].base <= q /\ q < End(s, v)
    BY <1>1, AreaIn
  <2>2. \A q \in Vma!Page : HoldsPage(new, q) <=> b <= q /\ q < b + z
    BY <1>1, NewIn
  <2>3. new[3] = g
    OBVIOUS
  <2> HIDE DEF new
  <2>4. QED
    BY <1>1, <1>3, <2>1, <2>2, <2>3 DEF Repaints, b
<1>7. QED
  BY <1>1, <1>5, <1>6, AreaReplaced

LEMMA ProtectFront ==
  ASSUME NEW s, NEW v, NEW p, NEW n, Within(s, v, p, n), p = s.node[v].base, p + n < End(s, v), n > 0,
         NEW g \in Flags, s.free # {},
         NEW t, t = Vma!Uncached(Vma!Inserted(Vma!TrimmedFront(s, v, n), p, n, g))
  PROVE  Painted(s, t, p, n, g)
<1> DEFINE b == s.node[v].base + n
           z == s.node[v].size - n
           f == s.node[v].flags
           r == Vma!TrimmedFront(s, v, n)
           i == Vma!Inserted(r, p, n, g)
           rest == <<b, z, f>>
           new == <<p, n, g>>
<1>1. /\ p \in Int /\ n \in Int /\ s.node[v].base <= p /\ p + n <= End(s, v) /\ Vma!Page \subseteq Int
      /\ s \in SpaceType /\ v \in Vma!Node /\ b \in Vma!Page /\ z \in 0 .. Top /\ b \in Nat /\ z \in Nat \ {0}
      /\ p \in Vma!Page /\ n \in Nat \ {0} /\ g \in Flags \cup {"none"}
      /\ s.node[v].base <= b /\ b + z <= End(s, v) /\ b = p + n /\ b + z = End(s, v)
      /\ Sound(s) /\ v \in Live(s) /\ p + n <= b
  BY WithinIs DEF Within
<1>2. ReArea(s, r, v, b, z, f)
  BY <1>1, TrimmedFrontIs
<1>3. t = Vma!Uncached(i) /\ g # "unused"
  BY <1>1, SoundIs DEF Vma!VmaTreeAssumption
<1>4. AreaOf(s, v)[3] = f
  BY InsideIs
<1> HIDE DEF r, b, z, f
<1>5. HasTree(i, Live(i)) /\ Areas(i, Live(i)) = {AreaOf(s, u) : u \in Live(s) \ {v}} \cup {rest, new}
  <2>1. Parts(s, v, r, b, z, f, p, n, g)
    BY <1>1, <1>2 DEF Parts
  <2>2. QED
    BY <2>1, SplitArea
<1> HIDE DEF i
<1>6. Sound(t) /\ Areas(t, Live(t)) = {AreaOf(s, u) : u \in Live(s) \ {v}} \cup {rest, new}
  BY <1>3, <1>5, UncachedIs
<1>7. Repaints({AreaOf(s, v)}, {rest, new}, p, n, g)
  <2>1. \A q \in Vma!Page : HoldsPage(AreaOf(s, v), q) <=> s.node[v].base <= q /\ q < End(s, v)
    BY <1>1, AreaIn
  <2>2. \A q \in Vma!Page : HoldsPage(rest, q) <=> b <= q /\ q < b + z
    BY <1>1, NewIn
  <2>3. \A q \in Vma!Page : HoldsPage(new, q) <=> p <= q /\ q < p + n
    BY <1>1, NewIn
  <2>4. rest[3] = f /\ new[3] = g
    OBVIOUS
  <2> HIDE DEF rest, new
  <2>5. QED
    BY <1>1, <1>3, <1>4, <2>1, <2>2, <2>3, <2>4 DEF Repaints
<1>8. QED
  BY <1>1, <1>6, <1>7, AreaReplaced

LEMMA ProtectBack ==
  ASSUME NEW s, NEW v, NEW p, NEW n, Within(s, v, p, n), p > s.node[v].base, p + n = End(s, v), n > 0,
         NEW g \in Flags, s.free # {},
         NEW t, t = Vma!Uncached(Vma!Inserted([s EXCEPT !.node[v].size = s.node[v].size - n], p, n, g))
  PROVE  Painted(s, t, p, n, g)
<1> DEFINE b == s.node[v].base
           z == s.node[v].size - n
           f == s.node[v].flags
           r == [s EXCEPT !.node[v].size = z]
           i == Vma!Inserted(r, p, n, g)
           rest == <<b, z, f>>
           new == <<p, n, g>>
<1>1. /\ p \in Int /\ n \in Int /\ s.node[v].base <= p /\ p + n <= End(s, v) /\ Vma!Page \subseteq Int
      /\ s \in SpaceType /\ v \in Vma!Node /\ z \in 0 .. Top /\ b \in Nat /\ z \in Nat \ {0}
      /\ p \in Vma!Page /\ n \in Nat \ {0} /\ g \in Flags \cup {"none"}
      /\ s.node[v].base <= b /\ b + z <= End(s, v) /\ b + z = p /\ p + n = End(s, v) /\ b + z <= p
      /\ Sound(s) /\ v \in Live(s)
  BY WithinIs DEF Within
<1>2. ReArea(s, r, v, b, z, f)
  BY <1>1, ResizedIs
<1>3. t = Vma!Uncached(i) /\ g # "unused"
  BY <1>1, SoundIs DEF Vma!VmaTreeAssumption
<1>4. AreaOf(s, v)[3] = f
  BY InsideIs
<1> HIDE DEF r, z, f
<1>5. HasTree(i, Live(i)) /\ Areas(i, Live(i)) = {AreaOf(s, u) : u \in Live(s) \ {v}} \cup {rest, new}
  <2>1. Parts(s, v, r, b, z, f, p, n, g)
    BY <1>1, <1>2 DEF Parts
  <2>2. QED
    BY <2>1, SplitArea
<1> HIDE DEF i
<1>6. Sound(t) /\ Areas(t, Live(t)) = {AreaOf(s, u) : u \in Live(s) \ {v}} \cup {rest, new}
  BY <1>3, <1>5, UncachedIs
<1>7. Repaints({AreaOf(s, v)}, {rest, new}, p, n, g)
  <2>1. \A q \in Vma!Page : HoldsPage(AreaOf(s, v), q) <=> s.node[v].base <= q /\ q < End(s, v)
    BY <1>1, AreaIn
  <2>2. \A q \in Vma!Page : HoldsPage(rest, q) <=> b <= q /\ q < b + z
    BY <1>1, NewIn
  <2>3. \A q \in Vma!Page : HoldsPage(new, q) <=> p <= q /\ q < p + n
    BY <1>1, NewIn
  <2>4. rest[3] = f /\ new[3] = g
    OBVIOUS
  <2> HIDE DEF rest, new
  <2>5. QED
    BY <1>1, <1>3, <1>4, <2>1, <2>2, <2>3, <2>4 DEF Repaints
<1>8. QED
  BY <1>1, <1>6, <1>7, AreaReplaced

Avoids(A, b, z) == \A c \in A : c[1] + c[2] <= b \/ b + z <= c[1]

(* Areas that avoid a range leave room for a node of that range.           *)
LEMMA ClearAreas ==
  ASSUME NEW s, NEW N, NEW b, NEW z, Avoids(Areas(s, N), b, z)
  PROVE  Clear(s, N, b, z)
<1>1. \A u \in N : AreaOf(s, u) \in Areas(s, N)
  BY DEF Areas
<1>2. \A u \in N : AreaOf(s, u)[1] + AreaOf(s, u)[2] <= b \/ b + z <= AreaOf(s, u)[1]
  BY <1>1 DEF Avoids
<1>3. QED
  BY <1>2, InsideIs DEF Clear, End

LEMMA ApartIs ==
  ASSUME NEW s, NEW N, NEW v \in Vma!Node \ N, s.node[v].prev = Vma!NULL, s.node[v].next = Vma!NULL,
         NEW b, NEW z, NEW f, AreaOf(s, v) = <<b, z, f>>, z > 0, b + z <= Top, Avoids(Areas(s, N), b, z)
  PROVE  Separate(s, N, v)
<1>1. s.node[v].base = b /\ s.node[v].size = z
  BY DEF AreaOf
<1>2. Clear(s, N, b, z)
  BY ClearAreas, SMTT(30)
<1>3. QED
  BY <1>1, <1>2 DEF Clear, Separate, End

(* Nodes of a space and nodes outside it, after the old area is removed.   *)
LEMMA ProtectMiddle ==
  ASSUME NEW s, NEW v, NEW p, NEW n, Within(s, v, p, n), p > s.node[v].base, p + n < End(s, v), n > 0,
         NEW g \in Flags, Cardinality(s.free) >= 2,
         NEW mid, mid = Vma!vma_alloc(s, p, n, g),
         NEW both, both = Vma!vma_alloc(mid, p + n, End(s, v) - (p + n), s.node[v].flags),
         NEW left, left = Vma!Inserted(Vma!remove_tree_node(both, v), s.node[v].base, p - s.node[v].base, s.node[v].flags),
         NEW t, t = Vma!Uncached(Vma!insert_vma(Vma!insert_vma(left, Vma!Lowest(s.free)), Vma!Lowest(mid.free)))
  PROVE  Painted(s, t, p, n, g)
<1> DEFINE N == Live(s)
           O == {AreaOf(s, u) : u \in Live(s) \ {v}}
           b == s.node[v].base
           z == p - b
           c == p + n
           y == End(s, v) - c
           f == s.node[v].flags
           x1 == Vma!Lowest(s.free)
           x2 == Vma!Lowest(mid.free)
           r == Vma!remove_tree_node(both, v)
           x3 == Vma!Lowest(r.free)
           one == Vma!insert_vma(left, x1)
           two == Vma!insert_vma(one, x2)
           a1 == <<p, n, g>>
           a2 == <<c, y, f>>
           a3 == <<b, z, f>>
<1>1. /\ p \in Int /\ n \in Int /\ s.node[v].base <= p /\ p + n <= End(s, v) /\ Vma!Page \subseteq Int
      /\ s \in SpaceType /\ v \in Vma!Node /\ b \in Nat /\ b \in Vma!Page /\ p \in Vma!Page /\ c \in Vma!Page /\ c \in Nat
      /\ n \in Nat \ {0} /\ y \in Nat \ {0} /\ z \in Nat \ {0} /\ n \in 0 .. Top /\ y \in 0 .. Top /\ z \in 0 .. Top
      /\ f \in Flags \cup {"none"} /\ g \in Flags \cup {"none"} /\ p + n <= Top /\ c + y <= Top /\ b + z <= Top
      /\ b + z = p /\ c = p + n /\ c + y = End(s, v) /\ b < p /\ p < c /\ End(s, v) \in Nat
      /\ Sound(s) /\ v \in Live(s) /\ s.free \subseteq Vma!Node /\ f # "unused" /\ g # "unused"
  <2>1. s.free \subseteq Vma!Node /\ g # "unused"
    BY SoundIs DEF Within, Vma!VmaTreeAssumption
  <2>2. QED
    BY <2>1, WithinIs, SMTT(30) DEF Within
<1>2. \A o \in O : o[1] \in Nat /\ o[2] \in Nat \ {0} /\ (o[1] + o[2] <= b \/ c + y <= o[1])
  <2>1. AreaOf(s, v)[1] = b /\ AreaOf(s, v)[1] + AreaOf(s, v)[2] = c + y
    BY <1>1, InsideIs DEF End
  <2>2. QED
    BY <1>1, <2>1, Beside, SMTT(30)
<1>3. HasTree(s, N) /\ Loose(s, N) /\ N \subseteq Vma!Node /\ AreaOf(s, v)[3] = f
  BY <1>1, SoundIs, InsideIs DEF Sound
<1> HIDE DEF z, c, y, f, b
<1>4. s.free # {} /\ s.free \ {x1} # {}
  <2>1. Cardinality({}) = 0 /\ Cardinality({x1}) = 1
    BY FS_EmptySet, FS_Singleton
  <2>2. s.free # {} /\ s.free # {x1}
    BY <2>1
  <2>3. QED
    BY <2>2
<1>5. /\ x1 \in s.free /\ x1 \in Vma!Node \ N /\ HasTree(mid, N) /\ Loose(mid, N) /\ mid.free = s.free \ {x1}
      /\ AreaOf(mid, x1) = a1 /\ mid.node[x1].prev = Vma!NULL /\ mid.node[x1].next = Vma!NULL
      /\ \A u \in Vma!Node \ {x1} : mid.node[u] = s.node[u]
  BY <1>1, <1>3, <1>4, AllocIs, SMTT(30)
<1> HIDE DEF x1, a1
<1>6. /\ x2 \in mid.free /\ x2 \in Vma!Node \ N /\ HasTree(both, N) /\ Loose(both, N) /\ both.free = mid.free \ {x2}
      /\ AreaOf(both, x2) = a2 /\ both.node[x2].prev = Vma!NULL /\ both.node[x2].next = Vma!NULL
      /\ \A u \in Vma!Node \ {x2} : both.node[u] = mid.node[u]
  <2>1. both = Vma!vma_alloc(mid, c, y, f) /\ mid.free # {} /\ HasTree(mid, N) /\ Loose(mid, N)
    BY <1>4, <1>5 DEF c, y, f
  <2>2. QED
    BY <1>1, <2>1, AllocIs
<1> HIDE DEF x2, a2
<1>7. /\ x1 # x2 /\ x1 \notin both.free /\ x2 \notin both.free
      /\ AreaOf(both, x1) = a1 /\ both.node[x1].prev = Vma!NULL /\ both.node[x1].next = Vma!NULL
      /\ \A u \in N : AreaOf(both, u) = AreaOf(s, u)
  <2>1. x1 # x2 /\ x1 \notin both.free /\ x2 \notin both.free
    BY <1>5, <1>6
  <2>2. both.node[x1] = mid.node[x1] /\ \A u \in N : both.node[u] = s.node[u]
    BY <1>3, <1>5, <1>6, <2>1
  <2>3. QED
    BY <1>5, <2>1, <2>2, ZenonT(60) DEF AreaOf
<1>8. PICK x \in N : HasTree(r, N \ {x}) /\ Removed(both, r, N, v, x) /\ Loose(r, N \ {x})
  BY <1>1, <1>6, RemoveTree, ZenonT(60)
<1> DEFINE M == N \ {x}
<1>9. Areas(r, M) = O /\ r.free = both.free \cup {x} /\ \A u \in Vma!Node \ N : r.node[u] = both.node[u]
  <2>1. Areas(r, M) = {AreaOf(both, u) : u \in N \ {v}}
    BY <1>1, <1>8, RemovedAreas
  <2>2. QED
    BY <1>7, <1>8, <2>1, ZenonT(60) DEF Removed
<1>10. x3 \in r.free /\ x3 \in Vma!Node \ M /\ Gained(r, left, M, x3, a3)
  <2>1. Avoids(O, b, z)
    <3>1. ASSUME NEW o \in O PROVE o[1] + o[2] <= b \/ b + z <= o[1]
      <4>1. o[1] \in Nat /\ o[2] \in Nat \ {0} /\ (o[1] + o[2] <= b \/ c + y <= o[1])
        BY <1>2
      <4>2. b + z <= c + y
        BY <1>1
      <4>3. QED
        BY <1>1, <4>1, <4>2
    <3> HIDE DEF O
    <3>2. QED
      BY <3>1 DEF Avoids
  <2>2. Clear(r, M, b, z)
    BY <1>9, <2>1, ClearAreas
  <2>3. r.free # {} /\ left = Vma!Inserted(r, b, z, f)
    BY <1>9 DEF b, z, f
  <2>4. HasTree(r, M) /\ Loose(r, M)
    BY <1>8, ZenonT(60)
  <2> HIDE DEF M, r
  <2>5. QED
    BY <1>1, <2>2, <2>3, <2>4, InsertedIs
<1> HIDE DEF x3, a3, r, O
<1> DEFINE M3 == M \cup {x3}
<1>11. /\ HasTree(left, M3) /\ Loose(left, M3) /\ left.free = r.free \ {x3} /\ Areas(left, M3) = O \cup {a3}
       /\ \A u \in Vma!Node \ M3 : left.node[u] = r.node[u]
  BY <1>9, <1>10, ZenonT(60) DEF Gained
<1>12. /\ x1 \in Vma!Node \ M3 /\ x2 \in Vma!Node \ M3 /\ x1 # x /\ x2 # x /\ x1 # x3 /\ x2 # x3
       /\ left.node[x1] = both.node[x1] /\ left.node[x2] = both.node[x2]
  <2>1. x1 # x /\ x2 # x /\ x1 \in Vma!Node \ N /\ x2 \in Vma!Node \ N
    BY <1>5, <1>6, <1>8
  <2>2. x1 # x3 /\ x2 # x3
    BY <1>7, <1>9, <1>10, <2>1
  <2>3. x1 \in Vma!Node \ M3 /\ x2 \in Vma!Node \ M3
    BY <2>1, <2>2
  <2>4. left.node[x1] = r.node[x1] /\ left.node[x2] = r.node[x2]
    BY <1>11, <2>3
  <2>5. r.node[x1] = both.node[x1] /\ r.node[x2] = both.node[x2]
    BY <1>9, <2>1, ZenonT(60)
  <2>6. QED
    BY <2>1, <2>2, <2>3, <2>4, <2>5
<1>13. /\ AreaOf(left, x1) = a1 /\ left.node[x1].prev = Vma!NULL /\ left.node[x1].next = Vma!NULL
       /\ AreaOf(left, x2) = a2 /\ left.node[x2].prev = Vma!NULL /\ left.node[x2].next = Vma!NULL
  BY <1>6, <1>7, <1>12, ZenonT(60) DEF AreaOf
<1>14. a1[1] = p /\ a1[2] = n /\ a1[3] = g /\ a2[1] = c /\ a2[2] = y /\ a2[3] = f /\ a3[1] = b /\ a3[2] = z /\ a3[3] = f
  BY DEF a1, a2, a3
<1>15. Avoids(O \cup {a3}, p, n) /\ Avoids(O \cup {a3} \cup {a1}, c, y)
  <2>1. ASSUME NEW o \in O PROVE (o[1] + o[2] <= p \/ p + n <= o[1]) /\ (o[1] + o[2] <= c \/ c + y <= o[1])
    <3>1. o[1] \in Nat /\ o[2] \in Nat \ {0} /\ (o[1] + o[2] <= b \/ c + y <= o[1])
      BY <1>2 DEF O
    <3>2. QED
      BY <1>1, <3>1
  <2>2. a3[1] + a3[2] <= p /\ a3[1] + a3[2] <= c /\ a1[1] + a1[2] <= c
    <3>1. b + z = p /\ c = p + n /\ p \in Int /\ n \in Nat
      BY <1>1, Zenon
    <3>2. a1[1] + a1[2] = c /\ a3[1] + a3[2] = p
      BY <1>14, <3>1, Zenon
    <3>3. QED
      BY <3>1, <3>2
  <2>3. QED
    BY <2>1, <2>2 DEF Avoids
<1> HIDE DEF M3, M
<1>16. Gained(left, one, M3, x1, a1)
  <2>1. Separate(left, M3, x1)
    BY <1>1, <1>11, <1>12, <1>13, <1>15, ApartIs, ZenonT(60) DEF a1
  <2>2. x1 \notin left.free
    BY <1>5, <1>7, <1>9, <1>11, <1>12, ZenonT(60)
  <2>3. QED
    BY <1>11, <1>13, <2>1, <2>2, InsertAreas, ZenonT(60)
<1> HIDE DEF one
<1> DEFINE M1 == M3 \cup {x1}
<1>17. /\ HasTree(one, M1) /\ Loose(one, M1) /\ one.free = left.free \ {x1} /\ Areas(one, M1) = O \cup {a3} \cup {a1}
       /\ \A u \in Vma!Node \ M1 : one.node[u] = left.node[u]
  BY <1>11, <1>16, ZenonT(60) DEF Gained
<1>18. /\ x2 \in Vma!Node \ M1 /\ AreaOf(one, x2) = a2 /\ one.node[x2].prev = Vma!NULL /\ one.node[x2].next = Vma!NULL
  <2>1. x2 \in Vma!Node \ M1
    BY <1>7, <1>12
  <2>2. one.node[x2] = left.node[x2]
    BY <1>17, <2>1
  <2>3. QED
    BY <1>13, <2>1, <2>2, ZenonT(60) DEF AreaOf
<1> HIDE DEF M1
<1>19. Gained(one, two, M1, x2, a2)
  <2>1. Separate(one, M1, x2)
    <3>1. AreaOf(one, x2) = <<c, y, f>> /\ y > 0 /\ c + y <= Top
      BY <1>1, <1>18 DEF a2
    <3>2. Avoids(Areas(one, M1), c, y)
      BY <1>15, <1>17, ZenonT(60)
    <3>3. QED
      BY <1>18, <3>1, <3>2, ApartIs
  <2>2. x2 \notin one.free
    BY <1>6, <1>7, <1>9, <1>11, <1>12, <1>17, ZenonT(60)
  <2>3. QED
    BY <1>17, <1>18, <2>1, <2>2, InsertAreas
<1> HIDE DEF two
<1>20. HasTree(two, M1 \cup {x2}) /\ two.free = one.free \ {x2} /\ Areas(two, M1 \cup {x2}) = O \cup {a3, a1, a2}
  BY <1>17, <1>19, ZenonT(60) DEF Gained
<1>21. Live(two) = M1 \cup {x2}
  <2>1. two.free = (((s.free \ {x1, x2}) \cup {x}) \ {x3}) \ {x1, x2}
    BY <1>5, <1>6, <1>9, <1>11, <1>17, <1>20, ZenonT(60)
  <2>2. M1 \cup {x2} = ((Vma!Node \ s.free) \ {x}) \cup {x3, x1, x2}
    BY DEF M1, M3, M, Live
  <2>3. x \in Vma!Node \ s.free /\ x3 \in Vma!Node /\ x1 \in Vma!Node /\ x2 \in Vma!Node
    BY <1>5, <1>6, <1>8, <1>10 DEF Live
  <2>4. QED
    BY <2>1, <2>2, <2>3 DEF Live
<1>22. t = Vma!Uncached(two)
  BY DEF one, two, x1, x2
<1>23. Sound(t) /\ Areas(t, Live(t)) = O \cup {a3, a1, a2}
  BY <1>20, <1>21, <1>22, UncachedIs, SMTT(30)
<1>24. Repaints({AreaOf(s, v)}, {a3, a1, a2}, p, n, g)
  <2>1. \A q \in Vma!Page : HoldsPage(AreaOf(s, v), q) <=> b <= q /\ q < c + y
    BY <1>1, AreaIn DEF b
  <2>2. \A q \in Vma!Page : /\ HoldsPage(a3, q) <=> b <= q /\ q < b + z
                            /\ HoldsPage(a1, q) <=> p <= q /\ q < p + n
                            /\ HoldsPage(a2, q) <=> c <= q /\ q < c + y
    BY <1>1, <1>14 DEF HoldsPage
  <2>3. QED
    BY <1>1, <1>3, <1>14, <2>1, <2>2 DEF Repaints
<1>25. QED
  BY <1>1, <1>23, <1>24, AreaReplaced DEF O

(* vmm_resize takes the page behind the area.                              *)
LEMMA Grows ==
  ASSUME NEW s, Sound(s), NEW v \in Live(s), End(s, v) < Top, Vma!find_vma(s, End(s, v)) = Vma!NULL,
         NEW t, t = [s EXCEPT !.node[v].size = s.node[v].size + 1, !.cache = v]
  PROVE  Painted(s, t, End(s, v), 1, s.node[v].flags)
<1> DEFINE N == Live(s)
           O == {AreaOf(s, u) : u \in Live(s) \ {v}}
           b == s.node[v].base
           e == End(s, v)
           z == s.node[v].size + 1
           f == s.node[v].flags
           a == AreaOf(s, v)
           r == [s EXCEPT !.node[v].size = z]
           new == <<b, z, f>>
<1>1. /\ s \in SpaceType /\ v \in Vma!Node /\ b \in Nat /\ z \in Nat \ {0} /\ z \in 0 .. Top /\ e \in Nat /\ Top \in Nat
      /\ b + z = e + 1 /\ b + z <= Top /\ e < Top /\ Vma!Page \subseteq Int /\ b < e /\ HasTree(s, N) /\ Loose(s, N)
  BY SoundIs DEF Sound, Vma!Page
<1>2. /\ a[1] = b /\ a[2] + 1 = z /\ a[3] = f /\ a[1] \in Nat /\ a[2] \in Nat /\ a[1] + a[2] = e /\ f # "unused"
      /\ Areas(s, N) = O \cup {a}
      /\ \A o \in O : o[1] \in Nat /\ o[2] \in Nat \ {0} /\ (o[1] + o[2] <= b \/ e <= o[1])
  <2>1. a[1] = b /\ a[2] = s.node[v].size /\ a[3] = f /\ a[1] \in Nat /\ a[2] \in Nat \ {0} /\ a[3] # "unused"
        /\ Areas(s, N) = O \cup {a}
        /\ \A o \in O : o[1] \in Nat /\ o[2] \in Nat \ {0} /\ (o[1] + o[2] <= a[1] \/ a[1] + a[2] <= o[1])
    BY Beside
  <2>2. a[1] + a[2] = e
    BY <2>1 DEF End
  <2>3. QED
    BY <2>1, <2>2
<1>3. \A u \in N \ {v} : s.node[u].base \in Nat /\ (End(s, v) <= s.node[u].base => b + z <= s.node[u].base)
  <2>1. ASSUME NEW u \in N \ {v}, s.node[u].base = e PROVE FALSE
    <3>1. s.node[u].size \in Nat \ {0}
      BY SoundIs
    <3>2. Vma!Inside(s, u, e)
      BY <1>1, <2>1, <3>1 DEF Vma!Inside
    <3>3. Vma!find_vma(s, e) = u /\ u # Vma!NULL
      BY <1>1, <3>2, FindsNode, SoundIs
    <3>4. QED
      BY <3>3
  <2>2. \A u \in N : s.node[u].base \in Nat
    BY SoundIs DEF Vma!Page
  <2>3. QED
    BY <1>1, <2>1, <2>2
<1>4. Beyond(O, b, e + 1)
  <2>1. ASSUME NEW u \in N \ {v} PROVE AreaOf(s, u)[1] = s.node[u].base /\ AreaOf(s, u) \in O
    BY InsideIs
  <2>2. ASSUME NEW o \in O PROVE o[1] \in Nat /\ o[2] \in Nat /\ (o[1] + o[2] <= b \/ e + 1 <= o[1])
    <3>1. PICK u \in N \ {v} : o = AreaOf(s, u)
      OBVIOUS
    <3>2. o[1] = s.node[u].base
      BY <2>1, <3>1
    <3>3. o[1] \in Nat /\ o[2] \in Nat \ {0} /\ (o[1] + o[2] <= b \/ e <= o[1])
      BY <1>2
    <3>4. QED
      BY <1>1, <1>3, <3>2, <3>3
  <2>3. QED
    BY <2>2 DEF Beyond
<1>5. ReArea(s, r, v, b, z, f)
  BY <1>1, ResizedIs
<1>6. t = [r EXCEPT !.cache = v]
  <2>1. s = [node |-> s.node, head |-> s.head, cache |-> s.cache, free |-> s.free]
    BY <1>1 DEF SpaceType
  <2>2. QED
    BY <2>1
<1> HIDE DEF r
<1>7. HasTree(r, N) /\ Areas(r, N) = O \cup {new}
  <2>1. \A u \in N \ {v} : /\ End(s, u) <= s.node[v].base => End(s, u) <= b
                           /\ End(s, v) <= s.node[u].base => b + z <= s.node[u].base
    BY <1>3
  <2>2. HasTree(s, N) /\ Loose(s, N) /\ v \in N /\ b \in Nat /\ z \in Nat \ {0} /\ b + z <= Top /\ ReArea(s, r, v, b, z, f)
    BY <1>1, <1>5
  <2> HIDE DEF z, f, N
  <2>3. HasTree(r, N) /\ Areas(r, N) = {AreaOf(s, u) : u \in N \ {v}} \cup {new}
    <3>1. FitsIn(s, N, v, b, z)
      BY <2>1, <2>2 DEF FitsIn
    <3> HIDE DEF b
    <3>2. QED
      BY <2>2, <3>1, ReAreaIs
  <2>4. QED
    BY <2>3 DEF N
<1>8. Live(r) = N
  BY <1>5 DEF ReArea, Live
<1>9. Sound(t) /\ Areas(t, Live(t)) = O \cup {new}
  <2>1. v \in Live(r) \cup {Vma!NULL} /\ HasTree(r, Live(r))
    BY <1>7, <1>8
  <2>2. Sound(t) /\ Live(t) = Live(r) /\ Areas(t, Live(t)) = Areas(r, Live(r))
    BY <1>6, <2>1, Recached, ZenonT(60)
  <2>3. QED
    BY <1>7, <1>8, <2>2
<1> HIDE DEF O, a
<1>10. Repaints({a}, {new}, e, 1, f)
  <2>1. \A q \in Vma!Page : HoldsPage(new, q) <=> b <= q /\ q < b + z
    BY <1>1, NewIn
  <2>2. \A q \in Vma!Page : HoldsPage(a, q) <=> b <= q /\ q < e
    BY <1>1, <1>2 DEF HoldsPage
  <2>3. new[3] = f
    OBVIOUS
  <2> HIDE DEF new, b, e, z, f
  <2>4. QED
    BY <1>1, <1>2, <2>1, <2>2, <2>3 DEF Repaints
<1>11. Repaints(O \cup {a}, O \cup {new}, e, 1, f)
  <2> HIDE DEF new, b, e, f
  <2>1. b \in Int /\ e + 1 \in Int /\ e \in Int /\ 1 \in Int /\ b <= e /\ e + 1 <= e + 1
    BY <1>1
  <2>2. QED
    BY <1>1, <1>4, <1>10, <2>1, RepaintsAmong
<1>12. e \in Int /\ 1 \in Int /\ Repaints(Areas(s, Live(s)), Areas(t, Live(t)), e, 1, f)
  BY <1>1, <1>2, <1>9, <1>11
<1>13. QED
  <2> HIDE DEF e, f
  <2>1. Painted(s, t, e, 1, f)
    BY <1>9, <1>12, PaintedIs
  <2>2. QED
    BY <2>1 DEF e, f

(* The head is removed until the tree is empty.                            *)
Emptier(s) == IF s.head = Vma!NULL THEN s ELSE Vma!remove_tree_node(s, s.head)
Emptying(f, s) ==
  f[0] = s /\ \A i \in 0 .. Nodes : (i # 0 /\ f[i - 1] \in SpaceType) => f[i] = Emptier(f[i - 1])

(* Each turn takes one node, so the pool has them all in the end.          *)
LEMMA Empties ==
  ASSUME NEW s, Sound(s), NEW f, Emptying(f, s)
  PROVE  (\A i \in 0 .. Nodes : Sound(f[i])) /\ Live(f[Nodes]) = {}
<1> DEFINE Ok(i) == Sound(f[i]) /\ (Live(f[i]) = {} \/ Cardinality(Live(f[i])) + i <= Nodes)
           Bad == {i \in 0 .. Nodes : ~Ok(i)}
<1>1. Nodes \in Nat /\ Vma!VmaTreeAssumption
  BY SoundIs DEF Vma!VmaTreeAssumption
<1>2. \A r : Sound(r) => Live(r) \in SUBSET Vma!Node
  BY DEF Live
<1>3. Ok(0)
  <2>1. Cardinality(Live(s)) <= Nodes /\ Cardinality(Live(s)) \in Nat
    BY <1>1, <1>2, NodesFinite
  <2>2. QED
    BY <1>1, <2>1 DEF Emptying
<1>4. ASSUME NEW i \in 0 .. Nodes, i # 0, Ok(i - 1) PROVE Ok(i)
  <2> DEFINE r == f[i - 1]
             t == f[i]
  <2>1. Sound(r) /\ r \in SpaceType /\ (Live(r) = {} \/ Cardinality(Live(r)) + (i - 1) <= Nodes)
    BY <1>4, SoundIs
  <2>2. t = Emptier(r)
    BY <1>4, <2>1 DEF Emptying
  <2>3. PICK under : Tree(r, Live(r), under)
    BY <2>1 DEF Sound, HasTree
  <2>4. r.head \in Live(r) \cup {Vma!NULL} /\ (r.head = Vma!NULL => Live(r) = {})
    BY <2>3 DEF Tree, Shaped
  <2> HIDE DEF r, t
  <2>5. CASE r.head = Vma!NULL
    <3>1. t = r
      BY <2>2, <2>5 DEF Emptier
    <3>2. QED
      BY <2>1, <2>4, <2>5, <3>1 DEF t
  <2>6. CASE r.head # Vma!NULL
    <3>1. t = Vma!remove_tree_node(r, r.head) /\ r.head \in Live(r)
      BY <2>2, <2>4, <2>6 DEF Emptier
    <3>2. Sound(t) /\ \E x \in Live(r) : Live(t) = Live(r) \ {x}
      BY <2>1, <3>1, RemoveSound
    <3>3. PICK x \in Live(r) : Live(t) = Live(r) \ {x}
      BY <3>2
    <3> DEFINE A == Live(r)
               B == Live(t)
    <3>4. IsFiniteSet(A) /\ Cardinality(A) \in Nat /\ Cardinality(A) + (i - 1) <= Nodes
      BY <1>1, <1>2, <2>1, <3>1, NodesFinite
    <3>5. Cardinality(B) = Cardinality(A) - 1
      <4>1. x \in A /\ B = A \ {x}
        BY <3>3
      <4> HIDE DEF A, B
      <4>2. QED
        BY <3>4, <4>1, FS_RemoveElement
    <3>6. Cardinality(B) + i <= Nodes
      <4> HIDE DEF A, B
      <4>1. QED
        BY <1>1, <3>4, <3>5
    <3>7. QED
      BY <3>2, <3>6 DEF t
  <2>7. QED
    BY <2>5, <2>6
<1> HIDE DEF Ok
<1>5. Bad = {}
  <2>1. ASSUME Bad # {} PROVE FALSE
    <3>1. PICK i \in Bad : \A j \in Bad : i <= j
      <4>1. Bad \in SUBSET Nat
        BY <1>1
      <4>2. QED
        BY <2>1, <4>1, Least
    <3>2. i # 0 /\ i \in 0 .. Nodes /\ ~Ok(i)
      BY <1>3, <3>1
    <3>3. Ok(i - 1)
      BY <1>1, <3>1, <3>2
    <3>4. QED
      BY <1>4, <3>2, <3>3
  <2>2. QED
    BY <2>1
<1>6. \A i \in 0 .. Nodes : Ok(i)
  BY <1>5
<1>7. Live(f[Nodes]) = {}
  <2> DEFINE L == Live(f[Nodes])
  <2>1. L = {} \/ Cardinality(L) + Nodes <= Nodes
    BY <1>1, <1>6 DEF Ok
  <2>2. IsFiniteSet(L) /\ Cardinality(L) \in Nat
    <3>1. L \in SUBSET Vma!Node
      BY DEF Live
    <3>2. QED
      BY <1>1, <3>1, NodesFinite
  <2> HIDE DEF L
  <2>3. Cardinality(L) = 0 => L = {}
    BY <2>2, FS_EmptySet
  <2>4. QED
    BY <1>1, <2>1, <2>2, <2>3 DEF L
<1>8. QED
  BY <1>6, <1>7 DEF Ok

IsEmptying(f, s, n) ==
  f = [i \in 0 .. n |-> IF i = 0 THEN s
                        ELSE LET r == f[i - 1] IN IF r.head = Vma!NULL THEN r ELSE Vma!remove_tree_node(r, r.head)]

(* The loop of vmm_space_destroy is defined by this recurrence.            *)
LEMMA EmptyingExists ==
  ASSUME NEW s, Sound(s)
  PROVE  \E f : IsEmptying(f, s, Nodes)
<1> DEFINE step == [r \in SpaceType |-> Emptier(r)]
<1>1. Nodes \in Nat
  BY SoundIs DEF Vma!VmaTreeAssumption
<1>2. PICK f : IsWay(f, s, step, Nodes)
  <2> HIDE DEF step
  <2>1. QED
    BY <1>1, WayExists
<1>3. f = [i \in 0 .. Nodes |-> IF i = 0 THEN s ELSE step[f[i - 1]]]
  BY <1>2 DEF IsWay
<1>4. Emptying(f, s)
  <2>1. f[0] = s
    BY <1>1, <1>3
  <2>2. ASSUME NEW i \in 0 .. Nodes, i # 0, f[i - 1] \in SpaceType PROVE f[i] = Emptier(f[i - 1])
    <3>1. f[i] = step[f[i - 1]]
      BY <1>3, <2>2
    <3>2. QED
      BY <2>2, <3>1
  <2>3. QED
    BY <2>1, <2>2 DEF Emptying
<1>5. \A i \in 0 .. Nodes : f[i] \in SpaceType
  BY <1>4, Empties, SoundIs
<1>6. \A i \in 0 .. Nodes : f[i] = IF i = 0 THEN s ELSE Emptier(f[i - 1])
  <2>1. ASSUME NEW i \in 0 .. Nodes, i # 0 PROVE f[i] = Emptier(f[i - 1])
    <3>1. i - 1 \in 0 .. Nodes
      BY <1>1, <2>1, SMTT(30)
    <3>2. QED
      BY <1>4, <1>5, <2>1, <3>1 DEF Emptying
  <2>2. QED
    BY <1>4, <2>1 DEF Emptying
<1>7. f = [i \in 0 .. Nodes |-> f[i]]
  BY <1>3
<1>8. f = [i \in 0 .. Nodes |-> IF i = 0 THEN s ELSE Emptier(f[i - 1])]
  <2> HIDE DEF step
  <2>1. QED
    BY <1>6, <1>7
<1>9. IsEmptying(f, s, Nodes)
  BY <1>8 DEF IsEmptying, Emptier
<1>10. QED
  BY <1>9

-----------------------------------------------------------------------------
(* The nodes that are reached from the head are those of the tree.         *)

Wider(s, R) == R \cup ((UNION {{s.node[v].prev, s.node[v].next} : v \in R}) \ {Vma!NULL})
Reach(f, s) == \A i \in 0 .. Nodes : IF i = 0 THEN f[i] = {s.head} \ {Vma!NULL} ELSE f[i] = Wider(s, f[i - 1])
IsReach(f, s) ==
  f = [i \in 0 .. Nodes |->
        IF i = 0 THEN {s.head} \ {Vma!NULL}
        ELSE LET R == f[i - 1] IN R \cup ((UNION {{s.node[v].prev, s.node[v].next} : v \in R}) \ {Vma!NULL})]

(* What one turn adds.                                                     *)
LEMMA WiderIs ==
  ASSUME NEW s, NEW R, NEW x
  PROVE  x \in Wider(s, R) <=> x \in R \/ (x # Vma!NULL /\ \E v \in R : x \in {s.node[v].prev, s.node[v].next})
<1> DEFINE U == UNION {{s.node[v].prev, s.node[v].next} : v \in R}
           E == \E v \in R : x \in {s.node[v].prev, s.node[v].next}
<1>1. x \in U <=> E
  OBVIOUS
<1>2. Wider(s, R) = R \cup (U \ {Vma!NULL})
  BY Zenon DEF Wider
<1> HIDE DEF U, E
<1>3. x \in Wider(s, R) <=> x \in R \/ (x # Vma!NULL /\ E)
  BY <1>1, <1>2
<1>4. QED
  BY <1>3 DEF E

(* The recursive definition has a solution.                                *)
LEMMA ReachExists ==
  ASSUME NEW s, Sound(s)
  PROVE  \E f : IsReach(f, s)
<1> DEFINE step == [R \in SUBSET Vma!Node |-> Wider(s, R)]
           root == {s.head} \ {Vma!NULL}
<1>1. Nodes \in Nat /\ s \in SpaceType
  BY SoundIs DEF Vma!VmaTreeAssumption
<1>2. root \in SUBSET Vma!Node /\ \A R \in SUBSET Vma!Node : Wider(s, R) \in SUBSET Vma!Node
  <2>1. ASSUME NEW R \in SUBSET Vma!Node, NEW x \in Wider(s, R) PROVE x \in Vma!Node
    <3>1. CASE x \in R
      BY <3>1
    <3>2. CASE x \notin R
      <4>1. PICK v \in R : x \in {s.node[v].prev, s.node[v].next}
        BY <2>1, <3>2, WiderIs
      <4>2. s.node[v].prev \in Link /\ s.node[v].next \in Link
        BY <1>1, <4>1, SoundIs, TreeTypes
      <4>3. x # Vma!NULL
        BY <2>1, <3>2, WiderIs
      <4>4. QED
        BY <4>1, <4>2, <4>3 DEF Link
    <3>3. QED
      BY <3>1, <3>2
  <2>2. s.head \in Link
    BY <1>1 DEF SpaceType
  <2>3. QED
    BY <2>1, <2>2 DEF Link
<1>3. PICK f : IsWay(f, root, step, Nodes)
  <2> HIDE DEF step, root
  <2>1. QED
    BY <1>1, WayExists
<1>4. f = [i \in 0 .. Nodes |-> IF i = 0 THEN root ELSE step[f[i - 1]]]
  BY <1>3 DEF IsWay
<1> DEFINE Bad == {i \in 0 .. Nodes : f[i] \notin SUBSET Vma!Node}
<1>5. Bad = {}
  <2>1. ASSUME Bad # {} PROVE FALSE
    <3>1. PICK i \in Bad : \A j \in Bad : i <= j
      <4>1. Bad \in SUBSET Nat
        BY <1>1
      <4>2. QED
        BY <2>1, <4>1, Least
    <3>2. i # 0
      <4>1. f[0] = root
        BY <1>1, <1>4
      <4>2. QED
        BY <1>2, <3>1, <4>1
    <3>3. i - 1 \in 0 .. Nodes /\ i - 1 \notin Bad /\ i \in 0 .. Nodes
      BY <1>1, <3>1, <3>2
    <3>4. f[i - 1] \in SUBSET Vma!Node
      BY <3>3
    <3>5. f[i] = step[f[i - 1]]
      BY <1>4, <3>2, <3>3
    <3>6. f[i] = Wider(s, f[i - 1])
      BY <3>4, <3>5
    <3>7. f[i] \in SUBSET Vma!Node
      BY <1>2, <3>4, <3>6
    <3>8. QED
      BY <3>1, <3>7
  <2>2. QED
    BY <2>1
<1>6. \A i \in 0 .. Nodes : f[i] = IF i = 0 THEN root ELSE Wider(s, f[i - 1])
  <2>1. ASSUME NEW i \in 0 .. Nodes, i # 0 PROVE f[i] = Wider(s, f[i - 1])
    <3>1. i - 1 \in 0 .. Nodes
      BY <1>1, <2>1
    <3>2. f[i - 1] \in SUBSET Vma!Node
      BY <1>5, <3>1
    <3>3. f[i] = step[f[i - 1]]
      BY <1>4, <2>1
    <3>4. QED
      BY <3>2, <3>3
  <2>2. f[0] = root
    BY <1>1, <1>4
  <2>3. QED
    BY <2>1, <2>2
<1>7. f = [i \in 0 .. Nodes |-> f[i]]
  BY <1>4
<1>8. f = [i \in 0 .. Nodes |-> IF i = 0 THEN root ELSE Wider(s, f[i - 1])]
  <2> HIDE DEF step, root
  <2>1. QED
    BY <1>6, <1>7
<1>9. IsReach(f, s)
  BY <1>8 DEF IsReach, Wider
<1>10. QED
  BY <1>9

(* After as many turns as there are nodes every node of the tree is        *)
(* reached: a node d levels down is reached in d turns.                    *)
LEMMA ReachedIs ==
  ASSUME NEW s, Sound(s), NEW f, Reach(f, s)
  PROVE  f[Nodes] = Live(s)
<1> DEFINE N == Live(s)
<1>1. PICK under : Tree(s, N, under)
  BY DEF Sound, HasTree
<1>2. Nodes \in Nat /\ Vma!NULL \notin N /\ Vma!VmaTreeAssumption /\ N \subseteq Vma!Node /\ s.head \in N \cup {Vma!NULL}
  <2>1. Vma!NULL \notin Vma!Node /\ N \subseteq Vma!Node /\ Nodes \in Nat
    BY SoundIs DEF Vma!VmaTreeAssumption
  <2>2. QED
    BY <1>1, <2>1 DEF Tree, Shaped
<1>3. f[0] = {s.head} \ {Vma!NULL} /\ \A i \in 0 .. Nodes : i # 0 => f[i] = Wider(s, f[i - 1])
  BY <1>2 DEF Reach
<1>4. \A v \in N : s.node[v].prev \in N \cup {Vma!NULL} /\ s.node[v].next \in N \cup {Vma!NULL}
  BY <1>1 DEF Tree, Shaped
<1> HIDE DEF N
<1>5. \A i \in 0 .. Nodes : f[i] \subseteq N
  <2> DEFINE Bad == {i \in 0 .. Nodes : ~(f[i] \subseteq N)}
  <2>1. ASSUME Bad # {} PROVE FALSE
    <3>1. PICK i \in Bad : \A j \in Bad : i <= j
      <4>1. Bad \in SUBSET Nat
        BY <1>2
      <4>2. QED
        BY <2>1, <4>1, Least
    <3>2. i # 0
      BY <1>2, <1>3, <3>1
    <3>3. i - 1 \in 0 .. Nodes /\ i - 1 \notin Bad /\ i \in 0 .. Nodes
      BY <1>2, <3>1, <3>2
    <3>4. f[i - 1] \subseteq N /\ f[i] = Wider(s, f[i - 1])
      BY <1>3, <3>2, <3>3
    <3>5. f[i] \subseteq N
      <4>1. ASSUME NEW x \in f[i] PROVE x \in N
        <5>1. x \in f[i - 1] \/ (x # Vma!NULL /\ \E v \in f[i - 1] : x \in {s.node[v].prev, s.node[v].next})
          BY <3>4, <4>1, WiderIs
        <5>2. QED
          BY <1>4, <3>4, <5>1
      <4>2. QED
        BY <4>1
    <3>6. QED
      BY <3>1, <3>5
  <2>2. QED
    BY <2>1
<1>6. \A i \in 0 .. Nodes : s.head \in N => s.head \in f[i]
  <2> DEFINE Bad == {i \in 0 .. Nodes : ~(s.head \in N => s.head \in f[i])}
  <2>1. ASSUME Bad # {} PROVE FALSE
    <3>1. PICK i \in Bad : \A j \in Bad : i <= j
      <4>1. Bad \in SUBSET Nat
        BY <1>2
      <4>2. QED
        BY <2>1, <4>1, Least
    <3>2. i # 0
      BY <1>2, <1>3, <3>1
    <3>3. i - 1 \in 0 .. Nodes /\ i - 1 \notin Bad /\ i \in 0 .. Nodes
      BY <1>2, <3>1, <3>2
    <3>4. f[i] = Wider(s, f[i - 1])
      BY <1>3, <3>2, <3>3
    <3>5. QED
      BY <3>1, <3>3, <3>4 DEF Wider
  <2>2. QED
    BY <2>1
<1>7. ASSUME NEW v \in N
      PROVE  Cardinality(under[v]) \in Nat /\ Cardinality(under[v]) > 0 /\ Cardinality(under[v]) <= Nodes
  <2>1. under[v] \in SUBSET Vma!Node
    BY <1>1, <1>2, Under
  <2>2. QED
    BY <1>1, <1>2, <2>1, Smaller, NodesFinite
<1>8. \A i \in 0 .. Nodes : \A v \in N : Nodes - Cardinality(under[v]) <= i => v \in f[i]
  <2> DEFINE Bad == {i \in 0 .. Nodes : \E v \in N : Nodes - Cardinality(under[v]) <= i /\ v \notin f[i]}
  <2>1. ASSUME Bad # {} PROVE FALSE
    <3>1. PICK i \in Bad : \A j \in Bad : i <= j
      <4>1. Bad \in SUBSET Nat
        BY <1>2
      <4>2. QED
        BY <2>1, <4>1, Least
    <3>2. PICK v \in N : Nodes - Cardinality(under[v]) <= i /\ v \notin f[i]
      BY <3>1
    <3>3. v # s.head
      BY <1>6, <3>1, <3>2
    <3>4. PICK u \in N : v \in {s.node[u].prev, s.node[u].next}
      BY <1>1, <3>3, HasParent
    <3>5. Cardinality(under[v]) < Cardinality(under[u])
      BY <1>1, <3>4, Smaller
    <3> DEFINE a == Cardinality(under[v])
               b == Cardinality(under[u])
    <3>6. a \in Nat /\ b \in Nat /\ b <= Nodes /\ a < b /\ Nodes - a <= i /\ i \in Nat
      BY <1>2, <1>7, <3>1, <3>2, <3>5
    <3> HIDE DEF a, b
    <3>7. i # 0 /\ i - 1 \in 0 .. Nodes /\ i - 1 \notin Bad /\ i \in 0 .. Nodes /\ Nodes - b <= i - 1
      BY <1>2, <3>1, <3>6
    <3>8. u \in f[i - 1]
      BY <3>7 DEF b
    <3>9. v \in Wider(s, f[i - 1])
      <4>1. v # Vma!NULL
        BY <1>2
      <4>2. QED
        BY <3>4, <3>8, <4>1, WiderIs
    <3>10. QED
      BY <1>3, <3>2, <3>7, <3>9
  <2>2. QED
    BY <2>1
<1>9. \A v \in N : v \in f[Nodes]
  <2>1. ASSUME NEW v \in N PROVE v \in f[Nodes]
    <3>1. Nodes \in 0 .. Nodes /\ Nodes - Cardinality(under[v]) <= Nodes
      BY <1>2, <1>7
    <3>2. QED
      BY <1>8, <3>1
  <2>2. QED
    BY <2>1
<1>10. f[Nodes] \subseteq N
  BY <1>2, <1>5
<1>11. f[Nodes] = N
  BY <1>9, <1>10
<1>12. QED
  BY <1>11 DEF N

(* InTree is what is not in the pool.                                      *)
LEMMA InTreeIs ==
  ASSUME Sound(Vma!Space)
  PROVE  Vma!InTree = Live(Vma!Space)
<1> DEFINE f == CHOOSE g : IsReach(g, Vma!Space)
<1>1. Vma!Space.head = head /\ Vma!Space.node = node
  BY DEF Vma!Space
<1>2. Vma!InTree = f[Nodes]
  BY <1>1 DEF Vma!InTree, IsReach
<1>3. IsReach(f, Vma!Space)
  BY ReachExists
<1> HIDE DEF f
<1>4. f = [i \in 0 .. Nodes |-> IF i = 0 THEN {Vma!Space.head} \ {Vma!NULL} ELSE Wider(Vma!Space, f[i - 1])]
  BY <1>3 DEF IsReach, Wider
<1>5. Reach(f, Vma!Space)
  <2>1. Nodes \in Nat
    BY SoundIs DEF Vma!VmaTreeAssumption
  <2> DEFINE S == Vma!Space
  <2>2. f = [i \in 0 .. Nodes |-> IF i = 0 THEN {S.head} \ {Vma!NULL} ELSE Wider(S, f[i - 1])]
    BY <1>4
  <2> HIDE DEF S
  <2>3. Reach(f, S)
    BY <2>1, <2>2 DEF Reach
  <2>4. QED
    BY <2>3 DEF S
<1>6. QED
  BY <1>2, <1>5, ReachedIs
-----------------------------------------------------------------------------
(* The calls, as steps of the state                                        *)

(* A call turns the pages of one range from one use to another.            *)
Turns(s, t) ==
  \E p, n \in Int : \E o, u :
    (\A q \in Vma!Page : (p <= q /\ q < p + n) => UseAt(s, q) = o) /\ Painted(s, t, p, n, u)

(* A call leaves a sound space.                                            *)
LEMMA TurnsSound ==
  ASSUME NEW s, NEW t, Turns(s, t)
  PROVE  Sound(t)
BY DEF Turns, Painted

LEMMA TurnsPainted ==
  ASSUME NEW s, NEW t, NEW p \in Int, NEW n \in Int, NEW o, NEW u,
         \A q \in Vma!Page : (p <= q /\ q < p + n) => UseAt(s, q) = o, Painted(s, t, p, n, u)
  PROVE  Turns(s, t)
BY DEF Turns

(* A call may change nothing.                                              *)
LEMMA TurnsSame ==
  ASSUME NEW s, NEW t, Painted(s, t, 0, 0, "unused"), Top \in Nat
  PROVE  Turns(s, t)
<1>1. PICK z \in Int : z = 0
  OBVIOUS
<1>2. \A q \in Vma!Page : (z <= q /\ q < z + z) => UseAt(s, q) = "unused"
  BY <1>1 DEF Vma!Page
<1>3. Painted(s, t, z, z, "unused")
  BY <1>1
<1>4. QED
  BY <1>2, <1>3, TurnsPainted

(* A lookup before the call does not matter.                               *)
LEMMA TurnsAfter ==
  ASSUME NEW r, NEW s, NEW t, Painted(r, s, 0, 0, "unused"), Turns(s, t), Top \in Nat
  PROVE  Turns(r, t)
<1>1. PICK p \in Int, n \in Int : \E o, u : (\A q \in Vma!Page : (p <= q /\ q < p + n) => UseAt(s, q) = o) /\ Painted(s, t, p, n, u)
  BY DEF Turns
<1> PICK o, u : (\A q \in Vma!Page : (p <= q /\ q < p + n) => UseAt(s, q) = o) /\ Painted(s, t, p, n, u)
  BY <1>1
<1>2. \A q \in Vma!Page : UseAt(s, q) = UseAt(r, q)
  BY DEF Painted, Vma!Page
<1>3. Painted(r, t, p, n, u)
  BY <1>2 DEF Painted
<1>4. \A q \in Vma!Page : (p <= q /\ q < p + n) => UseAt(r, q) = o
  BY <1>2
<1>5. QED
  BY <1>3, <1>4, TurnsPainted, ZenonT(60)

(* The variables are the fields of the space.                              *)
LEMMA BecomeIs ==
  ASSUME NEW s, Sound(s), Vma!Become(s)
  PROVE  Vma!Space' = s /\ exists /\ exists'
<1>1. s \in SpaceType
  BY SoundIs
<1>2. s = [node |-> s.node, head |-> s.head, cache |-> s.cache, free |-> s.free]
  BY <1>1 DEF SpaceType
<1>3. exists /\ exists' = exists /\ node' = s.node /\ head' = s.head /\ cache' = s.cache /\ free' = s.free
  BY DEF Vma!Become
<1>4. QED
  BY <1>2, <1>3 DEF Vma!Space

LEMMA FieldsIs ==
  Vma!Space.node = node /\ Vma!Space.head = head /\ Vma!Space.cache = cache /\ Vma!Space.free = free
BY DEF Vma!Space

(* What is left by a call on a sound space.                                *)
LeftBy == exists /\ exists' /\ Turns(Vma!Space, Vma!Space')

LEMMA LeftIs ==
  ASSUME NEW t, Turns(Vma!Space, t), Vma!Become(t)
  PROVE  LeftBy
<1>1. Sound(t)
  BY TurnsSound
<1>2. Vma!Space' = t /\ exists /\ exists'
  BY <1>1, BecomeIs
<1>3. QED
  BY <1>2 DEF LeftBy

(* Lookups alone, and calls that do nothing.                               *)
LEMMA FoundTurns ==
  ASSUME NEW s, Sound(s), NEW p \in Vma!Page
  PROVE  Turns(s, Vma!Found(s, p))
<1>1. p \in Int /\ Top \in Nat
  BY SoundIs DEF Vma!Page
<1>2. Painted(s, Vma!Found(s, p), 0, 0, "unused")
  BY <1>1, FoundIs
<1>3. QED
  BY <1>1, <1>2, TurnsSame

LEMMA SameTurns ==
  ASSUME NEW s, Sound(s)
  PROVE  Turns(s, s)
<1>1. Painted(s, s, 0, 0, "unused")
  BY SameSpace
<1>2. Top \in Nat
  BY SoundIs
<1>3. QED
  BY <1>1, <1>2, TurnsSame

(* The pages of an area have one use.                                      *)
LEMMA WithinUse ==
  ASSUME NEW s, NEW v, NEW p, NEW n, Within(s, v, p, n)
  PROVE  \A q \in Vma!Page : (p <= q /\ q < p + n) => UseAt(s, q) = s.node[v].flags
<1>1. Sound(s) /\ v \in Live(s) /\ v # Vma!NULL
  BY WithinIs, SoundIs DEF Within
<1>2. ASSUME NEW q \in Vma!Page, p <= q, q < p + n PROVE UseAt(s, q) = s.node[v].flags
  <2>1. q \in Int
    BY WithinIs
  <2>2. Vma!Inside(s, v, q)
    BY <1>2, <2>1, WithinIs DEF Vma!Inside, End
  <2>3. Vma!find_vma(s, q) = v
    BY <1>1, <2>1, <2>2, FindsNode
  <2>4. QED
    BY <1>1, <2>3 DEF UseAt
<1>3. QED
  BY <1>2

LEMMA WithinTurns ==
  ASSUME NEW s, NEW v, NEW p, NEW n, Within(s, v, p, n), NEW t, NEW u, Painted(s, t, p, n, u)
  PROVE  Turns(s, t)
<1>1. p \in Int /\ n \in Int
  BY WithinIs
<1>2. \A q \in Vma!Page : (p <= q /\ q < p + n) => UseAt(s, q) = s.node[v].flags
  BY WithinUse
<1>3. QED
  BY <1>1, <1>2, TurnsPainted

-----------------------------------------------------------------------------
(* The calls, one by one.                                                  *)
LEMMA vmm_allocateTurns ==
  ASSUME Sound(Vma!Space), NEW p \in Vma!Page, NEW n \in Nat \ {0}, p + n <= Top, NEW f \in Flags, Vma!vmm_allocate(p, n, f)
  PROVE  LeftBy
<1>1. p \in Int /\ n \in Int /\ f \in Flags \cup {"none"}
  BY SoundIs DEF Vma!Page
<1>2. \A q \in p .. (p + n - 1) : Vma!find_vma(Vma!Space, q) = Vma!NULL
  BY DEF Vma!vmm_allocate
<1>3. CASE free = {} /\ Vma!Become(Vma!Space)
  BY <1>3, SameTurns, LeftIs
<1>4. CASE free # {} /\ Vma!Become([Vma!Inserted(Vma!Space, p, n, f) EXCEPT !.cache = Vma!Lowest(free)])
  <2> DEFINE t == [Vma!Inserted(Vma!Space, p, n, f) EXCEPT !.cache = Vma!Lowest(Vma!Space.free)]
  <2>1. Vma!Become(t) /\ Vma!Space.free # {}
    BY <1>4, FieldsIs
  <2>2. Painted(Vma!Space, t, p, n, f)
    BY <1>1, <1>2, <2>1, vmm_allocateIs
  <2>3. \A q \in Vma!Page : (p <= q /\ q < p + n) => UseAt(Vma!Space, q) = "unused"
    <3>1. ASSUME NEW q \in Vma!Page, p <= q, q < p + n PROVE UseAt(Vma!Space, q) = "unused"
      <4>1. q \in p .. (p + n - 1)
        BY <1>1, <3>1, SoundIs DEF Vma!Page
      <4>2. QED
        BY <1>2, <4>1 DEF UseAt
    <3>2. QED
      BY <3>1
  <2> HIDE DEF t
  <2>4. Turns(Vma!Space, t)
    BY <1>1, <2>2, <2>3, TurnsPainted
  <2>5. QED
    BY <2>1, <2>4, LeftIs
<1>5. QED
  BY <1>3, <1>4 DEF Vma!vmm_allocate

LEMMA vmm_reserveTurns ==
  ASSUME Sound(Vma!Space), NEW p \in Vma!Page, NEW n \in {1, 2}, p + n <= Top, Vma!vmm_reserve(p, n)
  PROVE  LeftBy
<1> DEFINE last == p + n - 1
<1>1. p \in Int /\ n \in Int /\ n \in Nat \ {0} /\ last \in Vma!Page /\ last \in Int
  BY SoundIs DEF Vma!Page
<1>2. CASE Vma!Become(Vma!Found(Vma!Space, p))
  BY <1>2, FoundTurns, LeftIs
<1>3. CASE Vma!Become(Vma!Found(Vma!Space, last))
  <2>1. Turns(Vma!Space, Vma!Found(Vma!Space, last))
    BY <1>1, FoundTurns
  <2>2. QED
    BY <1>3, <2>1, LeftIs
<1>4. CASE Vma!Become(Vma!Space)
  BY <1>4, SameTurns, LeftIs
<1>5. CASE /\ Vma!find_vma(Vma!Space, p) = Vma!NULL /\ Vma!find_vma(Vma!Space, last) = Vma!NULL
           /\ free # {} /\ Vma!Become(Vma!Inserted(Vma!Space, p, n, "none"))
  <2>1. \A q \in p .. (p + n - 1) : Vma!find_vma(Vma!Space, q) = Vma!NULL
    <3>1. ASSUME NEW q \in p .. (p + n - 1) PROVE q = p \/ q = last
      BY <1>1
    <3>2. QED
      BY <1>5, <3>1
  <2> DEFINE t == Vma!Inserted(Vma!Space, p, n, "none")
  <2>2. Vma!Become(t) /\ Vma!Space.free # {}
    BY <1>5, FieldsIs
  <2>3. Painted(Vma!Space, t, p, n, "none")
    BY <1>1, <2>1, <2>2, Claims
  <2>4. \A q \in Vma!Page : (p <= q /\ q < p + n) => UseAt(Vma!Space, q) = "unused"
    <3>1. ASSUME NEW q \in Vma!Page, p <= q, q < p + n PROVE UseAt(Vma!Space, q) = "unused"
      <4>1. q \in p .. (p + n - 1)
        BY <1>1, <3>1, SoundIs DEF Vma!Page
      <4>2. QED
        BY <2>1, <4>1 DEF UseAt
    <3>2. QED
      BY <3>1
  <2> HIDE DEF t
  <2>5. Turns(Vma!Space, t)
    BY <1>1, <2>3, <2>4, TurnsPainted
  <2>6. QED
    BY <2>2, <2>5, LeftIs
<1>6. QED
  BY <1>2, <1>3, <1>4, <1>5 DEF Vma!vmm_reserve

(* A page that is in the area a call is asked for.                         *)
LEMMA HeldIs ==
  ASSUME Sound(Vma!Space), NEW p \in Vma!Page, NEW n \in Nat, Vma!Holds(Vma!find_vma(Vma!Space, p), p, n),
         NEW v, v = Vma!find_vma(Vma!Space, p), NEW s, s = Vma!Found(Vma!Space, p)
  PROVE  /\ Within(s, v, p, n) /\ s.node = node /\ s.free = free /\ Painted(Vma!Space, s, 0, 0, "unused")
         /\ End(s, v) = node[v].base + node[v].size
<1>1. p \in Int
  BY SoundIs DEF Vma!Page
<1>2. /\ Sound(s) /\ Live(s) = Live(Vma!Space) /\ s.node = Vma!Space.node /\ s.free = Vma!Space.free
      /\ Painted(Vma!Space, s, 0, 0, "unused")
  BY <1>1, FoundIs
<1>3. s.node = node /\ s.free = free /\ End(s, v) = node[v].base + node[v].size
  BY <1>2, FieldsIs DEF End
<1>4. v # Vma!NULL /\ p + n <= node[v].base + node[v].size
  BY DEF Vma!Holds
<1>5. v \in Live(Vma!Space) /\ Vma!Inside(Vma!Space, v, p)
  BY <1>1, <1>4, FindsIt
<1>6. node[v].base <= p /\ p < node[v].base + node[v].size
  BY <1>5, FieldsIs, <1>1, SoundIs DEF Vma!Inside
<1>7. Within(s, v, p, n)
  BY <1>2, <1>3, <1>4, <1>5, <1>6 DEF Within
<1>8. QED
  BY <1>2, <1>3, <1>7

(* What is done to the space once the page has been looked up.             *)
LEMMA WithinLeft ==
  ASSUME Sound(Vma!Space), NEW v, NEW p, NEW n, NEW s, Within(s, v, p, n), Painted(Vma!Space, s, 0, 0, "unused"),
         NEW t, NEW u, Painted(s, t, p, n, u), Vma!Become(t)
  PROVE  LeftBy
<1>1. Turns(s, t)
  BY WithinTurns
<1>2. Top \in Nat
  BY SoundIs
<1>3. Turns(Vma!Space, t)
  BY <1>1, <1>2, TurnsAfter
<1>4. QED
  BY <1>3, LeftIs

(* A range that is refused.                                                *)
LEMMA RefusedLeft ==
  ASSUME Sound(Vma!Space), NEW p \in Vma!Page, Vma!Become(Vma!Found(Vma!Space, p))
  PROVE  LeftBy
BY FoundTurns, LeftIs

LEMMA vmm_freeTurns ==
  ASSUME Sound(Vma!Space), NEW p \in Vma!Page, NEW n \in Nat, Vma!vmm_free(p, n)
  PROVE  LeftBy
<1> DEFINE v == Vma!find_vma(Vma!Space, p)
           s == Vma!Found(Vma!Space, p)
           a == node[v]
           end == a.base + a.size
<1>1. CASE Vma!Become(Vma!Found(Vma!Space, p))
  BY <1>1, RefusedLeft
<1>2. CASE Vma!Holds(v, p, n) /\ ~Vma!Become(s)
  <2>1. /\ Within(s, v, p, n) /\ s.node = node /\ s.free = free /\ Painted(Vma!Space, s, 0, 0, "unused")
        /\ End(s, v) = end
    BY <1>2, HeldIs
  <2>2. \/ p = a.base /\ p + n = end /\ Vma!Become(Vma!remove_tree_node(s, v))
        \/ p = a.base /\ p + n < end /\ Vma!Become(Vma!Uncached(Vma!TrimmedFront(s, v, n)))
        \/ p > a.base /\ p + n = end /\ Vma!Become(Vma!Uncached([s EXCEPT !.node[v].size = @ - n]))
        \/ /\ p > a.base /\ p + n < end /\ free # {}
           /\ Vma!Become(Vma!Uncached(Vma!Inserted([s EXCEPT !.node[v].size = p - a.base], p + n, end - (p + n), a.flags)))
    BY <1>2 DEF Vma!vmm_free, Vma!Refused
  <2> HIDE DEF v, s
  <2>3. CASE p = a.base /\ p + n = end /\ Vma!Become(Vma!remove_tree_node(s, v))
    <3> DEFINE t == Vma!remove_tree_node(s, v)
    <3>1. Painted(s, t, p, n, "unused")
      BY <2>1, <2>3, FreeWhole
    <3> HIDE DEF t
    <3>2. QED
      BY <2>1, <2>3, <3>1, WithinLeft DEF t
  <2>4. CASE p = a.base /\ p + n < end /\ Vma!Become(Vma!Uncached(Vma!TrimmedFront(s, v, n)))
    <3> DEFINE t == Vma!Uncached(Vma!TrimmedFront(s, v, n))
    <3>1. Painted(s, t, p, n, "unused")
      BY <2>1, <2>4, FreeFront
    <3>2. QED
      BY <2>1, <2>4, <3>1, WithinLeft
  <2>5. CASE p > a.base /\ p + n = end /\ Vma!Become(Vma!Uncached([s EXCEPT !.node[v].size = @ - n]))
    <3> DEFINE t == Vma!Uncached([s EXCEPT !.node[v].size = s.node[v].size - n])
    <3>1. Painted(s, t, p, n, "unused")
      BY <2>1, <2>5, FreeBack
    <3>2. Vma!Become(t)
      BY <2>5
    <3> HIDE DEF t
    <3>3. QED
      BY <2>1, <3>1, <3>2, WithinLeft
  <2>6. CASE /\ p > a.base /\ p + n < end /\ free # {}
             /\ Vma!Become(Vma!Uncached(Vma!Inserted([s EXCEPT !.node[v].size = p - a.base], p + n, end - (p + n), a.flags)))
    <3> DEFINE t == Vma!Uncached(Vma!Inserted([s EXCEPT !.node[v].size = p - s.node[v].base],
                                      p + n, End(s, v) - (p + n), s.node[v].flags))
    <3>1. Painted(s, t, p, n, "unused")
      BY <2>1, <2>6, FreeMiddle
    <3>2. Vma!Become(t)
      BY <2>1, <2>6
    <3> HIDE DEF t
    <3>3. QED
      BY <2>1, <3>1, <3>2, WithinLeft
  <2>7. QED
    BY <2>2, <2>3, <2>4, <2>5, <2>6
<1>3. QED
  BY <1>1, <1>2 DEF Vma!vmm_free, Vma!Refused

LEMMA vmm_protectTurns ==
  ASSUME Sound(Vma!Space), NEW p \in Vma!Page, NEW n \in Nat \ {0}, NEW g \in Flags, Vma!vmm_protect(p, n, g)
  PROVE  LeftBy
<1> DEFINE v == Vma!find_vma(Vma!Space, p)
           s == Vma!Found(Vma!Space, p)
           a == node[v]
           end == a.base + a.size
           mid == Vma!vma_alloc(s, p, n, g)
           both == Vma!vma_alloc(mid, p + n, end - (p + n), a.flags)
           left == Vma!Inserted(Vma!remove_tree_node(both, v), a.base, p - a.base, a.flags)
<1>1. CASE Vma!Become(Vma!Found(Vma!Space, p))
  BY <1>1, RefusedLeft
<1>2. CASE Vma!Holds(v, p, n) /\ ~Vma!Become(s)
  <2>1. /\ Within(s, v, p, n) /\ s.node = node /\ s.free = free /\ Painted(Vma!Space, s, 0, 0, "unused")
        /\ End(s, v) = end /\ n > 0
    BY <1>2, HeldIs
  <2>2. \/ p = a.base /\ p + n = end /\ Vma!Become(Vma!Uncached([s EXCEPT !.node[v].flags = g]))
        \/ p = a.base /\ p + n < end /\ free # {} /\ Vma!Become(Vma!Uncached(Vma!Inserted(Vma!TrimmedFront(s, v, n), p, n, g)))
        \/ p > a.base /\ p + n = end /\ free # {}
           /\ Vma!Become(Vma!Uncached(Vma!Inserted([s EXCEPT !.node[v].size = @ - n], p, n, g)))
        \/ p > a.base /\ p + n < end /\ Cardinality(free) >= 2
           /\ Vma!Become(Vma!Uncached(Vma!insert_vma(Vma!insert_vma(left, Vma!Lowest(s.free)), Vma!Lowest(mid.free))))
    <3>1. Vma!Cardinality(free) = Cardinality(free)
      BY DEF Vma!Cardinality, Cardinality
    <3>2. QED
      BY <1>2, <3>1 DEF Vma!vmm_protect, Vma!Refused
  <2>3. CASE p = a.base /\ p + n = end /\ Vma!Become(Vma!Uncached([s EXCEPT !.node[v].flags = g]))
    <3> DEFINE t == Vma!Uncached([s EXCEPT !.node[v].flags = g])
    <3> HIDE DEF v, s
    <3>1. Painted(s, t, p, n, g)
      BY <2>1, <2>3, ProtectAll
    <3> HIDE DEF t
    <3>2. QED
      BY <2>1, <2>3, <3>1, WithinLeft DEF t
  <2>4. CASE p = a.base /\ p + n < end /\ free # {} /\ Vma!Become(Vma!Uncached(Vma!Inserted(Vma!TrimmedFront(s, v, n), p, n, g)))
    <3> DEFINE t == Vma!Uncached(Vma!Inserted(Vma!TrimmedFront(s, v, n), p, n, g))
    <3> HIDE DEF v, s
    <3>1. Painted(s, t, p, n, g)
      BY <2>1, <2>4, ProtectFront
    <3>2. QED
      BY <2>1, <2>4, <3>1, WithinLeft
  <2>5. CASE /\ p > a.base /\ p + n = end /\ free # {}
             /\ Vma!Become(Vma!Uncached(Vma!Inserted([s EXCEPT !.node[v].size = @ - n], p, n, g)))
    <3> DEFINE t == Vma!Uncached(Vma!Inserted([s EXCEPT !.node[v].size = s.node[v].size - n], p, n, g))
    <3> HIDE DEF v, s
    <3>1. Painted(s, t, p, n, g)
      BY <2>1, <2>5, ProtectBack
    <3>2. Vma!Become(t)
      BY <2>5
    <3> HIDE DEF t
    <3>3. QED
      BY <2>1, <3>1, <3>2, WithinLeft
  <2>6. CASE /\ p > a.base /\ p + n < end /\ Cardinality(free) >= 2
             /\ Vma!Become(Vma!Uncached(Vma!insert_vma(Vma!insert_vma(left, Vma!Lowest(s.free)), Vma!Lowest(mid.free))))
    <3> DEFINE e == End(s, v) - (p + n)
               w == s.node[v]
               both2 == Vma!vma_alloc(mid, p + n, e, w.flags)
               left2 == Vma!Inserted(Vma!remove_tree_node(both2, v), w.base, p - w.base, w.flags)
               t == Vma!Uncached(Vma!insert_vma(Vma!insert_vma(left2, Vma!Lowest(s.free)), Vma!Lowest(mid.free)))
    <3>1. both2 = both
      BY <2>1
    <3>2. left2 = left
      BY <2>1, <3>1
    <3>3. Vma!Become(t)
      BY <2>6, <3>2
    <3> HIDE DEF v, s, mid
    <3>4. Painted(s, t, p, n, g)
      BY <2>1, <2>6, ProtectMiddle DEF mid
    <3> HIDE DEF t
    <3>5. QED
      BY <2>1, <3>3, <3>4, WithinLeft
  <2>7. QED
    BY <2>2, <2>3, <2>4, <2>5, <2>6
<1>3. QED
  BY <1>1, <1>2 DEF Vma!vmm_protect, Vma!Refused

LEMMA vmm_resizeTurns ==
  ASSUME Sound(Vma!Space), NEW v \in Vma!Node \ free, Vma!vmm_resize(v)
  PROVE  LeftBy
<1> DEFINE s == Vma!Found(Vma!Space, node[v].base)
           end == node[v].base + node[v].size
<1>1. v \in Live(Vma!Space) /\ node[v] = Vma!Space.node[v]
  BY FieldsIs DEF Live
<1>2. /\ node[v].base \in Vma!Page /\ node[v].base \in Int /\ node[v].size \in Nat \ {0} /\ end <= Top /\ end \in Int
      /\ Top \in Nat /\ node[v].flags \in Flags \cup {"none"}
  BY <1>1, SoundIs DEF Vma!Page
<1>3. /\ Sound(s) /\ Live(s) = Live(Vma!Space) /\ s.node = node /\ Painted(Vma!Space, s, 0, 0, "unused")
  BY <1>2, FoundIs, FieldsIs, ZenonT(60)
<1>4. CASE Vma!find_vma(s, end) # Vma!NULL /\ Vma!Become(Vma!Found(s, end))
  <2>1. end < Top
    <3>1. Vma!find_vma(s, end) \in Live(s) /\ Vma!Inside(s, Vma!find_vma(s, end), end)
      BY <1>2, <1>3, <1>4, FindsIt
    <3>2. QED
      <4> DEFINE w == Vma!find_vma(s, end)
      <4> HIDE DEF w, s, end
      <4>1. s.node[w].base \in Nat /\ s.node[w].size \in Nat /\ s.node[w].base + s.node[w].size <= Top
        BY <1>3, <3>1, SoundIs DEF w, Vma!Page, End
      <4>2. end < s.node[w].base + s.node[w].size
        BY <3>1 DEF w, Vma!Inside
      <4>3. QED
        BY <1>2, <4>1, <4>2
  <2>2. end \in Vma!Page
    BY <1>2, <2>1 DEF Vma!Page
  <2>3. Turns(s, Vma!Found(s, end))
    BY <1>3, <2>2, FoundTurns
  <2> HIDE DEF s
  <2>4. Turns(Vma!Space, Vma!Found(s, end))
    BY <1>2, <1>3, <2>3, TurnsAfter
  <2>5. QED
    BY <1>4, <2>4, LeftIs
<1>5. CASE Vma!Become(s)
  BY <1>2, <1>5, RefusedLeft
<1>6. CASE Vma!find_vma(s, end) = Vma!NULL /\ end < Top /\ Vma!Become([s EXCEPT !.node[v].size = @ + 1, !.cache = v])
  <2> DEFINE t == [s EXCEPT !.node[v].size = s.node[v].size + 1, !.cache = v]
  <2>1. Vma!Become(t)
    BY <1>6
  <2> HIDE DEF s
  <2>2. End(s, v) = end /\ v \in Live(s)
    BY <1>1, <1>3 DEF End
  <2>3. Painted(s, t, end, 1, s.node[v].flags)
    BY <1>3, <1>6, <2>2, Grows
  <2>4. \A q \in Vma!Page : (end <= q /\ q < end + 1) => UseAt(s, q) = "unused"
    <3>1. ASSUME NEW q \in Vma!Page, end <= q, q < end + 1 PROVE UseAt(s, q) = "unused"
      <4>1. q = end
        BY <1>2, <3>1 DEF Vma!Page
      <4>2. QED
        BY <1>6, <4>1 DEF UseAt
    <3>2. QED
      BY <3>1
  <2> HIDE DEF t, end
  <2>5. Turns(s, t)
    <3>1. PICK k \in Int : k = 1
      OBVIOUS
    <3>2. (\A q \in Vma!Page : (end <= q /\ q < end + k) => UseAt(s, q) = "unused") /\ Painted(s, t, end, k, s.node[v].flags)
      BY <2>3, <2>4, <3>1
    <3>3. end \in Int
      BY <1>2
    <3>4. QED
      BY <3>2, <3>3, TurnsPainted
  <2>6. Turns(Vma!Space, t)
    BY <1>2, <1>3, <2>5, TurnsAfter
  <2>7. QED
    BY <2>1, <2>6, LeftIs
<1>7. QED
  BY <1>4, <1>5, <1>6 DEF Vma!vmm_resize

-----------------------------------------------------------------------------
(* The inductive invariant                                                 *)

(* The nodes that are not in the pool are a search tree of areas apart,    *)
(* with the cache on one of them, and there is none before the space is    *)
(* created.                                                                *)
TreeInv == exists \in BOOLEAN /\ Sound(Vma!Space) /\ (exists \/ Live(Vma!Space) = {})

(* An empty tree is a tree.                                                *)
LEMMA TreeInitIs ==
  ASSUME Vma!VmaTreeAssumption, Vma!Init
  PROVE  TreeInv
<1> DEFINE s == Vma!Space
           under == [v \in Link |-> {}]
<1>1. s.node = node /\ s.head = Vma!NULL /\ s.cache = Vma!NULL /\ s.free = Vma!Node /\ node = [v \in Vma!Node |-> Vma!Blank]
  BY FieldsIs DEF Vma!Init
<1>2. 0 \in Vma!Page /\ 0 \in 0 .. Top /\ Vma!Blank \in NodeType
  <2>1. Top \in Nat \ {0}
    BY DEF Vma!VmaTreeAssumption
  <2>2. 0 \in Vma!Page /\ 0 \in 0 .. Top
    BY <2>1 DEF Vma!Page
  <2>3. QED
    BY <2>2 DEF Vma!Blank, NodeType, Link
<1>3. s \in SpaceType
  <2>1. node \in [Vma!Node -> NodeType]
    BY <1>1, <1>2
  <2>2. head \in Link /\ cache \in Link /\ free \in SUBSET Vma!Node
    BY DEF Vma!Init, Link
  <2>3. QED
    BY <2>1, <2>2 DEF SpaceType, Vma!Space
<1>4. Shaped(s, {}, under)
  <2>1. under \in [Link -> SUBSET {}] /\ under[Vma!NULL] = {} /\ under[s.head] = {}
    BY <1>1 DEF Link
  <2> HIDE DEF under, s
  <2>2. QED
    BY <1>1, <2>1 DEF Shaped
<1>5. Sized(s, {})
  BY DEF Sized
<1>6. HasTree(s, {})
  <2> HIDE DEF under, s
  <2>1. Tree(s, {}, under)
    BY <1>3, <1>4, <1>5 DEF Tree
  <2>2. QED
    BY <2>1 DEF HasTree
<1>7. Live(s) = {}
  BY <1>1 DEF Live
<1>8. Sound(s)
  BY <1>1, <1>6, <1>7 DEF Sound, Cached
<1>9. QED
  BY <1>7, <1>8 DEF TreeInv, Vma!Init

(* Creating the space leaves the nodes as they are.                        *)
LEMMA CreateIs ==
  ASSUME Vma!vmm_space_create
  PROVE  Vma!Space' = Vma!Space /\ ~exists /\ exists' = TRUE
BY DEF Vma!vmm_space_create, Vma!Space

(* Destroying it leaves no node in the tree.                               *)
LEMMA DestroyIs ==
  ASSUME Sound(Vma!Space), Vma!vmm_space_destroy
  PROVE  exists /\ exists' = FALSE /\ Sound(Vma!Space') /\ Live(Vma!Space') = {}
<1> DEFINE f == CHOOSE g : IsEmptying(g, Vma!Space, Nodes)
           last == f[Nodes]
           t == Vma!Uncached(last)
<1>1. /\ exists /\ exists' = FALSE
      /\ node' = last.node /\ head' = last.head /\ cache' = Vma!NULL /\ free' = last.free
  BY DEF Vma!vmm_space_destroy, IsEmptying
<1>2. IsEmptying(f, Vma!Space, Nodes)
  BY EmptyingExists
<1> HIDE DEF f
<1>3. Nodes \in Nat
  BY SoundIs DEF Vma!VmaTreeAssumption
<1>4. Emptying(f, Vma!Space)
  <2> DEFINE s == Vma!Space
  <2>1. f = [i \in 0 .. Nodes |-> IF i = 0 THEN s ELSE Emptier(f[i - 1])]
    BY <1>2 DEF IsEmptying, Emptier
  <2> HIDE DEF s
  <2>2. f[0] = s /\ \A i \in 0 .. Nodes : i # 0 => f[i] = Emptier(f[i - 1])
    BY <1>3, <2>1
  <2>3. Emptying(f, s)
    BY <2>2 DEF Emptying
  <2>4. QED
    BY <2>3 DEF s
<1>5. Sound(last) /\ Live(last) = {}
  <2>1. (\A i \in 0 .. Nodes : Sound(f[i])) /\ Live(f[Nodes]) = {}
    BY <1>4, Empties
  <2>2. QED
    BY <1>3, <2>1
<1>6. Sound(t) /\ Live(t) = {} /\ last \in SpaceType
  <2>1. Sound(t) /\ last \in SpaceType
    BY <1>5, UncachedIs, SoundIs DEF Sound
  <2>2. t.free = last.free
    BY <2>1 DEF SpaceType, Vma!Uncached
  <2>3. QED
    BY <1>5, <2>1, <2>2 DEF Live
<1>7. Vma!Space' = t
  <2> HIDE DEF last
  <2>1. t = [node |-> last.node, head |-> last.head, cache |-> Vma!NULL, free |-> last.free]
    BY <1>6 DEF SpaceType, Vma!Uncached
  <2>2. QED
    BY <1>1, <2>1 DEF Vma!Space
<1>8. QED
  BY <1>1, <1>6, <1>7

(* What a step does: a call on the space, or its creation or destruction.  *)
TreeSteps ==
  \/ LeftBy
  \/ Vma!Space' = Vma!Space /\ ~exists /\ exists' = TRUE
  \/ exists /\ exists' = FALSE /\ Sound(Vma!Space') /\ Live(Vma!Space') = {}
  \/ Vma!Space' = Vma!Space /\ exists' = exists

(* Each action is one of these.                                            *)
LEMMA TreeNextIs ==
  ASSUME Vma!VmaTreeAssumption, TreeInv, [Vma!Next]_(Vma!vars)
  PROVE  TreeSteps
<1>1. Sound(Vma!Space)
  BY DEF TreeInv
<1>2. /\ AllocSizes \subseteq Nat \ {0} /\ ProtectSizes \subseteq Nat \ {0}
      /\ ReserveSizes \subseteq {1, 2} /\ FreeSizes \subseteq Nat
  BY DEF Vma!VmaTreeAssumption
<1>3. CASE \E p \in Vma!Page, n \in AllocSizes, flags \in Flags : p + n <= Top /\ Vma!vmm_allocate(p, n, flags)
  BY <1>1, <1>2, <1>3, vmm_allocateTurns DEF TreeSteps
<1>4. CASE \E p \in Vma!Page, n \in ReserveSizes : p + n <= Top /\ Vma!vmm_reserve(p, n)
  BY <1>1, <1>2, <1>4, vmm_reserveTurns DEF TreeSteps
<1>5. CASE \E p \in Vma!Page : Vma!vmm_query(p)
  BY <1>1, <1>5, RefusedLeft DEF TreeSteps, Vma!vmm_query
<1>6. CASE \E p \in Vma!Page, n \in FreeSizes : Vma!vmm_free(p, n)
  BY <1>1, <1>2, <1>6, vmm_freeTurns DEF TreeSteps
<1>7. CASE \E p \in Vma!Page, n \in ProtectSizes, flags \in Flags : Vma!vmm_protect(p, n, flags)
  BY <1>1, <1>2, <1>7, vmm_protectTurns DEF TreeSteps
<1>8. CASE \E v \in Vma!Node \ free : Vma!vmm_resize(v)
  BY <1>1, <1>8, vmm_resizeTurns DEF TreeSteps
<1>9. CASE Vma!vmm_space_create
  BY <1>9, CreateIs DEF TreeSteps
<1>10. CASE Vma!vmm_space_destroy
  BY <1>1, <1>10, DestroyIs DEF TreeSteps
<1>11. CASE UNCHANGED Vma!vars
  BY <1>11 DEF Vma!vars, TreeSteps, Vma!Space
<1>12. QED
  BY <1>3, <1>4, <1>5, <1>6, <1>7, <1>8, <1>9, <1>10, <1>11 DEF Vma!Next

(* Each of these keeps the invariant.                                      *)
LEMMA TreeStepsKeep ==
  ASSUME TreeInv, TreeSteps
  PROVE  TreeInv'
<1>1. CASE LeftBy
  <2> DEFINE t == Vma!Space'
  <2>1. Sound(t)
    BY <1>1, TurnsSound DEF LeftBy
  <2>2. QED
    BY <1>1, <2>1 DEF TreeInv, LeftBy
<1>2. CASE Vma!Space' = Vma!Space /\ ~exists /\ exists' = TRUE
  BY <1>2 DEF TreeInv
<1>3. CASE exists /\ exists' = FALSE /\ Sound(Vma!Space') /\ Live(Vma!Space') = {}
  BY <1>3 DEF TreeInv
<1>4. CASE Vma!Space' = Vma!Space /\ exists' = exists
  BY <1>4 DEF TreeInv
<1>5. QED
  BY <1>1, <1>2, <1>3, <1>4 DEF TreeSteps

(* The invariant holds throughout.                                         *)
LEMMA TreeInvariance ==
  ASSUME Vma!VmaTreeAssumption
  PROVE  Vma!Spec => []TreeInv
<1>1. Vma!Init => TreeInv
  BY TreeInitIs
<1>2. TreeInv /\ [Vma!Next]_(Vma!vars) => TreeInv'
  BY TreeNextIs, TreeStepsKeep
<1>3. QED
  BY <1>1, <1>2, PTL DEF Vma!Spec

(* It is more than TreeExact says.                                         *)
LEMMA TreeInvExact ==
  ASSUME TreeInv
  PROVE  Vma!TreeExact
<1>1. Sound(Vma!Space) /\ exists \in BOOLEAN
  BY DEF TreeInv
<1>2. Vma!TypeOK
  <2>1. Vma!Space \in SpaceType
    BY <1>1, SoundIs
  <2>2. node \in [Vma!Node -> NodeType] /\ head \in Link /\ cache \in Link /\ free \in SUBSET Vma!Node
    BY <2>1, FieldsIs DEF SpaceType
  <2>3. QED
    BY <1>1, <2>2 DEF Vma!TypeOK, NodeType, Link
<1>3. Vma!InTree = Vma!Node \ free
  BY <1>1, InTreeIs, FieldsIs DEF Live
<1>4. Vma!NoNodeLost
  BY <1>2, <1>3 DEF Vma!NoNodeLost, Vma!TypeOK
<1>5. Vma!FindExact
  <2>1. ASSUME NEW p \in Vma!Page
        PROVE  IF Vma!find_vma(Vma!Space, p) = Vma!NULL THEN {v \in Vma!InTree : Vma!Inside(Vma!Space, v, p)} = {}
               ELSE Vma!find_vma(Vma!Space, p) \in {v \in Vma!InTree : Vma!Inside(Vma!Space, v, p)}
    <3>1. p \in Int
      BY <1>1, SoundIs DEF Vma!Page
    <3>2. \/ Vma!find_vma(Vma!Space, p) \in Vma!InTree /\ Vma!Inside(Vma!Space, Vma!find_vma(Vma!Space, p), p)
          \/ Vma!find_vma(Vma!Space, p) = Vma!NULL /\ \A v \in Vma!InTree : ~Vma!Inside(Vma!Space, v, p)
      BY <1>1, <3>1, FindsIt, InTreeIs
    <3>3. Vma!NULL \notin Vma!InTree
      BY <1>1, <1>3, SoundIs
    <3>4. QED
      BY <3>2, <3>3
  <2>2. QED
    BY <2>1 DEF Vma!FindExact
<1>6. QED
  BY <1>2, <1>4, <1>5 DEF Vma!TreeExact

(* Whatever calls are made, every node is in the tree or in the pool, and  *)
(* a lookup finds the node that holds the page, by the cache or by the     *)
(* walk, if there is one: remove_tree_node loses no subtree, and no call   *)
(* leaves the cache stale.                                                 *)
THEOREM TreeIsExact ==
  ASSUME Vma!VmaTreeAssumption
  PROVE  Vma!Spec => []Vma!TreeExact
<1>1. Vma!Spec => []TreeInv
  BY TreeInvariance
<1>2. TreeInv => Vma!TreeExact
  BY TreeInvExact
<1>3. QED
  BY <1>1, <1>2, PTL

-----------------------------------------------------------------------------
(* The abstract address space                                              *)

(* The pages as the abstract space shows them.                             *)
RowOf(s) == [q \in Vma!Page |-> UseAt(s, q)]
TreeViewOf(s, e) == [x \in IF e THEN {"space"} ELSE {} |-> RowOf(s)]

(* They are what find_vma finds, before and after a step.                  *)
LEMMA TreeViewIs ==
  Vma!View = TreeViewOf(Vma!Space, exists) /\ Vma!View' = TreeViewOf(Vma!Space', exists')
<1>1. \A p \in Vma!Page : Vma!Shown(p) = UseAt(Vma!Space, p)
  BY FieldsIs DEF Vma!Shown, UseAt
<1>2. Vma!Space'.node = node'
  BY DEF Vma!Space
<1>3. \A p \in Vma!Page : Vma!Shown(p)' = UseAt(Vma!Space', p)
  BY <1>2 DEF Vma!Shown, UseAt
<1>4. Vma!View = TreeViewOf(Vma!Space, exists)
  BY <1>1 DEF Vma!View, TreeViewOf, RowOf
<1>5. Vma!View' = TreeViewOf(Vma!Space', exists')
  BY <1>3 DEF Vma!View, TreeViewOf, RowOf
<1>6. QED
  BY <1>4, <1>5

(* Turning one range to one use claims, drops or recasts it.               *)
LEMMA TurnsUse ==
  ASSUME NEW s, NEW t, Turns(s, t), Top \in Nat
  PROVE  LET old == RowOf(s)
             new == RowOf(t)
         IN  Vma!Pages!Claimed(old, new) \/ Vma!Pages!Dropped(old, new) \/ Vma!Pages!Recast(old, new)
<1> DEFINE old == RowOf(s)
           new == RowOf(t)
           R == Vma!Pages!Changed(old, new)
<1>1. PICK p \in Int, n \in Int :
        \E o, u : (\A q \in Vma!Page : (p <= q /\ q < p + n) => UseAt(s, q) = o) /\ Painted(s, t, p, n, u)
  BY DEF Turns
<1> PICK o, u : (\A q \in Vma!Page : (p <= q /\ q < p + n) => UseAt(s, q) = o) /\ Painted(s, t, p, n, u)
  BY <1>1
<1>2. \A q \in Vma!Page : old[q] = UseAt(s, q) /\ new[q] = UseAt(t, q)
  BY DEF RowOf
<1>3. \A q \in Vma!Page : new[q] = IF p <= q /\ q < p + n THEN u ELSE old[q]
  BY <1>2 DEF Painted
<1>4. \A q \in Vma!Page : (p <= q /\ q < p + n) => old[q] = o
  BY <1>2
<1> HIDE DEF old, new
<1>5. R = {q \in Vma!Page : p <= q /\ q < p + n /\ u # o}
  BY <1>3, <1>4 DEF Vma!Pages!Changed
<1>6. Vma!Pages!Row(R)
  <2>1. ASSUME NEW i \in R, NEW j \in R, NEW q \in i .. j PROVE q \in R
    BY <1>5, <2>1 DEF Vma!Page
  <2> HIDE DEF R
  <2>2. QED
    BY <2>1 DEF Vma!Pages!Row
<1>7. \A q \in R : q \in Vma!Page /\ old[q] = o /\ new[q] = u /\ u # o
  BY <1>3, <1>4, <1>5
<1>8. Vma!Pages!Claimed(old, new) \/ Vma!Pages!Dropped(old, new) \/ Vma!Pages!Recast(old, new)
  <2>1. CASE o = "unused"
    BY <1>6, <1>7, <2>1 DEF Vma!Pages!Claimed
  <2>2. CASE o # "unused" /\ u = "unused"
    BY <1>6, <1>7, <2>2 DEF Vma!Pages!Dropped
  <2>3. CASE o # "unused" /\ u # "unused"
    BY <1>6, <1>7, <2>3 DEF Vma!Pages!Recast
  <2>4. QED
    BY <2>1, <2>2, <2>3
<1>9. QED
  BY <1>8 DEF old, new

(* A space without areas shows unused pages only.                          *)
LEMMA EmptyUse ==
  ASSUME NEW s, Sound(s), Live(s) = {}
  PROVE  RowOf(s) = [q \in Vma!Page |-> "unused"]
<1>1. \A q \in Vma!Page : Vma!find_vma(s, q) = Vma!NULL
  <2>1. ASSUME NEW q \in Vma!Page PROVE Vma!find_vma(s, q) = Vma!NULL
    <3>1. q \in Int
      BY SoundIs DEF Vma!Page
    <3>2. QED
      BY <3>1, FindsIt
  <2>2. QED
    BY <2>1
<1>2. QED
  BY <1>1 DEF RowOf, UseAt

(* Each step is one of the abstract space, or changes nothing that it      *)
(* shows.                                                                  *)
LEMMA TreeStepsRefine ==
  ASSUME TreeInv, TreeSteps
  PROVE  \/ Vma!Pages!Create(Vma!View, Vma!View') \/ Vma!Pages!Destroy(Vma!View, Vma!View') \/ Vma!Pages!Use(Vma!View, Vma!View')
         \/ Vma!View' = Vma!View
<1> DEFINE s == Vma!Space
           t == Vma!Space'
           old == Vma!View
           new == Vma!View'
<1>1. old = TreeViewOf(s, exists) /\ new = TreeViewOf(t, exists')
  BY TreeViewIs
<1>2. Sound(s) /\ exists \in BOOLEAN /\ (exists \/ Live(s) = {}) /\ Top \in Nat
  BY SoundIs DEF TreeInv
<1>3. CASE LeftBy
  <2>1. exists /\ exists' /\ Turns(s, t)
    BY <1>3 DEF LeftBy
  <2> HIDE DEF s, t, old, new
  <2>2. old = [x \in {"space"} |-> RowOf(s)] /\ new = [x \in {"space"} |-> RowOf(t)]
    BY <1>1, <2>1 DEF TreeViewOf
  <2>3. DOMAIN new = DOMAIN old /\ DOMAIN old = {"space"} /\ old["space"] = RowOf(s) /\ new["space"] = RowOf(t)
    BY <2>2
  <2>4. Vma!Pages!Claimed(old["space"], new["space"]) \/ Vma!Pages!Dropped(old["space"], new["space"])
        \/ Vma!Pages!Recast(old["space"], new["space"])
    BY <1>2, <2>1, <2>3, TurnsUse
  <2>5. Vma!Pages!Use(old, new)
    BY <2>3, <2>4 DEF Vma!Pages!Use
  <2>6. QED
    BY <2>5 DEF old, new
<1>4. CASE Vma!Space' = Vma!Space /\ ~exists /\ exists' = TRUE
  <2>1. t = s /\ ~exists /\ exists' /\ Live(s) = {}
    BY <1>2, <1>4
  <2> HIDE DEF s, t, old, new
  <2>2. old = [x \in {} |-> RowOf(s)] /\ new = [x \in {"space"} |-> [q \in Vma!Page |-> "unused"]]
    BY <1>1, <1>2, <2>1, EmptyUse DEF TreeViewOf
  <2>3. DOMAIN old = {} /\ DOMAIN new = {"space"} /\ "space" \in DOMAIN new \ DOMAIN old
    BY <2>2
  <2>4. new = [x \in DOMAIN old \cup {"space"} |-> IF x = "space" THEN [q \in Vma!Page |-> "unused"] ELSE old[x]]
    BY <2>2, <2>3
  <2>5. Vma!Pages!Create(old, new)
    BY <2>3, <2>4 DEF Vma!Pages!Create
  <2>6. QED
    BY <2>5 DEF old, new
<1>5. CASE exists /\ exists' = FALSE
  <2> HIDE DEF s, t, old, new
  <2>1. old = [x \in {"space"} |-> RowOf(s)] /\ new = [x \in {} |-> RowOf(t)]
    BY <1>1, <1>5 DEF TreeViewOf
  <2>2. DOMAIN old = {"space"} /\ new = [x \in DOMAIN old \ {"space"} |-> old[x]]
    BY <2>1
  <2>3. Vma!Pages!Destroy(old, new)
    BY <2>2 DEF Vma!Pages!Destroy
  <2>4. QED
    BY <2>3 DEF old, new
<1>6. CASE Vma!Space' = Vma!Space /\ exists' = exists
  BY <1>1, <1>6
<1>7. QED
  BY <1>3, <1>4, <1>5, <1>6 DEF TreeSteps

(* Each call, whatever trims, splits and relinking it does, claims, drops  *)
(* or recasts one row of pages, as find_vma shows them, or changes none.   *)
THEOREM TreeRefinement ==
  ASSUME Vma!VmaTreeAssumption
  PROVE  Vma!Spec => Vma!ImplementsAddressSpace
<1>1. TreeInv /\ [Vma!Next]_(Vma!vars) => [Vma!Pages!Next]_(Vma!View)
  <2> SUFFICES ASSUME TreeInv, [Vma!Next]_(Vma!vars) PROVE Vma!Pages!Next \/ Vma!View' = Vma!View
    OBVIOUS
  <2>1. TreeSteps
    BY TreeNextIs
  <2> DEFINE old == Vma!View
             new == Vma!View'
  <2>2. Vma!Pages!Create(old, new) \/ Vma!Pages!Destroy(old, new) \/ Vma!Pages!Use(old, new) \/ new = old
    BY <2>1, TreeStepsRefine
  <2> HIDE DEF old, new
  <2>3. QED
    BY <2>2 DEF Vma!Pages!Next, old, new
<1>2. Vma!Spec => []TreeInv
  BY TreeInvariance
<1>3. QED
  BY <1>1, <1>2, PTL DEF Vma!Spec, Vma!ImplementsAddressSpace, Vma!Pages!Spec
=============================================================================
