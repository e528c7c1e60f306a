----------------------------- MODULE PageTable -----------------------------
(***************************************************************************)
(* The page tables of modules/hnsorens/memory/mmu/pt.c: trees of tables of *)
(* four levels, of frames from the physical memory manager, whose entries  *)
(* at level 3 map pages and at levels 1 and 2 may map blocks.              *)
(*                                                                         *)
(* Addresses are counted in pages, and a table has Fan entries.  A walk    *)
(* that takes the address of a block for that of a table, as the code does,*)
(* sets strayed, after which nothing is said.  Which free frame becomes a  *)
(* table is immaterial, and is the lowest here.  The TLB, the registers and*)
(* flags with MMU_NO_EXEC (see module Vmm) are left out, and clients map   *)
(* and unmap within the address space.                                     *)
(***************************************************************************)
EXTENDS Integers, FiniteSets

CONSTANTS
  Fan,           \* entries of a table, 512
  FrameCount,    \* frames tables can be made of
  MaxRoots,      \* bound on the roots that exist
  Virts, Physes, Counts, Flags,   \* of the clients' calls
  MapSizes,      \* granules clients map and unmap, in pages: 1, Fan or Fan * Fan
  ProtectSizes,  \* granules clients protect
  Mixed          \* whether clients name a part of a block, or a range of tables as a block

(* What is assumed of them; modules that instantiate this one say so.      *)
PageTableAssumption ==
  /\ Fan \in Nat \ {0} /\ FrameCount \in Nat /\ Mixed \in BOOLEAN
  /\ Virts \subseteq Nat /\ Physes \subseteq Nat /\ Counts \subseteq Nat /\ "none" \notin Flags
  /\ MapSizes \cup ProtectSizes \subseteq {1, Fan, Fan * Fan}

Level == 0 .. 3
Frame == 1 .. FrameCount
Index == 0 .. (Fan - 1)

(* The pages under an entry of each level, and in the address space.       *)
Span(level) == <<Fan * Fan * Fan, Fan * Fan, Fan, 1>>[level + 1]
Space == Fan * Span(0)
Page == 0 .. (Space - 1)

VARIABLES
  mem,      \* [tables: the entries of each table, free: the free frames]
  roots,    \* the tables of level 0
  strayed   \* whether a walk took a block for a table

vars == <<mem, roots, strayed>>

(* Entries: zero, the address of a table, that of a page or block, or that *)
(* of a block without the valid bit.                                       *)
Zero == [kind |-> "zero", addr |-> 0, flags |-> "none"]
Table(t) == [kind |-> "table", addr |-> t, flags |-> "none"]
Leaf(phys, f) == [kind |-> "leaf", addr |-> phys, flags |-> f]
Broken(phys, f) == [kind |-> "broken", addr |-> phys, flags |-> f]
pte_valid(e) == e.kind \in {"table", "leaf"}
EmptyTable == [i \in Index |-> Zero]

extract_index(level, v) == (v \div Span(level)) % Fan
LeafLevel(size) == CHOOSE level \in 1 .. 3 : Span(level) = size

Init ==
  /\ mem = [tables |-> [t \in {} |-> EmptyTable], free |-> Frame]
  /\ roots = {} /\ strayed = FALSE

-----------------------------------------------------------------------------
(* Walks                                                                   *)

Lowest(S) == CHOOSE f \in S : \A g \in S : f <= g

(* A fresh, cleared table, and entry i of table u leading to it.           *)
WithTable(m) ==
  LET t == Lowest(m.free) IN
  [tables |-> [u \in DOMAIN m.tables \cup {t} |-> IF u = t THEN EmptyTable ELSE m.tables[u]],
   free |-> m.free \ {t}]
WithTableAt(m, u, i) == [WithTable(m) EXCEPT !.tables[u][i] = Table(Lowest(m.free))]

(* A walk in progress: the memory, the table it is at, and its status.     *)
Walker(m, t) == [m |-> m, at |-> t, status |-> "ok"]
Entry(w, level, v) == w.m.tables[w.at][extract_index(level, v)]
Write(w, level, v, e) == [w EXCEPT !.m.tables[w.at][extract_index(level, v)] = e]

(* One step down, to find the table there or else make it.                 *)
Down(w, level, v, goal) ==
  LET e == Entry(w, level, v) IN
  CASE e.kind = "table" -> [w EXCEPT !.at = e.addr]
    [] e.kind = "leaf" -> [w EXCEPT !.status = "stray"]
    [] ~pte_valid(e) /\ goal = "find" -> [w EXCEPT !.status = "EFAULT"]
    [] ~pte_valid(e) /\ goal = "make" /\ w.m.free = {} -> [w EXCEPT !.status = "ENOMEM"]
    [] ~pte_valid(e) /\ goal = "make" /\ w.m.free # {} ->
         [w EXCEPT !.m = WithTableAt(w.m, w.at, extract_index(level, v)), !.at = Lowest(w.m.free)]

(* The walk from a root to the table of a level.                           *)
DownTo(m, root, v, last, goal) ==
  LET w[level \in 0 .. last] ==
        IF level = 0 THEN Walker(m, root)
        ELSE LET before == w[level - 1] IN
             IF before.status = "ok" THEN Down(before, level - 1, v, goal) ELSE before
  IN  w[last]

(* count pages of a size, one after the other while all goes well.         *)
ForPages(m, count, One(_, _)) ==
  LET w[i \in 0 .. count] ==
        IF i = 0 THEN Walker(m, 0)
        ELSE LET before == w[i - 1] IN IF before.status = "ok" THEN One(before.m, i - 1) ELSE before
  IN  w[count]

(* The outcome of a call on a root.                                        *)
Finish(w) ==
  \/ w.status = "stray" /\ strayed' = TRUE /\ UNCHANGED <<mem, roots>>
  \/ w.status # "stray" /\ mem' = w.m /\ UNCHANGED <<roots, strayed>>

-----------------------------------------------------------------------------
(* pt_map, pt_unmap, pt_protect                                            *)

pt_map_single_page(m, root, v, phys, size, f) ==
  LET level == LeafLevel(size)
      w == DownTo(m, root, v, level, "make")
  IN  IF w.status # "ok" THEN w
      ELSE IF pte_valid(Entry(w, level, v)) THEN [w EXCEPT !.status = "EEXIST"]
      ELSE Write(w, level, v, Leaf(phys, f))

pt_map(root, v, phys, count, size, f) ==
  LET one(m, i) == pt_map_single_page(m, root, v + i * size, phys + i * size, size, f) IN
  \/ (v % size # 0 \/ phys % size # 0) /\ UNCHANGED vars
  \/ v % size = 0 /\ phys % size = 0 /\ Finish(ForPages(mem, count, one))

is_pt_empty(m, t) == \A i \in Index : m.tables[t][i] = Zero

(* The table at a level on the way to v is released if it is empty.        *)
(* Faulty variants: it is kept, or its frame is released and the entry that*)
(* leads to it stays.                                                      *)
PrunedNever(m, root, v, level) == m
PrunedDangling(m, root, v, level) ==
  LET t == DownTo(m, root, v, level, "find").at IN
  IF ~is_pt_empty(m, t) THEN m ELSE [m EXCEPT !.free = @ \cup {t}]
Pruned(m, root, v, level) ==
  LET above == DownTo(m, root, v, level - 1, "find")
      t == DownTo(m, root, v, level, "find").at
      cleared == Write(above, level - 1, v, Zero).m
  IN  IF ~is_pt_empty(m, t) THEN m
      ELSE [tables |-> [u \in DOMAIN m.tables \ {t} |-> cleared.tables[u]], free |-> m.free \cup {t}]

(* The entry is cleared, then the tables above it from the lowest up.      *)
pt_unmap_single_page(m, root, v, size) ==
  LET level == LeafLevel(size)
      w == DownTo(m, root, v, level, "find")
      up[k \in 0 .. level] ==
        IF k = 0 THEN Write(w, level, v, Zero).m
        ELSE LET before == up[k - 1] IN Pruned(before, root, v, level - k + 1)
  IN  CASE w.status = "ok" -> Walker(up[level], 0)
        [] w.status = "EFAULT" -> Walker(m, 0)
        [] w.status = "stray" -> w

pt_unmap(root, v, count, size) ==
  LET one(m, i) == pt_unmap_single_page(m, root, v + i * size, size) IN
  Finish(ForPages(mem, count, one))

(* A block loses its valid bit with its old flags.  Faulty variant: a page *)
(* loses its address.                                                      *)
ProtectedBare(e, size, f) == IF size = 1 THEN Leaf(0, f) ELSE Broken(e.addr, f)
Protected(e, size, f) == IF size = 1 THEN Leaf(e.addr, f) ELSE Broken(e.addr, f)

pt_protect_single_page(m, root, v, size, f) ==
  LET level == LeafLevel(size)
      w == DownTo(m, root, v, level, "find")
      e == Entry(w, level, v)
  IN  IF w.status # "ok" THEN w
      ELSE IF ~pte_valid(e) THEN [w EXCEPT !.status = "EFAULT"]
      ELSE Write(w, level, v, Protected(e, size, f))

pt_protect(root, v, count, size, f) ==
  LET one(m, i) == pt_protect_single_page(m, root, v + i * size, size, f) IN
  Finish(ForPages(mem, count, one))

-----------------------------------------------------------------------------
(* pt_alloc, pt_free, pt_copy                                              *)

pt_alloc ==
  \/ mem.free = {} /\ UNCHANGED vars
  \/ /\ mem.free # {}
     /\ mem' = WithTable(mem) /\ roots' = roots \cup {Lowest(mem.free)} /\ UNCHANGED strayed

(* The tables that the entries of the tables T lead to.                    *)
Below(m, T) == {e.addr : e \in {f \in UNION {{m.tables[t][i] : i \in Index} : t \in T} : f.kind = "table"}}

Tree(m, root) ==
  LET l1 == Below(m, {root})
      l2 == Below(m, l1)
  IN  {root} \cup l1 \cup l2 \cup Below(m, l2)

Released(m, root) ==
  [tables |-> [t \in DOMAIN m.tables \ Tree(m, root) |-> m.tables[t]], free |-> m.free \cup Tree(m, root)]

pt_free(root) ==
  /\ mem' = Released(mem, root)
  /\ roots' = roots \ {root}
  /\ UNCHANGED strayed

(* Entry after entry, a table is copied into the one the walk is at, with  *)
(* Deeper copying what an entry leads to.                                  *)
CopyTable(w, src, dst, Deeper(_, _, _)) ==
  LET one(d, i) ==
        LET e == d.m.tables[src][i]
        IN  IF ~pte_valid(e) THEN d
            ELSE IF e.kind = "leaf" THEN [d EXCEPT !.m.tables[dst][i] = e]
            ELSE IF d.m.free = {} THEN [d EXCEPT !.status = "ENOMEM"]
            ELSE Deeper([d EXCEPT !.m = WithTableAt(d.m, dst, i)], e.addr, Lowest(d.m.free))
      done[i \in 0 .. Fan] ==
        IF i = 0 THEN w
        ELSE LET d == done[i - 1] IN IF d.status = "ok" THEN one(d, i - 1) ELSE d
  IN  done[Fan]

copy_l3_table(w, src, dst) == [w EXCEPT !.m.tables[dst] = w.m.tables[src]]
copy_l2_table(w, src, dst) == CopyTable(w, src, dst, copy_l3_table)
copy_l1_table(w, src, dst) == CopyTable(w, src, dst, copy_l2_table)

(* A copy that finds no frame is freed again.  Faulty variant: it is kept. *)
UnwoundNot(m, root) == m
Unwound(m, root) == Released(m, root)

pt_copy(src) ==
  LET dst == Lowest(mem.free)
      w == CopyTable(Walker(WithTable(mem), dst), src, dst, copy_l1_table)
  IN
  \/ mem.free = {} /\ UNCHANGED vars
  \/ mem.free # {} /\ w.status = "ok" /\ mem' = w.m /\ roots' = roots \cup {dst} /\ UNCHANGED strayed
  \/ mem.free # {} /\ w.status # "ok" /\ mem' = Unwound(w.m, dst) /\ UNCHANGED <<roots, strayed>>

-----------------------------------------------------------------------------
(* Clients that do not mix granules name neither part of a block nor the   *)
(* range of a table as a block.                                            *)
UnderBlock(root, v, size) == DownTo(mem, root, v, LeafLevel(size), "find").status = "stray"
OverTable(root, v, size) ==
  LET w == DownTo(mem, root, v, LeafLevel(size), "find") IN
  w.status = "ok" /\ Entry(w, LeafLevel(size), v).kind = "table"
Inside(v, count, size) == v + count * size <= Space
Proper(root, v, count, size) ==
  \A i \in 0 .. (count - 1) : Mixed \/ ~(UnderBlock(root, v + i * size, size) \/ OverTable(root, v + i * size, size))

Call ==
  \/ Cardinality(roots) < MaxRoots /\ pt_alloc
  \/ \E root \in roots :
       \/ pt_free(root)
       \/ Cardinality(roots) < MaxRoots /\ pt_copy(root)
       \/ \E v \in Virts, phys \in Physes, count \in Counts, size \in MapSizes, f \in Flags :
            Inside(v, count, size) /\ Proper(root, v, count, size) /\ pt_map(root, v, phys, count, size, f)
       \/ \E v \in Virts, count \in Counts, size \in MapSizes :
            Inside(v, count, size) /\ Proper(root, v, count, size) /\ pt_unmap(root, v, count, size)
       \/ \E v \in Virts, count \in Counts, size \in ProtectSizes, f \in Flags :
            Inside(v, count, size) /\ Proper(root, v, count, size) /\ pt_protect(root, v, count, size, f)

Next == IF strayed THEN UNCHANGED vars ELSE Call

Spec == Init /\ [][Next]_vars

-----------------------------------------------------------------------------
(* pt_translate: the first entry on the way of a page that is not a table, *)
(* and its level, as a set of one.                                         *)
Reach(root, v) ==
  LET step(at, level) ==
        {IF a.e.kind = "table" THEN [e |-> mem.tables[a.e.addr][extract_index(level, v)], level |-> level]
         ELSE a : a \in at}
  IN  step(step(step({[e |-> mem.tables[root][extract_index(0, v)], level |-> 0]}, 1), 2), 3)
pt_translate(root, v) ==
  {[frame |-> a.e.addr + (v % Span(a.level)), flags |-> a.e.flags] : a \in {b \in Reach(root, v) : b.e.kind = "leaf"}}

-----------------------------------------------------------------------------
(* Properties                                                              *)

(* Every variable keeps its type.                                          *)
TypeOK ==
  /\ mem.free \subseteq Frame /\ DOMAIN mem.tables \subseteq Frame
  /\ roots \subseteq DOMAIN mem.tables /\ strayed \in BOOLEAN
  /\ mem.tables \in [DOMAIN mem.tables ->
       [Index -> [kind : {"zero", "table", "leaf", "broken"}, addr : Nat, flags : Flags \cup {"none"}]]]

(* The trees are disjoint, each table of a tree has one entry leading to   *)
(* it, no tree holds a free frame, and no frame is in neither: pruning,    *)
(* freeing and a copy that fails halfway lose and share no table.          *)
Parents(t) == {p \in (DOMAIN mem.tables) \X Index : mem.tables[p[1]][p[2]] = Table(t)}
NoTableLost ==
  /\ \A t \in DOMAIN mem.tables : Cardinality(Parents(t)) = IF t \in roots THEN 0 ELSE 1
  /\ DOMAIN mem.tables = UNION {Tree(mem, r) : r \in roots}
  /\ mem.free = Frame \ DOMAIN mem.tables

(* Even when clients mix granules, the tables that some entry leads to are *)
(* not free, and no two entries lead to the same one.                      *)
TablesExclusive ==
  \A t \in UNION {Tree(mem, r) : r \in roots} :
    t \notin mem.free /\ Cardinality(Parents(t)) = IF t \in roots THEN 0 ELSE 1

(* What clients that keep granules apart, and those that do not, can expect*)
(* of the tables.                                                          *)
TablesAccounted == TypeOK /\ TablesExclusive /\ (~Mixed => NoTableLost)

(* A table that loses its last entry goes with it: unmapping prunes every  *)
(* table it empties, up to the root, and protect empties none.  Only a call*)
(* of map that found no frame leaves tables that were never filled.        *)
NoTableEmptied ==
  [][\A t \in (DOMAIN mem.tables) \ roots :
       ~is_pt_empty(mem, t) => t \notin DOMAIN mem'.tables \/ ~is_pt_empty(mem', t)]_vars

(* api/mmu.h: protect changes attributes without breaking the bindings of  *)
(* addresses, so an entry that holds an address stays valid.               *)
NoBindingBroken == \A t \in DOMAIN mem.tables : \A i \in Index : mem.tables[t][i].kind # "broken"

(* api/mmu.h: mapping where a mapping exists already is refused, so no walk*)
(* follows a block.                                                        *)
NoWalkThroughBlocks == ~strayed

(* Read through pt_translate, every call is a step of the abstract maps.   *)
Shown(R) == [r \in R |-> [p \in {q \in Page : pt_translate(r, q) # {}} |-> CHOOSE m \in pt_translate(r, p) : TRUE]]
Maps == INSTANCE PageMap WITH maps <- Shown(roots)
ImplementsPageMap == Maps!Spec
=============================================================================
