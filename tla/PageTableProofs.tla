--------------------------- MODULE PageTableProofs --------------------------
(***************************************************************************)
(* The page tables for every number of entries, frames and clients: the    *)
(* tables are trees that share nothing, and what translation reads in them *)
(* is the maps of PageMap.                                                 *)
(*                                                                         *)
(* The invariant gives every table a level.  A call is a sequence of a few *)
(* changes to the memory, each described below by what it does to every    *)
(* entry: an entry that leads to no table is written, a table is added to  *)
(* one that has room, an empty table is pruned, a tree is taken or given   *)
(* up.  What a loop over pages or entries does follows from what one turn  *)
(* does.                                                                   *)
(***************************************************************************)
EXTENDS PageTable, FiniteSetTheorems, WellFoundedInduction, TLAPS

EntryType == [kind : {"zero", "table", "leaf", "broken"}, addr : Nat, flags : Flags \cup {"none"}]
Content == [Index -> EntryType]
T(m) == DOMAIN m.tables
At(m, t, i) == m.tables[t][i]
LeadsOn(m, t, i) == At(m, t, i).kind = "table"

Memory(m) ==
  /\ m = [tables |-> m.tables, free |-> m.free]
  /\ T(m) \subseteq Frame /\ m.tables \in [T(m) -> Content]
  /\ m.free = Frame \ T(m)

(* Every table has a level, 0 if it is a root; an entry leads to a table of*)
(* the next level, and no other entry leads to it.                         *)
Forest(m, R, lvl) ==
  /\ Memory(m)
  /\ lvl \in [T(m) -> Level] /\ R = {t \in T(m) : lvl[t] = 0}
  /\ \A t \in T(m), i \in Index : LeadsOn(m, t, i) =>
       LET e == At(m, t, i) IN e = Table(e.addr) /\ e.addr \in T(m) /\ lvl[e.addr] = lvl[t] + 1
  /\ \A t, u \in T(m), i, j \in Index :
       LeadsOn(m, t, i) /\ LeadsOn(m, u, j) /\ At(m, t, i).addr = At(m, u, j).addr => t = u /\ i = j

(* Some entry leads to every table but the roots.                          *)
Owned(m, lvl) == \A t \in T(m) : lvl[t] > 0 => \E u \in T(m), i \in Index : At(m, u, i) = Table(t)

Good(m, R, lvl) == Forest(m, R, lvl) /\ (~Mixed => Owned(m, lvl))

IInv == strayed \in BOOLEAN /\ \E lvl : Good(mem, roots, lvl)

-----------------------------------------------------------------------------
(* Numbers.                                                                *)

LEMMA Least ==
  ASSUME NEW S \in SUBSET Nat, S # {}
  PROVE  \E x \in S : \A y \in S : x <= y
<1> DEFINE lt == OpToRel(<, Nat)
<1>1. \E x \in S : \A y \in S : <<y, x>> \notin lt
  <2>1. S \subseteq Nat
    OBVIOUS
  <2>2. IsWellFoundedOn(lt, Nat)
    BY NatLessThanWellFounded
  <2> HIDE DEF lt
  <2>3. QED
    BY <2>1, <2>2, WFMin
<1>2. \A x, y \in Nat : <<y, x>> \notin lt => x <= y
  BY DEF OpToRel
<1>3. QED
  <2> HIDE DEF lt
  <2>1. QED
    BY <1>1, <1>2

LEMMA LowestOf ==
  ASSUME NEW S \in SUBSET Frame, S # {}
  PROVE  Lowest(S) \in S
<1>1. S \in SUBSET Nat
  BY DEF Frame
<1>2. \E x \in S : \A y \in S : x <= y
  BY <1>1, Least
<1>3. QED
  BY <1>2 DEF Lowest

LEMMA ProductType ==
  ASSUME NEW a \in Nat, NEW b \in Nat
  PROVE  a * b \in Nat
OBVIOUS

LEMMA SpanFacts ==
  ASSUME PageTableAssumption
  PROVE  /\ Span(3) = 1 /\ Span(2) = Fan /\ Span(1) = Fan * Fan
         /\ \A level \in Level : Span(level) \in Nat \ {0}
<1>1. Span(3) = 1 /\ Span(2) = Fan /\ Span(1) = Fan * Fan /\ Span(0) = Fan * Fan * Fan
  BY DEF Span
<1>2. \A a, b \in Nat \ {0} : a * b \in Nat \ {0}
  OBVIOUS
<1>3. Fan * Fan \in Nat \ {0}
  BY <1>2 DEF PageTableAssumption
<1>4. Fan * Fan * Fan \in Nat \ {0}
  BY <1>2, <1>3 DEF PageTableAssumption
<1>5. QED
  BY <1>1, <1>3, <1>4 DEF Level, PageTableAssumption

LEMMA IndexOf ==
  ASSUME PageTableAssumption, NEW level \in Level, NEW v \in Nat
  PROVE  extract_index(level, v) \in Index
<1> DEFINE s == Span(level)
           q == v \div s
<1>1. s \in Nat \ {0}
  BY SpanFacts
<1> HIDE DEF s
<1>2. q \in Nat
  BY <1>1
<1> HIDE DEF q
<1>3. (q % Fan) \in 0 .. (Fan - 1)
  BY <1>2 DEF PageTableAssumption
<1>4. QED
  BY <1>3 DEF extract_index, Index, q, s

LEMMA LeafLevelOf ==
  ASSUME PageTableAssumption, NEW size \in MapSizes \cup ProtectSizes
  PROVE  LeafLevel(size) \in 1 .. 3 /\ Span(LeafLevel(size)) = size /\ size \in Nat
<1>1. \E level \in 1 .. 3 : Span(level) = size
  BY SpanFacts DEF PageTableAssumption
<1>2. Span(LeafLevel(size)) = size /\ LeafLevel(size) \in 1 .. 3
  BY <1>1 DEF LeafLevel
<1>3. QED
  BY <1>2, SpanFacts DEF Level

-----------------------------------------------------------------------------
(* Pages and the blocks they are in.                                       *)

LEMMA Remainder ==
  ASSUME NEW q \in Int, NEW d \in Nat \ {0}, NEW r \in 0 .. (d - 1)
  PROVE  (q * d + r) \div d = q /\ (q * d + r) % d = r
<1> DEFINE x == q * d + r
           k == x \div d
           s == x % d
<1>1. q * d \in Int
  OBVIOUS
<1>2. x \in Int
  BY <1>1
<1> HIDE DEF x
<1>3. s \in 0 .. (d - 1) /\ k \in Int /\ x = k * d + s
  BY <1>2
<1> HIDE DEF k, s
<1>4. (k - q) * d = r - s
  <2>1. k * d \in Int /\ (k - q) * d = k * d - q * d
    BY <1>3
  <2>2. k * d + s = q * d + r
    BY <1>3 DEF x
  <2>3. QED
    BY <2>1, <2>2, <1>1, <1>3
<1>5. k = q
  <2>1. CASE k > q
    <3>1. (k - q - 1) * d >= 0 /\ (k - q - 1) * d = (k - q) * d - d
      BY <2>1, <1>3
    <3>2. QED
      BY <3>1, <1>3, <1>4
  <2>2. CASE k < q
    <3>1. (q - k - 1) * d >= 0 /\ (q - k - 1) * d = 0 - (k - q) * d - d
      BY <2>2, <1>3
    <3>2. QED
      BY <3>1, <1>3, <1>4
  <2>3. QED
    BY <2>1, <2>2, <1>3
<1>6. s = r
  <2>1. (k - q) * d = 0
    BY <1>5
  <2>2. QED
    BY <2>1, <1>3, <1>4
<1>7. k = q /\ s = r
  BY <1>5, <1>6
<1>8. QED
  BY <1>7 DEF k, s, x

LEMMA Division ==
  ASSUME NEW p \in Nat, NEW d \in Nat \ {0}
  PROVE  p \div d \in Nat /\ p % d \in 0 .. (d - 1) /\ p = (p \div d) * d + (p % d)
OBVIOUS

(* A block of a level is part of one of the level above.                   *)
LEMMA Nested ==
  ASSUME NEW p \in Nat, NEW a \in Nat \ {0}, NEW b \in Nat \ {0}
  PROVE  (p \div a) \div b = p \div (b * a) /\ b * a \in Nat \ {0}
<1> DEFINE q == p \div a
           s == p % a
           r == q \div b
           u == q % b
           c == b * a
           k == u * a + s
<1>1. q \in Nat /\ s \in 0 .. (a - 1) /\ p = q * a + s
  OBVIOUS
<1>2. c \in Nat \ {0}
  OBVIOUS
<1> HIDE DEF q, s, c
<1>3. r \in Nat /\ u \in 0 .. (b - 1) /\ q = r * b + u
  BY <1>1
<1> HIDE DEF r, u
<1>4. q * a = r * c + u * a
  <2>1. (r * b + u) * a = (r * b) * a + u * a
    BY <1>1, <1>3
  <2>2. (r * b) * a = r * (b * a)
    BY <1>3
  <2>3. QED
    BY <1>3, <2>1, <2>2 DEF c
<1>5. k \in 0 .. (c - 1)
  <2>1. u * a \in Nat
    BY <1>3
  <2>2. (b - 1 - u) * a >= 0 /\ (b - 1 - u) * a = b * a - a - u * a
    BY <1>3
  <2>3. QED
    BY <1>1, <1>2, <2>1, <2>2 DEF c
<1>6. p = r * c + k
  <2>1. u * a \in Nat /\ r * c \in Nat
    BY <1>2, <1>3
  <2>2. QED
    BY <1>1, <1>4, <2>1
<1> HIDE DEF k
<1>7. p \div c = r
  BY <1>2, <1>3, <1>5, <1>6, Remainder
<1>8. QED
  BY <1>2, <1>7 DEF c, r, q

LEMMA Spans ==
  ASSUME PageTableAssumption, NEW level \in 1 .. 3
  PROVE  Span(level - 1) = Fan * Span(level) /\ Span(level) \in Nat \ {0} /\ Span(level - 1) \in Nat \ {0}
<1>1. Span(3) = 1 /\ Span(2) = Fan /\ Span(1) = Fan * Fan /\ Span(0) = Fan * Fan * Fan /\ Fan \in Nat
  BY DEF Span, PageTableAssumption
<1>2. \A k \in Level : Span(k) \in Nat \ {0}
  BY SpanFacts
<1>3. Fan * 1 = Fan /\ Fan * (Fan * Fan) = Fan * Fan * Fan
  BY <1>1
<1>4. level = 1 \/ level = 2 \/ level = 3
  OBVIOUS
<1>5. Span(level - 1) = Fan * Span(level)
  BY <1>1, <1>3, <1>4
<1>6. level \in Level /\ level - 1 \in Level
  BY DEF Level
<1>7. QED
  BY <1>2, <1>5, <1>6

(* The number of a page's block of a level.                                *)
Block(level, p) == p \div Span(level)

LEMMA BlockIs ==
  ASSUME PageTableAssumption, NEW p \in Page
  PROVE  /\ p \in Nat
         /\ \A level \in Level : Block(level, p) \in Nat
         /\ extract_index(0, p) = Block(0, p)
         /\ \A level \in 1 .. 3 : Block(level, p) = Block(level - 1, p) * Fan + extract_index(level, p)
<1> DEFINE s == Span(0)
           q == p \div s
<1>0. Fan \in Nat \ {0}
  BY DEF PageTableAssumption
<1>1. p \in Nat /\ s \in Nat \ {0} /\ p < Fan * s
  <2>1. s \in Nat \ {0}
    BY SpanFacts DEF Level
  <2> HIDE DEF s
  <2>2. Fan * s \in Nat
    BY <1>0, <2>1
  <2>3. QED
    BY <2>1, <2>2 DEF Page, Space, s
<1>2. \A level \in Level : Block(level, p) \in Nat
  BY <1>1, SpanFacts, Division DEF Block
<1>3. extract_index(0, p) = Block(0, p)
  <2> HIDE DEF s
  <2>1. q \in Nat /\ q * s <= p
    <3> DEFINE r == p % s
    <3>0. q \in Nat /\ r \in 0 .. (s - 1) /\ p = q * s + r
      BY <1>1, Division
    <3> HIDE DEF q, r
    <3>1. q \in Nat /\ r \in Nat /\ p = q * s + r
      BY <1>1, <3>0
    <3>2. q * s \in Nat
      BY <1>1, <3>1
    <3>3. QED
      BY <3>1, <3>2
  <2> HIDE DEF q
  <2>2. q < Fan
    <3>1. SUFFICES ASSUME q >= Fan PROVE FALSE
      BY <1>0, <2>1
    <3>2. (q - Fan) * s >= 0 /\ (q - Fan) * s = q * s - Fan * s
      BY <1>0, <1>1, <2>1, <3>1
    <3>3. q * s \in Nat /\ Fan * s \in Nat
      BY <1>0, <1>1, <2>1
    <3>4. QED
      BY <1>1, <2>1, <3>2, <3>3
  <2>3. q % Fan = q
    BY <1>0, <2>1, <2>2
  <2>4. QED
    BY <2>3 DEF extract_index, Block, q, s
<1>4. ASSUME NEW level \in 1 .. 3
      PROVE  Block(level, p) = Block(level - 1, p) * Fan + extract_index(level, p)
  <2> DEFINE a == Span(level)
             b == p \div a
  <2>1. a \in Nat \ {0} /\ Span(level - 1) = Fan * a
    BY Spans
  <2>2. b \in Nat
    BY <1>1, <2>1, Division
  <2>3. b \div Fan = p \div (Fan * a)
    <3> HIDE DEF a
    <3>1. QED
      BY <1>0, <1>1, <2>1, Nested
  <2>4. b = (b \div Fan) * Fan + (b % Fan)
    <3> HIDE DEF b
    <3>1. QED
      BY <1>0, <2>2, Division
  <2>5. QED
    BY <2>1, <2>3, <2>4 DEF Block, extract_index
<1>5. QED
  BY <1>1, <1>2, <1>3, <1>4

(* Pages are in the same block of a level if the same entries lead to them.*)
LEMMA SameBlock ==
  ASSUME PageTableAssumption, NEW p \in Page, NEW v \in Page, NEW last \in Level
  PROVE  Block(last, p) = Block(last, v) <=> \A level \in 0 .. last : extract_index(level, p) = extract_index(level, v)
<1> DEFINE Same(level) == Block(level, p) = Block(level, v)
           Equal(level) == extract_index(level, p) = extract_index(level, v)
<1>1. /\ p \in Nat /\ v \in Nat
      /\ Same(0) <=> Equal(0)
  BY BlockIs
<1>2. ASSUME NEW level \in 1 .. 3
      PROVE  Same(level) <=> Same(level - 1) /\ Equal(level)
  <2> DEFINE a == Block(level - 1, p)
             b == Block(level - 1, v)
             i == extract_index(level, p)
             j == extract_index(level, v)
  <2>1. Block(level, p) = a * Fan + i /\ Block(level, v) = b * Fan + j
    BY BlockIs
  <2>2. a \in Nat /\ b \in Nat
    BY BlockIs DEF Level
  <2>3. i \in 0 .. (Fan - 1) /\ j \in 0 .. (Fan - 1)
    BY <1>1, IndexOf DEF Level, Index
  <2>4. Fan \in Nat \ {0}
    BY DEF PageTableAssumption
  <2> HIDE DEF a, b, i, j
  <2>5. (a * Fan + i) \div Fan = a /\ (a * Fan + i) % Fan = i
    BY <2>2, <2>3, <2>4, Remainder
  <2>6. (b * Fan + j) \div Fan = b /\ (b * Fan + j) % Fan = j
    BY <2>2, <2>3, <2>4, Remainder
  <2>7. a * Fan + i = b * Fan + j <=> a = b /\ i = j
    BY <2>5, <2>6
  <2>8. QED
    BY <2>1, <2>7 DEF a, b, i, j
<1> HIDE DEF Same, Equal
<1>3. Same(last) <=> \A level \in 0 .. last : Equal(level)
  <2>1. Same(1) <=> Equal(0) /\ Equal(1)
    BY <1>1, <1>2
  <2>2. Same(2) <=> Equal(0) /\ Equal(1) /\ Equal(2)
    BY <1>2, <2>1
  <2>3. Same(3) <=> Equal(0) /\ Equal(1) /\ Equal(2) /\ Equal(3)
    BY <1>2, <2>2
  <2>4. last = 0 \/ last = 1 \/ last = 2 \/ last = 3
    BY DEF Level
  <2>5. QED
    BY <1>1, <2>1, <2>2, <2>3, <2>4
<1>4. QED
  BY <1>3 DEF Same, Equal

-----------------------------------------------------------------------------
(* The changes, entry by entry.                                            *)

LEMMA EntryTypes ==
  /\ Zero \in EntryType /\ Zero.kind = "zero"
  /\ \A t \in Nat : Table(t) \in EntryType /\ Table(t).kind = "table" /\ Table(t).addr = t
  /\ \A p \in Nat, f \in Flags :
       /\ Leaf(p, f) \in EntryType /\ Leaf(p, f).kind = "leaf"
       /\ Broken(p, f) \in EntryType /\ Broken(p, f).kind = "broken"
BY DEF EntryType, Zero, Table, Leaf, Broken

(* An entry is written.                                                    *)
Put(m, t, i, e) == [m EXCEPT !.tables[t][i] = e]

LEMMA PutIs ==
  ASSUME NEW m, Memory(m), NEW t \in T(m), NEW i \in Index, NEW e \in EntryType
  PROVE  LET n == Put(m, t, i, e) IN
         /\ Memory(n) /\ T(n) = T(m) /\ n.free = m.free
         /\ At(n, t, i) = e
         /\ \A u \in T(m), j \in Index : u # t \/ j # i => At(n, u, j) = At(m, u, j)
         /\ \A u \in T(m) : u # t => n.tables[u] = m.tables[u]
<1> DEFINE n == Put(m, t, i, e)
           D == T(m)
           f == m.tables
           c == [f[t] EXCEPT ![i] = e]
           g == [f EXCEPT ![t] = c]
<1>1. n = [tables |-> g, free |-> m.free]
  BY DEF Put, Memory
<1>2. f \in [D -> Content] /\ f[t] \in Content
  BY DEF Memory
<1>3. c \in Content /\ c[i] = e /\ \A j \in Index : j # i => c[j] = f[t][j]
  BY <1>2 DEF Content
<1>4. g \in [D -> Content] /\ g[t] = c /\ \A u \in D : u # t => g[u] = f[u]
  <2> HIDE DEF c, f, D
  <2>1. QED
    BY <1>2, <1>3 DEF D
<1>5. n.tables = g /\ n.free = m.free /\ T(n) = D
  BY <1>1, <1>4 DEF T
<1>6. Memory(n)
  BY <1>1, <1>4, <1>5 DEF Memory
<1>7. QED
  BY <1>3, <1>4, <1>5, <1>6 DEF At

(* A table is made, and perhaps an entry that leads to it.                 *)
LEMMA WithTableIs ==
  ASSUME NEW m, Memory(m), m.free # {}
  PROVE  LET t == Lowest(m.free)
             n == WithTable(m)
         IN  /\ t \in Frame \ T(m) /\ t \in m.free
             /\ Memory(n) /\ T(n) = T(m) \cup {t} /\ n.free = m.free \ {t}
             /\ \A j \in Index : At(n, t, j) = Zero
             /\ \A u \in T(m) : n.tables[u] = m.tables[u]
<1> DEFINE t == Lowest(m.free)
           n == WithTable(m)
<1>1. t \in m.free /\ t \in Frame \ T(m)
  BY LowestOf DEF Memory
<1>2. n = [tables |-> [u \in T(m) \cup {t} |-> IF u = t THEN EmptyTable ELSE m.tables[u]], free |-> m.free \ {t}]
  BY DEF WithTable, T
<1> HIDE DEF t
<1>3. EmptyTable \in Content /\ \A j \in Index : EmptyTable[j] = Zero
  BY EntryTypes DEF EmptyTable, Content
<1>4. m.tables \in [T(m) -> Content] /\ T(m) \subseteq Frame /\ m.free = Frame \ T(m)
  BY DEF Memory
<1>5. T(n) = T(m) \cup {t} /\ n.free = m.free \ {t}
  BY <1>2 DEF T
<1>6. n.tables[t] = EmptyTable /\ \A u \in T(m) : n.tables[u] = m.tables[u]
  BY <1>1, <1>2
<1>7. n.tables \in [T(n) -> Content]
  BY <1>2, <1>3, <1>4, <1>5
<1>8. n = [tables |-> n.tables, free |-> n.free]
  BY <1>2
<1>9. Memory(n)
  BY <1>1, <1>4, <1>5, <1>7, <1>8 DEF Memory
<1>10. QED
  BY <1>1, <1>3, <1>5, <1>6, <1>9 DEF At, t

LEMMA WithTableAtIs ==
  ASSUME NEW m, Memory(m), m.free # {}, NEW u \in T(m), NEW i \in Index
  PROVE  LET t == Lowest(m.free)
             n == WithTableAt(m, u, i)
         IN  /\ t \in Frame \ T(m) /\ t \in Nat
             /\ Memory(n) /\ T(n) = T(m) \cup {t}
             /\ At(n, u, i) = Table(t)
             /\ \A j \in Index : At(n, t, j) = Zero
             /\ \A x \in T(m), j \in Index : x # u \/ j # i => At(n, x, j) = At(m, x, j)
             /\ \A x \in T(m) : x # u => n.tables[x] = m.tables[x]
<1> DEFINE t == Lowest(m.free)
           w == WithTable(m)
           n == WithTableAt(m, u, i)
<1>1. /\ t \in Frame \ T(m)
      /\ Memory(w) /\ T(w) = T(m) \cup {t}
      /\ \A j \in Index : At(w, t, j) = Zero
      /\ \A x \in T(m) : w.tables[x] = m.tables[x]
  BY WithTableIs
<1>2. n = Put(w, u, i, Table(t))
  BY DEF WithTableAt, Put
<1>3. t \in Nat /\ Table(t) \in EntryType
  BY <1>1, EntryTypes DEF Frame
<1> HIDE DEF t, w, n
<1>4. u \in T(w) /\ u # t
  BY <1>1
<1>5. /\ Memory(n) /\ T(n) = T(w) /\ At(n, u, i) = Table(t)
      /\ \A x \in T(w), j \in Index : x # u \/ j # i => At(n, x, j) = At(w, x, j)
      /\ \A x \in T(w) : x # u => n.tables[x] = w.tables[x]
  BY <1>1, <1>2, <1>3, <1>4, PutIs
<1>6. \A j \in Index : At(n, t, j) = Zero
  BY <1>1, <1>4, <1>5
<1>7. \A x \in T(m), j \in Index : x # u \/ j # i => At(n, x, j) = At(m, x, j)
  BY <1>1, <1>5 DEF At
<1>8. \A x \in T(m) : x # u => n.tables[x] = m.tables[x]
  BY <1>1, <1>5
<1>9. QED
  BY <1>1, <1>3, <1>5, <1>6, <1>7, <1>8 DEF t, n

(* Tables are given up.                                                    *)
Without(m, S) == [tables |-> [t \in T(m) \ S |-> m.tables[t]], free |-> m.free \cup S]

LEMMA WithoutIs ==
  ASSUME NEW m, Memory(m), NEW S \in SUBSET T(m)
  PROVE  LET n == Without(m, S) IN
         /\ Memory(n) /\ T(n) = T(m) \ S
         /\ \A u \in T(n) : n.tables[u] = m.tables[u]
<1> DEFINE n == Without(m, S)
<1>1. n.tables = [t \in T(m) \ S |-> m.tables[t]] /\ n.free = m.free \cup S
  BY DEF Without
<1>2. T(n) = T(m) \ S
  BY <1>1 DEF T
<1>3. m.tables \in [T(m) -> Content] /\ T(m) \subseteq Frame /\ m.free = Frame \ T(m)
  BY DEF Memory
<1>4. n.tables \in [T(n) -> Content] /\ n.free = Frame \ T(n) /\ T(n) \subseteq Frame
  BY <1>1, <1>2, <1>3
<1>5. n = [tables |-> n.tables, free |-> n.free]
  BY DEF Without
<1>6. QED
  BY <1>1, <1>2, <1>4, <1>5 DEF Memory

-----------------------------------------------------------------------------
(* The changes keep the forest.                                            *)

LEMMA ForestFacts ==
  ASSUME NEW m, NEW R, NEW lvl, Forest(m, R, lvl)
  PROVE  /\ Memory(m) /\ R \subseteq T(m) /\ T(m) \subseteq Nat /\ T(m) \subseteq Frame
         /\ \A t \in T(m) : lvl[t] \in 0 .. 3
         /\ \A t \in T(m), i \in Index : At(m, t, i) \in EntryType
         /\ \A t \in T(m), i \in Index : LeadsOn(m, t, i) =>
              /\ At(m, t, i) = Table(At(m, t, i).addr) /\ At(m, t, i).addr \in T(m)
              /\ lvl[At(m, t, i).addr] = lvl[t] + 1 /\ lvl[t] < 3
<1>1. Memory(m) /\ R \subseteq T(m) /\ T(m) \subseteq Frame /\ T(m) \subseteq Nat
  BY DEF Forest, Memory, Frame
<1>2. \A t \in T(m) : lvl[t] \in 0 .. 3
  BY DEF Forest, Level
<1>3. \A t \in T(m), i \in Index : At(m, t, i) \in EntryType
  BY DEF Forest, Memory, Content, At
<1>4. ASSUME NEW t \in T(m), NEW i \in Index, LeadsOn(m, t, i)
      PROVE  /\ At(m, t, i) = Table(At(m, t, i).addr) /\ At(m, t, i).addr \in T(m)
             /\ lvl[At(m, t, i).addr] = lvl[t] + 1 /\ lvl[t] < 3
  <2>1. /\ At(m, t, i) = Table(At(m, t, i).addr) /\ At(m, t, i).addr \in T(m)
        /\ lvl[At(m, t, i).addr] = lvl[t] + 1
    BY <1>4 DEF Forest
  <2>2. lvl[At(m, t, i).addr] \in 0 .. 3 /\ lvl[t] \in 0 .. 3
    BY <2>1, <1>2
  <2>3. QED
    BY <2>1, <2>2
<1>5. QED
  BY <1>1, <1>2, <1>3, <1>4

(* What leads to a table is a table entry.                                 *)
LEMMA LeadsTo ==
  ASSUME NEW m, NEW t \in Nat, NEW u, NEW i, At(m, u, i) = Table(t)
  PROVE  LeadsOn(m, u, i) /\ At(m, u, i).addr = t
BY EntryTypes DEF LeadsOn

LEMMA ForestPut ==
  ASSUME NEW m, NEW R, NEW lvl, Forest(m, R, lvl),
         NEW t \in T(m), NEW i \in Index, NEW e \in EntryType, e.kind # "table"
  PROVE  /\ Forest(Put(m, t, i, e), R, lvl)
         /\ ~LeadsOn(m, t, i) /\ Owned(m, lvl) => Owned(Put(m, t, i, e), lvl)
<1> DEFINE n == Put(m, t, i, e)
<1>1. Memory(m) /\ Forest(m, R, lvl)
  BY DEF Forest
<1>2. /\ Memory(n) /\ T(n) = T(m) /\ At(n, t, i) = e
      /\ \A u \in T(m), j \in Index : u # t \/ j # i => At(n, u, j) = At(m, u, j)
  BY <1>1, PutIs
<1> HIDE DEF n
<1>3. \A u \in T(n), j \in Index : LeadsOn(n, u, j) => At(n, u, j) = At(m, u, j) /\ LeadsOn(m, u, j)
  BY <1>2 DEF LeadsOn
<1>4. Forest(n, R, lvl)
  BY <1>1, <1>2, <1>3 DEF Forest
<1>5. ASSUME ~LeadsOn(m, t, i), Owned(m, lvl) PROVE Owned(n, lvl)
  <2>1. SUFFICES ASSUME NEW x \in T(m), lvl[x] > 0
                 PROVE  \E u \in T(n), j \in Index : At(n, u, j) = Table(x)
    BY <1>2 DEF Owned
  <2>2. PICK u \in T(m), j \in Index : At(m, u, j) = Table(x)
    BY <1>5, <2>1 DEF Owned
  <2>3. LeadsOn(m, u, j)
    BY <2>2, <1>1, LeadsTo, ForestFacts
  <2>4. At(n, u, j) = At(m, u, j)
    BY <1>2, <1>5, <2>3
  <2>5. QED
    BY <1>2, <2>2, <2>4
<1>6. QED
  BY <1>4, <1>5 DEF n

LEMMA GoodPut ==
  ASSUME NEW m, NEW R, NEW lvl, Good(m, R, lvl),
         NEW t \in T(m), NEW i \in Index, NEW e \in EntryType, e.kind # "table",
         Mixed \/ ~LeadsOn(m, t, i)
  PROVE  Good(Put(m, t, i, e), R, lvl)
BY ForestPut DEF Good

(* A table is added below u, in an entry that led to none.                 *)
LEMMA ForestAdd ==
  ASSUME NEW m, NEW R, NEW lvl, Good(m, R, lvl), m.free # {},
         NEW u \in T(m), NEW i \in Index, lvl[u] < 3, ~LeadsOn(m, u, i)
  PROVE  LET t == Lowest(m.free) IN
         Good(WithTableAt(m, u, i), R, [x \in T(m) \cup {t} |-> IF x = t THEN lvl[u] + 1 ELSE lvl[x]])
<1> DEFINE t == Lowest(m.free)
           n == WithTableAt(m, u, i)
           l == [x \in T(m) \cup {t} |-> IF x = t THEN lvl[u] + 1 ELSE lvl[x]]
<1>1. Memory(m) /\ Forest(m, R, lvl)
  BY DEF Good, Forest
<1>2. /\ t \in Frame \ T(m) /\ t \in Nat
      /\ Memory(n) /\ T(n) = T(m) \cup {t}
      /\ At(n, u, i) = Table(t)
      /\ \A j \in Index : At(n, t, j) = Zero
      /\ \A x \in T(m), j \in Index : x # u \/ j # i => At(n, x, j) = At(m, x, j)
  BY <1>1, WithTableAtIs
<1> HIDE DEF t, n
<1>3. l[t] = lvl[u] + 1 /\ \A x \in T(m) : l[x] = lvl[x]
  BY <1>2
<1>4. l \in [T(n) -> Level]
  BY <1>1, <1>2, ForestFacts DEF Level
<1>5. R = {x \in T(n) : l[x] = 0}
  <2>1. lvl[u] \in Nat /\ l[t] # 0
    BY <1>1, <1>3, ForestFacts
  <2>2. R = {x \in T(m) : lvl[x] = 0}
    BY <1>1 DEF Forest
  <2> HIDE DEF l
  <2>3. QED
    BY <1>2, <1>3, <2>1, <2>2
<1> HIDE DEF l
<1>6. ASSUME NEW x \in T(n), NEW j \in Index, LeadsOn(n, x, j)
      PROVE  \/ x = u /\ j = i /\ At(n, x, j) = Table(t)
             \/ x \in T(m) /\ LeadsOn(m, x, j) /\ At(n, x, j) = At(m, x, j) /\ At(n, x, j).addr # t
  <2>1. x # t
    BY <1>2, <1>6, EntryTypes DEF LeadsOn
  <2>2. CASE x = u /\ j = i
    BY <1>2, <2>2
  <2>3. CASE ~(x = u /\ j = i)
    <3>1. x \in T(m) /\ At(n, x, j) = At(m, x, j)
      BY <1>2, <2>1, <2>3
    <3>2. LeadsOn(m, x, j)
      BY <3>1, <1>6 DEF LeadsOn
    <3>3. At(m, x, j).addr \in T(m)
      BY <1>1, <3>1, <3>2, ForestFacts
    <3>4. QED
      BY <1>2, <3>1, <3>2, <3>3
  <2>4. QED
    BY <2>2, <2>3
<1>7. Table(t).addr = t /\ Table(t).kind = "table"
  BY <1>2, EntryTypes
<1>8. ASSUME NEW x \in T(n), NEW j \in Index, LeadsOn(n, x, j)
      PROVE  LET e == At(n, x, j) IN e = Table(e.addr) /\ e.addr \in T(n) /\ l[e.addr] = l[x] + 1
  <2>1. CASE x = u /\ j = i /\ At(n, x, j) = Table(t)
    BY <2>1, <1>2, <1>3, <1>7
  <2>2. CASE x \in T(m) /\ LeadsOn(m, x, j) /\ At(n, x, j) = At(m, x, j)
    BY <2>2, <1>1, <1>2, <1>3, ForestFacts
  <2>3. QED
    BY <2>1, <2>2, <1>6, <1>8
<1>9. ASSUME NEW x \in T(n), NEW y \in T(n), NEW j \in Index, NEW k \in Index,
             LeadsOn(n, x, j), LeadsOn(n, y, k), At(n, x, j).addr = At(n, y, k).addr
      PROVE  x = y /\ j = k
  <2>1. \/ x = u /\ j = i /\ At(n, x, j) = Table(t)
        \/ x \in T(m) /\ LeadsOn(m, x, j) /\ At(n, x, j) = At(m, x, j) /\ At(n, x, j).addr # t
    BY <1>6, <1>9
  <2>2. \/ y = u /\ k = i /\ At(n, y, k) = Table(t)
        \/ y \in T(m) /\ LeadsOn(m, y, k) /\ At(n, y, k) = At(m, y, k) /\ At(n, y, k).addr # t
    BY <1>6, <1>9
  <2>3. QED
    BY <1>1, <1>7, <1>9, <2>1, <2>2 DEF Forest
<1>10. Forest(n, R, l)
  BY <1>2, <1>4, <1>5, <1>8, <1>9 DEF Forest
<1>11. ASSUME ~Mixed PROVE Owned(n, l)
  <2>1. SUFFICES ASSUME NEW x \in T(n), l[x] > 0
                 PROVE  \E y \in T(n), j \in Index : At(n, y, j) = Table(x)
    BY DEF Owned
  <2>2. CASE x = t
    BY <1>2, <2>2
  <2>3. CASE x \in T(m)
    <3>1. PICK y \in T(m), j \in Index : At(m, y, j) = Table(x)
      BY <1>3, <1>11, <2>1, <2>3 DEF Good, Owned
    <3>2. LeadsOn(m, y, j)
      BY <3>1, <1>1, <2>3, LeadsTo, ForestFacts
    <3>3. At(n, y, j) = At(m, y, j)
      BY <1>2, <3>2
    <3>4. QED
      BY <1>2, <3>1, <3>3
  <2>4. QED
    BY <1>2, <2>2, <2>3
<1>12. QED
  BY <1>10, <1>11 DEF Good, n, t, l

(* A root is added.                                                        *)
LEMMA ForestRoot ==
  ASSUME NEW m, NEW R, NEW lvl, Good(m, R, lvl), m.free # {}
  PROVE  LET t == Lowest(m.free) IN
         Good(WithTable(m), R \cup {t}, [x \in T(m) \cup {t} |-> IF x = t THEN 0 ELSE lvl[x]])
<1> DEFINE t == Lowest(m.free)
           n == WithTable(m)
           l == [x \in T(m) \cup {t} |-> IF x = t THEN 0 ELSE lvl[x]]
<1>1. Memory(m) /\ Forest(m, R, lvl)
  BY DEF Good, Forest
<1>2. /\ t \in Frame \ T(m)
      /\ Memory(n) /\ T(n) = T(m) \cup {t}
      /\ \A j \in Index : At(n, t, j) = Zero
      /\ \A x \in T(m), j \in Index : At(n, x, j) = At(m, x, j)
  BY <1>1, WithTableIs DEF At
<1> HIDE DEF t, n
<1>3. l[t] = 0 /\ \A x \in T(m) : l[x] = lvl[x]
  BY <1>2
<1>4. l \in [T(n) -> Level]
  BY <1>1, <1>2, ForestFacts DEF Level
<1> HIDE DEF l
<1>5. R \cup {t} = {x \in T(n) : l[x] = 0}
  <2>1. R = {x \in T(m) : lvl[x] = 0}
    BY <1>1 DEF Forest
  <2>2. QED
    BY <1>2, <1>3, <2>1
<1>6. ASSUME NEW x \in T(n), NEW j \in Index, LeadsOn(n, x, j)
      PROVE  x \in T(m) /\ LeadsOn(m, x, j) /\ At(n, x, j) = At(m, x, j)
  BY <1>2, <1>6, EntryTypes DEF LeadsOn
<1>7. ASSUME NEW x \in T(n), NEW j \in Index, LeadsOn(n, x, j)
      PROVE  LET e == At(n, x, j) IN e = Table(e.addr) /\ e.addr \in T(n) /\ l[e.addr] = l[x] + 1
  <2>1. x \in T(m) /\ LeadsOn(m, x, j) /\ At(n, x, j) = At(m, x, j)
    BY <1>6, <1>7
  <2>2. QED
    BY <2>1, <1>1, <1>2, <1>3, ForestFacts
<1>8. ASSUME NEW x \in T(n), NEW y \in T(n), NEW j \in Index, NEW k \in Index,
             LeadsOn(n, x, j), LeadsOn(n, y, k), At(n, x, j).addr = At(n, y, k).addr
      PROVE  x = y /\ j = k
  BY <1>1, <1>6, <1>8 DEF Forest
<1>9. Forest(n, R \cup {t}, l)
  BY <1>2, <1>4, <1>5, <1>7, <1>8 DEF Forest
<1>10. ASSUME ~Mixed PROVE Owned(n, l)
  <2>1. SUFFICES ASSUME NEW x \in T(m), lvl[x] > 0
                 PROVE  \E y \in T(n), j \in Index : At(n, y, j) = Table(x)
    BY <1>2, <1>3 DEF Owned
  <2>2. PICK y \in T(m), j \in Index : At(m, y, j) = Table(x)
    BY <1>10, <2>1 DEF Good, Owned
  <2>3. QED
    BY <1>2, <2>2
<1>11. QED
  BY <1>9, <1>10 DEF Good, n, t, l

(* Tables are given up together with whatever leads to them and whatever   *)
(* they lead to.                                                           *)
LEMMA ForestWithout ==
  ASSUME NEW m, NEW R, NEW lvl, Forest(m, R, lvl), NEW S \in SUBSET T(m),
         \A t \in T(m), i \in Index : LeadsOn(m, t, i) /\ At(m, t, i).addr \in S => t \in S
  PROVE  Forest(Without(m, S), R \ S, [t \in T(m) \ S |-> lvl[t]])
<1> DEFINE n == Without(m, S)
           l == [t \in T(m) \ S |-> lvl[t]]
<1>1. Memory(m) /\ Forest(m, R, lvl)
  BY DEF Forest
<1>2. /\ Memory(n) /\ T(n) = T(m) \ S
      /\ \A u \in T(n), i \in Index : At(n, u, i) = At(m, u, i)
  BY <1>1, WithoutIs DEF At
<1> HIDE DEF n
<1>3. l \in [T(n) -> Level] /\ \A t \in T(n) : l[t] = lvl[t]
  BY <1>1, <1>2 DEF Forest
<1>4. R \ S = {t \in T(n) : l[t] = 0}
  <2>1. R = {x \in T(m) : lvl[x] = 0}
    BY <1>1 DEF Forest
  <2>2. QED
    BY <1>2, <1>3, <2>1
<1> HIDE DEF l
<1>5. \A t \in T(n), i \in Index : LeadsOn(n, t, i) => t \in T(m) /\ LeadsOn(m, t, i) /\ At(m, t, i).addr \in T(n)
  <2>1. SUFFICES ASSUME NEW t \in T(n), NEW i \in Index, LeadsOn(n, t, i)
                 PROVE  t \in T(m) /\ LeadsOn(m, t, i) /\ At(m, t, i).addr \in T(n)
    OBVIOUS
  <2>2. t \in T(m) \ S /\ LeadsOn(m, t, i)
    BY <1>2, <2>1 DEF LeadsOn
  <2>3. At(m, t, i).addr \in T(m) \ S
    BY <1>1, <2>2, ForestFacts
  <2>4. QED
    BY <1>2, <2>2, <2>3
<1>6. ASSUME NEW t \in T(n), NEW i \in Index, LeadsOn(n, t, i)
      PROVE  LET e == At(n, t, i) IN e = Table(e.addr) /\ e.addr \in T(n) /\ l[e.addr] = l[t] + 1
  <2>1. t \in T(m) /\ LeadsOn(m, t, i) /\ At(m, t, i).addr \in T(n) /\ At(n, t, i) = At(m, t, i)
    BY <1>2, <1>5, <1>6
  <2>2. QED
    BY <2>1, <1>1, <1>3, ForestFacts
<1>7. ASSUME NEW t \in T(n), NEW u \in T(n), NEW i \in Index, NEW j \in Index,
             LeadsOn(n, t, i), LeadsOn(n, u, j), At(n, t, i).addr = At(n, u, j).addr
      PROVE  t = u /\ i = j
  BY <1>1, <1>2, <1>5, <1>7 DEF Forest
<1>8. Forest(n, R \ S, l)
  BY <1>2, <1>3, <1>4, <1>6, <1>7 DEF Forest
<1>9. QED
  BY <1>8 DEF n, l

LEMMA GoodWithout ==
  ASSUME NEW m, NEW R, NEW lvl, Good(m, R, lvl), NEW S \in SUBSET T(m),
         \A t \in T(m), i \in Index : LeadsOn(m, t, i) => (t \in S <=> At(m, t, i).addr \in S)
  PROVE  Good(Without(m, S), R \ S, [t \in T(m) \ S |-> lvl[t]])
<1> DEFINE n == Without(m, S)
           l == [t \in T(m) \ S |-> lvl[t]]
<1>1. Memory(m) /\ Forest(m, R, lvl)
  BY DEF Good, Forest
<1>2. T(n) = T(m) \ S /\ \A u \in T(n), i \in Index : At(n, u, i) = At(m, u, i)
  BY <1>1, WithoutIs DEF At
<1>3. Forest(n, R \ S, l)
  <2>1. \A t \in T(m), i \in Index : LeadsOn(m, t, i) /\ At(m, t, i).addr \in S => t \in S
    OBVIOUS
  <2>2. QED
    BY <1>1, <2>1, ForestWithout
<1> HIDE DEF n
<1>4. \A t \in T(n) : l[t] = lvl[t]
  BY <1>2
<1> HIDE DEF l
<1>5. ASSUME ~Mixed PROVE Owned(n, l)
  <2>1. SUFFICES ASSUME NEW x \in T(m) \ S, lvl[x] > 0
                 PROVE  \E y \in T(n), j \in Index : At(n, y, j) = Table(x)
    BY <1>2, <1>4 DEF Owned
  <2>2. PICK y \in T(m), j \in Index : At(m, y, j) = Table(x)
    BY <1>5, <2>1 DEF Good, Owned
  <2>3. LeadsOn(m, y, j) /\ At(m, y, j).addr = x
    BY <1>1, <2>2, LeadsTo, ForestFacts
  <2>4. y \in T(n)
    BY <1>2, <2>3
  <2>5. QED
    BY <1>2, <2>2, <2>4
<1>6. QED
  BY <1>3, <1>5 DEF Good, n, l

-----------------------------------------------------------------------------
(* Walks.                                                                  *)

Status == {"ok", "stray", "EFAULT", "ENOMEM", "EEXIST"}
IsWalker(w) == w = [m |-> w.m, at |-> w.at, status |-> w.status] /\ w.at \in Nat /\ w.status \in Status

(* The function a walk is defined by exists: it has at most four values.   *)
LEMMA DownToIs ==
  ASSUME NEW m, NEW root, NEW v, NEW goal
  PROVE  /\ DownTo(m, root, v, 0, goal) = Walker(m, root)
         /\ \A last \in 1 .. 3 :
              LET w == DownTo(m, root, v, last - 1, goal) IN
              DownTo(m, root, v, last, goal) = IF w.status = "ok" THEN Down(w, last - 1, v, goal) ELSE w
<1> DEFINE step(w, level) == IF w.status = "ok" THEN Down(w, level - 1, v, goal) ELSE w
           w0 == Walker(m, root)
           w1 == step(w0, 1)
           w2 == step(w1, 2)
           w3 == step(w2, 3)
           val(level) == IF level = 0 THEN w0 ELSE IF level = 1 THEN w1 ELSE IF level = 2 THEN w2 ELSE w3
           Right(f, last) == f = [level \in 0 .. last |-> IF level = 0 THEN w0 ELSE step(f[level - 1], level)]
<1>1. val(0) = w0 /\ \A level \in 1 .. 3 : val(level) = step(val(level - 1), level)
  <2>1. val(0) = w0 /\ val(1) = w1 /\ val(2) = w2 /\ val(3) = w3
    <3> HIDE DEF w0, w1, w2, w3, step
    <3>1. QED
      BY DEF val
  <2>2. val(1) = step(val(0), 1) /\ val(2) = step(val(1), 2) /\ val(3) = step(val(2), 3)
    <3> HIDE DEF val, step
    <3>1. QED
      BY <2>1, Zenon DEF w1, w2, w3
  <2> HIDE DEF val, step, w0, w1, w2, w3
  <2>3. \A level \in 1 .. 3 : 
                (level - 1 = 0 /\ level = 1) \/ (level - 1 = 1 /\ level = 2) \/ (level - 1 = 2 /\ level = 3)
    OBVIOUS
  <2>4. QED
    BY <2>1, <2>2, <2>3
<1>2. DownTo(m, root, v, 0, goal) = w0 /\ \A last \in 0 .. 3 : DownTo(m, root, v, last, goal) = (CHOOSE f : Right(f, last))[last]
  <2>1. \A last : DownTo(m, root, v, last, goal) = (CHOOSE f : Right(f, last))[last]
    BY Zenon DEF DownTo, step
  <2>2. \E f : Right(f, 0)
    <3>1. Right([level \in 0 .. 0 |-> w0], 0)
      <4> HIDE DEF step, w0
      <4>1. QED
        OBVIOUS
    <3>2. QED
      BY <3>1
  <2>3. Right(CHOOSE f : Right(f, 0), 0)
    BY <2>2
  <2>4. (CHOOSE f : Right(f, 0))[0] = w0
    BY <2>3
  <2>5. QED
    BY <2>1, <2>4
<1> HIDE DEF val, step, w0
<1>3. ASSUME NEW last \in 0 .. 3
      PROVE  DownTo(m, root, v, last, goal) = val(last)
  <2>1. Right([level \in 0 .. last |-> val(level)], last)
    BY <1>1
  <2> DEFINE f == CHOOSE g : Right(g, last)
  <2>2. Right(f, last)
    BY <2>1
  <2> HIDE DEF f
  <2>3. f[0] = w0
    BY <2>2
  <2>4. \A level \in 1 .. last : f[level] = step(f[level - 1], level)
    BY <2>2
  <2>5. f[0] = val(0)
    BY <2>3, <1>1
  <2>6. last >= 1 => f[1] = val(1)
    BY <2>4, <2>5, <1>1
  <2>7. last >= 2 => f[2] = val(2)
    BY <2>4, <2>6, <1>1
  <2>8. last >= 3 => f[3] = val(3)
    BY <2>4, <2>7, <1>1
  <2>9. f[last] = val(last)
    BY <2>5, <2>6, <2>7, <2>8
  <2>10. QED
    BY <1>2, <2>9 DEF f
<1>4. ASSUME NEW last \in 1 .. 3
      PROVE  DownTo(m, root, v, last, goal) = step(DownTo(m, root, v, last - 1, goal), last)
  BY <1>1, <1>3
<1>5. QED
  BY <1>2, <1>4 DEF step, w0

(* No entry that was set is cleared: a walk and a copy keep what was there.*)
Kept(m, n) == T(m) \subseteq T(n) /\ \A t \in T(m), i \in Index : At(m, t, i) # Zero => At(n, t, i) # Zero

LEMMA KeptKept ==
  ASSUME NEW m, NEW n, NEW o, Kept(m, n), Kept(n, o)
  PROVE  Kept(m, o)
BY DEF Kept

(* What is so after a walk in memory m that should be at a level: the      *)
(* forest is kept, and a search that ended well is at a table of the level.*)
Walked(m, R, lvl, w, level, goal) ==
  /\ IsWalker(w) /\ Kept(m, w.m)
  /\ \E l : Good(w.m, R, l) /\ (w.status = "ok" => w.at \in T(w.m) /\ l[w.at] = level)
  /\ goal = "find" => /\ w.m = m /\ w.status \in {"ok", "stray", "EFAULT"}
                      /\ w.status = "ok" => w.at \in T(m) /\ lvl[w.at] = level

(* What is so after a step with goal "find".                               *)
Found(w, i, d) ==
  /\ d.status = "ok" => At(w.m, w.at, i) = Table(d.at) /\ LeadsOn(w.m, w.at, i)
  /\ LeadsOn(w.m, w.at, i) => d.status = "ok"

LEMMA DownIs ==
  ASSUME PageTableAssumption, NEW w, IsWalker(w), w.status = "ok", NEW R, NEW lvl, Good(w.m, R, lvl),
         w.at \in T(w.m), NEW level \in 0 .. 2, lvl[w.at] = level, NEW v \in Nat, NEW goal \in {"find", "make"}
  PROVE  LET d == Down(w, level, v, goal) IN
         /\ Walked(w.m, R, lvl, d, level + 1, goal)
         /\ goal = "find" => Found(w, extract_index(level, v), d)
<1> DEFINE d == Down(w, level, v, goal)
           i == extract_index(level, v)
           e == Entry(w, level, v)
           t == Lowest(w.m.free)
<1>1. i \in Index
  BY IndexOf DEF Level
<1>2. e = At(w.m, w.at, i)
  BY DEF Entry, At
<1>3. Forest(w.m, R, lvl)
  BY DEF Good
<1>4. e \in EntryType
  BY <1>1, <1>2, <1>3, ForestFacts
<1>5. e.kind \in {"zero", "table", "leaf", "broken"}
  BY <1>4 DEF EntryType
<1>6. pte_valid(e) <=> e.kind \in {"table", "leaf"}
  BY DEF pte_valid
<1>7. d = CASE e.kind = "table" -> [w EXCEPT !.at = e.addr]
            [] e.kind = "leaf" -> [w EXCEPT !.status = "stray"]
            [] ~pte_valid(e) /\ goal = "find" -> [w EXCEPT !.status = "EFAULT"]
            [] ~pte_valid(e) /\ goal = "make" /\ w.m.free = {} -> [w EXCEPT !.status = "ENOMEM"]
            [] ~pte_valid(e) /\ goal = "make" /\ w.m.free # {} ->
                 [w EXCEPT !.m = WithTableAt(w.m, w.at, i), !.at = t]
  BY DEF Down
<1>8. Kept(w.m, w.m)
  BY DEF Kept
<1> HIDE DEF d, e, t, i
<1>9. CASE e.kind = "table"
  <2>1. d = [w EXCEPT !.at = e.addr]
    BY <1>6, <1>7, <1>9
  <2>2. d.m = w.m /\ d.at = e.addr /\ d.status = "ok" /\ IsWalker(d)
    BY <1>4, <2>1 DEF IsWalker, EntryType
  <2>3. LeadsOn(w.m, w.at, i)
    BY <1>2, <1>9 DEF LeadsOn
  <2>4. e = Table(d.at) /\ d.at \in T(w.m) /\ lvl[d.at] = level + 1
    BY <1>1, <1>2, <1>3, <2>2, <2>3, ForestFacts
  <2>5. QED
    BY <1>2, <1>8, <2>2, <2>3, <2>4 DEF d, i, Walked, Found
<1>10. CASE e.kind = "leaf" \/ (~pte_valid(e) /\ (goal = "find" \/ w.m.free = {}))
  <2>1. PICK s \in {"stray", "EFAULT", "ENOMEM"} : d = [w EXCEPT !.status = s] /\ (goal = "find" => s # "ENOMEM")
    BY <1>5, <1>6, <1>7, <1>10
  <2>2. /\ d.m = w.m /\ d.status # "ok" /\ IsWalker(d)
        /\ goal = "find" => d.status \in {"ok", "stray", "EFAULT"}
    BY <2>1 DEF IsWalker, Status
  <2>3. ~LeadsOn(w.m, w.at, i)
    BY <1>2, <1>6, <1>10 DEF LeadsOn
  <2>4. QED
    BY <1>8, <2>2, <2>3 DEF d, i, Walked, Found
<1>11. CASE ~pte_valid(e) /\ goal = "make" /\ w.m.free # {}
  <2>1. d = [w EXCEPT !.m = WithTableAt(w.m, w.at, i), !.at = t]
    BY <1>6, <1>7, <1>11
  <2>2. d.m = WithTableAt(w.m, w.at, i) /\ d.at = t /\ d.status = "ok" /\ IsWalker(d)
    <3>1. t \in Nat
      BY <1>1, <1>3, <1>11, WithTableAtIs DEF t, Forest
    <3>2. QED
      BY <2>1, <3>1 DEF IsWalker
  <2>3. ~LeadsOn(w.m, w.at, i)
    BY <1>2, <1>6, <1>11 DEF LeadsOn
  <2> DEFINE l == [x \in T(w.m) \cup {t} |-> IF x = t THEN lvl[w.at] + 1 ELSE lvl[x]]
  <2>4. Good(d.m, R, l)
    <3>1. lvl[w.at] < 3
      OBVIOUS
    <3>2. Good(WithTableAt(w.m, w.at, i), R, l)
      BY <1>1, <1>11, <2>3, <3>1, ForestAdd DEF t
    <3>3. QED
      BY <2>2, <3>2
  <2>5. /\ t \in Frame \ T(w.m) /\ T(d.m) = T(w.m) \cup {t} /\ t \in Nat
        /\ At(d.m, w.at, i) = Table(t)
        /\ \A x \in T(w.m), j \in Index : x # w.at \/ j # i => At(d.m, x, j) = At(w.m, x, j)
    <3>1. Memory(w.m)
      BY <1>3 DEF Forest
    <3>2. QED
      BY <1>1, <1>11, <2>2, <3>1, WithTableAtIs DEF t
  <2>6. Kept(w.m, d.m)
    <3>1. Table(t) # Zero
      BY <2>5, EntryTypes
    <3>2. QED
      BY <2>5, <3>1 DEF Kept
  <2>7. l[d.at] = level + 1 /\ d.at \in T(d.m)
    BY <2>2, <2>5
  <2> HIDE DEF l
  <2>8. QED
    BY <1>11, <2>2, <2>4, <2>6, <2>7 DEF d, i, Walked, Found
<1>12. QED
  BY <1>5, <1>6, <1>9, <1>10, <1>11

(* A walk from a root: where it ends, and that it keeps the forest.        *)
LEMMA WalkIs ==
  ASSUME PageTableAssumption, NEW m, NEW R, NEW lvl, Good(m, R, lvl), NEW root \in R,
         NEW v \in Nat, NEW goal \in {"find", "make"}, NEW last \in 0 .. 3
  PROVE  Walked(m, R, lvl, DownTo(m, root, v, last, goal), last, goal)
<1> DEFINE w(k) == DownTo(m, root, v, k, goal)
           P(k) == Walked(m, R, lvl, w(k), k, goal)
<1>1. P(0)
  <2>1. w(0) = [m |-> m, at |-> root, status |-> "ok"]
    BY DownToIs DEF Walker
  <2>2. root \in T(m) /\ lvl[root] = 0
    BY DEF Good, Forest
  <2>3. IsWalker(w(0)) /\ w(0).m = m /\ w(0).at = root /\ w(0).status = "ok"
    BY <2>1, <2>2, ForestFacts DEF IsWalker, Status, Good
  <2>4. Kept(m, m)
    BY DEF Kept
  <2> HIDE DEF w
  <2>5. QED
    BY <2>2, <2>3, <2>4 DEF Walked
<1>2. ASSUME NEW k \in 1 .. 3, P(k - 1)
      PROVE  P(k)
  <2> DEFINE b == w(k - 1)
             d == Down(b, k - 1, v, goal)
  <2>1. w(k) = IF b.status = "ok" THEN d ELSE b
    BY DownToIs
  <2>2. Walked(m, R, lvl, b, k - 1, goal)
    BY <1>2
  <2> HIDE DEF w, b
  <2>3. CASE b.status # "ok"
    <3>1. w(k) = b
      BY <2>1, <2>3
    <3>2. QED
      BY <2>2, <2>3, <3>1 DEF Walked
  <2>4. CASE b.status = "ok"
    <3>1. w(k) = d
      BY <2>1, <2>4
    <3>2. k - 1 \in 0 .. 2 /\ (k - 1) + 1 = k
      OBVIOUS
    <3>3. /\ IsWalker(b) /\ Kept(m, b.m)
          /\ goal = "find" => b.m = m /\ b.at \in T(m) /\ lvl[b.at] = k - 1
      BY <2>2, <2>4 DEF Walked
    <3>4. PICK l : Good(b.m, R, l) /\ b.at \in T(b.m) /\ l[b.at] = k - 1
      BY <2>2, <2>4 DEF Walked
    <3>5. Walked(b.m, R, l, d, (k - 1) + 1, goal)
      BY <2>4, <3>2, <3>3, <3>4, DownIs
    <3>6. ASSUME goal = "find" PROVE Walked(b.m, R, lvl, d, (k - 1) + 1, goal)
      <4>1. Good(b.m, R, lvl) /\ b.at \in T(b.m) /\ lvl[b.at] = k - 1
        BY <3>3, <3>6
      <4>2. QED
        BY <2>4, <3>2, <3>3, <4>1, DownIs
    <3> HIDE DEF d
    <3>7. IsWalker(d) /\ \E g : Good(d.m, R, g) /\ (d.status = "ok" => d.at \in T(d.m) /\ g[d.at] = k)
      BY <3>2, <3>5 DEF Walked
    <3>8. Kept(m, d.m)
      BY <3>3, <3>5, KeptKept DEF Walked
    <3>9. goal = "find" => d.m = m /\ d.status \in {"ok", "stray", "EFAULT"} /\ (d.status = "ok" => d.at \in T(m) /\ lvl[d.at] = k)
      BY <3>2, <3>3, <3>6 DEF Walked
    <3>10. QED
      BY <3>1, <3>7, <3>8, <3>9 DEF Walked
  <2>5. QED
    BY <2>3, <2>4
<1> HIDE DEF P
<1>3. P(1) /\ P(2) /\ P(3)
  <2>1. P(1)
    BY <1>1, <1>2
  <2>2. P(2)
    BY <1>2, <2>1
  <2>3. P(3)
    BY <1>2, <2>2
  <2>4. QED
    BY <2>1, <2>2, <2>3
<1>4. P(last)
  BY <1>1, <1>3
<1>5. QED
  BY <1>4 DEF P, w

(* The last step of a search.                                              *)
Ends(m, lvl, b, w, i, last) ==
  /\ i \in Index /\ IsWalker(w) /\ IsWalker(b) /\ w.m = m /\ b.m = m
  /\ b.status = "ok" => b.at \in T(m) /\ lvl[b.at] = last - 1
  /\ w.status = "ok" =>
       /\ b.status = "ok" /\ LeadsOn(m, b.at, i) /\ At(m, b.at, i) = Table(w.at)
       /\ w.at \in T(m) /\ lvl[w.at] = last
  /\ b.status = "ok" /\ LeadsOn(m, b.at, i) => w.status = "ok"

LEMMA LastStep ==
  ASSUME PageTableAssumption, NEW m, NEW R, NEW lvl, Good(m, R, lvl), NEW root \in R,
         NEW v \in Nat, NEW last \in 1 .. 3
  PROVE  Ends(m, lvl, DownTo(m, root, v, last - 1, "find"), DownTo(m, root, v, last, "find"),
              extract_index(last - 1, v), last)
<1> DEFINE b == DownTo(m, root, v, last - 1, "find")
           w == DownTo(m, root, v, last, "find")
           i == extract_index(last - 1, v)
           d == Down(b, last - 1, v, "find")
<1>1. i \in Index
  BY IndexOf DEF Level
<1>2. last - 1 \in 0 .. 3 /\ last \in 0 .. 3 /\ last - 1 \in 0 .. 2 /\ "find" \in {"find", "make"}
  OBVIOUS
<1>3. Walked(m, R, lvl, b, last - 1, "find") /\ Walked(m, R, lvl, w, last, "find")
  BY <1>2, WalkIs
<1>4. w = IF b.status = "ok" THEN d ELSE b
  BY DownToIs
<1> HIDE DEF b, w
<1>5. ASSUME b.status = "ok" PROVE Found(b, i, d)
  <2>1. IsWalker(b) /\ Good(b.m, R, lvl) /\ b.at \in T(b.m) /\ lvl[b.at] = last - 1
    BY <1>3, <1>5 DEF Walked
  <2>2. QED
    BY <1>2, <1>5, <2>1, DownIs
<1> HIDE DEF i, d
<1>6. CASE b.status = "ok"
  <2>1. w = d /\ Found(b, i, w)
    BY <1>4, <1>5, <1>6
  <2>2. IsWalker(w) /\ IsWalker(b) /\ w.m = m /\ b.m = m /\ b.at \in T(m) /\ lvl[b.at] = last - 1
    BY <1>3, <1>6 DEF Walked
  <2>3. w.status = "ok" => w.at \in T(m) /\ lvl[w.at] = last
    BY <1>3 DEF Walked
  <2>4. Ends(m, lvl, b, w, i, last)
    BY <1>1, <1>6, <2>1, <2>2, <2>3 DEF Found, Ends
  <2>5. QED
    BY <2>4 DEF b, w, i
<1>7. CASE b.status # "ok"
  <2>1. w = b /\ IsWalker(b) /\ b.m = m
    BY <1>3, <1>4, <1>7 DEF Walked
  <2>2. Ends(m, lvl, b, w, i, last)
    BY <1>1, <1>7, <2>1 DEF Ends
  <2>3. QED
    BY <2>2 DEF b, w, i
<1>8. QED
  BY <1>6, <1>7

-----------------------------------------------------------------------------
(* One page or block.                                                      *)

LEMMA WriteIs ==
  ASSUME NEW w, IsWalker(w), NEW level, NEW v, NEW e
  PROVE  LET r == Write(w, level, v, e) IN
         r = [m |-> Put(w.m, w.at, extract_index(level, v), e), at |-> w.at, status |-> w.status]
BY DEF IsWalker, Write, Put

(* The result of a call on one page, seen from the memory m before it: it  *)
(* is sound, and entries are only added; or tables and entries that lead to*)
(* tables only lost.                                                       *)
Adds(m, R, r) == IsWalker(r) /\ Kept(m, r.m) /\ \E l : Good(r.m, R, l)

LEMMA MapPage ==
  ASSUME PageTableAssumption, NEW m, NEW R, NEW lvl, Good(m, R, lvl), NEW root \in R,
         NEW v \in Nat, NEW phys \in Nat, NEW size \in MapSizes, NEW f \in Flags
  PROVE  Adds(m, R, pt_map_single_page(m, root, v, phys, size, f))
<1> DEFINE level == LeafLevel(size)
           w == DownTo(m, root, v, level, "make")
           r == pt_map_single_page(m, root, v, phys, size, f)
           i == extract_index(level, v)
           n == Put(w.m, w.at, i, Leaf(phys, f))
<1>1. level \in 1 .. 3 /\ level \in 0 .. 3 /\ level \in Level
  BY LeafLevelOf DEF Level
<1>2. i \in Index
  BY <1>1, IndexOf
<1>3. Walked(m, R, lvl, w, level, "make")
  BY <1>1, WalkIs
<1>4. /\ IsWalker(w) /\ Kept(m, w.m)
      /\ \E l : Good(w.m, R, l) /\ (w.status = "ok" => w.at \in T(w.m) /\ l[w.at] = level)
  BY <1>3 DEF Walked
<1>11. PICK l : Good(w.m, R, l) /\ (w.status = "ok" => w.at \in T(w.m) /\ l[w.at] = level)
  BY <1>4
<1>5. r = IF w.status # "ok" THEN w
          ELSE IF pte_valid(Entry(w, level, v)) THEN [w EXCEPT !.status = "EEXIST"]
          ELSE Write(w, level, v, Leaf(phys, f))
  BY DEF pt_map_single_page
<1>6. Entry(w, level, v) = At(w.m, w.at, i)
  BY DEF Entry, At
<1> HIDE DEF level, w, r, i, n
<1>7. CASE w.status # "ok"
  BY <1>4, <1>5, <1>7 DEF Adds, r
<1>8. CASE w.status = "ok" /\ pte_valid(Entry(w, level, v))
  <2>1. r = [w EXCEPT !.status = "EEXIST"]
    BY <1>5, <1>8
  <2>2. IsWalker(r) /\ r.m = w.m
    BY <1>4, <2>1 DEF IsWalker, Status
  <2>3. QED
    BY <1>4, <2>2 DEF Adds, r
<1>9. CASE w.status = "ok" /\ ~pte_valid(Entry(w, level, v))
  <2>1. r = [m |-> n, at |-> w.at, status |-> w.status]
    BY <1>4, <1>5, <1>9, WriteIs DEF n, i
  <2>2. IsWalker(r) /\ r.m = n
    BY <1>4, <1>9, <2>1 DEF IsWalker
  <2>3. ~LeadsOn(w.m, w.at, i)
    BY <1>6, <1>9 DEF pte_valid, LeadsOn
  <2>4. Leaf(phys, f) \in EntryType /\ Leaf(phys, f).kind # "table" /\ Leaf(phys, f) # Zero
    BY EntryTypes
  <2>5. Good(n, R, l)
    BY <1>2, <1>11, <1>9, <2>3, <2>4, GoodPut DEF n
  <2>6. Kept(w.m, n)
    <3>1. Memory(w.m)
      BY <1>11 DEF Good, Forest
    <3>2. /\ T(n) = T(w.m) /\ At(n, w.at, i) = Leaf(phys, f)
          /\ \A u \in T(w.m), j \in Index : u # w.at \/ j # i => At(n, u, j) = At(w.m, u, j)
      BY <1>2, <1>11, <1>9, <2>4, <3>1, PutIs DEF n
    <3>3. QED
      BY <2>4, <3>2 DEF Kept
  <2>7. Kept(m, n)
    BY <1>4, <2>6, KeptKept
  <2>8. QED
    BY <2>2, <2>5, <2>7 DEF Adds, r
<1>10. QED
  BY <1>7, <1>8, <1>9

(* Tables go and entries that lead to tables go, but none come.            *)
Shrunk(m, n) ==
  /\ T(n) \subseteq T(m)
  /\ \A t \in T(n), i \in Index : LeadsOn(n, t, i) => At(m, t, i) = At(n, t, i)

(* A table that loses its last entry, except those of S, goes.             *)
NoneEmptied(m, n, S) == \A t \in T(m) \ S : ~is_pt_empty(m, t) => t \notin T(n) \/ ~is_pt_empty(n, t)

LEMMA ShrunkShrunk ==
  ASSUME NEW m, NEW n, NEW o, Shrunk(m, n), Shrunk(n, o)
  PROVE  Shrunk(m, o)
BY DEF Shrunk, LeadsOn

LEMMA NoneEmptiedTwice ==
  ASSUME NEW m, NEW n, NEW o, NEW S, NoneEmptied(m, n, S), NoneEmptied(n, o, S), T(o) \subseteq T(n)
  PROVE  NoneEmptied(m, o, S)
BY DEF NoneEmptied

(* A search ends where it ended before tables were lost.                   *)
LEMMA SameWalk ==
  ASSUME PageTableAssumption, NEW R, NEW m, NEW lvl, Good(m, R, lvl), NEW n, NEW l, Good(n, R, l),
         Shrunk(m, n), NEW root \in R, NEW v \in Nat, NEW last \in 0 .. 3,
         DownTo(n, root, v, last, "find").status = "ok"
  PROVE  /\ DownTo(m, root, v, last, "find").status = "ok"
         /\ DownTo(m, root, v, last, "find").at = DownTo(n, root, v, last, "find").at
<1> DEFINE a(k) == DownTo(m, root, v, k, "find")
           b(k) == DownTo(n, root, v, k, "find")
           P(k) == b(k).status = "ok" => a(k).status = "ok" /\ a(k).at = b(k).at
<1>1. P(0)
  BY DownToIs DEF Walker
<1>2. ASSUME NEW k \in 1 .. 3, P(k - 1)
      PROVE  P(k)
  <2> DEFINE i == extract_index(k - 1, v)
  <2>1. Ends(m, lvl, a(k - 1), a(k), i, k) /\ Ends(n, l, b(k - 1), b(k), i, k)
    BY LastStep
  <2>2. P(k - 1)
    BY <1>2
  <2>3. T(n) \subseteq Nat /\ T(m) \subseteq Nat
    BY ForestFacts DEF Good
  <2> HIDE DEF a, b, i
  <2>4. SUFFICES ASSUME b(k).status = "ok" PROVE a(k).status = "ok" /\ a(k).at = b(k).at
    OBVIOUS
  <2>5. /\ i \in Index /\ b(k - 1).status = "ok" /\ b(k - 1).at \in T(n) /\ LeadsOn(n, b(k - 1).at, i)
        /\ At(n, b(k - 1).at, i) = Table(b(k).at) /\ b(k).at \in T(n)
    BY <2>1, <2>4 DEF Ends
  <2>6. a(k - 1).status = "ok" /\ a(k - 1).at = b(k - 1).at
    BY <2>2, <2>5
  <2>7. At(m, a(k - 1).at, i) = Table(b(k).at)
    BY <2>5, <2>6 DEF Shrunk
  <2>8. LeadsOn(m, a(k - 1).at, i)
    BY <2>3, <2>5, <2>7, LeadsTo
  <2>9. a(k).status = "ok" /\ At(m, a(k - 1).at, i) = Table(a(k).at) /\ a(k).at \in T(m)
    BY <2>1, <2>6, <2>8 DEF Ends
  <2>10. QED
    BY <2>3, <2>5, <2>7, <2>9, EntryTypes
<1> HIDE DEF P
<1>3. P(1) /\ P(2) /\ P(3)
  <2>1. P(1)
    BY <1>1, <1>2
  <2>2. P(2)
    BY <1>2, <2>1
  <2>3. P(3)
    BY <1>2, <2>2
  <2>4. QED
    BY <2>1, <2>2, <2>3
<1>4. P(last)
  BY <1>1, <1>3
<1>5. QED
  BY <1>4 DEF P

(* A search is not disturbed by what happens to tables of its last level   *)
(* and below.                                                              *)
LEMMA UpperWalk ==
  ASSUME PageTableAssumption, NEW R, NEW m, NEW lvl, Good(m, R, lvl), NEW n, NEW l, Good(n, R, l),
         NEW root \in R, NEW v \in Nat, NEW last \in 0 .. 3,
         \A t \in T(m), i \in Index : lvl[t] < last => t \in T(n) /\ At(n, t, i) = At(m, t, i),
         DownTo(m, root, v, last, "find").status = "ok"
  PROVE  /\ DownTo(n, root, v, last, "find").status = "ok"
         /\ DownTo(n, root, v, last, "find").at = DownTo(m, root, v, last, "find").at
<1> DEFINE a(k) == DownTo(m, root, v, k, "find")
           b(k) == DownTo(n, root, v, k, "find")
           P(k) == a(k).status = "ok" => b(k).status = "ok" /\ a(k).at = b(k).at
<1>1. P(0)
  BY DownToIs DEF Walker
<1>2. ASSUME NEW k \in 1 .. last, P(k - 1)
      PROVE  P(k)
  <2> DEFINE i == extract_index(k - 1, v)
  <2>0. k \in 1 .. 3
    OBVIOUS
  <2>1. Ends(m, lvl, a(k - 1), a(k), i, k) /\ Ends(n, l, b(k - 1), b(k), i, k)
    BY <2>0, LastStep
  <2>2. P(k - 1)
    BY <1>2
  <2>3. T(n) \subseteq Nat /\ T(m) \subseteq Nat
    BY ForestFacts DEF Good
  <2> HIDE DEF a, b, i
  <2>4. SUFFICES ASSUME a(k).status = "ok" PROVE b(k).status = "ok" /\ a(k).at = b(k).at
    OBVIOUS
  <2>5. /\ i \in Index /\ a(k - 1).status = "ok" /\ a(k - 1).at \in T(m) /\ LeadsOn(m, a(k - 1).at, i)
        /\ At(m, a(k - 1).at, i) = Table(a(k).at) /\ a(k).at \in T(m) /\ lvl[a(k - 1).at] = k - 1
    BY <2>1, <2>4 DEF Ends
  <2>6. b(k - 1).status = "ok" /\ a(k - 1).at = b(k - 1).at
    BY <2>2, <2>5
  <2>7. At(n, b(k - 1).at, i) = Table(a(k).at)
    BY <2>0, <2>5, <2>6
  <2>8. LeadsOn(n, b(k - 1).at, i)
    BY <2>3, <2>5, <2>7, LeadsTo
  <2>9. b(k).status = "ok" /\ At(n, b(k - 1).at, i) = Table(b(k).at) /\ b(k).at \in T(n)
    BY <2>1, <2>6, <2>8 DEF Ends
  <2>10. QED
    BY <2>3, <2>5, <2>7, <2>9, EntryTypes
<1> HIDE DEF P
<1>3. \A k \in 0 .. last : P(k)
  <2>1. last >= 1 => P(1)
    BY <1>1, <1>2
  <2>2. last >= 2 => P(2)
    BY <1>2, <2>1
  <2>3. last >= 3 => P(3)
    BY <1>2, <2>2
  <2>4. QED
    BY <1>1, <2>1, <2>2, <2>3
<1>4. P(last)
  BY <1>3
<1>5. QED
  BY <1>4 DEF P


-----------------------------------------------------------------------------
(* What a walk finds.                                                      *)

(* What an entry of a level maps page p to, and what the walk of a page    *)
(* finds from a table of a level on, which are sets of one or of none.     *)
Here(e, level, p) ==
  IF e.kind = "leaf" THEN {[frame |-> e.addr + (p % Span(level)), flags |-> e.flags]} ELSE {}

Seen3(m, t, p) == Here(At(m, t, extract_index(3, p)), 3, p)
Seen2(m, t, p) ==
  LET e == At(m, t, extract_index(2, p)) IN IF e.kind = "table" THEN Seen3(m, e.addr, p) ELSE Here(e, 2, p)
Seen1(m, t, p) ==
  LET e == At(m, t, extract_index(1, p)) IN IF e.kind = "table" THEN Seen2(m, e.addr, p) ELSE Here(e, 1, p)
Seen0(m, t, p) ==
  LET e == At(m, t, extract_index(0, p)) IN IF e.kind = "table" THEN Seen1(m, e.addr, p) ELSE Here(e, 0, p)
Seen(m, t, level, p) ==
  IF level = 3 THEN Seen3(m, t, p) ELSE IF level = 2 THEN Seen2(m, t, p)
  ELSE IF level = 1 THEN Seen1(m, t, p) ELSE Seen0(m, t, p)

LEMMA SeenIs ==
  ASSUME NEW m, NEW t, NEW level \in Level, NEW p
  PROVE  LET e == At(m, t, extract_index(level, p)) IN
         Seen(m, t, level, p) = IF level < 3 /\ e.kind = "table" THEN Seen(m, e.addr, level + 1, p) ELSE Here(e, level, p)
<1>1. level = 0 \/ level = 1 \/ level = 2 \/ level = 3
  BY DEF Level
<1>2. CASE level = 0
  <2>1. Seen(m, t, level, p) = Seen0(m, t, p) /\ \A x : Seen(m, x, level + 1, p) = Seen1(m, x, p)
    BY <1>2 DEF Seen
  <2>2. QED
    BY <1>2, <2>1 DEF Seen0
<1>3. CASE level = 1
  <2>1. Seen(m, t, level, p) = Seen1(m, t, p) /\ \A x : Seen(m, x, level + 1, p) = Seen2(m, x, p)
    BY <1>3 DEF Seen
  <2>2. QED
    BY <1>3, <2>1 DEF Seen1
<1>4. CASE level = 2
  <2>1. Seen(m, t, level, p) = Seen2(m, t, p) /\ \A x : Seen(m, x, level + 1, p) = Seen3(m, x, p)
    BY <1>4 DEF Seen
  <2>2. QED
    BY <1>4, <2>1 DEF Seen2
<1>5. CASE level = 3
  <2>1. Seen(m, t, level, p) = Seen3(m, t, p)
    BY <1>5 DEF Seen
  <2>2. QED
    BY <1>5, <2>1 DEF Seen3
<1>6. QED
  BY <1>1, <1>2, <1>3, <1>4, <1>5

(* What is so of the tables of a level if it is so of those of the next is *)
(* so of all.                                                              *)
LEMMA Upwards ==
  ASSUME NEW P, \A level \in Level : (level < 3 => level + 1 \in P) => level \in P
  PROVE  Level \subseteq P
<1>1. 3 \in P
  BY DEF Level
<1>2. 2 \in P
  BY <1>1 DEF Level
<1>3. 1 \in P
  BY <1>2 DEF Level
<1>4. 0 \in P
  BY <1>3 DEF Level
<1>5. QED
  BY <1>1, <1>2, <1>3, <1>4 DEF Level

(* Tables that lead to each other only, and are the same in two memories.  *)
Apart(m, n, C) ==
  /\ \A t \in C : n.tables[t] = m.tables[t]
  /\ \A t \in C, i \in Index : LeadsOn(m, t, i) => At(m, t, i).addr \in C

LEMMA SeenApart ==
  ASSUME PageTableAssumption, NEW m, NEW n, NEW C, Apart(m, n, C), NEW p \in Nat
  PROVE  \A level \in Level, t \in C : Seen(n, t, level, p) = Seen(m, t, level, p)
<1> DEFINE P == {level \in Level : \A t \in C : Seen(n, t, level, p) = Seen(m, t, level, p)}
<1>1. ASSUME NEW level \in Level, level < 3 => level + 1 \in P
      PROVE  level \in P
  <2>1. SUFFICES ASSUME NEW t \in C
                 PROVE  Seen(n, t, level, p) = Seen(m, t, level, p)
    OBVIOUS
  <2> DEFINE i == extract_index(level, p)
             e == At(m, t, i)
  <2>2. i \in Index
    BY IndexOf
  <2>3. At(n, t, i) = e
    BY DEF At, Apart
  <2>4. Seen(m, t, level, p) = IF level < 3 /\ e.kind = "table" THEN Seen(m, e.addr, level + 1, p) ELSE Here(e, level, p)
    BY SeenIs
  <2>5. Seen(n, t, level, p) = IF level < 3 /\ e.kind = "table" THEN Seen(n, e.addr, level + 1, p) ELSE Here(e, level, p)
    BY <2>3, SeenIs
  <2> HIDE DEF i
  <2>6. e.kind = "table" => e.addr \in C
    BY <2>2 DEF Apart, LeadsOn
  <2> HIDE DEF e
  <2>7. level < 3 => \A x \in C : Seen(n, x, level + 1, p) = Seen(m, x, level + 1, p)
    BY <1>1
  <2>8. QED
    BY <2>4, <2>5, <2>6, <2>7
<1> HIDE DEF P
<1>2. Level \subseteq P
  BY <1>1, Upwards
<1>3. QED
  BY <1>2 DEF P

(* An entry that is not valid gets an empty table below it, or loses one:  *)
(* nothing else is seen.                                                   *)
Grown(m, n, u, i, t) ==
  /\ u \in T(m) /\ i \in Index /\ t \notin T(m) /\ T(n) = T(m) \cup {t}
  /\ ~pte_valid(At(m, u, i)) /\ At(n, u, i) = Table(t)
  /\ \A j \in Index : At(n, t, j) = Zero
  /\ \A x \in T(m), j \in Index : x # u \/ j # i => At(n, x, j) = At(m, x, j)

LEMMA SeenGrown ==
  ASSUME PageTableAssumption, NEW m, NEW R, NEW lvl, Forest(m, R, lvl), NEW n, NEW u, NEW i, NEW t \in Nat,
         Grown(m, n, u, i, t), lvl[u] < 3, NEW p \in Nat
  PROVE  \A level \in Level, x \in T(m) : lvl[x] = level => Seen(n, x, level, p) = Seen(m, x, level, p)
<1> DEFINE P == {level \in Level : \A x \in T(m) : lvl[x] = level => Seen(n, x, level, p) = Seen(m, x, level, p)}
<1>1. ASSUME NEW level \in Level, level < 3 => level + 1 \in P
      PROVE  level \in P
  <2>1. SUFFICES ASSUME NEW x \in T(m), lvl[x] = level
                 PROVE  Seen(n, x, level, p) = Seen(m, x, level, p)
    OBVIOUS
  <2> DEFINE k == extract_index(level, p)
             e == At(m, x, k)
             g == At(n, x, k)
  <2>2. k \in Index
    BY IndexOf
  <2>3. Seen(m, x, level, p) = IF level < 3 /\ e.kind = "table" THEN Seen(m, e.addr, level + 1, p) ELSE Here(e, level, p)
    BY SeenIs
  <2>4. Seen(n, x, level, p) = IF level < 3 /\ g.kind = "table" THEN Seen(n, g.addr, level + 1, p) ELSE Here(g, level, p)
    BY SeenIs
  <2> HIDE DEF k
  <2>5. CASE x = u /\ k = i
    <3>1. g = Table(t) /\ ~pte_valid(e) /\ level < 3
      BY <2>1, <2>5 DEF Grown
    <3>2. g.kind = "table" /\ g.addr = t
      BY <3>1, EntryTypes
    <3>3. e.kind # "table" /\ Here(e, level, p) = {}
      BY <3>1 DEF pte_valid, Here
    <3>4. Seen(n, t, level + 1, p) = {}
      <4> DEFINE o == At(n, t, extract_index(level + 1, p))
                 q == level + 1
      <4>1. q \in Level
        BY <3>1 DEF Level
      <4>2. extract_index(q, p) \in Index
        <5> HIDE DEF q
        <5>1. QED
          BY <4>1, IndexOf
      <4>3. o = Zero
        BY <4>2 DEF Grown
      <4>4. o.kind = "zero"
        BY <4>3, EntryTypes
      <4>5. Seen(n, t, q, p) = IF q < 3 /\ o.kind = "table" THEN Seen(n, o.addr, q + 1, p) ELSE Here(o, q, p)
        <5> HIDE DEF q
        <5>1. QED
          BY <4>1, SeenIs DEF q
      <4>6. Here(o, q, p) = {}
        BY <4>4 DEF Here
      <4> HIDE DEF o
      <4>7. QED
        BY <4>4, <4>5, <4>6
    <3> HIDE DEF e, g
    <3>5. QED
      BY <2>3, <2>4, <3>1, <3>2, <3>3, <3>4
  <2>6. CASE ~(x = u /\ k = i)
    <3>1. g = e
      BY <2>2, <2>6 DEF Grown
    <3>2. e.kind = "table" => e.addr \in T(m) /\ lvl[e.addr] = level + 1
      BY <2>1, <2>2, ForestFacts DEF LeadsOn
    <3> HIDE DEF e, g
    <3>3. level < 3 => \A y \in T(m) : lvl[y] = level + 1 => Seen(n, y, level + 1, p) = Seen(m, y, level + 1, p)
      BY <1>1
    <3>4. QED
      BY <2>3, <2>4, <3>1, <3>2, <3>3
  <2>7. QED
    BY <2>5, <2>6
<1> HIDE DEF P
<1>2. Level \subseteq P
  BY <1>1, Upwards
<1>3. QED
  BY <1>2 DEF P

(* A search that ends well passes through the tables that lead to what is  *)
(* seen; one that finds an entry that is not valid shows that nothing is.  *)
LEMMA Follow ==
  ASSUME PageTableAssumption, NEW m, NEW R, NEW lvl, Good(m, R, lvl), NEW root \in R,
         NEW p \in Nat, NEW last \in Level
  PROVE  LET w == DownTo(m, root, p, last, "find") IN
         /\ w.status = "ok" => Seen(m, root, 0, p) = Seen(m, w.at, last, p)
         /\ w.status = "EFAULT" => Seen(m, root, 0, p) = {}
<1> DEFINE w(k) == DownTo(m, root, p, k, "find")
           P(k) == /\ w(k).status = "ok" => Seen(m, root, 0, p) = Seen(m, w(k).at, k, p)
                   /\ w(k).status = "EFAULT" => Seen(m, root, 0, p) = {}
<1>1. P(0)
  <2>1. w(0) = [m |-> m, at |-> root, status |-> "ok"]
    BY DownToIs DEF Walker
  <2> HIDE DEF w
  <2>2. QED
    BY <2>1
<1>2. ASSUME NEW k \in 1 .. 3, P(k - 1)
      PROVE  P(k)
  <2> DEFINE b == w(k - 1)
             d == w(k)
             i == extract_index(k - 1, p)
             e == At(m, b.at, i)
  <2>1. Ends(m, lvl, b, d, i, k)
    BY LastStep
  <2>2. d = IF b.status = "ok" THEN Down(b, k - 1, p, "find") ELSE b
    BY DownToIs
  <2>3. CASE b.status # "ok"
    <3>1. d = b
      BY <2>2, <2>3
    <3> HIDE DEF w
    <3>2. QED
      BY <1>2, <2>3, <3>1
  <2>4. CASE b.status = "ok"
    <3> DEFINE c == Down(b, k - 1, p, "find")
    <3>1. Seen(m, root, 0, p) = Seen(m, b.at, k - 1, p)
      BY <1>2, <2>4
    <3>2. k - 1 \in Level /\ (k - 1) + 1 = k /\ k - 1 < 3
      BY DEF Level
    <3>3. Seen(m, b.at, k - 1, p) = IF e.kind = "table" THEN Seen(m, e.addr, k, p) ELSE Here(e, k - 1, p)
      BY <3>2, SeenIs
    <3>4. d = c
      BY <2>2, <2>4
    <3>5. b.m = m /\ IsWalker(b)
      <4> HIDE DEF b, d, i
      <4>1. QED
        BY <2>1 DEF Ends
    <3>6. Entry(b, k - 1, p) = e
      BY <3>5 DEF Entry, At
    <3> HIDE DEF w, c
    <3>7. CASE d.status = "ok"
      <4>1. LeadsOn(m, b.at, i) /\ e = Table(d.at) /\ d.at \in T(m)
        <5> HIDE DEF b, d, i
        <5>1. QED
          BY <2>1, <3>7 DEF Ends, e
      <4>2. d.at \in Nat
        BY <4>1, ForestFacts DEF Good
      <4> HIDE DEF e, d, b
      <4>3. e.kind = "table" /\ e.addr = d.at
        BY <4>1, <4>2, EntryTypes
      <4>4. QED
        BY <3>1, <3>3, <3>7, <4>3 DEF d, b
    <3>8. CASE d.status = "EFAULT"
      <4>1. e.kind # "table" /\ e.kind # "leaf"
        <5>1. ASSUME e.kind = "table" PROVE FALSE
          <6>1. c = [b EXCEPT !.at = e.addr]
            BY <3>6, <5>1 DEF c, Down, pte_valid
          <6>2. c.status = "ok"
            BY <2>4, <3>5, <6>1 DEF IsWalker
          <6>3. QED
            BY <3>4, <3>8, <6>2
        <5>2. ASSUME e.kind = "leaf" PROVE FALSE
          <6>1. c = [b EXCEPT !.status = "stray"]
            BY <3>6, <5>2 DEF c, Down, pte_valid
          <6>2. c.status = "stray"
            BY <2>4, <3>5, <6>1 DEF IsWalker
          <6>3. QED
            BY <3>4, <3>8, <6>2
        <5>3. QED
          BY <5>1, <5>2
      <4>2. Here(e, k - 1, p) = {}
        BY <4>1 DEF Here
      <4> HIDE DEF e, d, b
      <4>3. QED
        BY <3>1, <3>3, <3>8, <4>1, <4>2 DEF d, b
    <3>9. QED
      BY <3>7, <3>8
  <2>5. QED
    BY <2>3, <2>4
<1> HIDE DEF P
<1>3. P(1)
  BY <1>1, <1>2
<1>4. P(2)
  BY <1>2, <1>3
<1>5. P(3)
  BY <1>2, <1>4
<1>6. P(last)
  BY <1>1, <1>3, <1>4, <1>5 DEF Level
<1>7. QED
  BY <1>6 DEF P, w

(* Walks that take the same entries end at the same table.                 *)
LEMMA SameWay ==
  ASSUME NEW m, NEW root, NEW p, NEW v, NEW goal, NEW last \in Level,
         \A k \in 0 .. (last - 1) : extract_index(k, p) = extract_index(k, v)
  PROVE  DownTo(m, root, p, last, goal) = DownTo(m, root, v, last, goal)
<1> DEFINE P(k) == DownTo(m, root, p, k, goal) = DownTo(m, root, v, k, goal)
<1>1. P(0)
  BY DownToIs
<1>2. ASSUME NEW k \in 1 .. 3, k <= last, P(k - 1)
      PROVE  P(k)
  <2> DEFINE b == DownTo(m, root, v, k - 1, goal)
  <2>1. extract_index(k - 1, p) = extract_index(k - 1, v)
    BY <1>2 DEF Level
  <2>2. Down(b, k - 1, p, goal) = Down(b, k - 1, v, goal)
    <3> HIDE DEF b
    <3>1. QED
      BY <2>1, Zenon DEF Down, Entry
  <2>3. DownTo(m, root, p, k, goal) = IF b.status = "ok" THEN Down(b, k - 1, p, goal) ELSE b
    BY <1>2, DownToIs
  <2>4. DownTo(m, root, v, k, goal) = IF b.status = "ok" THEN Down(b, k - 1, v, goal) ELSE b
    BY DownToIs
  <2>5. QED
    BY <2>2, <2>3, <2>4
<1> HIDE DEF P
<1>3. last >= 1 => P(1)
  BY <1>1, <1>2
<1>4. last >= 2 => P(2)
  BY <1>2, <1>3 DEF Level
<1>5. last >= 3 => P(3)
  BY <1>2, <1>4 DEF Level
<1>6. P(last)
  BY <1>1, <1>3, <1>4, <1>5 DEF Level
<1>7. QED
  BY <1>6 DEF P

(* Searches that end at the same table take the same entries.              *)
LEMMA OneWay ==
  ASSUME PageTableAssumption, NEW m, NEW R, NEW lvl, Good(m, R, lvl), NEW r \in R, NEW s \in R,
         NEW p \in Nat, NEW v \in Nat, NEW last \in Level,
         DownTo(m, r, v, last, "find").status = "ok", DownTo(m, s, p, last, "find").status = "ok",
         DownTo(m, r, v, last, "find").at = DownTo(m, s, p, last, "find").at
  PROVE  r = s /\ \A k \in 0 .. (last - 1) : extract_index(k, p) = extract_index(k, v)
<1> DEFINE a(k) == DownTo(m, r, v, k, "find")
           b(k) == DownTo(m, s, p, k, "find")
           Met(k) == a(k).status = "ok" /\ b(k).status = "ok" /\ a(k).at = b(k).at
           Equal(k) == extract_index(k, p) = extract_index(k, v)
<1>1. ASSUME NEW k \in 1 .. 3, Met(k)
      PROVE  Met(k - 1) /\ Equal(k - 1)
  <2> DEFINE i == extract_index(k - 1, v)
             j == extract_index(k - 1, p)
  <2>1. Ends(m, lvl, a(k - 1), a(k), i, k)
    BY LastStep
  <2>2. Ends(m, lvl, b(k - 1), b(k), j, k)
    BY LastStep
  <2> HIDE DEF a, b, i, j
  <2> DEFINE x == a(k - 1)
             y == b(k - 1)
  <2>3. /\ x.status = "ok" /\ LeadsOn(m, x.at, i) /\ At(m, x.at, i) = Table(a(k).at) /\ i \in Index
        /\ x.at \in T(m) /\ a(k).at \in T(m)
    BY <1>1, <2>1 DEF Ends
  <2>4. /\ y.status = "ok" /\ LeadsOn(m, y.at, j) /\ At(m, y.at, j) = Table(a(k).at) /\ j \in Index
        /\ y.at \in T(m)
    BY <1>1, <2>2 DEF Ends
  <2>5. x.at = y.at /\ i = j
    <3> HIDE DEF x, y
    <3>1. QED
      BY <2>3, <2>4 DEF Good, Forest
  <2>6. QED
    BY <2>3, <2>4, <2>5 DEF i, j
<1>2. Met(0) => r = s
  <2>1. a(0).at = r /\ b(0).at = s
    BY DownToIs DEF Walker
  <2> HIDE DEF a, b
  <2>2. QED
    BY <2>1
<1>3. Met(last)
  OBVIOUS
<1> HIDE DEF Met, Equal
<1>4. last = 3 => Met(2) /\ Equal(2)
  BY <1>1, <1>3
<1>5. last >= 2 => Met(1) /\ Equal(1)
  BY <1>1, <1>3, <1>4 DEF Level
<1>6. last >= 1 => Met(0) /\ Equal(0)
  BY <1>1, <1>3, <1>5 DEF Level
<1>7. Met(0)
  BY <1>3, <1>6 DEF Level
<1>8. \A k \in 0 .. (last - 1) : Equal(k)
  BY <1>4, <1>5, <1>6 DEF Level
<1>9. QED
  BY <1>2, <1>7, <1>8 DEF Equal

(* The entry of page v at a level of a root is written, where no table is: *)
(* the pages of the block see it, and nothing else changes.                *)
LEMMA SeenPut ==
  ASSUME PageTableAssumption, NEW m, NEW R, NEW lvl, Good(m, R, lvl), NEW root \in R,
         NEW v \in Page, NEW last \in Level, NEW t, NEW i, i = extract_index(last, v),
         DownTo(m, root, v, last, "find").status = "ok", DownTo(m, root, v, last, "find").at = t,
         ~LeadsOn(m, t, i), NEW e \in EntryType, e.kind # "table", NEW s \in R, NEW p \in Page
  PROVE  IF s = root /\ Block(last, p) = Block(last, v)
         THEN Seen(Put(m, t, i, e), s, 0, p) = Here(e, last, p) /\ Seen(m, s, 0, p) = Here(At(m, t, i), last, p)
         ELSE Seen(Put(m, t, i, e), s, 0, p) = Seen(m, s, 0, p)
<1> DEFINE n == Put(m, t, i, e)
           w(k) == DownTo(m, s, p, k, "find")
<1>1. p \in Nat /\ v \in Nat /\ i \in Index /\ last \in 0 .. 3 /\ "find" \in {"find", "make"}
  BY BlockIs, IndexOf DEF Level
<1>2. Good(n, R, lvl)
  <2>1. Walked(m, R, lvl, DownTo(m, root, v, last, "find"), last, "find")
    BY <1>1, WalkIs
  <2>2. t \in T(m)
    BY <2>1 DEF Walked
  <2>3. QED
    BY <1>1, <2>2, GoodPut
<1>3. t \in T(m) /\ lvl[t] = last
  <2>1. Walked(m, R, lvl, DownTo(m, root, v, last, "find"), last, "find")
    BY <1>1, WalkIs
  <2>2. QED
    BY <2>1 DEF Walked
<1>4. /\ T(n) = T(m) /\ At(n, t, i) = e
      /\ \A u \in T(m), j \in Index : u # t \/ j # i => At(n, u, j) = At(m, u, j)
  BY <1>1, <1>3, PutIs DEF Good, Forest
<1> HIDE DEF n
<1>5. CASE s = root /\ Block(last, p) = Block(last, v)
  <2>1. \A k \in 0 .. last : extract_index(k, p) = extract_index(k, v)
    BY <1>5, SameBlock
  <2>2. i = extract_index(last, p) /\ \A k \in 0 .. (last - 1) : extract_index(k, p) = extract_index(k, v)
    BY <1>1, <2>1
  <2>3. w(last) = DownTo(m, root, v, last, "find")
    BY <1>5, <2>2, SameWay
  <2>4. w(last).status = "ok" /\ w(last).at = t
    BY <2>3
  <2>5. Seen(m, s, 0, p) = Seen(m, t, last, p)
    BY <1>1, <2>4, Follow
  <2>6. DownTo(n, s, p, last, "find").status = "ok" /\ DownTo(n, s, p, last, "find").at = t
    <3>1. \A u \in T(m), j \in Index : lvl[u] < last => u \in T(n) /\ At(n, u, j) = At(m, u, j)
      <4>1. \A u \in T(m) : lvl[u] < last => u # t
        BY <1>1, <1>3
      <4>2. QED
        BY <1>4, <4>1
    <3>2. QED
      BY <1>1, <1>2, <2>4, <3>1, UpperWalk
  <2>7. Seen(n, s, 0, p) = Seen(n, t, last, p)
    BY <1>1, <1>2, <2>6, Follow
  <2>8. Seen(n, t, last, p) = Here(e, last, p)
    BY <1>4, <2>2, SeenIs
  <2>9. Seen(m, t, last, p) = Here(At(m, t, i), last, p)
    BY <2>2, SeenIs DEF LeadsOn
  <2>10. QED
    BY <1>5, <2>5, <2>7, <2>8, <2>9 DEF n
<1>6. CASE ~(s = root /\ Block(last, p) = Block(last, v))
  <2> DEFINE P == {k \in Level : w(k).status = "ok" => Seen(n, w(k).at, k, p) = Seen(m, w(k).at, k, p)}
  <2>1. ASSUME NEW k \in Level, k < 3 => k + 1 \in P
        PROVE  k \in P
    <3>1. SUFFICES ASSUME w(k).status = "ok" PROVE Seen(n, w(k).at, k, p) = Seen(m, w(k).at, k, p)
      OBVIOUS
    <3> DEFINE x == w(k).at
               j == extract_index(k, p)
               g == At(m, x, j)
    <3>2. x \in T(m) /\ lvl[x] = k /\ j \in Index
      <4>1. k \in 0 .. 3
        BY DEF Level
      <4>2. Walked(m, R, lvl, w(k), k, "find")
        BY <1>1, <4>1, WalkIs
      <4>3. QED
        BY <1>1, <3>1, <4>2, IndexOf DEF Walked
    <3>3. ~(x = t /\ j = i)
      <4>1. SUFFICES ASSUME x = t, j = i PROVE FALSE
        OBVIOUS
      <4>2. k = last
        BY <1>3, <3>2, <4>1
      <4>3. root = s /\ \A l \in 0 .. (last - 1) : extract_index(l, p) = extract_index(l, v)
        BY <1>1, <3>1, <4>1, <4>2, OneWay
      <4>4. \A l \in 0 .. last : extract_index(l, p) = extract_index(l, v)
        <5>1. extract_index(last, p) = extract_index(last, v)
          BY <4>1, <4>2
        <5>2. \A l \in 0 .. last : l = last \/ l \in 0 .. (last - 1)
          BY <1>1
        <5>3. QED
          BY <4>3, <5>1, <5>2
      <4>5. Block(last, p) = Block(last, v)
        BY <4>4, SameBlock
      <4>6. QED
        BY <1>6, <4>3, <4>5
    <3>4. At(n, x, j) = g
      BY <1>4, <3>2, <3>3
    <3>5. Seen(m, x, k, p) = IF k < 3 /\ g.kind = "table" THEN Seen(m, g.addr, k + 1, p) ELSE Here(g, k, p)
      BY SeenIs
    <3>6. Seen(n, x, k, p) = IF k < 3 /\ g.kind = "table" THEN Seen(n, g.addr, k + 1, p) ELSE Here(g, k, p)
      BY <3>4, SeenIs
    <3>7. k < 3 /\ g.kind = "table" => w(k + 1).status = "ok" /\ g.addr = w(k + 1).at
      <4>1. SUFFICES ASSUME k < 3, g.kind = "table" PROVE w(k + 1).status = "ok" /\ g.addr = w(k + 1).at
        OBVIOUS
      <4>2. k + 1 \in 1 .. 3 /\ (k + 1) - 1 = k
        BY <4>1 DEF Level
      <4>3. Ends(m, lvl, w((k + 1) - 1), w(k + 1), extract_index((k + 1) - 1, p), k + 1)
        <5> DEFINE q == k + 1
        <5>1. q \in 1 .. 3
          BY <4>2
        <5> HIDE DEF q
        <5>2. Ends(m, lvl, w(q - 1), w(q), extract_index(q - 1, p), q)
          BY <1>1, <5>1, LastStep
        <5>3. QED
          BY <5>2 DEF q
      <4>4. Ends(m, lvl, w(k), w(k + 1), j, k + 1)
        BY <4>2, <4>3
      <4>5. LeadsOn(m, w(k).at, j)
        BY <4>1 DEF LeadsOn
      <4> HIDE DEF w, j
      <4>6. w(k + 1).status = "ok" /\ At(m, w(k).at, j) = Table(w(k + 1).at) /\ w(k + 1).at \in T(m)
        BY <3>1, <4>4, <4>5 DEF Ends
      <4>7. w(k + 1).at \in Nat
        BY <4>6, ForestFacts DEF Good
      <4>8. QED
        BY <4>6, <4>7, EntryTypes
    <3> HIDE DEF w, g
    <3>8. k < 3 /\ w(k + 1).status = "ok" => Seen(n, w(k + 1).at, k + 1, p) = Seen(m, w(k + 1).at, k + 1, p)
      BY <2>1
    <3>9. QED
      BY <3>5, <3>6, <3>7, <3>8
  <2>2. w(0).status = "ok" /\ w(0).at = s
    BY DownToIs DEF Walker
  <2> HIDE DEF P, w
  <2>3. Level \subseteq P
    BY <2>1, Upwards
  <2>4. 0 \in P
    BY <2>3 DEF Level
  <2>5. Seen(n, s, 0, p) = Seen(m, s, 0, p)
    BY <2>2, <2>4 DEF P
  <2>6. QED
    BY <1>6, <2>5 DEF n
<1>7. QED
  BY <1>5, <1>6

-----------------------------------------------------------------------------
(* What calls change of what is seen.                                      *)

Alike(m, n, R) == \A s \in R, p \in Page : Seen(n, s, 0, p) = Seen(m, s, 0, p)

(* The pages of the first count blocks of a size from page v on.           *)
Covered(v, size, count, p) == p \div size \in (v \div size) .. (v \div size + count - 1)

(* Below a root, these show what F says, and nothing else changes.         *)
Painted(m, n, R, root, v, size, count, F) ==
  \A s \in R, p \in Page :
    Seen(n, s, 0, p) = IF s = root /\ Covered(v, size, count, p) THEN F[p] ELSE Seen(m, s, 0, p)

LEMMA AlikeAlike ==
  ASSUME NEW m, NEW n, NEW o, NEW R, Alike(m, n, R), Alike(n, o, R)
  PROVE  Alike(m, o, R)
BY DEF Alike

LEMMA PaintedAlike ==
  ASSUME NEW m, NEW n, NEW o, NEW R, NEW root, NEW v, NEW size, NEW count, NEW F
  PROVE  /\ Painted(m, n, R, root, v, size, count, F) /\ Alike(n, o, R) => Painted(m, o, R, root, v, size, count, F)
         /\ Alike(m, n, R) /\ Painted(n, o, R, root, v, size, count, F) => Painted(m, o, R, root, v, size, count, F)
BY DEF Painted, Alike

LEMMA PaintedNone ==
  ASSUME NEW m, NEW n, NEW R, Alike(m, n, R), NEW root, NEW v \in Nat, NEW size \in Nat \ {0}, NEW F
  PROVE  Painted(m, n, R, root, v, size, 0, F)
<1> DEFINE q == v \div size
<1>1. q \in Nat
  BY Division
<1> HIDE DEF q
<1>2. q .. (q + 0 - 1) = {}
  BY <1>1
<1>3. \A p \in Page : ~Covered(v, size, 0, p)
  BY <1>2 DEF Covered, q
<1>4. QED
  BY <1>3 DEF Painted, Alike

(* The next block is one block further.                                    *)
LEMMA CoveredNext ==
  ASSUME NEW v \in Nat, NEW size \in Nat \ {0}, NEW count \in Nat, NEW p \in Nat
  PROVE  /\ (v + count * size) \div size = v \div size + count
         /\ v + count * size \in Nat
         /\ Covered(v + count * size, size, 1, p) <=> p \div size = v \div size + count
         /\ Covered(v, size, count + 1, p) <=> Covered(v, size, count, p) \/ Covered(v + count * size, size, 1, p)
         /\ ~(Covered(v, size, count, p) /\ Covered(v + count * size, size, 1, p))
<1> DEFINE q == v \div size
           r == v % size
           b == p \div size
           k == count * size
           x == v + k
<1>1. q \in Nat /\ r \in 0 .. (size - 1) /\ v = q * size + r /\ b \in Nat
  BY Division
<1>2. k \in Nat /\ x \in Nat
  OBVIOUS
<1>3. x = (q + count) * size + r
  <2>1. (q + count) * size = q * size + k /\ q * size \in Nat
    BY <1>1
  <2> HIDE DEF q, r, k
  <2>2. QED
    BY <1>1, <1>2, <2>1
<1> HIDE DEF q, r, b, k, x
<1>4. x \div size = q + count
  <2>1. q + count \in Int
    BY <1>1
  <2>2. QED
    BY <1>1, <1>3, <2>1, Remainder
<1>5. Covered(x, size, 1, p) <=> b = q + count
  <2>1. Covered(x, size, 1, p) <=> b \in (q + count) .. (q + count + 1 - 1)
    BY <1>4 DEF Covered, b
  <2>2. QED
    BY <1>1, <2>1
<1>6. /\ Covered(v, size, count + 1, p) <=> b \in q .. (q + (count + 1) - 1)
      /\ Covered(v, size, count, p) <=> b \in q .. (q + count - 1)
  BY DEF Covered, b, q
<1>7. Covered(v, size, count + 1, p) <=> Covered(v, size, count, p) \/ Covered(x, size, 1, p)
  BY <1>1, <1>5, <1>6
<1>8. ~(Covered(v, size, count, p) /\ Covered(x, size, 1, p))
  BY <1>1, <1>5, <1>6
<1>9. QED
  BY <1>2, <1>4, <1>5, <1>7, <1>8 DEF x, k, q, b

LEMMA PaintedNext ==
  ASSUME NEW m, NEW n, NEW o, NEW R, NEW root, NEW v \in Nat, NEW size \in Nat \ {0}, NEW count \in Nat, NEW F,
         Page \subseteq Nat,
         Painted(m, n, R, root, v, size, count, F), Painted(n, o, R, root, v + count * size, size, 1, F)
  PROVE  Painted(m, o, R, root, v, size, count + 1, F)
<1> DEFINE x == v + count * size
<1>1. ASSUME NEW p \in Page
      PROVE  Covered(v, size, count + 1, p) <=> Covered(v, size, count, p) \/ Covered(x, size, 1, p)
  <2>1. p \in Nat
    OBVIOUS
  <2>2. QED
    BY <2>1, CoveredNext
<1>2. Painted(n, o, R, root, x, size, 1, F)
  OBVIOUS
<1> HIDE DEF x
<1>3. QED
  BY <1>1, <1>2 DEF Painted

(* The pages of one block of the size of a level.                          *)
LEMMA CoveredOne ==
  ASSUME PageTableAssumption, NEW v \in Page, NEW p \in Page, NEW level \in Level
  PROVE  Covered(v, Span(level), 1, p) <=> Block(level, p) = Block(level, v)
<1> DEFINE a == Block(level, v)
           b == Block(level, p)
<1>1. a \in Nat /\ b \in Nat
  BY BlockIs
<1>2. Covered(v, Span(level), 1, p) <=> b \in a .. (a + 1 - 1)
  BY DEF Covered, Block
<1> HIDE DEF a, b
<1>3. QED
  BY <1>1, <1>2 DEF a, b

-----------------------------------------------------------------------------
(* A walk that makes the tables it lacks shows what was there before, and  *)
(* a search in what it leaves ends at the same table.                      *)
Makes(m, R, root, v, w, level) ==
  /\ Alike(m, w.m, R)
  /\ w.status = "ok" => /\ DownTo(w.m, root, v, level, "find").status = "ok"
                        /\ DownTo(w.m, root, v, level, "find").at = w.at

LEMMA FindsTable ==
  ASSUME PageTableAssumption, NEW m, NEW R, NEW lvl, Good(m, R, lvl), NEW root \in R, NEW v \in Nat,
         NEW k \in 1 .. 3, DownTo(m, root, v, k - 1, "find").status = "ok", NEW t \in Nat,
         At(m, DownTo(m, root, v, k - 1, "find").at, extract_index(k - 1, v)) = Table(t)
  PROVE  DownTo(m, root, v, k, "find").status = "ok" /\ DownTo(m, root, v, k, "find").at = t
<1> DEFINE b == DownTo(m, root, v, k - 1, "find")
           w == DownTo(m, root, v, k, "find")
           i == extract_index(k - 1, v)
<1>1. Ends(m, lvl, b, w, i, k)
  BY LastStep
<1>2. b.status = "ok" /\ At(m, b.at, i) = Table(t)
  OBVIOUS
<1> HIDE DEF b, w, i
<1>3. LeadsOn(m, b.at, i)
  BY <1>2, LeadsTo
<1>4. w.status = "ok" /\ At(m, b.at, i) = Table(w.at) /\ w.at \in T(m)
  BY <1>1, <1>2, <1>3 DEF Ends
<1>5. w.at \in Nat
  BY <1>4, ForestFacts DEF Good
<1>6. w.at = t
  <2>1. At(m, b.at, i).addr = t
    BY <1>2, LeadsTo
  <2>2. At(m, b.at, i).addr = w.at
    BY <1>4, <1>5, LeadsTo
  <2>3. QED
    BY <2>1, <2>2
<1>7. QED
  BY <1>4, <1>6 DEF w

LEMMA MakeWalk ==
  ASSUME PageTableAssumption, NEW m, NEW R, NEW lvl, Good(m, R, lvl), NEW root \in R,
         NEW v \in Nat, NEW last \in 0 .. 3
  PROVE  Makes(m, R, root, v, DownTo(m, root, v, last, "make"), last)
<1> DEFINE w(k) == DownTo(m, root, v, k, "make")
           P(k) == Makes(m, R, root, v, w(k), k)
<1>0. Page \subseteq Nat
  BY BlockIs
<1>1. P(0)
  <2>1. w(0) = [m |-> m, at |-> root, status |-> "ok"] /\ DownTo(m, root, v, 0, "find").status = "ok"
        /\ DownTo(m, root, v, 0, "find").at = root
    BY DownToIs DEF Walker
  <2> HIDE DEF w
  <2>2. QED
    BY <2>1 DEF Makes, Alike
<1>2. ASSUME NEW k \in 1 .. 3, P(k - 1)
      PROVE  P(k)
  <2> DEFINE b == w(k - 1)
             d == Down(b, k - 1, v, "make")
             i == extract_index(k - 1, v)
             e == Entry(b, k - 1, v)
             t == Lowest(b.m.free)
  <2>1. w(k) = IF b.status = "ok" THEN d ELSE b
    BY DownToIs
  <2>2. Makes(m, R, root, v, b, k - 1)
    BY <1>2
  <2>3. Walked(m, R, lvl, b, k - 1, "make")
    <3>1. k - 1 \in 0 .. 3 /\ "make" \in {"find", "make"}
      OBVIOUS
    <3>2. QED
      BY <3>1, WalkIs
  <2>4. CASE b.status # "ok"
    <3>1. w(k) = b
      BY <2>1, <2>4
    <3> HIDE DEF w, b
    <3>2. QED
      BY <2>2, <2>4, <3>1 DEF Makes
  <2>5. CASE b.status = "ok"
    <3>1. w(k) = d
      BY <2>1, <2>5
    <3>2. i \in Index /\ k - 1 \in Level
      <4>1. k - 1 \in Level
        BY DEF Level
      <4>2. QED
        BY <4>1, IndexOf
    <3>3. e = At(b.m, b.at, i)
      BY DEF Entry, At
    <3>4. d = CASE e.kind = "table" -> [b EXCEPT !.at = e.addr]
                [] e.kind = "leaf" -> [b EXCEPT !.status = "stray"]
                [] ~pte_valid(e) /\ "make" = "find" -> [b EXCEPT !.status = "EFAULT"]
                [] ~pte_valid(e) /\ "make" = "make" /\ b.m.free = {} -> [b EXCEPT !.status = "ENOMEM"]
                [] ~pte_valid(e) /\ "make" = "make" /\ b.m.free # {} ->
                     [b EXCEPT !.m = WithTableAt(b.m, b.at, i), !.at = t]
      BY DEF Down
    <3>5. PICK l : Good(b.m, R, l) /\ b.at \in T(b.m) /\ l[b.at] = k - 1
      BY <2>3, <2>5 DEF Walked
    <3>6. IsWalker(b)
      BY <2>3 DEF Walked
    <3>7. Forest(b.m, R, l) /\ Memory(b.m) /\ e \in EntryType
      BY <3>2, <3>3, <3>5, ForestFacts DEF Good
    <3>8. e.kind \in {"zero", "table", "leaf", "broken"} /\ (pte_valid(e) <=> e.kind \in {"table", "leaf"})
      BY <3>7 DEF EntryType, pte_valid
    <3>9. /\ Alike(m, b.m, R) /\ DownTo(b.m, root, v, k - 1, "find").status = "ok"
          /\ DownTo(b.m, root, v, k - 1, "find").at = b.at
      BY <2>2, <2>5 DEF Makes
    <3>20. P(k) <=> Makes(m, R, root, v, d, k)
      BY <3>1
    <3> HIDE DEF w, b, d, e, i, t, P
    <3>10. CASE e.kind = "table"
      <4>1. d = [b EXCEPT !.at = e.addr]
        BY <3>4, <3>8, <3>10
      <4>2. d.m = b.m /\ d.at = e.addr /\ d.status = "ok"
        BY <2>5, <3>6, <4>1 DEF IsWalker
      <4>3. LeadsOn(b.m, b.at, i)
        BY <3>3, <3>10 DEF LeadsOn
      <4>4. e = Table(d.at) /\ d.at \in Nat
        BY <3>2, <3>3, <3>5, <3>7, <4>2, <4>3, ForestFacts
      <4>5. DownTo(b.m, root, v, k, "find").status = "ok" /\ DownTo(b.m, root, v, k, "find").at = d.at
        BY <3>3, <3>5, <3>9, <4>4, FindsTable DEF i
      <4>6. QED
        BY <3>9, <3>20, <4>2, <4>5 DEF Makes
    <3>11. CASE e.kind = "leaf" \/ (~pte_valid(e) /\ b.m.free = {})
      <4>1. PICK s \in {"stray", "ENOMEM"} : d = [b EXCEPT !.status = s]
        BY <3>4, <3>8, <3>11
      <4>2. d.m = b.m /\ d.status # "ok"
        BY <3>6, <4>1 DEF IsWalker
      <4>3. QED
        BY <3>9, <3>20, <4>2 DEF Makes
    <3>12. CASE ~pte_valid(e) /\ b.m.free # {}
      <4>1. d = [b EXCEPT !.m = WithTableAt(b.m, b.at, i), !.at = t]
        BY <3>4, <3>8, <3>12
      <4>2. d.m = WithTableAt(b.m, b.at, i) /\ d.at = t /\ d.status = "ok"
        BY <2>5, <3>6, <4>1 DEF IsWalker
      <4>3. /\ t \in Frame \ T(b.m) /\ t \in Nat /\ T(d.m) = T(b.m) \cup {t}
            /\ At(d.m, b.at, i) = Table(t)
            /\ \A j \in Index : At(d.m, t, j) = Zero
            /\ \A x \in T(b.m), j \in Index : x # b.at \/ j # i => At(d.m, x, j) = At(b.m, x, j)
        BY <3>2, <3>5, <3>7, <3>12, <4>2, WithTableAtIs DEF t
      <4>4. Grown(b.m, d.m, b.at, i, t)
        BY <3>2, <3>3, <3>5, <3>12, <4>3 DEF Grown
      <4>5. Alike(b.m, d.m, R)
        <5>1. l[b.at] < 3
          BY <3>5
        <5>2. \A s \in R : s \in T(b.m) /\ l[s] = 0
          BY <3>7 DEF Forest
        <5>3. 0 \in Level
          BY DEF Level
        <5>4. SUFFICES ASSUME NEW s \in R, NEW p \in Page PROVE Seen(d.m, s, 0, p) = Seen(b.m, s, 0, p)
          BY DEF Alike
        <5>5. p \in Nat
          BY <1>0
        <5>6. \A level \in Level, x \in T(b.m) : l[x] = level => Seen(d.m, x, level, p) = Seen(b.m, x, level, p)
          BY <3>7, <4>3, <4>4, <5>1, <5>5, SeenGrown
        <5>7. QED
          BY <5>2, <5>3, <5>6
      <4>6. PICK h : Good(d.m, R, h)
        <5>1. ~LeadsOn(b.m, b.at, i) /\ l[b.at] < 3
          BY <3>3, <3>5, <3>8, <3>12 DEF LeadsOn
        <5>2. Good(WithTableAt(b.m, b.at, i), R, [x \in T(b.m) \cup {t} |-> IF x = t THEN l[b.at] + 1 ELSE l[x]])
          BY <3>2, <3>5, <3>12, <5>1, ForestAdd DEF t
        <5>3. QED
          BY <4>2, <5>2
      <4>7. DownTo(d.m, root, v, k - 1, "find").status = "ok" /\ DownTo(d.m, root, v, k - 1, "find").at = b.at
        <5>1. \A x \in T(b.m), j \in Index : l[x] < k - 1 => x \in T(d.m) /\ At(d.m, x, j) = At(b.m, x, j)
          <6>1. \A x \in T(b.m) : l[x] < k - 1 => x # b.at
            BY <3>5
          <6>2. QED
            BY <4>3, <6>1
        <5>2. k - 1 \in 0 .. 3
          OBVIOUS
        <5>3. QED
          BY <3>5, <3>9, <4>6, <5>1, <5>2, UpperWalk
      <4>8. DownTo(d.m, root, v, k, "find").status = "ok" /\ DownTo(d.m, root, v, k, "find").at = t
        BY <4>3, <4>6, <4>7, FindsTable DEF i
      <4>9. Alike(m, d.m, R)
        BY <3>9, <4>5, AlikeAlike
      <4>10. QED
        BY <3>20, <4>2, <4>8, <4>9 DEF Makes
    <3>13. QED
      BY <3>8, <3>10, <3>11, <3>12
  <2>6. QED
    BY <2>4, <2>5
<1> HIDE DEF P
<1>3. P(1)
  BY <1>1, <1>2
<1>4. P(2)
  BY <1>2, <1>3
<1>5. P(3)
  BY <1>2, <1>4
<1>6. P(last)
  BY <1>1, <1>3, <1>4, <1>5
<1>7. QED
  BY <1>6 DEF P, w

-----------------------------------------------------------------------------
(* What a call on one page or block shows.                                 *)

Mapping(v, phys, f) == [p \in Page |-> {[frame |-> phys + (p - v), flags |-> f]}]
Nothing == [p \in Page |-> {}]

(* A page of the block of an aligned page is as far from it as within it.  *)
LEMMA Offset ==
  ASSUME NEW v \in Nat, NEW p \in Nat, NEW size \in Nat \ {0}, v % size = 0, p \div size = v \div size
  PROVE  p % size = p - v
<1> DEFINE b == p \div size
           r == p % size
           k == b * size
<1>1. b \in Nat /\ r \in 0 .. (size - 1) /\ p = k + r
  BY Division
<1>2. v = k + 0
  <2> DEFINE c == v \div size
             s == v % size
  <2>1. v = c * size + s
    BY Division
  <2> HIDE DEF c, s
  <2>2. s = 0 /\ c = b
    BY DEF c, s
  <2>3. QED
    BY <2>1, <2>2
<1>3. k \in Nat
  BY <1>1
<1> HIDE DEF b, r, k
<1>4. r = p - v
  BY <1>1, <1>2, <1>3
<1>5. QED
  BY <1>4 DEF r

MapShown(m, R, root, v, phys, size, f, r) ==
  /\ r.status # "ok" => Alike(m, r.m, R)
  /\ r.status = "ok" => /\ Painted(m, r.m, R, root, v, size, 1, Mapping(v, phys, f))
                        /\ \A p \in Page : Covered(v, size, 1, p) => Seen(m, root, 0, p) = {}

LEMMA MapPageShown ==
  ASSUME PageTableAssumption, NEW m, NEW R, NEW lvl, Good(m, R, lvl), NEW root \in R,
         NEW v \in Page, NEW phys \in Nat, NEW size \in MapSizes, v % size = 0, NEW f \in Flags
  PROVE  MapShown(m, R, root, v, phys, size, f, pt_map_single_page(m, root, v, phys, size, f))
<1> DEFINE level == LeafLevel(size)
           w == DownTo(m, root, v, level, "make")
           r == pt_map_single_page(m, root, v, phys, size, f)
           i == extract_index(level, v)
           e == Leaf(phys, f)
           n == Put(w.m, w.at, i, e)
<1>1. level \in 1 .. 3 /\ level \in 0 .. 3 /\ level \in Level /\ Span(level) = size /\ size \in Nat \ {0}
  BY LeafLevelOf, SpanFacts DEF Level
<1>2. v \in Nat /\ Page \subseteq Nat
  BY BlockIs
<1>3. Walked(m, R, lvl, w, level, "make") /\ Makes(m, R, root, v, w, level)
  BY <1>1, <1>2, WalkIs, MakeWalk
<1>4. r = IF w.status # "ok" THEN w
          ELSE IF pte_valid(Entry(w, level, v)) THEN [w EXCEPT !.status = "EEXIST"]
          ELSE Write(w, level, v, e)
  BY DEF pt_map_single_page
<1>5. Entry(w, level, v) = At(w.m, w.at, i)
  BY DEF Entry, At
<1>6. i = extract_index(level, v)
  OBVIOUS
<1>15. e \in EntryType /\ e.kind = "leaf" /\ e.addr = phys /\ e.flags = f
  BY EntryTypes DEF Leaf
<1> HIDE DEF level, w, r, i, n, e
<1>7. IsWalker(w) /\ Alike(m, w.m, R)
  BY <1>3 DEF Walked, Makes
<1>8. CASE w.status # "ok"
  BY <1>4, <1>7, <1>8 DEF MapShown, r
<1>9. CASE w.status = "ok" /\ pte_valid(Entry(w, level, v))
  <2>1. r = [w EXCEPT !.status = "EEXIST"]
    BY <1>4, <1>9
  <2>2. r.status # "ok" /\ r.m = w.m
    BY <1>7, <2>1 DEF IsWalker
  <2>3. QED
    BY <1>7, <2>2 DEF MapShown, r
<1>10. CASE w.status = "ok" /\ ~pte_valid(Entry(w, level, v))
  <2>1. r = [m |-> n, at |-> w.at, status |-> w.status]
    BY <1>4, <1>7, <1>10, WriteIs DEF n, i
  <2>2. r.m = n /\ r.status = "ok"
    BY <1>10, <2>1
  <2>3. PICK l : Good(w.m, R, l)
    BY <1>3 DEF Walked
  <2>4. DownTo(w.m, root, v, level, "find").status = "ok" /\ DownTo(w.m, root, v, level, "find").at = w.at
    BY <1>3, <1>10 DEF Makes
  <2>5. ~LeadsOn(w.m, w.at, i) /\ \A p : Here(At(w.m, w.at, i), level, p) = {}
    BY <1>5, <1>10 DEF pte_valid, LeadsOn, Here
  <2>6. ASSUME NEW s \in R, NEW p \in Page
        PROVE  /\ Seen(n, s, 0, p) = IF s = root /\ Covered(v, size, 1, p) THEN Mapping(v, phys, f)[p] ELSE Seen(m, s, 0, p)
               /\ s = root /\ Covered(v, size, 1, p) => Seen(m, s, 0, p) = {}
    <3>1. IF s = root /\ Block(level, p) = Block(level, v)
          THEN Seen(n, s, 0, p) = Here(e, level, p) /\ Seen(w.m, s, 0, p) = Here(At(w.m, w.at, i), level, p)
          ELSE Seen(n, s, 0, p) = Seen(w.m, s, 0, p)
      BY <1>1, <1>6, <1>15, <2>3, <2>4, <2>5, SeenPut DEF n
    <3>2. Seen(w.m, s, 0, p) = Seen(m, s, 0, p)
      BY <1>7 DEF Alike
    <3>3. Covered(v, size, 1, p) <=> Block(level, p) = Block(level, v)
      BY <1>1, CoveredOne
    <3>4. ASSUME Block(level, p) = Block(level, v) PROVE Here(e, level, p) = Mapping(v, phys, f)[p]
      <4>1. p \div size = v \div size
        BY <1>1, <3>4 DEF Block
      <4>2. p % size = p - v
        BY <1>1, <1>2, <4>1, Offset
      <4>3. QED
        BY <1>1, <1>15, <4>2 DEF Here, Mapping
    <3>5. QED
      BY <2>5, <3>1, <3>2, <3>3, <3>4
  <2>7. Painted(m, n, R, root, v, size, 1, Mapping(v, phys, f))
    BY <2>6 DEF Painted
  <2>8. \A p \in Page : Covered(v, size, 1, p) => Seen(m, root, 0, p) = {}
    BY <2>6
  <2>9. QED
    BY <2>2, <2>7, <2>8 DEF MapShown, r
<1>11. QED
  BY <1>8, <1>9, <1>10

(* A page or block that is unmapped, or found not to be mapped, shows      *)
(* nothing; one that is protected shows the same frame, or nothing if it is*)
(* a block.                                                                *)
UnmapShown(m, R, root, v, size, r) ==
  /\ r.status \in {"ok", "stray"}
  /\ r.status = "ok" => Painted(m, r.m, R, root, v, size, 1, Nothing)

Guarding(m, root, size, f) ==
  [p \in Page |-> IF size = 1 THEN {[frame |-> x.frame, flags |-> f] : x \in Seen(m, root, 0, p)} ELSE {}]

GuardShown(m, R, root, v, size, f, r) ==
  /\ r.status # "ok" => r.m = m
  /\ r.status = "ok" => Painted(m, r.m, R, root, v, size, 1, Guarding(m, root, size, f))

LEMMA StuckBlock ==
  ASSUME PageTableAssumption, NEW m, NEW R, NEW lvl, Good(m, R, lvl), NEW root \in R,
         NEW v \in Page, NEW level \in Level, DownTo(m, root, v, level, "find").status = "EFAULT"
  PROVE  Painted(m, m, R, root, v, Span(level), 1, Nothing)
<1>1. ASSUME NEW p \in Page, Covered(v, Span(level), 1, p)
      PROVE  Seen(m, root, 0, p) = {}
  <2>1. Block(level, p) = Block(level, v)
    BY <1>1, CoveredOne
  <2>2. \A k \in 0 .. level : extract_index(k, p) = extract_index(k, v)
    BY <2>1, SameBlock
  <2>3. \A k \in 0 .. (level - 1) : extract_index(k, p) = extract_index(k, v)
    BY <2>2 DEF Level
  <2>4. DownTo(m, root, p, level, "find") = DownTo(m, root, v, level, "find")
    BY <2>3, SameWay
  <2>5. p \in Nat
    BY BlockIs
  <2>6. QED
    BY <2>4, <2>5, Follow
<1>2. QED
  BY <1>1 DEF Painted, Nothing

(* The entry of a page is written, where no table is.                      *)
LEMMA PutShown ==
  ASSUME PageTableAssumption, NEW m, NEW R, NEW lvl, Good(m, R, lvl), NEW root \in R,
         NEW v \in Page, NEW level \in Level, NEW t, NEW i, i = extract_index(level, v),
         DownTo(m, root, v, level, "find").status = "ok", DownTo(m, root, v, level, "find").at = t,
         ~LeadsOn(m, t, i), NEW e \in EntryType, e.kind # "table", NEW size, size = Span(level), NEW F,
         \A p \in Page : Covered(v, size, 1, p) /\ Seen(m, root, 0, p) = Here(At(m, t, i), level, p)
                           => F[p] = Here(e, level, p)
  PROVE  Painted(m, Put(m, t, i, e), R, root, v, size, 1, F)
<1>1. SUFFICES ASSUME NEW s \in R, NEW p \in Page
               PROVE  Seen(Put(m, t, i, e), s, 0, p) = IF s = root /\ Covered(v, size, 1, p) THEN F[p] ELSE Seen(m, s, 0, p)
  BY DEF Painted
<1>2. IF s = root /\ Block(level, p) = Block(level, v)
      THEN Seen(Put(m, t, i, e), s, 0, p) = Here(e, level, p) /\ Seen(m, s, 0, p) = Here(At(m, t, i), level, p)
      ELSE Seen(Put(m, t, i, e), s, 0, p) = Seen(m, s, 0, p)
  BY SeenPut
<1>3. Covered(v, size, 1, p) <=> Block(level, p) = Block(level, v)
  BY CoveredOne
<1>4. QED
  BY <1>2, <1>3

-----------------------------------------------------------------------------
(* One page or block, unmapped or protected.                               *)

(* An entry that leads to no table is overwritten.                         *)
LEMMA PutShrinks ==
  ASSUME NEW m, Memory(m), NEW t \in T(m), NEW i \in Index, NEW e \in EntryType, e.kind # "table"
  PROVE  LET n == Put(m, t, i, e) IN
         /\ Shrunk(m, n) /\ NoneEmptied(m, n, {t})
         /\ e # Zero => NoneEmptied(m, n, {})
<1> DEFINE n == Put(m, t, i, e)
<1>1. /\ T(n) = T(m) /\ At(n, t, i) = e
      /\ \A u \in T(m), j \in Index : u # t \/ j # i => At(n, u, j) = At(m, u, j)
  BY PutIs
<1> HIDE DEF n
<1>2. Shrunk(m, n)
  BY <1>1 DEF Shrunk, LeadsOn
<1>3. \A u \in T(m) : u # t /\ ~is_pt_empty(m, u) => ~is_pt_empty(n, u)
  BY <1>1 DEF is_pt_empty, At
<1>4. e # Zero => ~is_pt_empty(n, t)
  BY <1>1 DEF is_pt_empty, At
<1>5. QED
  BY <1>2, <1>3, <1>4 DEF NoneEmptied, n

(* Unmapping on its way up from memory m, at level k: only the table the   *)
(* search for that level ends at may have lost its last entry.             *)
Pruning(m, R, root, v, n, k) ==
  LET w == DownTo(n, root, v, k, "find") IN
  /\ \E l : Good(n, R, l)
  /\ Shrunk(m, n) /\ w.status = "ok" /\ NoneEmptied(m, n, {w.at})

LEMMA PruneTable ==
  ASSUME NEW m, NEW R, NEW lvl, Good(m, R, lvl), NEW u \in T(m), NEW i \in Index, NEW t \in T(m),
         At(m, u, i) = Table(t), is_pt_empty(m, t)
  PROVE  LET n == Without(Put(m, u, i, Zero), {t}) IN
         /\ \E l : Good(n, R, l)
         /\ T(n) = T(m) \ {t} /\ u \in T(n) /\ Shrunk(m, n)
         /\ At(n, u, i) = Zero /\ \A x \in T(n), j \in Index : x # u \/ j # i => At(n, x, j) = At(m, x, j)
<1> DEFINE c == Put(m, u, i, Zero)
           n == Without(c, {t})
           l == [x \in T(c) \ {t} |-> lvl[x]]
<1>1. Forest(m, R, lvl) /\ Memory(m) /\ t \in Nat /\ T(m) \subseteq Nat
  BY ForestFacts DEF Good, Forest
<1>2. LeadsOn(m, u, i) /\ At(m, u, i).addr = t
  BY <1>1, LeadsTo
<1>3. lvl[t] = lvl[u] + 1 /\ lvl[u] \in 0 .. 3
  BY <1>1, <1>2, ForestFacts
<1>4. t # u
  BY <1>3
<1>5. \A j \in Index : At(m, t, j) = Zero /\ ~LeadsOn(m, t, j)
  BY EntryTypes DEF is_pt_empty, At, LeadsOn
<1>6. Zero \in EntryType /\ Zero.kind # "table"
  BY EntryTypes
<1>7. /\ Memory(c) /\ T(c) = T(m) /\ At(c, u, i) = Zero
      /\ \A x \in T(m), j \in Index : x # u \/ j # i => At(c, x, j) = At(m, x, j)
  BY <1>1, <1>6, PutIs
<1>8. Forest(c, R, lvl)
  BY <1>1, <1>6, ForestPut
<1> HIDE DEF c
<1>9. ASSUME NEW x \in T(c), NEW j \in Index, LeadsOn(c, x, j)
      PROVE  LeadsOn(m, x, j) /\ At(c, x, j) = At(m, x, j) /\ At(m, x, j).addr # t
  <2>1. ~(x = u /\ j = i)
    BY <1>6, <1>7, <1>9 DEF LeadsOn
  <2>2. At(c, x, j) = At(m, x, j) /\ LeadsOn(m, x, j)
    BY <1>7, <1>9, <2>1 DEF LeadsOn
  <2>3. QED
    BY <1>1, <1>2, <1>7, <2>1, <2>2 DEF Forest
<1>10. /\ Memory(n) /\ T(n) = T(m) \ {t}
       /\ \A x \in T(n), j \in Index : At(n, x, j) = At(c, x, j)
  BY <1>7, WithoutIs DEF At
<1>11. Forest(n, R \ {t}, l)
  <2>1. \A x \in T(c), j \in Index : LeadsOn(c, x, j) /\ At(c, x, j).addr \in {t} => x \in {t}
    BY <1>9
  <2>2. {t} \in SUBSET T(c)
    BY <1>7
  <2>3. QED
    BY <1>8, <2>1, <2>2, ForestWithout
<1>12. R \ {t} = R
  <2>1. lvl[t] # 0
    BY <1>3
  <2>2. QED
    BY <1>1, <2>1 DEF Forest
<1>13. \A x \in T(n) : l[x] = lvl[x]
  BY <1>7, <1>10
<1> HIDE DEF n, l
<1>14. ASSUME ~Mixed PROVE Owned(n, l)
  <2>1. SUFFICES ASSUME NEW x \in T(m), x # t, lvl[x] > 0
                 PROVE  \E y \in T(n), j \in Index : At(n, y, j) = Table(x)
    BY <1>10, <1>13 DEF Owned
  <2>2. PICK y \in T(m), j \in Index : At(m, y, j) = Table(x)
    BY <1>14, <2>1 DEF Good, Owned
  <2>3. LeadsOn(m, y, j) /\ At(m, y, j).addr = x
    BY <1>1, <2>2, LeadsTo
  <2>4. y # t /\ (y # u \/ j # i)
    BY <1>2, <1>5, <2>1, <2>3
  <2>5. QED
    BY <1>7, <1>10, <2>2, <2>4
<1>15. Good(n, R, l)
  BY <1>11, <1>12, <1>14 DEF Good
<1>16. Shrunk(m, n)
  BY <1>7, <1>9, <1>10 DEF Shrunk, LeadsOn
<1>17. QED
  BY <1>4, <1>7, <1>10, <1>15, <1>16 DEF n, c

LEMMA PruneStep ==
  ASSUME PageTableAssumption, NEW m, NEW R, NEW root \in R, NEW v \in Nat, NEW n, NEW k \in 1 .. 3,
         Pruning(m, R, root, v, n, k)
  PROVE  Pruning(m, R, root, v, Pruned(n, root, v, k), k - 1) /\ Alike(n, Pruned(n, root, v, k), R)
<1> DEFINE b == DownTo(n, root, v, k - 1, "find")
           w == DownTo(n, root, v, k, "find")
           i == extract_index(k - 1, v)
           t == w.at
           o == Pruned(n, root, v, k)
<1>1. PICK l : Good(n, R, l)
  BY DEF Pruning
<1>2. Shrunk(m, n) /\ w.status = "ok" /\ NoneEmptied(m, n, {w.at})
  BY DEF Pruning
<1>3. Ends(n, l, b, w, i, k)
  BY <1>1, LastStep
<1>4. o = IF ~is_pt_empty(n, t) THEN n
          ELSE LET cleared == Write(b, k - 1, v, Zero).m
               IN  [tables |-> [u \in T(n) \ {t} |-> cleared.tables[u]], free |-> n.free \cup {t}]
  BY DEF Pruned, T
<1> HIDE DEF b, w, i, o
<1>5. /\ i \in Index /\ IsWalker(b) /\ b.m = n /\ b.status = "ok" /\ b.at \in T(n) /\ l[b.at] = k - 1
      /\ At(n, b.at, i) = Table(t) /\ t \in T(n) /\ l[t] = k
  BY <1>2, <1>3 DEF Ends
<1>6. CASE ~is_pt_empty(n, t)
  <2>1. o = n
    BY <1>4, <1>6
  <2>2. NoneEmptied(m, n, {b.at})
    BY <1>2, <1>6 DEF NoneEmptied
  <2>3. QED
    BY <1>1, <1>2, <1>5, <2>1, <2>2 DEF Pruning, Alike, b, o
<1>7. CASE is_pt_empty(n, t)
  <2> DEFINE c == Put(n, b.at, i, Zero)
  <2>1. Write(b, k - 1, v, Zero).m = c
    BY <1>5, WriteIs DEF i
  <2>2. T(c) = T(n) /\ c.free = n.free
    <3>1. Memory(n)
      BY <1>1 DEF Good, Forest
    <3>2. QED
      BY <1>5, <3>1, PutIs, EntryTypes
  <2>3. o = Without(c, {t})
    <3> HIDE DEF c
    <3>1. QED
      BY <1>4, <1>7, <2>1, <2>2 DEF Without
  <2>4. /\ \E g : Good(o, R, g)
        /\ T(o) = T(n) \ {t} /\ b.at \in T(o) /\ Shrunk(n, o)
        /\ At(o, b.at, i) = Zero /\ \A x \in T(o), j \in Index : x # b.at \/ j # i => At(o, x, j) = At(n, x, j)
    BY <1>1, <1>5, <1>7, <2>3, PruneTable
  <2> HIDE DEF c
  <2>5. PICK g : Good(o, R, g)
    BY <2>4
  <2>6. DownTo(o, root, v, k - 1, "find").status = "ok" /\ DownTo(o, root, v, k - 1, "find").at = b.at
    <3>1. \A x \in T(n), j \in Index : l[x] < k - 1 => x \in T(o) /\ At(o, x, j) = At(n, x, j)
      <4>1. \A x \in T(n) : l[x] < k - 1 => x # t /\ x # b.at
        BY <1>5
      <4>2. QED
        BY <2>4, <4>1
    <3>2. k - 1 \in 0 .. 3
      OBVIOUS
    <3>3. DownTo(n, root, v, k - 1, "find").status = "ok"
      BY <1>5 DEF b
    <3>4. QED
      BY <1>1, <2>5, <3>1, <3>2, <3>3, UpperWalk DEF b
  <2>7. Shrunk(m, o)
    BY <1>2, <2>4, ShrunkShrunk
  <2>8. NoneEmptied(m, o, {b.at})
    <3>1. SUFFICES ASSUME NEW x \in T(m), x # b.at, ~is_pt_empty(m, x), x \in T(o)
                   PROVE  ~is_pt_empty(o, x)
      BY DEF NoneEmptied
    <3>2. x \in T(n) /\ x # t
      BY <2>4, <3>1
    <3>3. ~is_pt_empty(n, x)
      BY <1>2, <3>1, <3>2 DEF NoneEmptied
    <3>4. QED
      BY <2>4, <3>1, <3>3 DEF is_pt_empty, At
  <2>9. Grown(o, n, b.at, i, t)
    <3>1. ~pte_valid(Zero)
      BY EntryTypes DEF pte_valid
    <3>2. \A j \in Index : At(n, t, j) = Zero
      BY <1>7 DEF is_pt_empty, At
    <3>3. T(n) = T(o) \cup {t} /\ t \notin T(o)
      BY <1>5, <2>4
    <3>4. QED
      BY <1>5, <2>4, <3>1, <3>2, <3>3 DEF Grown
  <2>10. Alike(n, o, R)
    <3>1. g[b.at] < 3
      <4>1. k - 1 \in 0 .. 3 /\ "find" \in {"find", "make"}
        OBVIOUS
      <4>2. Walked(o, R, g, DownTo(o, root, v, k - 1, "find"), k - 1, "find")
        BY <2>5, <4>1, WalkIs
      <4>3. QED
        BY <2>6, <4>2 DEF Walked
    <3>2. Forest(o, R, g) /\ t \in Nat
      BY <1>1, <1>5, <2>5, ForestFacts DEF Good
    <3>3. SUFFICES ASSUME NEW s \in R, NEW p \in Page PROVE Seen(o, s, 0, p) = Seen(n, s, 0, p)
      BY DEF Alike
    <3>4. p \in Nat /\ 0 \in Level
      BY BlockIs DEF Level
    <3>5. \A level \in Level, x \in T(o) : g[x] = level => Seen(n, x, level, p) = Seen(o, x, level, p)
      BY <2>9, <3>1, <3>2, <3>4, SeenGrown
    <3>6. s \in T(o) /\ g[s] = 0
      BY <3>2 DEF Forest
    <3>7. QED
      BY <3>4, <3>5, <3>6
  <2>11. QED
    BY <2>5, <2>6, <2>7, <2>8, <2>10 DEF Pruning, o
<1>8. QED
  BY <1>6, <1>7

(* The tables above an entry are pruned, from the lowest up.               *)
Upward(n0, root, v, level) ==
  CHOOSE up : up = [k \in 0 .. level |-> IF k = 0 THEN n0 ELSE Pruned(up[k - 1], root, v, level - k + 1)]

LEMMA UpwardIs ==
  ASSUME NEW n0, NEW root, NEW v, NEW level \in 1 .. 3
  PROVE  LET up == Upward(n0, root, v, level) IN
         up[0] = n0 /\ \A k \in 1 .. level : up[k] = Pruned(up[k - 1], root, v, level - k + 1)
<1> DEFINE step(n, k) == Pruned(n, root, v, level - k + 1)
           n1 == step(n0, 1)
           n2 == step(n1, 2)
           n3 == step(n2, 3)
           val(k) == IF k = 0 THEN n0 ELSE IF k = 1 THEN n1 ELSE IF k = 2 THEN n2 ELSE n3
           Right(f) == f = [k \in 0 .. level |-> IF k = 0 THEN n0 ELSE step(f[k - 1], k)]
<1>1. val(0) = n0 /\ \A k \in 1 .. 3 : val(k) = step(val(k - 1), k)
  <2>1. val(0) = n0 /\ val(1) = n1 /\ val(2) = n2 /\ val(3) = n3
    <3> HIDE DEF n1, n2, n3, step
    <3>1. QED
      BY DEF val
  <2>2. val(1) = step(val(0), 1) /\ val(2) = step(val(1), 2) /\ val(3) = step(val(2), 3)
    <3> HIDE DEF val, step
    <3>1. QED
      BY <2>1, Zenon DEF n1, n2, n3
  <2> HIDE DEF val, step, n1, n2, n3
  <2>3. \A k \in 1 .. 3 :
           (k - 1 = 0 /\ k = 1) \/ (k - 1 = 1 /\ k = 2) \/ (k - 1 = 2 /\ k = 3)
    OBVIOUS
  <2>4. QED
    BY <2>1, <2>2, <2>3
<1>2. Upward(n0, root, v, level) = CHOOSE f : Right(f)
  BY Zenon DEF Upward, step
<1> HIDE DEF val, step
<1>3. Right([k \in 0 .. level |-> val(k)])
  BY <1>1
<1>4. Right(Upward(n0, root, v, level))
  BY <1>2, <1>3
<1> DEFINE up == Upward(n0, root, v, level)
<1> HIDE DEF up
<1>5. up = [k \in 0 .. level |-> IF k = 0 THEN n0 ELSE step(up[k - 1], k)]
  BY <1>4 DEF up
<1>6. up[0] = n0 /\ \A k \in 1 .. level : up[k] = step(up[k - 1], k)
  BY <1>5
<1>7. QED
  BY <1>6 DEF up, step

(* Tables and what leads to them are only lost.                            *)
Loses(m, R, r) ==
  /\ IsWalker(r) /\ Shrunk(m, r.m) /\ NoneEmptied(m, r.m, R)
  /\ \E l : Good(r.m, R, l)

LEMMA LosesNothing ==
  ASSUME NEW m, NEW R, NEW lvl, Good(m, R, lvl), NEW r, IsWalker(r), r.m = m
  PROVE  Loses(m, R, r)
BY DEF Loses, Shrunk, NoneEmptied

(* The entry a call on one page is about does not lead to a table.         *)
NotTable(m, root, v, size) ==
  LET level == LeafLevel(size)
      w == DownTo(m, root, v, level, "find")
  IN  w.status = "ok" => ~LeadsOn(m, w.at, extract_index(level, v))

LEMMA UnmapPage ==
  ASSUME PageTableAssumption, NEW m, NEW R, NEW lvl, Good(m, R, lvl), NEW root \in R,
         NEW v \in Nat, NEW size \in MapSizes, Mixed \/ NotTable(m, root, v, size)
  PROVE  /\ Loses(m, R, pt_unmap_single_page(m, root, v, size))
         /\ v \in Page /\ NotTable(m, root, v, size)
              => UnmapShown(m, R, root, v, size, pt_unmap_single_page(m, root, v, size))
<1> DEFINE level == LeafLevel(size)
           w == DownTo(m, root, v, level, "find")
           i == extract_index(level, v)
           n == Put(m, w.at, i, Zero)
           up == Upward(n, root, v, level)
           r == pt_unmap_single_page(m, root, v, size)
           Shows == v \in Page /\ NotTable(m, root, v, size)
<1>1. /\ level \in 1 .. 3 /\ level \in 0 .. 3 /\ level \in Level /\ "find" \in {"find", "make"}
      /\ Span(level) = size
  BY LeafLevelOf DEF Level
<1>2. i \in Index
  BY <1>1, IndexOf
<1>3. Walked(m, R, lvl, w, level, "find")
  BY <1>1, WalkIs
<1>4. r = CASE w.status = "ok" ->
                 Walker((CHOOSE f : f = [k \in 0 .. level |->
                           IF k = 0 THEN Write(w, level, v, Zero).m
                           ELSE Pruned(f[k - 1], root, v, level - k + 1)])[level], 0)
            [] w.status = "EFAULT" -> Walker(m, 0)
            [] w.status = "stray" -> w
  BY Zenon DEF pt_unmap_single_page
<1>5. /\ Mixed \/ (w.status = "ok" => ~LeadsOn(m, w.at, i))
      /\ Shows => v \in Page /\ (w.status = "ok" => ~LeadsOn(m, w.at, i))
  BY DEF NotTable
<1> HIDE DEF r, w, i, level, Shows
<1>6. IsWalker(w) /\ w.m = m /\ (w.status = "ok" => w.at \in T(m) /\ lvl[w.at] = level)
  BY <1>3 DEF Walked
<1>7. ASSUME NEW s PROVE IsWalker(Walker(s, 0)) /\ Walker(s, 0).m = s /\ Walker(s, 0).status = "ok"
  BY DEF Walker, IsWalker, Status
<1>8. CASE w.status = "ok"
  <2>1. Write(w, level, v, Zero).m = n
    BY <1>6, WriteIs DEF i
  <2>2. r = Walker(up[level], 0)
    BY <1>4, <1>8, <2>1 DEF Upward
  <2>3. Zero \in EntryType /\ Zero.kind # "table"
    BY EntryTypes
  <2>4. Memory(m)
    BY DEF Good, Forest
  <2>5. Good(n, R, lvl)
    BY <1>2, <1>5, <1>6, <1>8, <2>3, GoodPut
  <2>6. Shrunk(m, n) /\ NoneEmptied(m, n, {w.at})
    BY <1>2, <1>6, <1>8, <2>3, <2>4, PutShrinks
  <2>7. \A t \in T(m), j \in Index : lvl[t] < level => t \in T(n) /\ At(n, t, j) = At(m, t, j)
    <3>1. /\ T(n) = T(m)
          /\ \A u \in T(m), j \in Index : u # w.at \/ j # i => At(n, u, j) = At(m, u, j)
      BY <1>2, <1>6, <1>8, <2>3, <2>4, PutIs
    <3> HIDE DEF n
    <3>2. \A t \in T(m) : lvl[t] < level => t # w.at
      BY <1>1, <1>6, <1>8
    <3>3. QED
      BY <3>1, <3>2
  <2>18. ASSUME Shows PROVE Painted(m, n, R, root, v, size, 1, Nothing)
    <3>1. DownTo(m, root, v, level, "find").status = "ok" /\ DownTo(m, root, v, level, "find").at = w.at
      BY <1>8 DEF w
    <3>2. \A p \in Page : Nothing[p] = Here(Zero, level, p)
      BY <2>3, EntryTypes DEF Nothing, Here
    <3>3. v \in Page /\ ~LeadsOn(m, w.at, i) /\ i = extract_index(level, v)
      BY <1>5, <1>8, <2>18 DEF i
    <3>4. QED
      BY <1>1, <2>3, <3>1, <3>2, <3>3, PutShown
  <2> HIDE DEF n, up
  <2>8. DownTo(m, root, v, level, "find").status = "ok"
    BY <1>8 DEF w
  <2>9. DownTo(n, root, v, level, "find").status = "ok" /\ DownTo(n, root, v, level, "find").at = w.at
    BY <1>1, <2>5, <2>7, <2>8, UpperWalk DEF w
  <2>10. Pruning(m, R, root, v, n, level)
    BY <2>5, <2>6, <2>9 DEF Pruning
  <2>11. up[0] = n /\ \A k \in 1 .. level : up[k] = Pruned(up[k - 1], root, v, level - k + 1)
    BY <1>1, UpwardIs DEF up
  <2>12. \A k \in 0 .. level : Pruning(m, R, root, v, up[k], level - k) /\ Alike(n, up[k], R)
    <3> DEFINE P(k) == Pruning(m, R, root, v, up[k], level - k) /\ Alike(n, up[k], R)
    <3>1. P(0)
      BY <1>1, <2>10, <2>11 DEF Alike
    <3>2. ASSUME NEW k \in 1 .. level, P(k - 1)
          PROVE  P(k)
      <4>1. level - (k - 1) = level - k + 1 /\ level - k + 1 \in 1 .. 3 /\ (level - k + 1) - 1 = level - k
        BY <1>1
      <4>2. Pruning(m, R, root, v, up[k - 1], level - k + 1)
        BY <3>2, <4>1
      <4>3. /\ Pruning(m, R, root, v, Pruned(up[k - 1], root, v, level - k + 1), (level - k + 1) - 1)
            /\ Alike(up[k - 1], Pruned(up[k - 1], root, v, level - k + 1), R)
        BY <4>1, <4>2, PruneStep
      <4>4. up[k] = Pruned(up[k - 1], root, v, level - k + 1)
        BY <2>11
      <4>5. Alike(n, up[k], R)
        <5>1. Alike(n, up[k - 1], R)
          BY <3>2
        <5>2. QED
          BY <4>3, <4>4, <5>1, AlikeAlike
      <4>6. Pruning(m, R, root, v, up[k], level - k)
        BY <4>1, <4>3, <4>4
      <4>7. QED
        BY <4>5, <4>6
    <3> HIDE DEF P
    <3>3. level >= 1 => P(1)
      BY <1>1, <3>1, <3>2
    <3>4. level >= 2 => P(2)
      BY <1>1, <3>2, <3>3
    <3>5. level >= 3 => P(3)
      BY <1>1, <3>2, <3>4
    <3>6. \A k \in 0 .. level : P(k)
      BY <1>1, <3>1, <3>3, <3>4, <3>5
    <3>7. QED
      BY <3>6 DEF P
  <2>13. Pruning(m, R, root, v, up[level], 0) /\ Alike(n, up[level], R)
    <3>1. level \in 0 .. level /\ level - level = 0
      BY <1>1
    <3>2. QED
      BY <2>12, <3>1
  <2>14. /\ Shrunk(m, up[level]) /\ NoneEmptied(m, up[level], {root})
         /\ \E l : Good(up[level], R, l)
    <3>1. DownTo(up[level], root, v, 0, "find").at = root
      BY DownToIs DEF Walker
    <3>2. QED
      BY <2>13, <3>1 DEF Pruning
  <2>15. NoneEmptied(m, up[level], R)
    BY <2>14 DEF NoneEmptied
  <2>16. Loses(m, R, r)
    BY <1>7, <2>2, <2>14, <2>15 DEF Loses
  <2>17. ASSUME Shows PROVE UnmapShown(m, R, root, v, size, r)
    <3>1. r.m = up[level] /\ r.status = "ok"
      BY <1>7, <2>2
    <3>2. Painted(m, up[level], R, root, v, size, 1, Nothing)
      BY <2>13, <2>17, <2>18, PaintedAlike
    <3>3. QED
      BY <3>1, <3>2 DEF UnmapShown
  <2>19. QED
    BY <2>16, <2>17 DEF r, Shows
<1>9. CASE w.status = "EFAULT" \/ w.status = "stray"
  <2>1. IsWalker(r) /\ r.m = m
    BY <1>4, <1>6, <1>7, <1>9
  <2>2. Loses(m, R, r)
    BY <2>1, LosesNothing
  <2>3. ASSUME Shows PROVE UnmapShown(m, R, root, v, size, r)
    <3>1. CASE w.status = "stray"
      <4>1. r.status = "stray"
        BY <1>4, <3>1
      <4>2. QED
        BY <4>1 DEF UnmapShown
    <3>2. CASE w.status = "EFAULT"
      <4>1. r.status = "ok"
        BY <1>4, <1>7, <3>2
      <4>2. v \in Page
        BY <1>5, <2>3
      <4>3. Painted(m, m, R, root, v, Span(level), 1, Nothing)
        BY <1>1, <3>2, <4>2, StuckBlock DEF w
      <4>4. QED
        BY <1>1, <2>1, <4>1, <4>3 DEF UnmapShown
    <3>3. QED
      BY <1>9, <3>1, <3>2
  <2>4. QED
    BY <2>2, <2>3 DEF r, Shows
<1>10. w.status \in {"ok", "EFAULT", "stray"}
  BY <1>3 DEF Walked
<1>11. QED
  BY <1>8, <1>9, <1>10

LEMMA ProtectPage ==
  ASSUME PageTableAssumption, NEW m, NEW R, NEW lvl, Good(m, R, lvl), NEW root \in R,
         NEW v \in Nat, NEW size \in ProtectSizes, NEW f \in Flags, Mixed \/ NotTable(m, root, v, size)
  PROVE  /\ Loses(m, R, pt_protect_single_page(m, root, v, size, f))
         /\ v \in Page /\ NotTable(m, root, v, size)
              => GuardShown(m, R, root, v, size, f, pt_protect_single_page(m, root, v, size, f))
<1> DEFINE level == LeafLevel(size)
           w == DownTo(m, root, v, level, "find")
           i == extract_index(level, v)
           e == Entry(w, level, v)
           p == Protected(e, size, f)
           n == Put(m, w.at, i, p)
           r == pt_protect_single_page(m, root, v, size, f)
           Shows == v \in Page /\ NotTable(m, root, v, size)
<1>1. level \in 0 .. 3 /\ level \in Level /\ "find" \in {"find", "make"} /\ Span(level) = size
  BY LeafLevelOf DEF Level
<1>2. i \in Index
  BY <1>1, IndexOf
<1>3. Walked(m, R, lvl, w, level, "find")
  BY <1>1, WalkIs
<1>4. r = IF w.status # "ok" THEN w
          ELSE IF ~pte_valid(e) THEN [w EXCEPT !.status = "EFAULT"]
          ELSE Write(w, level, v, p)
  BY DEF pt_protect_single_page
<1>5. /\ Mixed \/ (w.status = "ok" => ~LeadsOn(m, w.at, i))
      /\ Shows => v \in Page /\ (w.status = "ok" => ~LeadsOn(m, w.at, i))
  BY DEF NotTable
<1>6. e = At(w.m, w.at, i)
  BY DEF Entry, At
<1> HIDE DEF r, w, i, level, e, Shows
<1>7. IsWalker(w) /\ w.m = m /\ (w.status = "ok" => w.at \in T(m))
  BY <1>3 DEF Walked
<1>8. CASE w.status # "ok" \/ ~pte_valid(e)
  <2>1. IsWalker(r) /\ r.m = m
    BY <1>4, <1>7, <1>8 DEF IsWalker, Status
  <2>2. Loses(m, R, r)
    BY <2>1, LosesNothing
  <2>3. r.status # "ok"
    BY <1>4, <1>7, <1>8 DEF IsWalker
  <2>4. QED
    BY <2>1, <2>2, <2>3 DEF GuardShown, r
<1>9. CASE w.status = "ok" /\ pte_valid(e)
  <2>1. e \in EntryType
    BY <1>2, <1>6, <1>7, <1>9, ForestFacts DEF Good
  <2>2. p \in EntryType /\ p.kind # "table" /\ p # Zero
    <3>1. e.addr \in Nat
      BY <2>1 DEF EntryType
    <3>2. QED
      BY <3>1, EntryTypes DEF Protected
  <2>11. ASSUME Shows, NEW q \in Page, Seen(m, root, 0, q) = Here(e, level, q)
         PROVE  Guarding(m, root, size, f)[q] = Here(p, level, q)
    <3>1. e.kind = "leaf"
      BY <1>5, <1>6, <1>7, <1>9, <2>11 DEF pte_valid, LeadsOn
    <3> DEFINE a == e.addr + (q % Span(level))
    <3>2. Seen(m, root, 0, q) = {[frame |-> a, flags |-> e.flags]}
      BY <2>11, <3>1 DEF Here
    <3>3. CASE size = 1
      <4>1. Here(p, level, q) = {[frame |-> a, flags |-> f]}
        BY <3>3, EntryTypes DEF Here, Protected, Leaf
      <4> HIDE DEF a
      <4>2. Guarding(m, root, size, f)[q] = {[frame |-> x.frame, flags |-> f] : x \in Seen(m, root, 0, q)}
        BY <3>3 DEF Guarding
      <4> DEFINE y == [frame |-> a, flags |-> e.flags]
      <4>5. y.frame = a /\ Seen(m, root, 0, q) = {y}
        BY <3>2
      <4> HIDE DEF y
      <4>3. {[frame |-> x.frame, flags |-> f] : x \in Seen(m, root, 0, q)} = {[frame |-> a, flags |-> f]}
        BY <4>5
      <4>4. QED
        BY <4>1, <4>2, <4>3
    <3>4. CASE size # 1
      BY <3>4, EntryTypes DEF Here, Protected, Broken, Guarding
    <3>5. QED
      BY <3>3, <3>4
  <2> HIDE DEF p
  <2>3. r = Write(w, level, v, p)
    BY <1>4, <1>9
  <2>4. IsWalker(r) /\ r.m = n
    BY <1>7, <1>9, <2>3, WriteIs DEF i, IsWalker
  <2>5. Good(n, R, lvl)
    BY <1>2, <1>5, <1>7, <1>9, <2>2, GoodPut
  <2>6. Memory(m)
    BY DEF Good, Forest
  <2>7. Shrunk(m, n) /\ NoneEmptied(m, n, {})
    BY <1>2, <1>7, <1>9, <2>2, <2>6, PutShrinks
  <2>8. NoneEmptied(m, n, R)
    BY <2>7 DEF NoneEmptied
  <2>12. ASSUME Shows PROVE Painted(m, n, R, root, v, size, 1, Guarding(m, root, size, f))
    <3>1. DownTo(m, root, v, level, "find").status = "ok" /\ DownTo(m, root, v, level, "find").at = w.at
      BY <1>9 DEF w
    <3>2. v \in Page /\ ~LeadsOn(m, w.at, i) /\ i = extract_index(level, v) /\ e = At(m, w.at, i)
      BY <1>5, <1>6, <1>7, <1>9, <2>12 DEF i
    <3> DEFINE F == Guarding(m, root, size, f)
    <3>3. \A q \in Page : Covered(v, size, 1, q) /\ Seen(m, root, 0, q) = Here(At(m, w.at, i), level, q)
                             => F[q] = Here(p, level, q)
      BY <2>11, <2>12, <3>2
    <3> HIDE DEF F
    <3>4. Painted(m, Put(m, w.at, i, p), R, root, v, size, 1, F)
      BY <1>1, <2>2, <3>1, <3>2, <3>3, PutShown
    <3>5. QED
      BY <3>4 DEF F
  <2> HIDE DEF n
  <2>9. Loses(m, R, r)
    BY <2>4, <2>5, <2>7, <2>8 DEF Loses
  <2>10. ASSUME Shows PROVE GuardShown(m, R, root, v, size, f, r)
    <3>1. r.m = n /\ r.status = "ok"
      BY <1>7, <1>9, <2>3, <2>4, WriteIs
    <3>2. QED
      BY <2>10, <2>12, <3>1 DEF GuardShown
  <2>13. QED
    BY <2>9, <2>10 DEF r, Shows
<1>10. QED
  BY <1>8, <1>9

-----------------------------------------------------------------------------
(* Loops.                                                                  *)

(* What holds at first and is kept by every turn holds after every turn.   *)
LEMMA Turns ==
  ASSUME NEW n \in Nat, NEW f, NEW Inv, f[0] \in Inv[0],
         \A k \in 1 .. n : f[k - 1] \in Inv[k - 1] => f[k] \in Inv[k]
  PROVE  \A k \in 0 .. n : f[k] \in Inv[k]
<1> DEFINE Bad == {k \in 0 .. n : f[k] \notin Inv[k]}
<1>1. SUFFICES ASSUME Bad # {} PROVE FALSE
  OBVIOUS
<1>2. Bad \in SUBSET Nat
  OBVIOUS
<1>3. PICK k \in Bad : \A y \in Bad : k <= y
  <2> HIDE DEF Bad
  <2>1. QED
    BY <1>1, <1>2, Least
<1>4. k # 0 /\ k \in 1 .. n
  BY <1>3
<1>5. k - 1 \notin Bad /\ k - 1 \in 0 .. n
  <2> HIDE DEF Bad
  <2>1. k - 1 \in 0 .. n /\ ~(k <= k - 1)
    BY <1>4
  <2>2. QED
    BY <1>3, <2>1
<1>6. f[k - 1] \in Inv[k - 1]
  BY <1>5
<1>7. QED
  BY <1>3, <1>4, <1>6

(* The function a loop is defined by exists.                               *)
IsCourse(f, n, a, turn) ==
  /\ f = [k \in 0 .. n |-> f[k]]
  /\ f[0] = a /\ \A k \in 1 .. n : f[k] = turn[<<k, f[k - 1]>>]

LEMMA Course ==
  ASSUME NEW n \in Nat, NEW a, NEW turn
  PROVE  \E f : IsCourse(f, n, a, turn)
<1> DEFINE Right(f, t) == f = [k \in 0 .. t |-> IF k = 0 THEN a ELSE turn[<<k, f[k - 1]>>]]
           Bad == {t \in Nat : ~ \E f : Right(f, t)}
<1>1. SUFFICES ASSUME Bad # {} PROVE FALSE
  <2>1. SUFFICES ASSUME Bad = {}
                 PROVE  \E f : IsCourse(f, n, a, turn)
    OBVIOUS
  <2>2. PICK f : Right(f, n)
    BY <2>1
  <2>3. f = [k \in 0 .. n |-> f[k]]
    BY <2>2
  <2>4. f[0] = a /\ \A k \in 1 .. n : f[k] = turn[<<k, f[k - 1]>>]
    BY <2>2
  <2>5. QED
    BY <2>3, <2>4 DEF IsCourse
<1>2. Bad \in SUBSET Nat
  OBVIOUS
<1>3. PICK t \in Bad : \A y \in Bad : t <= y
  <2> HIDE DEF Bad
  <2>1. QED
    BY <1>1, <1>2, Least
<1>4. t # 0
  <2>1. Right([k \in 0 .. 0 |-> a], 0)
    OBVIOUS
  <2>2. 0 \notin Bad
    BY <2>1
  <2>3. QED
    BY <1>3, <2>2
<1>5. PICK f : Right(f, t - 1)
  <2>1. t \in Nat /\ t - 1 \in Nat /\ ~(t <= t - 1)
    BY <1>3, <1>4
  <2>2. t - 1 \notin Bad
    <3> HIDE DEF Bad
    <3>1. QED
      BY <1>3, <2>1
  <2>3. QED
    BY <2>1, <2>2
<1> DEFINE g == [k \in 0 .. t |-> IF k = t THEN turn[<<t, f[t - 1]>>] ELSE f[k]]
<1>6. t \in Nat \ {0}
  BY <1>3, <1>4
<1>7. \A k \in 0 .. (t - 1) : g[k] = f[k]
  BY <1>6
<1>8. g[t] = turn[<<t, f[t - 1]>>]
  BY <1>6
<1>9. f[0] = a /\ \A k \in 1 .. (t - 1) : f[k] = turn[<<k, f[k - 1]>>]
  BY <1>5, <1>6
<1>10. \A k \in 0 .. t : g[k] = IF k = 0 THEN a ELSE turn[<<k, g[k - 1]>>]
  <2>1. SUFFICES ASSUME NEW k \in 0 .. t
                 PROVE  g[k] = IF k = 0 THEN a ELSE turn[<<k, g[k - 1]>>]
    OBVIOUS
  <2> HIDE DEF g
  <2>2. CASE k = 0
    BY <1>6, <1>7, <1>9, <2>2
  <2>3. CASE k \in 1 .. (t - 1)
    <3>1. k - 1 \in 0 .. (t - 1) /\ k \in 0 .. (t - 1)
      BY <1>6, <2>3
    <3>2. g[k] = f[k] /\ g[k - 1] = f[k - 1] /\ f[k] = turn[<<k, f[k - 1]>>]
      BY <1>7, <1>9, <2>3, <3>1
    <3>3. QED
      BY <2>3, <3>2
  <2>4. CASE k = t
    <3>1. t - 1 \in 0 .. (t - 1)
      BY <1>6
    <3>2. g[t - 1] = f[t - 1]
      BY <1>7, <3>1
    <3>3. QED
      BY <1>6, <1>8, <2>4, <3>2
  <2>5. QED
    BY <1>6, <2>2, <2>3, <2>4
<1>11. Right(g, t)
  <2> DEFINE h == [k \in 0 .. t |-> IF k = 0 THEN a ELSE turn[<<k, g[k - 1]>>]]
  <2>1. DOMAIN g = 0 .. t /\ g = [k \in 0 .. t |-> g[k]]
    OBVIOUS
  <2> HIDE DEF g
  <2>2. g = h
    BY <1>10, <2>1
  <2>3. QED
    BY <2>2
<1>12. t \notin Bad
  <2> HIDE DEF g
  <2>1. QED
    BY <1>11
<1>13. QED
  BY <1>3, <1>12

(* Walkers are a set.                                                      *)
Memories == [tables : UNION {[D -> Content] : D \in SUBSET Frame}, free : SUBSET Frame]
Walkers == [m : Memories, at : Nat, status : Status]

LEMMA WalkerType ==
  ASSUME NEW w, IsWalker(w), Memory(w.m)
  PROVE  w \in Walkers
<1> DEFINE m == w.m
<1>1. m = [tables |-> m.tables, free |-> m.free] /\ T(m) \in SUBSET Frame
      /\ m.tables \in [T(m) -> Content] /\ m.free \in SUBSET Frame
  BY DEF Memory
<1>2. m.tables \in UNION {[D -> Content] : D \in SUBSET Frame}
  BY <1>1
<1>3. m \in Memories
  <2> HIDE DEF m
  <2>1. QED
    BY <1>1, <1>2 DEF Memories
<1>4. QED
  BY <1>3 DEF IsWalker, Walkers

(* A page that is not the range of a table does not become one.            *)
LEMMA StillNotTable ==
  ASSUME PageTableAssumption, NEW R, NEW m, NEW lvl, Good(m, R, lvl), NEW n, NEW l, Good(n, R, l),
         Shrunk(m, n), NEW root \in R, NEW v \in Nat, NEW size \in MapSizes \cup ProtectSizes,
         NotTable(m, root, v, size)
  PROVE  NotTable(n, root, v, size)
<1> DEFINE level == LeafLevel(size)
           a == DownTo(m, root, v, level, "find")
           b == DownTo(n, root, v, level, "find")
           i == extract_index(level, v)
<1>1. level \in 0 .. 3 /\ level \in Level /\ "find" \in {"find", "make"}
  BY LeafLevelOf DEF Level
<1>2. SUFFICES ASSUME b.status = "ok", LeadsOn(n, b.at, i) PROVE FALSE
  BY DEF NotTable
<1>3. a.status = "ok" /\ a.at = b.at
  <2> HIDE DEF level
  <2>1. QED
    BY <1>1, <1>2, SameWalk
<1>4. Walked(n, R, l, b, level, "find")
  BY <1>1, WalkIs
<1>5. i \in Index
  BY <1>1, IndexOf
<1>6. ~LeadsOn(m, a.at, i)
  BY <1>3 DEF NotTable
<1> HIDE DEF a, b, i, level
<1>7. b.at \in T(n)
  BY <1>2, <1>4 DEF Walked
<1>8. At(m, b.at, i) = At(n, b.at, i)
  BY <1>2, <1>5, <1>7 DEF Shrunk
<1>9. QED
  BY <1>2, <1>3, <1>6, <1>8 DEF LeadsOn

-----------------------------------------------------------------------------
(* What the turns of a call have changed so far: the first k pages or      *)
(* blocks, or those before one that could not be changed.                  *)
MapsRow(m, R, root, v, phys, size, f, k, w) ==
  \E j \in 0 .. k :
    /\ w.status = "ok" => j = k
    /\ Painted(m, w.m, R, root, v, size, j, Mapping(v, phys, f))
    /\ \A p \in Page : Covered(v, size, j, p) => Seen(m, root, 0, p) = {}

UnmapsRow(m, R, root, v, size, k, w) ==
  /\ w.status \in {"ok", "stray"}
  /\ w.status = "ok" => Painted(m, w.m, R, root, v, size, k, Nothing)

GuardsRow(m, R, root, v, size, f, k, w) ==
  \E j \in 0 .. k :
    /\ w.status = "ok" => j = k
    /\ Painted(m, w.m, R, root, v, size, j, Guarding(m, root, size, f))

LEMMA SizeIs ==
  ASSUME PageTableAssumption, NEW size \in MapSizes \cup ProtectSizes
  PROVE  size \in Nat \ {0} /\ Space \in Nat
<1>1. LeafLevel(size) \in Level /\ 0 \in Level
  BY LeafLevelOf DEF Level
<1>2. Span(LeafLevel(size)) \in Nat \ {0} /\ Span(0) \in Nat \ {0}
  BY <1>1, SpanFacts
<1>3. Fan \in Nat
  BY DEF PageTableAssumption
<1>4. Space \in Nat
  BY <1>2, <1>3, ProductType DEF Space
<1>5. QED
  BY <1>2, <1>4, LeafLevelOf

LEMMA RowStart ==
  ASSUME PageTableAssumption, NEW m, NEW R, NEW root, NEW v \in Nat, NEW size \in MapSizes \cup ProtectSizes,
         NEW w, w.m = m, w.status = "ok"
  PROVE  /\ \A phys, f : MapsRow(m, R, root, v, phys, size, f, 0, w)
         /\ UnmapsRow(m, R, root, v, size, 0, w)
         /\ \A f : GuardsRow(m, R, root, v, size, f, 0, w)
<1>1. size \in Nat \ {0}
  BY SizeIs
<1>2. Alike(m, m, R)
  BY DEF Alike
<1>3. \A F : Painted(m, w.m, R, root, v, size, 0, F)
  BY <1>1, <1>2, PaintedNone
<1>4. \A p \in Page : ~Covered(v, size, 0, p)
  <2> DEFINE q == v \div size
  <2>1. q \in Nat
    BY <1>1, Division
  <2> HIDE DEF q
  <2>2. q .. (q + 0 - 1) = {}
    BY <2>1
  <2>3. QED
    BY <2>2 DEF Covered, q
<1>5. 0 \in 0 .. 0
  OBVIOUS
<1>6. \A phys, f : MapsRow(m, R, root, v, phys, size, f, 0, w)
  BY <1>3, <1>4, <1>5 DEF MapsRow
<1>7. \A f : GuardsRow(m, R, root, v, size, f, 0, w)
  BY <1>3, <1>5 DEF GuardsRow
<1>8. UnmapsRow(m, R, root, v, size, 0, w)
  BY <1>3 DEF UnmapsRow
<1>9. QED
  BY <1>6, <1>7, <1>8

(* A call that went wrong makes no further turns.                          *)
LEMMA RowStays ==
  ASSUME NEW m, NEW R, NEW root, NEW v, NEW size, NEW k \in Nat \ {0}, NEW w, w.status # "ok"
  PROVE  /\ \A phys, f : MapsRow(m, R, root, v, phys, size, f, k - 1, w) => MapsRow(m, R, root, v, phys, size, f, k, w)
         /\ UnmapsRow(m, R, root, v, size, k - 1, w) => UnmapsRow(m, R, root, v, size, k, w)
         /\ \A f : GuardsRow(m, R, root, v, size, f, k - 1, w) => GuardsRow(m, R, root, v, size, f, k, w)
<1>1. \A j \in 0 .. (k - 1) : j \in 0 .. k
  OBVIOUS
<1>2. \A phys, f : MapsRow(m, R, root, v, phys, size, f, k - 1, w) => MapsRow(m, R, root, v, phys, size, f, k, w)
  BY <1>1 DEF MapsRow
<1>3. \A f : GuardsRow(m, R, root, v, size, f, k - 1, w) => GuardsRow(m, R, root, v, size, f, k, w)
  BY <1>1 DEF GuardsRow
<1>4. UnmapsRow(m, R, root, v, size, k - 1, w) => UnmapsRow(m, R, root, v, size, k, w)
  BY DEF UnmapsRow
<1>5. QED
  BY <1>2, <1>3, <1>4

(* The pages of a call are pages of the address space.                     *)
LEMMA InsidePage ==
  ASSUME PageTableAssumption, NEW v \in Nat, NEW count \in Nat, NEW size \in MapSizes \cup ProtectSizes,
         Inside(v, count, size), NEW i \in 0 .. (count - 1)
  PROVE  v + i * size \in Page
<1>1. size \in Nat \ {0}
  BY SizeIs
<1>2. Space \in Nat
  BY SizeIs
<1> DEFINE x == i * size
           y == count * size
           z == (count - i - 1) * size
<1>3. x \in Nat /\ y \in Nat /\ z \in Nat /\ y = x + size + z
  <2>1. i \in Nat /\ count - i - 1 \in Nat
    OBVIOUS
  <2>2. x \in Nat /\ y \in Nat /\ z \in Nat
    BY <1>1, <2>1
  <2>3. count * size = i * size + size + (count - i - 1) * size
    BY <1>1
  <2>4. QED
    BY <2>2, <2>3
<1>4. v + y <= Space
  BY DEF Inside
<1> HIDE DEF x, y, z
<1>5. v + x \in 0 .. (Space - 1)
  BY <1>1, <1>2, <1>3, <1>4
<1>6. QED
  BY <1>5 DEF x, Page

LEMMA MapsNext ==
  ASSUME PageTableAssumption, NEW m, NEW R, NEW root \in R,
         NEW v \in Nat, NEW phys \in Nat, NEW size \in MapSizes, NEW f \in Flags, v % size = 0,
         NEW k \in Nat \ {0}, NEW w, w.status = "ok", NEW l, Good(w.m, R, l),
         MapsRow(m, R, root, v, phys, size, f, k - 1, w), v + (k - 1) * size \in Page
  PROVE  MapsRow(m, R, root, v, phys, size, f, k,
                 pt_map_single_page(w.m, root, v + (k - 1) * size, phys + (k - 1) * size, size, f))
<1> DEFINE i == k - 1
           x == i * size
           u == v + x
           a == phys + x
           r == pt_map_single_page(w.m, root, u, a, size, f)
           F == Mapping(v, phys, f)
<1>1. size \in Nat \ {0} /\ i \in Nat /\ k = i + 1
  BY SizeIs
<1>2. x \in Nat /\ Page \subseteq Nat
  BY <1>1, BlockIs
<1>3. u % size = 0
  <2> DEFINE q == v \div size
             s == q * size
  <2>1. q \in Nat /\ v = s + (v % size) /\ s \in Nat
    <3>1. q \in Nat /\ v = q * size + (v % size)
      BY <1>1, Division
    <3> HIDE DEF q
    <3>2. s \in Nat
      BY <1>1, <3>1, ProductType
    <3>3. QED
      BY <3>1, <3>2
  <2>2. (q + i) * size = s + x
    BY <1>1, <2>1
  <2>3. q + i \in Int
    BY <1>1, <2>1
  <2> DEFINE y == (q + i) * size
  <2>6. y = s + x /\ v = s
    BY <2>1, <2>2
  <2> HIDE DEF q, s, x, i, y
  <2>4. u = y + 0
    BY <1>2, <2>1, <2>6
  <2>5. 0 \in 0 .. (size - 1)
    BY <1>1
  <2>7. ((q + i) * size + 0) % size = 0
    BY <1>1, <2>3, <2>5, Remainder
  <2>8. QED
    BY <2>4, <2>7 DEF y
<1>4. u \in Page /\ a \in Nat
  <2>1. u \in Page
    OBVIOUS
  <2> HIDE DEF x
  <2>2. a \in Nat
    BY <1>2
  <2>3. QED
    BY <2>1, <2>2
<1>5. Mapping(u, a, f) = F
  <2>1. \A p \in Page : a + (p - u) = phys + (p - v)
    <3> HIDE DEF x
    <3>1. QED
      BY <1>2
  <2> HIDE DEF a, u
  <2>2. QED
    BY <2>1 DEF Mapping
<1>6. MapShown(w.m, R, root, u, a, size, f, r)
  <2> HIDE DEF u, a
  <2>1. QED
    BY <1>3, <1>4, MapPageShown
<1>7. PICK j \in 0 .. i : /\ w.status = "ok" => j = i
                          /\ Painted(m, w.m, R, root, v, size, j, F)
                          /\ \A p \in Page : Covered(v, size, j, p) => Seen(m, root, 0, p) = {}
  <2>1. MapsRow(m, R, root, v, phys, size, f, i, w)
    OBVIOUS
  <2> HIDE DEF i
  <2>2. QED
    BY <2>1 DEF MapsRow
<1>8. j = i
  BY <1>7
<1> HIDE DEF r, F
<1>9. CASE r.status # "ok"
  <2>1. Alike(w.m, r.m, R)
    <3> HIDE DEF u, a
    <3>1. QED
      BY <1>6, <1>9 DEF MapShown
  <2>2. Painted(m, r.m, R, root, v, size, i, F)
    BY <1>7, <1>8, <2>1, PaintedAlike
  <2>3. i \in 0 .. k
    BY <1>1
  <2> HIDE DEF i
  <2>4. MapsRow(m, R, root, v, phys, size, f, k, r)
    BY <1>7, <1>8, <1>9, <2>2, <2>3 DEF MapsRow, F
  <2>5. QED
    BY <2>4 DEF r, i
<1>10. CASE r.status = "ok"
  <2>1. Painted(w.m, r.m, R, root, u, size, 1, F) /\ \A p \in Page : Covered(u, size, 1, p) => Seen(w.m, root, 0, p) = {}
    <3> HIDE DEF u, a
    <3>1. QED
      BY <1>5, <1>6, <1>10 DEF MapShown
  <2>2. Painted(m, r.m, R, root, v, size, i + 1, F)
    <3> HIDE DEF i
    <3>1. QED
      BY <1>1, <1>2, <1>7, <1>8, <2>1, PaintedNext
  <2>3. ASSUME NEW p \in Page, Covered(v, size, i + 1, p)
        PROVE  Seen(m, root, 0, p) = {}
    <3>1. /\ Covered(v, size, i + 1, p) <=> Covered(v, size, i, p) \/ Covered(u, size, 1, p)
          /\ ~(Covered(v, size, i, p) /\ Covered(u, size, 1, p))
      <4> HIDE DEF i
      <4>1. p \in Nat
        BY <1>2
      <4>2. QED
        BY <1>1, <4>1, CoveredNext
    <3> HIDE DEF u
    <3>2. Covered(v, size, i, p) => Seen(m, root, 0, p) = {}
      BY <1>7, <1>8
    <3>3. Covered(u, size, 1, p) => Seen(w.m, root, 0, p) = {}
      BY <2>1
    <3>4. ~Covered(v, size, i, p) => Seen(w.m, root, 0, p) = Seen(m, root, 0, p)
      BY <1>7, <1>8 DEF Painted
    <3>5. QED
      BY <2>3, <3>1, <3>2, <3>3, <3>4
  <2>4. k \in 0 .. k /\ i + 1 = k
    BY <1>1
  <2> HIDE DEF i
  <2>5. MapsRow(m, R, root, v, phys, size, f, k, r)
    BY <1>10, <2>2, <2>3, <2>4 DEF MapsRow, F
  <2>6. QED
    BY <2>5 DEF r, i
<1>11. QED
  BY <1>9, <1>10

LEMMA UnmapsNext ==
  ASSUME PageTableAssumption, NEW m, NEW R, NEW root, NEW v \in Nat, NEW size \in MapSizes,
         NEW k \in Nat \ {0}, NEW w, w.status = "ok", UnmapsRow(m, R, root, v, size, k - 1, w),
         NEW r, UnmapShown(w.m, R, root, v + (k - 1) * size, size, r)
  PROVE  UnmapsRow(m, R, root, v, size, k, r)
<1> DEFINE i == k - 1
           u == v + i * size
<1>1. size \in Nat \ {0} /\ i \in Nat /\ k = i + 1 /\ Page \subseteq Nat
  BY SizeIs, BlockIs
<1>2. Painted(m, w.m, R, root, v, size, i, Nothing)
  BY DEF UnmapsRow
<1>3. r.status \in {"ok", "stray"} /\ (r.status = "ok" => Painted(w.m, r.m, R, root, u, size, 1, Nothing))
  BY DEF UnmapShown
<1> HIDE DEF i
<1>4. ASSUME r.status = "ok" PROVE Painted(m, r.m, R, root, v, size, i + 1, Nothing)
  BY <1>1, <1>2, <1>3, <1>4, PaintedNext
<1>5. QED
  BY <1>1, <1>3, <1>4 DEF UnmapsRow

(* A turn of protect sees what there was before the call.                  *)
LEMMA GuardsNext ==
  ASSUME PageTableAssumption, NEW m, NEW R, NEW root \in R, NEW v \in Nat, NEW size \in ProtectSizes, NEW f,
         NEW k \in Nat \ {0}, NEW w, w.status = "ok", GuardsRow(m, R, root, v, size, f, k - 1, w),
         NEW r, GuardShown(w.m, R, root, v + (k - 1) * size, size, f, r)
  PROVE  GuardsRow(m, R, root, v, size, f, k, r)
<1> DEFINE i == k - 1
           u == v + i * size
           F == Guarding(m, root, size, f)
           G == Guarding(w.m, root, size, f)
<1>1. size \in Nat \ {0} /\ i \in Nat /\ k = i + 1 /\ Page \subseteq Nat
  BY SizeIs, BlockIs
<1>2. PICK j \in 0 .. i : (w.status = "ok" => j = i) /\ Painted(m, w.m, R, root, v, size, j, F)
  BY DEF GuardsRow
<1>3. /\ r.status # "ok" => r.m = w.m
      /\ r.status = "ok" => Painted(w.m, r.m, R, root, u, size, 1, G)
  BY DEF GuardShown
<1>4. j = i
  BY <1>2
<1>5. ASSUME NEW p \in Page, Covered(u, size, 1, p) PROVE G[p] = F[p]
  <2>1. ~Covered(v, size, i, p)
    <3> HIDE DEF i
    <3>1. p \in Nat
      BY <1>1
    <3>2. QED
      BY <1>1, <1>5, <3>1, CoveredNext
  <2> HIDE DEF F, u
  <2>2. Seen(w.m, root, 0, p) = Seen(m, root, 0, p)
    BY <1>2, <1>4, <2>1 DEF Painted
  <2>3. QED
    BY <2>2 DEF F, Guarding
<1>6. Painted(w.m, r.m, R, root, u, size, 1, G) => Painted(w.m, r.m, R, root, u, size, 1, F)
  <2> HIDE DEF u, F, G
  <2>1. QED
    BY <1>5 DEF Painted
<1> HIDE DEF F, G
<1>7. CASE r.status # "ok"
  <2>1. i \in 0 .. k
    BY <1>1
  <2> HIDE DEF i
  <2>2. QED
    BY <1>2, <1>3, <1>4, <1>7, <2>1 DEF GuardsRow, F
<1>8. CASE r.status = "ok"
  <2>1. Painted(m, r.m, R, root, v, size, i + 1, F)
    <3> HIDE DEF i
    <3>1. QED
      BY <1>1, <1>2, <1>3, <1>4, <1>6, <1>8, PaintedNext
  <2>2. k \in 0 .. k
    BY <1>1
  <2> HIDE DEF i
  <2>3. QED
    BY <1>1, <1>8, <2>1, <2>2 DEF GuardsRow, F
<1>9. QED
  BY <1>7, <1>8

-----------------------------------------------------------------------------
(* A range of pages is mapped, unmapped, protected.                        *)
Mapped(m, root, v, phys, count, size, f) ==
  LET one(s, i) == pt_map_single_page(s, root, v + i * size, phys + i * size, size, f) IN ForPages(m, count, one)

LEMMA MapPages ==
  ASSUME PageTableAssumption, NEW m, NEW R, NEW lvl, Good(m, R, lvl), NEW root \in R,
         NEW v \in Nat, NEW count \in Nat, NEW phys \in Nat, NEW size \in MapSizes, NEW f \in Flags
  PROVE  /\ Adds(m, R, Mapped(m, root, v, phys, count, size, f))
         /\ v % size = 0 /\ Inside(v, count, size)
              => MapsRow(m, R, root, v, phys, size, f, count, Mapped(m, root, v, phys, count, size, f))
<1> DEFINE one(s, i) == pt_map_single_page(s, root, v + i * size, phys + i * size, size, f)
           turn(w, k) == IF w.status = "ok" THEN one(w.m, k - 1) ELSE w
           Fits == v % size = 0 /\ Inside(v, count, size)
           Sound(k) == {w \in Walkers : Adds(m, R, w) /\ (Fits => MapsRow(m, R, root, v, phys, size, f, k, w))}
           Inv == [k \in 0 .. count |-> Sound(k)]
           Right(h) == h = [k \in 0 .. count |-> IF k = 0 THEN Walker(m, 0) ELSE turn(h[k - 1], k)]
<1>1. Walker(m, 0) \in Sound(0)
  <2>1. IsWalker(Walker(m, 0)) /\ Walker(m, 0).m = m
    BY DEF Walker, IsWalker, Status
  <2>2. Adds(m, R, Walker(m, 0))
    BY <2>1 DEF Adds, Kept
  <2>3. Walker(m, 0) \in Walkers
    BY <2>1, WalkerType DEF Good, Forest
  <2>4. MapsRow(m, R, root, v, phys, size, f, 0, Walker(m, 0))
    <3>1. Walker(m, 0).m = m /\ Walker(m, 0).status = "ok"
      BY DEF Walker
    <3>2. QED
      BY <3>1, RowStart
  <2>5. QED
    BY <2>2, <2>3, <2>4
<1>2. ASSUME NEW k \in 1 .. count, NEW w \in Sound(k - 1)
      PROVE  turn(w, k) \in Sound(k)
  <2>1. CASE w.status # "ok"
    <3>1. Fits => MapsRow(m, R, root, v, phys, size, f, k, w)
      <4>1. Fits => MapsRow(m, R, root, v, phys, size, f, k - 1, w)
        OBVIOUS
      <4>2. k \in Nat \ {0}
        OBVIOUS
      <4> HIDE DEF Fits
      <4>3. QED
        BY <2>1, <4>1, <4>2, RowStays
    <3>2. QED
      BY <2>1, <3>1
  <2>2. CASE w.status = "ok"
    <3> DEFINE r == one(w.m, k - 1)
    <3>1. Adds(m, R, w)
      OBVIOUS
    <3>2. PICK l : Good(w.m, R, l)
      BY <3>1 DEF Adds
    <3>3. k - 1 \in Nat /\ k - 1 \in 0 .. (count - 1)
      OBVIOUS
    <3>4. (k - 1) * size \in Nat
      BY <3>3, LeafLevelOf, ProductType
    <3>5. v + (k - 1) * size \in Nat
      <4> DEFINE x == (k - 1) * size
      <4>1. x \in Nat
        BY <3>4
      <4> HIDE DEF x
      <4>2. v + x \in Nat
        BY <4>1
      <4>3. QED
        BY <4>2 DEF x
    <3>6. phys + (k - 1) * size \in Nat
      <4> DEFINE x == (k - 1) * size
      <4>1. x \in Nat
        BY <3>4
      <4> HIDE DEF x
      <4>2. phys + x \in Nat
        BY <4>1
      <4>3. QED
        BY <4>2 DEF x
    <3>7. ASSUME Fits PROVE v + (k - 1) * size \in Page
      BY <3>3, <3>7, InsidePage
    <3>8. ASSUME Fits PROVE MapsRow(m, R, root, v, phys, size, f, k, r)
      <4>1. MapsRow(m, R, root, v, phys, size, f, k - 1, w) /\ k \in Nat \ {0} /\ v % size = 0
        BY <3>8
      <4>2. v + (k - 1) * size \in Page
        BY <3>7, <3>8
      <4>3. QED
        BY <2>2, <3>2, <4>1, <4>2, MapsNext
    <3>10. Adds(w.m, R, r)
      BY <3>2, <3>5, <3>6, MapPage
    <3> HIDE DEF r, Fits
    <3>20. Adds(m, R, r)
      BY <3>1, <3>10, KeptKept DEF Adds
    <3>21. r \in Walkers
      BY <3>20, WalkerType DEF Adds, Good, Forest
    <3>22. turn(w, k) = r
      BY <2>2 DEF r
    <3>23. QED
      BY <3>8, <3>20, <3>21, <3>22
  <2>3. QED
    BY <2>1, <2>2
<1>3. Mapped(m, root, v, phys, count, size, f) = (CHOOSE h : Right(h))[count]
  BY Zenon DEF Mapped, ForPages
<1> HIDE DEF one
<1> DEFINE turning == [p \in (1 .. count) \X Walkers |-> turn(p[2], p[1])]
<1>4. \A k \in 1 .. count, w \in Walkers : turning[<<k, w>>] = turn(w, k)
  <2> HIDE DEF turn
  <2>1. QED
    OBVIOUS
<1> HIDE DEF turn, turning
<1>5. \E h : Right(h)
  <2>0. PICK h : IsCourse(h, count, Walker(m, 0), turning)
    BY Course, Zenon
  <2>1. /\ h = [k \in 0 .. count |-> h[k]]
        /\ h[0] = Walker(m, 0) /\ \A k \in 1 .. count : h[k] = turning[<<k, h[k - 1]>>]
    BY <2>0 DEF IsCourse
  <2>2. h[0] \in Inv[0]
    BY <1>1, <2>1
  <2>3. \A k \in 1 .. count : h[k - 1] \in Inv[k - 1] => h[k] = turn(h[k - 1], k) /\ h[k] \in Inv[k]
    <3>1. SUFFICES ASSUME NEW k \in 1 .. count, h[k - 1] \in Inv[k - 1]
                   PROVE  h[k] = turn(h[k - 1], k) /\ h[k] \in Inv[k]
      OBVIOUS
    <3>2. h[k - 1] \in Sound(k - 1) /\ h[k - 1] \in Walkers
      BY <3>1
    <3> HIDE DEF Sound
    <3>3. h[k] = turn(h[k - 1], k)
      BY <1>4, <2>1, <3>2
    <3>4. turn(h[k - 1], k) \in Sound(k)
      BY <1>2, <3>2
    <3>5. QED
      BY <3>3, <3>4
  <2>4. \A k \in 0 .. count : h[k] \in Inv[k]
    <3> HIDE DEF Inv
    <3>1. QED
      BY <2>2, <2>3, Turns
  <2>5. ASSUME NEW k \in 0 .. count
        PROVE  h[k] = IF k = 0 THEN Walker(m, 0) ELSE turn(h[k - 1], k)
    <3> HIDE DEF Inv
    <3>1. CASE k = 0
      BY <2>1, <3>1
    <3>2. CASE k # 0
      <4>1. k \in 1 .. count /\ k - 1 \in 0 .. count
        BY <3>2
      <4>2. h[k - 1] \in Inv[k - 1]
        BY <2>4, <4>1
      <4>3. QED
        BY <2>3, <3>2, <4>1, <4>2
    <3>3. QED
      BY <3>1, <3>2
  <2>6. Right(h)
    <3> DEFINE o == [k \in 0 .. count |-> IF k = 0 THEN Walker(m, 0) ELSE turn(h[k - 1], k)]
    <3>1. DOMAIN h = 0 .. count /\ h = [k \in 0 .. count |-> h[k]]
      BY <2>1
    <3>2. h = o
      BY <2>5, <3>1
    <3>3. QED
      BY <3>2
  <2>7. QED
    BY <2>6
<1> DEFINE g == CHOOSE h : Right(h)
<1>6. Right(g)
  BY <1>5
<1> HIDE DEF g
<1>7. g[0] \in Inv[0]
  BY <1>1, <1>6
<1>8. \A k \in 1 .. count : g[k - 1] \in Inv[k - 1] => g[k] \in Inv[k]
  BY <1>2, <1>6
<1>9. \A k \in 0 .. count : g[k] \in Inv[k]
  <2> HIDE DEF Inv, Right
  <2>1. QED
    BY <1>7, <1>8, Turns
<1>10. Adds(m, R, g[count]) /\ (Fits => MapsRow(m, R, root, v, phys, size, f, count, g[count]))
  BY <1>9
<1>11. QED
  BY <1>3, <1>10 DEF one, g

Unmapped(m, root, v, count, size) ==
  LET one(s, i) == pt_unmap_single_page(s, root, v + i * size, size) IN ForPages(m, count, one)

LEMMA UnmapPages ==
  ASSUME PageTableAssumption, NEW m, NEW R, NEW lvl, Good(m, R, lvl), NEW root \in R,
         NEW v \in Nat, NEW count \in Nat, NEW size \in MapSizes,
         \A i \in 0 .. (count - 1) : Mixed \/ NotTable(m, root, v + i * size, size)
  PROVE  /\ Loses(m, R, Unmapped(m, root, v, count, size))
         /\ ~Mixed /\ Inside(v, count, size)
              => UnmapsRow(m, R, root, v, size, count, Unmapped(m, root, v, count, size))
<1> DEFINE one(s, i) == pt_unmap_single_page(s, root, v + i * size, size)
           turn(w, k) == IF w.status = "ok" THEN one(w.m, k - 1) ELSE w
           Fits == ~Mixed /\ Inside(v, count, size)
           Sound(k) == {w \in Walkers : Loses(m, R, w) /\ (Fits => UnmapsRow(m, R, root, v, size, k, w))}
           Inv == [k \in 0 .. count |-> Sound(k)]
           Right(f) == f = [k \in 0 .. count |-> IF k = 0 THEN Walker(m, 0) ELSE turn(f[k - 1], k)]
<1>1. Walker(m, 0) \in Sound(0)
  <2>1. IsWalker(Walker(m, 0)) /\ Walker(m, 0).m = m
    BY DEF Walker, IsWalker, Status
  <2>2. Loses(m, R, Walker(m, 0))
    BY <2>1 DEF Loses, Shrunk, NoneEmptied
  <2>3. Walker(m, 0) \in Walkers
    BY <2>1, WalkerType DEF Good, Forest
  <2>4. UnmapsRow(m, R, root, v, size, 0, Walker(m, 0))
    <3>1. Walker(m, 0).m = m /\ Walker(m, 0).status = "ok"
      BY DEF Walker
    <3>2. QED
      BY <3>1, RowStart
  <2>5. QED
    BY <2>2, <2>3, <2>4
<1>2. ASSUME NEW k \in 1 .. count, NEW w \in Sound(k - 1)
      PROVE  turn(w, k) \in Sound(k)
  <2>1. CASE w.status # "ok"
    <3>1. Fits => UnmapsRow(m, R, root, v, size, k, w)
      <4>1. Fits => UnmapsRow(m, R, root, v, size, k - 1, w)
        OBVIOUS
      <4>2. k \in Nat \ {0}
        OBVIOUS
      <4> HIDE DEF Fits
      <4>3. QED
        BY <2>1, <4>1, <4>2, RowStays
    <3>2. QED
      BY <2>1, <3>1
  <2>2. CASE w.status = "ok"
    <3> DEFINE r == one(w.m, k - 1)
    <3>1. Loses(m, R, w)
      OBVIOUS
    <3>2. PICK l : Good(w.m, R, l)
      BY <3>1 DEF Loses
    <3>3. k - 1 \in Nat /\ k - 1 \in 0 .. (count - 1)
      OBVIOUS
    <3>4. (k - 1) * size \in Nat
      BY <3>3, LeafLevelOf, ProductType
    <3>5. v + (k - 1) * size \in Nat
      <4> DEFINE x == (k - 1) * size
      <4>1. x \in Nat
        BY <3>4
      <4> HIDE DEF x
      <4>2. v + x \in Nat
        BY <4>1
      <4>3. QED
        BY <4>2 DEF x
    <3>6. Mixed \/ NotTable(w.m, root, v + (k - 1) * size, size)
      <4>1. Mixed \/ NotTable(m, root, v + (k - 1) * size, size)
        BY <3>3
      <4>2. QED
        BY <3>1, <3>2, <3>5, <4>1, StillNotTable DEF Loses
    <3>7. ASSUME Fits PROVE v + (k - 1) * size \in Page
      BY <3>3, <3>7, InsidePage
    <3>8. ASSUME Fits PROVE UnmapsRow(m, R, root, v, size, k, r)
      <4>1. UnmapsRow(m, R, root, v, size, k - 1, w) /\ k \in Nat \ {0}
        BY <3>8
      <4>2. v + (k - 1) * size \in Page /\ NotTable(w.m, root, v + (k - 1) * size, size)
        BY <3>6, <3>7, <3>8
      <4>3. UnmapShown(w.m, R, root, v + (k - 1) * size, size, r)
        BY <3>2, <3>5, <4>2, UnmapPage
      <4> HIDE DEF r
      <4>4. QED
        BY <2>2, <4>1, <4>3, UnmapsNext
    <3>10. Loses(w.m, R, r)
      BY <3>2, <3>5, <3>6, UnmapPage
    <3> HIDE DEF r, Fits
    <3>20. Loses(m, R, r)
      BY <3>1, <3>10, ShrunkShrunk, NoneEmptiedTwice DEF Loses, Shrunk
    <3>21. r \in Walkers
      BY <3>20, WalkerType DEF Loses, Good, Forest
    <3>22. turn(w, k) = r
      BY <2>2 DEF r
    <3>23. QED
      BY <3>8, <3>20, <3>21, <3>22
  <2>3. QED
    BY <2>1, <2>2
<1>3. Unmapped(m, root, v, count, size) = (CHOOSE f : Right(f))[count]
  BY Zenon DEF Unmapped, ForPages
<1> HIDE DEF one
<1> DEFINE turning == [p \in (1 .. count) \X Walkers |-> turn(p[2], p[1])]
<1>4. \A k \in 1 .. count, w \in Walkers : turning[<<k, w>>] = turn(w, k)
  <2> HIDE DEF turn
  <2>1. QED
    OBVIOUS
<1> HIDE DEF turn, turning
<1>5. \E f : Right(f)
  <2>0. PICK f : IsCourse(f, count, Walker(m, 0), turning)
    BY Course, Zenon
  <2>1. /\ f = [k \in 0 .. count |-> f[k]]
        /\ f[0] = Walker(m, 0) /\ \A k \in 1 .. count : f[k] = turning[<<k, f[k - 1]>>]
    BY <2>0 DEF IsCourse
  <2>2. f[0] \in Inv[0]
    BY <1>1, <2>1
  <2>3. \A k \in 1 .. count : f[k - 1] \in Inv[k - 1] => f[k] = turn(f[k - 1], k) /\ f[k] \in Inv[k]
    <3>1. SUFFICES ASSUME NEW k \in 1 .. count, f[k - 1] \in Inv[k - 1]
                   PROVE  f[k] = turn(f[k - 1], k) /\ f[k] \in Inv[k]
      OBVIOUS
    <3>2. f[k - 1] \in Sound(k - 1) /\ f[k - 1] \in Walkers
      BY <3>1
    <3> HIDE DEF Sound
    <3>3. f[k] = turn(f[k - 1], k)
      BY <1>4, <2>1, <3>2
    <3>4. turn(f[k - 1], k) \in Sound(k)
      BY <1>2, <3>2
    <3>5. QED
      BY <3>3, <3>4
  <2>4. \A k \in 0 .. count : f[k] \in Inv[k]
    <3> HIDE DEF Inv
    <3>1. QED
      BY <2>2, <2>3, Turns
  <2>5. ASSUME NEW k \in 0 .. count
        PROVE  f[k] = IF k = 0 THEN Walker(m, 0) ELSE turn(f[k - 1], k)
    <3> HIDE DEF Inv
    <3>1. CASE k = 0
      BY <2>1, <3>1
    <3>2. CASE k # 0
      <4>1. k \in 1 .. count /\ k - 1 \in 0 .. count
        BY <3>2
      <4>2. f[k - 1] \in Inv[k - 1]
        BY <2>4, <4>1
      <4>3. QED
        BY <2>3, <3>2, <4>1, <4>2
    <3>3. QED
      BY <3>1, <3>2
  <2>6. Right(f)
    <3> DEFINE o == [k \in 0 .. count |-> IF k = 0 THEN Walker(m, 0) ELSE turn(f[k - 1], k)]
    <3>1. DOMAIN f = 0 .. count /\ f = [k \in 0 .. count |-> f[k]]
      BY <2>1
    <3>2. f = o
      BY <2>5, <3>1
    <3>3. QED
      BY <3>2
  <2>7. QED
    BY <2>6
<1> DEFINE g == CHOOSE f : Right(f)
<1>6. Right(g)
  BY <1>5
<1> HIDE DEF g
<1>7. g[0] \in Inv[0]
  BY <1>1, <1>6
<1>8. \A k \in 1 .. count : g[k - 1] \in Inv[k - 1] => g[k] \in Inv[k]
  BY <1>2, <1>6
<1>9. \A k \in 0 .. count : g[k] \in Inv[k]
  <2> HIDE DEF Inv, Right
  <2>1. QED
    BY <1>7, <1>8, Turns
<1>10. Loses(m, R, g[count]) /\ (Fits => UnmapsRow(m, R, root, v, size, count, g[count]))
  BY <1>9
<1>11. QED
  BY <1>3, <1>10 DEF one, g

Guarded(m, root, v, count, size, f) ==
  LET one(s, i) == pt_protect_single_page(s, root, v + i * size, size, f) IN ForPages(m, count, one)

LEMMA ProtectPages ==
  ASSUME PageTableAssumption, NEW m, NEW R, NEW lvl, Good(m, R, lvl), NEW root \in R,
         NEW v \in Nat, NEW count \in Nat, NEW size \in ProtectSizes, NEW f \in Flags,
         \A i \in 0 .. (count - 1) : Mixed \/ NotTable(m, root, v + i * size, size)
  PROVE  /\ Loses(m, R, Guarded(m, root, v, count, size, f))
         /\ ~Mixed /\ Inside(v, count, size)
              => GuardsRow(m, R, root, v, size, f, count, Guarded(m, root, v, count, size, f))
<1> DEFINE one(s, i) == pt_protect_single_page(s, root, v + i * size, size, f)
           turn(w, k) == IF w.status = "ok" THEN one(w.m, k - 1) ELSE w
           Fits == ~Mixed /\ Inside(v, count, size)
           Sound(k) == {w \in Walkers : Loses(m, R, w) /\ (Fits => GuardsRow(m, R, root, v, size, f, k, w))}
           Inv == [k \in 0 .. count |-> Sound(k)]
           Right(h) == h = [k \in 0 .. count |-> IF k = 0 THEN Walker(m, 0) ELSE turn(h[k - 1], k)]
<1>1. Walker(m, 0) \in Sound(0)
  <2>1. IsWalker(Walker(m, 0)) /\ Walker(m, 0).m = m
    BY DEF Walker, IsWalker, Status
  <2>2. Loses(m, R, Walker(m, 0))
    BY <2>1 DEF Loses, Shrunk, NoneEmptied
  <2>3. Walker(m, 0) \in Walkers
    BY <2>1, WalkerType DEF Good, Forest
  <2>4. GuardsRow(m, R, root, v, size, f, 0, Walker(m, 0))
    <3>1. Walker(m, 0).m = m /\ Walker(m, 0).status = "ok"
      BY DEF Walker
    <3>2. QED
      BY <3>1, RowStart
  <2>5. QED
    BY <2>2, <2>3, <2>4
<1>2. ASSUME NEW k \in 1 .. count, NEW w \in Sound(k - 1)
      PROVE  turn(w, k) \in Sound(k)
  <2>1. CASE w.status # "ok"
    <3>1. Fits => GuardsRow(m, R, root, v, size, f, k, w)
      <4>1. Fits => GuardsRow(m, R, root, v, size, f, k - 1, w)
        OBVIOUS
      <4>2. k \in Nat \ {0}
        OBVIOUS
      <4> HIDE DEF Fits
      <4>3. QED
        BY <2>1, <4>1, <4>2, RowStays
    <3>2. QED
      BY <2>1, <3>1
  <2>2. CASE w.status = "ok"
    <3> DEFINE r == one(w.m, k - 1)
    <3>1. Loses(m, R, w)
      OBVIOUS
    <3>2. PICK l : Good(w.m, R, l)
      BY <3>1 DEF Loses
    <3>3. k - 1 \in Nat /\ k - 1 \in 0 .. (count - 1)
      OBVIOUS
    <3>4. (k - 1) * size \in Nat
      BY <3>3, LeafLevelOf, ProductType
    <3>5. v + (k - 1) * size \in Nat
      <4> DEFINE x == (k - 1) * size
      <4>1. x \in Nat
        BY <3>4
      <4> HIDE DEF x
      <4>2. v + x \in Nat
        BY <4>1
      <4>3. QED
        BY <4>2 DEF x
    <3>6. Mixed \/ NotTable(w.m, root, v + (k - 1) * size, size)
      <4>1. Mixed \/ NotTable(m, root, v + (k - 1) * size, size)
        BY <3>3
      <4>2. QED
        BY <3>1, <3>2, <3>5, <4>1, StillNotTable DEF Loses
    <3>7. ASSUME Fits PROVE v + (k - 1) * size \in Page
      BY <3>3, <3>7, InsidePage
    <3>8. ASSUME Fits PROVE GuardsRow(m, R, root, v, size, f, k, r)
      <4>1. GuardsRow(m, R, root, v, size, f, k - 1, w) /\ k \in Nat \ {0}
        BY <3>8
      <4>2. v + (k - 1) * size \in Page /\ NotTable(w.m, root, v + (k - 1) * size, size)
        BY <3>6, <3>7, <3>8
      <4>3. GuardShown(w.m, R, root, v + (k - 1) * size, size, f, r)
        BY <3>2, <3>5, <4>2, ProtectPage
      <4> HIDE DEF r
      <4>4. QED
        BY <2>2, <4>1, <4>3, GuardsNext
    <3>10. Loses(w.m, R, r)
      BY <3>2, <3>5, <3>6, ProtectPage
    <3> HIDE DEF r, Fits
    <3>20. Loses(m, R, r)
      BY <3>1, <3>10, ShrunkShrunk, NoneEmptiedTwice DEF Loses, Shrunk
    <3>21. r \in Walkers
      BY <3>20, WalkerType DEF Loses, Good, Forest
    <3>22. turn(w, k) = r
      BY <2>2 DEF r
    <3>23. QED
      BY <3>8, <3>20, <3>21, <3>22
  <2>3. QED
    BY <2>1, <2>2
<1>3. Guarded(m, root, v, count, size, f) = (CHOOSE h : Right(h))[count]
  BY Zenon DEF Guarded, ForPages
<1> HIDE DEF one
<1> DEFINE turning == [p \in (1 .. count) \X Walkers |-> turn(p[2], p[1])]
<1>4. \A k \in 1 .. count, w \in Walkers : turning[<<k, w>>] = turn(w, k)
  <2> HIDE DEF turn
  <2>1. QED
    OBVIOUS
<1> HIDE DEF turn, turning
<1>5. \E h : Right(h)
  <2>0. PICK h : IsCourse(h, count, Walker(m, 0), turning)
    BY Course, Zenon
  <2>1. /\ h = [k \in 0 .. count |-> h[k]]
        /\ h[0] = Walker(m, 0) /\ \A k \in 1 .. count : h[k] = turning[<<k, h[k - 1]>>]
    BY <2>0 DEF IsCourse
  <2>2. h[0] \in Inv[0]
    BY <1>1, <2>1
  <2>3. \A k \in 1 .. count : h[k - 1] \in Inv[k - 1] => h[k] = turn(h[k - 1], k) /\ h[k] \in Inv[k]
    <3>1. SUFFICES ASSUME NEW k \in 1 .. count, h[k - 1] \in Inv[k - 1]
                   PROVE  h[k] = turn(h[k - 1], k) /\ h[k] \in Inv[k]
      OBVIOUS
    <3>2. h[k - 1] \in Sound(k - 1) /\ h[k - 1] \in Walkers
      BY <3>1
    <3> HIDE DEF Sound
    <3>3. h[k] = turn(h[k - 1], k)
      BY <1>4, <2>1, <3>2
    <3>4. turn(h[k - 1], k) \in Sound(k)
      BY <1>2, <3>2
    <3>5. QED
      BY <3>3, <3>4
  <2>4. \A k \in 0 .. count : h[k] \in Inv[k]
    <3> HIDE DEF Inv
    <3>1. QED
      BY <2>2, <2>3, Turns
  <2>5. ASSUME NEW k \in 0 .. count
        PROVE  h[k] = IF k = 0 THEN Walker(m, 0) ELSE turn(h[k - 1], k)
    <3> HIDE DEF Inv
    <3>1. CASE k = 0
      BY <2>1, <3>1
    <3>2. CASE k # 0
      <4>1. k \in 1 .. count /\ k - 1 \in 0 .. count
        BY <3>2
      <4>2. h[k - 1] \in Inv[k - 1]
        BY <2>4, <4>1
      <4>3. QED
        BY <2>3, <3>2, <4>1, <4>2
    <3>3. QED
      BY <3>1, <3>2
  <2>6. Right(h)
    <3> DEFINE o == [k \in 0 .. count |-> IF k = 0 THEN Walker(m, 0) ELSE turn(h[k - 1], k)]
    <3>1. DOMAIN h = 0 .. count /\ h = [k \in 0 .. count |-> h[k]]
      BY <2>1
    <3>2. h = o
      BY <2>5, <3>1
    <3>3. QED
      BY <3>2
  <2>7. QED
    BY <2>6
<1> DEFINE g == CHOOSE h : Right(h)
<1>6. Right(g)
  BY <1>5
<1> HIDE DEF g
<1>7. g[0] \in Inv[0]
  BY <1>1, <1>6
<1>8. \A k \in 1 .. count : g[k - 1] \in Inv[k - 1] => g[k] \in Inv[k]
  BY <1>2, <1>6
<1>9. \A k \in 0 .. count : g[k] \in Inv[k]
  <2> HIDE DEF Inv, Right
  <2>1. QED
    BY <1>7, <1>8, Turns
<1>10. Loses(m, R, g[count]) /\ (Fits => GuardsRow(m, R, root, v, size, f, count, g[count]))
  BY <1>9
<1>11. QED
  BY <1>3, <1>10 DEF one, g

-----------------------------------------------------------------------------
(* Copies.                                                                 *)

(* Where nothing below a level changes, the same is seen from there on.    *)
LEMMA BelowSame ==
  ASSUME PageTableAssumption, NEW m, NEW R, NEW lvl, Forest(m, R, lvl), NEW level \in 0 .. 2,
         NEW n, \A x \in T(m) : lvl[x] > level => n.tables[x] = m.tables[x],
         NEW t \in T(m), NEW i \in Index, lvl[t] = level, LeadsOn(m, t, i), NEW p \in Nat
  PROVE  Seen(n, At(m, t, i).addr, level + 1, p) = Seen(m, At(m, t, i).addr, level + 1, p)
<1> DEFINE C == {x \in T(m) : lvl[x] > level}
           next == level + 1
           a == At(m, t, i).addr
<1>1. \A x \in T(m) : lvl[x] \in Nat
  BY ForestFacts
<1>2. \A x \in C, j \in Index : LeadsOn(m, x, j) => At(m, x, j).addr \in C
  <2>1. SUFFICES ASSUME NEW x \in C, NEW j \in Index, LeadsOn(m, x, j)
                 PROVE  At(m, x, j).addr \in C
    OBVIOUS
  <2>2. At(m, x, j).addr \in T(m) /\ lvl[At(m, x, j).addr] = lvl[x] + 1
    BY <2>1, ForestFacts
  <2>3. QED
    BY <1>1, <2>2
<1>3. a \in C /\ next \in Level
  <2>1. a \in T(m) /\ lvl[a] = lvl[t] + 1
    BY ForestFacts
  <2>2. QED
    BY <2>1 DEF Level
<1>4. Apart(m, n, C)
  BY <1>2 DEF Apart
<1> HIDE DEF C, next, a
<1>5. Seen(n, a, next, p) = Seen(m, a, next, p)
  BY <1>3, <1>4, SeenApart
<1>6. QED
  BY <1>5 DEF next, a

(* So far, the pages under the first i entries are found in the copy.      *)
Copied(m, n, src, dst, level, i) ==
  \A p \in Nat : extract_index(level, p) < i => Seen(n, dst, level, p) = Seen(m, src, level, p)

(* Before: an empty table of the level of the one to copy.                 *)
CopyReady(m, R, lvl, src, dst, level) ==
  /\ Good(m, R, lvl)
  /\ src \in T(m) /\ dst \in T(m) /\ src # dst
  /\ lvl[src] = level /\ lvl[dst] = level
  /\ \A j \in Index : At(m, dst, j) = Zero

(* Then: no other table that was there is touched.                         *)
CopySafe(m, R, lvl, dst, r) ==
  /\ IsWalker(r)
  /\ T(m) \subseteq T(r.m) /\ \A t \in T(m) \ {dst} : r.m.tables[t] = m.tables[t]
  /\ \E l : Good(r.m, R, l) /\ \A t \in T(m) : l[t] = lvl[t]

(* And what the table leads to is found in the copy too, if all went well. *)
CopyDone(m, R, lvl, src, dst, level, r) ==
  /\ CopySafe(m, R, lvl, dst, r)
  /\ r.status = "ok" => Copied(m, r.m, src, dst, level, Fan)

(* Meanwhile the entries still to come are zero.                           *)
Copying(m, R, lvl, src, dst, level, d, i) ==
  /\ CopySafe(m, R, lvl, dst, d)
  /\ d.status = "ok" => /\ \A j \in Index : j >= i => At(d.m, dst, j) = Zero
                        /\ Copied(m, d.m, src, dst, level, i)

LEMMA CopiedNone ==
  ASSUME PageTableAssumption, NEW m, NEW n, NEW src, NEW dst, NEW level \in Level
  PROVE  Copied(m, n, src, dst, level, 0)
<1>1. SUFFICES ASSUME NEW p \in Nat PROVE ~(extract_index(level, p) < 0)
  BY DEF Copied
<1>2. extract_index(level, p) \in Index
  BY IndexOf
<1>3. QED
  BY <1>2 DEF Index

(* One entry more, where no other entry of the copy is touched, and nothing*)
(* else that was there.                                                    *)
LEMMA CopiedNext ==
  ASSUME PageTableAssumption, NEW m, NEW R, NEW l, NEW d, Forest(d, R, l), NEW src, NEW dst \in T(d),
         NEW level \in 0 .. 2, l[dst] = level, NEW i \in Index, Copied(m, d, src, dst, level, i),
         NEW n, \A x \in T(d) : x # dst => n.tables[x] = d.tables[x],
         \A j \in Index : j # i => At(n, dst, j) = At(d, dst, j),
         \A p \in Nat : extract_index(level, p) = i => Seen(n, dst, level, p) = Seen(m, src, level, p)
  PROVE  Copied(m, n, src, dst, level, i + 1)
<1>1. SUFFICES ASSUME NEW p \in Nat, extract_index(level, p) < i + 1
               PROVE  Seen(n, dst, level, p) = Seen(m, src, level, p)
  BY DEF Copied
<1> DEFINE k == extract_index(level, p)
           e == At(d, dst, k)
<1>2. k \in Index /\ level \in Level /\ level < 3
  <2>1. level \in Level /\ level < 3
    BY DEF Level
  <2>2. QED
    BY <2>1, IndexOf
<1>3. CASE k = i
  BY <1>3
<1>4. CASE k # i
  <2>1. k < i
    <3> DEFINE x == k
    <3>1. x \in Index /\ x < i + 1 /\ x # i
      BY <1>1, <1>2, <1>4
    <3> HIDE DEF x, k
    <3>2. x < i
      BY <3>1 DEF Index
    <3>3. QED
      BY <3>2 DEF x
  <2>2. Seen(d, dst, level, p) = Seen(m, src, level, p)
    BY <2>1 DEF Copied
  <2>3. At(n, dst, k) = e
    BY <1>2, <1>4
  <2>4. Seen(d, dst, level, p) = IF level < 3 /\ e.kind = "table" THEN Seen(d, e.addr, level + 1, p) ELSE Here(e, level, p)
    BY <1>2, SeenIs
  <2>5. Seen(n, dst, level, p) = IF level < 3 /\ e.kind = "table" THEN Seen(n, e.addr, level + 1, p) ELSE Here(e, level, p)
    BY <1>2, <2>3, SeenIs
  <2>6. \A x \in T(d) : l[x] > level => n.tables[x] = d.tables[x]
    <3>1. ~(l[dst] > level)
      OBVIOUS
    <3>2. QED
      BY <3>1
  <2> HIDE DEF k
  <2>7. ASSUME e.kind = "table" PROVE Seen(n, e.addr, level + 1, p) = Seen(d, e.addr, level + 1, p)
    <3>1. LeadsOn(d, dst, k)
      BY <2>7 DEF LeadsOn
    <3>2. QED
      BY <1>2, <2>6, <3>1, BelowSame
  <2> HIDE DEF e
  <2>8. QED
    BY <2>2, <2>4, <2>5, <2>7
<1>5. QED
  BY <1>3, <1>4

LEMMA CopyLast ==
  ASSUME NEW R, NEW lvl, NEW w, IsWalker(w), NEW src, NEW dst, CopyReady(w.m, R, lvl, src, dst, 3)
  PROVE  CopyDone(w.m, R, lvl, src, dst, 3, copy_l3_table(w, src, dst))
<1> DEFINE m == w.m
           n == [m EXCEPT !.tables = [@ EXCEPT ![dst] = m.tables[src]]]
           r == copy_l3_table(w, src, dst)
<1>1. IsWalker(r) /\ r.m = n
  BY DEF copy_l3_table, IsWalker
<1>2. /\ Good(m, R, lvl) /\ Forest(m, R, lvl) /\ Memory(m) /\ src \in T(m) /\ dst \in T(m) /\ src # dst
      /\ lvl[src] = 3 /\ \A j \in Index : At(m, dst, j) = Zero
  BY DEF CopyReady, Good, Forest
<1> HIDE DEF r, m
<1>3. m = [tables |-> m.tables, free |-> m.free] /\ m.tables \in [T(m) -> Content]
  BY <1>2 DEF Memory
<1>4. n = [tables |-> [m.tables EXCEPT ![dst] = m.tables[src]], free |-> m.free]
  BY <1>3
<1>5. /\ T(n) = T(m) /\ n.free = m.free /\ n.tables \in [T(m) -> Content]
      /\ n.tables[dst] = m.tables[src] /\ \A t \in T(m) \ {dst} : n.tables[t] = m.tables[t]
      /\ n = [tables |-> n.tables, free |-> n.free]
  BY <1>2, <1>3, <1>4 DEF T
<1>6. Memory(n)
  BY <1>2, <1>5 DEF Memory
<1> HIDE DEF n
<1>7. \A j \in Index : ~LeadsOn(m, src, j) /\ ~LeadsOn(m, dst, j)
  BY <1>2, ForestFacts, EntryTypes DEF LeadsOn
<1>8. ASSUME NEW t \in T(n), NEW j \in Index
      PROVE  LeadsOn(n, t, j) <=> LeadsOn(m, t, j)
  BY <1>5, <1>7 DEF LeadsOn, At
<1>9. ASSUME NEW t \in T(n), NEW j \in Index, LeadsOn(m, t, j)
      PROVE  At(n, t, j) = At(m, t, j)
  BY <1>5, <1>7, <1>9 DEF At
<1>10. Forest(n, R, lvl)
  BY <1>2, <1>5, <1>6, <1>8, <1>9 DEF Forest
<1>11. ASSUME ~Mixed PROVE Owned(n, lvl)
  <2>1. SUFFICES ASSUME NEW x \in T(m), lvl[x] > 0
                 PROVE  \E y \in T(n), j \in Index : At(n, y, j) = Table(x)
    BY <1>5 DEF Owned
  <2>2. PICK y \in T(m), j \in Index : At(m, y, j) = Table(x)
    BY <1>2, <1>11, <2>1 DEF Good, Owned
  <2>3. LeadsOn(m, y, j)
    BY <1>2, <2>2, LeadsTo, ForestFacts
  <2>4. QED
    BY <1>5, <1>9, <2>2, <2>3
<1>12. Good(n, R, lvl)
  BY <1>10, <1>11 DEF Good
<1>13. Copied(m, n, src, dst, 3, Fan)
  <2>1. SUFFICES ASSUME NEW p \in Nat PROVE Seen(n, dst, 3, p) = Seen(m, src, 3, p)
    BY DEF Copied
  <2>2. At(n, dst, extract_index(3, p)) = At(m, src, extract_index(3, p))
    BY <1>5 DEF At
  <2>3. QED
    BY <2>2 DEF Seen, Seen3
<1>14. QED
  BY <1>1, <1>5, <1>12, <1>13 DEF CopySafe, CopyDone, r, m

(* One entry, where r is what copying the table it leads to results in.    *)
EntryCopied(d, src, dst, i, r) ==
  LET e == At(d.m, src, i) IN
  IF ~pte_valid(e) THEN d
  ELSE IF e.kind = "leaf" THEN [d EXCEPT !.m.tables[dst][i] = e]
  ELSE IF d.m.free = {} THEN [d EXCEPT !.status = "ENOMEM"] ELSE r

(* What r is then to be, the tables copied being of the next level.        *)
DeepCopied(R, d, src, dst, i, below, r) ==
  \A l : LeadsOn(d.m, src, i) /\ d.m.free # {}
           /\ CopyReady(WithTableAt(d.m, dst, i), R, l, At(d.m, src, i).addr, Lowest(d.m.free), below)
         => CopyDone(WithTableAt(d.m, dst, i), R, l, At(d.m, src, i).addr, Lowest(d.m.free), below, r)

LEMMA CopyEntry ==
  ASSUME PageTableAssumption, NEW m, NEW R, NEW lvl, NEW src, NEW dst, NEW level \in 0 .. 2,
         CopyReady(m, R, lvl, src, dst, level),
         NEW d, NEW i \in Index, Copying(m, R, lvl, src, dst, level, d, i), d.status = "ok", NEW r,
         NEW below, below = level + 1, DeepCopied(R, d, src, dst, i, below, r)
  PROVE  Copying(m, R, lvl, src, dst, level, EntryCopied(d, src, dst, i, r), i + 1)
<1> DEFINE e == At(d.m, src, i)
           o == EntryCopied(d, src, dst, i, r)
           t == Lowest(d.m.free)
           c == WithTableAt(d.m, dst, i)
<1>1. /\ Forest(m, R, lvl) /\ src \in T(m) /\ dst \in T(m) /\ src # dst
      /\ lvl[src] = level /\ lvl[dst] = level
  BY DEF CopyReady, Good
<1>2. /\ IsWalker(d) /\ T(m) \subseteq T(d.m) /\ \A x \in T(m) \ {dst} : d.m.tables[x] = m.tables[x]
      /\ \A j \in Index : j >= i => At(d.m, dst, j) = Zero
      /\ Copied(m, d.m, src, dst, level, i)
  BY DEF Copying, CopySafe
<1>3. PICK l : Good(d.m, R, l) /\ \A x \in T(m) : l[x] = lvl[x]
  BY DEF Copying, CopySafe
<1>4. Forest(d.m, R, l) /\ Memory(d.m)
  BY <1>3 DEF Good, Forest
<1>5. src \in T(d.m) /\ dst \in T(d.m) /\ l[src] = level /\ l[dst] = level
  BY <1>1, <1>2, <1>3
<1>6. i >= i /\ i \in Nat /\ \A j \in Index : j >= i + 1 => j >= i /\ j # i
  BY DEF Index
<1>7. At(d.m, dst, i) = Zero /\ ~LeadsOn(d.m, dst, i)
  BY <1>2, <1>6, EntryTypes DEF LeadsOn
<1>8. e \in EntryType /\ (pte_valid(e) <=> e.kind \in {"table", "leaf"})
  BY <1>4, <1>5, ForestFacts DEF pte_valid
<1>14. At(m, src, i) = e /\ level \in Level /\ level < 3
  BY <1>1, <1>2 DEF At, Level
<1>15. ASSUME NEW p \in Nat, extract_index(level, p) = i
       PROVE  Seen(m, src, level, p) = IF e.kind = "table" THEN Seen(m, e.addr, level + 1, p) ELSE Here(e, level, p)
  <2> HIDE DEF e
  <2>1. QED
    BY <1>14, <1>15, SeenIs
<1>16. ASSUME NEW n, CopySafe(m, R, lvl, dst, o), o.status = "ok", o.m = n,
              \A x \in T(d.m) : x # dst => n.tables[x] = d.m.tables[x],
              \A j \in Index : j # i => At(n, dst, j) = At(d.m, dst, j),
              \A p \in Nat : extract_index(level, p) = i => Seen(n, dst, level, p) = Seen(m, src, level, p)
       PROVE  Copying(m, R, lvl, src, dst, level, o, i + 1)
  <2>1. Copied(m, n, src, dst, level, i + 1)
    <3> DEFINE x == d.m
    <3>1. /\ Forest(x, R, l) /\ dst \in T(x) /\ Copied(m, x, src, dst, level, i)
          /\ \A y \in T(x) : y # dst => n.tables[y] = x.tables[y]
          /\ \A j \in Index : j # i => At(n, dst, j) = At(x, dst, j)
          /\ \A p \in Nat : extract_index(level, p) = i => Seen(n, dst, level, p) = Seen(m, src, level, p)
          /\ l[dst] = level
      BY <1>2, <1>4, <1>5, <1>16
    <3> HIDE DEF x
    <3>2. QED
      BY <3>1, CopiedNext
  <2>2. \A j \in Index : j >= i + 1 => At(n, dst, j) = Zero
    BY <1>2, <1>6, <1>16
  <2> HIDE DEF o
  <2>3. QED
    BY <1>16, <2>1, <2>2 DEF Copying
<1> HIDE DEF e, o, t, c
<1>9. CASE ~pte_valid(e)
  <2>1. o = d
    BY <1>9 DEF o, e, EntryCopied
  <2>2. CopySafe(m, R, lvl, dst, o)
    BY <2>1 DEF Copying
  <2>3. ASSUME NEW p \in Nat, extract_index(level, p) = i
        PROVE  Seen(d.m, dst, level, p) = Seen(m, src, level, p)
    <3>1. e.kind # "table" /\ Here(e, level, p) = {}
      BY <1>9 DEF pte_valid, Here
    <3>2. Seen(d.m, dst, level, p) = Here(Zero, level, p)
      BY <1>2, <1>5, <1>6, <1>7, <1>14, <2>3, SeenIs DEF LeadsOn
    <3>3. Here(Zero, level, p) = {}
      BY EntryTypes DEF Here
    <3>4. QED
      BY <1>15, <2>3, <3>1, <3>2, <3>3
  <2>4. QED
    BY <1>16, <2>1, <2>2, <2>3 DEF o
<1>10. CASE e.kind = "leaf"
  <2> DEFINE n == Put(d.m, dst, i, e)
  <2>1. o = [d EXCEPT !.m.tables[dst][i] = e]
    BY <1>8, <1>10 DEF o, e, EntryCopied
  <2>2. IsWalker(o) /\ o.m = n
    BY <1>2, <2>1 DEF IsWalker, Put
  <2>3. Good(n, R, l)
    BY <1>3, <1>5, <1>7, <1>8, <1>10, GoodPut
  <2>4. /\ T(n) = T(d.m)
        /\ \A x \in T(d.m), j \in Index : x # dst \/ j # i => At(n, x, j) = At(d.m, x, j)
        /\ \A x \in T(d.m) : x # dst => n.tables[x] = d.m.tables[x]
    BY <1>4, <1>5, <1>8, PutIs
  <2>8. At(n, dst, i) = e
    BY <1>4, <1>5, <1>8, PutIs
  <2> HIDE DEF n
  <2>5. CopySafe(m, R, lvl, dst, o)
    BY <1>2, <1>3, <2>2, <2>3, <2>4 DEF CopySafe
  <2>6. ASSUME NEW p \in Nat, extract_index(level, p) = i
        PROVE  Seen(n, dst, level, p) = Seen(m, src, level, p)
    <3>1. Seen(n, dst, level, p) = Here(e, level, p)
      BY <1>10, <1>14, <2>6, <2>8, SeenIs
    <3>2. QED
      BY <1>10, <1>15, <2>6, <3>1
  <2>9. o.status = "ok"
    BY <1>2, <2>1 DEF IsWalker
  <2>7. QED
    BY <1>5, <1>16, <2>2, <2>4, <2>5, <2>6, <2>9 DEF o
<1>11. CASE e.kind = "table" /\ d.m.free = {}
  <2>1. o = [d EXCEPT !.status = "ENOMEM"]
    BY <1>8, <1>11 DEF o, e, EntryCopied
  <2>2. IsWalker(o) /\ o.m = d.m /\ o.status # "ok"
    BY <1>2, <2>1 DEF IsWalker, Status
  <2>3. CopySafe(m, R, lvl, dst, o)
    BY <1>2, <1>3, <2>2 DEF CopySafe
  <2>4. QED
    BY <2>2, <2>3 DEF Copying, o
<1>12. CASE e.kind = "table" /\ d.m.free # {}
  <2> DEFINE g == [x \in T(d.m) \cup {t} |-> IF x = t THEN l[dst] + 1 ELSE l[x]]
  <2>1. o = r
    BY <1>8, <1>12 DEF o, e, EntryCopied
  <2>2. LeadsOn(d.m, src, i)
    BY <1>12 DEF LeadsOn, e
  <2>3. e = Table(e.addr) /\ e.addr \in T(d.m) /\ l[e.addr] = level + 1
    BY <1>4, <1>5, <2>2, ForestFacts DEF e
  <2>4. Good(c, R, g)
    <3>1. l[dst] < 3
      BY <1>5
    <3>2. QED
      BY <1>3, <1>5, <1>7, <1>12, <3>1, ForestAdd DEF c, t
  <2>5. /\ t \in Frame \ T(d.m) /\ T(c) = T(d.m) \cup {t}
        /\ At(c, dst, i) = Table(t)
        /\ \A j \in Index : At(c, t, j) = Zero
        /\ \A x \in T(d.m), j \in Index : x # dst \/ j # i => At(c, x, j) = At(d.m, x, j)
        /\ \A x \in T(d.m) : x # dst => c.tables[x] = d.m.tables[x]
    BY <1>4, <1>5, <1>12, WithTableAtIs DEF c, t
  <2>6. g[t] = level + 1 /\ \A x \in T(d.m) : g[x] = l[x]
    BY <1>5, <2>5
  <2> HIDE DEF g
  <2>7. CopyReady(c, R, g, e.addr, t, level + 1)
    BY <2>3, <2>4, <2>5, <2>6 DEF CopyReady
  <2>8. CopyDone(c, R, g, e.addr, t, level + 1, r)
    BY <1>12, <2>2, <2>7 DEF c, t, e, DeepCopied
  <2>9. /\ IsWalker(r) /\ T(c) \subseteq T(r.m) /\ \A x \in T(c) \ {t} : r.m.tables[x] = c.tables[x]
    BY <2>8 DEF CopyDone, CopySafe
  <2>10. PICK h : Good(r.m, R, h) /\ \A x \in T(c) : h[x] = g[x]
    BY <2>8 DEF CopyDone, CopySafe
  <2>11. T(m) \subseteq T(r.m) /\ \A x \in T(m) \ {dst} : r.m.tables[x] = m.tables[x]
    BY <1>2, <2>5, <2>9
  <2>12. \A x \in T(m) : h[x] = lvl[x]
    BY <1>2, <1>3, <2>5, <2>6, <2>10
  <2>13. CopySafe(m, R, lvl, dst, r)
    BY <2>9, <2>10, <2>11, <2>12 DEF CopySafe
  <2>14. \A j \in Index : At(r.m, dst, j) = At(c, dst, j)
    <3>1. dst # t /\ dst \in T(c)
      BY <1>5, <2>5
    <3>2. QED
      BY <2>9, <3>1 DEF At
  <2>15. CASE r.status # "ok"
    BY <2>1, <2>13, <2>15 DEF Copying, o
  <2>16. CASE r.status = "ok"
    <3>1. \A x \in T(d.m) : x # dst => r.m.tables[x] = d.m.tables[x]
      BY <2>5, <2>9
    <3>2. \A j \in Index : j # i => At(r.m, dst, j) = At(d.m, dst, j)
      BY <1>5, <2>5, <2>14
    <3>3. ASSUME NEW p \in Nat, extract_index(level, p) = i
          PROVE  Seen(r.m, dst, level, p) = Seen(m, src, level, p)
      <4> DEFINE next == level + 1
      <4>1. At(r.m, dst, i) = Table(t) /\ Table(t).kind = "table" /\ Table(t).addr = t
        BY <2>5, <2>14, EntryTypes DEF Frame
      <4>2. Seen(r.m, dst, level, p) = Seen(r.m, t, next, p)
        BY <1>14, <3>3, <4>1, SeenIs
      <4>3. next \in Level
        BY DEF Level
      <4>4. extract_index(next, p) < Fan
        <5> HIDE DEF next
        <5>1. extract_index(next, p) \in Index
          BY <4>3, IndexOf
        <5> DEFINE k == extract_index(next, p)
        <5>2. k \in Index
          BY <5>1
        <5> HIDE DEF k
        <5>3. Fan \in Nat
          BY DEF PageTableAssumption
        <5>4. k < Fan
          BY <5>2, <5>3 DEF Index
        <5>5. QED
          BY <5>4 DEF k
      <4>5. Seen(r.m, t, next, p) = Seen(c, e.addr, next, p)
        BY <2>8, <2>16, <4>4 DEF CopyDone, Copied
      <4>6. \A x \in T(m) : lvl[x] > level => c.tables[x] = m.tables[x]
        <5>1. \A x \in T(m) : lvl[x] > level => x # dst
          BY <1>1
        <5>2. QED
          BY <1>2, <2>5, <5>1
      <4>7. LeadsOn(m, src, i) /\ At(m, src, i).addr = e.addr
        BY <1>12, <1>14 DEF LeadsOn
      <4>8. Seen(c, e.addr, next, p) = Seen(m, e.addr, next, p)
        <5>1. Seen(c, At(m, src, i).addr, level + 1, p) = Seen(m, At(m, src, i).addr, level + 1, p)
          BY <1>1, <4>6, <4>7, BelowSame
        <5>2. QED
          BY <4>7, <5>1
      <4>9. QED
        BY <1>12, <1>15, <3>3, <4>2, <4>5, <4>8
    <3>4. QED
      BY <1>16, <2>1, <2>13, <2>16, <3>1, <3>2, <3>3 DEF o
  <2>17. QED
    BY <2>15, <2>16
<1>13. QED
  BY <1>8, <1>9, <1>10, <1>11, <1>12 DEF o

(* A table is copied with all that is below it, level by level.            *)
LEMMA CopyLevel2 ==
  ASSUME PageTableAssumption, NEW R, NEW lvl, NEW w, IsWalker(w), w.status = "ok", NEW src, NEW dst,
         CopyReady(w.m, R, lvl, src, dst, 2)
  PROVE  CopyDone(w.m, R, lvl, src, dst, 2, copy_l2_table(w, src, dst))
<1> DEFINE m == w.m
           one(d, i) == LET e == At(d.m, src, i)
                        IN  IF ~pte_valid(e) THEN d
                            ELSE IF e.kind = "leaf" THEN [d EXCEPT !.m.tables[dst][i] = e]
                            ELSE IF d.m.free = {} THEN [d EXCEPT !.status = "ENOMEM"]
                            ELSE copy_l3_table([d EXCEPT !.m = WithTableAt(d.m, dst, i)], e.addr, Lowest(d.m.free))
           turn(d, k) == IF d.status = "ok" THEN one(d, k - 1) ELSE d
           Inv == [k \in 0 .. Fan |-> {d \in Walkers : Copying(m, R, lvl, src, dst, 2, d, k)}]
           Right(f) == f = [k \in 0 .. Fan |-> IF k = 0 THEN w ELSE turn(f[k - 1], k)]
<1>0. Fan \in Nat \ {0}
  BY DEF PageTableAssumption
<1>1. w \in Inv[0]
  <2>1. Copying(m, R, lvl, src, dst, 2, w, 0)
    <3>1. Copied(m, w.m, src, dst, 2, 0)
      BY CopiedNone DEF Level
    <3>2. QED
      BY <3>1 DEF Copying, CopySafe, CopyReady, Index
  <2>2. w \in Walkers
    BY WalkerType DEF CopyReady, Good, Forest
  <2>3. QED
    BY <1>0, <2>1, <2>2
<1>2. ASSUME NEW k \in 1 .. Fan, NEW d \in Inv[k - 1]
      PROVE  turn(d, k) \in Inv[k]
  <2>1. k - 1 \in 0 .. Fan /\ k \in 0 .. Fan /\ k - 1 \in Index /\ (k - 1) + 1 = k
    BY <1>0 DEF Index
  <2>2. d \in Walkers /\ Copying(m, R, lvl, src, dst, 2, d, k - 1)
    BY <2>1
  <2> SUFFICES Copying(m, R, lvl, src, dst, 2, turn(d, k), k)
    <3>1. SUFFICES ASSUME Copying(m, R, lvl, src, dst, 2, turn(d, k), k) PROVE turn(d, k) \in Inv[k]
      OBVIOUS
    <3> HIDE DEF turn
    <3>2. turn(d, k) \in Walkers
      BY <3>1, WalkerType DEF Copying, CopySafe, Good, Forest
    <3>3. QED
      BY <2>1, <3>1, <3>2
  <2> HIDE DEF Inv
  <2>3. CASE d.status # "ok"
    BY <2>2, <2>3 DEF Copying
  <2>4. CASE d.status = "ok"
    <3> DEFINE i == k - 1
               e == At(d.m, src, i)
               c == [d EXCEPT !.m = WithTableAt(d.m, dst, i)]
               r == copy_l3_table(c, e.addr, Lowest(d.m.free))
    <3>1. IsWalker(c) /\ c.m = WithTableAt(d.m, dst, i) /\ c.status = "ok"
      <4>1. IsWalker(d)
        BY <2>2 DEF Copying, CopySafe
      <4>2. QED
        BY <2>4, <4>1 DEF IsWalker
    <3> HIDE DEF c
    <3>2. DeepCopied(R, d, src, dst, i, 3, r)
      <4>1. SUFFICES ASSUME NEW l, CopyReady(c.m, R, l, e.addr, Lowest(d.m.free), 3)
                     PROVE  CopyDone(c.m, R, l, e.addr, Lowest(d.m.free), 3, r)
        BY <3>1 DEF DeepCopied
      <4>2. QED
        BY <3>1, <4>1, CopyLast
    <3> HIDE DEF r
    <3> DEFINE o == EntryCopied(d, src, dst, i, r)
    <3>3. Copying(m, R, lvl, src, dst, 2, o, i + 1)
      <4>1. 2 \in 0 .. 2 /\ 3 = 2 + 1 /\ i \in Index /\ CopyReady(m, R, lvl, src, dst, 2)
        BY <2>1
      <4>2. Copying(m, R, lvl, src, dst, 2, d, i)
        BY <2>2
      <4> HIDE DEF m, i, o
      <4>3. QED
        BY <2>4, <3>2, <4>1, <4>2, CopyEntry DEF o
    <3>4. turn(d, k) = o
      BY <2>4, Zenon DEF r, c, EntryCopied
    <3> HIDE DEF turn, o
    <3>5. QED
      BY <2>1, <3>3, <3>4
  <2>5. QED
    BY <2>3, <2>4
<1>3. copy_l2_table(w, src, dst) = (CHOOSE f : Right(f))[Fan]
  BY Zenon DEF copy_l2_table, CopyTable, At
<1> HIDE DEF one, Inv
<1> DEFINE turning == [p \in (1 .. Fan) \X Walkers |-> turn(p[2], p[1])]
<1>4. \A k \in 1 .. Fan, d \in Walkers : turning[<<k, d>>] = turn(d, k)
  <2> HIDE DEF turn
  <2>1. QED
    OBVIOUS
<1>5. \A k \in 0 .. Fan : Inv[k] \subseteq Walkers
  BY DEF Inv
<1> HIDE DEF turn, turning
<1>6. \E f : Right(f)
  <2>0. PICK f : IsCourse(f, Fan, w, turning)
    BY <1>0, Course, Zenon
  <2>1. f = [k \in 0 .. Fan |-> f[k]] /\ f[0] = w /\ \A k \in 1 .. Fan : f[k] = turning[<<k, f[k - 1]>>]
    BY <2>0 DEF IsCourse
  <2>2. f[0] \in Inv[0]
    BY <1>1, <2>1
  <2>3. \A k \in 1 .. Fan : f[k - 1] \in Inv[k - 1] => f[k] = turn(f[k - 1], k) /\ f[k] \in Inv[k]
    <3>1. SUFFICES ASSUME NEW k \in 1 .. Fan, f[k - 1] \in Inv[k - 1]
                   PROVE  f[k] = turn(f[k - 1], k) /\ f[k] \in Inv[k]
      OBVIOUS
    <3>2. f[k - 1] \in Walkers
      BY <1>0, <1>5, <3>1
    <3>3. f[k] = turn(f[k - 1], k)
      BY <1>4, <2>1, <3>2
    <3>4. turn(f[k - 1], k) \in Inv[k]
      BY <1>2, <3>1
    <3>5. QED
      BY <3>3, <3>4
  <2>4. \A k \in 0 .. Fan : f[k] \in Inv[k]
    BY <1>0, <2>2, <2>3, Turns
  <2>5. ASSUME NEW k \in 0 .. Fan
        PROVE  f[k] = IF k = 0 THEN w ELSE turn(f[k - 1], k)
    <3>1. CASE k = 0
      BY <2>1, <3>1
    <3>2. CASE k # 0
      <4>1. k \in 1 .. Fan /\ k - 1 \in 0 .. Fan
        BY <1>0, <3>2
      <4>2. f[k - 1] \in Inv[k - 1]
        BY <2>4, <4>1
      <4>3. QED
        BY <2>3, <3>2, <4>1, <4>2
    <3>3. QED
      BY <3>1, <3>2
  <2>6. Right(f)
    <3> DEFINE o == [k \in 0 .. Fan |-> IF k = 0 THEN w ELSE turn(f[k - 1], k)]
    <3>1. DOMAIN f = 0 .. Fan /\ f = [k \in 0 .. Fan |-> f[k]]
      BY <2>1
    <3>2. f = o
      BY <2>5, <3>1
    <3>3. QED
      BY <3>2
  <2>7. QED
    BY <2>6
<1> DEFINE g == CHOOSE f : Right(f)
<1>7. Right(g)
  BY <1>6
<1> HIDE DEF g
<1>8. g[0] \in Inv[0]
  BY <1>0, <1>1, <1>7
<1>9. \A k \in 1 .. Fan : g[k - 1] \in Inv[k - 1] => g[k] \in Inv[k]
  BY <1>0, <1>2, <1>7
<1>10. \A k \in 0 .. Fan : g[k] \in Inv[k]
  <2> HIDE DEF Right
  <2>1. QED
    BY <1>0, <1>8, <1>9, Turns
<1>11. CopyDone(m, R, lvl, src, dst, 2, g[Fan])
  BY <1>0, <1>10 DEF Inv, Copying, CopyDone
<1>12. QED
  BY <1>3, <1>11 DEF g

LEMMA CopyLevel1 ==
  ASSUME PageTableAssumption, NEW R, NEW lvl, NEW w, IsWalker(w), w.status = "ok", NEW src, NEW dst,
         CopyReady(w.m, R, lvl, src, dst, 1)
  PROVE  CopyDone(w.m, R, lvl, src, dst, 1, copy_l1_table(w, src, dst))
<1> DEFINE m == w.m
           one(d, i) == LET e == At(d.m, src, i)
                        IN  IF ~pte_valid(e) THEN d
                            ELSE IF e.kind = "leaf" THEN [d EXCEPT !.m.tables[dst][i] = e]
                            ELSE IF d.m.free = {} THEN [d EXCEPT !.status = "ENOMEM"]
                            ELSE copy_l2_table([d EXCEPT !.m = WithTableAt(d.m, dst, i)], e.addr, Lowest(d.m.free))
           turn(d, k) == IF d.status = "ok" THEN one(d, k - 1) ELSE d
           Inv == [k \in 0 .. Fan |-> {d \in Walkers : Copying(m, R, lvl, src, dst, 1, d, k)}]
           Right(f) == f = [k \in 0 .. Fan |-> IF k = 0 THEN w ELSE turn(f[k - 1], k)]
<1>0. Fan \in Nat \ {0}
  BY DEF PageTableAssumption
<1>1. w \in Inv[0]
  <2>1. Copying(m, R, lvl, src, dst, 1, w, 0)
    <3>1. Copied(m, w.m, src, dst, 1, 0)
      BY CopiedNone DEF Level
    <3>2. QED
      BY <3>1 DEF Copying, CopySafe, CopyReady, Index
  <2>2. w \in Walkers
    BY WalkerType DEF CopyReady, Good, Forest
  <2>3. QED
    BY <1>0, <2>1, <2>2
<1>2. ASSUME NEW k \in 1 .. Fan, NEW d \in Inv[k - 1]
      PROVE  turn(d, k) \in Inv[k]
  <2>1. k - 1 \in 0 .. Fan /\ k \in 0 .. Fan /\ k - 1 \in Index /\ (k - 1) + 1 = k
    BY <1>0 DEF Index
  <2>2. d \in Walkers /\ Copying(m, R, lvl, src, dst, 1, d, k - 1)
    BY <2>1
  <2> SUFFICES Copying(m, R, lvl, src, dst, 1, turn(d, k), k)
    <3>1. SUFFICES ASSUME Copying(m, R, lvl, src, dst, 1, turn(d, k), k) PROVE turn(d, k) \in Inv[k]
      OBVIOUS
    <3> HIDE DEF turn
    <3>2. turn(d, k) \in Walkers
      BY <3>1, WalkerType DEF Copying, CopySafe, Good, Forest
    <3>3. QED
      BY <2>1, <3>1, <3>2
  <2> HIDE DEF Inv
  <2>3. CASE d.status # "ok"
    BY <2>2, <2>3 DEF Copying
  <2>4. CASE d.status = "ok"
    <3> DEFINE i == k - 1
               e == At(d.m, src, i)
               c == [d EXCEPT !.m = WithTableAt(d.m, dst, i)]
               r == copy_l2_table(c, e.addr, Lowest(d.m.free))
    <3>1. IsWalker(c) /\ c.m = WithTableAt(d.m, dst, i) /\ c.status = "ok"
      <4>1. IsWalker(d)
        BY <2>2 DEF Copying, CopySafe
      <4>2. QED
        BY <2>4, <4>1 DEF IsWalker
    <3> HIDE DEF c
    <3>2. DeepCopied(R, d, src, dst, i, 2, r)
      <4>1. SUFFICES ASSUME NEW l, CopyReady(c.m, R, l, e.addr, Lowest(d.m.free), 2)
                     PROVE  CopyDone(c.m, R, l, e.addr, Lowest(d.m.free), 2, r)
        BY <3>1 DEF DeepCopied
      <4>2. QED
        BY <3>1, <4>1, CopyLevel2
    <3> HIDE DEF r
    <3> DEFINE o == EntryCopied(d, src, dst, i, r)
    <3>3. Copying(m, R, lvl, src, dst, 1, o, i + 1)
      <4>1. 1 \in 0 .. 2 /\ 2 = 1 + 1 /\ i \in Index /\ CopyReady(m, R, lvl, src, dst, 1)
        BY <2>1
      <4>2. Copying(m, R, lvl, src, dst, 1, d, i)
        BY <2>2
      <4> HIDE DEF m, i, o
      <4>3. QED
        BY <2>4, <3>2, <4>1, <4>2, CopyEntry DEF o
    <3>4. turn(d, k) = o
      BY <2>4, Zenon DEF r, c, EntryCopied
    <3> HIDE DEF turn, o
    <3>5. QED
      BY <2>1, <3>3, <3>4
  <2>5. QED
    BY <2>3, <2>4
<1>3. copy_l1_table(w, src, dst) = (CHOOSE f : Right(f))[Fan]
  BY Zenon DEF copy_l1_table, CopyTable, At
<1> HIDE DEF one, Inv
<1> DEFINE turning == [p \in (1 .. Fan) \X Walkers |-> turn(p[2], p[1])]
<1>4. \A k \in 1 .. Fan, d \in Walkers : turning[<<k, d>>] = turn(d, k)
  <2> HIDE DEF turn
  <2>1. QED
    OBVIOUS
<1>5. \A k \in 0 .. Fan : Inv[k] \subseteq Walkers
  BY DEF Inv
<1> HIDE DEF turn, turning
<1>6. \E f : Right(f)
  <2>0. PICK f : IsCourse(f, Fan, w, turning)
    BY <1>0, Course, Zenon
  <2>1. f = [k \in 0 .. Fan |-> f[k]] /\ f[0] = w /\ \A k \in 1 .. Fan : f[k] = turning[<<k, f[k - 1]>>]
    BY <2>0 DEF IsCourse
  <2>2. f[0] \in Inv[0]
    BY <1>1, <2>1
  <2>3. \A k \in 1 .. Fan : f[k - 1] \in Inv[k - 1] => f[k] = turn(f[k - 1], k) /\ f[k] \in Inv[k]
    <3>1. SUFFICES ASSUME NEW k \in 1 .. Fan, f[k - 1] \in Inv[k - 1]
                   PROVE  f[k] = turn(f[k - 1], k) /\ f[k] \in Inv[k]
      OBVIOUS
    <3>2. f[k - 1] \in Walkers
      BY <1>0, <1>5, <3>1
    <3>3. f[k] = turn(f[k - 1], k)
      BY <1>4, <2>1, <3>2
    <3>4. turn(f[k - 1], k) \in Inv[k]
      BY <1>2, <3>1
    <3>5. QED
      BY <3>3, <3>4
  <2>4. \A k \in 0 .. Fan : f[k] \in Inv[k]
    BY <1>0, <2>2, <2>3, Turns
  <2>5. ASSUME NEW k \in 0 .. Fan
        PROVE  f[k] = IF k = 0 THEN w ELSE turn(f[k - 1], k)
    <3>1. CASE k = 0
      BY <2>1, <3>1
    <3>2. CASE k # 0
      <4>1. k \in 1 .. Fan /\ k - 1 \in 0 .. Fan
        BY <1>0, <3>2
      <4>2. f[k - 1] \in Inv[k - 1]
        BY <2>4, <4>1
      <4>3. QED
        BY <2>3, <3>2, <4>1, <4>2
    <3>3. QED
      BY <3>1, <3>2
  <2>6. Right(f)
    <3> DEFINE o == [k \in 0 .. Fan |-> IF k = 0 THEN w ELSE turn(f[k - 1], k)]
    <3>1. DOMAIN f = 0 .. Fan /\ f = [k \in 0 .. Fan |-> f[k]]
      BY <2>1
    <3>2. f = o
      BY <2>5, <3>1
    <3>3. QED
      BY <3>2
  <2>7. QED
    BY <2>6
<1> DEFINE g == CHOOSE f : Right(f)
<1>7. Right(g)
  BY <1>6
<1> HIDE DEF g
<1>8. g[0] \in Inv[0]
  BY <1>0, <1>1, <1>7
<1>9. \A k \in 1 .. Fan : g[k - 1] \in Inv[k - 1] => g[k] \in Inv[k]
  BY <1>0, <1>2, <1>7
<1>10. \A k \in 0 .. Fan : g[k] \in Inv[k]
  <2> HIDE DEF Right
  <2>1. QED
    BY <1>0, <1>8, <1>9, Turns
<1>11. CopyDone(m, R, lvl, src, dst, 1, g[Fan])
  BY <1>0, <1>10 DEF Inv, Copying, CopyDone
<1>12. QED
  BY <1>3, <1>11 DEF g

TreeCopied(w, src, dst) == CopyTable(w, src, dst, copy_l1_table)

LEMMA CopyLevel0 ==
  ASSUME PageTableAssumption, NEW R, NEW lvl, NEW w, IsWalker(w), w.status = "ok", NEW src, NEW dst,
         CopyReady(w.m, R, lvl, src, dst, 0)
  PROVE  CopyDone(w.m, R, lvl, src, dst, 0, TreeCopied(w, src, dst))
<1> DEFINE m == w.m
           one(d, i) == LET e == At(d.m, src, i)
                        IN  IF ~pte_valid(e) THEN d
                            ELSE IF e.kind = "leaf" THEN [d EXCEPT !.m.tables[dst][i] = e]
                            ELSE IF d.m.free = {} THEN [d EXCEPT !.status = "ENOMEM"]
                            ELSE copy_l1_table([d EXCEPT !.m = WithTableAt(d.m, dst, i)], e.addr, Lowest(d.m.free))
           turn(d, k) == IF d.status = "ok" THEN one(d, k - 1) ELSE d
           Inv == [k \in 0 .. Fan |-> {d \in Walkers : Copying(m, R, lvl, src, dst, 0, d, k)}]
           Right(f) == f = [k \in 0 .. Fan |-> IF k = 0 THEN w ELSE turn(f[k - 1], k)]
<1>0. Fan \in Nat \ {0}
  BY DEF PageTableAssumption
<1>1. w \in Inv[0]
  <2>1. Copying(m, R, lvl, src, dst, 0, w, 0)
    <3>1. Copied(m, w.m, src, dst, 0, 0)
      BY CopiedNone DEF Level
    <3>2. QED
      BY <3>1 DEF Copying, CopySafe, CopyReady, Index
  <2>2. w \in Walkers
    BY WalkerType DEF CopyReady, Good, Forest
  <2>3. QED
    BY <1>0, <2>1, <2>2
<1>2. ASSUME NEW k \in 1 .. Fan, NEW d \in Inv[k - 1]
      PROVE  turn(d, k) \in Inv[k]
  <2>1. k - 1 \in 0 .. Fan /\ k \in 0 .. Fan /\ k - 1 \in Index /\ (k - 1) + 1 = k
    BY <1>0 DEF Index
  <2>2. d \in Walkers /\ Copying(m, R, lvl, src, dst, 0, d, k - 1)
    BY <2>1
  <2> SUFFICES Copying(m, R, lvl, src, dst, 0, turn(d, k), k)
    <3>1. SUFFICES ASSUME Copying(m, R, lvl, src, dst, 0, turn(d, k), k) PROVE turn(d, k) \in Inv[k]
      OBVIOUS
    <3> HIDE DEF turn
    <3>2. turn(d, k) \in Walkers
      BY <3>1, WalkerType DEF Copying, CopySafe, Good, Forest
    <3>3. QED
      BY <2>1, <3>1, <3>2
  <2> HIDE DEF Inv
  <2>3. CASE d.status # "ok"
    BY <2>2, <2>3 DEF Copying
  <2>4. CASE d.status = "ok"
    <3> DEFINE i == k - 1
               e == At(d.m, src, i)
               c == [d EXCEPT !.m = WithTableAt(d.m, dst, i)]
               r == copy_l1_table(c, e.addr, Lowest(d.m.free))
    <3>1. IsWalker(c) /\ c.m = WithTableAt(d.m, dst, i) /\ c.status = "ok"
      <4>1. IsWalker(d)
        BY <2>2 DEF Copying, CopySafe
      <4>2. QED
        BY <2>4, <4>1 DEF IsWalker
    <3> HIDE DEF c
    <3>2. DeepCopied(R, d, src, dst, i, 1, r)
      <4>1. SUFFICES ASSUME NEW l, CopyReady(c.m, R, l, e.addr, Lowest(d.m.free), 1)
                     PROVE  CopyDone(c.m, R, l, e.addr, Lowest(d.m.free), 1, r)
        BY <3>1 DEF DeepCopied
      <4>2. QED
        BY <3>1, <4>1, CopyLevel1
    <3> HIDE DEF r
    <3> DEFINE o == EntryCopied(d, src, dst, i, r)
    <3>3. Copying(m, R, lvl, src, dst, 0, o, i + 1)
      <4>1. 0 \in 0 .. 2 /\ 1 = 0 + 1 /\ i \in Index /\ CopyReady(m, R, lvl, src, dst, 0)
        BY <2>1
      <4>2. Copying(m, R, lvl, src, dst, 0, d, i)
        BY <2>2
      <4> HIDE DEF m, i, o
      <4>3. QED
        BY <2>4, <3>2, <4>1, <4>2, CopyEntry DEF o
    <3>4. turn(d, k) = o
      BY <2>4, Zenon DEF r, c, EntryCopied
    <3> HIDE DEF turn, o
    <3>5. QED
      BY <2>1, <3>3, <3>4
  <2>5. QED
    BY <2>3, <2>4
<1>3. TreeCopied(w, src, dst) = (CHOOSE f : Right(f))[Fan]
  BY Zenon DEF TreeCopied, CopyTable, At
<1> HIDE DEF one, Inv
<1> DEFINE turning == [p \in (1 .. Fan) \X Walkers |-> turn(p[2], p[1])]
<1>4. \A k \in 1 .. Fan, d \in Walkers : turning[<<k, d>>] = turn(d, k)
  <2> HIDE DEF turn
  <2>1. QED
    OBVIOUS
<1>5. \A k \in 0 .. Fan : Inv[k] \subseteq Walkers
  BY DEF Inv
<1> HIDE DEF turn, turning
<1>6. \E f : Right(f)
  <2>0. PICK f : IsCourse(f, Fan, w, turning)
    BY <1>0, Course, Zenon
  <2>1. f = [k \in 0 .. Fan |-> f[k]] /\ f[0] = w /\ \A k \in 1 .. Fan : f[k] = turning[<<k, f[k - 1]>>]
    BY <2>0 DEF IsCourse
  <2>2. f[0] \in Inv[0]
    BY <1>1, <2>1
  <2>3. \A k \in 1 .. Fan : f[k - 1] \in Inv[k - 1] => f[k] = turn(f[k - 1], k) /\ f[k] \in Inv[k]
    <3>1. SUFFICES ASSUME NEW k \in 1 .. Fan, f[k - 1] \in Inv[k - 1]
                   PROVE  f[k] = turn(f[k - 1], k) /\ f[k] \in Inv[k]
      OBVIOUS
    <3>2. f[k - 1] \in Walkers
      BY <1>0, <1>5, <3>1
    <3>3. f[k] = turn(f[k - 1], k)
      BY <1>4, <2>1, <3>2
    <3>4. turn(f[k - 1], k) \in Inv[k]
      BY <1>2, <3>1
    <3>5. QED
      BY <3>3, <3>4
  <2>4. \A k \in 0 .. Fan : f[k] \in Inv[k]
    BY <1>0, <2>2, <2>3, Turns
  <2>5. ASSUME NEW k \in 0 .. Fan
        PROVE  f[k] = IF k = 0 THEN w ELSE turn(f[k - 1], k)
    <3>1. CASE k = 0
      BY <2>1, <3>1
    <3>2. CASE k # 0
      <4>1. k \in 1 .. Fan /\ k - 1 \in 0 .. Fan
        BY <1>0, <3>2
      <4>2. f[k - 1] \in Inv[k - 1]
        BY <2>4, <4>1
      <4>3. QED
        BY <2>3, <3>2, <4>1, <4>2
    <3>3. QED
      BY <3>1, <3>2
  <2>6. Right(f)
    <3> DEFINE o == [k \in 0 .. Fan |-> IF k = 0 THEN w ELSE turn(f[k - 1], k)]
    <3>1. DOMAIN f = 0 .. Fan /\ f = [k \in 0 .. Fan |-> f[k]]
      BY <2>1
    <3>2. f = o
      BY <2>5, <3>1
    <3>3. QED
      BY <3>2
  <2>7. QED
    BY <2>6
<1> DEFINE g == CHOOSE f : Right(f)
<1>7. Right(g)
  BY <1>6
<1> HIDE DEF g
<1>8. g[0] \in Inv[0]
  BY <1>0, <1>1, <1>7
<1>9. \A k \in 1 .. Fan : g[k - 1] \in Inv[k - 1] => g[k] \in Inv[k]
  BY <1>0, <1>2, <1>7
<1>10. \A k \in 0 .. Fan : g[k] \in Inv[k]
  <2> HIDE DEF Right
  <2>1. QED
    BY <1>0, <1>8, <1>9, Turns
<1>11. CopyDone(m, R, lvl, src, dst, 0, g[Fan])
  BY <1>0, <1>10 DEF Inv, Copying, CopyDone
<1>12. QED
  BY <1>3, <1>11 DEF g

-----------------------------------------------------------------------------
(* Trees.                                                                  *)

LEMMA BelowIs ==
  ASSUME NEW m, NEW S
  PROVE  \A t : t \in Below(m, S) <=> \E u \in S, i \in Index : LeadsOn(m, u, i) /\ At(m, u, i).addr = t
<1> DEFINE E == UNION {{m.tables[t][i] : i \in Index} : t \in S}
<1>1. \A e : e \in E <=> \E u \in S, i \in Index : e = At(m, u, i)
  BY DEF At
<1>2. Below(m, S) = {e.addr : e \in {f \in E : f.kind = "table"}}
  BY Zenon DEF Below
<1> HIDE DEF E
<1>3. ASSUME NEW t
      PROVE  t \in Below(m, S) <=> \E e \in E : e.kind = "table" /\ e.addr = t
  BY <1>2
<1>4. QED
  BY <1>1, <1>3 DEF LeadsOn

(* The tables of a tree lead to tables of the tree only, and only they do. *)
LEMMA TreeIs ==
  ASSUME NEW m, NEW R, NEW lvl, Forest(m, R, lvl), NEW root \in R
  PROVE  /\ Tree(m, root) \subseteq T(m) /\ R \cap Tree(m, root) = {root}
         /\ \A t \in T(m), i \in Index :
              LeadsOn(m, t, i) => (t \in Tree(m, root) <=> At(m, t, i).addr \in Tree(m, root))
<1> DEFINE l1 == Below(m, {root})
           l2 == Below(m, l1)
           l3 == Below(m, l2)
<1>1. root \in T(m) /\ lvl[root] = 0 /\ R \subseteq T(m) /\ \A t \in R : lvl[t] = 0
  BY DEF Forest
<1>2. /\ \A t : t \in l1 <=> \E i \in Index : LeadsOn(m, root, i) /\ At(m, root, i).addr = t
      /\ \A t : t \in l2 <=> \E u \in l1, i \in Index : LeadsOn(m, u, i) /\ At(m, u, i).addr = t
      /\ \A t : t \in l3 <=> \E u \in l2, i \in Index : LeadsOn(m, u, i) /\ At(m, u, i).addr = t
  <2>1. \A t : t \in l1 <=> \E u \in {root}, i \in Index : LeadsOn(m, u, i) /\ At(m, u, i).addr = t
    <3> DEFINE S == {root}
    <3> HIDE DEF S
    <3>1. \A t : t \in Below(m, S) <=> \E u \in S, i \in Index : LeadsOn(m, u, i) /\ At(m, u, i).addr = t
      BY BelowIs, Zenon
    <3>2. QED
      BY <3>1 DEF S
  <2>2. \A t : t \in l2 <=> \E u \in l1, i \in Index : LeadsOn(m, u, i) /\ At(m, u, i).addr = t
    BY BelowIs, Zenon
  <2>3. \A t : t \in l3 <=> \E u \in l2, i \in Index : LeadsOn(m, u, i) /\ At(m, u, i).addr = t
    BY BelowIs, Zenon
  <2> HIDE DEF l1, l2, l3
  <2>4. QED
    BY <2>1, <2>2, <2>3
<1>3. \A t \in T(m), i \in Index : LeadsOn(m, t, i) =>
        At(m, t, i).addr \in T(m) /\ lvl[At(m, t, i).addr] = lvl[t] + 1 /\ lvl[t] < 3
  BY ForestFacts
<1>4. \A t, u \in T(m), i, j \in Index :
       LeadsOn(m, t, i) /\ LeadsOn(m, u, j) /\ At(m, t, i).addr = At(m, u, j).addr => t = u
  BY DEF Forest
<1>5. Tree(m, root) = {root} \cup l1 \cup l2 \cup l3
  BY DEF Tree
<1> HIDE DEF l1, l2, l3
<1>6. \A t \in l1 : t \in T(m) /\ lvl[t] = 1
  BY <1>1, <1>2, <1>3
<1>7. \A t \in l2 : t \in T(m) /\ lvl[t] = 2
  BY <1>2, <1>3, <1>6
<1>8. \A t \in l3 : t \in T(m) /\ lvl[t] = 3
  BY <1>2, <1>3, <1>7
<1>9. Tree(m, root) \subseteq T(m) /\ R \cap Tree(m, root) = {root}
  BY <1>1, <1>5, <1>6, <1>7, <1>8
<1>10. ASSUME NEW t \in T(m), NEW i \in Index, LeadsOn(m, t, i), t \in Tree(m, root)
       PROVE  At(m, t, i).addr \in Tree(m, root)
  BY <1>2, <1>3, <1>5, <1>8, <1>10
<1>11. ASSUME NEW t \in T(m), NEW i \in Index, LeadsOn(m, t, i), At(m, t, i).addr \in Tree(m, root)
       PROVE  t \in Tree(m, root)
  <2> DEFINE a == At(m, t, i).addr
  <2>1. lvl[a] = lvl[t] + 1 /\ lvl[t] \in 0 .. 3
    BY <1>3, <1>11, ForestFacts
  <2>2. a # root
    BY <1>1, <2>1
  <2>3. a \in l1 => t = root
    BY <1>1, <1>2, <1>4, <1>11
  <2>4. a \in l2 => t \in l1
    BY <1>2, <1>4, <1>6, <1>11
  <2>5. a \in l3 => t \in l2
    BY <1>2, <1>4, <1>7, <1>11
  <2>6. QED
    BY <1>5, <1>11, <2>2, <2>3, <2>4, <2>5
<1>12. QED
  BY <1>9, <1>10, <1>11

(* What is so once the tree of a root is given up.                         *)
Given(m, R, root, n) ==
  /\ \E l : Good(n, R \ {root}, l)
  /\ T(n) \subseteq T(m) /\ \A t \in T(n) : n.tables[t] = m.tables[t]
  /\ \A t \in T(m) : t \notin Tree(m, root) => t \in T(n)

LEMMA ReleasedIs ==
  ASSUME NEW m, NEW R, NEW lvl, Good(m, R, lvl), NEW root \in R
  PROVE  Given(m, R, root, Released(m, root))
<1> DEFINE S == Tree(m, root)
<1>1. Forest(m, R, lvl) /\ Memory(m)
  BY DEF Good, Forest
<1>2. /\ S \in SUBSET T(m) /\ R \cap S = {root}
      /\ \A t \in T(m), i \in Index : LeadsOn(m, t, i) => (t \in S <=> At(m, t, i).addr \in S)
  BY <1>1, TreeIs
<1>3. Released(m, root) = Without(m, S)
  BY DEF Released, Without, T
<1> HIDE DEF S
<1>4. Good(Without(m, S), R \ S, [t \in T(m) \ S |-> lvl[t]])
  BY <1>2, GoodWithout
<1>5. R \ S = R \ {root}
  BY <1>2
<1>6. T(Without(m, S)) = T(m) \ S /\ \A u \in T(m) \ S : Without(m, S).tables[u] = m.tables[u]
  BY <1>1, <1>2, WithoutIs
<1>7. QED
  BY <1>3, <1>4, <1>5, <1>6 DEF Given, S

-----------------------------------------------------------------------------
(* Every call keeps the forest, and empties no table.                      *)

Kind(m, R, n, S) == (\E l : Good(n, S, l)) /\ NoneEmptied(m, n, R)

LEMMA KindAdds ==
  ASSUME NEW m, NEW R, NEW r, Adds(m, R, r)
  PROVE  Kind(m, R, r.m, R)
<1>1. NoneEmptied(m, r.m, R)
  BY DEF Adds, Kept, NoneEmptied, is_pt_empty, At
<1>2. QED
  BY <1>1 DEF Adds, Kind

LEMMA KindSame ==
  ASSUME NEW m, NEW R, NEW lvl, Good(m, R, lvl), NEW S, NEW n, NEW l, Good(n, S, l),
         \A t \in T(m) : t \in T(n) => n.tables[t] = m.tables[t]
  PROVE  Kind(m, R, n, S)
BY DEF Kind, NoneEmptied, is_pt_empty

(* A call that walked astray changes nothing.                              *)
LEMMA KindFinish ==
  ASSUME NEW lvl, Good(mem, roots, lvl), NEW w, Kind(mem, roots, w.m, roots), Finish(w)
  PROVE  Kind(mem, roots, mem', roots')
<1>1. CASE mem' = mem /\ roots' = roots
  BY <1>1, KindSame
<1>2. CASE mem' = w.m /\ roots' = roots
  BY <1>2
<1>3. QED
  BY <1>1, <1>2 DEF Finish

LEMMA KindAlloc ==
  ASSUME NEW lvl, Good(mem, roots, lvl), pt_alloc
  PROVE  Kind(mem, roots, mem', roots')
<1>1. CASE mem' = mem /\ roots' = roots
  BY <1>1, KindSame
<1>2. CASE mem.free # {} /\ mem' = WithTable(mem) /\ roots' = roots \cup {Lowest(mem.free)}
  <2> DEFINE t == Lowest(mem.free)
             l == [x \in T(mem) \cup {t} |-> IF x = t THEN 0 ELSE lvl[x]]
  <2>1. Good(WithTable(mem), roots \cup {t}, l)
    BY <1>2, ForestRoot
  <2>2. \A u \in T(mem) : WithTable(mem).tables[u] = mem.tables[u]
    BY <1>2, WithTableIs DEF Good, Forest
  <2> HIDE DEF l
  <2>3. QED
    BY <1>2, <2>1, <2>2, KindSame
<1>3. QED
  BY <1>1, <1>2 DEF pt_alloc, vars

LEMMA KindFree ==
  ASSUME NEW lvl, Good(mem, roots, lvl), NEW root \in roots, pt_free(root)
  PROVE  Kind(mem, roots, mem', roots')
<1>1. Given(mem, roots, root, mem') /\ roots' = roots \ {root}
  BY ReleasedIs DEF pt_free
<1>2. QED
  BY <1>1, KindSame DEF Given

LEMMA KindCopy ==
  ASSUME PageTableAssumption, NEW lvl, Good(mem, roots, lvl), NEW src \in roots, pt_copy(src)
  PROVE  Kind(mem, roots, mem', roots')
<1> DEFINE dst == Lowest(mem.free)
           m == WithTable(mem)
           R == roots \cup {dst}
           l == [x \in T(mem) \cup {dst} |-> IF x = dst THEN 0 ELSE lvl[x]]
           w == TreeCopied(Walker(m, dst), src, dst)
<1>1. \/ mem' = mem /\ roots' = roots
      \/ mem.free # {} /\ mem' = w.m /\ roots' = R
      \/ mem.free # {} /\ mem' = Released(w.m, dst) /\ roots' = roots
  BY Zenon DEF pt_copy, vars, TreeCopied, Unwound
<1>2. CASE mem' = mem /\ roots' = roots
  BY <1>2, KindSame
<1>3. CASE mem.free # {}
  <2>1. /\ dst \in Frame \ T(mem) /\ T(m) = T(mem) \cup {dst}
        /\ \A j \in Index : At(m, dst, j) = Zero
        /\ \A u \in T(mem) : m.tables[u] = mem.tables[u]
    BY <1>3, WithTableIs DEF Good, Forest
  <2>2. Good(m, R, l)
    BY <1>3, ForestRoot
  <2>3. src \in T(mem) /\ lvl[src] = 0 /\ roots \subseteq T(mem)
    BY DEF Good, Forest
  <2>4. l[src] = 0 /\ l[dst] = 0
    BY <2>1, <2>3
  <2> HIDE DEF l, m, R
  <2>5. CopyReady(m, R, l, src, dst, 0)
    BY <2>1, <2>2, <2>3, <2>4 DEF CopyReady
  <2>6. IsWalker(Walker(m, dst)) /\ Walker(m, dst).status = "ok" /\ Walker(m, dst).m = m
    BY <2>1 DEF IsWalker, Walker, Status, Frame
  <2>7. CopyDone(m, R, l, src, dst, 0, w)
    <3> DEFINE a == Walker(m, dst)
    <3>1. IsWalker(a) /\ a.status = "ok" /\ a.m = m /\ CopyReady(a.m, R, l, src, dst, 0)
      BY <2>5, <2>6
    <3> HIDE DEF a, dst
    <3>2. CopyDone(a.m, R, l, src, dst, 0, TreeCopied(a, src, dst))
      BY <3>1, CopyLevel0
    <3>3. QED
      BY <3>1, <3>2 DEF a
  <2> HIDE DEF dst, w
  <2>8. PICK g : Good(w.m, R, g)
    BY <2>7 DEF CopyDone, CopySafe
  <2>9. \A u \in T(mem) : u \in T(w.m) /\ w.m.tables[u] = mem.tables[u]
    BY <2>1, <2>7 DEF CopyDone, CopySafe
  <2>10. CASE mem' = w.m /\ roots' = R
    BY <2>8, <2>9, <2>10, KindSame
  <2>11. CASE mem' = Released(w.m, dst) /\ roots' = roots
    <3>1. dst \in R /\ R \ {dst} = roots
      BY <2>1, <2>3 DEF R
    <3>2. Given(w.m, R, dst, mem')
      BY <2>8, <2>11, <3>1, ReleasedIs
    <3>3. PICK h : Good(mem', roots, h)
      BY <3>1, <3>2 DEF Given
    <3>4. \A u \in T(mem) : u \in T(mem') => mem'.tables[u] = mem.tables[u]
      BY <2>9, <3>2 DEF Given
    <3>5. QED
      BY <2>11, <3>3, <3>4, KindSame
  <2>12. QED
    BY <1>1, <1>2, <2>10, <2>11 DEF dst, w, R, m
<1>4. QED
  BY <1>1, <1>2, <1>3

(* Of pages a client names properly, no entry leads to a table.            *)
LEMMA ProperNotTable ==
  ASSUME PageTableAssumption, NEW lvl, Good(mem, roots, lvl), NEW root \in roots,
         NEW v \in Nat, NEW count \in Nat, NEW size \in MapSizes \cup ProtectSizes, Proper(root, v, count, size)
  PROVE  \A i \in 0 .. (count - 1) : Mixed \/ NotTable(mem, root, v + i * size, size)
<1> SUFFICES ASSUME NEW i \in 0 .. (count - 1), ~Mixed
             PROVE  NotTable(mem, root, v + i * size, size)
  OBVIOUS
<1> DEFINE p == v + i * size
           level == LeafLevel(size)
           w == DownTo(mem, root, p, level, "find")
<1>1. level \in 0 .. 3 /\ size \in Nat
  BY LeafLevelOf
<1>2. p \in Nat
  <2>1. i \in Nat
    OBVIOUS
  <2>2. i * size \in Nat
    BY <1>1, <2>1, ProductType
  <2>3. QED
    BY <2>2
<1>3. ~OverTable(root, p, size)
  BY DEF Proper
<1> HIDE DEF p
<1>4. Walked(mem, roots, lvl, w, level, "find")
  <2> HIDE DEF level
  <2>1. QED
    BY <1>1, <1>2, WalkIs
<1>5. w.m = mem
  BY <1>4 DEF Walked
<1>6. w.status = "ok" => Entry(w, level, p).kind # "table"
  BY <1>3 DEF OverTable
<1>7. w.status = "ok" => ~LeadsOn(mem, w.at, extract_index(level, p))
  <2> HIDE DEF w, level
  <2>1. QED
    BY <1>5, <1>6 DEF Entry, LeadsOn, At
<1>8. NotTable(mem, root, p, size)
  BY <1>7 DEF NotTable
<1>9. QED
  BY <1>8 DEF p

LEMMA KindMap ==
  ASSUME PageTableAssumption, NEW lvl, Good(mem, roots, lvl), NEW root \in roots, NEW v \in Nat, NEW phys \in Nat,
         NEW count \in Nat, NEW size \in MapSizes, NEW f \in Flags, pt_map(root, v, phys, count, size, f)
  PROVE  Kind(mem, roots, mem', roots')
<1> DEFINE w == Mapped(mem, root, v, phys, count, size, f)
<1>1. \/ mem' = mem /\ roots' = roots
      \/ Finish(w)
  BY Zenon DEF pt_map, Mapped, vars
<1>2. Adds(mem, roots, w)
  BY MapPages
<1> HIDE DEF w
<1>3. CASE mem' = mem /\ roots' = roots
  BY <1>3, KindSame
<1>4. CASE Finish(w)
  BY <1>2, <1>4, KindAdds, KindFinish
<1>5. QED
  BY <1>1, <1>3, <1>4

LEMMA KindLoses ==
  ASSUME NEW m, NEW R, NEW r, Loses(m, R, r)
  PROVE  Kind(m, R, r.m, R)
BY DEF Loses, Kind

LEMMA KindUnmap ==
  ASSUME PageTableAssumption, NEW lvl, Good(mem, roots, lvl), NEW root \in roots, NEW v \in Nat,
         NEW count \in Nat, NEW size \in MapSizes, Proper(root, v, count, size), pt_unmap(root, v, count, size)
  PROVE  Kind(mem, roots, mem', roots')
<1> DEFINE w == Unmapped(mem, root, v, count, size)
<1>1. Finish(w)
  BY Zenon DEF pt_unmap, Unmapped
<1>2. \A i \in 0 .. (count - 1) : Mixed \/ NotTable(mem, root, v + i * size, size)
  BY ProperNotTable
<1>3. Loses(mem, roots, w)
  BY <1>2, UnmapPages
<1> HIDE DEF w
<1>4. QED
  BY <1>1, <1>3, KindLoses, KindFinish

LEMMA KindProtect ==
  ASSUME PageTableAssumption, NEW lvl, Good(mem, roots, lvl), NEW root \in roots, NEW v \in Nat,
         NEW count \in Nat, NEW size \in ProtectSizes, NEW f \in Flags,
         Proper(root, v, count, size), pt_protect(root, v, count, size, f)
  PROVE  Kind(mem, roots, mem', roots')
<1> DEFINE w == Guarded(mem, root, v, count, size, f)
<1>1. Finish(w)
  BY Zenon DEF pt_protect, Guarded
<1>2. \A i \in 0 .. (count - 1) : Mixed \/ NotTable(mem, root, v + i * size, size)
  BY ProperNotTable
<1>3. Loses(mem, roots, w)
  BY <1>2, ProtectPages
<1> HIDE DEF w
<1>4. QED
  BY <1>1, <1>3, KindLoses, KindFinish

LEMMA KindNext ==
  ASSUME PageTableAssumption, NEW lvl, Good(mem, roots, lvl), [Next]_vars
  PROVE  Kind(mem, roots, mem', roots')
<1>1. CASE UNCHANGED vars
  BY <1>1, KindSame DEF vars
<1>2. CASE Call
  <2>1. Virts \subseteq Nat /\ Physes \subseteq Nat /\ Counts \subseteq Nat
    BY DEF PageTableAssumption
  <2>2. CASE pt_alloc
    BY <2>2, KindAlloc
  <2>3. ASSUME NEW root \in roots, pt_free(root) PROVE Kind(mem, roots, mem', roots')
    BY <2>3, KindFree
  <2>4. ASSUME NEW root \in roots, pt_copy(root) PROVE Kind(mem, roots, mem', roots')
    BY <2>4, KindCopy
  <2>5. ASSUME NEW root \in roots, NEW v \in Virts, NEW phys \in Physes, NEW count \in Counts,
               NEW size \in MapSizes, NEW f \in Flags, pt_map(root, v, phys, count, size, f)
        PROVE  Kind(mem, roots, mem', roots')
    BY <2>1, <2>5, KindMap
  <2>6. ASSUME NEW root \in roots, NEW v \in Virts, NEW count \in Counts, NEW size \in MapSizes,
               Proper(root, v, count, size), pt_unmap(root, v, count, size)
        PROVE  Kind(mem, roots, mem', roots')
    BY <2>1, <2>6, KindUnmap
  <2>7. ASSUME NEW root \in roots, NEW v \in Virts, NEW count \in Counts, NEW size \in ProtectSizes,
               NEW f \in Flags, Proper(root, v, count, size), pt_protect(root, v, count, size, f)
        PROVE  Kind(mem, roots, mem', roots')
    BY <2>1, <2>7, KindProtect
  <2>8. QED
    BY <1>2, <2>2, <2>3, <2>4, <2>5, <2>6, <2>7, Zenon DEF Call
<1>3. QED
  BY <1>1, <1>2 DEF Next

LEMMA StrayedNext ==
  ASSUME strayed \in BOOLEAN, [Next]_vars
  PROVE  strayed' \in BOOLEAN
<1>1. \A w : Finish(w) => strayed' \in BOOLEAN
  BY DEF Finish
<1> DEFINE same == strayed' \in BOOLEAN
<1>2. UNCHANGED vars => same
  BY DEF vars
<1>3. pt_alloc => same
  BY <1>2 DEF pt_alloc
<1>4. \A root : pt_free(root) => same
  BY DEF pt_free
<1>5. \A src : pt_copy(src) => same
  <2>1. \A src : pt_copy(src) => UNCHANGED vars \/ UNCHANGED strayed
    BY Zenon DEF pt_copy
  <2>2. QED
    BY <1>2, <2>1
<1>6. \A root, v, phys, count, size, f : pt_map(root, v, phys, count, size, f) => same
  <2>1. \A root, v, phys, count, size, f : pt_map(root, v, phys, count, size, f) => UNCHANGED vars \/ \E w : Finish(w)
    BY Zenon DEF pt_map
  <2>2. QED
    BY <1>1, <1>2, <2>1
<1>7. \A root, v, count, size : pt_unmap(root, v, count, size) => same
  <2>1. \A root, v, count, size : pt_unmap(root, v, count, size) => \E w : Finish(w)
    BY Zenon DEF pt_unmap
  <2>2. QED
    BY <1>1, <2>1
<1>8. \A root, v, count, size, f : pt_protect(root, v, count, size, f) => same
  <2>1. \A root, v, count, size, f : pt_protect(root, v, count, size, f) => \E w : Finish(w)
    BY Zenon DEF pt_protect
  <2>2. QED
    BY <1>1, <2>1
<1> HIDE DEF same
<1>9. Call => same
  BY <1>3, <1>4, <1>5, <1>6, <1>7, <1>8, Zenon DEF Call
<1>10. QED
  BY <1>2, <1>9, Zenon DEF Next, same

LEMMA Invariant ==
  ASSUME PageTableAssumption
  PROVE  Spec => []IInv
<1>1. Init => IInv
  <2> SUFFICES ASSUME Init PROVE IInv
    OBVIOUS
  <2> DEFINE lvl == [t \in {} |-> 0]
  <2>1. mem = [tables |-> [t \in {} |-> EmptyTable], free |-> Frame]
    BY DEF Init
  <2>2. T(mem) = {} /\ mem.free = Frame /\ mem.tables = [t \in {} |-> EmptyTable]
    BY <2>1 DEF T
  <2>3. mem = [tables |-> mem.tables, free |-> mem.free]
    BY <2>1
  <2>4. mem.tables \in [T(mem) -> Content]
    BY <2>2
  <2>5. Memory(mem)
    BY <2>2, <2>3, <2>4 DEF Memory
  <2>6. lvl \in [T(mem) -> Level]
    BY <2>2
  <2> HIDE DEF lvl
  <2>7. Good(mem, {}, lvl)
    BY <2>2, <2>5, <2>6 DEF Good, Forest, Owned
  <2>8. QED
    BY <2>7 DEF Init, IInv
<1>2. IInv /\ [Next]_vars => IInv'
  <2> SUFFICES ASSUME IInv, [Next]_vars PROVE IInv'
    OBVIOUS
  <2>1. strayed' \in BOOLEAN
    BY StrayedNext DEF IInv
  <2>2. Kind(mem, roots, mem', roots')
    BY KindNext DEF IInv
  <2>3. \E l : Good(mem', roots', l)
    BY <2>2 DEF Kind
  <2>4. QED
    BY <2>1, <2>3 DEF IInv
<1>3. QED
  BY <1>1, <1>2, PTL DEF Spec

(* Of every behaviour: a table that loses its last entry goes with it,     *)
(* whatever sizes of page are mapped, unmapped and protected, and whatever *)
(* else pt_copy and pt_free do.                                            *)
THEOREM Emptied ==
  ASSUME PageTableAssumption
  PROVE  Spec => NoTableEmptied
<1> DEFINE A == \A t \in (DOMAIN mem.tables) \ roots :
                  ~is_pt_empty(mem, t) => t \notin DOMAIN mem'.tables \/ ~is_pt_empty(mem', t)
<1>1. IInv /\ [Next]_vars => [A]_vars
  <2> SUFFICES ASSUME IInv, [Next]_vars PROVE A
    OBVIOUS
  <2>1. Kind(mem, roots, mem', roots')
    BY KindNext DEF IInv
  <2>2. QED
    BY <2>1 DEF Kind, NoneEmptied, T
<1>2. Spec => []IInv
  BY Invariant
<1> HIDE DEF A
<1>3. Spec => [][A]_vars
  BY <1>1, <1>2, PTL DEF Spec
<1>4. QED
  BY <1>3 DEF A, NoTableEmptied

-----------------------------------------------------------------------------
(* What the forest says of the trees.                                      *)

LEMMA ParentsNone ==
  ASSUME NEW lvl, Forest(mem, roots, lvl), NEW t \in roots
  PROVE  Cardinality(Parents(t)) = 0
<1>1. t \in T(mem) /\ lvl[t] = 0 /\ t \in Nat
  <2>1. t \in T(mem) /\ t \in Nat
    BY ForestFacts
  <2>2. QED
    BY <2>1 DEF Forest
<1>2. ASSUME NEW u \in T(mem), NEW i \in Index, At(mem, u, i) = Table(t) PROVE FALSE
  <2>1. LeadsOn(mem, u, i) /\ At(mem, u, i).addr = t
    BY <1>1, <1>2, LeadsTo
  <2>2. lvl[t] = lvl[u] + 1 /\ lvl[u] \in 0 .. 3
    BY <2>1, ForestFacts
  <2>3. QED
    BY <1>1, <2>2
<1>3. Parents(t) = {}
  <2>1. \A p \in T(mem) \X Index : At(mem, p[1], p[2]) # Table(t)
    BY <1>2
  <2>2. QED
    BY <2>1 DEF Parents, At, T
<1>4. QED
  BY <1>3, FS_EmptySet

LEMMA ParentsOne ==
  ASSUME NEW lvl, Forest(mem, roots, lvl), NEW t \in Nat,
         NEW u \in T(mem), NEW i \in Index, At(mem, u, i) = Table(t)
  PROVE  t \in T(mem) /\ t \notin roots /\ Cardinality(Parents(t)) = 1
<1>1. LeadsOn(mem, u, i) /\ At(mem, u, i).addr = t
  BY LeadsTo
<1>2. t \in T(mem) /\ lvl[t] = lvl[u] + 1 /\ lvl[u] \in 0 .. 3
  BY <1>1, ForestFacts
<1>3. t \notin roots
  BY <1>2 DEF Forest
<1>4. ASSUME NEW x \in T(mem), NEW j \in Index, At(mem, x, j) = Table(t) PROVE x = u /\ j = i
  <2>1. LeadsOn(mem, x, j) /\ At(mem, x, j).addr = t
    BY <1>4, LeadsTo
  <2>2. QED
    BY <1>1, <2>1 DEF Forest
<1>5. Parents(t) = {<<u, i>>}
  <2>1. Parents(t) = {p \in T(mem) \X Index : At(mem, p[1], p[2]) = Table(t)}
    BY DEF Parents, At, T
  <2>2. \A p \in T(mem) \X Index : At(mem, p[1], p[2]) = Table(t) <=> p = <<u, i>>
    BY <1>4
  <2>3. <<u, i>> \in T(mem) \X Index
    OBVIOUS
  <2>4. QED
    BY <2>1, <2>2, <2>3
<1>6. QED
  BY <1>2, <1>3, <1>5, FS_Singleton

LEMMA InTree ==
  ASSUME NEW m, NEW R, NEW lvl, Forest(m, R, lvl), NEW root \in R, NEW t \in Tree(m, root)
  PROVE  t \in R \/ \E u \in T(m), i \in Index : At(m, u, i) = Table(t)
<1>1. ASSUME NEW S, S \subseteq T(m), t \in Below(m, S)
      PROVE  \E u \in T(m), i \in Index : At(m, u, i) = Table(t)
  <2>1. PICK u \in S, i \in Index : LeadsOn(m, u, i) /\ At(m, u, i).addr = t
    BY <1>1, BelowIs
  <2>2. QED
    BY <1>1, <2>1, ForestFacts
<1>2. Tree(m, root) \subseteq T(m)
  BY TreeIs
<1> DEFINE l1 == Below(m, {root})
           l2 == Below(m, l1)
           l3 == Below(m, l2)
<1>3. Tree(m, root) = {root} \cup l1 \cup l2 \cup l3
  BY DEF Tree
<1>4. {root} \subseteq T(m) /\ l1 \subseteq T(m) /\ l2 \subseteq T(m)
  BY <1>2, <1>3
<1>5. QED
  <2>1. t \in l1 => \E u \in T(m), i \in Index : At(m, u, i) = Table(t)
    BY <1>1, <1>4
  <2>2. t \in l2 => \E u \in T(m), i \in Index : At(m, u, i) = Table(t)
    BY <1>1, <1>4
  <2>3. t \in l3 => \E u \in T(m), i \in Index : At(m, u, i) = Table(t)
    BY <1>1, <1>4
  <2> HIDE DEF l1, l2, l3
  <2>4. QED
    BY <1>3, <2>1, <2>2, <2>3

(* A table that has no tree has no owner.                                  *)
LEMMA TreesCover ==
  ASSUME NEW m, NEW R, NEW lvl, Forest(m, R, lvl), Owned(m, lvl)
  PROVE  T(m) = UNION {Tree(m, r) : r \in R}
<1> DEFINE In(t) == \E r \in R : t \in Tree(m, r)
<1>1. \A r \in R : Tree(m, r) \subseteq T(m)
  BY TreeIs
<1>2. \A t \in T(m) : lvl[t] \in 0 .. 3
  BY ForestFacts
<1>3. \A t \in T(m) : lvl[t] = 0 => In(t)
  BY DEF Forest, Tree
<1>4. ASSUME NEW t \in T(m), lvl[t] > 0
      PROVE  \E u \in T(m) : lvl[u] = lvl[t] - 1 /\ (In(u) => In(t))
  <2>1. PICK u \in T(m), i \in Index : At(m, u, i) = Table(t)
    BY <1>4 DEF Owned
  <2>2. LeadsOn(m, u, i) /\ At(m, u, i).addr = t
    BY <2>1, LeadsTo, ForestFacts
  <2>3. lvl[u] = lvl[t] - 1
    BY <1>2, <2>2, ForestFacts
  <2>4. In(u) => In(t)
    BY <2>2, TreeIs
  <2>5. QED
    BY <2>3, <2>4
<1> HIDE DEF In
<1>5. \A t \in T(m) : lvl[t] = 1 => In(t)
  BY <1>3, <1>4
<1>6. \A t \in T(m) : lvl[t] = 2 => In(t)
  BY <1>4, <1>5
<1>7. \A t \in T(m) : lvl[t] = 3 => In(t)
  BY <1>4, <1>6
<1>8. \A t \in T(m) : In(t)
  BY <1>2, <1>3, <1>5, <1>6, <1>7
<1>9. QED
  BY <1>1, <1>8 DEF In

(* Of every behaviour, whether or not clients mix granules: no table that  *)
(* an entry leads to is free, and no two entries lead to the same one, so  *)
(* the trees share nothing.  If clients keep granules apart, every frame   *)
(* is free or in a tree: pruning, freeing and a copy that runs out of      *)
(* frames halfway lose none.                                               *)
THEOREM Accounted ==
  ASSUME PageTableAssumption
  PROVE  Spec => []TablesAccounted
<1>1. ASSUME IInv PROVE TablesAccounted
  <2>1. PICK lvl : Good(mem, roots, lvl)
    BY <1>1 DEF IInv
  <2>2. Forest(mem, roots, lvl) /\ Memory(mem) /\ (~Mixed => Owned(mem, lvl))
    BY <2>1 DEF Good, Forest
  <2>3. TypeOK
    BY <1>1, <2>2, ForestFacts DEF TypeOK, IInv, Memory, T, Content, EntryType
  <2>4. TablesExclusive
    <3>1. SUFFICES ASSUME NEW r \in roots, NEW t \in Tree(mem, r)
                   PROVE  t \notin mem.free /\ Cardinality(Parents(t)) = IF t \in roots THEN 0 ELSE 1
      BY DEF TablesExclusive
    <3>2. t \in T(mem) /\ t \in Nat /\ t \notin mem.free
      BY <2>2, TreeIs, ForestFacts DEF Memory
    <3>3. CASE t \in roots
      BY <2>2, <3>2, <3>3, ParentsNone
    <3>4. CASE t \notin roots
      <4>1. PICK u \in T(mem), i \in Index : At(mem, u, i) = Table(t)
        BY <2>2, <3>4, InTree
      <4>2. QED
        BY <2>2, <3>2, <3>4, <4>1, ParentsOne
    <3>5. QED
      BY <3>3, <3>4
  <2>5. ASSUME ~Mixed PROVE NoTableLost
    <3>1. Owned(mem, lvl)
      BY <2>2, <2>5
    <3>2. ASSUME NEW t \in T(mem) PROVE Cardinality(Parents(t)) = IF t \in roots THEN 0 ELSE 1
      <4>1. CASE t \in roots
        BY <2>2, <4>1, ParentsNone
      <4>2. CASE t \notin roots
        <5>1. lvl[t] > 0 /\ t \in Nat
          <6>1. t \in Nat /\ lvl[t] \in 0 .. 3
            BY <2>2, ForestFacts
          <6>2. lvl[t] # 0
            BY <2>2, <4>2 DEF Forest
          <6>3. QED
            BY <6>1, <6>2
        <5>2. PICK u \in T(mem), i \in Index : At(mem, u, i) = Table(t)
          BY <3>1, <5>1 DEF Owned
        <5>3. QED
          BY <2>2, <4>2, <5>1, <5>2, ParentsOne
      <4>3. QED
        BY <4>1, <4>2
    <3>3. T(mem) = UNION {Tree(mem, r) : r \in roots}
      BY <2>2, <3>1, TreesCover
    <3>4. mem.free = Frame \ T(mem)
      BY <2>2 DEF Memory
    <3>5. QED
      BY <3>2, <3>3, <3>4 DEF NoTableLost, T
  <2>6. QED
    BY <2>3, <2>4, <2>5 DEF TablesAccounted
<1>2. Spec => []IInv
  BY Invariant
<1>3. QED
  BY <1>1, <1>2, PTL

-----------------------------------------------------------------------------
(* What the maps of the roots are in a memory.                             *)

(* pt_translate in any memory, which finds what a walk finds.              *)
Translated(m, root, v) ==
  LET step(at, level) ==
        {IF a.e.kind = "table" THEN [e |-> m.tables[a.e.addr][extract_index(level, v)], level |-> level]
         ELSE a : a \in at}
      reach == step(step(step({[e |-> m.tables[root][extract_index(0, v)], level |-> 0]}, 1), 2), 3)
  IN  {[frame |-> a.e.addr + (v % Span(a.level)), flags |-> a.e.flags] : a \in {b \in reach : b.e.kind = "leaf"}}

Map(m, r) == [p \in {q \in Page : Seen(m, r, 0, q) # {}} |-> CHOOSE x \in Seen(m, r, 0, p) : TRUE]
MapsOf(m, R) == [r \in R |-> Map(m, r)]

(* One step of the translation from the entry of a level to the next one.  *)
Stepped(m, v, a, level) ==
  IF a.e.kind = "table" THEN [e |-> m.tables[a.e.addr][extract_index(level, v)], level |-> level] ELSE a

LEMMA TranslatedSeen ==
  ASSUME NEW m, NEW root, NEW v
  PROVE  Translated(m, root, v) = Seen(m, root, 0, v)
<1> DEFINE a0 == [e |-> At(m, root, extract_index(0, v)), level |-> 0]
           a1 == Stepped(m, v, a0, 1)
           a2 == Stepped(m, v, a1, 2)
           a3 == Stepped(m, v, a2, 3)
           Step(at, level) == {IF a.e.kind = "table" THEN [e |-> m.tables[a.e.addr][extract_index(level, v)], level |-> level]
                               ELSE a : a \in at}
           Final(at) == {[frame |-> a.e.addr + (v % Span(a.level)), flags |-> a.e.flags] : a \in {b \in at : b.e.kind = "leaf"}}
<1>1. ASSUME NEW a, NEW level PROVE Step({a}, level) = {Stepped(m, v, a, level)}
  BY DEF Stepped
<1>2. Translated(m, root, v) = Final(Step(Step(Step({a0}, 1), 2), 3))
  BY DEF Translated, At
<1>3. ASSUME NEW a
      PROVE  Final({a}) = IF a.e.kind = "leaf" THEN {[frame |-> a.e.addr + (v % Span(a.level)), flags |-> a.e.flags]} ELSE {}
  OBVIOUS
<1> HIDE DEF Step, Final
<1>4. Translated(m, root, v) = Final({a3})
  <2> HIDE DEF a0
  <2>1. Step({a0}, 1) = {a1}
    BY <1>1
  <2> HIDE DEF a1
  <2>2. Step({a1}, 2) = {a2}
    BY <1>1
  <2> HIDE DEF a2
  <2>3. Step({a2}, 3) = {a3}
    BY <1>1
  <2>4. QED
    BY <1>2, <2>1, <2>2, <2>3
<1>5. Translated(m, root, v) = Here(a3.e, a3.level, v)
  <2> HIDE DEF a3
  <2>1. QED
    BY <1>3, <1>4 DEF Here
<1>6. Here(a3.e, a3.level, v) = Seen(m, root, 0, v)
  <2> DEFINE e0 == At(m, root, extract_index(0, v))
             e1 == At(m, e0.addr, extract_index(1, v))
             e2 == At(m, e1.addr, extract_index(2, v))
             e3 == At(m, e2.addr, extract_index(3, v))
             Rest1 == IF e1.kind = "table" THEN (IF e2.kind = "table" THEN Here(e3, 3, v) ELSE Here(e2, 2, v)) ELSE Here(e1, 1, v)
  <2>1. Seen(m, root, 0, v) = IF e0.kind = "table" THEN Rest1 ELSE Here(e0, 0, v)
    <3>1. Seen(m, root, 0, v) = Seen0(m, root, v)
      BY DEF Seen
    <3>2. Seen0(m, root, v) = IF e0.kind = "table" THEN Seen1(m, e0.addr, v) ELSE Here(e0, 0, v)
      BY DEF Seen0
    <3>3. Seen1(m, e0.addr, v) = IF e1.kind = "table" THEN Seen2(m, e1.addr, v) ELSE Here(e1, 1, v)
      BY DEF Seen1
    <3>4. Seen2(m, e1.addr, v) = IF e2.kind = "table" THEN Seen3(m, e2.addr, v) ELSE Here(e2, 2, v)
      BY DEF Seen2
    <3>5. Seen3(m, e2.addr, v) = Here(e3, 3, v)
      BY DEF Seen3
    <3> HIDE DEF e0, e1, e2, e3
    <3>6. QED
      BY <3>1, <3>2, <3>3, <3>4, <3>5
  <2>2. a0 = [e |-> e0, level |-> 0]
    OBVIOUS
  <2>3. a1 = IF e0.kind = "table" THEN [e |-> e1, level |-> 1] ELSE a0
    <3> HIDE DEF e0
    <3>1. QED
      BY <2>2 DEF Stepped, At
  <2> HIDE DEF a1, e0
  <2>4. e0.kind = "table" => a2 = IF e1.kind = "table" THEN [e |-> e2, level |-> 2] ELSE a1
    <3> HIDE DEF e1
    <3>1. QED
      BY <2>3 DEF Stepped, At
  <2>5. e0.kind # "table" => a2 = a0
    BY <2>2, <2>3 DEF Stepped
  <2> HIDE DEF a2, e1
  <2>6. e0.kind = "table" /\ e1.kind = "table" => a3 = IF e2.kind = "table" THEN [e |-> e3, level |-> 3] ELSE a2
    <3> HIDE DEF e2
    <3>1. QED
      BY <2>4 DEF Stepped, At
  <2>7. e0.kind # "table" => a3 = a0
    BY <2>2, <2>5 DEF Stepped
  <2>8. e0.kind = "table" /\ e1.kind # "table" => a3 = a1
    BY <2>3, <2>4 DEF Stepped
  <2> HIDE DEF a0, a3, e2, e3
  <2>9. CASE e0.kind # "table"
    BY <2>1, <2>2, <2>7, <2>9
  <2>10. CASE e0.kind = "table" /\ e1.kind # "table"
    BY <2>1, <2>3, <2>8, <2>10
  <2>11. CASE e0.kind = "table" /\ e1.kind = "table"
    BY <2>1, <2>4, <2>6, <2>11
  <2>12. QED
    BY <2>9, <2>10, <2>11
<1>7. QED
  BY <1>5, <1>6

LEMMA ShownIs == Shown(roots) = MapsOf(mem, roots) /\ Shown(roots)' = MapsOf(mem', roots')
<1>1. \A r, q : pt_translate(r, q) = Translated(mem, r, q)
  BY Zenon DEF pt_translate, Reach, Translated
<1>2. \A r, q : pt_translate(r, q)' = Translated(mem', r, q)
  BY Zenon DEF pt_translate, Reach, Translated
<1>3. \A r, q : pt_translate(r, q) = Seen(mem, r, 0, q)
  BY <1>1, TranslatedSeen
<1>4. \A r, q : pt_translate(r, q)' = Seen(mem', r, 0, q)
  BY <1>2, TranslatedSeen
<1>5. Shown(roots) = MapsOf(mem, roots)
  BY <1>3 DEF Shown, MapsOf, Map
<1>6. Shown(roots)' = MapsOf(mem', roots')
  BY <1>4 DEF Shown, MapsOf, Map
<1>7. QED
  BY <1>5, <1>6

(* A walk finds one mapping or none.                                       *)
LEMMA SeenOne ==
  ASSUME NEW m, NEW p
  PROVE  \A level \in Level : \A t : Seen(m, t, level, p) # {} => \E x : Seen(m, t, level, p) = {x}
<1> DEFINE P == {level \in Level : \A t : Seen(m, t, level, p) # {} => \E x : Seen(m, t, level, p) = {x}}
<1>1. ASSUME NEW level \in Level, level < 3 => level + 1 \in P
      PROVE  level \in P
  <2>1. SUFFICES ASSUME NEW t, Seen(m, t, level, p) # {}
                 PROVE  \E x : Seen(m, t, level, p) = {x}
    OBVIOUS
  <2> DEFINE e == At(m, t, extract_index(level, p))
  <2>2. Seen(m, t, level, p) = IF level < 3 /\ e.kind = "table" THEN Seen(m, e.addr, level + 1, p) ELSE Here(e, level, p)
    BY SeenIs
  <2>3. Here(e, level, p) # {} => \E x : Here(e, level, p) = {x}
    BY DEF Here
  <2> HIDE DEF e
  <2>4. level < 3 => \A y : Seen(m, y, level + 1, p) # {} => \E x : Seen(m, y, level + 1, p) = {x}
    BY <1>1
  <2>5. QED
    BY <2>1, <2>2, <2>3, <2>4
<1> HIDE DEF P
<1>2. Level \subseteq P
  BY <1>1, Upwards
<1>3. QED
  BY <1>2 DEF P

(* A map by what is seen: the domain and the value of each page in it.     *)
IsMap(m, r, map) ==
  /\ DOMAIN map = {p \in Page : Seen(m, r, 0, p) # {}}
  /\ \A p \in Page : Seen(m, r, 0, p) # {} => Seen(m, r, 0, p) = {map[p]}
  /\ \A p \in Page : \A x : Seen(m, r, 0, p) = {x} => p \in DOMAIN map /\ map[p] = x

LEMMA MapIs ==
  ASSUME NEW m, NEW r
  PROVE  IsMap(m, r, Map(m, r))
<1>1. DOMAIN Map(m, r) = {p \in Page : Seen(m, r, 0, p) # {}}
  BY DEF Map
<1>2. ASSUME NEW p \in Page, NEW x, Seen(m, r, 0, p) = {x}
      PROVE  p \in DOMAIN Map(m, r) /\ Map(m, r)[p] = x
  <2>1. (CHOOSE y \in {x} : TRUE) = x
    OBVIOUS
  <2>2. Map(m, r)[p] = CHOOSE y \in Seen(m, r, 0, p) : TRUE
    BY <1>2 DEF Map
  <2>3. QED
    BY <1>1, <1>2, <2>1, <2>2
<1>3. ASSUME NEW p \in Page, Seen(m, r, 0, p) # {} PROVE Seen(m, r, 0, p) = {Map(m, r)[p]}
  <2>1. PICK x : Seen(m, r, 0, p) = {x}
    BY <1>3, SeenOne DEF Level
  <2>2. QED
    BY <1>2, <2>1
<1> DEFINE map == Map(m, r)
<1> HIDE DEF map
<1>4. QED
  BY <1>1, <1>2, <1>3 DEF IsMap, map

LEMMA MapSame ==
  ASSUME NEW m, NEW n, NEW r, NEW s, \A p \in Page : Seen(n, s, 0, p) = Seen(m, r, 0, p)
  PROVE  Map(n, s) = Map(m, r)
BY DEF Map

LEMMA MapsAlike ==
  ASSUME NEW m, NEW n, NEW R, Alike(m, n, R)
  PROVE  MapsOf(n, R) = MapsOf(m, R)
<1>1. \A r \in R : Map(n, r) = Map(m, r)
  BY MapSame DEF Alike
<1>2. QED
  BY <1>1 DEF MapsOf

LEMMA DivisionGrows ==
  ASSUME NEW p \in Nat, NEW q \in Nat, p <= q, NEW d \in Nat \ {0}
  PROVE  p \div d <= q \div d
<1> DEFINE a == p \div d
           b == q \div d
           r == p % d
           s == q % d
<1>1. a \in Nat /\ r \in 0 .. (d - 1) /\ p = a * d + r
  BY Division
<1>2. b \in Nat /\ s \in 0 .. (d - 1) /\ q = b * d + s
  BY Division
<1> HIDE DEF a, b, r, s
<1>3. SUFFICES ASSUME b < a PROVE FALSE
  BY <1>1, <1>2 DEF a, b
<1> DEFINE c == a - b - 1
           x == b * d
           y == c * d
<1>4. c \in Nat /\ a = b + c + 1
  BY <1>1, <1>2, <1>3
<1> HIDE DEF c
<1>5. a * d = x + y + d
  BY <1>1, <1>2, <1>4
<1>6. x \in Nat /\ y \in Nat
  BY <1>2, <1>4, ProductType
<1> HIDE DEF x, y
<1> DEFINE z == a * d
<1>7. z = x + y + d /\ p = z + r /\ q = x + s
  BY <1>1, <1>2, <1>5 DEF x
<1> HIDE DEF z
<1>8. q < p
  BY <1>1, <1>2, <1>6, <1>7
<1>9. QED
  BY <1>8

(* What lies between covered pages is covered.                             *)
LEMMA CoveredRow ==
  ASSUME NEW v \in Nat, NEW size \in Nat \ {0}, NEW count \in Nat, NEW p \in Nat, NEW q \in Nat,
         Covered(v, size, count, p), Covered(v, size, count, q), NEW x \in p .. q
  PROVE  Covered(v, size, count, x)
<1> DEFINE a == p \div size
           b == q \div size
           c == x \div size
           l == v \div size
<1>0. x \in Nat /\ p <= x /\ x <= q
  OBVIOUS
<1>1. a \in Nat /\ b \in Nat /\ c \in Nat /\ l \in Nat
  BY <1>0, Division
<1>2. a <= c /\ c <= b
  BY <1>0, DivisionGrows
<1>3. a \in l .. (l + count - 1) /\ b \in l .. (l + count - 1)
  BY DEF Covered
<1> HIDE DEF a, b, c, l
<1>4. c \in l .. (l + count - 1)
  BY <1>1, <1>2, <1>3
<1>5. QED
  BY <1>4 DEF c, l, Covered

(* A call that changes what one root shows.                                *)
LEMMA ChangeOne ==
  ASSUME NEW m, NEW n, NEW R, NEW root \in R,
         \A s \in R \ {root} : \A p \in Page : Seen(n, s, 0, p) = Seen(m, s, 0, p),
         \/ Maps!Mapped(Map(m, root), Map(n, root))
         \/ Maps!Unmapped(Map(m, root), Map(n, root))
         \/ Maps!Protected(Map(m, root), Map(n, root))
  PROVE  Maps!Change(MapsOf(m, R), MapsOf(n, R))
<1> DEFINE old == MapsOf(m, R)
           new == MapsOf(n, R)
<1>1. DOMAIN old = R /\ DOMAIN new = R
  BY DEF MapsOf
<1>2. \A s \in R \ {root} : new[s] = old[s]
  BY MapSame DEF MapsOf
<1>3. old[root] = Map(m, root) /\ new[root] = Map(n, root)
  BY DEF MapsOf
<1> HIDE DEF old, new
<1>4. \/ Maps!Mapped(old[root], new[root])
      \/ Maps!Unmapped(old[root], new[root])
      \/ Maps!Protected(old[root], new[root])
  BY <1>3
<1>5. Maps!Change(old, new)
  BY <1>1, <1>2, <1>4 DEF Maps!Change
<1>6. QED
  BY <1>5 DEF old, new

(* What a map, a call of map, a call of unmap and of protect changes.      *)
LEMMA PaintedOthers ==
  ASSUME NEW m, NEW n, NEW R, NEW root, NEW v, NEW size, NEW count, NEW F,
         Painted(m, n, R, root, v, size, count, F)
  PROVE  \A s \in R \ {root} : \A p \in Page : Seen(n, s, 0, p) = Seen(m, s, 0, p)
BY DEF Painted

LEMMA ChangeMapped ==
  ASSUME PageTableAssumption, NEW m, NEW n, NEW R, NEW root \in R, NEW v \in Nat, NEW phys \in Nat, NEW f,
         NEW size \in Nat \ {0}, NEW count \in Nat, Painted(m, n, R, root, v, size, count, Mapping(v, phys, f)),
         \A p \in Page : Covered(v, size, count, p) => Seen(m, root, 0, p) = {}
  PROVE  Maps!Change(MapsOf(m, R), MapsOf(n, R))
<1> DEFINE old == Map(m, root)
           new == Map(n, root)
           New == {p \in Page : Covered(v, size, count, p)}
           image(p) == [frame |-> phys + (p - v), flags |-> f]
<1>0. Page \subseteq Nat
  BY BlockIs
<1>1. ASSUME NEW p \in Page
      PROVE  IF p \in New THEN Seen(m, root, 0, p) = {} /\ Seen(n, root, 0, p) = {image(p)}
             ELSE Seen(n, root, 0, p) = Seen(m, root, 0, p)
  BY DEF Painted, Mapping
<1> HIDE DEF image
<1>11. IsMap(m, root, old) /\ IsMap(n, root, new)
  BY MapIs
<1> HIDE DEF old, new
<1>2. DOMAIN old = {p \in Page : Seen(m, root, 0, p) # {}} /\ DOMAIN new = {p \in Page : Seen(n, root, 0, p) # {}}
  BY <1>11 DEF IsMap
<1>3. \A p \in New : new[p] = image(p)
  BY <1>1, <1>11 DEF IsMap
<1>4. ASSUME NEW p \in DOMAIN old PROVE new[p] = old[p]
  <2>1. p \in Page /\ p \notin New /\ Seen(m, root, 0, p) # {}
    BY <1>1, <1>2
  <2>2. Seen(m, root, 0, p) = {old[p]} /\ Seen(n, root, 0, p) = {old[p]}
    BY <1>1, <1>11, <2>1 DEF IsMap
  <2>3. QED
    BY <1>11, <2>1, <2>2 DEF IsMap
<1>5. DOMAIN new \ DOMAIN old = New /\ DOMAIN old \subseteq DOMAIN new
  <2>1. QED
    BY <1>1, <1>2
<1>6. Maps!Row(New, Page)
  <2>1. SUFFICES ASSUME NEW p \in New, NEW q \in New, NEW x \in (p .. q) \cap Page
                 PROVE  x \in New
    BY DEF Maps!Row
  <2>2. p \in Nat /\ q \in Nat
    BY <1>0
  <2>3. Covered(v, size, count, x)
    BY <2>2, CoveredRow
  <2>4. QED
    BY <2>3
<1>7. \A p, q \in New : new[p].frame - p = new[q].frame - q /\ new[p].flags = new[q].flags
  <2>1. SUFFICES ASSUME NEW p \in New, NEW q \in New
                 PROVE  new[p].frame - p = new[q].frame - q /\ new[p].flags = new[q].flags
    OBVIOUS
  <2>2. p \in Nat /\ q \in Nat
    BY <1>0
  <2>3. /\ new[p].frame = phys + (p - v) /\ new[p].flags = f
        /\ new[q].frame = phys + (q - v) /\ new[q].flags = f
    <3>1. new[p] = image(p) /\ new[q] = image(q)
      BY <1>3
    <3>2. QED
      BY <3>1 DEF image
  <2>4. QED
    BY <2>2, <2>3
<1> HIDE DEF New
<1>8. Maps!Mapped(old, new)
  BY <1>4, <1>5, <1>6, <1>7 DEF Maps!Mapped
<1>9. \A s \in R \ {root} : \A p \in Page : Seen(n, s, 0, p) = Seen(m, s, 0, p)
  BY PaintedOthers
<1>10. QED
  BY <1>8, <1>9, ChangeOne DEF old, new

LEMMA ChangeUnmapped ==
  ASSUME PageTableAssumption, NEW m, NEW n, NEW R, NEW root \in R, NEW v \in Nat,
         NEW size \in Nat \ {0}, NEW count \in Nat, Painted(m, n, R, root, v, size, count, Nothing)
  PROVE  Maps!Change(MapsOf(m, R), MapsOf(n, R))
<1> DEFINE old == Map(m, root)
           new == Map(n, root)
<1>0. Page \subseteq Nat
  BY BlockIs
<1>1. ASSUME NEW p \in Page
      PROVE  Seen(n, root, 0, p) = IF Covered(v, size, count, p) THEN {} ELSE Seen(m, root, 0, p)
  BY DEF Painted, Nothing
<1>9. IsMap(m, root, old) /\ IsMap(n, root, new)
  BY MapIs
<1> HIDE DEF old, new
<1>2. DOMAIN old = {p \in Page : Seen(m, root, 0, p) # {}} /\ DOMAIN new = {p \in Page : Seen(n, root, 0, p) # {}}
  BY <1>9 DEF IsMap
<1>3. ASSUME NEW p \in DOMAIN new PROVE new[p] = old[p]
  <2>1. p \in Page /\ Seen(n, root, 0, p) # {} /\ Seen(n, root, 0, p) = Seen(m, root, 0, p)
    BY <1>1, <1>2
  <2>2. Seen(n, root, 0, p) = {new[p]} /\ Seen(m, root, 0, p) = {new[p]}
    BY <1>9, <2>1 DEF IsMap
  <2>3. QED
    BY <1>9, <2>1, <2>2 DEF IsMap
<1>4. DOMAIN new \subseteq DOMAIN old /\ DOMAIN old \ DOMAIN new = {p \in DOMAIN old : Covered(v, size, count, p)}
  BY <1>1, <1>2
<1>5. Maps!Row(DOMAIN old \ DOMAIN new, DOMAIN old)
  <2>1. SUFFICES ASSUME NEW p \in DOMAIN old \ DOMAIN new, NEW q \in DOMAIN old \ DOMAIN new,
                        NEW x \in (p .. q) \cap DOMAIN old
                 PROVE  x \in DOMAIN old \ DOMAIN new
    BY DEF Maps!Row
  <2>2. p \in Nat /\ q \in Nat /\ Covered(v, size, count, p) /\ Covered(v, size, count, q)
    BY <1>0, <1>2, <1>4
  <2>3. Covered(v, size, count, x)
    BY <2>2, CoveredRow
  <2>4. QED
    BY <1>4, <2>3
<1>6. Maps!Unmapped(old, new)
  BY <1>3, <1>4, <1>5 DEF Maps!Unmapped
<1>7. \A s \in R \ {root} : \A p \in Page : Seen(n, s, 0, p) = Seen(m, s, 0, p)
  BY PaintedOthers
<1>8. QED
  BY <1>6, <1>7, ChangeOne DEF old, new

LEMMA ChangeProtected ==
  ASSUME PageTableAssumption, NEW m, NEW n, NEW R, NEW root \in R, NEW v \in Nat, NEW f,
         NEW count \in Nat, Painted(m, n, R, root, v, 1, count, Guarding(m, root, 1, f))
  PROVE  Maps!Change(MapsOf(m, R), MapsOf(n, R))
<1> DEFINE old == Map(m, root)
           new == Map(n, root)
<1>1. ASSUME NEW p \in Page
      PROVE  Seen(n, root, 0, p) = IF Covered(v, 1, count, p) THEN {[frame |-> x.frame, flags |-> f] : x \in Seen(m, root, 0, p)}
                                   ELSE Seen(m, root, 0, p)
  BY DEF Painted, Guarding
<1>10. IsMap(m, root, old) /\ IsMap(n, root, new)
  BY MapIs
<1> HIDE DEF old, new
<1>2. DOMAIN old = {p \in Page : Seen(m, root, 0, p) # {}} /\ DOMAIN new = {p \in Page : Seen(n, root, 0, p) # {}}
  BY <1>10 DEF IsMap
<1>3. DOMAIN new = DOMAIN old
  <2>1. ASSUME NEW p \in Page PROVE Seen(n, root, 0, p) # {} <=> Seen(m, root, 0, p) # {}
    BY <1>1
  <2>2. QED
    BY <1>2, <2>1
<1>4. ASSUME NEW p \in DOMAIN old
      PROVE  new[p] = IF Covered(v, 1, count, p) THEN [frame |-> old[p].frame, flags |-> f] ELSE old[p]
  <2>1. p \in Page /\ Seen(m, root, 0, p) # {}
    BY <1>2
  <2>2. Seen(m, root, 0, p) = {old[p]}
    BY <1>10, <2>1 DEF IsMap
  <2> DEFINE y == old[p]
             S == Seen(m, root, 0, p)
  <2>3. CASE Covered(v, 1, count, p)
    <3>1. S = {y} /\ Seen(n, root, 0, p) = {[frame |-> x.frame, flags |-> f] : x \in S}
      BY <1>1, <2>1, <2>2, <2>3
    <3> HIDE DEF y, S
    <3>2. Seen(n, root, 0, p) = {[frame |-> y.frame, flags |-> f]}
      BY <3>1
    <3>3. new[p] = [frame |-> y.frame, flags |-> f]
      BY <1>10, <2>1, <3>2 DEF IsMap
    <3>4. QED
      BY <2>3, <3>3 DEF y
  <2>4. CASE ~Covered(v, 1, count, p)
    <3>1. Seen(n, root, 0, p) = {old[p]}
      BY <1>1, <2>1, <2>2, <2>4
    <3>2. QED
      BY <1>10, <2>1, <2>4, <3>1 DEF IsMap
  <2>5. QED
    BY <2>3, <2>4
<1>5. ASSUME NEW p \in DOMAIN old PROVE new[p].frame = old[p].frame
  <2> DEFINE o == old[p]
  <2>1. new[p] = IF Covered(v, 1, count, p) THEN [frame |-> o.frame, flags |-> f] ELSE o
    BY <1>4
  <2> HIDE DEF o
  <2>2. new[p].frame = o.frame
    BY <2>1
  <2>3. QED
    BY <2>2 DEF o
<1>6. ASSUME NEW p \in DOMAIN old, new[p] # old[p] PROVE new[p].flags = f
  <2> DEFINE o == old[p].frame
  <2>1. new[p] = [frame |-> o, flags |-> f]
    BY <1>4, <1>6
  <2> HIDE DEF o
  <2>2. QED
    BY <2>1
<1>7. Maps!Protected(old, new)
  BY <1>3, <1>5, <1>6 DEF Maps!Protected
<1>8. \A s \in R \ {root} : \A p \in Page : Seen(n, s, 0, p) = Seen(m, s, 0, p)
  BY PaintedOthers
<1>9. QED
  BY <1>7, <1>8, ChangeOne DEF old, new

-----------------------------------------------------------------------------
(* Every call is a step of the abstract maps, or changes none of them.     *)

Shows(m, R, n, S) ==
  \/ Maps!Alloc(MapsOf(m, R), MapsOf(n, S)) \/ Maps!Copy(MapsOf(m, R), MapsOf(n, S))
  \/ Maps!Free(MapsOf(m, R), MapsOf(n, S)) \/ Maps!Change(MapsOf(m, R), MapsOf(n, S))
  \/ MapsOf(n, S) = MapsOf(m, R)

(* Where the tables that were there are as they were, the maps are too.    *)
LEMMA AlikeKept ==
  ASSUME PageTableAssumption, NEW m, NEW R, NEW lvl, Forest(m, R, lvl), NEW n,
         \A t \in T(m) : n.tables[t] = m.tables[t]
  PROVE  Alike(m, n, R)
<1>1. Apart(m, n, T(m))
  BY ForestFacts DEF Apart
<1>2. R \subseteq T(m)
  BY ForestFacts
<1>3. 0 \in Level
  BY DEF Level
<1>4. \A p \in Page : p \in Nat
  BY BlockIs
<1>5. \A p \in Page : \A level \in Level, t \in T(m) : Seen(n, t, level, p) = Seen(m, t, level, p)
  BY <1>1, <1>4, SeenApart
<1>6. QED
  BY <1>2, <1>3, <1>5 DEF Alike

(* A root is added that shows a map.                                       *)
LEMMA CreateRoot ==
  ASSUME NEW m, NEW n, NEW R, Alike(m, n, R), NEW t, t \notin R
  PROVE  Maps!Create(MapsOf(m, R), MapsOf(n, R \cup {t}), t, Map(n, t))
<1> DEFINE old == MapsOf(m, R)
           new == MapsOf(n, R \cup {t})
<1>1. DOMAIN old = R
  BY DEF MapsOf
<1>2. \A s \in R : Map(n, s) = Map(m, s)
  BY MapSame DEF Alike
<1>3. \A s \in R : old[s] = Map(m, s)
  BY DEF MapsOf
<1>4. new = [s \in R \cup {t} |-> IF s = t THEN Map(n, t) ELSE old[s]]
  BY <1>2, <1>3 DEF MapsOf
<1> HIDE DEF old, new
<1>5. Maps!Create(old, new, t, Map(n, t))
  BY <1>1, <1>4 DEF Maps!Create
<1>6. QED
  BY <1>5 DEF old, new

LEMMA ShowsAlike ==
  ASSUME NEW m, NEW n, NEW R, Alike(m, n, R)
  PROVE  Shows(m, R, n, R)
BY MapsAlike DEF Shows

LEMMA ShowsAlloc ==
  ASSUME PageTableAssumption, NEW lvl, Good(mem, roots, lvl), pt_alloc
  PROVE  Shows(mem, roots, mem', roots')
<1>1. CASE mem' = mem /\ roots' = roots
  BY <1>1 DEF Shows
<1>2. CASE mem.free # {} /\ mem' = WithTable(mem) /\ roots' = roots \cup {Lowest(mem.free)}
  <2> DEFINE t == Lowest(mem.free)
             n == WithTable(mem)
  <2>1. Forest(mem, roots, lvl) /\ Memory(mem) /\ roots \subseteq T(mem)
    BY ForestFacts DEF Good
  <2>2. /\ t \notin T(mem) /\ \A j \in Index : At(n, t, j) = Zero
        /\ \A u \in T(mem) : n.tables[u] = mem.tables[u]
    BY <1>2, <2>1, WithTableIs
  <2> HIDE DEF t, n
  <2>3. Alike(mem, n, roots)
    BY <2>1, <2>2, AlikeKept
  <2>4. ASSUME NEW p \in Page PROVE Seen(n, t, 0, p) = {}
    <3> DEFINE e == At(n, t, extract_index(0, p))
    <3>1. 0 \in Level /\ p \in Nat
      BY BlockIs DEF Level
    <3>2. e = Zero
      BY <2>2, <3>1, IndexOf
    <3>3. Seen(n, t, 0, p) = IF 0 < 3 /\ e.kind = "table" THEN Seen(n, e.addr, 0 + 1, p) ELSE Here(e, 0, p)
      BY <3>1, SeenIs
    <3> HIDE DEF e
    <3>4. QED
      BY <3>2, <3>3, EntryTypes DEF Here
  <2>5. Map(n, t) = [p \in {} |-> {}]
    <3> DEFINE D == {p \in Page : Seen(n, t, 0, p) # {}}
    <3>1. D = {}
      BY <2>4
    <3>2. Map(n, t) = [p \in D |-> CHOOSE x \in Seen(n, t, 0, p) : TRUE]
      BY DEF Map
    <3> HIDE DEF D
    <3>3. QED
      BY <3>1, <3>2
  <2>6. t \notin roots
    BY <2>1, <2>2
  <2>7. Maps!Create(MapsOf(mem, roots), MapsOf(n, roots \cup {t}), t, Map(n, t))
    BY <2>3, <2>6, CreateRoot
  <2>8. t \in DOMAIN MapsOf(n, roots \cup {t})
    BY DEF MapsOf
  <2>9. Maps!Alloc(MapsOf(mem, roots), MapsOf(n, roots \cup {t}))
    BY <2>5, <2>7, <2>8 DEF Maps!Alloc
  <2>10. mem' = n /\ roots' = roots \cup {t}
    BY <1>2 DEF n, t
  <2>11. QED
    BY <2>9, <2>10 DEF Shows
<1>3. QED
  BY <1>1, <1>2 DEF pt_alloc, vars

(* The tables of the other trees are those that stay.                      *)
LEMMA GivenAlike ==
  ASSUME PageTableAssumption, NEW m, NEW R, NEW lvl, Forest(m, R, lvl), NEW root \in R, NEW n, Given(m, R, root, n)
  PROVE  Alike(m, n, R \ {root})
<1> DEFINE S == Tree(m, root)
           C == T(m) \ S
<1>1. /\ R \cap S = {root}
      /\ \A t \in T(m), i \in Index : LeadsOn(m, t, i) => (t \in S <=> At(m, t, i).addr \in S)
  BY TreeIs
<1> HIDE DEF S
<1>2. \A t \in C : n.tables[t] = m.tables[t]
  BY DEF Given, S
<1>3. \A t \in C, i \in Index : LeadsOn(m, t, i) => At(m, t, i).addr \in C
  BY <1>1, ForestFacts
<1>4. R \ {root} \subseteq C
  BY <1>1, ForestFacts
<1> HIDE DEF C
<1>5. Apart(m, n, C)
  BY <1>2, <1>3 DEF Apart
<1>6. 0 \in Level
  BY DEF Level
<1>7. \A p \in Page : p \in Nat
  BY BlockIs
<1>8. \A p \in Page : \A level \in Level, t \in C : Seen(n, t, level, p) = Seen(m, t, level, p)
  BY <1>5, <1>7, SeenApart
<1>9. QED
  BY <1>4, <1>6, <1>8 DEF Alike

LEMMA ShowsFree ==
  ASSUME PageTableAssumption, NEW lvl, Good(mem, roots, lvl), NEW root \in roots, pt_free(root)
  PROVE  Shows(mem, roots, mem', roots')
<1>1. Forest(mem, roots, lvl) /\ Given(mem, roots, root, mem') /\ roots' = roots \ {root}
  BY ReleasedIs DEF pt_free, Good
<1> DEFINE S == roots \ {root}
           old == MapsOf(mem, roots)
           new == MapsOf(mem', S)
<1>2. Alike(mem, mem', S)
  BY <1>1, GivenAlike
<1>3. MapsOf(mem', S) = MapsOf(mem, S)
  <2> HIDE DEF S
  <2>1. QED
    BY <1>2, MapsAlike
<1>4. new = [s \in DOMAIN old \ {root} |-> old[s]] /\ root \in DOMAIN old
  BY <1>3 DEF MapsOf
<1> HIDE DEF old, new
<1>5. Maps!Free(old, new)
  BY <1>4 DEF Maps!Free
<1>6. QED
  BY <1>1, <1>5 DEF old, new, Shows

LEMMA ShowsCopy ==
  ASSUME PageTableAssumption, NEW lvl, Good(mem, roots, lvl), NEW src \in roots, pt_copy(src)
  PROVE  Shows(mem, roots, mem', roots')
<1> DEFINE dst == Lowest(mem.free)
           m == WithTable(mem)
           R == roots \cup {dst}
           l == [x \in T(mem) \cup {dst} |-> IF x = dst THEN 0 ELSE lvl[x]]
           w == TreeCopied(Walker(m, dst), src, dst)
<1>1. \/ mem' = mem /\ roots' = roots
      \/ mem.free # {} /\ w.status = "ok" /\ mem' = w.m /\ roots' = R
      \/ mem.free # {} /\ mem' = Released(w.m, dst) /\ roots' = roots
  BY Zenon DEF pt_copy, vars, TreeCopied, Unwound
<1>2. CASE mem' = mem /\ roots' = roots
  BY <1>2 DEF Shows
<1>3. CASE mem.free # {}
  <2>0. Forest(mem, roots, lvl) /\ roots \subseteq T(mem)
    BY ForestFacts DEF Good
  <2>1. /\ dst \in Frame \ T(mem) /\ T(m) = T(mem) \cup {dst}
        /\ \A j \in Index : At(m, dst, j) = Zero
        /\ \A u \in T(mem) : m.tables[u] = mem.tables[u]
    BY <1>3, WithTableIs DEF Good, Forest
  <2>2. Good(m, R, l)
    BY <1>3, ForestRoot
  <2>3. src \in T(mem) /\ lvl[src] = 0
    BY DEF Good, Forest
  <2>4. l[src] = 0 /\ l[dst] = 0
    BY <2>1, <2>3
  <2> HIDE DEF l, m, R
  <2>5. CopyReady(m, R, l, src, dst, 0)
    BY <2>1, <2>2, <2>3, <2>4 DEF CopyReady
  <2>6. IsWalker(Walker(m, dst)) /\ Walker(m, dst).status = "ok" /\ Walker(m, dst).m = m
    BY <2>1 DEF IsWalker, Walker, Status, Frame
  <2>7. CopyDone(m, R, l, src, dst, 0, w)
    <3> DEFINE a == Walker(m, dst)
    <3>1. IsWalker(a) /\ a.status = "ok" /\ a.m = m /\ CopyReady(a.m, R, l, src, dst, 0)
      BY <2>5, <2>6
    <3> HIDE DEF a, dst
    <3>2. CopyDone(a.m, R, l, src, dst, 0, TreeCopied(a, src, dst))
      BY <3>1, CopyLevel0
    <3>3. QED
      BY <3>1, <3>2 DEF a
  <2> HIDE DEF dst, w
  <2>8. PICK g : Good(w.m, R, g)
    BY <2>7 DEF CopyDone, CopySafe
  <2>9. \A u \in T(mem) : w.m.tables[u] = mem.tables[u]
    BY <2>1, <2>7 DEF CopyDone, CopySafe
  <2>10. Alike(mem, m, roots) /\ Alike(mem, w.m, roots)
    <3>1. Alike(mem, m, roots)
      BY <2>0, <2>1, AlikeKept
    <3> DEFINE n == w.m
    <3>2. \A u \in T(mem) : n.tables[u] = mem.tables[u]
      BY <2>9
    <3> HIDE DEF n
    <3>3. Alike(mem, n, roots)
      BY <2>0, <3>2, AlikeKept
    <3>4. QED
      BY <3>1, <3>3 DEF n
  <2>11. dst \notin roots /\ dst \in R /\ R \ {dst} = roots
    BY <2>0, <2>1 DEF R
  <2>12. CASE w.status = "ok" /\ mem' = w.m /\ roots' = R
    <3> DEFINE n == w.m
    <3>1. Copied(m, n, src, dst, 0, Fan)
      BY <2>7, <2>12 DEF CopyDone
    <3>2. Alike(mem, m, roots) /\ Alike(mem, n, roots)
      BY <2>10
    <3> HIDE DEF n
    <3>3. ASSUME NEW p \in Page PROVE Seen(n, dst, 0, p) = Seen(mem, src, 0, p)
      <4>1. 0 \in Level /\ p \in Nat
        BY BlockIs DEF Level
      <4>2. extract_index(0, p) \in Index /\ Fan \in Nat
        BY <4>1, IndexOf DEF PageTableAssumption
      <4>3. extract_index(0, p) < Fan
        BY <4>2 DEF Index
      <4>4. QED
        BY <3>1, <3>2, <4>1, <4>3 DEF Copied, Alike
    <3>4. Map(n, dst) = Map(mem, src)
      BY <3>3, MapSame
    <3>5. Maps!Create(MapsOf(mem, roots), MapsOf(n, roots \cup {dst}), dst, Map(n, dst))
      BY <2>11, <3>2, CreateRoot
    <3>6. dst \in DOMAIN MapsOf(n, roots \cup {dst}) /\ src \in DOMAIN MapsOf(mem, roots)
          /\ MapsOf(mem, roots)[src] = Map(mem, src)
      BY DEF MapsOf
    <3>7. Maps!Copy(MapsOf(mem, roots), MapsOf(n, roots \cup {dst}))
      BY <3>4, <3>5, <3>6 DEF Maps!Copy
    <3>8. mem' = n /\ roots' = roots \cup {dst}
      BY <2>12 DEF n, R
    <3>9. QED
      BY <3>7, <3>8 DEF Shows
  <2>13. CASE mem' = Released(w.m, dst) /\ roots' = roots
    <3> DEFINE n == w.m
    <3>1. Good(n, R, g) /\ mem' = Released(n, dst) /\ Alike(mem, n, roots)
      BY <2>8, <2>10, <2>13
    <3> HIDE DEF n
    <3>2. Given(n, R, dst, mem') /\ Forest(n, R, g)
      BY <2>11, <3>1, ReleasedIs DEF Good
    <3>3. Alike(n, mem', R \ {dst})
      BY <2>11, <3>2, GivenAlike
    <3>4. Alike(mem, mem', roots)
      BY <2>11, <3>1, <3>3, AlikeAlike
    <3>5. QED
      BY <2>13, <3>4, ShowsAlike
  <2>14. QED
    BY <1>1, <1>2, <2>12, <2>13 DEF dst, w, R, m
<1>4. QED
  BY <1>1, <1>2, <1>3

LEMMA ShowsMap ==
  ASSUME PageTableAssumption, NEW lvl, Good(mem, roots, lvl), NEW root \in roots, NEW v \in Nat, NEW phys \in Nat,
         NEW count \in Nat, NEW size \in MapSizes, NEW f \in Flags, Inside(v, count, size),
         pt_map(root, v, phys, count, size, f)
  PROVE  Shows(mem, roots, mem', roots')
<1> DEFINE w == Mapped(mem, root, v, phys, count, size, f)
<1>1. \/ mem' = mem /\ roots' = roots
      \/ v % size = 0 /\ Finish(w)
  BY Zenon DEF pt_map, Mapped, vars
<1>2. v % size = 0 => MapsRow(mem, roots, root, v, phys, size, f, count, w)
  BY MapPages
<1> HIDE DEF w
<1>3. CASE mem' = mem /\ roots' = roots
  BY <1>3 DEF Shows
<1>4. CASE v % size = 0 /\ mem' = w.m /\ roots' = roots
  <2> DEFINE n == w.m
  <2>1. PICK j \in 0 .. count : /\ Painted(mem, n, roots, root, v, size, j, Mapping(v, phys, f))
                                /\ \A p \in Page : Covered(v, size, j, p) => Seen(mem, root, 0, p) = {}
    BY <1>2, <1>4 DEF MapsRow
  <2> HIDE DEF n
  <2>2. j \in Nat /\ size \in Nat \ {0}
    BY SizeIs
  <2>3. Maps!Change(MapsOf(mem, roots), MapsOf(n, roots))
    BY <2>1, <2>2, ChangeMapped
  <2>4. mem' = n
    BY <1>4 DEF n
  <2>5. QED
    BY <1>4, <2>3, <2>4 DEF Shows
<1>5. QED
  BY <1>1, <1>3, <1>4 DEF Finish

LEMMA ShowsUnmap ==
  ASSUME PageTableAssumption, ~Mixed, NEW lvl, Good(mem, roots, lvl), NEW root \in roots, NEW v \in Nat,
         NEW count \in Nat, NEW size \in MapSizes, Inside(v, count, size), Proper(root, v, count, size),
         pt_unmap(root, v, count, size)
  PROVE  Shows(mem, roots, mem', roots')
<1> DEFINE w == Unmapped(mem, root, v, count, size)
<1>1. Finish(w)
  BY Zenon DEF pt_unmap, Unmapped
<1>2. \A i \in 0 .. (count - 1) : Mixed \/ NotTable(mem, root, v + i * size, size)
  BY ProperNotTable
<1>3. UnmapsRow(mem, roots, root, v, size, count, w)
  BY <1>2, UnmapPages
<1> HIDE DEF w
<1>4. CASE mem' = mem /\ roots' = roots
  BY <1>4 DEF Shows
<1>5. CASE w.status = "ok" /\ mem' = w.m /\ roots' = roots
  <2> DEFINE n == w.m
  <2>1. Painted(mem, n, roots, root, v, size, count, Nothing)
    BY <1>3, <1>5 DEF UnmapsRow
  <2> HIDE DEF n
  <2>2. size \in Nat \ {0}
    BY SizeIs
  <2>3. Maps!Change(MapsOf(mem, roots), MapsOf(n, roots))
    BY <2>1, <2>2, ChangeUnmapped
  <2>4. mem' = n
    BY <1>5 DEF n
  <2>5. QED
    BY <1>5, <2>3, <2>4 DEF Shows
<1>6. QED
  BY <1>1, <1>3, <1>4, <1>5 DEF Finish, UnmapsRow

LEMMA ShowsProtect ==
  ASSUME PageTableAssumption, ~Mixed, NEW lvl, Good(mem, roots, lvl), NEW root \in roots, NEW v \in Nat,
         NEW count \in Nat, NEW size \in ProtectSizes, NEW f \in Flags, Inside(v, count, size),
         Proper(root, v, count, size), pt_protect(root, v, count, size, f)
  PROVE  Shows(mem, roots, mem', roots')
<1> DEFINE w == Guarded(mem, root, v, count, size, f)
<1>1. Finish(w)
  BY Zenon DEF pt_protect, Guarded
<1>2. \A i \in 0 .. (count - 1) : Mixed \/ NotTable(mem, root, v + i * size, size)
  BY ProperNotTable
<1>3. GuardsRow(mem, roots, root, v, size, f, count, w)
  BY <1>2, ProtectPages
<1> HIDE DEF w
<1>4. CASE mem' = mem /\ roots' = roots
  BY <1>4 DEF Shows
<1>5. CASE mem' = w.m /\ roots' = roots
  <2> DEFINE n == w.m
  <2>1. PICK j \in 0 .. count : Painted(mem, n, roots, root, v, size, j, Guarding(mem, root, size, f))
    BY <1>3 DEF GuardsRow
  <2> HIDE DEF n
  <2>2. j \in Nat /\ size \in Nat \ {0}
    BY SizeIs
  <2>3. CASE size = 1
    <3>1. Painted(mem, n, roots, root, v, 1, j, Guarding(mem, root, 1, f))
      BY <2>1, <2>3
    <3>2. Maps!Change(MapsOf(mem, roots), MapsOf(n, roots))
      BY <2>2, <3>1, ChangeProtected
    <3>3. QED
      BY <1>5, <3>2 DEF n, Shows
  <2>4. CASE size # 1
    <3>1. Guarding(mem, root, size, f) = Nothing
      BY <2>4 DEF Guarding, Nothing
    <3>2. Painted(mem, n, roots, root, v, size, j, Nothing)
      BY <2>1, <3>1
    <3>3. Maps!Change(MapsOf(mem, roots), MapsOf(n, roots))
      BY <2>2, <3>2, ChangeUnmapped
    <3>4. QED
      BY <1>5, <3>3 DEF n, Shows
  <2>5. QED
    BY <2>3, <2>4
<1>6. QED
  BY <1>1, <1>4, <1>5 DEF Finish

LEMMA ShowsNext ==
  ASSUME PageTableAssumption, ~Mixed, NEW lvl, Good(mem, roots, lvl), [Next]_vars
  PROVE  Shows(mem, roots, mem', roots')
<1>1. CASE UNCHANGED vars
  BY <1>1 DEF vars, Shows
<1>2. CASE Call
  <2>1. Virts \subseteq Nat /\ Physes \subseteq Nat /\ Counts \subseteq Nat
    BY DEF PageTableAssumption
  <2>2. CASE pt_alloc
    BY <2>2, ShowsAlloc
  <2>3. ASSUME NEW root \in roots, pt_free(root) PROVE Shows(mem, roots, mem', roots')
    BY <2>3, ShowsFree
  <2>4. ASSUME NEW root \in roots, pt_copy(root) PROVE Shows(mem, roots, mem', roots')
    BY <2>4, ShowsCopy
  <2>5. ASSUME NEW root \in roots, NEW v \in Virts, NEW phys \in Physes, NEW count \in Counts,
               NEW size \in MapSizes, NEW f \in Flags, Inside(v, count, size), pt_map(root, v, phys, count, size, f)
        PROVE  Shows(mem, roots, mem', roots')
    BY <2>1, <2>5, ShowsMap
  <2>6. ASSUME NEW root \in roots, NEW v \in Virts, NEW count \in Counts, NEW size \in MapSizes,
               Inside(v, count, size), Proper(root, v, count, size), pt_unmap(root, v, count, size)
        PROVE  Shows(mem, roots, mem', roots')
    BY <2>1, <2>6, ShowsUnmap
  <2>7. ASSUME NEW root \in roots, NEW v \in Virts, NEW count \in Counts, NEW size \in ProtectSizes,
               NEW f \in Flags, Inside(v, count, size), Proper(root, v, count, size), pt_protect(root, v, count, size, f)
        PROVE  Shows(mem, roots, mem', roots')
    BY <2>1, <2>7, ShowsProtect
  <2>8. QED
    BY <1>2, <2>2, <2>3, <2>4, <2>5, <2>6, <2>7, Zenon DEF Call
<1>3. QED
  BY <1>1, <1>2 DEF Next

(* Of every behaviour in which clients keep granules apart: read through   *)
(* pt_translate, every call is one step of the abstract maps or changes    *)
(* none.  pt_alloc adds an empty map, pt_copy one like that of its source, *)
(* pt_free takes one away, and pt_map, pt_unmap and pt_protect change one, *)
(* in a row of pages, also when they stop halfway.                         *)
THEOREM Refinement ==
  ASSUME PageTableAssumption, ~Mixed
  PROVE  Spec => ImplementsPageMap
<1>1. IInv /\ [Next]_vars => [Maps!Next]_(Shown(roots))
  <2> SUFFICES ASSUME IInv, [Next]_vars PROVE Maps!Next \/ Shown(roots)' = Shown(roots)
    OBVIOUS
  <2> DEFINE old == Shown(roots)
             new == Shown(roots)'
  <2>1. Shows(mem, roots, mem', roots')
    BY ShowsNext DEF IInv
  <2>2. old = MapsOf(mem, roots) /\ new = MapsOf(mem', roots')
    BY ShownIs
  <2> HIDE DEF old, new
  <2>3. Maps!Alloc(old, new) \/ Maps!Copy(old, new) \/ Maps!Free(old, new) \/ Maps!Change(old, new) \/ new = old
    BY <2>1, <2>2 DEF Shows
  <2>4. QED
    BY <2>3 DEF Maps!Next, old, new
<1>2. Spec => []IInv
  BY Invariant
<1>3. QED
  BY <1>1, <1>2, PTL DEF Spec, ImplementsPageMap, Maps!Spec
=============================================================================
