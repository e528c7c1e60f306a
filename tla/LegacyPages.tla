---------------------------- MODULE LegacyPages ----------------------------
(***************************************************************************)
(* The older page tables, modules2/src2/mmu: an identity map of 1 GB blocks*)
(* made at the start, and pages mapped behind it.                          *)
(*                                                                         *)
(* A table has Fan entries instead of 512, addresses are page numbers, and *)
(* tables are numbered in the order they are allocated in; the physical    *)
(* memory manager is external, and has pages for some of the tables a call *)
(* asks for.  Nothing is ever unmapped.  A block on the way down has the   *)
(* bits of a table and would be taken for one, so clients leave the start  *)
(* of memory alone and map only where the map is no coarser than they ask. *)
(* Calls are atomic: one processor, no interrupts.                         *)
(***************************************************************************)
EXTENDS Integers, SequencesExt

CONSTANTS
  None,
  Fan,       \* the entries of a table: 512
  MaxTables, \* a bound: calls find no page for more tables
  Memories,  \* how much memory there may be, in pages
  Physical,  \* the physical addresses clients map
  Counts     \* the numbers of pages they map at once

Slots == 0 .. Fan - 1
Span(level) == Fan ^ (3 - level)   \* the pages an entry of that level covers
Page == 0 .. Fan ^ 4 - 1
Blocks(memory) == IF memory = 0 THEN 1 ELSE (memory + Fan * Span(1) - 1) \div (Fan * Span(1))

VARIABLES
  tables,  \* the tables: entries [kind, at]
  root,    \* kernel_page_table: a table or 0
  fixed,   \* the pages mapped at the start
  wanted   \* what each page was last mapped to

vars == <<tables, root, fixed, wanted>>

-----------------------------------------------------------------------------
Absent == [kind |-> "none", at |-> 0]
Blank == [i \in Slots |-> Absent]

(* The place in a table of that level.                                     *)
extract_indices(v, level) == (v \div Span(level)) % Fan

(* The level at which a page of the order is entered.                      *)
Leaf(order) == 3 - order
page_order_size(order) == Span(Leaf(order))

(* A new table, behind slot i of table t.                                  *)
NewTable(s, t, i) ==
  [s EXCEPT !.tables = Append([@ EXCEPT ![t][i] = [kind |-> "table", at |-> Len(s.tables) + 1]], Blank),
            !.free = @ - 1]

(* Faulty variant: a table that is there is replaced.                      *)
DescendAnew(s, v, level) ==
  LET i == extract_indices(v, level) IN
  CASE s.at = 0 -> s
    [] s.at # 0 /\ s.free = 0 -> [s EXCEPT !.at = 0]
    [] OTHER -> [NewTable(s, s.at, i) EXCEPT !.at = Len(s.tables) + 1]

(* One level down from s.at, which is 0 when there was no page for a table.*)
Descend(s, v, level) ==
  LET i == extract_indices(v, level) IN
  CASE s.at = 0 -> s
    [] s.at # 0 /\ s.tables[s.at][i].kind # "none" -> [s EXCEPT !.at = s.tables[s.at][i].at]
    [] s.at # 0 /\ s.tables[s.at][i].kind = "none" /\ s.free = 0 -> [s EXCEPT !.at = 0]
    [] OTHER -> [NewTable(s, s.at, i) EXCEPT !.at = Len(s.tables) + 1]

(* The first address for which there is no table ends the call.            *)
MapOne(s, top, v, p, order) ==
  LET down == FoldLeft(LAMBDA d, level : Descend(d, v, level), [s EXCEPT !.at = IF s.at = 0 THEN 0 ELSE top],
                       [k \in 1 .. Leaf(order) |-> k - 1])
  IN  IF down.at = 0 THEN down
      ELSE [down EXCEPT !.tables[down.at][extract_indices(v, Leaf(order))] = [kind |-> "leaf", at |-> p],
                        !.done = @ + 1]

(* The tables free pages can be found for.                                 *)
Supply == 0 .. MaxTables - Len(tables)

(* Without a root, as when the start ran out of pages, one is made.        *)
pages_map(v, p, order, count) ==
  \E free \in Supply :
    \/ root = 0 /\ free = 0 /\ UNCHANGED vars
    \/ /\ root # 0 \/ free > 0
       /\ \E top \in {IF root = 0 THEN Len(tables) + 1 ELSE root} :
          \E s \in {FoldLeft(LAMBDA m, i : MapOne(m, top, v + i * page_order_size(order), p + i * page_order_size(order), order),
                             [tables |-> IF root = 0 THEN Append(tables, Blank) ELSE tables,
                              free |-> IF root = 0 THEN free - 1 ELSE free, at |-> top, done |-> 0],
                             [k \in 1 .. count |-> k - 1])} :
            /\ root' = top
            /\ tables' = s.tables
            /\ wanted' = [x \in Page |-> IF x \in v .. v + s.done * page_order_size(order) - 1 THEN p + x - v ELSE wanted[x]]
       /\ UNCHANGED fixed

(* A table of 1 GB blocks for each 512 GB.  The tables of a start that runs*)
(* out of pages are lost.                                                  *)
pages_create_identity_page_table(memory) ==
  LET n == Blocks(memory)
      full(b) == [i \in Slots |-> [kind |-> "leaf", at |-> (b * Fan + i) * Span(1)]]
  IN
  \E made \in 0 .. n + 1 :
    /\ tables = [t \in 1 .. made |->
                   IF t = 1 THEN [i \in Slots |-> IF i < made - 1 THEN [kind |-> "table", at |-> i + 2] ELSE Absent]
                   ELSE full(t - 2)]
    /\ root = IF made = n + 1 THEN 1 ELSE 0
    /\ fixed = IF made = n + 1 THEN 0 .. n * Fan * Span(1) - 1 ELSE {}
    /\ wanted = [x \in Page |-> IF x \in fixed THEN x ELSE None]

mmu_start == \E memory \in Memories : pages_create_identity_page_table(memory)

-----------------------------------------------------------------------------
(* What the processor finds for an address.                                *)
Walk(v) ==
  LET from[s \in (0 .. Len(tables)) \X (0 .. 3)] ==
        LET e == tables[s[1]][extract_indices(v, s[2])] IN
        CASE e.kind = "none" -> None
          [] e.kind = "leaf" -> e.at + (v % Span(s[2]))
          [] e.kind = "table" -> from[<<e.at, s[2] + 1>>]
  IN  IF root = 0 THEN None ELSE from[<<root, 0>>]

(* What the table the address leads to has for it at a level.              *)
Coarser(v, order) ==
  LET from[s \in (0 .. Len(tables)) \X (0 .. 3)] ==
        LET e == tables[s[1]][extract_indices(v, s[2])] IN
        IF s[2] = Leaf(order) THEN e.kind = "table"
        ELSE e.kind = "leaf" \/ (e.kind = "table" /\ from[<<e.at, s[2] + 1>>])
  IN  root # 0 /\ from[<<root, 0>>]

Client(v, p, order, count) ==
  /\ v % page_order_size(order) = 0
  /\ v .. v + count * page_order_size(order) - 1 \subseteq Page \ fixed
  /\ \A i \in 0 .. count - 1 : ~Coarser(v + i * page_order_size(order), order)
  /\ pages_map(v, p, order, count)

Next == \E v \in Page, p \in Physical, order \in 0 .. 2, count \in Counts : Client(v, p, order, count)

Spec == mmu_start /\ [][Next]_vars

-----------------------------------------------------------------------------
(* Properties                                                              *)

(* virt_to_phys looks for a block before it looks for a table, and the bit *)
(* it looks at is set in both.                                             *)
virt_to_phys(v) ==
  IF root = 0 \/ tables[root][extract_indices(v, 0)].kind = "none" THEN None
  ELSE LET e == tables[tables[root][extract_indices(v, 0)].at][extract_indices(v, 1)] IN
       CASE e.kind = "none" -> None
         [] e.kind = "leaf" -> e.at + (v % Span(1))
         [] e.kind = "table" -> <<"table", e.at, v % Span(1)>>

(* Whatever a call that runs out of pages leaves behind, every address     *)
(* leads to what it was last mapped to and to nothing else; every table is *)
(* reached by one entry; and the start of memory stays as it was, which is *)
(* also what virt_to_phys says of it.                                      *)
PagesMapped ==
  /\ \A v \in Page : Walk(v) = wanted[v]
  /\ \A v \in fixed : virt_to_phys(v) = v /\ wanted[v] = v
  /\ \A t \in root + 1 .. Len(tables) :
       root # 0 =>
         Cardinality({<<u, i>> \in (1 .. Len(tables)) \X Slots : tables[u][i] = [kind |-> "table", at |-> t]}) = 1
=============================================================================
