--------------------------- MODULE BuddyGeometry ---------------------------
(***************************************************************************)
(* The arithmetic of buddy blocks that the physical memory manager does on *)
(* addresses (modules/hnsorens/memory/pmm/pmm.c), in units of pages.       *)
(***************************************************************************)
EXTENDS Integers

CONSTANTS
  MaxOrder,    \* PMM_MAX_ORDER: the number of orders
  Span         \* 1UL << order, for each order: the pages of a block

Order == 0 .. (MaxOrder - 1)
TopOrder == MaxOrder - 1

(* The sizes double from one order to the next.                            *)
ASSUME GeometryAssumption ==
  /\ MaxOrder \in Nat \ {0}
  /\ Span \in [Order -> Nat \ {0}]
  /\ Span[0] = 1
  /\ \A o \in Order : o + 1 \in Order => Span[o + 1] = 2 * Span[o]

MinOf(S) == CHOOSE x \in S : \A y \in S : x <= y
MaxOf(S) == CHOOSE x \in S : \A y \in S : y <= x

(* The pages of the block of order o that starts at page b.                *)
Block(b, o) == b .. (b + Span[o] - 1)

(* idx & ~((1UL << o) - 1): the start of the aligned block around a page.  *)
Base(p, o) == p - (p % Span[o])

(* frame ^ block_bytes: the other half of the enclosing block.             *)
Buddy(b, o) == IF b % (2 * Span[o]) < Span[o] THEN b + Span[o] ELSE b - Span[o]
=============================================================================
