------------------------------- MODULE MCPmm -------------------------------
(* The physical memory manager on a small machine: two modules, orders 0-2 *)
(* and a memory map whose free part is not aligned.                        *)
EXTENDS Pmm, TLC

MCSpan == [o \in 0 .. (MaxOrder - 1) |-> 2 ^ o]

(* One used page, one page for the metadata, six free pages.               *)
OneRegion == << [start |-> 0, size |-> 1, type |-> "USED"],
                [start |-> 1, size |-> 7, type |-> "FREE"] >>

(* An empty range, one that runs past the last page, part of a free block, *)
(* and a range over the used page, the metadata and two free blocks.       *)
MCRanges == {[start |-> 3, size |-> 0], [start |-> 6, size |-> 3],
             [start |-> 5, size |-> 1], [start |-> 0, size |-> 5]}

ClientSymmetry == Permutations(Client)
=============================================================================
