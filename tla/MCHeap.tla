------------------------------- MODULE MCHeap -------------------------------
(* A heap arena of a few dozen units, with the header sizes of the code.   *)
EXTENDS Heap

(* What the theorems of HeapProofs take for granted.                       *)
ASSUME RequestAssumption == NoRequestWraps
=============================================================================
