-------------------------------- MODULE MCTlb --------------------------------
(* The processor's TLB beside the kernel for TLC.  The frames and the user *)
(* roots are interchangeable.                                              *)
EXTENDS Tlb, TLC

Symmetry == Permutations(UserRoots) \cup Permutations(Frames)
=============================================================================
