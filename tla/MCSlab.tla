------------------------------- MODULE MCSlab -------------------------------
(***************************************************************************)
(* The object cache on a small machine for TLC.                            *)
(***************************************************************************)
EXTENDS Slab

ASSUME RequestAssumption == AddressesReturned /\ AlignmentsDividePages /\ NoRequestWraps
=============================================================================
