-------------------------------- MODULE MCVmm -------------------------------
(***************************************************************************)
(* The virtual memory manager for TLC, in one of three settings chosen at  *)
(* the start: frames and nodes that run out at any point, page tables that *)
(* fail, device areas, and the kernel's half of the addresses; memory for  *)
(* every area of one created space; or the tree of areas of a small space. *)
(***************************************************************************)
EXTENDS Vmm

VARIABLES
  setting,
  ampleMem, ampleAreas, amplePt,      \* Vmm, with memory for all
  exists, node, head, cache, spare    \* VmaTree

ample == <<ampleMem, ampleAreas, amplePt>>
tree == <<exists, node, head, cache, spare>>

Ample == INSTANCE Vmm WITH
  UserMax <- 5, KernelMin <- 5, BootPages <- 5, FrameCount <- 11, NodesPerPage <- 8, TablesMayFail <- FALSE,
  Flags <- {"RW", "RO"}, AllocSizes <- {0, 1, 2}, ReserveSizes <- {2}, DeviceSizes <- {}, UnknownRoots <- {},
  mem <- ampleMem, areas <- ampleAreas, pt <- amplePt

Tree == INSTANCE VmaTree WITH
  Top <- 4, Nodes <- 4, Flags <- {"RW", "RO"}, AllocSizes <- {1}, ReserveSizes <- {1}, FreeSizes <- {1, 2},
  ProtectSizes <- {1}, free <- spare

ASSUME TreeAssumption == Tree!VmaTreeAssumption

MCInit == setting \in {"scarce", "ample", "tree"} /\ Init /\ Ample!Init /\ Tree!Init

MCNext ==
  \/ setting = "scarce" /\ Next /\ UNCHANGED <<setting, ample, tree>>
  \/ setting = "ample" /\ Ample!Next /\ UNCHANGED <<setting, vars, tree>>
  \/ setting = "tree" /\ Tree!Next /\ UNCHANGED <<setting, vars, ample>>

MCSpec == MCInit /\ [][MCNext]_<<vars, setting, ample, tree>>

(* Every node is in the tree or in the pool, in order, and lookups find    *)
(* what is there, whatever the cache names: VmaTree.                       *)
TreeExact == setting = "tree" => Tree!TreeExact

(* States that differ in which node holds which area behave alike, and a   *)
(* node of the pool is read only if the cache still names it: TLC sees the *)
(* linked nodes by base.                                                   *)
BaseOf(v) == IF v = Tree!NULL THEN -1 ELSE node[v].base
Content(v) == [node[v] EXCEPT !.prev = BaseOf(node[v].prev), !.next = BaseOf(node[v].next)]
TreeShape ==
  <<exists, BaseOf(head), {Content(v) : v \in Tree!Node \ spare}, Cardinality(spare), cache \in spare,
    IF cache = Tree!NULL THEN <<>> ELSE <<node[cache].base, node[cache].size, node[cache].flags>>>>
Shape == <<setting, vars, ample, IF setting = "tree" THEN TreeShape ELSE tree, TreeExact>>

-----------------------------------------------------------------------------
(* With memory for all, of which some is left for any call, what the areas *)
(* say of a space is what its table does, and everything is accounted for: *)
(* Vmm.                                                                    *)
CoherentSpaces == setting = "ample" => Ample!Plenty /\ Ample!SpacesCoherent /\ Ample!BackedAndAccounted

(* Every call, on the set of areas with memory for all or on the tree, is a*)
(* step of the abstract address space: Vmm, VmaTree.                       *)
ImplementsSpaces == Ample!ImplementsAddressSpace /\ Tree!ImplementsAddressSpace
=============================================================================
