-------------------------------- MODULE Vmm ---------------------------------
(***************************************************************************)
(* The virtual memory manager, modules/hnsorens/memory/vmm/vmm.c: address  *)
(* spaces, each a page table and a set of areas, whose pages are backed by *)
(* frames from the physical memory manager.                                *)
(*                                                                         *)
(* Addresses and sizes are counted in pages.  The areas of a space are a   *)
(* set here and a binary search tree with a one-entry cache in the code    *)
(* (module VmaTree).  A page table is a function from pages to mappings    *)
(* (module PageTable); the frames of its lower levels are not counted, but *)
(* with TablesMayFail any page may find none left.  Which free frame the   *)
(* physical memory manager hands out is immaterial, and is the lowest here.*)
(*                                                                         *)
(* Calls are atomic: one processor, no interrupts, and the locks are       *)
(* stubs.  Clients use the spaces that exist, resize areas they allocated, *)
(* name at least one page to protect or to map a device, and leave the     *)
(* area of the boot loader alone.                                          *)
(***************************************************************************)
EXTENDS Integers, FiniteSets

CONSTANTS
  Top,            \* pages of an address space
  UserMin,        \* VMM_USER_SPACE_MIN
  UserMax,        \* VMM_USER_SPACE_MAX
  KernelMin,      \* where the kernel half begins
  FastMin,        \* from here on a hint may name an existing area
  BootPages,      \* boot_info->virtual_start
  FrameCount,     \* frames of physical memory
  NodesPerPage,   \* VMA_PER_PAGE and VMM_SPACE_PER_PAGE
  TablesMayFail,  \* whether a page table may find no frame for a lower level
  MaxSpaces,      \* bound on the spaces that exist at a time
  Flags, Types,   \* of the areas clients allocate
  NoExec,         \* the flags with MMU_NO_EXEC
  Hints, AllocSizes, ReserveSizes, FreeSizes, DeviceSizes, ProtectSizes,
  Growth,         \* by how much clients let areas grow
  UnknownRoots,   \* pages of their own that clients name as roots
  FreeFirst       \* whether clients destroy a space only when no memory is mapped in it

Page == 0 .. (Top - 1)
Frame == 0 .. (FrameCount - 1)
KernelRoot == 0
DEVICE == -1                         \* a frame outside physical memory
NoMapping == [frame |-> -2, flags |-> "none"]
EmptyTable == [p \in Page |-> NoMapping]

ASSUME VmmAssumption ==
  /\ {Top, UserMin, UserMax, KernelMin, FastMin, BootPages, FrameCount, NodesPerPage, MaxSpaces} \subseteq Nat
  /\ 0 < UserMin /\ UserMin <= UserMax /\ UserMax <= KernelMin /\ KernelMin <= Top
  /\ 0 < BootPages /\ BootPages <= Top /\ Flags \cap {"boot", "none"} = {}
  /\ FrameCount >= 3 /\ NodesPerPage >= 2
  /\ NoExec \subseteq Flags /\ Hints \subseteq Nat /\ UnknownRoots \cap Frame = {}
  /\ AllocSizes \cup FreeSizes \subseteq Nat
  /\ ReserveSizes \cup DeviceSizes \cup ProtectSizes \cup Growth \subseteq Nat \ {0}

VARIABLES
  mem,     \* [free: frames, nodes: free vm_area nodes, descs: free vmm_space nodes, slabs: frames of nodes]
  areas,   \* the registered spaces, by root: their areas
  pt       \* the page tables that exist, by root

vars == <<mem, areas, pt>>

Area(base, size, flags, type, is_paged) ==
  [base |-> base, size |-> size, flags |-> flags, type |-> type, is_paged |-> is_paged]
Extent(a) == a.base .. (a.base + a.size - 1)

(* vmm_init: the kernel's table, one area, a page of each kind of node.    *)
Init ==
  /\ mem = [free |-> 3 .. (FrameCount - 1), nodes |-> NodesPerPage - 1,
            descs |-> NodesPerPage - 1, slabs |-> {1, 2}]
  /\ areas = [r \in {KernelRoot} |-> {Area(0, BootPages, "boot", "DATA", TRUE)}]
  /\ pt = [r \in {KernelRoot} |->
             [p \in Page |-> IF p < BootPages THEN [frame |-> DEVICE, flags |-> "boot"] ELSE NoMapping]]

-----------------------------------------------------------------------------
(* Frames and nodes                                                        *)

Lowest(S) == CHOOSE f \in S : \A g \in S : f <= g

(* The outcomes, one or none, of taking a node.                            *)
Node(m, kind) ==
  IF m[kind] > 0 THEN {[m EXCEPT ![kind] = @ - 1]}
  ELSE IF m.free = {} THEN {}
  ELSE {[m EXCEPT !.free = @ \ {Lowest(m.free)}, !.slabs = @ \cup {Lowest(m.free)}, ![kind] = NodesPerPage - 1]}
vma_alloc(m) == Node(m, "nodes")
vmm_space_meta_alloc(m) == Node(m, "descs")
vma_free(m) == [m EXCEPT !.nodes = @ + 1]

-----------------------------------------------------------------------------
(* Areas                                                                   *)

Holds(root, p) == {a \in areas[root] : p \in Extent(a)}
find_vma(root, p) == CHOOSE a \in Holds(root, p) : TRUE

Fits(root, p, n) == \A q \in p .. (p + n - 1) : Holds(root, q) = {}

(* The lowest hole of n pages from the hint on.                            *)
HolesFrom(root, hint, n) ==
  LET kernel == hint >= KernelMin
      first == IF ~kernel /\ hint < UserMin THEN UserMin ELSE hint
      limit == IF kernel THEN Top ELSE UserMax
  IN  {p \in first .. (limit - n) : Fits(root, p, n)}

(* Faulty variant: the last page of a range is not looked up.              *)
BlockedAtStart(root, p, n) == Holds(root, p) # {}
Blocked(root, p, n) == Holds(root, p) # {} \/ Holds(root, p + n - 1) # {}

-----------------------------------------------------------------------------
(* Page tables                                                             *)

(* The numbers of pages after which mapping n frames at p may stop.        *)
Mappable(m, table, p, n) ==
  {k \in 0 .. n :
     /\ k <= Cardinality(m.free)
     /\ \A i \in 0 .. (k - 1) : table[p + i] = NoMapping
     /\ \/ k = n
        \/ k = Cardinality(m.free)
        \/ table[p + k] # NoMapping
        \/ TablesMayFail}

(* Memory and table once k free frames are mapped at p.                    *)
Mapped(m, table, p, k, flags) ==
  LET upto[i \in 0 .. k] ==
        IF i = 0 THEN [mem |-> m, table |-> table]
        ELSE LET so_far == upto[i - 1]
                 f == Lowest(so_far.mem.free)
             IN  [mem |-> [so_far.mem EXCEPT !.free = @ \ {f}],
                  table |-> [so_far.table EXCEPT ![p + i - 1] = [frame |-> f, flags |-> flags]]]
  IN  upto[k]

Unmapped(table, R) == [p \in Page |-> IF p \in R THEN NoMapping ELSE table[p]]

(* What pmm.release takes back of the frames translate finds: for a page   *)
(* with MMU_NO_EXEC it returns an address with bit 54 set, which is refused*)
(* as beyond the end of memory.                                            *)
FramesIn(table, R) == {table[p].frame : p \in {q \in R : table[q].flags \notin NoExec}} \cap Frame

Recoloured(table, R, flags) == [p \in Page |-> IF p \in R THEN [table[p] EXCEPT !.flags = flags] ELSE table[p]]

-----------------------------------------------------------------------------
(* Spaces                                                                  *)

(* A call that is refused with status, or has nothing to do.               *)
Return(status) == UNCHANGED vars

vmm_space_create ==
  /\ Cardinality(DOMAIN areas) < MaxSpaces
  /\ \/ mem.free = {} /\ Return("ENOMEM")
     \/ /\ mem.free # {}
        /\ LET root == Lowest(mem.free)
               outcomes == vmm_space_meta_alloc([mem EXCEPT !.free = @ \ {root}])
           IN
           \/ outcomes = {} /\ Return("ENOMEM")
           \/ /\ mem' \in outcomes
              /\ areas' = [r \in DOMAIN areas \cup {root} |-> IF r = root THEN {} ELSE areas[r]]
              /\ pt' = [r \in DOMAIN pt \cup {root} |-> IF r = root THEN EmptyTable ELSE pt[r]]

(* The areas' nodes, the descriptor and the table are given back, but not  *)
(* the frames the table maps.  Faulty variant: the nodes are not.          *)
NodesKept(root) == 0
NodesBack(root) == Cardinality(areas[root])

vmm_space_destroy(root) ==
  /\ root \notin {KernelRoot} \cup UnknownRoots
  /\ FreeFirst => \A p \in Page : pt[root][p].frame \notin Frame
  /\ mem' = [mem EXCEPT !.free = @ \cup {root}, !.nodes = @ + NodesBack(root), !.descs = @ + 1]
  /\ areas' = [r \in DOMAIN areas \ {root} |-> areas[r]]
  /\ pt' = [r \in DOMAIN pt \ {root} |-> pt[r]]

(* get_space, which every call begins with, registers a root it does not   *)
(* know, and clears its page.                                              *)
vmm_query(root) ==
  \/ root \in DOMAIN areas /\ Return("OK or EINVAL")
  \/ root \notin DOMAIN areas /\ vmm_space_meta_alloc(mem) = {} /\ Return("EINVAL")
  \/ /\ root \notin DOMAIN areas /\ Cardinality(DOMAIN areas) < MaxSpaces
     /\ mem' \in vmm_space_meta_alloc(mem)
     /\ areas' = [r \in DOMAIN areas \cup {root} |-> IF r = root THEN {} ELSE areas[r]]
     /\ pt' = [r \in DOMAIN pt \cup {root} |-> IF r = root THEN EmptyTable ELSE pt[r]]

-----------------------------------------------------------------------------
(* Areas come and go                                                       *)

SetSpace(root, as, table) ==
  /\ areas' = [areas EXCEPT ![root] = as]
  /\ pt' = [pt EXCEPT ![root] = table]

(* The area a hint names, if it will do.                                   *)
Fast(root, hint, n, type) == {a \in Holds(root, hint) : hint >= FastMin /\ a.type = type /\ a.size >= n}

(* When a page cannot be had, vmm_free is called for the pages mapped so   *)
(* far, but finds no area there and leaves them mapped.                    *)
vmm_allocate(root, hint, n, flags, type) ==
  LET holes == HolesFrom(root, hint, n)
      p == Lowest(holes)
  IN
  \/ n = 0 /\ Return("EINVAL")
  \/ n > 0 /\ Fast(root, hint, n, type) # {} /\ Return("OK")
  \/ n > 0 /\ Fast(root, hint, n, type) = {} /\ holes = {} /\ Return("ENOMEM")
  \/ /\ n > 0 /\ Fast(root, hint, n, type) = {} /\ holes # {}
     /\ \/ vma_alloc(mem) = {} /\ Return("ENOMEM")
        \/ \E m \in vma_alloc(mem) : \E k \in Mappable(m, pt[root], p, n) :
             LET done == Mapped(m, pt[root], p, k, flags) IN
             \/ /\ k = n
                /\ mem' = done.mem
                /\ SetSpace(root, areas[root] \cup {Area(p, n, flags, type, TRUE)}, done.table)
             \/ /\ k < n
                /\ mem' = vma_free(done.mem)
                /\ SetSpace(root, areas[root], done.table)

vmm_reserve(root, p, n) ==
  \/ p = 0 /\ Return("EINVAL")
  \/ p # 0 /\ Blocked(root, p, n) /\ Return("EEXIST")
  \/ p # 0 /\ ~Blocked(root, p, n) /\ vma_alloc(mem) = {} /\ Return("ENOMEM")
  \/ /\ p # 0 /\ ~Blocked(root, p, n)
     /\ mem' \in vma_alloc(mem)
     /\ SetSpace(root, areas[root] \cup {Area(p, n, "none", "GUARD", FALSE)}, pt[root])

(* The device's frames are mapped one by one; what was mapped before one   *)
(* fails stays mapped.                                                     *)
DeviceMappable(table, p, n) ==
  {k \in 0 .. n :
     /\ \A i \in 0 .. (k - 1) : table[p + i] = NoMapping
     /\ k = n \/ TablesMayFail \/ table[p + k] # NoMapping}

vmm_map_external(root, p, n, flags) ==
  \/ Blocked(root, p, n) /\ Return("EEXIST")
  \/ ~Blocked(root, p, n) /\ vma_alloc(mem) = {} /\ Return("ENOMEM")
  \/ /\ ~Blocked(root, p, n)
     /\ \E m \in vma_alloc(mem) : \E k \in DeviceMappable(pt[root], p, n) :
          LET table == [q \in Page |-> IF q \in p .. (p + k - 1)
                                       THEN [frame |-> DEVICE, flags |-> flags] ELSE pt[root][q]]
          IN
          \/ k = n /\ mem' = m /\ SetSpace(root, areas[root] \cup {Area(p, n, flags, "MMIO", FALSE)}, table)
          \/ k < n /\ mem' = vma_free(m) /\ SetSpace(root, areas[root], table)

(* What is left of area a without pages R at its front, back or both.      *)
(* Faulty variant: the piece behind them keeps the size of the area.       *)
PiecesKeepSize(a, p, n) == {b \in {[a EXCEPT !.size = p - a.base], [a EXCEPT !.base = p + n]} : b.size > 0}
Pieces(a, p, n) ==
  {b \in {[a EXCEPT !.size = p - a.base], [a EXCEPT !.base = p + n, !.size = a.base + a.size - (p + n)]} :
     b.size > 0}

(* Only the pages of paged areas are unmapped.  The frames are released    *)
(* before the node of a second piece is needed.                            *)
vmm_free(root, p, n) ==
  LET a == find_vma(root, p)
      valid == Holds(root, p) # {} /\ p + n <= a.base + a.size
      R == IF a.is_paged THEN p .. (p + n - 1) ELSE {}
      table == Unmapped(pt[root], R)
      m == [mem EXCEPT !.free = @ \cup FramesIn(pt[root], R)]
      rest == (areas[root] \ {a}) \cup Pieces(a, p, n)
      split == p # a.base /\ p + n # a.base + a.size
  IN
  \/ ~valid /\ Return("EINVAL")
  \/ valid /\ p = a.base /\ n = a.size /\ mem' = vma_free(m) /\ SetSpace(root, rest, table)
  \/ valid /\ ~split /\ n # a.size /\ mem' = m /\ SetSpace(root, rest, table)
  \/ valid /\ split /\ vma_alloc(m) = {} /\ mem' = m /\ SetSpace(root, areas[root], table)
  \/ valid /\ split /\ mem' \in vma_alloc(m) /\ SetSpace(root, rest, table)

(* Only the first page behind the area is looked up.  Pages mapped before  *)
(* one cannot be had stay mapped.                                          *)
Grow(root, a, n) ==
  LET p == a.base + a.size
      more == n - a.size
  IN
  \/ (Holds(root, p) # {} \/ a.base + n > UserMax) /\ Return("ENOMEM")
  \/ /\ Holds(root, p) = {} /\ a.base + n <= UserMax
     /\ \E k \in Mappable(mem, pt[root], p, more) :
          LET done == Mapped(mem, pt[root], p, k, a.flags) IN
          /\ mem' = done.mem
          /\ SetSpace(root, IF k = more THEN (areas[root] \ {a}) \cup {[a EXCEPT !.size = n]} ELSE areas[root],
                      done.table)

vmm_resize(root, a, n) ==
  \/ n = a.size /\ Return("OK")
  \/ n < a.size /\ vmm_free(root, a.base + n, a.size - n)
  \/ n > a.size /\ Grow(root, a, n)

(* The outcomes of taking the nodes protect needs: none for a whole area,  *)
(* one for either end, two for the middle, whose left part reuses the node *)
(* of the old area.                                                        *)
ProtectNodes(a, p, n) ==
  LET front == p = a.base
      back == p + n = a.base + a.size
  IN  IF front /\ back THEN {mem}
      ELSE IF front \/ back THEN vma_alloc(mem)
      ELSE UNION {vma_alloc(m) : m \in vma_alloc(mem)}

(* Taking one of two nodes may leave a new page of nodes behind.           *)
AfterNoNodes ==
  IF vma_alloc(mem) = {} THEN mem ELSE vma_free(CHOOSE m \in vma_alloc(mem) : TRUE)

(* The table is written first, up to the first page that is not mapped.    *)
vmm_protect(root, p, n, flags) ==
  LET a == find_vma(root, p)
      valid == Holds(root, p) # {} /\ p + n <= a.base + a.size
      done == {q \in p .. (p + n - 1) : \A i \in p .. q : pt[root][i] # NoMapping}
      table == Recoloured(pt[root], done, flags)
      whole == done = p .. (p + n - 1)
  IN
  \/ ~valid /\ Return("EINVAL")
  \/ valid /\ ~whole /\ SetSpace(root, areas[root], table) /\ UNCHANGED mem
  \/ /\ valid /\ whole /\ ProtectNodes(a, p, n) = {}
     /\ mem' = AfterNoNodes /\ SetSpace(root, areas[root], table)
  \/ /\ valid /\ whole
     /\ mem' \in ProtectNodes(a, p, n)
     /\ SetSpace(root, (areas[root] \ {a}) \cup Pieces(a, p, n)
                         \cup {[a EXCEPT !.base = p, !.size = n, !.flags = flags]}, table)

-----------------------------------------------------------------------------
Clients(root) == {p \in Page : root = KernelRoot => p >= BootPages}

Next ==
  \/ vmm_space_create
  \/ \E root \in DOMAIN areas :
       \/ vmm_space_destroy(root)
       \/ \E hint \in Hints, n \in AllocSizes, flags \in Flags, type \in Types : vmm_allocate(root, hint, n, flags, type)
       \/ \E p \in Clients(root), n \in ReserveSizes : p + n <= Top /\ vmm_reserve(root, p, n)
       \/ \E p \in Clients(root), n \in FreeSizes : vmm_free(root, p, n)
       \/ \E p \in Clients(root), n \in DeviceSizes, flags \in Flags :
            p + n <= Top /\ vmm_map_external(root, p, n, flags)
       \/ \E p \in Clients(root), n \in ProtectSizes, flags \in Flags : vmm_protect(root, p, n, flags)
       \/ \E a \in {b \in areas[root] : b.is_paged /\ b.base \in Clients(root)} :
          \E n \in 0 .. a.size \cup {a.size + g : g \in Growth} : vmm_resize(root, a, n)
  \/ \E root \in DOMAIN areas \cup UnknownRoots : vmm_query(root)

Spec == Init /\ [][Next]_vars

-----------------------------------------------------------------------------
(* Properties                                                              *)

(* The pages of a space that some area covers.                             *)
Covered(root) == UNION {Extent(a) : a \in areas[root]}
MappedPages(root) == {p \in Page : pt[root][p] # NoMapping}

(* Every variable keeps its type.                                          *)
TypeOK ==
  /\ mem \in [free : SUBSET Frame, nodes : Nat, descs : Nat, slabs : SUBSET Frame]
  /\ DOMAIN areas = DOMAIN pt /\ DOMAIN pt \subseteq Frame \cup UnknownRoots
  /\ \A root \in DOMAIN areas : \A a \in areas[root] : Extent(a) \subseteq Page /\ Extent(a) # {}
  /\ \A root \in DOMAIN pt : pt[root] \in [Page -> [frame : Frame \cup {DEVICE, -2}, flags : Flags \cup {"boot", "none"}]]

(* No two areas of a space share a page, whatever was reserved, grown,     *)
(* split and freed.                                                        *)
AreasDisjoint ==
  \A root \in DOMAIN areas : \A a, b \in areas[root] : a # b => Extent(a) \cap Extent(b) = {}

(* Every page of a paged area is mapped to a frame, even when memory runs  *)
(* out in the middle of a call: client code never faults in its own area.  *)
BackedByFrames ==
  \A root \in DOMAIN areas : \A a \in areas[root] :
    a.is_paged /\ a.flags # "boot" => \A p \in Extent(a) : pt[root][p].frame \in Frame

(* No page of a guard area is mapped.                                      *)
GuardsStayUnmapped ==
  \A root \in DOMAIN areas : \A a \in areas[root] :
    a.type = "GUARD" => Extent(a) \cap MappedPages(root) = {}

(* A mapped page lies in an area, so that some call can unmap it.          *)
MappedPagesTracked == \A root \in DOMAIN areas : MappedPages(root) \subseteq Covered(root)

(* The flags of an area are those in the table.                            *)
FlagsAgree ==
  \A root \in DOMAIN areas : \A a \in areas[root] :
    \A p \in Extent(a) \cap MappedPages(root) : pt[root][p].flags = a.flags

(* So what the areas say of a space is what its table does.                *)
SpacesCoherent == AreasDisjoint /\ GuardsStayUnmapped /\ MappedPagesTracked /\ FlagsAgree

(* Each frame has one use: free, a root, a page of nodes, or mapped at one *)
(* page of one space.                                                      *)
Mappings == {m \in (DOMAIN pt) \X Page : pt[m[1]][m[2]].frame \in Frame}
FrameOf(m) == pt[m[1]][m[2]].frame
FramesExclusive ==
  /\ mem.free \cap (DOMAIN pt \cup mem.slabs) = {} /\ DOMAIN pt \cap mem.slabs = {}
  /\ \A m \in Mappings : FrameOf(m) \notin mem.free \cup DOMAIN pt \cup mem.slabs
  /\ \A m1, m2 \in Mappings : m1 # m2 => FrameOf(m1) # FrameOf(m2)

(* Every frame is in one of those uses.                                    *)
NoFrameLost == Frame \subseteq mem.free \cup DOMAIN pt \cup mem.slabs \cup {FrameOf(m) : m \in Mappings}

(* Every node of the pages taken for nodes is free or describes an area or *)
(* a space, even when a call needs two nodes and there is only one.        *)
NodesConserved ==
  LET used == Cardinality({u \in (DOMAIN areas) \X UNION {areas[r] : r \in DOMAIN areas} : u[2] \in areas[u[1]]})
  IN  mem.nodes + used + mem.descs + Cardinality(DOMAIN areas) = NodesPerPage * Cardinality(mem.slabs)

(* What clients have to keep to: no pages that are not executable, whose   *)
(* frames the code mistakes; to free what they mapped before they destroy a*)
(* space; and to reserve, map and grow by ranges so short that looking at  *)
(* both ends is enough.                                                    *)
Executable == NoExec = {}
Lossless == Executable /\ FreeFirst
Careful == ReserveSizes \cup DeviceSizes \subseteq {1, 2} /\ Growth \subseteq {1}

(* What the areas say is also what the table does if they map no devices,  *)
(* tables do not fail, and there is memory for any one call: its pages and *)
(* a node, or two nodes.                                                   *)
Orderly == Executable /\ Careful /\ ~TablesMayFail /\ DeviceSizes = {} /\ "GUARD" \notin Types
Plenty == Cardinality(mem.free) >= 2 /\ \A n \in AllocSizes : Cardinality(mem.free) > n

(* Whatever fails halfway, no frame has two uses; and for clients that keep*)
(* to it every page of a paged area has a frame, no frame is lost, areas do*)
(* not overlap, and every node is accounted for.                           *)
BackedAndAccounted ==
  /\ TypeOK /\ FramesExclusive
  /\ Executable => BackedByFrames
  /\ Lossless => NoFrameLost
  /\ Careful => AreasDisjoint /\ NodesConserved

(* api/vmm.h: allocate takes an unallocated window.  The area of one client*)
(* of a created space never answers the call of another.                   *)
NoAreaShared ==
  \A root \in DOMAIN areas \ {KernelRoot} : \A hint \in Hints, n \in AllocSizes, type \in Types :
    n > 0 => Fast(root, hint, n, type) = {}

(* api/vmm.h: a space that was not created is not found.                   *)
OnlyCreateRegisters ==
  [][\A root \in DOMAIN areas' \ DOMAIN areas : root \in mem.free]_vars

(* Every call is a step of the abstract address spaces.                    *)
NoUse == <<"none", "none", FALSE>>
UseOf(root, p) ==
  IF Holds(root, p) = {} THEN NoUse
  ELSE LET a == find_vma(root, p) IN <<a.type, a.flags, a.is_paged>>
Spaces == INSTANCE AddressSpace WITH
  Unused <- NoUse,
  view <- [root \in DOMAIN areas |-> [p \in Page |-> UseOf(root, p)]]
ImplementsAddressSpace == Spaces!Spec
=============================================================================
