---------------------------- MODULE BootMemoryMap ----------------------------
(***************************************************************************)
(* How the boot loader leaves the firmware and learns which memory is free,*)
(* boot/uefi/boot_services.c: ExitBootServices copies the memory map of the*)
(* firmware until the firmware accepts its key, and GetKernelMemoryMap     *)
(* sorts the copy, takes a page for the kernel's map and merges the copy   *)
(* into that.                                                              *)
(*                                                                         *)
(* Memory is counted in pages and buffers in descriptors.  The memory types*)
(* of UEFI fall into the three classes the code tells apart.  The firmware *)
(* is modelled from what the code asks of it: its map may change until it  *)
(* is left, and a key is good as long as the map has not changed since it  *)
(* was given.                                                              *)
(***************************************************************************)
EXTENDS Integers, SequencesExt

CONSTANTS
  Maps    \* the maps the firmware may report: sequences of [start, pages, type]

Conventional == "conventional"   \* EfiConventionalMemory
Reclaimed == "reclaimed"         \* boot services and loader memory, free from now on
Kept == "kept"                   \* everything else
Slack == 2                       \* the descriptors the buffer has to spare

Descriptor(d) == d.start \in Nat /\ d.pages \in Nat /\ d.type \in {Conventional, Reclaimed, Kept}
PagesOf(d) == d.start .. (d.start + d.pages - 1)

VARIABLES
  pc,         \* where ExitBootServices and GetKernelMemoryMap are, or how they ended
  firmware,   \* the firmware's memory map
  current,    \* the map has not changed since the loader was given its key
  size,       \* MemoryMap.MemoryMapSize
  map,        \* MemoryMap.MemoryMap, the loader's copy; then sorted, then carved
  work,       \* the calls of SortEfiMemoryMap still to make: [low, high]
  mapAt,      \* MemoryMapAddr, the page the kernel's map is written to
  regions     \* the kernel's map: [start, pages, free]

vars == <<pc, firmware, current, size, map, work, mapAt, regions>>
later == <<work, mapAt, regions>>

-----------------------------------------------------------------------------
(* The firmware.                                                           *)

InFirmware == pc \in {"size", "pool", "get", "exit", "get again", "exit again"}

FirmwareChanges ==
  /\ InFirmware
  /\ firmware' \in Maps \ {firmware} /\ current' = FALSE
  /\ UNCHANGED <<pc, size, map, later>>

(* GetMemoryMap with a buffer of size descriptors: it fills it or says how *)
(* many it wants.                                                          *)
GetMemoryMap ==
  /\ size' = Len(firmware)
  /\ IF Len(firmware) <= size
     THEN map' = firmware /\ current' = TRUE
     ELSE UNCHANGED <<map, current>>

-----------------------------------------------------------------------------
(* ExitBootServices.                                                       *)

Init ==
  /\ pc = "size" /\ firmware \in Maps /\ current = FALSE /\ size = 0 /\ map = <<>>
  /\ work = <<>> /\ mapAt = -1 /\ regions = <<>>

GetSize ==
  /\ pc = "size" /\ pc' = "pool"
  /\ GetMemoryMap
  /\ UNCHANGED <<firmware, later>>

(* Allocating the buffer changes the map.                                  *)
AllocatePool ==
  /\ pc = "pool" /\ pc' \in {"get", "failed"}
  /\ size' = size + Slack
  /\ firmware' \in Maps /\ current' = FALSE
  /\ UNCHANGED <<map, later>>

GetMap ==
  /\ pc = "get" /\ pc' = IF Len(firmware) <= size THEN "exit" ELSE "failed"
  /\ GetMemoryMap
  /\ UNCHANGED <<firmware, later>>

StartSort ==
  pc' = "sort" /\ work' = <<[low |-> 0, high |-> Len(map) - 1]>>

Exit ==
  /\ pc = "exit"
  /\ IF current THEN StartSort ELSE pc' = "get again" /\ UNCHANGED work
  /\ UNCHANGED <<firmware, current, size, map, mapAt, regions>>

(* The buffer counts as being as long as the map that was in it.           *)
GetMapAgain ==
  /\ pc = "get again" /\ pc' = IF Len(firmware) <= size THEN "exit again" ELSE "failed"
  /\ GetMemoryMap
  /\ UNCHANGED <<firmware, later>>

ExitAgain ==
  /\ pc = "exit again"
  /\ IF current THEN StartSort ELSE pc' = "failed" /\ UNCHANGED work
  /\ UNCHANGED <<firmware, current, size, map, mapAt, regions>>

-----------------------------------------------------------------------------
(* SortEfiMemoryMap; entry k of the array is m[k + 1].                     *)

SwapEfiMemoryRegions(m, i, j) == [m EXCEPT ![i + 1] = m[j + 1], ![j + 1] = m[i + 1]]

(* Partition: the entries up to the pivot, the last one, come first.       *)
Partition(m, low, high) ==
  LET pivot == m[high + 1].start
      scan == FoldLeft(LAMBDA s, j : IF s.m[j + 1].start <= pivot
                                     THEN [i |-> s.i + 1, m |-> SwapEfiMemoryRegions(s.m, s.i + 1, j)]
                                     ELSE s,
                       [i |-> low - 1, m |-> m],
                       [k \in 1 .. (high - low) |-> low + k - 1])
  IN  [index |-> scan.i + 1, m |-> SwapEfiMemoryRegions(scan.m, scan.i + 1, high)]

(* One call.  The bounds are unsigned: if the pivot comes to index 0 the   *)
(* upper bound of the next call wraps, and it sorts all of memory.         *)
SortEfiMemoryMap ==
  /\ pc = "sort" /\ work # <<>>
  /\ LET call == work[1]
         part == Partition(map, call.low, call.high)
     IN  IF call.high < 0
         THEN pc' = "wild" /\ UNCHANGED <<map, work>>
         ELSE IF call.low < call.high
         THEN /\ map' = part.m
              /\ work' = <<[low |-> call.low, high |-> part.index - 1],
                           [low |-> part.index + 1, high |-> call.high]>> \o Tail(work)
              /\ UNCHANGED pc
         ELSE work' = Tail(work) /\ UNCHANGED <<pc, map>>
  /\ UNCHANGED <<firmware, current, size, mapAt, regions>>

-----------------------------------------------------------------------------
(* GetKernelMemoryMap.                                                     *)

(* A region gives up its first page.  Faulty variant: it keeps its length. *)
ShiftedRegion(d) == [d EXCEPT !.start = @ + 1]
RegionLessOne(d) == [d EXCEPT !.start = @ + 1, !.pages = @ - 1]

(* Every conventional region gives up its first page; the map goes to the  *)
(* page of the last one.  With none its address is never set.              *)
Carve ==
  /\ pc = "sort" /\ work = <<>>
  /\ LET found == {k \in DOMAIN map : map[k].type = Conventional} IN
     IF found = {}
     THEN pc' = "wild" /\ UNCHANGED <<map, mapAt>>
     ELSE /\ pc' = "merge"
          /\ map' = [k \in DOMAIN map |-> IF k \in found THEN RegionLessOne(map[k]) ELSE map[k]]
          /\ mapAt' = map[Max(found)].start
  /\ UNCHANGED <<firmware, current, size, work, regions>>

(* A descriptor extends the last region or opens a new one.                *)
Extend(list, d) ==
  LET free == d.type # Kept IN
  IF list # <<>> /\ Last(list).free = free
  THEN [list EXCEPT ![Len(list)].pages = @ + d.pages]
  ELSE Append(list, [start |-> d.start, pages |-> d.pages, free |-> free])

Merge ==
  /\ pc = "merge" /\ pc' = "done"
  /\ regions' = FoldLeft(LAMBDA list, d : Extend(list, d), <<>>, map)
  /\ UNCHANGED <<firmware, current, size, map, work, mapAt>>

Next ==
  \/ FirmwareChanges
  \/ GetSize \/ AllocatePool \/ GetMap \/ Exit \/ GetMapAgain \/ ExitAgain
  \/ SortEfiMemoryMap \/ Carve \/ Merge

Spec == Init /\ [][Next]_vars

-----------------------------------------------------------------------------
(* Properties.                                                             *)

TypeOK ==
  /\ InFirmware \/ pc \in {"sort", "merge", "done", "failed", "wild"}
  /\ current \in BOOLEAN /\ size \in Nat
  /\ \A d \in Range(firmware) : Descriptor(d) /\ d.pages > 0
  /\ \A i, j \in DOMAIN firmware : i # j => PagesOf(firmware[i]) \cap PagesOf(firmware[j]) = {}
  /\ \A k \in DOMAIN map : Descriptor(map[k])
  /\ \A k \in DOMAIN work : /\ work[k].low \in 0 .. Len(map)
                            /\ work[k].high \in -1 .. (Len(map) - 1)
  /\ mapAt \in Nat \cup {-1}
  /\ \A k \in DOMAIN regions : regions[k].start \in Nat /\ regions[k].pages \in Nat

InOrder(m) == \A i, j \in DOMAIN m : i < j => m[i].start < m[j].start

(* The map that is converted is the one the firmware had when it was left, *)
(* not one it replaced while the loader held a stale key; sorting keeps    *)
(* every descriptor and puts them in order of address (ExitBootServices,   *)
(* SortEfiMemoryMap).                                                      *)
MapIsCurrent ==
  /\ pc = "sort" => Range(map) = Range(firmware) /\ Len(map) = Len(firmware)
  /\ pc = "sort" /\ work = <<>> => InOrder(map)

Listed(free) == UNION {PagesOf(regions[k]) : k \in {i \in DOMAIN regions : regions[i].free = free}}
Held(types) == UNION {PagesOf(firmware[k]) : k \in {i \in DOMAIN firmware : firmware[i].type \in types}}
Gapless == \A p \in 0 .. Max({d.start + d.pages : d \in Range(firmware)}) - 1 :
             p \in Held({Conventional, Reclaimed, Kept})

(* The map that is converted is the last one; and what the kernel's map    *)
(* then says of memory (GetKernelMemoryMap): it lists no page twice, no    *)
(* page as free that the firmware keeps, and no free region right behind   *)
(* another, whatever the holes in the firmware's map; and if there are none*)
(* it lists every page the firmware keeps, and all the others but one of   *)
(* each conventional region.  The loader makes such a map unless the       *)
(* firmware's is out of order or has no conventional memory.               *)
MapIsSound ==
  /\ TypeOK /\ MapIsCurrent
  /\ pc = "done" =>
       /\ \A i, j \in DOMAIN regions : i # j => PagesOf(regions[i]) \cap PagesOf(regions[j]) = {}
       /\ Listed(TRUE) \cap Held({Kept}) = {}
       /\ \A i, j \in DOMAIN regions :
            regions[i].free /\ regions[j].free /\ i # j => regions[i].start + regions[i].pages # regions[j].start
       /\ Gapless =>
            /\ Held({Kept}) \subseteq Listed(FALSE)
            /\ Cardinality(Listed(TRUE)) + Cardinality({d \in Range(firmware) : d.type = Conventional})
                 = Cardinality(Held({Conventional, Reclaimed}))
  /\ pc = "wild" => ~InOrder(firmware) \/ \A d \in Range(firmware) : d.type # Conventional

(* Stated for the record and checked by no run: the page the kernel's map  *)
(* is in is not listed as free.  It is when the last conventional region   *)
(* follows memory the loader reclaims.                                     *)
MapPageKept == pc = "done" => mapAt \notin Listed(TRUE)

=============================================================================
