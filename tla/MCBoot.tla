------------------------------- MODULE MCBoot -------------------------------
(***************************************************************************)
(* The boot loader, for TLC: starting the modules, the memory they are     *)
(* loaded into, and the way out of the firmware.  These share no state but *)
(* the order they come in, so a behaviour is one of a part, chosen at the  *)
(* start; the others stay as they begin.                                   *)
(***************************************************************************)
EXTENDS Modules

VARIABLES
  part,
  ini, where, line, inSection, read, open, buffers, memory, stale, upper, lower, offset,
  loaded, tried, virtualStart,                                       \* BootImage
  leaving, firmware, fresh, size, map, work, mapAt, regions          \* BootMemoryMap

image == <<ini, where, line, inSection, read, open, buffers, memory, stale, upper, lower, offset,
           loaded, tried, virtualStart>>
exit == <<leaving, firmware, fresh, size, map, work, mapAt, regions>>

-----------------------------------------------------------------------------
(* Modules.  Two types share a bucket of the master table, two names one of*)
(* a table.                                                                *)
MCTypeHome == [t \in Types |-> IF t = "A" THEN 0 ELSE 1]
MCNameHome == [n \in Names |-> IF n = "y" THEN 0 ELSE 1]

File(t, n, imports, entry) == [type |-> t, name |-> n, imports |-> imports, entry |-> entry]
Import1(t, n) == [type |-> t, name |-> n]

MCFiles == {
  File("A", "x", <<>>, TRUE),
  File("A", "y", <<Import1("B", Any)>>, TRUE),
  File("A", "long", <<Import1("A", "x")>>, FALSE),
  File("B", "x", <<Import1("A", Any), Import1("A", "x")>>, TRUE),
  File("B", "x", <<Import1("A", "y")>>, FALSE),
  File("B", "y", <<Import1("A", Any), Import1("B", Any)>>, TRUE),
  File("C", "x", <<Import1("B", "x"), Import1("A", Any)>>, TRUE),
  File("C", "x", <<>>, FALSE),
  File(None, "x", <<Import1("A", Any)>>, TRUE) }

-----------------------------------------------------------------------------
(* Images of one and two segments, with a pointer into the other segment,  *)
(* a file without an export, and one that is no ELF file; and free memory  *)
(* that ends at every point of the start, or has holes.                    *)

ImageBase == 2
PageWords == 2
Base == ImageBase * PageWords

Line(k) == [kind |-> k]
Entry(n, y) == [kind |-> "entry", name |-> n, yes |-> y]
Seg(load, vaddr, from, filesz, memsz) ==
  [load |-> load, vaddr |-> vaddr, offset |-> from, filesz |-> filesz, memsz |-> memsz]
Section(address, from) == [addr |-> address, offset |-> from]
Rela(target, at1, abs) == [target |-> target, offset |-> at1, abs |-> abs]
Elf(segs, sections, relas, data) ==
  [elf |-> TRUE, exports |-> TRUE, entry |-> Base, segs |-> segs, sections |-> sections, relas |-> relas, data |-> data]

Two == Elf(<<Seg(TRUE, Base, 1, 2, 2), Seg(FALSE, 0, 0, 1, 1), Seg(TRUE, Base + 2, 3, 2, 3)>>,
           <<Section(Base, 1), Section(Base + 2, 3), Section(0, 5)>>,
           <<Rela(2, Base + 3, TRUE), Rela(1, Base, FALSE)>>, <<70, 71, 72, 73, Base + 1, 75>>)
One == Elf(<<Seg(TRUE, Base, 0, 3, 3)>>, <<Section(Base, 0)>>, <<Rela(1, Base + 1, TRUE)>>, <<80, Base + 2, 82>>)

ImageFiles == [a |-> Two, b |-> One, c |-> [One EXCEPT !.exports = FALSE], d |-> [One EXCEPT !.elf = FALSE]]
Configs == {
  <<Line("modules"), Entry("a", TRUE), Entry("b", TRUE)>>,
  <<Line("comment"), Line("modules"), Entry("b", TRUE), Entry("a", FALSE), Entry("a", TRUE)>>,
  <<Entry("a", TRUE), Line("modules"), Entry("c", TRUE), Line("other"), Entry("a", TRUE), Line("modules"),
    Line("text"), Entry("a", TRUE)>>,
  <<Line("modules"), Entry("d", TRUE), Entry("b", TRUE)>> }
FreeFrames == {1 .. n : n \in {0, 1, 2} \cup 4 .. 17} \cup {{1, 2, 3, 5, 7, 9, 11, 13, 14, 16} \cup 18 .. 24}

Image == INSTANCE BootImage WITH
  Frames <- 26, Fan <- 3, StackPages <- 2, HHDM <- 27, LoadStart <- 54, Files <- ImageFiles, Free <- FreeFrames,
  config <- ini, pc <- where, pool <- buffers

-----------------------------------------------------------------------------
(* Memory laid out without holes, with holes within free and within kept   *)
(* memory, and without conventional memory; described in any order.        *)

Region(start, pages, type) == [start |-> start, pages |-> pages, type |-> type]
Layouts == {
  {Region(0, 2, "reclaimed"), Region(2, 2, "conventional"), Region(4, 1, "kept"), Region(5, 1, "conventional")},
  {Region(0, 1, "reclaimed"), Region(1, 3, "conventional"), Region(4, 2, "kept")},
  {Region(0, 1, "reclaimed"), Region(2, 2, "conventional"), Region(5, 1, "kept")},
  {Region(0, 1, "kept"), Region(2, 1, "kept"), Region(3, 3, "conventional")},
  {Region(0, 3, "reclaimed"), Region(3, 1, "kept")} }
Seqs == INSTANCE SequencesExt
MCMaps == UNION {Seqs!SetToSeqs(l) : l \in Layouts}

Leaving == INSTANCE BootMemoryMap WITH Maps <- MCMaps, pc <- leaving, current <- fresh

-----------------------------------------------------------------------------
MCInit ==
  /\ part \in {"modules", "image", "exit"}
  /\ Init /\ (part # "modules" => config = <<>> /\ pool = Max(Pools))
  /\ IF part = "image" THEN Image!Init
     ELSE /\ ini = <<>> /\ where = "off" /\ line = 1 /\ inSection = FALSE /\ read = None /\ open = FALSE
          /\ buffers = {} /\ memory = None /\ stale = FALSE /\ upper = None /\ lower = None /\ offset = 0
          /\ loaded = <<>> /\ tried = <<>> /\ virtualStart = None
  /\ Leaving!Init /\ (part # "exit" => firmware = CHOOSE m \in MCMaps : TRUE)

MCNext ==
  \/ part = "modules" /\ Next /\ UNCHANGED <<part, image, exit>>
  \/ part = "image" /\ Image!Next /\ UNCHANGED <<part, vars, exit>>
  \/ part = "exit" /\ Leaving!Next /\ UNCHANGED <<part, vars, image>>

MCSpec ==
  /\ MCInit /\ [][MCNext]_<<part, vars, image, exit>>
  /\ WF_vars(part = "modules" /\ Next /\ UNCHANGED <<part, image, exit>>)

-----------------------------------------------------------------------------
(* What was loaded is where it should be, the address space the kernel     *)
(* starts in is as it expects, and files are read without leaving anything *)
(* behind: BootImage.                                                      *)
ImagesInPlace == part = "image" => Image!ImagesInPlace
SpaceLaidOut == part = "image" => Image!SpaceLaidOut
FilesTidy == part = "image" => Image!FilesTidy

(* The kernel's map is made from the firmware's last one: BootMemoryMap.   *)
MapIsSound == part = "exit" => Leaving!MapIsSound

(* The boot comes to an end, whatever the modules: Modules.                *)
BootFinishes == part = "modules" => Finishes
=============================================================================
