----------------------------- MODULE MCModules2 -----------------------------
(***************************************************************************)
(* Seven parts of the older kernel that share no state: the block device,  *)
(* the file system, the two memory managers, the page tables, the tree of  *)
(* names and the console.  A behaviour is one of a part, chosen at the     *)
(* start; the others stay as they begin.                                   *)
(***************************************************************************)
EXTENDS VirtioBlk, TLC

CONSTANTS
  Parts,    \* the parts that may be chosen
  Cautious  \* whether the clients of the memory manager are careful

VARIABLES
  part,
  store, fds, returned, seen, changes,               \* Ext2
  sections, next, prev, total, pool, frames,         \* LegacyBuddy
  hdr, free_list, lent,                              \* LegacyHeap
  tables, root, fixed, wanted,                       \* LegacyPages
  entries, files,                                    \* Vfs
  script, turn, place, arg, count, out, fifo, wire   \* Console

ext2 == <<store, fds, returned, seen, changes>>
memory == <<sections, next, prev, total, pool, frames>>
heap == <<hdr, free_list, lent>>
mmu == <<tables, root, fixed, wanted>>
vfs == <<entries, files>>
console == <<script, turn, place, arg, count, out, fifo, wire>>

-----------------------------------------------------------------------------
(* Buses with and without a device the driver can use, and queues of four  *)
(* and of two descriptors.                                                 *)

Slot(version, max) ==
  [magic |-> TRUE, id |-> 2, version |-> version, version1 |-> version = 2, event |-> max = 4,
   accepts |-> TRUE, max |-> max]
Empty == [Slot(0, 0) EXCEPT !.magic = FALSE]
Network == [Slot(2, 4) EXCEPT !.id = 1]

MCSetups == {<<Empty, Network, Slot(2, 4)>>, <<Network, Slot(2, 2)>>, <<Slot(2, 0)>>,
             <<Slot(1, 4), Slot(2, 4)>>, <<Network, Empty>>}

MCRequest ==
  {[type |-> "IN", sector |-> 0, data |-> <<None, None>>], [type |-> "IN", sector |-> 1, data |-> <<None, None>>],
   [type |-> "OUT", sector |-> 0, data |-> <<1>>], [type |-> "OUT", sector |-> 1, data |-> <<2>>], [type |-> "OUT", sector |-> 1, data |-> <<1, 1>>],
   [type |-> "OUT", sector |-> 2, data |-> <<1>>], [type |-> "IN", sector |-> 2, data |-> <<None>>]}

-----------------------------------------------------------------------------
(* Three groups with nine words to a block: three entries of a directory,  *)
(* or half of what a write takes.                                          *)

Head16 == 65536

Files == INSTANCE Ext2 WITH
  BlockSize <- 9, Direct <- 1, PtrsPerBlock <- 1, BlocksPerGroup <- 4, InodesPerGroup <- 2, FirstDataBlock <- 1,
  TotalBlocks <- 10, Metadata <- {1, 2, 3}, Stack <- <<9, 0, 0>>, RootBlock <- 4,
  Dot <- <<Head16>>, DotDot <- <<2 * Head16>>, Name <- {<<3 * Head16>>, <<4 * Head16>>},
  Fd <- {1}, Data <- {65536}, Counts <- {18}, Lengths <- {0, 12}, Offsets <- {-3, 0}, MaxChanges <- 5, Careful <- TRUE,
  disk <- store, ret <- returned

ASSUME FilesAssumption == Files!DiskAssumption

-----------------------------------------------------------------------------
(* Memory the bitmaps cover, and memory that lies above what they cover.   *)

Region(start, size, free) == [start |-> start, size |-> size, free |-> free]
BuddyMaps ==
  {<<Region(1, 3, TRUE), Region(8, 5, TRUE)>>,
   <<Region(1, 4, FALSE), Region(5, 5, TRUE)>>,
   <<Region(9, 6, TRUE)>>}

Memory == INSTANCE LegacyBuddy WITH
  LastPage <- 16, MaxOrder <- 4, MapBits <- 32, Low <- 4, High <- 14, Maps <- BuddyMaps, Careful <- Cautious,
  lent <- frames

Heap == INSTANCE LegacyHeap WITH
  Unit <- 8, Header <- 3, Total <- 22, MallocSizes <- {0, 4, 16}, ReallocSizes <- {0, 24}, Counts <- {3},
  Alignments <- {12, 16}

(* A root directory with a directory and a file, and a name in both that   *)
(* clients and others create too.                                          *)
File(n, i, t) == [name |-> n, inode |-> i, type |-> t]
Path(a, names) == [absolute |-> a, names |-> names]

Pages2 == INSTANCE LegacyPages WITH
  Fan <- 2, MaxTables <- 5, Memories <- {0, 8, 9}, Physical <- {4}, Counts <- {1, 3}

Tree == INSTANCE Vfs WITH
  Disk <- 2 :> <<File(".", 2, "dir"), File("..", 2, "dir"), File("a", 11, "dir"), File("f", 12, "file")>>
          @@ 11 :> <<File(".", 11, "dir"), File("..", 2, "dir"), File("g", 13, "file")>>,
  RootInode <- 2,
  Paths <- {Path(TRUE, <<>>), Path(TRUE, <<"a", "g">>), Path(FALSE, <<"a">>), Path(FALSE, <<"f", "g">>),
            Path(FALSE, <<"..", "a", ".", "">>), Path(FALSE, <<>>)},
  Names <- {"a", "g"}, MaxCreated <- 2, MaxFiles <- 4, disk <- files

-----------------------------------------------------------------------------
(* Integers of 3 to 6 bits, a FIFO of two characters, and formats that     *)
(* combine the flags, widths, precisions and types with each other.        *)

Widths == [char |-> 3, short |-> 4, int |-> 5, long |-> 6]

Format == INSTANCE Printf WITH Bits <- Widths

Directive(f, w, p, m, s, v) ==
  [flags |-> f, width |-> w, precision |-> p, modifier |-> m, specifier |-> s, value |-> v]
Words == [text |-> <<"a", "%">>]

FlagSets == {<<>>, <<"-">>, <<"0">>, <<"+">>, <<"#">>, <<"-", "0">>, <<"0", " ">>, <<"#", "0">>}
Precisions == {None, 0, 3}
Modifiers == {<<>>, <<"h">>, <<"h", "h">>, <<"l">>, <<"l", "l">>, <<"z">>}

Integer ==
  {Directive(f, w, p, <<>>, s, v) : f \in FlagSets, w \in {None, 5}, p \in Precisions,
                                    s \in {"d", "u", "x", "X", "o", "b"}, v \in {0, 13, 30}}
  \cup {Directive(<<>>, w, None, m, s, v) : w \in {None, 10}, m \in Modifiers, s \in {"i", "u"}, v \in {0, 7, 12, 31, 62}}
Other ==
  {Directive(f, w, p, <<>>, "s", v) : f \in FlagSets, w \in {None, 4}, p \in Precisions, v \in {None, <<>>, <<"p", "q">>}}
  \cup {Directive(f, w, None, <<>>, s, v) : f \in FlagSets, w \in {None, 5}, s \in {"p"}, v \in {0, 45}}
  \cup {Directive(f, w, None, <<>>, s, "z") : f \in FlagSets, w \in {None, 5}, s \in {"c", "y"}}

MCScripts ==
  {<<Format!Call(<<d>>)>> : d \in Integer}
  \cup {<<Format!Call(<<Words, d>>), Format!Call(<<d, Words, d>>)>> : d \in {e \in Other : e.precision = None}}
  \cup {<<Format!Call(<<d>>)>> : d \in Other}

Serial == INSTANCE Console WITH Bits <- Widths, Fifo <- 2, Scripts <- MCScripts, at <- place

-----------------------------------------------------------------------------
NoDevice == CHOOSE s \in Setups : TRUE

MCInit ==
  /\ part \in Parts
  /\ Init /\ (part # "device" => bus = NoDevice)
  /\ Files!Init
  /\ IF part = "memory" THEN Memory!Init
     ELSE /\ sections = <<>> /\ next = <<>> /\ prev = <<>>
          /\ total = 0 /\ pool = {} /\ frames = {}
  /\ IF part = "heap" THEN Heap!heap_init ELSE hdr = <<>> /\ free_list = <<>> /\ lent = {}
  /\ IF part = "pages" THEN Pages2!mmu_start ELSE tables = <<>> /\ root = 0 /\ fixed = {} /\ wanted = <<>>
  /\ Tree!Init
  /\ Serial!Init /\ (part # "console" => script = CHOOSE s \in MCScripts : TRUE)

MCNext ==
  \/ part = "device" /\ Next /\ UNCHANGED <<part, ext2, memory, heap, mmu, vfs, console>>
  \/ part = "files" /\ Files!Next /\ UNCHANGED <<part, vars, memory, heap, mmu, vfs, console>>
  \/ part = "memory" /\ Memory!Next /\ UNCHANGED <<part, ext2, vars, heap, mmu, vfs, console>>
  \/ part = "heap" /\ Heap!Next /\ UNCHANGED <<part, ext2, vars, memory, mmu, vfs, console>>
  \/ part = "pages" /\ Pages2!Next /\ UNCHANGED <<part, ext2, vars, memory, heap, vfs, console>>
  \/ part = "names" /\ Tree!Next /\ UNCHANGED <<part, ext2, vars, memory, heap, mmu, console>>
  \/ part = "console" /\ Serial!Next /\ UNCHANGED <<part, ext2, vars, memory, heap, mmu, vfs>>

MCSpec ==
  /\ MCInit /\ [][MCNext]_<<part, ext2, vars, memory, heap, mmu, vfs, console>>
  /\ WF_vars(part = "device" /\ Driver /\ UNCHANGED <<part, ext2, memory, heap, mmu, vfs, console>>)
  /\ WF_vars(part = "device" /\ Device /\ UNCHANGED <<part, ext2, memory, heap, mmu, vfs, console>>)
  /\ WF_console(part = "console" /\ Serial!Processor /\ UNCHANGED <<part, ext2, vars, memory, heap, mmu, vfs>>)
  /\ WF_console(part = "console" /\ Serial!Send /\ UNCHANGED <<part, ext2, vars, memory, heap, mmu, vfs>>)

-----------------------------------------------------------------------------
(* Each block of the file system has one use, and the counts, the bitmaps  *)
(* and the inodes agree about it: Ext2.                                    *)
BlocksAccounted == part = "files" => Files!CountsAgree /\ Files!BlocksExclusive

(* Names and inodes match: Ext2.                                           *)
NamesMatchInodes == part = "files" => Files!NamesMatchInodes

(* A call changes one name or one file, or nothing: Ext2.                  *)
ImplementsFileStore == Files!ImplementsFileStore

(* The older memory managers account for all there is: the lists of pages  *)
(* are exact (LegacyBuddy), and so are the blocks of the heap's region     *)
(* (LegacyHeap).                                                           *)
MemoryAccounted ==
  /\ part = "memory" => Memory!ListsExact
  /\ part = "heap" => Heap!BlocksAccounted

(* No page of the older physical memory manager is lost: LegacyBuddy.      *)
BuddyNothingLost == part = "memory" => Memory!NothingLost

(* Every address leads to what it was mapped to: LegacyPages.              *)
PagesMapped == part = "pages" => Pages2!PagesMapped

(* The tree of names mirrors the file system: Vfs.                         *)
TreeMirrorsDisk == part = "names" => Tree!TreeMirrorsDisk

(* printf prints what it is asked for: Console.                            *)
PrintedAsAsked == part = "console" => Serial!PrintedAsAsked

(* Whatever waits for a device goes on in the end: every request is        *)
(* answered (VirtioBlk), and every call of printf returns and everything   *)
(* printed leaves the UART (Console).                                      *)
AllLeaves == part = "console" ~> (part = "console" /\ Serial!Idle)
WaitingEnds == RequestsEnd /\ AllLeaves
=============================================================================
