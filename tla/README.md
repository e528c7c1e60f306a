# A verification project for ARM_OS

ARM_OS is a modular AArch64 kernel.  A UEFI boot loader (`boot/`) loads the
modules that `kernel.ini` names as ELF objects, binds the interfaces they
import to the ones others export, builds the first page tables and starts the
modules, dependencies first.  The modules (`modules/`) are, today, a memory
stack and a serial console.  `modules2/` is the generation before it, which the
`Makefile` no longer builds and which has what the new one does not have yet: a
block device, a file system, a tree of names.  This directory holds TLA+
specifications of the code, the TLC configurations that check them on small
instances, and proofs that TLAPS checks for instances of every size.

Paths below are relative to the repository's root.  `hm` stands for
`modules/hnsorens/memory`, `m2` for `modules2/src2`.

## 1. The system

### Parts

| Part | State it keeps | Operations | What makes it correct |
|---|---|---|---|
| Physical memory manager, `hm/pmm/pmm.c` | a list of free blocks per order, threaded through the blocks; per frame a reference count, an order and a free bit; `free_memory_bytes` | `pmm_init`, `alloc_page`, `alloc_aligned`, `alloc_in_range`, `retain`, `release`, `reserve_range` | blocks in use are exclusive; no frame is lost; lists and metadata agree; memory coalesces; ENOMEM is honest |
| Page tables (MMU module), `hm/mmu/pt.c` | trees of four levels in frames; `ttbr0` | `alloc`, `free`, `copy`, `map`, `unmap`, `protect`, `translate`, `flush`, `invalidate`, `set_user_ctx` | a call changes what its range says and nothing else; every table is in one tree; failures undo or keep exactly what they should; what the processor caches is current when a call returns |
| Virtual memory manager, `hm/vmm/vmm.c` | spaces, each a root and a binary tree of areas with a one-entry cache; pools of nodes | `create`, `destroy`, `allocate`, `reserve`, `map_external`, `free`, `resize`, `protect`, `query`, `activate`, `sync` | areas are disjoint and say what the table does; frames and nodes have one use each; failed calls leave nothing behind |
| Kernel heap, `hm/heap/heap.c` | a list of blocks with headers in a region; `used_size` | `create`, `malloc`, `free`, `realloc`, `memalign`, `destroy`, `get_stats` | blocks tile the region; payloads are disjoint and large enough; free neighbours merge |
| Slab allocator, `hm/slab/slab.c` | per cache three queues of pages; per page a count and a list of free slots threaded through them | `create_cache`, `alloc`, `free`, `shrink`, `destroy_cache` | an object is lent once; a page is in the queue of its count |
| Serial console, `modules/hnsorens/io/serial_debug` | the state of `vprintf`'s loop; the UART's FIFO | `printf`, `putc` | what is printed is what the format asks for, in order, whatever the UART's pace |
| Module registry, `boot/modules/module_registry.c`, `module_import_handle.c` | two levels of open hash tables, a list of modules, a list of imports | `PutImplementation`, `GetImplementation`, `HandleModuleImports`, `InitializeModules` | imports bound consistently; modules started once and after what they call |
| Module loading, `boot/modules/kernel_loader.c`, `elf_loader.c`, `linker.c` | the configuration read line by line; images and where they are mapped | read, load, map, relocate, register | a bad file is passed over; an image is where its addresses say |
| Boot page tables, `boot/memory/page_table.c` | the tables of both halves | `MapPage` at every order | everything the kernel needs at its start is mapped, once |
| Boot file access, `boot/uefi/filesystem.c` | open handles, buffers | read a file | nothing stays open, whatever call of the firmware fails |
| Leaving the firmware, `boot/uefi/boot_services.c` | the copy of the firmware's memory map and its key | `ExitBootServices`, `GetKernelMemoryMap` | the copy is current; the kernel's map lists nothing twice and nothing as free that is kept |
| Boot sequence, `boot/main.c` | the stage | `efi_main` | the phases in order |
| `m2/pmm` | free lists and bitmaps per order and section, links in the free pages | `buddy_init`, `buddy_alloc`, `buddy_alloc_exact`, `buddy_free` | lists and bitmaps agree; no page is lost |
| `m2/kmm` | headers in a region, a free list sorted as it is used | `kmalloc`, `malloc_aligned`, `kcalloc`, `krealloc`, `kfree` | blocks tile the region; loans are disjoint |
| `m2/mmu` | tables of an identity map and of pages behind it | `mmu_start`, `pages_map_kernel`, `virt_to_phys` | every address leads to what it was mapped to |
| `m2/virtio_bus_controller`, `m2/virt_blk_device` | a queue shared with the device: descriptors, two rings, their indices | find and start the device, `blk_read`, `blk_write` | each request is answered once and with its own data; descriptors come back |
| `m2/ext2` | superblock, descriptors of groups, bitmaps, inodes, blocks; open descriptors, each with its own copy of an inode | create, remove, rename, open, close, read, write, seek, truncate, directories | counts, bitmaps, inodes and names agree; blocks are exclusive |
| `m2/vfs` | a tree of entries, read as paths lead through it | look up, create, path of an entry | the tree mirrors the disk |
| other parts of `modules2/` | | slabs, address spaces, partition table, GIC, strings, console | not modelled, see 6 |
| `KernelForge/` | a web editor of configurations | | shares no code with the kernel |

### Interactions

The boot loader calls the firmware, then the registry, then each module's entry
point; nothing returns to the firmware.  Among the modules calls go one way:
slab and heap call the VMM for pages; the VMM calls the PMM for frames and the
MMU module for tables; the MMU module calls the PMM for the frames of tables.
There are no callbacks.  The state they share is memory: a frame belongs to the
PMM's lists, or to a table, or to a page of nodes, or is mapped.  The kernel map
that `GetKernelMemoryMap` writes becomes the argument of `pmm_init`.  In
`modules2` the tree of names calls ext2, ext2 the block device, and the block
device's driver shares its queue with the device.

### What is hard

* **What runs beside the processor.**  The kernel runs on the boot processor, no
  handler of interrupts is installed, and `vmm_lock` and `vmm_unlock` are empty:
  a call runs to its end and no two calls interleave.  But four things run
  beside it.  The walker of the MMU reads tables while the kernel writes them
  and caches what it read (`Tlb`).  A virtio device reads and writes the queue
  the driver writes and polls (`VirtioBlk`).  A UART empties its FIFO while the
  processor polls it (`Console`).  And the firmware may change its memory map at
  any moment until the loader leaves it (`BootMemoryMap`).  There a step is what
  one of them does between two accesses the other can tell apart; everywhere
  else a call is one step.
* **Long histories.**  Split, merge, trim and move rewrite linked structures in
  place; a stale field bites many calls later.
* **Failure halfway.**  Frames, nodes, tables, blocks, inodes or descriptors run
  out, or the firmware fails, in the middle of a call.
* **Stale copies.**  The cache of the area tree, the TLB, the loader's copy of
  the map, the inode of an open file, a directory read once.
* **Boundaries.**  Sizes and alignments at zero, at a page, at the end of a word.
* **Several structures that must tell the same story**: list and metadata,
  areas and tables, cache and tree, hash table and list, bitmap and count, name
  and inode.

The list of hazards in `PROJECT.json` names each one at its line.

## 2. The modules

| Module | Models | Builds on |
|---|---|---|
| `BuddyGeometry` | the arithmetic of buddy blocks | |
| `Pmm` | `hm/pmm/pmm.c` | `BuddyGeometry`, implements `FrameLedger` |
| `FrameLedger` | what the PMM promises: grant, share, drop, withdraw | |
| `PmmProofs` | the proofs about them | |
| `Heap` | `hm/heap/heap.c` | implements `Arena` |
| `Slab` | `hm/slab/slab.c` | implements `Arena` |
| `Arena` | what an allocator promises: disjoint loans, one changed at a time | |
| `HeapProofs`, `SlabProofs` | the proofs about heap and slab cache | |
| `Vmm` | `hm/vmm/vmm.c` with areas as a set and a table as a function | implements `AddressSpace` |
| `VmmProofs` | the proofs about it and about `VmaTree` | |
| `VmaTree` | the area tree, its node pool and `mmap_cache` | implements `AddressSpace` |
| `AddressSpace` | what a VMM promises: a call claims, drops or recasts one row of pages of one space | |
| `PageTable` | `hm/mmu/pt.c`, table by table | implements `PageMap` |
| `PageMap` | what page tables promise: a partial function per root, changed in one range | |
| `PageTableProofs` | the proofs about `PageTable` | |
| `Tlb` | the stores and TLBIs of `pt.c` and the releases of `vmm.c`, with the walker and the TLB beside them | |
| `TlbProofs` | the proofs about it | |
| `Modules` | `boot/modules/*` and the end of `boot/main.c`: which file registers what, and in which order modules start | implements `Startup` |
| `Startup` | link, then start each module once and after what it calls, then test | |
| `ModulesProofs` | the proofs about `Modules` | |
| `BootImage` | `boot/main.c`, `boot/uefi/filesystem.c`, `boot/memory/page_table.c`, `elf_loader.c`, `linker.c`: where everything is laid out in memory | |
| `BootMemoryMap` | `boot/uefi/boot_services.c` | |
| `Printf` | what a call of `printf` asks for: the reference | |
| `Console` | `serial.c`, from the format to the FIFO | `Printf` |
| `VirtioBlk` | `m2/virtio_bus_controller`, `m2/virt_blk_device`, and the device | implements `BlockDevice` |
| `VirtioBlkProofs` | the proofs about it | |
| `BlockDevice` | what a disk promises its one client | |
| `Ext2Disk`, `Ext2Directory`, `Ext2` | `m2/ext2/ext2.c`: disk structures, directories, the calls on descriptors and names | implements `FileStore` |
| `FileStore` | what a file system promises: one name or one file changes at a time | |
| `LegacyBuddy` | `m2/pmm` | |
| `LegacyHeap` | `m2/kmm/heap.c` | |
| `LegacyPages` | `m2/mmu` | |
| `Vfs` | `m2/vfs/vfs.c` | |

Each `MC...` module gives the constants of a specification values that a `.cfg`
cannot write.  Four of them join several specifications, or several sets of
constants, in one run: `MCBoot` (`part`: modules, image, exit), `MCModules2`
(`part`: seven parts), `MCVmm` (`setting`: scarce, ample, tree) and `MCPageTable`
(`mixing`, or not).  What they join shares no state, so a behaviour
chooses one at the start, the variables of the others keep their first values,
and each property is claimed of the part it is about.

Actions carry the names of the functions they model.  Every definition that
stands for code is tied to its lines by `map` in `PROJECT.json`; what the code
has no variable for (who holds which block) is said in the head comment of the
module.

How state corresponds to code, where it is not one to one:

* **Pmm.**  An address is a page index, and `free_blocks[o]` is the set of the
  blocks linked in `orders[o]`.  The code takes the first fitting node; the
  model takes any fitting one, so the order a list happens to have is covered.
  `holds` and `reserved` record what callers were given.  A size in bytes never
  wraps, except for the orders from 52 up, whose size is zero:
  `FirstPageAssumption` excludes the one map for which the code then divides
  zero by zero.
* **Heap.**  The unit is 16 bytes (`HEAP_ALIGN`).  `hdr` keeps what was last
  written as a header at each address, also where no block starts any more, so
  that a stale header would be seen.  `Word` is 2^64 made small.
* **Slab.**  `link` is the first word of each slot, `slabs` the page headers.
  A destroyed cache keeps its pages as "stranded".
* **Vmm.**  The tree is a set (`VmaTree` is the tree), a table is a function
  from pages to mappings (`PageTable` is the table), and `TablesMayFail` lets
  the table layer fail at any page.  `mem` counts frames and nodes.
* **PageTable.**  A table has `Fan` entries in place of 512, so that spans,
  pruning and walks happen in a few pages.  Granules are one page and blocks of
  levels 2 and 1.  A walk that takes a block for a table sets `strayed` and
  ends the behaviour: what the code reads then is arbitrary memory.
* **Tlb.**  `tables` is what the trees of `PageTable` come to: an entry per root
  and page, with a table of the last level per half that is there as long as it
  holds an entry.  `tlb` and `walks` are what the processor remembers.  `call`
  is the call in progress and where in its loop it is.  No caller ever sets the
  nG bit, for which `api/mmu.h` has no flag, so the TLB matches in every space.
  The code has no DSB between a store and the TLBI after it, so until the DSB
  behind the TLBIs a walk reads an entry as it is or as it was (`stale`); what
  it reads as it was although its TLBI is done is noted in `late`, and
  `missing_barrier` shows the harm (section 4).
* **Modules.**  A hash is the name; `TypeHome` and `NameHome` say where probing
  starts, with collisions.  Loading one file, binding one import, and each call
  and return of `InitializeModule` are steps.
* **BootImage.**  Memory is frames of a few words; a frame holds words of a file
  or is a table.  Every call of the firmware may fail; allocations fail when
  `free` is used up, at every point.  Relocation targets without an address,
  unaligned segments and segments longer in memory than in the file are read as
  the code reads them; files that would make it write outside the image are left
  out of `Files`.
* **BootMemoryMap.**  Descriptors in place of bytes; three classes of memory
  types.  `FirmwareChanges` replaces the map and stales the key.
* **Console.**  A string is a sequence of characters, an integer a raw word of
  `Bits["long"]` bits whose narrower types keep the low bits.  A step is one turn
  of the loop of `vprintf`, or one character put into the FIFO.
* **VirtioBlk.**  `IdxBound` is the 2^16 at which the indices of the queue wrap, made
  small, so that they do.  The two pages each request takes and never gives back
  are counted.
* **Ext2.**  The unit is a word of four bytes; names are words, so a record is
  as long as its name makes it.  Blocks are kept word by word because a new
  directory finds in its block what was there.  `Stack` is what the
  uninitialised block pointers of a new inode hold; `seen` and `changes` are
  auxiliary.  `Careful` clients do not open a file twice, delete it while it is
  open or move directories.
* **LegacyBuddy.**  A list is its links, in the pages; `prev` keeps what was there
  when a block is pushed, as in the code.  `Careful` clients clear what
  they free, and keep a block when the stale words of those it would merge with
  do harm.

## 3. The runs

Violations are looked for in every reachable state; the bounds are those of the
`.cfg`.

| Run | Distinct states | What it shows |
|---|---|---|
| `pmm` | 34,348 | Two clients, eight pages, orders 0 to 2.  Lists and metadata agree, lent blocks are exclusive with exact counts, nothing is lost, `free_memory` is exact, releasing everything rebuilds the initial lists, ENOMEM is honest, and each call is a step of `FrameLedger`. |
| `heap` | 21,210 | One arena of 22 units.  Blocks tile it, the headers marked allocated are those of live payloads, `used_size` covers what is lent and zero means one block, ENOMEM is honest, each call is a step of `Arena`. |
| `slab` | 70,523 | Caches of one and of three slots per page, three pages.  Queues match counts, free lists are exact, pages move no earlier than they must, each call is a step of `Arena`. |
| `vmm` | 36,021 | Scarce: few frames and nodes, tables that fail anywhere, device areas, the kernel's half; every frame and node has one use, each page of an area is backed.  Ample: besides, areas, guards, flags and mappings agree.  Tree: four nodes and four pages; no node is lost, lookups are exact with and without the cache.  In each, a call is a step of `AddressSpace`. |
| `vmm_rollback` | (violation) | An allocation that fails halfway leaves its first pages mapped. |
| `page_table` | 10,128 | Apart: two trees, six frames, failing anywhere; every table is in one tree or free, none stays behind empty, each call, also one that fails halfway, is a step of `PageMap`.  Mixed: all granules over the same addresses; no table is free or shared while an entry leads to it. |
| `tlb` | 3,054,680 | Three pages, two spaces and the kernel's half, the walker between any two stores and reading old entries until the DSB; what was cached before the TLBI of its page outlives no call that changed it, and no frame is released while such a translation to it is cached. |
| `missing_barrier` | (violation) | A translation read from an overwritten entry after its TLBI is cached when the call is over. |
| `stale_after_switch` | (violation) | After `activate` the translations of the space before it are still used. |
| `boot` | 201,457 | Every `kernel.ini` of up to four of nine files: imports, start order, every end deserved, every end reached, the phases a step of `Startup`.  Images loaded while the firmware fails and memory ends anywhere: every segment, stack and table is where it should be, files are closed.  Every firmware map, changing until it is left: the copy is the last one, the kernel's map is sound. |
| `modules2` | 155,901 | Driver and device interleaved: every request is answered, descriptors come back, each call is a step of `BlockDevice`.  Up to five changes on a file system of six data blocks in three groups: counts and bitmaps agree, names and inodes agree, every block has one use, each call is a step of `FileStore`.  The older buddy lists and bitmaps agree; the older heap accounts for every block; mapped pages are found; the tree of names mirrors the disk; `printf` prints what it is asked for, and its characters leave in the end. |
| `careless_clients` | (violation) | A client that leaves data in a page it frees makes the older buddy allocator lose another page. |

### Why the bounds are enough

* `pmm`: with three orders a block splits twice and merges twice, the free
  region starts unaligned (a buddy beyond its start) and ends at the end of
  memory (a buddy out of range), and two clients suffice to share a block.
* `heap`: 22 units hold three minimal blocks and a remainder too small to
  split, which is what a merge needs on both sides; alignments below, at and
  above the minimal block; `UsedBound` caps `used_size`, which realloc can raise
  without end.
* `slab`: one slot per page has no partial state, three have all of them; three
  pages make a queue with a middle.
* `vmm`, `vmm_rollback`: an area of three pages has a middle, so `free` and
  `protect` can trim and split; two spaces suffice to disturb one another.  Three
  nodes make a node with two children and a fourth one the successor with a
  right child.
* `page_table`: a fan of two gives every level a sibling; the second tree is the
  copy.
* `tlb`: a batch threshold of two and a `sync` of three pages make both ways
  of invalidating happen; two user spaces with a page of the lower half make a
  switch, two pages of the kernel's half a call that stores twice before it
  invalidates; two frames suffice for one to be released and lent again
  while the other is mapped.  `missing_barrier` and `stale_after_switch` have
  two pages in the lower half and one in the other.  The proofs of section 5
  lift these bounds.
* `boot`: four files make a chain deeper than `MaxDepth`, a cycle, and a table
  that fills up (capacities of two).  Images have one and two segments, with
  relocations across them, a file without an export and one that is no ELF file;
  free memory ends at none, one, two and four to seventeen frames, which is every
  allocation of the start, or has holes.  Firmware maps have up to four
  descriptors, of three classes, with holes and in any order.
* `modules2`: the six data blocks and the inodes of the file system run out within
  five changes (`MaxChanges`), a block holds three entries, so that a directory
  grows by a block and an entry that is removed leaves its room to the one before,
  and an inode has one direct and one indirect pointer, so that both kinds are
  reached.  Queues of four and of two descriptors (a request takes three);
  `Pages` ends the device's memory after some requests, as the code's leaks do.
  The maps of the memory manager have sections the bitmaps cover and sections
  above them.  22 units hold three minimal heap blocks.  Two entries per table
  and five tables let a map run out of tables at every level.  The formats
  combine each flag and each combination that interacts with widths, precisions,
  modifiers and types over words of 3 to 6 bits, and a FIFO of two makes the
  processor wait.

`SYMMETRY` in `MCPmm` permutes the clients, and in `MCTlb` the roots of
user spaces and the frames; no definition tells them apart, and
the runs check no liveness.  `VIEW Shape` in `MCPageTable` and `MCVmm` renames
table frames and tree nodes by their place in the trees.  The actions depend on
the identity of a frame or node only through the `CHOOSE` of a free one, which is
immaterial, so states of one shape have the same futures; the invariant that does
look at identities is part of the shape, so that no state that breaks it hides
behind one that does not.

### Deadlock and fairness

The specifications of the modules of the kernel are of calls that may come or
not: no fairness is assumed and none of their properties needs it.  Every
state allows a call, which TLC checks.  The boot and the block device (which
stops at the end of memory or without a device) and a console that
has printed its script do end, so `MCBoot` and `MCModules2` do not check for
deadlock.

Fairness is assumed where something makes progress by itself, and always weak:

* `Modules` assumes `WF_vars(Next)`: one processor runs the loader and nothing
  preempts it, so as long as there is a next step it is taken.  `Finishes` then
  says that the loader ends, unless a file replaces another one, the case in
  which the list of modules becomes cyclic.
* `VirtioBlk` assumes `WF_vars(Driver)` and `WF_vars(Device)`: the driver polls
  in a loop that nothing interrupts, and a device that was notified answers in
  the end, which is what the virtio standard asks of it.  Each is fairness of a
  whole side: a driver that polls keeps taking steps, so it does not force the
  device, and conversely.
* `Console` assumes `WF_vars(Processor)` and `WF_vars(Send)`: a UART that is
  enabled sends what its FIFO holds.

`BootMemoryMap` claims no liveness: the loader retries once and gives up.

### Refinements

Each abstract specification says in a page what a component's callers rely on,
and is checked as a property: `Pmm` ⇒ `FrameLedger`, `Heap` and `Slab` ⇒ `Arena`,
`Vmm` and `VmaTree` ⇒ `AddressSpace`, `PageTable` ⇒ `PageMap`, `Modules` ⇒
`Startup`, `VirtioBlk` ⇒ `BlockDevice`, `Ext2` ⇒ `FileStore`.  Those of `Pmm`,
`Heap`, `Slab`, `Vmm`, `PageTable`, `Modules` and `VirtioBlk` are also proved.
The mapping is a function of the state each time: the free pages of `Pmm`, what `pt_translate` finds for `PageTable`, the names and contents read
through directories and inodes for `Ext2`, the request and the disk for
`VirtioBlk`.

## 4. Where the code and its documentation disagree

Four are runs: `vmm_rollback`, `missing_barrier`, `stale_after_switch` and
`careless_clients`.  The others follow from statements of the header files, and
can be seen by changing constants: take the component's own module with the
constants of the configuration named, `SPECIFICATION Spec` and no `VIEW` or
`SYMMETRY`, make the change and name the property.  "Ample" stands for the
constants `MCVmm` gives its instance of that name.  They are the reason why the
constants of the passing runs are what they are: each is a case the passing run
leaves out.  So what the passing runs say of the VMM is said of clients that map
nothing without execution rights, destroy empty spaces and have memory to protect
with; for the others the rows below are what is known.  Those of `Heap` and `Slab` are named there, `NoRequestWraps`,
`AddressesReturned` and `AlignmentsDividePages`; the theorems about these modules
assume them, and TLC evaluates them in `MCHeap` and `MCSlab`.

| Constants of, with the change | Refuted | Because |
|---|---|---|
| `MCHeap`: `ReallocSizes = {0, 20, 40, 90}`, `Total = 20` | `UsedSizeExact` | realloc cuts a block in place and does not lower `used_size` |
| the same | `WholeWhenAllFreed` | the remainder it cuts off is not merged with a free block behind it |
| `MCHeap`: `MallocSizes = {16, 1020}` | `CapacityAsAsked` | rounding up wraps at the end of the word |
| `MCSlab`: `Alignments = {128}`, `ObjSizes = {10}`; or `ObjSizes = {1022}`, `Alignments = {8}` | `ObjectsFit` | the room behind the aligned header, or the rounded size, wraps |
| `MCSlab`: `Skews = {0, 4}` | `FreeTakesObjects` | the address given to free is not checked |
| `MCSlab`: `PageCount = 3`, `ObjSizes = {10}`, `Alignments = {4}` | `DestroyReturnsAll` | destroy clears `is_allocated` (`slab.c:303`) before it calls shrink (line 324), which then refuses: neither the empty pages nor the descriptor's are freed, though `slab.h:47` says all are unmapped |
| `MCVmmRollback`: `FreeFirst = FALSE` | `NoFrameLost` | destroying a space that still has areas loses their frames |
| Ample: `DeviceSizes = {1}` | `MappedPagesTracked` | freeing a device area removes the area and leaves its pages mapped |
| Ample: `AllocSizes = {2}`, `FrameCount = 6`, `NodesPerPage = 2`, `ProtectSizes = {1, 3}` | `FlagsAgree` | protect changes the table before it finds that it has no node |
| Ample: `Growth = {2}`, `ReserveSizes = {1}` | `GuardsStayUnmapped` | resize looks at the ends of the new range and grows over a guard |
| Ample: `Flags = NoExec = {"NX"}` | `NoFrameLost` | translate keeps the upper flag bits in the address, so release gets a wrong one |
| Ample: `ReserveSizes = {1, 3}` | `AreasDisjoint` | overlap is tested at the two ends of a range |
| Ample: `FastMin = 2`, `Hints = {2}` | `NoAreaShared` | the fast path of allocate answers with an area that exists |
| Ample: `UnknownRoots = {100}` | `OnlyCreateRegisters` | looking up an unknown root registers it |
| `MCPageTable` (`PageTable`): `Flags = {"RW"}`, `FrameCount = 8`, `Virts = {0, 1, 2}`, `ProtectSizes = {2}` | `NoBindingBroken` | protect with a block granule writes a block descriptor where pages are |
| the same with `Mixed = TRUE` | `NoTableLost`, `NoWalkThroughBlocks` | map replaces an entry that leads to a table, and walks through blocks |
| `MCTlbSwitch` | `NoStrayWalk` | `tlbi vale1is` drops entries of the last level only, so the walk cache may lead to a table of the lower half that has been released; `api/vmm.h` says of `sync` that altered routes are cleared |
| `MCBoot`, `MapPageKept` of `BootMemoryMap` where `part = "exit"` | `MapPageKept` | the page of the kernel's map is listed as free when the last conventional region follows memory the loader reclaims |

`missing_barrier` deserves a word.  `pt.c` stores an entry (lines 390, 477, 583) and
then issues the TLBI (771, 795, 800) with nothing between them that makes the store
visible to the walker; the DSB comes behind the TLBI.  So a walk between the TLBI
and the DSB may read what was overwritten and put it back into the TLB, from where
the DSB does not drop it: the TLBI it waits for is done.  `invalidate` then answers
that the barriers are confirmed (`api/mmu.h:251`), and `vmm_free` releases the frame
(`vmm.c:625`).  `InvalidationConfirmed` is what one would want, and is refuted.
`CachedIsCurrent` and `FreeFramesUnreached`, which hold and are proved, are what is
left of it: they except the pages in `late`, those read that way and not dropped
since, and nothing else.  A DSB between the two would keep `late` empty, and then
both say what `InvalidationConfirmed` says.

Other cases the specifications leave out by a stated condition:

* *Boot.*  A firmware map out of order can wrap the unsigned bound of the
  quicksort (`MapIsSound` excuses "wild").  Names of 32 characters or more are
  cut and missed by anonymous imports (`ImportsResolve` excuses them).  A second
  export of the same interface makes the list of modules cyclic, and the loader
  walks it for ever: `BootFinishes` excuses just that case, and so no property
  catches it.  An import nobody provides is called through address 0
  (`EndsAreDeserved` allows "wild" then).  `page_table.c` (lines 129, 152, 175)
  frees a pointer that was never set, or is left over, when it finds no page; a
  segment is copied with its size in memory, not in the file; a size of zero or
  an unaligned address makes a huge count; a read that falls short reports
  success without a buffer; file buffers are never freed.
* *Physical memory.*  `pmm_init` carves each free region by itself, but a merge
  looks only at the frames: where two free regions touched, it would build blocks
  across the border, or leave the halves of one apart (`ApartAssumption`).
* *Page tables.*  A `protect` or `map` that fails returns before
  `pt_invalidate`; the page it changed stays cached until the caller invalidates
  (`owed`).
* *Console.*  `serial.c:198` calls the width a total minimum, and `Printf` takes it
  as one.  The code counts a sign twice: a field with a sign that is widened
  comes out one character short, and the count that is returned is one too large.
  `PrintedAsAsked` without its excuses is refuted by the first such field (`%5d` of
  -2 is four characters); it excuses the text of calls with one (`Short`) and the count of calls with
  a sign (`Miscounted`), and nothing else.  `%hhd` is printed as a plain char, which has
  no sign here; `Printf` takes it so.  `buffer[32]` is too small for
  `%b` of 2^31 and more, and a trailing `%` reads past the end; formats end as they
  should.
* *Ext2.*  Blocks of pointers leak: the comment at `ext2.c:462` says "Free all
  blocks", and the code below it frees those the pointers name and not the
  blocks the pointers are in; nor is a new block of pointers given back when the
  block behind it is not found.  They stay marked used, which costs room and
  nothing else, so `BlocksAccounted` counts them as used by nobody; a new
  directory keeps the names its block held; an open descriptor writes its stale
  inode back; renaming a directory leaves link counts and can move it into
  itself; `used_dirs_count` is never lowered; the first inode of each group is
  never used; an unused header overwrites the inode of the next entry.
* *Virtio.*  The status of a request is ignored, so that a call past the end of
  the disk looks like one that worked; the version and a failed start are
  ignored; features are written again after FEATURES_OK; with fewer than three
  descriptors those taken are lost.
* *The VMM at the end of the addresses.*  `vmm.c:251`, 257 and 392 compare with
  `base + size`, which is 0 for an area that ends at 2^64.  `Vmm` and `VmaTree`
  number pages and have no such area.
* *Loading modules.*  The array of import handles doubles without a look at what
  `AllocatePool` answered (`module_import_handle.c:41`); `Modules` lets it grow.
  `elf_loader.c:164` registers every export section of a file; the files of
  `Modules` have one at most.
* *Careless clients.*  `MemoryAccounted` is about clients that clear what they free
  (`Careful`); what becomes of the others is `BuddyNothingLost`, in
  `careless_clients`.
* *Older allocators and tables.*  `buddy_alloc_exact` and `free` use bitmaps
  sized by the sum of the regions, so pages above that never merge.  The heap's
  sort stops after one pass, though a comment says sorted.  In `m2/mmu` the bits
  of a block are among those of a table, so a block on the way down is taken for
  a table; `pages_map_kernel` reports success when it was cut short.
* *Names.*  A directory is read once, and entries that clients add hide files
  of the same name that come later.

## 5. The proofs

### The physical memory manager

The first part of `PmmProofs` is arithmetic: aligned blocks of two sizes are
nested or disjoint, a block and its buddy make the block of the next order, the
base of a page's block contains it.  Then it proves, for every number of
orders, every memory map, every finite set of clients and every
set of arguments:

| Theorem | States |
|---|---|
| `Metadata` (`TypeCorrect`, `ListsConsistent`) | `Spec => []MetadataSound` |
| `Exclusion` | `Spec => []LentBlocksAreExclusive` |
| `Frames` (`Conservation`, `CounterExact`) | `Spec => []FramesConserved` |
| `Refinement` | `Spec => ImplementsLedger` |
| `Restoration` | `Spec => []ReleaseRestoresInit` |
| `NoFalseAlarm` | `Spec => NoFalseOutOfMemory` |

The invariants are proved together: `IInv` is their conjunction and is
inductive.  None is inductive alone.  Merging unlinks a buddy because two bytes
of metadata say that it is a free block, which is safe only if lists and metadata
agree; that a freed block is not already in a list, and that the counter moves by
the right amount, follows from the lent blocks being disjoint from the free
pages; and that the recorded order is that of the block lent is part of
exclusion.  The proof has one lemma per action.  Allocation is reduced to one
lemma about taking a block and splitting it (`AllocFrom`), release to one about
merging up to the highest order that can be reached, reservation to the free
blocks that the range meets.

The refinement uses the invariant in each step.  A block that is taken is granted
whole: the pages that leave the free ones are those of the block, because what a
split leaves over is free, and it is new to its client, because a lent block is
apart from the free ones.  A block that comes back makes exactly its own pages
free, whatever it merges with, because the buddies were free before; and it comes
back with its last client, because the count is the number of clients.

The last two theorems rest on a second invariant, `Coalesced`: two free blocks of
one order are never the two halves of a block.  It holds at the start because the
carving takes the largest aligned block that fits (`CarvedIsLargest`), a split
keeps it because of each pair of halves one is split further or lent, and a merge
stops only where the buddy is not a free block of that order (`FreeKeeps`).  From
it, an aligned run of free pages lies in one free block (`RunInOneBlock`): else the
smallest block in the run has a buddy, in the run and so free, which is no smaller.
So a search that fails has missed no run, and when all pages are free again each
is in the block it was carved into.

Assumptions, in `BuddyGeometry` and `Pmm`: sizes double from order to order;
clients are finitely many; arguments are natural numbers; the regions of the
map lie below `TotalPages` and do not overlap, and free ones do not touch, because
the loader merges them (`boot` checks both of the map it makes); no free page has address 0 (section 2).

### The heap

`HeapProofs` proves, for every size of region, header, unit and word and every
set of sizes and alignments:

| Theorem | States |
|---|---|
| `Sound` | `Spec => []BlocksSound` |
| `Trust` | `Spec => []FreeSpaceTrusted` |
| `Implementation` | `Spec => ImplementsArena` |

All assume `NoRequestWraps`: no size a client asks for wraps when it is rounded up
or padded.  The code does not check this (section 4 has the counterexample), and
for a word of 64 bits only sizes next to 2^64 break it.

The invariant is `Tiled`, `Held` and `Trusted`.  `Tiled`: the headers that carry a magic
number lie one behind the other from the first address to the end of the region,
and `next` and `prev` link each to its neighbours.  `Held`: the headers marked
allocated are those before the payloads in clients' hands.  Every call is a
sequence of two changes, a block is cut in two (`CutIs`, `CutTiled`) or absorbs
its successor (`MergeIs`, `MergeTiled`), which `malloc`, `realloc` and `memalign`
combine in different orders; that absorbing the successor is right when the
successor is free rests on the link being an address, which is `Tiled`.  The
code, and `BlocksSound`, find the blocks by following `next`; `ListedIsLive`
shows that this visits exactly the headers with a magic number, which is what a
header overwritten by a merge must lose, or a second `free` of an old pointer
would be taken.  Loans are apart because blocks are, which gives the arena.

`Trusted` is what makes `FreeSpaceTrusted` inductive.  `used_size` is at least the
number of units of the allocated blocks, and where the two are equal no free block
lies behind a free block (`Merged`).  `malloc`, `memalign` and `free` move both
sides by the same footprint, and so keep the difference (`TrustLent`,
`TrustFreed`).  `realloc` in place cuts a block and leaves `used_size` alone: the
remainder may lie before a free block unmerged, but the difference has just
become positive, and no later call makes it smaller (`TrustResized`), so that
nothing is claimed of such a heap again.  That the clamp in `free` never acts is
the first half.  The rest is what a cut and a merge do to pairs of free
neighbours (`CutTouch`, `AbsorbedTouch`), which is where a merge in one direction
only would fail.

That ENOMEM is honest has two parts.  A run of units no allocated block touches
lies in one free block when free blocks are merged (`InBlock`), so a block of that
size is there to be found.  For `memalign` the padding tried is the least possible
in that block (`PaddingLeast`): it grows in steps of the alignment until it leaves
nothing or a whole block, and a multiple of `Unit` is met because of two powers of
two one divides the other (`PowersDivide`), hence `Unit`, 16 in the code, is assumed
to be one.

### The slab cache

`SlabProofs` proves, for every size of page and link, number of pages and set of
object sizes:

| Theorem | States |
|---|---|
| `Sound` | `Spec => []SlabsSound` |
| `Lateness` | `Spec => PagesMoveLate` |
| `Implementation` | `Spec => ImplementsArena` |

They assume `AddressesReturned`, clients free the addresses they were given, and
`AlignmentsDividePages`, an alignment that is accepted, so a power of two, divides a
page (of 4096 bytes, so it is at most a page); the last also `NoRequestWraps`.

A queue is described by the set of its pages and a rank that grows along `next`
(`IsQueue`), so that `EnqueueKeeps` and `DequeueKeeps` need no induction; that
walking from the head meets every page, which `SlabsSound` says, follows by
counting: a walk over ranks that grow ends, and `prev` brings every page back to
the head (`ReachAll`).  `HasFreeList` says that the links stored in the free slots of
a page are a stack of exactly the slots no client holds, each once; allocation
pops it and `free` pushes (`PopKeeps`, `PushKeeps`).  The count of free slots is
the height of the stack, so the queue a page is in, which is chosen by the
count before and after, is that of its state (`MembersAfter`).  Where a slot lies
is arithmetic with the header rounded up to the alignment (`StartFacts`,
`SlotFacts`): slots of a page fit in it and are disjoint, and `free` finds
from an address the page and the slot it is.  `Lateness` follows from the class of a
page: only an `empty` one is returned, and a new one is asked for only when
`partial` and `empty` have no head, so no page has a free slot.

### The virtual memory manager

`VmmProofs` proves, for every number of pages, frames, spaces and nodes per page,
every set of sizes, hints and flags, and page tables that never fail or fail at
any page:

| Theorem | States | Needs |
|---|---|---|
| `Accounting` | `Spec => []BackedAndAccounted` | |
| `Implementation` | `Spec => ImplementsAddressSpace` | `Careful` |
| `Coherence` | `Spec /\ []Plenty => []SpacesCoherent` | `Orderly` |

`BackedAndAccounted` is `TypeOK` and `FramesExclusive`, and for clients that are
`Executable` `BackedByFrames`, for those that are `Lossless` `NoFrameLost`, for those
that are `Careful` `AreasDisjoint` and `NodesConserved`.

What is needed is what the code gets wrong without it, and section 4 has a
counterexample for each.  `Executable`: no client maps pages as not executable,
since the frame of such a page is released under a wrong address.  `Lossless`: besides,
clients free what they mapped before they destroy a space, since `destroy` does
not.  `Careful`: reserved and device ranges are of one or two pages and areas grow by one
at a time, since overlap is tested at the ends of a range and growth at the
first page only.  Both settings of `MCVmm` meet all three.

`IInv` has a conjunct for each part, guarded by what it needs, so that one
pass over the calls proves all of them, and each call has one lemma:

* *Frames.*  A call changes memory and one table.  `OneUse` says of this pair that a
  frame is free, of nodes or mapped by one page; `Stock` is the set of frames it has to
  do with.  Mapping a page, unmapping one and taking a node keep `OneUse` and
  take nothing out of `Stock`, so any number of them does, which is what
  the failure in the middle of an allocation leaves.  The other spaces
  follow, because their frames are not in the stock of this one.  That it is the
  frame of the page which is released needs `Executable`.
* *Areas.*  `Backed` says that pages of an area have frames and that such areas do not
  overlap.  The two go together: a page with a frame is refused by the table layer when
  it is to be mapped again, which keeps allocated areas apart even where
  `vmm_resize` looks up only the first page behind the area; and because
  they are apart, unmapping one leaves the others their frames.  A `free` in the
  middle of an area that finds no node would leave it with a hole, but it has just
  released the frames from which a page of nodes can be taken.  `Apart` is of all
  areas, device and guard areas too, for which the table says less.
* *Nodes.*  `Due` is what is free and in use less what was taken.  `Uses` counts
  areas by space, so that a trim, a split, a removal or a space destroyed moves
  it by as many as the pool, and a new page of nodes adds `NodesPerPage` to both sides.
  `protect`, when it finds only one of two nodes, gives it back.
* *The abstract spaces.*  Where areas are apart, what a page is used for is a function
  of its one area, and cutting an area changes it nowhere; `Stepped` says that the
  rest of a call is one row of pages claimed, dropped or recast.

None of this needs an order of areas: the tree has a part of its own, below.

`Coherence` is about the other direction, what a table says of the areas:
`GuardsStayUnmapped`, `MappedPagesTracked` and `FlagsAgree`, besides `AreasDisjoint`.
It holds only while memory lasts, since an allocation that fails halfway leaves pages
mapped in no area (`vmm_rollback`), and a `protect` without a node leaves the table
changed and the area not.  `Plenty` asks of every state that there are more frames
free than the largest allocation has pages, and at least two, for the nodes of a
`protect`.  `Orderly` adds to `Executable` and `Careful` that tables do not fail, that
clients map no devices (freeing a device area leaves its pages mapped, section 4) and that
`GUARD` is not a type they allocate with.  The ample setting of `MCVmm` meets
`Orderly`, and `CoherentSpaces` checks `Plenty` there too.  The induction is on `Coherent`: every
area is paged or a guard, and a page that is mapped lies in an area, and in none
that is a guard or has other flags.  With `Backed` it splits the areas in two,
all mapped and none (`GuardOrMapped`), which is why `protect` on
a guard changes nothing, and on any other area recolours all it was asked for; and
a page in no area is not mapped (`HeldIfMapped`), so an allocation in a hole is not
refused by the table layer and, by `Plenty`, gets all its pages.

### The area tree

The second part of `VmmProofs` proves of `VmaTree`, for every number of nodes, pages
and flags (`Vma` is its instance):

| Theorem | States |
|---|---|
| `TreeIsExact` | `Vma!Spec => []Vma!TreeExact` |
| `TreeRefinement` | `Vma!Spec => Vma!ImplementsAddressSpace` |

Both assume `VmaTreeAssumption`: there is a page, clients allocate (which the code
checks) and protect (which it does not) at least one page, and reserved ranges are
of one or two pages, as in `Careful`: `vmm_reserve` looks up the two ends of a
range, and a longer one may lie over an area.  The tree of `MCVmm` meets it.

The tree is a set of records that point at each other, and each call changes a few
of them in place, so the invariant has to say what the links mean.  `Sound` is
`Shaped`, `Sized`, and a cache that is empty or on a node in use.  `Shaped` gives
each node the set of nodes under it: itself and what is under its two children.
The areas of the left child's set end before its own begins, those of the right
child's begin after it ends, and two such sets are disjoint or one holds the
other.  `Sized`: areas are not empty, and apart.  The sets are no variable of the
model; that there are some is all that is claimed.  The proof is in layers:

* *Ways.*  `Walk`, the way to where a node is linked, and the way to the successor
  are recursive functions.  `Descent` is about all three: a step that goes to a
  child or stays gets to a smaller set each time, so it has come to rest after as
  many turns as there are nodes, and the node that is looked for is still under the
  one it has come to.  Hence `find_vma` returns the node that holds the page
  (`FindIs`).
* *Links.*  `insert_vma` hangs a node where nothing was, on the proper side of each
  node above (`PlaceIs`, `HungShaped`).  `remove_tree_node` relinks the one node
  that leads to the removed one (`ParentIs`, `OneParent`, `SplicedShaped`); with two
  children it first gives the node the next area and removes that one's node, which
  has no left child (`SuccessorIs`, `BetweenShaped`, `TwoRemoved`).  `Parent`
  searches all nodes outside the pool: `Loose` says that those not in the tree,
  which there are in the middle of a `protect`, lead nowhere.
* *Areas.*  From here only the set of areas matters (`Gained`, `Removed`, `ReArea`).
  A page has the use of the one area that holds it (`UseAtIs`), and each call but
  `create` and `destroy` gives the pages of one range, which had one use, another
  (`Painted`, `Turns`).  A `protect` in the middle of an area takes two nodes,
  removes the old one and links three.
* *The end.*  What `InTree` reaches is what is not in the pool (`ReachedIs`), and
  `destroy`, which removes the head until there is none, empties the tree within as
  many turns as there are nodes (`Empties`).

### The page tables

`PageTableProofs` proves, for every number of entries in a table, of frames and of
roots, for every set of addresses, lengths and flags, whether clients keep granules
apart or not:

| Theorem | States |
|---|---|
| `Accounted` | `Spec => []TablesAccounted` |
| `Emptied` | `Spec => NoTableEmptied` |
| `Refinement` | `Spec => ImplementsPageMap`, if clients keep granules apart |

They assume `PageTableAssumption`: the sizes of pages are those of the three granules,
addresses and lengths are natural numbers, and the flags do not contain "none", which
stands for those of an entry without any.  `MCPageTable` has TLC evaluate it for
both sets of constants.

The invariant gives every table a level (`Forest`): roots have level 0, an entry leads to a
table of the next level, and no other entry leads to it.  That is what a call
needs to know: a walk that takes n steps is at a table of level n, so that the entry it
writes is a page, and the table it prunes is not the root and is met by no other
walk.  `Owned`, that some entry leads to every table but the roots, is what is true besides
when clients keep granules apart, and only then: with a block one can overwrite the
entry of a table, which is lost with all below it.

Memory changes in few ways, and each has a lemma for the forest: an entry that
leads to no table is written (`GoodPut`), a table is added (`ForestAdd`,
`ForestRoot`), a set of tables that is closed under leading to one another is given up
(`GoodWithout`).  The last is pruning, where the set is one empty table whose entry
was just cleared, and `pt_free`, where it is a tree (`TreeIs`).  What needs care:

* Pruning walks from the root again for each level, in memory that the level below
  has changed.  It goes the way of the first walk because tables above have not
  changed (`UpperWalk`), and `PruneStep` carries along that at most one table has been
  emptied and not yet released, the next one up.  At the root the chain ends, whence
  `Emptied`.
* A call on a range is sound page by page, but that its later pages lead to no table was
  checked against the memory before the call.  Unmapping loses entries and makes none, so
  it still holds when the page's turn comes (`StillNotTable`).
* A copy makes tables while it reads others.  `CopyDone` says that no table that was there
  has changed but the one being filled, whose entries to come are zero
  (`Copying`); with that the three levels have one lemma each, and a copy that fails
  halfway is the forest of before with one more tree, which is released.

Loops over pages and entries are recursive functions, of which nothing is known until
one is shown to exist (`Course`); what a turn keeps, all turns keep (`Turns`).

`Refinement` assumes `~Mixed` besides: with a block one can take away a table and all
that was mapped below it, which is no step of `PageMap` (section 4).  The argument
goes by `Seen`, what a walk finds from a table of a level on, which is what
`pt_translate` answers from a root (`TranslatedSeen`).

* Pages whose walks meet no table that a call writes see what they saw
  (`SeenApart`); a table made or pruned is empty, so nothing is seen through it
  (`SeenGrown`); an entry that is written changes what its own pages see and no
  other's (`SeenPut`), which is where the forest is needed again: two walks that
  meet in a table have come the same way, and so have the same indices above.
* A call on a range paints a row of pages (`Painted`) block after block, and after
  each turn the row is one block longer (`MapsRow`, `UnmapsRow`, `GuardsRow`).  A map
  that finds no frame or an entry in use stops after a shorter row, which is a step of
  `PageMap` as well; the empty tables it leaves show nothing.
* A copy shows, entry after entry, what its source shows (`Copied`); one that fails is
  released with its tables and nothing was written elsewhere (`GivenAlike`).

### Starting the modules

`ModulesProofs` proves, for every `kernel.ini`, every set of files with any
imports and exports, capacities of the hash tables, placements in them and limits
of the heap:

| Theorem | States |
|---|---|
| `Invariance` | `Spec => []IInv` |
| `Agreement` | `Spec => []ModulesAgree` |
| `Implementation` | `Spec => ImplementsStartup` |

No assumption beyond the types of the constants is made.  The parts of `IInv`:

* `TablesSound`: a key that is in a table is where a search for it ends, so that what
  is registered is found again although keys collide.  Filling the first free
  slot of the search path keeps this, since no key is ever taken out.
* `InstancesSound`, `ImportsSound`: an entry is of the file it was loaded from; each
  import handled is bound to the provider the tables give, which is a dependency
  of the importer from then on.
* `StackSound`: the calls of `initialize_module` in progress (`Frames`): each was
  made for the dependency at which its caller stands, and what the caller has
  passed is started.  With it a module starts only after all it imports from, in
  whatever order the list is walked and however the imports form cycles; and where
  the kernel panics for depth, the stack shows the chain of imports that
  `EndsAreDeserved` asks for.
* `Chained` and `Covered`, or `Looped`: the list of modules ends and has each once, and
  those before the current one are started; or a second file has replaced an
  entry, which links it to itself through its successors, and the walk never
  reaches "done", which is why the success of the boot needs no case for it.

### The TLB

`TlbProofs` proves, for every set of pages, roots, frames and flags and calls of
every length:

| Theorem | States |
|---|---|
| `Current` | `Spec => []CachedIsCurrent` |
| `Unreached` | `Spec => []FreeFramesUnreached` |

Both assume `Instance`: pages are integers, the halves are disjoint, lengths are
natural numbers, and the model values are distinct.  Nothing is assumed of the order
in which stores become visible: a walk may read overwritten entries until the DSB,
and what it does read after their TLBI is in `late`, which both theorems except
(section 4).

The invariant has three parts.  `FramesInv`: a frame is
free or in one entry, except between the store that unmaps it and its release,
when it is in neither; a cached frame is one the page has in some space, or
the one just unmapped, before its TLBI is complete, or its page is late.  It also
says what can be read of the past: an overwritten entry (`StaleFrames`,
`StalePages`) has the frame its page still has or has just lost, and its page is
being changed and has its TLBI before it, or behind it in this call (`Pending`), or is
owed by a failed protect.  That the past of one call is not read in the next is what the
DSB at its end is for.  `CurrentOrDue`: a cached entry is the table's, or it is due
*and* excused, or late.  `Due` says when an entry can still be there: it is yet to be
invalidated by the call in progress, a DSB is missing, or the call that would do it
has not come.  `Excused` says why that is allowed: the page is being changed, a failed
protect left it to the caller, or the space was switched.  `CachedIsCurrent` is the
second without the first, and is not inductive: a TLBI that named the wrong page
would leave the excuse behind when the call ends.  `WalksInv` keeps the remembered
tables: a released one is remembered of the upper half only until the TLBI, or late
after it (`StrayInv`).

### The block device

`VirtioBlkProofs` proves `Implementation`, `Spec => ImplementsBlockDevice`: in
whatever order driver and device take their steps, for queues of every size,
buses of every kind and indices that wrap at any number, each call is done once,
after it is made and before it is answered, and a read returns what the disk held
when it was done.  The driver reads nothing but an index to learn that its request
is done, so the invariant ties the four indices to the place of the driver:
`Quiet`, where all are equal and the device holds no chain, until the request is
published; then `InQueue`, where the request is offered, taken, done or reported,
and the driver's view of the used index lags behind only in the last case.
`Complete` is enabled just there, which is why an answer is never early; and it
makes all indices equal again, which is why none is given twice.  Assumed are the
types of the requests and that `None` is none of them.

`Descriptors` is `Spec => []DescriptorsKept`: no descriptor is ever lost or in use
twice, and a chain the device has not done yet can be followed to its end.  The
invariant `QInv` says what the free list is: a sequence of descriptors without
repetition, whose first is `free_head`, each of which leads to the next and the
last to `Nil` (`IsFreeList`); its descriptors and the up to three of the request
are together all there are (`Remaining`).  From `Build` to the answer those three
differ (`Taken`); once built they are a chain that ends without `NEXT`, and the
rings name its first (`Offered`).  That `Follow`, which
walks links for at most `q.size` steps, returns just such a sequence is `FollowIs`:
without it nothing is known of a recursive function.  `Complete` puts the three
back in the order in which it meets them, which is why the list is sound again
whatever `next` the allocation left.  `SizesAssumption` says that a queue size is
a 16-bit number other than 0, and that the four pages of the start are there,
which the code never checks.

### What is not proved

Model-checked only, though within the prover's reach: the invariants and refinements
of the boot modules, `Ext2` and the older modules.  Out of its reach: liveness under fairness (`BootFinishes`, `WaitingEnds`), and what
recursive functions over data compute, since the induction theorems of the
library cannot be used with the provers at hand; where a proof needs it
(`FollowIs`), the function is given in closed form and compared at its least
difference.

## 6. Not modelled

* `set_kernel_ctx`, which nothing calls after the start; roots, which are freed
  without a flush, and so are not freed in `Tlb`; barriers other than the DSBs
  behind TLBIs, which are all `pt.c` has.
* `heap_destroy`, which the exported table leaves out, and `heap_get_stats`.
* `kmemset` of a new table through the direct map, and the contents of memory
  in general.
* The memory of the loader itself, which the kernel's map lists as free while
  the loader is still starting modules from it.
* Boot logging and symbol tables, which are shifted and never looked at.
* `buddy_alloc_kernel` and `buddy_free_kernel` of `m2/pmm`, which take the order
  from a virtual address through a translation that takes every table for a
  block.
* ext2's lookup by path (`get_size`, `is_dir`, `is_file`), which calls a function
  the module does not define; in `m2/vfs`, opening, reading and writing, which
  call code the repository does not have.
* The flush of the block device, which does nothing: the driver never records
  the feature it asks for.
* `m2`: slabs, whose creation loop never advances, so that a cache holds one
  object; `vmm.c`, a skeleton; the partition table, read once without state; the
  GIC, sequences of register writes; strings; the console, a near copy of the
  serial module; the kernel's start-up test; the generators.
* `KernelForge/`, build files, headers: no behaviour of the kernel.

Five hazards of the list have no property that a run checks: the loader's own memory,
which is not modelled, and four that the code runs into, so that their properties are
refuted (section 4): a walk that takes a block for a table
(`NoWalkThroughBlocks`), the address cut out of a descriptor (`NoFrameLost` with
`NoExec`), the order in `destroy_cache` (`DestroyReturnsAll`), and a second export
(`BootFinishes` excuses it).  Some hazards are stated by properties the code breaks only at the end of
a word or for callers that break a rule (`CapacityAsAsked`, `FreeTakesObjects`,
section 4) and are not in the list.

## 7. Plan

Done: the modules of section 2 and the proofs of section 5.  Next, in order:

1. Proofs: the merge of `BootMemoryMap`; the bitmaps of `Ext2`.
2. The composition of VMM, page tables and PMM over one set of frames.
3. The buffer of the block device under the file system: a crash between two
   writes of a call of ext2, which the code has no recovery for.
