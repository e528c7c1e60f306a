------------------------------ MODULE Ext2Disk ------------------------------
(***************************************************************************)
(* The part of the ext2 driver, modules2/src2/ext2/ext2.c, that reads and  *)
(* changes the disk: bitmaps and their counts, inodes, block pointers and  *)
(* directory entries.  Each operator takes a disk and returns the disk the *)
(* function leaves, together with what it returns.                         *)
(*                                                                         *)
(* Sizes and positions count words of four bytes.  A block is a function   *)
(* from positions to words, because what the driver does with a block      *)
(* depends on what is in it: a new directory gets a block with its old     *)
(* contents.  Metadata blocks are kept apart as records, so a block number *)
(* that leads to one, or past the disk, or a record that leads past its    *)
(* block, sets strayed.                                                    *)
(***************************************************************************)
EXTENDS Integers, Sequences, FiniteSetsExt, SequencesExt

CONSTANTS
  BlockSize,       \* words per block
  Direct,          \* direct pointers per inode: 12
  PtrsPerBlock,    \* pointers per indirect block
  BlocksPerGroup,
  InodesPerGroup,
  FirstDataBlock,
  TotalBlocks,
  Metadata,        \* the blocks of the boot sector, superblock, tables, bitmaps
  Stack            \* inode.block as the stack happens to hold it

(* What the sizes of a disk must be; whoever instantiates this assumes it. *)
DiskAssumption ==
  /\ {BlockSize, Direct, PtrsPerBlock, BlocksPerGroup, InodesPerGroup} \subseteq Nat \ {0}
  /\ FirstDataBlock \in Nat /\ TotalBlocks \in Nat
  /\ PtrsPerBlock <= BlockSize
  /\ Stack \in [1 .. Direct + 2 -> Nat]

(* As create reads them from the superblock.                               *)
groups_count == (TotalBlocks + BlocksPerGroup - 1) \div BlocksPerGroup

Group == 0 .. (groups_count - 1)
Inode == 1 .. (groups_count * InodesPerGroup)
DataBlock == (FirstDataBlock .. (TotalBlocks - 1)) \ Metadata
Words == 0 .. (BlockSize - 1)
Root == 2

Zeros(n) == [i \in 1 .. n |-> 0]
ZeroBlock == Zeros(BlockSize)

(* Tables are sequences; the driver counts their positions from 0.         *)
At(table, i) == table[i + 1]

-----------------------------------------------------------------------------
(* Blocks and inodes                                                       *)

Stray(d) == [d EXCEPT !.strayed = TRUE]

read_block(d, b) == IF b \in DataBlock THEN d.block[b] ELSE ZeroBlock

write_block(d, b, words) ==
  IF b \in DataBlock THEN [d EXCEPT !.block[b] = words] ELSE Stray(d)

read_inode(d, i) == d.inode[i]
write_inode(d, i, n) == [d EXCEPT !.inode[i] = n]

count_blocks_needed(size) == (size + BlockSize - 1) \div BlockSize

-----------------------------------------------------------------------------
(* The bitmaps.  Each change of a bit is followed by one of the count in   *)
(* the group's descriptor and one of the count in the superblock.          *)

LeastOrZero(S) == IF S = {} THEN 0 ELSE Min(S)

BlockGroup(b) == (b - FirstDataBlock) \div BlocksPerGroup
BlockBit(b) == (b - FirstDataBlock) % BlocksPerGroup
BlockUsed(d, b) == BlockBit(b) \in d.used[BlockGroup(b)]

(* The bits that are looked at end with the number of blocks, and are for  *)
(* blocks that start at the first data block.                              *)
OpenBlocks(d) ==
  {b \in FirstDataBlock .. (FirstDataBlock + TotalBlocks - 1) :
     d.desc[BlockGroup(b)].blocks > 0 /\ ~BlockUsed(d, b)}

TakeBlock(d, b) ==
  [d EXCEPT !.used[BlockGroup(b)] = @ \cup {BlockBit(b)}, !.desc[BlockGroup(b)].blocks = @ - 1,
            !.super.blocks = @ - 1]

(* The first clear bit of the first group that has one.                    *)
allocate_block(d) ==
  LET Take(b) == [d |-> IF b = 0 THEN d ELSE TakeBlock(d, b), ret |-> b]
  IN  Take(LeastOrZero(OpenBlocks(d)))

free_block(d, b) ==
  IF b \notin FirstDataBlock .. (TotalBlocks - 1) \/ ~BlockUsed(d, b) THEN d
  ELSE [d EXCEPT !.used[BlockGroup(b)] = @ \ {BlockBit(b)}, !.desc[BlockGroup(b)].blocks = @ + 1,
                 !.super.blocks = @ + 1]

FreeBlocks(d, blocks) ==
  FoldLeft(LAMBDA e, b : IF b = 0 THEN e ELSE free_block(e, b), d, blocks)

InodeGroup(i) == (i - 1) \div InodesPerGroup
InodeBit(i) == (i - 1) % InodesPerGroup
InodeUsed(d, i) == InodeBit(i) \in d.taken[InodeGroup(i)]

(* The first inode of every group is taken for inode 0 and skipped.        *)
OpenInodes(d) ==
  {i \in Inode : d.desc[InodeGroup(i)].inodes > 0 /\ ~InodeUsed(d, i) /\ InodeBit(i) # 0}

allocate_inode(d, directory) ==
  LET Take(i) ==
        [d |-> IF i = 0 THEN d
               ELSE [d EXCEPT !.taken[InodeGroup(i)] = @ \cup {InodeBit(i)},
                              !.desc[InodeGroup(i)].inodes = @ - 1,
                              !.desc[InodeGroup(i)].dirs = IF directory THEN @ + 1 ELSE @,
                              !.super.inodes = @ - 1],
         ret |-> i]
  IN  Take(LeastOrZero(OpenInodes(d)))

(* used_dirs_count is not taken back.                                      *)
free_inode(d, i) ==
  IF ~InodeUsed(d, i) THEN d
  ELSE [d EXCEPT !.taken[InodeGroup(i)] = @ \ {InodeBit(i)}, !.desc[InodeGroup(i)].inodes = @ + 1,
                 !.super.inodes = @ + 1]

-----------------------------------------------------------------------------
(* Block pointers.  Pointers 0 .. Direct - 1 are in the inode, the next    *)
(* PtrsPerBlock in the block that pointer Direct names, the rest two levels*)
(* below pointer Direct + 1.                                               *)

Single == Direct + PtrsPerBlock
Double == Single + PtrsPerBlock * PtrsPerBlock

Overlay(table, from, values) ==
  SubSeq(table, 1, from) \o values \o SubSeq(table, from + Len(values) + 1, Len(table))

(* Up to count pointers of block b from position from, if there is b.      *)
PointersIn(d, b, from, count) ==
  IF b = 0 THEN <<>> ELSE SubSeq(read_block(d, b), from + 1, Min({from + count, PtrsPerBlock}))

SecondLevel(d, b, j) == IF b = 0 THEN 0 ELSE At(read_block(d, b), (j - Single) \div PtrsPerBlock)

(* As many of the count pointers from idx on as there are, up to the end of*)
(* the block they are in at the second level.                              *)
read_block_pointers(d, n, idx, count) ==
  LET ThenSingle(got) ==
        IF Len(got) < count /\ idx + Len(got) < Single
        THEN got \o PointersIn(d, At(n.ptr, Direct), idx + Len(got) - Direct, count - Len(got)) ELSE got
      ThenDouble(got) ==
        IF Len(got) < count /\ idx + Len(got) \in Single .. (Double - 1)
        THEN got \o PointersIn(d, SecondLevel(d, At(n.ptr, Direct + 1), idx + Len(got)),
                               (idx + Len(got) - Single) % PtrsPerBlock, count - Len(got)) ELSE got
  IN  ThenDouble(ThenSingle(SubSeq(n.ptr, idx + 1, Min({idx + count, Direct}))))

FirstOrZero(s) == IF s = <<>> THEN 0 ELSE s[1]

(* Pointer idx, or 0 if there is none.                                     *)
Pointer(d, n, idx) == FirstOrZero(read_block_pointers(d, n, idx, 1))

(* A block of zeros for pointers, unless the one given exists.             *)
PointerBlock(d, b) ==
  LET Clear(r) == IF r.ret = 0 THEN r ELSE [r EXCEPT !.d = write_block(r.d, r.ret, ZeroBlock)]
  IN  IF b # 0 THEN [d |-> d, ret |-> b] ELSE Clear(allocate_block(d))

(* Writing pointers goes through states of the disk, the inode, which stays*)
(* in memory, and the number of pointers written.                          *)

(* The values that are left and go into block b, from position from.       *)
IntoBlock(s, b, from, values) ==
  LET Put(count) == [s EXCEPT !.d = write_block(@, b, Overlay(read_block(@, b), from,
                                                        SubSeq(values, s.written + 1, s.written + count))),
                              !.written = @ + count]
  IN  IF b = 0 THEN s ELSE Put(Min({Len(values) - s.written, PtrsPerBlock - from}))

WithPointer(s, i, r) == [s EXCEPT !.d = r.d, !.n.ptr[i + 1] = r.ret]

WriteSingle(s, j, values) ==
  LET Below(t) == IntoBlock(t, At(t.n.ptr, Direct), j - Direct, values)
  IN  Below(WithPointer(s, Direct, PointerBlock(s.d, At(s.n.ptr, Direct))))

(* The second level: a block that is new gets its place in the first.      *)
WriteSecond(s, first, j, values) ==
  LET level == (j - Single) \div PtrsPerBlock
      Below(r) == IntoBlock([s EXCEPT !.d = IF r.ret = 0 THEN r.d
                                            ELSE write_block(r.d, first, Overlay(read_block(r.d, first), level, <<r.ret>>))],
                            r.ret, (j - Single) % PtrsPerBlock, values)
  IN  IF first = 0 THEN s ELSE Below(PointerBlock(s.d, At(read_block(s.d, first), level)))

WriteDouble(s, j, values) ==
  LET Below(t) == WriteSecond(t, At(t.n.ptr, Direct + 1), j, values)
  IN  Below(WithPointer(s, Direct + 1, PointerBlock(s.d, At(s.n.ptr, Direct + 1))))

(* Write values as pointers idx, idx + 1, ...                              *)
write_block_pointers(d, n, idx, values) ==
  LET Start(k) == [d |-> d, n |-> [n EXCEPT !.ptr = Overlay(@, idx, SubSeq(values, 1, k))], written |-> k]
      ThenSingle(s) == IF s.written < Len(values) /\ idx + s.written < Single
                       THEN WriteSingle(s, idx + s.written, values) ELSE s
      ThenDouble(s) == IF s.written < Len(values) /\ idx + s.written \in Single .. (Double - 1)
                       THEN WriteDouble(s, idx + s.written, values) ELSE s
  IN  ThenDouble(ThenSingle(Start(Max({0, Min({Len(values), Direct - idx})}))))

(* Allocate count blocks, or none.                                         *)
AllocateBlocks(d, count) ==
  LET More(acc, r) == [d |-> r.d, failed |-> r.ret = 0,
                       blocks |-> IF r.ret = 0 THEN acc.blocks ELSE Append(acc.blocks, r.ret)]
      Settle(r) == IF r.failed THEN [r EXCEPT !.d = FreeBlocks(r.d, r.blocks)] ELSE r
  IN  Settle(FoldLeft(LAMBDA acc, i : IF acc.failed THEN acc ELSE More(acc, allocate_block(acc.d)),
                      [d |-> d, failed |-> FALSE, blocks |-> <<>>], Zeros(count)))

(* On failure pointers in the inode may already name blocks that are freed.*)
ensure_blocks_allocated(d, n, required) ==
  LET missing == required - count_blocks_needed(n.size)
      Written(put, blocks) ==
        IF put.written = missing THEN [d |-> put.d, n |-> put.n, ok |-> TRUE]
        ELSE [d |-> FreeBlocks(put.d, blocks), n |-> put.n, ok |-> FALSE]
      Write(got) ==
        IF got.failed THEN [d |-> got.d, n |-> n, ok |-> FALSE]
        ELSE Written(write_block_pointers(got.d, n, count_blocks_needed(n.size), got.blocks), got.blocks)
  IN  IF missing <= 0 THEN [d |-> d, n |-> n, ok |-> TRUE] ELSE Write(AllocateBlocks(d, missing))
=============================================================================
