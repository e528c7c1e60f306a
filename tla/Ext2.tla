-------------------------------- MODULE Ext2 --------------------------------
(***************************************************************************)
(* The calls of the ext2 driver, modules2/src2/ext2/ext2.c.                *)
(*                                                                         *)
(* Nothing runs concurrently with a call, so a call is one step.  What     *)
(* makes histories interesting is that a descriptor keeps its own copy of  *)
(* the inode, read when the file was opened and written back on every read *)
(* and on closing.  The driver does not stop a client from opening a file  *)
(* twice, from deleting it while it is open, or from moving a directory,   *)
(* nor does it clear the block of a new directory; with Careful the clients*)
(* do none of these, and that block holds no names.                        *)
(***************************************************************************)
EXTENDS Ext2Directory

CONSTANTS
  RootBlock,    \* the block of the root directory
  Dot, DotDot,  \* the names "." and ".."
  Name,         \* the names clients use
  Fd,           \* the descriptors
  Data,         \* the words clients write
  Counts,       \* how many words they read and write
  Lengths,      \* the sizes they truncate to
  Offsets,      \* the offsets they seek by
  MaxChanges,   \* bound: how many calls may change the disk
  Careful       \* whether clients keep to the above

VARIABLES
  disk,     \* what is on the disk
  fds,      \* the open descriptors: inode number, position and copy of the inode
  ret,      \* whether the last call succeeded
  seen,     \* auxiliary: the names and contents that are on the disk
  changes   \* auxiliary: how many calls changed the disk

vars == <<disk, fds, ret, seen, changes>>

Unused == [kind |-> "none", size |-> 0, links |-> 0, ptr |-> Zeros(Direct + 2)]
Closed == [ino |-> 0, pos |-> 0, n |-> Unused]
IsOpen(f) == fds[f].ino # 0

-----------------------------------------------------------------------------
(* What is on a disk d.                                                    *)

OwnedOn(d) == {i \in Inode : InodeUsed(d, i)} \ {1, Root}

(* The names in directory i, but for those of the directory itself.        *)
NamesIn(d, i) ==
  LET Entry(words, p) == [dir |-> i, name |-> [k \in 1 .. NameLen(words, p) \div 4 |-> Word(words, p + 1 + k)],
                          id |-> Ino(words, p), type |-> FileType(words, p)]
      Read(contents) == {Entry(contents[a[1]], a[2]) : a \in Live(contents)}
  IN  {n \in Read(Contents(d, d.inode[i])) : n.name \notin {Dot, DotDot}}

WordsOf(d, n) ==
  [k \in 1 .. n.size |-> At(read_block(d, Pointer(d, n, (k - 1) \div BlockSize)), (k - 1) % BlockSize)]

DirsOn(d) == {i \in Inode : InodeUsed(d, i) /\ IsDir(d, i)}

Seen(d) ==
  [names |-> UNION {NamesIn(d, i) : i \in DirsOn(d)},
   files |-> [i \in {j \in OwnedOn(d) : d.inode[j].kind = "file"} |-> WordsOf(d, d.inode[i])],
   dirs  |-> DirsOn(d)]

-----------------------------------------------------------------------------
(* The file system as it was made: the root holds itself.  The bits behind *)
(* the end of the disk are set, as are those of the metadata; inode 1 is   *)
(* reserved.                                                               *)

BlockOf(g, i) == g * BlocksPerGroup + i + FirstDataBlock

Bits == 0 .. (BlocksPerGroup - 1)
UsedAtFirst == [g \in Group |-> {i \in Bits : BlockOf(g, i) \notin DataBlock \ {RootBlock}}]
TakenAtFirst == [g \in Group |-> IF g = 0 THEN {0, 1} ELSE {}]

RootWords ==
  Overlay(ZeroBlock, 0,
    <<Root, Meta(12, 4, DIR)>> \o Dot \o <<Root, Meta(4 * BlockSize - 12, 4, DIR)>> \o DotDot)

Init ==
  /\ disk = [block   |-> [b \in DataBlock |-> IF b = RootBlock THEN RootWords ELSE ZeroBlock],
             inode   |-> [i \in Inode |-> IF i = Root
                            THEN [kind |-> "dir", size |-> BlockSize, links |-> 2,
                                  ptr |-> [Unused.ptr EXCEPT ![1] = RootBlock]]
                            ELSE Unused],
             used    |-> UsedAtFirst,
             taken   |-> TakenAtFirst,
             desc    |-> [g \in Group |-> [blocks |-> BlocksPerGroup - Cardinality(UsedAtFirst[g]),
                                           inodes |-> InodesPerGroup - Cardinality(TakenAtFirst[g]),
                                           dirs   |-> IF g = 0 THEN 1 ELSE 0]],
             super   |-> [blocks |-> Cardinality(DataBlock) - 1,
                          inodes |-> Cardinality(Inode) - 2],
             strayed |-> FALSE]
  /\ fds = [f \in Fd |-> Closed]
  /\ ret = "OK"
  /\ seen = Seen(disk)
  /\ changes = 0

Return(d, status) ==
  /\ disk' = d
  /\ ret' = status
  /\ seen' = IF d = disk THEN seen ELSE Seen(d)
  /\ changes' = IF d = disk THEN changes ELSE changes + 1

Fail == Return(disk, "ERROR")

-----------------------------------------------------------------------------
(* Files                                                                   *)

InUse(i) == \E f \in Fd : fds[f].ino = i

ext2_file_open(f, i) ==
  /\ ~IsOpen(f)
  /\ Careful => ~InUse(i)
  /\ \/ disk.inode[i].kind # "file" /\ Fail /\ UNCHANGED fds
     \/ /\ disk.inode[i].kind = "file"
        /\ fds' = [fds EXCEPT ![f] = [ino |-> i, pos |-> 0, n |-> read_inode(disk, i)]]
        /\ Return(disk, "OK")

FileInode == [kind |-> "file", size |-> 0, links |-> 1, ptr |-> Stack]

(* What each creation takes: an inode, written, and a name for it.         *)
NewFile(new, dir, name) == add_entry(write_inode(new.d, new.ret, FileInode), dir, name, new.ret, FILE)

(* Faulty variant: the inode of the failed creation stays allocated.       *)
CreateKeepsInode(dir, name) ==
  /\ UNCHANGED fds
  /\ \/ find_entry(disk, dir, name).ret = 0 /\ Fail
     \/ /\ find_entry(disk, dir, name).ret # 0
        /\ \E new \in {allocate_inode(disk, FALSE)} :
             \/ new.ret = 0 /\ Fail
             \/ new.ret # 0 /\ \E added \in {NewFile(new, dir, name)} :
                  Return(added.d, IF added.ret = 0 THEN "OK" ELSE "ERROR")

(* Of the new inode only mode, size and link count are set.                *)
ext2_file_create(dir, name) ==
  /\ UNCHANGED fds
  /\ \/ find_entry(disk, dir, name).ret = 0 /\ Fail
     \/ /\ find_entry(disk, dir, name).ret # 0
        /\ \E new \in {allocate_inode(disk, FALSE)} :
             \/ new.ret = 0 /\ Fail
             \/ new.ret # 0 /\ \E added \in {NewFile(new, dir, name)} :
                  \/ added.ret # 0 /\ Return(free_inode(added.d, new.ret), "ERROR")
                  \/ added.ret = 0 /\ Return(added.d, "OK")

ext2_file_close(f) ==
  /\ IsOpen(f)
  /\ Return(write_inode(disk, fds[f].ino, fds[f].n), "OK")
  /\ fds' = [fds EXCEPT ![f] = Closed]

(* Words from .. to of a file touch these of its blocks.                   *)
Touched(from, to) == [k \in 1 .. (to \div BlockSize - from \div BlockSize + 1) |-> from \div BlockSize + k - 1]

(* A pointer that cannot be read ends the loop; a zero is read as zeros.   *)
ReadEnd(h, to) ==
  LET Stop(unread) == IF unread = {} THEN to ELSE Max({h.pos, Min(unread) * BlockSize})
  IN  Stop({k \in ToSet(Touched(h.pos, to - 1)) : read_block_pointers(disk, h.n, k, 1) = <<>>})

ext2_file_read(f, count) ==
  /\ IsOpen(f)
  /\ \/ fds[f].pos >= fds[f].n.size /\ Return(disk, "OK") /\ UNCHANGED fds
     \/ /\ fds[f].pos < fds[f].n.size
        /\ fds' = [fds EXCEPT ![f].pos = ReadEnd(fds[f], Min({fds[f].pos + count, fds[f].n.size}))]
        /\ Return(write_inode(disk, fds[f].ino, fds[f].n), "OK")

(* A second copy of the same function.                                     *)
ext2_file_read2(f, count) == ext2_file_read(f, count)

(* Words from .. to - 1 of the file with inode n become word.              *)
Fill(d, n, from, to, word) ==
  LET Part(e, b, first, last) ==
        write_block(e, b, Overlay(read_block(e, b), first, [w \in 1 .. (last - first) |-> word]))
  IN  FoldLeft(LAMBDA e, k : Part(e, Pointer(e, n, k), Max({from - k * BlockSize, 0}),
                                  Min({to - k * BlockSize, BlockSize})),
               d, IF to > from THEN Touched(from, to - 1) ELSE <<>>)

WriteEnd(d, n, from, to) ==
  LET Stop(missing) == IF missing = {} THEN to ELSE Max({from, Min(missing) * BlockSize})
  IN  Stop({k \in ToSet(Touched(from, to - 1)) : Pointer(d, n, k) = 0})

(* The blocks come first; a block that is still missing ends the loop.     *)
ext2_file_write(f, count, word) ==
  /\ IsOpen(f)
  /\ \E h \in {fds[f]} :
     \E more \in {ensure_blocks_allocated(disk, h.n, count_blocks_needed(h.pos + count))} :
       \/ ~more.ok /\ Return(more.d, "ERROR") /\ fds' = [fds EXCEPT ![f].n = more.n]
       \/ /\ more.ok
          /\ \E end \in {WriteEnd(more.d, more.n, h.pos, h.pos + count)} :
             \E n \in {[more.n EXCEPT !.size = Max({@, end})]},
                filled \in {Fill(more.d, more.n, h.pos, end, word)} :
               /\ Return(IF end > h.n.size THEN write_inode(filled, h.ino, n) ELSE filled, "OK")
               /\ fds' = [fds EXCEPT ![f].pos = end, ![f].n = n]

(* The sum is unsigned: below zero is far behind the end.                  *)
ext2_file_seek(f, offset, whence) ==
  /\ IsOpen(f)
  /\ \E new \in {offset + CASE whence = "SET" -> 0
                            [] whence = "CUR" -> fds[f].pos
                            [] whence = "END" -> fds[f].n.size} :
       \/ new \notin 0 .. fds[f].n.size /\ Fail /\ UNCHANGED fds
       \/ new \in 0 .. fds[f].n.size /\ Return(disk, "OK") /\ fds' = [fds EXCEPT ![f].pos = new]

(* Shrinking by several blocks copies one zero and then what lies behind   *)
(* it on the stack.  Pointer blocks are kept.                              *)
Cleared(count) == [k \in 1 .. count |-> IF k = 1 THEN 0 ELSE Stack[1]]

Cut(d, n, from, count) ==
  LET Done(put) == [d |-> put.d, n |-> put.n, ok |-> TRUE]
      Give(blocks) == IF Len(blocks) # count THEN [d |-> d, n |-> n, ok |-> FALSE]
                      ELSE Done(write_block_pointers(FreeBlocks(d, blocks), n, from, Cleared(count)))
  IN  IF count = 0 THEN [d |-> d, n |-> n, ok |-> TRUE] ELSE Give(read_block_pointers(d, n, from, count))

(* Faulty variant: the block with the new end is freed as well.            *)
ShrunkTooFar(d, n, length) ==
  Cut(d, n, length \div BlockSize, count_blocks_needed(n.size) - length \div BlockSize)

Shrunk(d, n, length) ==
  Cut(d, n, count_blocks_needed(length), count_blocks_needed(n.size) - count_blocks_needed(length))

(* Growing does not clear the blocks it adds.                              *)
ext2_file_truncate(f, length) ==
  /\ IsOpen(f)
  /\ \/ length = fds[f].n.size /\ Return(disk, "OK") /\ UNCHANGED fds
     \/ /\ length # fds[f].n.size
        /\ \E r \in {IF length > fds[f].n.size
                     THEN ensure_blocks_allocated(disk, fds[f].n, count_blocks_needed(length))
                     ELSE Shrunk(disk, fds[f].n, length)} :
             \/ ~r.ok /\ Return(r.d, "ERROR") /\ fds' = [fds EXCEPT ![f].n = r.n]
             \/ /\ r.ok
                /\ \E n \in {[r.n EXCEPT !.size = length]} :
                     /\ Return(write_inode(r.d, fds[f].ino, n), "OK")
                     /\ fds' = [fds EXCEPT ![f].n = n, ![f].pos = Min({@, length})]

(* The name goes first, then the data blocks, then the inode.              *)
Discard(d, i) ==
  LET Give(blocks, count) ==
        IF Len(blocks) # count THEN [d |-> d, ok |-> FALSE]
        ELSE [d |-> free_inode(FreeBlocks(d, blocks), i), ok |-> TRUE]
      All(n, count) == Give(read_block_pointers(d, n, 0, count), count)
  IN  IF i \in Inode THEN All(d.inode[i], count_blocks_needed(d.inode[i].size)) ELSE [d |-> d, ok |-> FALSE]

ext2_file_delete(dir, name) ==
  /\ UNCHANGED fds
  /\ \E found \in {find_entry(disk, dir, name)} :
       /\ Careful => ~InUse(found.ino)
       /\ \/ (found.ret # 0 \/ found.type # FILE) /\ Fail
          \/ /\ found.ret = 0 /\ found.type = FILE
             /\ \E gone \in {Discard(remove_entry(disk, dir, name).d, found.ino)} :
                  Return(gone.d, IF gone.ok THEN "OK" ELSE "ERROR")

-----------------------------------------------------------------------------
(* Directories                                                             *)

Linked(d, i, change) == [d EXCEPT !.inode[i].links = @ + change]

DirInode(b) == [kind |-> "dir", size |-> BlockSize, links |-> 2, ptr |-> [Stack EXCEPT ![1] = b]]

NewDir(d, i, b, parent, name) == add_entry(write_inode(d, i, DirInode(b)), parent, name, i, DIR)

Stale(words) == {p \in Entries(words) : Ino(words, p) # 0}

(* The directory gets a block with whatever the block held, and no entries *)
(* for itself and its parent.                                              *)
ext2_dir_create(parent, name) ==
  /\ UNCHANGED fds
  /\ \/ find_entry(disk, parent, name).ret = 0 /\ Fail
     \/ /\ find_entry(disk, parent, name).ret # 0
        /\ \E new \in {allocate_inode(disk, TRUE)} : \E first \in {allocate_block(new.d)} :
             /\ Careful => Stale(read_block(disk, first.ret)) = {}
             /\ \/ new.ret = 0 /\ Fail
                \/ new.ret # 0 /\ first.ret = 0 /\ Return(free_inode(new.d, new.ret), "ERROR")
                \/ /\ new.ret # 0 /\ first.ret # 0
                   /\ \E added \in {NewDir(first.d, new.ret, first.ret, parent, name)} :
                        \/ /\ added.ret # 0
                           /\ Return(free_inode(free_block(added.d, first.ret), new.ret), "ERROR")
                        \/ added.ret = 0 /\ Return(Linked(added.d, parent, 1), "OK")

Occupied(i) == IsDir(disk, i) /\ Live(Contents(disk, disk.inode[i])) # {}

ext2_dir_delete(parent, name) ==
  /\ UNCHANGED fds
  /\ \E found \in {find_entry(disk, parent, name)} :
       \/ (found.ret # 0 \/ found.type # DIR) /\ Fail
       \/ found.ret = 0 /\ found.type = DIR /\ Occupied(found.ino) /\ Fail
       \/ /\ found.ret = 0 /\ found.type = DIR /\ ~Occupied(found.ino)
          /\ \E gone \in {Discard(remove_entry(disk, parent, name).d, found.ino)} :
               Return(IF gone.ok THEN Linked(gone.d, parent, -1) ELSE gone.d, IF gone.ok THEN "OK" ELSE "ERROR")

(* Faulty variant: a name that cannot be moved is not put back.             *)
RenameLoses(from, to, name, new) ==
  /\ UNCHANGED fds
  /\ \E found \in {find_entry(disk, from, name)} :
       /\ Careful /\ found.type = DIR => from = to
       /\ \/ (found.ret # 0 \/ find_entry(disk, to, new).ret = 0) /\ Fail
          \/ /\ found.ret = 0 /\ find_entry(disk, to, new).ret # 0
             /\ \E added \in {add_entry(remove_entry(disk, from, name).d, to, new, found.ino, found.type)} :
                  \/ /\ added.ret # 0
                     /\ Return(added.d, "ERROR")
                  \/ added.ret = 0 /\ Return(added.d, "OK")

(* The link counts of the directories are left alone.                      *)
ext2_rename(from, to, name, new) ==
  /\ UNCHANGED fds
  /\ \E found \in {find_entry(disk, from, name)} :
       /\ Careful /\ found.type = DIR => from = to
       /\ \/ (found.ret # 0 \/ find_entry(disk, to, new).ret = 0) /\ Fail
          \/ /\ found.ret = 0 /\ find_entry(disk, to, new).ret # 0
             /\ \E added \in {add_entry(remove_entry(disk, from, name).d, to, new, found.ino, found.type)} :
                  \/ /\ added.ret # 0
                     /\ Return(add_entry(added.d, from, name, found.ino, found.type).d, "ERROR")
                  \/ added.ret = 0 /\ Return(added.d, "OK")

(* The inode numbers clients know are those that names lead to.            *)
Listed == {n.id : n \in seen.names}
Dirs == seen.dirs

Next ==
  /\ ~disk.strayed
  /\ \/ \E f \in Fd :
          \/ \E i \in Listed : ext2_file_open(f, i)
          \/ ext2_file_close(f)
          \/ \E count \in Counts : ext2_file_read(f, count) \/ ext2_file_read2(f, count)
          \/ \E count \in Counts, word \in Data : ext2_file_write(f, count, word)
          \/ \E offset \in Offsets, whence \in {"SET", "CUR", "END"} : ext2_file_seek(f, offset, whence)
          \/ \E length \in Lengths : ext2_file_truncate(f, length)
     \/ \E dir \in Dirs, name \in Name :
          \/ ext2_file_create(dir, name)
          \/ ext2_file_delete(dir, name)
          \/ ext2_dir_create(dir, name)
          \/ ext2_dir_delete(dir, name)
          \/ \E to \in Dirs, new \in Name : ext2_rename(dir, to, name, new)
  /\ changes' <= MaxChanges

Spec == Init /\ [][Next]_vars

-----------------------------------------------------------------------------
(* Properties                                                              *)

TypeOK ==
  /\ disk.inode \in [Inode -> [kind : {"none", "file", "dir"}, size : Nat, links : Int, ptr : Seq(Nat)]]
  /\ disk.strayed \in BOOLEAN
  /\ \A f \in Fd : fds[f].ino \in Inode \cup {0}
  /\ ret \in {"OK", "ERROR"}

(* The free blocks and inodes are counted three times, in a bitmap, in a   *)
(* descriptor and in the superblock, and each call that fails halfway gives*)
(* back what it took in all three: they never disagree.  No call reads or  *)
(* writes a block it has no pointer to, or a record behind its block.      *)
CountsAgree ==
  /\ TypeOK
  /\ ~disk.strayed
  /\ \A g \in Group :
       /\ disk.desc[g].blocks = BlocksPerGroup - Cardinality(disk.used[g])
       /\ disk.desc[g].inodes = InodesPerGroup - Cardinality(disk.taken[g])
       /\ UsedAtFirst[g] \subseteq disk.used[g]
  /\ disk.super.blocks = MapThenSumSet(LAMBDA g : disk.desc[g].blocks, Group)
  /\ disk.super.inodes = MapThenSumSet(LAMBDA g : disk.desc[g].inodes, Group)

(* Directories and inodes tell the same story: each inode that is taken has*)
(* exactly one name, which says what it is; no name leads to an inode that *)
(* is free; a directory's link count is that of its subdirectories.        *)
Owned == OwnedOn(disk)
Proper == seen.names
NamesMatchInodes ==
  /\ \A i \in Owned : \E n \in Proper :
       n.id = i /\ n.type = (IF disk.inode[i].kind = "dir" THEN DIR ELSE FILE)
  /\ {n.id : n \in Proper} = Owned
  /\ Cardinality(Proper) = Cardinality(Owned)
  /\ \A i \in Dirs : disk.inode[i].links = 2 + Cardinality({n \in Proper : n.dir = i /\ n.type = DIR})

(* The blocks inode i leads to, data and pointers, as a sequence.          *)
Used(i) ==
  LET n == disk.inode[i]
      count == count_blocks_needed(n.size)
      data == read_block_pointers(disk, n, 0, count)
      top == read_block(disk, At(n.ptr, Direct + 1))
  IN  data \o (IF count > Direct THEN <<At(n.ptr, Direct)>> ELSE <<>>)
        \o (IF count > Single
            THEN <<At(n.ptr, Direct + 1)>> \o [k \in 1 .. (count - Single + PtrsPerBlock - 1) \div PtrsPerBlock |-> top[k]]
            ELSE <<>>)

(* Every block of a file or directory is its alone, in one place of it, and*)
(* is marked as used: what calls allocate and free, in whatever order and  *)
(* however they fail, is never given out twice.                            *)
BlocksExclusive ==
  LET refs == UNION {{<<i, k>> : k \in DOMAIN Used(i)} : i \in Owned \cup {Root}}
      blocks == {Used(r[1])[r[2]] : r \in refs}
  IN  /\ Cardinality(blocks) = Cardinality(refs)
      /\ blocks \subseteq DataBlock
      /\ \A b \in blocks :
           BlockUsed(disk, b)

(* Seen through names and contents, a call does what it says to one name or*)
(* one file, and one that fails does nothing.                              *)
Store == INSTANCE FileStore WITH
  Top <- Root,
  tree <- [names |-> {[dir |-> n.dir, name |-> n.name, id |-> n.id] : n \in seen.names},
           files |-> seen.files, dirs |-> seen.dirs],
  status <- ret
ImplementsFileStore == Store!Spec
=============================================================================
