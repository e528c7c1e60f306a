--------------------------- MODULE Ext2Directory ---------------------------
(***************************************************************************)
(* Directories of the ext2 driver, modules2/src2/ext2/ext2.c: looking up,  *)
(* adding and removing entries.                                            *)
(*                                                                         *)
(* An entry takes a word for its inode, a word for rec_len (bytes 0 and 1),*)
(* name_len (byte 2) and file_type (byte 3), and the words of its name: a  *)
(* name is a sequence of words, four characters each.                      *)
(***************************************************************************)
EXTENDS Ext2Disk

FILE == 1   \* EXT2_FT_REG_FILE
DIR == 2    \* EXT2_FT_DIR

Head16 == 65536
Meta(rec, chars, type) == rec + Head16 * (chars + 256 * type)

(* What words hold at position p; a word behind the block is not one of its*)
Word(words, p) == IF p \in Words THEN At(words, p) ELSE 0

Ino(words, p) == Word(words, p)
RecLen(words, p) == Word(words, p + 1) % Head16
NameLen(words, p) == (Word(words, p + 1) \div Head16) % 256
FileType(words, p) == Word(words, p + 1) \div (256 * Head16)

SetWord(words, p, value) == Overlay(words, p, <<value>>)
SetRecLen(words, p, rec) ==
  SetWord(words, p + 1, Word(words, p + 1) - RecLen(words, p) + (rec % Head16))

(* The walk over a block: from position 0, each record's length leads to   *)
(* the next, until a length of zero or the end of the block.               *)
Reached(words) ==
  LET from[p \in Nat] ==
        IF p \notin Words THEN {}
        ELSE IF RecLen(words, p) < 4 THEN {p} ELSE {p} \cup from[p + RecLen(words, p) \div 4]
  IN  from[0]
Entries(words) == {p \in Reached(words) : RecLen(words, p) # 0}
End(words) == Reached(words) \ Entries(words)

(* A walk that leaves the grid of words, or reads behind the block.        *)
Ragged(words) == \E p \in Reached(words) : p + 1 \notin Words \/ RecLen(words, p) % 4 # 0

Named(words, p, name) ==
  /\ Ino(words, p) # 0
  /\ NameLen(words, p) = 4 * Len(name)
  /\ \A k \in DOMAIN name : Word(words, p + 1 + k) = name[k]

-----------------------------------------------------------------------------
(* A directory as the driver walks it: its blocks in order, up to the first*)
(* that is missing.                                                        *)

IsDir(d, i) == i \in Inode /\ d.inode[i].kind = "dir"

DirBlocks(d, n) ==
  LET Longer(seq, k, b) == IF Len(seq) < k - 1 \/ b = 0 THEN seq ELSE Append(seq, b)
  IN  FoldLeft(LAMBDA seq, k : Longer(seq, k, Pointer(d, n, k - 1)),
               <<>>, [k \in 1 .. (n.size \div BlockSize) |-> k])

WordsIn(d, blocks) == [k \in DOMAIN blocks |-> read_block(d, blocks[k])]
Contents(d, n) == WordsIn(d, DirBlocks(d, n))

(* What looking through its blocks leaves of the disk: nothing, unless it  *)
(* went astray.                                                            *)
Looked(d, blocks) ==
  IF \E k \in DOMAIN blocks : blocks[k] \notin DataBlock \/ Ragged(read_block(d, blocks[k]))
  THEN Stray(d) ELSE d

Places(contents) == UNION {{k} \X Entries(contents[k]) : k \in DOMAIN contents}
Earlier(a, b) == a[1] < b[1] \/ (a[1] = b[1] /\ a[2] < b[2])
FirstPlace(S) == CHOOSE a \in S : \A b \in S \ {a} : Earlier(a, b)
LastPlace(S) == CHOOSE a \in S : \A b \in S \ {a} : Earlier(b, a)

PlacesNamed(contents, name) == {a \in Places(contents) : Named(contents[a[1]], a[2], name)}

NotFound == [ret |-> -1, ino |-> 0, type |-> 0]

find_entry(d, dir, name) ==
  LET Entry(words, p) == [ret |-> 0, ino |-> Ino(words, p), type |-> FileType(words, p)]
      Found(contents, a) == Entry(contents[a[1]], a[2])
      First(contents, hits) == IF hits = {} THEN NotFound ELSE Found(contents, FirstPlace(hits))
      Search(contents) == First(contents, PlacesNamed(contents, name))
  IN  IF IsDir(d, dir) THEN Search(Contents(d, d.inode[dir])) ELSE NotFound

-----------------------------------------------------------------------------
(* Adding an entry                                                         *)

EntryBytes(chars) == 8 + chars

(* The record that is behind the block is lost, with what it overwrites.   *)
Put(d, b, words, p, entry) ==
  IF p + Len(entry) > BlockSize THEN Stray(d) ELSE write_block(d, b, Overlay(words, p, entry))

Record(i, rec, type, name) == <<i, Meta(rec, 4 * Len(name), type)>> \o name

Spare(words, p) == RecLen(words, p) - EntryBytes(NameLen(words, p))

(* An unsigned difference: a record too short for its name has room.       *)
Splits(words, p, need) ==
  Ino(words, p) # 0 /\ (Spare(words, p) >= need \/ Spare(words, p) < 0)
Reuses(words, p, need) == Ino(words, p) = 0 /\ RecLen(words, p) >= need
Appends(words, p, need) == 4 * (BlockSize - p) >= need

Fits(words, need) ==
  {p \in Reached(words) : IF RecLen(words, p) = 0 THEN Appends(words, p, need)
                          ELSE Splits(words, p, need) \/ Reuses(words, p, need)}

(* The header of what a reused record leaves over is written behind the new*)
(* entry, though the new entry keeps the whole record: it may be no more   *)
(* than a word, and then the header runs into the next record.             *)
MarkUnused(d, b, q, rest) ==
  LET Header(words) == Overlay(words, q, <<0, Meta(rest, 0, FileType(words, q))>>)
  IN  IF rest = 0 THEN d
      ELSE IF q + 1 \notin Words THEN Stray(d)
      ELSE write_block(d, b, Header(read_block(d, b)))

AppendAt(d, b, words, p, i, type, name) ==
  Put(d, b, words, p, Record(i, 4 * (BlockSize - p), type, name))

ReuseAt(d, b, words, p, rec, i, type, name) ==
  MarkUnused(Put(d, b, words, p, Record(i, rec, type, name)), b,
             p + 2 + Len(name), rec - EntryBytes(4 * Len(name)))

SplitAt(d, b, words, p, kept, i, type, name) ==
  Put(d, b, SetRecLen(words, p, kept), p + kept \div 4, Record(i, RecLen(words, p) - kept, type, name))

(* Place the entry in block b, at the first position where it fits.        *)
Place(d, b, i, type, name) ==
  LET PlaceAt(words, p) ==
        IF RecLen(words, p) = 0 THEN AppendAt(d, b, words, p, i, type, name)
        ELSE IF Ino(words, p) = 0 THEN ReuseAt(d, b, words, p, RecLen(words, p), i, type, name)
        ELSE SplitAt(d, b, words, p, EntryBytes(NameLen(words, p)), i, type, name)
      PlaceIn(words) == PlaceAt(words, Min(Fits(words, EntryBytes(4 * Len(name)))))
  IN  PlaceIn(read_block(d, b))

(* The words of a new block with the one entry.                            *)
OnlyEntry(i, type, name) == Overlay(ZeroBlock, 0, Record(i, 4 * BlockSize, type, name))

(* Give the directory a new block as its block idx.  The inode is written  *)
(* only if this succeeds.                                                  *)
Grow(d, dir, idx, words) ==
  LET Settle(put, b) ==
        IF put.written = 1
        THEN [d |-> write_inode(put.d, dir, [put.n EXCEPT !.size = @ + BlockSize]), block |-> b]
        ELSE [d |-> free_block(put.d, b), block |-> 0]
      Link(new) ==
        IF new.ret = 0 THEN [d |-> new.d, block |-> 0]
        ELSE Settle(write_block_pointers(write_block(new.d, new.ret, words), d.inode[dir], idx, <<new.ret>>), new.ret)
  IN  Link(allocate_block(d))

(* In the first block with room; where a pointer is zero first, in a block *)
(* allocated for it; failing both, in a new block at the end.              *)
add_entry(d, dir, name, i, type) ==
  LET Grown(r, sparse) ==
        IF r.block = 0 THEN [d |-> r.d, ret |-> -1]
        ELSE [d |-> IF sparse THEN Place(r.d, r.block, i, type, name) ELSE r.d, ret |-> 0]
      Extend(e, blocks, sparse) ==
        IF sparse /\ read_block_pointers(e, e.inode[dir], Len(blocks), 1) = <<>> THEN [d |-> e, ret |-> -1]
        ELSE Grown(Grow(e, dir, Len(blocks), IF sparse THEN ZeroBlock ELSE OnlyEntry(i, type, name)), sparse)
      Into(e, blocks, roomy) ==
        IF roomy = {} THEN Extend(e, blocks, BlockSize * (Len(blocks) + 1) <= e.inode[dir].size)
        ELSE [d |-> Place(e, blocks[Min(roomy)], i, type, name), ret |-> 0]
      Add(blocks) ==
        Into(Looked(d, blocks), blocks,
             {k \in DOMAIN blocks : Fits(read_block(d, blocks[k]), EntryBytes(4 * Len(name))) # {}})
  IN  IF IsDir(d, dir) THEN Add(DirBlocks(d, d.inode[dir])) ELSE [d |-> d, ret |-> -1]

-----------------------------------------------------------------------------
(* Removing an entry: its inode becomes 0 and its record is added to that  *)
(* of the entry before it.  Which entry that is is remembered by its       *)
(* position in the buffer, also when the buffer holds the next block.      *)

Removed(words, p, before) ==
  LET Merge(cleared, q) == SetRecLen(cleared, q, RecLen(cleared, q) + RecLen(cleared, p))
  IN  IF before = {} THEN SetWord(words, p, 0) ELSE Merge(SetWord(words, p, 0), LastPlace(before)[2])

remove_entry(d, dir, name) ==
  LET Clear(blocks, contents, a) ==
        [d |-> write_block(Looked(d, blocks), blocks[a[1]],
                 Removed(contents[a[1]], a[2], {b \in Places(contents) : Earlier(b, a)})),
         ret |-> 0]
      First(blocks, contents, hits) ==
        IF hits = {} THEN [d |-> d, ret |-> -1] ELSE Clear(blocks, contents, FirstPlace(hits))
      Search(blocks, contents) == First(blocks, contents, PlacesNamed(contents, name))
      Drop(blocks) == Search(blocks, WordsIn(d, blocks))
  IN  IF IsDir(d, dir) THEN Drop(DirBlocks(d, d.inode[dir])) ELSE [d |-> d, ret |-> -1]

(* What an iterator returns of a directory, and what is counted in it.     *)
Live(contents) == {a \in Places(contents) : Ino(contents[a[1]], a[2]) # 0}
=============================================================================
