-------------------------------- MODULE Vfs --------------------------------
(***************************************************************************)
(* The tree of names, modules2/src2/vfs/vfs.c: directories of the file     *)
(* system that are read when a path first leads through them, and entries  *)
(* that clients add.                                                       *)
(*                                                                         *)
(* An entry is named by its place in the pool, and ROOT is the first.  The *)
(* file system is external: its directories are sequences of files, to the *)
(* end of which others append.  Calls are atomic: the path buffer is shared*)
(* and nothing guards it.  The pools never run dry, and names are compared *)
(* as a whole.                                                             *)
(***************************************************************************)
EXTENDS Integers, SequencesExt

CONSTANTS
  Disk,      \* the directories at the start: inode -> sequence of [name, inode, type]
  RootInode, \* the inode of the root directory: 2
  Paths,     \* what clients look up: [absolute, names], without what follows a trailing slash
  Names,     \* the names clients and others create
  MaxCreated,\* clients create up to this number of entries
  MaxFiles   \* others create files until a directory has so many

VARIABLES
  entries,   \* the pool: [name, parent, children, type, loaded, inode]
  disk       \* the directories of the file system

vars == <<entries, disk>>

ROOT == 1
NONE == 0
Created == -1   \* the inode of an entry that is not in the file system

-----------------------------------------------------------------------------
(* Operations on a pool E                                                  *)

vfs_entry_init(name) ==
  [name |-> name, parent |-> NONE, children |-> <<>>, type |-> "dir", loaded |-> FALSE, inode |-> 0]

vfs_add_child(E, parent, child) ==
  [E EXCEPT ![child].parent = parent, ![parent].children = Append(@, child)]

NewChild(E, dir, name, type, inode) ==
  vfs_add_child(Append(E, [vfs_entry_init(name) EXCEPT !.type = type, !.inode = inode]), dir, Len(E) + 1)

(* All entries of the directory, its own and its parent's among them.      *)
vfs_populate_directory(E, dir) ==
  IF E[dir].type # "dir" \/ E[dir].loaded THEN E
  ELSE FoldLeft(LAMBDA F, d : NewChild(F, dir, d.name, d.type, d.inode), E, disk[E[dir].inode])

vfs_find_child(E, parent, name) ==
  LET found == SelectSeq(E[parent].children, LAMBDA c : E[c].name = name)
  IN  IF found = <<>> THEN NONE ELSE Head(found)

(* Faulty variant: a directory is not marked as read.                      *)
LoadAgain(E, dir) == vfs_populate_directory(E, dir)
Load(E, dir) == [vfs_populate_directory(E, dir) EXCEPT ![dir].loaded = TRUE]

(* One component of a path.                                                *)
Step(s, name) ==
  CASE s.at = NONE \/ name = "." -> s
    [] s.at # NONE /\ name = ".." -> IF s.pool[s.at].parent = NONE THEN s ELSE [s EXCEPT !.at = s.pool[s.at].parent]
    [] OTHER -> [pool |-> Load(s.pool, s.at), at |-> vfs_find_child(Load(s.pool, s.at), s.at, name)]

(* The pool afterwards, and the entry that was found.                      *)
Lookup(E, current, path) ==
  FoldLeft(Step, [pool |-> E, at |-> IF path.absolute THEN ROOT ELSE current], path.names)

(* The path of an entry: the names from the root on, with a slash behind   *)
(* each.  The name of the root is empty.                                   *)
vfs_path(E, dir) ==
  LET from[e \in DOMAIN E] == IF E[e].parent = NONE THEN <<>> ELSE Append(from[E[e].parent], E[e].name)
  IN  [absolute |-> TRUE, names |-> from[dir]]

-----------------------------------------------------------------------------
(* The calls                                                               *)

Init ==
  /\ entries = <<[vfs_entry_init("") EXCEPT !.inode = RootInode]>>
  /\ disk = Disk

(* An empty path is refused.                                               *)
vfs_find_entry(current, path) ==
  /\ path.absolute \/ path.names # <<>>
  /\ entries' = Lookup(entries, current, path).pool
  /\ UNCHANGED disk

(* A client that creates a directory marks it as read: there is nothing of *)
(* it in the file system.                                                  *)
vfs_create_entry(dir, name, type) ==
  /\ Len(SelectSeq(entries, LAMBDA e : e.inode = Created)) < MaxCreated
  /\ entries[dir].type = "dir"
  /\ entries' = [NewChild(entries, dir, name, type, Created) EXCEPT ![Len(entries) + 1].loaded = type = "dir"]
  /\ UNCHANGED disk

(* Others create a file.                                                   *)
DiskCreates(inode, name) ==
  /\ Len(disk[inode]) < MaxFiles
  /\ \A i \in DOMAIN disk[inode] : disk[inode][i].name # name
  /\ disk' = [disk EXCEPT ![inode] = Append(@, [name |-> name, inode |-> 99, type |-> "file"])]
  /\ UNCHANGED entries

(* What clients can have in hand: no path ends at a directory's entry for  *)
(* itself or its parent.                                                   *)
Handles == {e \in DOMAIN entries : entries[e].name \notin {".", ".."}}

Next ==
  \/ \E e \in Handles, p \in Paths : vfs_find_entry(e, p)
  \/ \E e \in Handles, n \in Names, t \in {"dir", "file"} : vfs_create_entry(e, n, t)
  \/ \E i \in DOMAIN disk, n \in Names : DiskCreates(i, n)

Spec == Init /\ [][Next]_vars

-----------------------------------------------------------------------------
(* Properties                                                              *)

(* The children of a directory that came from the file system.             *)
Read(dir) ==
  LET from == SelectSeq(entries[dir].children, LAMBDA c : entries[c].inode # Created)
  IN  [i \in DOMAIN from |-> [name |-> entries[from[i]].name, inode |-> entries[from[i]].inode,
                              type |-> entries[from[i]].type]]

(* The entry is the first of its name in its directory, and so are the     *)
(* directories on its path; none of them is a directory's entry for itself *)
(* or its parent.                                                          *)
Visible ==
  LET from[e \in DOMAIN entries] ==
        \/ e = ROOT
        \/ /\ entries[e].name \notin {".", ".."}
           /\ vfs_find_child(entries, entries[e].parent, entries[e].name) = e
           /\ from[entries[e].parent]
  IN  {e \in DOMAIN entries : from[e]}

(* A directory is read once and as a whole however the paths through it and*)
(* the entries made in it follow each other: it has each file that was     *)
(* there then, once and in order, and none before.  Every entry is a child *)
(* of its parent, once, and the path of an entry leads back to it unless an*)
(* older one hides it.                                                     *)
TreeMirrorsDisk ==
  /\ \A e \in DOMAIN entries :
       LET inode == entries[e].inode IN
       IF inode \in DOMAIN disk /\ entries[e].type = "dir" /\ entries[e].loaded
       THEN IsPrefix(Disk[inode], Read(e)) /\ IsPrefix(Read(e), disk[inode])
       ELSE Read(e) = <<>>
  /\ \A e, f \in DOMAIN entries :
       Cardinality({i \in DOMAIN entries[e].children : entries[e].children[i] = f})
         = IF entries[f].parent = e THEN 1 ELSE 0
  /\ \A e \in Visible : Lookup(entries, ROOT, vfs_path(entries, e)).at = e
=============================================================================
