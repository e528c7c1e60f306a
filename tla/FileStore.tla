----------------------------- MODULE FileStore -----------------------------
(***************************************************************************)
(* What a file system promises: a tree of names, and files whose contents  *)
(* change one at a time.  A call adds, drops or moves one name, or changes *)
(* one file, or fails and changes nothing.                                 *)
(***************************************************************************)
EXTENDS Integers, Sequences

CONSTANTS Top   \* the directory that is always there

VARIABLES
  tree,    \* names: [dir, name, id]; files: what is in each; dirs: the directories
  status   \* how the last call ended

vars == <<tree, status>>

Init == tree = [names |-> {}, files |-> [i \in {} |-> <<>>], dirs |-> {Top}] /\ status = "OK"

Taken(t) == DOMAIN t.files \cup t.dirs
Free(t, dir, name) == dir \in t.dirs /\ \A n \in t.names : ~(n.dir = dir /\ n.name = name)

SameFiles(t, u, kept) == \A i \in kept : u.files[i] = t.files[i]

(* A new name, for a new file without contents or a new directory.         *)
Make(t, u, n) ==
  /\ n.id \notin Taken(t)
  /\ Free(t, n.dir, n.name)
  /\ u.names = t.names \cup {n}
  /\ \/ u.dirs = t.dirs /\ DOMAIN u.files = DOMAIN t.files \cup {n.id} /\ u.files[n.id] = <<>>
     \/ u.dirs = t.dirs \cup {n.id} /\ DOMAIN u.files = DOMAIN t.files
  /\ SameFiles(t, u, DOMAIN t.files)

(* A name goes, and with it its file or its directory, which is empty.     *)
Drop(t, u, n) ==
  /\ \A m \in t.names : m.dir # n.id
  /\ u.names = t.names \ {n}
  /\ u.dirs = t.dirs \ {n.id}
  /\ DOMAIN u.files = DOMAIN t.files \ {n.id}
  /\ SameFiles(t, u, DOMAIN u.files)

(* What a name stands for gets another one.                                *)
Move(t, u, n, m) ==
  /\ m.id = n.id /\ Free(t, m.dir, m.name)
  /\ u = [t EXCEPT !.names = (@ \ {n}) \cup {m}]

(* One file gets other contents.                                           *)
Change(t, u) ==
  /\ <<u.names, u.dirs, DOMAIN u.files>> = <<t.names, t.dirs, DOMAIN t.files>>
  /\ \A i, j \in DOMAIN t.files : i = j \/ SameFiles(t, u, {i}) \/ SameFiles(t, u, {j})

Step(t, u) ==
  \/ \E n \in u.names \ t.names : Make(t, u, n)
  \/ \E n \in t.names \ u.names : Drop(t, u, n)
  \/ \E n \in t.names \ u.names, m \in u.names \ t.names : Move(t, u, n, m)
  \/ Change(t, u)

Succeed == status' = "OK" /\ Step(tree, tree')

Fail == status' = "ERROR" /\ UNCHANGED tree

Next == Succeed \/ Fail
Spec == Init /\ [][Next]_vars
=============================================================================
