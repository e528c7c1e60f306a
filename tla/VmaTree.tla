------------------------------ MODULE VmaTree ------------------------------
(***************************************************************************)
(* The areas of one address space as modules/hnsorens/memory/vmm/vmm.c     *)
(* keeps them: nodes from a pool linked into a binary search tree by base, *)
(* prev and next being the children, with the area found last in           *)
(* mmap_cache.  Module Vmm has the calls in full and a set in the tree's   *)
(* place; here the calls keep what they do to the tree and the cache, and  *)
(* page tables and frames are left out.                                    *)
(*                                                                         *)
(* Addresses and sizes are counted in pages.  A call that finds no node    *)
(* returns ENOMEM; which node of the pool it gets is immaterial.           *)
(***************************************************************************)
EXTENDS Integers, FiniteSets

CONSTANTS
  Top,           \* pages 0 .. Top - 1
  Nodes,         \* the number of nodes
  Flags,
  AllocSizes, ReserveSizes, FreeSizes, ProtectSizes   \* of the clients' calls

Page == 0 .. (Top - 1)
Node == 1 .. Nodes
NULL == 0

(* What is assumed of them; modules that instantiate this one say so.      *)
VmaTreeAssumption ==
  /\ Top \in Nat \ {0} /\ Nodes \in Nat /\ "unused" \notin Flags
  /\ AllocSizes \cup ProtectSizes \subseteq Nat \ {0} /\ ReserveSizes \subseteq {1, 2} /\ FreeSizes \subseteq Nat

VARIABLES
  exists,   \* whether the space has been created
  node,     \* each node's base, size, flags, prev and next
  head,     \* vma_head
  cache,    \* mmap_cache
  free      \* the nodes on s_vma_free_list

vars == <<exists, node, head, cache, free>>

(* The tree as one value, which the helpers take and return.               *)
Space == [node |-> node, head |-> head, cache |-> cache, free |-> free]
Become(s) == exists /\ UNCHANGED exists /\ node' = s.node /\ head' = s.head /\ cache' = s.cache /\ free' = s.free

Blank == [base |-> 0, size |-> 0, flags |-> "none", prev |-> NULL, next |-> NULL]

Init ==
  /\ exists = FALSE
  /\ node = [v \in Node |-> Blank]
  /\ head = NULL /\ cache = NULL /\ free = Node

-----------------------------------------------------------------------------
(* The tree                                                                *)

Inside(s, v, p) == p >= s.node[v].base /\ p < s.node[v].base + s.node[v].size

(* The nodes visited from v on, when each node has a next one to go to.    *)
Way(v, step) ==
  LET way[i \in 0 .. Nodes] == IF i = 0 THEN v ELSE step[way[i - 1]]
  IN  way

(* The walk of find_vma: the node that holds p, or NULL.                   *)
Walk(s, p) ==
  LET step == [v \in Node \cup {NULL} |->
                 IF v = NULL \/ Inside(s, v, p) THEN v
                 ELSE IF p < s.node[v].base THEN s.node[v].prev ELSE s.node[v].next]
  IN  Way(s.head, step)[Nodes]

find_vma(s, p) == IF s.cache # NULL /\ Inside(s, s.cache, p) THEN s.cache ELSE Walk(s, p)

(* The space once p has been looked up.                                    *)
Found(s, p) == LET v == find_vma(s, p) IN IF v = NULL THEN s ELSE [s EXCEPT !.cache = v]

(* Linking a node below the last one on its base's way down.               *)
insert_vma(s, v) ==
  LET b == s.node[v].base
      down == [u \in Node \cup {NULL} |->
                 IF u = NULL THEN NULL ELSE IF b < s.node[u].base THEN s.node[u].prev ELSE s.node[u].next]
      way == Way(s.head, down)
      last == CHOOSE i \in 0 .. Nodes : way[i] # NULL /\ (i = Nodes \/ way[i + 1] = NULL)
  IN  IF s.head = NULL THEN [s EXCEPT !.head = v]
      ELSE IF b < s.node[way[last]].base THEN [s EXCEPT !.node[way[last]].prev = v]
      ELSE [s EXCEPT !.node[way[last]].next = v]

(* Node u points to w wherever it pointed to v.                            *)
Relink(s, u, v, w) ==
  [s EXCEPT !.node[u].prev = IF @ = v THEN w ELSE @, !.node[u].next = IF @ = v THEN w ELSE @]

(* The parent of v, or NULL.                                               *)
Parent(s, v) ==
  LET above == {u \in Node \ s.free : v \in {s.node[u].prev, s.node[u].next}}
  IN  IF above = {} THEN NULL ELSE CHOOSE u \in above : TRUE

(* The leftmost node of the right subtree.                                 *)
Successor(s, v) ==
  LET left == [u \in Node |-> IF s.node[u].prev = NULL THEN u ELSE s.node[u].prev]
  IN  Way(s.node[v].next, left)[Nodes]

(* vma_free, and the cache is emptied.  Faulty variant: it is kept.        *)
DroppedCached(s, v) == [s EXCEPT !.free = @ \cup {v}]
Dropped(s, v) == [s EXCEPT !.free = @ \cup {v}, !.cache = NULL]

(* A node with two children takes over its successor's area, and the       *)
(* successor's node goes.                                                  *)
Unlinked(s, v) ==
  LET u == Successor(s, v)
      t == Relink(s, Parent(s, u), u, s.node[u].next)
  IN  Dropped([t EXCEPT !.node[v].base = s.node[u].base, !.node[v].size = s.node[u].size,
                        !.node[v].flags = s.node[u].flags], u)

remove_tree_node(s, v) ==
  LET child == IF s.node[v].prev # NULL THEN s.node[v].prev ELSE s.node[v].next
  IN  IF s.node[v].prev # NULL /\ s.node[v].next # NULL THEN Unlinked(s, v)
      ELSE IF v = s.head THEN Dropped([s EXCEPT !.head = child], v)
      ELSE Dropped(Relink(s, Parent(s, v), v, child), v)

Lowest(S) == CHOOSE v \in S : \A u \in S : v <= u

(* A node taken from the pool for an area, and linked.                     *)
vma_alloc(s, base, size, flags) ==
  [s EXCEPT !.free = @ \ {Lowest(@)},
            !.node[Lowest(s.free)] = [Blank EXCEPT !.base = base, !.size = size, !.flags = flags]]
Inserted(s, base, size, flags) == insert_vma(vma_alloc(s, base, size, flags), Lowest(s.free))

-----------------------------------------------------------------------------
(* The calls                                                               *)

(* The hole is probed page by page.  Probing the areas before it is what a *)
(* query of theirs does.                                                   *)
vmm_allocate(p, n, flags) ==
  /\ \A q \in p .. (p + n - 1) : find_vma(Space, q) = NULL
  /\ \/ free = {} /\ Become(Space)
     \/ free # {} /\ Become([Inserted(Space, p, n, flags) EXCEPT !.cache = Lowest(free)])

(* A page in use is refused, and its area cached.                          *)
vmm_reserve(p, n) ==
  LET last == p + n - 1 IN
  \/ find_vma(Space, p) # NULL /\ Become(Found(Space, p))
  \/ find_vma(Space, p) = NULL /\ find_vma(Space, last) # NULL /\ Become(Found(Space, last))
  \/ /\ find_vma(Space, p) = NULL /\ find_vma(Space, last) = NULL
     /\ \/ free = {} /\ Become(Space)
        \/ free # {} /\ Become(Inserted(Space, p, n, "none"))

vmm_query(p) == Become(Found(Space, p))

(* A page that is in no area, or a range that leaves the area, is refused. *)
Holds(v, p, n) == v # NULL /\ p + n <= node[v].base + node[v].size
Refused(p, n) == ~Holds(find_vma(Space, p), p, n) /\ Become(Found(Space, p))

Uncached(s) == [s EXCEPT !.cache = NULL]

(* Faulty variant: the node keeps its base.                                *)
TrimmedFrontStay(s, v, n) == [s EXCEPT !.node[v].size = @ - n]
TrimmedFront(s, v, n) == [s EXCEPT !.node[v].base = @ + n, !.node[v].size = @ - n]

vmm_free(p, n) ==
  LET v == find_vma(Space, p)
      s == Found(Space, p)
      a == node[v]
      end == a.base + a.size
  IN
  \/ Refused(p, n)
  \/ /\ Holds(v, p, n)
     /\ \/ p = a.base /\ p + n = end /\ Become(remove_tree_node(s, v))
        \/ p = a.base /\ p + n < end /\ Become(Uncached(TrimmedFront(s, v, n)))
        \/ p > a.base /\ p + n = end /\ Become(Uncached([s EXCEPT !.node[v].size = @ - n]))
        \/ p > a.base /\ p + n < end /\ free = {} /\ Become(s)
        \/ /\ p > a.base /\ p + n < end /\ free # {}
           /\ Become(Uncached(Inserted([s EXCEPT !.node[v].size = p - a.base], p + n, end - (p + n), a.flags)))

(* An area of its own for the pages whose flags change; the middle case    *)
(* takes two nodes, removes the old one and inserts three.                 *)
vmm_protect(p, n, flags) ==
  LET v == find_vma(Space, p)
      s == Found(Space, p)
      a == node[v]
      end == a.base + a.size
      mid == vma_alloc(s, p, n, flags)
      both == vma_alloc(mid, p + n, end - (p + n), a.flags)
      left == Inserted(remove_tree_node(both, v), a.base, p - a.base, a.flags)
  IN
  \/ Refused(p, n)
  \/ /\ Holds(v, p, n)
     /\ \/ p = a.base /\ p + n = end /\ Become(Uncached([s EXCEPT !.node[v].flags = flags]))
        \/ p = a.base /\ p + n < end /\ free # {} /\ Become(Uncached(Inserted(TrimmedFront(s, v, n), p, n, flags)))
        \/ p > a.base /\ p + n = end /\ free # {}
           /\ Become(Uncached(Inserted([s EXCEPT !.node[v].size = @ - n], p, n, flags)))
        \/ p = a.base /\ p + n < end /\ free = {} /\ Become(s)
        \/ p > a.base /\ p + n = end /\ free = {} /\ Become(s)
        \/ p > a.base /\ p + n < end /\ Cardinality(free) < 2 /\ Become(s)
        \/ p > a.base /\ p + n < end /\ Cardinality(free) >= 2
           /\ Become(Uncached(insert_vma(insert_vma(left, Lowest(s.free)), Lowest(mid.free))))

(* An area grows by a page; shrinking is vmm_free.                         *)
vmm_resize(v) ==
  LET s == Found(Space, node[v].base)
      end == node[v].base + node[v].size
  IN
  \/ find_vma(s, end) # NULL /\ Become(Found(s, end))
  \/ find_vma(s, end) = NULL /\ end = Top /\ Become(s)
  \/ find_vma(s, end) = NULL /\ end < Top /\ Become([s EXCEPT !.node[v].size = @ + 1, !.cache = v])

vmm_space_create == ~exists /\ exists' = TRUE /\ UNCHANGED <<node, head, cache, free>>

(* The head is removed until the tree is empty.                            *)
vmm_space_destroy ==
  LET rest[i \in 0 .. Nodes] ==
        IF i = 0 THEN Space
        ELSE LET s == rest[i - 1] IN IF s.head = NULL THEN s ELSE remove_tree_node(s, s.head)
      last == rest[Nodes]
  IN  /\ exists /\ exists' = FALSE
      /\ node' = last.node /\ head' = last.head /\ cache' = NULL /\ free' = last.free

Next ==
  \/ \E p \in Page, n \in AllocSizes, flags \in Flags : p + n <= Top /\ vmm_allocate(p, n, flags)
  \/ \E p \in Page, n \in ReserveSizes : p + n <= Top /\ vmm_reserve(p, n)
  \/ \E p \in Page : vmm_query(p)
  \/ \E p \in Page, n \in FreeSizes : vmm_free(p, n)
  \/ \E p \in Page, n \in ProtectSizes, flags \in Flags : vmm_protect(p, n, flags)
  \/ \E v \in Node \ free : vmm_resize(v)
  \/ vmm_space_create
  \/ vmm_space_destroy

Spec == Init /\ [][Next]_vars

-----------------------------------------------------------------------------
(* Properties                                                              *)

(* Every variable keeps its type.                                          *)
TypeOK ==
  /\ exists \in BOOLEAN
  /\ node \in [Node -> [base : Page, size : 0 .. Top, flags : Flags \cup {"none"},
                        prev : Node \cup {NULL}, next : Node \cup {NULL}]]
  /\ head \in Node \cup {NULL} /\ cache \in Node \cup {NULL} /\ free \subseteq Node

(* The nodes that can be reached from the head.                            *)
InTree ==
  LET reach[i \in 0 .. Nodes] ==
        IF i = 0 THEN {head} \ {NULL}
        ELSE LET R == reach[i - 1] IN R \cup ((UNION {{node[v].prev, node[v].next} : v \in R}) \ {NULL})
  IN  reach[Nodes]

(* Every node is in the pool or in the tree, and not in both: removing a   *)
(* node with two children neither loses a subtree nor frees a live node.   *)
NoNodeLost == InTree \cap free = {} /\ InTree \cup free = Node

(* A lookup finds the node of the tree that holds the page whenever there  *)
(* is one, whether it comes from the cache, which a trimmed, grown, merged *)
(* or removed node might have left stale, or from the walk, which relies   *)
(* on bases that calls change in place to stay in order.                   *)
FindExact ==
  \A p \in Page :
    LET holders == {v \in InTree : Inside(Space, v, p)}
        found == find_vma(Space, p)
    IN  IF found = NULL THEN holders = {} ELSE found \in holders

(* Whatever the order of inserts, trims, splits and removals, the tree     *)
(* loses no node and misleads no lookup.                                   *)
TreeExact == TypeOK /\ NoNodeLost /\ FindExact

(* Looked up page by page, the space is changed by each call the way the   *)
(* abstract address space is, in one row of pages.                         *)
Shown(p) == LET v == find_vma(Space, p) IN IF v = NULL THEN "unused" ELSE node[v].flags
View == [s \in IF exists THEN {"space"} ELSE {} |-> [p \in Page |-> Shown(p)]]
Pages == INSTANCE AddressSpace WITH Unused <- "unused", view <- View
ImplementsAddressSpace == Pages!Spec
=============================================================================
