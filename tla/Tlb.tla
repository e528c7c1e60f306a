-------------------------------- MODULE Tlb --------------------------------
(***************************************************************************)
(* The translations the processor caches, and what the kernel does about   *)
(* them: the order in which modules/hnsorens/memory/mmu/pt.c writes entries*)
(* and invalidates, and vmm.c allocates and releases the frames.           *)
(*                                                                         *)
(* The hardware's walker runs beside the kernel: at any moment it may fill *)
(* the TLB, or remember the last table of a walk, and it may drop either.  *)
(* A store to an entry is a step, and so is a TLBI; pt.c has no barrier    *)
(* between the two, so a walk may read what was overwritten until the DSB  *)
(* behind the TLBIs.  Pages of the lower half are walked from ttbr0, those *)
(* of the upper from the kernel's root.                                    *)
(* No caller sets the nG bit, for which api/mmu.h has no flag, so the TLB  *)
(* matches whatever the ASID is.  tables is what the trees of PageTable    *)
(* come to; each half has one table of the last level per root, which is   *)
(* there as long as it holds an entry.  Roots are never freed.             *)
(***************************************************************************)
EXTENDS Integers, FiniteSets

CONSTANTS
  None,
  Lower, Upper,         \* pages of the two halves
  UserRoots, KernelRoot,
  Frames, Flags,
  Counts,               \* pages of a call
  SyncCounts,           \* pages of a call of vmm_sync
  TLB_BATCH_THRESHOLD

Page == Lower \cup Upper
Root == UserRoots \cup {KernelRoot}
Half == {"lower", "upper"}
HalfOf(p) == IF p \in Lower THEN "lower" ELSE "upper"
Pages(h) == IF h = "lower" THEN Lower ELSE Upper

VARIABLES
  tables,    \* per root and page: an entry [frame, flags], or None
  stale,     \* the overwritten entries a walk may still read
  free,      \* the frames of the physical memory manager
  ttbr0,     \* the root of the lower half
  tlb,       \* per page: an entry, or None
  walks,     \* per half: the root whose last table is remembered, "released",
             \* "late" if that was found released after the TLBIs, or None
  late,      \* pages whose entry was overwritten when it was read after their TLBI
  call,      \* the call in progress
  doomed,    \* pages to be dropped before the next DSB is through
  switched,  \* whether ttbr0 changed since the last flush of all
  owed,      \* pages a failed protect changed and did not invalidate
  strayed    \* halves in which a walk went through a released table

kernel == <<tables, free, ttbr0, call, switched, owed>>
hardware == <<tlb, walks, late, doomed, stale, strayed>>
vars == <<kernel, hardware>>

Idle == [op |-> None]
Entry(f, flags) == [frame |-> f, flags |-> flags]
RootOf(p) == IF p \in Lower THEN ttbr0 ELSE KernelRoot
Tabled(t, r, h) == \E p \in Pages(h) : t[r][p] # None

Init ==
  /\ tables = [r \in Root |-> [p \in Page |-> None]]
  /\ stale = {} /\ free = Frames /\ ttbr0 \in UserRoots
  /\ tlb = [p \in Page |-> None] /\ walks = [h \in Half |-> None]
  /\ late = {} /\ call = Idle /\ doomed = {} /\ switched = FALSE /\ owed = {} /\ strayed = {}

-----------------------------------------------------------------------------
(* Calls: [op, root, flags, first: the first page, next: the page the loop *)
(* is at, end: the first page behind it, step, left: what is still to be   *)
(* invalidated, frame: what is released then].                             *)

Begin(op, root, p, count, f) ==
  [op |-> op, root |-> root, flags |-> f, first |-> p, next |-> p, end |-> p + count,
   step |-> "store", left |-> {}, frame |-> None]

(* The pages of a call of pt.c; vmm.c makes one for each page.             *)
RangeOf(c) == IF c.op \in {"allocate", "free"} THEN {c.next} ELSE c.first .. (c.end - 1)
NotInvalidating(c) == [c EXCEPT !.step = "dsb"]
Invalidating(c) == [c EXCEPT !.step = "tlbi", !.left = RangeOf(c)]

(* Whether pt_invalidate flushes all, and whether the TLBI that drops a    *)
(* page is done in the call in progress.                                   *)
Everything(c) == c.op = "flush" \/ Cardinality(RangeOf(c)) > TLB_BATCH_THRESHOLD
Invalidated(p) ==
  /\ call # Idle
  /\ \/ call.step = "tlbi" /\ p \in RangeOf(call) \ call.left
     \/ call.step = "dsb" /\ (p \in RangeOf(call) \/ Everything(call))

-----------------------------------------------------------------------------
(* The hardware                                                            *)

(* A walk starts at the table that is remembered for the half, or else at  *)
(* the root, and reads each entry as it is, or as it was until the last DSB*)
(* -- the entry of the page, and the one above that leads to its table.    *)
Start(p) == IF walks[HalfOf(p)] = None THEN RootOf(p) ELSE walks[HalfOf(p)]
Overwritten(r, p) == {s \in stale : s.root = r /\ s.page = p}
Read(r, p) == {tables[r][p]} \cup {s.entry : s \in Overwritten(r, p)}
Leads(r, h) == Tabled(tables, r, h) \/ \E p \in Pages(h) : Overwritten(r, p) # {}

(* What is remembered of a walk to a table that was released meanwhile.    *)
Gone == IF call # Idle /\ call.step = "dsb" THEN "late" ELSE "released"

Fill(p) ==
  LET h == HalfOf(p) IN
  /\ tlb[p] = None /\ Start(p) \in Root /\ Leads(Start(p), h)
  /\ \E e \in Read(Start(p), p) :
       /\ tlb' = [tlb EXCEPT ![p] = e]
       /\ late' = IF e \notin {None, tables[Start(p)][p]} /\ Invalidated(p) THEN late \cup {p} ELSE late
  /\ walks' = [walks EXCEPT ![h] = IF Tabled(tables, Start(p), h) THEN Start(p) ELSE Gone]
  /\ UNCHANGED <<kernel, doomed, stale, strayed>>

(* A table holds nothing when it is released, and does until it is used for*)
(* something else, after the call.                                         *)
Stray(h) ==
  /\ call = Idle /\ walks[h] \in {"released", "late"}
  /\ strayed' = strayed \cup {h}
  /\ UNCHANGED <<kernel, tlb, walks, late, doomed, stale>>

Evict(p) ==
  /\ tlb[p] # None /\ tlb' = [tlb EXCEPT ![p] = None] /\ late' = late \ {p} /\ doomed' = doomed \ {p}
  /\ UNCHANGED <<kernel, walks, stale, strayed>>

Forget(h) ==
  /\ walks[h] # None /\ walks' = [walks EXCEPT ![h] = None]
  /\ UNCHANGED <<kernel, tlb, late, doomed, stale, strayed>>

Hardware ==
  \/ \E p \in Page : Fill(p) \/ Evict(p)
  \/ \E h \in Half : Stray(h) \/ Forget(h)

-----------------------------------------------------------------------------
(* What the kernel does: the stores.                                       *)

(* An entry is stored.  The table it was the last entry of is released.    *)
Store(r, p, e) ==
  /\ tables' = [tables EXCEPT ![r][p] = e]
  /\ stale' = IF tables[r][p] = None THEN stale
              ELSE stale \cup {[root |-> r, page |-> p, entry |-> tables[r][p]]}
  /\ walks' = IF walks[HalfOf(p)] = r /\ ~Tabled(tables', r, HalfOf(p))
              THEN [walks EXCEPT ![HalfOf(p)] = "released"] ELSE walks
  /\ UNCHANGED <<ttbr0, switched, tlb, late, doomed, strayed>>

Storing(op) == call.op = op /\ call.step = "store" /\ call.next < call.end

vmm_allocate ==
  /\ Storing("allocate")
  /\ \E f \in free : Store(call.root, call.next, Entry(f, call.flags)) /\ free' = free \ {f}
  /\ call' = Invalidating(call)
  /\ UNCHANGED owed

(* What was mapped stays mapped: see module Vmm.                           *)
vmm_allocate_fails ==
  /\ Storing("allocate") /\ free = {}
  /\ call' = Idle
  /\ UNCHANGED <<tables, free, ttbr0, switched, owed, hardware>>

(* Each page that is mapped is unmapped, and then its frame is released.   *)
vmm_free_early ==
  LET e == tables[call.root][call.next] IN
  /\ Storing("free") /\ e # None
  /\ Store(call.root, call.next, None)
  /\ call' = [Invalidating(call) EXCEPT !.frame = e.frame]
  /\ free' = free \cup {e.frame} /\ UNCHANGED owed
vmm_free ==
  LET e == tables[call.root][call.next] IN
  /\ Storing("free") /\ e # None
  /\ Store(call.root, call.next, None)
  /\ call' = [Invalidating(call) EXCEPT !.frame = e.frame]
  /\ UNCHANGED <<free, owed>>

vmm_free_skips ==
  /\ Storing("free") /\ tables[call.root][call.next] = None
  /\ call' = [call EXCEPT !.next = @ + 1]
  /\ UNCHANGED <<tables, free, ttbr0, switched, owed, hardware>>

pmm_release ==
  /\ call.op = "free" /\ call.step = "release"
  /\ free' = free \cup {call.frame}
  /\ call' = [call EXCEPT !.step = "store", !.next = @ + 1, !.frame = None]
  /\ UNCHANGED <<tables, ttbr0, switched, owed, hardware>>

(* All entries are stored, and then invalidated; one that is not valid ends*)
(* the call before that.                                                   *)
pt_protect ==
  LET e == tables[call.root][call.next]
      after == [call EXCEPT !.next = @ + 1]
  IN  /\ Storing("protect") /\ e # None
      /\ Store(call.root, call.next, Entry(e.frame, call.flags))
      /\ call' = IF after.next = call.end THEN Invalidating(after) ELSE after
      /\ UNCHANGED <<free, owed>>

pt_protect_fails ==
  /\ Storing("protect") /\ tables[call.root][call.next] = None
  /\ owed' = owed \cup (call.first .. (call.next - 1))
  /\ call' = Idle
  /\ UNCHANGED <<tables, free, ttbr0, switched, hardware>>

-----------------------------------------------------------------------------
(* pt_invalidate and pt_flush: TLBI after TLBI, and a DSB.                 *)

(* What a TLBI names goes at once, and can be filled again, or at the DSB. *)
Drops(pages) ==
  \/ /\ tlb' = [p \in Page |-> IF p \in pages THEN None ELSE tlb[p]] /\ late' = late \ pages
     /\ UNCHANGED doomed
  \/ doomed' = doomed \cup {p \in pages : tlb[p] # None} /\ UNCHANGED <<tlb, late>>

tlbi_vmalle1is ==
  /\ call.op # None /\ call.step = "tlbi" /\ Everything(call)
  /\ Drops(Page) /\ walks' = [h \in Half |-> None]
  /\ call' = [call EXCEPT !.step = "dsb", !.left = {}]
  /\ UNCHANGED <<tables, free, ttbr0, switched, owed, stale, strayed>>

(* VALE1IS, for the lower half, leaves the tables that are remembered.     *)
tlbi_page ==
  /\ call.op # None /\ call.step = "tlbi" /\ ~Everything(call)
  /\ \E p \in call.left :
       /\ \A q \in call.left : p <= q
       /\ Drops({p})
       /\ walks' = IF p \in Upper THEN [walks EXCEPT !["upper"] = None] ELSE walks
       /\ call' = [call EXCEPT !.left = @ \ {p}, !.step = IF call.left = {p} THEN "dsb" ELSE "tlbi"]
  /\ UNCHANGED <<tables, free, ttbr0, switched, owed, stale, strayed>>

(* What follows the invalidation of a call.                                *)
After(c) ==
  CASE c.op = "allocate" -> [c EXCEPT !.step = "store", !.next = @ + 1]
    [] c.op = "free" -> [c EXCEPT !.step = "release"]
    [] c.op \in {"protect", "sync", "flush"} -> Idle

dsb ==
  /\ call.op # None /\ call.step = "dsb"
  /\ tlb' = [p \in Page |-> IF p \in doomed THEN None ELSE tlb[p]]
  /\ late' = late \ doomed /\ doomed' = {} /\ stale' = {}
  /\ owed' = IF Everything(call) THEN {} ELSE owed \ RangeOf(call)
  /\ switched' = (switched /\ ~Everything(call))
  /\ call' = After(call)
  /\ UNCHANGED <<tables, free, ttbr0, walks, strayed>>

Return ==
  /\ call.op \in {"allocate", "free"} /\ call.step = "store" /\ call.next = call.end
  /\ call' = Idle
  /\ UNCHANGED <<tables, free, ttbr0, switched, owed, hardware>>

-----------------------------------------------------------------------------
(* The user's half of the addresses changes hands, and nothing is flushed. *)
vmm_activate(root) ==
  /\ ttbr0' = root /\ switched' = (switched \/ root # ttbr0)
  /\ UNCHANGED <<tables, free, call, owed, hardware>>

(* Clients use a root for pages of its half, and allocate pages that are   *)
(* not mapped.                                                             *)
Serves(root, p, count) == p .. (p + count - 1) \subseteq IF root = KernelRoot THEN Upper ELSE Lower

Request(c) == call' = c /\ UNCHANGED <<tables, free, ttbr0, switched, owed, hardware>>

Client ==
  /\ call = Idle
  /\ \/ \E root \in UserRoots \ {ttbr0} : vmm_activate(root)
     \/ \E root \in Root, p \in Page, count \in Counts, f \in Flags :
          /\ Serves(root, p, count)
          /\ \/ /\ \A q \in p .. (p + count - 1) : tables[root][q] = None
                /\ Request(Begin("allocate", root, p, count, f))
             \/ Request(Begin("protect", root, p, count, f))
     \/ \E root \in Root, p \in Page, count \in Counts :
          Serves(root, p, count) /\ Request(Begin("free", root, p, count, None))
     \/ \E p \in Page, count \in SyncCounts :
          p .. (p + count - 1) \subseteq Page /\ Request(Invalidating(Begin("sync", None, p, count, None)))
     \/ Request([Begin("flush", None, 0, 0, None) EXCEPT !.step = "tlbi"])

Kernel ==
  \/ vmm_allocate \/ vmm_allocate_fails \/ vmm_free \/ vmm_free_skips \/ pmm_release
  \/ pt_protect \/ pt_protect_fails \/ tlbi_vmalle1is \/ tlbi_page \/ dsb \/ Return

Next == IF strayed # {} THEN UNCHANGED vars ELSE Client \/ Kernel \/ Hardware

Spec == Init /\ [][Next]_vars

-----------------------------------------------------------------------------
(* Properties                                                              *)

(* Every variable keeps its type.                                          *)
Entries == [frame : Frames, flags : Flags]
Mapping == Entries \cup {None}
TypeOK ==
  /\ tables \in [Root -> [Page -> Mapping]] /\ free \subseteq Frames /\ ttbr0 \in UserRoots
  /\ tlb \in [Page -> Mapping] /\ walks \in [Half -> Root \cup {"released", "late", None}]
  /\ stale \subseteq [root : Root, page : Page, entry : Entries] /\ late \subseteq Page
  /\ doomed \subseteq Page /\ owed \subseteq Page /\ strayed \subseteq Half /\ switched \in BOOLEAN

(* The pages whose translation a call has changed and not yet invalidated. *)
Changing == IF call = Idle \/ call.op \in {"sync", "flush"} THEN {}
            ELSE IF call.op = "protect" THEN call.first .. (call.end - 1) ELSE {call.next} \cap Page

(* What is cached is what the table says, but where a call is changing it, *)
(* a protect that failed changed it, or the space changed without a flush. *)
UpToDate(p) ==
  \/ tlb[p] = None \/ tlb[p] = tables[RootOf(p)][p]
  \/ p \in Changing \cup owed \/ (switched /\ p \in Lower)

(* The calls invalidate all they change, whatever the walker does meanwhile*)
(* and whichever space is in use: a translation that was cached before the *)
(* TLBI of its page outlives no call that changed it.  One that does was   *)
(* read by a walk after the TLBI, from an entry already overwritten.       *)
CachedIsCurrent ==
  /\ TypeOK
  /\ \A p \in Page : UpToDate(p) \/ p \in late
  /\ "upper" \in strayed => walks["upper"] = "late"

(* Frames are released only when no translation to them is cached that was *)
(* read before the TLBI, however the spaces were switched.                 *)
FreeFramesUnreached == \A p \in Page : tlb[p] # None => tlb[p].frame \notin free \/ p \in late

(* api/mmu.h: a success of invalidate confirms the invalidation barriers;  *)
(* so nothing older than the tables is cached when a call has returned,    *)
(* and the next owner of a released frame has it alone.                    *)
InvalidationConfirmed ==
  \A p \in Page : UpToDate(p) /\ (tlb[p] # None => tlb[p].frame \notin free)

(* api/vmm.h: when activate returns, the processor is focused on the map of*)
(* the space it was given.                                                 *)
ActivationTakesEffect ==
  call = Idle => \A p \in Lower \ (owed \cup late) : tlb[p] \in {None, tables[ttbr0][p]}

(* api/vmm.h: old or altered routes are cleared from the hardware.  In the *)
(* lower half the table of an unmapped page is not.                        *)
NoStrayWalk == strayed = {}
=============================================================================
