------------------------------ MODULE TlbProofs ----------------------------
(***************************************************************************)
(* What module Tlb says of cached translations holds for every number of   *)
(* pages, spaces and frames, and every sequence of calls, with a walker    *)
(* that may read overwritten entries until the DSB.                        *)
(***************************************************************************)
EXTENDS Tlb, TLAPS

Ops == {"allocate", "free", "protect", "sync", "flush"}
Steps == {"store", "tlbi", "dsb", "release"}

(* What the theorems assume of the constants.                              *)
Instance ==
  /\ Page \subseteq Int /\ Lower \cap Upper = {} /\ Counts \cup SyncCounts \subseteq Nat
  /\ KernelRoot \notin UserRoots
  /\ None \notin Ops /\ None \notin Root \cup {"released", "late"} /\ {"released", "late"} \cap Root = {}
  /\ None \notin Frames /\ None \notin Entries

-----------------------------------------------------------------------------
(* The inductive invariant                                                 *)

Working(ops) == call # Idle /\ call.op \in ops
At(steps) == call # Idle /\ call.step \in steps
PagesOf(root) == IF root = KernelRoot THEN Upper ELSE Lower

CallType ==
  [op : Ops, root : Root \cup {None}, flags : Flags \cup {None}, first : Int, next : Int, end : Int,
   step : Steps, left : SUBSET Int, frame : Frames \cup {None}]

TypeInv == TypeOK /\ (call = Idle \/ call \in CallType)

(* The pages of a call are of the half of its root, and the loop is where  *)
(* the step says.                                                          *)
CallInv ==
  /\ Working({"allocate", "free", "protect"}) =>
       /\ call.root \in Root /\ call.first <= call.next /\ call.next <= call.end
       /\ \A q \in call.first .. (call.end - 1) : q \in PagesOf(call.root)
  /\ Working({"allocate", "protect"}) => call.flags \in Flags
  /\ Working({"allocate", "free"}) /\ call.step # "store" => call.next < call.end
  /\ Working({"protect"}) /\ call.step # "store" => call.next = call.end
  /\ Working({"sync", "flush"}) => call.step \in {"tlbi", "dsb"} /\ call.first .. (call.end - 1) \subseteq Page
  /\ Working({"allocate", "protect"}) => call.step # "release"

(* The pages an allocation has not reached yet are not mapped.             *)
AllocInv ==
  Working({"allocate"}) =>
    \A q \in call.next .. (call.end - 1) : call.step = "store" \/ q # call.next => tables[call.root][q] = None

(* What is left to be invalidated, and what a DSB has yet to complete.     *)
FlushInv ==
  /\ At({"tlbi"}) => call.left \subseteq RangeOf(call)
  /\ At({"tlbi"}) /\ call.op \in {"allocate", "free"} => call.left = {call.next}
  /\ ~At({"tlbi", "dsb"}) => doomed = {}

(* A frame is free or in one entry.  Between unmapping and release it is in*)
(* neither.                                                                *)
OneEntry ==
  \A r, s \in Root : \A p, q \in Page :
    tables[r][p] # None /\ tables[s][q] # None /\ tables[r][p].frame = tables[s][q].frame => r = s /\ p = q
MappedNotFree == \A r \in Root : \A p \in Page : tables[r][p] # None => tables[r][p].frame \notin free
Unmapped == Working({"free"}) /\ call.step # "store"
BetweenNotFree ==
  Unmapped =>
    /\ call.frame \in Frames \ free
    /\ \A r \in Root : \A p \in Page : tables[r][p] # None => tables[r][p].frame # call.frame

(* A cached frame is one the page has in some space, or the one a call has *)
(* just unmapped and is about to invalidate.                               *)
Mapping1(p) == \E r \in Root : tables[r][p] # None /\ tables[r][p].frame = tlb[p].frame
JustUnmapped(p) ==
  /\ Unmapped /\ p = call.next /\ tlb[p].frame = call.frame
  /\ call.step = "tlbi" \/ (call.step = "dsb" /\ p \in doomed)
CachedFrames == \A p \in Page : tlb[p] # None => Mapping1(p) \/ JustUnmapped(p) \/ p \in late

(* A walk that reads an overwritten entry comes to the frame the page still*)
(* has, or the one it just lost, of a page that is to be invalidated or has*)
(* been in this call, or that the caller has to invalidate.                *)
StaleFrames ==
  \A s \in stale :
    \/ tables[s.root][s.page] # None /\ tables[s.root][s.page].frame = s.entry.frame
    \/ /\ Unmapped /\ call.step \in {"tlbi", "dsb"}
       /\ s.root = call.root /\ s.page = call.next /\ s.entry.frame = call.frame
Pending(p) ==
  \/ At({"tlbi"}) /\ p \in call.left
  \/ Working({"protect"}) /\ call.step = "store" /\ p \in call.first .. (call.next - 1)
  \/ Invalidated(p)
StalePages == \A s \in stale : s.page \in owed \/ (s.page \in Changing /\ Pending(s.page))

(* Walks start where they should, but for a switch.                        *)
Flushed == At({"dsb"}) /\ Everything(call)
WalksInv ==
  /\ walks["upper"] \in {None, "released", "late", KernelRoot}
  /\ walks["lower"] \in {None, "released", "late", ttbr0} \/ (switched /\ ~Flushed)
  /\ walks["upper"] = "released" => Unmapped /\ call.step = "tlbi" /\ call.next \in Upper
StrayInv == "upper" \in strayed => walks["upper"] = "late"

(* A cached entry is current, or is about to be dropped, or the caller has *)
(* to drop it: Due says when, Excused why.                               *)
Due(p) ==
  \/ p \in doomed
  \/ At({"tlbi"}) /\ p \in call.left
  \/ Working({"protect"}) /\ call.step = "store" /\ p \in call.first .. (call.next - 1)
  \/ p \in owed /\ ~Invalidated(p)
  \/ switched /\ p \in Lower /\ ~Flushed
Excused(p) == p \in Changing \cup owed \/ (switched /\ p \in Lower)
CurrentOrDue == \A p \in Page : tlb[p] # None => tlb[p] = tables[RootOf(p)][p] \/ (Due(p) /\ Excused(p)) \/ p \in late

FramesInv ==
  /\ TypeInv /\ CallInv /\ AllocInv /\ FlushInv /\ OneEntry /\ MappedNotFree /\ BetweenNotFree
  /\ CachedFrames /\ StaleFrames /\ StalePages
IInv == FramesInv /\ WalksInv /\ CurrentOrDue

-----------------------------------------------------------------------------
(* Steps of the hardware                                                   *)

LEMMA FillStep == ASSUME Instance, IInv, NEW p \in Page, Fill(p) PROVE IInv'
<1> USE DEF IInv, FramesInv
<1> DEFINE h == HalfOf(p)
           r == Start(p)
<1>1. PICK e \in Read(r, p) :
        /\ tlb' = [tlb EXCEPT ![p] = e]
        /\ late' = IF e \notin {None, tables[r][p]} /\ Invalidated(p) THEN late \cup {p} ELSE late
  BY DEF Fill
<1>2. /\ r \in Root /\ tlb[p] = None /\ Leads(r, h)
      /\ UNCHANGED <<tables, free, ttbr0, call, switched, owed, doomed, stale, strayed>>
      /\ walks' = [walks EXCEPT ![h] = IF Tabled(tables, r, h) THEN r ELSE Gone]
  BY DEF Fill, kernel
<1>3. e = tables[r][p] \/ \E s \in stale : s.root = r /\ s.page = p /\ s.entry = e /\ e \in Entries
  BY <1>1 DEF Read, Overwritten, TypeInv, TypeOK
<1>4. TypeInv'
  <2>1. e \in Mapping /\ Gone \in {"released", "late"} /\ h \in Half
    BY <1>2, <1>3 DEF TypeInv, TypeOK, Mapping, Gone, HalfOf, Half
  <2>2. tlb' \in [Page -> Mapping] /\ late' \subseteq Page
    BY <1>1, <2>1 DEF TypeInv, TypeOK
  <2>3. walks' \in [Half -> Root \cup {"released", "late", None}]
    BY <1>2, <2>1 DEF TypeInv, TypeOK
  <2> QED
    BY <1>2, <2>2, <2>3 DEF TypeInv, TypeOK
<1>5. CallInv' /\ AllocInv' /\ FlushInv' /\ OneEntry' /\ MappedNotFree' /\ BetweenNotFree'
  BY <1>2 DEF CallInv, AllocInv, FlushInv, OneEntry, MappedNotFree, BetweenNotFree, Working, At, Unmapped, RangeOf, PagesOf
<1>6. StaleFrames' /\ StalePages'
  BY <1>2 DEF StaleFrames, StalePages, Pending, Changing, Invalidated, Everything, Working, At, Unmapped, RangeOf
<1>7. Flushed' = Flushed /\ Unmapped' = Unmapped /\ \A q \in Page : RootOf(q)' = RootOf(q) /\ Invalidated(q)' = Invalidated(q)
  BY <1>2 DEF Flushed, Unmapped, Working, RootOf, Invalidated, At, Everything, RangeOf
<1>8. CachedFrames'
  <2>1. SUFFICES ASSUME e # None, p \notin late'
                 PROVE  Mapping1(p)' \/ JustUnmapped(p)'
    BY <1>1, <1>2, <1>7 DEF CachedFrames, Mapping1, JustUnmapped, TypeInv, TypeOK
  <2>2. tlb'[p] = e
    BY <1>1 DEF TypeInv, TypeOK
  <2>3. CASE e = tables[r][p]
    BY <1>2, <2>1, <2>2, <2>3 DEF Mapping1
  <2>4. CASE e # tables[r][p]
    <3>1. PICK s \in stale : s.root = r /\ s.page = p /\ s.entry = e
      BY <1>3, <2>4
    <3>2. CASE tables[r][p] # None /\ tables[r][p].frame = e.frame
      BY <1>2, <2>2, <3>2 DEF Mapping1
    <3>3. CASE Unmapped /\ call.step \in {"tlbi", "dsb"} /\ p = call.next /\ e.frame = call.frame
      <4>1. call.step = "tlbi"
        BY <1>1, <2>1, <2>4, <3>3 DEF Invalidated, RangeOf, Unmapped, Working
      <4> QED
        BY <1>2, <1>7, <2>2, <3>3, <4>1 DEF JustUnmapped
    <3> QED
      BY <3>1, <3>2, <3>3 DEF StaleFrames
  <2> QED
    BY <2>3, <2>4
<1>9. WalksInv'
  <2>1. r \in {KernelRoot, ttbr0} \/ (h = "lower" /\ switched /\ ~Flushed)
    BY <1>2 DEF WalksInv, Start, RootOf, HalfOf, Instance
  <2>2. (h = "upper" => p \in Upper /\ r = KernelRoot) /\ (h = "lower" => r = ttbr0 \/ (switched /\ ~Flushed))
    BY <1>2 DEF WalksInv, Start, RootOf, HalfOf, Instance, Page
  <2>3. CASE h = "lower"
    BY <1>2, <1>7, <2>2, <2>3 DEF WalksInv, TypeInv, TypeOK, Half, Gone
  <2>4. CASE h = "upper"
    <3>1. walks'["lower"] = walks["lower"] /\ walks'["upper"] = IF Tabled(tables, r, h) THEN r ELSE Gone
      BY <1>2, <2>4 DEF TypeInv, TypeOK, Half
    <3>2. CASE Tabled(tables, r, h)
      BY <1>2, <1>7, <2>2, <2>4, <3>1, <3>2 DEF WalksInv, Instance, Root
    <3>3. CASE ~Tabled(tables, r, h)
      <4>1. PICK s \in stale : s.root = r /\ s.page \in Upper
        BY <1>2, <2>4, <3>3 DEF Leads, Overwritten, Pages
      <4>2. tables[s.root][s.page] = None
        BY <2>4, <3>3, <4>1 DEF Tabled, Pages
      <4>3. Unmapped /\ call.step \in {"tlbi", "dsb"} /\ call.next \in Upper
        BY <4>1, <4>2 DEF StaleFrames
      <4>4. call # Idle
        BY <4>3 DEF Unmapped, Working
      <4>5. walks'["upper"] = "late" \/ (walks'["upper"] = "released" /\ call.step = "tlbi")
        BY <3>1, <3>3, <4>3, <4>4 DEF Gone
      <4> QED
        BY <1>2, <1>7, <3>1, <4>3, <4>5 DEF WalksInv
    <3> QED
      BY <3>2, <3>3
  <2> QED
    BY <2>3, <2>4 DEF HalfOf
<1>10. CurrentOrDue'
  <2>1. tables[r][p] = tables[RootOf(p)][p] \/ (switched /\ p \in Lower /\ ~Flushed)
    BY <1>2 DEF WalksInv, Start, RootOf, HalfOf, Instance, Root, Page
  <2>2. \A q \in Page : Due(q)' = Due(q) /\ Excused(q)' = Excused(q)
    BY <1>2, <1>7 DEF Due, Excused, Changing, At, Working
  <2>3. SUFFICES ASSUME e # None, p \notin late'
                 PROVE  e = tables[RootOf(p)][p] \/ (Due(p) /\ Excused(p))
    BY <1>1, <1>2, <1>7, <2>2 DEF CurrentOrDue, TypeInv, TypeOK
  <2>4. CASE e = tables[r][p]
    BY <2>1, <2>4 DEF Due, Excused
  <2>5. CASE e # tables[r][p]
    <3>1. PICK s \in stale : s.page = p
      BY <1>3, <2>5
    <3>2. ~Invalidated(p)
      BY <1>1, <2>3, <2>5
    <3> QED
      BY <3>1, <3>2 DEF StalePages, Pending, Due, Excused
  <2> QED
    BY <2>4, <2>5
<1> QED
  BY <1>4, <1>5, <1>6, <1>8, <1>9, <1>10

LEMMA EvictStep == ASSUME Instance, IInv, NEW p \in Page, Evict(p) PROVE IInv'
<1> USE DEF IInv, FramesInv
<1>1. /\ UNCHANGED <<tables, free, ttbr0, call, switched, owed, walks, stale, strayed>>
      /\ tlb' = [tlb EXCEPT ![p] = None] /\ late' = late \ {p} /\ doomed' = doomed \ {p}
  BY DEF Evict, kernel
<1>2. TypeInv'
  BY <1>1 DEF TypeInv, TypeOK, CallType, Mapping
<1>3. CallInv' /\ AllocInv' /\ FlushInv' /\ OneEntry' /\ MappedNotFree' /\ BetweenNotFree' /\ WalksInv'
  BY <1>1 DEF CallInv, AllocInv, FlushInv, OneEntry, MappedNotFree, BetweenNotFree, Working, At, Unmapped, RangeOf, PagesOf, WalksInv, Flushed, Everything
<1>4. StaleFrames' /\ StalePages'
  BY <1>1 DEF StaleFrames, StalePages, Pending, Changing, Invalidated, Everything, Working, At, Unmapped, RangeOf
<1>5. /\ \A q \in Page : q # p => tlb'[q] = tlb[q] /\ (q \in late' <=> q \in late) /\ (q \in doomed' <=> q \in doomed)
      /\ tlb'[p] = None
  BY <1>1 DEF TypeInv, TypeOK
<1>6. /\ Flushed' = Flushed /\ Unmapped' = Unmapped
      /\ \A q \in Page : RootOf(q)' = RootOf(q) /\ Invalidated(q)' = Invalidated(q) /\ Excused(q)' = Excused(q)
  BY <1>1 DEF Flushed, Unmapped, Working, RootOf, Invalidated, At, Everything, RangeOf, Excused, Changing
<1>7. \A q \in Page : q # p => (Due(q)' <=> Due(q))
  BY <1>1, <1>5, <1>6 DEF Due, At, Working
<1>8. CachedFrames' /\ CurrentOrDue'
  BY <1>1, <1>5, <1>6, <1>7 DEF CachedFrames, Mapping1, JustUnmapped, CurrentOrDue
<1> QED
  BY <1>2, <1>3, <1>4, <1>8

LEMMA ForgetStep == ASSUME Instance, IInv, NEW h \in Half, Forget(h) \/ Stray(h) PROVE IInv'
<1> USE DEF IInv, FramesInv
<1>1. /\ UNCHANGED <<tables, free, ttbr0, call, switched, owed, tlb, late, doomed, stale>>
      /\ \/ walks' = [walks EXCEPT ![h] = None] /\ UNCHANGED strayed
         \/ UNCHANGED walks /\ strayed' = strayed \cup {h}
  BY DEF Forget, Stray, kernel
<1>2. TypeInv'
  BY <1>1 DEF TypeInv, TypeOK, CallType, Half
<1>3. CallInv' /\ AllocInv' /\ FlushInv' /\ OneEntry' /\ MappedNotFree' /\ BetweenNotFree'
  BY <1>1 DEF CallInv, AllocInv, FlushInv, OneEntry, MappedNotFree, BetweenNotFree, Working, At, Unmapped, RangeOf, PagesOf
<1>4. WalksInv'
  <2>1. Flushed' = Flushed /\ Unmapped' = Unmapped
    BY <1>1 DEF Flushed, At, Unmapped, Working, Everything, RangeOf
  <2>2. \A g \in Half : walks'[g] \in {walks[g], None}
    BY <1>1 DEF TypeInv, TypeOK
  <2> QED
    BY <1>1, <2>1, <2>2 DEF WalksInv, Half, Instance
<1>5. StaleFrames' /\ StalePages'
  BY <1>1 DEF StaleFrames, StalePages, Pending, Changing, Invalidated, Everything, Working, At, Unmapped, RangeOf
<1>6. CachedFrames' /\ CurrentOrDue'
  BY <1>1, ZenonT(60) DEF CachedFrames, Mapping1, JustUnmapped, Unmapped, Working, TypeInv, TypeOK, CurrentOrDue, Due, Excused, Changing, At, Invalidated, RootOf, Flushed, RangeOf, Everything
<1> QED
  BY <1>2, <1>3, <1>4, <1>5, <1>6

-----------------------------------------------------------------------------
(* Calls that begin and end                                                *)

LEMMA ActivateStep ==
  ASSUME Instance, IInv, call = Idle, NEW root \in UserRoots, vmm_activate(root) PROVE IInv'
<1> USE DEF IInv, FramesInv
<1>1. /\ UNCHANGED <<tables, free, call, owed, tlb, walks, late, doomed, stale, strayed>>
      /\ ttbr0' = root /\ switched' = (switched \/ root # ttbr0)
  BY DEF vmm_activate, hardware
<1>2. TypeInv'
  BY <1>1 DEF TypeInv, TypeOK, CallType
<1>3. CallInv' /\ AllocInv' /\ FlushInv' /\ OneEntry' /\ MappedNotFree' /\ BetweenNotFree' /\ CachedFrames'
  BY <1>1 DEF CallInv, AllocInv, FlushInv, OneEntry, MappedNotFree, BetweenNotFree, Working, At, Unmapped, RangeOf, PagesOf, CachedFrames, Mapping1, JustUnmapped
<1>4. WalksInv'
  BY <1>1 DEF WalksInv, Flushed, At, Unmapped, Working
<1>5. CurrentOrDue'
  BY <1>1, <1>2 DEF CurrentOrDue, Due, Excused, Changing, At, Invalidated, RootOf, Flushed, Working, TypeInv, TypeOK
<1>6. StaleFrames' /\ StalePages'
  BY <1>1 DEF StaleFrames, StalePages, Pending, Changing, Invalidated, Everything, Working, At, Unmapped, RangeOf
<1> QED
  BY <1>2, <1>3, <1>4, <1>5, <1>6

(* The first state of a call: nothing is stored or invalidated yet.        *)
Fresh(c) ==
  /\ c \in CallType /\ c # Idle
  /\ c.step = "store" => c.first = c.next
  /\ c.op \in {"allocate", "free", "protect"} =>
       /\ c.step = "store" /\ c.root \in Root /\ c.first = c.next /\ c.next <= c.end
       /\ \A q \in c.first .. (c.end - 1) : q \in PagesOf(c.root)
  /\ c.op = "allocate" => \A q \in c.first .. (c.end - 1) : tables[c.root][q] = None
  /\ c.op \in {"allocate", "protect"} => c.flags \in Flags
  /\ c.op \in {"sync", "flush"} => c.step = "tlbi" /\ c.first .. (c.end - 1) \subseteq Page /\ c.left = RangeOf(c)

LEMMA RequestStep ==
  ASSUME Instance, IInv, call = Idle, NEW c, Fresh(c), Request(c) PROVE IInv'
<1> USE DEF IInv, FramesInv
<1>1. UNCHANGED <<tables, free, ttbr0, switched, owed, tlb, walks, late, doomed, stale, strayed>> /\ call' = c
  BY DEF Request, hardware
<1>2. TypeInv'
  BY <1>1 DEF TypeInv, TypeOK, Fresh
<1>3. CallInv' /\ AllocInv' /\ FlushInv' /\ OneEntry' /\ MappedNotFree' /\ BetweenNotFree'
  BY <1>1 DEF Fresh, CallType, Ops, CallInv, AllocInv, FlushInv, OneEntry, MappedNotFree, BetweenNotFree, Working, At, Unmapped, RangeOf, PagesOf
<1>4. CachedFrames' /\ WalksInv'
  BY <1>1 DEF Fresh, CachedFrames, Mapping1, JustUnmapped, WalksInv, Unmapped, Working, At, Flushed, CallType, Ops
<1>5. CurrentOrDue'
  BY <1>1 DEF Fresh, CurrentOrDue, Due, Excused, Changing, At, Invalidated, RootOf, Flushed, Working, TypeInv, TypeOK, CallType, Ops
<1>6. StaleFrames'
  BY <1>1 DEF StaleFrames, Unmapped, Working
<1>7. StalePages'
  BY <1>1 DEF StalePages, Changing
<1> QED
  BY <1>2, <1>3, <1>4, <1>5, <1>6, <1>7

LEMMA FreshSync ==
  ASSUME Instance, NEW c \in CallType, c.op = "sync", c.first .. (c.end - 1) \subseteq Page
  PROVE  Fresh(Invalidating(c))
<1>1. RangeOf(c) = c.first .. (c.end - 1) /\ RangeOf(c) \in SUBSET Int
  BY DEF RangeOf, CallType
<1>2. /\ Invalidating(c) \in CallType /\ Invalidating(c).op = "sync" /\ Invalidating(c).step = "tlbi"
      /\ Invalidating(c).first = c.first /\ Invalidating(c).end = c.end /\ Invalidating(c).left = RangeOf(c)
  BY <1>1 DEF Invalidating, CallType, Steps
<1>3. RangeOf(Invalidating(c)) = RangeOf(c)
  BY <1>1, <1>2 DEF RangeOf
<1> QED
  BY <1>1, <1>2, <1>3 DEF Fresh, Instance, Idle, Ops

LEMMA ClientStep == ASSUME Instance, IInv, Client PROVE IInv'
<1>1. CASE \E root \in UserRoots \ {ttbr0} : vmm_activate(root)
  BY <1>1, ActivateStep DEF Client
<1>2. ASSUME NEW root \in Root, NEW p \in Page, NEW count \in Counts, NEW f \in Flags, NEW op \in {"allocate", "protect"},
             op = "allocate" => \A q \in p .. (p + count - 1) : tables[root][q] = None,
             Serves(root, p, count), Request(Begin(op, root, p, count, f))
      PROVE  IInv'
  <2>1. Fresh(Begin(op, root, p, count, f))
    BY <1>2 DEF Fresh, Begin, CallType, Ops, Steps, Instance, Idle, Serves, PagesOf, Page
  <2> QED
    BY <1>2, <2>1, RequestStep DEF Client
<1>3. ASSUME NEW root \in Root, NEW p \in Page, NEW count \in Counts,
             Serves(root, p, count), Request(Begin("free", root, p, count, None))
      PROVE  IInv'
  <2>1. Fresh(Begin("free", root, p, count, None))
    BY <1>3 DEF Fresh, Begin, CallType, Ops, Steps, Instance, Idle, Serves, PagesOf, Page
  <2> QED
    BY <1>3, <2>1, RequestStep DEF Client
<1>4. ASSUME NEW p \in Page, NEW count \in SyncCounts, p .. (p + count - 1) \subseteq Page,
             Request(Invalidating(Begin("sync", None, p, count, None)))
      PROVE  IInv'
  <2>1. Fresh(Invalidating(Begin("sync", None, p, count, None)))
    BY <1>4, FreshSync DEF Begin, CallType, Ops, Steps, Instance
  <2> QED
    BY <1>4, <2>1, RequestStep DEF Client
<1>5. ASSUME Request([Begin("flush", None, 0, 0, None) EXCEPT !.step = "tlbi"])
      PROVE  IInv'
  <2>1. Fresh([Begin("flush", None, 0, 0, None) EXCEPT !.step = "tlbi"])
    BY DEF Fresh, Begin, RangeOf, CallType, Ops, Steps, Instance, Idle, Page
  <2> QED
    BY <1>5, <2>1, RequestStep DEF Client
<1> QED
  BY <1>1, <1>2, <1>3, <1>4, <1>5 DEF Client

-----------------------------------------------------------------------------
(* Steps of a call                                                         *)

(* The page a loop is at, in a call that stores entries.                   *)
LEMMA AtPage ==
  ASSUME Instance, IInv, NEW op \in {"allocate", "free", "protect"}, Storing(op)
  PROVE  /\ call \in CallType /\ call # Idle /\ call.op = op /\ call.step = "store"
         /\ call.next < call.end /\ call.next \in Page /\ call.root \in Root
         /\ call.next \in PagesOf(call.root) /\ call.next \in call.first .. (call.end - 1)
<1>1. call.op = op /\ call.step = "store" /\ call.next < call.end
  BY DEF Storing
<1>2. call # Idle /\ call \in CallType
  BY <1>1 DEF IInv, FramesInv, TypeInv, Instance, Idle, Ops
<1>3. call.root \in Root /\ call.first <= call.next /\ \A q \in call.first .. (call.end - 1) : q \in PagesOf(call.root)
  BY <1>1, <1>2 DEF IInv, FramesInv, CallInv, Working
<1>4. call.next \in call.first .. (call.end - 1)
  BY <1>1, <1>2, <1>3 DEF CallType
<1> QED
  BY <1>1, <1>2, <1>3, <1>4 DEF PagesOf, Page

LEMMA AllocateStep == ASSUME Instance, IInv, vmm_allocate PROVE IInv'
<1> USE DEF IInv, FramesInv
<1> DEFINE p == call.next
<1>1. PICK f \in free : Store(call.root, p, Entry(f, call.flags)) /\ free' = free \ {f}
  BY DEF vmm_allocate
<1> DEFINE e == Entry(f, call.flags)
<1>2. /\ call \in CallType /\ call # Idle /\ call.op = "allocate" /\ call.step = "store"
      /\ p < call.end /\ p \in Page /\ call.root \in Root /\ f \in Frames /\ call.flags \in Flags
      /\ p \in PagesOf(call.root) /\ p \in call.first .. (call.end - 1)
  <2>1. Storing("allocate")
    BY DEF vmm_allocate
  <2> QED
    BY <1>1, <2>1, AtPage DEF TypeInv, TypeOK, CallInv, Working
<1>3. e \in Entries /\ e \in Mapping /\ e # None /\ e.frame = f
  BY <1>2 DEF Entry, Entries, Mapping, Instance
<1>4. /\ tables' = [tables EXCEPT ![call.root][p] = e] /\ UNCHANGED stale
      /\ UNCHANGED <<ttbr0, switched, tlb, late, doomed, strayed, owed>>
      /\ tables[call.root][p] = None
  <2>1. call.next \in call.next .. (call.end - 1)
    BY <1>2 DEF CallType
  <2> QED
    BY <1>1, <1>2, <2>1 DEF Store, vmm_allocate, Instance, AllocInv, Working
<1>5. UNCHANGED walks
  <2>1. Tabled(tables', call.root, HalfOf(p))
    BY <1>2, <1>3, <1>4 DEF Tabled, Pages, HalfOf, Page, TypeInv, TypeOK
  <2> QED
    BY <1>1, <2>1 DEF Store
<1>6. /\ call' \in CallType /\ call' # Idle /\ call'.op = "allocate" /\ call'.step = "tlbi" /\ call'.left = {p}
      /\ call'.root = call.root /\ call'.flags = call.flags /\ call'.first = call.first /\ call'.next = p /\ call'.end = call.end
  BY <1>2 DEF vmm_allocate, Invalidating, RangeOf, CallType, Steps, Idle, Instance, Ops
<1>7. RangeOf(call') = {p}
  BY <1>6 DEF RangeOf
<1>8. \A r \in Root : \A q \in Page : tables'[r][q] = IF r = call.root /\ q = p THEN e ELSE tables[r][q]
  BY <1>2, <1>4 DEF TypeInv, TypeOK
<1> HIDE DEF p, e
<1>9. TypeInv'
  BY <1>1, <1>2, <1>3, <1>4, <1>5, <1>6 DEF TypeInv, TypeOK
<1>10. CallInv' /\ AllocInv' /\ FlushInv'
  BY <1>2, <1>4, <1>6, <1>7, <1>8 DEF CallInv, AllocInv, FlushInv, Working, At, PagesOf, Page, CallType, p
<1>11. OneEntry' /\ MappedNotFree' /\ BetweenNotFree'
  BY <1>1, <1>3, <1>6, <1>8 DEF OneEntry, MappedNotFree, BetweenNotFree, Unmapped, Working
<1>12. CachedFrames'
  BY <1>2, <1>3, <1>4, <1>6, <1>8 DEF CachedFrames, Mapping1, JustUnmapped, Unmapped, Working
<1>13. WalksInv'
  BY <1>2, <1>4, <1>5, <1>6 DEF WalksInv, Unmapped, Working, Flushed, At
<1>14. CurrentOrDue'
  <2>1. Changing = {p} /\ Changing' = {p}
    BY <1>2, <1>6 DEF Changing, p
  <2> QED
    BY <1>2, <1>4, <1>6, <1>7, <1>8, <2>1 DEF CurrentOrDue, Due, Excused, Invalidated, At, Working, Flushed, RootOf, TypeInv, TypeOK, Root
<1>15. StaleFrames'
  <2>1. ~Unmapped /\ \A s \in stale : s.root \in Root /\ s.page \in Page
    BY <1>2 DEF Unmapped, TypeInv, TypeOK
  <2> QED
    BY <1>4, <1>8, <2>1 DEF StaleFrames
<1>16. StalePages'
  <2>1. \A s \in stale : ~Pending(s.page)
    BY <1>2 DEF Pending, At, Working, Invalidated
  <2> QED
    BY <1>4, <2>1 DEF StalePages
<1> QED
  BY <1>9, <1>10, <1>11, <1>12, <1>13, <1>14, <1>15, <1>16

LEMMA FreeStep == ASSUME Instance, IInv, vmm_free PROVE IInv'
<1> USE DEF IInv, FramesInv
<1> DEFINE p == call.next
           e == tables[call.root][p]
<1>1. /\ Storing("free") /\ e # None /\ Store(call.root, p, None)
      /\ call' = [Invalidating(call) EXCEPT !.frame = e.frame] /\ UNCHANGED <<free, owed>>
  BY DEF vmm_free
<1>2. /\ call \in CallType /\ call # Idle /\ call.op = "free" /\ call.step = "store"
      /\ p < call.end /\ p \in Page /\ call.root \in Root /\ p \in PagesOf(call.root)
  BY <1>1, AtPage
<1>3. e \in Entries /\ e.frame \in Frames
  BY <1>1, <1>2 DEF TypeInv, TypeOK, Mapping, Entries
<1>4. /\ tables' = [tables EXCEPT ![call.root][p] = None]
      /\ stale' = stale \cup {[root |-> call.root, page |-> p, entry |-> e]}
      /\ UNCHANGED <<ttbr0, switched, tlb, late, doomed, strayed, owed, free>>
      /\ walks' = walks \/ (walks' = [walks EXCEPT ![HalfOf(p)] = "released"])
  BY <1>1 DEF Store, Instance
<1>5. /\ call' \in CallType /\ call' # Idle /\ call'.op = "free" /\ call'.step = "tlbi" /\ call'.left = {p} /\ call'.frame = e.frame
      /\ call'.root = call.root /\ call'.first = call.first /\ call'.next = p /\ call'.end = call.end
  BY <1>1, <1>2, <1>3 DEF Invalidating, RangeOf, CallType, Steps, Idle, Instance, Ops
<1>6. RangeOf(call') = {p}
  BY <1>5 DEF RangeOf
<1>7. \A r \in Root : \A q \in Page : tables'[r][q] = IF r = call.root /\ q = p THEN None ELSE tables[r][q]
  BY <1>2, <1>4 DEF TypeInv, TypeOK
<1>8. TypeInv'
  BY <1>2, <1>3, <1>4, <1>5 DEF TypeInv, TypeOK, Mapping, Half, HalfOf
<1>9. CallInv' /\ AllocInv' /\ FlushInv'
  BY <1>2, <1>4, <1>5, <1>6, <1>7 DEF CallInv, AllocInv, FlushInv, Working, At, PagesOf, Page, CallType
<1>10. OneEntry' /\ MappedNotFree'
  BY <1>4, <1>7 DEF OneEntry, MappedNotFree
<1>11. BetweenNotFree'
  BY <1>1, <1>2, <1>3, <1>4, <1>5, <1>7 DEF BetweenNotFree, OneEntry, MappedNotFree
<1>12. CachedFrames'
  <2>1. SUFFICES ASSUME NEW q \in Page, tlb[q] # None, q \notin late PROVE Mapping1(q)' \/ JustUnmapped(q)'
    BY <1>4 DEF CachedFrames
  <2>2. ~Unmapped
    BY <1>2 DEF Unmapped
  <2>3. PICK r \in Root : tables[r][q] # None /\ tables[r][q].frame = tlb[q].frame
    BY <2>1, <2>2 DEF CachedFrames, Mapping1, JustUnmapped
  <2>4. CASE r = call.root /\ q = p
    BY <1>4, <1>5, <2>3, <2>4 DEF JustUnmapped, Unmapped, Working
  <2>5. CASE ~(r = call.root /\ q = p)
    BY <1>4, <1>7, <2>3, <2>5 DEF Mapping1
  <2> QED
    BY <2>4, <2>5
<1>13. WalksInv'
  BY <1>2, <1>4, <1>5 DEF WalksInv, Unmapped, Working, Flushed, At, HalfOf, Page, Instance, TypeInv, TypeOK, Half
<1>14. CurrentOrDue'
  BY <1>2, <1>4, <1>5, <1>6, <1>7 DEF CurrentOrDue, Due, Excused, Changing, Invalidated, At, Working, Flushed, RootOf, TypeInv, TypeOK, Root
<1>15. StaleFrames'
  <2>1. SUFFICES ASSUME NEW s \in stale'
                 PROVE  \/ tables'[s.root][s.page] # None /\ tables'[s.root][s.page].frame = s.entry.frame
                        \/ s.root = call'.root /\ s.page = call'.next /\ s.entry.frame = call'.frame
    BY <1>5 DEF StaleFrames, Unmapped, Working
  <2>2. CASE s \in stale
    <3>1. s.root \in Root /\ s.page \in Page /\ tables[s.root][s.page] # None /\ tables[s.root][s.page].frame = s.entry.frame
      BY <1>2, <2>2 DEF StaleFrames, Unmapped, TypeInv, TypeOK
    <3> QED
      BY <1>5, <1>7, <3>1
  <2>3. CASE s = [root |-> call.root, page |-> p, entry |-> e]
    BY <1>5, <2>3
  <2> QED
    BY <1>4, <2>2, <2>3
<1>16. StalePages'
  <2>1. \A s \in stale : s.page \in owed
    BY <1>2 DEF StalePages, Pending, At, Working, Invalidated
  <2>2. SUFFICES ASSUME NEW s \in stale', s.page \notin owed
                 PROVE  s.page \in Changing' /\ Pending(s.page)'
    BY <1>4 DEF StalePages
  <2>3. s = [root |-> call.root, page |-> p, entry |-> e]
    BY <1>4, <2>1, <2>2
  <2> QED
    BY <1>2, <1>5, <2>3 DEF Changing, Pending, At
<1> QED
  BY <1>8, <1>9, <1>10, <1>11, <1>12, <1>13, <1>14, <1>15, <1>16

LEMMA ReleaseStep == ASSUME Instance, IInv, pmm_release PROVE IInv'
<1> USE DEF IInv, FramesInv
<1>1. /\ call.op = "free" /\ call.step = "release" /\ free' = free \cup {call.frame}
      /\ call' = [call EXCEPT !.step = "store", !.next = @ + 1, !.frame = None]
      /\ UNCHANGED <<tables, ttbr0, switched, owed, tlb, walks, late, doomed, stale, strayed>>
  BY DEF pmm_release, hardware
<1>2. call \in CallType /\ call # Idle /\ Unmapped
  BY <1>1 DEF TypeInv, Instance, Idle, Ops, Unmapped, Working
<1>3. call.frame \in Frames /\ call.next < call.end
  BY <1>1, <1>2 DEF BetweenNotFree, CallInv, Working
<1>4. /\ call' \in CallType /\ call' # Idle /\ call'.op = "free" /\ call'.step = "store"
      /\ call'.root = call.root /\ call'.first = call.first /\ call'.next = call.next + 1 /\ call'.end = call.end
  <2>1. call' \in CallType
    <3> DEFINE n == call.next + 1
    <3>1. n \in Int /\ None \in Frames \cup {None} /\ "store" \in Steps
      BY <1>2 DEF CallType, Steps
    <3>2. call' = [call EXCEPT !.step = "store", !.next = n, !.frame = None]
      BY <1>1
    <3> HIDE DEF n
    <3> QED
      BY <1>2, <3>1, <3>2 DEF CallType
  <2>2. /\ call'.op = "free" /\ call'.step = "store" /\ call'.root = call.root
        /\ call'.first = call.first /\ call'.next = call.next + 1 /\ call'.end = call.end
    BY <1>1, <1>2 DEF CallType
  <2> QED
    BY <2>1, <2>2 DEF Ops, Idle, Instance
<1>5. TypeInv'
  BY <1>1, <1>3, <1>4 DEF TypeInv, TypeOK
<1>6. CallInv' /\ AllocInv' /\ FlushInv'
  BY <1>1, <1>2, <1>3, <1>4 DEF CallInv, AllocInv, FlushInv, Working, At, CallType, PagesOf
<1>7. OneEntry' /\ MappedNotFree' /\ BetweenNotFree'
  BY <1>1, <1>2, <1>4 DEF OneEntry, MappedNotFree, BetweenNotFree, Unmapped, Working
<1>8. CachedFrames' /\ WalksInv'
  BY <1>1, <1>2, <1>4 DEF CachedFrames, Mapping1, JustUnmapped, WalksInv, Unmapped, Working, Flushed, At
<1>9. CurrentOrDue'
  BY <1>1, <1>2, <1>4 DEF CurrentOrDue, Due, Excused, Changing, FlushInv, Invalidated, At, Working, Flushed, RootOf
<1>10. StaleFrames' /\ StalePages'
  BY <1>1, <1>2 DEF StaleFrames, StalePages, Pending, At, Working, Invalidated
<1> QED
  BY <1>5, <1>6, <1>7, <1>8, <1>9, <1>10

LEMMA ProtectStep == ASSUME Instance, IInv, pt_protect PROVE IInv'
<1> USE DEF IInv, FramesInv
<1> DEFINE p == call.next
           old == tables[call.root][p]
           e == Entry(old.frame, call.flags)
           after == [call EXCEPT !.next = @ + 1]
<1>1. /\ Storing("protect") /\ old # None /\ Store(call.root, p, e)
      /\ call' = IF after.next = call.end THEN Invalidating(after) ELSE after
      /\ UNCHANGED <<free, owed>>
  BY DEF pt_protect
<1>2. /\ call \in CallType /\ call # Idle /\ call.op = "protect" /\ call.step = "store" /\ call.flags \in Flags
      /\ p < call.end /\ p \in Page /\ call.root \in Root /\ p \in PagesOf(call.root) /\ call.first <= p
  BY <1>1, AtPage DEF CallInv, Working
<1>3. old \in Entries /\ e \in Mapping /\ e # None /\ e.frame = old.frame
  BY <1>1, <1>2 DEF TypeInv, TypeOK, Mapping, Entries, Entry, Instance
<1>4. /\ tables' = [tables EXCEPT ![call.root][p] = e]
      /\ stale' = stale \cup {[root |-> call.root, page |-> p, entry |-> old]}
      /\ UNCHANGED <<ttbr0, switched, tlb, late, doomed, strayed, owed, free>>
  BY <1>1 DEF Store, Instance
<1>5. UNCHANGED walks
  <2>1. Tabled(tables', call.root, HalfOf(p))
    BY <1>2, <1>3, <1>4 DEF Tabled, Pages, HalfOf, Page, TypeInv, TypeOK
  <2> QED
    BY <1>1, <2>1 DEF Store
<1>6. /\ after \in CallType /\ after.op = "protect" /\ after.step = "store" /\ after.next = p + 1
      /\ after.root = call.root /\ after.flags = call.flags /\ after.first = call.first /\ after.end = call.end
  BY <1>2 DEF CallType
<1>7. /\ call' \in CallType /\ call' # Idle /\ call'.op = "protect" /\ call'.next = p + 1
      /\ call'.root = call.root /\ call'.flags = call.flags /\ call'.first = call.first /\ call'.end = call.end
      /\ \/ call'.step = "store" /\ p + 1 # call.end
         \/ call'.step = "tlbi" /\ p + 1 = call.end /\ call'.left = call.first .. (call.end - 1)
  <2>1. RangeOf(after) = call.first .. (call.end - 1) /\ RangeOf(after) \in SUBSET Int
    BY <1>2, <1>6 DEF RangeOf, CallType
  <2> HIDE DEF after
  <2> QED
    <3>1. CASE after.next = call.end
      <4>1. call' = [after EXCEPT !.step = "tlbi", !.left = RangeOf(after)]
        BY <1>1, <3>1 DEF Invalidating
      <4>2. /\ call' \in CallType /\ call'.op = after.op /\ call'.next = after.next /\ call'.step = "tlbi"
            /\ call'.root = after.root /\ call'.flags = after.flags /\ call'.first = after.first
            /\ call'.end = after.end /\ call'.left = RangeOf(after)
        BY <1>6, <2>1, <4>1 DEF CallType, Steps
      <4> QED
        BY <1>6, <2>1, <3>1, <4>2 DEF Idle, Instance, Ops
    <3>2. CASE after.next # call.end
      BY <1>1, <1>6, <3>2 DEF Idle, Instance, Ops
    <3> QED
      BY <3>1, <3>2
<1>8. RangeOf(call') = call.first .. (call.end - 1)
  BY <1>7 DEF RangeOf
<1>9. \A r \in Root : \A q \in Page : tables'[r][q] = IF r = call.root /\ q = p THEN e ELSE tables[r][q]
  BY <1>2, <1>4 DEF TypeInv, TypeOK
<1> HIDE DEF e, after
<1>10. TypeInv'
  BY <1>2, <1>3, <1>4, <1>5, <1>7 DEF TypeInv, TypeOK
<1>11. CallInv' /\ AllocInv' /\ FlushInv'
  BY <1>2, <1>4, <1>7, <1>8 DEF CallInv, AllocInv, FlushInv, Working, At, PagesOf, CallType
<1>12. OneEntry' /\ MappedNotFree' /\ BetweenNotFree'
  BY <1>1, <1>2, <1>3, <1>4, <1>7, <1>9, SMTT(30) DEF OneEntry, MappedNotFree, BetweenNotFree, Unmapped, Working
<1>13. CachedFrames'
  BY <1>1, <1>2, <1>3, <1>4, <1>7, <1>9 DEF CachedFrames, Mapping1, JustUnmapped, Unmapped, Working
<1>14. WalksInv'
  BY <1>2, <1>4, <1>5, <1>7 DEF WalksInv, Unmapped, Working, Flushed, At
<1>15. CurrentOrDue'
  BY <1>2, <1>4, <1>7, <1>8, <1>9 DEF CurrentOrDue, Due, Excused, Changing, Invalidated, At, Working, Flushed, RootOf, TypeInv, TypeOK, Root, CallType
<1>16. StaleFrames'
  <2>1. SUFFICES ASSUME NEW s \in stale'
                 PROVE  tables'[s.root][s.page] # None /\ tables'[s.root][s.page].frame = s.entry.frame
    BY DEF StaleFrames
  <2>2. CASE s \in stale
    <3>1. s.root \in Root /\ s.page \in Page /\ tables[s.root][s.page] # None /\ tables[s.root][s.page].frame = s.entry.frame
      BY <1>2, <2>2 DEF StaleFrames, Unmapped, TypeInv, TypeOK
    <3> QED
      BY <1>3, <1>9, <3>1
  <2>3. CASE s = [root |-> call.root, page |-> p, entry |-> old]
    BY <1>2, <1>3, <1>9, <2>3
  <2> QED
    BY <1>4, <2>2, <2>3
<1>17. StalePages'
  <2>1. SUFFICES ASSUME NEW s \in stale', s.page \notin owed
                 PROVE  s.page \in Changing' /\ Pending(s.page)'
    BY <1>4 DEF StalePages
  <2>2. s.page \in call.first .. p
    <3>1. CASE s \in stale
      <4>1. Pending(s.page)
        BY <2>1, <3>1 DEF StalePages
      <4>2. s.page \in call.first .. (p - 1)
        BY <1>2, <4>1 DEF Pending, At, Working, Invalidated
      <4> QED
        BY <1>2, <4>2 DEF CallType
    <3>2. CASE s = [root |-> call.root, page |-> p, entry |-> old]
      BY <1>2, <3>2 DEF CallType
    <3> QED
      BY <1>4, <3>1, <3>2
  <2>3. s.page \in call.first .. (call.end - 1) /\ (p + 1) - 1 = p
    BY <1>2, <2>2 DEF CallType
  <2>4. s.page \in Changing'
    BY <1>7, <2>3 DEF Changing
  <2>5. Pending(s.page)'
    BY <1>7, <2>2, <2>3 DEF Pending, At, Working
  <2> QED
    BY <2>4, <2>5
<1> QED
  BY <1>10, <1>11, <1>12, <1>13, <1>14, <1>15, <1>16, <1>17

(* A call that ends in its loop; one that failed leaves what it changed to *)
(* the caller.                                                             *)
LEMMA EndStep ==
  ASSUME Instance, IInv, vmm_allocate_fails \/ pt_protect_fails \/ Return PROVE IInv'
<1> USE DEF IInv, FramesInv
<1>1. /\ UNCHANGED <<tables, free, ttbr0, switched, tlb, walks, late, doomed, stale, strayed>> /\ call' = Idle
      /\ call.op \in {"allocate", "free", "protect"} /\ call.step = "store"
      /\ \/ call.op # "protect" /\ owed' = owed
         \/ call.op = "protect" /\ owed' = owed \cup (call.first .. (call.next - 1))
  BY DEF vmm_allocate_fails, pt_protect_fails, Return, Storing, hardware
<1>2. call \in CallType /\ call # Idle /\ doomed = {}
  BY <1>1 DEF TypeInv, Instance, Idle, Ops, FlushInv, At
<1>3. call.first .. (call.next - 1) \subseteq Page
  BY <1>1, <1>2 DEF CallInv, Working, PagesOf, Page, CallType
<1>4. TypeInv'
  BY <1>1, <1>3 DEF TypeInv, TypeOK
<1>5. CallInv' /\ AllocInv' /\ FlushInv' /\ OneEntry' /\ MappedNotFree' /\ BetweenNotFree'
  BY <1>1, <1>2 DEF CallInv, AllocInv, FlushInv, OneEntry, MappedNotFree, BetweenNotFree, Working, At, Unmapped
<1>6. CachedFrames' /\ WalksInv'
  BY <1>1, <1>2 DEF CachedFrames, Mapping1, JustUnmapped, WalksInv, Unmapped, Working, Flushed, At
<1>7. CurrentOrDue'
  BY <1>1, <1>2 DEF CurrentOrDue, Due, Excused, Changing, Invalidated, At, Working, Flushed, RootOf
<1>8. StaleFrames'
  BY <1>1, <1>2 DEF StaleFrames, Unmapped
<1>9. StalePages'
  BY <1>1, <1>2 DEF StalePages, Pending, Changing, At, Working, Invalidated
<1> QED
  BY <1>4, <1>5, <1>6, <1>7, <1>8, <1>9

LEMMA SkipStep == ASSUME Instance, IInv, vmm_free_skips PROVE IInv'
<1> USE DEF IInv, FramesInv
<1>1. /\ UNCHANGED <<tables, free, ttbr0, switched, owed, tlb, walks, late, doomed, stale, strayed>>
      /\ Storing("free") /\ call' = [call EXCEPT !.next = @ + 1]
  BY DEF vmm_free_skips, hardware
<1>2. call \in CallType /\ call # Idle /\ call.op = "free" /\ call.step = "store" /\ call.next < call.end
  BY <1>1, AtPage
<1>3. /\ call' \in CallType /\ call' # Idle /\ call'.op = "free" /\ call'.step = "store"
      /\ call'.root = call.root /\ call'.first = call.first /\ call'.next = call.next + 1 /\ call'.end = call.end
  BY <1>1, <1>2 DEF CallType, Idle, Instance, Ops
<1>4. TypeInv'
  BY <1>1, <1>3 DEF TypeInv, TypeOK
<1>5. CallInv' /\ AllocInv' /\ FlushInv'
  BY <1>1, <1>2, <1>3 DEF CallInv, AllocInv, FlushInv, Working, At, CallType, PagesOf
<1>6. OneEntry' /\ MappedNotFree' /\ BetweenNotFree' /\ CachedFrames' /\ WalksInv'
  BY <1>1, <1>2, <1>3 DEF OneEntry, MappedNotFree, BetweenNotFree, CachedFrames, Mapping1, JustUnmapped, WalksInv, Unmapped, Working, Flushed, At
<1>7. CurrentOrDue'
  BY <1>1, <1>2, <1>3 DEF CurrentOrDue, Due, Excused, Changing, FlushInv, Invalidated, At, Working, Flushed, RootOf
<1>8. StaleFrames'
  BY <1>1, <1>2 DEF StaleFrames, Unmapped
<1>9. StalePages'
  BY <1>1, <1>2 DEF StalePages, Pending, At, Working, Invalidated
<1> QED
  BY <1>4, <1>5, <1>6, <1>7, <1>8, <1>9

-----------------------------------------------------------------------------
(* TLBI and DSB                                                            *)

LEMMA FlushAllStep == ASSUME Instance, IInv, tlbi_vmalle1is PROVE IInv'
<1> USE DEF IInv, FramesInv
<1>1. /\ UNCHANGED <<tables, free, ttbr0, switched, owed, stale, strayed>>
      /\ call.op # None /\ call.step = "tlbi" /\ call' = [call EXCEPT !.step = "dsb", !.left = {}]
      /\ walks' = [h \in Half |-> None] /\ Everything(call)
      /\ \/ tlb' = [p \in Page |-> None] /\ late' = late \ Page /\ doomed' = doomed
         \/ doomed' = doomed \cup {p \in Page : tlb[p] # None} /\ UNCHANGED <<tlb, late>>
  BY DEF tlbi_vmalle1is, Drops
<1>2. call \in CallType /\ call # Idle
  BY <1>1 DEF TypeInv, Idle
<1>3. /\ call' \in CallType /\ call' # Idle /\ call'.step = "dsb" /\ call'.left = {}
      /\ call'.op = call.op /\ call'.root = call.root /\ call'.flags = call.flags /\ call'.first = call.first
      /\ call'.next = call.next /\ call'.end = call.end /\ call'.frame = call.frame
      /\ RangeOf(call') = RangeOf(call) /\ Everything(call') = Everything(call)
  <2>1. call' \in CallType /\ call'.step = "dsb" /\ call'.left = {}
    BY <1>1, <1>2 DEF CallType, Steps
  <2>2. /\ call'.op = call.op /\ call'.root = call.root /\ call'.flags = call.flags /\ call'.first = call.first
        /\ call'.next = call.next /\ call'.end = call.end /\ call'.frame = call.frame
    BY <1>1, <1>2 DEF CallType
  <2>3. RangeOf(call') = RangeOf(call)
    BY <2>2 DEF RangeOf
  <2>4. Everything(call') = Everything(call)
    BY <2>2, <2>3 DEF Everything
  <2>5. call' # Idle
    BY <1>1, <2>2 DEF Idle
  <2> QED
    BY <2>1, <2>2, <2>3, <2>4, <2>5
<1>4. TypeInv'
  BY <1>1, <1>3 DEF TypeInv, TypeOK, Mapping
<1>5. CallInv' /\ AllocInv' /\ FlushInv'
  BY <1>1, <1>2, <1>3 DEF CallInv, AllocInv, FlushInv, Working, At, PagesOf
<1>6. OneEntry' /\ MappedNotFree' /\ BetweenNotFree'
  BY <1>1, <1>2, <1>3 DEF OneEntry, MappedNotFree, BetweenNotFree, Unmapped, Working
<1>7. CachedFrames' /\ CurrentOrDue'
  BY <1>1, <1>2, <1>3 DEF CachedFrames, Mapping1, JustUnmapped, Unmapped, Working, CurrentOrDue, Due, Excused, Changing, RootOf
<1>8. WalksInv'
  BY <1>1, <1>2, <1>3 DEF WalksInv, Half, Instance
<1>9. StaleFrames'
  BY <1>1, <1>2, <1>3 DEF StaleFrames, Unmapped, Working
<1>10. StalePages'
  <2>1. Changing' = Changing
    BY <1>2, <1>3 DEF Changing
  <2>2. \A p : Pending(p)'
    BY <1>1, <1>3 DEF Pending, Invalidated
  <2> QED
    BY <1>1, <2>1, <2>2 DEF StalePages
<1> QED
  BY <1>4, <1>5, <1>6, <1>7, <1>8, <1>9, <1>10

LEMMA FlushPageStep == ASSUME Instance, IInv, tlbi_page PROVE IInv'
<1> USE DEF IInv, FramesInv
<1>1. PICK p \in call.left :
        /\ Drops({p})
        /\ walks' = IF p \in Upper THEN [walks EXCEPT !["upper"] = None] ELSE walks
        /\ call' = [call EXCEPT !.left = @ \ {p}, !.step = IF call.left = {p} THEN "dsb" ELSE "tlbi"]
  BY DEF tlbi_page
<1>2. /\ UNCHANGED <<tables, free, ttbr0, switched, owed, stale, strayed>>
      /\ call.op # None /\ call.step = "tlbi" /\ ~Everything(call)
  BY DEF tlbi_page
<1>3. call \in CallType /\ call # Idle
  BY <1>2 DEF TypeInv, Idle
<1> DEFINE left == call.left \ {p}
           step == IF call.left = {p} THEN "dsb" ELSE "tlbi"
<1>4. /\ call' \in CallType /\ call' # Idle /\ call'.step = step /\ call'.left = left
      /\ call'.op = call.op /\ call'.root = call.root /\ call'.flags = call.flags /\ call'.first = call.first
      /\ call'.next = call.next /\ call'.end = call.end /\ call'.frame = call.frame
      /\ RangeOf(call') = RangeOf(call) /\ Everything(call') = Everything(call)
  <2>1. call' = [call EXCEPT !.step = step, !.left = left]
    BY <1>1, <1>3 DEF CallType
  <2>2. step \in Steps /\ left \in SUBSET Int
    BY <1>3 DEF CallType, Steps
  <2> HIDE DEF step, left
  <2>3. call' \in CallType /\ call'.step = step /\ call'.left = left
    BY <1>3, <2>1, <2>2 DEF CallType
  <2>4. /\ call'.op = call.op /\ call'.root = call.root /\ call'.flags = call.flags /\ call'.first = call.first
        /\ call'.next = call.next /\ call'.end = call.end /\ call'.frame = call.frame
    BY <1>3, <2>1 DEF CallType
  <2>5. RangeOf(call') = RangeOf(call)
    BY <2>4 DEF RangeOf
  <2>6. Everything(call') = Everything(call)
    BY <2>4, <2>5 DEF Everything
  <2>7. call' # Idle
    BY <1>2, <2>4 DEF Idle
  <2> QED
    BY <2>3, <2>4, <2>5, <2>6, <2>7
<1>5. p \in RangeOf(call) /\ p \in Page
  <2>1. p \in RangeOf(call)
    BY <1>2, <1>3 DEF FlushInv, At
  <2>2. RangeOf(call) \subseteq Page
    BY <1>2, <1>3 DEF CallInv, RangeOf, Working, CallType, Ops, PagesOf, Page
  <2> QED
    BY <2>1, <2>2
<1>6. /\ \A q \in Page : tlb'[q] # None => tlb'[q] = tlb[q] /\ (q = p => p \in doomed') /\ (q \in late => q \in late')
      /\ doomed' = doomed \/ doomed' = doomed \cup {p}
      /\ late' \subseteq late
  <2>1. {q \in {p} : tlb[q] # None} = IF tlb[p] # None THEN {p} ELSE {}
    OBVIOUS
  <2> QED
    BY <1>1, <1>5, <2>1 DEF Drops, TypeInv, TypeOK
<1>7. TypeInv'
  BY <1>1, <1>2, <1>4, <1>5 DEF TypeInv, TypeOK, Mapping, Drops, Half
<1>8. CallInv' /\ AllocInv'
  BY <1>2, <1>3, <1>4 DEF CallInv, AllocInv, Working, PagesOf
<1>9. FlushInv'
  BY <1>2, <1>3, <1>4 DEF FlushInv, At
<1>10. OneEntry' /\ MappedNotFree' /\ BetweenNotFree'
  BY <1>2, <1>3, <1>4 DEF OneEntry, MappedNotFree, BetweenNotFree, Unmapped, Working
<1>11. Unmapped => call.left = {call.next} /\ p = call.next /\ step = "dsb"
  BY <1>2, <1>3 DEF Unmapped, Working, FlushInv, At
<1>12. CachedFrames'
  BY <1>2, <1>3, <1>4, <1>6, <1>11 DEF CachedFrames, Mapping1, JustUnmapped, Unmapped, Working
<1>13. WalksInv'
  BY <1>1, <1>2, <1>3, <1>4, <1>11 DEF WalksInv, Unmapped, Working, Flushed, At, TypeInv, TypeOK, Half, Instance
<1>14. CurrentOrDue'
  <2>1. SUFFICES ASSUME NEW q \in Page, tlb'[q] # None, q \notin late'
                 PROVE  tlb'[q] = tables'[RootOf(q)'][q] \/ (Due(q)' /\ Excused(q)')
    BY DEF CurrentOrDue
  <2>2. tlb[q] = tables[RootOf(q)][q] \/ (Due(q) /\ Excused(q))
    BY <1>6, <2>1 DEF CurrentOrDue
  <2>3. RootOf(q)' = RootOf(q) /\ Excused(q)' = Excused(q)
    BY <1>2, <1>3, <1>4 DEF RootOf, Excused, Changing
  <2>4. CASE q = p
    BY <1>2, <1>6, <2>1, <2>2, <2>3, <2>4 DEF Due
  <2>5. CASE q # p
    <3>1. (Invalidated(q)' => Invalidated(q)) /\ ~Flushed' /\ (q \in call.left => At({"tlbi"})' /\ q \in call'.left)
      BY <1>2, <1>3, <1>4, <2>5 DEF Invalidated, At, Flushed, FlushInv
    <3>2. Due(q) => Due(q)'
      BY <1>2, <1>3, <1>4, <1>6, <3>1 DEF Due, Working
    <3> QED
      BY <1>2, <1>6, <2>1, <2>2, <2>3, <3>2
  <2> QED
    BY <2>4, <2>5
<1>15. StaleFrames'
  BY <1>2, <1>3, <1>4 DEF StaleFrames, Unmapped, Working
<1>16. StalePages'
  <2>1. Changing' = Changing
    BY <1>2, <1>3, <1>4 DEF Changing
  <2>2. ASSUME NEW q, q \in Changing, Pending(q) PROVE Pending(q)'
    <3>1. q \in call.left \/ Invalidated(q)
      BY <1>2, <2>2 DEF Pending, At
    <3>2. CASE q = p
      BY <1>4, <1>5, <3>2 DEF Pending, Invalidated
    <3>3. CASE q # p
      BY <1>2, <1>3, <1>4, <3>1, <3>3 DEF Pending, Invalidated, At
    <3> QED
      BY <3>2, <3>3
  <2> QED
    BY <1>2, <2>1, <2>2 DEF StalePages
<1> QED
  BY <1>7, <1>8, <1>9, <1>10, <1>12, <1>13, <1>14, <1>15, <1>16

LEMMA DsbStep == ASSUME Instance, IInv, dsb PROVE IInv'
<1> USE DEF IInv, FramesInv
<1>1. /\ UNCHANGED <<tables, free, ttbr0, walks, strayed>>
      /\ call.op # None /\ call.step = "dsb"
      /\ tlb' = [p \in Page |-> IF p \in doomed THEN None ELSE tlb[p]]
      /\ late' = late \ doomed /\ doomed' = {} /\ stale' = {}
      /\ owed' = IF Everything(call) THEN {} ELSE owed \ RangeOf(call)
      /\ switched' = (switched /\ ~Everything(call))
      /\ call' = After(call)
  BY DEF dsb
<1>2. call \in CallType /\ call # Idle
  BY <1>1 DEF TypeInv, Idle
<1>3. StaleFrames' /\ StalePages'
  BY <1>1 DEF StaleFrames, StalePages
<1>4. CASE call.op \in {"allocate", "free"}
  <2>1. /\ call' \in CallType /\ call' # Idle /\ call'.op = call.op /\ call'.root = call.root /\ call'.flags = call.flags
        /\ call'.first = call.first /\ call'.end = call.end /\ call'.frame = call.frame
        /\ \/ call.op = "allocate" /\ call'.step = "store" /\ call'.next = call.next + 1
           \/ call.op = "free" /\ call'.step = "release" /\ call'.next = call.next
    <3>1. CASE call.op = "allocate"
      <4>1. call' = [call EXCEPT !.step = "store", !.next = @ + 1]
        BY <1>1, <3>1 DEF After
      <4> DEFINE n == call.next + 1
      <4>2. n \in Int /\ call' = [call EXCEPT !.step = "store", !.next = n]
        BY <1>2, <4>1 DEF CallType
      <4> HIDE DEF n
      <4>3. call' \in CallType /\ call'.step = "store" /\ call'.next = n
        BY <1>2, <4>2 DEF CallType, Steps
      <4>4. /\ call'.op = call.op /\ call'.root = call.root /\ call'.flags = call.flags
            /\ call'.first = call.first /\ call'.end = call.end /\ call'.frame = call.frame
        BY <1>2, <4>2 DEF CallType
      <4> QED
        BY <1>1, <3>1, <4>3, <4>4 DEF Idle, n
    <3>2. CASE call.op = "free"
      <4>1. call' = [call EXCEPT !.step = "release"]
        BY <1>1, <3>2 DEF After
      <4> QED
        BY <1>2, <3>2, <4>1 DEF CallType, Steps, Idle, Instance, Ops
    <3> QED
      BY <1>4, <3>1, <3>2
  <2>2. TypeInv'
    BY <1>1, <2>1 DEF TypeInv, TypeOK, Mapping
  <2>3. CallInv' /\ AllocInv' /\ FlushInv'
    BY <1>1, <1>2, <1>4, <2>1 DEF CallInv, AllocInv, FlushInv, Working, At, PagesOf, CallType
  <2>4. OneEntry' /\ MappedNotFree' /\ BetweenNotFree'
    BY <1>1, <1>2, <1>4, <2>1 DEF OneEntry, MappedNotFree, BetweenNotFree, Unmapped, Working
  <2>5. CachedFrames'
    BY <1>1, <1>2, <1>4, <2>1 DEF CachedFrames, Mapping1, JustUnmapped, Unmapped, Working
  <2>6. WalksInv'
    BY <1>1, <1>2, <1>4, <2>1 DEF WalksInv, Unmapped, Working, Flushed, At, TypeInv, TypeOK
  <2>7. CurrentOrDue'
    BY <1>1, <1>2, <1>4, <2>1 DEF CurrentOrDue, Due, Excused, Changing, Invalidated, At, Working, Flushed, RootOf, TypeInv, TypeOK
  <2> QED
    BY <1>3, <2>2, <2>3, <2>4, <2>5, <2>6, <2>7
<1>5. CASE call.op \in {"protect", "sync", "flush"}
  <2>1. call' = Idle
    BY <1>1, <1>5 DEF After
  <2>2. TypeInv'
    BY <1>1, <2>1 DEF TypeInv, TypeOK, Mapping
  <2>3. CallInv' /\ AllocInv' /\ FlushInv' /\ OneEntry' /\ MappedNotFree' /\ BetweenNotFree'
    BY <1>1, <2>1 DEF CallInv, AllocInv, FlushInv, OneEntry, MappedNotFree, BetweenNotFree, Unmapped, Working, At
  <2>4. CachedFrames'
    BY <1>1, <1>2, <1>5, <2>1 DEF CachedFrames, Mapping1, JustUnmapped, Unmapped, Working
  <2>5. WalksInv'
    BY <1>1, <1>2, <1>5, <2>1 DEF WalksInv, Unmapped, Working, Flushed, At, TypeInv, TypeOK
  <2>6. CurrentOrDue'
    BY <1>1, <1>2, <1>5, <2>1 DEF CurrentOrDue, Due, Excused, Changing, Invalidated, At, Working, Flushed, RootOf, TypeInv, TypeOK
  <2> QED
    BY <1>3, <2>2, <2>3, <2>4, <2>5, <2>6
<1> QED
  BY <1>2, <1>4, <1>5 DEF CallType, Ops

-----------------------------------------------------------------------------
(* The theorems                                                            *)

LEMMA InitInv == ASSUME Instance, Init PROVE IInv
<1>1. TypeInv
  BY DEF Init, TypeInv, TypeOK, Mapping, Half
<1>2. CallInv /\ AllocInv /\ FlushInv
  BY DEF Init, CallInv, AllocInv, FlushInv, Working, At
<1>3. OneEntry /\ MappedNotFree /\ BetweenNotFree /\ CachedFrames /\ StaleFrames /\ StalePages
  BY DEF Init, OneEntry, MappedNotFree, BetweenNotFree, CachedFrames, StaleFrames, StalePages, Unmapped, Working
<1>4. WalksInv /\ CurrentOrDue
  BY DEF Init, WalksInv, CurrentOrDue, Half, Instance
<1> QED
  BY <1>1, <1>2, <1>3, <1>4 DEF IInv, FramesInv

LEMMA NextInv == ASSUME Instance, IInv, [Next]_vars PROVE IInv'
<1>1. CASE UNCHANGED vars
  <2>1. UNCHANGED <<tables, stale, free, ttbr0, tlb, walks, late, call, doomed, switched, owed, strayed>>
    BY <1>1 DEF vars, kernel, hardware
  <2>2. TypeInv' /\ CallInv' /\ AllocInv' /\ FlushInv' /\ OneEntry' /\ MappedNotFree' /\ BetweenNotFree'
    BY <2>1 DEF IInv, FramesInv, TypeInv, TypeOK, CallInv, AllocInv, FlushInv, OneEntry, MappedNotFree, BetweenNotFree, Unmapped,
       Working, At, RangeOf, PagesOf
  <2>3. CachedFrames' /\ WalksInv'
    BY <2>1 DEF IInv, FramesInv, CachedFrames, Mapping1, JustUnmapped, Unmapped, Working, WalksInv, Flushed, At, Everything, RangeOf
  <2>4. StaleFrames' /\ StalePages'
    BY <2>1 DEF IInv, FramesInv, StaleFrames, StalePages, Pending, Changing, Invalidated, Everything, Working, At, Unmapped, RangeOf
  <2>5. CurrentOrDue'
    BY <2>1, ZenonT(60) DEF IInv, CurrentOrDue, Due, Excused, Changing, Invalidated, RootOf, Working, Flushed, At, Everything, RangeOf
  <2> QED
    BY <2>2, <2>3, <2>4, <2>5 DEF IInv, FramesInv
<1>2. CASE Client
  BY <1>2, ClientStep
<1>3. CASE Kernel
  BY <1>3, AllocateStep, EndStep, FreeStep, SkipStep, ReleaseStep, ProtectStep, FlushAllStep, FlushPageStep, DsbStep DEF Kernel
<1>4. CASE Hardware
  BY <1>4, FillStep, EvictStep, ForgetStep DEF Hardware
<1> QED
  BY <1>1, <1>2, <1>3, <1>4 DEF Next

(* A walk goes astray in the upper half only if it found the table between *)
(* the TLBIs of the call that released it and their DSB.                   *)
LEMMA StrayStep == ASSUME IInv, StrayInv, [Next]_vars PROVE StrayInv'
<1>1. CASE strayed # {}
  BY <1>1 DEF Next, vars, hardware, StrayInv
<1>2. CASE strayed = {} /\ strayed' = strayed
  BY <1>2 DEF StrayInv
<1>3. CASE strayed = {} /\ strayed' # strayed
  <2>1. PICK h \in Half : Stray(h)
    <3>1. Client => UNCHANGED strayed
      BY DEF Client, vmm_activate, Request, hardware
    <3>2. Kernel => UNCHANGED strayed
      BY DEF Kernel, vmm_allocate, vmm_allocate_fails, vmm_free, vmm_free_skips, pmm_release, pt_protect, pt_protect_fails,
         tlbi_vmalle1is, tlbi_page, dsb, Return, Store, hardware
    <3>3. Hardware => UNCHANGED strayed \/ \E h \in Half : Stray(h)
      BY DEF Hardware, Fill, Evict, Forget
    <3>4. Client \/ Kernel \/ Hardware
      BY <1>3 DEF Next, vars, hardware
    <3> QED
      BY <1>3, <3>1, <3>2, <3>3, <3>4
  <2>2. walks[h] = "late" \/ (h = "lower" /\ walks[h] = "released")
    BY <2>1 DEF Stray, IInv, WalksInv, Unmapped, Working, Half
  <2> QED
    BY <1>3, <2>1, <2>2 DEF Stray, StrayInv
<1> QED
  BY <1>1, <1>2, <1>3

LEMMA Invariance == ASSUME Instance PROVE Spec => [](IInv /\ StrayInv)
<1>1. Init => IInv /\ StrayInv
  BY InitInv DEF Init, StrayInv
<1>2. IInv /\ StrayInv /\ [Next]_vars => (IInv /\ StrayInv)'
  BY NextInv, StrayStep
<1> QED
  BY <1>1, <1>2, PTL DEF Spec

(* No frame is released while a translation to it is cached, but one that a*)
(* walk read after the TLBI of its page from an entry already overwritten: *)
(* vmm_free unmaps and invalidates before pmm_release.                     *)
THEOREM Unreached == ASSUME Instance PROVE Spec => []FreeFramesUnreached
<1>1. IInv /\ StrayInv => FreeFramesUnreached
  BY DEF IInv, FramesInv, FreeFramesUnreached, CachedFrames, Mapping1, MappedNotFree, JustUnmapped, BetweenNotFree
<1> QED
  BY <1>1, Invariance, PTL

(* pt_invalidate names all that a call changed: no translation that was    *)
(* cached before the TLBI of its page outlives the call that changed it.   *)
THEOREM Current == ASSUME Instance PROVE Spec => []CachedIsCurrent
<1>1. IInv /\ StrayInv => CachedIsCurrent
  <2>1. SUFFICES ASSUME IInv, StrayInv PROVE CachedIsCurrent
    OBVIOUS
  <2> QED
    BY <2>1 DEF IInv, FramesInv, TypeInv, StrayInv, CurrentOrDue, Excused, CachedIsCurrent, UpToDate
<1> QED
  BY <1>1, Invariance, PTL
=============================================================================
