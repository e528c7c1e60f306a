-------------------------- MODULE VirtioBlkProofs --------------------------
(***************************************************************************)
(* Every request to the block device is done once, between the call and    *)
(* the answer, and no descriptor is lost or used twice, for queues of any  *)
(* size, indices that wrap at any number, and any order in which the driver*)
(* and the device take their steps.                                        *)
(***************************************************************************)
EXTENDS VirtioBlk, WellFoundedInduction, TLAPS

Cell == Value \cup {None, Pattern}
Asked == [type : {"IN", "OUT"}, sector : Nat, data : Seq(Cell)]

(* What a buffer holds before the device has filled it.                    *)
Prepared(r) == IF r.type = "IN" THEN [r.data EXCEPT ![1] = Pattern] ELSE r.data

-----------------------------------------------------------------------------
(* The invariant                                                           *)

(* The records keep their fields.                                          *)
Shapes ==
  /\ call = [request |-> call.request, descs |-> call.descs, buffer |-> call.buffer,
             status |-> call.status, done |-> call.done]
  /\ q = [size |-> q.size, free_head |-> q.free_head, last_used_idx |-> q.last_used_idx,
          desc |-> q.desc, avail_idx |-> q.avail_idx, avail |-> q.avail,
          used_idx |-> q.used_idx, used |-> q.used]
  /\ device = [notified |-> device.notified, seen |-> device.seen,
               chain |-> device.chain, served |-> device.served]

(* Disk and buffer hold what they may, and a buffer the device has not     *)
(* touched what the driver put there.                                      *)
Contents ==
  /\ disk \in [0 .. (Capacity - 1) -> Cell]
  /\ call.done \in BOOLEAN
  /\ call.request # None =>
       /\ call.request \in Request
       /\ call.buffer \in Seq(Cell)
       /\ ~call.done => call.buffer = Prepared(call.request)

(* Nothing is in the queue.                                                *)
Quiet ==
  /\ {q.avail_idx, q.used_idx, device.seen} = {q.last_used_idx}
  /\ device.chain = Nil /\ ~device.served

(* One request is in the queue: offered, taken, done, or reported.  Only   *)
(* in the last case do the driver's two indices differ.                    *)
InQueue ==
  /\ q.avail_idx = (q.last_used_idx + 1) % IdxBound
  /\ \/ /\ device.seen = q.last_used_idx /\ q.used_idx = q.last_used_idx
        /\ device.chain = Nil /\ ~device.served /\ ~call.done
     \/ /\ device.seen = q.avail_idx /\ q.used_idx = q.last_used_idx
        /\ ~device.served /\ ~call.done
     \/ /\ device.seen = q.avail_idx /\ q.used_idx = q.last_used_idx
        /\ device.served /\ call.done
     \/ /\ device.seen = q.avail_idx /\ q.used_idx = q.avail_idx
        /\ device.chain = Nil /\ ~device.served /\ call.done

(* Where the driver is tells what the queue holds.                         *)
Handshake ==
  /\ at \in {"find", "init", "create", "down", "idle", "allocate", "build", "publish", "notify", "poll"}
  /\ at \in {"find", "init", "create"} => q = NoQueue
  /\ at \in {"find", "init", "create", "down", "idle"} => call.request = None /\ Quiet
  /\ at \in {"allocate", "build", "publish"} => call.request # None /\ ~call.done /\ Quiet
  /\ at \in {"notify", "poll"} => call.request # None /\ InQueue

IInv == Shapes /\ Contents /\ Handshake

-----------------------------------------------------------------------------
(* Data                                                                    *)

(* Least elements.                                                         *)
LEMMA Least ==
  ASSUME NEW S \in SUBSET Nat, S # {}
  PROVE  \E x \in S : \A y \in S : x <= y
<1> DEFINE lt == OpToRel(<, Nat)
<1>1. \E x \in S : \A y \in S : <<y, x>> \notin lt
  <2>1. IsWellFoundedOn(lt, Nat)
    BY NatLessThanWellFounded
  <2> HIDE DEF lt
  <2>2. QED
    BY <2>1, WFMin
<1>2. \A x, y \in Nat : <<y, x>> \notin lt => x <= y
  BY DEF OpToRel
<1>3. QED
  <2> HIDE DEF lt
  <2>1. QED
    BY <1>1, <1>2

LEMMA MinIn ==
  ASSUME NEW S \in SUBSET Nat, S # {}
  PROVE  Min(S) \in S /\ \A x \in S : Min(S) <= x
<1>1. \E x \in S : \A y \in S : x <= y
  BY Least
<1>2. QED
  BY <1>1 DEF Min

LEMMA MinOfValue == Min(Value) \in Value
BY VirtioAssumption, MinIn

LEMMA RequestType ==
  ASSUME NEW r \in Request
  PROVE  /\ r \in Asked /\ r # None
         /\ r = [type |-> r.type, sector |-> r.sector, data |-> r.data]
         /\ r.type \in {"IN", "OUT"} /\ r.sector \in Nat
         /\ r.data \in Seq(Cell) /\ Len(r.data) \in Nat /\ DOMAIN r.data = 1 .. Len(r.data)
         /\ \A k \in 1 .. Len(r.data) : r.data[k] \in Cell
<1>1. r \in [type : {"IN", "OUT"}, sector : Nat, data : Seq(Value \cup {None})]
  BY VirtioAssumption
<1>2. r.data \in Seq(Value \cup {None}) /\ r.type \in {"IN", "OUT"} /\ r.sector \in Nat
      /\ r = [type |-> r.type, sector |-> r.sector, data |-> r.data]
  BY <1>1
<1>3. Len(r.data) \in Nat /\ DOMAIN r.data = 1 .. Len(r.data)
      /\ \A k \in 1 .. Len(r.data) : r.data[k] \in Cell
  BY <1>2 DEF Cell
<1>4. r.data \in Seq(Cell)
  BY <1>2 DEF Cell
<1>5. r \in Asked
  BY <1>2, <1>4 DEF Asked
<1>6. r # None
  BY <1>5, NoneAssumption DEF Asked, Cell
<1>7. QED
  BY <1>2, <1>3, <1>4, <1>5, <1>6

LEMMA PreparedType ==
  ASSUME NEW r \in Request
  PROVE  Prepared(r) \in Seq(Cell)
<1>1. /\ r.data \in Seq(Cell) /\ Len(r.data) \in Nat /\ DOMAIN r.data = 1 .. Len(r.data)
      /\ \A k \in 1 .. Len(r.data) : r.data[k] \in Cell
  BY RequestType
<1>2. [r.data EXCEPT ![1] = Pattern] \in [1 .. Len(r.data) -> Cell]
  BY <1>1 DEF Cell
<1>3. [r.data EXCEPT ![1] = Pattern] \in Seq(Cell)
  BY <1>1, <1>2
<1>4. QED
  BY <1>1, <1>3 DEF Prepared

-----------------------------------------------------------------------------
(* The invariant holds initially and is kept                               *)

LEMMA InitInv == Init => IInv
<1> SUFFICES ASSUME Init PROVE IInv
  OBVIOUS
<1>1. Shapes
  BY DEF Init, Shapes, NoCall, NoQueue
<1>2. Contents
  BY MinOfValue DEF Init, Contents, NoCall, Cell
<1>3. Handshake
  BY DEF Init, Handshake, NoCall, NoQueue, Quiet
<1>4. QED
  BY <1>1, <1>2, <1>3 DEF IInv

(* A call that is refused leaves the queue's indices alone.                *)
LEMMA RefuseInv ==
  ASSUME IInv, at \in {"down", "idle", "allocate"}, Refuse, Shapes',
         q'.avail_idx = q.avail_idx, q'.used_idx = q.used_idx, q'.last_used_idx = q.last_used_idx,
         device'.seen = device.seen, device'.chain = device.chain, device'.served = device.served
  PROVE  IInv'
<1>1. Contents'
  BY DEF IInv, Contents, Refuse, NoCall
<1>2. Handshake'
  BY DEF IInv, Handshake, Refuse, NoCall, Quiet
<1>3. QED
  BY <1>1, <1>2 DEF IInv

LEMMA BeginInv ==
  ASSUME IInv, at = "idle", NEW r \in Request, Begin(r, Prepared(r))
  PROVE  IInv'
<1>1. CASE Refuse /\ UNCHANGED <<q, device>>
  <2>1. Shapes'
    BY <1>1 DEF IInv, Shapes, Begin, Refuse, NoCall
  <2>2. QED
    BY <1>1, <2>1, RefuseInv
<1>2. CASE ~(Refuse /\ UNCHANGED <<q, device>>)
  <2>1. /\ call' = [NoCall EXCEPT !.request = r, !.buffer = Prepared(r)]
        /\ at' = "allocate" /\ UNCHANGED <<q, disk, device>>
    BY <1>2 DEF Begin
  <2>2. Shapes'
    BY <2>1 DEF IInv, Shapes, NoCall
  <2>3. Contents'
    BY <2>1, PreparedType DEF IInv, Contents, NoCall
  <2>4. Handshake'
    BY <2>1, RequestType DEF IInv, Handshake, NoCall, Quiet
  <2>5. QED
    BY <2>2, <2>3, <2>4 DEF IInv
<1>3. QED
  BY <1>1, <1>2

LEMMA ClientInv == ASSUME IInv, Client PROVE IInv'
<1>1. ASSUME at \in {"down", "idle"}, Refuse, UNCHANGED <<q, pages, device>>
      PROVE  IInv'
  <2>1. Shapes'
    BY <1>1 DEF IInv, Shapes, Refuse, NoCall
  <2>2. QED
    BY <1>1, <2>1, RefuseInv
<1>2. ASSUME NEW r \in Request, virtio_blk_read(r)
      PROVE  IInv'
  BY <1>1, <1>2, BeginInv DEF virtio_blk_read, Prepared
<1>3. ASSUME NEW r \in Request, virtio_blk_write(r)
      PROVE  IInv'
  BY <1>1, <1>3, BeginInv DEF virtio_blk_write, Prepared
<1>4. QED
  BY <1>2, <1>3 DEF Client

(* Starting leaves an empty queue, or none.                                *)
LEMMA StartInv ==
  ASSUME IInv, FindDevice \/ virtio_mmio_common_init \/ virtio_blk_create
  PROVE  IInv'
<1>1. CASE at' # "idle"
  <2>1. /\ at \in {"find", "init", "create"} /\ at' \in {"down", "init", "create"}
        /\ UNCHANGED <<q, call, disk, device>>
    BY <1>1 DEF FindDevice, virtio_mmio_common_init, virtio_blk_create, Down
  <2>2. QED
    BY <2>1 DEF IInv, Shapes, Contents, Handshake, Quiet
<1>2. CASE at' = "idle"
  <2>1. /\ at = "create" /\ at' = "idle" /\ UNCHANGED <<call, disk, device>>
        /\ \E n : q' = virtio_setup_queue(n)
    BY <1>2 DEF FindDevice, virtio_mmio_common_init, virtio_blk_create, Down
  <2>2. /\ q' = [size |-> q'.size, free_head |-> q'.free_head, last_used_idx |-> q'.last_used_idx,
                 desc |-> q'.desc, avail_idx |-> q'.avail_idx, avail |-> q'.avail,
                 used_idx |-> q'.used_idx, used |-> q'.used]
        /\ q'.avail_idx = 0 /\ q'.used_idx = 0 /\ q'.last_used_idx = 0
    BY <2>1 DEF virtio_setup_queue, NoQueue
  <2>3. q.avail_idx = 0 /\ q.used_idx = 0 /\ q.last_used_idx = 0
    BY <2>1 DEF IInv, Handshake, NoQueue
  <2>4. Shapes'
    BY <2>1, <2>2 DEF IInv, Shapes
  <2>5. Contents'
    BY <2>1 DEF IInv, Contents
  <2>6. Handshake'
    BY <2>1, <2>2, <2>3 DEF IInv, Handshake, Quiet
  <2>7. QED
    BY <2>4, <2>5, <2>6 DEF IInv
<1>3. QED
  BY <1>1, <1>2

(* A step on the way of a request into the queue.                          *)
LEMMA SubmitInv ==
  ASSUME IInv, Allocate \/ Build \/ Publish \/ Notify
  PROVE  IInv'
<1>1. CASE Allocate
  <2>1. CASE Refuse
    <3>1. Shapes' /\ q'.avail_idx = q.avail_idx /\ q'.used_idx = q.used_idx
          /\ q'.last_used_idx = q.last_used_idx /\ at = "allocate"
          /\ device'.seen = device.seen /\ device'.chain = device.chain /\ device'.served = device.served
      BY <1>1, <2>1 DEF IInv, Shapes, Allocate, Advance, Refuse, Renotify, NoCall
    <3>2. QED
      BY <2>1, <3>1, RefuseInv
  <2>2. CASE ~Refuse
    <3>1. /\ at = "allocate" /\ at' = "build" /\ UNCHANGED <<disk, device>>
          /\ \E descs : call' = [call EXCEPT !.descs = descs]
          /\ \E head : q' = [q EXCEPT !.free_head = head]
      BY <1>1, <2>2 DEF Allocate, Advance, After
    <3>2. Shapes' /\ Contents'
      BY <3>1 DEF IInv, Shapes, Contents
    <3>3. Handshake'
      BY <3>1 DEF IInv, Shapes, Handshake, Quiet
    <3>4. QED
      BY <3>2, <3>3 DEF IInv
  <2>3. QED
    BY <2>1, <2>2
<1>2. CASE Build
  <2>1. /\ at = "build" /\ at' = "publish" /\ UNCHANGED <<call, disk, device>>
    BY <1>2 DEF Build, Advance, After
  <2>2. \E desc, avail : q' = [q EXCEPT !.desc = desc, !.avail = avail]
    <3> DEFINE d == call.descs
               direction == IF call.request.type = "IN" THEN {"NEXT", "WRITE"} ELSE {"NEXT"}
               desc == [[[q.desc EXCEPT ![d[1]] = [addr |-> "req", flags |-> {"NEXT"}, next |-> d[2]]]
                           EXCEPT ![d[2]] = [addr |-> "data", flags |-> direction, next |-> d[3]]]
                           EXCEPT ![d[3]] = [addr |-> "status", flags |-> {"WRITE"}, next |-> 0]]
               avail == [q.avail EXCEPT ![q.avail_idx % q.size] = d[1]]
    <3>1. q' = [q EXCEPT !.desc = desc, !.avail = avail]
      BY <1>2 DEF IInv, Shapes, Build
    <3>2. QED
      BY <3>1
  <2>3. QED
    BY <2>1, <2>2 DEF IInv, Shapes, Contents, Handshake, Quiet
<1>3. CASE Publish
  <2>1. /\ at = "publish" /\ at' = "notify" /\ UNCHANGED <<call, disk, device>>
        /\ q' = [q EXCEPT !.avail_idx = (@ + 1) % IdxBound]
    BY <1>3 DEF Publish, Advance, After
  <2>2. Shapes' /\ Contents'
    BY <2>1 DEF IInv, Shapes, Contents
  <2>3. Handshake'
    BY <2>1 DEF IInv, Shapes, Handshake, Quiet, InQueue
  <2>4. QED
    BY <2>2, <2>3 DEF IInv
<1>4. CASE Notify
  <2>1. /\ at = "notify" /\ at' = "poll" /\ UNCHANGED <<call, q, disk>>
        /\ device' = [device EXCEPT !.notified = TRUE]
    BY <1>4 DEF Notify, Advance, After
  <2>2. QED
    BY <2>1 DEF IInv, Shapes, Contents, Handshake, InQueue
<1>5. QED
  BY <1>1, <1>2, <1>3, <1>4

(* The driver takes a request out of the queue once it is reported.        *)
LEMMA CompleteInv ==
  ASSUME IInv, Complete
  PROVE  /\ call.request # None /\ call.done
         /\ IInv'
<1>1. /\ at = "poll" /\ q.used_idx # q.last_used_idx
      /\ call' = NoCall /\ at' = "idle" /\ UNCHANGED disk
      /\ \E n : device' = [device EXCEPT !.notified = n]
      /\ \E desc, head : q' = [q EXCEPT !.free_head = head, !.desc = desc, !.last_used_idx = (@ + 1) % IdxBound]
  BY DEF IInv, Shapes, Complete, Renotify, Freed
<1>2. /\ call.request # None /\ call.done
      /\ q.avail_idx = (q.last_used_idx + 1) % IdxBound /\ q.used_idx = q.avail_idx
      /\ device.seen = q.avail_idx /\ device.chain = Nil /\ ~device.served
  BY <1>1 DEF IInv, Handshake, InQueue
<1>3. Shapes' /\ Contents'
  BY <1>1 DEF IInv, Shapes, Contents, NoCall
<1>4. Handshake'
  BY <1>1, <1>2 DEF IInv, Shapes, Handshake, NoCall, Quiet
<1>5. QED
  BY <1>2, <1>3, <1>4 DEF IInv

(* The device looks into the queue, or reports: it does not touch requests.*)
LEMMA DeviceInv ==
  ASSUME IInv, DeviceLook \/ DeviceReport
  PROVE  IInv'
<1>1. CASE DeviceLook
  <2>1. UNCHANGED <<at, call, q, disk>> /\ device.chain = Nil
    BY <1>1 DEF DeviceLook
  <2>2. CASE q.avail_idx = device.seen
    <3>1. device' = [device EXCEPT !.notified = FALSE]
      BY <1>1, <2>2 DEF DeviceLook
    <3>2. QED
      BY <2>1, <3>1 DEF IInv, Shapes, Contents, Handshake, Quiet, InQueue
  <2>3. CASE q.avail_idx # device.seen
    <3>1. \E d : device' = [device EXCEPT !.chain = d, !.seen = (@ + 1) % IdxBound]
      BY <1>1, <2>3 DEF DeviceLook
    <3>2. Shapes' /\ Contents'
      BY <2>1, <3>1 DEF IInv, Shapes, Contents
    <3>3. Handshake'
      BY <2>1, <2>3, <3>1 DEF IInv, Shapes, Handshake, Quiet, InQueue
    <3>4. QED
      BY <3>2, <3>3 DEF IInv
  <2>4. QED
    BY <2>2, <2>3
<1>2. CASE DeviceReport
  <2>1. /\ UNCHANGED <<at, call, disk>> /\ device.served
        /\ device' = [device EXCEPT !.chain = Nil, !.served = FALSE]
        /\ \E used : q' = [q EXCEPT !.used = used, !.used_idx = (@ + 1) % IdxBound]
    BY <1>2 DEF IInv, Shapes, DeviceReport
  <2>2. Shapes' /\ Contents'
    BY <2>1 DEF IInv, Shapes, Contents
  <2>3. Handshake'
    BY <2>1 DEF IInv, Shapes, Handshake, NoQueue, Quiet, InQueue
  <2>4. QED
    BY <2>2, <2>3 DEF IInv
<1>3. QED
  BY <1>1, <1>2

(* The device serves a request that is in the queue and not done.          *)
LEMMA ServeInv ==
  ASSUME IInv, DeviceServe
  PROVE  /\ call.request # None /\ ~call.done
         /\ call' = [call EXCEPT !.status = call'.status, !.done = TRUE, !.buffer = call'.buffer]
         /\ call'.buffer \in Seq(Cell)
         /\ IInv'
<1> DEFINE r == call.request
<1>1. at \in {"notify", "poll"} /\ ~call.done /\ r # None /\ r \in Request
  BY DEF IInv, Contents, DeviceServe, Handshake, Quiet, InQueue
<1>2. /\ UNCHANGED <<at, q>> /\ device' = [device EXCEPT !.served = TRUE]
  BY DEF DeviceServe
<1>0. ASSUME call'.request # None, call'.done PROVE Handshake'
  BY <1>0, <1>1, <1>2 DEF IInv, Shapes, Handshake, DeviceServe, InQueue
<1>3. /\ r.data \in Seq(Cell) /\ Len(r.data) \in Nat /\ DOMAIN r.data = 1 .. Len(r.data) /\ r.sector \in Nat
      /\ \A k \in 1 .. Len(r.data) : r.data[k] \in Cell
  BY <1>1, RequestType
<1>4. CASE ~(Sectors(r) \subseteq DOMAIN disk)
  <2>1. call' = [call EXCEPT !.status = 1, !.done = TRUE] /\ disk' = disk
    BY <1>4 DEF DeviceServe
  <2>2. call'.buffer = call.buffer /\ call'.status = 1
        /\ call' = [call EXCEPT !.status = call'.status, !.done = TRUE, !.buffer = call'.buffer]
    BY <2>1 DEF IInv, Shapes
  <2>3. Shapes' /\ Contents' /\ call'.request # None /\ call'.done
    BY <1>1, <1>2, <2>1, <2>2 DEF IInv, Shapes, Contents
  <2>4. QED
    BY <1>0, <1>1, <2>2, <2>3 DEF IInv, Contents
<1>5. CASE Sectors(r) \subseteq DOMAIN disk /\ r.type = "IN"
  <2> DEFINE read == [k \in DOMAIN r.data |-> disk[r.sector + k - 1]]
  <2>1. call' = [call EXCEPT !.status = 0, !.done = TRUE, !.buffer = read] /\ disk' = disk
    BY <1>5 DEF DeviceServe
  <2>2. read \in Seq(Cell)
    <3>1. \A k \in 1 .. Len(r.data) : r.sector + k - 1 \in Sectors(r)
      BY <1>3 DEF Sectors
    <3>2. \A k \in 1 .. Len(r.data) : disk[r.sector + k - 1] \in Cell
      BY <1>5, <3>1 DEF IInv, Contents
    <3>3. read \in [1 .. Len(r.data) -> Cell]
      BY <1>3, <3>2
    <3>4. QED
      BY <1>3, <3>3
  <2>3. call'.buffer = read /\ call'.status = 0
        /\ call' = [call EXCEPT !.status = call'.status, !.done = TRUE, !.buffer = call'.buffer]
    BY <2>1 DEF IInv, Shapes
  <2>4. Shapes' /\ Contents' /\ call'.request # None /\ call'.done
    BY <1>1, <1>2, <2>1, <2>2, <2>3 DEF IInv, Shapes, Contents
  <2>5. QED
    BY <1>0, <1>1, <2>2, <2>3, <2>4 DEF IInv
<1>6. CASE Sectors(r) \subseteq DOMAIN disk /\ r.type = "OUT"
  <2>1. /\ call' = [call EXCEPT !.status = 0, !.done = TRUE]
        /\ disk' = [s \in DOMAIN disk |-> IF s \in Sectors(r) THEN r.data[s - r.sector + 1] ELSE disk[s]]
    BY <1>6 DEF DeviceServe
  <2>2. call'.buffer = call.buffer /\ call'.status = 0
        /\ call' = [call EXCEPT !.status = call'.status, !.done = TRUE, !.buffer = call'.buffer]
    BY <2>1 DEF IInv, Shapes
  <2>3. disk' \in [0 .. (Capacity - 1) -> Cell]
    <3>1. \A s \in Sectors(r) : r.data[s - r.sector + 1] \in Cell
      BY <1>3 DEF Sectors
    <3>2. DOMAIN disk = 0 .. (Capacity - 1) /\ \A s \in DOMAIN disk : disk[s] \in Cell
      BY DEF IInv, Contents
    <3>3. QED
      BY <2>1, <3>1, <3>2
  <2>4. Shapes' /\ Contents' /\ call'.request # None /\ call'.done
    BY <1>1, <1>2, <2>1, <2>2, <2>3 DEF IInv, Shapes, Contents
  <2>5. QED
    BY <1>0, <1>1, <2>2, <2>4 DEF IInv, Contents
<1>7. QED
  BY <1>1, <1>4, <1>5, <1>6, RequestType

LEMMA NextInv == IInv /\ [Next]_vars => IInv'
<1> SUFFICES ASSUME IInv, [Next]_vars PROVE IInv'
  OBVIOUS
<1>1. CASE UNCHANGED vars
  BY <1>1 DEF vars, IInv, Shapes, Contents, Handshake, Quiet, InQueue
<1>2. CASE Driver
  BY <1>1, <1>2, StartInv, SubmitInv, CompleteInv DEF Driver, Poll
<1>3. CASE Client
  BY <1>3, ClientInv
<1>4. CASE Device
  BY <1>4, DeviceInv, ServeInv DEF Device
<1>5. QED
  BY <1>1, <1>2, <1>3, <1>4 DEF Next

(* Requests go through the queue one at a time and in order.               *)
THEOREM Invariance == Spec => []IInv
BY InitInv, NextInv, PTL DEF Spec

-----------------------------------------------------------------------------
(* The refinement                                                          *)

Pend == IF call.request = None THEN None
        ELSE [request |-> [call.request EXCEPT !.data = IF call.done THEN call.buffer ELSE @],
              done |-> call.done]
PromiseStep == Promise!Next \/ UNCHANGED <<disk, Pend, ret>>

(* A request under way is not None, and looks as the abstract one does.    *)
LEMMA PendFacts ==
  ASSUME IInv, call.request # None
  PROVE  /\ Pend # None
         /\ Pend.done = call.done
         /\ ~call.done => Pend = [request |-> call.request, done |-> FALSE]
         /\ call.done => /\ Pend = [request |-> [call.request EXCEPT !.data = call.buffer], done |-> TRUE]
                         /\ Pend.request.data = call.buffer
<1> DEFINE r == call.request
           d == IF call.done THEN call.buffer ELSE r.data
<1>1. r \in Request /\ call.done \in BOOLEAN /\ call.buffer \in Seq(Cell)
  BY DEF IInv, Contents
<1>2. /\ r = [type |-> r.type, sector |-> r.sector, data |-> r.data]
      /\ r.type \in {"IN", "OUT"} /\ r.sector \in Nat /\ r.data \in Seq(Cell)
  BY <1>1, RequestType
<1>3. Pend = [request |-> [r EXCEPT !.data = d], done |-> call.done]
  BY DEF Pend
<1>4. [r EXCEPT !.data = d] = [type |-> r.type, sector |-> r.sector, data |-> d]
  BY <1>2
<1>5. [r EXCEPT !.data = d] \in Asked
  BY <1>1, <1>2, <1>4 DEF Asked
<1>6. Pend \in [request : Asked, done : BOOLEAN]
  BY <1>1, <1>3, <1>5
<1>7. Pend # None
  BY <1>6, NoneAssumption DEF Asked, Cell
<1>8. QED
  BY <1>1, <1>2, <1>3, <1>4, <1>7

(* A request is marked as done.                                            *)
LEMMA DoneRecord ==
  ASSUME NEW x, NEW y, NEW before, NEW after, y = [request |-> x, done |-> before]
  PROVE  [y EXCEPT !.done = after] = [request |-> x, done |-> after]
OBVIOUS

LEMMA InitPromises == Init => Promise!Init
BY DEF Init, NoCall, Promise!Init

(* A refused call, whether it has begun or not, ends undone.               *)
LEMMA RefuseIsRefuse ==
  ASSUME IInv, at \in {"down", "idle", "allocate"}, Refuse
  PROVE  PromiseStep
<1>1. Pend = None \/ (Pend # None /\ ~Pend.done)
  <2>1. CASE call.request = None
    BY <2>1 DEF Pend
  <2>2. CASE call.request # None
    BY <2>2, PendFacts DEF IInv, Handshake
  <2>3. QED
    BY <2>1, <2>2
<1>2. Pend' = None /\ ret' = <<>> /\ UNCHANGED disk
  BY DEF Refuse, NoCall, Pend
<1>3. Promise!Refuse
  BY <1>1, <1>2 DEF Promise!Refuse, Pend
<1>4. QED
  BY <1>3 DEF PromiseStep, Promise!Next

LEMMA BeginIsCall ==
  ASSUME IInv, at = "idle", NEW r \in Request, NEW buffer, Begin(r, buffer)
  PROVE  PromiseStep
<1>1. CASE Refuse
  BY <1>1, RefuseIsRefuse
<1>2. CASE ~Refuse
  <2>1. call' = [NoCall EXCEPT !.request = r, !.buffer = buffer] /\ UNCHANGED <<ret, disk>>
    BY <1>2 DEF Begin
  <2>2. call'.request = r /\ call'.done = FALSE
    BY <2>1 DEF NoCall
  <2>3. r # None /\ [r EXCEPT !.data = r.data] = r
    BY RequestType
  <2>4. Pend' = [request |-> r, done |-> FALSE]
    BY <2>2, <2>3 DEF Pend
  <2>5. Pend = None
    BY DEF IInv, Handshake, Pend
  <2>6. Promise!Call(r)
    BY <2>1, <2>4, <2>5 DEF Promise!Call, Pend
  <2>7. QED
    BY <2>6 DEF PromiseStep, Promise!Next
<1>3. QED
  BY <1>1, <1>2

(* The device does what was asked: the rest of a call changes nothing a    *)
(* client can see.                                                         *)
LEMMA ServeIsPerform ==
  ASSUME IInv, DeviceServe
  PROVE  PromiseStep
<1> DEFINE r == call.request
<1>1. /\ r # None /\ ~call.done /\ r \in Request
      /\ call' = [call EXCEPT !.status = call'.status, !.done = TRUE, !.buffer = call'.buffer]
      /\ call.buffer = Prepared(r) /\ ret' = ret
      /\ IInv'
  BY ServeInv DEF IInv, Contents, DeviceServe
<1>2. call'.request = r /\ call'.done = TRUE
  BY <1>1 DEF IInv, Shapes
<1>3. Pend # None /\ Pend = [request |-> r, done |-> FALSE]
  BY <1>1, PendFacts
<1>4. Pend' = [request |-> [r EXCEPT !.data = call'.buffer], done |-> TRUE]
  BY <1>1, <1>2 DEF Pend
<1> DEFINE a == Pend.request
<1>0. a = r /\ ~Pend.done
  BY <1>3
<1>5. r = [type |-> r.type, sector |-> r.sector, data |-> r.data] /\ r.type \in {"IN", "OUT"}
  BY <1>1, RequestType
<1>6. Promise!Sectors(r) = Sectors(r)
  BY DEF Promise!Sectors, Sectors
<1>7. CASE ~(Sectors(r) \subseteq DOMAIN disk)
  <2>1. call' = [call EXCEPT !.status = 1, !.done = TRUE] /\ disk' = disk
    BY <1>7 DEF DeviceServe
  <2>2. call'.buffer = Prepared(r)
    BY <1>1, <2>1 DEF IInv, Shapes
  <2>3. [r EXCEPT !.data = Prepared(r)] = IF r.type = "IN" THEN [r EXCEPT !.data[1] = Pattern] ELSE r
    BY <1>5 DEF Prepared
  <2>4. Pend' = [request |-> IF a.type = "IN" THEN [a EXCEPT !.data[1] = Pattern] ELSE a, done |-> TRUE]
    BY <1>0, <1>4, <2>2, <2>3
  <2>5. ~(Promise!Sectors(a) \subseteq DOMAIN disk)
    BY <1>0, <1>6, <1>7
  <2>6. Promise!Perform
    BY <1>0, <1>1, <1>3, <2>1, <2>4, <2>5 DEF Promise!Perform, Pend
  <2>7. QED
    BY <2>6 DEF PromiseStep, Promise!Next
<1>8. CASE Sectors(r) \subseteq DOMAIN disk /\ r.type = "IN"
  <2> DEFINE read == [k \in DOMAIN r.data |-> disk[r.sector + k - 1]]
  <2>1. call' = [call EXCEPT !.status = 0, !.done = TRUE, !.buffer = read] /\ disk' = disk
    BY <1>8 DEF DeviceServe
  <2>2. call'.buffer = read
    BY <2>1 DEF IInv, Shapes
  <2>3. Pend' = [request |-> [a EXCEPT !.data = [k \in DOMAIN a.data |-> disk[a.sector + k - 1]]], done |-> TRUE]
    BY <1>0, <1>4, <2>2
  <2>4. a.type = "IN" /\ Promise!Sectors(a) \subseteq DOMAIN disk
    BY <1>0, <1>6, <1>8
  <2>5. Promise!Perform
    BY <1>0, <1>1, <1>3, <2>1, <2>3, <2>4 DEF Promise!Perform, Pend
  <2>6. QED
    BY <2>5 DEF PromiseStep, Promise!Next
<1>9. CASE Sectors(r) \subseteq DOMAIN disk /\ r.type = "OUT"
  <2>1. /\ call' = [call EXCEPT !.status = 0, !.done = TRUE]
        /\ disk' = [s \in DOMAIN disk |-> IF s \in Sectors(r) THEN r.data[s - r.sector + 1] ELSE disk[s]]
    BY <1>9 DEF DeviceServe
  <2>2. call'.buffer = r.data
    BY <1>1, <1>9, <2>1 DEF IInv, Shapes, Prepared
  <2>3. Pend' = [Pend EXCEPT !.done = TRUE]
    <3>1. [r EXCEPT !.data = r.data] = r
      BY <1>1, RequestType
    <3>2. [Pend EXCEPT !.done = TRUE] = [request |-> r, done |-> TRUE]
      BY <1>3, DoneRecord, Zenon
    <3>3. QED
      BY <1>4, <2>2, <3>1, <3>2
  <2>4. Promise!Perform
    BY <1>1, <1>3, <1>6, <1>9, <2>1, <2>3 DEF Promise!Perform, Pend
  <2>5. QED
    BY <2>4 DEF PromiseStep, Promise!Next
<1>10. QED
  BY <1>5, <1>7, <1>8, <1>9

LEMMA CompleteIsFinish ==
  ASSUME IInv, Complete
  PROVE  PromiseStep
<1>1. call.request # None /\ call.done
  BY CompleteInv
<1>2. ret' = call.buffer /\ call' = NoCall /\ disk' = disk
  BY DEF Complete
<1>3. Pend # None /\ Pend.done /\ Pend.request.data = call.buffer
  BY <1>1, PendFacts
<1>4. Pend' = None
  BY <1>2 DEF Pend, NoCall
<1>5. Promise!Finish
  BY <1>2, <1>3, <1>4 DEF Promise!Finish, Pend
<1>6. QED
  BY <1>5 DEF PromiseStep, Promise!Next

LEMMA NextPromises == IInv /\ [Next]_vars => PromiseStep
<1> SUFFICES ASSUME IInv, [Next]_vars PROVE PromiseStep
  OBVIOUS
<1>1. ASSUME UNCHANGED <<call, disk, ret>>
      PROVE  PromiseStep
  BY <1>1 DEF PromiseStep, Pend
<1>2. CASE UNCHANGED vars
  BY <1>1, <1>2 DEF vars
<1>3. CASE Allocate
  <2>1. CASE Refuse
    BY <1>3, <2>1, RefuseIsRefuse DEF Allocate
  <2>2. CASE ~Refuse
    <3>1. /\ UNCHANGED <<disk, ret>>
          /\ \E descs : call' = [call EXCEPT !.descs = descs]
      BY <1>3, <2>2 DEF Allocate, Advance
    <3>2. call'.request = call.request /\ call'.done = call.done /\ call'.buffer = call.buffer
      BY <3>1 DEF IInv, Shapes
    <3>3. QED
      BY <3>1, <3>2 DEF PromiseStep, Pend
  <2>3. QED
    BY <2>1, <2>2
<1>4. CASE Complete
  BY <1>4, CompleteIsFinish
<1>5. CASE FindDevice \/ virtio_mmio_common_init \/ virtio_blk_create \/ Build \/ Publish \/ Notify \/ Poll
  BY <1>1, <1>5 DEF FindDevice, virtio_mmio_common_init, virtio_blk_create, Down, Build, Publish,
                    Notify, Poll, Advance, vars
<1>6. ASSUME NEW r \in Request, virtio_blk_read(r) \/ virtio_blk_write(r)
      PROVE  PromiseStep
  BY <1>6, RefuseIsRefuse, BeginIsCall DEF virtio_blk_read, virtio_blk_write
<1>7. CASE DeviceLook \/ DeviceReport
  BY <1>1, <1>7 DEF DeviceLook, DeviceReport
<1>8. CASE DeviceServe
  BY <1>8, ServeIsPerform
<1>9. QED
  BY <1>2, <1>3, <1>4, <1>5, <1>6, <1>7, <1>8 DEF Next, Driver, Client, Device

(* The driver and the device together are a block device: each call is     *)
(* done once, before its answer and not before it is made.                 *)
THEOREM Implementation == Spec => ImplementsBlockDevice
<1>1. Init => Promise!Init
  BY InitPromises
<1>2. IInv /\ [Next]_vars => [Promise!Next]_(Promise!vars)
  BY NextPromises DEF PromiseStep, Pend, Promise!vars
<1>3. QED
  BY <1>1, <1>2, Invariance, PTL DEF Spec, ImplementsBlockDevice, Promise!Spec

-----------------------------------------------------------------------------
(* The descriptors: following links                                        *)

LEMMA SameSequence ==
  ASSUME NEW a \in Seq(Int), NEW b \in Seq(Int), NEW n, Len(a) = n, Len(b) = n,
         \A k \in 1 .. n : a[k] = b[k]
  PROVE  a = b
OBVIOUS

Extended(links, s) == IF s[Len(s)] \in DOMAIN links THEN Append(s, links[s[Len(s)]]) ELSE s
Trace(links, d) ==
  CHOOSE f : f = [n \in 0 .. q.size |-> IF n = 0 THEN <<d>> ELSE Extended(links, f[n - 1])]

LEMMA FollowIsTrace ==
  ASSUME NEW links, NEW d
  PROVE  Follow(links, d) = Trace(links, d)[q.size]
BY DEF Follow, Trace, Extended

(* What a sequence of links leads along is found by following them.        *)
LEMMA FollowIs ==
  ASSUME NEW links, NEW len \in Nat \ {0}, NEW s \in [1 .. len -> Int],
         \A k \in 1 .. (len - 1) : s[k] \in DOMAIN links /\ links[s[k]] = s[k + 1],
         s[len] \notin DOMAIN links,
         q.size \in Nat, len <= q.size + 1
  PROVE  Follow(links, s[1]) = s
<1> DEFINE d == s[1]
           m(n) == IF n + 1 <= len THEN n + 1 ELSE len
           g == [n \in 0 .. q.size |-> [k \in 1 .. m(n) |-> s[k]]]
           Right(f) == f = [n \in 0 .. q.size |-> IF n = 0 THEN <<d>> ELSE Extended(links, f[n - 1])]
<1>1. ASSUME NEW n \in 0 .. q.size
      PROVE  /\ m(n) \in 1 .. len
             /\ g[n] \in Seq(Int) /\ Len(g[n]) = m(n) /\ \A k \in 1 .. m(n) : g[n][k] = s[k]
  <2>1. m(n) \in 1 .. len /\ m(n) \in Nat
    OBVIOUS
  <2> HIDE DEF m
  <2>2. g[n] = [k \in 1 .. m(n) |-> s[k]]
    OBVIOUS
  <2>3. \A k \in 1 .. m(n) : s[k] \in Int
    BY <2>1
  <2>4. QED
    BY <2>1, <2>2, <2>3
<1>2. ASSUME NEW n \in 0 .. q.size
      PROVE  g[n] = IF n = 0 THEN <<d>> ELSE Extended(links, g[n - 1])
  <2>1. CASE n = 0
    <3>1. m(n) = 1
      BY <2>1
    <3>2. g[n] \in Seq(Int) /\ Len(g[n]) = 1 /\ g[n][1] = s[1]
      BY <1>1, <3>1
    <3> HIDE DEF g
    <3>3. QED
      BY <2>1, <3>2
  <2>2. CASE n # 0
    <3>1. n - 1 \in 0 .. q.size
      BY <2>2
    <3> DEFINE t == g[n - 1]
    <3>2. t \in Seq(Int) /\ Len(t) = m(n - 1) /\ \A k \in 1 .. m(n - 1) : t[k] = s[k]
      BY <1>1, <3>1
    <3>3. g[n] \in Seq(Int) /\ Len(g[n]) = m(n) /\ \A k \in 1 .. m(n) : g[n][k] = s[k]
      BY <1>1
    <3>4. CASE n + 1 <= len
      <4>1. m(n - 1) = n /\ m(n) = n + 1 /\ n \in 1 .. (len - 1)
        BY <2>2, <3>4
      <4> HIDE DEF g, m, t
      <4>2. t[Len(t)] = s[n] /\ s[n] \in DOMAIN links /\ links[s[n]] = s[n + 1]
        BY <3>2, <4>1
      <4>3. Extended(links, t) = Append(t, s[n + 1]) /\ s[n + 1] \in Int
        BY <4>1, <4>2 DEF Extended
      <4>4. g[n] = Append(t, s[n + 1])
        <5>1. /\ Append(t, s[n + 1]) \in Seq(Int) /\ Len(Append(t, s[n + 1])) = n + 1
              /\ \A k \in 1 .. n : Append(t, s[n + 1])[k] = s[k]
              /\ Append(t, s[n + 1])[n + 1] = s[n + 1]
          BY <3>2, <4>1, <4>3, SMTT(30)
        <5>2. \A k \in 1 .. (n + 1) : g[n][k] = Append(t, s[n + 1])[k]
          <6>1. \A k \in 1 .. (n + 1) : g[n][k] = s[k]
            BY <3>3, <4>1
          <6>2. ASSUME NEW k \in 1 .. (n + 1) PROVE g[n][k] = Append(t, s[n + 1])[k]
            <7>1. CASE k = n + 1
              BY <5>1, <6>1, <7>1
            <7>2. CASE k # n + 1
              <8>1. k \in 1 .. n
                BY <7>2
              <8>2. QED
                BY <5>1, <6>1, <8>1
            <7>3. QED
              BY <7>1, <7>2
          <6>3. QED
            BY <6>2
        <5>3. g[n] \in Seq(Int) /\ Len(g[n]) = n + 1
          BY <3>3, <4>1
        <5>4. QED
          BY <5>1, <5>2, <5>3, SameSequence, ZenonT(60)
      <4>5. QED
        BY <2>2, <4>3, <4>4 DEF t
    <3>5. CASE ~(n + 1 <= len)
      <4>1. m(n - 1) = len /\ m(n) = len
        BY <3>5, <2>2
      <4> HIDE DEF g, m, t
      <4>2. t[Len(t)] \notin DOMAIN links
        BY <3>2, <4>1
      <4>3. g[n] = t
        BY <3>2, <3>3, <4>1
      <4>4. QED
        BY <2>2, <4>2, <4>3 DEF Extended, t
    <3>6. QED
      BY <3>4, <3>5
  <2>3. QED
    BY <2>1, <2>2
<1>3. Right(g)
  <2>1. g = [n \in 0 .. q.size |-> g[n]]
    OBVIOUS
  <2> HIDE DEF g
  <2>2. QED
    BY <2>1, <1>2
<1>4. Right(Trace(links, d))
  <2> HIDE DEF g
  <2>1. \E f : Right(f)
    BY <1>3
  <2>2. QED
    BY <2>1 DEF Trace
<1> DEFINE f == Trace(links, d)
<1>5. ASSUME NEW n \in 0 .. q.size
      PROVE  f[n] = IF n = 0 THEN <<d>> ELSE Extended(links, f[n - 1])
  <2> HIDE DEF f
  <2>1. f = [i \in 0 .. q.size |-> IF i = 0 THEN <<d>> ELSE Extended(links, f[i - 1])]
    BY <1>4 DEF f
  <2>2. QED
    BY <2>1, Zenon
<1>6. \A n \in 0 .. q.size : f[n] = g[n]
  <2> DEFINE Bad == {n \in 0 .. q.size : f[n] # g[n]}
  <2>1. SUFFICES ASSUME Bad # {} PROVE FALSE
    OBVIOUS
  <2>2. Bad \in SUBSET Nat
    OBVIOUS
  <2>3. PICK n \in Bad : \A y \in Bad : n <= y
    <3> HIDE DEF Bad
    <3>1. QED
      BY <2>1, <2>2, Least
  <2>4. n \in 0 .. q.size /\ f[n] # g[n]
    BY <2>3
  <2> HIDE DEF f, g
  <2>5. n # 0
    BY <2>4, <1>2, <1>5
  <2>6. n - 1 \in 0 .. q.size /\ ~(n <= n - 1)
    BY <2>4, <2>5
  <2>7. f[n - 1] = g[n - 1]
    BY <2>3, <2>6
  <2>8. QED
    BY <2>4, <2>5, <2>7, <1>2, <1>5
<1>7. g[q.size] = s
  <2>1. m(q.size) = len /\ q.size \in 0 .. q.size
    OBVIOUS
  <2> HIDE DEF m
  <2>2. g[q.size] = [k \in 1 .. m(q.size) |-> s[k]]
    BY <2>1
  <2>3. QED
    BY <2>1, <2>2
<1>8. QED
  <2> HIDE DEF g
  <2>1. q.size \in 0 .. q.size
    OBVIOUS
  <2>2. f[q.size] = s
    BY <1>6, <1>7, <2>1
  <2>3. QED
    BY <2>2, FollowIsTrace

-----------------------------------------------------------------------------
(* The invariant about the descriptors.                                    *)

Descriptor == [addr : {None, "req", "data", "status"}, flags : SUBSET {"NEXT", "WRITE"}, next : Int]
Indices == 0 .. (IdxBound - 1)

Sizes ==
  /\ bus \in Setups /\ (at \in {"init", "create"} => dev.base \in DOMAIN bus)
  /\ pages \in 0 .. Pages /\ (at \in {"find", "init", "create"} => pages = Pages)
  /\ q.size \in 0 .. Nil /\ (q.size > 0 <=> at \notin {"find", "init", "create", "down"})
  /\ q.desc \in [0 .. (q.size - 1) -> Descriptor]
  /\ q.avail \in [0 .. (q.size - 1) -> Int] /\ q.used \in [0 .. (q.size - 1) -> Int]
  /\ {q.avail_idx, q.used_idx, q.last_used_idx, device.seen} \subseteq Indices

(* The list of free descriptors is list.                                   *)
IsFreeList(list, n, desc, head) ==
  /\ list \in [1 .. n -> DOMAIN desc]
  /\ \A j, k \in 1 .. n : list[j] = list[k] => j = k
  /\ head = IF n = 0 THEN Nil ELSE list[1]
  /\ \A k \in 1 .. n : desc[list[k]].next = IF k = n THEN Nil ELSE list[k + 1]

(* With room for a request each descriptor is in list or among descs, once;*)
(* without, no request ever gets three.                                    *)
Shared(list, n, desc, descs) ==
  /\ \A k \in 1 .. n, j \in DOMAIN descs : list[k] # descs[j]
  /\ q.size < 3 => n < 3
  /\ q.size >= 3 =>
       /\ n + Len(descs) = q.size
       /\ \A d \in DOMAIN desc : \/ \E k \in 1 .. n : list[k] = d
                                 \/ \E j \in DOMAIN descs : descs[j] = d

Remaining ==
  q.size > 0 => \E n \in Nat : \E list \in [1 .. n -> DOMAIN q.desc] :
    IsFreeList(list, n, q.desc, q.free_head) /\ Shared(list, n, q.desc, call.descs)

(* The request under way has its descriptors from "build" on.              *)
Taken ==
  /\ at \notin {"build", "publish", "notify", "poll"} => call.descs = <<>>
  /\ at \in {"build", "publish", "notify", "poll"} =>
       \E a, b, c \in DOMAIN q.desc :
         call.descs = <<a, b, c>> /\ a # b /\ b # c /\ a # c /\ q.size >= 3

Direction(r) == IF r.type = "IN" THEN {"NEXT", "WRITE"} ELSE {"NEXT"}

(* The chain of the request, and the ring that names it to the device.     *)
Built ==
  LET d == call.descs IN
  /\ q.desc[d[1]] = [addr |-> "req", flags |-> {"NEXT"}, next |-> d[2]]
  /\ q.desc[d[2]] = [addr |-> "data", flags |-> Direction(call.request), next |-> d[3]]
  /\ q.desc[d[3]] = [addr |-> "status", flags |-> {"WRITE"}, next |-> 0]
  /\ q.avail[q.last_used_idx % q.size] = d[1]

(* The device has this chain if it has one, and names it when it is done.  *)
Offered ==
  /\ at \in {"publish", "notify", "poll"} => Built
  /\ at \in {"notify", "poll"} =>
       /\ device.chain \in {Nil, call.descs[1]}
       /\ device.served => device.chain # Nil
       /\ call.done /\ ~device.served => q.used[q.last_used_idx % q.size] = call.descs[1]

QInv == Sizes /\ Remaining /\ Taken /\ Offered

-----------------------------------------------------------------------------
(* Starting                                                                *)

LEMMA NilType == Nil \in Nat
BY DEF Nil

LEMMA InitQueue == Init => QInv
<1> SUFFICES ASSUME Init PROVE QInv
  OBVIOUS
<1>1. q.size = 0 /\ q.desc = <<>> /\ q.avail = <<>> /\ q.used = <<>>
      /\ q.avail_idx = 0 /\ q.used_idx = 0 /\ q.last_used_idx = 0
  BY DEF Init, NoQueue
<1>2. /\ q.desc \in [0 .. (q.size - 1) -> Descriptor]
      /\ q.avail \in [0 .. (q.size - 1) -> Int] /\ q.used \in [0 .. (q.size - 1) -> Int]
  BY <1>1
<1>3. bus \in Setups /\ at = "find" /\ pages = Pages /\ device.seen = 0 /\ call.descs = <<>>
  BY DEF Init, NoCall
<1>4. Sizes
  BY <1>1, <1>2, <1>3, SizesAssumption, NilType DEF Sizes, Indices
<1>5. QED
  BY <1>1, <1>3, <1>4 DEF QInv, Remaining, Taken, Offered

(* What is found is on the bus.                                            *)
LEMMA FoundIsOnBus ==
  ASSUME bus \in Setups, NEW id, find_virtio_device(id) # 0
  PROVE  find_virtio_device(id) \in DOMAIN bus
<1> DEFINE found == {b \in DOMAIN bus : bus[b].magic /\ bus[b].id = id}
<1>1. DOMAIN bus = 1 .. Len(bus) /\ Len(bus) \in Nat
  BY SizesAssumption
<1>2. found \in SUBSET Nat /\ found \subseteq DOMAIN bus
  BY <1>1
<1>3. find_virtio_device(id) = IF found = {} THEN 0 ELSE Min(found)
  BY DEF find_virtio_device
<1> HIDE DEF found
<1>4. found # {}
  BY <1>3
<1>5. QED
  BY <1>2, <1>3, <1>4, MinIn

(* Nothing the invariant is about changes but where the driver is.         *)
LEMMA StillStarting ==
  ASSUME QInv, UNCHANGED <<bus, q, call, device>>, pages' \in 0 .. Pages,
         at \in {"find", "init", "create", "down"}, at' \in {"find", "init", "create", "down"},
         at' \in {"init", "create"} => dev'.base \in DOMAIN bus',
         at' \in {"find", "init", "create"} => pages' = Pages
  PROVE  QInv'
<1>1. Sizes'
  BY DEF QInv, Sizes, Indices
<1>2. q.size = 0
  BY DEF QInv, Sizes
<1>3. QED
  BY <1>1, <1>2 DEF QInv, Remaining, Taken, Offered

(* A new queue lists all its descriptors as free.                          *)
LEMMA NewQueue ==
  ASSUME NEW m \in 1 .. Nil, q' = virtio_setup_queue(m), q'.size = m, call' = call, call.descs = <<>>
  PROVE  Remaining'
<1> DEFINE list == [k \in 1 .. m |-> k - 1]
           d == [i \in 0 .. (m - 1) |->
                   [addr |-> None, flags |-> {}, next |-> IF i = m - 1 THEN Nil ELSE i + 1]]
<1>1. q'.desc = d /\ q'.free_head = 0
  BY DEF virtio_setup_queue, NoQueue
<1>2. m \in Nat \ {0} /\ list \in [1 .. m -> 0 .. (m - 1)] /\ DOMAIN d = 0 .. (m - 1)
  OBVIOUS
<1>3. \A k \in 1 .. m : list[k] = k - 1
  OBVIOUS
<1>4. \A i \in 0 .. (m - 1) : d[i].next = IF i = m - 1 THEN Nil ELSE i + 1
  OBVIOUS
<1> HIDE DEF list, d
<1>5. IsFreeList(list, m, d, 0)
  <2>1. \A j, k \in 1 .. m : list[j] = list[k] => j = k
    BY <1>3
  <2>2. 0 = IF m = 0 THEN Nil ELSE list[1]
    BY <1>2, <1>3
  <2>3. ASSUME NEW k \in 1 .. m PROVE d[list[k]].next = IF k = m THEN Nil ELSE list[k + 1]
    <3>1. k - 1 \in 0 .. (m - 1)
      BY <1>2
    <3>2. d[list[k]].next = IF k = m THEN Nil ELSE k
      BY <1>2, <1>3, <1>4, <3>1
    <3>3. CASE k = m
      BY <3>2, <3>3
    <3>4. CASE k # m
      <4>1. k + 1 \in 1 .. m
        BY <1>2, <3>4
      <4>2. list[k + 1] = k
        BY <1>3, <4>1
      <4>3. QED
        BY <3>2, <3>4, <4>2
    <3>5. QED
      BY <3>3, <3>4
  <2>4. QED
    BY <1>2, <2>1, <2>2, <2>3 DEF IsFreeList
<1>6. \A i \in DOMAIN d : \E k \in 1 .. m : list[k] = i
  <2>1. ASSUME NEW i \in DOMAIN d PROVE \E k \in 1 .. m : list[k] = i
    <3>1. i + 1 \in 1 .. m /\ list[i + 1] = i
      BY <1>2, <1>3
    <3>2. QED
      BY <3>1
  <2>2. QED
    BY <2>1
<1>7. call'.descs = <<>> /\ Len(<<>>) = 0 /\ DOMAIN <<>> = {}
  OBVIOUS
<1>8. Shared(list, m, d, <<>>)'
  BY <1>2, <1>6, <1>7 DEF Shared
<1>9. IsFreeList(list, m, q'.desc, q'.free_head) /\ Shared(list, m, q.desc, call.descs)'
  BY <1>1, <1>5, <1>7, <1>8
<1>10. list \in [1 .. m -> DOMAIN q'.desc] /\ m \in Nat
  BY <1>1, <1>2
<1>11. QED
  BY <1>9, <1>10 DEF Remaining

(* The driver starts the first device with the id, or stays down.          *)
LEMMA StartQueue ==
  ASSUME IInv, QInv, FindDevice \/ virtio_mmio_common_init \/ virtio_blk_create
  PROVE  QInv'
<1>1. /\ bus \in Setups /\ pages \in 0 .. Pages /\ (at \in {"init", "create"} => dev.base \in DOMAIN bus)
      /\ (at \in {"find", "init", "create"} => pages = Pages) /\ Pages \in Nat \ (0 .. 3)
  BY SizesAssumption DEF QInv, Sizes
<1>2. CASE FindDevice
  <2>1. /\ UNCHANGED <<bus, q, call, device>> /\ pages' = pages
        /\ at = "find" /\ at' \in {"init", "down"}
        /\ at' = "init" => find_virtio_device(BlockDevice2) # 0
        /\ dev'.base = find_virtio_device(BlockDevice2)
    BY <1>2 DEF FindDevice
  <2>2. at' = "init" => dev'.base \in DOMAIN bus'
    BY <1>1, <2>1, FoundIsOnBus
  <2>3. QED
    BY <1>1, <2>1, <2>2, StillStarting
<1>3. CASE virtio_mmio_common_init
  <2>1. /\ UNCHANGED <<bus, q, call, device>> /\ dev' = dev /\ pages' = pages
        /\ at = "init" /\ at' = "create"
    BY <1>3 DEF virtio_mmio_common_init
  <2>2. QED
    BY <1>1, <2>1, StillStarting
<1>4. CASE virtio_blk_create /\ at' = "down"
  <2>1. /\ UNCHANGED <<bus, q, call, device>> /\ at = "create"
        /\ pages' = pages \/ pages' = pages - 1
    BY <1>4 DEF virtio_blk_create, Down
  <2>2. pages = Pages
    BY <1>1, <2>1
  <2>3. QED
    BY <1>1, <1>4, <2>1, StillStarting
<1>5. CASE virtio_blk_create /\ at' # "down"
  <2> DEFINE b == bus[dev.base]
             m == Min({QueueSize, b.max})
             d == [i \in 0 .. (m - 1) |->
                     [addr |-> None, flags |-> {}, next |-> IF i = m - 1 THEN Nil ELSE i + 1]]
             ring == [i \in 0 .. (m - 1) |-> 0]
  <2>1. /\ at = "create" /\ at' = "idle" /\ b.max > 0 /\ pages' = pages - 4
        /\ q' = virtio_setup_queue(m) /\ UNCHANGED <<bus, call, device>>
    BY <1>5 DEF virtio_blk_create, Down
  <2>2. bus \in Setups /\ dev.base \in DOMAIN bus /\ pages = Pages
    BY <1>1, <2>1
  <2>3. b.max \in Nat
    <3> DEFINE Found == [magic : BOOLEAN, id : Nat, version : Nat, version1 : BOOLEAN,
                         event : BOOLEAN, accepts : BOOLEAN, max : Nat]
    <3>0. bus \in Seq(Found) /\ \A x \in Found : x.max \in Nat
      BY <2>2, SizesAssumption
    <3> HIDE DEF Found
    <3>1. \A x \in DOMAIN bus : bus[x].max \in Nat
      BY <3>0
    <3>2. QED
      BY <2>2, <3>1
  <2>4. m \in 1 .. Nil
    <3>1. {QueueSize, b.max} \in SUBSET Nat /\ {QueueSize, b.max} # {}
      BY <2>3, SizesAssumption
    <3>2. m \in {QueueSize, b.max} /\ m <= QueueSize
      BY <3>1, MinIn
    <3> HIDE DEF m, b
    <3>3. QueueSize \in 1 .. Nil /\ Nil \in Nat
      BY SizesAssumption, NilType
    <3>4. b.max > 0
      BY <2>1
    <3>5. QED
      BY <2>3, <3>2, <3>3, <3>4
  <2> HIDE DEF m, b
  <2>5. /\ q'.size = m /\ q'.desc = d /\ q'.avail = ring /\ q'.used = ring
        /\ q'.avail_idx = 0 /\ q'.used_idx = 0 /\ q'.last_used_idx = 0
    BY <2>1 DEF virtio_setup_queue, NoQueue
  <2>6. d \in [0 .. (m - 1) -> Descriptor] /\ ring \in [0 .. (m - 1) -> Int]
    <3>1. m \in Nat /\ Nil \in Int
      BY <2>4, NilType
    <3>2. ASSUME NEW i \in 0 .. (m - 1)
          PROVE  (IF i = m - 1 THEN Nil ELSE i + 1) \in Int
      BY <3>1
    <3>3. ring \in [0 .. (m - 1) -> Int]
      OBVIOUS
    <3>4. {} \in SUBSET {"NEXT", "WRITE"} /\ None \in {None, "req", "data", "status"}
      OBVIOUS
    <3>5. d \in [0 .. (m - 1) -> Descriptor]
      BY <3>2, <3>4 DEF Descriptor
    <3>6. QED
      BY <3>3, <3>5
  <2> HIDE DEF d, ring
  <2>7. q.size = 0 /\ call.descs = <<>> /\ device.seen \in Indices /\ 0 \in Indices
    BY <2>1, SizesAssumption, SMTT(30) DEF QInv, Sizes, Taken, Indices
  <2>8. Sizes'
    BY <1>1, <2>1, <2>2, <2>4, <2>5, <2>6, <2>7 DEF Sizes, Indices
  <2>9. Remaining'
    BY <2>1, <2>4, <2>5, <2>7, NewQueue
  <2>10. Taken' /\ Offered'
    BY <2>1, <2>7 DEF Taken, Offered
  <2>11. QED
    BY <2>8, <2>9, <2>10 DEF QInv
<1>6. QED
  BY <1>2, <1>3, <1>4, <1>5

-----------------------------------------------------------------------------
(* Submitting a request                                                    *)

(* Between two requests only the number of pages changes.                  *)
LEMMA BetweenRequests ==
  ASSUME QInv, UNCHANGED <<bus, dev, q, device>>, pages' \in 0 .. Pages, call'.descs = <<>>,
         \/ at = "down" /\ at' = "down"
         \/ at = "idle" /\ at' \in {"idle", "allocate"}
  PROVE  QInv'
<1>1. Sizes'
  BY DEF QInv, Sizes, Indices
<1>2. call.descs = <<>>
  BY DEF QInv, Taken
<1>3. Remaining'
  BY <1>2 DEF QInv, Remaining, IsFreeList, Shared
<1>4. QED
  BY <1>1, <1>3 DEF QInv, Taken, Offered

LEMMA ClientQueue == ASSUME IInv, QInv, Client PROVE QInv'
<1>1. pages \in 0 .. Pages /\ Pages \in Nat
  BY SizesAssumption DEF QInv, Sizes
<1>2. ASSUME at \in {"down", "idle"}, Refuse, UNCHANGED <<q, device>>, pages' \in 0 .. Pages
      PROVE  QInv'
  <2>1. UNCHANGED <<bus, dev, q, device>> /\ call'.descs = <<>> /\ at' = at
    BY <1>2 DEF Refuse, NoCall
  <2>2. QED
    BY <1>2, <2>1, BetweenRequests
<1>3. ASSUME NEW r, NEW buffer, at = "idle", Begin(r, buffer)
      PROVE  QInv'
  <2>1. CASE pages < 2
    <3>1. pages' = 0 /\ Refuse /\ UNCHANGED <<q, device>>
      BY <1>1, <1>3, <2>1 DEF Begin
    <3>2. QED
      BY <1>1, <1>2, <1>3, <3>1
  <2>2. CASE pages >= 2
    <3>1. /\ pages' = pages - 2 /\ at' = "allocate" /\ UNCHANGED <<bus, dev, q, device>>
          /\ call' = [NoCall EXCEPT !.request = r, !.buffer = buffer]
      BY <1>1, <1>3, <2>2 DEF Begin
    <3>2. call'.descs = <<>> /\ pages' \in 0 .. Pages
      BY <1>1, <2>2, <3>1 DEF NoCall
    <3>3. QED
      BY <1>3, <3>1, <3>2, BetweenRequests
  <2>3. QED
    BY <1>1, <2>1, <2>2
<1>4. ASSUME NEW r \in Request, virtio_blk_read(r) \/ virtio_blk_write(r)
      PROVE  QInv'
  <2>1. CASE Refuse /\ UNCHANGED <<q, pages, device>> /\ at \in {"down", "idle"}
    BY <1>1, <1>2, <2>1
  <2>2. CASE at = "idle" /\ \E buffer : Begin(r, buffer)
    BY <1>3, <2>2
  <2>3. QED
    BY <1>4, <2>1, <2>2 DEF virtio_blk_read, virtio_blk_write
<1>5. QED
  BY <1>4 DEF Client

(* The list that Free counts in.                                           *)
LEMMA FreeIs ==
  ASSUME NEW n \in Nat, NEW list \in [1 .. n -> DOMAIN q.desc],
         IsFreeList(list, n, q.desc, q.free_head), q.size \in 0 .. Nil,
         DOMAIN q.desc = 0 .. (q.size - 1)
  PROVE  /\ \A k \in 1 .. 4 : Free(k) = IF k <= n THEN list[k] ELSE Nil
         /\ \A k \in 1 .. n : list[k] # Nil
<1> DEFINE Behind(d) == IF d = Nil THEN Nil ELSE q.desc[d].next
           Right(f) == f = [i \in 1 .. 4 |-> IF i = 1 THEN q.free_head ELSE Behind(f[i - 1])]
           g == [i \in 1 .. 4 |-> IF i <= n THEN list[i] ELSE Nil]
<1>1. \A k \in 1 .. n : list[k] # Nil
  BY NilType
<1>2. /\ q.free_head = IF n = 0 THEN Nil ELSE list[1]
      /\ \A k \in 1 .. n : q.desc[list[k]].next = IF k = n THEN Nil ELSE list[k + 1]
  BY DEF IsFreeList
<1>3. ASSUME NEW i \in 1 .. 4
      PROVE  g[i] = IF i = 1 THEN q.free_head ELSE Behind(g[i - 1])
  <2>1. g[i] = IF i <= n THEN list[i] ELSE Nil
    OBVIOUS
  <2>2. CASE i = 1
    BY <1>2, <2>1, <2>2
  <2>3. CASE i # 1
    <3>1. i - 1 \in 1 .. 4 /\ (i - 1) + 1 = i
      BY <2>3
    <3>2. g[i - 1] = IF i - 1 <= n THEN list[i - 1] ELSE Nil
      BY <3>1
    <3> HIDE DEF g
    <3>3. CASE i - 1 <= n
      <4>1. i - 1 \in 1 .. n /\ (i - 1 = n <=> ~(i <= n))
        BY <3>1, <3>3
      <4>2. q.desc[list[i - 1]].next = IF i - 1 = n THEN Nil ELSE list[i]
        BY <1>2, <3>1, <4>1
      <4>3. QED
        BY <1>1, <2>1, <2>3, <3>2, <3>3, <4>1, <4>2
    <3>4. CASE ~(i - 1 <= n)
      BY <2>1, <2>3, <3>1, <3>2, <3>4
    <3>5. QED
      BY <3>3, <3>4
  <2>4. QED
    BY <2>2, <2>3
<1>4. Right(g)
  <2>1. g = [i \in 1 .. 4 |-> g[i]]
    OBVIOUS
  <2> HIDE DEF g
  <2>2. QED
    BY <2>1, <1>3
<1> DEFINE f == CHOOSE f : Right(f)
<1>5. Right(f)
  <2> HIDE DEF g, Right
  <2>1. QED
    BY <1>4
<1>6. ASSUME NEW i \in 1 .. 4
      PROVE  f[i] = IF i = 1 THEN q.free_head ELSE Behind(f[i - 1])
  <2> HIDE DEF f, Behind
  <2>1. f = [j \in 1 .. 4 |-> IF j = 1 THEN q.free_head ELSE Behind(f[j - 1])]
    BY <1>5
  <2>2. QED
    BY <2>1, Zenon
<1>7. \A k \in 1 .. 4 : Free(k) = f[k]
  BY DEF Free
<1>8. \A k \in 1 .. 4 : f[k] = g[k]
  <2> HIDE DEF f, g, Behind
  <2>1. f[1] = g[1]
    BY <1>3, <1>6
  <2>2. f[2] = g[2]
    BY <1>3, <1>6, <2>1
  <2>3. f[3] = g[3]
    BY <1>3, <1>6, <2>2
  <2>4. f[4] = g[4]
    BY <1>3, <1>6, <2>3
  <2>5. QED
    BY <2>1, <2>2, <2>3, <2>4
<1>9. \A k \in 1 .. 4 : g[k] = IF k <= n THEN list[k] ELSE Nil
  OBVIOUS
<1>10. QED
  <2> HIDE DEF f, g
  <2>1. QED
    BY <1>1, <1>7, <1>8, <1>9

(* What is left of a list when its first three are taken.                  *)
LEMMA FirstThree ==
  ASSUME NEW n \in Nat, n >= 3, NEW desc, NEW head, NEW list \in [1 .. n -> DOMAIN desc],
         IsFreeList(list, n, desc, head), Shared(list, n, desc, <<>>), q.size >= 3,
         NEW next, next = IF 4 <= n THEN list[4] ELSE Nil
  PROVE  LET rest == [k \in 1 .. (n - 3) |-> list[k + 3]]
             taken == <<list[1], list[2], list[3]>>
         IN  /\ n - 3 \in Nat /\ rest \in [1 .. (n - 3) -> DOMAIN desc]
             /\ IsFreeList(rest, n - 3, desc, next)
             /\ Shared(rest, n - 3, desc, taken)
<1> DEFINE rest == [k \in 1 .. (n - 3) |-> list[k + 3]]
           taken == <<list[1], list[2], list[3]>>
<1>1. /\ \A j, k \in 1 .. n : list[j] = list[k] => j = k
      /\ \A k \in 1 .. n : desc[list[k]].next = IF k = n THEN Nil ELSE list[k + 1]
      /\ \A k \in 1 .. n : list[k] \in DOMAIN desc
  BY DEF IsFreeList
<1>2. /\ n - 3 \in Nat /\ rest \in [1 .. (n - 3) -> DOMAIN desc]
      /\ \A k \in 1 .. (n - 3) : k + 3 \in 1 .. n /\ rest[k] = list[k + 3]
      /\ 1 \in 1 .. n /\ 2 \in 1 .. n /\ 3 \in 1 .. n
  OBVIOUS
<1>3. n = q.size /\ \A d \in DOMAIN desc : \E k \in 1 .. n : list[k] = d
  BY DEF Shared
<1>4. /\ Len(taken) = 3 /\ DOMAIN taken = 1 .. 3
      /\ taken[1] = list[1] /\ taken[2] = list[2] /\ taken[3] = list[3]
      /\ \A j \in DOMAIN taken : j \in 1 .. n /\ j < 4 /\ taken[j] = list[j]
  BY <1>2
<1> HIDE DEF rest, taken
<1>5. \A j, k \in 1 .. (n - 3) : rest[j] = rest[k] => j = k
  BY <1>1, <1>2
<1>6. next = IF n - 3 = 0 THEN Nil ELSE rest[1]
  <2>1. CASE n = 3
    BY <2>1
  <2>2. CASE n # 3
    <3>1. 1 \in 1 .. (n - 3) /\ rest[1] = list[4] /\ 4 <= n
      BY <1>2, <2>2
    <3>2. QED
      BY <2>2, <3>1
  <2>3. QED
    BY <2>1, <2>2
<1>7. ASSUME NEW k \in 1 .. (n - 3)
      PROVE  desc[rest[k]].next = IF k = n - 3 THEN Nil ELSE rest[k + 1]
  <2>1. desc[rest[k]].next = IF k + 3 = n THEN Nil ELSE list[(k + 3) + 1]
    BY <1>1, <1>2
  <2>2. CASE k = n - 3
    BY <2>1, <2>2
  <2>3. CASE k # n - 3
    <3>1. k + 1 \in 1 .. (n - 3) /\ (k + 1) + 3 = (k + 3) + 1 /\ k + 3 # n
      BY <2>3
    <3>2. rest[k + 1] = list[(k + 3) + 1]
      BY <1>2, <3>1
    <3>3. QED
      BY <2>1, <2>3, <3>1, <3>2
  <2>4. QED
    BY <2>2, <2>3
<1>8. IsFreeList(rest, n - 3, desc, next)
  BY <1>2, <1>5, <1>6, <1>7 DEF IsFreeList
<1>9. ASSUME NEW k \in 1 .. (n - 3), NEW j \in DOMAIN taken
      PROVE  rest[k] # taken[j]
  <2>1. rest[k] = list[k + 3] /\ taken[j] = list[j] /\ k + 3 \in 1 .. n /\ j \in 1 .. n /\ k + 3 # j
    BY <1>2, <1>4
  <2>2. QED
    BY <1>1, <2>1
<1>10. ASSUME NEW d \in DOMAIN desc
       PROVE  \/ \E k \in 1 .. (n - 3) : rest[k] = d
              \/ \E j \in DOMAIN taken : taken[j] = d
  <2>1. PICK k \in 1 .. n : list[k] = d
    BY <1>3
  <2>2. CASE k \in 1 .. 3
    BY <1>4, <2>1, <2>2
  <2>3. CASE k \notin 1 .. 3
    <3>1. k - 3 \in 1 .. (n - 3) /\ (k - 3) + 3 = k
      BY <2>3
    <3>2. rest[k - 3] = d
      BY <1>2, <2>1, <3>1
    <3>3. QED
      BY <3>1, <3>2
  <2>4. QED
    BY <2>2, <2>3
<1>11. Shared(rest, n - 3, desc, taken)
  <2>1. (n - 3) + Len(taken) = q.size /\ q.size \in Nat
    BY <1>3, <1>4
  <2>2. QED
    BY <1>9, <1>10, <2>1 DEF Shared
<1>12. QED
  BY <1>2, <1>8, <1>11 DEF rest, taken

LEMMA AllocateQueue == ASSUME IInv, QInv, Allocate PROVE QInv'
<1>1. /\ at = "allocate" /\ UNCHANGED <<bus, dev>>
      /\ device'.seen = device.seen /\ device'.chain = device.chain /\ device'.served = device.served
  BY DEF IInv, Shapes, Allocate, Advance, Refuse, Renotify
<1>2. /\ q.size \in 0 .. Nil /\ q.size > 0 /\ DOMAIN q.desc = 0 .. (q.size - 1) /\ call.descs = <<>>
      /\ pages \in 0 .. Pages
  BY <1>1 DEF QInv, Sizes, Taken
<1>3. PICK n \in Nat : \E list \in [1 .. n -> DOMAIN q.desc] :
        IsFreeList(list, n, q.desc, q.free_head) /\ Shared(list, n, q.desc, call.descs)
  BY <1>2 DEF QInv, Remaining
<1>4. PICK list \in [1 .. n -> DOMAIN q.desc] :
        IsFreeList(list, n, q.desc, q.free_head) /\ Shared(list, n, q.desc, <<>>)
  BY <1>2, <1>3
<1>5. /\ \A k \in 1 .. 4 : Free(k) = IF k <= n THEN list[k] ELSE Nil
      /\ \A k \in 1 .. n : list[k] # Nil
  BY <1>2, <1>4, FreeIs
<1>6. (Free(3) # Nil <=> n >= 3) /\ (n >= 3 <=> q.size >= 3)
  <2>1. (q.size < 3 => n < 3) /\ (q.size >= 3 => n + Len(<<>>) = q.size)
    BY <1>4 DEF Shared
  <2>2. n >= 3 <=> q.size >= 3
    BY <1>2, <2>1
  <2>3. Free(3) # Nil <=> n >= 3
    BY <1>5
  <2>4. QED
    BY <2>2, <2>3
<1>7. /\ q'.size = q.size /\ q'.desc = q.desc /\ q'.avail = q.avail /\ q'.used = q.used
      /\ q'.avail_idx = q.avail_idx /\ q'.used_idx = q.used_idx /\ q'.last_used_idx = q.last_used_idx
      /\ pages' = pages /\ at' \in {"build", "idle"}
  BY <1>1 DEF IInv, Shapes, Allocate, Advance, After, Refuse
<1>8. Sizes'
  BY <1>1, <1>7 DEF QInv, Sizes, Indices
<1>9. CASE n >= 3
  <2> DEFINE rest == [k \in 1 .. (n - 3) |-> list[k + 3]]
             taken == <<list[1], list[2], list[3]>>
             next == Free(4)
  <2>1. /\ call'.descs = taken /\ q'.free_head = next /\ at' = "build"
    <3>1. Free(1) = list[1] /\ Free(2) = list[2] /\ Free(3) = list[3]
      BY <1>5, <1>9
    <3>2. /\ call' = [call EXCEPT !.descs = <<Free(1), Free(2), Free(3)>>]
          /\ q' = [q EXCEPT !.free_head = Free(4)] /\ at' = "build"
      BY <1>6, <1>9 DEF Allocate, Advance, After
    <3>3. QED
      BY <3>1, <3>2 DEF IInv, Shapes
  <2>2. next = IF 4 <= n THEN list[4] ELSE Nil
    BY <1>5
  <2> HIDE DEF next
  <2>3. /\ n - 3 \in Nat /\ rest \in [1 .. (n - 3) -> DOMAIN q.desc]
        /\ IsFreeList(rest, n - 3, q.desc, next)
        /\ Shared(rest, n - 3, q.desc, taken)
    BY <1>4, <1>6, <1>9, <2>2, FirstThree, SMTT(60)
  <2>4. /\ list[1] \in DOMAIN q.desc /\ list[2] \in DOMAIN q.desc /\ list[3] \in DOMAIN q.desc
        /\ list[1] # list[2] /\ list[2] # list[3] /\ list[1] # list[3]
    BY <1>4, <1>9 DEF IsFreeList
  <2>5. Taken'
    BY <1>6, <1>7, <1>9, <2>1, <2>4 DEF Taken
  <2> HIDE DEF rest, taken
  <2>6. Shared(rest, n - 3, q.desc, call.descs)'
    BY <1>7, <2>1, <2>3, SMTT(30) DEF Shared
  <2>7. Remaining'
    BY <1>7, <2>1, <2>3, <2>6 DEF Remaining
  <2>8. QED
    BY <1>8, <2>1, <2>5, <2>7 DEF QInv, Offered
<1>10. CASE ~(n >= 3)
  <2>1. /\ q' = [q EXCEPT !.free_head = Nil] /\ call' = NoCall /\ at' = "idle"
    BY <1>1, <1>6, <1>10 DEF Allocate, Refuse
  <2>2. q'.free_head = Nil /\ call'.descs = <<>> /\ q'.size < 3
    BY <1>2, <1>6, <1>7, <1>10, <2>1 DEF IInv, Shapes, NoCall
  <2> DEFINE none == [k \in 1 .. 0 |-> 0]
  <2>3. none \in [1 .. 0 -> DOMAIN q'.desc] /\ 0 \in Nat
    OBVIOUS
  <2>4. IsFreeList(none, 0, q'.desc, q'.free_head)
    BY <2>2, <2>3 DEF IsFreeList
  <2>5. Shared(none, 0, q.desc, call.descs)'
    BY <1>2, <1>7, <2>2 DEF Shared
  <2>6. Remaining'
    <3> HIDE DEF none
    <3>1. QED
      BY <2>3, <2>4, <2>5 DEF Remaining
  <2>7. QED
    BY <1>8, <2>1, <2>2, <2>6 DEF QInv, Taken, Offered
<1>11. QED
  BY <1>9, <1>10

(* A place in a ring.                                                      *)
LEMMA Place ==
  ASSUME QInv, q.size > 0, NEW i \in Indices
  PROVE  i % q.size \in 0 .. (q.size - 1)
<1>1. q.size \in Nat \ {0} /\ i \in Nat
  BY SizesAssumption, NilType DEF QInv, Sizes, Indices
<1> DEFINE s == q.size
<1>2. s \in Nat \ {0}
  BY <1>1
<1> HIDE DEF s
<1>3. i % s \in 0 .. (s - 1)
  BY <1>1, <1>2
<1>4. QED
  BY <1>3 DEF s

LEMMA BuildQueue == ASSUME IInv, QInv, Build PROVE QInv'
<1>1. at = "build" /\ at' = "publish" /\ UNCHANGED <<bus, dev, pages, call, device>>
  BY DEF Build, Advance, After
<1>2. PICK a, b, c \in DOMAIN q.desc :
        call.descs = <<a, b, c>> /\ a # b /\ b # c /\ a # c /\ q.size >= 3
  BY <1>1 DEF QInv, Taken
<1>3. /\ q.size \in 0 .. Nil /\ q.size > 0 /\ DOMAIN q.desc = 0 .. (q.size - 1)
      /\ q.desc \in [0 .. (q.size - 1) -> Descriptor] /\ q.avail \in [0 .. (q.size - 1) -> Int]
      /\ q.avail_idx \in Indices
  BY <1>1 DEF QInv, Sizes
<1>4. q.avail_idx = q.last_used_idx
  BY <1>1 DEF IInv, Handshake, Quiet
<1> DEFINE head == [addr |-> "req", flags |-> {"NEXT"}, next |-> b]
           body == [addr |-> "data", flags |-> Direction(call.request), next |-> c]
           tail == [addr |-> "status", flags |-> {"WRITE"}, next |-> 0]
           desc == [[[q.desc EXCEPT ![a] = head] EXCEPT ![b] = body] EXCEPT ![c] = tail]
           place == q.avail_idx % q.size
           avail == [q.avail EXCEPT ![place] = a]
<1>5. q' = [q EXCEPT !.desc = desc, !.avail = avail]
  <2>1. call.descs[1] = a /\ call.descs[2] = b /\ call.descs[3] = c
    BY <1>2
  <2>2. q' = [q EXCEPT !.desc[a] = head, !.desc[b] = body, !.desc[c] = tail, !.avail[place] = a]
    BY <2>1 DEF Build, Direction
  <2>3. QED
    BY <2>2 DEF IInv, Shapes
<1>6. place \in 0 .. (q.size - 1)
  BY <1>3, Place
<1> HIDE DEF place
<1>7. head \in Descriptor /\ body \in Descriptor /\ tail \in Descriptor /\ a \in Int
  BY <1>3, NilType DEF Descriptor, Direction
<1> HIDE DEF head, body, tail
<1>8. /\ desc \in [0 .. (q.size - 1) -> Descriptor] /\ DOMAIN desc = 0 .. (q.size - 1)
      /\ desc[a] = head /\ desc[b] = body /\ desc[c] = tail
      /\ \A i \in DOMAIN q.desc : i \notin {a, b, c} => desc[i] = q.desc[i]
  BY <1>2, <1>3, <1>7
<1>9. avail \in [0 .. (q.size - 1) -> Int] /\ avail[place] = a
  BY <1>3, <1>6, <1>7
<1> HIDE DEF desc, avail
<1>10. /\ q'.size = q.size /\ q'.free_head = q.free_head /\ q'.desc = desc /\ q'.avail = avail
       /\ q'.used = q.used /\ q'.avail_idx = q.avail_idx /\ q'.used_idx = q.used_idx
       /\ q'.last_used_idx = q.last_used_idx
  BY <1>5 DEF IInv, Shapes
<1>11. Sizes'
  BY <1>1, <1>8, <1>9, <1>10 DEF QInv, Sizes, Indices
<1>12. Remaining'
  <2>1. PICK n \in Nat : \E list \in [1 .. n -> DOMAIN q.desc] :
          IsFreeList(list, n, q.desc, q.free_head) /\ Shared(list, n, q.desc, call.descs)
    BY <1>3 DEF QInv, Remaining
  <2>2. PICK list \in [1 .. n -> DOMAIN q.desc] :
          IsFreeList(list, n, q.desc, q.free_head) /\ Shared(list, n, q.desc, call.descs)
    BY <2>1
  <2>3. \A k \in 1 .. n : list[k] \notin {a, b, c} /\ list[k] \in DOMAIN q.desc
    BY <1>2, <2>2 DEF Shared
  <2>4. \A k \in 1 .. n : desc[list[k]] = q.desc[list[k]]
    BY <1>8, <2>3
  <2>5. IsFreeList(list, n, desc, q.free_head)
    BY <1>3, <1>8, <2>2, <2>4 DEF IsFreeList
  <2>6. Shared(list, n, q.desc, call.descs)'
    BY <1>1, <1>3, <1>8, <1>10, <2>2 DEF Shared
  <2>7. list \in [1 .. n -> DOMAIN q'.desc]
    BY <1>3, <1>8, <1>10
  <2>8. QED
    BY <1>10, <2>5, <2>6, <2>7 DEF Remaining
<1>13. Taken'
  <2>1. a \in DOMAIN q'.desc /\ b \in DOMAIN q'.desc /\ c \in DOMAIN q'.desc
    BY <1>3, <1>8, <1>10
  <2>2. QED
    BY <1>1, <1>2, <1>10, <2>1 DEF Taken
<1>14. Offered'
  <2>1. call'.descs[1] = a /\ call'.descs[2] = b /\ call'.descs[3] = c /\ call'.request = call.request
    BY <1>1, <1>2
  <2>2. q'.last_used_idx % q'.size = place
    BY <1>4, <1>10 DEF place
  <2>3. Built'
    BY <1>8, <1>9, <1>10, <2>1, <2>2 DEF Built, head, body, tail
  <2>4. QED
    BY <1>1, <2>3 DEF Offered
<1>15. QED
  BY <1>11, <1>12, <1>13, <1>14 DEF QInv

(* The queue's lists stay as they are.                                     *)
LEMMA SameLists ==
  ASSUME QInv, q'.size = q.size, q'.free_head = q.free_head, q'.desc = q.desc,
         call'.descs = call.descs
  PROVE  Remaining'
<1>1. \A n, list : Shared(list, n, q.desc, call.descs)' <=> Shared(list, n, q.desc, call.descs)
  BY DEF Shared
<1>2. Remaining
  BY DEF QInv
<1>3. QED
  BY <1>1, <1>2 DEF Remaining

LEMMA NextIndex ==
  ASSUME NEW i \in Indices
  PROVE  (i + 1) % IdxBound \in Indices
<1>1. IdxBound \in Nat \ {0}
  BY SizesAssumption
<1>2. QED
  BY <1>1 DEF Indices

LEMMA PublishQueue == ASSUME IInv, QInv, Publish PROVE QInv'
<1>1. at = "publish" /\ at' = "notify" /\ UNCHANGED <<bus, dev, pages, call, device>>
  BY DEF Publish, Advance, After
<1>2. /\ q'.size = q.size /\ q'.free_head = q.free_head /\ q'.desc = q.desc /\ q'.avail = q.avail
      /\ q'.used = q.used /\ q'.used_idx = q.used_idx /\ q'.last_used_idx = q.last_used_idx
      /\ q'.avail_idx = (q.avail_idx + 1) % IdxBound
  BY DEF IInv, Shapes, Publish
<1>3. q'.avail_idx \in Indices
  BY <1>2, NextIndex DEF QInv, Sizes
<1>4. Sizes'
  BY <1>1, <1>2, <1>3 DEF QInv, Sizes
<1>5. Remaining'
  BY <1>1, <1>2, SameLists
<1>6. Taken'
  BY <1>1, <1>2 DEF QInv, Taken
<1>7. device.chain = Nil /\ ~device.served /\ ~call.done
  BY <1>1 DEF IInv, Handshake, Quiet
<1>8. Offered'
  BY <1>1, <1>2, <1>7 DEF QInv, Offered, Built
<1>9. QED
  BY <1>4, <1>5, <1>6, <1>8 DEF QInv

LEMMA NotifyQueue == ASSUME IInv, QInv, Notify PROVE QInv'
<1>1. /\ at = "notify" /\ at' = "poll" /\ UNCHANGED <<bus, dev, pages, call, q>>
      /\ device' = [device EXCEPT !.notified = TRUE]
  BY DEF Notify, Advance, After
<1>2. device'.seen = device.seen /\ device'.chain = device.chain /\ device'.served = device.served
  BY <1>1 DEF IInv, Shapes
<1>3. Sizes'
  BY <1>1, <1>2 DEF QInv, Sizes
<1>4. Remaining' /\ Taken'
  BY <1>1, SameLists DEF QInv, Taken
<1>5. Offered'
  BY <1>1, <1>2 DEF QInv, Offered, Built
<1>6. QED
  BY <1>3, <1>4, <1>5 DEF QInv

-----------------------------------------------------------------------------
(* Answering a request                                                     *)

(* The chain of the request under way is its three descriptors.            *)
LEMMA ChainIs ==
  ASSUME QInv, at \in {"publish", "notify", "poll"}
  PROVE  \E a, b, c \in DOMAIN q.desc :
           /\ call.descs = <<a, b, c>> /\ a # b /\ b # c /\ a # c /\ q.size >= 3
           /\ Chain(a) = <<a, b, c>>
<1>1. PICK a, b, c \in DOMAIN q.desc :
        call.descs = <<a, b, c>> /\ a # b /\ b # c /\ a # c /\ q.size >= 3
  BY DEF QInv, Taken
<1>2. /\ q.size \in 0 .. Nil /\ DOMAIN q.desc = 0 .. (q.size - 1)
      /\ q.desc \in [0 .. (q.size - 1) -> Descriptor]
  BY DEF QInv, Sizes
<1>3. /\ "NEXT" \in q.desc[a].flags /\ q.desc[a].next = b
      /\ "NEXT" \in q.desc[b].flags /\ q.desc[b].next = c
      /\ "NEXT" \notin q.desc[c].flags
  <2>1. call.descs[1] = a /\ call.descs[2] = b /\ call.descs[3] = c
    BY <1>1
  <2>2. QED
    BY <2>1 DEF QInv, Offered, Built, Direction
<1> DEFINE linked == {i \in DOMAIN q.desc : "NEXT" \in q.desc[i].flags}
           links == [i \in linked |-> q.desc[i].next]
           s == <<a, b, c>>
<1>4. /\ a \in linked /\ b \in linked /\ c \notin linked
      /\ links[a] = b /\ links[b] = c /\ DOMAIN links = linked
  BY <1>1, <1>3
<1>5. a \in Int /\ b \in Int /\ c \in Int /\ q.size \in Nat /\ 3 <= q.size + 1
  BY <1>1, <1>2, NilType
<1>6. Chain(a) = Follow(links, a)
  BY DEF Chain
<1> HIDE DEF linked, links
<1>7. /\ s \in [1 .. 3 -> Int] /\ s[1] = a /\ s[2] = b /\ s[3] = c
  BY <1>5
<1> HIDE DEF s
<1> DEFINE len == 3
<1>8. \A k \in 1 .. (len - 1) : s[k] \in DOMAIN links /\ links[s[k]] = s[k + 1]
  <2>1. s[1] \in DOMAIN links /\ links[s[1]] = s[1 + 1]
    BY <1>4, <1>7
  <2>2. s[2] \in DOMAIN links /\ links[s[2]] = s[2 + 1]
    BY <1>4, <1>7
  <2>3. QED
    BY <2>1, <2>2
<1>9. /\ s[len] \notin DOMAIN links /\ s \in [1 .. len -> Int]
      /\ len \in Nat \ {0} /\ len <= q.size + 1
  BY <1>4, <1>5, <1>7
<1>10. Follow(links, s[1]) = s
  <2> HIDE DEF len
  <2>1. QED
    BY <1>5, <1>8, <1>9, FollowIs
<1>11. QED
  BY <1>1, <1>6, <1>7, <1>10 DEF s

(* A chain of three that comes back is in front of the list, backwards.    *)
Returned(list, n, a, b, c) == [k \in 1 .. (n + 3) |-> IF k > 3 THEN list[k - 3] ELSE <<c, b, a>>[k]]

LEMMA ThreeBack ==
  ASSUME NEW n \in Nat, NEW desc, NEW head, NEW list \in [1 .. n -> DOMAIN desc],
         NEW a \in DOMAIN desc, NEW b \in DOMAIN desc, NEW c \in DOMAIN desc,
         a # b, b # c, a # c, q.size >= 3,
         IsFreeList(list, n, desc, head), Shared(list, n, desc, <<a, b, c>>),
         NEW new, DOMAIN new = DOMAIN desc,
         new[a].next = head, new[b].next = a, new[c].next = b,
         \A i \in DOMAIN desc : i \notin {a, b, c} => new[i] = desc[i]
  PROVE  /\ Returned(list, n, a, b, c) \in [1 .. (n + 3) -> DOMAIN new]
         /\ IsFreeList(Returned(list, n, a, b, c), n + 3, new, c)
         /\ Shared(Returned(list, n, a, b, c), n + 3, new, <<>>)
<1> DEFINE more == Returned(list, n, a, b, c)
<1>1. /\ \A j, k \in 1 .. n : list[j] = list[k] => j = k
      /\ \A k \in 1 .. n : desc[list[k]].next = IF k = n THEN Nil ELSE list[k + 1]
      /\ \A k \in 1 .. n : list[k] \in DOMAIN desc
      /\ head = IF n = 0 THEN Nil ELSE list[1]
  BY DEF IsFreeList
<1>2. /\ \A k \in 1 .. n : list[k] \notin {a, b, c}
      /\ n + 3 = q.size
      /\ \A d \in DOMAIN desc : d \in {a, b, c} \/ \E k \in 1 .. n : list[k] = d
  <2> DEFINE t == <<a, b, c>>
  <2>1. /\ Len(t) = 3 /\ 1 \in DOMAIN t /\ 2 \in DOMAIN t /\ 3 \in DOMAIN t
        /\ t[1] = a /\ t[2] = b /\ t[3] = c
        /\ \A j \in DOMAIN t : t[j] \in {a, b, c}
    OBVIOUS
  <2> HIDE DEF t
  <2>2. /\ \A k \in 1 .. n, j \in DOMAIN t : list[k] # t[j]
        /\ n + Len(t) = q.size
        /\ \A d \in DOMAIN desc : \/ \E k \in 1 .. n : list[k] = d
                                  \/ \E j \in DOMAIN t : t[j] = d
    BY DEF Shared, t
  <2>3. \A k \in 1 .. n : list[k] \notin {a, b, c}
    BY <2>1, <2>2
  <2>4. \A d \in DOMAIN desc : d \in {a, b, c} \/ \E k \in 1 .. n : list[k] = d
    BY <2>1, <2>2
  <2>5. QED
    BY <2>1, <2>2, <2>3, <2>4
<1>3. /\ more[1] = c /\ more[2] = b /\ more[3] = a
      /\ \A k \in 1 .. n : k + 3 \in 1 .. (n + 3) /\ more[k + 3] = list[k]
      /\ \A k \in 1 .. (n + 3) : k \in {1, 2, 3} \/ k - 3 \in 1 .. n
      /\ 1 \in 1 .. (n + 3) /\ 2 \in 1 .. (n + 3) /\ 3 \in 1 .. (n + 3)
      /\ DOMAIN more = 1 .. (n + 3)
  BY DEF Returned
<1>4. more = [k \in 1 .. (n + 3) |-> more[k]]
  BY DEF Returned
<1> HIDE DEF more
<1>5. \A k \in 1 .. (n + 3) : k > 3 => more[k] = list[k - 3] /\ k - 3 \in 1 .. n
  <2>1. ASSUME NEW k \in 1 .. (n + 3), k > 3
        PROVE  more[k] = list[k - 3] /\ k - 3 \in 1 .. n
    <3>1. k - 3 \in 1 .. n /\ (k - 3) + 3 = k
      BY <2>1
    <3>2. QED
      BY <1>3, <3>1
  <2>2. QED
    BY <2>1
<1>6. \A k \in 1 .. (n + 3) : k > 3 \/ k = 1 \/ k = 2 \/ k = 3
  OBVIOUS
<1>0. \A k \in 1 .. (n + 3) : (k > 3 => more[k] \notin {a, b, c}) /\ (~(k > 3) => more[k] \in {a, b, c})
  <2>1. ASSUME NEW k \in 1 .. (n + 3), k > 3 PROVE more[k] \notin {a, b, c}
    <3>1. more[k] = list[k - 3] /\ k - 3 \in 1 .. n
      BY <1>5, <2>1
    <3>2. QED
      BY <1>2, <3>1
  <2>2. ASSUME NEW k \in 1 .. (n + 3), ~(k > 3) PROVE more[k] \in {a, b, c}
    <3>1. k = 1 \/ k = 2 \/ k = 3
      BY <1>6, <2>2
    <3>2. QED
      BY <1>3, <3>1
  <2>3. QED
    BY <2>1, <2>2
<1>7. more \in [1 .. (n + 3) -> DOMAIN new]
  <2>1. \A k \in 1 .. (n + 3) : more[k] \in DOMAIN new
    BY <1>1, <1>3, <1>5, <1>6
  <2>2. QED
    BY <1>4, <2>1
<1>8. ASSUME NEW j \in 1 .. (n + 3), NEW k \in 1 .. (n + 3), more[j] = more[k]
      PROVE  j = k
  <2>1. CASE j > 3 /\ k > 3
    <3>1. list[j - 3] = list[k - 3] /\ j - 3 \in 1 .. n /\ k - 3 \in 1 .. n
      BY <1>5, <1>8, <2>1
    <3>2. j - 3 = k - 3
      BY <1>1, <3>1
    <3>3. QED
      BY <3>2
  <2>2. CASE j > 3 /\ ~(k > 3)
    <3>1. more[j] \notin {a, b, c} /\ more[k] \in {a, b, c}
      BY <1>0, <2>2
    <3>2. QED
      BY <1>8, <3>1
  <2>3. CASE ~(j > 3) /\ k > 3
    <3>1. more[k] \notin {a, b, c} /\ more[j] \in {a, b, c}
      BY <1>0, <2>3
    <3>2. QED
      BY <1>8, <3>1
  <2>4. CASE ~(j > 3) /\ ~(k > 3)
    BY <1>3, <1>6, <1>8, <2>4
  <2>5. QED
    BY <2>1, <2>2, <2>3, <2>4
<1>9. ASSUME NEW k \in 1 .. (n + 3)
      PROVE  new[more[k]].next = IF k = n + 3 THEN Nil ELSE more[k + 1]
  <2>1. CASE k = 1 \/ k = 2
    BY <1>3, <2>1
  <2>2. CASE k = 3
    <3>1. new[more[k]].next = head
      BY <1>3, <2>2
    <3>2. CASE n = 0
      BY <1>1, <2>2, <3>1, <3>2
    <3>3. CASE n # 0
      <4>1. 1 \in 1 .. n /\ 3 + 1 = 1 + 3
        BY <3>3
      <4>2. more[3 + 1] = list[1]
        BY <1>3, <4>1
      <4>3. QED
        BY <1>1, <2>2, <3>1, <3>3, <4>2
    <3>4. QED
      BY <3>2, <3>3
  <2>3. CASE k > 3
    <3>1. more[k] = list[k - 3] /\ k - 3 \in 1 .. n
      BY <1>5, <2>3
    <3>2. list[k - 3] \in DOMAIN desc /\ list[k - 3] \notin {a, b, c}
      BY <1>1, <1>2, <3>1
    <3>3. new[more[k]].next = IF k - 3 = n THEN Nil ELSE list[(k - 3) + 1]
      BY <1>1, <3>1, <3>2
    <3>4. CASE k - 3 = n
      BY <3>3, <3>4
    <3>5. CASE k - 3 # n
      <4>1. (k - 3) + 1 \in 1 .. n /\ ((k - 3) + 1) + 3 = k + 1 /\ k # n + 3
        BY <3>1, <3>5
      <4>2. more[k + 1] = list[(k - 3) + 1]
        BY <1>3, <4>1
      <4>3. QED
        BY <3>3, <3>5, <4>1, <4>2
    <3>6. QED
      BY <3>4, <3>5
  <2>4. QED
    BY <1>6, <2>1, <2>2, <2>3
<1>10. IsFreeList(more, n + 3, new, c)
  BY <1>3, <1>7, <1>8, <1>9 DEF IsFreeList
<1>11. \A d \in DOMAIN new : \E k \in 1 .. (n + 3) : more[k] = d
  <2>1. ASSUME NEW d \in DOMAIN new PROVE \E k \in 1 .. (n + 3) : more[k] = d
    <3>1. CASE d \in {a, b, c}
      BY <1>3, <3>1
    <3>2. CASE d \notin {a, b, c}
      <4>1. PICK k \in 1 .. n : list[k] = d
        BY <1>2, <2>1, <3>2
      <4>2. k + 3 \in 1 .. (n + 3) /\ more[k + 3] = d
        BY <1>3, <4>1
      <4>3. QED
        BY <4>2
    <3>3. QED
      BY <3>1, <3>2
  <2>2. QED
    BY <2>1
<1>12. Shared(more, n + 3, new, <<>>)
  <2>1. Len(<<>>) = 0 /\ DOMAIN <<>> = {} /\ ~(q.size < 3) /\ (n + 3) + 0 = q.size
    BY <1>2
  <2>2. QED
    BY <1>11, <2>1 DEF Shared
<1>13. QED
  BY <1>7, <1>10, <1>12 DEF more

LEMMA CompleteQueue == ASSUME IInv, QInv, Complete PROVE QInv'
<1>1. /\ at = "poll" /\ at' = "idle" /\ UNCHANGED <<bus, dev, pages>> /\ call' = NoCall
      /\ q.used_idx # q.last_used_idx
      /\ q' = Freed(Chain(q.used[q.last_used_idx % q.size]))
      /\ device' = [device EXCEPT !.notified = @ \/ call.request.type = "IN"]
  BY DEF Complete, Renotify
<1>2. PICK a, b, c \in DOMAIN q.desc :
        /\ call.descs = <<a, b, c>> /\ a # b /\ b # c /\ a # c /\ q.size >= 3
        /\ Chain(a) = <<a, b, c>>
  BY <1>1, ChainIs
<1>3. /\ q.size \in 0 .. Nil /\ q.size > 0 /\ DOMAIN q.desc = 0 .. (q.size - 1)
      /\ q.desc \in [0 .. (q.size - 1) -> Descriptor]
      /\ q.last_used_idx \in Indices
  BY <1>1 DEF QInv, Sizes
<1>4. q.used[q.last_used_idx % q.size] = a
  <2>1. call.done /\ ~device.served
    BY <1>1 DEF IInv, Handshake, InQueue
  <2>2. call.descs[1] = a
    BY <1>2
  <2>3. QED
    BY <1>1, <2>1, <2>2 DEF QInv, Offered
<1> DEFINE chain == <<a, b, c>>
           new == [i \in DOMAIN q.desc |->
                     IF i = chain[1] THEN [q.desc[i] EXCEPT !.next = q.free_head]
                     ELSE IF \E k \in 2 .. Len(chain) : chain[k] = i
                     THEN [q.desc[i] EXCEPT !.next = chain[(CHOOSE k \in 2 .. Len(chain) : chain[k] = i) - 1]]
                     ELSE q.desc[i]]
<1>5. /\ chain[1] = a /\ chain[2] = b /\ chain[3] = c /\ Len(chain) = 3
      /\ 2 \in 2 .. Len(chain) /\ 3 \in 2 .. Len(chain)
      /\ \A k \in 2 .. Len(chain) : k = 2 \/ k = 3
  OBVIOUS
<1>6. /\ q'.size = q.size /\ q'.free_head = c /\ q'.desc = new /\ q'.avail = q.avail
      /\ q'.used = q.used /\ q'.avail_idx = q.avail_idx /\ q'.used_idx = q.used_idx
      /\ q'.last_used_idx = (q.last_used_idx + 1) % IdxBound
  <2>1. q' = Freed(chain)
    BY <1>1, <1>2, <1>4
  <2>2. q' = [q EXCEPT !.free_head = chain[Len(chain)], !.desc = new,
                       !.last_used_idx = (@ + 1) % IdxBound]
    BY <2>1 DEF Freed
  <2> HIDE DEF new, chain
  <2>3. QED
    BY <1>5, <2>2 DEF IInv, Shapes
<1> HIDE DEF chain
<1>7. /\ (CHOOSE k \in 2 .. Len(chain) : chain[k] = b) = 2
      /\ (CHOOSE k \in 2 .. Len(chain) : chain[k] = c) = 3
  <2>1. \A k \in 2 .. Len(chain) : (chain[k] = b <=> k = 2) /\ (chain[k] = c <=> k = 3)
    BY <1>2, <1>5
  <2>2. QED
    BY <1>5, <2>1
<1>8. /\ new[a] = [q.desc[a] EXCEPT !.next = q.free_head]
      /\ new[b] = [q.desc[b] EXCEPT !.next = a]
      /\ new[c] = [q.desc[c] EXCEPT !.next = b]
      /\ \A i \in DOMAIN q.desc : i \notin {a, b, c} => new[i] = q.desc[i]
  <2>1. \A i \in DOMAIN q.desc : i = a => new[i] = [q.desc[i] EXCEPT !.next = q.free_head]
    BY <1>5
  <2>2. new[b] = [q.desc[b] EXCEPT !.next = chain[2 - 1]]
    BY <1>2, <1>5, <1>7
  <2>3. new[c] = [q.desc[c] EXCEPT !.next = chain[3 - 1]]
    BY <1>2, <1>5, <1>7
  <2>4. \A i \in DOMAIN q.desc : i \notin {a, b, c} => new[i] = q.desc[i]
    BY <1>5
  <2> HIDE DEF new
  <2>5. QED
    BY <1>2, <1>5, <2>1, <2>2, <2>3, <2>4
<1>9. DOMAIN new = DOMAIN q.desc /\ new = [i \in DOMAIN q.desc |-> new[i]]
  OBVIOUS
<1> HIDE DEF new
<1>10. PICK n \in Nat : \E list \in [1 .. n -> DOMAIN q.desc] :
         IsFreeList(list, n, q.desc, q.free_head) /\ Shared(list, n, q.desc, call.descs)
  BY <1>3 DEF QInv, Remaining
<1>11. PICK list \in [1 .. n -> DOMAIN q.desc] :
         IsFreeList(list, n, q.desc, q.free_head) /\ Shared(list, n, q.desc, call.descs)
  BY <1>10
<1>12. q.free_head \in Int /\ a \in Int /\ b \in Int
  <2>1. q.free_head = Nil \/ (1 \in 1 .. n /\ q.free_head = list[1])
    BY <1>11 DEF IsFreeList
  <2>2. QED
    BY <1>3, <1>11, <2>1, NilType
<1>13. \A i \in DOMAIN q.desc : \A x \in Int :
         /\ [q.desc[i] EXCEPT !.next = x] \in Descriptor
         /\ [q.desc[i] EXCEPT !.next = x].next = x
  <2>1. ASSUME NEW i \in DOMAIN q.desc, NEW x \in Int
        PROVE  /\ [q.desc[i] EXCEPT !.next = x] \in Descriptor
               /\ [q.desc[i] EXCEPT !.next = x].next = x
    <3>1. q.desc[i] \in Descriptor
      BY <1>3
    <3>2. QED
      BY <3>1 DEF Descriptor
  <2>2. QED
    BY <2>1
<1>14. new[a].next = q.free_head /\ new[b].next = a /\ new[c].next = b
  BY <1>2, <1>8, <1>12, <1>13
<1>15. new \in [0 .. (q.size - 1) -> Descriptor]
  <2>1. ASSUME NEW i \in DOMAIN q.desc PROVE new[i] \in Descriptor
    <3>1. CASE i \in {a, b, c}
      BY <1>8, <1>12, <1>13, <3>1
    <3>2. CASE i \notin {a, b, c}
      BY <1>3, <1>8, <3>2
    <3>3. QED
      BY <3>1, <3>2
  <2>2. QED
    BY <1>3, <1>9, <2>1
<1>16. device'.seen = device.seen /\ call'.descs = <<>>
  BY <1>1 DEF IInv, Shapes, NoCall
<1>17. Sizes'
  <2>1. q'.last_used_idx \in Indices
    BY <1>3, <1>6, NextIndex
  <2>2. Sizes /\ bus' = bus /\ dev' = dev /\ pages' = pages /\ at = "poll" /\ at' = "idle"
    BY <1>1 DEF QInv
  <2> HIDE DEF new
  <2>3. QED
    BY <1>6, <1>15, <1>16, <2>1, <2>2, SMTT(30) DEF Sizes
<1>18. Remaining'
  <2> DEFINE more == Returned(list, n, a, b, c)
  <2>1. Shared(list, n, q.desc, <<a, b, c>>) /\ IsFreeList(list, n, q.desc, q.free_head)
    BY <1>2, <1>11
  <2>2. /\ more \in [1 .. (n + 3) -> DOMAIN new]
        /\ IsFreeList(more, n + 3, new, c)
        /\ Shared(more, n + 3, new, <<>>)
    <3>1. /\ a \in DOMAIN q.desc /\ b \in DOMAIN q.desc /\ c \in DOMAIN q.desc
          /\ a # b /\ b # c /\ a # c /\ q.size >= 3
      BY <1>2
    <3>2. DOMAIN new = DOMAIN q.desc
      BY <1>9
    <3>3. \A i \in DOMAIN q.desc : i \notin {a, b, c} => new[i] = q.desc[i]
      BY <1>8
    <3>4. new[a].next = q.free_head /\ new[b].next = a /\ new[c].next = b
      BY <1>14
    <3>5. QED
      BY <2>1, <3>1, <3>2, <3>3, <3>4, <1>11, ThreeBack, SMTT(60)
  <2> HIDE DEF more
  <2>3. Shared(more, n + 3, q.desc, call.descs)'
    BY <1>6, <1>16, <2>2 DEF Shared
  <2>4. n + 3 \in Nat /\ more \in [1 .. (n + 3) -> DOMAIN q'.desc] /\ IsFreeList(more, n + 3, q'.desc, q'.free_head)
    BY <1>6, <2>2
  <2>5. QED
    BY <2>3, <2>4 DEF Remaining
<1>19. QED
  BY <1>1, <1>16, <1>17, <1>18 DEF QInv, Taken, Offered

-----------------------------------------------------------------------------
(* The device's side                                                       *)

LEMMA LookQueue == ASSUME IInv, QInv, DeviceLook PROVE QInv'
<1>1. UNCHANGED <<bus, dev, q, pages, at, call>>
  BY DEF DeviceLook
<1>2. Remaining' /\ Taken'
  BY <1>1, SameLists DEF QInv, Taken
<1>3. CASE q.avail_idx = device.seen
  <2>1. device' = [device EXCEPT !.notified = FALSE]
    BY <1>3 DEF DeviceLook
  <2>2. device'.seen = device.seen /\ device'.chain = device.chain /\ device'.served = device.served
    BY <2>1 DEF IInv, Shapes
  <2>3. Sizes' /\ Offered'
    BY <1>1, <2>2 DEF QInv, Sizes, Offered, Built
  <2>4. QED
    BY <1>2, <2>3 DEF QInv
<1>4. CASE q.avail_idx # device.seen
  <2>1. device' = [device EXCEPT !.chain = q.avail[device.seen % q.size], !.seen = (@ + 1) % IdxBound]
    BY <1>4 DEF DeviceLook
  <2>2. /\ device'.seen = (device.seen + 1) % IdxBound /\ device'.served = device.served
        /\ device'.chain = q.avail[device.seen % q.size]
    BY <2>1 DEF IInv, Shapes
  <2>3. at \in {"notify", "poll"} /\ device.seen = q.last_used_idx /\ ~device.served /\ ~call.done
    <3>1. ~Quiet
      BY <1>4 DEF Quiet
    <3>2. at \in {"notify", "poll"} /\ InQueue
      BY <3>1 DEF IInv, Handshake
    <3>3. QED
      BY <1>4, <3>2 DEF InQueue
  <2>4. device'.seen \in Indices
    BY <2>2, NextIndex DEF QInv, Sizes
  <2>5. Sizes'
    BY <1>1, <2>4 DEF QInv, Sizes
  <2>6. device'.chain = call.descs[1]
    BY <2>2, <2>3 DEF QInv, Offered, Built
  <2>7. Offered'
    BY <1>1, <2>2, <2>3, <2>6 DEF QInv, Offered, Built
  <2>8. QED
    BY <1>2, <2>5, <2>7 DEF QInv
<1>5. QED
  BY <1>3, <1>4

LEMMA ServeQueue == ASSUME IInv, QInv, DeviceServe PROVE QInv'
<1>1. /\ UNCHANGED <<bus, dev, q, pages, at>> /\ device.chain # Nil
      /\ device' = [device EXCEPT !.served = TRUE]
  BY DEF DeviceServe
<1>2. device'.seen = device.seen /\ device'.chain = device.chain /\ device'.served = TRUE
  BY <1>1 DEF IInv, Shapes
<1>3. call'.descs = call.descs /\ call'.request = call.request
  BY ServeInv DEF IInv, Shapes
<1>4. Remaining' /\ Taken'
  BY <1>1, <1>3, SameLists DEF QInv, Taken
<1>5. Sizes' /\ Offered'
  BY <1>1, <1>2, <1>3 DEF QInv, Sizes, Offered, Built
<1>6. QED
  BY <1>4, <1>5 DEF QInv

LEMMA ReportQueue == ASSUME IInv, QInv, DeviceReport PROVE QInv'
<1> DEFINE place == q.used_idx % q.size
           used == [q.used EXCEPT ![place] = device.chain]
<1>1. /\ UNCHANGED <<bus, dev, pages, at, call>> /\ device.served
      /\ device' = [device EXCEPT !.chain = Nil, !.served = FALSE]
      /\ q' = [q EXCEPT !.used = used, !.used_idx = (@ + 1) % IdxBound]
  BY DEF DeviceReport, IInv, Shapes
<1>2. /\ device'.seen = device.seen /\ device'.chain = Nil /\ device'.served = FALSE
      /\ q'.size = q.size /\ q'.free_head = q.free_head /\ q'.desc = q.desc /\ q'.avail = q.avail
      /\ q'.used = used /\ q'.avail_idx = q.avail_idx /\ q'.last_used_idx = q.last_used_idx
      /\ q'.used_idx = (q.used_idx + 1) % IdxBound
  BY <1>1 DEF IInv, Shapes
<1>3. at \in {"notify", "poll"} /\ q.used_idx = q.last_used_idx
  BY <1>1 DEF IInv, Handshake, Quiet, InQueue
<1>4. /\ q.size > 0 /\ q.used_idx \in Indices /\ q.used \in [0 .. (q.size - 1) -> Int]
  BY <1>3 DEF QInv, Sizes
<1>5. place \in 0 .. (q.size - 1)
  BY <1>4, Place
<1>6. device.chain = call.descs[1]
  BY <1>1, <1>3 DEF QInv, Offered
<1>7. device.chain \in Int
  <2>1. PICK a, b, c \in DOMAIN q.desc : call.descs = <<a, b, c>>
    BY <1>3 DEF QInv, Taken
  <2>2. DOMAIN q.desc = 0 .. (q.size - 1) /\ q.size \in Nat
    BY NilType DEF QInv, Sizes
  <2>3. QED
    BY <1>6, <2>1, <2>2
<1> HIDE DEF place
<1>8. used \in [0 .. (q.size - 1) -> Int] /\ used[place] = device.chain
  BY <1>4, <1>5, <1>7
<1> HIDE DEF used
<1>9. Sizes'
  <2>1. q'.used_idx \in Indices
    BY <1>2, <1>4, NextIndex
  <2>2. QED
    BY <1>1, <1>2, <1>8, <2>1 DEF QInv, Sizes
<1>10. Remaining' /\ Taken'
  BY <1>1, <1>2, SameLists DEF QInv, Taken
<1>11. Offered'
  <2>1. q'.used[q'.last_used_idx % q'.size] = call'.descs[1]
    BY <1>1, <1>2, <1>3, <1>6, <1>8 DEF place
  <2>2. Built'
    BY <1>1, <1>2, <1>3 DEF QInv, Offered, Built
  <2>3. QED
    BY <1>1, <1>2, <2>1, <2>2 DEF Offered
<1>12. QED
  BY <1>9, <1>10, <1>11 DEF QInv

LEMMA NextQueue == IInv /\ QInv /\ [Next]_vars => QInv'
<1> SUFFICES ASSUME IInv, QInv, [Next]_vars PROVE QInv'
  OBVIOUS
<1>1. CASE UNCHANGED vars
  <2>1. UNCHANGED <<bus, dev, q, pages, at, call, device>>
    BY <1>1 DEF vars
  <2>2. Remaining'
    BY <2>1, SameLists
  <2>3. QED
    BY <2>1, <2>2 DEF QInv, Sizes, Taken, Offered, Built
<1>2. CASE Driver
  BY <1>1, <1>2, StartQueue, AllocateQueue, BuildQueue, PublishQueue, NotifyQueue, CompleteQueue
     DEF Driver, Poll
<1>3. CASE Client
  BY <1>3, ClientQueue
<1>4. CASE Device
  BY <1>4, LookQueue, ServeQueue, ReportQueue DEF Device
<1>5. QED
  BY <1>1, <1>2, <1>3, <1>4 DEF Next

-----------------------------------------------------------------------------
(* What the driver keeps                                                   *)

LEMMA TypesKept == IInv /\ QInv => TypeOK
BY DEF IInv, Handshake, QInv, Sizes, Indices, TypeOK, After

(* The device can follow the chain it has.                                 *)
LEMMA ChainsWhole ==
  ASSUME IInv, QInv, device.chain # Nil, ~device.served
  PROVE  Whole(device.chain)
<1>1. at \in {"notify", "poll"} /\ call.request # None
  BY DEF IInv, Handshake, Quiet
<1>2. PICK a, b, c \in DOMAIN q.desc :
        call.descs = <<a, b, c>> /\ Chain(a) = <<a, b, c>>
  BY <1>1, ChainIs
<1>3. call.descs[1] = a /\ call.descs[2] = b /\ call.descs[3] = c
  BY <1>2
<1>4. device.chain = a
  BY <1>1, <1>3 DEF QInv, Offered
<1>5. /\ q.desc[a] = [addr |-> "req", flags |-> {"NEXT"}, next |-> b]
      /\ q.desc[b] = [addr |-> "data", flags |-> Direction(call.request), next |-> c]
      /\ q.desc[c] = [addr |-> "status", flags |-> {"WRITE"}, next |-> 0]
  BY <1>1, <1>3 DEF QInv, Offered, Built
<1>6. /\ q.desc[a].addr = "req" /\ q.desc[b].addr = "data" /\ q.desc[c].addr = "status"
      /\ "NEXT" \in q.desc[a].flags
      /\ "WRITE" \in q.desc[b].flags <=> call.request.type = "IN"
  BY <1>5 DEF Direction
<1> DEFINE s == <<a, b, c>>
<1>7. /\ DOMAIN s = 1 .. 3 /\ s[1] = a /\ s[2] = b /\ s[3] = c
  OBVIOUS
<1> HIDE DEF s
<1>8. [k \in DOMAIN s |-> q.desc[s[k]].addr] = <<"req", "data", "status">>
  <2>1. \A k \in 1 .. 3 : k = 1 \/ k = 2 \/ k = 3
    OBVIOUS
  <2>2. \A k \in 1 .. 3 : q.desc[s[k]].addr = <<"req", "data", "status">>[k]
    BY <1>6, <1>7, <2>1
  <2>3. DOMAIN <<"req", "data", "status">> = 1 .. 3
    OBVIOUS
  <2> DEFINE want == <<"req", "data", "status">>
  <2>4. want = [k \in 1 .. 3 |-> want[k]]
    OBVIOUS
  <2> HIDE DEF want
  <2>5. [k \in 1 .. 3 |-> q.desc[s[k]].addr] = [k \in 1 .. 3 |-> want[k]]
    BY <2>2 DEF want
  <2>6. QED
    BY <1>7, <2>4, <2>5 DEF want
<1>9. Chain(a) = s
  BY <1>2 DEF s
<1>10. QED
  BY <1>1, <1>4, <1>6, <1>7, <1>8, <1>9 DEF Whole

(* The free list that the property follows is the list of the invariant.   *)
LEMMA FreeListIs ==
  ASSUME IInv, QInv, q.size >= 3
  PROVE  \E n \in Nat : \E list \in [1 .. n -> DOMAIN q.desc] :
           /\ FreeList = [k \in 1 .. (n + 1) |-> IF k <= n THEN list[k] ELSE Nil]
           /\ Shared(list, n, q.desc, call.descs)
<1>1. /\ q.size \in Nat /\ q.size > 0 /\ DOMAIN q.desc = 0 .. (q.size - 1)
      /\ q.size <= Nil /\ Nil \in Nat
  BY NilType DEF QInv, Sizes
<1>2. PICK n \in Nat : \E list \in [1 .. n -> DOMAIN q.desc] :
         IsFreeList(list, n, q.desc, q.free_head) /\ Shared(list, n, q.desc, call.descs)
  BY <1>1 DEF QInv, Remaining
<1>3. PICK list \in [1 .. n -> DOMAIN q.desc] :
         IsFreeList(list, n, q.desc, q.free_head) /\ Shared(list, n, q.desc, call.descs)
  BY <1>2
<1>4. /\ q.free_head = IF n = 0 THEN Nil ELSE list[1]
      /\ \A k \in 1 .. n : q.desc[list[k]].next = IF k = n THEN Nil ELSE list[k + 1]
      /\ \A k \in 1 .. n : list[k] \in DOMAIN q.desc
  BY <1>3 DEF IsFreeList
<1>5. n <= q.size
  <2>1. Len(call.descs) \in Nat
    <3>1. CASE call.descs = <<>>
      BY <3>1
    <3>2. CASE \E a, b, c \in DOMAIN q.desc : call.descs = <<a, b, c>>
      BY <3>2
    <3>3. QED
      BY <3>1, <3>2 DEF QInv, Taken
  <2>2. n + Len(call.descs) = q.size
    BY <1>3 DEF Shared
  <2>3. QED
    BY <1>1, <2>1, <2>2
<1> DEFINE links == [d \in DOMAIN q.desc |-> q.desc[d].next]
           len == n + 1
           s == [k \in 1 .. len |-> IF k <= n THEN list[k] ELSE Nil]
<1>6. /\ len \in Nat \ {0} /\ len <= q.size + 1 /\ len - 1 = n
      /\ s \in [1 .. len -> Int] /\ s[len] = Nil /\ \A k \in 1 .. n : s[k] = list[k]
  BY <1>1, <1>4, <1>5
<1>7. s[1] = q.free_head
  BY <1>4, <1>6
<1>8. DOMAIN links = DOMAIN q.desc /\ \A d \in DOMAIN q.desc : links[d] = q.desc[d].next
  OBVIOUS
<1>9. FreeList = Follow(links, q.free_head)
  BY DEF FreeList
<1> HIDE DEF links, s
<1>10. \A k \in 1 .. (len - 1) : s[k] \in DOMAIN links /\ links[s[k]] = s[k + 1]
  <2>1. ASSUME NEW k \in 1 .. n PROVE s[k] \in DOMAIN links /\ links[s[k]] = s[k + 1]
    <3>1. s[k] \in DOMAIN links /\ links[s[k]] = IF k = n THEN Nil ELSE list[k + 1]
      BY <1>4, <1>6, <1>8
    <3>2. CASE k = n
      BY <1>6, <3>1, <3>2
    <3>3. CASE k # n
      <4>1. k + 1 \in 1 .. n
        BY <3>3
      <4>2. QED
        BY <1>6, <3>1, <3>3, <4>1
    <3>4. QED
      BY <3>2, <3>3
  <2>2. QED
    BY <1>6, <2>1
<1>11. s[len] \notin DOMAIN links
  BY <1>1, <1>6, <1>8
<1> HIDE DEF len
<1>12. Follow(links, s[1]) = s
  BY <1>1, <1>6, <1>10, <1>11, FollowIs
<1>13. QED
  BY <1>3, <1>7, <1>9, <1>12 DEF s, len

(* Every descriptor is on the free list or in the request, once.           *)
LEMMA NothingLost ==
  ASSUME IInv, QInv, q.size >= 3
  PROVE  /\ Len(FreeList) + Len(call.descs) = q.size + 1
         /\ {FreeList[k] : k \in DOMAIN FreeList} \cup {call.descs[k] : k \in DOMAIN call.descs}
              = DOMAIN q.desc \cup {Nil}
<1>1. PICK n \in Nat : \E list \in [1 .. n -> DOMAIN q.desc] :
        /\ FreeList = [k \in 1 .. (n + 1) |-> IF k <= n THEN list[k] ELSE Nil]
        /\ Shared(list, n, q.desc, call.descs)
  BY FreeListIs
<1>2. PICK list \in [1 .. n -> DOMAIN q.desc] :
        /\ FreeList = [k \in 1 .. (n + 1) |-> IF k <= n THEN list[k] ELSE Nil]
        /\ Shared(list, n, q.desc, call.descs)
  BY <1>1
<1> DEFINE F == FreeList
           D == call.descs
<1>3. /\ DOMAIN F = 1 .. (n + 1) /\ F[n + 1] = Nil /\ \A k \in 1 .. n : F[k] = list[k]
      /\ \A k \in 1 .. (n + 1) : k \in 1 .. n \/ k = n + 1
  BY <1>2
<1>4. Len(F) = n + 1
  <2>1. DOMAIN q.desc \subseteq Int /\ Nil \in Int
    BY NilType DEF QInv, Sizes
  <2>2. F \in [1 .. (n + 1) -> Int]
    BY <1>2, <2>1
  <2> HIDE DEF F
  <2>3. QED
    BY <2>2
<1>5. /\ \A j \in DOMAIN D : D[j] \in DOMAIN q.desc
      /\ Len(D) \in Nat
  <2>1. CASE D = <<>>
    BY <2>1
  <2>2. CASE \E a, b, c \in DOMAIN q.desc : D = <<a, b, c>>
    BY <2>2
  <2>3. QED
    BY <2>1, <2>2 DEF QInv, Taken
<1>6. /\ n + Len(D) = q.size
      /\ \A d \in DOMAIN q.desc : (\E k \in 1 .. n : list[k] = d) \/ (\E j \in DOMAIN D : D[j] = d)
  BY <1>2 DEF Shared
<1> HIDE DEF F, D
<1>7. Len(F) + Len(D) = q.size + 1
  BY <1>4, <1>5, <1>6
<1>8. {F[k] : k \in DOMAIN F} \cup {D[k] : k \in DOMAIN D} = DOMAIN q.desc \cup {Nil}
  <2>1. \A k \in DOMAIN F : F[k] \in DOMAIN q.desc \cup {Nil}
    BY <1>3
  <2>2. ASSUME NEW d \in DOMAIN q.desc \cup {Nil}
        PROVE  d \in {F[k] : k \in DOMAIN F} \cup {D[k] : k \in DOMAIN D}
    <3>1. CASE d = Nil
      BY <1>3, <3>1
    <3>2. CASE \E k \in 1 .. n : list[k] = d
      <4>1. PICK k \in 1 .. n : list[k] = d
        BY <3>2
      <4>2. k \in DOMAIN F /\ F[k] = d
        BY <1>3, <4>1
      <4>3. QED
        BY <4>2
    <3>3. CASE \E j \in DOMAIN D : D[j] = d
      BY <3>3
    <3>4. QED
      BY <1>6, <2>2, <3>1, <3>2, <3>3
  <2>3. QED
    BY <1>5, <2>1, <2>2
<1>9. QED
  BY <1>7, <1>8 DEF F, D

(* Whatever driver and device do, no descriptor is lost or used twice, and *)
(* each chain the device is given is one it can follow                     *)
(* (virtio_submit_request).                                                *)
THEOREM Descriptors == Spec => []DescriptorsKept
<1>1. Init => IInv /\ QInv
  BY InitInv, InitQueue
<1>2. IInv /\ QInv /\ [Next]_vars => IInv' /\ QInv'
  BY NextInv, NextQueue
<1>3. IInv /\ QInv => DescriptorsKept
  BY TypesKept, ChainsWhole, NothingLost DEF DescriptorsKept
<1>4. QED
  BY <1>1, <1>2, <1>3, PTL DEF Spec
=============================================================================
