----------------------------- MODULE VirtioBlk -----------------------------
(***************************************************************************)
(* The virtio block driver: finding and starting a device on the bus, and  *)
(* requests through its one queue                                          *)
(* (modules2/src2/virtio_bus_controller/virtio_bus_controller.c and        *)
(* modules2/src2/virt_blk_device/blk.c).                                   *)
(*                                                                         *)
(* The device runs beside the driver, and the two share the queue in       *)
(* memory: a step is what one of them does between two accesses the other  *)
(* can tell apart.  The device itself is external: it wakes up when it is  *)
(* notified, takes what the queue offers, and sleeps when it offers nothing*)
(***************************************************************************)
EXTENDS Integers, Sequences, FiniteSetsExt

CONSTANTS
  None,
  Setups,     \* what may be on the bus: sequences of devices, by address
  Value,      \* what a sector may hold
  Request,    \* what clients ask for: [type, sector, data]
  Capacity,   \* the sectors of the disk
  QueueSize,  \* the size the driver asks for: 8
  IdxBound,   \* the indices of the queue are counted modulo this: 2^16
  Pages,      \* the free pages when the driver starts
  Pattern     \* what a buffer is filled with before a read: bytes of 0xAA

(* Descriptors are counted in 16 bits, and 0xFFFF is none of them.  Nobody  *)
(* looks whether the four pages of the start are there.                    *)
Nil == 65535
ASSUME SizesAssumption ==
  /\ QueueSize \in 1 .. Nil /\ IdxBound \in Nat \ {0} /\ Pages \in Nat \ (0 .. 3)
  /\ Setups \subseteq Seq([magic : BOOLEAN, id : Nat, version : Nat, version1 : BOOLEAN,
                           event : BOOLEAN, accepts : BOOLEAN, max : Nat])

ASSUME VirtioAssumption ==
  /\ Capacity \in Nat
  /\ Value \subseteq Nat /\ Value # {}
  /\ Request \subseteq [type : {"IN", "OUT"}, sector : Nat, data : Seq(Value \cup {None})]

(* None is neither a request nor one under way.                            *)
ASSUME NoneAssumption ==
  LET Asked == [type : {"IN", "OUT"}, sector : Nat, data : Seq(Value \cup {None, Pattern})]
  IN  None \notin Asked /\ None \notin [request : Asked, done : BOOLEAN]

VARIABLES
  bus,    \* the devices: [magic, id, version, version1, event, accepts, max]
  regs,   \* the registers of the device found: status and negotiated features
  dev,    \* the driver's record of it: base and capacity, or None
  q,      \* the queue
  pages,  \* how many pages are free
  at,     \* what the driver does next
  call,   \* the request under way: [request, descs, buffer, status, done]
  ret,    \* the last answer of the driver: the buffer, or <<>>
  disk,   \* what is in each sector
  device  \* the device's own: notified, how far it looked, the chain it has,
          \* whether that is served

vars == <<bus, regs, dev, q, pages, at, call, ret, disk, device>>

BlockDevice2 == 2     \* the device id of a block device

NoCall == [request |-> None, descs |-> <<>>, buffer |-> <<>>, status |-> 255, done |-> FALSE]
NoQueue == [size |-> 0, free_head |-> 0, last_used_idx |-> 0, desc |-> <<>>, avail_idx |-> 0,
            avail |-> <<>>, used_idx |-> 0, used |-> <<>>]

Init ==
  /\ bus \in Setups
  /\ regs = [status |-> {}, features |-> {}, ready |-> FALSE]
  /\ dev = None
  /\ q = NoQueue
  /\ pages = Pages
  /\ at = "find"
  /\ call = NoCall
  /\ ret = None
  /\ disk \in [0 .. (Capacity - 1) -> {Min(Value)}]
  /\ device = [notified |-> FALSE, seen |-> 0, chain |-> Nil, served |-> FALSE]

-----------------------------------------------------------------------------
(* Starting                                                                *)

(* The first device with the id, whatever version it has.                  *)
find_virtio_device(id) ==
  LET found == {b \in DOMAIN bus : bus[b].magic /\ bus[b].id = id}
  IN  IF found = {} THEN 0 ELSE Min(found)

FindDevice ==
  /\ at = "find"
  /\ dev' = [base |-> find_virtio_device(BlockDevice2), capacity |-> 0]
  /\ at' = IF find_virtio_device(BlockDevice2) = 0 THEN "down" ELSE "init"
  /\ UNCHANGED <<bus, regs, q, pages, call, ret, disk, device>>

Event(b) == IF b.event THEN {"EVENT_IDX"} ELSE {}
Modern(b) == IF b.version1 THEN {"VERSION_1"} ELSE {}

(* The features are written before and again after FEATURES_OK.  Nobody    *)
(* looks at the result.                                                    *)
virtio_mmio_common_init ==
  /\ at = "init"
  /\ \E b \in {bus[dev.base]} :
       regs' = IF b.version # 2 THEN regs
               ELSE [regs EXCEPT !.status = {"ACKNOWLEDGE", "DRIVER"}
                                              \cup (IF b.accepts THEN {"FEATURES_OK"} ELSE {}),
                                 !.features = Modern(b) \cup Event(b)]
  /\ at' = "create"
  /\ UNCHANGED <<bus, dev, q, pages, call, ret, disk, device>>

Down ==
  /\ dev' = None
  /\ at' = "down"
  /\ UNCHANGED <<bus, regs, q, call, ret, disk, device>>

(* A page each for descriptors, available and used ring.                   *)
virtio_setup_queue(size) ==
  [NoQueue EXCEPT
     !.size = size,
     !.desc = [i \in 0 .. (size - 1) |->
                 [addr |-> None, flags |-> {}, next |-> IF i = size - 1 THEN Nil ELSE i + 1]],
     !.avail = [i \in 0 .. (size - 1) |-> 0],
     !.used = [i \in 0 .. (size - 1) |-> 0]]

(* Whether the device accepted the features is not asked again.            *)
virtio_blk_create ==
  /\ at = "create"
  /\ \E b \in {bus[dev.base]} :
       \/ (b.version # 2 \/ ~b.version1) /\ Down /\ UNCHANGED pages
       \/ b.version = 2 /\ b.version1 /\ b.max = 0 /\ Down /\ pages' = pages - 1
       \/ /\ b.version = 2 /\ b.version1 /\ b.max > 0
          /\ pages' = pages - 4
          /\ q' = virtio_setup_queue(Min({QueueSize, b.max}))
          /\ regs' = [regs EXCEPT !.status = @ \cup {"DRIVER_OK"}, !.ready = TRUE]
          /\ dev' = [dev EXCEPT !.capacity = Capacity]
          /\ at' = "idle"
          /\ UNCHANGED <<bus, call, ret, disk, device>>

-----------------------------------------------------------------------------
(* Requests.  A page each for the header and the status byte; they are not *)
(* given back.                                                             *)

Refuse ==
  /\ ret' = <<>>
  /\ call' = NoCall
  /\ at' = IF at = "down" THEN "down" ELSE "idle"
  /\ UNCHANGED <<bus, regs, dev, disk>>

(* A read notifies the device at its end, whatever became of it.           *)
Renotify == device' = [device EXCEPT !.notified = @ \/ call.request.type = "IN"]

Begin(r, buffer) ==
  \/ pages < 2 /\ pages' = 0 /\ Refuse /\ UNCHANGED <<q, device>>
  \/ /\ pages >= 2
     /\ pages' = pages - 2
     /\ call' = [NoCall EXCEPT !.request = r, !.buffer = buffer]
     /\ at' = "allocate"
     /\ UNCHANGED <<bus, regs, dev, q, ret, disk, device>>

(* The pattern that shows what was not read covers one sector.             *)
virtio_blk_read(r) ==
  /\ r.type = "IN"
  /\ \/ at = "down" /\ Refuse /\ UNCHANGED <<q, pages, device>>
     \/ at = "idle" /\ r.sector >= dev.capacity /\ Refuse /\ UNCHANGED <<q, pages, device>>
     \/ at = "idle" /\ r.sector < dev.capacity /\ Begin(r, [r.data EXCEPT ![1] = Pattern])

(* Without a device the call ends in a null pointer.                       *)
virtio_blk_write(r) ==
  /\ r.type = "OUT"
  /\ \/ at = "idle" /\ r.sector >= dev.capacity /\ Refuse /\ UNCHANGED <<q, pages, device>>
     \/ at = "idle" /\ r.sector < dev.capacity /\ Begin(r, r.data)

(* The order in which a request becomes visible to the device.             *)
After == [allocate |-> "build", build |-> "publish", publish |-> "notify", notify |-> "poll"]

Advance(from) == at = from /\ at' = After[from] /\ UNCHANGED <<bus, regs, dev, pages, ret, disk>>

(* The k-th descriptor of the free list.                                   *)
Free(k) ==
  LET from[n \in 1 .. 4] ==
        IF n = 1 THEN q.free_head
        ELSE LET d == from[n - 1] IN IF d = Nil THEN Nil ELSE q.desc[d].next
  IN  from[k]

(* Three descriptors from the free list; those of a request that does not  *)
(* get enough of them are lost.                                            *)
Allocate ==
  \/ /\ at = "allocate" /\ Free(3) # Nil
     /\ call' = [call EXCEPT !.descs = <<Free(1), Free(2), Free(3)>>]
     /\ q' = [q EXCEPT !.free_head = Free(4)]
     /\ Advance("allocate") /\ UNCHANGED device
  \/ /\ at = "allocate" /\ Free(3) = Nil
     /\ q' = [q EXCEPT !.free_head = Nil]
     /\ UNCHANGED pages
     /\ Refuse /\ Renotify

(* The chain, and its entry in the available ring.                         *)
Build ==
  LET d == call.descs
      direction == IF call.request.type = "IN" THEN {"NEXT", "WRITE"} ELSE {"NEXT"}
  IN
  /\ Advance("build") /\ UNCHANGED <<call, device>>
  /\ q' = [q EXCEPT !.desc[d[1]] = [addr |-> "req", flags |-> {"NEXT"}, next |-> d[2]],
                    !.desc[d[2]] = [addr |-> "data", flags |-> direction, next |-> d[3]],
                    !.desc[d[3]] = [addr |-> "status", flags |-> {"WRITE"}, next |-> 0],
                    !.avail[q.avail_idx % q.size] = d[1]]

Publish ==
  /\ Advance("publish") /\ UNCHANGED <<call, device>>
  /\ q' = [q EXCEPT !.avail_idx = (@ + 1) % IdxBound]

Notify ==
  /\ Advance("notify") /\ UNCHANGED <<call, q>>
  /\ device' = [device EXCEPT !.notified = TRUE]

(* What is met from d on, where links says what is behind what.            *)
Follow(links, d) ==
  LET from[n \in 0 .. q.size] ==
        IF n = 0 THEN <<d>>
        ELSE LET s == from[n - 1]
             IN  IF s[Len(s)] \in DOMAIN links THEN Append(s, links[s[Len(s)]]) ELSE s
  IN  from[q.size]

(* The descriptors of the chain that starts at d.                          *)
Chain(d) ==
  Follow([c \in {i \in DOMAIN q.desc : "NEXT" \in q.desc[i].flags} |-> q.desc[c].next], d)

(* Faulty variant: the last descriptor of the chain is forgotten.          *)
FreedShort(chain) ==
  [q EXCEPT !.free_head = chain[Len(chain) - 1],
            !.desc = [i \in DOMAIN @ |->
               IF i = chain[1] THEN [@[i] EXCEPT !.next = q.free_head]
               ELSE IF \E k \in 2 .. (Len(chain) - 1) : chain[k] = i
               THEN [@[i] EXCEPT !.next = chain[(CHOOSE k \in 2 .. Len(chain) : chain[k] = i) - 1]] ELSE @[i]],
            !.last_used_idx = (@ + 1) % IdxBound]

(* Faulty variant: the index of the used ring is not moved on.             *)
FreedStays(chain) ==
  [q EXCEPT !.free_head = chain[Len(chain)],
            !.desc = [i \in DOMAIN @ |->
               IF i = chain[1] THEN [@[i] EXCEPT !.next = q.free_head]
               ELSE IF \E k \in 2 .. Len(chain) : chain[k] = i
               THEN [@[i] EXCEPT !.next = chain[(CHOOSE k \in 2 .. Len(chain) : chain[k] = i) - 1]] ELSE @[i]]]

(* Each descriptor of the chain goes to the head of the free list.         *)
Freed(chain) ==
  [q EXCEPT !.free_head = chain[Len(chain)],
            !.desc = [i \in DOMAIN @ |->
               IF i = chain[1] THEN [@[i] EXCEPT !.next = q.free_head]
               ELSE IF \E k \in 2 .. Len(chain) : chain[k] = i
               THEN [@[i] EXCEPT !.next = chain[(CHOOSE k \in 2 .. Len(chain) : chain[k] = i) - 1]] ELSE @[i]],
            !.last_used_idx = (@ + 1) % IdxBound]

Poll ==
  /\ at = "poll" /\ q.used_idx = q.last_used_idx
  /\ UNCHANGED vars

(* The answer is 0 whatever the status says.                               *)
Complete ==
  /\ at = "poll" /\ q.used_idx # q.last_used_idx
  /\ q' = Freed(Chain(q.used[q.last_used_idx % q.size]))
  /\ ret' = call.buffer
  /\ call' = NoCall
  /\ at' = "idle"
  /\ Renotify
  /\ UNCHANGED <<bus, regs, dev, pages, disk>>

-----------------------------------------------------------------------------
(* The device                                                              *)

DeviceLook ==
  /\ device.notified /\ device.chain = Nil
  /\ regs.ready /\ "DRIVER_OK" \in regs.status
  /\ device' = IF q.avail_idx = device.seen THEN [device EXCEPT !.notified = FALSE]
               ELSE [device EXCEPT !.chain = q.avail[device.seen % q.size], !.seen = (@ + 1) % IdxBound]
  /\ UNCHANGED <<bus, regs, dev, q, pages, at, call, ret, disk>>

(* A chain the device can follow is a header, data and a status byte.              *)
Whole(d) ==
  /\ call.request # None
  /\ "NEXT" \in q.desc[d].flags
  /\ [k \in DOMAIN Chain(d) |-> q.desc[Chain(d)[k]].addr] = <<"req", "data", "status">>
  /\ "WRITE" \in q.desc[Chain(d)[2]].flags <=> call.request.type = "IN"

Sectors(r) == r.sector .. (r.sector + Len(r.data) - 1)

DeviceServe ==
  /\ device.chain # Nil /\ ~device.served /\ Whole(device.chain)
  /\ device' = [device EXCEPT !.served = TRUE]
  /\ \/ /\ ~(Sectors(call.request) \subseteq DOMAIN disk)
        /\ call' = [call EXCEPT !.status = 1, !.done = TRUE]
        /\ UNCHANGED disk
     \/ /\ Sectors(call.request) \subseteq DOMAIN disk
        /\ \E r \in {call.request} :
           \/ /\ r.type = "IN"
              /\ call' = [call EXCEPT !.status = 0, !.done = TRUE,
                                      !.buffer = [k \in DOMAIN r.data |-> disk[r.sector + k - 1]]]
              /\ UNCHANGED disk
           \/ /\ r.type = "OUT"
              /\ call' = [call EXCEPT !.status = 0, !.done = TRUE]
              /\ disk' = [s \in DOMAIN disk |->
                            IF s \in Sectors(r) THEN r.data[s - r.sector + 1] ELSE disk[s]]
  /\ UNCHANGED <<bus, regs, dev, q, pages, at, ret>>

DeviceReport ==
  /\ device.served
  /\ q' = [q EXCEPT !.used[q.used_idx % q.size] = device.chain, !.used_idx = (@ + 1) % IdxBound]
  /\ device' = [device EXCEPT !.chain = Nil, !.served = FALSE]
  /\ UNCHANGED <<bus, regs, dev, pages, at, call, ret, disk>>

-----------------------------------------------------------------------------

Driver ==
  \/ FindDevice \/ virtio_mmio_common_init \/ virtio_blk_create
  \/ Allocate \/ Build \/ Publish \/ Notify \/ Poll \/ Complete
Client == \E r \in Request : virtio_blk_read(r) \/ virtio_blk_write(r)
Device == DeviceLook \/ DeviceServe \/ DeviceReport

Next == Driver \/ Client \/ Device

(* The driver runs when nothing else does, and the device works.           *)
Spec == Init /\ [][Next]_vars /\ WF_vars(Driver) /\ WF_vars(Device)

-----------------------------------------------------------------------------
(* Properties                                                              *)

TypeOK ==
  /\ pages \in 0 .. Pages
  /\ at \in {"find", "init", "create", "down", "idle", "poll"} \cup DOMAIN After
  /\ DOMAIN q.desc = 0 .. (q.size - 1)
  /\ {q.avail_idx, q.used_idx, q.last_used_idx, device.seen} \subseteq 0 .. (IdxBound - 1)

(* The free descriptors, in the order of the list, and what ends it.       *)
FreeList == Follow([d \in DOMAIN q.desc |-> q.desc[d].next], q.free_head)

(* With room for one request every descriptor is on the free list or in the*)
(* request under way, once: nothing is lost however many requests there    *)
(* are, and the device is only ever given chains it can follow.            *)
DescriptorsKept ==
  /\ TypeOK
  /\ device.chain # Nil /\ ~device.served => Whole(device.chain)
  /\ q.size >= 3 =>
       /\ Len(FreeList) + Len(call.descs) = q.size + 1
       /\ {FreeList[k] : k \in DOMAIN FreeList} \cup {call.descs[k] : k \in DOMAIN call.descs}
            = DOMAIN q.desc \cup {Nil}

(* Though the device sleeps until it is told, and the driver waits for it  *)
(* without a limit, no request waits for ever.                             *)
RequestsEnd == call.request # None ~> call.request = None

(* A request is answered only when the device has done it or failed it,    *)
(* exactly once, and what was read is what was on the disk at the time.    *)
Promise == INSTANCE BlockDevice WITH
  pending <- IF call.request = None THEN None
             ELSE [request |-> [call.request EXCEPT !.data = IF call.done THEN call.buffer ELSE @],
                   done |-> call.done],
  answer <- ret
ImplementsBlockDevice == Promise!Spec
=============================================================================
