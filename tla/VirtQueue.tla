----------------------------- MODULE VirtQueue -----------------------------
(***************************************************************************)
(* A virtio device on the MMIO bus (virtio.cpp): the register file, the    *)
(* queues in guest memory, the interrupt line, and the request handlers of *)
(* the block, network and console devices.  A chain of descriptors is      *)
(* named by its head and abstracted to what the handlers tell apart        *)
(* (Kinds).  The guest driver and the disk are external: the driver is the *)
(* well-behaved one that owns a chain until it is made available and again *)
(* after the device returned it.                                           *)
(*                                                                         *)
(* One host thread runs the harts and all device code, so a handler is one *)
(* step; an asynchronous disk calls virtio_block_req_cb between steps.     *)
(***************************************************************************)
EXTENDS Integers

CONSTANTS Devices,        \* the devices to run: records [kind, async, chains]
          Queues,         \* queue numbers; 0 receives, 1 transmits
          Heads,          \* chain heads of one queue
          MAX_QUEUE_NUM,  \* ring size after a reset
          IDX,            \* modulus of the 16-bit ring indices
          Resets          \* bound on device resets

\* The sizes a queue can have are powers of two, and divide the range of the
\* indices, which is larger (65536 in the code).
Sizes == {1, 2, 4, 8, 16}

ASSUME RingAssumption ==
    /\ MAX_QUEUE_NUM \in Sizes
    /\ IDX \in Nat /\ MAX_QUEUE_NUM < IDX /\ IDX % MAX_QUEUE_NUM = 0
    /\ Resets \in Nat

ASSUME DeviceAssumption ==
    /\ 0 \in Queues
    /\ \A d \in Devices : /\ d.kind \in {"block", "net", "console"}
                          /\ d.async \in BOOLEAN
                          /\ d.chains \subseteq Queues \X Heads

\* "data": a chain the handler completes; "order": a readable descriptor after
\* a writable one; "short": no room for the request header; "other": a request
\* type the block device does not know; "small": a receive buffer that is too
\* small for a packet.
Kinds == {"data", "order", "short", "other", "small"}

VARIABLES dev,         \* the device, fixed
          irq,         \* the interrupt line
          int_status,  \* bits of the interrupt status register
          queue_sel,
          queue,       \* QueueState of each queue; addr: the ring addresses are set
          ring,        \* guest memory: avail and used rings of each queue
          chain,       \* per queue and head: who owns it and its kind
          last_used,   \* the driver's index into the used ring
          kick,        \* queues with a notification the driver still has to write
          req,         \* the block request in progress
          resets

vars == <<dev, irq, int_status, queue_sel, queue, ring, chain, last_used, kick, req, resets>>

EmptyRing == [aidx |-> 0, avail |-> [i \in 0..(MAX_QUEUE_NUM - 1) |-> 0], uidx |-> 0,
              used |-> [i \in 0..(MAX_QUEUE_NUM - 1) |-> 0]]

QueueStates == [ready : {0, 1}, num : 1..MAX_QUEUE_NUM, last_avail_idx : 0..(IDX - 1), addr : BOOLEAN]

Slots == [0..(MAX_QUEUE_NUM - 1) -> Heads \cup {0}]
Rings == [aidx : 0..(IDX - 1), avail : Slots, uidx : 0..(IDX - 1), used : Slots]

Own(kind) == [owner |-> "driver", kind |-> kind]

TypeOK ==
    /\ dev \in Devices
    /\ irq \in {0, 1}
    /\ int_status \subseteq {1, 2}
    /\ queue_sel \in Queues
    /\ queue \in [Queues -> QueueStates]
    /\ ring \in [Queues -> Rings]
    /\ chain \in [Queues -> [Heads -> [owner : {"driver", "device"}, kind : Kinds]]]
    /\ last_used \in [Queues -> 0..(IDX - 1)]
    /\ kick \subseteq Queues
    /\ req \in [busy : BOOLEAN, queue_idx : Queues, desc_idx : Heads \cup {0}]
    /\ resets \in 0..Resets

(***************************************************************************)
(* Device code.  st is the state a handler may change.                     *)
(***************************************************************************)
manual_recv(q) == q = 0 /\ dev.kind /= "block"

ResetQueue == [ready |-> 0, num |-> MAX_QUEUE_NUM, last_avail_idx |-> 0, addr |-> FALSE]

\* A read of an index or ring entry gives 0 where there is no memory.
AvailIdx(q) == IF queue[q].addr THEN ring[q].aidx ELSE 0

\* get_desc_rw_size fails on a readable descriptor after a writable one.
RwSizeOk(q, h) == chain[q][h].kind /= "order"

\* Mutant: the used index is not cut to its 16 bits.
MutConsumeWide(st, q, h) ==
    LET r == st.ring[q]
    IN  [st EXCEPT !.ring[q] = [r EXCEPT !.uidx = r.uidx + 1, !.used[r.uidx % queue[q].num] = h],
                   !.int_status = @ \cup {1},
                   !.irq = 1]

\* Mutant: the element is written after the index moved, into the next slot.
MutConsumeNext(st, q, h) ==
    LET r == st.ring[q]
    IN  [st EXCEPT !.ring[q] = [r EXCEPT !.uidx = (r.uidx + 1) % IDX, !.used[(r.uidx + 1) % queue[q].num] = h],
                   !.int_status = @ \cup {1},
                   !.irq = 1]

virtio_consume_desc(st, q, h) ==
    LET r == st.ring[q]
    IN  [st EXCEPT !.ring[q] = [r EXCEPT !.uidx = (r.uidx + 1) % IDX, !.used[r.uidx % queue[q].num] = h],
                   !.int_status = @ \cup {1},
                   !.irq = 1]

\* Mutant: a request is accepted while another is in progress.
MutBlockRecv(st, q, h, disk) ==
    IF chain[q][h].kind \in {"short", "other"} THEN st
    ELSE IF disk[h] = "async" THEN [st EXCEPT !.req = [busy |-> TRUE, queue_idx |-> q, desc_idx |-> h]]
    ELSE virtio_consume_desc([st EXCEPT !.req.queue_idx = q, !.req.desc_idx = h], q, h)

\* -1 (the request must be retried) is st.stop.  disk says how the disk
\* answers: at once, or later through the callback.
virtio_block_recv_request(st, q, h, disk) ==
    IF st.req.busy THEN [st EXCEPT !.stop = TRUE]
    ELSE IF chain[q][h].kind = "short" THEN st
    ELSE IF chain[q][h].kind = "other" THEN [st EXCEPT !.req.queue_idx = q, !.req.desc_idx = h]
    ELSE IF disk[h] = "async" THEN [st EXCEPT !.req = [busy |-> TRUE, queue_idx |-> q, desc_idx |-> h]]
    ELSE virtio_consume_desc([st EXCEPT !.req.queue_idx = q, !.req.desc_idx = h], q, h)

\* The network device transmits a packet that has a header; a chain too short
\* for one is not given back.
virtio_net_recv_request(st, q, h) ==
    IF q = 1 /\ chain[q][h].kind /= "short" THEN virtio_consume_desc(st, q, h) ELSE st

virtio_console_recv_request(st, q, h) == IF q = 1 THEN virtio_consume_desc(st, q, h) ELSE st

device_recv(st, q, h, disk) ==
    CASE dev.kind = "block" -> virtio_block_recv_request(st, q, h, disk)
      [] dev.kind = "net" -> virtio_net_recv_request(st, q, h)
      [] dev.kind = "console" -> virtio_console_recv_request(st, q, h)

\* The number of entries from last_avail_idx to the avail index read at the
\* start, and the one at offset i.
Waiting(q) == (AvailIdx(q) - queue[q].last_avail_idx) % IDX

Entry(q, i) == ring[q].avail[((queue[q].last_avail_idx + i) % IDX) % queue[q].num]

NotifyStep(st, q, h, disk) ==
    LET st1 == IF RwSizeOk(q, h) THEN device_recv(st, q, h, disk) ELSE st
    IN  IF st.stop \/ st1.stop THEN [st EXCEPT !.stop = TRUE]
        ELSE [st1 EXCEPT !.last = (@ + 1) % IDX]

\* The device state after each turn of queue_notify's loop, from st.
NotifyLoop(st, q, disk) ==
    LET turn[i \in 0..Waiting(q)] ==
            IF i = 0 THEN st ELSE NotifyStep(turn[i - 1], q, Entry(q, i - 1), disk)
    IN  turn

queue_notify(st, q, disk) == IF manual_recv(q) THEN st ELSE NotifyLoop(st, q, disk)[Waiting(q)]

Now(q) == [ring |-> ring, int_status |-> int_status, irq |-> irq, req |-> req, last |-> queue[q].last_avail_idx, stop |-> FALSE]

Become(st, q) ==
    /\ ring' = st.ring
    /\ int_status' = st.int_status
    /\ irq' = st.irq
    /\ req' = st.req
    /\ queue' = [queue EXCEPT ![q].last_avail_idx = st.last]

Disks == [Heads -> IF dev.async THEN {"now", "async"} ELSE {"now"}]

(***************************************************************************)
(* MMIO registers, written by the driver.                                  *)
(***************************************************************************)
\* The driver selects a queue to set it up.
MmioQueueSel(v) ==
    /\ queue[v].ready = 0
    /\ queue_sel' = v
    /\ UNCHANGED <<dev, irq, int_status, queue, ring, chain, last_used, kick, req, resets>>

\* A size that is not a power of two is ignored; the driver writes none above
\* the maximum it has read.
MmioQueueNum(v) ==
    /\ queue[queue_sel].ready = 0
    /\ queue' = IF v \in Sizes THEN [queue EXCEPT ![queue_sel].num = v] ELSE queue
    /\ UNCHANGED <<dev, irq, int_status, queue_sel, ring, chain, last_used, kick, req, resets>>

\* The six address registers; the driver clears the rings it hands over.
MmioQueueAddr ==
    /\ queue[queue_sel].ready = 0
    /\ queue' = [queue EXCEPT ![queue_sel].addr = TRUE]
    /\ ring' = [ring EXCEPT ![queue_sel] = EmptyRing]
    /\ last_used' = [last_used EXCEPT ![queue_sel] = 0]
    /\ UNCHANGED <<dev, irq, int_status, queue_sel, chain, kick, req, resets>>

MmioQueueReady ==
    /\ queue[queue_sel].addr
    /\ queue[queue_sel].ready = 0
    /\ queue' = [queue EXCEPT ![queue_sel].ready = 1]
    /\ UNCHANGED <<dev, irq, int_status, queue_sel, ring, chain, last_used, kick, req, resets>>

MmioQueueNotify(q) ==
    /\ q \in kick
    /\ kick' = kick \ {q}
    /\ \E disk \in Disks : Become(queue_notify(Now(q), q, disk), q)
    /\ UNCHANGED <<dev, queue_sel, chain, last_used, resets>>

\* Mutant: the line falls on any acknowledge.
MutAck(bits) ==
    /\ int_status' = int_status \ bits
    /\ irq' = 0
    /\ UNCHANGED <<dev, queue_sel, queue, ring, chain, last_used, kick, req, resets>>

MmioInterruptAck(bits) ==
    /\ int_status' = int_status \ bits
    /\ irq' = IF int_status' = {} THEN 0 ELSE irq
    /\ UNCHANGED <<dev, queue_sel, queue, ring, chain, last_used, kick, req, resets>>

\* STATUS = 0: virtio_reset, which leaves a request in progress alone; the
\* driver takes all its chains back.  It resets a quiet device only.
MmioReset ==
    /\ resets < Resets
    /\ ~req.busy
    /\ resets' = resets + 1
    /\ irq' = 0
    /\ int_status' = {}
    /\ queue_sel' = 0
    /\ queue' = [q \in Queues |-> ResetQueue]
    /\ ring' = [q \in Queues |-> EmptyRing]
    /\ last_used' = [q \in Queues |-> 0]
    /\ chain' = [q \in Queues |-> [h \in Heads |-> Own("data")]]
    /\ kick' = {}
    /\ UNCHANGED <<dev, req>>

(***************************************************************************)
(* Calls from the host side.                                               *)
(***************************************************************************)

\* Mutant: the queue is not looked at again after the completion.
MutReqCb ==
    /\ req.busy
    /\ LET q == req.queue_idx
       IN  Become([virtio_consume_desc(Now(q), q, req.desc_idx) EXCEPT !.req.busy = FALSE], q)
    /\ UNCHANGED <<dev, queue_sel, chain, last_used, kick, resets>>

\* The disk finishes: virtio_block_req_end, then the next requests.
virtio_block_req_cb ==
    /\ req.busy
    /\ LET q == req.queue_idx
           done == [virtio_consume_desc(Now(q), q, req.desc_idx) EXCEPT !.req.busy = FALSE]
       IN  \E disk \in Disks : Become(queue_notify(done, q, disk), q)
    /\ UNCHANGED <<dev, queue_sel, chain, last_used, kick, resets>>

\* Mutant: a packet that does not fit uses up the buffer.
MutWritePacket ==
    /\ dev.kind = "net"
    /\ queue[0].ready = 1
    /\ Waiting(0) /= 0
    /\ IF chain[0][Entry(0, 0)].kind = "small" THEN Become([Now(0) EXCEPT !.last = (@ + 1) % IDX], 0)
       ELSE Become([virtio_consume_desc(Now(0), 0, Entry(0, 0)) EXCEPT !.last = (@ + 1) % IDX], 0)
    /\ UNCHANGED <<dev, queue_sel, chain, last_used, kick, resets>>

\* A packet for the guest goes into the next chain of queue 0; it is dropped
\* if there is none, or if the chain is too small or not well formed.
virtio_net_write_packet ==
    /\ dev.kind = "net"
    /\ queue[0].ready = 1
    /\ Waiting(0) /= 0
    /\ chain[0][Entry(0, 0)].kind \notin {"small", "order"}
    /\ Become([virtio_consume_desc(Now(0), 0, Entry(0, 0)) EXCEPT !.last = (@ + 1) % IDX], 0)
    /\ UNCHANGED <<dev, queue_sel, chain, last_used, kick, resets>>

\* The console's caller has asked for the length of the next chain before.
virtio_console_write_data ==
    /\ dev.kind = "console"
    /\ queue[0].ready = 1
    /\ Waiting(0) /= 0
    /\ Become([virtio_consume_desc(Now(0), 0, Entry(0, 0)) EXCEPT !.last = (@ + 1) % IDX], 0)
    /\ UNCHANGED <<dev, queue_sel, chain, last_used, kick, resets>>

\* virtio_console_resize_event
virtio_config_change_notify ==
    /\ dev.kind = "console"
    /\ int_status' = int_status \cup {2}
    /\ irq' = 1
    /\ UNCHANGED <<dev, queue_sel, queue, ring, chain, last_used, kick, req, resets>>

(***************************************************************************)
(* The driver's side of the rings (external).                              *)
(***************************************************************************)
Given(q) == {h \in Heads : chain[q][h].owner = "device"}

\* The kinds that make sense on a queue of this device.
KindsOf(q) ==
    CASE dev.kind = "block" -> {"data", "order", "short", "other"}
      [] dev.kind = "net" /\ q = 1 -> {"data", "order", "short"}
      [] dev.kind = "net" /\ q = 0 -> {"data", "small"}
      [] OTHER -> {"data"}

\* The driver has a free place in the avail ring as long as fewer chains than
\* the ring has slots were made available and not taken back.
DriverAdd(q, h, kind) ==
    /\ queue[q].ready = 1
    /\ chain[q][h].owner = "driver"
    /\ (ring[q].aidx - last_used[q]) % IDX < queue[q].num
    /\ chain' = [chain EXCEPT ![q][h] = [owner |-> "device", kind |-> kind]]
    /\ ring' = [ring EXCEPT ![q].avail[ring[q].aidx % queue[q].num] = h, ![q].aidx = (@ + 1) % IDX]
    /\ kick' = kick \cup {q}
    /\ UNCHANGED <<dev, irq, int_status, queue_sel, queue, last_used, req, resets>>

DriverReap(q) ==
    /\ last_used[q] /= ring[q].uidx
    /\ chain' = [chain EXCEPT ![q][ring[q].used[last_used[q] % queue[q].num]] = Own("data")]
    /\ last_used' = [last_used EXCEPT ![q] = (@ + 1) % IDX]
    /\ UNCHANGED <<dev, irq, int_status, queue_sel, queue, ring, kick, req, resets>>

Init ==
    /\ dev \in Devices
    /\ irq = 0
    /\ int_status = {}
    /\ queue_sel = 0
    /\ queue = [q \in Queues |-> ResetQueue]
    /\ ring = [q \in Queues |-> EmptyRing]
    /\ chain = [q \in Queues |-> [h \in Heads |-> Own("data")]]
    /\ last_used = [q \in Queues |-> 0]
    /\ kick = {}
    /\ req = [busy |-> FALSE, queue_idx |-> 0, desc_idx |-> 0]
    /\ resets = 0

Next ==
    \/ \E c \in dev.chains : MmioQueueSel(c[1])
    \/ \E v \in 0..MAX_QUEUE_NUM : MmioQueueNum(v)
    \/ MmioQueueAddr
    \/ MmioQueueReady
    \/ \E q \in Queues : MmioQueueNotify(q)
    \/ \E bits \in {{1}, {2}} : MmioInterruptAck(bits)
    \/ MmioReset
    \/ virtio_block_req_cb
    \/ virtio_net_write_packet
    \/ virtio_console_write_data
    \/ virtio_config_change_notify
    \/ \E c \in dev.chains : \E kind \in KindsOf(c[1]) : DriverAdd(c[1], c[2], kind)
    \/ \E q \in Queues : DriverReap(q)

\* The driver notifies the device of what it made available and reads what
\* was returned; a disk finishes what it started.
Fairness ==
    /\ \A q \in Queues : WF_vars(MmioQueueNotify(q)) /\ WF_vars(DriverReap(q))
    /\ WF_vars(virtio_block_req_cb)

Spec == Init /\ [][Next]_vars /\ Fairness

(***************************************************************************)
(* Properties                                                              *)
(***************************************************************************)

\* The interrupt line is high exactly while a bit of the interrupt status is
\* set: consume_desc, config_change_notify, the acknowledge register and the
\* reset keep the two together, so the guest neither loses an interrupt nor is
\* interrupted without a cause it can read.
LineMatchesStatus == (irq = 1) <=> (int_status /= {})

\* What the driver finds in the used ring are chains it gave to the device and
\* has not got back, each once: consume_desc is called once per chain, however
\* notifications, asynchronous completions and ring wrap-around interleave.  A
\* request in progress is one that the driver gave, that is not in the used ring
\* yet and that the queue has moved past, so no notification takes it again.
UsedChainsOutstanding ==
    /\ req.busy =>
        /\ req.desc_idx \in Given(req.queue_idx)
        /\ \A i \in 0..(Waiting(req.queue_idx) - 1) : Entry(req.queue_idx, i) /= req.desc_idx
    /\ \A q \in Queues :
        LET n == (ring[q].uidx - last_used[q]) % IDX
            at(i) == ring[q].used[((last_used[q] + i) % IDX) % queue[q].num]
        IN  /\ n <= queue[q].num
            /\ \A i \in 0..(n - 1) : at(i) \in Given(q)
            /\ \A i, j \in 0..(n - 1) : i /= j => at(i) /= at(j)

\* Every well-formed chain given to a queue the device serves by itself comes
\* back: a request refused because another was in progress is taken up by the
\* completion of that one (queue_notify in virtio_block_req_cb).
RequestsCompleted ==
    \A q \in Queues, h \in Heads :
        (chain[q][h].owner = "device" /\ chain[q][h].kind = "data" /\ ~manual_recv(q))
            ~> (chain[q][h].owner = "driver")

\* A receive buffer leaves queue 0 only by being handed back with data in it:
\* the device's position in the avail ring never runs ahead of the used ring.
ReceiveBuffersKept ==
    dev.kind /= "block" => queue[0].last_avail_idx = ring[0].uidx
=============================================================================
