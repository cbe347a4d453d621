----------------------------- MODULE VirtQueue -----------------------------
(***************************************************************************)
(* One virtqueue: its rings in guest memory, the driver that uses them and *)
(* the device side in src/virtio.c (queue_notify, virtio_consume_desc),    *)
(* access by access.                                                       *)
(*                                                                         *)
(* Indices are uint16_t in the code: they count modulo IdxMod, and the     *)
(* slot of an index is index & (num - 1), that is index % Num.  A chain is *)
(* known by its head; its contents are abstracted to whether the device    *)
(* answers it: the chains in bad are those get_desc_rw_size refuses and    *)
(* those a device_recv function returns from without consuming them (a     *)
(* header too short, a queue the device does not use).  Memory is          *)
(* sequentially consistent: the fences of the code are taken to work.      *)
(***************************************************************************)
EXTENDS Integers, Sequences

CONSTANTS
  Num,     \* qs->num
  IdxMod   \* 2^16 in the code

ASSUME NumAssumption == Num \in Nat \ {0}
ASSUME IdxModAssumption == IdxMod \in Nat /\ IdxMod > Num /\ IdxMod % Num = 0

Chain == 0..Num-1
Idx == 0..IdxMod-1
Slot(i) == i % Num
Inc(i) == (i + 1) % IdxMod

VARIABLES
  availRing, availIdx,        \* guest memory, written by the driver
  usedRing, usedIdx,          \* guest memory, written by the device
  bad,                        \* the chains offered that the device does not answer
  free, opc, unkicked, lastUsed, \* driver: its chains, place, next used index
  kick,                       \* a notification is on its way to the worker
  avail_idx, last_avail_idx,  \* of QueueState
  wpc, wavail, wdesc, wused   \* worker: place, avail_idx, desc_idx, used_idx

availVars == <<availRing, availIdx, bad>>
usedVars == <<usedRing, usedIdx>>
ringDriverVars == <<free, opc, unkicked, lastUsed>>
queueVars == <<avail_idx, last_avail_idx>>
workerVars == <<wpc, wavail, wdesc, wused>>
vqvars == <<availVars, usedVars, ringDriverVars, kick, queueVars, workerVars>>

VqInit ==
  /\ availRing = [s \in Chain |-> 0] /\ availIdx = 0 /\ bad = {}
  /\ usedRing = [s \in Chain |-> 0] /\ usedIdx = 0
  /\ free = Chain /\ opc = "idle" /\ unkicked = FALSE /\ lastUsed = 0
  /\ kick = FALSE
  /\ avail_idx = 0 /\ last_avail_idx = 0
  /\ wpc = "idle" /\ wavail = 0 /\ wdesc = 0 /\ wused = 0

-----------------------------------------------------------------------------
(* The driver (external) writes a free chain into the avail ring, ...      *)
DriverOffer(h) ==
  /\ opc = "idle" /\ h \in free
  /\ availRing' = [availRing EXCEPT ![Slot(availIdx)] = h]
  /\ free' = free \ {h}
  /\ opc' = "publish"
  /\ UNCHANGED <<availIdx, bad, usedVars, unkicked, lastUsed, kick, queueVars, workerVars>>

(* ... publishes it by the avail index; it may be one the device skips.    *)
DriverPublish(skipped) ==
  /\ opc = "publish"
  /\ availIdx' = Inc(availIdx)
  /\ bad' = IF skipped THEN bad \cup {availRing[Slot(availIdx)]} ELSE bad
  /\ opc' = "idle" /\ unkicked' = TRUE
  /\ UNCHANGED <<availRing, usedVars, free, lastUsed, kick, queueVars, workerVars>>

(* It notifies the queue, once for all it has published since it last did. *)
DriverKick ==
  /\ unkicked
  /\ unkicked' = FALSE
  /\ UNCHANGED <<availVars, usedVars, free, opc, lastUsed, queueVars, workerVars>>
DriverNotify == DriverKick /\ kick' = TRUE

(* It takes a used entry and has the chain back.                           *)
DriverReclaim ==
  /\ lastUsed # usedIdx
  /\ free' = free \cup {usedRing[Slot(lastUsed)]}
  /\ lastUsed' = Inc(lastUsed)
  /\ UNCHANGED <<availVars, usedVars, opc, unkicked, kick, queueVars, workerVars>>

-----------------------------------------------------------------------------
(* queue_notify: read and cache the avail index.                           *)
QueueNotifyReadAvail ==
  /\ wpc = "idle"
  /\ wavail' = availIdx /\ avail_idx' = availIdx
  /\ wpc' = "loop"
  /\ UNCHANGED <<availVars, usedVars, ringDriverVars, last_avail_idx, wdesc, wused>>

(* The worker calls it for a notification (module PendingNotify).          *)
WorkerNotified == kick /\ kick' = FALSE /\ QueueNotifyReadAvail

(* The loop: read the next ring entry.                                     *)
QueueNotifyFetch ==
  /\ wpc = "loop" /\ last_avail_idx # wavail
  /\ wdesc' = availRing[Slot(last_avail_idx)]
  /\ wpc' = "recv"
  /\ UNCHANGED <<availVars, usedVars, ringDriverVars, kick, queueVars, wavail, wused>>

(* The loop has reached the avail index it read.                           *)
QueueNotifyReturn ==
  /\ wpc = "loop" /\ last_avail_idx = wavail
  /\ wpc' = "idle"
  /\ UNCHANGED <<availVars, usedVars, ringDriverVars, kick, queueVars, wavail, wdesc, wused>>

(* A chain that is refused or not answered: straight to the next entry.    *)
RecvSkips ==
  /\ wpc = "recv" /\ wdesc \in bad
  /\ wpc' = "advance"
  /\ UNCHANGED <<availVars, usedVars, ringDriverVars, kick, queueVars, wavail, wdesc, wused>>

(* device_recv calls virtio_consume_desc, which reads the used index, ...  *)
ConsumeReadIdx ==
  /\ wpc = "recv" /\ wdesc \notin bad
  /\ wused' = usedIdx
  /\ wpc' = "elem"
  /\ UNCHANGED <<availVars, usedVars, ringDriverVars, kick, queueVars, wavail, wdesc>>

\* Mutated form: the slot is not the one of the used index.
ConsumeWriteElem_WrongSlot ==
  /\ wpc = "elem"
  /\ usedRing' = [usedRing EXCEPT ![Slot(last_avail_idx)] = wdesc]
  /\ wpc' = "index"
  /\ UNCHANGED <<availVars, usedIdx, ringDriverVars, kick, queueVars, wavail, wdesc, wused>>

(* ... writes the element ...                                              *)
ConsumeWriteElem ==
  /\ wpc = "elem"
  /\ usedRing' = [usedRing EXCEPT ![Slot(wused)] = wdesc]
  /\ wpc' = "index"
  /\ UNCHANGED <<availVars, usedIdx, ringDriverVars, kick, queueVars, wavail, wdesc, wused>>

(* ... and only then the index.                                            *)
ConsumeWriteUsedIdx ==
  /\ wpc = "index"
  /\ usedIdx' = Inc(wused)
  /\ wpc' = "advance"
  /\ UNCHANGED <<availVars, usedRing, ringDriverVars, kick, queueVars, wavail, wdesc, wused>>

(* device_recv has returned 0, or was not called: last_avail_idx++.        *)
QueueNotifyAdvance ==
  /\ wpc = "advance"
  /\ last_avail_idx' = Inc(last_avail_idx)
  /\ wpc' = "loop"
  /\ UNCHANGED <<availVars, usedVars, ringDriverVars, kick, avail_idx, wavail, wdesc, wused>>

-----------------------------------------------------------------------------
RingDriver ==
  \/ \E h \in Chain : DriverOffer(h)
  \/ \E skipped \in BOOLEAN : DriverPublish(skipped)
  \/ DriverNotify
  \/ DriverReclaim
Worker ==
  \/ WorkerNotified \/ QueueNotifyFetch \/ QueueNotifyReturn
  \/ RecvSkips \/ ConsumeReadIdx \/ ConsumeWriteElem \/ ConsumeWriteUsedIdx
  \/ QueueNotifyAdvance

VqNext == RingDriver \/ Worker

-----------------------------------------------------------------------------
(* The ring entries from index i up to, and not including, index j. *)
Entries(ring, i, j) == [k \in 1..((j - i) % IdxMod) |-> ring[Slot(i + k - 1)]]
Elems(s) == {s[k] : k \in 1..Len(s)}

(* A request leaves the avail ring when its used index is written, or when it
   is skipped: just before last_avail_idx passes it. *)
Pending ==
  Entries(availRing, IF wpc = "advance" THEN Inc(last_avail_idx) ELSE last_avail_idx, availIdx)
Done == Entries(usedRing, lastUsed, usedIdx)
Lost == bad \ Elems(Pending)

RQ == INSTANCE RequestQueue WITH pending <- Pending, done <- Done, lost <- Lost

(* The rings and the steps of queue_notify and virtio_consume_desc implement a
   FIFO: no request is completed twice, out of order, or without having been
   submitted, over any wrap of the indices, and the driver never sees a used
   entry that is not written yet. *)
ImplementsRequestQueue == RQ!Spec

=============================================================================
