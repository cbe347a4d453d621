----------------------------- MODULE VirtioCore -----------------------------
(***************************************************************************)
(* A request all the way round: one device with one queue, composed of the *)
(* hand-off of its notification (PendingNotify), its rings (VirtQueue) and *)
(* its interrupt (Interrupt).                                              *)
(*                                                                         *)
(* Each step is a step of one of the three modules, or of several at once  *)
(* where the code does one thing that several of them describe: the worker *)
(* reads the avail index, passes an entry, or writes the used index.  The  *)
(* components not involved do not move.                                    *)
(***************************************************************************)
EXTENDS Integers, Sequences

CONSTANTS Num, IdxMod,
  MaxRequests  \* bound on the requests the driver publishes

VARIABLES
  \* PendingNotify: the guest's and the device's indices are counts here
  published, unkicked, mpc, mreq, pending_queue_notify, pending_notify,
  pending_notify_stop, npc, wdev, wbits, wq, cavail, cached, served,
  \* VirtQueue; its kick stays FALSE, PendingNotify takes its place
  kick,
  availRing, availIdx, usedRing, usedIdx, bad, free, opc, newly, lastUsed,
  avail_idx, last_avail_idx, wpc, wavail, wdesc, wused,
  \* Interrupt
  used, seen, int_status, irq, spc, sreg, apc, areg, dpc, dstatus

Q == <<1, 0>>
worker == "worker"

PN == INSTANCE PendingNotify WITH
  NDev <- 1, NQueue <- 1, Manual <- {}, MaxAvail <- [x \in {Q} |-> MaxRequests],
  avail <- published, wpc <- npc, wavail <- cavail, avail_idx <- cached,
  last_avail_idx <- served
VQ == INSTANCE VirtQueue WITH unkicked <- newly
IRQ == INSTANCE Interrupt WITH Threads <- {worker}, Gated <- FALSE, MaxUsed <- MaxRequests

pnVars == <<published, unkicked, mpc, mreq, pending_queue_notify, pending_notify,
            pending_notify_stop, npc, wdev, wbits, wq, cavail, cached, served>>
vqVars == <<kick, availRing, availIdx, usedRing, usedIdx, bad, free, opc, newly, lastUsed,
            avail_idx, last_avail_idx, wpc, wavail, wdesc, wused>>
irqVars == <<used, seen, int_status, irq, spc, sreg, apc, areg, dpc, dstatus>>
vars == <<pnVars, vqVars, irqVars>>

Init == PN!Init /\ VQ!VqInit /\ IRQ!Init

-----------------------------------------------------------------------------
OnlyPN(A) == A /\ UNCHANGED <<vqVars, irqVars>>
OnlyVQ(A) == A /\ UNCHANGED <<pnVars, irqVars>>
OnlyIRQ(A) == A /\ UNCHANGED <<pnVars, vqVars>>

(* The driver.  Its QUEUE_NOTIFY write and its interrupt handler's accesses
   each wait for the MMIO thread, which serves one access at a time. *)
DriverOffer == \E h \in VQ!Chain : OnlyVQ(VQ!DriverOffer(h))
DriverPublish ==
  /\ \E skipped \in BOOLEAN : VQ!DriverPublish(skipped)
  /\ PN!GuestPublish(Q)
  /\ UNCHANGED irqVars
DriverNotify ==
  apc = "idle" /\ PN!MmioQueueNotify(Q) /\ VQ!DriverKick /\ UNCHANGED <<kick, irqVars>>
DriverEnter == OnlyIRQ(IRQ!DriverEnter)
DriverReclaim == dpc = "scan" /\ OnlyVQ(VQ!DriverReclaim)
DriverScanned == dpc = "scan" /\ lastUsed = usedIdx /\ OnlyIRQ(IRQ!DriverScan)

(* The MMIO thread. *)
MmioNotify == OnlyPN(PN!AsyncSetBit) \/ OnlyPN(PN!AsyncSignal)
MmioInterrupt ==
  /\ mpc = "poll"
  /\ \/ OnlyIRQ(IRQ!MmioReadStatus) \/ OnlyIRQ(IRQ!AckLoadStatus) \/ OnlyIRQ(IRQ!AckStoreStatus)
     \/ OnlyIRQ(IRQ!AckTestStatus) \/ OnlyIRQ(IRQ!AckClearIrq)

(* The worker: its loop, then queue_notify with device_recv and
   virtio_consume_desc inside it. *)
WorkerLoop ==
  \/ OnlyPN(PN!WorkerWait) \/ OnlyPN(PN!WorkerTake) \/ OnlyPN(PN!WorkerExchange)
  \/ OnlyPN(PN!WorkerNextQueue) \/ OnlyPN(PN!WorkerNextDevice)
WorkerReadAvail ==
  PN!QueueNotifyReadAvail /\ VQ!QueueNotifyReadAvail /\ UNCHANGED <<kick, irqVars>>
WorkerServe ==
  \/ OnlyVQ(VQ!QueueNotifyFetch) \/ OnlyVQ(VQ!RecvSkips)
  \/ OnlyVQ(VQ!ConsumeReadIdx) \/ OnlyVQ(VQ!ConsumeWriteElem)
WorkerPublishUsed ==
  VQ!ConsumeWriteUsedIdx /\ IRQ!ConsumeWriteIdx(worker) /\ UNCHANGED pnVars
WorkerInterrupt ==
  \/ OnlyIRQ(IRQ!ConsumeLoadStatus(worker)) \/ OnlyIRQ(IRQ!ConsumeStoreStatus(worker))
  \/ OnlyIRQ(IRQ!ConsumeSetIrq(worker))
WorkerAdvance ==
  /\ spc[worker] = "idle"
  /\ PN!QueueNotifyServe /\ VQ!QueueNotifyAdvance /\ UNCHANGED irqVars
WorkerReturn == PN!QueueNotifyReturn /\ VQ!QueueNotifyReturn /\ UNCHANGED irqVars

Main == MmioNotify \/ MmioInterrupt
Worker ==
  \/ WorkerLoop \/ WorkerReadAvail \/ WorkerServe \/ WorkerPublishUsed
  \/ WorkerInterrupt \/ WorkerAdvance \/ WorkerReturn
Handler == DriverEnter \/ DriverReclaim \/ DriverScanned

Next == DriverOffer \/ DriverPublish \/ DriverNotify \/ Handler \/ Main \/ Worker

Spec == Init /\ [][Next]_vars

(* The threads run; the driver notifies what it has published and takes its
   interrupts.  It need not publish. *)
FairSpec ==
  /\ Spec
  /\ WF_vars(Main) /\ WF_vars(Worker) /\ WF_vars(Handler) /\ WF_vars(DriverNotify)

-----------------------------------------------------------------------------
(* The three modules tell one story: the counts of PendingNotify are the 16-bit
   indices of VirtQueue, the descriptors of Interrupt its used entries, and
   both modules have the worker in queue_notify at the same time. *)
ComponentsAgree ==
  /\ published[Q] % IdxMod = availIdx
  /\ cached[Q] % IdxMod = avail_idx
  /\ served[Q] % IdxMod = last_avail_idx
  /\ used % IdxMod = usedIdx
  /\ (npc = "serve") = (wpc # "idle")
  /\ unkicked[Q] = newly

(* A published chain the device answers comes back to the driver: through the
   notification, the worker, the used ring, the interrupt and the driver's
   handler, in every interleaving of the threads. *)
EventuallyReturned ==
  \A h \in VQ!Chain : (h \in VQ!Elems(VQ!Pending) \ bad) ~> (h \in free)

(* Nothing is left over: when all threads are at rest and the line is low, each
   chain is free, or was skipped, or has not been notified yet. *)
QuietMeansDone ==
  npc = "wait" /\ mpc = "poll" /\ dpc = "idle" /\ opc = "idle" /\ ~irq /\ ~unkicked[Q] =>
    free \cup bad = VQ!Chain

(* The core as a whole: the components agree, and when they rest nothing is
   left over in any of them. *)
CoreAgrees == ComponentsAgree /\ QuietMeansDone
=============================================================================
