---------------------------- MODULE DeviceReset ----------------------------
(***************************************************************************)
(* One queue over resets of its device: virtio_reset on the MMIO thread,   *)
(* the driver that sets the queue up again with an empty ring, and the     *)
(* thread that takes entries off the avail ring (src/virtio.c).            *)
(*                                                                         *)
(* virtio_reset clears last_avail_idx, ready and the ring addresses.  It   *)
(* leaves avail_idx and pending_queue_notify as they are, and it does not  *)
(* wait for the worker.  Indices count from the last set-up; an entry is   *)
(* known by its index.  The avail index of a queue whose ring address is 0 *)
(* reads as any value.                                                     *)
(***************************************************************************)
EXTENDS Naturals

CONSTANTS
  Quiet,     \* the driver resets only when nothing is being notified or served
  MaxAvail,  \* bound on the entries published between two resets
  MaxReset   \* bound on the number of resets

ASSUME QuietAssumption == Quiet \in BOOLEAN
ASSUME MaxAssumption == MaxAvail \in Nat /\ MaxReset \in Nat

VARIABLES
  manual_recv,               \* the I/O thread takes the entries, not the worker
  resets,                    \* the number of resets so far
  availIdx, unkicked,        \* driver: entries published, some not yet notified
  ready,                     \* qs->ready; the ring addresses are set with it
  avail_idx, last_avail_idx, \* of QueueState
  pending_queue_notify,      \* the queue's bit
  wpc, wavail                \* worker: place in queue_notify, local avail_idx

driverVars == <<manual_recv, resets, availIdx, unkicked, ready>>
queueVars == <<avail_idx, last_avail_idx>>
workerVars == <<wpc, wavail>>
vars == <<driverVars, queueVars, pending_queue_notify, workerVars>>

Init ==
  /\ manual_recv \in BOOLEAN
  /\ resets = 0 /\ availIdx = 0 /\ unkicked = FALSE /\ ready = FALSE
  /\ avail_idx = 0 /\ last_avail_idx = 0
  /\ pending_queue_notify = FALSE
  /\ wpc = "idle" /\ wavail = 0

-----------------------------------------------------------------------------
(* The driver writes the ring addresses of an empty ring and QUEUE_READY.  *)
DriverSetup ==
  /\ ~ready
  /\ ready' = TRUE /\ availIdx' = 0 /\ unkicked' = FALSE
  /\ UNCHANGED <<manual_recv, resets, queueVars, pending_queue_notify, workerVars>>

(* It publishes an entry (external) ...                                    *)
DriverPublish ==
  /\ ready /\ availIdx < MaxAvail
  /\ availIdx' = availIdx + 1 /\ unkicked' = TRUE
  /\ UNCHANGED <<manual_recv, resets, ready, queueVars, pending_queue_notify, workerVars>>

(* ... and writes QUEUE_NOTIFY.                                            *)
DriverNotify ==
  /\ unkicked
  /\ unkicked' = FALSE /\ pending_queue_notify' = TRUE
  /\ UNCHANGED <<manual_recv, resets, availIdx, ready, queueVars, workerVars>>

\* Mutated form: last_avail_idx survives the reset.
Reset_KeepsLast ==
  /\ ready /\ resets < MaxReset
  /\ Quiet => wpc = "idle" /\ ~pending_queue_notify /\ ~unkicked
  /\ resets' = resets + 1
  /\ ready' = FALSE /\ availIdx' = 0 /\ unkicked' = FALSE
  /\ UNCHANGED <<manual_recv, queueVars, pending_queue_notify, workerVars>>

(* It writes 0 to STATUS: virtio_reset.                                    *)
Reset ==
  /\ ready /\ resets < MaxReset
  /\ Quiet => wpc = "idle" /\ ~pending_queue_notify /\ ~unkicked
  /\ resets' = resets + 1
  /\ ready' = FALSE /\ availIdx' = 0 /\ unkicked' = FALSE
  /\ last_avail_idx' = 0
  /\ UNCHANGED <<manual_recv, avail_idx, pending_queue_notify, workerVars>>

-----------------------------------------------------------------------------

(* The worker takes the bit and enters queue_notify, which does not look at
   ready ("XXX: test if the queue is ready ?").                            *)
QueueNotifyReadAvail ==
  /\ wpc = "idle" /\ pending_queue_notify
  /\ pending_queue_notify' = FALSE
  /\ wavail' \in IF ready THEN {availIdx} ELSE 0..MaxAvail
  /\ avail_idx' = wavail'
  /\ wpc' = IF manual_recv THEN "idle" ELSE "loop"
  /\ UNCHANGED <<driverVars, last_avail_idx>>

(* It serves the entry at last_avail_idx ...                               *)
QueueNotifyServe ==
  /\ wpc = "loop" /\ last_avail_idx # wavail /\ last_avail_idx <= MaxAvail
  /\ wpc' = "advance"
  /\ UNCHANGED <<driverVars, queueVars, pending_queue_notify, wavail>>

(* ... and passes it.                                                      *)
QueueNotifyAdvance ==
  /\ wpc = "advance"
  /\ last_avail_idx' = last_avail_idx + 1
  /\ wpc' = "loop"
  /\ UNCHANGED <<driverVars, avail_idx, pending_queue_notify, wavail>>

QueueNotifyReturn ==
  /\ wpc = "loop" /\ last_avail_idx = wavail
  /\ wpc' = "idle"
  /\ UNCHANGED <<driverVars, queueVars, pending_queue_notify, wavail>>

(* The I/O thread fills an entry of a manual_recv queue
   (virtio_net_write_packet, virtio_console_write_data).                   *)
IoFill ==
  /\ manual_recv /\ ready /\ last_avail_idx # avail_idx /\ last_avail_idx <= MaxAvail
  /\ last_avail_idx' = last_avail_idx + 1
  /\ UNCHANGED <<driverVars, avail_idx, pending_queue_notify, workerVars>>

-----------------------------------------------------------------------------
Driver == DriverSetup \/ DriverPublish \/ DriverNotify \/ Reset
Worker == QueueNotifyReadAvail \/ QueueNotifyServe \/ QueueNotifyAdvance \/ QueueNotifyReturn

Next == Driver \/ Worker \/ IoFill

Spec == Init /\ [][Next]_vars

-----------------------------------------------------------------------------
(* The worker takes an entry only if the driver has published it since it last
   set the queue up: a reset leaves nothing behind that makes queue_notify take
   entries of the ring before.  The stale avail_idx is read again in time. *)
WorkerTakesPublished == [][QueueNotifyServe => ready /\ last_avail_idx < availIdx]_vars

(* The same of the I/O thread, which relies on avail_idx being the "cached copy
   of *(avail_addr + 2)". *)
IoTakesPublished == [][IoFill => ready /\ last_avail_idx < availIdx]_vars

=============================================================================
