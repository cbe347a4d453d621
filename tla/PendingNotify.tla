--------------------------- MODULE PendingNotify ---------------------------
(***************************************************************************)
(* The hand-off of queue notifications from the MMIO thread to the worker  *)
(* thread "VirtIO queues" (src/virtio.c: async_queue_notify,               *)
(* pending_notify_worker, queue_notify and the start/stop functions).      *)
(*                                                                         *)
(* The guest publishes requests in the avail ring of a queue and writes    *)
(* QUEUE_NOTIFY.  The MMIO thread sets the queue's bit in the device's     *)
(* pending_queue_notify, then sets pending_notify under a mutex and        *)
(* signals; the worker clears pending_notify under the mutex, and then,    *)
(* device by device, takes all bits at once and serves their queues.       *)
(*                                                                         *)
(* A queue is a pair <<device, queue index>>.  Ring contents are left to   *)
(* module VirtQueue: here a queue is the number of requests published by   *)
(* the guest (avail), the device's cached copy of it (avail_idx) and the   *)
(* number it has processed (last_avail_idx).  The code only compares them  *)
(* for equality and increments them; VirtQueue keeps their 16-bit width.   *)
(* A critical section of pending_notify_lock is one step: all accesses to  *)
(* pending_notify and pending_notify_stop are inside one.                  *)
(***************************************************************************)
EXTENDS Naturals, FiniteSets

CONSTANTS
  NDev,       \* number of devices given to virtio_start_pending_notify_thread
  NQueue,     \* number of queues of a device, MAX_QUEUE in the code
  Manual,     \* queues with manual_recv: the I/O thread serves them
  MaxAvail    \* bounds on the requests the guest publishes, one per queue

ASSUME NDevAssumption == NDev \in Nat \ {0}
ASSUME NQueueAssumption == NQueue \in Nat \ {0}
ASSUME ManualAssumption == Manual \subseteq ((1..NDev) \X (0..NQueue-1))
ASSUME MaxAvailAssumption == MaxAvail \in [(1..NDev) \X (0..NQueue-1) -> Nat]

Device == 1..NDev
QueueIdx == 0..NQueue-1
Queue == Device \X QueueIdx

VARIABLES
  avail,                \* guest memory: the index field of the avail ring
  unkicked,             \* guest: published since the last QUEUE_NOTIFY
  mpc, mreq,            \* MMIO thread: place in async_queue_notify, its queue
  pending_queue_notify, \* per device, the set of queues with their bit set
  pending_notify, pending_notify_stop,
  wpc, wdev, wbits, wq, wavail, \* worker: place, i, notify, j, local avail_idx
  avail_idx,            \* qs->avail_idx
  last_avail_idx        \* qs->last_avail_idx

guestVars == <<avail, unkicked>>
mainVars == <<mpc, mreq>>
flagVars == <<pending_notify, pending_notify_stop>>
workerVars == <<wpc, wdev, wbits, wq, wavail>>
queueVars == <<avail_idx, last_avail_idx>>
vars == <<guestVars, mainVars, pending_queue_notify, flagVars, workerVars, queueVars>>

Init ==
  /\ avail = [x \in Queue |-> 0]
  /\ unkicked = [x \in Queue |-> FALSE]
  /\ mpc = "poll" /\ mreq = <<1, 0>>
  /\ pending_queue_notify = [d \in Device |-> {}]
  /\ pending_notify = FALSE /\ pending_notify_stop = FALSE
  /\ wpc = "lock" /\ wdev = 1 /\ wbits = {} /\ wq = 0 /\ wavail = 0
  /\ avail_idx = [x \in Queue |-> 0]
  /\ last_avail_idx = [x \in Queue |-> 0]

-----------------------------------------------------------------------------
(* The guest (external): publish a request; it will notify the queue, and
   may publish more before it does or while the notification is handled.   *)
GuestPublish(x) ==
  /\ avail[x] < MaxAvail[x]
  /\ avail' = [avail EXCEPT ![x] = @ + 1]
  /\ unkicked' = [unkicked EXCEPT ![x] = TRUE]
  /\ UNCHANGED <<mainVars, pending_queue_notify, flagVars, workerVars, queueVars>>

(* The guest writes QUEUE_NOTIFY; the MMIO thread picks the write up.      *)
MmioQueueNotify(x) ==
  /\ mpc = "poll"
  /\ unkicked[x]
  /\ unkicked' = [unkicked EXCEPT ![x] = FALSE]
  /\ mpc' = "set_bit" /\ mreq' = x
  /\ UNCHANGED <<avail, pending_queue_notify, flagVars, workerVars, queueVars>>

-----------------------------------------------------------------------------
(* async_queue_notify: atomic_fetch_or of the queue's bit.                 *)
AsyncSetBit ==
  /\ mpc = "set_bit"
  /\ pending_queue_notify' = [pending_queue_notify EXCEPT ![mreq[1]] = @ \cup {mreq[2]}]
  /\ mpc' = "signal"
  /\ UNCHANGED <<guestVars, mreq, flagVars, workerVars, queueVars>>

(* pthread_cond_signal wakes the worker if it is waiting: it then has to
   take the mutex again and to test pending_notify again.                  *)
CondSignal == wpc' = IF wpc = "wait" THEN "lock" ELSE wpc

\* Mutated form: the signal of the condition variable is forgotten.
AsyncSignal_NoSignal ==
  /\ mpc = "signal"
  /\ pending_notify' = TRUE
  /\ mpc' = "poll"
  /\ UNCHANGED <<guestVars, mreq, pending_queue_notify, pending_notify_stop,
                 workerVars, queueVars>>

(* async_queue_notify: the critical section.                               *)
AsyncSignal ==
  /\ mpc = "signal"
  /\ pending_notify' = TRUE
  /\ CondSignal
  /\ mpc' = "poll"
  /\ UNCHANGED <<guestVars, mreq, pending_queue_notify, pending_notify_stop,
                 wdev, wbits, wq, wavail, queueVars>>

\* Mutated form: only the stop flag is set, the worker keeps waiting.
StopThread_NoPending ==
  /\ pending_notify_stop' = TRUE
  /\ CondSignal
  /\ UNCHANGED <<guestVars, mainVars, pending_queue_notify, pending_notify,
                 wdev, wbits, wq, wavail, queueVars>>

(* virtio_stop_pending_notify_thread, called from stop_io of either the MMIO
   thread or the thread that reads stdin.                                  *)
StopThread ==
  /\ pending_notify' = TRUE
  /\ pending_notify_stop' = TRUE
  /\ CondSignal
  /\ UNCHANGED <<guestVars, mainVars, pending_queue_notify,
                 wdev, wbits, wq, wavail, queueVars>>

-----------------------------------------------------------------------------
(* pending_notify_worker: the critical section, up to the wait.            *)
WorkerWait ==
  /\ wpc = "lock" /\ ~pending_notify
  /\ wpc' = "wait"
  /\ UNCHANGED <<guestVars, mainVars, pending_queue_notify, flagVars,
                 wdev, wbits, wq, wavail, queueVars>>

(* A condition variable may wake its waiter without a signal.              *)
SpuriousWakeup ==
  /\ wpc = "wait"
  /\ wpc' = "lock"
  /\ UNCHANGED <<guestVars, mainVars, pending_queue_notify, flagVars,
                 wdev, wbits, wq, wavail, queueVars>>

(* The critical section, when pending_notify_stop ends the thread.         *)
WorkerExit ==
  /\ wpc = "lock" /\ pending_notify /\ pending_notify_stop
  /\ pending_notify_stop' = FALSE
  /\ wpc' = "exit"
  /\ UNCHANGED <<guestVars, mainVars, pending_queue_notify, pending_notify,
                 wdev, wbits, wq, wavail, queueVars>>

(* The critical section, when there is work.                               *)
WorkerTake ==
  /\ wpc = "lock" /\ pending_notify /\ ~pending_notify_stop
  /\ pending_notify' = FALSE
  /\ wpc' = "exchange" /\ wdev' = 1
  /\ UNCHANGED <<guestVars, mainVars, pending_queue_notify, pending_notify_stop,
                 wbits, wq, wavail, queueVars>>

(* atomic_exchange of the device's bits with 0.                            *)
WorkerExchange ==
  /\ wpc = "exchange"
  /\ wbits' = pending_queue_notify[wdev]
  /\ pending_queue_notify' = [pending_queue_notify EXCEPT ![wdev] = {}]
  /\ wpc' = "bits"
  /\ UNCHANGED <<guestVars, mainVars, flagVars, wdev, wq, wavail, queueVars>>

(* The lowest bit still set in notify is the next queue to be notified.    *)
WorkerNextQueue ==
  /\ wpc = "bits"
  /\ \E q \in wbits :
       /\ \A r \in wbits : q <= r
       /\ wq' = q
  /\ wpc' = "read_avail"
  /\ UNCHANGED <<guestVars, mainVars, pending_queue_notify, flagVars,
                 wdev, wbits, wavail, queueVars>>

(* No bit left: the next device, or the top of the worker's loop.          *)
WorkerNextDevice ==
  /\ wpc = "bits" /\ wbits = {}
  /\ IF wdev = NDev
       THEN wpc' = "lock" /\ UNCHANGED wdev
       ELSE wpc' = "exchange" /\ wdev' = wdev + 1
  /\ UNCHANGED <<guestVars, mainVars, pending_queue_notify, flagVars,
                 wbits, wq, wavail, queueVars>>

-----------------------------------------------------------------------------
(* queue_notify: read the avail index and cache it; a manual_recv queue is
   left to the I/O thread, and the worker clears its bit in notify.        *)
QueueNotifyReadAvail ==
  LET x == <<wdev, wq>> IN
  /\ wpc = "read_avail"
  /\ wavail' = avail[x]
  /\ avail_idx' = [avail_idx EXCEPT ![x] = avail[x]]
  /\ IF x \in Manual
       THEN wpc' = "bits" /\ wbits' = wbits \ {wq}
       ELSE wpc' = "serve" /\ UNCHANGED wbits
  /\ UNCHANGED <<guestVars, mainVars, pending_queue_notify, flagVars,
                 wdev, wq, last_avail_idx>>

(* queue_notify: one turn of the loop (device_recv returns 0).             *)
QueueNotifyServe ==
  LET x == <<wdev, wq>> IN
  /\ wpc = "serve"
  /\ last_avail_idx[x] # wavail
  /\ last_avail_idx' = [last_avail_idx EXCEPT ![x] = @ + 1]
  /\ UNCHANGED <<guestVars, mainVars, pending_queue_notify, flagVars, workerVars, avail_idx>>

\* Mutated form: the device's bit is cleared after the queue has been served,
\* which clobbers a bit set in the meantime.
QueueNotifyReturn_ClobbersBit ==
  LET x == <<wdev, wq>> IN
  /\ wpc = "serve"
  /\ last_avail_idx[x] = wavail
  /\ wbits' = wbits \ {wq}
  /\ pending_queue_notify' = [pending_queue_notify EXCEPT ![wdev] = @ \ {wq}]
  /\ wpc' = "bits"
  /\ UNCHANGED <<guestVars, mainVars, flagVars, wdev, wq, wavail, queueVars>>

(* queue_notify returns; the worker clears the queue's bit in notify.      *)
QueueNotifyReturn ==
  LET x == <<wdev, wq>> IN
  /\ wpc = "serve"
  /\ last_avail_idx[x] = wavail
  /\ wbits' = wbits \ {wq}
  /\ wpc' = "bits"
  /\ UNCHANGED <<guestVars, mainVars, pending_queue_notify, flagVars, wdev, wq, wavail, queueVars>>

(* The I/O thread fills one buffer of a manual_recv queue
   (virtio_net_write_packet, virtio_console_write_data).                   *)
IoServe(x) ==
  /\ x \in Manual
  /\ last_avail_idx[x] # avail_idx[x]
  /\ last_avail_idx' = [last_avail_idx EXCEPT ![x] = @ + 1]
  /\ UNCHANGED <<guestVars, mainVars, pending_queue_notify, flagVars, workerVars, avail_idx>>

-----------------------------------------------------------------------------
Guest == \E x \in Queue : GuestPublish(x)
MmioThread == (\E x \in Queue : MmioQueueNotify(x)) \/ AsyncSetBit \/ AsyncSignal
Worker ==
  \/ WorkerWait \/ WorkerExit \/ WorkerTake \/ WorkerExchange
  \/ WorkerNextQueue \/ WorkerNextDevice
  \/ QueueNotifyReadAvail \/ QueueNotifyServe \/ QueueNotifyReturn
IoThread == \E x \in Queue : IoServe(x)

Next == Guest \/ MmioThread \/ Worker \/ IoThread \/ StopThread \/ SpuriousWakeup

Spec == Init /\ [][Next]_vars

(* The MMIO and worker threads are scheduled, and the guest, once it has
   published, gets its QUEUE_NOTIFY write through.  Nothing is assumed of
   the guest publishing, of the I/O thread, of stop and of spurious wakeups. *)
FairSpec == Spec /\ WF_vars(MmioThread) /\ WF_vars(Worker)

-----------------------------------------------------------------------------
TypeOK ==
  /\ avail \in [Queue -> Nat]
  /\ unkicked \in [Queue -> BOOLEAN]
  /\ mpc \in {"poll", "set_bit", "signal"} /\ mreq \in Queue
  /\ pending_queue_notify \in [Device -> SUBSET QueueIdx]
  /\ pending_notify \in BOOLEAN /\ pending_notify_stop \in BOOLEAN
  /\ wpc \in {"lock", "wait", "exchange", "bits", "read_avail", "serve", "exit"}
  /\ wdev \in Device /\ wbits \in SUBSET QueueIdx /\ wq \in QueueIdx /\ wavail \in Nat
  /\ avail_idx \in [Queue -> Nat]
  /\ last_avail_idx \in [Queue -> Nat]

(* How far the device has got in queue x: a manual_recv queue is served as
   soon as its index is cached, any other when its requests are processed. *)
Reached(x) == IF x \in Manual THEN avail_idx[x] ELSE last_avail_idx[x]

(* No request is stranded: when the worker sleeps on the condition variable
   and the MMIO thread is between two requests, every request the guest has
   notified has been processed.  Bits set while the worker clears flags, takes
   other bits or serves the same queue are never lost. *)
NoStrandedRequest ==
  wpc = "wait" /\ mpc = "poll" => \A x \in Queue : unkicked[x] \/ Reached(x) = avail[x]

(* The device never runs past what the guest has published: the loops of
   queue_notify and of the manual_recv devices test the indices with !=, so one
   step too far would serve 2^16 stale requests. *)
NoOverrun == \A x \in Queue : last_avail_idx[x] <= avail_idx[x] /\ avail_idx[x] <= avail[x]

(* Every published request is eventually reached by the device, whatever is
   published or notified meanwhile, unless the worker thread is stopped. *)
EventuallyReached ==
  \A x \in Queue : \A n \in 1..MaxAvail[x] :
    (avail[x] >= n) ~> (Reached(x) >= n \/ wpc = "exit")

(* A stop request ends the worker thread, also when it comes while the worker
   is serving queues: virtio_join_pending_notify_thread returns. *)
StopEndsWorker == pending_notify_stop ~> (wpc = "exit")
=============================================================================
