------------------------ MODULE PendingNotifyProofs ------------------------
(* Proofs about PendingNotify, for any number of devices, queues and requests. *)
EXTENDS PendingNotify, TLAPS

(* A sleeping worker has no notification to look at. *)
SleepInv == wpc = "wait" => ~pending_notify

(* A set bit is still to be seen: the flag is up, or about to be, or the worker
   has not yet passed the bit's device in its current round. *)
BitsInv ==
  \A d \in Device : pending_queue_notify[d] # {} =>
    \/ pending_notify
    \/ mpc = "signal"
    \/ wpc = "exchange" /\ wdev <= d
    \/ wpc \in {"bits", "read_avail", "serve"} /\ wdev < d
    \/ wpc = "exit"

(* What the worker is doing in queue_notify. *)
ServeInv ==
  /\ wpc \in {"read_avail", "serve"} => wq \in wbits
  /\ wpc = "serve" => <<wdev, wq>> \notin Manual /\ wavail = avail_idx[<<wdev, wq>>]

(* The worker will still read the avail index of x, or has read all of it. *)
WorkerCovers(x) ==
  /\ wdev = x[1] /\ x[2] \in wbits
  /\ \/ wpc \in {"bits", "read_avail"}
     \/ wpc = "serve" /\ (wq = x[2] => wavail = avail[x])

(* Somebody still has to act on whatever is published and not yet reached. *)
CoveredInv ==
  \A x \in Queue :
    \/ unkicked[x]
    \/ Reached(x) = avail[x]
    \/ mpc = "set_bit" /\ mreq = x
    \/ x[2] \in pending_queue_notify[x[1]]
    \/ WorkerCovers(x)

IInv == TypeOK /\ NoOverrun /\ SleepInv /\ BitsInv /\ ServeInv /\ CoveredInv

ConstantsInv == /\ NDev \in Nat \ {0} /\ NQueue \in Nat \ {0}
                /\ MaxAvail \in [Queue -> Nat]

LEMMA Constants == ConstantsInv
  BY NDevAssumption, NQueueAssumption, MaxAvailAssumption DEF ConstantsInv, Queue, Device, QueueIdx

LEMMA QueuePair == ASSUME NEW x \in Queue PROVE x = <<x[1], x[2]>> /\ x[1] \in Device /\ x[2] \in QueueIdx
  BY DEF Queue

LEMMA PairQueue == ASSUME NEW d \in Device, NEW q \in QueueIdx PROVE <<d, q>> \in Queue
  BY DEF Queue

LEMMA InitIInv == Init => IInv
<1> SUFFICES ASSUME Init PROVE IInv
  OBVIOUS
<1> USE Constants DEF ConstantsInv
<1>1. <<1, 0>> \in Queue /\ 1 \in Device /\ 0 \in QueueIdx
  BY DEF Queue, Device, QueueIdx
<1>2. TypeOK
  BY <1>1 DEF Init, TypeOK
<1>3. NoOverrun /\ SleepInv /\ BitsInv /\ ServeInv
  BY DEF Init, NoOverrun, SleepInv, BitsInv, ServeInv
<1>4. CoveredInv
  BY DEF Init, CoveredInv, Reached
<1> QED BY <1>2, <1>3, <1>4 DEF IInv

LEMMA TypeStep == TypeOK /\ [Next]_vars => TypeOK'
<1> SUFFICES ASSUME TypeOK, [Next]_vars PROVE TypeOK'
  OBVIOUS
<1> USE Constants DEF ConstantsInv, TypeOK
<1>1. ASSUME NEW x \in Queue, GuestPublish(x) PROVE TypeOK'
  BY <1>1 DEF GuestPublish, mainVars, flagVars, workerVars, queueVars
<1>2. ASSUME NEW x \in Queue, MmioQueueNotify(x) PROVE TypeOK'
  BY <1>2 DEF MmioQueueNotify, flagVars, workerVars, queueVars
<1>3. CASE AsyncSetBit
  BY <1>3, QueuePair DEF AsyncSetBit, guestVars, flagVars, workerVars, queueVars
<1>4. CASE AsyncSignal
  BY <1>4 DEF AsyncSignal, CondSignal, guestVars, queueVars
<1>5. CASE StopThread
  BY <1>5 DEF StopThread, CondSignal, guestVars, mainVars, queueVars
<1>6. CASE WorkerWait \/ SpuriousWakeup
  BY <1>6 DEF WorkerWait, SpuriousWakeup, guestVars, mainVars, flagVars, queueVars
<1>14. CASE WorkerExit
  BY <1>14 DEF WorkerExit, guestVars, mainVars, queueVars
<1>15. CASE WorkerTake
  <2>1. 1 \in Device
    BY DEF Device
  <2> QED BY <1>15, <2>1 DEF WorkerTake, guestVars, mainVars, queueVars
<1>7. CASE WorkerExchange \/ WorkerNextQueue
  BY <1>7 DEF WorkerExchange, WorkerNextQueue, guestVars, mainVars, flagVars, queueVars
<1>8. CASE WorkerNextDevice
  BY <1>8 DEF WorkerNextDevice, guestVars, mainVars, flagVars, queueVars, Device
<1>9. CASE QueueNotifyReadAvail
  BY <1>9, PairQueue DEF QueueNotifyReadAvail, guestVars, mainVars, flagVars
<1>10. CASE QueueNotifyServe
  BY <1>10, PairQueue DEF QueueNotifyServe, guestVars, mainVars, flagVars, workerVars
<1>11. CASE QueueNotifyReturn
  BY <1>11 DEF QueueNotifyReturn, guestVars, mainVars, flagVars, queueVars
<1>12. ASSUME NEW x \in Queue, IoServe(x) PROVE TypeOK'
  BY <1>12 DEF IoServe, guestVars, mainVars, flagVars, workerVars
<1>13. CASE UNCHANGED vars
  BY <1>13 DEF vars, guestVars, mainVars, flagVars, workerVars, queueVars
<1> QED BY <1>1, <1>2, <1>3, <1>4, <1>5, <1>6, <1>7, <1>8, <1>9, <1>10, <1>11, <1>12, <1>13,
           <1>14, <1>15
        DEF Next, Guest, MmioThread, Worker, IoThread

-----------------------------------------------------------------------------
LEMMA OverrunStep == IInv /\ [Next]_vars => NoOverrun'
<1> SUFFICES ASSUME IInv, [Next]_vars PROVE NoOverrun'
  OBVIOUS
<1> USE DEF IInv, TypeOK, NoOverrun
<1>1. ASSUME NEW x \in Queue, GuestPublish(x) PROVE NoOverrun'
  BY <1>1 DEF GuestPublish, queueVars
<1>2. CASE QueueNotifyReadAvail
  BY <1>2, PairQueue DEF QueueNotifyReadAvail, guestVars
<1>3. CASE QueueNotifyServe
  BY <1>3, PairQueue, SMTT(30) DEF QueueNotifyServe, guestVars, ServeInv
<1>4. ASSUME NEW x \in Queue, IoServe(x) PROVE NoOverrun'
  BY <1>4 DEF IoServe, guestVars
<1>5. CASE UNCHANGED <<avail, queueVars>>
  BY <1>5 DEF queueVars
<1>6. ASSUME NEW x \in Queue, MmioQueueNotify(x) PROVE UNCHANGED <<avail, queueVars>>
  BY <1>6 DEF MmioQueueNotify
<1>7. AsyncSetBit \/ AsyncSignal \/ StopThread => UNCHANGED <<avail, queueVars>>
  BY DEF AsyncSetBit, AsyncSignal, StopThread, guestVars
<1>8. WorkerWait \/ SpuriousWakeup \/ WorkerExit \/ WorkerTake \/ WorkerExchange
      => UNCHANGED <<avail, queueVars>>
  BY DEF WorkerWait, SpuriousWakeup, WorkerExit, WorkerTake, WorkerExchange, guestVars
<1>9. WorkerNextQueue \/ WorkerNextDevice \/ QueueNotifyReturn => UNCHANGED <<avail, queueVars>>
  BY DEF WorkerNextQueue, WorkerNextDevice, QueueNotifyReturn, guestVars
<1>10. UNCHANGED vars => UNCHANGED <<avail, queueVars>>
  BY DEF vars, guestVars
<1> QED BY <1>1, <1>2, <1>3, <1>4, <1>5, <1>6, <1>7, <1>8, <1>9, <1>10
        DEF Next, Guest, MmioThread, Worker, IoThread

LEMMA SleepStep == IInv /\ [Next]_vars => SleepInv'
<1> SUFFICES ASSUME IInv, [Next]_vars PROVE SleepInv'
  OBVIOUS
<1> USE DEF IInv, SleepInv
<1>1. ASSUME NEW x \in Queue, GuestPublish(x) \/ MmioQueueNotify(x) \/ IoServe(x) PROVE SleepInv'
  BY <1>1 DEF GuestPublish, MmioQueueNotify, IoServe, flagVars, workerVars
<1>2. CASE AsyncSetBit
  BY <1>2 DEF AsyncSetBit, flagVars, workerVars
<1>3. CASE AsyncSignal \/ StopThread
  BY <1>3 DEF AsyncSignal, StopThread, CondSignal
<1>4. CASE WorkerWait
  BY <1>4 DEF WorkerWait, flagVars
<1>5. CASE SpuriousWakeup \/ WorkerExit \/ WorkerTake \/ WorkerExchange
  BY <1>5 DEF SpuriousWakeup, WorkerExit, WorkerTake, WorkerExchange
<1>6. CASE WorkerNextQueue \/ WorkerNextDevice \/ QueueNotifyReadAvail \/ QueueNotifyReturn
  BY <1>6 DEF WorkerNextQueue, WorkerNextDevice, QueueNotifyReadAvail, QueueNotifyReturn
<1>7. CASE QueueNotifyServe
  BY <1>7 DEF QueueNotifyServe, workerVars
<1>8. CASE UNCHANGED vars
  BY <1>8 DEF vars, flagVars, workerVars
<1> QED BY <1>1, <1>2, <1>3, <1>4, <1>5, <1>6, <1>7, <1>8
        DEF Next, Guest, MmioThread, Worker, IoThread

LEMMA ServeStep == IInv /\ [Next]_vars => ServeInv'
<1> SUFFICES ASSUME IInv, [Next]_vars PROVE ServeInv'
  OBVIOUS
<1> USE DEF IInv, ServeInv
<1>1. ASSUME NEW x \in Queue, GuestPublish(x) \/ MmioQueueNotify(x) PROVE ServeInv'
  BY <1>1 DEF GuestPublish, MmioQueueNotify, queueVars, workerVars
<1>2. ASSUME NEW x \in Queue, IoServe(x) PROVE ServeInv'
  BY <1>2 DEF IoServe, workerVars
<1>3. CASE AsyncSetBit
  BY <1>3 DEF AsyncSetBit, queueVars, workerVars
<1>4. CASE AsyncSignal \/ StopThread
  BY <1>4 DEF AsyncSignal, StopThread, CondSignal, queueVars
<1>5. CASE WorkerWait \/ SpuriousWakeup \/ WorkerExit \/ WorkerTake \/ WorkerExchange
  BY <1>5 DEF WorkerWait, SpuriousWakeup, WorkerExit, WorkerTake, WorkerExchange
<1>6. CASE WorkerNextQueue \/ WorkerNextDevice \/ QueueNotifyReturn
  BY <1>6 DEF WorkerNextQueue, WorkerNextDevice, QueueNotifyReturn
<1>7. CASE QueueNotifyReadAvail
  BY <1>7, PairQueue DEF QueueNotifyReadAvail, TypeOK
<1>8. CASE QueueNotifyServe
  BY <1>8 DEF QueueNotifyServe, workerVars
<1>9. CASE UNCHANGED vars
  BY <1>9 DEF vars, queueVars, workerVars
<1> QED BY <1>1, <1>2, <1>3, <1>4, <1>5, <1>6, <1>7, <1>8, <1>9
        DEF Next, Guest, MmioThread, Worker, IoThread

LEMMA BitsStep == IInv /\ [Next]_vars => BitsInv'
<1> SUFFICES ASSUME IInv, [Next]_vars PROVE BitsInv'
  OBVIOUS
<1> USE Constants DEF ConstantsInv, IInv, TypeOK, BitsInv
<1>1. ASSUME NEW x \in Queue, GuestPublish(x) \/ IoServe(x) PROVE BitsInv'
  BY <1>1 DEF GuestPublish, IoServe, mainVars, flagVars, workerVars
<1>2. ASSUME NEW x \in Queue, MmioQueueNotify(x) PROVE BitsInv'
  BY <1>2 DEF MmioQueueNotify, flagVars, workerVars
<1>3. CASE AsyncSetBit
  BY <1>3 DEF AsyncSetBit
<1>4. CASE AsyncSignal \/ StopThread
  BY <1>4 DEF AsyncSignal, StopThread
<1>5. CASE WorkerWait \/ SpuriousWakeup
  BY <1>5 DEF WorkerWait, SpuriousWakeup, mainVars, flagVars
<1>6. CASE WorkerExit
  BY <1>6 DEF WorkerExit
<1>7. CASE WorkerTake
  BY <1>7 DEF WorkerTake, Device
<1>8. CASE WorkerExchange
  BY <1>8 DEF WorkerExchange, mainVars, flagVars, Device
<1>9. CASE WorkerNextQueue
  BY <1>9 DEF WorkerNextQueue, mainVars, flagVars
<1>10. CASE WorkerNextDevice
  BY <1>10 DEF WorkerNextDevice, mainVars, flagVars, Device
<1>11. CASE QueueNotifyReadAvail
  BY <1>11 DEF QueueNotifyReadAvail, mainVars, flagVars
<1>12. CASE QueueNotifyServe
  BY <1>12 DEF QueueNotifyServe, mainVars, flagVars, workerVars
<1>13. CASE QueueNotifyReturn
  BY <1>13 DEF QueueNotifyReturn, mainVars, flagVars
<1>14. CASE UNCHANGED vars
  BY <1>14 DEF vars, mainVars, flagVars, workerVars
<1> QED BY <1>1, <1>2, <1>3, <1>4, <1>5, <1>6, <1>7, <1>8, <1>9, <1>10, <1>11, <1>12, <1>13, <1>14
        DEF Next, Guest, MmioThread, Worker, IoThread

LEMMA CoveredStep == IInv /\ [Next]_vars => CoveredInv'
<1> SUFFICES ASSUME IInv, [Next]_vars, NEW y \in Queue
             PROVE  \/ unkicked'[y]
                    \/ Reached(y)' = avail'[y]
                    \/ mpc' = "set_bit" /\ mreq' = y
                    \/ y[2] \in pending_queue_notify'[y[1]]
                    \/ WorkerCovers(y)'
  BY DEF CoveredInv
<1> DEFINE Goal == \/ unkicked'[y]
                   \/ Reached(y)' = avail'[y]
                   \/ mpc' = "set_bit" /\ mreq' = y
                   \/ y[2] \in pending_queue_notify'[y[1]]
                   \/ WorkerCovers(y)'
<1>0. y = <<y[1], y[2]>> /\ y[1] \in Device /\ y[2] \in QueueIdx
  BY QueuePair
<1> USE DEF IInv, TypeOK, CoveredInv, Reached, WorkerCovers
<1>1. ASSUME NEW x \in Queue, GuestPublish(x) PROVE Goal
  BY <1>1 DEF GuestPublish, mainVars, flagVars, workerVars, queueVars
<1>2. ASSUME NEW x \in Queue, MmioQueueNotify(x) PROVE Goal
  BY <1>2 DEF MmioQueueNotify, flagVars, workerVars, queueVars
<1>3. CASE AsyncSetBit
  BY <1>3, <1>0 DEF AsyncSetBit, guestVars, flagVars, workerVars, queueVars
<1>4. CASE AsyncSignal \/ StopThread
  BY <1>4 DEF AsyncSignal, StopThread, CondSignal, guestVars, mainVars, queueVars
<1>5. CASE WorkerWait \/ SpuriousWakeup \/ WorkerExit \/ WorkerTake
  BY <1>5 DEF WorkerWait, SpuriousWakeup, WorkerExit, WorkerTake, guestVars, mainVars, queueVars
<1>6. CASE WorkerExchange
  BY <1>6, <1>0 DEF WorkerExchange, guestVars, mainVars, queueVars
<1>7. CASE WorkerNextQueue
  BY <1>7 DEF WorkerNextQueue, guestVars, mainVars, queueVars
<1>8. CASE WorkerNextDevice
  BY <1>8 DEF WorkerNextDevice, guestVars, mainVars, queueVars
<1>9. CASE QueueNotifyReadAvail
  BY <1>9, <1>0, PairQueue DEF QueueNotifyReadAvail, guestVars, mainVars
<1>10. CASE QueueNotifyServe
  BY <1>10, <1>0, PairQueue DEF QueueNotifyServe, ServeInv, NoOverrun, guestVars, mainVars, workerVars
<1>11. CASE QueueNotifyReturn
  BY <1>11, <1>0 DEF QueueNotifyReturn, ServeInv, guestVars, mainVars, queueVars
<1>12. ASSUME NEW x \in Queue, IoServe(x) PROVE Goal
  BY <1>12 DEF IoServe, guestVars, mainVars, workerVars
<1>13. CASE UNCHANGED vars
  BY <1>13 DEF vars, guestVars, mainVars, flagVars, workerVars, queueVars
<1> QED BY <1>1, <1>2, <1>3, <1>4, <1>5, <1>6, <1>7, <1>8, <1>9, <1>10, <1>11, <1>12, <1>13
        DEF Next, Guest, MmioThread, Worker, IoThread

-----------------------------------------------------------------------------
(* The inductive invariant holds in every reachable state of the hand-off
   between async_queue_notify and pending_notify_worker. *)
THEOREM Invariance == Spec => []IInv
<1>1. Init => IInv
  BY InitIInv
<1>2. IInv /\ [Next]_vars => IInv'
  BY TypeStep, OverrunStep, SleepStep, BitsStep, ServeStep, CoveredStep DEF IInv
<1> QED BY <1>1, <1>2, PTL DEF Spec

(* The state of the hand-off keeps its types: in particular the worker's device
   index stays inside the array it was started with. *)
THEOREM TypeCorrect == Spec => []TypeOK
<1>1. IInv => TypeOK
  BY DEF IInv
<1> QED BY <1>1, Invariance, PTL

(* For any number of devices, queues and requests: when the worker sleeps and
   the MMIO thread is idle, no notified request is left unprocessed. *)
THEOREM NoRequestStranded == Spec => []NoStrandedRequest
<1>1. IInv => NoStrandedRequest
  <2> SUFFICES ASSUME IInv, wpc = "wait", mpc = "poll", NEW x \in Queue
               PROVE  unkicked[x] \/ Reached(x) = avail[x]
    BY DEF NoStrandedRequest
  <2>1. x[1] \in Device
    BY QueuePair
  <2>2. pending_queue_notify[x[1]] = {}
    BY <2>1 DEF IInv, SleepInv, BitsInv
  <2> QED BY <2>2 DEF IInv, CoveredInv, WorkerCovers
<1> QED BY <1>1, Invariance, PTL

(* For any number of devices, queues and requests: queue_notify and the
   manual_recv devices never run past the requests the guest has published. *)
THEOREM NeverOverruns == Spec => []NoOverrun
<1>1. IInv => NoOverrun
  BY DEF IInv
<1> QED BY <1>1, Invariance, PTL
=============================================================================
