---------------------------- MODULE DeviceProofs ----------------------------
(***************************************************************************)
(* Proofs about two devices: the fids and files of FileServer, for any     *)
(* number of fids, files, nodes and requests; and the packets of the       *)
(* network device's receive queue, for any number of packets and buffers.  *)
(***************************************************************************)
EXTENDS FileServer, NetReceive, NumberLemmas, FiniteSetTheorems, TLAPS

-----------------------------------------------------------------------------
(* NetReceive, with one thread T that runs if_start. *)
Places == {"idle", "take", "write", "fill", "consume", "elem", "index", "advance"}

NetTypes ==
  /\ arrived \in 0..Packets /\ queue \in Seq(Nat) /\ Len(queue) <= arrived
  /\ avail_idx \in 0..Buffers /\ last_avail_idx \in 0..avail_idx /\ usedIdx \in 0..Buffers
  /\ content \in [0..Buffers-1 -> Nat] /\ usedRing \in [0..Buffers-1 -> Nat]
  /\ pc \in [Threads -> Places]
  /\ pkt \in [Threads -> Nat] /\ desc \in [Threads -> Nat] /\ used \in [Threads -> Nat]

(* Packets taken off the queue; of these the one in hand is not passed yet.*)
Taken == arrived - Len(queue)
InHand(t) == pc[t] \in {"write", "fill", "consume", "elem", "index"}
Passed(t) == IF InHand(t) THEN Taken - 1 ELSE Taken

(* The queue holds the packets from the first not taken to the last.       *)
QueueInOrder == \A i \in 1..Len(queue) : queue[i] = Taken + i

(* What the thread knows at each place of if_start and of the calls below. *)
ThreadInStep(t) ==
  /\ pc[t] = "take" => queue # <<>>
  /\ pc[t] \in {"take", "write", "fill", "consume", "elem", "index", "advance"}
       => last_avail_idx < avail_idx
  /\ InHand(t) => pkt[t] = Taken /\ pkt[t] >= 1
  /\ pc[t] \in {"fill", "consume", "elem", "index"} =>
       desc[t] = last_avail_idx /\ pkt[t] \notin Long
  /\ pc[t] \in {"consume", "elem", "index"} => content[desc[t]] = pkt[t]
  /\ pc[t] \in {"elem", "index"} => used[t] = usedIdx
  /\ pc[t] = "index" => usedRing[usedIdx] = desc[t]
  /\ usedIdx = last_avail_idx + (IF pc[t] = "advance" THEN 1 ELSE 0)

(* The used ring names the buffers in their order, and they hold the       *)
(* packets that fit of those the thread has passed.                        *)
BuffersInOrder(t) ==
  /\ \A s \in 0..usedIdx-1 : usedRing[s] = s /\ content[s] \in 1..Passed(t) \ Long
  /\ \A r, s \in 0..usedIdx-1 : r < s => content[r] < content[s]
  /\ \A p \in 1..Passed(t) \ Long : \E s \in 0..usedIdx-1 : content[s] = p

NetInv(t) == NetTypes /\ QueueInOrder /\ ThreadInStep(t) /\ BuffersInOrder(t)

(* Nothing has arrived.                                                    *)
LEMMA NetInitially == ASSUME NEW T, Threads = {T}, Init PROVE NetInv(T)
  BY PacketsAssumption DEF Init, NetInv, NetTypes, Places, QueueInOrder, ThreadInStep, BuffersInOrder,
         Taken, InHand, Passed

(* What a step leaves alone stays in order.                                *)
LEMMA SameQueue ==
  ASSUME QueueInOrder, queue' = queue, arrived' = arrived
  PROVE  QueueInOrder' /\ Taken' = Taken
<1>1. Taken' = Taken
  BY Zenon DEF Taken
<1> QED
  BY <1>1, Zenon DEF QueueInOrder

LEMMA SameBuffers ==
  ASSUME NEW T, BuffersInOrder(T), usedIdx' = usedIdx, usedRing' = usedRing, content' = content,
         Passed(T)' = Passed(T)
  PROVE  BuffersInOrder(T)'
BY Zenon DEF BuffersInOrder

(* A packet arrives at the end of the queue.                               *)
LEMMA ArriveKeeps == ASSUME NEW T, Threads = {T}, NetInv(T), Arrive PROVE NetInv(T)'
<1> USE PacketsAssumption DEF NetInv, NetTypes, Arrive, threadVars, usedVars
<1>1. /\ Len(queue') = Len(queue) + 1 /\ Taken' = Taken /\ Passed(T)' = Passed(T)
      /\ queue' \in Seq(Nat) /\ Taken \in Nat
  BY DEF Taken, Passed, InHand
<1>2. NetTypes'
  BY <1>1, SMTT(30)
<1>3. QueueInOrder'
  <2>0. PICK n \in Nat : n = Len(queue)
    OBVIOUS
  <2>1. queue'[n + 1] = Taken + (n + 1)
    BY <2>0 DEF Taken
  <2>2. \A i \in 1..n : queue'[i] = Taken + i
    BY <2>0 DEF QueueInOrder
  <2> HIDE DEF NetInv, NetTypes, Arrive
  <2>3. \A i \in 1..n + 1 : i = n + 1 \/ i \in 1..n
    OBVIOUS
  <2>4. \A i \in 1..n + 1 : queue'[i] = Taken + i
    BY <2>1, <2>2, <2>3, Zenon
  <2> QED
    BY <1>1, <2>0, <2>4, Zenon DEF QueueInOrder
<1>4. ThreadInStep(T)'
  <2>1. queue' # <<>>
    <3>1. Len(queue) \in Nat
      OBVIOUS
    <3> HIDE DEF NetInv, NetTypes, Arrive
    <3> QED
      BY <1>1, <3>1
  <2>2. /\ Taken' = Taken /\ pc' = pc /\ pkt' = pkt /\ desc' = desc /\ used' = used
        /\ last_avail_idx' = last_avail_idx /\ avail_idx' = avail_idx /\ content' = content
        /\ usedIdx' = usedIdx /\ usedRing' = usedRing /\ ThreadInStep(T)
    BY <1>1
  <2> HIDE DEF NetInv, NetTypes, Arrive
  <2> QED
    BY <2>1, <2>2, Zenon DEF ThreadInStep, InHand
<1>5. BuffersInOrder(T)'
  BY <1>1 DEF BuffersInOrder
<1> QED
  BY <1>2, <1>3, <1>4, <1>5

(* The driver offers a buffer.                                             *)
LEMMA OfferKeeps == ASSUME NEW T, Threads = {T}, NetInv(T), Offer PROVE NetInv(T)'
<1> USE PacketsAssumption DEF NetInv, NetTypes, Offer, slirpVars, usedVars, threadVars
<1>1. Passed(T)' = Passed(T) /\ Taken' = Taken
  BY DEF Passed, InHand, Taken
<1>2. NetTypes' /\ QueueInOrder'
  BY <1>1 DEF QueueInOrder
<1>3. ThreadInStep(T)'
  BY <1>1 DEF ThreadInStep, InHand
<1>4. BuffersInOrder(T)'
  BY <1>1 DEF BuffersInOrder
<1> QED
  BY <1>2, <1>3, <1>4

(* if_start's check finds a buffer, and it stays there: no other thread    *)
(* takes one.                                                              *)
LEMMA CanOutputKeeps == ASSUME NEW T, Threads = {T}, NetInv(T), CanOutput(T) PROVE NetInv(T)'
<1> USE PacketsAssumption DEF NetInv, NetTypes, CanOutput, Goto, slirpVars, usedVars
<1>1. QueueInOrder' /\ Taken' = Taken
  BY SameQueue
<1>2. Passed(T)' = Passed(T)
  BY <1>1 DEF Passed, InHand
<1>3. NetTypes'
  BY DEF Places
<1>4. ThreadInStep(T)'
  BY <1>1 DEF ThreadInStep, InHand
<1>5. BuffersInOrder(T)'
  BY <1>2, SameBuffers
<1> QED
  BY <1>1, <1>3, <1>4, <1>5

(* if_start takes the first packet.                                        *)
LEMMA TakeKeeps == ASSUME NEW T, Threads = {T}, NetInv(T), Take(T) PROVE NetInv(T)'
<1> USE PacketsAssumption DEF NetInv, NetTypes, Take, Goto, usedVars
<1>1. pc[T] = "take" /\ queue # <<>> /\ Head(queue) = queue[1] /\ Len(queue) \in Nat \ {0}
  BY DEF ThreadInStep
<1>2. /\ queue' = Tail(queue) /\ pc' = [pc EXCEPT ![T] = "write"]
      /\ pkt' = [pkt EXCEPT ![T] = Head(queue)]
  BY <1>1
<1>3. /\ queue' \in Seq(Nat) /\ Len(queue') = Len(queue) - 1
      /\ \A i \in 1..Len(queue') : queue'[i] = queue[i + 1]
  BY <1>1, <1>2
<1>4. Taken' = Taken + 1 /\ Passed(T)' = Passed(T) /\ Taken \in Nat
  BY <1>1, <1>2, <1>3 DEF Taken, Passed, InHand
<1>5. NetTypes'
  <2>1. pkt' \in [Threads -> Nat] /\ pc' \in [Threads -> Places]
    BY <1>1, <1>2 DEF Places
  <2>2. queue' \in Seq(Nat) /\ arrived' \in 0..Packets /\ Len(queue') <= arrived'
    BY <1>3
  <2> QED
    BY <2>1, <2>2, Zenon
<1>6. QueueInOrder'
  <2>1. PICK n \in Nat : n = Len(queue') /\ Len(queue) = n + 1
    BY <1>1, <1>3
  <2>2. \A i \in 1..n + 1 : queue[i] = Taken + i
    BY <2>1, Zenon DEF QueueInOrder
  <2> HIDE DEF NetInv, NetTypes, Take
  <2>3. \A i \in 1..n : i + 1 \in 1..n + 1 /\ Taken + (i + 1) = (Taken + 1) + i
    BY <1>4
  <2>4. \A i \in 1..n : queue'[i] = (Taken + 1) + i
    BY <1>3, <2>1, <2>2, <2>3, Zenon
  <2> QED
    BY <1>4, <2>1, <2>4, Zenon DEF QueueInOrder
<1>7. ThreadInStep(T)'
  <2>1. pkt'[T] = Taken + 1 /\ Taken + 1 >= 1
    BY <1>1, <1>2, <1>4 DEF QueueInOrder
  <2>2. pc'[T] = "write" /\ UNCHANGED <<last_avail_idx, avail_idx, usedIdx>>
    BY <1>2
  <2>3. last_avail_idx < avail_idx /\ usedIdx = last_avail_idx
    BY <1>1 DEF ThreadInStep
  <2>4. pkt'[T] = Taken' /\ pkt'[T] >= 1 /\ last_avail_idx' < avail_idx' /\ usedIdx' = last_avail_idx' + 0
    BY <1>4, <2>1, <2>2, <2>3
  <2> HIDE DEF NetInv, NetTypes, Take
  <2> QED
    BY <2>2, <2>4 DEF ThreadInStep, InHand
<1>8. BuffersInOrder(T)'
  BY <1>4, SameBuffers
<1> QED
  BY <1>5, <1>6, <1>7, <1>8

(* virtio_net_write_packet finds the buffer, and drops only a packet that  *)
(* does not fit into it.                                                   *)
LEMMA WriteKeeps == ASSUME NEW T, Threads = {T}, NetInv(T), WritePacket(T) PROVE NetInv(T)'
<1> USE PacketsAssumption DEF NetInv, NetTypes, WritePacket, Goto, usedVars, slirpVars
<1>1. pc[T] = "write" /\ last_avail_idx < avail_idx /\ pkt[T] = Taken /\ Taken >= 1
  BY DEF ThreadInStep, InHand
<1>0. NetTypes'
  BY <1>1 DEF Places
<1>2. NetTypes' /\ QueueInOrder'
  BY <1>0, SameQueue
<1>3. CASE pkt[T] \in Long
  <2>1. Passed(T)' = Passed(T) + 1 /\ Passed(T) + 1 \in Long /\ Passed(T) \in Nat
    BY <1>1, <1>3 DEF Passed, InHand, Taken
  <2>2. ThreadInStep(T)'
    BY <1>1, <1>3 DEF ThreadInStep, InHand
  <2>3. (1..Passed(T)') \ Long = (1..Passed(T)) \ Long
    BY <2>1
  <2>4. BuffersInOrder(T) /\ UNCHANGED <<usedIdx, usedRing, content>>
    OBVIOUS
  <2>5. BuffersInOrder(T)'
    BY <2>3, <2>4, Zenon DEF BuffersInOrder
  <2> QED
    BY <1>2, <2>2, <2>5
<1>4. CASE pkt[T] \notin Long
  <2>1. Passed(T)' = Passed(T)
    BY <1>1, <1>4 DEF Passed, InHand, Taken
  <2>2. ThreadInStep(T)'
    BY <1>1, <1>4 DEF ThreadInStep, InHand, Taken
  <2>3. BuffersInOrder(T)'
    BY <2>1 DEF BuffersInOrder
  <2> QED
    BY <1>2, <2>2, <2>3
<1> QED
  BY <1>3, <1>4

(* memcpy_to_queue writes the buffer after those in the used ring.         *)
LEMMA FillKeeps == ASSUME NEW T, Threads = {T}, NetInv(T), Fill(T) PROVE NetInv(T)'
<1> USE PacketsAssumption DEF NetInv, NetTypes, Fill, Goto, usedVars, slirpVars
<1>1. /\ pc[T] = "fill" /\ desc[T] = usedIdx /\ usedIdx = last_avail_idx
      /\ last_avail_idx < avail_idx
  BY DEF ThreadInStep
<1>2. Passed(T)' = Passed(T) /\ Taken' = Taken
  BY <1>1 DEF Passed, InHand, Taken
<1>3. NetTypes' /\ QueueInOrder'
  BY <1>1, <1>2 DEF Places, QueueInOrder
<1>4. ThreadInStep(T)'
  BY <1>1, <1>2 DEF ThreadInStep, InHand
<1>5. \A s \in 0..usedIdx-1 : content'[s] = content[s]
  BY <1>1
<1>6. BuffersInOrder(T)'
  BY <1>2, <1>5 DEF BuffersInOrder
<1> QED
  BY <1>3, <1>4, <1>6

(* virtio_consume_desc reads the used index.                               *)
LEMMA ReadIdxKeeps == ASSUME NEW T, Threads = {T}, NetInv(T), ConsumeReadIdx(T) PROVE NetInv(T)'
<1> USE PacketsAssumption DEF NetInv, NetTypes, ConsumeReadIdx, Goto, slirpVars, usedVars
<1>1. QueueInOrder' /\ Taken' = Taken
  BY SameQueue
<1>2. Passed(T)' = Passed(T)
  BY <1>1 DEF Passed, InHand
<1>3. NetTypes'
  <2>1. pc' \in [Threads -> Places] /\ used' \in [Threads -> Nat]
    BY DEF Places
  <2> QED
    BY <2>1, Zenon
<1>4. ThreadInStep(T)'
  BY <1>1 DEF ThreadInStep, InHand
<1>5. BuffersInOrder(T)'
  BY <1>2, SameBuffers
<1> QED
  BY <1>1, <1>3, <1>4, <1>5

(* It writes the element at that index.                                    *)
LEMMA WriteElemKeeps ==
  ASSUME NEW T, Threads = {T}, NetInv(T), ConsumeWriteElem(T) PROVE NetInv(T)'
<1> USE PacketsAssumption DEF NetInv, NetTypes, ConsumeWriteElem, Goto, slirpVars
<1>1. /\ pc[T] = "elem" /\ used[T] = usedIdx /\ usedIdx = last_avail_idx
      /\ last_avail_idx < avail_idx
  BY DEF ThreadInStep
<1>2. Passed(T)' = Passed(T) /\ Taken' = Taken
  BY <1>1 DEF Passed, InHand, Taken
<1>3. NetTypes' /\ QueueInOrder'
  BY <1>1, <1>2 DEF Places, QueueInOrder
<1>4. ThreadInStep(T)'
  BY <1>1, <1>2 DEF ThreadInStep, InHand
<1>5. \A s \in 0..usedIdx-1 : usedRing'[s] = usedRing[s]
  BY <1>1
<1>6. BuffersInOrder(T)'
  BY <1>2, <1>5 DEF BuffersInOrder
<1> QED
  BY <1>3, <1>4, <1>6

(* The used index moves over a buffer that holds the packet in hand, the   *)
(* one after all that were passed.                                         *)
LEMMA WriteIdxKeeps ==
  ASSUME NEW T, Threads = {T}, NetInv(T), ConsumeWriteIdx(T) PROVE NetInv(T)'
<1> USE PacketsAssumption DEF NetInv, NetTypes, ConsumeWriteIdx, Goto, slirpVars
<1>1. /\ pc[T] = "index" /\ used[T] = usedIdx /\ usedIdx = last_avail_idx
      /\ last_avail_idx < avail_idx /\ usedRing[usedIdx] = usedIdx
      /\ content[usedIdx] = Taken /\ Taken \in Nat \ {0} /\ Taken \notin Long
  BY DEF ThreadInStep, InHand, Taken
<1>2. Passed(T) = Taken - 1 /\ Passed(T)' = Taken /\ Taken' = Taken /\ usedIdx' = usedIdx + 1
  BY <1>1 DEF Passed, InHand, Taken
<1>3. NetTypes' /\ QueueInOrder'
  BY <1>1, <1>2 DEF Places, QueueInOrder
<1>4. ThreadInStep(T)'
  BY <1>1, <1>2 DEF ThreadInStep, InHand
<1>5. \A s \in 0..usedIdx'-1 : s = usedIdx \/ s \in 0..usedIdx-1
  BY <1>2
<1>6. \A p \in 1..Passed(T)' : p = Taken \/ p \in 1..Passed(T)
  BY <1>1, <1>2
<1>7. BuffersInOrder(T)'
  <2>1. \A s \in 0..usedIdx'-1 : usedRing'[s] = s /\ content'[s] \in 1..Passed(T)' \ Long
    <3>1. usedRing'[usedIdx] = usedIdx /\ content'[usedIdx] \in 1..Passed(T)' \ Long
      BY <1>1, <1>2
    <3>2. \A s \in 0..usedIdx-1 : usedRing'[s] = s /\ content'[s] \in 1..Passed(T)' \ Long
      BY <1>1, <1>2 DEF BuffersInOrder
    <3> QED
      BY <1>5, <3>1, <3>2
  <2>2. ASSUME NEW r \in 0..usedIdx'-1, NEW s \in 0..usedIdx'-1, r < s
        PROVE  content'[r] < content'[s]
    <3>1. r \in 0..usedIdx-1 /\ content' = content
      BY <1>2, <2>2
    <3>2. CASE s \in 0..usedIdx-1
      BY <2>2, <3>1, <3>2, Zenon DEF BuffersInOrder
    <3>3. CASE s = usedIdx
      <4>1. content[r] \in 1..Passed(T)
        BY <3>1, Zenon DEF BuffersInOrder
      <4>2. content'[s] = Taken
        BY <1>1, <3>1, <3>3, Zenon
      <4> HIDE DEF NetInv, NetTypes, ConsumeWriteIdx
      <4> QED
        BY <1>1, <1>2, <3>1, <4>1, <4>2
    <3> QED
      BY <1>5, <3>2, <3>3, Zenon
  <2>3. \A p \in 1..Passed(T)' \ Long : \E s \in 0..usedIdx'-1 : content'[s] = p
    BY <1>1, <1>2, <1>5, <1>6 DEF BuffersInOrder
  <2> QED
    BY <2>1, <2>2, <2>3 DEF BuffersInOrder
<1> QED
  BY <1>3, <1>4, <1>7

(* last_avail_idx goes on past the buffer.                                 *)
LEMMA AdvanceKeeps == ASSUME NEW T, Threads = {T}, NetInv(T), Advance(T) PROVE NetInv(T)'
<1> USE PacketsAssumption DEF NetInv, NetTypes, Advance, Goto, slirpVars, usedVars
<1>1. QueueInOrder' /\ Taken' = Taken
  BY SameQueue
<1>2. Passed(T)' = Passed(T)
  BY <1>1 DEF Passed, InHand
<1>3. NetTypes'
  BY DEF Places, ThreadInStep
<1>4. ThreadInStep(T)'
  BY <1>1 DEF ThreadInStep, InHand
<1>5. BuffersInOrder(T)'
  BY <1>2, SameBuffers
<1> QED
  BY <1>1, <1>3, <1>4, <1>5

(* With one thread in if_start, every packet that fits arrives whole, in   *)
(* order and once, however arrivals and buffers interleave with the steps  *)
(* of virtio_net_write_packet.                                             *)
THEOREM PacketsAllArrive == ASSUME NEW T, Threads = {T} PROVE Spec => []PacketsArrive
<1>1. Init => NetInv(T)
  BY NetInitially
<1>2. NetInv(T) /\ [Next]_vars => NetInv(T)'
  <2> SUFFICES ASSUME NetInv(T), [Next]_vars PROVE NetInv(T)'
    OBVIOUS
  <2>1. CASE UNCHANGED vars
    <3>1. /\ queue' = queue /\ arrived' = arrived /\ avail_idx' = avail_idx /\ usedIdx' = usedIdx
          /\ last_avail_idx' = last_avail_idx /\ usedRing' = usedRing /\ content' = content
          /\ pc' = pc /\ pkt' = pkt /\ desc' = desc /\ used' = used
      BY <2>1 DEF vars, slirpVars, usedVars, threadVars
    <3>2. QueueInOrder' /\ Taken' = Taken
      BY <3>1, SameQueue DEF NetInv
    <3>3. Passed(T)' = Passed(T)
      BY <3>1, <3>2, Zenon DEF Passed, InHand
    <3>4. BuffersInOrder(T)'
      BY <3>1, <3>3, SameBuffers DEF NetInv
    <3>5. NetTypes'
      BY <3>1, Zenon DEF NetInv, NetTypes
    <3>6. ThreadInStep(T)'
      BY <3>1, <3>2, Zenon DEF NetInv, ThreadInStep, InHand
    <3> QED
      BY <3>2, <3>4, <3>5, <3>6 DEF NetInv
  <2>2. CASE IfStart(T)
    BY <2>2, CanOutputKeeps, TakeKeeps, WriteKeeps, FillKeeps, ReadIdxKeeps,
       WriteElemKeeps, WriteIdxKeeps, AdvanceKeeps DEF IfStart
  <2> QED
    BY <2>1, <2>2, ArriveKeeps, OfferKeeps DEF Next
<1>3. NetInv(T) => PacketsArrive
  <2> SUFFICES ASSUME NetInv(T) PROVE DeliversInOrder /\ NoPacketLost
    BY DEF PacketsArrive
  <2>1. /\ arrived \in Nat /\ usedIdx \in Nat /\ Passed(T) \in 0..arrived
        /\ Taken \in 0..arrived /\ queue \in Seq(Nat) /\ Taken = arrived - Len(queue)
    BY PacketsAssumption, SMTT(30) DEF NetInv, NetTypes, Passed, ThreadInStep, Taken, InHand
  <2>2. \A i \in 1..usedIdx : i - 1 \in 0..usedIdx-1 /\ Received[i] = content[i - 1]
    BY <2>1 DEF NetInv, BuffersInOrder, Received
  <2>3. \A p \in 1..Passed(T) \ Long : \E i \in 1..usedIdx : Received[i] = p
    <3> SUFFICES ASSUME NEW p \in 1..Passed(T) \ Long PROVE \E i \in 1..usedIdx : Received[i] = p
      OBVIOUS
    <3>1. PICK s \in 0..usedIdx-1 : content[s] = p
      BY DEF NetInv, BuffersInOrder
    <3>2. s + 1 \in 1..usedIdx /\ (s + 1) - 1 = s
      BY <2>1
    <3>3. Received[s + 1] = content[(s + 1) - 1]
      BY <2>2, <3>2
    <3> QED
      BY <3>1, <3>2, <3>3
  <2>4. Range(Received) = {Received[i] : i \in 1..usedIdx}
    BY DEF Range, Received
  <2>5. DeliversInOrder
    <3>1. \A i \in 1..usedIdx : Received[i] \in 1..arrived \ Long /\ Received[i] \in 1..Passed(T)
      <4>1. \A s \in 0..usedIdx-1 : content[s] \in 1..Passed(T) \ Long
        BY DEF NetInv, BuffersInOrder
      <4>2. 1..Passed(T) \subseteq 1..arrived
        BY <2>1
      <4> QED
        BY <2>2, <4>1, <4>2
    <3>2. \A i, j \in 1..usedIdx : i < j => Received[i] < Received[j]
      BY <2>1, <2>2 DEF NetInv, BuffersInOrder
    <3>3. \A i \in 1..usedIdx : 1..Received[i] \ Long \subseteq Range(Received)
      BY <2>1, <2>3, <2>4, <3>1
    <3> QED
      BY <3>1, <3>2, <3>3 DEF DeliversInOrder
  <2>6. NoPacketLost
    <3> SUFFICES ASSUME NEW p \in 1..arrived \ Long
                 PROVE  \/ p \in Range(queue) \/ p \in Range(Received)
                        \/ \E t \in Threads : pkt[t] = p /\ pc[t] # "idle"
      BY DEF NoPacketLost
    <3>1. CASE p \in 1..Passed(T)
      BY <2>3, <2>4, <3>1
    <3>2. CASE p > Taken
      <4>1. p - Taken \in 1..Len(queue) /\ Taken + (p - Taken) = p
        BY <2>1, <3>2
      <4>2. queue[p - Taken] = Taken + (p - Taken)
        BY <4>1 DEF NetInv, QueueInOrder
      <4> QED
        <5>1. DOMAIN queue = 1..Len(queue)
          BY DEF NetInv, NetTypes
        <5> QED
          BY <4>1, <4>2, <5>1, Zenon DEF Range
    <3>3. CASE p = Taken /\ InHand(T)
      BY <3>3 DEF NetInv, ThreadInStep, InHand
    <3> QED
      BY <2>1, <3>1, <3>2, <3>3, SMTT(30) DEF Passed
  <2> QED
    BY <2>5, <2>6
<1> QED
  BY <1>1, <1>2, <1>3, PTL DEF Spec

-----------------------------------------------------------------------------
(* The fids. *)
P9Spec == P9Init /\ [][P9Next]_p9vars

(* Requests with their tags; the guest has a tag left whenever it asks,    *)
(* which plays no part here.                                               *)
RequestSet == [op : STRING, fid : Fids, fid2 : Fids, at : Nodes, res : Int,
               short : BOOLEAN, tag : Nat \cup {Min({})}]

(* The types, and the requests that queue_notify has counted are there.    *)
P9Types ==
    /\ fid_list \in [Fids -> Files \cup {NoFile}] /\ live \in [Files -> Nodes \cup {NoFile}]
    /\ view \in [Fids -> Nodes \cup {NoFile}]
    /\ opening \in RequestSet \cup {NoRequest}
    /\ avail \in Seq(RequestSet) /\ run \in 0 .. Len(avail)

(* Fids and live files correspond one to one; a fid that is being opened   *)
(* has a file, and the reply to the open changes none.                     *)
Matched(fids, files) ==
    /\ \A i, j \in Fids : fids[i] = fids[j] /\ fids[i] # NoFile => i = j
    /\ \A f \in Files : files[f] # NoFile => \E i \in Fids : fids[i] = f
    /\ \A i \in Fids : fids[i] # NoFile => files[fids[i]] # NoFile

Told(fids, files, told) ==
    \A i \in Fids : told[i] = IF fids[i] = NoFile THEN NoFile ELSE files[fids[i]]

Moves == {"attach", "walk", "clunk"}

P9IInv ==
    /\ P9Types /\ Matched(fid_list, live) /\ Told(fid_list, live, view)
    /\ req_in_progress =>
          /\ opening.fid \in Fids /\ fid_list[opening.fid] # NoFile
          /\ opening.op \notin Moves

(* The file system has a file left. *)
LEMMA FileLeft ==
  ASSUME P9IInv PROVE NewFile \in Files /\ live[NewFile] = NoFile
<1> SUFFICES ASSUME \A f \in Files : live[f] # NoFile PROVE FALSE
  BY Zenon DEF NewFile
<1> DEFINE g == [f \in Files |-> CHOOSE i \in Fids : fid_list[i] = f]
<1>1. ASSUME NEW f \in Files PROVE g[f] \in Fids /\ fid_list[g[f]] = f
  <2>1. \E i \in Fids : fid_list[i] = f
    BY Zenon DEF P9IInv, Matched
  <2> QED
    BY <2>1
<1>2. g \in [Files -> Fids]
  BY <1>1
<1> HIDE DEF g
<1>3. \E x, y \in Files : x # y /\ g[x] = g[y]
  BY <1>2, FilesAssumption, FS_PigeonHole, FS_CardinalityType
<1> QED
  BY <1>1, <1>3, Zenon

(* fid_set with a new file at node: the file that fid had goes, and every  *)
(* other fid keeps its own.                                                *)
LEMMA FidSetKeeps ==
  ASSUME P9IInv, NEW fid \in Fids, NEW node \in Nodes, NEW o,
         o = fid_set(fid, NewFile, [live EXCEPT ![NewFile] = node])
  PROVE  /\ o.ans = "ok"
         /\ o.fids \in [Fids -> Files \cup {NoFile}] /\ o.live \in [Files -> Nodes \cup {NoFile}]
         /\ Matched(o.fids, o.live) /\ Told(o.fids, o.live, [view EXCEPT ![fid] = node])
<1>1. PICK new \in Files : new = NewFile /\ live[new] = NoFile
  BY FileLeft
<1>2. PICK old : old = fid_list[fid]
  OBVIOUS
<1> DEFINE fids == [fid_list EXCEPT ![fid] = new]
           files == IF old # NoFile THEN [[live EXCEPT ![new] = node] EXCEPT ![old] = NoFile]
                    ELSE [live EXCEPT ![new] = node]
           told == [view EXCEPT ![fid] = node]
<1>3. o.ans = "ok" /\ o.fids = fids /\ o.live = files
  BY <1>1, <1>2 DEF fid_set, fid_find, fs_delete
<1>4. /\ fid_list \in [Fids -> Files \cup {NoFile}] /\ live \in [Files -> Nodes \cup {NoFile}]
      /\ view \in [Fids -> Nodes \cup {NoFile}]
      /\ NoFile \notin Files /\ NoFile \notin Nodes
  BY FilesAssumption DEF P9IInv, P9Types
<1>5. /\ \A i, j \in Fids : fid_list[i] = fid_list[j] /\ fid_list[i] # NoFile => i = j
      /\ \A f \in Files : live[f] # NoFile => \E i \in Fids : fid_list[i] = f
      /\ \A i \in Fids : fid_list[i] # NoFile => live[fid_list[i]] # NoFile
      /\ \A i \in Fids : view[i] = IF fid_list[i] = NoFile THEN NoFile ELSE live[fid_list[i]]
  BY DEF P9IInv, Matched, Told
<1>6. fids \in [Fids -> Files \cup {NoFile}] /\ files \in [Files -> Nodes \cup {NoFile}]
  BY <1>4
<1>7. /\ fids[fid] = new /\ \A i \in Fids \ {fid} : fids[i] = fid_list[i]
      /\ told[fid] = node /\ \A i \in Fids \ {fid} : told[i] = view[i]
  BY <1>4
<1>8. old # NoFile => old \in Files /\ old # new
  BY <1>1, <1>2, <1>4, <1>5
<1>9. /\ files[new] = node
      /\ \A f \in Files : f # new /\ f # old => files[f] = live[f]
      /\ old # NoFile => files[old] = NoFile
  BY <1>1, <1>4, <1>8
<1>10. \A i \in Fids \ {fid} : fid_list[i] # new /\ (fid_list[i] # NoFile => fid_list[i] # old)
  BY <1>1, <1>2, <1>4, <1>5
<1> HIDE DEF fids, files, told
<1>11. Matched(fids, files)
  <2>1. ASSUME NEW i \in Fids, NEW j \in Fids, fids[i] = fids[j], fids[i] # NoFile PROVE i = j
    <3>1. CASE i # fid /\ j # fid
      <4>1. fids[i] = fid_list[i] /\ fids[j] = fid_list[j]
        BY <1>7, <3>1, Zenon
      <4>2. fid_list[i] = fid_list[j] /\ fid_list[i] # NoFile
        BY <2>1, <4>1, Zenon
      <4> QED
        BY <1>5, <4>2, Zenon
    <3>2. CASE i = fid \/ j = fid
      BY <1>7, <1>10, <2>1, <3>2
    <3> QED
      BY <3>1, <3>2
  <2>2. ASSUME NEW f \in Files, files[f] # NoFile PROVE \E i \in Fids : fids[i] = f
    <3>1. CASE f = new
      BY <1>7, <3>1
    <3>2. CASE f # new
      <4>1. f # old
        BY <1>4, <1>9, <2>2
      <4>2. PICK i \in Fids : fid_list[i] = f
        BY <1>5, <1>9, <2>2, <3>2, <4>1
      <4>3. i # fid
        BY <1>2, <4>1, <4>2
      <4> QED
        BY <1>7, <4>2, <4>3
    <3> QED
      BY <3>1, <3>2
  <2>3. ASSUME NEW i \in Fids, fids[i] # NoFile PROVE files[fids[i]] # NoFile
    <3>1. CASE i = fid
      BY <1>4, <1>7, <1>9, <3>1
    <3>2. CASE i # fid
      <4>1. fids[i] = fid_list[i] /\ fid_list[i] \in Files
        BY <1>4, <1>7, <2>3, <3>2
      <4> QED
        BY <1>5, <1>9, <1>10, <2>3, <3>2, <4>1
    <3> QED
      BY <3>1, <3>2
  <2> QED
    BY <2>1, <2>2, <2>3, Zenon DEF Matched
<1>12. Told(fids, files, told)
  <2> SUFFICES ASSUME NEW i \in Fids
               PROVE  told[i] = IF fids[i] = NoFile THEN NoFile ELSE files[fids[i]]
    BY DEF Told
  <2>1. CASE i = fid
    BY <1>4, <1>7, <1>9, <2>1
  <2>2. CASE i # fid
    <3>1. told[i] = view[i] /\ fids[i] = fid_list[i]
      BY <1>7, <2>2
    <3>2. fid_list[i] # NoFile => files[fid_list[i]] = live[fid_list[i]]
      BY <1>4, <1>9, <1>10, <2>2
    <3> QED
      BY <1>5, <3>1, <3>2
  <2> QED
    BY <2>1, <2>2
<1> QED
  BY <1>3, <1>6, <1>11, <1>12, Zenon DEF told

(* fid_delete: the file of fid goes with it. *)
LEMMA FidDeleteKeeps ==
  ASSUME P9IInv, NEW fid \in Fids, NEW o, o = fid_delete(fid)
  PROVE  /\ o.ans = "ok"
         /\ o.fids \in [Fids -> Files \cup {NoFile}] /\ o.live \in [Files -> Nodes \cup {NoFile}]
         /\ Matched(o.fids, o.live) /\ Told(o.fids, o.live, [view EXCEPT ![fid] = NoFile])
<1>1. PICK old : old = fid_list[fid]
  OBVIOUS
<1> DEFINE fids == [fid_list EXCEPT ![fid] = NoFile]
           files == IF old # NoFile THEN [live EXCEPT ![old] = NoFile] ELSE live
           told == [view EXCEPT ![fid] = NoFile]
<1>2. o.ans = "ok" /\ o.fids = fids /\ o.live = files
  BY <1>1 DEF fid_delete, fid_find, fs_delete
<1>3. /\ fid_list \in [Fids -> Files \cup {NoFile}] /\ live \in [Files -> Nodes \cup {NoFile}]
      /\ view \in [Fids -> Nodes \cup {NoFile}]
      /\ NoFile \notin Files
  BY FilesAssumption DEF P9IInv, P9Types
<1>4. /\ \A i, j \in Fids : fid_list[i] = fid_list[j] /\ fid_list[i] # NoFile => i = j
      /\ \A f \in Files : live[f] # NoFile => \E i \in Fids : fid_list[i] = f
      /\ \A i \in Fids : fid_list[i] # NoFile => live[fid_list[i]] # NoFile
      /\ \A i \in Fids : view[i] = IF fid_list[i] = NoFile THEN NoFile ELSE live[fid_list[i]]
  BY DEF P9IInv, Matched, Told
<1>5. fids \in [Fids -> Files \cup {NoFile}] /\ files \in [Files -> Nodes \cup {NoFile}]
  BY <1>3
<1>6. /\ fids[fid] = NoFile /\ \A i \in Fids \ {fid} : fids[i] = fid_list[i]
      /\ told[fid] = NoFile /\ \A i \in Fids \ {fid} : told[i] = view[i]
  BY <1>3
<1>7. /\ \A f \in Files : f # old => files[f] = live[f]
      /\ old # NoFile => files[old] = NoFile
  BY <1>1, <1>3
<1>8. \A i \in Fids \ {fid} : fid_list[i] # NoFile => fid_list[i] # old
  BY <1>1, <1>3, <1>4
<1> HIDE DEF fids, files, told
<1>9. Matched(fids, files)
  <2>1. ASSUME NEW i \in Fids, NEW j \in Fids, fids[i] = fids[j], fids[i] # NoFile PROVE i = j
    <3>1. i # fid /\ j # fid
      BY <1>6, <2>1
    <3>2. fids[i] = fid_list[i] /\ fids[j] = fid_list[j]
      BY <1>6, <3>1
    <3>3. fid_list[i] = fid_list[j] /\ fid_list[i] # NoFile
      BY <2>1, <3>2, Zenon
    <3> QED
      BY <1>4, <3>3, Zenon
  <2>2. ASSUME NEW f \in Files, files[f] # NoFile PROVE \E i \in Fids : fids[i] = f
    <3>1. f # old
      BY <1>3, <1>7, <2>2
    <3>2. PICK i \in Fids : fid_list[i] = f
      BY <1>4, <1>7, <2>2, <3>1
    <3> QED
      BY <1>1, <1>6, <3>1, <3>2
  <2>3. ASSUME NEW i \in Fids, fids[i] # NoFile PROVE files[fids[i]] # NoFile
    <3>1. fids[i] = fid_list[i] /\ fid_list[i] \in Files /\ i # fid
      BY <1>3, <1>6, <2>3
    <3> QED
      BY <1>4, <1>7, <1>8, <2>3, <3>1
  <2> QED
    BY <2>1, <2>2, <2>3, Zenon DEF Matched
<1>10. Told(fids, files, told)
  <2> SUFFICES ASSUME NEW i \in Fids
               PROVE  told[i] = IF fids[i] = NoFile THEN NoFile ELSE files[fids[i]]
    BY DEF Told
  <2>1. CASE i = fid
    BY <1>6, <2>1
  <2>2. CASE i # fid
    <3>1. told[i] = view[i] /\ fids[i] = fid_list[i]
      BY <1>6, <2>2
    <3>2. fid_list[i] # NoFile => files[fid_list[i]] = live[fid_list[i]]
      BY <1>3, <1>7, <1>8, <2>2
    <3> QED
      BY <1>4, <3>1, <3>2
  <2> QED
    BY <2>1, <2>2
<1> QED
  BY <1>2, <1>5, <1>9, <1>10, Zenon DEF told

(* A request makes a fid, drops one, or leaves them all as they are; only  *)
(* an open of a fid that has a file is answered later.                     *)
LEMMA HandleGives ==
  ASSUME NEW r
  PROVE  \/ handle(r) = Outcome("error")
         \/ handle(r) = Outcome("ok") /\ r.op \notin Moves
         \/ handle(r) = Outcome("later") /\ Known(r.fid) /\ r.op \notin Moves
         \/ r.op = "attach" /\ handle(r) = fid_set(r.fid, NewFile, [live EXCEPT ![NewFile] = Root])
         \/ r.op = "walk" /\ handle(r) = fid_set(r.fid2, NewFile, [live EXCEPT ![NewFile] = r.at])
         \/ r.op = "clunk" /\ handle(r) = fid_delete(r.fid)
<1>1. CASE r.short
  BY <1>1, Zenon DEF handle
<1>2. CASE ~r.short /\ r.op = "attach"
  <2>1. handle(r) = attach(r)
    BY <1>2 DEF handle
  <2> QED
    BY <1>2, <2>1, Zenon DEF attach
<1>3. CASE ~r.short /\ r.op = "walk"
  <2>1. handle(r) = walk(r)
    BY <1>3 DEF handle
  <2> QED
    BY <1>3, <2>1, Zenon DEF walk
<1>4. CASE ~r.short /\ r.op = "clunk"
  <2>1. handle(r) = clunk(r)
    BY <1>4 DEF handle
  <2> QED
    BY <1>4, <2>1, Zenon DEF clunk
<1>5. CASE ~r.short /\ r.op = "lopen"
  <2>1. handle(r) = lopen(r)
    BY <1>5 DEF handle
  <2>2. lopen(r) = Outcome("error") \/ lopen(r) = Outcome("ok")
        \/ (lopen(r) = Outcome("later") /\ Known(r.fid))
    BY DEF lopen
  <2> QED
    BY <1>5, <2>1, <2>2 DEF Moves
<1>6. CASE ~r.short /\ r.op \notin Moves \cup {"lopen"}
  <2> DEFINE Plain(o) == o = Outcome("error") \/ o = Outcome("ok")
  <2>1. Plain(ZeroIsOk(r)) /\ Plain(CountIsOk(r))
    BY DEF ZeroIsOk, CountIsOk
  <2>2. Plain(Outcome("error")) /\ Plain(Outcome("ok"))
    OBVIOUS
  <2> HIDE DEF Plain
  <2>3. Plain(link(r)) /\ Plain(renameat(r))
    BY <2>1, <2>2 DEF link, renameat
  <2>4. Plain(handle(r))
    BY <1>6, <2>1, <2>2, <2>3
       DEF handle, Moves, statfs, lcreate, symlink, mknod, readlink, getattr, setattr, xattrwalk,
           readdir, fsync, lock, getlock, mkdir, unlinkat, version, flush, read, write
  <2> QED
    BY <1>6, <2>4 DEF Plain
<1> QED
  BY <1>1, <1>2, <1>3, <1>4, <1>5, <1>6 DEF Moves

(* One turn of queue_notify's loop. *)
LEMMA RecvKeeps ==
  ASSUME P9IInv, RecvRequest PROVE P9IInv'
<1> DEFINE r == Head(avail)
           o == handle(r)
<1>1. run > 0 /\ avail \in Seq(RequestSet) /\ run \in 0 .. Len(avail)
  BY DEF RecvRequest, P9IInv, P9Types
<1>2. CASE Busy
  <2>1. run' = 0 /\ UNCHANGED <<fid_list, live, opening, avail, asked, view>>
    BY <1>2 DEF RecvRequest
  <2>2. run' \in 0 .. Len(avail')
    BY <1>1, <2>1
  <2> QED
    BY <2>1, <2>2, Zenon DEF P9IInv, P9Types, req_in_progress, Matched, Told
<1>3. CASE ~Busy
  <2>1. r \in RequestSet /\ Tail(avail) \in Seq(RequestSet) /\ Len(Tail(avail)) = Len(avail) - 1
    BY <1>1
  <2>2. run' = run - 1 /\ avail' = Tail(avail) /\ fid_list' = o.fids /\ live' = o.live
    BY <1>3 DEF RecvRequest
  <2>3. IF o.ans = "later" THEN opening' = r /\ view' = view
        ELSE opening' = opening /\ view' = Seen(r, o.ans = "ok")
    BY <1>3 DEF RecvRequest, send_reply
  <2>4. avail' \in Seq(RequestSet) /\ run' \in 0 .. Len(avail')
    BY <1>1, <2>1, <2>2
  <2>5. opening = NoRequest
    BY <1>3 DEF Busy, req_in_progress
  <2>6. PICK q \in RequestSet : q = r
    BY <2>1
  <2>7. q.fid \in Fids /\ q.fid2 \in Fids /\ q.at \in Nodes
    BY DEF RequestSet
  <2>8. PICK h : h = o
    OBVIOUS
  <2>9. h = handle(q)
    BY <2>6, <2>8
  <2>10. /\ fid_list' = h.fids /\ live' = h.live
         /\ IF h.ans = "later" THEN opening' = q /\ view' = view
            ELSE opening' = opening /\ view' = Seen(q, h.ans = "ok")
    BY <2>2, <2>3, <2>6, <2>8
  <2> HIDE DEF r, o
  <2>11. ASSUME NEW told \in [Fids -> Nodes \cup {NoFile}], view' = told,
                h.fids \in [Fids -> Files \cup {NoFile}], h.live \in [Files -> Nodes \cup {NoFile}],
                Matched(h.fids, h.live), Told(h.fids, h.live, told),
                opening' = NoRequest \/ (opening' = q /\ h.fids[q.fid] # NoFile /\ q.op \notin Moves)
         PROVE  P9IInv'
    <3>1. opening' \in RequestSet \cup {NoRequest}
      BY <2>11
    <3>2. opening' # NoRequest => /\ opening'.fid \in Fids /\ fid_list'[opening'.fid] # NoFile
                                  /\ opening'.op \notin Moves
      BY <2>7, <2>10, <2>11, Zenon
    <3>3. Matched(fid_list', live') /\ Told(fid_list', live', view')
      BY <2>10, <2>11, Zenon
    <3>4. P9Types'
      BY <2>4, <2>10, <2>11, <3>1, Zenon DEF P9Types
    <3> QED
      BY <3>2, <3>3, <3>4, Zenon DEF P9IInv, req_in_progress, Matched, Told
  <2>12. /\ view \in [Fids -> Nodes \cup {NoFile}]
         /\ fid_list \in [Fids -> Files \cup {NoFile}] /\ live \in [Files -> Nodes \cup {NoFile}]
         /\ Matched(fid_list, live) /\ Told(fid_list, live, view)
    BY DEF P9IInv, P9Types
  <2>13. \A a : Outcome(a).ans = a /\ Outcome(a).fids = fid_list /\ Outcome(a).live = live
    BY DEF Outcome
  <2>14. CASE h = Outcome("error")
    <3>1. h.ans = "error" /\ h.fids = fid_list /\ h.live = live
      BY <2>13, <2>14
    <3>2. view' = view /\ opening' = NoRequest
      BY <2>5, <2>10, <3>1 DEF Seen
    <3> QED
      BY <2>11, <2>12, <3>1, <3>2
  <2>15. CASE h = Outcome("ok") /\ q.op \notin Moves
    <3>1. h.ans = "ok" /\ h.fids = fid_list /\ h.live = live
      BY <2>13, <2>15
    <3>2. view' = view /\ opening' = NoRequest
      BY <2>5, <2>10, <2>15, <3>1 DEF Seen, Moves
    <3> QED
      BY <2>11, <2>12, <3>1, <3>2
  <2>16. CASE h = Outcome("later") /\ Known(q.fid) /\ q.op \notin Moves
    <3>1. h.ans = "later" /\ h.fids = fid_list /\ h.live = live
      BY <2>13, <2>16
    <3>2. view' = view /\ opening' = q /\ h.fids[q.fid] # NoFile /\ q.op \notin Moves
      BY <2>10, <2>16, <3>1 DEF Known, fid_find
    <3> QED
      BY <2>11, <2>12, <3>1, <3>2
  <2>17. CASE q.op = "attach" /\ h = fid_set(q.fid, NewFile, [live EXCEPT ![NewFile] = Root])
    <3>1. Root \in Nodes
      BY FilesAssumption
    <3>2. /\ h.ans = "ok"
          /\ h.fids \in [Fids -> Files \cup {NoFile}] /\ h.live \in [Files -> Nodes \cup {NoFile}]
          /\ Matched(h.fids, h.live) /\ Told(h.fids, h.live, [view EXCEPT ![q.fid] = Root])
      BY <2>7, <2>17, <3>1, FidSetKeeps
    <3>3. view' = [view EXCEPT ![q.fid] = Root] /\ opening' = NoRequest
      BY <2>5, <2>10, <2>17, <3>2 DEF Seen
    <3>4. [view EXCEPT ![q.fid] = Root] \in [Fids -> Nodes \cup {NoFile}]
      BY <2>7, <2>12, <3>1
    <3> QED
      BY <2>11, <3>2, <3>3, <3>4
  <2>18. CASE q.op = "walk" /\ h = fid_set(q.fid2, NewFile, [live EXCEPT ![NewFile] = q.at])
    <3>1. /\ h.ans = "ok"
          /\ h.fids \in [Fids -> Files \cup {NoFile}] /\ h.live \in [Files -> Nodes \cup {NoFile}]
          /\ Matched(h.fids, h.live) /\ Told(h.fids, h.live, [view EXCEPT ![q.fid2] = q.at])
      BY <2>7, <2>18, FidSetKeeps
    <3>2. view' = [view EXCEPT ![q.fid2] = q.at] /\ opening' = NoRequest
      BY <2>5, <2>10, <2>18, <3>1 DEF Seen
    <3>3. [view EXCEPT ![q.fid2] = q.at] \in [Fids -> Nodes \cup {NoFile}]
      BY <2>7, <2>12
    <3> QED
      BY <2>11, <3>1, <3>2, <3>3
  <2>19. CASE q.op = "clunk" /\ h = fid_delete(q.fid)
    <3>1. /\ h.ans = "ok"
          /\ h.fids \in [Fids -> Files \cup {NoFile}] /\ h.live \in [Files -> Nodes \cup {NoFile}]
          /\ Matched(h.fids, h.live) /\ Told(h.fids, h.live, [view EXCEPT ![q.fid] = NoFile])
      BY <2>7, <2>19, FidDeleteKeeps
    <3>2. view' = [view EXCEPT ![q.fid] = NoFile] /\ opening' = NoRequest
      BY <2>5, <2>10, <2>19, <3>1 DEF Seen
    <3>3. [view EXCEPT ![q.fid] = NoFile] \in [Fids -> Nodes \cup {NoFile}]
      BY <2>7, <2>12
    <3> QED
      BY <2>11, <3>1, <3>2, <3>3
  <2> QED
    BY <2>9, <2>14, <2>15, <2>16, <2>17, <2>18, <2>19, HandleGives
<1> QED
  BY <1>2, <1>3

(* The driver sends a request with a tag that is free.                     *)
LEMMA AskKeeps ==
  ASSUME P9IInv, NEW r \in Requests, Ask(r) PROVE P9IInv'
<1> DEFINE free == Tags \ Range(asked)
           q == [r EXCEPT !.tag = Min(free)]
<1>1. /\ avail' = Append(avail, q)
      /\ UNCHANGED <<fid_list, live, opening, run, view>>
  BY DEF Ask
<1>2. Min(free) \in Nat \cup {Min({})}
  <2>1. free \in SUBSET Nat
    BY FilesAssumption DEF Tags
  <2>2. CASE free = {}
    BY <2>2
  <2>3. CASE free # {}
    BY <2>1, <2>3, LeastMember DEF Min
  <2> QED
    BY <2>2, <2>3
<1>3. r \in [op : STRING, fid : Fids, fid2 : Fids, at : Nodes, res : Int,
             short : BOOLEAN, tag : {0}]
  BY FilesAssumption
<1>4. q \in RequestSet
  <2> HIDE DEF free
  <2> QED
    BY <1>2, <1>3 DEF RequestSet
<1> HIDE DEF q
<1>5. avail \in Seq(RequestSet) /\ run \in 0 .. Len(avail)
  BY DEF P9IInv, P9Types
<1>6. avail' \in Seq(RequestSet) /\ Len(avail') = Len(avail) + 1 /\ Len(avail) \in Nat
  BY <1>1, <1>4, <1>5
<1>7. run' \in 0 .. Len(avail')
  BY <1>1, <1>5, <1>6
<1> QED
  BY <1>1, <1>6, <1>7, Zenon DEF P9IInv, P9Types, req_in_progress, Matched, Told

(* An open that had to wait is done.                                       *)
LEMMA OpenDoneKeeps ==
  ASSUME P9IInv, NEW ok \in BOOLEAN, OpenDone(ok) PROVE P9IInv'
<1>1. /\ opening' = NoRequest /\ run' = Len(avail) /\ view' = Seen(opening, ok)
      /\ UNCHANGED <<fid_list, live, avail>>
  BY DEF OpenDone, send_reply, Resumed
<1>2. opening.op \notin Moves
  BY DEF OpenDone, P9IInv
<1>3. view' = view
  BY <1>1, <1>2 DEF Seen, Moves
<1>4. run' \in 0 .. Len(avail')
  BY <1>1 DEF P9IInv, P9Types
<1>5. opening' \in RequestSet \cup {NoRequest}
  BY <1>1
<1> QED
  BY <1>1, <1>3, <1>4, <1>5, Zenon DEF P9IInv, P9Types, req_in_progress, Matched, Told

(* The fids, the files behind them and what the replies told the guest     *)
(* stay together: through requests that fail, fids that are walked onto    *)
(* themselves or reused, and opens that are answered later, no file is     *)
(* lost and no fid is left with a file that was deleted, for any number of *)
(* fids, nodes and requests.                                               *)
THEOREM FidsStaySound == P9Spec => []FidsSound
<1>1. P9Init => P9IInv
  <2> SUFFICES ASSUME P9Init PROVE P9IInv
    OBVIOUS
  <2>1. \A i \in Fids : fid_list[i] = NoFile /\ view[i] = NoFile
    BY DEF P9Init
  <2>2. \A f \in Files : live[f] = NoFile
    BY DEF P9Init
  <2>3. P9Types
    BY DEF P9Init, P9Types
  <2> QED
    BY <2>1, <2>2, <2>3, Zenon DEF P9Init, P9IInv, Matched, Told, req_in_progress
<1>2. P9IInv /\ [P9Next]_p9vars => P9IInv'
  <2> SUFFICES ASSUME P9IInv, [P9Next]_p9vars PROVE P9IInv'
    OBVIOUS
  <2>1. CASE QueueNotify
    <3>1. run' = Len(avail) /\ UNCHANGED <<fid_list, live, opening, avail, view>>
      BY <2>1 DEF QueueNotify
    <3>2. run' \in 0 .. Len(avail')
      BY <3>1 DEF P9IInv, P9Types
    <3> QED
      BY <3>1, <3>2, Zenon DEF P9IInv, P9Types, req_in_progress, Matched, Told
  <2>2. CASE UNCHANGED p9vars
    BY <2>2, Zenon DEF p9vars, P9IInv, P9Types, req_in_progress, Matched, Told
  <2> QED
    BY <2>1, <2>2, AskKeeps, RecvKeeps, OpenDoneKeeps DEF P9Next
<1>3. P9IInv => FidsSound
  <2> SUFFICES ASSUME P9IInv PROVE FidsSound
    OBVIOUS
  <2>1. ASSUME NEW f \in Files, live[f] # NoFile
        PROVE  Cardinality({i \in Fids : fid_list[i] = f}) = 1
    <3>1. PICK i \in Fids : fid_list[i] = f
      BY <2>1, Zenon DEF P9IInv, Matched
    <3>2. f # NoFile
      BY FilesAssumption
    <3>3. {j \in Fids : fid_list[j] = f} = {i}
      BY <3>1, <3>2 DEF P9IInv, Matched
    <3> QED
      BY <3>3, FS_Singleton
  <2>2. FidsFollowReplies
    BY Zenon DEF P9IInv, Told, FidsFollowReplies
  <2>3. \A i \in Fids : fid_list[i] # NoFile => live[fid_list[i]] # NoFile
    BY DEF P9IInv, Matched
  <2> QED
    BY <2>1, <2>2, <2>3, Zenon DEF FidsSound, FilesHeld
<1> QED
  BY <1>1, <1>2, <1>3, PTL DEF P9Spec
=============================================================================
