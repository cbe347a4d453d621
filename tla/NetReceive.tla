----------------------------- MODULE NetReceive -----------------------------
(***************************************************************************)
(* Packets from slirp to the guest: if_start (src/slirp/if.c) sends what   *)
(* slirp has queued, through slirp_can_output and slirp_output, into the   *)
(* receive queue of the network device, queue 0, in                        *)
(* virtio_net_write_packet (src/virtio.c).                                 *)
(*                                                                         *)
(* if_start runs on the I/O thread (slirp_select_poll) and, for a packet   *)
(* that answers one the guest has sent, on the worker (slirp_input).       *)
(* There is no lock.  Buffers are known by their index in the avail ring   *)
(* and are not reused; slirp's queue is a sequence, and taking its head is *)
(* one step.  A packet is its position in the order of arrival.            *)
(***************************************************************************)
EXTENDS Naturals, Sequences, Functions

CONSTANTS
  Threads,    \* the threads that run if_start
  Packets,    \* number of packets that arrive
  Long,       \* the packets that do not fit into a buffer
  Buffers     \* number of buffers the driver offers

ASSUME PacketsAssumption == Packets \in Nat /\ Buffers \in Nat
ASSUME LongAssumption == Long \subseteq 1..Packets

VARIABLES
  arrived, queue,       \* packets so far, and those still in slirp's queue
  avail_idx, last_avail_idx,
  content,              \* guest memory: what each buffer holds
  usedRing, usedIdx,    \* guest memory: the used ring
  pc, pkt, desc, used   \* threads: place, packet, desc_idx, used_idx

slirpVars == <<arrived, queue>>
usedVars == <<usedRing, usedIdx>>
threadVars == <<pc, pkt, desc, used>>
vars == <<slirpVars, avail_idx, last_avail_idx, content, usedVars, threadVars>>

Init ==
  /\ arrived = 0 /\ queue = <<>>
  /\ avail_idx = 0 /\ last_avail_idx = 0
  /\ content = [b \in 0..Buffers-1 |-> 0]
  /\ usedRing = [s \in 0..Buffers-1 |-> 0] /\ usedIdx = 0
  /\ pc = [t \in Threads |-> "idle"]
  /\ pkt = [t \in Threads |-> 0]
  /\ desc = [t \in Threads |-> 0]
  /\ used = [t \in Threads |-> 0]

Goto(t, place) == pc' = [pc EXCEPT ![t] = place]

-----------------------------------------------------------------------------
(* A packet for the guest is queued by slirp (if_output).                  *)
Arrive ==
  /\ arrived < Packets
  /\ arrived' = arrived + 1
  /\ queue' = Append(queue, arrived')
  /\ UNCHANGED <<avail_idx, last_avail_idx, content, usedVars, threadVars>>

(* The driver offers a buffer (external) and the worker caches the avail
   index in queue_notify, which does no more for a manual_recv queue.      *)
Offer ==
  /\ avail_idx < Buffers
  /\ avail_idx' = avail_idx + 1
  /\ UNCHANGED <<slirpVars, last_avail_idx, content, usedVars, threadVars>>

\* Mutated form: the check is left out.
CanOutput_NoCheck(t) ==
  /\ pc[t] = "idle" /\ queue # <<>>
  /\ Goto(t, "take")
  /\ UNCHANGED <<slirpVars, avail_idx, last_avail_idx, content, usedVars, pkt, desc, used>>

(* if_start: something is queued and virtio_net_can_write_packet.          *)
CanOutput(t) ==
  /\ pc[t] = "idle" /\ queue # <<>>
  /\ last_avail_idx # avail_idx
  /\ Goto(t, "take")
  /\ UNCHANGED <<slirpVars, avail_idx, last_avail_idx, content, usedVars, pkt, desc, used>>

(* It takes the packet off the queue, unless the other thread just did.    *)
Take(t) ==
  /\ pc[t] = "take"
  /\ IF queue = <<>>
       THEN Goto(t, "idle") /\ UNCHANGED <<queue, pkt>>
       ELSE /\ pkt' = [pkt EXCEPT ![t] = Head(queue)]
            /\ queue' = Tail(queue)
            /\ Goto(t, "write")
  /\ UNCHANGED <<arrived, avail_idx, last_avail_idx, content, usedVars, desc, used>>

(* virtio_net_write_packet: without a buffer, or with one that is too short,
   it returns and the packet is gone; else it reads the ring entry.        *)
WritePacket(t) ==
  /\ pc[t] = "write"
  /\ desc' = [desc EXCEPT ![t] = last_avail_idx]
  /\ Goto(t, IF last_avail_idx = avail_idx \/ pkt[t] \in Long THEN "idle" ELSE "fill")
  /\ UNCHANGED <<slirpVars, avail_idx, last_avail_idx, content, usedVars, pkt, used>>

(* memcpy_to_queue of header and packet.                                   *)
Fill(t) ==
  /\ pc[t] = "fill"
  /\ content' = [content EXCEPT ![desc[t]] = pkt[t]]
  /\ Goto(t, "consume")
  /\ UNCHANGED <<slirpVars, avail_idx, last_avail_idx, usedVars, pkt, desc, used>>

(* virtio_consume_desc: read the used index, ...                           *)
ConsumeReadIdx(t) ==
  /\ pc[t] = "consume"
  /\ used' = [used EXCEPT ![t] = usedIdx]
  /\ Goto(t, "elem")
  /\ UNCHANGED <<slirpVars, avail_idx, last_avail_idx, content, usedVars, pkt, desc>>

(* ... write the element and then the index.                               *)
ConsumeWriteElem(t) ==
  /\ pc[t] = "elem"
  /\ usedRing' = [usedRing EXCEPT ![used[t]] = desc[t]]
  /\ Goto(t, "index")
  /\ UNCHANGED <<slirpVars, avail_idx, last_avail_idx, content, usedIdx, pkt, desc, used>>

ConsumeWriteIdx(t) ==
  /\ pc[t] = "index"
  /\ usedIdx' = used[t] + 1
  /\ Goto(t, "advance")
  /\ UNCHANGED <<slirpVars, avail_idx, last_avail_idx, content, usedRing, pkt, desc, used>>

(* last_avail_idx++, and if_start looks for more.                          *)
Advance(t) ==
  /\ pc[t] = "advance"
  /\ last_avail_idx' = last_avail_idx + 1
  /\ Goto(t, "idle")
  /\ UNCHANGED <<slirpVars, avail_idx, content, usedVars, pkt, desc, used>>

-----------------------------------------------------------------------------
IfStart(t) ==
  \/ CanOutput(t) \/ Take(t) \/ WritePacket(t) \/ Fill(t)
  \/ ConsumeReadIdx(t) \/ ConsumeWriteElem(t) \/ ConsumeWriteIdx(t) \/ Advance(t)

Next == Arrive \/ Offer \/ \E t \in Threads : IfStart(t)

Spec == Init /\ [][Next]_vars

-----------------------------------------------------------------------------
Received == [i \in 1..usedIdx |-> content[usedRing[i - 1]]]

(* What the driver finds in the used ring are the packets that fit, whole, in
   order, each once and none left out: the steps of virtio_net_write_packet hand
   a buffer over filled. *)
DeliversInOrder ==
  /\ \A i \in 1..usedIdx : Received[i] \in 1..arrived \ Long
  /\ \A i, j \in 1..usedIdx : i < j => Received[i] < Received[j]
  /\ \A i \in 1..usedIdx : 1..Received[i] \ Long \subseteq Range(Received)

(* No packet that fits is lost: if_start takes it off the queue only after "check
   if we can really output", so virtio_net_write_packet finds a buffer, and the
   driver finds the packet in it. *)
NoPacketLost ==
  \A p \in 1..arrived \ Long :
    \/ p \in Range(queue)
    \/ p \in Range(Received)
    \/ \E t \in Threads : pkt[t] = p /\ pc[t] # "idle"

(* Packets that fit arrive whole, in order and all of them, when one thread
   runs if_start. *)
PacketsArrive == DeliversInOrder /\ NoPacketLost

=============================================================================
