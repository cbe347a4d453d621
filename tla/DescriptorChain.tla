--------------------------- MODULE DescriptorChain ---------------------------
(***************************************************************************)
(* The walk over a chain of descriptors (get_desc_rw_size and              *)
(* memcpy_to_from_queue, virtio.c) and the device handlers that are little *)
(* more than it: virtio_net_recv_request and virtio_console_recv_request   *)
(* for data of the guest, virtio_entropy_recv_request and                  *)
(* virtio_net_write_packet for data to it.                                 *)
(*                                                                         *)
(* A chain is the sequence of its descriptors, [w, len]: w for             *)
(* VRING_DESC_F_WRITE, and NEXT on all but the last.  Byte k of descriptor *)
(* d is <<d, k>>.  One behaviour handles one chain; every loop of the code *)
(* takes a step for each turn.                                             *)
(***************************************************************************)
EXTENDS Integers, Sequences, FiniteSets, FiniteSetsExt, SequencesExt

CONSTANTS MaxDescs, MaxLen,  \* bounds on a chain
          Header,            \* header_size
          Block,             \* sizeof(s1->buf) of the entropy device
          PacketLen          \* length of a packet for the guest

VARIABLES chain, device,
          running,      \* what runs: a loop of the two functions, or the handler
          step,    \* how far the handler is
          d,       \* the descriptor in hand
          sizes,   \* read_size and write_size
          call,    \* the running copy: to_queue, offset, count, asked, from
          ret,     \* result of the last call
          done,    \* bytes of the chain it copied, in order
          filled,  \* bytes of the chain written so far
          passed,  \* bytes handed to the network or the console
          used     \* length the chain was consumed with; -1 before that

dcvars == <<chain, device, running, step, d, sizes, call, ret, done, filled, passed, used>>

NoCall == [to_queue |-> FALSE, offset |-> 0, count |-> 0, from |-> 0, asked |-> 0]

DcInit ==
    /\ chain \in UNION {[1 .. n -> [w : BOOLEAN, len : 0 .. MaxLen]] : n \in 1 .. MaxDescs}
    /\ device \in {"net tx", "console", "entropy", "net rx"}
    /\ running = "read" /\ step = "size" /\ d = 1
    /\ sizes = [read |-> 0, write |-> 0] /\ call = NoCall /\ ret = 0 /\ done = <<>>
    /\ filled = <<>> /\ passed = <<>> /\ used = -1

HasNext(i) == i < Len(chain)     \* VRING_DESC_F_NEXT

Following(i) == i + 1

HandlerVars == <<chain, device, step, filled, passed, used>>

-----------------------------------------------------------------------------
(* get_desc_rw_size: the readable descriptors first, then the writable     *)
(* ones.                                                                   *)
SizeRead ==
    /\ running = "read"
    /\ \/ /\ chain[d].w
          /\ running' = "write" /\ UNCHANGED <<d, sizes, ret>>
       \/ /\ ~chain[d].w
          /\ sizes' = [sizes EXCEPT !.read = @ + chain[d].len]
          /\ IF HasNext(d) THEN d' = Following(d) /\ running' = running /\ ret' = ret
             ELSE d' = d /\ running' = "handler" /\ ret' = 0
    /\ UNCHANGED <<HandlerVars, call, done>>

SizeWrite ==
    /\ running = "write"
    /\ \/ /\ ~chain[d].w
          /\ running' = "handler" /\ ret' = -1 /\ UNCHANGED <<d, sizes>>
       \/ /\ chain[d].w
          /\ sizes' = [sizes EXCEPT !.write = @ + chain[d].len]
          /\ IF HasNext(d) THEN d' = Following(d) /\ running' = running /\ ret' = ret
             ELSE d' = d /\ running' = "handler" /\ ret' = 0
    /\ UNCHANGED <<HandlerVars, call, done>>

-----------------------------------------------------------------------------
(* memcpy_to_from_queue: the first writable descriptor, ... *)
SeekWrite ==
    /\ running = "seek write"
    /\ \/ /\ chain[d].w
          /\ running' = "seek offset" /\ UNCHANGED <<d, ret>>
       \/ /\ ~chain[d].w /\ HasNext(d)
          /\ d' = Following(d) /\ UNCHANGED <<running, ret>>
       \/ /\ ~chain[d].w /\ ~HasNext(d)
          /\ running' = "handler" /\ ret' = -1 /\ UNCHANGED d
    /\ UNCHANGED <<HandlerVars, sizes, call, done>>

(* ... the descriptor the offset falls into, ... *)
SeekOffset ==
    /\ running = "seek offset"
    /\ LET fits == chain[d].w = call.to_queue
       IN \/ /\ fits /\ call.offset < chain[d].len
             /\ running' = "copy" /\ UNCHANGED <<d, ret, call>>
          \/ /\ fits /\ call.offset >= chain[d].len /\ HasNext(d)
             /\ call' = [call EXCEPT !.offset = @ - chain[d].len]
             /\ d' = Following(d) /\ UNCHANGED <<running, ret>>
          \/ /\ ~fits \/ (call.offset >= chain[d].len /\ ~HasNext(d))
             /\ running' = "handler" /\ ret' = -1 /\ UNCHANGED <<d, call>>
    /\ UNCHANGED <<HandlerVars, sizes, done>>

GoesOn(i) == HasNext(i) /\ chain[Following(i)].w = call.to_queue

(* ... and the copy, one descriptor at a time. *)
Copy ==
    /\ running = "copy"
    /\ LET l     == Min({call.count, chain[d].len - call.offset})
           end   == call.offset + l
           bytes == [k \in 1 .. l |-> <<d, call.offset + k>>]
       IN /\ done' = done \o bytes
          /\ filled' = IF call.to_queue THEN filled \o bytes ELSE filled
          /\ call' = [call EXCEPT !.count = @ - l,
                                  !.offset = IF end = chain[d].len THEN 0 ELSE end]
          /\ \/ /\ call.count = l
                /\ running' = "handler" /\ ret' = 0 /\ UNCHANGED d
             \/ /\ call.count > l /\ GoesOn(d)
                /\ d' = Following(d) /\ UNCHANGED <<running, ret>>
             \/ /\ call.count > l /\ ~GoesOn(d)
                /\ running' = "handler" /\ ret' = -1 /\ UNCHANGED d
    /\ UNCHANGED <<chain, device, step, passed, used, sizes>>

(* A call of it.  A count of zero returns at once. *)
Memcpy(to, offset, count) ==
    /\ call' = [to_queue |-> to, offset |-> offset, count |-> count,
                from |-> offset, asked |-> count]
    /\ d' = 1 /\ done' = <<>> /\ ret' = 0
    /\ running' = IF count = 0 THEN "handler" ELSE IF to THEN "seek write" ELSE "seek offset"

-----------------------------------------------------------------------------
Idle == UNCHANGED <<chain, device, sizes, d, call, ret, done, running, filled>>
Consume(len) == used' = len

(* queue_notify passes over a chain whose sizes cannot be told. *)
Sized ==
    /\ running = "handler" /\ step = "size"
    /\ step' = IF ret < 0 THEN "skipped" ELSE "start"
    /\ Idle /\ UNCHANGED <<passed, used>>

(* virtio_net_recv_request: the header, whose absence ends it, then the    *)
(* rest, which goes to the network.                                        *)
NetHeader ==
    /\ device = "net tx" /\ running = "handler" /\ step = "start"
    /\ Memcpy(FALSE, 0, Header) /\ step' = "header"
    /\ UNCHANGED <<chain, device, sizes, filled, passed, used>>
NetData ==
    /\ device = "net tx" /\ running = "handler" /\ step = "header"
    /\ IF ret < 0 THEN step' = "skipped" /\ UNCHANGED <<d, call, ret, done, running>>
       ELSE Memcpy(FALSE, Header, sizes.read - Header) /\ step' = "data"
    /\ UNCHANGED <<chain, device, sizes, filled, passed, used>>
NetSend ==
    /\ device = "net tx" /\ running = "handler" /\ step = "data"
    /\ passed' = done /\ Consume(0) /\ step' = "end"
    /\ Idle

(* virtio_console_recv_request. *)
ConsoleData ==
    /\ device = "console" /\ running = "handler" /\ step = "start"
    /\ Memcpy(FALSE, 0, sizes.read) /\ step' = "data"
    /\ UNCHANGED <<chain, device, sizes, filled, passed, used>>
ConsoleSend ==
    /\ device = "console" /\ running = "handler" /\ step = "data"
    /\ passed' = done /\ Consume(0) /\ step' = "end"
    /\ Idle

BlockSize(offset) == Min({Block, sizes.write - offset})

\* Mutated form: the offset advances by a block, however little was copied.
Advanced_Block == call.from + BlockSize(call.from)
Advanced == call.from + call.asked

(* virtio_entropy_recv_request: blocks of random bytes until the chain is  *)
(* full; getrandom may give fewer than it is asked for.                    *)
EntropyBlock ==
    /\ device = "entropy" /\ running = "handler" /\ step \in {"start", "block"}
    /\ LET offset == IF step = "start" THEN 0 ELSE Advanced
       IN IF offset < sizes.write
          THEN /\ \E n \in 1 .. BlockSize(offset) : Memcpy(TRUE, offset, n)
               /\ step' = "block" /\ used' = used
          ELSE /\ Consume(sizes.write) /\ step' = "end"
               /\ UNCHANGED <<d, call, ret, done, running>>
    /\ UNCHANGED <<chain, device, sizes, filled, passed>>

(* virtio_net_write_packet: a chain too small for the packet is left.      *)
PacketHeader ==
    /\ device = "net rx" /\ running = "handler" /\ step = "start"
    /\ IF Header + PacketLen > sizes.write
       THEN step' = "skipped" /\ UNCHANGED <<d, call, ret, done, running>>
       ELSE Memcpy(TRUE, 0, Header) /\ step' = "header"
    /\ UNCHANGED <<chain, device, sizes, filled, passed, used>>
PacketData ==
    /\ device = "net rx" /\ running = "handler" /\ step = "header"
    /\ Memcpy(TRUE, Header, PacketLen) /\ step' = "data"
    /\ UNCHANGED <<chain, device, sizes, filled, passed, used>>
PacketDone ==
    /\ device = "net rx" /\ running = "handler" /\ step = "data"
    /\ Consume(Header + PacketLen) /\ step' = "end"
    /\ Idle /\ UNCHANGED passed

DcNext ==
    \/ SizeRead \/ SizeWrite \/ SeekWrite \/ SeekOffset \/ Copy \/ Sized
    \/ NetHeader \/ NetData \/ NetSend \/ ConsoleData \/ ConsoleSend
    \/ EntropyBlock \/ PacketHeader \/ PacketData \/ PacketDone

-----------------------------------------------------------------------------
(* The bytes of the chain on one side, in order. *)
Side(w) ==
    FlattenSeq([i \in DOMAIN chain |->
        IF chain[i].w = w THEN [k \in 1 .. chain[i].len |-> <<i, k>>] ELSE <<>>])

(* A copy that succeeds has touched the bytes asked for, in order, and no  *)
(* copy at all touches a byte of the other kind: nothing is written into a *)
(* readable buffer of the guest nor read from a writable one, wherever the *)
(* offset falls and however the chain is cut up, empty descriptors         *)
(* included.                                                               *)
CopyTouchesRange ==
    /\ \A i \in DOMAIN done : chain[done[i][1]].w = call.to_queue
    /\ running = "handler" /\ call.asked > 0 /\ ret = 0 =>
          done = SubSeq(Side(call.to_queue), call.from + 1, call.from + call.asked)

(* A chain that goes back has been handled whole: the backend has its data *)
(* without the header, the guest its length of random bytes or its packet, *)
(* each byte written once.                                                 *)
ConsumedIsWhole ==
    used >= 0 =>
        CASE device = "net tx" -> passed = SubSeq(Side(FALSE), Header + 1, sizes.read)
          [] device = "console" -> passed = Side(FALSE)
          [] device = "entropy" -> filled = Side(TRUE) /\ used = Len(filled)
          [] OTHER -> filled = SubSeq(Side(TRUE), 1, used)

(* The data of a chain moves between the guest and the backend whole and   *)
(* in order, and nothing else is touched.                                  *)
ChainsHandled == CopyTouchesRange /\ ConsumedIsWhole

=============================================================================
