---------------------------- MODULE SocketBuffer ----------------------------
(***************************************************************************)
(* The ring buffer of a TCP socket (sbuf.c) and the calls that move data   *)
(* between it and the host's socket: soread with sopreprbuf for so_snd,    *)
(* sbappend, sowrite and sosendoob for so_rcv (socket.c).                  *)
(*                                                                         *)
(* Pointers are offsets from sb_data.  The bytes of the stream are         *)
(* numbered modulo Numbers, more than the ring holds, so that a byte out   *)
(* of place is told from the right one.  The host takes or gives any part  *)
(* of what a call offers it.                                               *)
(***************************************************************************)
EXTENDS Integers, Sequences, FiniteSets, FiniteSetsExt

CONSTANTS DataLen,  \* sb_datalen
          Mss,      \* t_maxseg
          OobCut    \* whether an urgent send may fail or take only a part

Numbers == 2 * DataLen

VARIABLES use,      \* "snd" or "rcv": so_snd or so_rcv
          sb,       \* [ring, cc, wptr, rptr], and first, the number of the
                    \* oldest byte not yet taken out
          so_urgc,  \* bytes still to be sent as urgent data
          out       \* [from, bytes]: what the last call handed on

sbvars == <<use, sb, so_urgc, out>>

Stream(from, n) == [i \in 1 .. n |-> (from + i - 1) % Numbers]

SbInit ==
    /\ use \in {"snd", "rcv"}
    /\ sb = [ring |-> [i \in 0 .. DataLen - 1 |-> -1],           \* sbreserve
             cc |-> 0, wptr |-> 0, rptr |-> 0, first |-> 0]
    /\ so_urgc = 0
    /\ out = [from |-> 0, bytes |-> <<>>]

-----------------------------------------------------------------------------
(* A pointer moved past the right edge comes back at the left. *)
Wrap(p) == IF p >= DataLen THEN p - DataLen ELSE p

(* memcpy to and from one straight part of the ring. *)
Written(ring, at, bytes) ==
    [i \in DOMAIN ring |->
        IF i >= at /\ i < at + Len(bytes) THEN bytes[i - at + 1] ELSE ring[i]]
Straight(b, at, n) == [i \in 1 .. n |-> b.ring[at + i - 1]]

(* a bytes at the writer's end and c more at the left edge. *)
Filled(b, new, a, c) ==
    [b EXCEPT !.ring = Written(Written(@, b.wptr, SubSeq(new, 1, a)),
                               0, SubSeq(new, a + 1, a + c)),
              !.cc = @ + a + c,
              !.wptr = Wrap(@ + a + c)]

(* n bytes leave at the reader's end: sbdrop, and the end of every send.   *)
(* What they leave behind in the ring counts as no byte of the stream.     *)
sbdrop(b, n) ==
    [b EXCEPT !.cc = @ - n, !.rptr = Wrap(@ + n), !.first = (@ + n) % Numbers,
              !.ring = [i \in DOMAIN @ |->
                          IF (i - b.rptr) % DataLen < n THEN -1 ELSE @[i]]]

(* The next n bytes of the stream to come in. *)
Incoming(b, n) == Stream(b.first + b.cc, n)

-----------------------------------------------------------------------------
\* Mutated form: the room right of the data is taken to reach the edge.
sopreprbuf_PastReader(b) == [one |-> DataLen - b.wptr, two |-> 0]
(* The one or two free parts to read into, cut to whole segments. *)
sopreprbuf(b) ==
    LET room     == DataLen - b.cc
        right    == Min({DataLen - b.wptr, room})
        left     == Min({b.rptr, room - right})
        cut      == (right + left) % Mss
        whole(n) == IF n > Mss THEN n - (n % Mss) ELSE n
    IN CASE b.wptr < b.rptr ->
              [one |-> whole(Min({b.rptr - b.wptr, room})), two |-> 0]
         [] b.wptr >= b.rptr /\ room = right -> [one |-> whole(right), two |-> 0]
         [] b.wptr >= b.rptr /\ room # right /\ right + left <= Mss ->
              [one |-> right, two |-> left]
         [] OTHER -> IF left > cut THEN [one |-> right, two |-> left - cut]
                     ELSE [one |-> right - (cut - left), two |-> 0]

(* soread, when slirp_select_fill finds the buffer less than half full:    *)
(* the first part, and the second if the first was filled.                 *)
SbRead ==
    /\ use = "snd" /\ sb.cc < DataLen \div 2
    /\ LET iov == sopreprbuf(sb)
       IN \E a \in 1 .. iov.one : \E c \in IF a = iov.one THEN 0 .. iov.two ELSE {0} :
             sb' = Filled(sb, Incoming(sb, a + c), a, c)
    /\ UNCHANGED <<use, so_urgc, out>>

(* len bytes from offset off on, which tcp_output puts into a segment. *)
sbcopy(b, off, len) ==
    LET from  == Wrap(b.rptr + off)
        right == Min({DataLen - from, len})
    IN IF from < b.wptr THEN Straight(b, from, Min({len, b.cc}))
       ELSE Straight(b, from, right) \o Straight(b, 0, len - right)

SbCopy ==
    /\ use = "snd"
    /\ \E off \in 0 .. sb.cc : \E len \in 1 .. Min({Mss, sb.cc - off}) :
          out' = [from |-> (sb.first + off) % Numbers, bytes |-> sbcopy(sb, off, len)]
    /\ UNCHANGED <<use, sb, so_urgc>>

(* The guest acknowledges data. *)
SbDrop ==
    /\ use = "snd"
    /\ \E n \in 1 .. sb.cc : sb' = sbdrop(sb, n)
    /\ UNCHANGED <<use, so_urgc, out>>

-----------------------------------------------------------------------------
(* sbappendsb of a segment that fits the room, as the window sees to. *)
sbappendsb(b, new) ==
    LET right == IF b.wptr < b.rptr THEN b.rptr - b.wptr ELSE DataLen - b.wptr
        n     == Min({right, Len(new)})
        nn    == IF b.wptr < b.rptr THEN 0 ELSE Min({b.rptr, Len(new) - n})
    IN Filled(b, new, n, nn)

(* sosendoob: the urgent bytes in one piece, straight from the ring or put *)
(* together in a buffer; n, the result of the send, is taken off the ring. *)
OobBytes(b, urgc) ==
    LET right == Min({DataLen - b.rptr, urgc})
    IN IF b.rptr < b.wptr THEN Straight(b, b.rptr, urgc)
       ELSE Straight(b, b.rptr, right) \o Straight(b, 0, Min({b.wptr, urgc - right}))

OobResults(b, urgc) ==
    LET all == Len(OobBytes(b, urgc)) IN IF OobCut THEN -1 .. all ELSE {all}

(* The count goes down by what was sent, or by all that was copied. *)
OobLeft(b, urgc, n) ==
    urgc - (IF b.rptr < b.wptr THEN n ELSE Len(OobBytes(b, urgc)))

(* sbappend writes at once only what nothing older waits for. *)
DirectWrite(b) == b.cc = 0

(* sbappend without urgent data in sight. *)
SbAppend ==
    /\ use = "rcv" /\ so_urgc = 0
    /\ \E len \in 1 .. DataLen - sb.cc :
       \E sent \in IF DirectWrite(sb) THEN 0 .. len ELSE {0} :
          LET new == Incoming(sb, len)
          IN /\ out' = [from |-> sb.first, bytes |-> SubSeq(new, 1, sent)]
             /\ sb' = sbappendsb([sb EXCEPT !.first = (@ + sent) % Numbers],
                                 SubSeq(new, sent + 1, len))
    /\ UNCHANGED <<use, so_urgc>>

(* sbappend with urgent data: urg bytes of this segment, and all before    *)
(* them, or what an earlier call has left.                                 *)
SbAppendUrgent ==
    /\ use = "rcv"
    /\ \E len \in 1 .. DataLen - sb.cc : \E urg \in 0 .. len :
          LET b    == sbappendsb(sb, Incoming(sb, len))
              urgc == IF urg > 0 THEN sb.cc + urg ELSE so_urgc
          IN /\ urgc > 0
             /\ \E n \in OobResults(b, urgc) :
                   /\ out' = [from |-> b.first, bytes |-> SubSeq(OobBytes(b, urgc), 1, n)]
                   /\ so_urgc' = OobLeft(b, urgc, n)
                   /\ sb' = sbdrop(b, n)
    /\ UNCHANGED use

(* sowrite goes on to the second part when all of the first was taken. *)
SecondPart(a, one) == a = one

(* sowrite: urgent bytes first, if some are left, then the one or two      *)
(* parts of the ring.                                                      *)
SbWrite ==
    /\ use = "rcv" /\ sb.cc > 0
    /\ \E n \in IF so_urgc > 0 THEN OobResults(sb, so_urgc) ELSE {0} :
       LET b   == sbdrop(sb, n)
           one == IF b.rptr < b.wptr THEN Min({b.wptr - b.rptr, sb.cc})
                  ELSE Min({DataLen - b.rptr, sb.cc})
           two == IF b.rptr < b.wptr THEN 0 ELSE Min({b.wptr, sb.cc - one})
           oob == SubSeq(OobBytes(sb, so_urgc), 1, n)
       IN /\ so_urgc' = OobLeft(sb, so_urgc, n)
          /\ \/ b.cc = 0 /\ sb' = b /\ out' = [from |-> sb.first, bytes |-> oob]
             \/ /\ b.cc > 0
                /\ \E a \in 1 .. one : \E c \in IF SecondPart(a, one) THEN 0 .. two ELSE {0} :
                      /\ out' = [from |-> sb.first,
                                 bytes |-> oob \o Straight(b, b.rptr, a) \o Straight(b, 0, c)]
                      /\ sb' = sbdrop(b, a + c)
    /\ UNCHANGED use

SbNext == SbRead \/ SbCopy \/ SbDrop \/ SbAppend \/ SbAppendUrgent \/ SbWrite

-----------------------------------------------------------------------------
(* The ring holds the stream: the cc bytes from rptr on are the next ones  *)
(* in order and wptr stands after them, wherever the buffer has wrapped,   *)
(* however full it is, and however little the host took or gave.  sbappend *)
(* says so of urgent data too: what sosendoob did not send, "sowrite will  *)
(* take care of".                                                          *)
RingIsStream ==
    /\ sb.cc \in 0 .. DataLen
    /\ sb.wptr = (sb.rptr + sb.cc) % DataLen
    /\ \A i \in 0 .. sb.cc - 1 : sb.ring[(sb.rptr + i) % DataLen] = (sb.first + i) % Numbers

(* What leaves the ring, by sowrite, sosendoob, a write past it or a copy  *)
(* into a segment, is the piece of the stream it stands for.               *)
OutIsStream == out.bytes = Stream(out.from, Len(out.bytes))

(* A socket buffer carries its stream, inside the ring and out of it.      *)
BufferIsStream == RingIsStream /\ OutIsStream
=============================================================================
