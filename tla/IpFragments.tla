----------------------------- MODULE IpFragments -----------------------------
(***************************************************************************)
(* The fragment handling of slirp: ip_input with its reassembly queues     *)
(* (ip_input.c), the timer that drops them, and the fragmentation done by  *)
(* ip_output (ip_output.c).                                                *)
(*                                                                         *)
(* A packet of the guest is one piece of a datagram; it may be sent again, *)
(* overlap another piece, come in any order or not at all.  Byte i of the  *)
(* datagram d is the pair <<d, i>>, so what was put together can be        *)
(* compared with what was sent.  Offsets count bytes; the code keeps them  *)
(* in units of 8, here FragUnit, and converts them on the way in and out.  *)
(***************************************************************************)
EXTENDS Integers, Sequences, FiniteSets, SequencesExt, FiniteSetsExt

CONSTANTS Datagram,  \* name -> [key, len, gen]: what the guest sends
          IpPackets,   \* set of [d, off, len, pad, ttl, fault]: its pieces
          FragTTL,   \* IPFRAGTTL, the life of a queue in runs of the timer
          FragUnit,  \* 8 in the code
          IfMtu,     \* IF_MTU
          HLen,      \* sizeof(struct ip)
          OutSizes,  \* ip_len of the packets slirp itself sends
          MaxShort   \* bound on the packets too short to hold a header

VARIABLES ipq,         \* set of [key, ttl, frags, seen]: frags in order of
                       \* offset; seen, the bytes that have arrived for it
          inuse,       \* mbufs taken by m_get and not given back
          short,       \* packets that ended at the length check
          up,          \* the [key, data] passed to a protocol last, if any
          told,        \* the datagram answered "time exceeded" last, if any
          sent,        \* the last packet of slirp, as ip_output queued it
          gen,         \* which of the datagrams with one id the guest sends
          quiet,       \* runs of the timer since the guest sent a piece
          do_slowtimo  \* the timer is wanted, as of the last select_fill

ipvars == <<ipq, inuse, short, up, told, sent, gen, quiet, do_slowtimo>>

Bytes(d, off, len) == [i \in 1 .. len |-> <<d, off + i - 1>>]
More(p) == p.off + p.len < Datagram[p.d].len

IpInit ==
    /\ ipq = {} /\ inuse = 0 /\ short = 0 /\ up = {} /\ told = {}
    /\ sent = [len |-> 0, df |-> FALSE, frags |-> <<>>]
    /\ gen = 1 /\ quiet = 0 /\ do_slowtimo = FALSE

-----------------------------------------------------------------------------
(* Mbufs: m_adj with a positive and with a negative length.                *)
AdjHead(data, n) == SubSeq(data, n + 1, Len(data))
AdjTail(data, n) == SubSeq(data, 1, Len(data) - n)

End(f) == f.off + Len(f.data)
Trim(f, n) == [f EXCEPT !.off = @ + n, !.data = AdjHead(@, n)]
Overlap(a, b) == Max({0, End(a) - b.off})   \* bytes a covers from b's start

\* Mutated form: the queue is looked up by the identification alone.
Found_IdOnly(key) == {fp \in ipq : fp.key.id = key.id}
(* The queue of the datagram a piece belongs to, if there is one. *)
Found(key) == {fp \in ipq : fp.key = key}

(* Pieces of the queue that begin no later than this one. *)
Preceding(frags, f) == Cardinality({i \in DOMAIN frags : frags[i].off <= f.off})

(* The preceding piece already holds all of this one. *)
Covered(frags, f) ==
    LET n == Preceding(frags, f)
    IN n > 0 /\ Overlap(frags[n], f) > 0 /\ Overlap(frags[n], f) >= Len(f.data)

(* The new piece loses what its predecessor has; of the later ones those   *)
(* it covers leave the queue and the one it overlaps loses its head.       *)
Insert(frags, f) ==
    LET n    == Preceding(frags, f)
        new  == IF n > 0 THEN Trim(f, Overlap(frags[n], f)) ELSE f
        rest == SelectSeq(SubSeq(frags, n + 1, Len(frags)),
                          LAMBDA q : End(q) > End(new))
    IN SubSeq(frags, 1, n) \o <<new>>
       \o [i \in DOMAIN rest |-> Trim(rest[i], Overlap(new, rest[i]))]

Complete(frags) ==
    /\ frags[1].off = 0
    /\ \A i \in 1 .. Len(frags) - 1 : frags[i + 1].off = End(frags[i])
    /\ ~frags[Len(frags)].more

(* m_cat of the pieces, onto the first. *)
Concatenated(frags) == FlattenSeq([i \in DOMAIN frags |-> frags[i].data])

(* Mbufs given back when a queue goes: its pieces and its header's own. *)
ip_freef(fp) == Len(fp.frags) + 1

(* ip_reass for the piece f in its own mbuf; mem: m_get finds memory. *)
ip_reass(key, f, mem) ==
    LET old == Found(key)
        fp  == IF old = {} THEN [key |-> key, ttl |-> FragTTL, frags |-> <<>>, seen |-> {}]
               ELSE CHOOSE q \in old : TRUE
        new == Insert(fp.frags, f)
    IN \/ /\ (old = {} /\ ~mem) \/ Covered(fp.frags, f)       \* dropfrag
          /\ UNCHANGED <<ipq, inuse, up>>
       \/ /\ old # {} \/ mem
          /\ ~Covered(fp.frags, f)
          /\ IF Complete(new)
             THEN /\ ipq' = ipq \ old
                  /\ up' = {[key |-> key, data |-> Concatenated(new)]}
                  /\ inuse' = inuse - (IF old = {} THEN 0 ELSE ip_freef(fp))
             ELSE /\ ipq' = (ipq \ old) \cup {[fp EXCEPT !.frags = new, !.seen = @ \cup Range(f.data)]}
                  /\ inuse' = inuse + Len(new) - Len(fp.frags)
                                    + (IF old = {} THEN 1 ELSE 0)
                  /\ up' = up

(* ip_icmp_error answers the first piece of a datagram only. *)
ip_icmp_error(p) == told' = IF p.off = 0 THEN {p.d} ELSE told

(* slirp_input takes an mbuf for the packet, ip_input checks the header,   *)
(* trims the padding and reassembles, or passes the packet on.  A packet   *)
(* too short for a header returns at once and keeps its mbuf.              *)
ip_input(p, mem) ==
    LET key == Datagram[p.d].key
        m   == AdjTail(Bytes(p.d, p.off, p.len + p.pad), p.pad)
    IN \/ /\ p.fault = "short"
          /\ short' = short + 1 /\ inuse' = inuse + 1
          /\ UNCHANGED <<ipq, up, told>>
       \/ /\ p.fault = "bad"
          /\ UNCHANGED <<ipq, inuse, short, up, told>>
       \/ /\ p.fault = "none" /\ p.ttl = 0
          /\ ip_icmp_error(p)
          /\ UNCHANGED <<ipq, inuse, short, up>>
       \/ /\ p.fault = "none" /\ p.ttl > 0
          /\ IF p.off = 0 /\ ~More(p)
             THEN up' = {[key |-> key, data |-> m]}
                  /\ UNCHANGED <<ipq, inuse>>
             ELSE ip_reass(key, [off |-> p.off, data |-> m, more |-> More(p)], mem)
          /\ UNCHANGED <<short, told>>

(* The guest sends a piece.  It takes an identification again only after   *)
(* the timer has run FragTTL times since its last packet.                  *)
GuestSends(p, mem) ==
    /\ Datagram[p.d].gen = gen \/ (Datagram[p.d].gen > gen /\ quiet = FragTTL)
    /\ p.fault = "short" => short < MaxShort
    /\ ip_input(p, mem)
    /\ gen' = Datagram[p.d].gen /\ quiet' = 0
    /\ UNCHANGED <<sent, do_slowtimo>>

-----------------------------------------------------------------------------
\* Mutated form: only TCP connections make the timer run.
select_fill_TcpOnly(tcp) == do_slowtimo' = tcp
(* slirp_select_fill: the timer is wanted by TCP or by fragments. *)
select_fill(tcp) == do_slowtimo' = (tcp \/ ipq # {})

SelectFill(tcp) ==
    /\ select_fill(tcp)
    /\ UNCHANGED <<ipq, inuse, short, up, told, sent, gen, quiet>>

(* The queues that this run of the timer ends. *)
ip_slowtimo(fp) == fp.ttl - 1 = 0

(* slirp_select_poll runs ip_slowtimo when half a second has gone by. *)
Slowtimo ==
    LET ends == {fp \in ipq : ip_slowtimo(fp)}
    IN /\ do_slowtimo
       /\ ipq' = {[fp EXCEPT !.ttl = @ - 1] : fp \in ipq \ ends}
       /\ inuse' = inuse - FoldSet(LAMBDA fp, n : n + ip_freef(fp), 0, ends)
       /\ quiet' = Min({quiet + 1, FragTTL})
       /\ UNCHANGED <<short, up, told, sent, gen, do_slowtimo>>

-----------------------------------------------------------------------------
\* Mutated form: the last piece is told by > and not by >=.
LastPiece_Past(off, len, n) == off + len > n
(* The piece that starts at off reaches the end of the packet. *)
LastPiece(off, len, n) == off + len >= n

(* The pieces after the first, from offset off of a packet of n bytes. *)
Pieces(n, len) ==
    LET first == HLen + len
        count == ((n - first) + len - 1) \div len
        at(i) == first + (i - 1) * len
    IN [i \in 1 .. count |->
          LET size == IF at(i) + len >= n THEN n - at(i) ELSE len
          IN [off  |-> ((at(i) - HLen) \div FragUnit) * FragUnit,
              data |-> Bytes("out", at(i) - HLen, size),
              more |-> ~LastPiece(at(i), len, n)]]

(* ip_output: whole when it fits; else cut up, unless the packet forbids   *)
(* it, no unit fits, or an mbuf is missing for one of the pieces.          *)
ip_output(n, df, mem) ==
    LET len   == ((IfMtu - HLen) \div FragUnit) * FragUnit
        whole == Bytes("out", 0, n - HLen)
    IN IF n <= IfMtu THEN <<[off |-> 0, data |-> whole, more |-> FALSE]>>
       ELSE IF df \/ len < FragUnit \/ ~mem THEN <<>>
       ELSE <<[off |-> 0, data |-> AdjTail(whole, n - (HLen + len)), more |-> TRUE]>>
            \o Pieces(n, len)

Output(n, df, mem) ==
    /\ sent' = [len |-> n, df |-> df, frags |-> ip_output(n, df, mem)]
    /\ UNCHANGED <<ipq, inuse, short, up, told, gen, quiet, do_slowtimo>>

IpNext ==
    \/ \E p \in IpPackets, mem \in BOOLEAN : GuestSends(p, mem)
    \/ \E tcp \in BOOLEAN : SelectFill(tcp)
    \/ Slowtimo
    \/ \E n \in OutSizes, df, mem \in BOOLEAN : Output(n, df, mem)

-----------------------------------------------------------------------------
(* What ip_input passes to TCP, UDP or ICMP is a datagram the guest sent,  *)
(* whole and unmixed, however its pieces overlapped, repeated or were left *)
(* over from an older datagram with the same identification.               *)
Reassembled ==
    \A u \in up : \E d \in DOMAIN Datagram :
        u = [key |-> Datagram[d].key, data |-> Bytes(d, 0, Datagram[d].len)]

(* A queue holds every byte that has arrived for it, once, and it never    *)
(* holds a whole datagram: ip_reass passes a datagram on with the piece    *)
(* that completes it, whichever piece that is and whatever it overlaps.    *)
QueueHoldsArrived ==
    \A fp \in ipq :
        /\ ToSet(Concatenated(fp.frags)) = fp.seen
        /\ Len(Concatenated(fp.frags)) = Cardinality(fp.seen)
        /\ \A d \in DOMAIN Datagram : Range(Bytes(d, 0, Datagram[d].len)) # fp.seen

(* The mbufs in use are the pieces in the queues and the queues' headers:  *)
(* every other path through ip_input, ip_reass, ip_freef and ip_slowtimo   *)
(* frees what it took, except for the packets that return at the length    *)
(* check.                                                                  *)
MbufsHeld ==
    inuse = short + FoldSet(LAMBDA fp, n : n + 1 + Len(fp.frags), 0, ipq)

(* Fragments are kept until they make the datagram that was sent, and      *)
(* nothing else is kept or passed on.                                      *)
FragmentsKept == Reassembled /\ QueueHoldsArrived /\ MbufsHeld

(* The pieces ip_output queues carry the packet's bytes once and in order, *)
(* none is larger than the interface takes, every offset can be written in *)
(* units of 8, and all but the last announce more; a packet is given up    *)
(* whole or not at all.                                                    *)
PiecesMakeThePacket ==
    LET f == sent.frags
    IN f # <<>> =>
        /\ Concatenated(f) = Bytes("out", 0, sent.len - HLen)
        /\ \A i \in DOMAIN f :
              /\ HLen + Len(f[i].data) <= IfMtu
              /\ f[i].off = IF i = 1 THEN 0 ELSE End(f[i - 1])
              /\ f[i].off % FragUnit = 0
              /\ f[i].more = (i < Len(f))

(* A queue does not stay: its datagram completes or ip_slowtimo drops it.  *)
QueueEnds ==
    \A d \in DOMAIN Datagram :
        Found(Datagram[d].key) # {} ~> Found(Datagram[d].key) = {}
=============================================================================
