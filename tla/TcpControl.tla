----------------------------- MODULE TcpControl -----------------------------
(***************************************************************************)
(* The control block of a TCP connection of slirp and the operations on it *)
(* that do not send (src/slirp/tcp.h, tcp_subr.c, socket.c, sbuf.c).       *)
(*                                                                         *)
(* A connection is one record: struct tcpcb, struct socket and the host's  *)
(* socket.  A data byte is its position in its stream, 1, 2, ...; timers   *)
(* are armed or not, and may expire at any time while armed.  The fields   *)
(* after tcp_iss are history: what has been put on the wire, as pairs of a *)
(* place in the stream and its content; the highest acknowledgement and    *)
(* the highest end of a window sent; and whether a RST was sent.           *)
(* Not modelled: urgent data, so_emu, SS_CTL and failing allocation.       *)
(***************************************************************************)
EXTENDS Integers, Sequences, SequencesExt

CONSTANTS
  SeqSpace,      \* 2^32, of sequence numbers and of unsigned windows
  FirstIss,      \* slirp->tcp_iss at the start
  TCP_ISSINCR,
  TCP_MSS,       \* also min(IF_MTU, IF_MRU) - sizeof(struct tcpiphdr)
  MinMaxseg,     \* smallest t_maxseg (32)
  TCP_MAXWIN,    \* largest window
  SndSpace, RcvSpace,   \* sizes of so_snd and so_rcv
  MaxRxtShift,   \* TCP_MAXRXTSHIFT
  RexmtThresh    \* TCPREXMTTHRESH

(* Sizes are multiples of the segment sizes, so that sbreserve never changes them,
   and windows are small against the sequence space. *)
ASSUME SizeAssumption ==
  /\ \A mss \in {MinMaxseg, TCP_MSS} : SndSpace % mss = 0 /\ RcvSpace % mss = 0
  /\ SeqSpace > 2 * (SndSpace + RcvSpace)

-----------------------------------------------------------------------------
Number(n) == n % SeqSpace

(* (int)(a - b) *)
SeqDiff(a, b) ==
  LET d == (a - b) % SeqSpace IN IF d < SeqSpace \div 2 THEN d ELSE d - SeqSpace

SEQ_LT(a, b) == SeqDiff(a, b) < 0
SEQ_LEQ(a, b) == SeqDiff(a, b) <= 0
SEQ_GT(a, b) == SeqDiff(a, b) > 0

(* a - b as it is when it stays unsigned *)
SeqMinus(a, b) == (a - b) % SeqSpace

Lesser(a, b) == IF a < b THEN a ELSE b
Greater(a, b) == IF a > b THEN a ELSE b

TCPS == <<"CLOSED", "LISTEN", "SYN_SENT", "SYN_RECEIVED", "ESTABLISHED", "CLOSE_WAIT",
          "FIN_WAIT_1", "CLOSING", "LAST_ACK", "FIN_WAIT_2", "TIME_WAIT">>

StateFrom(s) == {TCPS[i] : i \in {j \in DOMAIN TCPS : \E k \in 1..j : TCPS[k] = s}}

SynReceivedOn == StateFrom("SYN_RECEIVED")
EstablishedOn == StateFrom("ESTABLISHED")
FinWaitOn == StateFrom("FIN_WAIT_1")

TCPS_HAVERCVDSYN(s) == s \in SynReceivedOn
TCPS_HAVEESTABLISHED(s) == s \in EstablishedOn
TCPS_HAVERCVDFIN(s) == s = "TIME_WAIT"

(* snd_cwnd and snd_ssthresh start above any window. *)
Unlimited == TCP_MAXWIN

NoSyn == [seq |-> -1]

(* tcp_newtcpcb on a fresh socket, which is not attached yet: "NONE". *)
NoTcb ==
  [t_state |-> "NONE", so_state |-> {"NOFDREF"}, so_m |-> NoSyn, iss |-> 0, irs |-> 0,
   snd_una |-> 0, snd_nxt |-> 0, snd_max |-> 0, snd_wnd |-> 0, snd_wl1 |-> 0, snd_wl2 |-> 0,
   max_sndwnd |-> 0, snd_cwnd |-> Unlimited, snd_ssthresh |-> Unlimited, t_dupacks |-> 0,
   rcv_nxt |-> 0, rcv_adv |-> 0, seg |-> <<>>,
   rexmt |-> FALSE, persist |-> FALSE, keep |-> FALSE, msl |-> FALSE,
   t_rxtshift |-> 0, t_maxseg |-> TCP_MSS, t_idle |-> FALSE, t_rtseq |-> -1,
   acknow |-> FALSE, delack |-> FALSE, sentfin |-> FALSE,
   so_snd |-> <<>>, so_rcv |-> <<>>,
   room |-> 0, reset |-> FALSE, shut |-> FALSE, written |-> <<>>,
   tcp_iss |-> FirstIss, wire |-> {}, acked |-> 0, promised |-> 0, rst |-> FALSE]

(* iss from slirp->tcp_iss, and tcp_sendseqinit. *)
tcp_sendseqinit(c) ==
  [c EXCEPT !.iss = c.tcp_iss, !.snd_una = c.tcp_iss, !.snd_nxt = c.tcp_iss, !.snd_max = c.tcp_iss,
            !.tcp_iss = Number(@ + TCP_ISSINCR \div 2)]

tcp_rcvseqinit(c, irs) ==
  [c EXCEPT !.irs = irs, !.rcv_nxt = Number(irs + 1), !.rcv_adv = Number(irs + 1),
            !.acked = Number(irs + 1), !.promised = Number(irs + 1)]

sbspace(c) == RcvSpace - Len(c.so_rcv)

(* tcp_mss: t_maxseg never grows unless the guest has made an offer. *)
tcp_mss(c, offer) ==
  LET mss == Greater(IF offer # 0 THEN Lesser(TCP_MSS, offer) ELSE TCP_MSS, MinMaxseg)
  IN  [c EXCEPT !.t_maxseg = IF mss < @ \/ offer # 0 THEN mss ELSE @, !.snd_cwnd = mss]

(* tcp_xmit_timer: the timed segment has come through, end the backoff. *)
tcp_xmit_timer(c) == [c EXCEPT !.t_rtseq = -1, !.t_rxtshift = 0]

tcp_canceltimers(c) ==
  [c EXCEPT !.rexmt = FALSE, !.persist = FALSE, !.keep = FALSE, !.msl = FALSE]

\* Mutated form: the timer is set first, and canceled with the others.
TimeWait_SetFirst(c) == tcp_canceltimers([c EXCEPT !.t_state = "TIME_WAIT", !.msl = TRUE])

TimeWait(c) == [tcp_canceltimers(c) EXCEPT !.t_state = "TIME_WAIT", !.msl = TRUE]

tcp_setpersist(c) ==
  [c EXCEPT !.persist = TRUE, !.t_rxtshift = Lesser(@ + 1, MaxRxtShift)]

(* tcp_close: queue, control block, buffers and socket are freed; what the host
   and the wire have seen remains. *)
tcp_close(c) ==
  [NoTcb EXCEPT !.written = c.written, !.reset = c.reset, !.shut = c.shut, !.wire = c.wire,
                !.acked = c.acked, !.promised = c.promised, !.rst = c.rst,
                !.tcp_iss = c.tcp_iss]

-----------------------------------------------------------------------------
(* so_state *)
soisfconnecting(c) == [c EXCEPT !.so_state = {"ISFCONNECTING"}]

soisfconnected(c) ==
  [c EXCEPT !.so_state = (@ \ {"ISFCONNECTING", "FWDRAIN", "NOFDREF"}) \cup {"ISFCONNECTED"}]

sofcantrcvmore(c) ==
  [c EXCEPT !.so_state = IF "FCANTSENDMORE" \in @ THEN {"NOFDREF"}
                         ELSE (@ \ {"ISFCONNECTING"}) \cup {"FCANTRCVMORE"}]

(* shutdown(s, 1): the host sees the end of the guest's data. *)
sofcantsendmore(c) ==
  [c EXCEPT !.so_state = IF "FCANTRCVMORE" \in @ THEN {"NOFDREF"}
                         ELSE (@ \ {"ISFCONNECTING"}) \cup {"FCANTSENDMORE"},
            !.shut = @ \/ "NOFDREF" \notin c.so_state]

sofwdrain(c) ==
  IF c.so_rcv # <<>> THEN [c EXCEPT !.so_state = @ \cup {"FWDRAIN"}] ELSE sofcantsendmore(c)

CONN_CANFSEND(c) == "ISFCONNECTED" \in c.so_state /\ "FCANTSENDMORE" \notin c.so_state
CONN_CANFRCV(c) == "ISFCONNECTED" \in c.so_state /\ "FCANTRCVMORE" \notin c.so_state

(* How much of n bytes send() takes: what the host's socket has room for. *)
slirp_send(c, n) == IF c.reset \/ c.shut THEN 0 ELSE Lesser(n, c.room)

Sent(c, data, n) ==
  [c EXCEPT !.written = @ \o SubSeq(data, 1, n), !.room = @ - n]

(* sbappendsb: what does not fit is not taken. *)
sbappendsb(c, data) ==
  [c EXCEPT !.so_rcv = @ \o SubSeq(data, 1, Lesser(Len(data), sbspace(c)))]

sbappend(c, data) ==
  LET n == IF c.so_rcv = <<>> THEN slirp_send(c, Len(data)) ELSE 0
  IN  sbappendsb(Sent(c, data, n), SubSeq(data, n + 1, Len(data)))

\* Mutated form: one byte too few is dropped.
sbdrop_Short(c, num) == [c EXCEPT !.so_snd = SubSeq(@, Greater(num, 1), Len(@))]

sbdrop(c, num) == [c EXCEPT !.so_snd = SubSeq(@, Lesser(num, Len(@)) + 1, Len(@))]
=============================================================================
