------------------------------ MODULE TcpInput ------------------------------
(***************************************************************************)
(* tcp_input (src/slirp/tcp_input.c) for a segment of a guest.  The stages *)
(* of the function are operators, last one first.  A stage is given what   *)
(* the one before has left: the connection, the segment, needoutput, the   *)
(* FIN that data was taken with, and whether tcp_input is still on.        *)
(*                                                                         *)
(* A segment t has seq, ack, flags (tiflags), fin (TH_FIN of ti_flags),    *)
(* win, data and mss (the option, 0 if it has none).  Segments with a bad  *)
(* checksum or header length are dropped before anything is looked at and  *)
(* are left out, as are slirp->restricted and the acknowledgement at once  *)
(* of data that begins with an escape.                                     *)
(***************************************************************************)
EXTENDS TcpOutput

HasFin(t) == "FIN" \in t.flags
Without(t, flags) == [t EXCEPT !.flags = @ \ flags]
TrimHead(t, n) == [t EXCEPT !.seq = Number(@ + n), !.data = SubSeq(@, n + 1, Len(@))]
TrimTail(t, n) == [t EXCEPT !.data = SubSeq(@, 1, Len(@) - n)]
EndOf(t) == Number(t.seq + Len(t.data))

Go(c, t, need) ==
  [c |-> c, t |-> t, need |-> need, fin |-> FALSE, on |-> TRUE, out |-> FALSE]
Leave(c) == [c |-> c, on |-> FALSE, out |-> FALSE]

(* The end of tcp_input. *)
Output(r) == IF r.out THEN tcp_output(r.c, FALSE) ELSE r.c

(* dropafterack and dropwithreset *)
DropAfterAck(c, t) ==
  IF "RST" \in t.flags THEN Leave(c)
  ELSE [Leave([c EXCEPT !.acknow = TRUE]) EXCEPT !.out = TRUE]

DropWithReset(c) == tcp_respond(c)

-----------------------------------------------------------------------------
(* Where the segment goes in the queue: it loses what the segment before it has,
   and takes from those after it what it has itself.  A segment that has nothing
   new is dropped; so is a second FIN without data, which the code queues again
   with no other effect. *)
Have(before, t) == IF before = <<>> THEN 0 ELSE SeqDiff(EndOf(Last(before)), t.seq)
Over(new, s) == Greater(SeqDiff(EndOf(new), s.seq), 0)
TakenFrom(after, new) ==
  LET kept == SelectSeq(after, LAMBDA s : Over(new, s) = 0 \/ Over(new, s) < Len(s.data))
  IN  [i \in DOMAIN kept |-> TrimHead(kept[i], Over(new, kept[i]))]

InsertAfter(before, after, t, have) ==
  LET new == IF have > 0 THEN TrimHead(t, have) ELSE t
  IN  before \o <<new>> \o TakenFrom(after, new)

InsertBehind(q, before, t) ==
  LET have == Have(before, t)
  IN  IF (have > 0 /\ have >= Len(t.data)) \/ Contains(q, t) THEN q
      ELSE InsertAfter(before, SelectSeq(q, LAMBDA s : SEQ_GT(s.seq, t.seq)), t, have)

Insert(q, t) ==
  InsertBehind(q, SelectSeq(q, LAMBDA s : SEQ_LEQ(s.seq, t.seq)),
               [seq |-> t.seq, data |-> t.data, fin |-> t.fin])

\* Mutated form: a gap before the first segment is not looked for.
Presentable_Gaps(c) == c.seg # <<>>

(* present: the queue's first segment is the next to be received. *)
Presentable(c) == c.seg # <<>> /\ Head(c.seg).seq = c.rcv_nxt

RECURSIVE Present(_, _)
Present(c, fin) ==
  IF ~Presentable(c) THEN [c |-> c, fin |-> fin]
  ELSE LET s == Head(c.seg)
           d == [c EXCEPT !.rcv_nxt = Number(@ + Len(s.data)), !.seg = Tail(@)]
       IN  Present(IF "FCANTSENDMORE" \in c.so_state THEN d ELSE sbappend(d, s.data), s.fin)

(* tcp_reass *)
tcp_reass(c, q) ==
  LET d == [c EXCEPT !.seg = q]
  IN  IF TCPS_HAVEESTABLISHED(c.t_state) THEN Present(d, FALSE) ELSE [c |-> d, fin |-> FALSE]

(* TCP_REASS: in order on an established connection, or through the queue.  It is
   the FIN of the header that counts, also when tiflags has lost it. *)
TCP_REASS(c, t) ==
  IF t.seq = c.rcv_nxt /\ c.seg = <<>> /\ c.t_state = "ESTABLISHED"
    THEN [c   |-> sbappend([c EXCEPT !.delack = TRUE, !.rcv_nxt = EndOf(t)], t.data),
          fin |-> t.fin]
    ELSE LET r == tcp_reass(c, Insert(c.seg, t)) IN [r EXCEPT !.c.acknow = TRUE]

-----------------------------------------------------------------------------
(* Return any desired output. *)
Return(c, need) == [Leave(c) EXCEPT !.out = need \/ c.acknow]

FinReceived(c) ==
  IF TCPS_HAVERCVDFIN(c.t_state) THEN c
  ELSE [sofwdrain(c) EXCEPT !.acknow = TRUE, !.rcv_nxt = Number(@ + 1)]

AfterFin(c) ==
  CASE c.t_state \in {"SYN_RECEIVED", "ESTABLISHED"} -> [c EXCEPT !.t_state = "CLOSE_WAIT"]
    [] c.t_state = "FIN_WAIT_1" -> [c EXCEPT !.t_state = "CLOSING"]
    [] c.t_state = "FIN_WAIT_2" -> TimeWait(c)
    [] c.t_state = "TIME_WAIT" -> [c EXCEPT !.msl = TRUE]
    [] OTHER -> c

(* The guest's FIN. *)
FinStage(r) ==
  IF r.on THEN Return(IF r.fin THEN AfterFin(FinReceived(r.c)) ELSE r.c, r.need) ELSE r

(* dodata *)
DataStage(r) ==
  IF r.on /\ (r.t.data # <<>> \/ HasFin(r.t)) /\ ~TCPS_HAVERCVDFIN(r.c.t_state)
    THEN LET q == TCP_REASS(r.c, r.t) IN [r EXCEPT !.c = q.c, !.fin = q.fin]
    ELSE r

(* The segment tells a window that is newer than the one known. *)
NewWindow(c, t) ==
  \/ SEQ_LT(c.snd_wl1, t.seq)
  \/ c.snd_wl1 = t.seq /\ SEQ_LT(c.snd_wl2, t.ack)
  \/ c.snd_wl1 = t.seq /\ c.snd_wl2 = t.ack /\ t.win > c.snd_wnd

(* step6 *)
WindowStage(r) ==
  IF r.on /\ "ACK" \in r.t.flags /\ NewWindow(r.c, r.t)
    THEN [r EXCEPT !.c.snd_wnd = r.t.win, !.c.snd_wl1 = r.t.seq, !.c.snd_wl2 = r.t.ack,
                   !.c.max_sndwnd = Greater(@, r.t.win), !.need = TRUE]
    ELSE r

(* The stages from step6 on. *)
Step6(r) == FinStage(DataStage(WindowStage(r)))

-----------------------------------------------------------------------------
(* Our FIN has been acknowledged. *)
FinAcked(c, t, need) ==
  CASE c.t_state = "FIN_WAIT_1" ->
         Go([c EXCEPT !.t_state = "FIN_WAIT_2", !.msl = @ \/ "FCANTRCVMORE" \in c.so_state],
            t, need)
    [] c.t_state = "CLOSING" -> Go(TimeWait(c), t, need)
    [] c.t_state = "LAST_ACK" -> Leave(tcp_close(c))
    [] OTHER -> Go(c, t, need)

OurFinIsAcked(c, acked) == acked > Len(c.so_snd)

(* All is acknowledged: stop the timer.  Else start it again, unless persisting. *)
StopRexmt(c, ack) ==
  IF ack = c.snd_max THEN [c EXCEPT !.rexmt = FALSE]
  ELSE IF ~c.persist THEN [c EXCEPT !.rexmt = TRUE] ELSE c

(* An acknowledgement of something new ends the repetition of segments ... *)
EndDupAcks(c) ==
  [c EXCEPT !.t_dupacks = 0,
            !.snd_cwnd = IF c.t_dupacks > RexmtThresh THEN Lesser(@, c.snd_ssthresh) ELSE @]

(* ... and the measurement of the segment it covers. *)
EndTiming(c, ack) ==
  IF c.t_rtseq # -1 /\ SEQ_GT(ack, c.t_rtseq) THEN tcp_xmit_timer(c) ELSE c

(* What it covers leaves the buffer and the window; the congestion window opens. *)
TakeAck(c, ack, acked) ==
  LET incr == IF c.snd_cwnd > c.snd_ssthresh
                THEN (c.t_maxseg * c.t_maxseg) \div c.snd_cwnd ELSE c.t_maxseg
  IN  [sbdrop(c, acked) EXCEPT !.snd_wnd = SeqMinus(@, Lesser(acked, Len(c.so_snd))),
                               !.snd_cwnd = Lesser(@ + incr, TCP_MAXWIN),
                               !.snd_una = ack, !.snd_nxt = Higher(ack, @)]

Acked(c, t, ours, need) ==
  IF c.t_state = "TIME_WAIT" THEN DropAfterAck([c EXCEPT !.msl = TRUE], t)
  ELSE IF ours THEN FinAcked(c, t, need)
  ELSE Go(c, t, need)

TakeNewAck(c, t, acked) ==
  Acked(TakeAck(c, t.ack, acked), t, OurFinIsAcked(c, acked), t.ack = c.snd_max)

(* synrx_to_est *)
NewAck(c, t) ==
  IF SEQ_GT(t.ack, c.snd_max) THEN DropAfterAck(EndDupAcks(c), t)
  ELSE TakeNewAck(StopRexmt(EndTiming(EndDupAcks(c), t.ack), t.ack), t, SeqDiff(t.ack, c.snd_una))

(* The third duplicate sends the missing segment at once, later ones let one more
   segment out each. *)
Retransmit(c, t, n, slow) ==
  [tcp_output([c EXCEPT !.t_dupacks = n, !.rexmt = FALSE, !.t_rtseq = -1,
                        !.snd_nxt = t.ack, !.snd_cwnd = c.t_maxseg], FALSE)
     EXCEPT !.snd_ssthresh = slow, !.snd_cwnd = slow + c.t_maxseg * n,
            !.snd_nxt = Higher(c.snd_nxt, @)]

DupAck(c, t) ==
  LET n == c.t_dupacks + 1
  IN  IF t.data # <<>> \/ t.win # c.snd_wnd \/ ~c.rexmt \/ t.ack # c.snd_una
        THEN Go([c EXCEPT !.t_dupacks = 0], t, FALSE)
      ELSE IF n < RexmtThresh THEN Go([c EXCEPT !.t_dupacks = n], t, FALSE)
      ELSE IF n = RexmtThresh THEN Leave(Retransmit(c, t, n, NewThreshold(c, c.t_maxseg)))
      ELSE [Leave([c EXCEPT !.t_dupacks = Lesser(n, RexmtThresh + 1),
                            !.snd_cwnd = Lesser(@ + c.t_maxseg, Unlimited)]) EXCEPT !.out = TRUE]

(* Ack processing. *)
AckReceived(c, t) ==
  IF c.t_state = "SYN_RECEIVED"
    THEN IF SEQ_GT(c.snd_una, t.ack) \/ SEQ_GT(t.ack, c.snd_max) THEN Leave(DropWithReset(c))
         ELSE NewAck([tcp_reass(soisfconnected([c EXCEPT !.t_state = "ESTABLISHED", !.snd_una = t.ack]),
                                c.seg).c EXCEPT !.snd_wl1 = Number(t.seq - 1)], t)
  ELSE IF SEQ_LEQ(t.ack, c.snd_una) THEN DupAck(c, t) ELSE NewAck(c, t)

AckStage(r) == IF r.on THEN AckReceived(r.c, r.t) ELSE r

(* RST closes, a SYN in the window is an error, and without ACK nothing happens. *)
FlagStage(r) ==
  CASE ~r.on -> r
    [] r.on /\ "RST" \in r.t.flags -> Leave(tcp_close(r.c))
    [] r.on /\ "SYN" \in r.t.flags /\ "RST" \notin r.t.flags -> Leave(DropWithReset(tcp_drop(r.c)))
    [] r.on /\ r.t.flags \cap {"RST", "SYN", "ACK"} = {} -> Leave(r.c)
    [] OTHER -> r

-----------------------------------------------------------------------------
rcv_wnd(c) == Greater(sbspace(c), SeqDiff(c.rcv_adv, c.rcv_nxt))

(* Trim what is after the window; outside of it only an acknowledgement is sent.
   The SYN that opens the connection again in TIME_WAIT is left out. *)
TrimExcess(c, t, todrop) ==
  IF todrop <= 0 THEN Go(c, t, FALSE)
  ELSE IF todrop >= Len(t.data) /\ ~(rcv_wnd(c) = 0 /\ t.seq = c.rcv_nxt) THEN DropAfterAck(c, t)
  ELSE Go([c EXCEPT !.acknow = @ \/ todrop >= Len(t.data)],
          Without(TrimTail(t, Lesser(todrop, Len(t.data))), {"FIN"}), FALSE)

TrimRight(r) ==
  IF r.on THEN TrimExcess(r.c, r.t, SeqDiff(EndOf(r.t), r.c.rcv_nxt + rcv_wnd(r.c))) ELSE r

(* Trim what has been received, SYN first, with a duplicate FIN; new data for a
   host that is gone resets the connection. *)
TrimOld(c, t, todrop) ==
  LET old  == todrop > Len(t.data) \/ (todrop = Len(t.data) /\ ~HasFin(t))
      rest == IF old THEN Without(TrimHead(t, Len(t.data)), {"FIN"}) ELSE TrimHead(t, todrop)
  IN  Go([c EXCEPT !.acknow = @ \/ old], rest, FALSE)

TrimSyn(t) ==
  IF "SYN" \in t.flags THEN [Without(t, {"SYN"}) EXCEPT !.seq = Number(@ + 1)] ELSE t

TrimReceived(c, t) == TrimOld(c, t, SeqDiff(c.rcv_nxt, t.seq))

HostGone(r) ==
  IF "NOFDREF" \in r.c.so_state /\ r.t.data # <<>> /\ r.c.t_state \in FinWaitOn
    THEN Leave(DropWithReset(tcp_close(r.c))) ELSE r

TrimLeft(c, t) ==
  HostGone(IF SEQ_GT(c.rcv_nxt, t.seq) THEN TrimReceived(c, TrimSyn(t)) ELSE Go(c, t, FALSE))

-----------------------------------------------------------------------------
(* tcp_dooptions: the size in a SYN. *)
tcp_dooptions(c, t) == IF "SYN" \in t.flags /\ t.mss # 0 THEN tcp_mss(c, t.mss) ELSE c

(* cont_input, trimthenstep6: the connection is open on the host's side.  A SYN has
   no data and no ACK. *)
ContInput(c, t) ==
  LET d == tcp_rcvseqinit(tcp_sendseqinit(tcp_dooptions(c, t)), t.seq)
  IN  Output(Step6(Go([d EXCEPT !.acknow = TRUE, !.t_state = "SYN_RECEIVED", !.keep = TRUE,
                                !.snd_wl1 = t.seq],
                      [t EXCEPT !.seq = Number(@ + 1)], FALSE)))

(* cont_conn: tcp_input without a segment, once connect() has an outcome.  The
   option is gone by then: optp is a local of the first call.             *)
ContConn(c) ==
  LET d == [c EXCEPT !.so_m = NoSyn]
  IN  IF "NOFDREF" \in c.so_state THEN DropWithReset(tcp_close(d))
      ELSE ContInput(d, [c.so_m EXCEPT !.mss = 0])

(* A SYN on a new socket: tcp_fconnect has failed, or is under way. *)
Listen(c, t, connect) ==
  CASE connect = "refused" -> DropWithReset(tcp_close(c))
    [] connect = "unreachable" -> tcp_close(c)
    [] OTHER -> [soisfconnecting(c) EXCEPT !.so_m = t, !.keep = TRUE, !.t_state = "SYN_RECEIVED"]

(* SYN_SENT: the guest answers a connection that the host has opened. *)
SynTaken(c, t) ==
  LET e == [tcp_rcvseqinit(c, t.seq) EXCEPT !.acknow = TRUE, !.snd_wl1 = t.seq, !.rexmt = FALSE]
  IN  IF "ACK" \notin t.flags \/ c.snd_una = c.iss THEN [e EXCEPT !.t_state = "SYN_RECEIVED"]
      ELSE LET up == tcp_reass([soisfconnected(e) EXCEPT !.t_state = "ESTABLISHED"], c.seg).c
           IN  IF c.t_rtseq # -1 THEN tcp_xmit_timer(up) ELSE up

SynSent(c, t) ==
  LET ack == "ACK" \in t.flags
  IN  IF ack /\ (SEQ_LEQ(t.ack, c.iss) \/ SEQ_GT(t.ack, c.snd_max)) THEN Leave(DropWithReset(c))
      ELSE IF "RST" \in t.flags THEN Leave(IF ack THEN tcp_drop(c) ELSE c)
      ELSE IF "SYN" \notin t.flags THEN Leave(c)
      ELSE Go(SynTaken(IF ack THEN [c EXCEPT !.snd_una = t.ack, !.snd_nxt = Higher(t.ack, @)] ELSE c, t),
              [t EXCEPT !.seq = Number(@ + 1)], FALSE)

(* Header prediction: an acknowledgement with nothing else, or data with nothing
   else, that is the next to be received. *)
Predicted(c, t) ==
  /\ c.t_state = "ESTABLISHED" /\ t.flags = {"ACK"} /\ t.seq = c.rcv_nxt
  /\ t.win # 0 /\ t.win = c.snd_wnd /\ c.snd_nxt = c.snd_max

PureAck(c, t) ==
  /\ t.data = <<>> /\ SEQ_GT(t.ack, c.snd_una) /\ SEQ_LEQ(t.ack, c.snd_max)
  /\ c.snd_cwnd >= c.snd_wnd

PureData(c, t) ==
  t.data # <<>> /\ t.ack = c.snd_una /\ c.seg = <<>> /\ Len(t.data) <= sbspace(c)

PredictedAck(c0, t) ==
  LET c == EndTiming(c0, t.ack)
      d == [StopRexmt(sbdrop(c, SeqDiff(t.ack, c.snd_una)), t.ack) EXCEPT !.snd_una = t.ack]
  IN  [Leave(d) EXCEPT !.out = d.so_snd # <<>>]

PredictedData(c, t) ==
  [Leave(sbappend([c EXCEPT !.rcv_nxt = EndOf(t), !.acknow = TRUE], t.data)) EXCEPT !.out = TRUE]

(* A segment for a connection that exists and has left LISTEN. *)
Stages(c, t) ==
  CASE Predicted(c, t) /\ PureAck(c, t) -> PredictedAck(c, t)
    [] Predicted(c, t) /\ PureData(c, t) -> PredictedData(c, t)
    [] c.t_state = "SYN_SENT" -> SynSent(c, t)
    [] OTHER -> AckStage(FlagStage(TrimRight(TrimLeft(c, t))))

Segment(c, t) ==
  Output(Step6(Stages(tcp_dooptions([c EXCEPT !.t_idle = FALSE, !.keep = TRUE], t), t)))

(* tcp_input from findso on.  connect is what tcp_fconnect returns if it is called. *)
tcp_input(c, t, connect) ==
  IF c.t_state = "NONE"
    THEN IF t.flags # {"SYN"} THEN DropWithReset(c) ELSE Listen([c EXCEPT !.t_state = "LISTEN"], t, connect)
  ELSE IF "ISFCONNECTING" \in c.so_state THEN c
  ELSE Segment(c, t)
=============================================================================
