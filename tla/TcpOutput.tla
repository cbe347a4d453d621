------------------------------ MODULE TcpOutput -----------------------------
(***************************************************************************)
(* tcp_output and what calls it without looking at a segment: tcp_respond, *)
(* tcp_drop, tcp_sockclosed and the timers (src/slirp/tcp_output.c,        *)
(* tcp_subr.c, tcp_timer.c).  Each operator takes a connection to the      *)
(* connection after the call.                                              *)
(***************************************************************************)
EXTENDS TcpControl

(* tcp_outflags, without TH_ACK: every state after SYN_SENT acknowledges. *)
tcp_outflags ==
  [CLOSED |-> {"RST"}, SYN_SENT |-> {"SYN"}, SYN_RECEIVED |-> {"SYN"}, ESTABLISHED |-> {},
   CLOSE_WAIT |-> {}, FIN_WAIT_1 |-> {"FIN"}, CLOSING |-> {"FIN"}, LAST_ACK |-> {"FIN"},
   FIN_WAIT_2 |-> {}, TIME_WAIT |-> {}]

Higher(a, b) == IF SEQ_GT(a, b) THEN a ELSE b

(* The place in slirp's stream of a sequence number; data starts after the SYN. *)
Place(c, seq) == SeqDiff(seq, c.iss + 1)

(* SYN and FIN among the bytes of the stream. *)
Mark == [SYN |-> -1, FIN |-> 0]

(* History of a segment that goes to ip_output. *)
Emit(c, seq, data, flags, win) ==
  LET at  == Place(c, seq)
      ack == "RST" \notin flags /\ c.t_state # "SYN_SENT"
  IN  [c EXCEPT !.wire = @ \cup {<<at + i - 1, data[i]>> : i \in 1..Len(data)}
                           \cup {<<at + Len(data), Mark[f]>> : f \in flags \cap {"SYN", "FIN"}},
                !.rst = @ \/ "RST" \in flags,
                !.acked = IF ack THEN Higher(c.rcv_nxt, @) ELSE @,
                !.promised = IF ack THEN Higher(Number(c.rcv_nxt + win), @) ELSE @]

(* tcp_respond: a header with the numbers it is given.  Its own acknowledgement
   is only of interest to a guest that no longer has the connection. *)
tcp_respond(c) == [c EXCEPT !.rst = TRUE]

-----------------------------------------------------------------------------
\* Mutated form: only the congestion window counts.
SendWindow_Congestion(c) == c.snd_cwnd

SendWindow(c) == Lesser(c.snd_wnd, c.snd_cwnd)

(* How much data the window lets go, beyond what has been sent; a forced segment
   probes a window of 0 with one byte. *)
Allowed(c, wnd, probe) ==
  Lesser(Len(c.so_snd), IF probe THEN 1 ELSE wnd) - SeqDiff(c.snd_nxt, c.snd_una)

(* A forced segment ends persist state when there is a window; a window that has
   closed takes back what was sent beyond it. *)
WindowMoved(c, force, wnd, can) ==
  CASE force /\ wnd # 0 -> [c EXCEPT !.persist = FALSE, !.t_rxtshift = 0]
    [] ~force /\ wnd = 0 /\ can < 0 -> [c EXCEPT !.rexmt = FALSE, !.snd_nxt = c.snd_una]
    [] OTHER -> c

(* A FIN waits for the data before it. *)
OutFlags(c, off, len, probe) ==
  IF SEQ_LT(c.snd_nxt + len, c.snd_una + Len(c.so_snd)) \/ (probe /\ off < Len(c.so_snd))
    THEN tcp_outflags[c.t_state] \ {"FIN"} ELSE tcp_outflags[c.t_state]

Choose(c, off, can, probe) ==
  LET len == Lesser(Greater(can, 0), c.t_maxseg)
  IN  [c |-> c, off |-> off, len |-> len, more |-> can > c.t_maxseg,
       flags |-> OutFlags(c, off, len, probe)]

(* What one pass of the loop decides before it sends: the data that may go, the
   flags, and the connection after a closing window or an ended persist state. *)
Decide(c, force) ==
  LET wnd   == SendWindow(c)
      probe == force /\ wnd = 0
      can   == Allowed(c, wnd, probe)
  IN  Choose(WindowMoved(c, force, wnd, can), SeqDiff(c.snd_nxt, c.snd_una), can, probe)

(* Silly window avoidance of the sender and of the receiver, an acknowledgement
   owed, SYN and RST, and a FIN that is new or to be sent again. *)
MustSend(d, force) ==
  LET c   == d.c
      adv == Lesser(sbspace(c), TCP_MAXWIN) - SeqMinus(c.rcv_adv, c.rcv_nxt)
  IN  \/ /\ d.len > 0
         /\ \/ d.len = c.t_maxseg
            \/ d.len + d.off >= Len(c.so_snd)
            \/ force
            \/ d.len >= c.max_sndwnd \div 2 /\ c.max_sndwnd > 0
            \/ SEQ_LT(c.snd_nxt, c.snd_max)
      \/ sbspace(c) > 0 /\ (adv >= 2 * c.t_maxseg \/ 2 * adv >= RcvSpace)
      \/ c.acknow
      \/ d.flags \cap {"SYN", "RST"} # {}
      \/ "FIN" \in d.flags /\ (~c.sentfin \/ c.snd_nxt = c.snd_una)

(* Nothing to send: data that waits for the window waits in persist state. *)
Rest(c) ==
  IF c.so_snd # <<>> /\ ~c.rexmt /\ ~c.persist
    THEN tcp_setpersist([c EXCEPT !.t_rxtshift = 0]) ELSE c

(* snd_nxt of the segment: a SYN is always the first number, and a FIN that is
   sent again keeps its own. *)
FirstNumber(c, flags) ==
  IF "SYN" \in flags THEN c.iss
  ELSE IF "FIN" \in flags /\ c.sentfin /\ c.snd_nxt = c.snd_max
    THEN Number(c.snd_nxt - 1) ELSE c.snd_nxt

(* The window: not a silly one, and never less than before.  The difference is
   unsigned, and a long holds it: it is a large number when rcv_adv is behind. *)
Window(c) ==
  LET win == IF sbspace(c) < RcvSpace \div 4 /\ sbspace(c) < c.t_maxseg THEN 0 ELSE sbspace(c)
  IN  Greater(Lesser(win, TCP_MAXWIN), SeqMinus(c.rcv_adv, c.rcv_nxt))

(* The numbers and the timer after the segment.  A probe in persist state is not
   counted in snd_nxt and starts no retransmission. *)
Account(c, d, force, first) ==
  LET next  == Number(first + d.len + (IF d.flags \cap {"SYN", "FIN"} # {} THEN 1 ELSE 0))
      timed == IF SEQ_GT(next, c.snd_max) /\ c.t_rtseq = -1 THEN first ELSE c.t_rtseq
      start == ~c.rexmt /\ next # c.snd_una
  IN  IF force /\ c.persist
        THEN [c EXCEPT !.snd_nxt = first, !.snd_max = Higher(Number(first + d.len), @)]
        ELSE [c EXCEPT !.snd_nxt = next, !.snd_max = Higher(next, @), !.t_rtseq = timed,
                       !.sentfin = @ \/ "FIN" \in d.flags,
                       !.rexmt = @ \/ start,
                       !.persist = @ /\ ~start,
                       !.t_rxtshift = IF start /\ c.persist THEN 0 ELSE @]

SendFrom(c, d, force, first, win) ==
  LET seq == IF d.len > 0 \/ d.flags \cap {"SYN", "FIN"} # {} \/ c.persist THEN first ELSE c.snd_max
  IN  [Emit(Account(c, d, force, first), seq, SubSeq(c.so_snd, d.off + 1, d.off + d.len),
            d.flags, win % (TCP_MAXWIN + 1))
         EXCEPT !.rcv_adv = Higher(Number(c.rcv_nxt + win), @), !.acknow = FALSE, !.delack = FALSE]

SendWith(c, d, force) == SendFrom(c, d, force, FirstNumber(c, d.flags), Window(c))

Send(d, force) == SendWith(IF "SYN" \in d.flags THEN tcp_mss(d.c, 0) ELSE d.c, d, force)

RECURSIVE OutputLoop(_, _)
Again(c, more, force) == IF more THEN OutputLoop(c, force) ELSE c
Pass(d, force) ==
  IF MustSend(d, force) THEN Again(Send(d, force), d.more, force) ELSE Rest(d.c)
OutputLoop(c, force) == Pass(Decide(c, force), force)

(* tcp_output; slow start begins again after a pause with nothing in flight. *)
tcp_output(c, force) ==
  OutputLoop(IF c.snd_max = c.snd_una /\ c.t_idle THEN [c EXCEPT !.snd_cwnd = c.t_maxseg] ELSE c,
             force)

-----------------------------------------------------------------------------
(* A RST tells the guest, if it has sent its SYN. *)
tcp_drop(c) ==
  tcp_close(IF TCPS_HAVERCVDSYN(c.t_state)
              THEN tcp_output([c EXCEPT !.t_state = "CLOSED"], FALSE) ELSE c)

(* The host has closed its side. *)
tcp_sockclosed(c) ==
  IF c.t_state \in {"CLOSED", "LISTEN", "SYN_SENT"} THEN tcp_close(c)
  ELSE tcp_output([c EXCEPT !.t_state =
                     CASE @ \in {"SYN_RECEIVED", "ESTABLISHED"} -> "FIN_WAIT_1"
                       [] @ = "CLOSE_WAIT" -> "LAST_ACK"
                       [] OTHER -> @], FALSE)

(* Half the window in segments, at least two. *)
NewThreshold(c, maxseg) == 
  Greater((SendWindow(c) \div 2) \div maxseg, 2) * maxseg

(* tcp_timers for each timer, after it has reached 0. *)
Timer2Msl(c) ==
  IF c.t_state # "TIME_WAIT" /\ ~c.t_idle THEN c ELSE tcp_close(c)

(* The segment size is halved before the connection is given up. *)
TimerRexmt(c) ==
  LET last   == c.t_rxtshift + 1 > MaxRxtShift
      maxseg == IF last THEN c.t_maxseg \div 2 ELSE c.t_maxseg
  IN  IF maxseg < MinMaxseg THEN tcp_drop([c EXCEPT !.rexmt = FALSE])
      ELSE tcp_output([c EXCEPT !.t_maxseg = maxseg,
                                !.t_rxtshift = IF last THEN MaxRxtShift \div 2 ELSE @ + 1,
                                !.snd_nxt = c.snd_una, !.t_rtseq = -1,
                                !.snd_cwnd = maxseg, !.snd_ssthresh = NewThreshold(c, maxseg),
                                !.t_dupacks = 0], FALSE)

TimerPersist(c) == tcp_output(tcp_setpersist(c), TRUE)

(* It ends what has not been established; DO_KEEPALIVE is 0, so that later it is
   only started again. *)
TimerKeep(c) == tcp_drop([c EXCEPT !.keep = FALSE])

(* tcp_fasttimo *)
FastTimo(c) == tcp_output([c EXCEPT !.delack = FALSE, !.acknow = TRUE], FALSE)
=============================================================================
