------------------------------ MODULE SlirpTcp ------------------------------
(***************************************************************************)
(* One TCP connection through slirp: a guest that speaks TCP, slirp, and a *)
(* socket of the host.  The actions of slirp are what runs without being   *)
(* interrupted: tcp_input on a segment, the work slirp_select_poll does on *)
(* a socket that is ready, and a timer that expires.                       *)
(*                                                                         *)
(* There is no channel.  A segment of the guest is any part of its stream, *)
(* so what was sent before it may be lost or late; and the guest receives  *)
(* what slirp has sent at any later time, or never.                        *)
(***************************************************************************)
EXTENDS TcpInput

CONSTANTS
  GuestIsn,               \* the guest's initial sequence number
  Scenarios,              \* what the guest does, the most that the host sends, may it fail
  HostRoom                \* what the host's socket holds

VARIABLES
  tp,      \* the connection
  guest,   \* does it open the connection, its stream's length, its windows, the segment
           \* size it offers, what it has received of slirp's stream (-1: not even the
           \* SYN), the end of its window, and whether it was led to send data with a
           \* FIN beyond what slirp can take
  host     \* most that it sends, may its socket fail, and how much slirp has read

vars == <<tp, guest, host>>

Init ==
  /\ tp = NoTcb
  /\ \E s \in Scenarios :
       /\ guest = [opens |-> s.opens, len |-> s.len, wins |-> s.wins, mss |-> s.mss,
                   rcvd |-> -1, edge |-> 0, beyond |-> FALSE]
       /\ host = [most |-> s.most, fails |-> s.fails, read |-> 0]

-----------------------------------------------------------------------------
(* The guest.  External: what a TCP may send. *)
GuestSyn ==
  /\ guest.opens /\ guest.rcvd = -1 /\ ~tp.rst
  /\ tp.t_state # "NONE" \/ tp.tcp_iss = FirstIss
  /\ \E connect \in {"pending", "refused", "unreachable"} :
       /\ tp.t_state # "NONE" => connect = "pending"
       /\ tp' = tcp_input([tp EXCEPT !.room = HostRoom],
                          [seq |-> GuestIsn, ack |-> 0, flags |-> {"SYN"}, fin |-> FALSE, win |-> 0,
                           data |-> <<>>, mss |-> guest.mss], connect)
  /\ UNCHANGED <<guest, host>>

Reply(flags, seq, data, win) ==
  /\ tp' = tcp_input(tp, [seq |-> Number(seq), ack |-> Number(tp.iss + 1 + guest.rcvd),
                          flags |-> flags, fin |-> "FIN" \in flags, win |-> win, data |-> data,
                          mss |-> guest.mss], "unreachable")
  /\ guest' = [guest EXCEPT !.edge = Greater(@, guest.rcvd + win),
                             !.beyond = @ \/ ("FIN" \in flags /\ SeqDiff(seq + Len(data), tp.rcv_nxt + rcv_wnd(tp)) > 0)]
  /\ UNCHANGED host

GuestSynAck ==
  /\ ~guest.opens /\ guest.rcvd = 0 /\ tp.t_state # "NONE" /\ ~tp.rst
  /\ \E win \in guest.wins : Reply({"SYN", "ACK"}, GuestIsn, <<>>, win)

(* Data in the window slirp has offered, a byte as a probe of a window that is 0, and
   FIN. *)
GuestSegment ==
  LET end == SeqDiff(tp.promised, GuestIsn + 1)
  IN  /\ guest.rcvd >= 0 /\ tp.t_state # "NONE" /\ ~tp.rst
      /\ \E from \in 0..guest.len, win \in guest.wins, fin \in SUBSET {"FIN"} :
         \E upto \in from..Lesser(guest.len, from + TCP_MSS) :
            /\ upto <= end \/ (tp.promised = tp.acked /\ from = end /\ upto = from + 1)
            /\ fin # {} => upto = guest.len
            /\ Reply({"ACK"} \cup fin, GuestIsn + 1 + from, [i \in 1..upto - from |-> from + i], win)

GuestReset ==
  /\ guest.rcvd >= 0 /\ tp.t_state # "NONE" /\ ~tp.rst
  /\ tp' = [tcp_input(tp, [seq |-> tp.rcv_nxt, ack |-> 0, flags |-> {"RST"}, fin |-> FALSE, win |-> 0,
                           data |-> <<>>, mss |-> 0], "unreachable") EXCEPT !.rst = TRUE]
  /\ UNCHANGED <<guest, host>>

GuestReceives ==
  /\ \E item \in tp.wire : item[1] = guest.rcvd
  /\ ~tp.rst
  /\ guest' = [guest EXCEPT !.rcvd = @ + 1]
  /\ UNCHANGED <<tp, host>>

-----------------------------------------------------------------------------
(* slirp_select_poll on a socket that is ready. *)

(* The host has accepted the connection or refused it. *)
ConnectDone ==
  /\ "ISFCONNECTING" \in tp.so_state
  /\ \E ok \in BOOLEAN :
       tp' = ContConn([tp EXCEPT !.so_state = IF ok THEN {} ELSE {"NOFDREF"}])
  /\ UNCHANGED <<guest, host>>

(* tcp_connect: a connection to a socket that listens for the guest. *)
HostConnects ==
  /\ ~guest.opens /\ tp.t_state = "NONE" /\ tp.tcp_iss = FirstIss
  /\ tp' = tcp_output(tcp_sendseqinit([tcp_mss(tp, 0) EXCEPT !.t_state = "SYN_SENT",
                                                             !.keep = TRUE, !.room = HostRoom]), FALSE)
  /\ UNCHANGED <<guest, host>>

SoRead ==
  /\ CONN_CANFRCV(tp) /\ 2 * Len(tp.so_snd) < SndSpace /\ ~tp.reset
  /\ \E n \in 1..Lesser(host.most - host.read, SndSpace - Len(tp.so_snd)) :
       /\ tp' = tcp_output([tp EXCEPT !.so_snd = @ \o [i \in 1..n |-> host.read + i]], FALSE)
       /\ host' = [host EXCEPT !.read = @ + n]
  /\ UNCHANGED guest

(* The end of the host's data, or an error. *)
SoReadEnd ==
  /\ CONN_CANFRCV(tp) /\ 2 * Len(tp.so_snd) < SndSpace
  /\ tp' = tcp_sockclosed(sofcantrcvmore(tp))
  /\ UNCHANGED <<guest, host>>

(* In drain mode the last data is followed by the end. *)
Drained(c) == IF "FWDRAIN" \in c.so_state /\ c.so_rcv = <<>> THEN sofcantsendmore(c) ELSE c

SoWrite ==
  LET n == slirp_send(tp, Len(tp.so_rcv))
  IN  /\ CONN_CANFSEND(tp) /\ tp.so_rcv # <<>>
      /\ n > 0 \/ tp.reset
      /\ tp' = IF n = 0 THEN tcp_sockclosed(sofcantsendmore(tp))
               ELSE Drained([Sent(tp, tp.so_rcv, n) EXCEPT !.so_rcv = SubSeq(@, n + 1, Len(@))])
      /\ UNCHANGED <<guest, host>>

(* The host reads what it has, or closes its socket for good. *)
HostReads ==
  /\ tp.t_state # "NONE" /\ ~tp.reset /\ tp.room < HostRoom
  /\ tp' = [tp EXCEPT !.room = HostRoom]
  /\ UNCHANGED <<guest, host>>

HostResets ==
  /\ host.fails /\ "ISFCONNECTED" \in tp.so_state /\ ~tp.reset
  /\ tp' = [tp EXCEPT !.reset = TRUE]
  /\ UNCHANGED <<guest, host>>

-----------------------------------------------------------------------------
(* tcp_slowtimo and tcp_fasttimo. *)
KeepDue == tp.keep /\ ~TCPS_HAVEESTABLISHED(tp.t_state)

Rexmt == tp.rexmt /\ tp' = TimerRexmt(tp) /\ UNCHANGED <<guest, host>>
Persist == tp.persist /\ tp' = TimerPersist(tp) /\ UNCHANGED <<guest, host>>
Keep == KeepDue /\ tp' = TimerKeep(tp) /\ UNCHANGED <<guest, host>>
Msl == tp.msl /\ tp' = Timer2Msl(tp) /\ UNCHANGED <<guest, host>>
DelAck == tp.delack /\ tp' = FastTimo(tp) /\ UNCHANGED <<guest, host>>

Idle ==
  /\ tp.t_state # "NONE" /\ ~tp.t_idle
  /\ (tp.snd_max = tp.snd_una /\ tp.snd_cwnd # tp.t_maxseg) \/ (tp.msl /\ tp.t_state # "TIME_WAIT")
  /\ tp' = [tp EXCEPT !.t_idle = TRUE]
  /\ UNCHANGED <<guest, host>>

Guest == GuestSyn \/ GuestSynAck \/ GuestSegment \/ GuestReceives \/ GuestReset
Poll == ConnectDone \/ HostConnects \/ SoRead \/ SoReadEnd \/ SoWrite
Host == HostReads \/ HostResets
Timers == Rexmt \/ Persist \/ Keep \/ Msl \/ DelAck \/ Idle

Next == Guest \/ Poll \/ Host \/ Timers

(* Timers expire: slirp_select_poll runs them whenever time has passed.  Weak
   fairness of Keep and of Msl, with what enables a step that changes something
   spelled out. *)
Fairness ==
  /\ []<>~KeepDue \/ []<><<Keep>>_vars
  /\ []<>~(tp.msl /\ (tp.t_state = "TIME_WAIT" \/ tp.t_idle)) \/ []<><<Msl>>_vars

Spec == Init /\ [][Next]_vars /\ Fairness

-----------------------------------------------------------------------------
(* How much of the guest's stream a sequence number counts, without its FIN. *)
Count(seq) == Lesser(guest.len, SeqDiff(seq, GuestIsn + 1))

StreamKept ==
  LET got == tp.written \o tp.so_rcv
  IN  /\ got = [i \in DOMAIN got |-> i]
      /\ CONN_CANFSEND(tp) => Len(got) = Count(tp.rcv_nxt)
      /\ tp.shut /\ ~tp.reset => Len(tp.written) = guest.len

(* Out-of-order, repeated and overlapping segments, a full buffer, probes, a slow
   host and numbers that wrap: the host gets the guest's bytes in order; while it
   takes them, every byte that rcv_nxt has passed is written or waits in so_rcv; and
   it sees the end only after all of them (tcp_reass, sbappend, sowrite, sofwdrain).
   It does not hold once a FIN had to be cut off: see FinIsCutOff. *)
HostGetsGuestStream == guest.beyond \/ StreamKept

(* Whatever is sent, sent again, probed or acknowledged: each number of slirp's
   stream always stands for the same byte of the host, and FIN for the end of what
   was read (tcp_output, sbdrop); and the states after our FIN was acknowledged are
   only reached when the guest has received it, with all the data before it
   (tcp_input on ACK). *)
GuestGetsHostStream ==
  /\ \A item \in tp.wire :
        item \in {<<-1, Mark.SYN>>, <<item[1], item[1] + 1>>, <<host.read, Mark.FIN>>}
  /\ tp.t_state \in {"FIN_WAIT_2", "TIME_WAIT"} =>
        \E item \in tp.wire : item[2] = Mark.FIN /\ guest.rcvd > item[1]

(* No byte is sent beyond the end of a window the guest has offered, but for the
   single byte of a probe; snd_wnd is unsigned, and acknowledgements are taken
   from it (tcp_input, tcp_output). *)
WindowRespected ==
  \A item \in tp.wire : item[2] \in {Mark.SYN, Mark.FIN} \/ item[1] <= guest.edge

(* A connection that the guest never opens completely, or that waits in TIME_WAIT,
   is ended by the timers alone (tcp_timers). *)
Temporary == tp.t_state \in {"SYN_SENT", "SYN_RECEIVED", "TIME_WAIT"}
TemporaryEnds == Temporary ~> ~Temporary

-----------------------------------------------------------------------------
(* What comments of the code say and the code does not keep. *)

(* "We will enter persist state below" (tcp_output): while data waits to be sent or
   acknowledged, one of the two timers is set. *)
TimerArmed ==
  TCPS_HAVEESTABLISHED(tp.t_state) /\ (tp.so_snd # <<>> \/ tp.snd_una # tp.snd_max)
     => tp.rexmt \/ tp.persist

(* "If segment ends after window, drop trailing data (and PUSH and FIN)" (tcp_input):
   the same for a guest that sends data and FIN beyond the window. *)
FinIsCutOff == guest.beyond => StreamKept

(* "Receive window is amount of space in rcv queue, but not less than advertised
   window" (tcp_input): what is advertised fits in so_rcv. *)
WindowHasSpace ==
  TCPS_HAVEESTABLISHED(tp.t_state) => SeqDiff(tp.promised, tp.rcv_nxt) <= sbspace(tp)

(* "Set CANTSENDMORE once all data has been write()n" (sofwdrain): when both sides
   have closed and nobody has reset, all that was acknowledged has been written. *)
DrainIsComplete ==
  /\ tp.t_state = "NONE" /\ ~tp.rst /\ ~tp.reset
  /\ tp.acked = Number(GuestIsn + guest.len + 2)
  => Len(tp.written) = guest.len
=============================================================================
