------------------------------ MODULE UdpSockets ------------------------------
(***************************************************************************)
(* The datagram side of slirp: udp_input and udp_output (udp.c),           *)
(* icmp_input, icmp_error and icmp_reflect (ip_icmp.c), sosendto,          *)
(* sorecvfrom, socreate and sofree (socket.c), and the expiry of sockets   *)
(* in slirp_select_fill (slirp.c).                                         *)
(*                                                                         *)
(* A host socket stands for one address and port of the guest.  It keeps   *)
(* the last packet sent (so_m) to quote in an ICMP error, and the last     *)
(* destination (so_faddr) to rewrite the source of an answer with.  A ping *)
(* of anything but the virtual host is a socket of its own, under the      *)
(* fixed port 9.  The sending of a datagram on the host and the answer are *)
(* the environment's: any query may be answered, or fail, at any time, in  *)
(* any order, or never.                                                    *)
(***************************************************************************)
EXTENDS Integers, Sequences, FiniteSets

CONSTANTS SoIds,      \* addresses malloc may give a struct socket
          GuestPorts, \* the guest's source address and port, as one value
          PingPort,   \* htons(9), the so_lport of ICMP sockets
          Peers,      \* destinations: those three and hosts outside
          Vhost, Dns, Bcast, \* addresses of the virtual network
          Expire,     \* SO_EXPIRE, in steps of the clock
          ExpireFast, \* SO_EXPIREFAST
          MaxSends    \* bound on the packets of the guest

NoSo == "none"      \* the list head, for the cache; no socket, for a lookup
NoMbuf == [kind |-> "null", port |-> NoSo, peer |-> NoSo, shifted |-> FALSE]

(* There is memory for a socket per packet of the guest; the names are     *)
(* apart.                                                                  *)
ASSUME SocketsAssumption ==
    /\ MaxSends \in Nat /\ IsFiniteSet(SoIds) /\ Cardinality(SoIds) >= MaxSends
    /\ NoSo \notin SoIds /\ NoSo \notin Peers /\ Vhost \in Peers
    /\ Dns \notin {Vhost, Bcast}

VARIABLES udb,         \* set of sockets
          udp_last_so, \* address of the socket found last, or NoSo
          held,        \* mbufs of the guest's packets not given back
          got,         \* the answer or error the guest received last, if any
          sends        \* packets sent by the guest

udpvars == <<udb, udp_last_so, held, got, sends>>

Alias(peer) == peer \in {Vhost, Dns, Bcast}

UdpInit ==
    udb = {} /\ udp_last_so = NoSo /\ held = 0 /\ got = {} /\ sends = 0

-----------------------------------------------------------------------------
Ids == {so.id : so \in udb}
Live(id) == CHOOSE so \in udb : so.id = id

(* malloc gives a freed address again before a new one. *)
FreshId == CHOOSE id \in SoIds \ Ids : TRUE

(* Where a datagram for peer really goes: sosendto and icmp_input. *)
HostAddress(peer) ==
    CASE peer \in {Vhost, Bcast} -> "loopback" [] peer = Dns -> "resolver" [] OTHER -> peer

\* Mutated form: the cache is trusted without a look at its port.
Lookup_CacheBlind(port) ==
    IF udp_last_so # NoSo THEN udp_last_so
    ELSE IF \E so \in udb : so.lport = port
         THEN (CHOOSE so \in udb : so.lport = port).id ELSE NoSo
(* udp_input looks at the socket it found last, then through the list; the *)
(* type of the socket plays no part.                                       *)
Lookup(port) ==
    IF udp_last_so \in Ids /\ Live(udp_last_so).lport = port THEN udp_last_so
    ELSE IF \E so \in udb : so.lport = port
         THEN (CHOOSE so \in udb : so.lport = port).id ELSE NoSo

\* Mutated form: a new socket has no time to expire, hence never does.
udp_attach_NoExpiry(id) ==
    [id |-> id, type |-> "udp", lport |-> NoSo, faddr |-> NoSo, expire |-> -1,
     connected |-> FALSE, m |-> NoMbuf, asked |-> {}, mixed |-> FALSE]
(* socreate and udp_attach: the socket at address id, in the list. *)
udp_attach(id) ==
    [id |-> id, type |-> "udp", lport |-> NoSo, faddr |-> NoSo, expire |-> Expire,
     connected |-> FALSE, m |-> NoMbuf, asked |-> {}, mixed |-> FALSE]

(* sofree: the cache, when the sockets with the ids in gone are freed. *)
sofree(gone) == IF udp_last_so \in gone THEN NoSo ELSE udp_last_so
Mbufs(sos) == Cardinality({so \in sos : so.m # NoMbuf})

udp_detach(sos) ==
    /\ udb' = udb \ sos
    /\ udp_last_so' = sofree({so.id : so \in sos})
    /\ held' = held - Mbufs(sos)

(* The ICMP error for a packet m: it goes to the port that sent m. *)
icmp_error(m) == got' = {[kind |-> "error", to |-> m.port]}

(* What udp_output shows the guest as the source of an answer from peer. *)
ShownSource(so, peer) ==
    IF so.faddr = Bcast THEN Vhost
    ELSE IF Alias(so.faddr) /\ (HostAddress(peer) = "loopback" \/ so.faddr # Vhost)
    THEN so.faddr ELSE HostAddress(peer)

-----------------------------------------------------------------------------
(* udp_input.  ok: sendto succeeds.  After a failure the mbuf is put back  *)
(* to the IP header twice, so the packet kept for ICMP begins before it.   *)
Packet(port, peer) == [kind |-> "udp", port |-> port, peer |-> peer, shifted |-> FALSE]

(* Mbufs gained when so keeps the packet in hand for the one it had. *)
KeepPacket(so) == IF so.m = NoMbuf THEN 1 ELSE 0

(* The socket after a datagram to peer has gone out through it, or failed  *)
(* to.                                                                     *)
Used(so, port, peer, ok) ==
    [so EXCEPT !.faddr = peer,
               !.expire = IF ok /\ @ >= 0 THEN Expire ELSE @,
               !.connected = @ \/ ok,
               !.m = [Packet(port, peer) EXCEPT !.shifted = ~ok],
               !.asked = IF ok THEN @ \cup {Packet(port, peer)} ELSE @,
               !.mixed = @ \/ so.type = "icmp"
                         \/ (so.faddr \notin {NoSo, peer}
                             /\ (Alias(peer) \/ Alias(so.faddr)))]

UdpInput(port, peer, ok) ==
    LET hit == Lookup(port)
        old == IF hit \in Ids THEN {Live(hit)} ELSE {}
        so  == IF old # {} THEN Live(hit) ELSE [udp_attach(FreshId) EXCEPT !.lport = port]
    IN /\ sends < MaxSends /\ sends' = sends + 1
       /\ udb' = (udb \ old) \cup {Used(so, port, peer, ok)}
       /\ IF ok THEN got' = got ELSE icmp_error(Packet(port, peer))
       /\ udp_last_so' = IF old # {} THEN hit ELSE udp_last_so
       /\ held' = held + KeepPacket(so)

(* A datagram with a bad length or checksum, or for which the host gives   *)
(* no socket, is freed.                                                    *)
UdpDropped ==
    UNCHANGED udpvars

Echo(peer) == [kind |-> "echo", port |-> PingPort, peer |-> peer, shifted |-> FALSE]

(* icmp_input of an echo request.  The virtual host answers itself; any    *)
(* other address gets a datagram to its echo port from a socket of its     *)
(* own.  Every other ICMP message is freed, as in UdpDropped.              *)
Ping(peer, ok) ==
    /\ sends < MaxSends /\ sends' = sends + 1
    /\ UNCHANGED udp_last_so
    /\ \/ /\ peer = Vhost
          /\ got' = {[kind |-> "answer", to |-> PingPort, shown |-> Vhost,
                         query |-> Echo(peer), mixed |-> FALSE]}
          /\ UNCHANGED <<udb, held>>
       \/ /\ peer # Vhost /\ ok
          /\ udb' = udb \cup {[udp_attach(FreshId) EXCEPT
                       !.type = "icmp", !.lport = PingPort, !.faddr = peer,
                       !.connected = TRUE, !.m = Echo(peer), !.asked = {Echo(peer)}]}
          /\ held' = held + 1 /\ got' = got
       \/ /\ peer # Vhost /\ ~ok
          /\ icmp_error(Echo(peer))
          /\ UNCHANGED <<udb, held>>

-----------------------------------------------------------------------------
(* icmp_reflect takes the packet, so the socket no longer has one. *)
Reflect(so) == [so EXCEPT !.m = NoMbuf]

(* sorecvfrom of the answer to a ping, or of its failure. *)
RecvPing(so, query, ok) ==
    /\ so.type = "icmp"
    /\ IF ok
       THEN /\ got' = {[kind |-> "answer", to |-> so.lport,
                                 shown |-> so.m.peer, query |-> query,
                                 mixed |-> so.mixed]}
            /\ udb' = udb \ {so}
            /\ udp_last_so' = sofree({so.id})
            /\ held' = held - 1 - Mbufs({Reflect(so)})
       ELSE icmp_error(so.m) /\ udp_detach({so})

(* sorecvfrom of a datagram: passed on by udp_output, or an error that is  *)
(* reported with the packet kept.                                          *)
RecvDatagram(so, query, ok) ==
    /\ so.type = "udp"
    /\ IF ok
       THEN /\ got' = {[kind |-> "answer", to |-> so.lport,
                                 shown |-> ShownSource(so, query.peer),
                                 query |-> query, mixed |-> so.mixed]}
            /\ udb' = (udb \ {so}) \cup
                 {[so EXCEPT !.asked = @ \ {query},
                             !.expire = IF @ < 0 THEN @
                                        ELSE IF so.faddr = Dns THEN ExpireFast
                                        ELSE Expire]}
       ELSE /\ icmp_error(so.m)
            /\ udb' = (udb \ {so}) \cup {[so EXCEPT !.asked = @ \ {query}]}
    /\ UNCHANGED <<udp_last_so, held>>

Sorecvfrom ==
    \E so \in udb, ok \in BOOLEAN :
        /\ so.connected
        /\ \E query \in so.asked : RecvPing(so, query, ok) \/ RecvDatagram(so, query, ok)
        /\ UNCHANGED sends

(* The clock of slirp_select_poll moves on. *)
Tick ==
    /\ \E so \in udb : so.expire > 0
    /\ udb' = {[so EXCEPT !.expire = IF @ > 0 THEN @ - 1 ELSE @] : so \in udb}
    /\ UNCHANGED <<udp_last_so, held, got, sends>>

(* slirp_select_fill closes the sockets whose time has come. *)
SelectFillUdp ==
    LET due == {so \in udb : so.expire = 0}
    IN due # {} /\ udp_detach(due) /\ UNCHANGED <<got, sends>>

UdpNext ==
    \/ \E port \in GuestPorts, peer \in Peers, ok \in BOOLEAN : UdpInput(port, peer, ok)
    \/ UdpDropped
    \/ \E peer \in Peers, ok \in BOOLEAN : Ping(peer, ok)
    \/ Sorecvfrom
    \/ Tick
    \/ SelectFillUdp

-----------------------------------------------------------------------------
(* Every answer reaches the port that asked, whatever sockets expired and  *)
(* were reused in between, and shows the address the guest had sent to, or *)
(* the virtual host's for a broadcast.                                     *)
(* The exceptions are marked mixed: a port that has sent to an address of  *)
(* the virtual network and to another one (so_faddr is the last), and a    *)
(* ping whose socket udp_input took for that of a datagram from port 9.    *)
AnswersReachAsker ==
    \A a \in got : a.kind = "answer" /\ ~a.mixed =>
        /\ a.to = a.query.port
        /\ a.shown = IF a.query = Packet(a.to, Bcast) THEN Vhost ELSE a.query.peer

(* The socket udp_input found last is still one of the list: sofree clears *)
(* the cache on every path that closes a socket.                           *)
CacheLive == udp_last_so \in Ids \cup {NoSo}

(* Every packet kept belongs to one socket, as icmp_input's closing remark *)
(* says: freed, or put in a socket, or given to ip_output, never two of    *)
(* them and never none.                                                    *)
PacketsInSockets == held = Mbufs(udb)

(* A socket serves the port it was made for: its answers, its packet and   *)
(* the cache that finds it are never those of another socket.              *)
SocketsServe == AnswersReachAsker /\ CacheLive /\ PacketsInSockets

(* The guest stops sending in this model, so in the end every socket,      *)
(* those of unanswered pings included, has expired and is closed.          *)
SocketsEnd == <>[](udb = {})

(* What udp_input says of the packet it keeps, "restore the orig mbuf      *)
(* packet": it is the packet as it came, from its IP header on.            *)
BackupIsThePacket == \A so \in udb : so.m # NoMbuf => ~so.m.shifted
=============================================================================
