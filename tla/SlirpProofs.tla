----------------------------- MODULE SlirpProofs -----------------------------
(***************************************************************************)
(* Proofs about slirp, for every number of clients, addresses, sockets and *)
(* peers: the addresses of the guest's clients, and the sockets that carry *)
(* its datagrams.                                                          *)
(***************************************************************************)
EXTENDS UdpSockets, GuestAddress, NumberLemmas, FiniteSetTheorems, TLAPS

-----------------------------------------------------------------------------
(* GuestAddress *)
GaSpec == GaInit /\ [][GaNext]_gavars

GaTypes ==
  /\ bootp_clients \in [ClientSlots -> [allocated : BOOLEAN, macaddr : Macs \cup {ZeroMac}]]
  /\ client_ethaddr \in Macs \cup {ZeroMac}
  /\ given \in [Macs -> SUBSET ClientSlots] /\ spoke \in SUBSET Macs

(* A slot keeps the client it was given to. *)
SlotsKept ==
  \A mac \in Macs : \A i \in given[mac] :
    bootp_clients[i].allocated /\ bootp_clients[i].macaddr = mac

(* The address frames go to is one the guest has used. *)
GuestKnown ==
  /\ client_ethaddr # ZeroMac => client_ethaddr \in spoke
  /\ (\E mac \in Macs : given[mac] # {}) => client_ethaddr # ZeroMac

GaIInv == GaTypes /\ SlotsKept /\ GuestKnown /\ ClientServed /\ FramesReachGuest

(* slirp starts without clients.                                           *)
LEMMA GaInitially == GaInit => GaIInv
  BY ClientsAssumption DEF GaInit, GaIInv, GaTypes, SlotsKept, GuestKnown, ClientServed,
                           FramesReachGuest, ClientSlots

(* The searches of bootp.c give one of the slots they look for, and none   *)
(* only when there is none.                                                *)
LEMMA FirstFinds ==
  ASSUME NEW S \in SUBSET ClientSlots
  PROVE  IF S = {} THEN First(S) = NoAddr ELSE First(S) \in S /\ First(S) # NoAddr
<1>1. CASE S = {}
  BY <1>1 DEF First
<1>2. CASE S # {}
  <2>1. S \in SUBSET Nat
    BY ClientsAssumption DEF ClientSlots
  <2>2. Min(S) \in S
    BY <1>2, <2>1, LeastMember DEF Min
  <2> QED
    BY <1>2, <2>1, <2>2 DEF First, NoAddr
<1> QED
  BY <1>1, <1>2

(* bootp_reply: the slot is free or the client's own; a client that has an *)
(* address is not turned away.                                             *)
LEMMA SlotIsOwn ==
  ASSUME GaIInv, NEW mac \in Macs, NEW asks \in BOOLEAN, NEW req
  PROVE  /\ Slot(mac, asks, req) # NoAddr =>
              /\ Slot(mac, asks, req) \in ClientSlots
              /\ \/ ~bootp_clients[Slot(mac, asks, req)].allocated
                 \/ bootp_clients[Slot(mac, asks, req)].macaddr = mac
         /\ Slot(mac, asks, req) = NoAddr /\ ~asks /\ req # NoAddr => req \notin given[mac]
         /\ Slot(mac, asks, req) = NoAddr /\ (asks \/ req = NoAddr) => given[mac] = {}
<1> DEFINE usable == {i \in ClientSlots : Usable(i, mac)}
           wanted == {i \in ClientSlots : i = req /\ Usable(i, mac)}
           known  == {i \in ClientSlots : bootp_clients[i].macaddr = mac}
<1>1. /\ usable \in SUBSET ClientSlots /\ wanted \in SUBSET ClientSlots
      /\ known \in SUBSET ClientSlots
  OBVIOUS
<1>2. \A i \in given[mac] : i \in usable /\ i \in known /\ (i = req => i \in wanted)
  BY DEF GaIInv, GaTypes, SlotsKept, Usable
<1>3. \A i \in usable \cup wanted \cup known :
        i \in ClientSlots /\ (~bootp_clients[i].allocated \/ bootp_clients[i].macaddr = mac)
  BY DEF Usable
<1>4. /\ get_new_addr(mac) = First(usable) /\ request_addr(req, mac) = First(wanted)
      /\ find_addr(mac) = First(known)
  BY DEF get_new_addr, request_addr, find_addr
<1> HIDE DEF usable, wanted, known
<1>5. /\ IF usable = {} THEN First(usable) = NoAddr
         ELSE First(usable) \in usable /\ First(usable) # NoAddr
      /\ IF wanted = {} THEN First(wanted) = NoAddr
         ELSE First(wanted) \in wanted /\ First(wanted) # NoAddr
      /\ IF known = {} THEN First(known) = NoAddr
         ELSE First(known) \in known /\ First(known) # NoAddr
  BY <1>1, FirstFinds
<1>6. CASE asks
  BY <1>2, <1>3, <1>4, <1>5, <1>6 DEF Slot
<1>7. CASE ~asks /\ req # NoAddr
  BY <1>2, <1>3, <1>4, <1>5, <1>7 DEF Slot
<1>8. CASE ~asks /\ req = NoAddr
  BY <1>2, <1>3, <1>4, <1>5, <1>8 DEF Slot
<1> QED
  BY <1>6, <1>7, <1>8

(* bootp_reply finds or makes a client of one address.                     *)
LEMMA BootpKeeps ==
  ASSUME GaIInv, NEW mac \in Macs, NEW msg, NEW mem \in BOOLEAN, BootpInput(mac, msg, mem)
  PROVE  GaIInv'
<1> DEFINE req  == dhcp_decode(msg).req
           asks == dhcp_decode(msg).type = "discover"
           slot == Slot(mac, asks, req)
<1>1. /\ slot # NoAddr =>
           /\ slot \in ClientSlots
           /\ ~bootp_clients[slot].allocated \/ bootp_clients[slot].macaddr = mac
      /\ slot = NoAddr /\ ~asks /\ req # NoAddr => req \notin given[mac]
      /\ slot = NoAddr /\ (asks \/ req = NoAddr) => given[mac] = {}
  BY SlotIsOwn
<1>2. /\ client_ethaddr' = mac /\ spoke' = spoke \cup {mac} /\ UNCHANGED frame
      /\ reply'.mac = mac /\ reply'.req = req
  BY DEF BootpInput
<1>3. CASE mem /\ slot # NoAddr
  <2>1. /\ bootp_clients' = [bootp_clients EXCEPT ![slot] = [allocated |-> TRUE, macaddr |-> mac]]
        /\ given' = [given EXCEPT ![mac] = @ \cup {slot}]
        /\ reply'.kind \in {"offer", "ack"}
    BY <1>3 DEF BootpInput
  <2> HIDE DEF slot, req, asks
  <2>2. GaTypes'
    BY <1>1, <1>2, <1>3, <2>1 DEF GaIInv, GaTypes
  <2>3. SlotsKept'
    BY <1>1, <1>3, <2>1 DEF GaIInv, GaTypes, SlotsKept
  <2>4. GuestKnown' /\ ClientServed' /\ FramesReachGuest'
    BY <1>2, <2>1, ClientsAssumption DEF GaIInv, GuestKnown, ClientServed, FramesReachGuest
  <2> QED
    BY <2>2, <2>3, <2>4 DEF GaIInv
<1>4. CASE ~(mem /\ slot # NoAddr)
  <2>1. /\ UNCHANGED <<bootp_clients, given>> /\ reply'.kind \in {"no_memory", "nak", "full"}
        /\ reply'.kind = "nak" => slot = NoAddr /\ ~asks /\ req # NoAddr
        /\ reply'.kind = "full" => slot = NoAddr /\ (asks \/ req = NoAddr)
    BY <1>4 DEF BootpInput
  <2> HIDE DEF slot, req, asks
  <2>2. GaTypes' /\ SlotsKept'
    BY <1>2, <2>1 DEF GaIInv, GaTypes, SlotsKept
  <2>3. GuestKnown' /\ FramesReachGuest'
    BY <1>2, <2>1, ClientsAssumption DEF GaIInv, GuestKnown, FramesReachGuest
  <2>4. ClientServed'
    BY <1>1, <1>2, <2>1 DEF ClientServed
  <2> QED
    BY <2>2, <2>3, <2>4 DEF GaIInv
<1> QED
  BY <1>3, <1>4

(* bootp.c gives no address to two clients and turns away none that has    *)
(* one, and if_encap sends to an address the guest has used, for every     *)
(* number of clients and of slots.                                         *)
THEOREM ClientsStayReached == GaSpec => []ClientsReached
<1>1. GaIInv /\ [GaNext]_gavars => GaIInv'
  <2> SUFFICES ASSUME GaIInv, [GaNext]_gavars PROVE GaIInv'
    OBVIOUS
  <2> USE ClientsAssumption
      DEF GaIInv, GaTypes, SlotsKept, GuestKnown, ClientServed, FramesReachGuest
  <2>1. ASSUME NEW mac \in Macs, ArpRequest(mac) PROVE GaIInv'
    BY <2>1 DEF ArpRequest
  <2>2. ASSUME NEW mac \in Macs, NEW ip, ArpReply(mac, ip) PROVE GaIInv'
    BY <2>2 DEF ArpReply
  <2>3. ASSUME NEW ip, Send(ip) PROVE GaIInv'
    BY <2>3, SMTT(30) DEF Send, if_encap
  <2>4. CASE UNCHANGED gavars
    BY <2>4 DEF gavars
  <2> HIDE DEF GaIInv
  <2> QED
    BY <2>1, <2>2, <2>3, <2>4, BootpKeeps DEF GaNext
<1>2. GaIInv => ClientsReached
  BY DEF GaIInv, GaTypes, SlotsKept, ClientsReached, AddressOfOneClient
<1> QED
  BY <1>1, <1>2, GaInitially, PTL DEF GaSpec

-----------------------------------------------------------------------------
(* UdpSockets. *)
UdpSpec == UdpInit /\ [][UdpNext]_udpvars

(* A socket record, with the fields that are set. *)
IsSocket(so) ==
  so = [id |-> so.id, type |-> so.type, lport |-> so.lport, faddr |-> so.faddr,
        expire |-> so.expire, connected |-> so.connected, m |-> so.m, asked |-> so.asked,
        mixed |-> so.mixed]

(* What was asked through a socket that is not mixed: the one ping it was  *)
(* made for, or datagrams from its port to the address it remembers - or   *)
(* to others, when none of them is one of the virtual network.             *)
Asked(so) ==
  \A q \in so.asked :
    IF so.type = "icmp" THEN q = Echo(so.faddr) /\ so.m = q /\ so.lport = PingPort
    ELSE /\ q = Packet(so.lport, q.peer)
         /\ q.peer = so.faddr \/ (~Alias(q.peer) /\ ~Alias(so.faddr))

SoOk(so) ==
  /\ IsSocket(so) /\ so.id \in SoIds /\ so.faddr # NoSo /\ so.m # NoMbuf
  /\ ~so.mixed => Asked(so)

ListOk(sos) ==
  /\ IsFiniteSet(sos) /\ \A so \in sos : SoOk(so)
  /\ \A s, t \in sos : s.id = t.id => s = t

UdpIInv ==
  /\ ListOk(udb) /\ held = Cardinality(udb) /\ sends \in Nat /\ held <= sends
  /\ CacheLive /\ AnswersReachAsker

(* Every socket has a packet. *)
LEMMA MbufsAll ==
  ASSUME NEW sos, \A so \in sos : SoOk(so) PROVE Mbufs(sos) = Cardinality(sos)
<1>1. {so \in sos : so.m # NoMbuf} = sos
  BY DEF SoOk
<1> QED
  BY <1>1 DEF Mbufs

(* A socket that changes and keeps its address leaves the list in order.   *)
LEMMA ListChanged ==
  ASSUME NEW sos, ListOk(sos), NEW so \in sos, NEW n, SoOk(n), n.id = so.id
  PROVE  /\ ListOk((sos \ {so}) \cup {n}) /\ Cardinality((sos \ {so}) \cup {n}) = Cardinality(sos)
<1> DEFINE rest == sos \ {so}
           new == rest \cup {n}
<1>1. IsFiniteSet(rest) /\ Cardinality(rest) = Cardinality(sos) - 1
  BY FS_RemoveElement DEF ListOk
<1>2. \A t \in rest : t.id # so.id
  BY DEF ListOk
<1>3. n \notin rest
  BY <1>2
<1>4. IsFiniteSet(new) /\ Cardinality(new) = Cardinality(rest) + 1
  BY <1>1, <1>3, FS_AddElement
<1>5. Cardinality(sos) \in Nat
  BY FS_CardinalityType DEF ListOk
<1>6. \A t \in new : SoOk(t)
  BY Zenon DEF ListOk
<1>7. ASSUME NEW s \in new, NEW t \in new, s.id = t.id PROVE s = t
  <2>1. CASE s \in rest /\ t \in rest
    BY <1>7, <2>1, Zenon DEF ListOk
  <2>2. CASE s = n
    BY <1>2, <1>7, <2>2
  <2>3. CASE t = n
    BY <1>2, <1>7, <2>3
  <2> QED
    BY <2>1, <2>2, <2>3
<1>8. ListOk(new)
  BY <1>4, <1>6, <1>7, Zenon DEF ListOk
<1>9. Cardinality(new) = Cardinality(sos)
  BY <1>1, <1>4, <1>5
<1> QED
  BY <1>8, <1>9

(* So does a new one at an address that is free.                           *)
LEMMA ListGrown ==
  ASSUME NEW sos, ListOk(sos), NEW n, SoOk(n), \A so \in sos : so.id # n.id
  PROVE  ListOk(sos \cup {n}) /\ Cardinality(sos \cup {n}) = Cardinality(sos) + 1
<1>1. n \notin sos
  OBVIOUS
<1>2. IsFiniteSet(sos \cup {n}) /\ Cardinality(sos \cup {n}) = Cardinality(sos) + 1
  BY <1>1, FS_AddElement DEF ListOk
<1>3. \A t \in sos \cup {n} : SoOk(t)
  BY Zenon DEF ListOk
<1>4. \A s, t \in sos \cup {n} : s.id = t.id => s = t
  BY DEF ListOk
<1> QED
  BY <1>2, <1>3, <1>4, Zenon DEF ListOk

(* So do sockets that leave.                                               *)
LEMMA ListShrunk ==
  ASSUME NEW sos, ListOk(sos), NEW gone \in SUBSET sos
  PROVE  /\ ListOk(sos \ gone) /\ Mbufs(gone) = Cardinality(gone)
         /\ Cardinality(gone) \in Nat
         /\ Cardinality(sos \ gone) = Cardinality(sos) - Cardinality(gone)
<1>1. \A so \in gone : SoOk(so)
  BY DEF ListOk
<1>2. Mbufs(gone) = Cardinality(gone)
  BY <1>1, MbufsAll
<1>3. IsFiniteSet(sos) /\ IsFiniteSet(gone) /\ IsFiniteSet(sos \ gone)
  BY FS_Subset DEF ListOk
<1>4. Cardinality(sos) = Cardinality(gone) + Cardinality(sos \ gone)
  <2>1. (sos \ gone) \cup gone = sos /\ (sos \ gone) \cap gone = {}
    OBVIOUS
  <2>2. Cardinality((sos \ gone) \cup gone) =
           Cardinality(sos \ gone) + Cardinality(gone) - Cardinality((sos \ gone) \cap gone)
    BY <1>3, FS_Union
  <2>3. Cardinality(sos \ gone) \in Nat /\ Cardinality(gone) \in Nat /\ Cardinality({}) = 0
    BY <1>3, FS_CardinalityType, FS_EmptySet
  <2>4. Cardinality(sos) = Cardinality(sos \ gone) + Cardinality(gone) - Cardinality({})
    BY <2>1, <2>2, Zenon
  <2> QED
    BY <2>3, <2>4
<1>5. Cardinality(sos \ gone) \in Nat /\ Cardinality(gone) \in Nat
  BY <1>3, FS_CardinalityType
<1>6. ListOk(sos \ gone)
  BY <1>3 DEF ListOk
<1> QED
  BY <1>2, <1>4, <1>5, <1>6

(* malloc finds an address that no socket has. *)
LEMMA FreshIsFree ==
  ASSUME UdpIInv, sends < MaxSends PROVE FreshId \in SoIds /\ \A so \in udb : so.id # FreshId
<1>1. SoIds \ Ids # {}
  <2> SUFFICES ASSUME \A id \in SoIds : id \in Ids PROVE FALSE
    OBVIOUS
  <2> DEFINE g == [id \in SoIds |-> CHOOSE so \in udb : so.id = id]
  <2>1. ASSUME NEW id \in SoIds PROVE g[id] \in udb /\ g[id].id = id
    <3>1. \E so \in udb : so.id = id
      BY DEF Ids
    <3> QED
      BY <3>1
  <2>2. g \in [SoIds -> udb]
    BY <2>1
  <2> HIDE DEF g
  <2>3. IsFiniteSet(SoIds) /\ IsFiniteSet(udb) /\ Cardinality(udb) < Cardinality(SoIds)
    <3>1. IsFiniteSet(SoIds) /\ IsFiniteSet(udb)
      BY SocketsAssumption DEF UdpIInv, ListOk
    <3>2. Cardinality(SoIds) \in Nat /\ Cardinality(udb) \in Nat
      BY <3>1, FS_CardinalityType
    <3> QED
      BY <3>1, <3>2, SocketsAssumption DEF UdpIInv
  <2>4. \E x, y \in SoIds : x # y /\ g[x] = g[y]
    BY <2>2, <2>3, FS_PigeonHole
  <2> QED
    BY <2>1, <2>4, Zenon
<1>2. FreshId \in SoIds \ Ids
  BY <1>1 DEF FreshId
<1> QED
  BY <1>2 DEF Ids

(* udp_input finds the socket of the port, if there is one. *)
LEMMA LookupFinds ==
  ASSUME UdpIInv, NEW port, Lookup(port) \in Ids
  PROVE  Live(Lookup(port)) \in udb /\ Live(Lookup(port)).id = Lookup(port)
         /\ Live(Lookup(port)).lport = port
<1> DEFINE hit == Lookup(port)
           so == Live(hit)
<1>1. so \in udb /\ so.id = hit
  <2>1. \E s \in udb : s.id = hit
    BY DEF Ids
  <2> QED
    BY <2>1 DEF Live
<1>2. so.lport = port
  <2>1. CASE udp_last_so \in Ids /\ Live(udp_last_so).lport = port
    BY <2>1 DEF Lookup
  <2>2. CASE ~(udp_last_so \in Ids /\ Live(udp_last_so).lport = port)
    <3>1. CASE \E s \in udb : s.lport = port
      <4>1. PICK s \in udb : s.lport = port /\ hit = s.id
        BY <2>2, <3>1, Zenon DEF Lookup
      <4> QED
        BY <1>1, <4>1 DEF UdpIInv, ListOk
    <3>2. CASE ~\E s \in udb : s.lport = port
      <4>1. hit = NoSo
        BY <2>2, <3>2, Zenon DEF Lookup
      <4>2. so.id \in SoIds
        BY <1>1 DEF UdpIInv, ListOk, SoOk
      <4> QED
        BY <1>1, <4>1, <4>2, SocketsAssumption
    <3> QED
      BY <3>1, <3>2
  <2> QED
    BY <2>1, <2>2
<1> QED
  BY <1>1, <1>2

(* A socket made of its fields has them. *)
SocketOf(i, y, l, f, e, c, p, a, x) ==
  [id |-> i, type |-> y, lport |-> l, faddr |-> f, expire |-> e, connected |-> c,
   m |-> p, asked |-> a, mixed |-> x]

LEMMA SocketMade ==
  ASSUME NEW i, NEW y, NEW l, NEW f, NEW e, NEW c, NEW p, NEW a, NEW x
  PROVE  LET n == SocketOf(i, y, l, f, e, c, p, a, x)
         IN /\ IsSocket(n) /\ n.id = i /\ n.type = y /\ n.lport = l
            /\ n.faddr = f /\ n.m = p /\ n.asked = a /\ n.mixed = x
BY DEF IsSocket, SocketOf

(* The fields of a socket that has received. *)
AfterAnswer(so, q, e) == [so EXCEPT !.asked = so.asked \ {q}, !.expire = e]

(* Such a socket is in order.                                              *)
LEMMA ReceivedFields ==
  ASSUME NEW so, SoOk(so), so.type = "udp", NEW q, NEW e
  PROVE  SoOk(AfterAnswer(so, q, e)) /\ AfterAnswer(so, q, e).id = so.id
<1> DEFINE n == AfterAnswer(so, q, e)
<1>0. PICK a : a = so.asked \ {q}
  OBVIOUS
<1>1. IsSocket(so)
  BY DEF SoOk
<1>2. n = SocketOf(so.id, so.type, so.lport, so.faddr, e, so.connected, so.m, a, so.mixed)
  <2>1. n = [so EXCEPT !.asked = a, !.expire = e]
    BY <1>0, Zenon DEF AfterAnswer
  <2>2. so = SocketOf(so.id, so.type, so.lport, so.faddr, so.expire, so.connected, so.m, so.asked, so.mixed)
    BY <1>1, Zenon DEF IsSocket, SocketOf
  <2>3. PICK i, y, l, f, e0, c, p, a0, x :
          /\ i = so.id /\ y = so.type /\ l = so.lport /\ f = so.faddr /\ e0 = so.expire
          /\ c = so.connected /\ p = so.m /\ a0 = so.asked /\ x = so.mixed
    BY Zenon
  <2>4. so = SocketOf(i, y, l, f, e0, c, p, a0, x)
    BY <2>2, <2>3, Zenon
  <2>5. [SocketOf(i, y, l, f, e0, c, p, a0, x) EXCEPT !.asked = a, !.expire = e]
          = SocketOf(i, y, l, f, e, c, p, a, x)
    <3>1. [SocketOf(i, y, l, f, e0, c, p, a0, x) EXCEPT !.asked = a] = SocketOf(i, y, l, f, e0, c, p, a, x)
      BY DEF SocketOf
    <3>2. [SocketOf(i, y, l, f, e0, c, p, a, x) EXCEPT !.expire = e] = SocketOf(i, y, l, f, e, c, p, a, x)
      BY DEF SocketOf
    <3> QED
      BY <3>1, <3>2, Zenon
  <2>6. n = SocketOf(i, y, l, f, e, c, p, a, x)
    BY <2>1, <2>4, <2>5, Zenon
  <2> QED
    BY <2>3, <2>6, Zenon
<1> HIDE DEF n
<1>3. /\ IsSocket(n) /\ n.id = so.id /\ n.type = so.type /\ n.lport = so.lport
      /\ n.faddr = so.faddr /\ n.m = so.m /\ n.asked = so.asked \ {q} /\ n.mixed = so.mixed
  <2>1. n.asked = a
    BY <1>2, SocketMade, SMTT(30)
  <2>2. /\ IsSocket(n) /\ n.id = so.id /\ n.type = so.type /\ n.lport = so.lport
        /\ n.faddr = so.faddr /\ n.m = so.m /\ n.mixed = so.mixed
    BY <1>2, SocketMade, SMTT(30)
  <2> QED
    BY <1>0, <2>1, <2>2, Zenon
<1>4. Asked(so) => Asked(n)
  BY <1>3, Zenon DEF Asked
<1>5. SoOk(n) /\ n.id = so.id
  BY <1>3, <1>4, Zenon DEF SoOk
<1> QED
  BY <1>5, Zenon DEF n

(* The fields of a socket that udp_input has used. *)
AfterUse(n, so, port, peer, ok) ==
  /\ IsSocket(n) /\ n.id = so.id /\ n.type = so.type /\ n.lport = so.lport
  /\ n.faddr = peer /\ n.m = [Packet(port, peer) EXCEPT !.shifted = ~ok]
  /\ n.asked = IF ok THEN so.asked \cup {Packet(port, peer)} ELSE so.asked
  /\ ~n.mixed =>
        /\ ~so.mixed /\ so.type # "icmp"
        /\ so.faddr = NoSo \/ so.faddr = peer \/ (~Alias(peer) /\ ~Alias(so.faddr))

(* udp_input leaves a socket it has used in order.                         *)
LEMMA UsedFields ==
  ASSUME NEW so, IsSocket(so), NEW port, NEW peer, NEW ok
  PROVE  AfterUse(Used(so, port, peer, ok), so, port, peer, ok)
<1> DEFINE n == Used(so, port, peer, ok)
<1>1. PICK e, c, p, a, x :
        /\ e = (IF ok /\ so.expire >= 0 THEN Expire ELSE so.expire)
        /\ c = (so.connected \/ ok)
        /\ p = [Packet(port, peer) EXCEPT !.shifted = ~ok]
        /\ a = (IF ok THEN so.asked \cup {Packet(port, peer)} ELSE so.asked)
        /\ x = (so.mixed \/ so.type = "icmp"
                  \/ (so.faddr \notin {NoSo, peer} /\ (Alias(peer) \/ Alias(so.faddr))))
  BY Zenon
<1>2. n = [so EXCEPT !.faddr = peer, !.expire = e, !.connected = c, !.m = p,
                     !.asked = a, !.mixed = x]
  BY <1>1, Zenon DEF Used
<1>3. n = SocketOf(so.id, so.type, so.lport, peer, e, c, p, a, x)
  BY <1>2 DEF IsSocket, SocketOf
<1> HIDE DEF n
<1>4. /\ IsSocket(n) /\ n.id = so.id /\ n.type = so.type /\ n.lport = so.lport
      /\ n.faddr = peer /\ n.m = p /\ n.asked = a /\ n.mixed = x
  BY <1>3, SocketMade, SMTT(30)
<1>5. ~x => /\ ~so.mixed /\ so.type # "icmp"
            /\ so.faddr = NoSo \/ so.faddr = peer \/ (~Alias(peer) /\ ~Alias(so.faddr))
  BY <1>1, Zenon
<1>6. AfterUse(n, so, port, peer, ok)
  BY <1>1, <1>4, <1>5, Zenon DEF AfterUse
<1> QED
  BY <1>6, Zenon DEF n

(* The packet udp_input keeps is a packet. *)
LEMMA PacketIsOne ==
  ASSUME NEW port, NEW peer, NEW v
  PROVE  [Packet(port, peer) EXCEPT !.shifted = v] # NoMbuf
<1>1. [Packet(port, peer) EXCEPT !.shifted = v].kind = "udp"
  BY DEF Packet
<1>2. NoMbuf.kind = "null"
  BY DEF NoMbuf
<1> QED
  BY <1>1, <1>2

(* udp_input, with the socket found, remembered, or made.                  *)
LEMMA UdpInputKeeps ==
  ASSUME UdpIInv, NEW port \in GuestPorts, NEW peer \in Peers, NEW ok \in BOOLEAN,
         UdpInput(port, peer, ok)
  PROVE  UdpIInv'
<1> DEFINE hit == Lookup(port)
           old == IF hit \in Ids THEN {Live(hit)} ELSE {}
           so0 == IF old # {} THEN Live(hit) ELSE [udp_attach(FreshId) EXCEPT !.lport = port]
<1>1. PICK so : so = so0
  OBVIOUS
<1>3. PICK n : n = Used(so, port, peer, ok)
  OBVIOUS
<1>4. /\ sends < MaxSends /\ sends' = sends + 1
      /\ udb' = (udb \ old) \cup {n}
      /\ got' = got \/ got' = {[kind |-> "error", to |-> Packet(port, peer).port]}
      /\ udp_last_so' = IF old # {} THEN hit ELSE udp_last_so
      /\ held' = held + KeepPacket(so)
  BY <1>1, <1>3, Zenon DEF UdpInput, icmp_error
<1>5. AnswersReachAsker'
  <2>1. CASE got' = got
    BY <2>1, Zenon DEF UdpIInv, AnswersReachAsker, Packet
  <2>2. CASE got' = {[kind |-> "error", to |-> Packet(port, peer).port]}
    <3>1. \A b \in got' : b.kind = "error"
      BY <2>2
    <3> QED
      BY <3>1 DEF AnswersReachAsker
  <2> QED
    BY <1>4, <2>1, <2>2
<1>7. peer # NoSo
  BY SocketsAssumption
<1>8. ASSUME IsSocket(so), so.id \in SoIds, so.lport = port,
             ~so.mixed /\ so.type # "icmp" => Asked(so), so.faddr = NoSo => so.asked = {}
      PROVE  SoOk(n) /\ n.id = so.id
  <2>0. AfterUse(n, so, port, peer, ok)
    BY <1>3, <1>8, UsedFields, Zenon
  <2>1. /\ IsSocket(n) /\ n.id = so.id /\ n.type = so.type /\ n.lport = so.lport
        /\ n.faddr = peer /\ n.m = [Packet(port, peer) EXCEPT !.shifted = ~ok]
        /\ n.asked = IF ok THEN so.asked \cup {Packet(port, peer)} ELSE so.asked
        /\ ~n.mixed =>
              /\ ~so.mixed /\ so.type # "icmp"
              /\ so.faddr = NoSo \/ so.faddr = peer \/ (~Alias(peer) /\ ~Alias(so.faddr))
    BY <2>0, Zenon DEF AfterUse
  <2>2. ASSUME ~n.mixed PROVE Asked(n)
    <3>1. /\ ~so.mixed /\ so.type # "icmp"
          /\ so.faddr = NoSo \/ so.faddr = peer \/ (~Alias(peer) /\ ~Alias(so.faddr))
      BY <2>1, <2>2, Zenon
    <3>2. \A q \in so.asked : /\ q = Packet(port, q.peer)
                              /\ q.peer = so.faddr \/ (~Alias(q.peer) /\ ~Alias(so.faddr))
      BY <1>8, <3>1, Zenon DEF Asked
    <3>3. \A q \in n.asked : q \in so.asked \/ q = Packet(port, peer)
      BY <2>1, Zenon
    <3>4. Packet(port, peer).peer = peer
      BY DEF Packet
    <3>5. ASSUME NEW q \in n.asked
          PROVE  /\ q = Packet(port, q.peer)
                 /\ q.peer = peer \/ (~Alias(q.peer) /\ ~Alias(peer))
      <4>1. CASE q = Packet(port, peer)
        BY <3>4, <4>1
      <4>2. CASE q \in so.asked
        BY <1>8, <3>1, <3>2, <4>2, Zenon
      <4> QED
        BY <3>3, <4>1, <4>2
    <3>6. n.type # "icmp" /\ n.lport = port /\ n.faddr = peer
      BY <1>8, <2>1, <3>1, Zenon
    <3> QED
      BY <3>5, <3>6, Zenon DEF Asked
  <2>3. n.m # NoMbuf
    <3>1. PICK v : v = (~ok)
      BY Zenon
    <3>2. n.m = [Packet(port, peer) EXCEPT !.shifted = v]
      BY <2>1, <3>1, Zenon
    <3> QED
      BY <3>2, PacketIsOne
  <2> QED
    BY <1>7, <1>8, <2>1, <2>2, <2>3, Zenon DEF SoOk
<1>9. CASE hit \in Ids
  <2>1. so = Live(hit) /\ old = {so} /\ old # {}
    BY <1>1, <1>9
  <2>2. so \in udb /\ so.id = hit /\ so.lport = port
    BY <1>9, <2>1, LookupFinds
  <2>3. SoOk(so)
    BY <2>2 DEF UdpIInv, ListOk
  <2>4. SoOk(n) /\ n.id = so.id
    BY <1>8, <2>2, <2>3, Zenon DEF SoOk
  <2>5. udb' = (udb \ {so}) \cup {n} /\ udp_last_so' = hit /\ held' = held + 0
    BY <1>4, <2>1, <2>3 DEF KeepPacket, SoOk
  <2>6. ListOk(udb') /\ Cardinality(udb') = Cardinality(udb)
    BY <2>2, <2>4, <2>5, ListChanged DEF UdpIInv
  <2>7. CacheLive'
    BY <2>2, <2>4, <2>5 DEF CacheLive, Ids
  <2>8. /\ held = Cardinality(udb) /\ sends \in Nat /\ held <= sends /\ IsFiniteSet(udb)
    BY DEF UdpIInv, ListOk
  <2>9. held \in Nat
    BY <2>8, FS_CardinalityType
  <2>10. held' = Cardinality(udb') /\ sends' \in Nat /\ held' <= sends'
    BY <1>4, <2>5, <2>6, <2>8, <2>9
  <2> QED
    BY <1>5, <2>6, <2>7, <2>10 DEF UdpIInv, ListOk
<1>10. CASE hit \notin Ids
  <2>1. so = [udp_attach(FreshId) EXCEPT !.lport = port] /\ old = {}
    BY <1>1, <1>10
  <2>2. /\ IsSocket(so) /\ so.id = FreshId /\ so.lport = port /\ so.asked = {}
        /\ so.m = NoMbuf
    BY <2>1 DEF udp_attach, IsSocket
  <2>3. FreshId \in SoIds /\ \A t \in udb : t.id # FreshId
    BY <1>4, FreshIsFree
  <2>4. Asked(so)
    BY <2>2 DEF Asked
  <2>5. SoOk(n) /\ n.id = FreshId
    BY <1>8, <2>2, <2>3, <2>4, Zenon
  <2>6. udb' = udb \cup {n} /\ udp_last_so' = udp_last_so /\ held' = held + 1
    BY <1>4, <2>1, <2>2 DEF KeepPacket
  <2>7. ListOk(udb') /\ Cardinality(udb') = Cardinality(udb) + 1
    BY <2>3, <2>5, <2>6, ListGrown DEF UdpIInv
  <2>8. CacheLive'
    BY <2>6 DEF UdpIInv, CacheLive, Ids
  <2>9. /\ held = Cardinality(udb) /\ sends \in Nat /\ held <= sends /\ IsFiniteSet(udb)
    BY DEF UdpIInv, ListOk
  <2>10. held \in Nat
    BY <2>9, FS_CardinalityType
  <2>11. held' = Cardinality(udb') /\ sends' \in Nat /\ held' <= sends'
    BY <1>4, <2>6, <2>7, <2>9, <2>10
  <2> QED
    BY <1>5, <2>7, <2>8, <2>11 DEF UdpIInv, ListOk
<1> QED
  BY <1>9, <1>10

(* icmp_input makes a socket for the ping, or answers an error.            *)
LEMMA PingKeeps ==
  ASSUME UdpIInv, NEW peer \in Peers, NEW ok \in BOOLEAN, Ping(peer, ok)
  PROVE  UdpIInv'
<1>1. sends < MaxSends /\ sends' = sends + 1 /\ udp_last_so' = udp_last_so
  BY DEF Ping
<1>2. /\ held = Cardinality(udb) /\ sends \in Nat /\ held <= sends /\ IsFiniteSet(udb)
  BY DEF UdpIInv, ListOk
<1>3. held \in Nat
  BY <1>2, FS_CardinalityType
<1>4. ASSUME UNCHANGED <<udb, held>>, AnswersReachAsker' PROVE UdpIInv'
  <2>1. ListOk(udb') /\ held' = Cardinality(udb') /\ sends' \in Nat /\ held' <= sends'
    BY <1>1, <1>2, <1>3, <1>4 DEF UdpIInv
  <2>2. CacheLive'
    BY <1>1, <1>4 DEF UdpIInv, CacheLive, Ids
  <2> QED
    BY <1>4, <2>1, <2>2 DEF UdpIInv, ListOk
<1>5. CASE /\ got' = {[kind |-> "answer", to |-> PingPort, shown |-> Vhost,
                       query |-> Echo(peer), mixed |-> FALSE]}
           /\ peer = Vhost /\ UNCHANGED <<udb, held>>
  <2>1. Echo(peer) # Packet(PingPort, Bcast) /\ Echo(peer).port = PingPort /\ Echo(peer).peer = Vhost
    <3>1. Echo(peer).kind = "echo" /\ Packet(PingPort, Bcast).kind = "udp"
      BY DEF Echo, Packet
    <3> QED
      BY <1>5, <3>1 DEF Echo
  <2>2. ASSUME NEW b \in got'
        PROVE  b.to = PingPort /\ b.query = Echo(peer) /\ b.shown = Vhost
    BY <1>5
  <2>3. AnswersReachAsker'
    BY <2>1, <2>2, Zenon DEF AnswersReachAsker, Packet
  <2> QED
    BY <1>4, <1>5, <2>3
<1>6. CASE icmp_error(Echo(peer)) /\ UNCHANGED <<udb, held>>
  <2>1. \A b \in got' : b.kind = "error"
    BY <1>6 DEF icmp_error
  <2>2. AnswersReachAsker'
    BY <2>1 DEF AnswersReachAsker
  <2> QED
    BY <1>4, <1>6, <2>2
<1>7. ASSUME NEW n,
             n = [udp_attach(FreshId) EXCEPT !.type = "icmp", !.lport = PingPort, !.faddr = peer,
                    !.connected = TRUE, !.m = Echo(peer), !.asked = {Echo(peer)}],
             udb' = udb \cup {n}, held' = held + 1, got' = got
      PROVE  UdpIInv'
  <2>1. n = [id |-> FreshId, type |-> "icmp", lport |-> PingPort, faddr |-> peer,
             expire |-> Expire, connected |-> TRUE, m |-> Echo(peer), asked |-> {Echo(peer)},
             mixed |-> FALSE]
    BY <1>7 DEF udp_attach
  <2>2. /\ IsSocket(n) /\ n.id = FreshId /\ n.faddr = peer /\ n.m = Echo(peer)
        /\ n.type = "icmp" /\ n.lport = PingPort /\ n.asked = {Echo(peer)}
    BY <2>1 DEF IsSocket
  <2>3. FreshId \in SoIds /\ \A t \in udb : t.id # FreshId
    BY <1>1, FreshIsFree
  <2>4. Echo(peer) # NoMbuf
    <3>1. Echo(peer).kind = "echo" /\ NoMbuf.kind = "null"
      BY DEF Echo, NoMbuf
    <3> QED
      BY <3>1
  <2>5. Asked(n)
    BY <2>2 DEF Asked
  <2>6. peer # NoSo
    BY SocketsAssumption
  <2>7. SoOk(n)
    BY <2>2, <2>3, <2>4, <2>5, <2>6, Zenon DEF SoOk
  <2>8. ListOk(udb') /\ Cardinality(udb') = Cardinality(udb) + 1
    BY <1>7, <2>2, <2>3, <2>7, ListGrown DEF UdpIInv
  <2>9. CacheLive'
    BY <1>1, <1>7 DEF UdpIInv, CacheLive, Ids
  <2>10. held' = Cardinality(udb') /\ sends' \in Nat /\ held' <= sends'
    BY <1>1, <1>2, <1>3, <1>7, <2>8
  <2>11. AnswersReachAsker'
    BY <1>7, Zenon DEF UdpIInv, AnswersReachAsker, Packet
  <2> QED
    BY <2>8, <2>9, <2>10, <2>11 DEF UdpIInv, ListOk
<1> QED
  BY <1>5, <1>6, <1>7, Zenon DEF Ping

(* The cache after the sockets in gone were freed. *)
LEMMA DetachKeepsCache ==
  ASSUME CacheLive, NEW gone \in SUBSET udb, udb' = udb \ gone,
         udp_last_so' = sofree({so.id : so \in gone})
  PROVE  CacheLive'
<1>1. CASE udp_last_so \in {so.id : so \in gone}
  BY <1>1 DEF sofree, CacheLive
<1>2. CASE udp_last_so \notin {so.id : so \in gone} /\ udp_last_so # NoSo
  <2>1. PICK so \in udb : so.id = udp_last_so
    BY <1>2 DEF CacheLive, Ids
  <2>2. so \in udb'
    BY <1>2, <2>1
  <2> QED
    BY <1>2, <2>1, <2>2 DEF sofree, CacheLive, Ids
<1>3. CASE udp_last_so \notin {so.id : so \in gone} /\ udp_last_so = NoSo
  BY <1>3 DEF sofree, CacheLive
<1> QED
  BY <1>1, <1>2, <1>3

(* slirp_select_fill closes the sockets that have expired.                 *)
LEMMA DetachKeeps ==
  ASSUME UdpIInv, NEW gone \in SUBSET udb, udb' = udb \ gone,
         udp_last_so' = sofree({so.id : so \in gone}), held' = held - Mbufs(gone),
         sends' = sends, AnswersReachAsker'
  PROVE  UdpIInv'
<1>1. /\ ListOk(udb \ gone) /\ Mbufs(gone) = Cardinality(gone)
      /\ Cardinality(gone) \in Nat
      /\ Cardinality(udb \ gone) = Cardinality(udb) - Cardinality(gone)
  BY ListShrunk DEF UdpIInv
<1>2. CacheLive'
  BY DetachKeepsCache DEF UdpIInv
<1>3. held = Cardinality(udb) /\ sends \in Nat /\ held <= sends /\ IsFiniteSet(udb)
  BY DEF UdpIInv, ListOk
<1>4. Cardinality(udb) \in Nat
  BY <1>3, FS_CardinalityType
<1>5. held' = Cardinality(udb') /\ held' <= sends' /\ sends' \in Nat /\ ListOk(udb')
  BY <1>1, <1>3, <1>4, SMTT(30)
<1> QED
  BY <1>2, <1>5 DEF UdpIInv, ListOk

(* The source udp_output shows of a socket that is not mixed. *)
LEMMA ShownIsAsked ==
  ASSUME NEW so, NEW q, q = Packet(so.lport, q.peer),
         q.peer = so.faddr \/ (~Alias(q.peer) /\ ~Alias(so.faddr))
  PROVE  ShownSource(so, q.peer) = IF q = Packet(so.lport, Bcast) THEN Vhost ELSE q.peer
<1>1. q.peer = Bcast <=> q = Packet(so.lport, Bcast)
  BY DEF Packet
<1>2. CASE so.faddr = Bcast
  BY <1>1, <1>2 DEF ShownSource, Alias
<1>3. CASE so.faddr # Bcast /\ Alias(so.faddr)
  <2>1. q.peer = so.faddr
    BY <1>3
  <2>2. so.faddr = Vhost => HostAddress(q.peer) = "loopback"
    BY <2>1, SocketsAssumption DEF HostAddress
  <2> QED
    BY <1>1, <1>3, <2>1, <2>2 DEF ShownSource
<1>4. CASE ~Alias(so.faddr)
  <2>1. ~Alias(q.peer)
    BY <1>4
  <2>2. HostAddress(q.peer) = q.peer
    BY <2>1 DEF HostAddress, Alias
  <2> QED
    BY <1>1, <1>4, <2>1, <2>2 DEF ShownSource, Alias
<1> QED
  BY <1>2, <1>3, <1>4

(* An error, or an answer that shows what was asked. *)
LEMMA ErrorIsNoAnswer ==
  ASSUME NEW m, icmp_error(m) PROVE AnswersReachAsker'
<1>1. \A b \in got' : b.kind = "error"
  BY DEF icmp_error
<1> QED
  BY <1>1 DEF AnswersReachAsker

(* One answer, for the port and from the address of its query.             *)
LEMMA AnswerShows ==
  ASSUME NEW to, NEW shown, NEW query, NEW mixed,
         got' = {[kind |-> "answer", to |-> to, shown |-> shown, query |-> query, mixed |-> mixed]},
         ~mixed => /\ to = query.port
                   /\ shown = IF query = Packet(to, Bcast) THEN Vhost ELSE query.peer
  PROVE  AnswersReachAsker'
<1>1. ASSUME NEW b \in got'
      PROVE  b.to = to /\ b.query = query /\ b.shown = shown /\ b.mixed = mixed
  OBVIOUS
<1> QED
  BY <1>1, Zenon DEF AnswersReachAsker, Packet

(* sorecvfrom on a ping socket answers and closes it.                      *)
LEMMA RecvPingKeeps ==
  ASSUME UdpIInv, NEW so \in udb, NEW query \in so.asked, NEW ok \in BOOLEAN,
         RecvPing(so, query, ok), sends' = sends
  PROVE  UdpIInv'
<1>1. SoOk(so) /\ so.type = "icmp"
  BY DEF UdpIInv, ListOk, RecvPing
<1>2. {s.id : s \in {so}} = {so.id} /\ {so} \in SUBSET udb
  OBVIOUS
<1>3. CASE ok
  <2>1. /\ got' = {[kind |-> "answer", to |-> so.lport, shown |-> so.m.peer, query |-> query,
                    mixed |-> so.mixed]}
        /\ udb' = udb \ {so} /\ udp_last_so' = sofree({so.id})
        /\ held' = held - 1 - Mbufs({Reflect(so)})
    BY <1>3 DEF RecvPing
  <2>2. Mbufs({Reflect(so)}) = 0 /\ Mbufs({so}) = 1
    <3>1. Reflect(so).m = NoMbuf
      BY <1>1 DEF Reflect, SoOk, IsSocket
    <3>2. {s \in {Reflect(so)} : s.m # NoMbuf} = {}
      BY <3>1
    <3>3. {s \in {so} : s.m # NoMbuf} = {so}
      BY <1>1 DEF SoOk
    <3> QED
      BY <3>2, <3>3, FS_EmptySet, FS_Singleton DEF Mbufs
  <2>3. held \in Nat
    BY FS_CardinalityType DEF UdpIInv, ListOk
  <2>4. held' = held - Mbufs({so})
    <3>1. held' = held - 1 - 0
      BY <2>1, <2>2, Zenon
    <3>2. held - 1 - 0 = held - 1
      BY <2>3
    <3> QED
      BY <2>2, <3>1, <3>2, Zenon
  <2>5. ASSUME ~so.mixed
        PROVE  /\ so.lport = query.port
               /\ so.m.peer = IF query = Packet(so.lport, Bcast) THEN Vhost ELSE query.peer
    <3>1. query = Echo(so.faddr) /\ so.m = query /\ so.lport = PingPort
      BY <1>1, <2>5, Zenon DEF SoOk, Asked
    <3>2. query.kind = "echo" /\ query.port = PingPort /\ Packet(so.lport, Bcast).kind = "udp"
      <4>1. \A x : Echo(x).kind = "echo" /\ Echo(x).port = PingPort
        BY DEF Echo
      <4>2. \A x, y : Packet(x, y).kind = "udp"
        BY DEF Packet
      <4> QED
        BY <3>1, <4>1, <4>2, Zenon
    <3>3. query # Packet(so.lport, Bcast)
      BY <3>2
    <3>4. query.peer = so.m.peer /\ query.port = so.lport
      BY <3>1, <3>2, Zenon
    <3> QED
      BY <3>3, <3>4, Zenon
  <2>6. AnswersReachAsker'
    <3>1. PICK to, shown, mixed : to = so.lport /\ shown = so.m.peer /\ mixed = so.mixed
      BY Zenon
    <3>2. got' = {[kind |-> "answer", to |-> to, shown |-> shown, query |-> query, mixed |-> mixed]}
      BY <2>1, <3>1, Zenon
    <3>3. ~mixed => /\ to = query.port
                    /\ shown = IF query = Packet(to, Bcast) THEN Vhost ELSE query.peer
      BY <2>5, <3>1, Zenon
    <3> QED
      BY <3>2, <3>3, AnswerShows, Zenon
  <2> QED
    BY <1>2, <2>1, <2>4, <2>6, DetachKeeps
<1>4. CASE ~ok
  <2>1. /\ icmp_error(so.m) /\ udb' = udb \ {so} /\ udp_last_so' = sofree({s.id : s \in {so}})
        /\ held' = held - Mbufs({so})
    BY <1>4 DEF RecvPing, udp_detach
  <2> QED
    BY <1>2, <2>1, ErrorIsNoAnswer, DetachKeeps
<1> QED
  BY <1>3, <1>4

(* sorecvfrom on a datagram socket.                                        *)
LEMMA RecvDatagramKeeps ==
  ASSUME UdpIInv, NEW so \in udb, NEW query \in so.asked, NEW ok \in BOOLEAN,
         RecvDatagram(so, query, ok), sends' = sends
  PROVE  UdpIInv'
<1>1. SoOk(so) /\ so.type = "udp" /\ UNCHANGED <<udp_last_so, held>>
  BY DEF UdpIInv, ListOk, RecvDatagram
<1>2. IsSocket(so)
  BY <1>1 DEF SoOk
<1>3. ASSUME NEW n, SoOk(n), n.id = so.id, udb' = (udb \ {so}) \cup {n}, AnswersReachAsker'
      PROVE  UdpIInv'
  <2>1. ListOk(udb') /\ Cardinality(udb') = Cardinality(udb)
    BY <1>3, ListChanged DEF UdpIInv
  <2>2. CacheLive'
    <3>1. Ids' = Ids
      BY <1>3 DEF Ids
    <3> QED
      BY <1>1, <3>1 DEF UdpIInv, CacheLive
  <2>3. held' = Cardinality(udb') /\ sends' \in Nat /\ held' <= sends'
    BY <1>1, <2>1 DEF UdpIInv
  <2> QED
    BY <1>3, <2>1, <2>2, <2>3 DEF UdpIInv, ListOk
<1>4. CASE ok
  <2>1. PICK e : e = (IF so.expire < 0 THEN so.expire ELSE IF so.faddr = Dns THEN ExpireFast ELSE Expire)
    OBVIOUS
  <2>2. PICK n : n = AfterAnswer(so, query, e)
    OBVIOUS
  <2>3. /\ got' = {[kind |-> "answer", to |-> so.lport, shown |-> ShownSource(so, query.peer),
                    query |-> query, mixed |-> so.mixed]}
        /\ udb' = (udb \ {so}) \cup {n}
    BY <1>4, <2>1, <2>2, Zenon DEF RecvDatagram, AfterAnswer
  <2>4. SoOk(n) /\ n.id = so.id
    BY <1>1, <2>2, ReceivedFields, Zenon
  <2>5. ASSUME ~so.mixed
        PROVE  /\ so.lport = query.port
               /\ ShownSource(so, query.peer) =
                     IF query = Packet(so.lport, Bcast) THEN Vhost ELSE query.peer
    <3>1. so.type # "icmp"
      BY <1>1
    <3>2. /\ query = Packet(so.lport, query.peer)
          /\ query.peer = so.faddr \/ (~Alias(query.peer) /\ ~Alias(so.faddr))
      BY <1>1, <2>5, <3>1, Zenon DEF SoOk, Asked
    <3>3. Packet(so.lport, query.peer).port = so.lport
      BY DEF Packet
    <3> QED
      BY <3>2, <3>3, ShownIsAsked, Zenon
  <2>6. AnswersReachAsker'
    <3>1. PICK to, shown, mixed :
            to = so.lport /\ shown = ShownSource(so, query.peer) /\ mixed = so.mixed
      BY Zenon
    <3>2. got' = {[kind |-> "answer", to |-> to, shown |-> shown, query |-> query, mixed |-> mixed]}
      BY <2>3, <3>1, Zenon
    <3>3. ~mixed => /\ to = query.port
                    /\ shown = IF query = Packet(to, Bcast) THEN Vhost ELSE query.peer
      BY <2>5, <3>1, Zenon
    <3> QED
      BY <3>2, <3>3, AnswerShows, Zenon
  <2> QED
    BY <1>3, <2>3, <2>4, <2>6
<1>5. CASE ~ok
  <2>1. PICK n : n = [so EXCEPT !.asked = so.asked \ {query}]
    OBVIOUS
  <2>2. icmp_error(so.m) /\ udb' = (udb \ {so}) \cup {n}
    BY <1>5, <2>1, Zenon DEF RecvDatagram
  <2>3. n = AfterAnswer(so, query, so.expire)
    BY <1>2, <2>1 DEF IsSocket, AfterAnswer
  <2>4. SoOk(n) /\ n.id = so.id
    BY <1>1, <2>3, ReceivedFields, Zenon
  <2> QED
    BY <1>3, <2>2, <2>4, ErrorIsNoAnswer
<1> QED
  BY <1>4, <1>5

(* slirp_select_poll's clock: every socket grows older, none changes else. *)
Older(so) == [so EXCEPT !.expire = IF @ > 0 THEN @ - 1 ELSE @]

(* An older socket is in order.                                            *)
LEMMA OlderFields ==
  ASSUME NEW so, SoOk(so) PROVE SoOk(Older(so)) /\ Older(so).id = so.id
<1>1. IsSocket(so)
  BY DEF SoOk
<1>2. PICK e : e = (IF so.expire > 0 THEN so.expire - 1 ELSE so.expire)
  OBVIOUS
<1>3. PICK n : n = Older(so)
  OBVIOUS
<1>4. n = [so EXCEPT !.expire = e]
  BY <1>2, <1>3, Zenon DEF Older
<1>5. n = [id |-> so.id, type |-> so.type, lport |-> so.lport, faddr |-> so.faddr,
           expire |-> e, connected |-> so.connected, m |-> so.m, asked |-> so.asked,
           mixed |-> so.mixed]
  BY <1>1, <1>4 DEF IsSocket
<1>6. /\ IsSocket(n) /\ n.id = so.id /\ n.type = so.type /\ n.lport = so.lport
      /\ n.faddr = so.faddr /\ n.m = so.m /\ n.asked = so.asked /\ n.mixed = so.mixed
  BY <1>5 DEF IsSocket
<1>7. Asked(so) => Asked(n)
  BY <1>6, Zenon DEF Asked
<1> QED
  BY <1>3, <1>6, <1>7, Zenon DEF SoOk

(* The clock keeps the sockets, one for one.                               *)
LEMMA TickKeeps ==
  ASSUME UdpIInv, Tick PROVE UdpIInv'
<1>1. /\ udb' = {Older(so) : so \in udb}
      /\ UNCHANGED <<udp_last_so, held, got, sends>>
  BY Zenon DEF Tick, Older
<1>2. \A so \in udb : SoOk(so)
  BY DEF UdpIInv, ListOk
<1>3. \A so \in udb : SoOk(Older(so)) /\ Older(so).id = so.id
  BY <1>2, OlderFields, Zenon
<1> DEFINE f == [so \in udb |-> Older(so)]
<1>4. f \in Bijection(udb, udb')
  <2>1. f \in [udb -> udb']
    BY <1>1, Zenon
  <2>2. \A s, t \in udb : f[s] = f[t] => s = t
    <3> SUFFICES ASSUME NEW s \in udb, NEW t \in udb, Older(s) = Older(t) PROVE s = t
      BY Zenon
    <3>1. s.id = t.id
      BY <1>3, Zenon
    <3> QED
      BY <3>1, Zenon DEF UdpIInv, ListOk
  <2>3. \A u \in udb' : \E s \in udb : f[s] = u
    BY <1>1, Zenon
  <2> HIDE DEF f
  <2>4. DOMAIN f = udb
    BY <2>1, Zenon
  <2> QED
    BY <2>1, <2>2, <2>3, <2>4, Zenon DEF Bijection, Injection, Surjection, IsInjective
<1>5. IsFiniteSet(udb') /\ Cardinality(udb') = Cardinality(udb)
  <2>1. ExistsBijection(udb, udb')
    BY <1>4, Zenon DEF ExistsBijection
  <2>2. IsFiniteSet(udb)
    BY DEF UdpIInv, ListOk
  <2> QED
    BY <2>1, <2>2, FS_Bijection
<1>6. ListOk(udb')
  <2>1. \A u \in udb' : SoOk(u)
    BY <1>1, <1>3, Zenon
  <2>2. ASSUME NEW u \in udb', NEW v \in udb', u.id = v.id PROVE u = v
    <3>1. PICK s \in udb : u = Older(s)
      BY <1>1, Zenon
    <3>2. PICK t \in udb : v = Older(t)
      BY <1>1, Zenon
    <3>3. s.id = t.id
      BY <1>3, <2>2, <3>1, <3>2, Zenon
    <3>4. s = t
      BY <3>3, Zenon DEF UdpIInv, ListOk
    <3> QED
      BY <3>1, <3>2, <3>4, Zenon
  <2> QED
    BY <1>5, <2>1, <2>2, Zenon DEF ListOk
<1>7. CacheLive'
  <2>1. CASE udp_last_so = NoSo
    BY <1>1, <2>1, Zenon DEF CacheLive
  <2>2. CASE udp_last_so # NoSo
    <3>1. PICK so \in udb : so.id = udp_last_so
      BY <2>2 DEF UdpIInv, CacheLive, Ids
    <3>2. Older(so) \in udb' /\ Older(so).id = udp_last_so
      BY <1>1, <1>3, <3>1, Zenon
    <3> QED
      BY <1>1, <3>2, Zenon DEF CacheLive, Ids
  <2> QED
    BY <2>1, <2>2
<1>8. held' = Cardinality(udb') /\ sends' \in Nat /\ held' <= sends'
  BY <1>1, <1>5 DEF UdpIInv
<1>9. AnswersReachAsker'
  BY <1>1, Zenon DEF UdpIInv, AnswersReachAsker, Packet
<1> QED
  BY <1>6, <1>7, <1>8, <1>9 DEF UdpIInv, ListOk

(* The datagram side of slirp, for any number of sockets, ports and peers: *)
(* every answer reaches the port that asked and shows the address it was   *)
(* sent to, unless the port is marked mixed; the socket udp_input found    *)
(* last is still one of the list; and every packet kept belongs to one     *)
(* socket, over expiry, reuse of addresses, failures and pings.            *)
THEOREM SocketsAllServe == UdpSpec => []SocketsServe
<1>1. UdpInit => UdpIInv
  <2> SUFFICES ASSUME UdpInit PROVE UdpIInv
    OBVIOUS
  <2>1. udb = {} /\ udp_last_so = NoSo /\ held = 0 /\ got = {} /\ sends = 0
    BY DEF UdpInit
  <2>2. ListOk(udb) /\ Cardinality(udb) = 0
    BY <2>1, FS_EmptySet DEF ListOk
  <2> QED
    BY <2>1, <2>2 DEF UdpIInv, CacheLive, AnswersReachAsker
<1>2. UdpIInv /\ [UdpNext]_udpvars => UdpIInv'
  <2> SUFFICES ASSUME UdpIInv, [UdpNext]_udpvars PROVE UdpIInv'
    OBVIOUS
  <2>1. CASE Sorecvfrom
    <3>1. PICK so \in udb, ok \in BOOLEAN :
            \E query \in so.asked : /\ RecvPing(so, query, ok) \/ RecvDatagram(so, query, ok)
                                    /\ sends' = sends
      BY <2>1, Zenon DEF Sorecvfrom
    <3>2. PICK query \in so.asked : /\ RecvPing(so, query, ok) \/ RecvDatagram(so, query, ok)
                                    /\ sends' = sends
      BY <3>1
    <3> QED
      BY <3>2, RecvPingKeeps, RecvDatagramKeeps
  <2>2. CASE SelectFillUdp
    <3> DEFINE due == {so \in udb : so.expire = 0}
    <3>1. /\ udb' = udb \ due /\ udp_last_so' = sofree({so.id : so \in due})
          /\ held' = held - Mbufs(due) /\ got' = got /\ sends' = sends
      BY <2>2 DEF SelectFillUdp, udp_detach
    <3>2. due \in SUBSET udb
      OBVIOUS
    <3>3. AnswersReachAsker'
      BY <3>1, Zenon DEF UdpIInv, AnswersReachAsker, Packet
    <3> HIDE DEF due
    <3> QED
      BY <3>1, <3>2, <3>3, DetachKeeps
  <2>3. CASE UNCHANGED udpvars
    <3>1. UNCHANGED <<udb, udp_last_so, held, got, sends>>
      BY <2>3 DEF udpvars
    <3> QED
      BY <3>1, Zenon DEF UdpIInv, CacheLive, Ids, AnswersReachAsker, Packet, ListOk
  <2> QED
    BY <2>1, <2>2, <2>3, UdpInputKeeps, PingKeeps, TickKeeps DEF UdpNext, UdpDropped
<1>3. UdpIInv => SocketsServe
  <2> SUFFICES ASSUME UdpIInv PROVE SocketsServe
    OBVIOUS
  <2>1. Mbufs(udb) = Cardinality(udb)
    BY MbufsAll DEF UdpIInv, ListOk
  <2> QED
    BY <2>1 DEF UdpIInv, SocketsServe, PacketsInSockets
<1> QED
  BY <1>1, <1>2, <1>3, PTL DEF UdpSpec
=============================================================================
