------------------------------ MODULE MCSlirp -------------------------------
(***************************************************************************)
(* The datagrams of slirp, and the network device's receive path that      *)
(* slirp feeds, one at a time: part says which component runs, the others  *)
(* stay in their initial states.                                           *)
(***************************************************************************)
EXTENDS NetReceive, IpFragments, UdpSockets

CONSTANT Parts
VARIABLE part

(* Two datagrams of one identification, the second sent after the first,   *)
(* and one of another protocol; pieces that overlap, repeat and are        *)
(* padded, one that has expired, one that is wrong and one cut short.      *)
MCDatagram ==
    [a |-> [key |-> [id |-> 1, p |-> "udp"], len |-> 6, gen |-> 1],
     b |-> [key |-> [id |-> 1, p |-> "udp"], len |-> 4, gen |-> 2],
     c |-> [key |-> [id |-> 1, p |-> "icmp"], len |-> 4, gen |-> 1]]
MCPieces ==
    LET piece(d, off, len) == [d |-> d, off |-> off, len |-> len,
                               pad |-> 0, ttl |-> 1, fault |-> "none"]
    IN {piece("a", 0, 2), piece("a", 0, 4), piece("a", 2, 2), piece("a", 2, 4),
        [piece("a", 4, 2) EXCEPT !.pad = 3],
        piece("b", 0, 2), piece("b", 2, 2), piece("b", 0, 4),
        piece("c", 0, 2), piece("c", 2, 2),
        [piece("a", 0, 2) EXCEPT !.ttl = 0],
        [piece("a", 0, 2) EXCEPT !.fault = "bad"],
        [piece("c", 2, 2) EXCEPT !.fault = "short"]}

SlirpInit == part \in Parts /\ Init /\ IpInit /\ UdpInit

SlirpNext ==
    /\ UNCHANGED part
    /\ \/ part = "receive" /\ Next /\ UNCHANGED <<ipvars, udpvars>>
       \/ part = "ip" /\ IpNext /\ UNCHANGED <<vars, udpvars>>
       \/ part = "udp" /\ UdpNext /\ UNCHANGED <<vars, ipvars>>

(* Time passes, the emulator's loop calls select_fill over and over, with  *)
(* TCP connections or without, and ip_slowtimo runs whenever it is wanted  *)
(* and half a second is over.                                              *)
SlirpSpec ==
    /\ SlirpInit /\ [][SlirpNext]_<<part, vars, ipvars, udpvars>>
    /\ WF_ipvars(part = "ip" /\ SelectFill(FALSE)) /\ WF_ipvars(part = "ip" /\ Slowtimo)
    /\ WF_udpvars(part = "udp" /\ Tick) /\ WF_udpvars(part = "udp" /\ SelectFillUdp)
=============================================================================
