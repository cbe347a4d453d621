----------------------------- MODULE GuestAddress -----------------------------
(***************************************************************************)
(* How slirp gives the guest its addresses and finds it on the link: the   *)
(* BOOTP and DHCP server (bootp.c), the answers to ARP (arp_input) and the *)
(* frame put around an IP packet (if_encap, slirp.c).                      *)
(*                                                                         *)
(* Addresses of the pool are the numbers 0 .. NbClients - 1, counted from  *)
(* vdhcp_startaddr; any other number is an address outside the pool.       *)
(***************************************************************************)
EXTENDS Integers, FiniteSets, FiniteSetsExt

CONSTANTS Macs,      \* hardware addresses the guest uses
          NbClients, \* NB_BOOTP_CLIENTS
          Requested, \* addresses clients ask for
          GuestIps   \* addresses slirp sends to

NoAddr == -1
ZeroMac == "zero"    \* zero_ethaddr

(* No client has the address that stands for none. *)
ASSUME ClientsAssumption == NbClients \in Nat /\ ZeroMac \notin Macs

VARIABLES bootp_clients,  \* slot -> [allocated, macaddr]
          client_ethaddr, \* where frames go, ZeroMac until it is known
          client_ipaddr,  \* the address of the last ARP request
          arp,            \* addresses of the ARP requests not yet answered
          given,          \* mac -> addresses offered or confirmed to it
          spoke,          \* hardware addresses the guest has shown
          reply,          \* the last answer of the server
          frame           \* the last frame of slirp

gavars == <<bootp_clients, client_ethaddr, client_ipaddr, arp, given, spoke, reply, frame>>

ClientSlots == 0 .. NbClients - 1

GaInit ==
    /\ bootp_clients = [i \in ClientSlots |-> [allocated |-> FALSE, macaddr |-> ZeroMac]]
    /\ client_ethaddr = ZeroMac /\ client_ipaddr = NoAddr /\ arp = {}
    /\ given = [mac \in Macs |-> {}] /\ spoke = {}
    /\ reply = [kind |-> "none", mac |-> ZeroMac, req |-> NoAddr, addr |-> NoAddr]
    /\ frame = [kind |-> "none", to |-> ZeroMac]

-----------------------------------------------------------------------------
\* Mutated form: a slot is taken without regard to whose it is.
Usable_Any(i, mac) == TRUE
(* A slot that mac may take: a free one or one of its own. *)
Usable(i, mac) == ~bootp_clients[i].allocated \/ bootp_clients[i].macaddr = mac

(* The slot each of the three searches gives, NoAddr for none. *)
First(slots) == IF slots = {} THEN NoAddr ELSE Min(slots)
get_new_addr(mac) == First({i \in ClientSlots : Usable(i, mac)})
request_addr(req, mac) == First({i \in ClientSlots : i = req /\ Usable(i, mac)})
find_addr(mac) == First({i \in ClientSlots : bootp_clients[i].macaddr = mac})

(* bootp_reply: the slot found for a message; asks: a DHCPDISCOVER. *)
Slot(mac, asks, req) ==
    LET wanted == IF req = NoAddr THEN NoAddr ELSE request_addr(req, mac)
        known  == find_addr(mac)
    IN CASE asks -> IF wanted # NoAddr THEN wanted ELSE get_new_addr(mac)
         [] ~asks /\ req # NoAddr -> wanted
         [] OTHER -> IF known # NoAddr THEN known ELSE get_new_addr(mac)

(* What dhcp_decode makes of a message [op, type, opt, ciaddr] with its    *)
(* options in any order: a type of "none" is that of a BOOTP client, and   *)
(* a request without the option names its address in ciaddr.               *)
dhcp_decode(msg) ==
    [type |-> IF msg.type = "none" THEN "request" ELSE msg.type,
     req  |-> IF msg.type = "request" /\ msg.opt = NoAddr THEN msg.ciaddr ELSE msg.opt]

(* bootp_input.  Whom frames go to is set from a discover or a request,    *)
(* even when there is no memory or no address left and nothing is          *)
(* answered.                                                               *)
BootpInput(mac, msg, mem) ==
    LET dhcp   == dhcp_decode(msg)
        req    == dhcp.req
        asks   == dhcp.type = "discover"
        slot   == Slot(mac, asks, req)
        answer == CASE ~mem -> "no_memory"
                    [] mem /\ slot # NoAddr -> IF asks THEN "offer" ELSE "ack"
                    [] mem /\ slot = NoAddr /\ ~asks /\ req # NoAddr -> "nak"
                    [] OTHER -> "full"
        took   == answer \in {"offer", "ack"}
    IN /\ msg.op = "request" /\ dhcp.type \in {"discover", "request"}
       /\ client_ethaddr' = mac
       /\ spoke' = spoke \cup {mac}
       /\ bootp_clients' = IF took THEN [bootp_clients EXCEPT ![slot] =
                                           [allocated |-> TRUE, macaddr |-> mac]]
                           ELSE bootp_clients
       /\ given' = IF took THEN [given EXCEPT ![mac] = @ \cup {slot}] ELSE given
       /\ reply' = [kind |-> answer, mac |-> mac, req |-> req,
                    addr |-> IF took THEN slot ELSE NoAddr]
       /\ UNCHANGED <<client_ipaddr, arp, frame>>

Messages ==
    LET addrs == Requested \cup {NoAddr}
    IN [op : {"request", "reply"}, type : {"none", "discover", "request", "other"},
        opt : addrs, ciaddr : addrs]

-----------------------------------------------------------------------------
(* arp_input: a request for an address of slirp's own shows where the      *)
(* guest is; a reply does so only while that is unknown and only for the   *)
(* address asked for last.                                                 *)
ArpRequest(mac) ==
    /\ client_ethaddr' = mac
    /\ spoke' = spoke \cup {mac}
    /\ UNCHANGED <<bootp_clients, client_ipaddr, arp, given, reply, frame>>

ArpReply(mac, ip) ==
    /\ ip \in arp
    /\ arp' = arp \ {ip}
    /\ spoke' = spoke \cup {mac}
    /\ client_ethaddr' = IF client_ethaddr = ZeroMac /\ ip = client_ipaddr
                         THEN mac ELSE client_ethaddr
    /\ UNCHANGED <<bootp_clients, client_ipaddr, given, reply, frame>>

(* While the guest's address is unknown an ARP request takes the packet's  *)
(* place; the sender has to try again.                                     *)
if_encap(ip) ==
    IF client_ethaddr = ZeroMac
    THEN /\ client_ipaddr' = ip /\ arp' = arp \cup {ip}
         /\ frame' = [kind |-> "arp", to |-> ZeroMac]
    ELSE /\ frame' = [kind |-> "ip", to |-> client_ethaddr]
         /\ UNCHANGED <<client_ipaddr, arp>>

Send(ip) == if_encap(ip) /\ UNCHANGED <<bootp_clients, client_ethaddr, given, spoke, reply>>

GaNext ==
    \/ \E mac \in Macs, msg \in Messages, mem \in BOOLEAN : BootpInput(mac, msg, mem)
    \/ \E mac \in Macs : ArpRequest(mac)
    \/ \E mac \in Macs, ip \in GuestIps : ArpReply(mac, ip)
    \/ \E ip \in GuestIps : Send(ip)

-----------------------------------------------------------------------------
(* No address is ever offered or confirmed to two clients, whatever they   *)
(* ask for and in whatever order: a slot keeps its hardware address.       *)
AddressOfOneClient ==
    \A m, n \in Macs : m # n => given[m] \cap given[n] = {}

(* A client is never refused an address it was given, and one that has an  *)
(* address is always answered, also when the pool is used up.              *)
ClientServed ==
    /\ reply.kind = "nak" => reply.req \notin given[reply.mac]
    /\ reply.kind = "full" => given[reply.mac] = {}

(* An IP packet leaves only to a hardware address the guest has used, and  *)
(* a client that was given an address is known: its packets do not wait    *)
(* for ARP.                                                                *)
FramesReachGuest ==
    /\ frame.kind = "ip" => frame.to \in spoke
    /\ (\E mac \in Macs : given[mac] # {}) => client_ethaddr # ZeroMac

(* Clients are told apart and reached: by address (bootp_reply) and by     *)
(* frame (if_encap, arp_input).                                            *)
ClientsReached == AddressOfOneClient /\ ClientServed /\ FramesReachGuest
=============================================================================
