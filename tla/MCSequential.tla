---------------------------- MODULE MCSequential ----------------------------
(***************************************************************************)
(* The components that one thread runs at a time and whose operations each *)
(* end where they began: the registers of a device, the input devices, the *)
(* PCI bus, the physical memory map, and slirp's addresses, socket buffers *)
(* and output queues.  part says which of them runs; the others stay in    *)
(* their initial states.                                                   *)
(***************************************************************************)
EXTENDS DeviceRegisters, InputDevice, PciBus, PhysMem, GuestAddress, SocketBuffer, IfQueue

CONSTANT Parts
VARIABLE part

(* The BARs of a virtio device over PCI, and a ROM. *)
MCBars == [b4 |-> [size |-> 2, type |-> "memory"], b0 |-> [size |-> 1, type |-> "io"],
           rom |-> [size |-> 2, type |-> "memory"]]

SequentialInit ==
    /\ part \in Parts
    /\ RegInit /\ InInit /\ PciInit /\ PmInit /\ GaInit /\ SbInit /\ IfInit
    /\ part = "registers" => config_space_size = 4
    /\ part \notin {"registers", "config"} => transport = "mmio" /\ config_space_size = 4
    /\ part # "keys" /\ part # "query" => type = "mouse"
    /\ part # "memory" => ranges[1].size = RamPages
    /\ part # "buffer" => use = "snd"

rest == <<regvars, invars, pcivars, pmvars, gavars, sbvars, ifvars>>

SequentialNext ==
    /\ UNCHANGED part
    /\ CASE part = "registers" ->
              RegNext /\ UNCHANGED <<invars, pcivars, pmvars, gavars, sbvars, ifvars>>
         [] part = "config" ->
              ConfigNext /\ UNCHANGED <<invars, pcivars, pmvars, gavars, sbvars, ifvars>>
         [] part = "keys" ->
              InEvents /\ UNCHANGED <<regvars, pcivars, pmvars, gavars, sbvars, ifvars>>
         [] part = "query" ->
              InConfig /\ UNCHANGED <<regvars, pcivars, pmvars, gavars, sbvars, ifvars>>
         [] part \in {"map", "lines", "capabilities"} ->
              /\ CASE part = "map" -> PciMapNext
                   [] part = "lines" -> PciIrqNext
                   [] part = "capabilities" -> PciCapNext
              /\ UNCHANGED <<regvars, invars, pmvars, gavars, sbvars, ifvars>>
         [] part = "memory" ->
              PmNext /\ UNCHANGED <<regvars, invars, pcivars, gavars, sbvars, ifvars>>
         [] part = "address" ->
              GaNext /\ UNCHANGED <<regvars, invars, pcivars, pmvars, sbvars, ifvars>>
         [] part = "buffer" ->
              SbNext /\ UNCHANGED <<regvars, invars, pcivars, pmvars, gavars, ifvars>>
         [] part = "queue" ->
              IfNext /\ UNCHANGED <<regvars, invars, pcivars, pmvars, gavars, sbvars>>

SequentialSpec == SequentialInit /\ [][SequentialNext]_<<part, rest>>
=============================================================================
