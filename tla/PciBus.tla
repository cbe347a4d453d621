------------------------------- MODULE PciBus --------------------------------
(***************************************************************************)
(* The PCI bus and its i440FX bridge (pci.c): configuration accesses and   *)
(* the mappings they move, the shared interrupt lines and their way to the *)
(* interrupt controller, and the capability list of a virtio device        *)
(* (virtio.c).  Devices are named by their slot, devfn / 8.                *)
(*                                                                         *)
(* The registers are kept by what they say: the command register is a set  *)
(* of decode bits, a base address register an address in units of the      *)
(* smallest region.  An access is a register and a size in bytes.          *)
(***************************************************************************)
EXTENDS Integers, FiniteSets, FiniteSetsExt, Sequences

CONSTANTS Slots, Wanted,     \* slots of the bus; those a device may ask for
          Bars,              \* [id -> [size, type]]: the regions of a device
          RomBar,            \* PCI_ROM_SLOT, one of them
          BarValues,         \* values written to a base address register
          Pins, PicIrqs,     \* pins in use; inputs of the controller
          Routes,            \* values written to a PIRQ register
          CfgSize, FirstCap, CapSizes    \* 256, 0x40 and 16 and 20, scaled

(* The bridge and PIIX3 have slots; the sizes of regions and capabilities  *)
(* are not zero; a device has four pins.                                   *)
ASSUME PciAssumption ==
    /\ {0, 1} \subseteq Slots /\ Slots \subseteq Nat
    /\ \A b \in DOMAIN Bars : Bars[b].size \in Nat \ {0}
    /\ Wanted \subseteq Nat /\ BarValues \subseteq Nat
    /\ Pins \subseteq 0 .. 3 /\ PicIrqs \subseteq Nat /\ Routes \subseteq Nat
    /\ CfgSize \in Nat /\ FirstCap \in 1 .. CfgSize - 1 /\ CapSizes \subseteq Nat \ {0}

VARIABLES devices,      \* slots with a device, in the order of registration
          config_reg,   \* i440FX address register: [slot, reg]
          command, bar, \* per slot; bar also by region: [addr, on]
          regions,      \* the mapping of each region as last set: [addr, on]
          level,        \* what each device last set its pins to
          irq_state,    \* per bus line, the slots that hold it
          pirq,         \* PIIX3 registers 0x60 .. 0x63, without their top bit
          pic_irq_state,\* per controller input, the bus lines that hold it
          int_line,     \* PCI_INTERRUPT_LINE; -1 when not set
          moved,        \* bus lines given another route while they were high
          caps, next_cap_offset, cap_bytes, cap_head

mapvars  == <<config_reg, command, bar, regions>>
irqvars  == <<level, irq_state, pirq, pic_irq_state, int_line, moved>>
capvars  == <<caps, next_cap_offset, cap_bytes, cap_head>>
pcivars  == <<devices, mapvars, irqvars, capvars>>

Lines == 0 .. 3
IsBus(s) == s \in {0, 1}     \* the host bridge and PIIX3

-----------------------------------------------------------------------------
(* i440fx_init: a bus with the bridge and PIIX3 on it. *)
PciInit ==
    /\ devices = <<0, 1>>
    /\ config_reg = [slot |-> 0, reg |-> "id"]
    /\ command = [s \in Slots |-> {}]
    /\ bar = [s \in Slots |-> [b \in DOMAIN Bars |-> [addr |-> 0, on |-> FALSE]]]
    /\ regions = [s \in Slots |-> [b \in DOMAIN Bars |-> [addr |-> 0, on |-> FALSE]]]
    /\ level = [s \in Slots |-> [p \in Pins |-> FALSE]]
    /\ irq_state = [l \in Lines |-> {}]
    /\ pirq = [l \in Lines |-> 0]
    /\ pic_irq_state = [n \in PicIrqs |-> {}]
    /\ int_line = [s \in Slots |-> -1] /\ moved = {}
    /\ caps = <<>> /\ next_cap_offset = FirstCap
    /\ cap_bytes = [i \in 0 .. CfgSize - 1 |-> [owner |-> 0, next |-> 0]]
    /\ cap_head = 0

devfn_alloc(free) == Min(free)

(* pci_register_device, with devfn < 0 for want = -1. *)
Register(want) ==
    LET free == Slots \ Range(devices)
        slot == IF want >= 0 THEN want ELSE devfn_alloc(free)
    IN /\ free # {}
       /\ want >= 0 => want \in free
       /\ devices' = Append(devices, slot)
       /\ UNCHANGED <<mapvars, irqvars, capvars>>

-----------------------------------------------------------------------------
(* Configuration accesses. *)
Decoded(slot, b, addr, cmd) ==
    \/ Bars[b].type = "io" /\ "io" \in cmd
    \/ "memory" \in cmd /\ (b = RomBar => addr.on)

Masked(b, v) == v - (v % Bars[b].size)

\* Mutated form: a region that is on already is left where it is.
Remapped_Once(slot, b, regs, cmd) ==
    IF Decoded(slot, b, regs[b], cmd)
    THEN IF regions[slot][b].on THEN regions[slot][b]
         ELSE [addr |-> Masked(b, regs[b].addr), on |-> TRUE]
    ELSE [addr |-> 0, on |-> FALSE]
Remapped(slot, b, regs, cmd) ==
    IF Decoded(slot, b, regs[b], cmd)
    THEN [addr |-> Masked(b, regs[b].addr), on |-> TRUE]
    ELSE [addr |-> 0, on |-> FALSE]

(* pci_update_mappings: bar_set of every region, after a write. *)
pci_update_mappings(slot, regs, cmd) ==
    regions' = [regions EXCEPT ![slot] =
                   [b \in DOMAIN Bars |-> Remapped(slot, b, regs, cmd)]]

(* pci_write_bar: the low bits are the region's own; bit 0 of the ROM      *)
(* register enables it.                                                    *)
pci_write_bar(slot, b, val, on) ==
    LET regs == [bar[slot] EXCEPT ![b] =
                    [addr |-> Masked(b, val), on |-> b = RomBar /\ on]]
    IN /\ bar' = [bar EXCEPT ![slot] = regs]
       /\ pci_update_mappings(slot, regs, command[slot])
       /\ UNCHANGED <<devices, config_reg, command, irqvars, capvars>>

(* i440fx_write_addr *)
WriteAddr(slot, reg) ==
    /\ config_reg' = [slot |-> slot, reg |-> reg]
    /\ UNCHANGED <<devices, command, bar, regions, irqvars, capvars>>

Selected == config_reg.slot \in Range(devices)

(* i440fx_write_data, pci_data_write, pci_device_config_write: a base      *)
(* address register takes only whole words, the bytes of the identity      *)
(* registers none at all.                                                  *)
WriteBar(size, val, on) ==
    /\ Selected /\ config_reg.reg \in DOMAIN Bars /\ size = 4
    /\ pci_write_bar(config_reg.slot, config_reg.reg, val, on)

WriteCommand(size, cmd) ==
    /\ Selected /\ config_reg.reg = "command"
    /\ command' = [command EXCEPT ![config_reg.slot] = cmd]
    /\ pci_update_mappings(config_reg.slot, bar[config_reg.slot], cmd)
    /\ UNCHANGED <<devices, config_reg, bar, irqvars, capvars>>

(* One device: devices do not share registers, and the bridges have no     *)
(* regions.                                                                *)
PciMapNext ==
    \/ \E w \in Wanted \union {-1} : Len(devices) < 3 /\ Register(w)
    \/ \E s \in Slots \ {0, 1}, r \in DOMAIN Bars \union {"id", "command"} : WriteAddr(s, r)
    \/ \E size \in {1, 4}, v \in BarValues, on \in BOOLEAN : WriteBar(size, v, on)
    \/ \E cmd \in SUBSET {"io", "memory"} : WriteCommand(1, cmd)

-----------------------------------------------------------------------------
(* Interrupts: pin p of a slot drives line bus_map_irq of the bus; the     *)
(* PIRQ register of the line names an input of the controller.             *)
bus_map_irq(slot, pin) == (pin + slot - 1) % 4

\* Mutated form: a device that lowers its pin releases the line for all.
Holders_Cleared(line, slot, on) == IF on THEN irq_state[line] \union {slot} ELSE {}
Holders(line, slot, on) ==
    IF on THEN irq_state[line] \union {slot} ELSE irq_state[line] \ {slot}

Inputs(irq, line, on) ==
    IF on THEN pic_irq_state[irq] \union {line} ELSE pic_irq_state[irq] \ {line}

(* i440fx_set_irq; it drops the top bit, which would switch the route off. *)
i440fx_set_irq(line, on) ==
    pic_irq_state' =
        IF pirq[line] \in PicIrqs
        THEN [pic_irq_state EXCEPT ![pirq[line]] = Inputs(pirq[line], line, on)]
        ELSE pic_irq_state

(* pci_device_set_irq *)
SetIrq(slot, pin, on) ==
    LET line == bus_map_irq(slot, pin)
        now  == Holders(line, slot, on)
    IN /\ slot \in Range(devices) /\ ~IsBus(slot)
       /\ level' = [level EXCEPT ![slot][pin] = on]
       /\ irq_state' = [irq_state EXCEPT ![line] = now]
       /\ i440fx_set_irq(line, now # {})
       /\ UNCHANGED <<devices, mapvars, capvars, pirq, int_line, moved>>

(* The guest writes a PIRQ register of PIIX3. *)
WriteRoute(line, irq) ==
    /\ pirq' = [pirq EXCEPT ![line] = irq]
    /\ moved' = IF irq # pirq[line] /\ irq_state[line] # {} THEN moved \union {line} ELSE moved
    /\ UNCHANGED <<devices, mapvars, capvars, level, irq_state, pic_irq_state, int_line>>

(* i440fx_map_interrupts, called once when there is no BIOS. *)
Routed(slot, irqs) ==
    LET irq == irqs[bus_map_irq(slot, 0)] IN IF irq \in PicIrqs THEN irq ELSE -1
MapInterrupts(irqs) ==
    /\ \A s \in Slots : int_line[s] = -1
    /\ moved = {} /\ irq_state = [l \in Lines |-> {}]
    /\ pirq' = irqs
    /\ int_line' = [s \in Slots |->
          IF s \in Range(devices) /\ ~IsBus(s) THEN Routed(s, irqs) ELSE -1]
    /\ UNCHANGED <<devices, mapvars, capvars, level, irq_state, pic_irq_state, moved>>

PciIrqNext ==
    \/ \E w \in Wanted \union {-1} : Len(devices) < 4 /\ Register(w)
    \/ Len(devices) = 4 /\ \E irqs \in [Lines -> PicIrqs] :
          (\A l \in Lines : l \notin {1, 2} => irqs[l] = Min(PicIrqs)) /\ MapInterrupts(irqs)
    \/ \E s \in Slots, p \in Pins, on \in BOOLEAN : SetIrq(s, p, on)
    \/ \E l \in {1, 2}, r \in Routes : WriteRoute(l, r)

-----------------------------------------------------------------------------
(* pci_add_capability: next_cap_offset is one byte. *)
Wrapped(n) == n % CfgSize

Link == cap_head

(* virtio_add_pci_capability *)
AddCapability(size) ==
    /\ next_cap_offset + size <= CfgSize
    /\ caps' = Append(caps, [offset |-> next_cap_offset, size |-> size])
    /\ cap_bytes' = [i \in 0 .. CfgSize - 1 |->
          IF i \in next_cap_offset .. next_cap_offset + size - 1
          THEN [owner |-> Len(caps) + 1, next |-> Link] ELSE cap_bytes[i]]
    /\ cap_head' = next_cap_offset
    /\ next_cap_offset' = Wrapped(next_cap_offset + size)
    /\ UNCHANGED <<devices, mapvars, irqvars>>

PciCapNext == \E n \in CapSizes : Len(caps) < 4 /\ AddCapability(n)

-----------------------------------------------------------------------------
(* Every slot holds one device, whichever way it was chosen, and what its  *)
(* regions are mapped to is what its registers say now: no sequence of     *)
(* command and address writes leaves a region behind where it was.         *)
MappingFollowsConfig ==
    /\ IsInjective(devices)
    /\ \A s \in Range(devices) \ {0, 1}, b \in DOMAIN Bars :
          LET decoded == Decoded(s, b, bar[s][b], command[s])
          IN /\ regions[s][b].on = decoded
             /\ decoded => regions[s][b].addr = bar[s][b].addr

(* A line that devices share stays high until the last of them lets go,    *)
(* and the input its device reads from its interrupt line register is      *)
(* raised while it holds its first pin, while the line's route is that     *)
(* input and was not changed under a line that was high.                   *)
SharedLinesHold ==
    \A s \in Range(devices) \ {0, 1}, p \in Pins :
        level[s][p] =>
            LET line == bus_map_irq(s, p)
            IN /\ irq_state[line] # {}
               /\ (p = 0 /\ int_line[s] = pirq[line] /\ line \notin moved) =>
                      pic_irq_state[int_line[s]] # {}

(* And none stays high without a device that holds it: an input is held by *)
(* a line only while some pin drives the line, unless its route was changed*)
(* while it was high.                                                      *)
NoStuckInput ==
    \A n \in PicIrqs, line \in Lines :
        line \in pic_irq_state[n] /\ line \notin moved =>
            \E s \in Slots, p \in Pins : bus_map_irq(s, p) = line /\ level[s][p]

(* The inputs of the interrupt controller follow the pins, up and down,    *)
(* although pins share lines and lines share inputs.                       *)
LinesFollowPins == SharedLinesHold /\ NoStuckInput

CapOffset(i) == IF i = 0 THEN 0 ELSE caps[i].offset

(* A guest that follows the list meets every capability once, the last     *)
(* added first: the head and each next pointer name the one added before,  *)
(* every byte of a capability is its own still, and none has touched the   *)
(* header below FirstCap - as long as none is added after one that ends on *)
(* the last byte, where next_cap_offset starts over from zero.             *)
CapabilitiesListed ==
    (\A i \in DOMAIN caps : caps[i].offset >= FirstCap) =>
        /\ cap_head = CapOffset(Len(caps))
        /\ \A i \in DOMAIN caps : \A at \in caps[i].offset .. caps[i].offset + caps[i].size - 1 :
              cap_bytes[at] = [owner |-> i, next |-> CapOffset(i - 1)]
        /\ \A at \in 0 .. FirstCap - 1 : cap_bytes[at].owner = 0

(* A driver that reads the configuration space finds the device: its       *)
(* regions where pci_bar mapped them, its capabilities by their list.      *)
DriverFindsDevice == MappingFollowsConfig /\ CapabilitiesListed
=============================================================================
