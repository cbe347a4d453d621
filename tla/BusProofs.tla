----------------------------- MODULE BusProofs ------------------------------
(***************************************************************************)
(* The registers of a device and the PCI bus it is on, for every number of *)
(* queues, every size of the configuration space, and every set of slots,  *)
(* regions, routes and capabilities.                                       *)
(***************************************************************************)
EXTENDS DeviceRegisters, PciBus, NumberLemmas, TLAPS

RegSpec == RegInit /\ [][RegNext \/ ConfigNext]_regvars

(* The size stays one of the devices' and the last access was within it.   *)
ConfigInv == config_space_size \in ConfigSizes /\ ConfigInBounds

(* The unsigned bound of virtio_config_read is exact where the subtraction *)
(* does not wrap around.                                                   *)
LEMMA NoWrap ==
    ASSUME config_space_size \in 3 .. Word - 1, NEW offset \in Nat, NEW size \in 0 .. 2,
           ConfigFits(offset, size)
    PROVE  offset + Bytes(size) - 1 < config_space_size
<1> DEFINE left == config_space_size - (Bytes(size) - 1)
<1>1. Bytes(size) \in 1 .. 4
  BY DEF Bytes
<1>2. left \in 0 .. Word - 1
  BY <1>1, ConfigAssumption
<1> HIDE DEF left
<1>3. left % Word = left
  BY <1>2, ConfigAssumption
<1>4. offset < left
  BY <1>3 DEF ConfigFits, left
<1> QED
  BY <1>1, <1>4, ConfigAssumption DEF left

(* virtio_config_read and virtio_config_write touch bytes of the space.    *)
LEMMA AccessStays ==
    ASSUME ConfigInv, NEW offset \in Nat, NEW size \in 0 .. 2, AccessConfig(offset, size)
    PROVE  ConfigInv'
<1>1. config_space_size' = config_space_size
  BY DEF AccessConfig
<1>2. CASE config_space_size = 0
  BY <1>1, <1>2 DEF ConfigInv, ConfigInBounds
<1>3. CASE config_space_size # 0
  <2>1. config_space_size \in 3 .. Word - 1
    BY <1>3, ConfigAssumption DEF ConfigInv
  <2>2. CASE ~ConfigFits(offset, size)
    BY <1>1, <2>2 DEF AccessConfig, ConfigInv, ConfigInBounds
  <2>3. CASE ConfigFits(offset, size)
    <3>1. offset + Bytes(size) - 1 < config_space_size
      BY <2>1, <2>3, NoWrap
    <3>2. Bytes(size) \in 1 .. 4
      BY DEF Bytes
    <3>3. touched' = offset .. offset + Bytes(size) - 1
      BY <2>3 DEF AccessConfig
    <3> QED
      BY <1>1, <2>1, <3>1, <3>2, <3>3, ConfigAssumption DEF ConfigInv, ConfigInBounds
  <2> QED
    BY <2>2, <2>3
<1> QED
  BY <1>2, <1>3

(* No access to the configuration space leaves it, whatever its offset and *)
(* size, for every device that has one.                                    *)
THEOREM ConfigStaysInBounds == RegSpec => []ConfigInBounds
<1>1. RegInit => ConfigInv
  BY DEF RegInit, ConfigInv, ConfigInBounds
<1>2. ConfigInv /\ [RegNext \/ ConfigNext]_regvars => ConfigInv'
  <2> SUFFICES ASSUME ConfigInv, [RegNext \/ ConfigNext]_regvars PROVE ConfigInv'
    OBVIOUS
  <2>1. CASE RegNext
    <3>1. UNCHANGED <<config_space_size, touched>>
      BY <2>1 DEF RegNext, WriteRegister, InterruptAck, ReadIsr, Raise
    <3> QED
      BY <3>1 DEF ConfigInv, ConfigInBounds
  <2>2. CASE ConfigNext
    <3>1. PICK offset \in 0 .. Word - 4, size \in 0 .. 2 : AccessConfig(offset, size)
      BY <2>2 DEF ConfigNext
    <3>2. offset \in Nat
      BY ConfigAssumption
    <3> QED
      BY <3>1, <3>2, AccessStays
  <2>3. CASE UNCHANGED regvars
    BY <2>3 DEF regvars, ConfigInv, ConfigInBounds
  <2> QED
    BY <2>1, <2>2, <2>3
<1>3. ConfigInv => ConfigInBounds
  BY DEF ConfigInv
<1> QED
  BY <1>1, <1>2, <1>3, PTL DEF RegSpec

(* The line is up exactly while a bit of the interrupt status is set, over *)
(* acknowledgements of any bits, reads of ISR and resets.                  *)
THEOREM LineFollowsStatus == RegSpec => []LineShowsStatus
<1>1. RegInit => LineShowsStatus
  BY DEF RegInit, LineShowsStatus
<1>2. LineShowsStatus /\ [RegNext \/ ConfigNext]_regvars => LineShowsStatus'
  <2> SUFFICES ASSUME LineShowsStatus, [RegNext \/ ConfigNext]_regvars
               PROVE  LineShowsStatus'
    OBVIOUS
  <2>1. ASSUME NEW reg, NEW val, NEW size, WriteRegister(reg, val, size)
        PROVE  LineShowsStatus'
    BY <2>1 DEF WriteRegister, ResetInterrupt, LineShowsStatus
  <2>2. ASSUME NEW val \in SUBSET Bits, InterruptAck(val) PROVE LineShowsStatus'
    <3>1. int_status = {} => int_status \ val = {}
      OBVIOUS
    <3> QED
      BY <2>2, <3>1 DEF InterruptAck, Acked, LineShowsStatus
  <2>3. CASE ReadIsr
    BY <2>3 DEF ReadIsr, LineShowsStatus
  <2>4. ASSUME NEW bit \in Bits, Raise(bit) PROVE LineShowsStatus'
    BY <2>4 DEF Raise, LineShowsStatus
  <2>5. CASE ConfigNext
    BY <2>5 DEF ConfigNext, AccessConfig, LineShowsStatus
  <2>6. CASE UNCHANGED regvars
    BY <2>6 DEF regvars, LineShowsStatus
  <2> QED
    BY <2>1, <2>2, <2>3, <2>4, <2>5, <2>6 DEF RegNext
<1> QED
  BY <1>1, <1>2, PTL DEF RegSpec

(* A write reaches what the driver meant it for, over either transport. *)
LEMMA WritesAsMeant ==
  ASSUME NEW s, NEW reg, NEW val PROVE Write(s, reg, val) = Meant(s, reg, val)
<1>1. CASE reg.name = "RingLow"
  BY <1>1 DEF Write, Meant, set_low32
<1>2. CASE reg.name = "RingHigh"
  BY <1>2 DEF Write, Meant, set_high32
<1>3. CASE reg.name = "Status"
  BY <1>3 DEF Write, Meant
<1>4. CASE reg.name \notin {"RingLow", "RingHigh", "Status"}
  BY <1>4 DEF Meant
<1> QED
  BY <1>1, <1>2, <1>3, <1>4

(* The device holds what the driver wrote, and every register can be read  *)
(* with the size it is written with.                                       *)
WrittenInv == transport \in {"mmio", "pci"} /\ dev = shadow

(* What the driver reads is what it wrote since the reset, for every       *)
(* number of queues and rings and over both transports.                    *)
THEOREM ReadsReturnWrites == RegSpec => []DriverReadsItsWrites
<1>1. RegInit => WrittenInv
  BY DEF RegInit, WrittenInv
<1>2. WrittenInv /\ [RegNext \/ ConfigNext]_regvars => WrittenInv'
  <2> SUFFICES ASSUME WrittenInv, [RegNext \/ ConfigNext]_regvars PROVE WrittenInv'
    OBVIOUS
  <2>1. ASSUME NEW reg, NEW val, NEW size, WriteRegister(reg, val, size) PROVE WrittenInv'
    BY <2>1, WritesAsMeant, Zenon DEF WriteRegister, WrittenInv
  <2>2. ASSUME UNCHANGED <<transport, dev, shadow>> PROVE WrittenInv'
    BY <2>2 DEF WrittenInv
  <2>3. CASE ConfigNext \/ UNCHANGED regvars
    BY <2>2, <2>3 DEF ConfigNext, AccessConfig, regvars
  <2>4. CASE RegNext
    BY <2>1, <2>2, <2>4 DEF RegNext, InterruptAck, ReadIsr, Raise
  <2> QED
    BY <2>3, <2>4
<1>3. WrittenInv => DriverReadsItsWrites
  <2> SUFFICES ASSUME WrittenInv PROVE DriverReadsItsWrites
    OBVIOUS
  <2>1. \A reg : Read(reg) = RegisterValue(reg)
    BY DEF WrittenInv, Read, mmio_read, pci_read, mmio_size
  <2>2. dev = shadow
    BY DEF WrittenInv
  <2> DEFINE q == shadow.queue[shadow.queue_sel]
  <2>3. ASSUME NEW a \in Rings
        PROVE  /\ Read([name |-> "RingLow", ring |-> a]) = q.ring[a].lo
               /\ Read([name |-> "RingHigh", ring |-> a]) = q.ring[a].hi
    BY <2>1, <2>2 DEF RegisterValue
  <2>4. ASSUME NEW n \in Named
        PROVE  Read([name |-> n, ring |-> "none"]) =
                 CASE n = "FeaturesSel" -> shadow.device_features_sel
                   [] n = "QueueSel" -> shadow.queue_sel
                   [] n = "QueueNum" -> q.num
                   [] n = "Ready" -> q.ready
                   [] OTHER -> shadow.status
    <3>1. Read([name |-> n, ring |-> "none"]) = RegisterValue([name |-> n, ring |-> "none"])
      BY <2>1, Zenon
    <3> QED
      BY <2>2, <3>1 DEF RegisterValue, Named
  <2>5. Read([name |-> "Features", ring |-> "none"]) =
          CASE shadow.device_features_sel = 0 -> Features
            [] shadow.device_features_sel = 1 -> 1
            [] OTHER -> 0
    BY <2>1, <2>2 DEF RegisterValue, FeaturesRead
  <2> QED
    BY <2>2, <2>3, <2>4, <2>5, Zenon DEF DriverReadsItsWrites
<1> QED
  BY <1>1, <1>2, <1>3, PTL DEF RegSpec

-----------------------------------------------------------------------------
(* The PCI bus. *)
PciNext == PciMapNext \/ PciIrqNext \/ PciCapNext
PciSpec == PciInit /\ [][PciNext]_pcivars

Regs == [DOMAIN Bars -> [addr : Nat, on : BOOLEAN]]

(* Devices have slots of their own, and every slot's registers and         *)
(* mappings agree, whether a device is there or not.                       *)
PciMapInv ==
    /\ devices \in Seq(Slots) /\ IsInjective(devices)
    /\ config_reg \in [slot : Slots, reg : DOMAIN Bars \cup {"id", "command"}]
    /\ command \in [Slots -> SUBSET {"io", "memory"}]
    /\ bar \in [Slots -> Regs] /\ regions \in [Slots -> Regs]
    /\ \A s \in Slots, b \in DOMAIN Bars :
          /\ Masked(b, bar[s][b].addr) = bar[s][b].addr
          /\ regions[s][b] = Remapped(s, b, bar[s], command[s])

(* A line is held by the slots that drive it, and only by those; a line    *)
(* whose route was left alone while it was high holds the input of its     *)
(* route, and no other, exactly while it is high.                          *)
PciIrqInv ==
    /\ devices \in Seq(Slots)
    /\ level \in [Slots -> [Pins -> BOOLEAN]]
    /\ irq_state \in [Lines -> SUBSET Slots]
    /\ pirq \in [Lines -> Nat]
    /\ pic_irq_state \in [PicIrqs -> SUBSET Lines]
    /\ int_line \in [Slots -> PicIrqs \cup {-1}] /\ moved \subseteq Lines
    /\ \A s \in Slots, p \in Pins : level[s][p] <=> s \in irq_state[bus_map_irq(s, p)]
    /\ \A line \in Lines : \A s \in irq_state[line] : \E p \in Pins : bus_map_irq(s, p) = line
    /\ \A line \in Lines \ moved, n \in PicIrqs :
          line \in pic_irq_state[n] <=> n = pirq[line] /\ irq_state[line] # {}

(* The next capability goes behind all others, until one ends on the last  *)
(* byte.                                                                   *)
CapRecords == [offset : Nat, size : CapSizes]
PciCapInv ==
    /\ caps \in Seq(CapRecords)
    /\ next_cap_offset \in 0 .. CfgSize - 1
    /\ \A i \in DOMAIN caps : caps[i].offset + caps[i].size <= CfgSize
    /\ (\A i \in DOMAIN caps : caps[i].offset >= FirstCap) /\ next_cap_offset # 0 =>
          /\ next_cap_offset >= FirstCap
          /\ \A i \in DOMAIN caps : caps[i].offset + caps[i].size <= next_cap_offset
    /\ cap_head = CapOffset(Len(caps))
    /\ (\A i \in DOMAIN caps : caps[i].offset >= FirstCap) =>
          /\ \A i \in DOMAIN caps : \A at \in caps[i].offset .. caps[i].offset + caps[i].size - 1 :
                cap_bytes[at] = [owner |-> i, next |-> CapOffset(i - 1)]
          /\ \A at \in 0 .. FirstCap - 1 : cap_bytes[at].owner = 0

(* pci_register_device gives a slot that no device has. *)
LEMMA SlotIsFree ==
  ASSUME PciMapInv, NEW want \in Int, Register(want)
  PROVE  devices' \in Seq(Slots) /\ IsInjective(devices')
<1> DEFINE free == Slots \ Range(devices)
           slot == IF want >= 0 THEN want ELSE devfn_alloc(free)
<1>1. free # {} /\ (want >= 0 => want \in free) /\ devices' = Append(devices, slot)
  BY DEF Register
<1>2. free \in SUBSET Nat
  BY PciAssumption
<1>3. devfn_alloc(free) \in free
  BY <1>1, <1>2, LeastMember DEF devfn_alloc, Min
<1>4. slot \in Slots /\ slot \notin Range(devices)
  BY <1>1, <1>3
<1> HIDE DEF slot
<1>5. devices \in Seq(Slots) /\ IsInjective(devices)
  BY DEF PciMapInv
<1>6. \A i \in 1 .. Len(devices) : devices[i] # slot
  BY <1>4, <1>5 DEF Range
<1> QED
  BY <1>1, <1>4, <1>5, <1>6 DEF IsInjective

(* The low bits of a base address are cleared once. *)
LEMMA MaskedTwice ==
  ASSUME NEW b \in DOMAIN Bars, NEW v \in Nat
  PROVE  Masked(b, v) \in Nat /\ Masked(b, Masked(b, v)) = Masked(b, v)
<1> DEFINE n == Bars[b].size
<1>1. n \in Nat \ {0}
  BY PciAssumption
<1> HIDE DEF n
<1>2. PICK r \in 0 .. n - 1, q \in Int : r = v % n /\ v = q * n + r
  <2>1. v \in Int
    OBVIOUS
  <2> QED
    BY <1>1, <2>1, ModWitness, Zenon
<1>3. v - r \in Int /\ v - r = q * n + 0 /\ 0 \in 0 .. n - 1
  BY <1>1, <1>2
<1>4. (v - r) % n = 0
  BY <1>1, <1>3, ModUnique, Zenon
<1>5. q >= 0
  <2>1. 0 > q => 0 * n >= q * n + n
    BY <1>1, MulGap
  <2> QED
    BY <1>1, <1>2, <2>1
<1>6. v - r \in Nat
  BY <1>1, <1>2, <1>5
<1>7. Masked(b, v) = v - r
  BY <1>2 DEF Masked, n
<1>8. Masked(b, v - r) = (v - r) - 0
  BY <1>4 DEF Masked, n
<1> QED
  BY <1>3, <1>6, <1>7, <1>8

(* The map has a place, or none, for each region.                          *)
LEMMA RemappedType ==
  ASSUME NEW s, NEW b \in DOMAIN Bars, NEW regs \in Regs, NEW cmd
  PROVE  Remapped(s, b, regs, cmd) \in [addr : Nat, on : BOOLEAN]
<1>1. regs[b].addr \in Nat
  BY DEF Regs
<1> QED
  BY <1>1, MaskedTwice DEF Remapped

(* bar_set after every write: the mappings follow the registers.           *)
LEMMA UpdateMaps ==
  ASSUME PciMapInv, NEW slot \in Slots, NEW regs \in Regs, NEW cmd \in SUBSET {"io", "memory"},
         \A b \in DOMAIN Bars : Masked(b, regs[b].addr) = regs[b].addr,
         bar' = [bar EXCEPT ![slot] = regs], command' = [command EXCEPT ![slot] = cmd],
         pci_update_mappings(slot, regs, cmd), UNCHANGED <<devices, config_reg>>
  PROVE  PciMapInv'
<1> DEFINE new == [b \in DOMAIN Bars |-> Remapped(slot, b, regs, cmd)]
<1>1. new \in Regs
  BY RemappedType, Zenon DEF Regs
<1>2. regions' = [regions EXCEPT ![slot] = new]
  BY DEF pci_update_mappings
<1>3. \A b \in DOMAIN Bars : new[b] = Remapped(slot, b, regs, cmd)
  OBVIOUS
<1> HIDE DEF new
<1>4. bar' \in [Slots -> Regs] /\ regions' \in [Slots -> Regs]
      /\ command' \in [Slots -> SUBSET {"io", "memory"}]
  BY <1>1, <1>2 DEF PciMapInv
<1>5. ASSUME NEW s \in Slots, NEW b \in DOMAIN Bars
      PROVE  /\ Masked(b, bar'[s][b].addr) = bar'[s][b].addr
             /\ regions'[s][b] = Remapped(s, b, bar'[s], command'[s])
  <2>1. CASE s = slot
    <3>1. bar'[s] = regs /\ command'[s] = cmd /\ regions'[s] = new
      BY <1>2, <2>1 DEF PciMapInv
    <3> QED
      BY <1>3, <2>1, <3>1, Zenon
  <2>2. CASE s # slot
    <3>1. bar'[s] = bar[s] /\ command'[s] = command[s] /\ regions'[s] = regions[s]
      BY <1>2, <2>2 DEF PciMapInv
    <3>2. /\ Masked(b, bar[s][b].addr) = bar[s][b].addr
          /\ regions[s][b] = Remapped(s, b, bar[s], command[s])
      BY DEF PciMapInv
    <3> QED
      BY <3>1, <3>2, Zenon
  <2> QED
    BY <2>1, <2>2
<1>6. devices' \in Seq(Slots) /\ IsInjective(devices')
      /\ config_reg' \in [slot : Slots, reg : DOMAIN Bars \cup {"id", "command"}]
  BY DEF PciMapInv, IsInjective
<1> QED
  BY <1>4, <1>5, <1>6, Zenon DEF PciMapInv, Remapped, Decoded, Masked, IsInjective

(* The map rests where only the devices change.                            *)
LEMMA MapRests ==
  ASSUME PciMapInv, UNCHANGED mapvars, devices' \in Seq(Slots) /\ IsInjective(devices')
  PROVE  PciMapInv'
<1>1. config_reg' = config_reg /\ command' = command /\ bar' = bar /\ regions' = regions
  BY DEF mapvars
<1>2. \A s \in Slots, b \in DOMAIN Bars :
        Remapped(s, b, bar[s], command[s])' = Remapped(s, b, bar[s], command[s])
  BY <1>1, Zenon DEF Remapped, Decoded
<1>3. \A s \in Slots, b \in DOMAIN Bars :
         /\ (Masked(b, bar[s][b].addr) = bar[s][b].addr)'
         /\ (regions[s][b] = Remapped(s, b, bar[s], command[s]))'
  BY <1>1, <1>2, Zenon DEF PciMapInv, Masked
<1> QED
  BY <1>1, <1>3, Zenon DEF PciMapInv

(* Every step of the bus keeps the map.                                    *)
LEMMA PciMapStep ==
  ASSUME PciMapInv, [PciNext]_pcivars PROVE PciMapInv'
<1>1. ASSUME NEW want \in Wanted \cup {-1}, Register(want) PROVE PciMapInv'
  <2>1. want \in Int
    BY PciAssumption
  <2>2. devices' \in Seq(Slots) /\ IsInjective(devices')
    BY <1>1, <2>1, SlotIsFree
  <2>3. UNCHANGED mapvars
    BY <1>1 DEF Register
  <2> QED
    BY <2>2, <2>3, MapRests
<1>2. ASSUME NEW s \in Slots, NEW r \in DOMAIN Bars \cup {"id", "command"}, WriteAddr(s, r)
      PROVE  PciMapInv'
  <2>1. config_reg' \in [slot : Slots, reg : DOMAIN Bars \cup {"id", "command"}]
    BY <1>2 DEF WriteAddr
  <2>2. UNCHANGED <<devices, command, bar, regions>>
    BY <1>2 DEF WriteAddr
  <2> QED
    BY <2>1, <2>2, ZenonT(40) DEF PciMapInv, Remapped, Decoded, Masked, IsInjective
<1>3. ASSUME NEW size, NEW v \in BarValues, NEW on \in BOOLEAN, WriteBar(size, v, on)
      PROVE  PciMapInv'
  <2> DEFINE slot == config_reg.slot
             b == config_reg.reg
             regs == [bar[slot] EXCEPT ![b] = [addr |-> Masked(b, v), on |-> b = RomBar /\ on]]
  <2>1. slot \in Slots /\ b \in DOMAIN Bars
    BY <1>3 DEF WriteBar, PciMapInv
  <2>2. bar' = [bar EXCEPT ![slot] = regs] /\ pci_update_mappings(slot, regs, command[slot])
        /\ UNCHANGED <<devices, config_reg, command>>
    BY <1>3 DEF WriteBar, pci_write_bar
  <2>3. Masked(b, v) \in Nat /\ Masked(b, Masked(b, v)) = Masked(b, v)
    BY <2>1, MaskedTwice, PciAssumption
  <2>4. bar[slot] \in Regs /\ \A d \in DOMAIN Bars : Masked(d, bar[slot][d].addr) = bar[slot][d].addr
    BY <2>1, Zenon DEF PciMapInv
  <2>5. [addr |-> Masked(b, v), on |-> b = RomBar /\ on] \in [addr : Nat, on : BOOLEAN]
    BY <2>3
  <2>6. command[slot] \in SUBSET {"io", "memory"} /\ command' = [command EXCEPT ![slot] = command[slot]]
    BY <2>1, <2>2 DEF PciMapInv
  <2> HIDE DEF slot, b
  <2>7. regs \in Regs
    BY <2>1, <2>4, <2>5 DEF Regs
  <2>8. \A d \in DOMAIN Bars : Masked(d, regs[d].addr) = regs[d].addr
    <3> SUFFICES ASSUME NEW d \in DOMAIN Bars PROVE Masked(d, regs[d].addr) = regs[d].addr
      OBVIOUS
    <3>1. CASE d = b
      BY <2>3, <2>4, <3>1 DEF Regs
    <3>2. CASE d # b
      <4>1. regs[d] = bar[slot][d]
        BY <2>4, <3>2 DEF Regs
      <4> QED
        BY <2>4, <4>1, Zenon
    <3> QED
      BY <3>1, <3>2
  <2> HIDE DEF regs
  <2> QED
    BY <2>1, <2>2, <2>6, <2>7, <2>8, UpdateMaps
<1>4. ASSUME NEW size, NEW cmd \in SUBSET {"io", "memory"}, WriteCommand(size, cmd) PROVE PciMapInv'
  <2> DEFINE slot == config_reg.slot
  <2>1. slot \in Slots
    BY DEF PciMapInv
  <2>2. /\ command' = [command EXCEPT ![slot] = cmd]
        /\ pci_update_mappings(slot, bar[slot], cmd)
        /\ UNCHANGED <<devices, config_reg, bar>>
    BY <1>4 DEF WriteCommand
  <2>3. bar[slot] \in Regs /\ \A d \in DOMAIN Bars : Masked(d, bar[slot][d].addr) = bar[slot][d].addr
    BY <2>1, Zenon DEF PciMapInv
  <2>4. bar' = [bar EXCEPT ![slot] = bar[slot]]
    BY <2>1, <2>2 DEF PciMapInv
  <2> HIDE DEF slot
  <2> QED
    BY <2>1, <2>2, <2>3, <2>4, UpdateMaps
<1>5. ASSUME UNCHANGED <<devices, mapvars>> PROVE PciMapInv'
  <2>1. devices' \in Seq(Slots) /\ IsInjective(devices')
    BY <1>5 DEF PciMapInv, IsInjective
  <2> QED
    BY <1>5, <2>1, MapRests
<1>6. CASE PciMapNext
  BY <1>1, <1>2, <1>3, <1>4, <1>6 DEF PciMapNext
<1>7. CASE PciIrqNext
  <2>1. ASSUME NEW s, NEW p, NEW on, SetIrq(s, p, on) PROVE UNCHANGED <<devices, mapvars>>
    BY <2>1 DEF SetIrq
  <2>2. ASSUME NEW l, NEW r, WriteRoute(l, r) PROVE UNCHANGED <<devices, mapvars>>
    BY <2>2 DEF WriteRoute
  <2>3. ASSUME NEW irqs, MapInterrupts(irqs) PROVE UNCHANGED <<devices, mapvars>>
    BY <2>3 DEF MapInterrupts
  <2> QED
    BY <1>1, <1>5, <1>7, <2>1, <2>2, <2>3, Zenon DEF PciIrqNext
<1>8. CASE PciCapNext
  BY <1>5, <1>8 DEF PciCapNext, AddCapability
<1>9. CASE UNCHANGED pcivars
  BY <1>5, <1>9 DEF pcivars
<1> QED
  BY <1>6, <1>7, <1>8, <1>9 DEF PciNext

(* The bus starts with nothing mapped.                                     *)
LEMMA PciMapStart == PciInit => PciMapInv
<1> SUFFICES ASSUME PciInit PROVE PciMapInv
  OBVIOUS
<1> DEFINE off == [addr |-> 0, on |-> FALSE]
<1>1. /\ devices = <<0, 1>> /\ config_reg = [slot |-> 0, reg |-> "id"]
      /\ command = [s \in Slots |-> {}]
      /\ bar = [s \in Slots |-> [b \in DOMAIN Bars |-> off]]
      /\ regions = [s \in Slots |-> [b \in DOMAIN Bars |-> off]]
  BY DEF PciInit
<1>2. 0 \in Slots /\ 1 \in Slots
  BY PciAssumption
<1>3. devices \in Seq(Slots) /\ IsInjective(devices)
  BY <1>1, <1>2 DEF IsInjective
<1>4. off \in [addr : Nat, on : BOOLEAN]
  OBVIOUS
<1>5. config_reg \in [slot : Slots, reg : DOMAIN Bars \cup {"id", "command"}]
      /\ command \in [Slots -> SUBSET {"io", "memory"}]
  BY <1>1, <1>2
<1>6. bar \in [Slots -> Regs] /\ regions \in [Slots -> Regs]
  BY <1>1, <1>4, Zenon DEF Regs
<1>7. ASSUME NEW s \in Slots, NEW b \in DOMAIN Bars
      PROVE  /\ Masked(b, bar[s][b].addr) = bar[s][b].addr
             /\ regions[s][b] = Remapped(s, b, bar[s], command[s])
  <2>1. bar[s][b] = off /\ regions[s][b] = off /\ command[s] = {}
    BY <1>1
  <2>2. Masked(b, 0) = 0
    <3>1. Bars[b].size \in Nat \ {0}
      BY PciAssumption
    <3>2. 0 \in 0 .. Bars[b].size - 1
      BY <3>1
    <3>3. 0 % Bars[b].size = 0
      BY <3>1, <3>2, ModSmall, Zenon
    <3> QED
      BY <3>3 DEF Masked
  <2> QED
    BY <2>1, <2>2 DEF Remapped, Decoded
<1> QED
  BY <1>3, <1>5, <1>6, <1>7, Zenon DEF PciMapInv

(* Registers of a device and its mappings agree. *)
LEMMA MapInvGives == PciMapInv => MappingFollowsConfig
<1> SUFFICES ASSUME PciMapInv PROVE MappingFollowsConfig
  OBVIOUS
<1>1. Range(devices) \subseteq Slots
  BY DEF PciMapInv, Range
<1>2. ASSUME NEW s \in Slots, NEW b \in DOMAIN Bars
      PROVE  /\ regions[s][b].on = Decoded(s, b, bar[s][b], command[s])
             /\ Decoded(s, b, bar[s][b], command[s]) => regions[s][b].addr = bar[s][b].addr
  <2>1. /\ Masked(b, bar[s][b].addr) = bar[s][b].addr
        /\ regions[s][b] = Remapped(s, b, bar[s], command[s])
    BY DEF PciMapInv
  <2>2. CASE Decoded(s, b, bar[s][b], command[s])
    <3>1. regions[s][b] = [addr |-> Masked(b, bar[s][b].addr), on |-> TRUE]
      BY <2>1, <2>2, Zenon DEF Remapped
    <3>2. regions[s][b].on = TRUE /\ regions[s][b].addr = bar[s][b].addr
      <4>1. PICK x, r : x = Masked(b, bar[s][b].addr) /\ r = regions[s][b]
        BY Zenon
      <4>2. r = [addr |-> x, on |-> TRUE]
        BY <3>1, <4>1, Zenon
      <4>3. r.addr = x /\ r.on = TRUE
        BY <4>2
      <4> QED
        BY <2>1, <4>1, <4>3, Zenon
    <3> QED
      BY <2>2, <3>2, Zenon DEF Decoded
  <2>3. CASE ~Decoded(s, b, bar[s][b], command[s])
    <3>1. regions[s][b] = [addr |-> 0, on |-> FALSE]
      BY <2>1, <2>3, Zenon DEF Remapped
    <3>2. regions[s][b].on = FALSE
      BY <3>1
    <3> QED
      BY <2>3, <3>2, Zenon DEF Decoded
  <2> QED
    BY <2>2, <2>3
<1>3. IsInjective(devices)
  BY DEF PciMapInv
<1> QED
  BY <1>1, <1>2, <1>3, Zenon DEF MappingFollowsConfig

-----------------------------------------------------------------------------
(* The capabilities. *)
LEMMA AddsBehind ==
  ASSUME PciCapInv, NEW size \in CapSizes, AddCapability(size)
  PROVE  PciCapInv'
<1> DEFINE new == [offset |-> next_cap_offset, size |-> size]
<1>1. caps \in Seq(CapRecords) /\ next_cap_offset \in 0 .. CfgSize - 1
  BY DEF PciCapInv
<1>n. PICK n \in Nat : n = Len(caps)
  BY <1>1
<1>2. size \in Nat \ {0} /\ CfgSize \in Nat /\ FirstCap \in 1 .. CfgSize - 1
  BY PciAssumption
<1>3. /\ next_cap_offset + size <= CfgSize
      /\ caps' = Append(caps, new)
      /\ cap_head' = next_cap_offset
      /\ next_cap_offset' = Wrapped(next_cap_offset + size)
  BY DEF AddCapability
<1>0. \A at \in 0 .. CfgSize - 1 : cap_bytes'[at] =
         IF at \in next_cap_offset .. next_cap_offset + size - 1
         THEN [owner |-> n + 1, next |-> cap_head] ELSE cap_bytes[at]
  BY <1>n DEF AddCapability, Link
<1>4. new \in CapRecords /\ new.offset = next_cap_offset /\ new.size = size
  BY <1>1, <1>2 DEF CapRecords
<1> HIDE DEF new
<1>5. /\ caps' \in Seq(CapRecords) /\ Len(caps') = n + 1 /\ n \in Nat
      /\ DOMAIN caps' = 1 .. n + 1 /\ DOMAIN caps = 1 .. n
      /\ caps'[n + 1] = new /\ \A i \in 1 .. n : caps'[i] = caps[i]
  BY <1>1, <1>n, <1>3, <1>4
<1>6. next_cap_offset' = (IF next_cap_offset + size = CfgSize THEN 0 ELSE next_cap_offset + size)
      /\ next_cap_offset' \in 0 .. CfgSize - 1
  <2>1. next_cap_offset + size \in Nat
    BY <1>1, <1>2
  <2>2. CASE next_cap_offset + size = CfgSize
    <3>1. CfgSize % CfgSize = 0
      <4>1. CfgSize \in Nat \ {0} /\ CfgSize \in Int /\ 0 \in 0 .. CfgSize - 1 /\ CfgSize = 1 * CfgSize + 0
        BY <1>2
      <4> QED
        BY <4>1, ModUnique
    <3> QED
      BY <1>2, <1>3, <2>2, <3>1 DEF Wrapped
  <2>3. CASE next_cap_offset + size # CfgSize
    <3>1. CfgSize \in Nat \ {0} /\ next_cap_offset + size \in 0 .. CfgSize - 1
      BY <1>1, <1>2, <1>3, <2>3
    <3>2. (next_cap_offset + size) % CfgSize = next_cap_offset + size
      BY <3>1, ModSmall
    <3> QED
      BY <1>3, <2>3, <3>1, <3>2 DEF Wrapped
  <2> QED
    BY <2>2, <2>3
<1>7. \A i \in DOMAIN caps' : caps'[i].offset + caps'[i].size <= CfgSize
  <2>1. \A i \in 1 .. n : caps[i].offset + caps[i].size <= CfgSize
    BY <1>5, Zenon DEF PciCapInv
  <2>2. \A i \in 1 .. n : caps'[i].offset + caps'[i].size <= CfgSize
    BY <1>5, <2>1, Zenon
  <2>3. caps'[n + 1].offset + caps'[n + 1].size <= CfgSize
    BY <1>3, <1>4, <1>5, Zenon
  <2>4. \A i \in 1 .. n + 1 : i \in 1 .. n \/ i = n + 1
    OBVIOUS
  <2> QED
    BY <1>5, <2>2, <2>3, <2>4, Zenon
<1>8. cap_head' = CapOffset(Len(caps))'
  BY <1>3, <1>4, <1>5 DEF CapOffset
<1>9. ASSUME NEW j \in 0 .. n PROVE CapOffset(j)' = CapOffset(j)
  <2>1. CASE j = 0
    BY <2>1 DEF CapOffset
  <2>2. CASE j # 0
    <3>1. j \in 1 .. n
      BY <2>2, <1>5
    <3>2. caps'[j] = caps[j]
      BY <1>5, <3>1
    <3> QED
      BY <2>2, <3>2, Zenon DEF CapOffset
  <2> QED
    BY <2>1, <2>2
<1>10. ASSUME \A i \in DOMAIN caps' : caps'[i].offset >= FirstCap
       PROVE  /\ next_cap_offset' # 0 =>
                    /\ next_cap_offset' >= FirstCap
                    /\ \A i \in DOMAIN caps' : caps'[i].offset + caps'[i].size <= next_cap_offset'
              /\ \A i \in DOMAIN caps' : \A at \in caps'[i].offset .. caps'[i].offset + caps'[i].size - 1 :
                    cap_bytes'[at] = [owner |-> i, next |-> CapOffset(i - 1)']
              /\ \A at \in 0 .. FirstCap - 1 : cap_bytes'[at].owner = 0
  <2>1. next_cap_offset >= FirstCap /\ \A i \in 1 .. n : caps[i].offset >= FirstCap
    <3>1. caps'[n + 1].offset >= FirstCap /\ \A i \in 1 .. n : caps'[i].offset >= FirstCap
      BY <1>5, <1>10
    <3> QED
      BY <1>4, <1>5, <3>1
  <2>2. /\ \A i \in 1 .. n : caps[i].offset + caps[i].size <= next_cap_offset
        /\ \A i \in 1 .. n : \A at \in caps[i].offset .. caps[i].offset + caps[i].size - 1 :
              cap_bytes[at] = [owner |-> i, next |-> CapOffset(i - 1)]
        /\ \A at \in 0 .. FirstCap - 1 : cap_bytes[at].owner = 0
    <3>1. next_cap_offset # 0 /\ \A i \in DOMAIN caps : caps[i].offset >= FirstCap
      BY <1>1, <1>2, <1>5, <2>1
    <3> QED
      BY <1>5, <3>1, Zenon DEF PciCapInv
  <2>3. \A i \in 1 .. n : caps[i].offset \in Nat /\ caps[i].size \in Nat
    <3>1. \A i \in 1 .. n : caps[i] \in CapRecords
      BY <1>1, <1>n
    <3>2. CapSizes \subseteq Nat
      BY PciAssumption
    <3> QED
      BY <3>1, <3>2 DEF CapRecords
  <2>4. next_cap_offset' # 0 =>
           /\ next_cap_offset' >= FirstCap
           /\ \A i \in DOMAIN caps' : caps'[i].offset + caps'[i].size <= next_cap_offset'
    <3> SUFFICES ASSUME next_cap_offset' # 0
                 PROVE  /\ next_cap_offset' >= FirstCap
                        /\ \A i \in 1 .. n + 1 : caps'[i].offset + caps'[i].size <= next_cap_offset'
      BY <1>5, Zenon
    <3>1. next_cap_offset' = next_cap_offset + size
      BY <1>6
    <3>2. next_cap_offset + size >= FirstCap /\ next_cap_offset <= next_cap_offset + size
      BY <1>1, <1>2, <2>1
    <3>3. ASSUME NEW i \in 1 .. n PROVE caps'[i].offset + caps'[i].size <= next_cap_offset + size
      <4>1. PICK x \in Nat, y \in Nat : x = caps[i].offset /\ y = caps[i].size
        BY <2>3, Zenon
      <4>2. x + y <= next_cap_offset
        BY <2>2, <4>1, Zenon
      <4>3. x + y <= next_cap_offset + size
        BY <1>1, <1>2, <4>2
      <4> QED
        BY <1>5, <4>1, <4>3, Zenon
    <3>4. caps'[n + 1].offset + caps'[n + 1].size = next_cap_offset + size
      BY <1>4, <1>5, Zenon
    <3>5. next_cap_offset + size <= next_cap_offset + size
      BY <1>1, <1>2
    <3>6. \A i \in 1 .. n + 1 : i \in 1 .. n \/ i = n + 1
      OBVIOUS
    <3> QED
      BY <3>1, <3>2, <3>3, <3>4, <3>5, <3>6, Zenon
  <2>5. ASSUME NEW i \in 1 .. n + 1, NEW at \in caps'[i].offset .. caps'[i].offset + caps'[i].size - 1
        PROVE  cap_bytes'[at] = [owner |-> i, next |-> CapOffset(i - 1)']
    <3>1. CASE i = n + 1
      <4>1. at \in next_cap_offset .. next_cap_offset + size - 1 /\ at \in 0 .. CfgSize - 1
        BY <1>1, <1>2, <1>3, <1>4, <1>5, <2>5, <3>1
      <4>2. cap_bytes'[at] = [owner |-> n + 1, next |-> cap_head]
        BY <1>0, <4>1, Zenon
      <4>3. cap_head = CapOffset(n)
        BY <1>n DEF PciCapInv
      <4>4. CapOffset(n)' = CapOffset(n)
        BY <1>9
      <4>5. i - 1 = n
        BY <1>5, <3>1
      <4> QED
        BY <3>1, <4>2, <4>3, <4>4, <4>5, Zenon
    <3>2. CASE i \in 1 .. n
      <4>1. at \in caps[i].offset .. caps[i].offset + caps[i].size - 1
        BY <1>5, <2>5, <3>2
      <4>2. at \in 0 .. CfgSize - 1 /\ at \notin next_cap_offset .. next_cap_offset + size - 1
        <5>1. /\ caps[i].offset \in Nat /\ caps[i].size \in Nat
              /\ caps[i].offset + caps[i].size <= next_cap_offset
          BY <2>2, <2>3, <3>2, Zenon
        <5>2. PICK x \in Nat, y \in Nat : x = caps[i].offset /\ y = caps[i].size
          BY <5>1, Zenon
        <5>3. x + y <= next_cap_offset /\ at \in x .. x + y - 1
          BY <4>1, <5>1, <5>2, Zenon
        <5> QED
          BY <1>1, <1>2, <5>3
      <4>3. cap_bytes'[at] = cap_bytes[at]
        BY <1>0, <4>2, Zenon
      <4>4. cap_bytes[at] = [owner |-> i, next |-> CapOffset(i - 1)]
        BY <2>2, <3>2, <4>1
      <4>5. CapOffset(i - 1)' = CapOffset(i - 1)
        BY <1>5, <1>9, <3>2
      <4> QED
        BY <4>3, <4>4, <4>5, Zenon
    <3>3. i \in 1 .. n \/ i = n + 1
      OBVIOUS
    <3> QED
      BY <3>1, <3>2, <3>3, Zenon
  <2>6. ASSUME NEW at \in 0 .. FirstCap - 1 PROVE cap_bytes'[at].owner = 0
    <3>1. at \in 0 .. CfgSize - 1 /\ at \notin next_cap_offset .. next_cap_offset + size - 1
      BY <1>1, <1>2, <2>1
    <3> QED
      BY <1>0, <2>2, <3>1, Zenon
  <2> QED
    BY <1>5, <2>4, <2>5, <2>6, Zenon
<1> QED
  BY <1>5, <1>6, <1>7, <1>8, <1>10, Zenon DEF PciCapInv

(* Every step keeps the list of capabilities.                              *)
LEMMA PciCapStep ==
  ASSUME PciCapInv, [PciNext]_pcivars PROVE PciCapInv'
<1>1. ASSUME UNCHANGED capvars PROVE PciCapInv'
  BY <1>1, Zenon DEF capvars, PciCapInv, CapOffset
<1>2. CASE PciCapNext
  BY <1>2, AddsBehind DEF PciCapNext
<1>3. CASE PciMapNext \/ PciIrqNext \/ UNCHANGED pcivars
  <2>1. UNCHANGED capvars
    BY <1>3 DEF PciMapNext, PciIrqNext, pcivars, Register, WriteAddr, WriteBar, pci_write_bar,
                WriteCommand, SetIrq, WriteRoute, MapInterrupts
  <2> QED
    BY <1>1, <2>1
<1> QED
  BY <1>2, <1>3 DEF PciNext

(* The list starts empty.                                                  *)
LEMMA PciCapStart == PciInit => PciCapInv
<1> SUFFICES ASSUME PciInit PROVE PciCapInv
  OBVIOUS
<1>1. /\ caps = <<>> /\ next_cap_offset = FirstCap /\ cap_head = 0
      /\ cap_bytes = [i \in 0 .. CfgSize - 1 |-> [owner |-> 0, next |-> 0]]
  BY DEF PciInit
<1>2. CfgSize \in Nat /\ FirstCap \in 1 .. CfgSize - 1
  BY PciAssumption
<1>3. caps \in Seq(CapRecords) /\ DOMAIN caps = {} /\ Len(caps) = 0
  BY <1>1
<1>4. ASSUME NEW at \in 0 .. FirstCap - 1 PROVE cap_bytes[at].owner = 0
  <2>1. at \in 0 .. CfgSize - 1
    BY <1>2
  <2> QED
    BY <1>1, <2>1
<1>5. next_cap_offset \in 0 .. CfgSize - 1 /\ next_cap_offset >= FirstCap
  BY <1>1, <1>2
<1>6. cap_head = CapOffset(Len(caps))
  BY <1>1, <1>3 DEF CapOffset
<1> QED
  BY <1>3, <1>4, <1>5, <1>6, Zenon DEF PciCapInv

(* A driver that reads the configuration space finds the device: its       *)
(* regions are mapped where the registers say after any sequence of writes *)
(* to command and base addresses, every slot has one device, and the list  *)
(* of capabilities leads through all of them, for every set of slots,      *)
(* regions and capability sizes.                                           *)
THEOREM DriverFindsItsDevice == PciSpec => []DriverFindsDevice
<1>1. PciInit => PciMapInv /\ PciCapInv
  BY PciMapStart, PciCapStart
<1>2. PciMapInv /\ PciCapInv /\ [PciNext]_pcivars => (PciMapInv /\ PciCapInv)'
  BY PciMapStep, PciCapStep
<1>3. PciMapInv /\ PciCapInv => DriverFindsDevice
  <2>1. PciCapInv => CapabilitiesListed
    BY Zenon DEF PciCapInv, CapabilitiesListed
  <2> QED
    BY <2>1, MapInvGives DEF DriverFindsDevice
<1> QED
  BY <1>1, <1>2, <1>3, PTL DEF PciSpec

-----------------------------------------------------------------------------
(* The interrupt lines. *)
LEMMA LineOfPin ==
  ASSUME NEW s \in Slots, NEW p \in Pins
  PROVE  bus_map_irq(s, p) \in Lines
<1>1. p + s - 1 \in Int /\ 4 \in Nat \ {0} /\ 4 - 1 = 3
  BY PciAssumption
<1>2. (p + s - 1) % 4 \in 0 .. 4 - 1
  BY <1>1, ModRange
<1> QED
  BY <1>1, <1>2 DEF bus_map_irq, Lines

(* The pins of a device drive different lines. *)
LEMMA PinsApart ==
  ASSUME NEW s \in Slots, NEW p \in Pins, NEW q \in Pins, bus_map_irq(s, p) = bus_map_irq(s, q)
  PROVE  p = q
<1>1. s \in Int /\ p \in 0 .. 3 /\ q \in 0 .. 3
  BY PciAssumption
<1> DEFINE x == p + s - 1
           y == q + s - 1
<1>2. x \in Int /\ y \in Int /\ 4 \in Nat \ {0}
  BY <1>1
<1>3. x % 4 = y % 4
  BY DEF bus_map_irq
<1>4. CASE p <= q
  <2>1. y - x \in 0 .. 4 - 1
    BY <1>1, <1>4
  <2>2. x = y
    BY <1>2, <1>3, <2>1, ModApart
  <2> QED
    BY <1>1, <2>2
<1>5. CASE q <= p
  <2>1. x - y \in 0 .. 4 - 1
    BY <1>1, <1>5
  <2>2. x = y
    BY <1>2, <1>3, <2>1, ModApart
  <2> QED
    BY <1>1, <2>2
<1> QED
  BY <1>1, <1>4, <1>5

(* pci_device_set_irq keeps lines and inputs in step with the pins. *)
LEMMA SetIrqKeeps ==
  ASSUME PciIrqInv, NEW slot \in Slots, NEW pin \in Pins, NEW on \in BOOLEAN, SetIrq(slot, pin, on)
  PROVE  PciIrqInv'
<1> DEFINE L == bus_map_irq(slot, pin)
           now == Holders(L, slot, on)
<1>1. PICK line : line = L /\ line \in Lines
  BY LineOfPin
<1>2. PICK held : held = now
  OBVIOUS
<1>3. /\ level' = [level EXCEPT ![slot][pin] = on]
      /\ irq_state' = [irq_state EXCEPT ![line] = held]
      /\ pic_irq_state' = IF pirq[line] \in PicIrqs
                          THEN [pic_irq_state EXCEPT ![pirq[line]] =
                                   IF held # {} THEN pic_irq_state[pirq[line]] \cup {line}
                                   ELSE pic_irq_state[pirq[line]] \ {line}]
                          ELSE pic_irq_state
      /\ UNCHANGED <<devices, pirq, int_line, moved>>
  BY <1>1, <1>2 DEF SetIrq, i440fx_set_irq, Inputs
<1>4. /\ level \in [Slots -> [Pins -> BOOLEAN]]
      /\ irq_state \in [Lines -> SUBSET Slots]
      /\ pirq \in [Lines -> Nat]
      /\ pic_irq_state \in [PicIrqs -> SUBSET Lines]
  BY DEF PciIrqInv
<1>5. held = IF on THEN irq_state[line] \cup {slot} ELSE irq_state[line] \ {slot}
  BY <1>1, <1>2 DEF Holders
<1>6. held \in SUBSET Slots
  <2>1. irq_state[line] \in SUBSET Slots
    BY <1>1, <1>4
  <2> QED
    BY <1>5, <2>1, Zenon
<1>7. level' \in [Slots -> [Pins -> BOOLEAN]]
  BY <1>3, <1>4
<1>8. irq_state' \in [Lines -> SUBSET Slots] /\ pic_irq_state' \in [PicIrqs -> SUBSET Lines]
  BY <1>1, <1>3, <1>4, <1>6
<1> HIDE DEF L, now
<1>9. ASSUME NEW s \in Slots, NEW p \in Pins
      PROVE  level'[s][p] <=> s \in irq_state'[bus_map_irq(s, p)]
  <2>1. level[s][p] <=> s \in irq_state[bus_map_irq(s, p)]
    BY DEF PciIrqInv
  <2>2. bus_map_irq(s, p) \in Lines
    BY LineOfPin
  <2>3. CASE s = slot /\ p = pin
    <3>1. level'[s][p] = on
      BY <1>3, <1>4, <2>3
    <3>2. irq_state'[bus_map_irq(s, p)] = held
      BY <1>1, <1>3, <1>4, <2>3 DEF L
    <3>3. on <=> s \in held
      BY <1>5, <2>3, Zenon
    <3> QED
      BY <3>1, <3>2, <3>3, Zenon
  <2>4. CASE s = slot /\ p # pin
    <3>1. level'[s][p] = level[s][p]
      BY <1>3, <1>4, <2>4
    <3>2. bus_map_irq(s, p) # line
      BY <1>1, <2>4, PinsApart DEF L
    <3>3. irq_state'[bus_map_irq(s, p)] = irq_state[bus_map_irq(s, p)]
      BY <1>3, <1>4, <2>2, <3>2
    <3> QED
      BY <2>1, <3>1, <3>3, Zenon
  <2>5. CASE s # slot
    <3>1. level'[s][p] = level[s][p]
      BY <1>3, <1>4, <2>5
    <3>2. s \in irq_state'[bus_map_irq(s, p)] <=> s \in irq_state[bus_map_irq(s, p)]
      <4>1. CASE bus_map_irq(s, p) = line
        <5>1. irq_state'[line] = held
          BY <1>1, <1>3, <1>4
        <5>2. s \in held <=> s \in irq_state[line]
          BY <1>5, <2>5, Zenon
        <5> QED
          BY <4>1, <5>1, <5>2, Zenon
      <4>2. CASE bus_map_irq(s, p) # line
        BY <1>3, <1>4, <2>2, <4>2
      <4> QED
        BY <4>1, <4>2
    <3> QED
      BY <2>1, <3>1, <3>2, Zenon
  <2> QED
    BY <2>3, <2>4, <2>5
<1>10. ASSUME NEW l \in Lines, NEW s \in irq_state'[l]
       PROVE  \E p \in Pins : bus_map_irq(s, p) = l
  <2>1. s \in irq_state[l] \/ (l = line /\ s = slot)
    <3>1. CASE l = line
      <4>1. s \in held
        BY <1>1, <1>3, <1>4, <1>10, <3>1
      <4> QED
        BY <1>5, <3>1, <4>1, Zenon
    <3>2. CASE l # line
      BY <1>3, <1>4, <1>10, <3>2
    <3> QED
      BY <3>1, <3>2
  <2> QED
    BY <1>1, <2>1, Zenon DEF PciIrqInv, L
<1>11. ASSUME NEW l \in Lines \ moved, NEW n \in PicIrqs
       PROVE  l \in pic_irq_state'[n] <=> n = pirq[l] /\ irq_state'[l] # {}
  <2>1. l \in pic_irq_state[n] <=> n = pirq[l] /\ irq_state[l] # {}
    BY DEF PciIrqInv
  <2>2. CASE l # line
    <3>1. irq_state'[l] = irq_state[l]
      BY <1>3, <1>4, <2>2
    <3>2. l \in pic_irq_state'[n] <=> l \in pic_irq_state[n]
      BY <1>3, <1>4, <2>2
    <3> QED
      BY <2>1, <3>1, <3>2, Zenon
  <2>3. CASE l = line
    <3>1. irq_state'[l] = held
      BY <1>1, <1>3, <1>4, <2>3
    <3>2. CASE n = pirq[l]
      <4>1. pic_irq_state'[n] = IF held # {} THEN pic_irq_state[n] \cup {line}
                                ELSE pic_irq_state[n] \ {line}
        BY <1>3, <1>4, <2>3, <3>2
      <4> QED
        BY <2>3, <3>1, <3>2, <4>1, Zenon
    <3>3. CASE n # pirq[l]
      <4>1. pic_irq_state'[n] = pic_irq_state[n]
        BY <1>3, <1>4, <2>3, <3>3
      <4> QED
        BY <2>1, <3>3, <4>1, Zenon
    <3> QED
      BY <3>2, <3>3
  <2> QED
    BY <2>2, <2>3
<1>12. /\ devices' \in Seq(Slots) /\ pirq' \in [Lines -> Nat]
       /\ int_line' \in [Slots -> PicIrqs \cup {-1}] /\ moved' \subseteq Lines
  BY <1>3 DEF PciIrqInv
<1>13. pirq' = pirq /\ moved' = moved
  BY <1>3
<1> QED
  BY <1>7, <1>8, <1>9, <1>10, <1>11, <1>12, <1>13, Zenon DEF PciIrqInv, bus_map_irq

(* A route that moves under a line that is high is set apart. *)
LEMMA WriteRouteKeeps ==
  ASSUME PciIrqInv, NEW line \in Lines, NEW to \in Nat, WriteRoute(line, to)
  PROVE  PciIrqInv'
<1>1. /\ pirq' = [pirq EXCEPT ![line] = to]
      /\ moved' = IF to # pirq[line] /\ irq_state[line] # {} THEN moved \cup {line} ELSE moved
      /\ UNCHANGED <<devices, level, irq_state, pic_irq_state, int_line>>
  BY DEF WriteRoute
<1>2. pirq \in [Lines -> Nat] /\ moved \subseteq Lines
  BY DEF PciIrqInv
<1>3. pirq' \in [Lines -> Nat] /\ moved' \subseteq Lines
  BY <1>1, <1>2
<1>4. ASSUME NEW l \in Lines \ moved', NEW n \in PicIrqs
      PROVE  l \in pic_irq_state[n] <=> n = pirq'[l] /\ irq_state[l] # {}
  <2>1. l \in Lines \ moved
    BY <1>1
  <2>2. l \in pic_irq_state[n] <=> n = pirq[l] /\ irq_state[l] # {}
    BY <2>1 DEF PciIrqInv
  <2>3. CASE l # line
    BY <1>1, <1>2, <2>2, <2>3
  <2>4. CASE l = line /\ irq_state[line] = {}
    BY <2>2, <2>4, Zenon
  <2>5. CASE l = line /\ irq_state[line] # {}
    <3>1. to = pirq[line]
      BY <1>1, <1>4, <2>5
    <3>2. pirq'[line] = to
      BY <1>1, <1>2
    <3> QED
      BY <2>2, <2>5, <3>1, <3>2, Zenon
  <2> QED
    BY <2>3, <2>4, <2>5
<1> QED
  BY <1>1, <1>3, <1>4, Zenon DEF PciIrqInv, bus_map_irq

(* i440fx_map_interrupts moves no line that is high.                       *)
LEMMA MapInterruptsKeeps ==
  ASSUME PciIrqInv, NEW irqs \in [Lines -> PicIrqs], MapInterrupts(irqs)
  PROVE  PciIrqInv'
<1>1. /\ moved = {} /\ irq_state = [l \in Lines |-> {}] /\ pirq' = irqs
      /\ int_line' = [s \in Slots |->
            IF s \in Range(devices) /\ ~IsBus(s) THEN Routed(s, irqs) ELSE -1]
      /\ UNCHANGED <<devices, level, irq_state, pic_irq_state, moved>>
  BY DEF MapInterrupts
<1>2. pirq' \in [Lines -> Nat]
  BY <1>1, PciAssumption
<1>3. int_line' \in [Slots -> PicIrqs \cup {-1}]
  BY <1>1 DEF Routed
<1>4. ASSUME NEW l \in Lines, NEW n \in PicIrqs
      PROVE  l \in pic_irq_state[n] <=> n = pirq'[l] /\ irq_state[l] # {}
  <2>1. irq_state[l] = {} /\ l \in Lines \ moved
    BY <1>1
  <2> QED
    BY <2>1 DEF PciIrqInv
<1> QED
  BY <1>1, <1>2, <1>3, <1>4, Zenon DEF PciIrqInv, bus_map_irq

(* Every step keeps lines and inputs in step with the pins.                *)
LEMMA PciIrqStep ==
  ASSUME PciMapInv, PciIrqInv, [PciNext]_pcivars PROVE PciIrqInv'
<1>1. ASSUME NEW want \in Wanted \cup {-1}, Register(want) PROVE PciIrqInv'
  <2>1. want \in Int
    BY PciAssumption
  <2>2. devices' \in Seq(Slots)
    BY <1>1, <2>1, SlotIsFree
  <2>3. UNCHANGED irqvars
    BY <1>1 DEF Register
  <2> QED
    BY <2>2, <2>3, Zenon DEF PciIrqInv, irqvars, bus_map_irq
<1>2. ASSUME UNCHANGED <<devices, irqvars>> PROVE PciIrqInv'
  BY <1>2, Zenon DEF PciIrqInv, irqvars, bus_map_irq
<1>3. CASE PciIrqNext
  <2>1. \A l \in {1, 2}, q \in Routes : WriteRoute(l, q) => PciIrqInv'
    BY WriteRouteKeeps, PciAssumption DEF Lines
  <2>2. \A irqs \in [Lines -> PicIrqs] : MapInterrupts(irqs) => PciIrqInv'
    BY MapInterruptsKeeps, Zenon
  <2>3. \A s \in Slots, p \in Pins, on \in BOOLEAN : SetIrq(s, p, on) => PciIrqInv'
    BY SetIrqKeeps, Zenon
  <2> QED
    BY <1>1, <1>3, <2>1, <2>2, <2>3, Zenon DEF PciIrqNext
<1>4. CASE PciMapNext
  <2>1. ASSUME NEW s, NEW q, WriteAddr(s, q) PROVE UNCHANGED <<devices, irqvars>>
    BY <2>1 DEF WriteAddr
  <2>2. ASSUME NEW z, NEW v, NEW on, WriteBar(z, v, on) PROVE UNCHANGED <<devices, irqvars>>
    BY <2>2 DEF WriteBar, pci_write_bar
  <2>3. ASSUME NEW z, NEW cmd, WriteCommand(z, cmd) PROVE UNCHANGED <<devices, irqvars>>
    BY <2>3 DEF WriteCommand
  <2> QED
    BY <1>1, <1>2, <1>4, <2>1, <2>2, <2>3, Zenon DEF PciMapNext
<1>5. CASE PciCapNext
  BY <1>2, <1>5 DEF PciCapNext, AddCapability
<1>6. CASE UNCHANGED pcivars
  BY <1>2, <1>6 DEF pcivars
<1> QED
  BY <1>3, <1>4, <1>5, <1>6 DEF PciNext

(* All pins start low.                                                     *)
LEMMA PciIrqStart == PciInit => PciIrqInv
<1> SUFFICES ASSUME PciInit PROVE PciIrqInv
  OBVIOUS
<1>1. /\ devices = <<0, 1>>
      /\ level = [s \in Slots |-> [p \in Pins |-> FALSE]]
      /\ irq_state = [l \in Lines |-> {}] /\ pirq = [l \in Lines |-> 0]
      /\ pic_irq_state = [n \in PicIrqs |-> {}]
      /\ int_line = [s \in Slots |-> -1] /\ moved = {}
  BY DEF PciInit
<1>2. 0 \in Slots /\ 1 \in Slots
  BY PciAssumption
<1>3. /\ devices \in Seq(Slots) /\ irq_state \in [Lines -> SUBSET Slots]
      /\ pirq \in [Lines -> Nat] /\ pic_irq_state \in [PicIrqs -> SUBSET Lines]
      /\ int_line \in [Slots -> PicIrqs \cup {-1}] /\ moved \subseteq Lines
  BY <1>1, <1>2
<1>4. level \in [Slots -> [Pins -> BOOLEAN]]
  BY <1>1, Zenon
<1>5. \A l \in Lines : irq_state[l] = {}
  BY <1>1
<1>6. \A n \in PicIrqs : pic_irq_state[n] = {}
  BY <1>1
<1>7. \A s \in Slots, p \in Pins : ~level[s][p]
  BY <1>1, Zenon
<1> QED
  BY <1>3, <1>4, <1>5, <1>6, <1>7, LineOfPin, Zenon DEF PciIrqInv

(* The inputs of the interrupt controller follow the pins of the devices:  *)
(* a line that devices share is high until the last lets go, its input is  *)
(* raised meanwhile, and no input is held by a line that no pin drives,    *)
(* for every set of slots, pins and routes.                                *)
THEOREM InputsFollowPins == PciSpec => []LinesFollowPins
<1>1. PciInit => PciMapInv /\ PciIrqInv
  BY PciMapStart, PciIrqStart
<1>2. PciMapInv /\ PciIrqInv /\ [PciNext]_pcivars => (PciMapInv /\ PciIrqInv)'
  BY PciMapStep, PciIrqStep
<1>3. PciMapInv /\ PciIrqInv => LinesFollowPins
  <2> SUFFICES ASSUME PciIrqInv PROVE LinesFollowPins
    OBVIOUS
  <2>1. SharedLinesHold
    <3>1. Range(devices) \subseteq Slots
      <4>1. devices \in Seq(Slots)
        BY Zenon DEF PciIrqInv
      <4> QED
        BY <4>1 DEF Range
    <3> SUFFICES ASSUME NEW s \in Slots, NEW p \in Pins, level[s][p]
                 PROVE  LET line == bus_map_irq(s, p)
                        IN /\ irq_state[line] # {}
                           /\ (p = 0 /\ int_line[s] = pirq[line] /\ line \notin moved) =>
                                  pic_irq_state[int_line[s]] # {}
      BY <3>1, Zenon DEF SharedLinesHold
    <3>2. PICK line \in Lines : line = bus_map_irq(s, p)
      BY LineOfPin
    <3>3. s \in irq_state[line]
      BY <3>2, Zenon DEF PciIrqInv
    <3>4. ASSUME int_line[s] = pirq[line], line \notin moved PROVE pic_irq_state[int_line[s]] # {}
      <4>0. int_line \in [Slots -> PicIrqs \cup {-1}] /\ pirq \in [Lines -> Nat]
        BY Zenon DEF PciIrqInv
      <4>1. int_line[s] \in PicIrqs \cup {-1} /\ pirq[line] \in Nat
        BY <3>2, <4>0
      <4>2. int_line[s] \in PicIrqs
        BY <3>4, <4>1
      <4> QED
        BY <3>3, <3>4, <4>2, Zenon DEF PciIrqInv
    <3> QED
      BY <3>2, <3>3, <3>4, Zenon
  <2>2. NoStuckInput
    <3> SUFFICES ASSUME NEW n \in PicIrqs, NEW line \in Lines, line \in pic_irq_state[n], line \notin moved
                 PROVE  \E s \in Slots, p \in Pins : bus_map_irq(s, p) = line /\ level[s][p]
      BY Zenon DEF NoStuckInput
    <3>1. irq_state[line] # {} /\ irq_state[line] \subseteq Slots
      BY DEF PciIrqInv
    <3>2. PICK s \in Slots : s \in irq_state[line]
      BY <3>1
    <3>3. PICK p \in Pins : bus_map_irq(s, p) = line
      BY <3>2 DEF PciIrqInv
    <3>4. level[s][p]
      BY <3>2, <3>3, Zenon DEF PciIrqInv
    <3> QED
      BY <3>3, <3>4, Zenon
  <2> QED
    BY <2>1, <2>2 DEF LinesFollowPins
<1> QED
  BY <1>1, <1>2, <1>3, PTL DEF PciSpec
=============================================================================
