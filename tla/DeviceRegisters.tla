--------------------------- MODULE DeviceRegisters ---------------------------
(***************************************************************************)
(* The registers of a virtio device (virtio.c) as the driver sees them,    *)
(* over either transport: virtio_mmio_read and virtio_mmio_write, or       *)
(* virtio_pci_read and virtio_pci_write, with virtio_reset, the            *)
(* configuration space and the interrupt line.                             *)
(*                                                                         *)
(* A register is named; sizes are the log2 of the bytes, as in the code.   *)
(* A ring address is [lo, hi], two words.  The bits of the interrupt       *)
(* status are a set.  Accesses come one at a time: Interrupt has the       *)
(* threads, and PendingNotify has QUEUE_NOTIFY.                            *)
(***************************************************************************)
EXTENDS Integers, FiniteSets

CONSTANTS Rings,       \* which of desc, avail and used the driver sets
          MaxQueue,    \* MAX_QUEUE
          MaxQueueNum, \* MAX_QUEUE_NUM
          Words,       \* values of a word
          Features,    \* device_features
          ConfigSizes, \* config_space_size of the devices
          Word         \* 2^32

(* The devices have no configuration space, or room for more than a half   *)
(* word.                                                                   *)
ASSUME ConfigAssumption == Word \in Nat /\ ConfigSizes \subseteq {0} \cup 3 .. Word - 1

VARIABLES transport,   \* "mmio" or "pci"
          config_space_size,
          dev,         \* status, queue_sel, device_features_sel, queue
          int_status, irq,
          touched,     \* bytes of config_space the last access took
          shadow       \* history: what the driver has written since the
                       \* last reset, by queue

regvars == <<transport, config_space_size, dev, int_status, irq, touched, shadow>>

Queues == 0 .. MaxQueue - 1
Bits == {"used", "config"}

(* virtio_reset. *)
virtio_reset ==
    [status |-> 0, queue_sel |-> 0, device_features_sel |-> 0,
     queue |-> [q \in Queues |->
        [ready |-> 0, num |-> MaxQueueNum,
         ring |-> [a \in Rings |-> [lo |-> 0, hi |-> 0]]]]]

(* virtio_init, for one transport. *)
RegInit ==
    /\ transport \in {"mmio", "pci"} /\ config_space_size \in ConfigSizes
    /\ dev = virtio_reset /\ int_status = {} /\ irq = 0
    /\ touched = {} /\ shadow = virtio_reset

-----------------------------------------------------------------------------
(* What a write does to the registers of s; the sides differ in the name   *)
(* and the size of the access only.                                        *)
\* Mutated form: the other word of the address is cleared.
set_low32_Clears(a, val) == [lo |-> val, hi |-> 0]
set_low32(a, val) == [a EXCEPT !.lo = val]
set_high32(a, val) == [a EXCEPT !.hi = val]

PowerOfTwo(val) == \E k \in 0 .. val : val = 2 ^ k

Write(s, reg, val) ==
    CASE reg.name = "FeaturesSel" -> [s EXCEPT !.device_features_sel = val]
      [] reg.name = "QueueSel" ->
            IF val < MaxQueue THEN [s EXCEPT !.queue_sel = val] ELSE s
      [] reg.name = "QueueNum" ->
            IF PowerOfTwo(val) THEN [s EXCEPT !.queue[s.queue_sel].num = val] ELSE s
      [] reg.name = "RingLow" ->
            [s EXCEPT !.queue[s.queue_sel].ring[reg.ring] = set_low32(@, val)]
      [] reg.name = "RingHigh" ->
            [s EXCEPT !.queue[s.queue_sel].ring[reg.ring] = set_high32(@, val)]
      [] reg.name = "Ready" -> [s EXCEPT !.queue[s.queue_sel].ready = val % 2]
      [] reg.name = "Status" -> IF val = 0 THEN virtio_reset ELSE [s EXCEPT !.status = val]
      [] OTHER -> s

Named == {"FeaturesSel", "QueueSel", "QueueNum", "Ready", "Status"}
Registers == [name : Named, ring : {"none"}] \cup [name : {"RingLow", "RingHigh"}, ring : Rings]

Values(reg) == CASE reg.name = "QueueSel" -> 0 .. MaxQueue
                 [] reg.name = "QueueNum" -> 0 .. MaxQueueNum
                 [] OTHER -> Words

(* The size an access must have: words over MMIO, by register over PCI. *)
mmio_size(reg) == 2
pci_size(reg) ==
    CASE reg.name \in {"Features", "FeaturesSel", "RingLow", "RingHigh"} -> 2
      [] reg.name \in {"QueueSel", "QueueNum", "Ready"} -> 1
      [] OTHER -> 0
Size(reg) == IF transport = "mmio" THEN mmio_size(reg) ELSE pci_size(reg)

(* STATUS zero lowers the line and resets. *)
ResetInterrupt(reg, val) ==
    IF reg.name = "Status" /\ val = 0 THEN irq' = 0 /\ int_status' = {}
    ELSE UNCHANGED <<irq, int_status>>

(* The driver's own account of a write: what it meant to set. *)
Meant(s, reg, val) ==
    CASE reg.name = "RingLow" -> [s EXCEPT !.queue[s.queue_sel].ring[reg.ring].lo = val]
      [] reg.name = "RingHigh" -> [s EXCEPT !.queue[s.queue_sel].ring[reg.ring].hi = val]
      [] reg.name = "Status" /\ val = 0 -> virtio_reset
      [] OTHER -> Write(s, reg, val)

(* A write to a register; one of another size does nothing. *)
WriteRegister(reg, val, size) ==
    /\ IF size = Size(reg)
       THEN /\ dev' = Write(dev, reg, val)
            /\ ResetInterrupt(reg, val)
            /\ shadow' = Meant(shadow, reg, val)
       ELSE UNCHANGED <<dev, irq, int_status, shadow>>
    /\ UNCHANGED <<transport, config_space_size, touched>>

-----------------------------------------------------------------------------
(* The line after the bits that are left. *)
Acked(bits) == irq' = IF bits = {} THEN 0 ELSE irq

(* INTERRUPT_ACK over MMIO ... *)
InterruptAck(val) ==
    /\ transport = "mmio"
    /\ int_status' = int_status \ val /\ Acked(int_status')
    /\ UNCHANGED <<transport, config_space_size, dev, touched, shadow>>

(* ... and the read of ISR over PCI, which clears it. *)
ReadIsr ==
    /\ transport = "pci"
    /\ int_status' = {} /\ irq' = 0
    /\ UNCHANGED <<transport, config_space_size, dev, touched, shadow>>

(* virtio_consume_desc and virtio_config_change_notify. *)
Raise(bit) ==
    /\ int_status' = int_status \cup {bit} /\ irq' = 1
    /\ UNCHANGED <<transport, config_space_size, dev, touched, shadow>>

-----------------------------------------------------------------------------
Bytes(size) == CASE size = 0 -> 1 [] size = 1 -> 2 [] size = 2 -> 4

\* Mutated form: only the first byte of the access is compared.
ConfigFits_First(offset, size) == offset < config_space_size
(* The bound of virtio_config_read and virtio_config_write, on unsigned    *)
(* words.                                                                  *)
ConfigFits(offset, size) == offset < (config_space_size - (Bytes(size) - 1)) % Word

(* An access to the configuration space, a read or a write. *)
AccessConfig(offset, size) ==
    /\ touched' = IF ConfigFits(offset, size) THEN offset .. offset + Bytes(size) - 1 ELSE {}
    /\ UNCHANGED <<transport, config_space_size, dev, int_status, irq, shadow>>

RegNext ==
    \/ \E reg \in Registers, size \in 0 .. 2 : \E val \in Values(reg) :
          WriteRegister(reg, val, size)
    \/ \E val \in SUBSET Bits : InterruptAck(val)
    \/ ReadIsr
    \/ \E bit \in Bits : Raise(bit)

ConfigNext ==
    \E offset \in 0 .. Word - 4, size \in 0 .. 2 : AccessConfig(offset, size)

-----------------------------------------------------------------------------
(* What a read gives. *)
FeaturesRead == CASE dev.device_features_sel = 0 -> Features
                  [] dev.device_features_sel = 1 -> 1
                  [] OTHER -> 0
RegisterValue(reg) ==
    LET q == dev.queue[dev.queue_sel]
    IN CASE reg.name = "Features" -> FeaturesRead
         [] reg.name = "FeaturesSel" -> dev.device_features_sel
         [] reg.name = "QueueSel" -> dev.queue_sel
         [] reg.name = "QueueNum" -> q.num
         [] reg.name = "RingLow" -> q.ring[reg.ring].lo
         [] reg.name = "RingHigh" -> q.ring[reg.ring].hi
         [] reg.name = "Ready" -> q.ready
         [] reg.name = "Status" -> dev.status
         [] OTHER -> 0
mmio_read(reg, size) == IF size = mmio_size(reg) THEN RegisterValue(reg) ELSE 0
pci_read(reg, size) == IF size = pci_size(reg) THEN RegisterValue(reg) ELSE 0
Read(reg) ==
    IF transport = "mmio" THEN mmio_read(reg, 2) ELSE pci_read(reg, pci_size(reg))

(* What the driver reads is what it wrote to this queue since the reset,   *)
(* whichever queue it selected in between and whichever words of the 64-   *)
(* bit addresses it wrote, in any order, over both transports; and the     *)
(* queues it has not selected keep what they were given.                   *)
DriverReadsItsWrites ==
    LET q == shadow.queue[shadow.queue_sel]
    IN /\ \A a \in Rings :
            /\ Read([name |-> "RingLow", ring |-> a]) = q.ring[a].lo
            /\ Read([name |-> "RingHigh", ring |-> a]) = q.ring[a].hi
       /\ \A n \in Named : Read([name |-> n, ring |-> "none"]) =
             CASE n = "FeaturesSel" -> shadow.device_features_sel
               [] n = "QueueSel" -> shadow.queue_sel
               [] n = "QueueNum" -> q.num
               [] n = "Ready" -> q.ready
               [] OTHER -> shadow.status
       /\ Read([name |-> "Features", ring |-> "none"]) =
             (CASE shadow.device_features_sel = 0 -> Features
                [] shadow.device_features_sel = 1 -> 1
                [] OTHER -> 0)
       /\ \A i \in Queues : dev.queue[i] = shadow.queue[i]

(* The interrupt line is up exactly while a bit of the status is set: no   *)
(* acknowledgement, read of ISR or reset leaves one without the other.     *)
LineShowsStatus == irq = IF int_status = {} THEN 0 ELSE 1

(* An access to the configuration space stays within it, whatever its size *)
(* and alignment, for every device that has one: config_space_size - 1 and *)
(* - 3 wrap around for a size of zero.                                     *)
ConfigInBounds == config_space_size # 0 => touched \subseteq 0 .. config_space_size - 1
=============================================================================
