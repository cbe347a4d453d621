----------------------------- MODULE Interrupt -----------------------------
(***************************************************************************)
(* The interrupt of one virtio-mmio device: virtio_consume_desc on the     *)
(* device's threads against INTERRUPT_STATUS and INTERRUPT_ACK on the MMIO *)
(* thread (src/virtio.c, src/virtiodevices.cpp, src/fpga.cpp).             *)
(*                                                                         *)
(* int_status is a plain uint32_t that several threads read and write      *)
(* without a lock, so a read-modify-write is a load and a store, and the   *)
(* test that follows the ACK's store sees either the value stored or the   *)
(* one then in memory.  The irq level is written under misc_request_mutex: *)
(* one step.  Only the vring bit is modelled, as a BOOLEAN: the config bit *)
(* is set by functions this program does not call.                         *)
(*                                                                         *)
(* The driver is external.  Its handler reads the status, acknowledges     *)
(* what it read and scans the used rings: always, or (Gated) only if the   *)
(* status it read has the vring bit.  An MMIO access blocks it until the   *)
(* MMIO thread has responded.                                              *)
(***************************************************************************)
EXTENDS Naturals

CONSTANTS
  Threads,  \* the threads that consume descriptors: worker and I/O thread
  Gated,    \* whether the driver scans only if it has seen the vring bit
  MaxUsed   \* bound on the number of descriptors consumed

ASSUME GatedAssumption == Gated \in BOOLEAN
ASSUME MaxUsedAssumption == MaxUsed \in Nat

VARIABLES
  used, seen,   \* used entries published, and those the driver has looked at
  int_status,   \* the vring bit
  irq,          \* the level of the device's interrupt line
  spc, sreg,    \* device threads: place in virtio_consume_desc, loaded value
  apc, areg,    \* MMIO thread: place in INTERRUPT_ACK, value loaded or stored
  dpc, dstatus  \* driver: place in its interrupt handler, status it has read

deviceVars == <<spc, sreg>>
mainVars == <<apc, areg>>
driverVars == <<dpc, dstatus>>
vars == <<used, seen, int_status, irq, deviceVars, mainVars, driverVars>>

Init ==
  /\ used = 0 /\ seen = 0
  /\ int_status = FALSE /\ irq = FALSE
  /\ spc = [t \in Threads |-> "idle"] /\ sreg = [t \in Threads |-> FALSE]
  /\ apc = "idle" /\ areg = FALSE
  /\ dpc = "idle" /\ dstatus = FALSE

-----------------------------------------------------------------------------
(* virtio_consume_desc: the used index is written ...                      *)
ConsumeWriteIdx(t) ==
  /\ spc[t] = "idle" /\ used < MaxUsed
  /\ used' = used + 1
  /\ spc' = [spc EXCEPT ![t] = "load"]
  /\ UNCHANGED <<seen, int_status, irq, sreg, mainVars, driverVars>>

(* ... then int_status |= 1, a load and a store ...                        *)
ConsumeLoadStatus(t) ==
  /\ spc[t] = "load"
  /\ sreg' = [sreg EXCEPT ![t] = int_status]
  /\ spc' = [spc EXCEPT ![t] = "store"]
  /\ UNCHANGED <<used, seen, int_status, irq, mainVars, driverVars>>

ConsumeStoreStatus(t) ==
  /\ spc[t] = "store"
  /\ int_status' = (sreg[t] \/ TRUE)
  /\ spc' = [spc EXCEPT ![t] = "raise"]
  /\ UNCHANGED <<used, seen, irq, sreg, mainVars, driverVars>>

\* Mutated form: the line is raised only when the bit was not yet set.
ConsumeSetIrq_OnlyOnEdge(t) ==
  /\ spc[t] = "raise"
  /\ irq' = (irq \/ ~sreg[t])
  /\ spc' = [spc EXCEPT ![t] = "idle"]
  /\ UNCHANGED <<used, seen, int_status, sreg, mainVars, driverVars>>

(* ... and set_irq(s->irq, 1), which ends in FPGA::irq_set_levels.         *)
ConsumeSetIrq(t) ==
  /\ spc[t] = "raise"
  /\ irq' = TRUE
  /\ spc' = [spc EXCEPT ![t] = "idle"]
  /\ UNCHANGED <<used, seen, int_status, sreg, mainVars, driverVars>>

-----------------------------------------------------------------------------
(* The driver (external): a high line starts its handler.                  *)
DriverEnter ==
  /\ dpc = "idle" /\ irq
  /\ dpc' = "read"
  /\ UNCHANGED <<used, seen, int_status, irq, deviceVars, mainVars, dstatus>>

(* It reads INTERRUPT_STATUS: virtio_mmio_read on the MMIO thread.         *)
MmioReadStatus ==
  /\ dpc = "read"
  /\ dstatus' = int_status
  /\ dpc' = "ack"
  /\ UNCHANGED <<used, seen, int_status, irq, deviceVars, mainVars>>

(* It writes INTERRUPT_ACK: int_status &= ~val, a load and a store.        *)
AckLoadStatus ==
  /\ dpc = "ack" /\ apc = "idle"
  /\ areg' = int_status
  /\ apc' = "store"
  /\ UNCHANGED <<used, seen, int_status, irq, deviceVars, driverVars>>

AckStoreStatus ==
  /\ apc = "store"
  /\ areg' = (areg /\ ~dstatus)
  /\ int_status' = areg'
  /\ apc' = "test"
  /\ UNCHANGED <<used, seen, irq, deviceVars, driverVars>>

(* The test int_status == 0: no bit left, the line is to be lowered; else
   the MMIO thread responds and the driver goes on.                        *)
AckTestStatus ==
  /\ apc = "test"
  /\ \E status \in {areg, int_status} :
       IF status THEN apc' = "idle" /\ dpc' = "scan"
                 ELSE apc' = "lower" /\ UNCHANGED dpc
  /\ UNCHANGED <<used, seen, int_status, irq, deviceVars, areg, dstatus>>

(* set_irq(s->irq, 0), which ends in FPGA::irq_clear_levels; respond.      *)
AckClearIrq ==
  /\ apc = "lower"
  /\ irq' = FALSE
  /\ apc' = "idle" /\ dpc' = "scan"
  /\ UNCHANGED <<used, seen, int_status, deviceVars, areg, dstatus>>

(* The driver scans the used rings and leaves its handler.                 *)
DriverScan ==
  /\ dpc = "scan"
  /\ seen' = IF Gated /\ ~dstatus THEN seen ELSE used
  /\ dpc' = "idle"
  /\ UNCHANGED <<used, int_status, irq, deviceVars, mainVars, dstatus>>

-----------------------------------------------------------------------------
Consume(t) ==
  ConsumeWriteIdx(t) \/ ConsumeLoadStatus(t) \/ ConsumeStoreStatus(t) \/ ConsumeSetIrq(t)
Main == MmioReadStatus \/ AckLoadStatus \/ AckStoreStatus \/ AckTestStatus \/ AckClearIrq
Driver == DriverEnter \/ DriverScan

Next == (\E t \in Threads : Consume(t)) \/ Main \/ Driver

Spec == Init /\ [][Next]_vars

-----------------------------------------------------------------------------
TypeOK ==
  /\ used \in 0..MaxUsed /\ seen \in 0..used
  /\ int_status \in BOOLEAN /\ irq \in BOOLEAN
  /\ spc \in [Threads -> {"idle", "load", "store", "raise"}]
  /\ sreg \in [Threads -> BOOLEAN]
  /\ apc \in {"idle", "store", "test", "lower"} /\ areg \in BOOLEAN
  /\ dpc \in {"idle", "read", "ack", "scan"} /\ dstatus \in BOOLEAN

(* No interrupt is lost: when every device thread has left virtio_consume_desc
   and the driver has left its handler, either the line is high or the driver
   has seen every consumed descriptor.  The line stays right although ACK and
   virtio_consume_desc race on int_status and on the line. *)
NoLostInterrupt ==
  (\A t \in Threads : spc[t] = "idle") /\ dpc = "idle" /\ ~irq => seen = used

=============================================================================
