---------------------------- MODULE MCInterrupt ----------------------------
(* Model values for Interrupt with a driver that trusts the status bit: the
   worker and the I/O thread consume four descriptors between them. *)
EXTENDS Interrupt
=============================================================================
