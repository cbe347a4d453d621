---------------------------- MODULE MCNetReceive ----------------------------
(* Model values for NetReceive with both threads: four packets, one of them too long,
   for three buffers. *)
EXTENDS NetReceive
=============================================================================
