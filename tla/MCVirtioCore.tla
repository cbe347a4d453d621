---------------------------- MODULE MCVirtioCore ----------------------------
(* Model values for VirtioCore: a ring of two entries and up to three requests,
   enough for the indices to wrap and for every part to be busy at once. *)
EXTENDS VirtioCore
=============================================================================
