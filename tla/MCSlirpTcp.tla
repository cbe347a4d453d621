----------------------------- MODULE MCSlirpTcp -----------------------------
(***************************************************************************)
(* Four small connections: data of the guest alone, data of the host alone *)
(* against a window that closes, and both with either.                     *)
(***************************************************************************)
EXTENDS SlirpTcp

MCScenarios ==
  {[opens |-> TRUE, len |-> 4, wins |-> {2}, mss |-> 0, most |-> 0, fails |-> FALSE],
   [opens |-> TRUE, len |-> 0, wins |-> {0, 2}, mss |-> 1, most |-> 2, fails |-> TRUE],
   [opens |-> FALSE, len |-> 1, wins |-> {0, 2}, mss |-> 0, most |-> 1, fails |-> FALSE],
   [opens |-> FALSE, len |-> 1, wins |-> {2}, mss |-> 1, most |-> 2, fails |-> TRUE]}
=============================================================================
