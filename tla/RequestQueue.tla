---------------------------- MODULE RequestQueue ----------------------------
(***************************************************************************)
(* What a virtqueue promises its driver: requests are taken in the order   *)
(* in which they were submitted, each is completed at most once, and the   *)
(* driver gets them back in the order in which they were completed.        *)
(***************************************************************************)
EXTENDS Naturals, Sequences

CONSTANT Chain  \* descriptor chains, by the index of their first descriptor

VARIABLES
  pending,  \* submitted and not yet processed
  done,     \* completed and not yet reclaimed by the driver
  lost      \* requests the device has skipped: they never come back

vars == <<pending, done, lost>>

Elems(s) == {s[i] : i \in 1..Len(s)}

Init == pending = <<>> /\ done = <<>> /\ lost = {}

Submit(h) ==
  /\ h \notin Elems(pending) \cup Elems(done) \cup lost
  /\ pending' = Append(pending, h)
  /\ UNCHANGED <<done, lost>>

Complete ==
  /\ pending # <<>>
  /\ pending' = Tail(pending)
  /\ done' = Append(done, Head(pending))
  /\ UNCHANGED lost

Skip ==
  /\ pending # <<>>
  /\ pending' = Tail(pending)
  /\ lost' = lost \cup {Head(pending)}
  /\ UNCHANGED done

Reclaim ==
  /\ done # <<>>
  /\ done' = Tail(done)
  /\ UNCHANGED <<pending, lost>>

Next == (\E h \in Chain : Submit(h)) \/ Complete \/ Skip \/ Reclaim

Spec == Init /\ [][Next]_vars
=============================================================================
