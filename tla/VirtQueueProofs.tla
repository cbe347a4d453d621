-------------------------- MODULE VirtQueueProofs ---------------------------
(***************************************************************************)
(* The rings implement the queue of requests, for every size of the rings  *)
(* and every modulus of the indices that the size divides.                 *)
(*                                                                         *)
(* The invariant counts without a bound: there are naturals whose residues *)
(* are the indices of the rings.  What is between two of them is in the    *)
(* ring, each chain once, so that no more than Num are.                    *)
(*                                                                         *)
(* And the interrupt that tells the driver of them is not lost, for any    *)
(* set of device threads and any number of consumed descriptors, with a    *)
(* driver that scans its rings on every interrupt.                         *)
(***************************************************************************)
EXTENDS VirtQueue, Interrupt, NumberLemmas, TLAPS, FiniteSetTheorems

VqSpec == VqInit /\ [][VqNext]_vqvars

-----------------------------------------------------------------------------
(* The index and the slot of a position.                                   *)
Res(x) == x % IdxMod
At(x) == x % Num

LEMMA Sizes ==
  Num \in Nat \ {0} /\ IdxMod \in Nat \ {0} /\ Num < IdxMod /\ IdxMod % Num = 0
  BY NumAssumption, IdxModAssumption

LEMMA AtChain == ASSUME NEW x \in Int PROVE At(x) \in Chain
  BY ModRange, Sizes DEF At, Chain

LEMMA AtApart ==
  ASSUME NEW x \in Int, NEW y \in Int, At(x) = At(y), y - x < Num, x - y < Num
  PROVE  x = y
<1>1. CASE x <= y
  <2>1. y - x \in 0..Num-1
    BY <1>1, Sizes
  <2> QED
    BY <2>1, ModApart, Sizes, Zenon DEF At
<1>2. CASE y <= x
  <2>1. x - y \in 0..Num-1
    BY <1>2, Sizes
  <2> QED
    BY <2>1, ModApart, Sizes, Zenon DEF At
<1> QED
  BY <1>1, <1>2

LEMMA ResIdx == ASSUME NEW x \in Int PROVE Res(x) \in Idx
  BY ModRange, Sizes DEF Res, Idx

LEMMA ResInc == ASSUME NEW x \in Int PROVE Inc(Res(x)) = Res(x + 1)
<1>1. PICK y \in Int : y = 1
  OBVIOUS
<1>2. ((x % IdxMod) + y) % IdxMod = (x + y) % IdxMod
  BY ModAdd, Sizes, Zenon
<1> QED
  BY <1>1, <1>2 DEF Inc, Res

LEMMA ResApart ==
  ASSUME NEW x \in Int, NEW y \in Int, Res(x) = Res(y), y - x \in 0..Num
  PROVE  x = y
<1>1. y - x \in 0..IdxMod-1
  BY Sizes
<1> QED
  BY <1>1, ModApart, Sizes, Zenon DEF Res

LEMMA ResDistance ==
  ASSUME NEW x \in Int, NEW y \in Int, y - x \in 0..Num
  PROVE  (Res(y) - Res(x)) % IdxMod = y - x
<1>1. y - x \in 0..IdxMod-1
  BY Sizes
<1> QED
  BY <1>1, ModDiff, Sizes, Zenon DEF Res

LEMMA ResSlot ==
  ASSUME NEW x \in Int
  PROVE  Slot(Res(x)) = At(x)
  BY ModMod, Sizes, Zenon DEF Res, Slot, At

LEMMA ResSlotFrom ==
  ASSUME NEW x \in Int, NEW k \in Int
  PROVE  Slot(Res(x) + k) = At(x + k)
<1>1. PICK z \in Int : z = Res(x)
  BY ResIdx DEF Idx
<1>2. z % Num = x % Num
  BY <1>1, ModMod, Sizes, Zenon DEF Res
<1>3. (z + k) % Num = (x + k) % Num
  <2>1. ((z % Num) + k) % Num = (z + k) % Num
    BY ModAdd, Sizes, Zenon
  <2>2. ((x % Num) + k) % Num = (x + k) % Num
    BY ModAdd, Sizes, Zenon
  <2> QED
    BY <1>2, <2>1, <2>2
<1> QED
  BY <1>1, <1>2, <1>3 DEF Slot, At

-----------------------------------------------------------------------------
(* The entries of a ring from position x up to y, as a sequence.           *)
Live(ring, x, y) == [k \in 1..y - x |-> ring[At(x + k - 1)]]
LiveSet(ring, x, y) == {ring[At(k)] : k \in x..y - 1}

LEMMA EntriesLive ==
  ASSUME NEW ring, NEW x \in Int, NEW y \in Int, y - x \in 0..Num
  PROVE  Entries(ring, Res(x), Res(y)) = Live(ring, x, y)
<1>1. (Res(y) - Res(x)) % IdxMod = y - x
  BY ResDistance
<1>2. \A k \in 1..y - x : Slot(Res(x) + k - 1) = At(x + k - 1)
  <2> SUFFICES ASSUME NEW k \in 1..y - x PROVE Slot(Res(x) + k - 1) = At(x + k - 1)
    OBVIOUS
  <2>1. PICK d \in Int : d = k - 1
    OBVIOUS
  <2>2. Slot(Res(x) + d) = At(x + d)
    BY ResSlotFrom
  <2>3. Res(x) + k - 1 = Res(x) + d /\ x + k - 1 = x + d
    BY <2>1, ResIdx DEF Idx
  <2> QED
    BY <2>2, <2>3
<1> QED
  BY <1>1, <1>2 DEF Entries, Live

LEMMA LiveSeq ==
  ASSUME NEW ring \in [Chain -> Chain], NEW x \in Int, NEW y \in Int, x <= y
  PROVE  Live(ring, x, y) \in Seq(Chain) /\ Len(Live(ring, x, y)) = y - x
<1>1. y - x \in Nat
  OBVIOUS
<1>2. \A k \in 1..y - x : ring[At(x + k - 1)] \in Chain
  BY AtChain
<1> QED
  BY <1>1, <1>2 DEF Live

LEMMA LiveElems ==
  ASSUME NEW ring \in [Chain -> Chain], NEW x \in Int, NEW y \in Int, x <= y
  PROVE  Elems(Live(ring, x, y)) = LiveSet(ring, x, y)
<1>1. Elems(Live(ring, x, y)) = {ring[At(x + k - 1)] : k \in 1..y - x}
  BY LiveSeq DEF Elems, Live
<1>2. ASSUME NEW k \in 1..y - x PROVE \E i \in x..y - 1 : At(x + k - 1) = At(i)
  <2>1. x + k - 1 \in x..y - 1
    OBVIOUS
  <2> QED
    BY <2>1
<1>3. ASSUME NEW i \in x..y - 1 PROVE \E k \in 1..y - x : At(x + k - 1) = At(i)
  <2>1. i - x + 1 \in 1..y - x /\ x + (i - x + 1) - 1 = i
    OBVIOUS
  <2> QED
    BY <2>1, Zenon
<1> QED
  BY <1>1, <1>2, <1>3, Zenon DEF LiveSet

LEMMA LiveAppend ==
  ASSUME NEW ring \in [Chain -> Chain], NEW x \in Int, NEW y \in Int, x <= y
  PROVE  Live(ring, x, y + 1) = Append(Live(ring, x, y), ring[At(y)])
<1> DEFINE s == Live(ring, x, y)
           t == Live(ring, x, y + 1)
<1>1. s \in Seq(Chain) /\ Len(s) = y - x /\ t \in Seq(Chain) /\ Len(t) = y - x + 1
  BY LiveSeq
<1>2. ring[At(y)] \in Chain
  BY AtChain
<1>3. \A k \in 1..y - x : t[k] = s[k]
  BY DEF Live
<1>4. t[y - x + 1] = ring[At(y)]
  <2>1. y - x + 1 \in 1..y + 1 - x /\ x + (y - x + 1) - 1 = y
    OBVIOUS
  <2> QED
    BY <2>1 DEF Live
<1> HIDE DEF s, t
<1> QED
  BY <1>1, <1>2, <1>3, <1>4 DEF s, t

LEMMA LiveTail ==
  ASSUME NEW ring \in [Chain -> Chain], NEW x \in Int, NEW y \in Int, x < y
  PROVE  /\ Live(ring, x, y) # <<>> /\ Head(Live(ring, x, y)) = ring[At(x)]
         /\ Tail(Live(ring, x, y)) = Live(ring, x + 1, y)
<1> DEFINE s == Live(ring, x, y)
           t == Live(ring, x + 1, y)
<1>1. s \in Seq(Chain) /\ Len(s) = y - x /\ t \in Seq(Chain) /\ Len(t) = y - x - 1
  BY LiveSeq
<1>2. s[1] = ring[At(x)]
  <2>1. 1 \in 1..y - x /\ x + 1 - 1 = x
    OBVIOUS
  <2> QED
    BY <2>1 DEF Live
<1>3. \A k \in 1..y - x - 1 : t[k] = s[k + 1]
  <2> SUFFICES ASSUME NEW k \in 1..y - x - 1 PROVE t[k] = s[k + 1]
    OBVIOUS
  <2>1. k + 1 \in 1..y - x /\ k \in 1..y - (x + 1) /\ x + (k + 1) - 1 = x + 1 + k - 1
    OBVIOUS
  <2> QED
    BY <2>1 DEF Live
<1> HIDE DEF s, t
<1>4. s # <<>> /\ Head(s) = ring[At(x)]
  BY <1>1, <1>2
<1>5. Tail(s) \in Seq(Chain) /\ Len(Tail(s)) = y - x - 1 /\ \A k \in 1..y - x - 1 : Tail(s)[k] = s[k + 1]
  BY <1>1
<1>6. Tail(s) = t
  BY <1>1, <1>3, <1>5
<1> QED
  BY <1>4, <1>6 DEF s, t

(* A write to a slot that holds none of the entries.                       *)
LEMMA LiveWritten ==
  ASSUME NEW ring \in [Chain -> Chain], NEW x \in Int, NEW y \in Int, y - x < Num,
         NEW new \in [Chain -> Chain], \A c \in Chain \ {At(y)} : new[c] = ring[c]
  PROVE  /\ Live(new, x, y) = Live(ring, x, y) /\ LiveSet(new, x, y) = LiveSet(ring, x, y)
         /\ \A k \in x..y - 1 : new[At(k)] = ring[At(k)]
<1>1. \A k \in x..y - 1 : At(k) # At(y)
  BY AtApart, Sizes
<1>2. \A k \in x..y - 1 : new[At(k)] = ring[At(k)]
  BY <1>1, AtChain
<1>3. \A k \in 1..y - x : x + k - 1 \in x..y - 1
  OBVIOUS
<1>4. Live(new, x, y) = Live(ring, x, y)
  BY <1>2, <1>3 DEF Live
<1>5. LiveSet(new, x, y) = LiveSet(ring, x, y)
  BY <1>2 DEF LiveSet
<1> QED
  BY <1>2, <1>4, <1>5

-----------------------------------------------------------------------------
LEMMA ChainCount == IsFiniteSet(Chain) /\ Cardinality(Chain) = Num
  BY FS_Interval, Sizes DEF Chain

(* Distinct chains, all different from one more: they do not fill a ring.  *)
LEMMA RoomForOne ==
  ASSUME NEW ring \in [Chain -> Chain], NEW x \in Nat, NEW y \in Nat, x <= y, y - x <= Num,
         \A i, j \in x..y - 1 : ring[At(i)] = ring[At(j)] => i = j,
         NEW h \in Chain \ LiveSet(ring, x, y)
  PROVE  y - x < Num
<1> SUFFICES ASSUME y - x = Num PROVE FALSE
  BY Sizes
<1> DEFINE S == x..y - 1
           T == Chain \ {h}
           f == [k \in S |-> ring[At(k)]]
<1>1. IsFiniteSet(S) /\ Cardinality(S) = Num
  <2>1. x \in Int /\ y - 1 \in Int /\ ~(x > y - 1) /\ (y - 1) - x + 1 = Num
    BY Sizes
  <2> QED
    BY <2>1, FS_Interval, Zenon
<1>2. IsFiniteSet(T) /\ Cardinality(T) = Num - 1
  BY ChainCount, FS_RemoveElement
<1>3. f \in [S -> T]
  BY AtChain DEF LiveSet
<1>4. Cardinality(T) < Cardinality(S)
  BY <1>1, <1>2, Sizes
<1> HIDE DEF S, T, f
<1>5. PICK i, j \in S : i # j /\ f[i] = f[j]
  BY <1>1, <1>2, <1>3, <1>4, FS_PigeonHole
<1> QED
  BY <1>5 DEF S, f

-----------------------------------------------------------------------------
(* The position queue_notify looks at next; the entry it has answered or   *)
(* skipped is no longer pending.                                           *)
Effective == IF wpc = "advance" THEN Inc(last_avail_idx) ELSE last_avail_idx

Holding == {"recv", "elem", "index"}

RingTypes ==
  /\ availRing \in [Chain -> Chain] /\ usedRing \in [Chain -> Chain]
  /\ free \subseteq Chain /\ bad \subseteq Chain
  /\ opc \in {"idle", "publish"}
  /\ wpc \in {"idle", "loop", "advance"} \cup Holding

(* The indices are residues of positions no more than a ring apart: l, a   *)
(* and w in the avail ring, r and u in the used ring.                      *)
Counted(l, a, w, r, u) ==
  /\ Effective = Res(l) /\ availIdx = Res(a) /\ lastUsed = Res(r) /\ usedIdx = Res(u)
  /\ l <= a /\ a - l <= Num /\ r <= u /\ u - r <= Num
  /\ wpc # "idle" => wavail = Res(w) /\ l <= w /\ w <= a
  /\ wpc \in Holding => l < w

(* A chain is pending, done or free, and once.  One the device skips is    *)
(* never done or free again.                                               *)
Separate(l, a, r, u) ==
  /\ \A i, j \in l..a - 1 : availRing[At(i)] = availRing[At(j)] => i = j
  /\ \A i, j \in r..u - 1 : usedRing[At(i)] = usedRing[At(j)] => i = j
  /\ LiveSet(availRing, l, a) \cap LiveSet(usedRing, r, u) = {}
  /\ (free \cup LiveSet(usedRing, r, u)) \cap bad = {}
  /\ free \cap (LiveSet(availRing, l, a) \cup LiveSet(usedRing, r, u)) = {}

(* What the driver and the worker have in their hands.                     *)
InHand(l, a, r, u) ==
  /\ opc = "publish" =>
       /\ a - l < Num
       /\ availRing[At(a)] \notin free \cup bad \cup LiveSet(availRing, l, a)
                                   \cup LiveSet(usedRing, r, u)
  /\ wpc \in Holding => wdesc = availRing[At(l)]
  /\ wpc \in {"elem", "index"} => wdesc \notin bad /\ wused = Res(u)
  /\ wpc = "index" => u - r < Num /\ usedRing[At(u)] = wdesc

Body(l, a, w, r, u) ==
  RingTypes /\ Counted(l, a, w, r, u) /\ Separate(l, a, r, u) /\ InHand(l, a, r, u)

RingInv == \E l, a, w, r, u \in Nat : Body(l, a, w, r, u)

(* A step keeps the invariant and is one of the queue of requests, or none *)
(* of its steps.                                                           *)
StepOk == RingInv' /\ (RQ!Next \/ UNCHANGED <<Pending, Done, Lost>>)

LEMMA Mapped ==
  ASSUME NEW l \in Nat, NEW a \in Nat, NEW w \in Nat, NEW r \in Nat, NEW u \in Nat,
         Body(l, a, w, r, u)
  PROVE  /\ Pending = Live(availRing, l, a) /\ Done = Live(usedRing, r, u)
         /\ Lost = bad \ LiveSet(availRing, l, a)
<1>1. a - l \in 0..Num /\ u - r \in 0..Num
  BY Sizes DEF Body, Counted
<1>2. Pending = Live(availRing, l, a)
  BY <1>1, EntriesLive DEF Body, Counted, Effective, Pending
<1>3. Done = Live(usedRing, r, u)
  BY <1>1, EntriesLive DEF Body, Counted, Done
<1> QED
  BY <1>2, <1>3, LiveElems DEF Lost, Body, Counted, RingTypes

LEMMA MappedNext ==
  ASSUME NEW l \in Nat, NEW a \in Nat, NEW w \in Nat, NEW r \in Nat, NEW u \in Nat,
         Body(l, a, w, r, u)'
  PROVE  /\ Pending' = Live(availRing', l, a) /\ Done' = Live(usedRing', r, u)
         /\ Lost' = bad' \ LiveSet(availRing', l, a)
<1>1. a - l \in 0..Num /\ u - r \in 0..Num
  BY Sizes DEF Body, Counted
<1>2. Pending' = Live(availRing', l, a)
  BY <1>1, EntriesLive DEF Body, Counted, Effective, Pending
<1>3. Done' = Live(usedRing', r, u)
  BY <1>1, EntriesLive DEF Body, Counted, Done
<1> QED
  BY <1>2, <1>3, LiveElems DEF Lost, Body, Counted, RingTypes

(* What the indices of the avail ring are, and the worker's entry.         *)
LEMMA AvailFacts ==
  ASSUME NEW l \in Nat, NEW a \in Nat, NEW w \in Nat, NEW r \in Nat, NEW u \in Nat,
         Body(l, a, w, r, u)
  PROVE  /\ Slot(availIdx) = At(a) /\ Inc(availIdx) = Res(a + 1)
         /\ wpc \in Holding => l \in l..a - 1
<1>1. availIdx = Res(a) /\ (wpc \in Holding => l < w /\ w <= a)
  BY DEF Body, Counted, Holding
<1>2. Slot(availIdx) = At(a)
  BY <1>1, ResSlot
<1>3. Inc(availIdx) = Res(a + 1)
  BY <1>1, ResInc
<1>4. wpc \in Holding => l \in l..a - 1
  BY <1>1
<1> QED
  BY <1>2, <1>3, <1>4

LEMMA RingInvInitially == VqInit => RingInv /\ RQ!Init
<1> SUFFICES ASSUME VqInit PROVE RingInv /\ RQ!Init
  OBVIOUS
<1>1. Res(0) = 0 /\ 0 \in Chain
  BY ModSmall, Sizes DEF Res, Chain
<1>2. \A ring : LiveSet(ring, 0, 0) = {} /\ Live(ring, 0, 0) = <<>>
  BY DEF LiveSet, Live
<1>3. RingTypes
  BY <1>1 DEF VqInit, RingTypes
<1>4. Counted(0, 0, 0, 0, 0)
  BY <1>1, Sizes DEF VqInit, Counted, Effective, Holding
<1>5. Separate(0, 0, 0, 0)
  BY <1>2 DEF VqInit, Separate
<1>6. InHand(0, 0, 0, 0)
  BY DEF VqInit, InHand, Holding
<1>7. Body(0, 0, 0, 0, 0)
  BY <1>3, <1>4, <1>5, <1>6 DEF Body
<1>8. Pending = <<>> /\ Done = <<>> /\ Lost = {}
  BY <1>2, <1>7, Mapped DEF VqInit
<1> QED
  BY <1>7, <1>8 DEF RingInv, RQ!Init

-----------------------------------------------------------------------------
(* A step that leaves the positions, the entries between them and the      *)
(* skipped chains as they are is none of the queue of requests.            *)
LEMMA SameQueue ==
  ASSUME NEW l \in Nat, NEW a \in Nat, NEW w \in Nat, NEW r \in Nat, NEW u \in Nat,
         Body(l, a, w, r, u), NEW w2 \in Nat, Body(l, a, w2, r, u)', bad' = bad,
         Live(availRing', l, a) = Live(availRing, l, a),
         LiveSet(availRing', l, a) = LiveSet(availRing, l, a),
         Live(usedRing', r, u) = Live(usedRing, r, u)
  PROVE  StepOk
<1>1. /\ Pending = Live(availRing, l, a) /\ Done = Live(usedRing, r, u)
      /\ Lost = bad \ LiveSet(availRing, l, a)
  BY Mapped
<1>2. /\ Pending' = Live(availRing', l, a) /\ Done' = Live(usedRing', r, u)
      /\ Lost' = bad' \ LiveSet(availRing', l, a)
  BY MappedNext
<1> QED
  BY <1>1, <1>2 DEF StepOk, RingInv

(* The slot the driver writes is free, since the chain it writes is.       *)
LEMMA OfferOk ==
  ASSUME NEW l \in Nat, NEW a \in Nat, NEW w \in Nat, NEW r \in Nat, NEW u \in Nat,
         Body(l, a, w, r, u), NEW h \in Chain, DriverOffer(h)
  PROVE  StepOk
<1> USE DEF Body
<1>0. Slot(availIdx) = At(a) /\ (wpc \in Holding => l \in l..a - 1)
  BY AvailFacts
<1>1. /\ opc = "idle" /\ h \in free /\ opc' = "publish" /\ free' = free \ {h}
      /\ availRing' = [availRing EXCEPT ![At(a)] = h]
      /\ UNCHANGED <<availIdx, bad, usedRing, usedIdx, lastUsed, last_avail_idx,
                     wpc, wavail, wdesc, wused>>
  BY <1>0 DEF DriverOffer, usedVars, queueVars, workerVars
<1>2. a - l < Num
  BY <1>1, RoomForOne, Zenon DEF RingTypes, Counted, Separate
<1>3. availRing \in [Chain -> Chain] /\ l \in Int /\ a \in Int
  BY DEF RingTypes
<1>4. /\ Live(availRing', l, a) = Live(availRing, l, a)
      /\ LiveSet(availRing', l, a) = LiveSet(availRing, l, a)
      /\ \A k \in l..a - 1 : availRing'[At(k)] = availRing[At(k)]
      /\ availRing'[At(a)] = h /\ availRing' \in [Chain -> Chain]
  <2>1. /\ availRing'[At(a)] = h /\ availRing' \in [Chain -> Chain]
        /\ \A c \in Chain \ {At(a)} : availRing'[c] = availRing[c]
    BY <1>1, <1>3, AtChain
  <2> QED
    BY <1>2, <1>3, <2>1, LiveWritten
<1>6. RingTypes'
  BY <1>1, <1>4 DEF RingTypes
<1>7. Counted(l, a, w, r, u)'
  BY <1>1 DEF Counted, Effective
<1>8. Separate(l, a, r, u)'
  <2>1. \A i, j \in l..a - 1 : availRing'[At(i)] = availRing'[At(j)] => i = j
    BY <1>4 DEF Separate
  <2> QED
    BY <1>1, <1>4, <2>1, Zenon DEF Separate
<1>9. InHand(l, a, r, u)'
  <2>1. h \notin (free \ {h}) \cup bad \cup LiveSet(availRing, l, a) \cup LiveSet(usedRing, r, u)
    BY <1>1 DEF Separate
  <2>2. wpc \in Holding => availRing'[At(l)] = availRing[At(l)]
    BY <1>0, <1>4
  <2> QED
    BY <1>1, <1>2, <1>4, <2>1, <2>2 DEF InHand
<1> QED
  BY <1>1, <1>4, <1>6, <1>7, <1>8, <1>9, SameQueue, Zenon

(* Chains are separate after a step that leaves the rings alone if they    *)
(* are so by the rings as they were.                                       *)
LEMMA SeparateNext ==
  ASSUME NEW l \in Nat, NEW a \in Nat, NEW r \in Nat, NEW u \in Nat,
         UNCHANGED <<availRing, usedRing>>,
         \A i, j \in l..a - 1 : availRing[At(i)] = availRing[At(j)] => i = j,
         \A i, j \in r..u - 1 : usedRing[At(i)] = usedRing[At(j)] => i = j,
         LiveSet(availRing, l, a) \cap LiveSet(usedRing, r, u) = {},
         (free' \cup LiveSet(usedRing, r, u)) \cap bad' = {},
         free' \cap (LiveSet(availRing, l, a) \cup LiveSet(usedRing, r, u)) = {}
  PROVE  Separate(l, a, r, u)'
<1>1. availRing' = availRing /\ usedRing' = usedRing
  OBVIOUS
<1>2. /\ LiveSet(availRing, l, a)' = LiveSet(availRing, l, a)
      /\ LiveSet(usedRing, r, u)' = LiveSet(usedRing, r, u)
  BY <1>1, Zenon DEF LiveSet, At
<1>3. /\ \A i, j \in l..a - 1 : availRing'[At(i)] = availRing'[At(j)] => i = j
      /\ \A i, j \in r..u - 1 : usedRing'[At(i)] = usedRing'[At(j)] => i = j
  BY <1>1, Zenon
<1> QED
  BY <1>2, <1>3, Zenon DEF Separate

LEMMA PublishOk ==
  ASSUME NEW l \in Nat, NEW a \in Nat, NEW w \in Nat, NEW r \in Nat, NEW u \in Nat,
         Body(l, a, w, r, u), NEW skipped \in BOOLEAN, DriverPublish(skipped)
  PROVE  StepOk
<1> USE DEF Body
<1> DEFINE h == availRing[At(a)]
<1>0. /\ Slot(availIdx) = At(a) /\ Inc(availIdx) = Res(a + 1)
      /\ wpc \in Holding => l \in l..a - 1
  BY AvailFacts
<1>1. /\ opc = "publish" /\ opc' = "idle" /\ availIdx' = Res(a + 1)
      /\ bad' = IF skipped THEN bad \cup {h} ELSE bad
      /\ UNCHANGED <<availRing, usedRing, usedIdx, free, lastUsed, last_avail_idx,
                     wpc, wavail, wdesc, wused>>
  BY <1>0 DEF DriverPublish, usedVars, queueVars, workerVars
<1>2. /\ a - l < Num /\ h \in Chain
      /\ h \notin free \cup bad \cup LiveSet(availRing, l, a) \cup LiveSet(usedRing, r, u)
  BY <1>1, AtChain DEF InHand, RingTypes
<1>3. l <= a /\ r <= u
  BY DEF Counted
<1>4. LiveSet(availRing, l, a + 1) = LiveSet(availRing, l, a) \cup {h}
  <2>1. l..(a + 1) - 1 = (l..a - 1) \cup {a}
    BY <1>3
  <2> QED
    BY <2>1 DEF LiveSet
<1>5. RingTypes'
  BY <1>1, <1>2 DEF RingTypes
<1>6. Counted(l, a + 1, w, r, u)'
  <2>1. l <= a + 1 /\ (a + 1) - l <= Num /\ (w <= a => w <= a + 1)
    BY <1>2, <1>3, Sizes
  <2>2. Effective' = Effective
    BY <1>1 DEF Effective
  <2> HIDE DEF h
  <2> QED
    BY <1>1, <2>1, <2>2, Zenon DEF Counted
<1>7. Separate(l, a + 1, r, u)'
  <2>1. \A i, j \in l..(a + 1) - 1 : availRing[At(i)] = availRing[At(j)] => i = j
    <3> SUFFICES ASSUME NEW i \in l..(a + 1) - 1, NEW j \in l..(a + 1) - 1,
                        availRing[At(i)] = availRing[At(j)]
                 PROVE  i = j
      OBVIOUS
    <3>1. \A k \in l..a - 1 : availRing[At(k)] # h
      BY <1>2 DEF LiveSet
    <3>2. (i \in l..a - 1 \/ i = a) /\ (j \in l..a - 1 \/ j = a)
      BY <1>3
    <3> QED
      BY <3>1, <3>2 DEF Separate
  <2>2. /\ \A i, j \in r..u - 1 : usedRing[At(i)] = usedRing[At(j)] => i = j
        /\ LiveSet(availRing, l, a) \cap LiveSet(usedRing, r, u) = {}
        /\ (free \cup LiveSet(usedRing, r, u)) \cap bad = {}
        /\ free \cap (LiveSet(availRing, l, a) \cup LiveSet(usedRing, r, u)) = {}
    BY Zenon DEF Separate
  <2>3. PICK avl, usd, bd : /\ avl = LiveSet(availRing, l, a) /\ usd = LiveSet(usedRing, r, u)
                            /\ bd = bad' /\ bd \subseteq bad \cup {h}
    BY <1>1, Zenon
  <2> HIDE DEF h, Body
  <2>4. /\ avl \cap usd = {} /\ (free \cup usd) \cap bad = {} /\ free \cap (avl \cup usd) = {}
        /\ h \notin free /\ h \notin usd
    BY <1>2, <2>2, <2>3, Zenon
  <2>5. /\ (avl \cup {h}) \cap usd = {} /\ (free \cup usd) \cap bd = {}
        /\ free \cap ((avl \cup {h}) \cup usd) = {}
    BY <2>3, <2>4
  <2>6. LiveSet(availRing, l, a + 1) = avl \cup {h} /\ LiveSet(usedRing, r, u) = usd
        /\ free' = free /\ bad' = bd /\ availRing' = availRing /\ usedRing' = usedRing
    BY <1>1, <1>4, <2>3, Zenon
  <2>7. a + 1 \in Nat
    OBVIOUS
  <2>8. /\ LiveSet(availRing, l, a + 1) \cap LiveSet(usedRing, r, u) = {}
        /\ (free' \cup LiveSet(usedRing, r, u)) \cap bad' = {}
        /\ free' \cap (LiveSet(availRing, l, a + 1) \cup LiveSet(usedRing, r, u)) = {}
    BY <2>5, <2>6, Zenon
  <2> QED
    BY <2>1, <2>2, <2>6, <2>7, <2>8, SeparateNext
<1>8. InHand(l, a + 1, r, u)'
  <2>1. wpc \in Holding => wdesc = availRing[At(l)] /\ wdesc \in LiveSet(availRing, l, a)
    BY <1>0 DEF InHand, LiveSet
  <2> QED
    BY <1>1, <1>2, <2>1 DEF InHand, Holding
<1>9. Body(l, a + 1, w, r, u)'
  BY <1>5, <1>6, <1>7, <1>8
<1>10. /\ Pending = Live(availRing, l, a) /\ Done = Live(usedRing, r, u)
       /\ Lost = bad \ LiveSet(availRing, l, a)
  BY Mapped
<1>11. /\ Pending' = Live(availRing, l, a + 1) /\ Done' = Live(usedRing, r, u)
       /\ Lost' = bad' \ LiveSet(availRing, l, a + 1)
  BY <1>1, <1>9, MappedNext
<1>12. Pending' = Append(Pending, h)
  <2>1. Live(availRing, l, a + 1) = Append(Live(availRing, l, a), h)
    <3>1. availRing \in [Chain -> Chain] /\ l \in Int /\ a \in Int
      BY DEF RingTypes
    <3> QED
      BY <1>3, <3>1, LiveAppend, Zenon
  <2> QED
    BY <1>10, <1>11, <2>1
<1>13. Lost' = Lost /\ Done' = Done
  BY <1>1, <1>2, <1>4, <1>10, <1>11
<1>14. h \notin Elems(Pending) \cup Elems(Done) \cup Lost
  BY <1>2, <1>3, <1>10, LiveElems DEF RingTypes
<1>15. RQ!Submit(h)
  BY <1>12, <1>13, <1>14 DEF RQ!Submit, RQ!Elems, Elems
<1> QED
  BY <1>2, <1>9, <1>15 DEF StepOk, RingInv, RQ!Next

LEMMA ReclaimOk ==
  ASSUME NEW l \in Nat, NEW a \in Nat, NEW w \in Nat, NEW r \in Nat, NEW u \in Nat,
         Body(l, a, w, r, u), DriverReclaim
  PROVE  StepOk
<1> USE DEF Body
<1> DEFINE h == usedRing[At(r)]
<1>0. /\ lastUsed = Res(r) /\ usedIdx = Res(u) /\ r <= u /\ u - r \in 0..Num
      /\ Slot(lastUsed) = At(r) /\ Inc(lastUsed) = Res(r + 1)
  BY ResSlot, ResInc, Sizes DEF Counted
<1>1. /\ r # u /\ free' = free \cup {h} /\ lastUsed' = Res(r + 1)
      /\ UNCHANGED <<availRing, availIdx, bad, usedRing, usedIdx, opc, last_avail_idx,
                     wpc, wavail, wdesc, wused>>
  BY <1>0 DEF DriverReclaim, availVars, usedVars, queueVars, workerVars
<1>2. r < u /\ r \in r..u - 1 /\ h \in Chain
  BY <1>0, <1>1, AtChain DEF RingTypes
<1>3. LiveSet(usedRing, r + 1, u) = LiveSet(usedRing, r, u) \ {h}
  <2>1. r..u - 1 = {r} \cup ((r + 1)..u - 1)
    BY <1>2
  <2>2. \A k \in (r + 1)..u - 1 : usedRing[At(k)] # h
    BY <1>2, <2>1 DEF Separate
  <2> QED
    BY <2>1, <2>2 DEF LiveSet
<1>4. h \in LiveSet(usedRing, r, u)
  BY <1>2 DEF LiveSet
<1>5. RingTypes'
  BY <1>1, <1>2 DEF RingTypes
<1>6. Counted(l, a, w, r + 1, u)'
  <2>1. r + 1 <= u /\ u - (r + 1) <= Num
    BY <1>0, <1>2, Sizes
  <2>2. lastUsed' = Res(r + 1) /\ usedIdx' = Res(u) /\ Effective' = Effective
    BY <1>0, <1>1 DEF Effective
  <2> QED
    BY <1>1, <2>1, <2>2 DEF Counted
<1>7. Separate(l, a, r + 1, u)'
  <2>1. \A i, j \in (r + 1)..u - 1 : usedRing[At(i)] = usedRing[At(j)] => i = j
    BY DEF Separate
  <2>2. /\ \A i, j \in l..a - 1 : availRing[At(i)] = availRing[At(j)] => i = j
        /\ LiveSet(availRing, l, a) \cap LiveSet(usedRing, r, u) = {}
        /\ (free \cup LiveSet(usedRing, r, u)) \cap bad = {}
        /\ free \cap (LiveSet(availRing, l, a) \cup LiveSet(usedRing, r, u)) = {}
    BY Zenon DEF Separate
  <2>3. PICK avl, usd : avl = LiveSet(availRing, l, a) /\ usd = LiveSet(usedRing, r, u)
    BY Zenon
  <2> HIDE DEF h, Body
  <2>4. /\ avl \cap usd = {} /\ (free \cup usd) \cap bad = {} /\ free \cap (avl \cup usd) = {}
        /\ h \in usd
    BY <1>4, <2>2, <2>3, Zenon
  <2>5. /\ avl \cap (usd \ {h}) = {} /\ ((free \cup {h}) \cup (usd \ {h})) \cap bad = {}
        /\ (free \cup {h}) \cap (avl \cup (usd \ {h})) = {}
    BY <2>4
  <2>6. LiveSet(availRing, l, a) = avl /\ LiveSet(usedRing, r + 1, u) = usd \ {h}
        /\ free' = free \cup {h} /\ bad' = bad /\ availRing' = availRing /\ usedRing' = usedRing
    BY <1>1, <1>3, <2>3, Zenon
  <2>7. r + 1 \in Nat
    OBVIOUS
  <2>8. /\ LiveSet(availRing, l, a) \cap LiveSet(usedRing, r + 1, u) = {}
        /\ (free' \cup LiveSet(usedRing, r + 1, u)) \cap bad' = {}
        /\ free' \cap (LiveSet(availRing, l, a) \cup LiveSet(usedRing, r + 1, u)) = {}
    BY <2>5, <2>6, Zenon
  <2> QED
    BY <2>1, <2>2, <2>6, <2>7, <2>8, SeparateNext
<1>8. InHand(l, a, r + 1, u)'
  <2>1. opc = "publish" => availRing[At(a)] # h
    BY <1>4 DEF InHand
  <2>2. u - r < Num => u - (r + 1) < Num
    BY Sizes
  <2> QED
    BY <1>1, <1>3, <2>1, <2>2 DEF InHand
<1>9. Body(l, a, w, r + 1, u)'
  BY <1>5, <1>6, <1>7, <1>8
<1>10. /\ Pending = Live(availRing, l, a) /\ Done = Live(usedRing, r, u)
       /\ Lost = bad \ LiveSet(availRing, l, a)
  BY Mapped
<1>11. /\ Pending' = Live(availRing, l, a) /\ Done' = Live(usedRing, r + 1, u)
       /\ Lost' = bad \ LiveSet(availRing, l, a)
  <2>1. r + 1 \in Nat /\ availRing' = availRing /\ usedRing' = usedRing /\ bad' = bad
    BY <1>1
  <2> HIDE DEF Body
  <2> QED
    BY <1>9, <2>1, MappedNext
<1>12. /\ Live(usedRing, r, u) # <<>>
       /\ Tail(Live(usedRing, r, u)) = Live(usedRing, r + 1, u)
  <2>1. usedRing \in [Chain -> Chain] /\ r \in Int /\ u \in Int
    BY DEF RingTypes
  <2> QED
    BY <1>2, <2>1, LiveTail, Zenon
<1>13. RQ!Reclaim
  BY <1>10, <1>11, <1>12 DEF RQ!Reclaim
<1> QED
  BY <1>9, <1>13 DEF StepOk, RingInv, RQ!Next

-----------------------------------------------------------------------------
(* The steps that leave both rings and what is skipped alone.              *)
LEMMA QuietOk ==
  ASSUME NEW l \in Nat, NEW a \in Nat, NEW w \in Nat, NEW r \in Nat, NEW u \in Nat,
         Body(l, a, w, r, u),
         \/ DriverNotify \/ WorkerNotified \/ QueueNotifyFetch \/ QueueNotifyReturn
         \/ ConsumeReadIdx \/ QueueNotifyAdvance \/ UNCHANGED vqvars
  PROVE  StepOk
<1> USE DEF Body
<1> SUFFICES ASSUME UNCHANGED <<availRing, availIdx, bad, usedRing, usedIdx, free, opc, lastUsed>>
             PROVE  \E w2 \in Nat : Body(l, a, w2, r, u)'
  <2>1. UNCHANGED <<availRing, availIdx, bad, usedRing, usedIdx, free, opc, lastUsed>>
    BY DEF DriverNotify, DriverKick, WorkerNotified, QueueNotifyReadAvail, QueueNotifyFetch,
           QueueNotifyReturn, ConsumeReadIdx, QueueNotifyAdvance,
           vqvars, availVars, usedVars, ringDriverVars
  <2> QED
    BY <2>1, SameQueue, Zenon
<1>0. Separate(l, a, r, u)' /\ (wpc' \in {"idle", "loop", "advance"} \cup Holding => RingTypes')
  BY DEF Separate, RingTypes
<1>1. CASE DriverNotify \/ UNCHANGED vqvars
  <2>1. UNCHANGED <<last_avail_idx, wpc, wavail, wdesc, wused>>
    BY <1>1 DEF DriverNotify, DriverKick, vqvars, queueVars, workerVars
  <2> QED
    BY <1>0, <2>1 DEF Counted, Effective, InHand, RingTypes
<1>2. CASE WorkerNotified
  <2>1. wpc = "idle" /\ wpc' = "loop" /\ wavail' = availIdx /\ last_avail_idx' = last_avail_idx
    BY <1>2 DEF WorkerNotified, QueueNotifyReadAvail
  <2>2. Counted(l, a, a, r, u)'
    BY <2>1 DEF Counted, Effective, Holding
  <2>3. InHand(l, a, r, u)' /\ RingTypes'
    BY <1>0, <2>1 DEF InHand, Holding
  <2> QED
    BY <1>0, <2>2, <2>3
<1>3. CASE QueueNotifyFetch
  <2>1. /\ wpc = "loop" /\ last_avail_idx # wavail /\ wpc' = "recv"
        /\ wdesc' = availRing[Slot(last_avail_idx)]
        /\ UNCHANGED <<last_avail_idx, wavail>>
    BY <1>3 DEF QueueNotifyFetch, queueVars
  <2>2. last_avail_idx = Res(l) /\ wavail = Res(w) /\ l <= w /\ w <= a
    BY <2>1 DEF Counted, Effective
  <2>3. l < w /\ wdesc' = availRing[At(l)]
    BY <2>1, <2>2, ResSlot
  <2>4. Counted(l, a, w, r, u)'
    BY <2>1, <2>2, <2>3 DEF Counted, Effective
  <2>5. InHand(l, a, r, u)' /\ RingTypes'
    BY <1>0, <2>1, <2>3 DEF InHand, Holding
  <2> QED
    BY <1>0, <2>4, <2>5
<1>4. CASE QueueNotifyReturn
  <2>1. wpc = "loop" /\ wpc' = "idle" /\ last_avail_idx' = last_avail_idx
    BY <1>4 DEF QueueNotifyReturn, queueVars
  <2>2. Counted(l, a, w, r, u)' /\ InHand(l, a, r, u)' /\ RingTypes'
    BY <1>0, <2>1 DEF Counted, Effective, InHand, Holding
  <2> QED
    BY <1>0, <2>2
<1>5. CASE ConsumeReadIdx
  <2>1. /\ wpc = "recv" /\ wpc' = "elem" /\ wdesc \notin bad /\ wused' = usedIdx
        /\ UNCHANGED <<last_avail_idx, wavail, wdesc>>
    BY <1>5 DEF ConsumeReadIdx, queueVars
  <2>2. Counted(l, a, w, r, u)' /\ InHand(l, a, r, u)' /\ RingTypes'
    BY <1>0, <2>1 DEF Counted, Effective, InHand, Holding
  <2> QED
    BY <1>0, <2>2
<1>6. CASE QueueNotifyAdvance
  <2>1. /\ wpc = "advance" /\ wpc' = "loop" /\ last_avail_idx' = Inc(last_avail_idx)
        /\ wavail' = wavail
    BY <1>6 DEF QueueNotifyAdvance
  <2>2. Counted(l, a, w, r, u)' /\ InHand(l, a, r, u)' /\ RingTypes'
    BY <1>0, <2>1 DEF Counted, Effective, InHand, Holding
  <2> QED
    BY <1>0, <2>2
<1> QED
  BY <1>1, <1>2, <1>3, <1>4, <1>5, <1>6

(* virtio_consume_desc writes a slot of the used ring that holds nothing:  *)
(* the chain in its hand is not done.                                      *)
LEMMA WriteElemOk ==
  ASSUME NEW l \in Nat, NEW a \in Nat, NEW w \in Nat, NEW r \in Nat, NEW u \in Nat,
         Body(l, a, w, r, u), ConsumeWriteElem
  PROVE  StepOk
<1> USE DEF Body
<1>0. /\ wpc = "elem" /\ wused = Res(u) /\ Slot(wused) = At(u) /\ wdesc = availRing[At(l)]
      /\ l \in l..a - 1 /\ wdesc \notin bad
  <2>1. wpc = "elem" /\ wpc \in Holding
    BY DEF ConsumeWriteElem, Holding
  <2>2. wused = Res(u) /\ wdesc = availRing[At(l)] /\ wdesc \notin bad
    BY <2>1 DEF InHand
  <2>3. Slot(wused) = At(u)
    BY <2>2, ResSlot
  <2>4. l \in l..a - 1
    BY <2>1, AvailFacts
  <2> QED
    BY <2>1, <2>2, <2>3, <2>4
<1>1. /\ wpc' = "index" /\ usedRing' = [usedRing EXCEPT ![At(u)] = wdesc]
      /\ UNCHANGED <<availRing, availIdx, bad, usedIdx, free, opc, lastUsed, last_avail_idx,
                     wavail, wdesc, wused>>
  BY <1>0, Zenon DEF ConsumeWriteElem, availVars, ringDriverVars, queueVars
<1>2. usedRing \in [Chain -> Chain] /\ r \in Int /\ u \in Int /\ wdesc \in Chain
  BY <1>0, AtChain DEF RingTypes
<1>3. wdesc \notin LiveSet(usedRing, r, u)
  <2>1. wdesc \in LiveSet(availRing, l, a)
    BY <1>0 DEF LiveSet
  <2> QED
    BY <2>1 DEF Separate
<1>4. u - r < Num
  BY <1>2, <1>3, RoomForOne DEF Counted, Separate
<1>5. /\ usedRing'[At(u)] = wdesc /\ usedRing' \in [Chain -> Chain]
      /\ \A c \in Chain \ {At(u)} : usedRing'[c] = usedRing[c]
  BY <1>1, <1>2, AtChain
<1>6. /\ Live(usedRing', r, u) = Live(usedRing, r, u)
      /\ LiveSet(usedRing', r, u) = LiveSet(usedRing, r, u)
      /\ \A k \in r..u - 1 : usedRing'[At(k)] = usedRing[At(k)]
  BY <1>2, <1>4, <1>5, LiveWritten
<1>7. RingTypes'
  BY <1>1, <1>5 DEF RingTypes, Holding
<1>8. Counted(l, a, w, r, u)'
  BY <1>0, <1>1 DEF Counted, Effective, Holding
<1>9. Separate(l, a, r, u)'
  <2>1. \A i, j \in r..u - 1 : usedRing'[At(i)] = usedRing'[At(j)] => i = j
    BY <1>6 DEF Separate
  <2> QED
    BY <1>1, <1>6, <2>1, Zenon DEF Separate
<1>10. InHand(l, a, r, u)'
  BY <1>0, <1>1, <1>4, <1>5, <1>6 DEF InHand
<1> QED
  BY <1>1, <1>6, <1>7, <1>8, <1>9, <1>10, SameQueue, Zenon

(* The entry at l leaves the pending ones.                                 *)
LEMMA PassedEntry ==
  ASSUME NEW l \in Nat, NEW a \in Nat, NEW w \in Nat, NEW r \in Nat, NEW u \in Nat,
         Body(l, a, w, r, u), wpc \in Holding
  PROVE  /\ l < a /\ last_avail_idx = Res(l) /\ Inc(last_avail_idx) = Res(l + 1)
         /\ wdesc = availRing[At(l)] /\ wdesc \in Chain
         /\ LiveSet(availRing, l + 1, a) = LiveSet(availRing, l, a) \ {wdesc}
         /\ wdesc \in LiveSet(availRing, l, a)
         /\ Live(availRing, l, a) # <<>> /\ Head(Live(availRing, l, a)) = wdesc
         /\ Tail(Live(availRing, l, a)) = Live(availRing, l + 1, a)
<1> USE DEF Body
<1>1. l \in l..a - 1 /\ l < a
  BY AvailFacts
<1>2. last_avail_idx = Res(l)
  BY DEF Counted, Effective, Holding
<1>3. Inc(last_avail_idx) = Res(l + 1)
  BY <1>2, ResInc
<1>4. availRing \in [Chain -> Chain] /\ l \in Int /\ a \in Int
  BY DEF RingTypes
<1>5. wdesc = availRing[At(l)] /\ wdesc \in Chain
  BY <1>4, AtChain DEF InHand
<1>6. LiveSet(availRing, l + 1, a) = LiveSet(availRing, l, a) \ {wdesc}
  <2>1. l..a - 1 = {l} \cup ((l + 1)..a - 1)
    BY <1>1
  <2>2. \A k \in (l + 1)..a - 1 : availRing[At(k)] # wdesc
    BY <1>1, <1>5, <2>1 DEF Separate
  <2> QED
    BY <1>5, <2>1, <2>2 DEF LiveSet
<1>7. wdesc \in LiveSet(availRing, l, a)
  BY <1>1, <1>5 DEF LiveSet
<1>8. /\ Live(availRing, l, a) # <<>> /\ Head(Live(availRing, l, a)) = availRing[At(l)]
      /\ Tail(Live(availRing, l, a)) = Live(availRing, l + 1, a)
  BY <1>1, <1>4, LiveTail
<1> QED
  BY <1>1, <1>2, <1>3, <1>5, <1>6, <1>7, <1>8

LEMMA SkipOk ==
  ASSUME NEW l \in Nat, NEW a \in Nat, NEW w \in Nat, NEW r \in Nat, NEW u \in Nat,
         Body(l, a, w, r, u), RecvSkips
  PROVE  StepOk
<1> USE DEF Body
<1>1. /\ wpc = "recv" /\ wpc \in Holding /\ wdesc \in bad /\ wpc' = "advance"
      /\ UNCHANGED <<availRing, availIdx, bad, usedRing, usedIdx, free, opc, lastUsed,
                     last_avail_idx, wavail>>
  BY DEF RecvSkips, Holding, availVars, usedVars, ringDriverVars, queueVars
<1>2. /\ l < a /\ Inc(last_avail_idx) = Res(l + 1)
      /\ LiveSet(availRing, l + 1, a) = LiveSet(availRing, l, a) \ {wdesc}
      /\ wdesc \in LiveSet(availRing, l, a)
      /\ Live(availRing, l, a) # <<>> /\ Head(Live(availRing, l, a)) = wdesc
      /\ Tail(Live(availRing, l, a)) = Live(availRing, l + 1, a)
  BY <1>1, PassedEntry
<1>3. RingTypes'
  BY <1>1 DEF RingTypes
<1>4. Counted(l + 1, a, w, r, u)'
  <2>1. l + 1 <= a /\ a - (l + 1) <= Num /\ l + 1 <= w /\ w <= a /\ wavail = Res(w)
    BY <1>1, <1>2, Sizes DEF Counted
  <2>2. Effective' = Res(l + 1)
    BY <1>1, <1>2 DEF Effective
  <2> QED
    BY <1>1, <2>1, <2>2 DEF Counted, Holding
<1>5. Separate(l + 1, a, r, u)'
  <2>0. (l + 1)..a - 1 \subseteq l..a - 1
    OBVIOUS
  <2>1. \A i, j \in (l + 1)..a - 1 : availRing[At(i)] = availRing[At(j)] => i = j
    BY <2>0, Zenon DEF Separate
  <2> QED
    BY <1>1, <1>2, <2>1 DEF Separate
<1>6. InHand(l + 1, a, r, u)'
  <2>1. a - l < Num => a - (l + 1) < Num
    BY Sizes
  <2> QED
    BY <1>1, <1>2, <2>1 DEF InHand, Holding
<1>7. Body(l + 1, a, w, r, u)'
  BY <1>3, <1>4, <1>5, <1>6
<1>8. /\ Pending = Live(availRing, l, a) /\ Done = Live(usedRing, r, u)
      /\ Lost = bad \ LiveSet(availRing, l, a)
  BY Mapped
<1>9. /\ Pending' = Live(availRing, l + 1, a) /\ Done' = Live(usedRing, r, u)
      /\ Lost' = bad \ LiveSet(availRing, l + 1, a)
  <2>1. l + 1 \in Nat /\ availRing' = availRing /\ usedRing' = usedRing /\ bad' = bad
    BY <1>1
  <2> HIDE DEF Body
  <2> QED
    BY <1>7, <2>1, MappedNext
<1>10. Lost' = Lost \cup {wdesc}
  BY <1>1, <1>2, <1>8, <1>9
<1>11. RQ!Skip
  BY <1>2, <1>8, <1>9, <1>10 DEF RQ!Skip
<1> QED
  BY <1>7, <1>11 DEF StepOk, RingInv, RQ!Next

(* Chains stay apart while the rings, the free chains and the bad ones stay. *)
LEMMA SeparateKept ==
  ASSUME NEW l \in Nat, NEW a \in Nat, NEW r \in Nat, NEW u \in Nat, Separate(l, a, r, u),
         UNCHANGED <<availRing, usedRing, free, bad>>
  PROVE  Separate(l, a, r, u)'
<1>1. /\ LiveSet(availRing, l, a)' = LiveSet(availRing, l, a)
      /\ LiveSet(usedRing, r, u)' = LiveSet(usedRing, r, u)
  BY DEF LiveSet, At
<1>2. /\ \A i, j \in l..a - 1 : availRing'[At(i)] = availRing'[At(j)] => i = j
      /\ \A i, j \in r..u - 1 : usedRing'[At(i)] = usedRing'[At(j)] => i = j
  BY DEF Separate
<1>3. /\ (LiveSet(availRing, l, a) \cap LiveSet(usedRing, r, u) = {})'
      /\ ((free \cup LiveSet(usedRing, r, u)) \cap bad = {})'
      /\ (free \cap (LiveSet(availRing, l, a) \cup LiveSet(usedRing, r, u)) = {})'
  BY <1>1 DEF Separate
<1> QED
  BY <1>2, <1>3 DEF Separate

(* The used index makes the element it was written for done.               *)
LEMMA WriteUsedIdxOk ==
  ASSUME NEW l \in Nat, NEW a \in Nat, NEW w \in Nat, NEW r \in Nat, NEW u \in Nat,
         Body(l, a, w, r, u), ConsumeWriteUsedIdx
  PROVE  StepOk
<1> USE DEF Body
<1>0. /\ wpc = "index" /\ wpc \in Holding /\ wused = Res(u) /\ Inc(wused) = Res(u + 1)
      /\ wdesc \notin bad /\ u - r < Num /\ usedRing[At(u)] = wdesc
  <2>1. wpc = "index"
    BY DEF ConsumeWriteUsedIdx
  <2>2. wused = Res(u) /\ wdesc \notin bad /\ u - r < Num /\ usedRing[At(u)] = wdesc
    BY <2>1, Zenon DEF InHand
  <2> QED
    BY <2>1, <2>2, ResInc DEF Holding
<1>1. /\ wpc' = "advance" /\ usedIdx' = Res(u + 1)
      /\ UNCHANGED <<availRing, availIdx, bad, usedRing, free, opc, lastUsed,
                     last_avail_idx, wavail>>
  BY <1>0, Zenon DEF ConsumeWriteUsedIdx, availVars, ringDriverVars, queueVars
<1>2. /\ l < a /\ Inc(last_avail_idx) = Res(l + 1)
      /\ LiveSet(availRing, l + 1, a) = LiveSet(availRing, l, a) \ {wdesc}
      /\ wdesc \in LiveSet(availRing, l, a)
      /\ Live(availRing, l, a) # <<>> /\ Head(Live(availRing, l, a)) = wdesc
      /\ Tail(Live(availRing, l, a)) = Live(availRing, l + 1, a)
  BY <1>0, PassedEntry, Zenon
<1>3. usedRing \in [Chain -> Chain] /\ r \in Int /\ u \in Int /\ r <= u
  BY DEF RingTypes, Counted
<1>4. LiveSet(usedRing, r, u + 1) = LiveSet(usedRing, r, u) \cup {wdesc}
  <2>1. r..(u + 1) - 1 = (r..u - 1) \cup {u}
    BY <1>3
  <2> QED
    BY <1>0, <2>1 DEF LiveSet
<1>5. wdesc \notin free \cup LiveSet(usedRing, r, u)
  BY <1>2 DEF Separate
<1>6. RingTypes'
  BY <1>1 DEF RingTypes
<1>7. Counted(l + 1, a, w, r, u + 1)'
  <2>0. l < w /\ w <= a /\ a - l <= Num /\ wavail = Res(w)
    BY <1>0 DEF Counted, Holding
  <2>1. l + 1 <= a /\ a - (l + 1) <= Num /\ l + 1 <= w /\ w <= a /\ wavail = Res(w)
    BY <1>2, <2>0, Sizes
  <2>2. r <= u + 1 /\ (u + 1) - r <= Num
    BY <1>0, <1>3, Sizes
  <2>3. Effective' = Res(l + 1)
    BY <1>1, <1>2 DEF Effective
  <2> QED
    BY <1>1, <2>1, <2>2, <2>3 DEF Counted, Holding
<1>8. Separate(l + 1, a, r, u + 1)'
  <2>0. (l + 1)..a - 1 \subseteq l..a - 1
    OBVIOUS
  <2>1. \A i, j \in (l + 1)..a - 1 : availRing[At(i)] = availRing[At(j)] => i = j
    BY <2>0, Zenon DEF Separate
  <2>2. \A i, j \in r..(u + 1) - 1 : usedRing[At(i)] = usedRing[At(j)] => i = j
    <3> SUFFICES ASSUME NEW i \in r..(u + 1) - 1, NEW j \in r..(u + 1) - 1,
                        usedRing[At(i)] = usedRing[At(j)]
                 PROVE  i = j
      OBVIOUS
    <3>1. \A k \in r..u - 1 : usedRing[At(k)] # wdesc
      BY <1>5 DEF LiveSet
    <3>2. (i \in r..u - 1 \/ i = u) /\ (j \in r..u - 1 \/ j = u)
      BY <1>3
    <3> QED
      BY <1>0, <3>1, <3>2 DEF Separate
  <2> QED
    <3> DEFINE avl == LiveSet(availRing, l, a)
               usd == LiveSet(usedRing, r, u)
    <3>1. /\ avl \cap usd = {} /\ (free \cup usd) \cap bad = {}
          /\ free \cap (avl \cup usd) = {}
      BY DEF Separate
    <3>2. wdesc \notin bad /\ wdesc \notin free
      BY <1>0, <1>5
    <3> HIDE DEF avl, usd
    <3>3. /\ (avl \ {wdesc}) \cap (usd \cup {wdesc}) = {}
          /\ (free \cup usd \cup {wdesc}) \cap bad = {}
          /\ free \cap ((avl \ {wdesc}) \cup usd \cup {wdesc}) = {}
      BY <3>1, <3>2, Zenon
    <3>4. /\ LiveSet(availRing, l + 1, a) = avl \ {wdesc}
          /\ LiveSet(usedRing, r, u + 1) = usd \cup {wdesc}
      BY <1>2, <1>4, Zenon DEF avl, usd
    <3>5. Separate(l + 1, a, r, u + 1)
      BY <2>1, <2>2, <3>3, <3>4, Zenon DEF Separate
    <3> QED
      BY <1>1, <3>5, SeparateKept
<1>9. InHand(l + 1, a, r, u + 1)'
  <2>1. a - l < Num => a - (l + 1) < Num
    BY Sizes
  <2>2. opc = "publish" => availRing[At(a)] # wdesc
    BY <1>2 DEF InHand
  <2> QED
    BY <1>1, <1>2, <1>4, <2>1, <2>2 DEF InHand, Holding
<1>10. Body(l + 1, a, w, r, u + 1)'
  BY <1>6, <1>7, <1>8, <1>9
<1>11. /\ Pending = Live(availRing, l, a) /\ Done = Live(usedRing, r, u)
       /\ Lost = bad \ LiveSet(availRing, l, a)
  BY Mapped
<1>12. /\ Pending' = Live(availRing, l + 1, a) /\ Done' = Live(usedRing, r, u + 1)
       /\ Lost' = bad \ LiveSet(availRing, l + 1, a)
  BY <1>1, <1>10, MappedNext
<1>13. Lost' = Lost
  BY <1>0, <1>2, <1>11, <1>12
<1>14. Live(usedRing, r, u + 1) = Append(Live(usedRing, r, u), wdesc)
  BY <1>0, <1>3, LiveAppend, Zenon
<1>15. RQ!Complete
  BY <1>2, <1>11, <1>12, <1>13, <1>14 DEF RQ!Complete
<1> QED
  BY <1>10, <1>15 DEF StepOk, RingInv, RQ!Next

-----------------------------------------------------------------------------
LEMMA StepsOk == ASSUME RingInv, [VqNext]_vqvars PROVE StepOk
<1>1. PICK l, a, w, r, u \in Nat : Body(l, a, w, r, u)
  BY DEF RingInv
<1>2. ASSUME NEW h \in Chain, DriverOffer(h) PROVE StepOk
  BY <1>1, <1>2, OfferOk
<1>3. ASSUME NEW skipped \in BOOLEAN, DriverPublish(skipped) PROVE StepOk
  BY <1>1, <1>3, PublishOk
<1>4. CASE DriverReclaim
  BY <1>1, <1>4, ReclaimOk
<1>5. CASE \/ DriverNotify \/ WorkerNotified \/ QueueNotifyFetch \/ QueueNotifyReturn
           \/ ConsumeReadIdx \/ QueueNotifyAdvance \/ UNCHANGED vqvars
  BY <1>1, <1>5, QuietOk
<1>6. CASE RecvSkips
  BY <1>1, <1>6, SkipOk
<1>7. CASE ConsumeWriteElem
  BY <1>1, <1>7, WriteElemOk
<1>8. CASE ConsumeWriteUsedIdx
  BY <1>1, <1>8, WriteUsedIdxOk
<1> QED
  BY <1>2, <1>3, <1>4, <1>5, <1>6, <1>7, <1>8 DEF VqNext, RingDriver, Worker

(* The rings of virtio.c, with indices that wrap, implement the queue of   *)
(* requests: queue_notify takes the chains in the order the driver         *)
(* published them, virtio_consume_desc completes each at most once, and    *)
(* the driver never meets a used entry that is not written yet.            *)
THEOREM RingsImplementQueue == VqSpec => ImplementsRequestQueue
<1>1. VqInit => RingInv /\ RQ!Init
  BY RingInvInitially
<1>2. RingInv /\ [VqNext]_vqvars => RingInv' /\ [RQ!Next]_(RQ!vars)
  BY StepsOk DEF StepOk, RQ!vars
<1> QED
  BY <1>1, <1>2, PTL DEF VqSpec, ImplementsRequestQueue, RQ!Spec

-----------------------------------------------------------------------------
(* The interrupt. *)

(* The MMIO thread is in INTERRUPT_ACK only while the driver waits for it. *)
AckInv == apc # "idle" => dpc = "ack"

(* An unseen descriptor has somebody who will make the driver look: the line,
   the running handler, or a thread that has yet to raise the line. *)
SignalInv ==
  seen # used =>
    \/ irq
    \/ dpc # "idle"
    \/ \E t \in Threads : spc[t] # "idle"

IInv == TypeOK /\ AckInv /\ SignalInv

LEMMA InitIInv == Init => IInv
<1> SUFFICES ASSUME Init PROVE IInv
  OBVIOUS
<1>1. used \in 0..MaxUsed /\ seen \in 0..used
  BY MaxUsedAssumption DEF Init
<1>2. TypeOK
  BY <1>1 DEF Init, TypeOK
<1> QED BY <1>2 DEF Init, IInv, AckInv, SignalInv

LEMMA NextIInv == ASSUME ~Gated PROVE IInv /\ [Next]_vars => IInv'
<1> SUFFICES ASSUME IInv, [Next]_vars PROVE IInv'
  OBVIOUS
<1> USE MaxUsedAssumption DEF IInv, TypeOK, AckInv, SignalInv
<1>1. ASSUME NEW t \in Threads, ConsumeWriteIdx(t) PROVE IInv'
  <2>1. TypeOK'
    BY <1>1 DEF ConsumeWriteIdx, mainVars, driverVars
  <2>2. AckInv' /\ SignalInv'
    BY <1>1 DEF ConsumeWriteIdx, mainVars, driverVars
  <2> QED
    BY <2>1, <2>2, Zenon DEF IInv
<1>2. ASSUME NEW t \in Threads, ConsumeLoadStatus(t) PROVE IInv'
  BY <1>2 DEF ConsumeLoadStatus, mainVars, driverVars
<1>3. ASSUME NEW t \in Threads, ConsumeStoreStatus(t) PROVE IInv'
  BY <1>3 DEF ConsumeStoreStatus, mainVars, driverVars
<1>4. ASSUME NEW t \in Threads, ConsumeSetIrq(t) PROVE IInv'
  BY <1>4 DEF ConsumeSetIrq, mainVars, driverVars
<1>5. CASE DriverEnter
  BY <1>5 DEF DriverEnter, deviceVars, mainVars
<1>6. CASE MmioReadStatus
  BY <1>6 DEF MmioReadStatus, deviceVars, mainVars
<1>7. CASE AckLoadStatus
  BY <1>7 DEF AckLoadStatus, deviceVars, driverVars
<1>8. CASE AckStoreStatus
  BY <1>8 DEF AckStoreStatus, deviceVars, driverVars
<1>9. CASE AckTestStatus
  BY <1>9 DEF AckTestStatus, deviceVars
<1>10. CASE AckClearIrq
  BY <1>10 DEF AckClearIrq, deviceVars
<1>11. CASE DriverScan
  BY <1>11 DEF DriverScan, deviceVars, mainVars
<1>12. CASE UNCHANGED vars
  BY <1>12 DEF vars, deviceVars, mainVars, driverVars
<1> QED BY <1>1, <1>2, <1>3, <1>4, <1>5, <1>6, <1>7, <1>8, <1>9, <1>10, <1>11, <1>12
        DEF Next, Consume, Main, Driver

-----------------------------------------------------------------------------
(* With a driver that scans its rings on every interrupt, no interleaving of the
   races between virtio_consume_desc and INTERRUPT_ACK loses an interrupt, for
   any number of device threads. *)
THEOREM InterruptsArrive == ASSUME ~Gated PROVE Spec => []NoLostInterrupt
<1>1. Init => IInv
  BY InitIInv
<1>2. IInv /\ [Next]_vars => IInv'
  BY NextIInv
<1>3. IInv => NoLostInterrupt
  BY DEF IInv, SignalInv, NoLostInterrupt
<1> QED BY <1>1, <1>2, <1>3, PTL DEF Spec
=============================================================================
