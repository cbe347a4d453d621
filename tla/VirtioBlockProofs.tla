------------------------- MODULE VirtioBlockProofs --------------------------
(***************************************************************************)
(* Proofs about VirtioBlock, for any number of sectors and requests and    *)
(* all backends: the slot of the request in progress is never taken by     *)
(* another one, chains are answered once and in order, and a read returns  *)
(* each sector as the last write answered with OK left it.                 *)
(***************************************************************************)
EXTENDS VirtioBlock, TLAPS

(* The answers are a sequence; what a read returns does not matter here.   *)
UsedInv == \E S : used \in Seq(S)

(* What has been answered lies before the next chain, and, while a request is
   in progress, before that request.                                       *)
OrderInv ==
  /\ last_avail_idx \in Nat /\ req_in_progress \in BOOLEAN /\ req \in Nat
  /\ \A j \in DOMAIN used : used[j].id \in Nat /\ used[j].id <= last_avail_idx
  /\ req_in_progress =>
       req <= last_avail_idx /\ \A j \in DOMAIN used : used[j].id < req

IInv == UsedInv /\ SlotHeld /\ OrderInv /\ AnsweredInOrder

LEMMA InitIInv == Init => IInv
<1> SUFFICES ASSUME Init PROVE IInv
  OBVIOUS
<1>1. used \in Seq({}) /\ DOMAIN used = {}
  BY DEF Init
<1> QED BY <1>1 DEF Init, IInv, UsedInv, SlotHeld, OrderInv, AnsweredInOrder

(* An answer to a chain later than all the chains answered so far keeps the
   answers a sequence in order.                                            *)
LEMMA AnswerLast ==
  ASSUME UsedInv, AnsweredInOrder,
         NEW i \in Nat, NEW status, NEW data, Answer(i, status, data),
         \A j \in DOMAIN used : used[j].id \in Nat /\ used[j].id < i
  PROVE  /\ UsedInv' /\ AnsweredInOrder'
         /\ \A j \in DOMAIN used' : used'[j].id \in Nat /\ used'[j].id <= i
<1> DEFINE e == [id |-> i, status |-> status, data |-> data]
<1>1. PICK S : used \in Seq(S)
  BY DEF UsedInv
<1>2. used \in Seq(S \cup {e}) /\ e \in S \cup {e} /\ e.id = i
  BY <1>1
<1>3. used' = Append(used, e)
  BY DEF Answer
<1> HIDE DEF e
<1>4. used' \in Seq(S \cup {e})
  BY <1>2, <1>3
<1>5. /\ DOMAIN used = 1..Len(used) /\ DOMAIN used' = 1..(Len(used) + 1) /\ Len(used) \in Nat
      /\ \A j \in 1..Len(used) : used'[j] = used[j]
      /\ used'[Len(used) + 1] = e
  BY <1>2, <1>3
<1>6. UsedInv'
  BY <1>4 DEF UsedInv
<1>7. \A j \in DOMAIN used' : used'[j].id \in Nat /\ used'[j].id <= i
  BY <1>2, <1>5
<1>8. AnsweredInOrder'
  <2> SUFFICES ASSUME NEW j \in DOMAIN used', NEW k \in DOMAIN used', j < k
               PROVE  used'[j].id < used'[k].id
    BY DEF AnsweredInOrder
  <2>1. j \in 1..Len(used)
    BY <1>5
  <2>2. CASE k \in 1..Len(used)
    BY <2>1, <2>2, <1>5 DEF AnsweredInOrder
  <2>3. CASE k = Len(used) + 1
    BY <2>1, <2>3, <1>2, <1>5
  <2> QED BY <2>2, <2>3, <1>5
<1> QED BY <1>6, <1>7, <1>8

(* virtio_block_req_end answers its chain, whatever the backend.           *)
LEMMA ReqEndAnswers ==
  ASSUME NEW i, ReqEnd(i)
  PROVE  \E status, data : Answer(i, status, data)
  BY DEF ReqEnd

LEMMA NextIInv == IInv /\ [Next]_vars => IInv'
<1> SUFFICES ASSUME IInv, [Next]_vars PROVE IInv'
  OBVIOUS
<1> USE DEF IInv
<1>0. ~req_in_progress => outstanding = {}
  BY DEF SlotHeld, OrderInv
<1>1. ASSUME NEW c \in Offered, Publish(c) PROVE IInv'
  BY <1>1 DEF Publish, backendVars, reqVars, UsedInv, SlotHeld, OrderInv, AnsweredInOrder
<1>2. CASE QueueNotify
  BY <1>2 DEF QueueNotify, backendVars, reqVars, UsedInv, SlotHeld, OrderInv, AnsweredInOrder
<1>3. CASE LoopEnd
  BY <1>3 DEF LoopEnd, backendVars, reqVars, UsedInv, SlotHeld, OrderInv, AnsweredInOrder
<1>4. CASE RecvBusy
  BY <1>4 DEF RecvBusy, backendVars, reqVars, UsedInv, SlotHeld, OrderInv, AnsweredInOrder
<1>5. CASE RecvShort
  BY <1>5 DEF RecvShort, Advance, next, backendVars, reqVars, UsedInv, SlotHeld, OrderInv, AnsweredInOrder
<1>6. CASE RecvUnsupported
  <2>1. /\ Answer(next, "UNSUPP", <<>>) /\ req' = next /\ last_avail_idx' = next
        /\ UNCHANGED <<req_in_progress, outstanding>> /\ ~req_in_progress
    BY <1>6 DEF RecvUnsupported, Advance, Free
  <2>2. next \in Nat /\ \A j \in DOMAIN used : used[j].id \in Nat /\ used[j].id < next
    BY DEF next, OrderInv
  <2>3. /\ UsedInv' /\ AnsweredInOrder'
        /\ \A j \in DOMAIN used' : used'[j].id \in Nat /\ used'[j].id <= next
    BY <2>1, <2>2, AnswerLast
  <2> QED BY <2>1, <2>2, <2>3, <1>0 DEF SlotHeld, OrderInv
<1>7. CASE RecvSync
  <2>1. /\ ReqEnd(next) /\ req' = next /\ last_avail_idx' = next
        /\ UNCHANGED <<req_in_progress, outstanding>> /\ ~req_in_progress
    BY <1>7 DEF RecvSync, Advance, Free
  <2>2. next \in Nat /\ \A j \in DOMAIN used : used[j].id \in Nat /\ used[j].id < next
    BY DEF next, OrderInv
  <2>3. PICK status, data : Answer(next, status, data)
    BY <2>1, ReqEndAnswers
  <2>4. /\ UsedInv' /\ AnsweredInOrder'
        /\ \A j \in DOMAIN used' : used'[j].id \in Nat /\ used'[j].id <= next
    BY <2>2, <2>3, AnswerLast
  <2> QED BY <2>1, <2>2, <2>4, <1>0 DEF SlotHeld, OrderInv
<1>8. CASE RecvAsync
  <2>1. /\ req' = next /\ req_in_progress' = TRUE /\ outstanding' = outstanding \cup {next}
        /\ last_avail_idx' = next /\ used' = used /\ ~req_in_progress
    BY <1>8 DEF RecvAsync, Advance, Free
  <2>2. next \in Nat /\ \A j \in DOMAIN used : used[j].id \in Nat /\ used[j].id < next
    BY DEF next, OrderInv
  <2>3. SlotHeld'
    BY <2>1, <1>0 DEF SlotHeld
  <2> QED BY <2>1, <2>2, <2>3 DEF UsedInv, OrderInv, AnsweredInOrder
<1>9. ASSUME NEW i \in outstanding, ReqCb(i) PROVE IInv'
  <2>1. /\ ReqEnd(req) /\ req_in_progress' = FALSE /\ outstanding' = outstanding \ {i}
        /\ UNCHANGED <<last_avail_idx, req>>
    BY <1>9 DEF ReqCb
  <2>2. req_in_progress /\ outstanding = {req} /\ i = req
    BY <1>9, <1>0 DEF SlotHeld
  <2>3. PICK status, data : Answer(req, status, data)
    BY <2>1, ReqEndAnswers
  <2>4. /\ UsedInv' /\ AnsweredInOrder'
        /\ \A j \in DOMAIN used' : used'[j].id \in Nat /\ used'[j].id <= req
    BY <2>2, <2>3, AnswerLast DEF OrderInv
  <2>5. SlotHeld'
    BY <2>1, <2>2 DEF SlotHeld
  <2>6. last_avail_idx \in Nat /\ req \in Nat /\ req <= last_avail_idx
    BY <2>2 DEF OrderInv
  <2>7. \A j \in DOMAIN used' : used'[j].id \in Nat /\ used'[j].id <= last_avail_idx
    BY <2>4, <2>6
  <2>8. OrderInv'
    BY <2>1, <2>6, <2>7 DEF OrderInv
  <2> QED BY <2>4, <2>5, <2>8
<1>10. CASE UNCHANGED vars
  BY <1>10 DEF vars, backendVars, reqVars, UsedInv, SlotHeld, OrderInv, AnsweredInOrder
<1> QED BY <1>1, <1>2, <1>3, <1>4, <1>5, <1>6, <1>7, <1>8, <1>9, <1>10 DEF Next, RecvRequest

-----------------------------------------------------------------------------
(* The inductive invariant of the requests of virtio_block. *)
THEOREM Invariance == Spec => []IInv
<1> QED BY InitIInv, NextIInv, PTL DEF Spec

(* The slot of virtio_block's request in progress holds the chain the backend
   works on until its callback, and the backend never has two.             *)
THEOREM SlotIsHeld == Spec => []SlotHeld
<1>1. IInv => SlotHeld
  BY DEF IInv
<1> QED BY <1>1, Invariance, PTL

(* virtio_block answers each chain at most once, and in the order of the avail
   ring, whether its backend answers at once or by a callback.             *)
THEOREM AnswersInOrder == Spec => []AnsweredInOrder
<1>1. IInv => AnsweredInOrder
  BY DEF IInv
<1> QED BY <1>1, Invariance, PTL

-----------------------------------------------------------------------------
(* What the reads return; it rests on the order of the answers.            *)

(* What bf_read_async finds at a sector now.                               *)
Stored(s) == IF mode = "SNAPSHOT" /\ s \in DOMAIN table THEN table[s] ELSE file[s]

(* The latest of the chains w, or the empty disk's 0.                      *)
Last(w) == IF w = {} THEN 0 ELSE CHOOSE i \in w : \A i2 \in w : i2 <= i

(* Answer k reports a write of sector s.                                   *)
Wrote(k, s) ==
  /\ used[k].status = "OK" /\ avail[used[k].id].type = "out"
  /\ s \in avail[used[k].id].sector..avail[used[k].id].sector + avail[used[k].id].n - 1

(* The indices of queue_notify, and the chains it has been given.          *)
ShapeInv ==
  /\ mode \in Mode
  /\ avail \in Seq(Chain)
  /\ \A i \in DOMAIN avail :
       avail[i].type = "in" \/ mode = "HTTP" => avail[i].sector + avail[i].n <= NSectors
  /\ last_avail_idx \in Nat /\ limit \in Nat
  /\ last_avail_idx <= limit /\ limit <= Len(avail)
  /\ \A j \in DOMAIN used : used[j].id \in 1..last_avail_idx
  /\ req_in_progress => req \in 1..last_avail_idx

(* The disk holds what has been acknowledged.                              *)
DiskInv ==
  /\ Sector \subseteq DOMAIN file
  /\ FileUntouched
  /\ \A s \in Sector : Stored(s) = Last(WritersBefore(Len(used) + 1, s))

DataInv == IInv /\ ShapeInv /\ DiskInv /\ ReadsAcknowledged

-----------------------------------------------------------------------------
LEMMA LastOfAdded ==
  ASSUME NEW W \in SUBSET Nat, NEW i \in Nat, \A x \in W : x < i
  PROVE  Last(W \cup {i}) = i
<1> DEFINE V == W \cup {i}
<1>1. i \in V /\ \A x \in V : x <= i
  OBVIOUS
<1>2. Last(V) = CHOOSE m \in V : \A x \in V : x <= m
  BY <1>1 DEF Last
<1>3. Last(V) \in V /\ \A x \in V : x <= Last(V)
  BY <1>1, <1>2
<1>4. Last(V) <= i /\ i <= Last(V) /\ Last(V) \in Nat
  BY <1>1, <1>3
<1> QED
  BY <1>4

LEMMA WritersWrote ==
  ASSUME NEW j, NEW s
  PROVE  WritersBefore(j, s) = {used[k].id : k \in {k \in 1..j-1 : Wrote(k, s)}}
  BY DEF WritersBefore, Wrote

LEMMA ReadsLast ==
  ReadsAcknowledged =
    \A j \in DOMAIN used : avail[used[j].id].type = "in" =>
      \A k \in 1..avail[used[j].id].n :
        used[j].data[k] = Last(WritersBefore(j, avail[used[j].id].sector + (k - 1)))
  BY DEF ReadsAcknowledged, Last

(* New chains do not change what the answered ones were.                   *)
LEMMA AnswersKept ==
  ASSUME UsedInv, ReadsAcknowledged, used' = used,
         \A j \in DOMAIN used : avail'[used[j].id] = avail[used[j].id]
  PROVE  /\ ReadsAcknowledged'
         /\ \A s \in Sector : WritersBefore(Len(used) + 1, s)' = WritersBefore(Len(used) + 1, s)
<1>1. DOMAIN used = 1..Len(used) /\ Len(used) \in Nat
  BY DEF UsedInv
<1>2. ASSUME NEW j \in 1..Len(used) + 1, NEW s
      PROVE  WritersBefore(j, s)' = WritersBefore(j, s)
  <2>1. \A k \in 1..j-1 : used'[k] = used[k] /\ avail'[used[k].id] = avail[used[k].id]
    BY <1>1
  <2> QED
    BY <2>1 DEF WritersBefore
<1>3. ReadsAcknowledged'
  <2> SUFFICES ASSUME NEW j \in DOMAIN used, avail[used[j].id].type = "in",
                      NEW k \in 1..avail[used[j].id].n
               PROVE  used[j].data[k] =
                        Last(WritersBefore(j, avail[used[j].id].sector + (k - 1))')
    BY ZenonT(60) DEF ReadsAcknowledged, Last
  <2>1. j \in 1..Len(used) + 1
    BY <1>1
  <2> QED
    BY <1>2, <2>1, ReadsLast, ZenonT(60)
<1> QED
  BY <1>1, <1>2, <1>3

-----------------------------------------------------------------------------
(* Sector s is written by chain i if it is answered with the status.       *)
Writes(i, status, s) ==
  /\ status = "OK" /\ avail[i].type = "out"
  /\ s \in avail[i].sector..avail[i].sector + avail[i].n - 1

(* An answer to a chain later than all the answered ones becomes the last  *)
(* writer of the sectors it wrote, and of no others.                       *)
LEMMA AnswerAdds ==
  ASSUME UsedInv, avail' = avail,
         NEW i \in Nat, NEW status, NEW data, Answer(i, status, data),
         \A j \in DOMAIN used : used[j].id \in Nat /\ used[j].id < i
  PROVE  /\ Len(used) \in Nat /\ DOMAIN used = 1..Len(used)
         /\ DOMAIN used' = 1..Len(used) + 1
         /\ \A j \in 1..Len(used) : used'[j] = used[j]
         /\ used'[Len(used) + 1] = [id |-> i, status |-> status, data |-> data]
         /\ \A s : \A j \in 1..Len(used) + 1 : WritersBefore(j, s)' = WritersBefore(j, s)
         /\ \A s : Last(WritersBefore(Len(used) + 1, s)') =
              IF Writes(i, status, s) THEN i ELSE Last(WritersBefore(Len(used) + 1, s))
<1> DEFINE e == [id |-> i, status |-> status, data |-> data]
<1>1. PICK S : used \in Seq(S)
  BY DEF UsedInv
<1>2. used \in Seq(S \cup {e}) /\ e \in S \cup {e} /\ e.id = i /\ e.status = status
  BY <1>1
<1>3. used' = Append(used, e)
  BY DEF Answer
<1> HIDE DEF e
<1>0. PICK n \in Nat : n = Len(used)
  BY <1>1
<1>4. /\ DOMAIN used = 1..n /\ DOMAIN used' = 1..n + 1 /\ Len(used') = n + 1
      /\ \A j \in 1..n : used'[j] = used[j]
      /\ used'[n + 1] = e
  BY <1>0, <1>2, <1>3
<1>5. ASSUME NEW j \in 1..n + 1, NEW s PROVE WritersBefore(j, s)' = WritersBefore(j, s)
  <2>1. \A k \in 1..j-1 : used'[k] = used[k]
    BY <1>4
  <2> QED
    BY <2>1 DEF WritersBefore
<1>6. ASSUME NEW s
      PROVE  Last(WritersBefore(Len(used) + 1, s)') =
               IF Writes(i, status, s) THEN i ELSE Last(WritersBefore(n + 1, s))
  <2> DEFINE W == WritersBefore(n + 1, s)
  <2>1. W = {used[k].id : k \in {k \in 1..n : Wrote(k, s)}}
    BY <1>4, WritersWrote
  <2>2. WritersBefore(Len(used) + 1, s)' = {used'[k].id : k \in {k \in 1..n + 1 : Wrote(k, s)'}}
    BY <1>4 DEF WritersBefore, Wrote
  <2>3. \A k \in 1..n : (Wrote(k, s)' <=> Wrote(k, s)) /\ used'[k].id = used[k].id
    BY <1>4 DEF Wrote
  <2>4. Wrote(n + 1, s)' <=> Writes(i, status, s)
    BY <1>2, <1>4 DEF Wrote, Writes
  <2>5. used'[n + 1].id = i
    BY <1>2, <1>4
  <2>6. W \in SUBSET Nat /\ \A x \in W : x < i
    BY <1>4, <2>1
  <2> DEFINE A == {k \in 1..n : Wrote(k, s)}
             B == {k \in 1..n + 1 : Wrote(k, s)'}
  <2>7. CASE Writes(i, status, s)
    <3>0. B = A \cup {n + 1}
      <4>1. 1..n + 1 = 1..n \cup {n + 1} /\ Wrote(n + 1, s)'
        BY <2>4, <2>7
      <4>2. \A k \in 1..n : k \in B <=> k \in A
        BY <2>3, <4>1
      <4>3. n + 1 \in B /\ B \subseteq 1..n \cup {n + 1} /\ A \subseteq 1..n
        BY <4>1
      <4> QED
        BY <4>2, <4>3
    <3>1. WritersBefore(Len(used) + 1, s)' = W \cup {i}
      <4> HIDE DEF A, B
      <4>1. A \subseteq 1..n
        BY DEF A
      <4>2. \A k \in A : used'[k].id = used[k].id
        BY <2>3, <4>1
      <4>3. {used'[k].id : k \in B} = {used[k].id : k \in A} \cup {i}
        BY <2>5, <3>0, <4>2
      <4> QED
        BY <2>1, <2>2, <4>3 DEF A, B
    <3> QED
      BY <2>6, <2>7, <3>1, LastOfAdded
  <2>8. CASE ~Writes(i, status, s)
    <3>0. B = A
      BY <1>4, <2>3, <2>4, <2>8
    <3>1. WritersBefore(Len(used) + 1, s)' = W
      <4> HIDE DEF B
      <4>1. {used'[k].id : k \in B} = {used[k].id : k \in A}
        BY <2>3, <3>0
      <4> QED
        BY <2>1, <2>2, <4>1 DEF B
    <3> QED
      BY <2>8, <3>1
  <2> QED
    BY <2>7, <2>8
<1> QED
  BY <1>0, <1>4, <1>5, <1>6 DEF e

(* The answers stay right if the new one is.                               *)
LEMMA ReadsAdded ==
  ASSUME UsedInv, ReadsAcknowledged, avail' = avail,
         NEW i \in Nat, NEW status, NEW data, Answer(i, status, data),
         \A j \in DOMAIN used : used[j].id \in Nat /\ used[j].id < i,
         avail[i].type = "in" => \A k \in 1..avail[i].n :
           data[k] = Last(WritersBefore(Len(used) + 1, avail[i].sector + (k - 1)))
  PROVE  ReadsAcknowledged'
<1>0. PICK n \in Nat : n = Len(used)
  BY AnswerAdds
<1>1. /\ DOMAIN used = 1..n /\ DOMAIN used' = 1..n + 1
      /\ \A j \in 1..n : used'[j] = used[j]
      /\ used'[n + 1] = [id |-> i, status |-> status, data |-> data]
      /\ \A s : \A j \in 1..n + 1 : WritersBefore(j, s)' = WritersBefore(j, s)
  BY <1>0, AnswerAdds
<1>2. ASSUME NEW j \in 1..n + 1, NEW k, NEW s, avail[used'[j].id].type = "in",
             k \in 1..avail[used'[j].id].n, s = avail[used'[j].id].sector + (k - 1)
      PROVE  used'[j].data[k] = Last(WritersBefore(j, s)')
  <2>1. WritersBefore(j, s)' = WritersBefore(j, s)
    BY <1>1
  <2>2. CASE j \in 1..n
    <3>1. used'[j] = used[j] /\ j \in DOMAIN used
      BY <1>1, <2>2
    <3>2. PICK u : u = used[j] /\ u = used'[j]
      BY <3>1
    <3>3. u.data[k] = Last(WritersBefore(j, avail[u.id].sector + (k - 1)))
      <4>1. avail[used[j].id].type = "in" /\ k \in 1..avail[used[j].id].n
        BY <1>2, <3>1, Zenon
      <4>2. used[j].data[k] = Last(WritersBefore(j, avail[used[j].id].sector + (k - 1)))
        BY <3>1, <4>1, ReadsLast, Zenon
      <4> QED
        BY <3>2, <4>2, Zenon
    <3>4. s = avail[u.id].sector + (k - 1)
      BY <1>2, <3>2, Zenon
    <3> QED
      BY <2>1, <3>2, <3>3, <3>4, Zenon
  <2>3. CASE j = n + 1
    <3>1. used'[j].id = i /\ used'[j].data = data
      BY <1>1, <2>3
    <3> QED
      BY <1>0, <1>2, <2>1, <2>3, <3>1
  <2> QED
    BY <2>2, <2>3
<1>3. ASSUME NEW j, NEW k, j \in DOMAIN used', avail[used'[j].id].type = "in",
             k \in 1..avail[used'[j].id].n
      PROVE  (used[j].data[k] = Last(WritersBefore(j, avail[used[j].id].sector + (k - 1))))'
  <2>1. PICK s : s = avail[used'[j].id].sector + (k - 1)
    OBVIOUS
  <2>2. used'[j].data[k] = Last(WritersBefore(j, s)')
    BY <1>1, <1>2, <1>3, <2>1
  <2> QED
    BY <2>1, <2>2 DEF WritersBefore
<1>4. \A j \in DOMAIN used' : avail'[used'[j].id].type = "in" =>
        \A k \in 1..avail'[used'[j].id].n :
          (used[j].data[k] = Last(WritersBefore(j, avail[used[j].id].sector + (k - 1))))'
  BY <1>3
<1> QED
  BY <1>4, Zenon DEF ReadsAcknowledged, Last

-----------------------------------------------------------------------------
LEMMA ChainShape ==
  ASSUME NEW c \in Chain
  PROVE  c.sector \in Nat /\ c.n \in Nat
  BY SectorsAssumption DEF Chain, Sector

(* bf_write_async leaves chain i's number in the sectors it reports as     *)
(* written, and no trace elsewhere.                                        *)
LEMMA WriteStores ==
  ASSUME mode \in Mode, mode' = mode, Sector \subseteq DOMAIN file, FileUntouched,
         NEW c \in Chain, NEW i, WriteSectors(c, i)
  PROVE  /\ Sector \subseteq DOMAIN file' /\ FileUntouched'
         /\ \A s \in Sector :
              Stored(s)' = IF WriteResult(c) = 0 /\ s \in c.sector..c.sector + c.n - 1
                           THEN i ELSE Stored(s)
<1>1. CASE mode = "RO"
  BY <1>1 DEF WriteSectors, WriteResult, Stored, FileUntouched
<1>2. CASE mode \in {"RW", "HTTP"}
  <2>1. file' = Written(file, c, i) /\ WriteResult(c) = 0
    BY <1>2 DEF WriteSectors, WriteResult
  <2>2. \A s \in Sector : Stored(s) = file[s] /\ Stored(s)' = file'[s]
    BY <1>2 DEF Stored
  <2> QED
    BY <1>2, <2>1, <2>2 DEF Written, FileUntouched
<1>3. CASE mode = "SNAPSHOT"
  <2>1. UNCHANGED file
    BY <1>3 DEF WriteSectors
  <2>2. CASE c.sector + c.n > NSectors
    <3>1. table' = table /\ WriteResult(c) = -1
      BY <1>3, <2>2 DEF WriteSectors, WriteResult
    <3> QED
      BY <2>1, <3>1 DEF Stored, FileUntouched
  <2>3. CASE ~(c.sector + c.n > NSectors)
    <3>1. table' = Written(table, c, i) /\ WriteResult(c) = 0
      BY <1>3, <2>3 DEF WriteSectors, WriteResult
    <3> QED
      BY <1>3, <2>1, <3>1 DEF Stored, FileUntouched, Written
  <2> QED
    BY <2>2, <2>3
<1> QED
  BY <1>1, <1>2, <1>3 DEF Mode

(* The end of a request: a read returns what is stored, and a write is     *)
(* acknowledged just if it is.                                             *)
LEMMA ReqEndKeeps ==
  ASSUME UsedInv, ShapeInv, DiskInv, ReadsAcknowledged, avail' = avail, mode' = mode,
         NEW i \in 1..Len(avail), ReqEnd(i),
         \A j \in DOMAIN used : used[j].id \in Nat /\ used[j].id < i
  PROVE  DiskInv' /\ ReadsAcknowledged'
<1> DEFINE c == avail[i]
<1>1. c \in Chain /\ c.sector \in Nat /\ c.n \in Nat /\ i \in Nat
  BY ChainShape DEF ShapeInv
<1>2. CASE c.type = "in"
  <2>1. Answer(i, "OK", ReadSectors(c)) /\ UNCHANGED <<file, table>>
    BY <1>2 DEF ReqEnd
  <2>2. \A s : ~Writes(i, "OK", s)
    BY <1>2 DEF Writes
  <2>3. \A s \in Sector : Last(WritersBefore(Len(used) + 1, s)') = Stored(s)'
    BY <1>1, <2>1, <2>2, AnswerAdds DEF DiskInv, Stored
  <2>4. DiskInv'
    BY <2>1, <2>3 DEF DiskInv, FileUntouched
  <2>5. \A k \in 1..c.n :
          ReadSectors(c)[k] = Last(WritersBefore(Len(used) + 1, c.sector + (k - 1)))
    <3> SUFFICES ASSUME NEW k \in 1..c.n
                 PROVE  ReadSectors(c)[k] = Last(WritersBefore(Len(used) + 1, c.sector + (k - 1)))
      OBVIOUS
    <3>1. c.sector + c.n <= NSectors
      BY <1>2 DEF ShapeInv
    <3>2. c.sector + (k - 1) \in Sector
      BY <1>1, <3>1, SectorsAssumption, SMTT(30) DEF Sector
    <3>3. ReadSectors(c)[k] = Stored(c.sector + (k - 1))
      BY DEF ReadSectors, Stored
    <3> QED
      BY <3>2, <3>3 DEF DiskInv
  <2>6. ReadsAcknowledged'
    BY <1>1, <2>1, <2>5, ReadsAdded
  <2> QED
    BY <2>4, <2>6
<1>3. CASE c.type = "out"
  <2> DEFINE status == IF WriteResult(c) < 0 THEN "IOERR" ELSE "OK"
  <2>1. WriteSectors(c, i) /\ Answer(i, status, <<>>)
    BY <1>3 DEF ReqEnd
  <2>2. \A s : Writes(i, status, s) <=> WriteResult(c) = 0 /\ s \in c.sector..c.sector + c.n - 1
    BY <1>3 DEF Writes, WriteResult
  <2>3. /\ Sector \subseteq DOMAIN file' /\ FileUntouched'
        /\ \A s \in Sector : Stored(s)' = IF Writes(i, status, s) THEN i ELSE Stored(s)
    BY <1>1, <2>1, <2>2, WriteStores DEF ShapeInv, DiskInv
  <2> HIDE DEF status
  <2>4. \A s \in Sector : Last(WritersBefore(Len(used) + 1, s)') = Stored(s)'
    BY <1>1, <2>1, <2>3, AnswerAdds DEF DiskInv
  <2>5. DiskInv'
    BY <2>3, <2>4 DEF DiskInv
  <2>6. ReadsAcknowledged'
    BY <1>1, <1>3, <2>1, ReadsAdded
  <2> QED
    BY <2>5, <2>6
<1> QED
  BY <1>2, <1>3 DEF ReqEnd

-----------------------------------------------------------------------------
LEMMA InitDataInv == Init => DataInv
<1> SUFFICES ASSUME Init PROVE DataInv
  OBVIOUS
<1>1. used = <<>> /\ avail = <<>> /\ DOMAIN used = {} /\ DOMAIN avail = {} /\ Len(used) = 0
      /\ Len(avail) = 0
  BY DEF Init
<1>2. ShapeInv
  BY <1>1 DEF Init, ShapeInv
<1>3. \A s : WritersBefore(Len(used) + 1, s) = {}
  BY <1>1 DEF WritersBefore
<1>4. DiskInv
  BY <1>3 DEF Init, DiskInv, Stored, Last, FileUntouched
<1>5. ReadsAcknowledged
  BY <1>1 DEF ReadsAcknowledged
<1> QED
  BY <1>2, <1>4, <1>5, InitIInv DEF DataInv

(* The steps that answer nothing keep the disk and the answers right.      *)
LEMMA NoAnswerKeeps ==
  ASSUME DataInv, UNCHANGED <<mode, file, table, used>>,
         \A j \in DOMAIN used : avail'[used[j].id] = avail[used[j].id]
  PROVE  DiskInv' /\ ReadsAcknowledged'
<1>1. /\ ReadsAcknowledged'
      /\ \A s \in Sector : WritersBefore(Len(used) + 1, s)' = WritersBefore(Len(used) + 1, s)
  BY AnswersKept DEF DataInv, IInv
<1>2. \A s : Stored(s)' = Stored(s)
  BY DEF Stored
<1> QED
  BY <1>1, <1>2 DEF DataInv, DiskInv, FileUntouched

(* An answer to chain i keeps the numbers of the answered chains in range. *)
LEMMA IdsAdded ==
  ASSUME UsedInv, ShapeInv, avail' = avail, NEW i \in Nat, NEW status, NEW data,
         Answer(i, status, data),
         \A j \in DOMAIN used : used[j].id \in Nat /\ used[j].id < i,
         NEW m \in Nat, last_avail_idx <= m, i \in 1..m
  PROVE  \A j \in DOMAIN used' : used'[j].id \in 1..m
<1>1. PICK n \in Nat : n = Len(used)
  BY AnswerAdds
<1>2. /\ DOMAIN used = 1..n /\ DOMAIN used' = 1..n + 1
      /\ \A j \in 1..n : used'[j] = used[j]
      /\ used'[n + 1] = [id |-> i, status |-> status, data |-> data]
  BY <1>1, AnswerAdds
<1> SUFFICES ASSUME NEW j \in 1..n + 1 PROVE used'[j].id \in 1..m
  BY <1>2
<1>3. CASE j \in 1..n
  <2>1. used'[j].id = used[j].id /\ j \in DOMAIN used
    BY <1>2, <1>3, Zenon
  <2>2. used[j].id \in 1..last_avail_idx /\ last_avail_idx \in Nat
    BY <2>1, Zenon DEF ShapeInv
  <2>3. PICK x \in 1..last_avail_idx : x = used[j].id
    BY <2>2
  <2>4. x \in 1..m
    BY <2>2
  <2> QED
    BY <2>1, <2>3, <2>4, Zenon
<1>4. CASE j = n + 1
  <2>1. used'[j] = [id |-> i, status |-> status, data |-> data]
    BY <1>2, <1>4, Zenon
  <2> QED
    BY <2>1
<1>5. j \in 1..n \/ j = n + 1
  OBVIOUS
<1> QED
  BY <1>3, <1>4, <1>5

LEMMA NextDataInv == DataInv /\ [Next]_vars => DataInv'
<1> SUFFICES ASSUME DataInv, [Next]_vars PROVE DataInv'
  OBVIOUS
<1> USE DEF DataInv
<1>0. IInv' /\ UsedInv /\ OrderInv
  BY NextIInv DEF IInv
<1>1. ASSUME NEW c \in Offered, Publish(c) PROVE DataInv'
  <2>1. avail' = Append(avail, c) /\ UNCHANGED <<mode, file, table, last_avail_idx, limit,
                                                 req_in_progress, req, used>>
    BY <1>1 DEF Publish, backendVars, reqVars
  <2>2. c \in Chain /\ (c.type = "in" \/ mode = "HTTP" => c.sector + c.n <= NSectors)
    BY DEF Offered
  <2>3. /\ avail' \in Seq(Chain) /\ Len(avail') = Len(avail) + 1 /\ Len(avail) \in Nat
        /\ \A i \in 1..Len(avail) : avail'[i] = avail[i]
        /\ avail'[Len(avail) + 1] = c
    BY <2>1, <2>2 DEF ShapeInv
  <2>4. \A j \in DOMAIN used : used[j].id \in 1..Len(avail)
    BY <2>3 DEF ShapeInv
  <2>5. DiskInv' /\ ReadsAcknowledged'
    BY <2>1, <2>3, <2>4, NoAnswerKeeps
  <2>6. ShapeInv'
    BY <2>1, <2>2, <2>3 DEF ShapeInv
  <2> QED
    BY <1>0, <2>5, <2>6
<1>2. ASSUME UNCHANGED <<mode, file, table, avail, req_in_progress, req, used>>,
             last_avail_idx' \in Nat, limit' \in Nat,
             last_avail_idx <= last_avail_idx', last_avail_idx' <= limit', limit' <= Len(avail)
      PROVE  DataInv'
  <2>1. DiskInv' /\ ReadsAcknowledged'
    BY <1>2, NoAnswerKeeps
  <2>2. ShapeInv'
    BY <1>2 DEF ShapeInv
  <2> QED
    BY <1>0, <2>1, <2>2
<1>3. CASE QueueNotify \/ LoopEnd \/ RecvBusy \/ UNCHANGED vars
  BY <1>2, <1>3, SMTT(30)
  DEF QueueNotify, LoopEnd, RecvBusy, vars, backendVars, reqVars, ShapeInv
<1>4. InLoop => next \in Nat /\ last_avail_idx < next /\ next <= limit /\ next \in 1..Len(avail)
  BY DEF InLoop, next, ShapeInv
<1>5. InLoop => \A j \in DOMAIN used : used[j].id \in Nat /\ used[j].id < next
  BY <1>0 DEF next, OrderInv
<1>6. CASE RecvShort
  <2>1. /\ last_avail_idx' = next /\ limit' = limit
        /\ UNCHANGED <<mode, file, table, avail, req_in_progress, req, used>>
    BY <1>6 DEF RecvShort, Advance, backendVars, reqVars
  <2>2. last_avail_idx \in Nat /\ limit \in Nat /\ limit <= Len(avail)
    BY DEF ShapeInv
  <2>3. next \in Nat /\ last_avail_idx < next /\ next <= limit
    BY <1>4, <1>6 DEF RecvShort
  <2> HIDE DEF next
  <2> QED
    BY <1>2, <2>1, <2>2, <2>3
<1>7. CASE RecvUnsupported
  <2>1. /\ InLoop /\ avail[next].type = "other" /\ Answer(next, "UNSUPP", <<>>)
        /\ last_avail_idx' = next
        /\ UNCHANGED <<mode, file, table, avail, limit, req_in_progress>> /\ ~req_in_progress
    BY <1>7 DEF RecvUnsupported, Advance, Free, backendVars
  <2>2. \A s : Last(WritersBefore(Len(used) + 1, s)') = Last(WritersBefore(Len(used) + 1, s))
    BY <1>0, <1>4, <1>5, <2>1, AnswerAdds DEF Writes
  <2>3. \A s : Stored(s)' = Stored(s)
    BY <2>1 DEF Stored
  <2>4. DiskInv'
    BY <2>1, <2>2, <2>3 DEF DiskInv, FileUntouched
  <2>5. ReadsAcknowledged'
    BY <1>0, <1>4, <1>5, <2>1, ReadsAdded
  <2>6. \A j \in DOMAIN used' : used'[j].id \in 1..next
    <3>1. /\ UsedInv /\ ShapeInv /\ next \in Nat /\ last_avail_idx <= next /\ next \in 1..next
          /\ \A j \in DOMAIN used : used[j].id \in Nat /\ used[j].id < next
      BY <1>0, <1>4, <1>5, <2>1 DEF ShapeInv
    <3> HIDE DEF next
    <3> QED
      BY <2>1, <3>1, IdsAdded, Zenon
  <2>7. ShapeInv'
    BY <1>4, <2>1, <2>6 DEF ShapeInv
  <2> QED
    BY <1>0, <2>4, <2>5, <2>7
<1>8. CASE RecvSync
  <2>1. /\ InLoop /\ ReqEnd(next) /\ last_avail_idx' = next
        /\ UNCHANGED <<mode, avail, limit, req_in_progress>> /\ ~req_in_progress
    BY <1>8 DEF RecvSync, Advance, Free
  <2>2. DiskInv' /\ ReadsAcknowledged'
    BY <1>0, <1>4, <1>5, <2>1, ReqEndKeeps
  <2>3. \A j \in DOMAIN used' : used'[j].id \in 1..next
    BY <1>0, <1>4, <1>5, <2>1, IdsAdded, ReqEndAnswers DEF ShapeInv
  <2>4. ShapeInv'
    BY <1>4, <2>1, <2>3 DEF ShapeInv
  <2> QED
    BY <1>0, <2>2, <2>4
<1>9. CASE RecvAsync
  <2>1. /\ InLoop /\ req' = next /\ last_avail_idx' = next
        /\ UNCHANGED <<mode, file, table, avail, limit, used>>
    BY <1>9 DEF RecvAsync, Advance, backendVars
  <2>2. DiskInv' /\ ReadsAcknowledged'
    BY <2>1, NoAnswerKeeps
  <2>3. ShapeInv'
    BY <1>4, <2>1 DEF ShapeInv
  <2> QED
    BY <1>0, <2>2, <2>3
<1>10. ASSUME NEW i \in outstanding, ReqCb(i) PROVE DataInv'
  <2>1. /\ ReqEnd(req) /\ req_in_progress' = FALSE /\ limit' = Len(avail)
        /\ UNCHANGED <<mode, avail, last_avail_idx, req>>
    BY <1>10 DEF ReqCb
  <2>2. req_in_progress
    BY <1>0, <1>10 DEF IInv, SlotHeld, OrderInv
  <2>3. /\ req \in 1..last_avail_idx /\ req \in 1..Len(avail) /\ req \in Nat
        /\ last_avail_idx \in Nat /\ last_avail_idx <= Len(avail) /\ Len(avail) \in Nat
    BY <2>2 DEF ShapeInv
  <2>4. \A j \in DOMAIN used : used[j].id \in Nat /\ used[j].id < req
    BY <1>0, <2>2 DEF OrderInv
  <2>5. DiskInv' /\ ReadsAcknowledged'
    BY <1>0, <2>1, <2>3, <2>4, ReqEndKeeps
  <2>6. \A j \in DOMAIN used' : used'[j].id \in 1..last_avail_idx
    BY <1>0, <2>1, <2>3, <2>4, IdsAdded, ReqEndAnswers
  <2>7. ShapeInv'
    BY <2>1, <2>3, <2>6 DEF ShapeInv
  <2> QED
    BY <1>0, <2>5, <2>7
<1> QED
  BY <1>1, <1>3, <1>6, <1>7, <1>8, <1>9, <1>10 DEF Next, RecvRequest

-----------------------------------------------------------------------------
(* The inductive invariant of the disk and the answers of virtio_block.    *)
THEOREM DataInvariance == Spec => []DataInv
  BY InitDataInv, NextDataInv, PTL DEF Spec

(* A read of virtio_block returns, for every sector, what the last write   *)
(* answered with OK left there, in every mode of the backend; a write      *)
(* answered with an error leaves nothing.                                  *)
THEOREM ReadsReturnAcknowledged == Spec => []ReadsAcknowledged
<1>1. DataInv => ReadsAcknowledged
  BY DEF DataInv
<1> QED
  BY <1>1, DataInvariance, PTL

(* The image behind a read-only or a snapshot device is never written.     *)
THEOREM FileStaysUntouched == Spec => []FileUntouched
<1>1. DataInv => FileUntouched
  BY DEF DataInv, DiskInv
<1> QED
  BY <1>1, DataInvariance, PTL
=============================================================================
