---------------------------- MODULE VirtioBlock -----------------------------
(***************************************************************************)
(* The block device: virtio_block_recv_request and the end of a request    *)
(* (src/virtio.c), over the file backend of src/temu.c in its three modes, *)
(* or over a backend that answers later (src/block_net.c, mode "HTTP").    *)
(*                                                                         *)
(* The queue is reduced to the sequence of published chains and the two    *)
(* indices of queue_notify; VirtQueue has the rings, and PendingNotify the *)
(* way a notification reaches queue_notify.  Callbacks of the asynchronous *)
(* backend come between two runs of queue_notify, from the same thread.    *)
(* The data of a sector is the number of the request that wrote it.        *)
(*                                                                         *)
(* The program creates its disk in mode RW; the other file modes, and the  *)
(* HTTP backend, are offered by the code but not used by main.cpp.         *)
(***************************************************************************)
EXTENDS Integers, Sequences

CONSTANTS NSectors,    \* nb_sectors
          MaxRequest   \* bound on the number of chains

ASSUME SectorsAssumption == NSectors \in Nat \ {0}
ASSUME RequestAssumption == MaxRequest \in Nat

VARIABLES
  mode,             \* of the backend, fixed when it is created
  file, table,      \* the disk image; the written sectors of a snapshot
  avail,            \* the chains the driver published
  kick,             \* a notification is on its way
  last_avail_idx, limit,   \* queue_notify: next chain, avail_idx as it read it
  pc,               \* "idle" or "loop": inside queue_notify
  req_in_progress, req,    \* the request that waits for its callback; its chain
  outstanding,      \* chains the asynchronous backend works on
  used              \* the answers: chain, status, data

backendVars == <<mode, file, table>>
reqVars == <<req_in_progress, req, outstanding>>
vars == <<backendVars, avail, kick, last_avail_idx, limit, pc, reqVars, used>>

Mode == {"RO", "RW", "SNAPSHOT", "HTTP"}
Sector == 0..NSectors-1

(* A chain the driver may publish: reads inside the disk; writes, which may run
   over its end where the backend is a file; a request of another type; a
   header that is too short.                                               *)
Chain ==
  {[type |-> "in", sector |-> s, n |-> n] : s \in Sector, n \in 1..2}
    \cup {[type |-> "out", sector |-> s, n |-> n] : s \in Sector, n \in 1..2}
    \cup {[type |-> t, sector |-> 0, n |-> 0] : t \in {"other", "short"}}
Offered == {c \in Chain : c.type = "in" \/ mode = "HTTP" => c.sector + c.n <= NSectors}

Init ==
  /\ mode \in Mode
  /\ file = [s \in Sector |-> 0] /\ table = [s \in {} |-> 0]
  /\ avail = <<>> /\ kick = FALSE
  /\ last_avail_idx = 0 /\ limit = 0 /\ pc = "idle"
  /\ req_in_progress = FALSE /\ req = 0 /\ outstanding = {}
  /\ used = <<>>

-----------------------------------------------------------------------------
(* The driver publishes a chain and notifies.                              *)
Publish(c) ==
  /\ Len(avail) < MaxRequest
  /\ avail' = Append(avail, c) /\ kick' = TRUE
  /\ UNCHANGED <<backendVars, last_avail_idx, limit, pc, reqVars, used>>

(* queue_notify reads avail_idx and enters its loop.                       *)
QueueNotify ==
  /\ pc = "idle" /\ kick
  /\ kick' = FALSE /\ limit' = Len(avail) /\ pc' = "loop"
  /\ UNCHANGED <<backendVars, avail, last_avail_idx, reqVars, used>>

LoopEnd ==
  /\ pc = "loop" /\ last_avail_idx = limit
  /\ pc' = "idle"
  /\ UNCHANGED <<backendVars, avail, kick, last_avail_idx, limit, reqVars, used>>

-----------------------------------------------------------------------------
Written(f, c, i) ==
  [s \in DOMAIN f \cup c.sector..c.sector+c.n-1 |->
     IF s \in c.sector..c.sector+c.n-1 THEN i ELSE f[s]]

(* bf_read_async of the file backend.                                      *)
ReadSectors(c) ==
  [k \in 1..c.n |-> LET s == c.sector + (k - 1)
                    IN  IF mode = "SNAPSHOT" /\ s \in DOMAIN table THEN table[s] ELSE file[s]]

(* bf_write_async of the file backend, and the write of the other one. *)
WriteSectors(c, i) ==
  \/ mode = "RO" /\ UNCHANGED <<file, table>>
  \/ mode \in {"RW", "HTTP"} /\ file' = Written(file, c, i) /\ UNCHANGED table
  \/ /\ mode = "SNAPSHOT"
     /\ table' = IF c.sector + c.n > NSectors THEN table ELSE Written(table, c, i)
     /\ UNCHANGED file

\* Mutated form: an error of the backend is not reported.
WriteResult_AlwaysOK(c) == 0

(* What they return: < 0 is an error.                                      *)
WriteResult(c) ==
  IF mode = "RO" \/ (mode = "SNAPSHOT" /\ c.sector + c.n > NSectors) THEN -1 ELSE 0

Answer(i, status, data) == used' = Append(used, [id |-> i, status |-> status, data |-> data])

(* virtio_block_req_end for chain i: the backend's work shows, and the chain is
   consumed with its status.                                               *)
ReqEnd(i) ==
  LET c == avail[i]
  IN  \/ /\ c.type = "in"
         /\ Answer(i, "OK", ReadSectors(c))
         /\ UNCHANGED <<file, table>>
      \/ /\ c.type = "out"
         /\ WriteSectors(c, i)
         /\ Answer(i, IF WriteResult(c) < 0 THEN "IOERR" ELSE "OK", <<>>)

-----------------------------------------------------------------------------
InLoop == pc = "loop" /\ last_avail_idx # limit
next == last_avail_idx + 1
Advance == last_avail_idx' = next

\* Mutated form: the request in progress is not looked at.
Free_Always == TRUE
Free == ~req_in_progress

(* virtio_block_recv_request returns -1, which ends queue_notify: the chain is
   looked at again when the request in progress is done.                   *)
RecvBusy ==
  /\ InLoop /\ ~Free
  /\ pc' = "idle"
  /\ UNCHANGED <<backendVars, avail, kick, last_avail_idx, limit, reqVars, used>>

(* The header cannot be read: return 0, and the chain is never consumed.   *)
RecvShort ==
  /\ InLoop /\ Free /\ avail[next].type = "short"
  /\ Advance
  /\ UNCHANGED <<backendVars, avail, kick, limit, pc, reqVars, used>>

(* A type the device does not know.                                        *)
RecvUnsupported ==
  /\ InLoop /\ Free /\ avail[next].type = "other"
  /\ Answer(next, "UNSUPP", <<>>) /\ req' = next
  /\ Advance
  /\ UNCHANGED <<backendVars, avail, kick, limit, pc, req_in_progress, outstanding>>

(* The backend answers at once.                                            *)
RecvSync ==
  /\ InLoop /\ Free /\ avail[next].type \in {"in", "out"}
  /\ req' = next
  /\ ReqEnd(next)
  /\ Advance
  /\ UNCHANGED <<mode, avail, kick, limit, pc, req_in_progress, outstanding>>

(* The backend will answer later.                                          *)
RecvAsync ==
  /\ InLoop /\ Free /\ avail[next].type \in {"in", "out"}
  /\ mode = "HTTP"
  /\ req' = next /\ req_in_progress' = TRUE
  /\ outstanding' = outstanding \cup {next}
  /\ Advance
  /\ UNCHANGED <<backendVars, avail, kick, limit, pc, used>>

\* Mutated form: the queue is not looked at again.
ReqCb_NoRestart(i) ==
  /\ pc = "idle" /\ i \in outstanding
  /\ outstanding' = outstanding \ {i}
  /\ ReqEnd(req)
  /\ req_in_progress' = FALSE
  /\ UNCHANGED <<mode, avail, kick, last_avail_idx, limit, pc, req>>

(* virtio_block_req_cb, when the backend is done with chain i: the request is
   answered from req, and queue_notify handles the next requests.          *)
ReqCb(i) ==
  /\ pc = "idle" /\ i \in outstanding
  /\ outstanding' = outstanding \ {i}
  /\ ReqEnd(req)
  /\ req_in_progress' = FALSE
  /\ limit' = Len(avail) /\ pc' = "loop"
  /\ UNCHANGED <<mode, avail, kick, last_avail_idx, req>>

RecvRequest == RecvBusy \/ RecvShort \/ RecvUnsupported \/ RecvSync \/ RecvAsync

Next ==
  \/ \E c \in Offered : Publish(c)
  \/ QueueNotify \/ LoopEnd \/ RecvRequest
  \/ \E i \in outstanding : ReqCb(i)

Spec == Init /\ [][Next]_vars

-----------------------------------------------------------------------------
(* req is the slot of the "request in progress": while the backend works on a
   chain the slot names that chain, and no other request is begun.         *)
SlotHeld ==
  /\ req_in_progress = (outstanding # {})
  /\ outstanding \subseteq {req}

(* Chains are answered once and in the order they were published, the
   asynchronous ones too.                                                  *)
AnsweredInOrder == \A j, k \in DOMAIN used : j < k => used[j].id < used[k].id

(* The chains answered with OK before answer j that wrote sector s.        *)
WritersBefore(j, s) ==
  {used[k].id : k \in {k \in 1..j-1 :
     LET c == avail[used[k].id]
     IN  used[k].status = "OK" /\ c.type = "out" /\ s \in c.sector..c.sector+c.n-1}}

(* A read returns, for each sector, what the last write answered with OK left
   there; a write answered with an error leaves nothing.                   *)
ReadsAcknowledged ==
  \A j \in DOMAIN used :
    LET c == avail[used[j].id]
    IN  c.type = "in" =>
          \A k \in 1..c.n :
            LET w == WritersBefore(j, c.sector + (k - 1))
            IN  used[j].data[k] = IF w = {} THEN 0 ELSE CHOOSE i \in w : \A i2 \in w : i2 <= i

(* The image is left alone unless the device was made to write it.         *)
FileUntouched == mode \in {"RO", "SNAPSHOT"} => file = [s \in Sector |-> 0]

(* Every chain whose header can be read is answered.                       *)
EventuallyAnswered ==
  \A i \in 1..MaxRequest :
    (i <= Len(avail) /\ avail[i].type # "short") ~> (\E j \in DOMAIN used : used[j].id = i)
=============================================================================
