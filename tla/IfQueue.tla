------------------------------- MODULE IfQueue -------------------------------
(***************************************************************************)
(* The output queues of slirp (if.c): if_output sorts a packet into the    *)
(* list of its session, on if_fastq or if_batchq, and if_start sends from  *)
(* them while the network device has a buffer.                             *)
(*                                                                         *)
(* A session is a socket with its packets, [so, pkts]; the packets without *)
(* a socket are the session NoSocket.  The packets of a session are        *)
(* numbered modulo PacketNumbers.  next_m, a pointer into if_batchq, is    *)
(* the socket of the session it points to, or AtHead for the list itself.  *)
(***************************************************************************)
EXTENDS Integers, Sequences, FiniteSets, SequencesExt, FiniteSetsExt

CONSTANTS IfSockets,   \* sockets of TCP and UDP
          LowDelay,    \* those with IPTOS_LOWDELAY
          NoSocket,    \* NULL
          DownQueued,  \* 6 in the code: packets queued without a pause ...
          DownSent,    \* 3: ... and sent, before a session is downgraded
          MaxQueued    \* bound on the packets a session has waiting

Sessions == IfSockets \cup {NoSocket}
PacketNumbers == MaxQueued + 1
AtHead == "if_batchq"

VARIABLES fastq, batchq,  \* sequences of sessions
          next_m,
          so_sent,        \* so_nqueued - so_queued, up to DownQueued
          made, left,     \* number of the next packet queued, and sent
          room,           \* slirp_can_output
          starting,       \* if_start is at its label again
          passed,         \* history: batch packets of t sent, up to 2, since
                          \* s was last served while both stayed on if_batchq
          jumped          \* history: a list moved within if_batchq

NoTurns == [p \in Sessions \X Sessions |-> 0]
history == <<passed, jumped>>
ifvars == <<fastq, batchq, next_m, so_sent, made, left, room, starting, history>>

IfInit ==
    /\ fastq = <<>> /\ batchq = <<>> /\ next_m = AtHead
    /\ so_sent = [s \in Sessions |-> 0]
    /\ made = [s \in Sessions |-> 0] /\ left = [s \in Sessions |-> 0]
    /\ room = FALSE /\ starting = FALSE
    /\ passed = NoTurns /\ jumped = FALSE

so_queued(s) ==
    LET in(q) == FoldSeq(LAMBDA x, n : n + (IF x.so = s THEN Len(x.pkts) ELSE 0), 0, q)
    IN in(fastq) + in(batchq)
if_queued == FoldSet(LAMBDA s, n : n + so_queued(s), 0, Sessions)

-----------------------------------------------------------------------------
Grown(q, i, n) == [q EXCEPT ![i].pkts = Append(@, n)]
New(s, n) == [so |-> s, pkts |-> <<n>>]
At(q, s) == {i \in DOMAIN q : q[i].so = s}

\* Mutated form: a session that was downgraded is put back on the fast queue.
Joins_FastFirst(s) == s \notin LowDelay /\ At(batchq, s) # {}
(* The search for a list of this session on the batch queue. *)
Joins(s) == At(batchq, s) # {}

(* The queues with the packet in its place: on its list of the batch       *)
(* queue, on the last list of the fast one, or on a new list.              *)
Sorted(s, n) ==
    LET last == Len(fastq)
    IN CASE Joins(s) ->
              [fast |-> fastq, batch |-> Grown(batchq, Max(At(batchq, s)), n)]
         [] ~Joins(s) /\ s \notin LowDelay ->
              [fast |-> fastq, batch |-> Append(batchq, New(s, n))]
         [] OTHER ->
              [fast |-> IF last > 0 /\ fastq[last].so = s THEN Grown(fastq, last, n)
                        ELSE Append(fastq, New(s, n)),
               batch |-> batchq]

Downgraded(s) ==
    /\ s # NoSocket
    /\ so_sent[s] + so_queued(s) + 1 >= DownQueued
    /\ so_sent[s] >= DownSent

(* The list that holds the packet moves to the front of the batch queue,   *)
(* whichever queue it was on.                                              *)
Moved(q, s) ==
    LET last == Len(q.fast)
    IN IF At(q.batch, s) # {}
       THEN LET i == Max(At(q.batch, s))
            IN [q EXCEPT !.batch = <<q.batch[i]>> \o RemoveAt(@, i)]
       ELSE [fast |-> SubSeq(q.fast, 1, last - 1),
             batch |-> <<q.fast[last]>> \o q.batch]

(* if_output, up to its call of if_start. *)
IfOutput(s) ==
    LET sorted == Sorted(s, made[s])
        q == IF Downgraded(s) THEN Moved(sorted, s) ELSE sorted
    IN /\ ~starting /\ so_queued(s) < MaxQueued
       /\ fastq' = q.fast /\ batchq' = q.batch
       /\ made' = [made EXCEPT ![s] = (@ + 1) % PacketNumbers]
       /\ starting' = TRUE
       /\ jumped' = (jumped \/ (Downgraded(s) /\ Joins(s) /\ batchq[1].so # s))
       /\ passed' = IF jumped' THEN NoTurns ELSE passed
       /\ UNCHANGED <<next_m, so_sent, left, room>>

(* The device gets a buffer from the guest (external). *)
Buffer == ~room /\ room' = TRUE
          /\ UNCHANGED <<fastq, batchq, next_m, so_sent, made, left, starting, history>>

(* slirp_select_poll calls if_start when something is queued. *)
Poll == /\ ~starting /\ if_queued > 0
        /\ starting' = TRUE
        /\ UNCHANGED <<fastq, batchq, next_m, so_sent, made, left, room, history>>

-----------------------------------------------------------------------------
(* The list i without the packet sent; a list that is empty goes. *)
Shrunk(q, i) ==
    IF Len(q[i].pkts) > 1 THEN [q EXCEPT ![i].pkts = Tail(@)] ELSE RemoveAt(q, i)

(* The list of if_batchq to serve. *)
Chosen ==
    IF next_m # AtHead THEN Min(At(batchq, next_m)) ELSE 1

(* next_m after list i of the batch queue was served. *)
Following(i) == IF i < Len(batchq) THEN batchq[i + 1].so ELSE AtHead

(* The history of the turns when s is served from if_batchq. *)
Turn(s) ==
    LET stays == Len(batchq[Min(At(batchq, s))].pkts) > 1
        waits(p) == At(batchq, p[1]) # {}
    IN [p \in Sessions \X Sessions |->
          CASE p[1] = s \/ (p[2] = s /\ ~stays) -> 0
            [] p[2] = s /\ p[1] # s /\ stays /\ waits(p) -> Min({passed[p] + 1, 2})
            [] OTHER -> passed[p]]

(* One turn of if_start; a buffer of the device is used up. *)
IfStartTurn ==
    /\ starting
    /\ IF if_queued = 0 \/ ~room
       THEN /\ starting' = FALSE
            /\ UNCHANGED <<fastq, batchq, next_m, so_sent, left, room, passed>>
       ELSE LET fast == fastq # <<>>
                sess == IF fast THEN fastq[1] ELSE batchq[Chosen]
                s    == sess.so
            IN /\ fastq' = IF fast THEN Shrunk(fastq, 1) ELSE fastq
               /\ batchq' = IF fast THEN batchq ELSE Shrunk(batchq, Chosen)
               /\ next_m' = IF fast THEN next_m ELSE Following(Chosen)
               /\ so_sent' = [so_sent EXCEPT ![s] =
                     IF s = NoSocket \/ so_queued(s) = 1 THEN 0
                     ELSE Min({@ + 1, DownQueued})]
               /\ left' = [left EXCEPT ![s] = (Head(sess.pkts) + 1) % PacketNumbers]
               /\ room' = FALSE
               /\ starting' = TRUE
               /\ passed' = IF fast \/ jumped THEN passed ELSE Turn(s)
    /\ UNCHANGED <<made, jumped>>

IfNext ==
    \/ \E s \in Sessions : IfOutput(s)
    \/ Buffer
    \/ Poll
    \/ IfStartTurn

-----------------------------------------------------------------------------
(* The packets of a session leave in the order they were queued, through   *)
(* downgrades and returns to the fast queue ("or we'll send it out of      *)
(* order", if_output): what waits for s, fast queue first, are the next    *)
(* numbers, and the one sent last came just before them.                   *)
SessionInOrder ==
    \A s \in Sessions :
        LET of(q) == FlattenSeq([i \in DOMAIN q |-> IF q[i].so = s THEN q[i].pkts ELSE <<>>])
            waits == of(fastq) \o of(batchq)
        IN /\ \A i \in DOMAIN waits : waits[i] = (left[s] + i - 1) % PacketNumbers
           /\ made[s] = (left[s] + Len(waits)) % PacketNumbers

(* next_m is the list head or a session that waits on if_batchq, and no    *)
(* session has two lists there: the pointer never survives the packet it   *)
(* points to.                                                              *)
NextIsQueued ==
    /\ next_m # AtHead => At(batchq, next_m) # {}
    /\ \A s \in Sessions : Cardinality(At(batchq, s)) <= 1

(* The turns if_start promises: "one packet will be sent from the first    *)
(* session, then one packet from the second session, then one packet from  *)
(* the third, then back to the first".  While two sessions stay on         *)
(* if_batchq, none is served twice between two turns of the other; until a *)
(* session that is there already is "downgraded": on_fastq is never        *)
(* cleared, so if_output moves its list to the front, and next_m with it   *)
(* (jumped, after which passed is not counted).                            *)
TurnsUnlessMoved == \A p \in Sessions \X Sessions : passed[p] <= 1

(* The two queues send each session in order and the sessions in turn, and *)
(* their pointer stays valid.                                              *)
SendsInTurn == SessionInOrder /\ NextIsQueued /\ TurnsUnlessMoved
=============================================================================
