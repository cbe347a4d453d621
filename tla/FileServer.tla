------------------------------ MODULE FileServer ------------------------------
(***************************************************************************)
(* The 9P file system device (virtio_9p_recv_request and its helpers,      *)
(* virtio.c): the table of fids, the requests, and fs_open, the one call   *)
(* to the file system that may answer later, through virtio_9p_open_cb.    *)
(*                                                                         *)
(* A request is [op, fid, fid2, at, res, short, tag]: res is what the file *)
(* system's function returns (negative for an error), at the node a walk   *)
(* ends at, short tells that the message ends too early to be decoded.     *)
(* Data, names and attributes are left out.  The file system (fs.h) is     *)
(* external: it hands out files and takes them back with fs_delete, and    *)
(* gives an address that was freed out again.                              *)
(***************************************************************************)
EXTENDS Integers, Sequences, FiniteSets, FiniteSetsExt

CONSTANTS Fids, Nodes, Root,
          Files,       \* addresses of FSFile
          Requests,    \* requests of the guest, without their tags
          MaxAsked     \* bound on the requests that wait for an answer

NoFile == "null"
NoRequest == [op |-> "none", fid |-> NoFile, fid2 |-> NoFile, at |-> Root,
              res |-> 0, short |-> FALSE, tag |-> 0]
Tags == 1 .. MaxAsked

(* There is memory for one file more than there are fids; the file system  *)
(* has addresses and nodes of its own.                                     *)
ASSUME FilesAssumption ==
    /\ IsFiniteSet(Fids) /\ IsFiniteSet(Files) /\ Cardinality(Fids) < Cardinality(Files)
    /\ NoFile \notin Files \cup Nodes /\ Root \in Nodes /\ MaxAsked \in Nat
    /\ Requests \subseteq [op : STRING, fid : Fids, fid2 : Fids, at : Nodes, res : Int,
                           short : BOOLEAN, tag : {0}]

VARIABLES fid_list, \* fid -> file, NoFile for a fid that is not in the list
          live,     \* file -> its node, NoFile when it is not allocated
          opening,  \* the request req_in_progress is about, or NoRequest
          avail,    \* requests between last_avail_idx and the guest's index
          run,      \* those that the running queue_notify has yet to take
          kicked,     \* a notification is on its way
          asked,    \* tags the guest has in use, in the order of its requests
          view      \* history: fid -> node, as the replies tell the guest

p9vars == <<fid_list, live, opening, avail, run, kicked, asked, view>>
req_in_progress == opening # NoRequest

P9Init ==
    /\ fid_list = [f \in Fids |-> NoFile] /\ live = [f \in Files |-> NoFile]
    /\ opening = NoRequest /\ avail = <<>> /\ run = 0 /\ kicked = FALSE
    /\ asked = <<>> /\ view = [f \in Fids |-> NoFile]

-----------------------------------------------------------------------------
(* An outcome is what a request does to the fids and the files, and its    *)
(* answer: "ok", "error", or "later" when the callback is to give it.      *)
Outcome(ans) == [ans |-> ans, fids |-> fid_list, live |-> live]

(* fs_delete is called with a file that the table holds. *)
fs_delete(l, f) == [l EXCEPT ![f] = NoFile]
NewFile == CHOOSE f \in Files : live[f] = NoFile

fid_find(fid) == fid_list[fid]

\* Mutated form: the file a fid had is forgotten, not deleted.
fid_set_Forgets(fid, file, l) ==
    [ans |-> "ok", fids |-> [fid_list EXCEPT ![fid] = file], live |-> l]
(* The fid is made to stand for file, in the place of the one it had. *)
fid_set(fid, file, l) ==
    [ans |-> "ok", fids |-> [fid_list EXCEPT ![fid] = file],
     live |-> IF fid_find(fid) # NoFile THEN fs_delete(l, fid_find(fid)) ELSE l]

fid_delete(fid) ==
    [ans |-> "ok", fids |-> [fid_list EXCEPT ![fid] = NoFile],
     live |-> IF fid_find(fid) # NoFile THEN fs_delete(live, fid_find(fid)) ELSE live]

(* Requests about one file: EPROTO without the file, else what the file    *)
(* system says.  For some any result but zero is an error, for others only *)
(* a negative one.                                                         *)
Known(fid) == fid_find(fid) # NoFile
ZeroIsOk(r) == Outcome(IF Known(r.fid) /\ r.res = 0 THEN "ok" ELSE "error")
CountIsOk(r) == Outcome(IF Known(r.fid) /\ r.res >= 0 THEN "ok" ELSE "error")

statfs(r) == Outcome("ok")
lcreate(r) == ZeroIsOk(r)
symlink(r) == ZeroIsOk(r)
mknod(r) == ZeroIsOk(r)
readlink(r) == ZeroIsOk(r)
getattr(r) == ZeroIsOk(r)
setattr(r) == ZeroIsOk(r)
xattrwalk(r) == Outcome("error")
readdir(r) == CountIsOk(r)
fsync(r) == Outcome("ok")
lock(r) == CountIsOk(r)
getlock(r) == CountIsOk(r)
link(r) == IF Known(r.fid2) THEN ZeroIsOk(r) ELSE Outcome("error")
mkdir(r) == ZeroIsOk(r)
renameat(r) == IF Known(r.fid2) THEN ZeroIsOk(r) ELSE Outcome("error")
unlinkat(r) == ZeroIsOk(r)
version(r) == Outcome("ok")
flush(r) == Outcome("ok")
read(r) == CountIsOk(r)
write(r) == CountIsOk(r)
clunk(r) == fid_delete(r.fid)

attach(r) ==
    IF r.res # 0 THEN Outcome("error")
    ELSE fid_set(r.fid, NewFile, [live EXCEPT ![NewFile] = Root])

(* The new file replaces the one of fid2, which may be the fid walked from. *)
walk(r) ==
    IF ~Known(r.fid) \/ r.res < 0 THEN Outcome("error")
    ELSE fid_set(r.fid2, NewFile, [live EXCEPT ![NewFile] = r.at])

(* fs_open answers at once, or starts something and returns a positive     *)
(* value: then the callback answers.                                       *)
lopen(r) ==
    CASE ~Known(r.fid) \/ r.res < 0 -> Outcome("error")
      [] Known(r.fid) /\ r.res = 0 -> Outcome("ok")
      [] OTHER -> Outcome("later")

handle(r) ==
    IF r.short THEN Outcome("error")
    ELSE
    CASE r.op = "statfs" -> statfs(r)      [] r.op = "lopen" -> lopen(r)
      [] r.op = "lcreate" -> lcreate(r)    [] r.op = "symlink" -> symlink(r)
      [] r.op = "mknod" -> mknod(r)        [] r.op = "readlink" -> readlink(r)
      [] r.op = "getattr" -> getattr(r)    [] r.op = "setattr" -> setattr(r)
      [] r.op = "xattrwalk" -> xattrwalk(r) [] r.op = "readdir" -> readdir(r)
      [] r.op = "fsync" -> fsync(r)        [] r.op = "lock" -> lock(r)
      [] r.op = "getlock" -> getlock(r)    [] r.op = "link" -> link(r)
      [] r.op = "mkdir" -> mkdir(r)        [] r.op = "renameat" -> renameat(r)
      [] r.op = "unlinkat" -> unlinkat(r)  [] r.op = "version" -> version(r)
      [] r.op = "attach" -> attach(r)      [] r.op = "flush" -> flush(r)
      [] r.op = "walk" -> walk(r)          [] r.op = "read" -> read(r)
      [] r.op = "write" -> write(r)        [] r.op = "clunk" -> clunk(r)
      [] OTHER -> Outcome("error")

-----------------------------------------------------------------------------
(* What the guest makes of a reply, by the protocol. *)
Seen(r, ok) ==
    IF ~ok THEN view
    ELSE CASE r.op = "attach" -> [view EXCEPT ![r.fid] = Root]
           [] r.op = "walk" -> [view EXCEPT ![r.fid2] = r.at]
           [] r.op = "clunk" -> [view EXCEPT ![r.fid] = NoFile]
           [] OTHER -> view

(* send_reply and send_error: the chain goes back with the request's tag. *)
send_reply(r, ok) ==
    /\ asked' = SelectSeq(asked, LAMBDA t : t # r.tag)
    /\ view' = Seen(r, ok)

(* The guest puts a request in the ring, under a tag that is free, and     *)
(* notifies the device.                                                    *)
Ask(r) ==
    LET tag == Min(Tags \ Range(asked))
    IN /\ Len(asked) < MaxAsked
       /\ avail' = Append(avail, [r EXCEPT !.tag = tag])
       /\ asked' = Append(asked, tag)
       /\ kicked' = TRUE
       /\ UNCHANGED <<fid_list, live, opening, run, view>>

(* queue_notify: the requests in the ring now are to be looked at. *)
QueueNotify ==
    /\ kicked /\ run = 0
    /\ kicked' = FALSE /\ run' = Len(avail)
    /\ UNCHANGED <<fid_list, live, opening, avail, asked, view>>

\* Mutated form: a request is taken while an open is in progress.
Busy_Never == FALSE
(* recv_request refuses everything while an open is in progress. *)
Busy == req_in_progress

(* One turn of queue_notify's loop.  A request that is refused stays in    *)
(* the ring and ends the loop.                                             *)
RecvRequest ==
    /\ run > 0
    /\ UNCHANGED kicked
    /\ IF Busy
       THEN run' = 0 /\ UNCHANGED <<fid_list, live, opening, avail, asked, view>>
       ELSE LET r == Head(avail)
                o == handle(r)
            IN /\ run' = run - 1 /\ avail' = Tail(avail)
               /\ fid_list' = o.fids /\ live' = o.live
               /\ IF o.ans = "later"
                  THEN opening' = r /\ UNCHANGED <<asked, view>>
                  ELSE opening' = opening /\ send_reply(r, o.ans = "ok")

(* The requests virtio_9p_open_cb goes on with. *)
Resumed == Len(avail)

(* virtio_9p_open_cb: the answer, and the requests that had to wait. *)
OpenDone(ok) ==
    /\ req_in_progress /\ run = 0
    /\ send_reply(opening, ok)
    /\ opening' = NoRequest
    /\ run' = Resumed
    /\ UNCHANGED <<fid_list, live, avail, kicked>>

P9Next ==
    \/ \E r \in Requests : Ask(r)
    \/ QueueNotify
    \/ RecvRequest
    \/ \E ok \in BOOLEAN : OpenDone(ok)

-----------------------------------------------------------------------------
(* The replies come in the order of the ring, also those of requests that  *)
(* arrive while an open is in progress: the next one is always that of the *)
(* oldest tag in use.                                                      *)
RepliesInOrder ==
    [][Len(asked') < Len(asked) => asked' = Tail(asked)]_asked

(* The fids and the files of the file system correspond one to one: no     *)
(* file is lost when a fid is reused, walked onto itself or clunked, and   *)
(* no fid is left with a file that was deleted.                            *)
FilesHeld ==
    /\ \A f \in Files : live[f] # NoFile =>
          Cardinality({i \in Fids : fid_list[i] = f}) = 1
    /\ \A i \in Fids : fid_list[i] # NoFile => live[fid_list[i]] # NoFile

(* A fid stands for the file that the replies so far have told the guest,  *)
(* whatever failed on the way; what is being opened is still there when    *)
(* the callback comes.                                                     *)
FidsFollowReplies ==
    /\ \A i \in Fids :
          view[i] = IF fid_list[i] = NoFile THEN NoFile ELSE live[fid_list[i]]
    /\ req_in_progress => fid_list[opening.fid] # NoFile

(* The fids, the files behind them and what the guest was told of both     *)
(* stay together through every request and every open that is pending.     *)
FidsSound == FilesHeld /\ FidsFollowReplies

(* Every request is answered in the end, although the loop stops at the    *)
(* first one it may not take and the guest notifies only once.             *)
EventuallyReplied ==
    \A t \in Tags : t \in Range(asked) ~> t \notin Range(asked)

(* The requests are answered, all of them and in their order, although     *)
(* virtio_9p_recv_request turns away what comes while an open is pending.  *)
RepliesComplete == RepliesInOrder /\ EventuallyReplied
=============================================================================
