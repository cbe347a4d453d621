------------------------------ MODULE MCRings -------------------------------
(***************************************************************************)
(* The rings, the interrupt and the 9P device, one at a time: part says    *)
(* which component runs, the others stay in their initial states.          *)
(*                                                                         *)
(* Rings of two entries with indices that wrap after two rounds, so that   *)
(* they fill, empty and wrap at every place; two threads that consume four *)
(* descriptors, so that one can be consumed at each step of the handling   *)
(* of an earlier one, and one more after that.                             *)
(***************************************************************************)
EXTENDS Interrupt, VirtQueue, FileServer

VARIABLE part

(* Every kind of request once, on fid 1; those that make, walk, open and   *)
(* drop fids with the cases that their replies tell apart.                 *)
Req(op) == [NoRequest EXCEPT !.op = op, !.fid = 1, !.fid2 = 2]
MCRequests ==
    {Req(op) : op \in {"statfs", "xattrwalk", "fsync", "flush", "version", "unknown"}}
    \cup {[Req("lcreate") EXCEPT !.res = 0], [Req("symlink") EXCEPT !.res = -1],
          [Req("mknod") EXCEPT !.res = 0], [Req("readlink") EXCEPT !.res = -1],
          Req("getattr"), [Req("setattr") EXCEPT !.short = TRUE], [Req("readdir") EXCEPT !.res = 1],
          [Req("lock") EXCEPT !.res = 1], [Req("getlock") EXCEPT !.res = 1], Req("link"),
          [Req("mkdir") EXCEPT !.res = -1], Req("renameat"), Req("unlinkat"),
          [Req("read") EXCEPT !.res = 1], [Req("write") EXCEPT !.res = -1]}
    \cup {[Req("attach") EXCEPT !.fid = f] : f \in Fids} \cup {[Req("attach") EXCEPT !.res = -1]}
    \cup {[Req("walk") EXCEPT !.fid = f, !.fid2 = g, !.at = "x", !.res = 1] : f, g \in Fids}
    \cup {[Req("walk") EXCEPT !.res = -1]}
    \cup {[Req("lopen") EXCEPT !.res = res] : res \in {-1, 0, 1}}
    \cup {[Req("clunk") EXCEPT !.fid = f] : f \in Fids}

RingsInit == part \in {"interrupt", "rings", "files"} /\ Init /\ VqInit /\ P9Init

RingsNext ==
    /\ UNCHANGED part
    /\ \/ part = "interrupt" /\ Next /\ UNCHANGED <<vqvars, p9vars>>
       \/ part = "rings" /\ VqNext /\ UNCHANGED <<vars, p9vars>>
       \/ part = "files" /\ P9Next /\ UNCHANGED <<vars, vqvars>>

(* The 9P queue is served, and the file system calls back. *)
RingsSpec ==
    /\ RingsInit /\ [][RingsNext]_<<part, vars, vqvars, p9vars>>
    /\ WF_p9vars(part = "files" /\ QueueNotify) /\ WF_p9vars(part = "files" /\ RecvRequest)
    /\ WF_p9vars(part = "files" /\ \E ok \in BOOLEAN : OpenDone(ok))
=============================================================================
