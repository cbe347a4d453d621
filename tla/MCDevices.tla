----------------------------- MODULE MCDevices ------------------------------
(***************************************************************************)
(* The block device, the block cache of its HTTP backend and the console's *)
(* input, one at a time: part says which component runs, the others stay   *)
(* in their initial states.                                                *)
(***************************************************************************)
EXTENDS VirtioBlock, BlockCache, ConsoleInput

CONSTANT Parts
VARIABLE part

(* One prefetch group loads a block alone and the next repeats it, so that *)
(* together they load more blocks than the cache keeps; the third block is *)
(* not prefetched.                                                         *)
Groups == <<<<0>>, <<0, 1>>>>

DevicesInit ==
    /\ part \in Parts
    /\ Init /\ BcInit /\ ConInit
    /\ part # "block" => mode = "RW"
    /\ part # "console" => console /\ typed = [i \in 1 .. MaxKeys |-> CtrlA]

DevicesNext ==
    /\ UNCHANGED part
    /\ \/ part = "block" /\ Next /\ UNCHANGED <<bcvars, convars>>
       \/ part = "cache" /\ BcNext /\ UNCHANGED <<vars, convars>>
       \/ part = "console" /\ ConNext /\ UNCHANGED <<vars, bcvars>>

(* The notification arrives (PendingNotify), queue_notify runs on, and the *)
(* backend answers (BlockCache).  The loop of the cache runs on, and a     *)
(* load that was asked for arrives: on an error the callbacks end the      *)
(* program.                                                                *)
DevicesSpec ==
    /\ DevicesInit /\ [][DevicesNext]_<<part, vars, bcvars, convars>>
    /\ WF_vars(part = "block" /\ QueueNotify)
    /\ WF_vars(part = "block" /\ (LoopEnd \/ RecvRequest))
    /\ WF_vars(part = "block" /\ \E i \in outstanding : ReqCb(i))
    /\ WF_bcvars(part = "cache" /\ Turn)
    /\ WF_bcvars(part = "cache" /\ UpdateBlock)
    /\ WF_bcvars(part = "cache" /\ \E blocks \in loads : OnLoad(blocks))
=============================================================================
