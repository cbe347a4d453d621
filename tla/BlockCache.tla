----------------------------- MODULE BlockCache -----------------------------
(***************************************************************************)
(* The block device over HTTP, src/block_net.c: blocks are loaded one by   *)
(* one or in prefetch groups into a cache of least recently used blocks;   *)
(* written data is kept in clusters, copied from a block when first        *)
(* written.  One request at a time is read or written, sector run by       *)
(* sector run, and waits whenever a block is not there.                    *)
(*                                                                         *)
(* The code is single threaded: while bf_rw_async1 runs (bpc "run") nothing *)
(* else happens, and each turn of its loop is a step.  Nothing in this     *)
(* repository calls block_device_init_http, so the client is any user of   *)
(* the BlockDevice interface that works as virtio_block does: it has one   *)
(* request in progress, and may start the next one from the callback of    *)
(* the last.  A sector holds a pair <<sector, version>>: version 0 is what *)
(* the server has.  Data read from outside a block, or from a buffer that  *)
(* has been freed, is Garbage.                                             *)
(***************************************************************************)
EXTENDS Integers, Sequences, SequencesExt, FiniteSets

CONSTANTS
  NBlocks, BlockSize,  \* nb_blocks, block_size in sectors
  ClusterSize,         \* sectors_per_cluster
  CacheMax,            \* n_cached_blocks_max
  Prefetch,            \* "prefetch": the groups of blocks to load at the start
  MaxCount,            \* bound on the sectors of a request
  MaxCacheRequest,          \* bound on the number of requests
  KeepsBuffer          \* whether the client keeps the data of a write that waits

ASSUME SizeAssumption == {NBlocks, BlockSize, ClusterSize, CacheMax} \subseteq Nat \ {0}
ASSUME BoundAssumption == MaxCount \in Nat /\ MaxCacheRequest \in Nat
ASSUME ClientAssumption == KeepsBuffer \in BOOLEAN

Block == 0..NBlocks-1
DiskSector == 0..NBlocks*BlockSize-1
Cluster == {s \div ClusterSize : s \in DiskSector}
Garbage == <<-1, -1>>
NoBlock == -1

VARIABLES
  cached, loaded,   \* cached_blocks, most recently used first; those loaded
  loads,            \* loads under way, each the sequence of blocks it brings
  landed,           \* what is left to update of the load that has arrived
  clusters,         \* contents of the allocated clusters
  bpc,               \* "idle", "run", "wait", "ended" (the client has control)
  request,          \* is_write, first sector, sector_count, has it waited
  sector_index, cur_block_num,
  io,               \* what has been read so far
  version,          \* the number of requests so far
  disk              \* what the sectors should hold

cacheVars == <<cached, loaded, loads, landed>>
bcReqVars == <<bpc, request, sector_index, cur_block_num, io>>
bcvars == <<cacheVars, clusters, bcReqVars, version, disk>>

(* bf_add_block: if the cache is full, loaded blocks are freed from the end
   until it is not; blocks that are loading stay.                          *)
Evict(s) ==
  LET excess == (Len(s) - CacheMax) + 1
      LoadedAfter(i) == Cardinality({j \in i+1..Len(s) : s[j] \in loaded})
      kept == {s[i] : i \in {j \in 1..Len(s) : s[j] \notin loaded \/ LoadedAfter(j) >= excess}}
  IN  SelectSeq(s, LAMBDA b : b \in kept)
AddBlock(s, b) == <<b>> \o Evict(s)

(* bf_find_block moves what it finds to the front.                         *)
MoveToFront(s, b) == <<b>> \o SelectSeq(s, LAMBDA x : x # b)

(* bf_start_load_prefetch_group: a group loads the blocks no earlier group
   has asked for, each once.                                               *)
GroupLoad(g) ==
  LET earlier == UNION {ToSet(Prefetch[h]) : h \in 1..g-1}
  IN  FoldLeft(LAMBDA s, b : IF b \in earlier \cup ToSet(s) THEN s ELSE Append(s, b),
               <<>>, Prefetch[g])

(* bf_init_onload: nothing is loaded, so the groups' blocks are all added. *)
BcInit ==
  /\ cached = FoldLeft(MoveToFront, <<>>, FlattenSeq(Prefetch)) /\ loaded = {}
  /\ loads = {GroupLoad(g) : g \in DOMAIN Prefetch} \ {<<>>} /\ landed = <<>>
  /\ clusters = [c \in {} |-> 0]
  /\ bpc = "idle" /\ sector_index = 0 /\ cur_block_num = NoBlock /\ io = <<>>
  /\ request = [is_write |-> FALSE, first |-> 0, count |-> 0, waited |-> FALSE]
  /\ version = 0
  /\ disk = [s \in DiskSector |-> <<s, 0>>]

-----------------------------------------------------------------------------
(* bf_read_async and bf_write_async, called when nothing runs or when the last
   request has just ended: from its callback, or by the loop of queue_notify. *)
Start(is_write, first, count) ==
  /\ \/ bpc = "ended"
     \/ bpc = "idle" /\ landed = <<>>
  /\ version < MaxCacheRequest
  /\ first + count <= NBlocks * BlockSize
  /\ request' = [is_write |-> is_write, first |-> first, count |-> count, waited |-> FALSE]
  /\ sector_index' = 0 /\ io' = <<>>
  /\ version' = version + 1
  /\ bpc' = "run"
  /\ UNCHANGED <<cacheVars, clusters, cur_block_num, disk>>

sector_num == request.first + sector_index
cluster_num == sector_num \div ClusterSize
block_num == sector_num \div BlockSize
Running == bpc = "run" /\ sector_index < request.count

(* What a block's buffer holds for sector s.                               *)
BlockData(b, s) == IF s \div BlockSize = b THEN <<s, 0>> ELSE Garbage
(* What the client's buffer holds for sector s.                            *)
WriteData(s) == IF request.waited /\ ~KeepsBuffer THEN Garbage ELSE <<s, version>>
(* The sectors up to the end of the unit (cluster or block) that holds sector_num. *)
RunLength(size) ==
  LET left == request.count - sector_index
      room == size - (sector_num % size)
  IN  IF left < room THEN left ELSE room

(* bf_rw_async1: the sectors are in a cluster: read or write them there.   *)
RunCluster ==
  /\ Running /\ cluster_num \in DOMAIN clusters
  /\ LET n == RunLength(ClusterSize)
         offset == sector_num % ClusterSize
         c == clusters[cluster_num]
     IN  /\ sector_index' = sector_index + n
         /\ IF request.is_write
              THEN /\ clusters' = [clusters EXCEPT ![cluster_num] =
                        [o \in 0..ClusterSize-1 |->
                           IF o \in offset..offset+n-1
                             THEN WriteData(sector_num + (o - offset)) ELSE c[o]]]
                   /\ UNCHANGED io
              ELSE /\ io' = io \o [i \in 1..n |-> c[offset + (i - 1)]]
                   /\ UNCHANGED clusters
  /\ UNCHANGED <<cacheVars, bpc, request, cur_block_num, version, disk>>

\* Mutated form: the clusters are not looked at.
InBlock_IgnoresClusters == Running

InBlock == Running /\ cluster_num \notin DOMAIN clusters

(* The sectors are in a loaded block, and are read.                        *)
ReadBlock ==
  /\ InBlock /\ block_num \in loaded /\ ~request.is_write
  /\ LET n == RunLength(BlockSize)
     IN  /\ sector_index' = sector_index + n
         /\ io' = io \o [i \in 1..n |-> BlockData(block_num, sector_num + (i - 1))]
  /\ cached' = MoveToFront(cached, block_num)
  /\ cur_block_num' = NoBlock
  /\ UNCHANGED <<loaded, loads, landed, clusters, bpc, request, version, disk>>

(* They are to be written: a cluster is allocated with the block's data, and
   the next turn writes to it.                                             *)
AllocateCluster ==
  /\ InBlock /\ block_num \in loaded /\ request.is_write
  /\ LET first == cluster_num * ClusterSize
         base == block_num * BlockSize + (first % BlockSize)
         new == [o \in 0..ClusterSize-1 |-> BlockData(block_num, base + o)]
     IN  clusters' = [c \in DOMAIN clusters \cup {cluster_num} |->
                        IF c = cluster_num THEN new ELSE clusters[c]]
  /\ cached' = MoveToFront(cached, block_num)
  /\ cur_block_num' = block_num
  /\ UNCHANGED <<loaded, loads, landed, bpc, request, sector_index, io, version, disk>>

(* The block is loading: wait.                                             *)
WaitForBlock ==
  /\ InBlock /\ block_num \in ToSet(cached) \ loaded
  /\ cached' = MoveToFront(cached, block_num)
  /\ cur_block_num' = block_num
  /\ bpc' = "wait" /\ request' = [request EXCEPT !.waited = TRUE]
  /\ UNCHANGED <<loaded, loads, landed, clusters, sector_index, io, version, disk>>

\* Mutated form: the least recently used blocks are freed, loading or not.
StartLoad_EvictsLoading ==
  /\ InBlock /\ block_num \notin ToSet(cached)
  /\ cached' = <<block_num>> \o SubSeq(cached, 1, CacheMax - 1)
  /\ loaded' = loaded \cap ToSet(cached')
  /\ loads' = loads \cup {<<block_num>>}
  /\ cur_block_num' = block_num
  /\ bpc' = "wait" /\ request' = [request EXCEPT !.waited = TRUE]
  /\ UNCHANGED <<landed, clusters, sector_index, io, version, disk>>

(* The block is not there: start to load it and wait.                      *)
StartLoad ==
  /\ InBlock /\ block_num \notin ToSet(cached)
  /\ cached' = AddBlock(cached, block_num)
  /\ loaded' = loaded \cap ToSet(cached')
  /\ loads' = loads \cup {<<block_num>>}
  /\ cur_block_num' = block_num
  /\ bpc' = "wait" /\ request' = [request EXCEPT !.waited = TRUE]
  /\ UNCHANGED <<landed, clusters, sector_index, io, version, disk>>

(* All sectors are done: the request ends, by the return value if it never
   had to wait and by the callback if it had.                              *)
End ==
  /\ bpc = "run" /\ sector_index = request.count
  /\ bpc' = "ended"
  /\ disk' = IF request.is_write
               THEN [s \in DiskSector |->
                       IF s \in request.first..request.first+request.count-1
                         THEN <<s, version>> ELSE disk[s]]
               ELSE disk
  /\ UNCHANGED <<cacheVars, clusters, request, sector_index, cur_block_num, io, version>>

(* The client has no other request for now.                                *)
Leave ==
  /\ bpc = "ended" /\ bpc' = "idle"
  /\ UNCHANGED <<cacheVars, clusters, request, sector_index, cur_block_num, io, version, disk>>

-----------------------------------------------------------------------------
(* A load arrives (bf_read_onload, bf_prefetch_group_onload).              *)
OnLoad(blocks) ==
  /\ bpc \in {"idle", "wait"} /\ landed = <<>>
  /\ blocks \in loads
  /\ loads' = loads \ {blocks}
  /\ landed' = blocks
  /\ UNCHANGED <<cached, loaded, clusters, bcReqVars, version, disk>>

\* Mutated form: the request is continued when any block arrives.
UpdateBlock_AnyBlock ==
  /\ bpc \in {"idle", "wait"} /\ landed # <<>>
  /\ landed' = Tail(landed)
  /\ loaded' = loaded \cup {Head(landed)}
  /\ bpc' = "run"
  /\ UNCHANGED <<cached, loads, clusters, request, sector_index, cur_block_num, io, version, disk>>

(* bf_update_block for the next of its blocks; the request that waits for the
   block goes on, and runs until it ends or waits again.                   *)
UpdateBlock ==
  /\ bpc \in {"idle", "wait"} /\ landed # <<>>
  /\ landed' = Tail(landed)
  /\ loaded' = loaded \cup {Head(landed)}
  /\ bpc' = IF Head(landed) = cur_block_num THEN "run" ELSE bpc
  /\ UNCHANGED <<cached, loads, clusters, request, sector_index, cur_block_num, io, version, disk>>

Turn == RunCluster \/ ReadBlock \/ AllocateCluster \/ WaitForBlock \/ StartLoad \/ End \/ Leave

BcNext ==
  \/ \E w \in BOOLEAN, first \in DiskSector, count \in 0..MaxCount : Start(w, first, count)
  \/ Turn
  \/ \E blocks \in loads : OnLoad(blocks)
  \/ UpdateBlock

BcSpec == BcInit /\ [][BcNext]_bcvars

-----------------------------------------------------------------------------
Pending == UNION {ToSet(l) : l \in loads} \cup ToSet(landed)

(* The assertion of bf_update_block, and more: the blocks that loads under way
   will fill are in the cache, loading, however the cache was emptied in the
   meantime; and no block is loading that no load will fill.  A block freed or
   loaded twice would be written after it is gone.                         *)
LoadTargetsLive ==
  /\ Pending = ToSet(cached) \ loaded
  /\ \A l1, l2 \in loads : l1 # l2 => ToSet(l1) \cap ToSet(l2) = {}
  /\ \A l \in loads : ToSet(l) \cap ToSet(landed) = {}

(* Only a request that waits is continued by a block, and by the block it
   waits for: cur_block_num, which a write leaves behind when it ends, never
   makes bf_update_block run a request that has ended ("no request in
   progress").                                                             *)
ContinuesOnlyWaiting ==
  [][UpdateBlock /\ bpc' = "run" => bpc = "wait" /\ Head(landed) = block_num]_bcvars

(* A request that ends has moved exactly its sectors, and a read returns what
   the last write of each sector left, wherever the data now lives: cluster,
   cached block, or a block loaded again after it was freed.               *)
ReadsSeeWrites ==
  [][bpc = "run" /\ bpc' = "ended" /\ ~request.is_write =>
       io = [i \in 1..request.count |-> disk[request.first + (i - 1)]]]_bcvars

(* The sectors a read gets right: all but those of a written cluster that the
   read enters from an unwritten one of the same block, which ReadBlock copies
   from the block.                                                         *)
Mixed(s) ==
  /\ s \div ClusterSize \in DOMAIN clusters
  /\ \E t \in request.first..s-1 :
       t \div BlockSize = s \div BlockSize /\ t \div ClusterSize \notin DOMAIN clusters
ReadsSeeWritesUnlessMixed ==
  [][bpc = "run" /\ bpc' = "ended" /\ ~request.is_write =>
       /\ Len(io) = request.count
       /\ \A i \in 1..request.count :
            LET s == request.first + (i - 1) IN ~Mixed(s) => io[i] = disk[s]]_bcvars

(* Between requests, the clusters hold what was written and, around it, what
   the server has.                                                         *)
ClustersHoldDisk ==
  bpc \in {"idle", "ended"} =>
    \A c \in DOMAIN clusters : \A o \in 0..ClusterSize-1 :
      c * ClusterSize + o \in DiskSector => clusters[c][o] = disk[c * ClusterSize + o]

(* Loads fill live blocks and clusters hold the disk, through every eviction,
   prefetch and write that bf_rw_async1 and the callbacks interleave. *)
CacheSound == LoadTargetsLive /\ ClustersHoldDisk

(* Every request ends.                                                     *)
EventuallyEnds == (bpc = "run") ~> (bpc = "ended")

(* A request is continued when and only when its block has come, until it ends
   (bf_update_block, bf_rw_async1). *)
RequestsContinue == ContinuesOnlyWaiting /\ EventuallyEnds
=============================================================================
