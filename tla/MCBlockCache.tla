---------------------------- MODULE MCBlockCache ----------------------------
(* Model values for BlockCache: one prefetch group loads a block alone and the
   next repeats it, so that together they load more blocks than the cache keeps;
   the third block is not prefetched. *)
EXTENDS BlockCache

Groups == <<<<0>>, <<0, 1>>>>
=============================================================================
