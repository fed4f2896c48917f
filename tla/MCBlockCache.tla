---------------------------- MODULE MCBlockCache ----------------------------
(* The block cache on a small volume. *)
EXTENDS BlockCache

mc_Values   == {"old", "new"}
mc_BadSets  == {{}, {1}, {2}}
mc_NoBad    == {{}}
mc_Media    == {[n \in 0 .. VLen - 1 |-> IF n % 2 = 0 THEN "old" ELSE "new"]}

(***************************************************************************)
(* States that differ in the names of the buckets, in what a free bucket   *)
(* last held, in the order of a hash list that holds a block once, or in   *)
(* the last call's answer behave alike: the view lists the buckets along   *)
(* the ring from the tail.                                                 *)
(***************************************************************************)
Seen(b) ==
    LET bkt   == cache.bkt[b]
        lists == {h \in DOMAIN cache.hash : b \in ToSet(cache.hash[h])}
    IN  IF bkt.inuse THEN <<bkt, lists>> ELSE <<bkt.count, Cardinality(lists) <= 1>>

Ring == LET walk[i \in 0 .. CacheSz - 1] ==
              IF i = 0 THEN cache.tail ELSE cache.cprev[walk[i - 1]]
        IN  [i \in 0 .. CacheSz - 1 |-> Seen(walk[i])]

RingView == <<medium, cached, Ring, ChainIsRing, Indexed>>
=============================================================================
