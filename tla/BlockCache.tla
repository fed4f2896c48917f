----------------------------- MODULE BlockCache -----------------------------
(***************************************************************************)
(* The block cache of a volume: libhfs/block.c.                            *)
(*                                                                         *)
(* The buckets form a ring (cnext, cprev) ordered by use; cache.tail is    *)
(* its coldest end and tail.cnext its head.  A hash table of bucket lists  *)
(* finds the bucket of a block.  The pointers are kept as the code keeps   *)
(* them, assignment by assignment, because nothing guarantees that they    *)
(* still form a ring.                                                      *)
(*                                                                         *)
(* Every call chooses the set `bad' of blocks whose physical I/O fails     *)
(* while it runs: a transfer of several blocks stops at the first of them. *)
(***************************************************************************)
EXTENDS Integers, Sequences, FiniteSets, FiniteSetsExt, SequencesExt, TLC

CONSTANTS CacheSz,    \* HFS_CACHESZ
          HashSz,     \* HFS_HASHSZ
          BufSz,      \* HFS_BLOCKBUFSZ
          VLen,       \* hfsvol.vlen
          Values,     \* contents of a block
          Media,      \* bound: what the medium may hold at first
          Writable,   \* bound: the blocks the callers write
          BadSets,    \* bound: the sets of blocks whose I/O may fail in a call
          MaxCount,   \* bound: a bucket's count
          MaxHot      \* bound: number of buckets whose count exceeds 1

ASSUME BlockCacheAssumption ==
    /\ {CacheSz, HashSz, BufSz, VLen, MaxCount} \subseteq Nat \ {0}
    /\ BufSz \in 2 .. CacheSz
    /\ Writable \subseteq 0 .. VLen - 1
    /\ {} \in BadSets
    /\ Media \subseteq [0 .. VLen - 1 -> Values]

VARIABLES medium,     \* the physical blocks of the volume
          cached,     \* vol->cache is not null
          cache,      \* the bcache
          ret         \* what the last call returned

vars == <<medium, cached, cache, ret>>

Blocks  == 0 .. VLen - 1
Bucket  == 0 .. CacheSz - 1
NoValue == "none"
NoBucket == -1

Returned(op, n, v, ok) == [op |-> op, n |-> n, v |-> v, ok |-> ok]

(* b_init: an empty ring in array order and an empty hash table.           *)
EmptyCache ==
    [bkt   |-> [b \in Bucket |->
                  [inuse |-> FALSE, dirty |-> FALSE, count |-> 0, bnum |-> 0,
                   data |-> NoValue]],
     cnext |-> [b \in Bucket |-> (b + 1) % CacheSz],
     cprev |-> [b \in Bucket |-> (b - 1) % CacheSz],
     tail  |-> CacheSz - 1,
     hash  |-> [h \in 0 .. HashSz - 1 |-> << >>]]

Init == /\ medium \in Media
        /\ cached = FALSE
        /\ cache = EmptyCache
        /\ ret = Returned("none", 0, NoValue, TRUE)

-----------------------------------------------------------------------------
(* The state a call works on: the cache, the medium, and whether it can    *)
(* still succeed.                                                          *)
Work(c, m, ok) == [c |-> c, m |-> m, ok |-> ok]

(* The blocks of N that dobuckets transfers together with n: consecutive   *)
(* block numbers, cut into pieces of BufSz.                                *)
RunOf(N, n) ==
    LET first == Max({k \in N : k <= n /\ k - 1 \notin N})
        piece == (n - first) \div BufSz
    IN  {k \in N : /\ k >= first + piece * BufSz
                   /\ k < first + (piece + 1) * BufSz
                   /\ first .. k \subseteq N}

Intact(N, n, bad) == RunOf(N, n) \cap bad = {}

Dirty(c, S) == {b \in S : c.bkt[b].inuse /\ c.bkt[b].dirty}

Numbers(c, S) == {c.bkt[b].bnum : b \in S}

(* Faulty variant: in a run that fails, each bucket whose own block can be *)
(* written becomes clean, also those that the transfer did not get to.     *)
StoreRunsEachClean(w, D, N, bad) ==
    Work([w.c EXCEPT !.bkt = [b \in Bucket |->
             IF b \in D /\ @[b].bnum \notin bad THEN [@[b] EXCEPT !.dirty = FALSE] ELSE @[b]]],
         [n \in Blocks |->
             IF n \in N /\ \A k \in RunOf(N, n) : k <= n => k \notin bad
             THEN w.c.bkt[CHOOSE b \in D : w.c.bkt[b].bnum = n].data
             ELSE w.m[n]],
         \A n \in N : Intact(N, n, bad))

(* flushbuckets: store the dirty buckets of S.  A run that fails leaves    *)
(* its prefix on the medium and all its buckets dirty; later runs are      *)
(* still written.                                                          *)
StoreRuns(w, D, N, bad) ==
    Work([w.c EXCEPT !.bkt = [b \in Bucket |->
             IF b \in D /\ Intact(N, @[b].bnum, bad)
             THEN [@[b] EXCEPT !.dirty = FALSE] ELSE @[b]]],
         [n \in Blocks |->
             IF n \in N /\ \A k \in RunOf(N, n) : k <= n => k \notin bad
             THEN w.c.bkt[CHOOSE b \in D : w.c.bkt[b].bnum = n].data
             ELSE w.m[n]],
         \A n \in N : Intact(N, n, bad))

FlushBuckets(w, S, bad) ==
    StoreRuns(w, Dirty(w.c, S), Numbers(w.c, Dirty(w.c, S)), bad)

(* fillbuckets: read the free buckets of S, for the blocks N, from the     *)
(* medium.                                                                 *)
FillRuns(w, S, N, bad) ==
    Work([w.c EXCEPT !.bkt = [b \in Bucket |->
             IF b \in S /\ Intact(N, @[b].bnum, bad)
             THEN [@[b] EXCEPT !.inuse = TRUE, !.dirty = FALSE,
                               !.data = w.m[w.c.bkt[b].bnum]]
             ELSE @[b]]],
         w.m, \A n \in N : Intact(N, n, bad))

FillBuckets(w, S, bad) == FillRuns(w, S, Numbers(w.c, S), bad)

FindBucket(c, n) ==
    LET slot == c.hash[n % HashSz]
        i    == SelectInSeq(slot, LAMBDA b : c.bkt[b].inuse /\ c.bkt[b].bnum = n)
    IN  IF i = 0 THEN NoBucket ELSE slot[i]

(* The BufSz buckets from b towards the head, the victims of one reuse.    *)
Coldest(c, b) ==
    LET walk[i \in 0 .. BufSz - 1] ==
            IF i = 0 THEN b ELSE c.cprev[walk[i - 1]]
    IN  {walk[i] : i \in 0 .. BufSz - 1}

(* Faulty variant of reuse: the victim's contents are dropped.             *)
ReuseUnflushed(w, b, n, bad) ==
    [w EXCEPT !.c.bkt[b].inuse = FALSE, !.c.bkt[b].count = 1, !.c.bkt[b].bnum = n]

Recycled(f, b, n) ==
    IF f.ok
    THEN [f EXCEPT !.c.bkt[b].inuse = FALSE, !.c.bkt[b].count = 1, !.c.bkt[b].bnum = n]
    ELSE f

Reuse(w, b, n, bad) ==
    Recycled(IF b \in Dirty(w.c, Bucket) THEN FlushBuckets(w, Coldest(w.c, b), bad) ELSE w,
             b, n)

(* Faulty variant: the place is always the cold end.                       *)
CoolFromTail(c, p) == [c |-> c, p |-> c.tail]

(* The loop at the top of cplace: from p on, take one from every count     *)
(* above 1 and stop at the first bucket that has none to give.             *)
RECURSIVE CoolFrom(_, _)
CoolFrom(c, p) ==
    IF c.bkt[p].count > 1
    THEN CoolFrom([c EXCEPT !.bkt[p].count = @ - 1], c.cnext[p])
    ELSE [c |-> c, p |-> p]

(* cplace: take b out of the ring and put it back before p, the bucket     *)
(* where the cooling stopped; a tail that moves leaves its end behind.     *)
Unlink(c, b) ==
    [c EXCEPT !.cprev[c.cnext[b]] = c.cprev[b],
              !.cnext[c.cprev[b]] = c.cnext[b],
              !.tail = IF @ = b THEN c.cprev[b] ELSE @]

LinkBefore(c, b, p) ==
    [c EXCEPT !.cprev[b] = c.cprev[p], !.cnext[b] = p,
              !.cnext[c.cprev[p]] = b, !.cprev[p] = b]

PlaceAt(cool, b) == LinkBefore(Unlink(cool.c, b), b, cool.p)

CPlace(c, b) == PlaceAt(CoolFrom(c, c.cnext[c.tail]), b)

(* Faulty variant: the bucket stays on the list of the block it held.      *)
HPlaceKeepingOld(c, h, b) ==
    IF b \in ToSet(c.hash[h]) THEN c ELSE [c EXCEPT !.hash[h] = <<b>> \o @]

HPlace(c, h, b) ==
    IF c.hash[h] # << >> /\ Head(c.hash[h]) = b
    THEN c
    ELSE [c EXCEPT !.hash = [k \in DOMAIN c.hash |->
              LET rest == SelectSeq(c.hash[k], LAMBDA x : x # b)
              IN  IF k = h THEN <<b>> \o rest ELSE rest]]

(* A hit: the bucket overtakes the one before it once it is used more.     *)
Overtake(c, b, p) ==
    LET c1 == [c EXCEPT !.cnext[c.cprev[p]] = b]
        c2 == [c1 EXCEPT !.cprev[c1.cnext[b]] = p, !.cnext[p] = c1.cnext[b]]
    IN  [c2 EXCEPT !.cprev[b] = c2.cprev[p], !.cprev[p] = b, !.cnext[b] = p,
                   !.tail = IF @ = b THEN p ELSE @]

Used(c, b) == IF c.bkt[b].count > c.bkt[c.cprev[b]].count /\ b # c.cnext[c.tail]
              THEN Overtake(c, b, c.cprev[b])
              ELSE c

Promote(c, b) == Used([c EXCEPT !.bkt[b].count = @ + 1], b)

(* The read-ahead of a miss: recycle further buckets for the blocks after  *)
(* n until half a buffer is gathered, a block is cached or the volume ends.*)
RECURSIVE ReadAhead(_, _, _, _, _)
ReadAhead(w, n, chain, bptr, bad) ==
    LET next == n + Len(chain) IN
    IF \/ Len(chain) >= BufSz \div 2
       \/ next >= VLen
       \/ FindBucket(w.c, next) # NoBucket
    THEN [w |-> w, chain |-> chain]
    ELSE LET r == Reuse(w, bptr, next, bad) IN
         IF r.ok THEN ReadAhead(r, n, Append(chain, bptr), r.c.cprev[bptr], bad)
                 ELSE [w |-> r, chain |-> chain]

(* Place the buckets read ahead, last first.                               *)
RECURSIVE PlaceAll(_, _, _, _)
PlaceAll(c, n, chain, i) ==
    IF i = 1 THEN c
    ELSE PlaceAll(HPlace(CPlace(c, chain[i]), (n + i - 1) % HashSz, chain[i]),
                  n, chain, i - 1)

Failed(w) == [w |-> [w EXCEPT !.ok = FALSE], b |-> NoBucket]

Placed(c, b, n) == HPlace(CPlace(c, b), n % HashSz, b)

(* A miss, stage by stage: recycle the tail's bucket, gather the buckets   *)
(* to read ahead, fill them, and place them.  The chain is in the order of *)
(* its block numbers already when fillchain sorts it.                      *)
Filled(f, chain, b, n) ==
    IF f.ok THEN [w |-> [f EXCEPT !.c = Placed(PlaceAll(@, n, chain, Len(chain)), b, n)],
                  b |-> b]
            ELSE Failed(f)

Gathered(ahead, b, n, bad) ==
    IF ahead.w.ok
    THEN Filled(FillBuckets(ahead.w, ToSet(ahead.chain), bad), ahead.chain, b, n)
    ELSE Failed(ahead.w)

Cleared(r, b, n, fill, bad) ==
    IF ~ r.ok THEN Failed(r)
    ELSE IF fill THEN Gathered(ReadAhead(r, n, <<b>>, r.c.cprev[b], bad), b, n, bad)
    ELSE [w |-> [r EXCEPT !.c = Placed(@, b, n)], b |-> b]

Missed(w, n, fill, bad) == Cleared(Reuse(w, w.c.tail, n, bad), w.c.tail, n, fill, bad)

GetBucket(n, fill, bad) ==
    LET w == Work(cache, medium, TRUE)
        b == FindBucket(cache, n)
    IN  IF b # NoBucket
        THEN [w |-> [w EXCEPT !.c = HPlace(Promote(@, b), n % HashSz, b)], b |-> b]
        ELSE Missed(w, n, fill, bad)

-----------------------------------------------------------------------------
(* Bounds: how warm the callers can make the cache.                        *)
Hot(c) == {b \in Bucket : c.bkt[b].count > 1}

WithinBounds(n) ==
    LET b == FindBucket(cache, n) IN
    b # NoBucket => /\ cache.bkt[b].count < MaxCount
                    /\ Cardinality(Hot(cache) \cup {b}) <= MaxHot

b_init == /\ ~ cached
          /\ cached' = TRUE
          /\ cache' = EmptyCache
          /\ ret' = Returned("init", 0, NoValue, TRUE)
          /\ UNCHANGED medium

(* A request beyond the end of the volume.                                 *)
OutOfRange(op) == /\ ret' = Returned(op, VLen, NoValue, FALSE)
                  /\ UNCHANGED <<medium, cached, cache>>

(* b_readlb through the cache.                                             *)
CachedRead(n, bad) ==
    /\ cached /\ WithinBounds(n)
    /\ LET g == GetBucket(n, TRUE, bad) IN
       /\ cache' = g.w.c
       /\ medium' = g.w.m
       /\ ret' = IF g.w.ok THEN Returned("read", n, g.w.c.bkt[g.b].data, TRUE)
                           ELSE Returned("read", n, NoValue, FALSE)
    /\ UNCHANGED cached

(* b_writelb through the cache: a block that does not change stays clean.  *)
CachedWrite(n, v, bad) ==
    /\ cached /\ WithinBounds(n)
    /\ LET g   == GetBucket(n, FALSE, bad)
           old == g.w.c.bkt[g.b]
       IN
       /\ medium' = g.w.m
       /\ cache' = IF g.w.ok /\ (~ old.inuse \/ old.data # v)
                   THEN [g.w.c EXCEPT !.bkt[g.b].inuse = TRUE,
                                      !.bkt[g.b].dirty = TRUE,
                                      !.bkt[g.b].data = v]
                   ELSE g.w.c
       /\ ret' = Returned("write", n, NoValue, g.w.ok)
    /\ UNCHANGED cached

(* b_readlb and b_writelb of a volume that has no cache.                   *)
DirectRead(n, bad) ==
    /\ ~ cached
    /\ ret' = IF n \in bad THEN Returned("read", n, NoValue, FALSE)
                           ELSE Returned("read", n, medium[n], TRUE)
    /\ UNCHANGED <<medium, cached, cache>>

DirectWrite(n, v, bad) ==
    /\ ~ cached
    /\ medium' = IF n \in bad THEN medium ELSE [medium EXCEPT ![n] = v]
    /\ ret' = Returned("write", n, NoValue, n \notin bad)
    /\ UNCHANGED <<cached, cache>>

Flushed(bad) == FlushBuckets(Work(cache, medium, TRUE), Bucket, bad)

b_flush(bad) ==
    /\ cached
    /\ cache' = Flushed(bad).c
    /\ medium' = Flushed(bad).m
    /\ ret' = Returned("flush", 0, NoValue, Flushed(bad).ok)
    /\ UNCHANGED cached

(* b_finish frees the cache whatever became of its dirty blocks.           *)
b_finish(bad) ==
    /\ cached
    /\ medium' = Flushed(bad).m
    /\ cache' = EmptyCache
    /\ cached' = FALSE
    /\ ret' = Returned("finish", 0, NoValue, Flushed(bad).ok)

(* The process dies with its cache.                                        *)
Crash == /\ cached
         /\ cached' = FALSE
         /\ cache' = EmptyCache
         /\ ret' = Returned("crash", 0, NoValue, TRUE)
         /\ UNCHANGED medium

Next == \/ b_init
        \/ \E op \in {"read", "write"} : OutOfRange(op)
        \/ \E n \in Blocks, bad \in BadSets : CachedRead(n, bad)
        \/ \E n \in Blocks, bad \in BadSets : DirectRead(n, bad)
        \/ \E n \in Writable, v \in Values, bad \in BadSets : CachedWrite(n, v, bad)
        \/ \E n \in Writable, v \in Values, bad \in BadSets : DirectWrite(n, v, bad)
        \/ \E bad \in BadSets : b_flush(bad)
        \/ \E bad \in BadSets : b_finish(bad)
        \/ Crash

Spec == Init /\ [][Next]_vars

-----------------------------------------------------------------------------
TypeOK ==
    /\ medium \in [Blocks -> Values]
    /\ cached \in BOOLEAN
    /\ cache.bkt \in [Bucket -> [inuse : BOOLEAN, dirty : BOOLEAN,
                                 count : 0 .. MaxCount, bnum : Blocks,
                                 data : Values \cup {NoValue}]]
    /\ cache.cnext \in [Bucket -> Bucket]
    /\ cache.cprev \in [Bucket -> Bucket]
    /\ cache.tail \in Bucket
    /\ \A h \in 0 .. HashSz - 1 : ToSet(cache.hash[h]) \subseteq Bucket

(* What a caller sees: the bucket of a block when one is in use, and the   *)
(* medium otherwise.                                                       *)
Holders(n) == {b \in Bucket : cache.bkt[b].inuse /\ cache.bkt[b].bnum = n}

View == [n \in Blocks |-> IF Holders(n) = {} THEN medium[n]
                          ELSE cache.bkt[CHOOSE b \in Holders(n) : TRUE].data]

(* Numbers, counts and links are in range (TypeOK).                        *)
(* A block has at most one bucket in use and the hash table leads to it,   *)
(* and every bucket is on at most one hash list: otherwise a block would   *)
(* be read from the medium again while its newer contents wait in a        *)
(* bucket nothing finds (findbucket, hplace).                              *)
Indexed ==
    /\ TypeOK
    /\ \A n \in Blocks : Holders(n) \subseteq {FindBucket(cache, n)}
    /\ \A b \in Bucket :
          Cardinality({h \in DOMAIN cache.hash : b \in ToSet(cache.hash[h])}) <= 1
    /\ \A h \in DOMAIN cache.hash :
          Len(cache.hash[h]) = Cardinality(ToSet(cache.hash[h]))

(* A clean bucket agrees with the medium, also after transfers that failed *)
(* half way: it can be dropped (reuse, flushchain, b_writelb's memcmp).    *)
CleanIsDurable ==
    \A b \in Bucket : cache.bkt[b].inuse /\ ~ cache.bkt[b].dirty
                      => cache.bkt[b].data = medium[cache.bkt[b].bnum]

(* The buckets form one ring that ends at the tail, in both directions:    *)
(* every bucket can become cold and be recycled (cplace, getbucket).       *)
ChainIsRing ==
    LET walk[i \in 0 .. CacheSz] ==
            IF i = 0 THEN cache.tail ELSE cache.cnext[walk[i - 1]]
    IN  /\ {walk[i] : i \in 1 .. CacheSz} = Bucket
        /\ walk[CacheSz] = cache.tail
        /\ \A b \in Bucket : cache.cprev[cache.cnext[b]] = b

(* Refinement: through all caching, read-ahead, eviction, failing I/O and  *)
(* crashes the callers see an array of blocks.                             *)
Store == INSTANCE BlockStore WITH contents <- View, durable <- medium

IsBlockStore == Store!Spec

(* b_readlb "read[s] a logical block from a volume (or from the cache)":   *)
(* what a successful read returns is the block its caller asked for.       *)
ReadReturnsBlock ==
    [][ret'.op = "read" /\ ret'.ok => ret'.v = View[ret'.n]]_vars
=============================================================================
