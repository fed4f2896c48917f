------------------------------- MODULE Volume -------------------------------
(***************************************************************************)
(* The life of a volume between mount and unmount: libhfs/volume.c over    *)
(* the block cache.                                                        *)
(*                                                                         *)
(* The master directory block carries the UMOUNTED bit, by which the next  *)
(* mount knows that the volume needs no scavenging.  v_dirty takes the bit *)
(* off the medium before the first change, flushvol puts it back when the  *)
(* volume is closed.  Blocks are known by their numbers, because b_flush   *)
(* writes in their order; of their contents the module only knows which    *)
(* of them are newer in memory than on the medium.  A crash can come       *)
(* between any two blocks that are written.                                *)
(***************************************************************************)
EXTENDS Integers

CONSTANTS MDB, VBM,     \* numbers of the directory block and of the bitmap's block
          EXT, CAT,     \* numbers of the header nodes of the two B*-trees
          Data          \* numbers of the other nodes and of the files' blocks

Headers == {EXT, CAT, VBM, MDB}
Block   == Headers \cup Data

ASSUME VolumeAssumption ==
    /\ Block \subseteq Nat
    /\ MDB < VBM /\ EXT # CAT
    /\ \A b \in {EXT, CAT} \cup Data : VBM < b
    /\ Headers \cap Data = {}

VARIABLES
    using,     \* HFS_VOL_USINGCACHE: the program mounts without HFS_OPT_NOCACHE
    failed,    \* the medium has refused a block (history)
    pc,        \* "closed", "idle", or the step the running call has come to
    task,      \* the call that is running
    todo,      \* blocks b_flush has not come to, or headers flushvol has not
    good,      \* the running call has met no error
    umounted,  \* UMOUNTED in vol->mdb
    readonly,  \* HFS_VOL_READONLY
    update,    \* headers flagged as changed in memory (HFS_VOL_UPDATE_*, UPDATE_HDR)
    cached,    \* UMOUNTED in the cache's copy of the directory block
    dirty,     \* dirty blocks of the cache
    medium,    \* UMOUNTED on the medium
    slocked,   \* SLOCKED on the medium, set by others
    mixed,     \* the medium holds some, but not all, of the changes made
    torn       \* it still does although the volume was closed

vars == <<using, failed, pc, task, todo, good, umounted, readonly, update, cached, dirty,
          medium, slocked, mixed, torn>>

Init == /\ using \in BOOLEAN /\ failed = FALSE
        /\ pc = "closed" /\ task = "none" /\ todo = {} /\ good = TRUE
        /\ umounted = TRUE /\ readonly = FALSE
        /\ update = {} /\ dirty = {} /\ cached = TRUE
        /\ medium \in BOOLEAN /\ slocked \in BOOLEAN
        /\ mixed = FALSE /\ torn = ~ medium

-----------------------------------------------------------------------------
(* Faulty variant: the block after the one that was asked for.             *)
PutShifted(b, um, pending) == /\ dirty' = dirty \cup {b + 1}
                              /\ cached' = um
                              /\ UNCHANGED <<medium, mixed, failed>>

(* b_writelb of block b, with UMOUNTED as um where b is the directory      *)
(* block.  Without a cache the block is on the medium at once, and the     *)
(* medium has only some of the changes if others are pending.              *)
Put(b, um, pending) ==
    /\ IF using
       THEN /\ dirty' = dirty \cup {b}
            /\ cached' = IF b = MDB THEN um ELSE cached
            /\ UNCHANGED <<medium, mixed>>
       ELSE /\ medium' = IF b = MDB THEN um ELSE medium
            /\ mixed' = (pending # {})
            /\ UNCHANGED <<dirty, cached>>
    /\ UNCHANGED failed

(* b_writelb is not called, or fails.                                      *)
NoPut   == UNCHANGED <<dirty, cached, medium, mixed, failed>>
Refused == failed' = TRUE /\ UNCHANGED <<dirty, cached, medium, mixed>>

Return == pc' = "idle" /\ task' = "none" /\ todo' = {} /\ good' = TRUE

(* The part of a call that follows v_dirty: store block b, or change the   *)
(* bitmap and the counts in memory (v_allocblocks, v_freeblocks).          *)
Then(t, b, upd) ==
    \/ t = "write" /\ update' = upd /\ (Put(b, FALSE, upd) \/ Refused)
    \/ t = "alloc" /\ update' = upd \cup {MDB, VBM} /\ NoPut

(* Faulty variant: the directory block is left in the cache.               *)
DirtyUnflushed(t, b, upd) ==
    /\ umounted' = FALSE
    /\ IF umounted
       THEN /\ update' = upd \ {MDB}
            /\ Put(MDB, FALSE, update')
       ELSE Then(t, b, upd)
    /\ Return

(* v_dirty: if memory still says UMOUNTED, say otherwise in the directory  *)
(* block and flush the cache; the call goes on when that has succeeded.    *)
(* With upd are the headers the caller has flagged by then.                *)
Dirty(t, b, upd) ==
    /\ umounted' = FALSE
    /\ IF umounted
       THEN \/ /\ update' = upd \ {MDB}
               /\ Put(MDB, FALSE, update')
               /\ pc' = "flush" /\ task' = t /\ todo' = dirty' /\ good' = TRUE
            \/ update' = upd /\ Refused /\ Return
       ELSE Then(t, b, upd) /\ Return

-----------------------------------------------------------------------------
(* v_open and v_mount.  A volume that is not UMOUNTED is scavenged, unless *)
(* it was asked for read-only: v_scavenge first marks it in use again.     *)
(* Only then is the software lock looked at.                               *)
Mount(ro) ==
    /\ pc = "closed"
    /\ update' = {}
    /\ IF medium \/ ro
       THEN /\ umounted' = medium
            /\ readonly' = (ro \/ slocked)
            /\ cached' = medium
            /\ Return
            /\ UNCHANGED <<dirty, medium, mixed, failed>>
       ELSE /\ umounted' = FALSE
            /\ readonly' = FALSE
            /\ \/ /\ Put(MDB, FALSE, {})
                  /\ pc' = "flush" /\ task' = "scavenge" /\ todo' = dirty' /\ good' = TRUE
               \/ Refused /\ UNCHANGED <<pc, task, todo, good>>
    /\ UNCHANGED <<slocked, torn>>

(* A block of a node or of a file is written (b_writeab); on the way the   *)
(* tree headers in S may have been flagged.                                *)
Write(b, S) == /\ pc = "idle" /\ ~ readonly
               /\ Dirty("write", b, update \cup S)
               /\ UNCHANGED <<readonly, slocked, torn>>

(* v_allocblocks and v_freeblocks.                                         *)
Allocate == /\ pc = "idle" /\ ~ readonly
            /\ Dirty("alloc", MDB, update)
            /\ UNCHANGED <<readonly, slocked, torn>>

(* hfs_vsetattr, v_adjvalence: the directory block is changed in memory.   *)
SetAttributes == /\ pc = "idle" /\ ~ readonly
                 /\ update' = update \cup {MDB}
                 /\ UNCHANGED <<failed, pc, task, todo, good, umounted, readonly,
                                cached, dirty, medium, slocked, mixed, torn>>

(* Dirty block b of the cache reaches the medium.                          *)
Stored(b) == /\ medium' = IF b = MDB THEN cached ELSE medium
             /\ mixed' = (update \cup (dirty \ {b}) # {})

(* The cache stores a dirty block to reuse its bucket.                     *)
Evict(b) == /\ pc \in {"idle", "headers"} /\ b \in dirty
            /\ dirty' = dirty \ {b}
            /\ Stored(b)
            /\ UNCHANGED <<failed, pc, task, todo, good, umounted, readonly,
                           update, cached, slocked, torn>>

(* v_flush and v_close begin with flushvol, which a read-only volume skips.*)
Begin(t) == /\ pc = "idle"
            /\ pc' = "headers" /\ task' = t /\ good' = TRUE
            /\ todo' = IF readonly THEN {} ELSE Headers
            /\ UNCHANGED <<failed, umounted, readonly, update, cached, dirty,
                           medium, slocked, mixed, torn>>

Sync  == Begin("sync")
Close == Begin("close")

(* flushvol takes the headers in this order, the directory block last.     *)
Turn(b) == CASE b = EXT -> 1 [] b = CAT -> 2 [] b = VBM -> 3 [] b = MDB -> 4

Next1(S) == CHOOSE b \in S : \A c \in S : Turn(b) <= Turn(c)

(* Faulty variant: the directory block goes first.                         *)
PutHeaderMDBFirst ==
    /\ pc = "headers" /\ todo # {}
    /\ LET b  == IF MDB \in todo THEN MDB ELSE Next1(todo)
           um == b = MDB /\ task = "close"
       IN  /\ umounted' = (umounted \/ um)
           /\ IF b \in update \/ (um /\ ~ umounted)
              THEN update' = update \ {b} /\ Put(b, umounted', update')
              ELSE UNCHANGED update /\ NoPut
           /\ todo' = todo \ {b} /\ UNCHANGED <<pc, good>>
    /\ UNCHANGED <<task, readonly, slocked, torn>>

(* One step of flushvol: write the next header if it is flagged.  Closing  *)
(* sets UMOUNTED.  The first error ends flushvol.                          *)
PutHeader ==
    /\ pc = "headers" /\ todo # {}
    /\ LET b  == Next1(todo)
           um == b = MDB /\ task = "close"
       IN  /\ umounted' = (umounted \/ um)
           /\ IF b \in update \/ (um /\ ~ umounted)
              THEN \/ /\ update' = update \ {b}
                      /\ Put(b, umounted', update')
                      /\ todo' = todo \ {b} /\ UNCHANGED <<pc, good>>
                   \/ /\ Refused
                      /\ update' = IF um THEN update \cup {b} ELSE update
                      /\ todo' = {} /\ good' = FALSE /\ UNCHANGED pc
              ELSE /\ UNCHANGED <<update, pc, good>> /\ NoPut
                   /\ todo' = todo \ {b}
    /\ UNCHANGED <<task, readonly, slocked, torn>>

(* flushvol is done: b_flush follows, after an error only when closing.    *)
HeadersDone ==
    /\ pc = "headers" /\ todo = {}
    /\ IF good \/ task = "close"
       THEN pc' = "flush" /\ todo' = (IF readonly THEN {} ELSE dirty)
                          /\ UNCHANGED <<task, good>>
       ELSE Return
    /\ UNCHANGED <<failed, umounted, readonly, update, cached, dirty, medium,
                   slocked, mixed, torn>>

(* Faulty variant: the error of one run is forgotten.                      *)
FlushBlockUnnoticed ==
    /\ pc = "flush"
    /\ \E b \in todo :
          /\ todo' = todo \ {b}
          /\ \/ dirty' = dirty \ {b} /\ Stored(b) /\ UNCHANGED failed
             \/ failed' = TRUE /\ UNCHANGED <<dirty, medium, mixed>>
    /\ UNCHANGED <<pc, task, good, umounted, readonly, update, cached, slocked, torn>>

(* b_flush, block by block in ascending order.  When a run of blocks       *)
(* fails, those stored before the failure stay dirty with the rest of it;  *)
(* later runs are still tried.                                             *)
FlushBlock ==
    /\ pc = "flush"
    /\ \E b \in todo :
          /\ \A c \in todo : b <= c
          /\ todo' = todo \ {b}
          /\ \/ /\ dirty' = dirty \ {b}
                /\ Stored(b)
                /\ UNCHANGED <<good, failed>>
             \/ /\ good' = FALSE /\ failed' = TRUE
                /\ Stored(b) \/ UNCHANGED <<medium, mixed>>
                /\ UNCHANGED dirty
    /\ UNCHANGED <<pc, task, umounted, readonly, update, cached, slocked, torn>>

Shut == /\ pc' = "closed" /\ task' = "none" /\ todo' = {} /\ good' = TRUE
        /\ update' = {} /\ dirty' = {}
        /\ torn' = (torn \/ mixed)
        /\ mixed' = FALSE
        /\ readonly' = FALSE
        /\ UNCHANGED <<failed, umounted, cached, medium, slocked>>

(* b_flush is done; the call that wanted it goes on.                       *)
FlushedForSync == /\ pc = "flush" /\ todo = {} /\ task = "sync"
                  /\ Return
                  /\ UNCHANGED <<failed, umounted, readonly, update, cached,
                                 dirty, medium, slocked, mixed, torn>>

FlushedForDirty(b) == /\ pc = "flush" /\ todo = {} /\ task \in {"write", "alloc"}
                      /\ IF good THEN Then(task, b, update)
                                 ELSE UNCHANGED update /\ NoPut
                      /\ Return
                      /\ UNCHANGED <<umounted, readonly, slocked, torn>>

(* The rest of v_scavenge, which marks the extents of all files in the     *)
(* bitmap, counts the free blocks and corrects drNxtCNID, and of v_mount:  *)
(* the medium is whole again when the bitmap has reached it.  If the flush *)
(* failed the mount fails, and b_finish tries once more.                   *)
Scavenged(S) == /\ pc = "flush" /\ todo = {} /\ task = "scavenge"
                /\ IF good
                   THEN /\ update' = update \cup {VBM} \cup S
                        /\ mixed' = (mixed \/ torn) /\ torn' = FALSE
                        /\ readonly' = slocked
                        /\ Return
                   ELSE /\ task' = "abandon" /\ todo' = dirty
                        /\ UNCHANGED <<pc, good, update, mixed, torn, readonly>>
                /\ UNCHANGED <<failed, umounted, cached, dirty, medium, slocked>>

Closed == /\ pc = "flush" /\ todo = {} /\ task \in {"close", "abandon"}
          /\ Shut

Crash == pc # "closed" /\ Shut

(* Another system locks or unlocks the volume.                             *)
Lock == /\ pc = "closed" /\ slocked' = ~ slocked
        /\ UNCHANGED <<failed, pc, task, todo, good, umounted, readonly, update,
                       cached, dirty, medium, mixed, torn>>

Next ==
    /\ UNCHANGED using
    /\ \/ \E ro \in BOOLEAN : Mount(ro)
       \/ \E b \in Data, S \in SUBSET {EXT, CAT} : Write(b, S)
       \/ Allocate \/ SetAttributes
       \/ \E b \in Block : Evict(b)
       \/ Sync \/ Close \/ PutHeader \/ HeadersDone \/ FlushBlock
       \/ FlushedForSync \/ (\E b \in Data : FlushedForDirty(b))
       \/ (\E S \in SUBSET {MDB} : Scavenged(S))
       \/ Closed \/ Crash \/ Lock

Spec == Init /\ [][Next]_vars

-----------------------------------------------------------------------------
TypeOK == /\ using \in BOOLEAN /\ failed \in BOOLEAN
          /\ pc \in {"closed", "idle", "headers", "flush"}
          /\ task \in {"none", "write", "alloc", "scavenge", "sync", "close", "abandon"}
          /\ todo \subseteq Block /\ dirty \subseteq Block /\ update \subseteq Headers
          /\ good \in BOOLEAN /\ readonly \in BOOLEAN /\ slocked \in BOOLEAN
          /\ umounted \in BOOLEAN /\ cached \in BOOLEAN /\ medium \in BOOLEAN
          /\ mixed \in BOOLEAN /\ torn \in BOOLEAN

(* v_dirty "ensure[s] the volume is marked 'in use' before we make         *)
(* changes": while the medium says UMOUNTED, and unless the volume is      *)
(* being closed, none of a set of changes has reached it without the rest, *)
(* and nothing but the directory block can reach it next.  This lasts until*)
(* a write fails: then v_dirty takes the volume to be marked already.      *)
InUseBeforeChanges ==
    medium /\ task # "close" /\ ~ failed => ~ mixed /\ dirty \subseteq {MDB}

(* Bit 8 of drAtrb says that the volume was "unmounted cleanly": a medium  *)
(* that says so holds all changes or none, whenever the process dies.      *)
(* Nothing else would make the next mount scavenge the volume.             *)
UnmountedMeansWhole == medium /\ ~ failed => ~ mixed /\ ~ torn

(* It does where no cache reorders the writes of flushvol.                 *)
DirectMeansWhole == ~ using => UnmountedMeansWhole

(* v_flush that succeeds leaves nothing behind, even when calls before it  *)
(* failed half way.                                                        *)
SyncIsDurable ==
    [][task = "sync" /\ pc = "flush" /\ pc' = "idle" /\ good
       => readonly \/ (update' = {} /\ dirty' = {})]_vars

(* v_close that succeeds leaves a medium that says UMOUNTED and holds all  *)
(* changes: the next mount can go without scavenging.                      *)
CloseMarksClean ==
    [][task = "close" /\ todo = {} /\ pc = "flush" /\ good /\ ~ readonly
       => medium' /\ ~ mixed /\ update = {} /\ dirty = {}]_vars


-----------------------------------------------------------------------------
(***************************************************************************)
(* What holds although writes fail: as long as the running call has met no *)
(* error, the parts of it that are done are done for good.                 *)
(***************************************************************************)
Calls == /\ pc \in {"closed", "idle"} => task = "none" /\ good
         /\ pc = "headers" => task \in {"sync", "close"}
         /\ pc = "closed" => dirty = {} /\ update = {} /\ ~ mixed
         /\ task \in {"write", "alloc", "scavenge", "abandon"} => ~ umounted

(* What flushvol and b_flush have passed is neither flagged nor dirty, and *)
(* the medium has all changes when nothing is.                             *)
Passed == /\ pc = "headers" => /\ todo \subseteq Headers
                               /\ good => readonly \/ update \subseteq todo
          /\ pc = "flush" => /\ todo \subseteq dirty
                             /\ good => readonly \/ dirty \subseteq todo
          /\ pc = "flush" /\ good /\ task \in {"sync", "close"} =>
                readonly \/ update = {}
          /\ mixed => update \cup dirty # {}

(* UMOUNTED in memory is on the medium or in the dirty directory block,    *)
(* and closing has put it there when the directory block's turn is over.   *)
(* Without a cache no block is dirty.                                      *)
Marked == /\ ~ using => dirty = {}
          /\ umounted /\ pc # "closed" /\ (task = "close" => good) =>
                IF MDB \in dirty THEN cached ELSE medium
          /\ task = "close" /\ good /\ ~ readonly /\ (pc = "headers" => MDB \notin todo)
                => umounted

ErrorInv == TypeOK /\ Calls /\ Passed /\ Marked

(***************************************************************************)
(* Why the bit can be trusted until a write fails.                         *)
(***************************************************************************)

(* The steps of a call; a read-only volume, which no call changes.         *)
Control == /\ good
           /\ pc = "flush" => task \in {"write", "alloc", "scavenge", "sync", "close"}
           /\ readonly => /\ dirty = {} /\ todo = {} /\ pc # "closed"
                          /\ task \in {"none", "sync", "close"}

(* The copies of the bit: the cache's is memory's, the medium's too unless *)
(* the directory block is on its way.                                      *)
Copies == /\ MDB \in dirty => cached = umounted
          /\ MDB \notin dirty /\ pc # "closed" => medium = umounted

(* While memory says UMOUNTED nothing but the directory block is changed.  *)
Untouched ==
    umounted /\ pc # "closed" =>
        /\ update \subseteq {MDB}
        /\ pc = "idle" => dirty = {}
        /\ pc = "flush" => task \in {"sync", "close"}
        /\ task # "close" => /\ dirty \subseteq {MDB} /\ ~ mixed
                             /\ MDB \in dirty => update = {}

(* The medium says UMOUNTED after memory stopped to only while v_dirty is  *)
(* flushing the directory block.                                           *)
Marking ==
    medium /\ ~ umounted /\ pc # "closed" =>
        pc = "flush" /\ task \in {"write", "alloc"} /\ dirty = {MDB} /\ ~ mixed

InUseInv == ErrorInv /\ (~ failed => Control /\ Copies /\ Untouched /\ Marking)

(* Without a cache the medium has a part of the changes only while it      *)
(* is marked as in use.                                                    *)
Whole == /\ umounted /\ pc # "closed" => ~ mixed
         /\ medium => ~ torn
         /\ pc # "closed" /\ ~ readonly /\ task # "scavenge" => ~ torn

DirectInv == InUseInv /\ (~ failed /\ ~ using => Whole)
=============================================================================
