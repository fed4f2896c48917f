---------------------------- MODULE VolumeProofs ----------------------------
(***************************************************************************)
(* What holds of every volume: any numbering of the blocks that puts the   *)
(* directory block and the bitmap before the rest, any set of data blocks. *)
(*                                                                         *)
(* Three inductive invariants of module Volume carry the theorems.         *)
(* ErrorInv holds whether or not writes fail; InUseInv adds to it what     *)
(* holds until one fails, DirectInv what holds then without a cache.       *)
(***************************************************************************)
EXTENDS Volume, TLAPS

(* The header flushvol takes next is one of those left, and the directory  *)
(* block only when it is the last.                                         *)
LEMMA NextHeader == ASSUME NEW S \in SUBSET Headers, S # {}
                    PROVE  Next1(S) \in S /\ (Next1(S) = MDB => S = {MDB})
<1>1. \E b \in S : \A c \in S : Turn(b) <= Turn(c)
  <2>1. Turn(EXT) = 1 /\ Turn(CAT) = 2 /\ Turn(VBM) = 3 /\ Turn(MDB) = 4
    BY VolumeAssumption DEF Turn, Block, Headers
  <2>2. CASE EXT \in S BY <2>1, <2>2 DEF Headers
  <2>3. CASE EXT \notin S /\ CAT \in S BY <2>1, <2>3 DEF Headers
  <2>4. CASE EXT \notin S /\ CAT \notin S /\ VBM \in S BY <2>1, <2>4 DEF Headers
  <2>5. CASE S = {MDB} BY <2>1, <2>5 DEF Headers
  <2> QED BY <2>2, <2>3, <2>4, <2>5 DEF Headers
<1>2. Next1(S) \in S /\ \A c \in S : Turn(Next1(S)) <= Turn(c)
  BY <1>1 DEF Next1
<1>3. Next1(S) = MDB => S = {MDB}
  BY <1>2, VolumeAssumption DEF Turn, Block, Headers
<1> QED BY <1>2, <1>3

(* What a step of flushvol does: header h, flagged or not, has its turn.   *)
LEMMA HeaderTurn ==
    ASSUME TypeOK, PutHeader, todo \subseteq Headers, NEW h, h = Next1(todo)
    PROVE  /\ h \in todo /\ h \in Headers /\ (h = MDB => todo = {MDB})
           /\ pc = "headers" /\ UNCHANGED <<pc, task, readonly, slocked, torn>>
           /\ umounted' = (umounted \/ (h = MDB /\ task = "close"))
           /\ \/ /\ h \in update \/ (h = MDB /\ task = "close")
                 /\ update' = update \ {h} /\ todo' = todo \ {h}
                 /\ Put(h, umounted', update') /\ UNCHANGED good
              \/ /\ Refused /\ good' = FALSE /\ todo' = {}
                 /\ update' \in {update, update \cup {h}}
              \/ /\ h \notin update /\ umounted' = umounted
                 /\ todo' = todo \ {h} /\ UNCHANGED <<update, good>> /\ NoPut
<1>1. h \in todo /\ h \in Headers /\ (h = MDB => todo = {MDB})
  BY NextHeader DEF PutHeader
<1>2. CASE h \in update \/ (h = MDB /\ task = "close" /\ ~ umounted)
  BY <1>1, <1>2 DEF PutHeader
<1>3. CASE h \notin update /\ ~ (h = MDB /\ task = "close" /\ ~ umounted)
  BY <1>1, <1>3 DEF PutHeader, TypeOK
<1> QED BY <1>2, <1>3

-----------------------------------------------------------------------------
(* With or without errors.                                                 *)

(* The initial state satisfies ErrorInv. *)
LEMMA ErrorInit == Init => ErrorInv
BY VolumeAssumption
   DEF Init, ErrorInv, TypeOK, Calls, Passed, Marked, Block, Headers

(* Every step keeps ErrorInv. *)
LEMMA ErrorNext == ErrorInv /\ [Next]_vars => ErrorInv'
<1> SUFFICES ASSUME ErrorInv, [Next]_vars PROVE ErrorInv'
  OBVIOUS
<1> USE VolumeAssumption DEF ErrorInv, TypeOK, Block, Headers
<1>1. ASSUME NEW ro \in BOOLEAN, Mount(ro), UNCHANGED using PROVE ErrorInv'
  <2> USE <1>1 DEF Mount, Put, Refused, Return
  <2>1. TypeOK' BY DEF Calls
  <2>2. Calls' BY DEF Calls
  <2>3. Passed' BY DEF Calls, Passed
  <2>4. Marked' BY DEF Calls, Passed, Marked
  <2> QED BY <2>1, <2>2, <2>3, <2>4
<1>2. ASSUME NEW b \in Data, NEW S \in SUBSET {EXT, CAT}, Write(b, S), UNCHANGED using PROVE ErrorInv'
  <2> USE <1>2 DEF Write, Dirty, Then, Put, NoPut, Refused, Return
  <2>1. TypeOK' BY DEF Calls
  <2>2. Calls' BY DEF Calls
  <2>3. Passed' BY DEF Calls, Passed
  <2>4. Marked' BY DEF Calls, Passed, Marked
  <2> QED BY <2>1, <2>2, <2>3, <2>4
<1>3. ASSUME Allocate, UNCHANGED using PROVE ErrorInv'
  <2> USE <1>3 DEF Allocate, Dirty, Then, Put, NoPut, Refused, Return
  <2>1. TypeOK' BY DEF Calls
  <2>2. Calls' BY DEF Calls
  <2>3. Passed' BY DEF Calls, Passed
  <2>4. Marked' BY DEF Calls, Passed, Marked
  <2> QED BY <2>1, <2>2, <2>3, <2>4
<1>4. ASSUME SetAttributes, UNCHANGED using PROVE ErrorInv'
  <2> USE <1>4 DEF SetAttributes
  <2>1. TypeOK' BY DEF Calls
  <2>2. Calls' BY DEF Calls
  <2>3. Passed' BY DEF Calls, Passed
  <2>4. Marked' BY DEF Calls, Passed, Marked
  <2> QED BY <2>1, <2>2, <2>3, <2>4
<1>5. ASSUME NEW b \in Block, Evict(b), UNCHANGED using PROVE ErrorInv'
  <2> USE <1>5 DEF Evict, Stored
  <2>1. TypeOK' BY DEF Calls
  <2>2. Calls' BY DEF Calls
  <2>3. Passed' BY DEF Calls, Passed
  <2>4. Marked' BY DEF Calls, Passed, Marked
  <2> QED BY <2>1, <2>2, <2>3, <2>4
<1>6. ASSUME NEW t \in {"sync", "close"}, Begin(t), UNCHANGED using PROVE ErrorInv'
  <2> USE <1>6 DEF Begin
  <2>1. TypeOK' BY DEF Calls
  <2>2. Calls' BY DEF Calls
  <2>3. Passed' BY DEF Calls, Passed
  <2>4. Marked' BY DEF Calls, Passed, Marked
  <2> QED BY <2>1, <2>2, <2>3, <2>4
<1>7. ASSUME HeadersDone, UNCHANGED using PROVE ErrorInv'
  <2> USE <1>7 DEF HeadersDone, Return
  <2>1. TypeOK' BY DEF Calls
  <2>2. Calls' BY DEF Calls
  <2>3. Passed'
    <3>1. CASE pc' = "idle" BY <3>1 DEF Passed
    <3>2. CASE pc' = "flush"
      <4>1. todo' = (IF readonly THEN {} ELSE dirty) /\ UNCHANGED <<task, good>> BY <3>2
      <4>2. good => readonly \/ update = {} BY DEF Passed
      <4> QED BY <3>2, <4>1, <4>2 DEF Passed
    <3> QED BY <3>1, <3>2
  <2>4. Marked' BY DEF Calls, Passed, Marked
  <2> QED BY <2>1, <2>2, <2>3, <2>4
<1>8. ASSUME FlushBlock, UNCHANGED using PROVE ErrorInv'
  <2> USE <1>8 DEF FlushBlock, Stored
  <2>1. TypeOK'
    <3>1. todo' \subseteq Block /\ dirty' \subseteq Block OBVIOUS
    <3>2. medium' \in BOOLEAN /\ mixed' \in BOOLEAN OBVIOUS
    <3>3. good' \in BOOLEAN /\ failed' \in BOOLEAN OBVIOUS
    <3> QED BY <3>1, <3>2, <3>3
  <2>2. Calls' BY DEF Calls
  <2>3. Passed'
    <3>1. PICK b \in todo :
             /\ todo' = todo \ {b} /\ UNCHANGED <<pc, task, readonly, update>>
             /\ \/ dirty' = dirty \ {b} /\ UNCHANGED good
                \/ good' = FALSE /\ UNCHANGED dirty
             /\ (mixed' <=> update \cup (dirty \ {b}) # {}) \/ UNCHANGED <<mixed, dirty>>
      OBVIOUS
    <3>2. mixed' => update' \cup dirty' # {} BY <3>1 DEF Passed
    <3>3. todo' \subseteq dirty' /\ (good' => readonly' \/ dirty' \subseteq todo')
      BY <3>1 DEF Passed
    <3> QED BY <3>1, <3>2, <3>3 DEF Passed
  <2>4. Marked' BY DEF Calls, Passed, Marked
  <2> QED BY <2>1, <2>2, <2>3, <2>4
<1>9. ASSUME FlushedForSync, UNCHANGED using PROVE ErrorInv'
  <2> USE <1>9 DEF FlushedForSync, Return
  <2>1. TypeOK' BY DEF Calls
  <2>2. Calls' BY DEF Calls
  <2>3. Passed' BY DEF Calls, Passed
  <2>4. Marked' BY DEF Calls, Passed, Marked
  <2> QED BY <2>1, <2>2, <2>3, <2>4
<1>10. ASSUME NEW b \in Data, FlushedForDirty(b), UNCHANGED using PROVE ErrorInv'
  <2> USE <1>10 DEF FlushedForDirty, Then, Put, NoPut, Refused, Return
  <2>1. TypeOK' BY DEF Calls
  <2>2. Calls' BY DEF Calls
  <2>3. Passed' BY DEF Calls, Passed
  <2>4. Marked' BY DEF Calls, Passed, Marked
  <2> QED BY <2>1, <2>2, <2>3, <2>4
<1>11. ASSUME NEW S \in SUBSET {MDB}, Scavenged(S), UNCHANGED using PROVE ErrorInv'
  <2> USE <1>11 DEF Scavenged, Return
  <2>1. TypeOK' BY DEF Calls
  <2>2. Calls' BY DEF Calls
  <2>3. Passed' BY DEF Calls, Passed
  <2>4. Marked' BY DEF Calls, Passed, Marked
  <2> QED BY <2>1, <2>2, <2>3, <2>4
<1>12. ASSUME Closed \/ Crash, UNCHANGED using PROVE ErrorInv'
  <2> USE <1>12 DEF Closed, Crash, Shut
  <2>1. TypeOK' BY DEF Calls
  <2>2. Calls' BY DEF Calls
  <2>3. Passed' BY DEF Calls, Passed
  <2>4. Marked' BY DEF Calls, Passed, Marked
  <2> QED BY <2>1, <2>2, <2>3, <2>4
<1>13. ASSUME Lock, UNCHANGED using PROVE ErrorInv'
  <2> USE <1>13 DEF Lock
  <2>1. TypeOK' BY DEF Calls
  <2>2. Calls' BY DEF Calls
  <2>3. Passed' BY DEF Calls, Passed
  <2>4. Marked' BY DEF Calls, Passed, Marked
  <2> QED BY <2>1, <2>2, <2>3, <2>4
<1>14. ASSUME PutHeader, UNCHANGED using PROVE ErrorInv'
  <2> DEFINE h == Next1(todo)
  <2>1. todo \subseteq Headers BY <1>14 DEF PutHeader, Passed
  <2>2. /\ h \in todo /\ h \in Headers /\ (h = MDB => todo = {MDB})
        /\ pc = "headers" /\ UNCHANGED <<pc, task, readonly, slocked, torn>>
        /\ umounted' = (umounted \/ (h = MDB /\ task = "close"))
        /\ \/ /\ h \in update \/ (h = MDB /\ task = "close")
              /\ update' = update \ {h} /\ todo' = todo \ {h}
              /\ Put(h, umounted', update') /\ UNCHANGED good
           \/ /\ Refused /\ good' = FALSE /\ todo' = {}
              /\ update' \in {update, update \cup {h}}
           \/ /\ h \notin update /\ umounted' = umounted
              /\ todo' = todo \ {h} /\ UNCHANGED <<update, good>> /\ NoPut
    BY <1>14, <2>1, HeaderTurn
  <2> HIDE DEF h
  <2> USE <2>2 DEF Put, NoPut, Refused
  <2>3. TypeOK'
    <3>1. umounted' \in BOOLEAN OBVIOUS
    <3>2. cached' \in BOOLEAN /\ medium' \in BOOLEAN BY <3>1
    <3>3. mixed' \in BOOLEAN OBVIOUS
    <3>4. todo' \subseteq Block /\ dirty' \subseteq Block /\ update' \subseteq Headers
      OBVIOUS
    <3>5. good' \in BOOLEAN /\ failed' \in BOOLEAN OBVIOUS
    <3> QED BY <3>1, <3>2, <3>3, <3>4, <3>5, <1>14
  <2>4. Calls' BY DEF Calls
  <2>5. Passed' BY DEF Calls, Passed
  <2>6. Marked'
    <3>1. CASE using BY <2>3, <3>1, <1>14 DEF Calls, Passed, Marked
    <3>2. CASE ~ using BY <2>3, <3>2, <1>14 DEF Calls, Passed, Marked
    <3> QED BY <3>1, <3>2
  <2> QED BY <2>3, <2>4, <2>5, <2>6
<1>15. CASE UNCHANGED vars
  BY <1>15 DEF vars, Calls, Passed, Marked
<1> QED
  BY <1>1, <1>2, <1>3, <1>4, <1>5, <1>6, <1>7, <1>8, <1>9, <1>10, <1>11,
     <1>12, <1>13, <1>14, <1>15 DEF Next, Sync, Close

(* What flushvol and b_flush have passed is clean, whatever failed.        *)
THEOREM ErrorInvariance == Spec => []ErrorInv
BY ErrorInit, ErrorNext, PTL DEF Spec

(* Every step leaves flags and blocks of their types: no call makes the    *)
(* cache dirty at a block the volume does not have.                        *)
THEOREM TypeCorrect == Spec => []TypeOK
<1>1. ErrorInv => TypeOK BY DEF ErrorInv
<1> QED BY <1>1, ErrorInvariance, PTL

(* v_flush that succeeds leaves nothing behind, whatever failed earlier.   *)
THEOREM SyncDurable == Spec => SyncIsDurable
<1>1. ErrorInv /\ [Next]_vars =>
        [task = "sync" /\ pc = "flush" /\ pc' = "idle" /\ good
           => readonly \/ (update' = {} /\ dirty' = {})]_vars
  <2> SUFFICES ASSUME ErrorInv, Next, task = "sync", pc = "flush", pc' = "idle", good
               PROVE  readonly \/ (update' = {} /\ dirty' = {})
    BY DEF vars
  <2>1. FlushedForSync
    <3>1. CASE FlushBlock BY <3>1 DEF FlushBlock
    <3>2. CASE Crash BY <3>2 DEF Crash, Shut
    <3> QED BY <3>1, <3>2
        DEF Next, Mount, Write, Allocate, SetAttributes, Evict, Sync, Close, Begin,
            PutHeader, HeadersDone, FlushedForDirty, Scavenged, Closed, Lock
  <2> QED BY <2>1 DEF FlushedForSync, ErrorInv, TypeOK, Passed
<1> QED BY <1>1, ErrorInvariance, PTL DEF Spec, SyncIsDurable

(* v_close that succeeds leaves UMOUNTED and all changes on the medium,    *)
(* whatever failed earlier.                                                *)
THEOREM CloseClean == Spec => CloseMarksClean
<1>1. ErrorInv /\ [Next]_vars =>
        [task = "close" /\ todo = {} /\ pc = "flush" /\ good /\ ~ readonly
           => medium' /\ ~ mixed /\ update = {} /\ dirty = {}]_vars
  <2> SUFFICES ASSUME ErrorInv, Next, task = "close", todo = {}, pc = "flush",
                      good, ~ readonly
               PROVE  medium' /\ ~ mixed /\ update = {} /\ dirty = {}
    BY DEF vars
  <2>1. update = {} /\ dirty = {} BY DEF ErrorInv, TypeOK, Passed
  <2>2. medium /\ ~ mixed BY <2>1 DEF ErrorInv, TypeOK, Passed, Marked
  <2>3. Closed \/ Crash
    BY DEF Next, Mount, Write, Allocate, SetAttributes, Evict, Sync, Close, Begin,
           PutHeader, HeadersDone, FlushBlock, FlushedForSync, FlushedForDirty,
           Scavenged, Lock
  <2> QED BY <2>1, <2>2, <2>3 DEF Closed, Crash, Shut
<1> QED BY <1>1, ErrorInvariance, PTL DEF Spec, CloseMarksClean

-----------------------------------------------------------------------------
(* Until a write fails.                                                    *)

(* A failure is not forgotten.                                             *)
LEMMA FailedStays == TypeOK /\ [Next]_vars => (failed => failed')
<1> SUFFICES ASSUME TypeOK, Next, failed PROVE failed'
  BY DEF vars
<1>1. CASE PutHeader BY <1>1 DEF PutHeader, Put, NoPut, Refused
<1>2. CASE FlushBlock BY <1>2 DEF FlushBlock
<1>3. ASSUME NEW b \in Data, NEW S \in SUBSET {EXT, CAT}, Write(b, S) PROVE failed'
  BY <1>3 DEF Write, Dirty, Then, Put, NoPut, Refused
<1>4. CASE Allocate BY <1>4 DEF Allocate, Dirty, Then, Put, NoPut, Refused
<1>5. ASSUME NEW b \in Data, FlushedForDirty(b) PROVE failed'
  BY <1>5 DEF FlushedForDirty, Then, Put, NoPut, Refused
<1>6. ASSUME NEW ro \in BOOLEAN, Mount(ro) PROVE failed'
  BY <1>6 DEF Mount, Put, Refused
<1> QED
  BY <1>1, <1>2, <1>3, <1>4, <1>5, <1>6
  DEF Next, SetAttributes, Evict, Sync, Close, Begin, HeadersDone, FlushedForSync,
      Scavenged, Closed, Crash, Shut, Lock

(* The initial state satisfies InUseInv. *)
LEMMA InUseInit == Init => InUseInv
BY ErrorInit, VolumeAssumption
   DEF Init, InUseInv, Control, Copies, Untouched, Marking, Block, Headers

(* Every step keeps InUseInv. *)
LEMMA InUseNext == InUseInv /\ [Next]_vars => InUseInv'
<1> DEFINE Strong == Control /\ Copies /\ Untouched /\ Marking
<1> SUFFICES ASSUME ErrorInv, Strong, ~ failed, ~ failed', [Next]_vars PROVE Strong'
  BY ErrorNext, FailedStays DEF InUseInv, ErrorInv
<1> USE VolumeAssumption
    DEF ErrorInv, TypeOK, Calls, Passed, Marked, Block, Headers
<1>1. ASSUME NEW ro \in BOOLEAN, Mount(ro), UNCHANGED using PROVE Strong'
  <2> USE <1>1 DEF Mount, Put, Refused, Return
  <2>1. Control' BY DEF Control
  <2>2. Copies' BY DEF Control, Untouched, Copies
  <2>3. Untouched' BY DEF Control, Copies, Untouched
  <2>4. Marking' BY DEF Control, Copies, Untouched, Marking
  <2> QED BY <2>1, <2>2, <2>3, <2>4
<1>2. ASSUME NEW b \in Data, NEW S \in SUBSET {EXT, CAT}, Write(b, S), UNCHANGED using PROVE Strong'
  <2> USE <1>2 DEF Write, Dirty, Then, Put, NoPut, Refused, Return
  <2>1. Control' BY DEF Control
  <2>2. Copies' BY DEF Control, Untouched, Copies
  <2>3. Untouched' BY DEF Control, Copies, Untouched
  <2>4. Marking' BY DEF Control, Copies, Untouched, Marking
  <2> QED BY <2>1, <2>2, <2>3, <2>4
<1>3. ASSUME Allocate, UNCHANGED using PROVE Strong'
  <2> USE <1>3 DEF Allocate, Dirty, Then, Put, NoPut, Refused, Return
  <2>1. Control' BY DEF Control
  <2>2. Copies' BY DEF Control, Untouched, Copies
  <2>3. Untouched' BY DEF Control, Copies, Untouched
  <2>4. Marking' BY DEF Control, Copies, Untouched, Marking
  <2> QED BY <2>1, <2>2, <2>3, <2>4
<1>4. ASSUME SetAttributes, UNCHANGED using PROVE Strong'
  BY <1>4 DEF SetAttributes, Control, Copies, Untouched, Marking
<1>5. ASSUME NEW b \in Block, Evict(b), UNCHANGED using PROVE Strong'
  <2> USE <1>5 DEF Evict, Stored
  <2>1. Control' BY DEF Control
  <2>2. Copies' BY DEF Control, Untouched, Copies
  <2>3. Untouched' BY DEF Control, Copies, Untouched
  <2>4. Marking'
    <3>1. CASE b = MDB
      <4>1. medium' = umounted BY <3>1 DEF Copies
      <4> QED BY <4>1 DEF Marking
    <3>2. CASE b # MDB BY <3>2 DEF Marking
    <3> QED BY <3>1, <3>2
  <2> QED BY <2>1, <2>2, <2>3, <2>4
<1>6. ASSUME NEW t \in {"sync", "close"}, Begin(t), UNCHANGED using PROVE Strong'
  <2> USE <1>6 DEF Begin
  <2>1. Control' BY DEF Control
  <2>2. Copies' BY DEF Control, Untouched, Copies
  <2>3. Untouched' BY DEF Control, Copies, Untouched
  <2>4. Marking' BY DEF Control, Copies, Untouched, Marking
  <2> QED BY <2>1, <2>2, <2>3, <2>4
<1>7. ASSUME HeadersDone, UNCHANGED using PROVE Strong'
  <2> USE <1>7 DEF HeadersDone, Return
  <2>1. Control' BY DEF Control
  <2>2. Copies' BY DEF Control, Untouched, Copies
  <2>3. Untouched' BY DEF Control, Copies, Untouched
  <2>4. Marking' BY DEF Control, Copies, Untouched, Marking
  <2> QED BY <2>1, <2>2, <2>3, <2>4
<1>8. ASSUME FlushBlock, UNCHANGED using PROVE Strong'
  <2> USE <1>8 DEF FlushBlock, Stored
  <2>1. Control' BY DEF Control
  <2>2. Copies' BY DEF Control, Untouched, Copies
  <2>3. Untouched' BY DEF Control, Copies, Untouched
  <2>4. Marking'
    <3>1. PICK b \in todo : /\ dirty' = dirty \ {b} /\ Stored(b)
                           /\ UNCHANGED <<pc, task, umounted, update>>
      OBVIOUS
    <3>2. CASE b = MDB
      <4>1. medium' = umounted BY <3>1, <3>2 DEF Copies
      <4> QED BY <3>1, <4>1 DEF Marking
    <3>3. CASE b # MDB
      <4>1. medium' = medium BY <3>1, <3>3
      <4> QED BY <3>1, <3>3, <4>1 DEF Control, Copies, Marking
    <3> QED BY <3>2, <3>3
  <2> QED BY <2>1, <2>2, <2>3, <2>4
<1>9. ASSUME FlushedForSync, UNCHANGED using PROVE Strong'
  BY <1>9 DEF FlushedForSync, Return, Control, Copies, Untouched, Marking
<1>10. ASSUME NEW b \in Data, FlushedForDirty(b), UNCHANGED using PROVE Strong'
  <2> USE <1>10 DEF FlushedForDirty, Then, Put, NoPut, Refused, Return
  <2>1. Control' BY DEF Control
  <2>2. Copies' BY DEF Control, Untouched, Copies
  <2>3. Untouched' BY DEF Control, Copies, Untouched
  <2>4. Marking' BY DEF Control, Copies, Untouched, Marking
  <2> QED BY <2>1, <2>2, <2>3, <2>4
<1>11. ASSUME NEW S \in SUBSET {MDB}, Scavenged(S), UNCHANGED using PROVE Strong'
  <2> USE <1>11 DEF Scavenged, Return
  <2>1. Control' BY DEF Control
  <2>2. Copies' BY DEF Control, Untouched, Copies
  <2>3. Untouched' BY DEF Control, Copies, Untouched
  <2>4. Marking' BY DEF Control, Copies, Untouched, Marking
  <2> QED BY <2>1, <2>2, <2>3, <2>4
<1>12. ASSUME Closed \/ Crash, UNCHANGED using PROVE Strong'
  <2> USE <1>12 DEF Closed, Crash, Shut
  <2>1. Control' BY DEF Control
  <2>2. Copies' BY DEF Control, Untouched, Copies
  <2>3. Untouched' BY DEF Control, Copies, Untouched
  <2>4. Marking' BY DEF Control, Copies, Untouched, Marking
  <2> QED BY <2>1, <2>2, <2>3, <2>4
<1>13. ASSUME Lock, UNCHANGED using PROVE Strong'
  BY <1>13 DEF Lock, Control, Copies, Untouched, Marking
<1>14. ASSUME PutHeader, UNCHANGED using PROVE Strong'
  <2> DEFINE h == Next1(todo)
  <2>1. todo \subseteq Headers BY <1>14 DEF PutHeader, Passed
  <2>2. /\ h \in todo /\ h \in Headers /\ (h = MDB => todo = {MDB})
        /\ pc = "headers" /\ UNCHANGED <<pc, task, readonly, good, slocked, torn>>
        /\ umounted' = (umounted \/ (h = MDB /\ task = "close"))
        /\ \/ /\ h \in update \/ (h = MDB /\ task = "close")
              /\ update' = update \ {h} /\ todo' = todo \ {h}
              /\ Put(h, umounted', update')
           \/ /\ h \notin update /\ umounted' = umounted
              /\ todo' = todo \ {h} /\ UNCHANGED update /\ NoPut
    BY <1>14, <2>1, HeaderTurn DEF Refused
  <2> HIDE DEF h
  <2> USE <2>2 DEF Put, NoPut
  <2>3. Control' BY DEF Control
  <2>4. Copies' BY DEF Control, Copies
  <2>5. Untouched'
    <3>1. CASE task = "close" BY <3>1 DEF Control, Untouched
    <3>2. CASE task # "close"
      <4>1. umounted' = umounted BY <3>2
      <4>2. umounted => dirty' \subseteq {MDB} /\ update' \subseteq {MDB}
        BY <3>2 DEF Untouched
      <4>3. umounted => ~ mixed' /\ (MDB \in dirty' => update' = {})
        BY <3>2 DEF Control, Untouched
      <4> QED BY <3>2, <4>1, <4>2, <4>3 DEF Untouched
    <3> QED BY <3>1, <3>2
  <2>6. Marking' BY DEF Control, Copies, Marking
  <2> QED BY <2>3, <2>4, <2>5, <2>6
<1>15. CASE UNCHANGED vars
  BY <1>15 DEF vars, Control, Copies, Untouched, Marking
<1> QED
  BY <1>1, <1>2, <1>3, <1>4, <1>5, <1>6, <1>7, <1>8, <1>9, <1>10, <1>11,
     <1>12, <1>13, <1>14, <1>15 DEF Next, Sync, Close

(* Until a write fails, only the directory block changes while memory     *)
(* says UMOUNTED.                                                          *)
THEOREM InUseInvariance == Spec => []InUseInv
BY InUseInit, InUseNext, PTL DEF Spec

(* v_dirty keeps its promise until a write fails: the medium is marked as  *)
(* in use before any other change can reach it.                            *)
THEOREM InUse == Spec => []InUseBeforeChanges
<1>1. InUseInv => InUseBeforeChanges
  BY DEF InUseInv, ErrorInv, TypeOK, Calls, Control, Copies, Untouched, Marking,
         InUseBeforeChanges
<1> QED BY <1>1, InUseInvariance, PTL

-----------------------------------------------------------------------------
(* When, besides, the volume has no cache.                                 *)

(* Every step keeps DirectInv. *)
LEMMA DirectNext == DirectInv /\ [Next]_vars => DirectInv'
<1> SUFFICES ASSUME InUseInv, Whole, ~ failed, ~ failed', ~ using, [Next]_vars
             PROVE  Whole'
  <2> SUFFICES ASSUME DirectInv, [Next]_vars, ~ failed', ~ using' PROVE Whole'
    BY InUseNext DEF DirectInv
  <2>1. InUseInv /\ TypeOK BY DEF DirectInv, InUseInv, ErrorInv
  <2>2. ~ failed BY <2>1, FailedStays
  <2>3. ~ using BY DEF Next, vars
  <2> QED BY <2>1, <2>2, <2>3 DEF DirectInv
<1> USE VolumeAssumption
    DEF InUseInv, ErrorInv, TypeOK, Calls, Passed, Marked, Block, Headers, Whole,
        Control, Copies, Untouched
<1>1. ASSUME NEW ro \in BOOLEAN, Mount(ro) PROVE Whole'
  BY <1>1 DEF Mount, Put, Refused, Return
<1>2. ASSUME NEW b \in Data, NEW S \in SUBSET {EXT, CAT}, Write(b, S) PROVE Whole'
  BY <1>2 DEF Write, Dirty, Then, Put, NoPut, Refused, Return
<1>3. ASSUME Allocate PROVE Whole'
  BY <1>3 DEF Allocate, Dirty, Then, Put, NoPut, Refused, Return
<1>4. ASSUME SetAttributes PROVE Whole'
  BY <1>4 DEF SetAttributes
<1>5. ASSUME NEW b \in Block, Evict(b) PROVE Whole'
  BY <1>5 DEF Evict, Stored
<1>6. ASSUME NEW t \in {"sync", "close"}, Begin(t) PROVE Whole'
  BY <1>6 DEF Begin
<1>7. ASSUME HeadersDone PROVE Whole'
  BY <1>7 DEF HeadersDone, Return
<1>8. ASSUME FlushBlock PROVE Whole'
  BY <1>8 DEF FlushBlock, Stored
<1>9. ASSUME FlushedForSync PROVE Whole'
  BY <1>9 DEF FlushedForSync, Return
<1>10. ASSUME NEW b \in Data, FlushedForDirty(b) PROVE Whole'
  BY <1>10 DEF FlushedForDirty, Then, Put, NoPut, Refused, Return
<1>11. ASSUME NEW S \in SUBSET {MDB}, Scavenged(S) PROVE Whole'
  BY <1>11 DEF Scavenged, Return
<1>12. ASSUME Closed \/ Crash PROVE Whole'
  BY <1>12 DEF Closed, Crash, Shut
<1>13. ASSUME Lock PROVE Whole'
  BY <1>13 DEF Lock
<1>14. ASSUME PutHeader PROVE Whole'
  <2> DEFINE h == Next1(todo)
  <2>1. todo \subseteq Headers BY <1>14 DEF PutHeader, Passed
  <2>2. /\ h \in todo /\ h \in Headers /\ (h = MDB => todo = {MDB})
        /\ pc = "headers" /\ UNCHANGED <<pc, task, readonly, good, slocked, torn>>
        /\ umounted' = (umounted \/ (h = MDB /\ task = "close"))
        /\ \/ /\ h \in update \/ (h = MDB /\ task = "close")
              /\ update' = update \ {h} /\ todo' = todo \ {h}
              /\ Put(h, umounted', update')
           \/ /\ h \notin update /\ umounted' = umounted
              /\ todo' = todo \ {h} /\ UNCHANGED update /\ NoPut
    BY <1>14, <2>1, HeaderTurn DEF Refused
  <2> HIDE DEF h
  <2> USE <2>2 DEF Put, NoPut
  <2>3. ~ torn' BY <2>1
  <2>4. umounted' => ~ mixed'
    <3>1. CASE h = MDB BY <3>1
    <3>2. CASE h # MDB BY <3>2
    <3> QED BY <3>1, <3>2
  <2> QED BY <2>3, <2>4
<1>15. CASE UNCHANGED vars
  BY <1>15 DEF vars
<1> QED
  BY <1>1, <1>2, <1>3, <1>4, <1>5, <1>6, <1>7, <1>8, <1>9, <1>10, <1>11,
     <1>12, <1>13, <1>14, <1>15 DEF Next, Sync, Close

(* Without the cache UMOUNTED can be trusted: flushvol writes the          *)
(* directory block last, and nothing reorders its writes.                  *)
THEOREM DirectIsWhole == Spec => []DirectMeansWhole
<1>1. Init => DirectInv
  BY InUseInit DEF Init, DirectInv, Whole
<1>2. DirectInv => DirectMeansWhole
  BY DEF DirectInv, Whole, InUseInv, ErrorInv, TypeOK, Calls, Marked, Control, Copies,
         Untouched, Marking, UnmountedMeansWhole, DirectMeansWhole
<1> QED BY <1>1, <1>2, DirectNext, PTL DEF Spec
=============================================================================
