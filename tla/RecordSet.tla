----------------------------- MODULE RecordSet ------------------------------
(***************************************************************************)
(* What libhfs/btree.c promises the catalog and the extents file: a set of *)
(* records with distinct keys, listed in key order, until a call fails     *)
(* half way through.                                                       *)
(***************************************************************************)
EXTENDS Integers

CONSTANT Keys       \* the keys a caller may use

VARIABLES records,  \* the keys on record
          answer,   \* what the last call returned
          whole     \* no call has failed half way

Init == records = {} /\ answer = TRUE /\ whole = TRUE

(* Inserting a key that is on record, deleting one that is not, and        *)
(* running out of medium change nothing.                                   *)
Insert(k) == \/ /\ k \notin records
                /\ records' = records \cup {k}
                /\ answer' = TRUE
             \/ UNCHANGED records /\ answer' = FALSE

Delete(k) == /\ records' = records \ {k}
             /\ answer' = (k \in records)

Find(k) == /\ answer' = (k \in records)
           /\ UNCHANGED records

(* From a call on that failed half way nothing is promised; the call says  *)
(* so.                                                                     *)
FailHalfWay == /\ whole => answer' = FALSE
               /\ whole' = FALSE

Next == \/ whole /\ UNCHANGED whole /\ \E k \in Keys : Insert(k) \/ Delete(k) \/ Find(k)
        \/ FailHalfWay

Spec == Init /\ [][Next]_<<records, answer, whole>>
=============================================================================
