------------------------------ MODULE FirstFit ------------------------------
(***************************************************************************)
(* Which blocks v_allocblocks (libhfs/volume.c) reserves, said without its *)
(* loop: Allocation.tla models the loop and checks it against this.        *)
(*                                                                         *)
(* A bitmap is the set of its set bits.  Bit NmAlBlks is no block: it is   *)
(* the padding a scan reads when drAllocPtr has run to the end.            *)
(***************************************************************************)
EXTENDS Integers, FiniteSetsExt

CONSTANT NmAlBlks       \* drNmAlBlks

ASSUME NmAlBlksAssumption == NmAlBlks \in Nat \ {0}

Block == 0 .. NmAlBlks - 1

(* The start pointer moves back over the unused blocks before it.          *)
Backtracked(vbm, ptr) ==
    IF ptr \in vbm THEN ptr
    ELSE Min({s \in 0 .. ptr : s .. ptr \cap vbm = {}})

FirstFree(vbm, p) == Min({q \in Block : q >= p /\ q \notin vbm} \cup {NmAlBlks})

RunStarts(vbm) == {q \in Block : q \notin vbm /\ (q = 0 \/ q - 1 \in vbm)}

RunLength(vbm, q, request) ==
    Max({n \in 1 .. request : q + n <= NmAlBlks /\ q .. q + n - 1 \cap vbm = {}})

(* The scan goes once around the volume, from the start pointer.           *)
Turn(start, q) == (q - start) % NmAlBlks

(* The longest run, cut to the request; of several the first in the scan.  *)
BestStart(vbm, start, request) ==
    CHOOSE q \in RunStarts(vbm) :
        \A o \in RunStarts(vbm) \ {q} :
            \/ RunLength(vbm, o, request) < RunLength(vbm, q, request)
            \/ /\ RunLength(vbm, o, request) = RunLength(vbm, q, request)
               /\ Turn(start, q) < Turn(start, o)

(* Where the next scan starts.                                             *)
PtrAfter(vbm, start, request, at, n) ==
    IF n < request
    THEN IF start > 0 /\ start - 1 \notin vbm THEN start ELSE FirstFree(vbm, start)
    ELSE IF at + n = NmAlBlks /\ start < NmAlBlks THEN 0
    ELSE at + n

Fit(vbm, start, request) ==
    LET at == BestStart(vbm, start, request)
        n  == RunLength(vbm, at, request)
    IN  [at |-> at, n |-> n, ptr |-> PtrAfter(vbm, start, request, at, n)]

(* The extent reserved for a request, and the new drAllocPtr; the bitmap   *)
(* has a block to give.                                                    *)
Reserve(vbm, ptr, request) == Fit(vbm, Backtracked(vbm, ptr), request)
=============================================================================
