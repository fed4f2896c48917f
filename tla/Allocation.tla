----------------------------- MODULE Allocation -----------------------------
(***************************************************************************)
(* The scan of v_allocblocks (libhfs/volume.c) for the longest run of      *)
(* unused blocks that a request can use, as the code makes it: backtrack,  *)
(* skip the blocks in use, count those that are not, wrap once.            *)
(***************************************************************************)
EXTENDS FirstFit

VARIABLES vbm,        \* the bitmap, drFreeBks # 0
          allocPtr,   \* drAllocPtr
          request,    \* blocks asked for
          start, pt, wrap, found, foundat,      \* the locals
          pc          \* "backtrack", "scan" or "done"

call == <<vbm, allocPtr, request>>
vars == <<vbm, allocPtr, request, start, pt, wrap, found, foundat, pc>>

Init == /\ vbm \in {b \in SUBSET (0 .. NmAlBlks) : ~ (Block \subseteq b)}
        /\ allocPtr \in 0 .. NmAlBlks
        /\ request \in 1 .. NmAlBlks
        /\ start = allocPtr /\ pt = 0 /\ wrap = FALSE
        /\ found = 0 /\ foundat = 0 /\ pc = "backtrack"

Backtrack ==
    /\ pc = "backtrack"
    /\ IF start \notin vbm /\ start > 0 /\ start - 1 \notin vbm
       THEN start' = start - 1 /\ UNCHANGED <<pt, pc>>
       ELSE pt' = start /\ pc' = "scan" /\ UNCHANGED start
    /\ UNCHANGED <<call, wrap, found, foundat>>

(* Faulty variant: one more block than was asked for.                      *)
CountFromTooLong(mark) ==
    Max({n \in 0 .. request + 1 : /\ mark + n <= NmAlBlks
                                  /\ mark .. mark + n - 1 \cap vbm = {}})

(* The blocks not in use from mark on, no more than the request.           *)
CountFrom(mark) ==
    Max({n \in 0 .. request : /\ mark + n <= NmAlBlks
                              /\ mark .. mark + n - 1 \cap vbm = {}})

(* Faulty variant: the wrap is not remembered.                              *)
TurnUnmarked(p, f) ==
    /\ IF p = NmAlBlks THEN pt' = 0 ELSE pt' = p
    /\ UNCHANGED wrap
    /\ pc' = IF f = request THEN "done" ELSE "scan"

(* The end of an iteration: wrap at the end, stop when satisfied.          *)
TurnRound(p, f) ==
    /\ IF p = NmAlBlks THEN pt' = 0 /\ wrap' = TRUE
                       ELSE pt' = p /\ UNCHANGED wrap
    /\ pc' = IF f = request THEN "done" ELSE "scan"

(* One iteration of the scan, when there is a block to look at.            *)
Scan(mark, n) ==
    /\ found' = IF n > found THEN n ELSE found
    /\ foundat' = IF n > found THEN mark ELSE foundat
    /\ IF wrap /\ mark + n >= start
       THEN pt' = mark + n /\ pc' = "done" /\ UNCHANGED wrap
       ELSE TurnRound(mark + n, found')

Iterate ==
    LET mark == FirstFree(vbm, pt) IN
    /\ pc = "scan"
    /\ IF wrap /\ mark >= start
       THEN pt' = mark /\ pc' = "done" /\ UNCHANGED <<wrap, found, foundat>>
       ELSE Scan(mark, CountFrom(mark))
    /\ UNCHANGED <<call, start>>

Next == Backtrack \/ Iterate

Spec == Init /\ [][Next]_vars /\ WF_vars(Next)

-----------------------------------------------------------------------------
(* The scan finds the longest run that is not longer than the request, the *)
(* first one from the start pointer on, and leaves drAllocPtr where the    *)
(* next scan has to look first (v_allocblocks: "find largest unused block  *)
(* which satisfies request").                                              *)
ScanFindsFit ==
    pc = "done" => [at |-> foundat, n |-> found, ptr |-> pt]
                       = Reserve(vbm, allocPtr, request)

(* The scan ends on every bitmap that has a clear bit, wherever drAllocPtr *)
(* points.  The loop is sequential code: it keeps running until it ends.   *)
ScanEnds == <>(pc = "done")

-----------------------------------------------------------------------------
(***************************************************************************)
(* Why: the inductive invariant of the scan.                               *)
(***************************************************************************)
Types == /\ vbm \subseteq 0 .. NmAlBlks /\ ~ (Block \subseteq vbm)
         /\ allocPtr \in 0 .. NmAlBlks /\ request \in 1 .. NmAlBlks
         /\ start \in 0 .. NmAlBlks /\ pt \in 0 .. NmAlBlks /\ wrap \in BOOLEAN
         /\ found \in 0 .. request /\ foundat \in 0 .. NmAlBlks
         /\ pc \in {"backtrack", "scan", "done"}

(* No run lies on both sides of block p.                                   *)
Edge(p) == p \in {0, NmAlBlks} \/ p \in vbm \/ p - 1 \in vbm

(* The blocks that were skipped backwards are not in use.                  *)
StartBack == /\ start <= allocPtr
             /\ IF allocPtr \in vbm THEN start = allocPtr ELSE start .. allocPtr \cap vbm = {}
             /\ pc # "backtrack" => start \in vbm \/ start = 0 \/ start - 1 \in vbm

(* The runs the scan has come by, and the best of them.                    *)
Passed(q) == IF wrap THEN q >= start \/ q < pt ELSE start <= q /\ q < pt

Better(q, o) == \/ RunLength(vbm, o, request) < RunLength(vbm, q, request)
                \/ /\ RunLength(vbm, o, request) = RunLength(vbm, q, request)
                   /\ Turn(start, q) < Turn(start, o)

BestPassed ==
    IF found = 0 THEN \A o \in RunStarts(vbm) : ~ Passed(o)
    ELSE /\ foundat \in RunStarts(vbm) /\ Passed(foundat)
         /\ found = RunLength(vbm, foundat, request)
         /\ \A o \in RunStarts(vbm) \ {foundat} : Passed(o) => Better(foundat, o)

Scanning == pc = "scan" =>
                /\ BestPassed /\ found < request /\ Edge(pt)
                /\ IF wrap THEN pt < start \/ (start = 0 /\ pt = 0)
                   ELSE start <= pt /\ (pt = NmAlBlks => start = NmAlBlks)

Fresh == pc = "backtrack" => found = 0 /\ ~ wrap

ScanDone == pc = "done" => [at |-> foundat, n |-> found, ptr |-> pt] = Fit(vbm, start, request)

ScanInv == Types /\ StartBack /\ Fresh /\ Scanning /\ ScanDone
=============================================================================
