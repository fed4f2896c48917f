-------------------------- MODULE AllocationProofs --------------------------
(***************************************************************************)
(* The scan of v_allocblocks finds, on a volume of any size, what FirstFit *)
(* says: the longest run the request can use, the first one from the start *)
(* pointer on.                                                             *)
(***************************************************************************)
EXTENDS Allocation, Extremes, TLAPS

-----------------------------------------------------------------------------
(* What the operators of FirstFit return.                                  *)
LEMMA FirstFreeIs ==
    ASSUME NEW map, NEW p \in 0 .. NmAlBlks
    PROVE  /\ FirstFree(map, p) \in p .. NmAlBlks
           /\ FirstFree(map, p) # NmAlBlks => FirstFree(map, p) \notin map
           /\ \A q \in p .. FirstFree(map, p) - 1 : q \in map
<1> DEFINE S == {q \in Block : q >= p /\ q \notin map} \cup {NmAlBlks}
           f == FirstFree(map, p)
<1>0. NmAlBlks \in Nat \ {0} BY NmAlBlksAssumption
<1>1. S \in SUBSET Nat /\ S # {} /\ \A q \in S : q \in p .. NmAlBlks
  BY <1>0 DEF Block
<1>2. f \in S /\ \A y \in S : f <= y
  <2>1. f = Min(S) BY DEF FirstFree
  <2> HIDE DEF S, f
  <2> QED BY <1>1, <2>1, MinOf
<1>3. f \in p .. NmAlBlks /\ (f # NmAlBlks => f \notin map)
  <2> HIDE DEF f
  <2> QED BY <1>1, <1>2
<1>4. ASSUME NEW q \in p .. f - 1 PROVE q \in map
  <2> HIDE DEF f
  <2>1. q \in Block /\ q >= p /\ ~ (f <= q) BY <1>0, <1>3 DEF Block
  <2> QED BY <2>1, <1>2
<1> QED BY <1>3, <1>4

(* The run counted from a free block fits the map and the request. *)
LEMMA RunLengthIs ==
    ASSUME NEW map, NEW q \in Block, q \notin map, NEW req \in 1 .. NmAlBlks
    PROVE  /\ RunLength(map, q, req) \in 1 .. req
           /\ q + RunLength(map, q, req) <= NmAlBlks
           /\ q .. q + RunLength(map, q, req) - 1 \cap map = {}
           /\ RunLength(map, q, req) < req =>
                 q + RunLength(map, q, req) = NmAlBlks \/ q + RunLength(map, q, req) \in map
<1> DEFINE S == {n \in 1 .. req : q + n <= NmAlBlks /\ q .. q + n - 1 \cap map = {}}
           r == RunLength(map, q, req)
<1>0. NmAlBlks \in Nat \ {0} /\ q \in 0 .. NmAlBlks - 1 BY NmAlBlksAssumption DEF Block
<1>1. 1 \in S
  <2>1. q .. q + 1 - 1 = {q} BY <1>0
  <2> QED BY <1>0, <2>1
<1>2. S \in SUBSET (0 .. req) /\ S # {} /\ req \in Nat BY <1>0, <1>1
<1>3. r \in S /\ \A y \in S : r >= y
  <2>1. r = Max(S) BY DEF RunLength
  <2> HIDE DEF S, r
  <2> QED BY <1>2, <2>1, MaxOf
<1>4. ASSUME r < req, q + r # NmAlBlks, q + r \notin map PROVE FALSE
  <2> HIDE DEF r
  <2>1. r + 1 \in 1 .. req /\ q + (r + 1) <= NmAlBlks BY <1>0, <1>3, <1>4
  <2>2. q .. q + (r + 1) - 1 = (q .. q + r - 1) \cup {q + r} BY <1>0, <1>3
  <2>3. q .. q + (r + 1) - 1 \cap map = {} BY <2>2, <1>3, <1>4
  <2>4. r + 1 \in S BY <2>1, <2>3
  <2> QED BY <2>4, <1>3
<1> HIDE DEF r
<1> QED BY <1>3, <1>4 DEF r

(* The loop's count is the length of the run, or 0 at the padding.         *)
LEMMA CountFromIs ==
    ASSUME NEW mark \in Block, mark \notin vbm, request \in 1 .. NmAlBlks
    PROVE  CountFrom(mark) = RunLength(vbm, mark, request)
<1> DEFINE S == {n \in 1 .. request : /\ mark + n <= NmAlBlks
                                      /\ mark .. mark + n - 1 \cap vbm = {}}
           Z == {n \in 0 .. request : /\ mark + n <= NmAlBlks
                                      /\ mark .. mark + n - 1 \cap vbm = {}}
           r == RunLength(vbm, mark, request)
<1>0. NmAlBlks \in Nat \ {0} /\ mark \in 0 .. NmAlBlks - 1 BY NmAlBlksAssumption DEF Block
<1>1. r = Max(S) /\ CountFrom(mark) = Max(Z)
  BY DEF RunLength, CountFrom
<1>2. 1 \in S
  <2>1. mark .. mark + 1 - 1 = {mark} BY <1>0
  <2> QED BY <1>0, <2>1
<1>3. S \in SUBSET (0 .. request) /\ S # {} /\ request \in Nat BY <1>0, <1>2
<1>4. r \in S /\ \A y \in S : r >= y
  <2> HIDE DEF S, r
  <2> QED BY <1>1, <1>3, MaxOf
<1>5. Z \in SUBSET Int /\ r \in Z BY <1>4
<1>6. \A y \in Z : y = 0 \/ y \in S OBVIOUS
<1>7. \A y \in Z : r >= y
  <2>1. r \in Nat BY <1>3, <1>4
  <2> HIDE DEF S, Z, r
  <2> SUFFICES ASSUME NEW y \in Z PROVE r >= y OBVIOUS
  <2>2. CASE y = 0 BY <2>1, <2>2
  <2>3. CASE y \in S BY <2>3, <1>4
  <2> QED BY <2>2, <2>3, <1>6
<1> QED
  <2> HIDE DEF S, Z, r
  <2>1. Max(Z) = r BY <1>5, <1>7, MaxIs
  <2> QED BY <1>1, <2>1 DEF r

(* Nothing is counted from beyond the last block. *)
LEMMA CountFromEnd ==
    ASSUME request \in 1 .. NmAlBlks PROVE CountFrom(NmAlBlks) = 0
<1> DEFINE Z == {n \in 0 .. request : /\ NmAlBlks + n <= NmAlBlks
                                      /\ NmAlBlks .. NmAlBlks + n - 1 \cap vbm = {}}
<1>1. Z = {0}
  BY NmAlBlksAssumption
<1>2. CountFrom(NmAlBlks) = Max({0}) BY <1>1 DEF CountFrom
<1> QED BY <1>2, MaxIs

(* How far from the start the scan meets a block.                          *)
LEMMA TurnIs ==
    ASSUME NEW s \in 0 .. NmAlBlks, NEW q \in Block
    PROVE  Turn(s, q) = IF q >= s THEN q - s ELSE q - s + NmAlBlks
<1>0. NmAlBlks \in Nat \ {0} /\ q \in 0 .. NmAlBlks - 1 BY NmAlBlksAssumption DEF Block
<1>1. CASE q >= s
  <2>1. q - s \in 0 .. NmAlBlks - 1 BY <1>0, <1>1
  <2> QED BY <1>0, <1>1, <2>1 DEF Turn
<1>2. CASE ~ (q >= s)
  <2>1. q - s + NmAlBlks \in 0 .. NmAlBlks - 1 BY <1>0, <1>2
  <2>2. (q - s) % NmAlBlks = (q - s + NmAlBlks) % NmAlBlks BY <1>0, <1>2, <2>1
  <2> QED BY <1>0, <1>2, <2>1, <2>2 DEF Turn
<1> QED BY <1>1, <1>2

-----------------------------------------------------------------------------
(* There is a run, and it is found where the scan looks for it.            *)
LEMMA Bounds == /\ NmAlBlks \in Nat \ {0}
                /\ \A q \in Block : q \in 0 .. NmAlBlks - 1
                /\ \A q \in 0 .. NmAlBlks - 1 : q \in Block
BY NmAlBlksAssumption DEF Block

(* A free block with none free before it is FirstFree. *)
LEMMA FirstFreeUnique ==
    ASSUME NEW map, NEW p \in 0 .. NmAlBlks, NEW m \in p .. NmAlBlks,
           m # NmAlBlks => m \notin map, \A q \in p .. m - 1 : q \in map
    PROVE  FirstFree(map, p) = m
<1> DEFINE f == FirstFree(map, p)
<1>1. /\ f \in p .. NmAlBlks
      /\ f # NmAlBlks => f \notin map
      /\ \A q \in p .. f - 1 : q \in map
  BY FirstFreeIs
<1> HIDE DEF f
<1>2. ~ (f < m) BY <1>1, Bounds
<1>3. ~ (m < f) BY <1>1, Bounds
<1>4. f = m BY <1>1, <1>2, <1>3, Bounds
<1> QED BY <1>4 DEF f

(* A volume with a free block has a run of free blocks. *)
LEMMA SomeRun == ASSUME Types PROVE \E q \in RunStarts(vbm) : TRUE
<1> DEFINE f == FirstFree(vbm, 0)
<1>1. /\ f \in 0 .. NmAlBlks
      /\ f # NmAlBlks => f \notin vbm
      /\ \A q \in 0 .. f - 1 : q \in vbm
  BY FirstFreeIs, Bounds
<1> HIDE DEF f
<1>2. f # NmAlBlks BY <1>1, Bounds DEF Types
<1>3. f \in Block /\ f \notin vbm /\ (f = 0 \/ f - 1 \in vbm) BY <1>1, <1>2, Bounds
<1> QED BY <1>3 DEF RunStarts

(* A run starts at a free block that follows a used one or nothing. *)
LEMMA RunStartIs == ASSUME NEW q \in RunStarts(vbm)
                    PROVE  /\ q \in Block /\ q \in 0 .. NmAlBlks - 1 /\ q \notin vbm
                           /\ q = 0 \/ q - 1 \in vbm
BY Bounds DEF RunStarts

(* The first unused block ahead begins a run, and no run begins before it. *)
LEMMA MarkIs ==
    ASSUME Types, Edge(pt), NEW mark, mark = FirstFree(vbm, pt)
    PROVE  /\ mark \in pt .. NmAlBlks
           /\ mark # NmAlBlks => mark \in RunStarts(vbm)
           /\ \A q \in RunStarts(vbm) : q < pt \/ q >= mark
<1>1. /\ mark \in pt .. NmAlBlks
      /\ mark # NmAlBlks => mark \notin vbm
      /\ \A q \in pt .. mark - 1 : q \in vbm
  BY FirstFreeIs DEF Types
<1>2. ASSUME mark # NmAlBlks PROVE mark \in RunStarts(vbm)
  <2>1. mark \in Block /\ mark \notin vbm BY <1>1, <1>2, Bounds DEF Types
  <2>2. CASE mark = pt BY <2>1, <2>2, Bounds DEF Edge, RunStarts
  <2>3. CASE mark # pt
    <3>1. mark - 1 \in pt .. mark - 1 BY <2>3, <1>1, Bounds DEF Types
    <3> QED BY <3>1, <2>1, <1>1 DEF RunStarts
  <2> QED BY <2>2, <2>3
<1>3. ASSUME NEW q \in RunStarts(vbm), ~ (q < pt), ~ (q >= mark) PROVE FALSE
  <2>1. q \in pt .. mark - 1 BY <1>1, <1>3, RunStartIs DEF Types
  <2> QED BY <2>1, <1>1, RunStartIs
<1> QED BY <1>1, <1>2, <1>3

(* The count ends where the run does, or at the request.                   *)
LEMMA CountIs ==
    ASSUME Types, NEW mark \in RunStarts(vbm), NEW n, n = CountFrom(mark)
    PROVE  /\ n = RunLength(vbm, mark, request)
           /\ n \in 1 .. request /\ mark + n <= NmAlBlks
           /\ \A q \in mark .. mark + n - 1 : q \notin vbm
           /\ n < request => mark + n = NmAlBlks \/ mark + n \in vbm
           /\ \A q \in RunStarts(vbm) : q <= mark \/ q >= mark + n
<1>1. mark \in Block /\ mark \in 0 .. NmAlBlks - 1 /\ mark \notin vbm BY RunStartIs
<1>2. request \in 1 .. NmAlBlks BY DEF Types
<1>3. n = RunLength(vbm, mark, request) BY <1>1, <1>2, CountFromIs
<1>4. /\ n \in 1 .. request /\ mark + n <= NmAlBlks
      /\ mark .. mark + n - 1 \cap vbm = {}
      /\ n < request => mark + n = NmAlBlks \/ mark + n \in vbm
  BY <1>1, <1>2, <1>3, RunLengthIs
<1>5. ASSUME NEW q \in RunStarts(vbm), ~ (q <= mark), ~ (q >= mark + n) PROVE FALSE
  <2>1. q \in 0 .. NmAlBlks - 1 /\ (q = 0 \/ q - 1 \in vbm) BY RunStartIs
  <2>2. q - 1 \in mark .. mark + n - 1 /\ q # 0 BY <2>1, <1>1, <1>2, <1>4, <1>5
  <2> QED BY <2>1, <2>2, <1>4
<1> QED BY <1>3, <1>4, <1>5

(* Lengths and turns of runs are numbers, turns counted from start. *)
LEMMA RunLengths == ASSUME Types, NEW q \in RunStarts(vbm)
                    PROVE  /\ RunLength(vbm, q, request) \in 1 .. request
                           /\ Turn(start, q) \in Int
                           /\ Turn(start, q) = IF q >= start THEN q - start
                                               ELSE q - start + NmAlBlks
<1>1. q \in Block /\ q \in 0 .. NmAlBlks - 1 /\ q \notin vbm BY RunStartIs
<1>2. Turn(start, q) = IF q >= start THEN q - start ELSE q - start + NmAlBlks
  BY <1>1, TurnIs DEF Types
<1>3. RunLength(vbm, q, request) \in 1 .. request
  BY <1>1, RunLengthIs DEF Types
<1> QED BY <1>1, <1>2, <1>3, Bounds DEF Types

(* A run that is better than all others is the one FirstFit names.         *)
LEMMA BestIs ==
    ASSUME Types, NEW at \in RunStarts(vbm),
           \A o \in RunStarts(vbm) \ {at} : Better(at, o)
    PROVE  BestStart(vbm, start, request) = at
<1> DEFINE Best(q) == \A o \in RunStarts(vbm) \ {q} : Better(q, o)
           c == CHOOSE q \in RunStarts(vbm) : Best(q)
<1>1. c \in RunStarts(vbm) /\ Best(c)
  OBVIOUS
<1>2. BestStart(vbm, start, request) = c
  BY DEF BestStart, Better
<1> HIDE DEF c
<1>3. ASSUME c # at PROVE FALSE
  <2>1. Better(c, at) /\ Better(at, c) BY <1>1, <1>3
  <2>2. /\ RunLength(vbm, c, request) \in Int /\ Turn(start, c) \in Int
        /\ RunLength(vbm, at, request) \in Int /\ Turn(start, at) \in Int
    <3>1. RunLength(vbm, c, request) \in 1 .. request /\ Turn(start, c) \in Int
      BY <1>1, RunLengths
    <3>2. RunLength(vbm, at, request) \in 1 .. request /\ Turn(start, at) \in Int
      BY RunLengths
    <3> QED BY <3>1, <3>2
  <2> QED BY <2>1, <2>2 DEF Better
<1> QED BY <1>2, <1>3

-----------------------------------------------------------------------------
(* The best run passed so far, after the one at mark has been counted.     *)
LEMMA Considered ==
    ASSUME Types, BestPassed, Edge(pt), wrap => pt < start \/ (start = 0 /\ pt = 0),
           ~ wrap => start <= pt,
           NEW mark, mark = FirstFree(vbm, pt), mark # NmAlBlks, ~ (wrap /\ mark >= start),
           NEW n, n = CountFrom(mark),
           NEW f, f = IF n > found THEN n ELSE found,
           NEW at, at = IF n > found THEN mark ELSE foundat
    PROVE  /\ at \in RunStarts(vbm) /\ f = RunLength(vbm, at, request) /\ f \in 1 .. request
           /\ at = mark \/ Passed(at)
           /\ \A o \in RunStarts(vbm) \ {at} : o = mark \/ Passed(o) => Better(at, o)
<1>1. mark \in RunStarts(vbm) /\ mark \in pt .. NmAlBlks
  BY MarkIs
<1>2. n = RunLength(vbm, mark, request) /\ n \in 1 .. request
  BY <1>1, CountIs
<1>3. ASSUME NEW o \in RunStarts(vbm), Passed(o)
      PROVE  o # mark /\ Turn(start, o) < Turn(start, mark)
  <2>1. o \in 0 .. NmAlBlks - 1 /\ mark \in 0 .. NmAlBlks - 1 BY <1>1, RunStartIs
  <2>2. Turn(start, o) = IF o >= start THEN o - start ELSE o - start + NmAlBlks
    BY RunLengths
  <2>3. Turn(start, mark) = IF mark >= start THEN mark - start ELSE mark - start + NmAlBlks
    BY <1>1, RunLengths
  <2>4. start \in 0 .. NmAlBlks /\ pt \in 0 .. NmAlBlks /\ wrap \in BOOLEAN BY DEF Types
  <2>5. CASE wrap BY <2>1, <2>2, <2>3, <2>4, <2>5, <1>1, <1>3, Bounds DEF Passed
  <2>6. CASE ~ wrap BY <2>1, <2>2, <2>3, <2>4, <2>6, <1>1, <1>3, Bounds DEF Passed
  <2> QED BY <2>4, <2>5, <2>6
<1>4. CASE n > found
  <2>1. ASSUME NEW o \in RunStarts(vbm), Passed(o) PROVE RunLength(vbm, o, request) < n
    <3>1. found # 0 BY <2>1 DEF BestPassed
    <3>2. RunLength(vbm, o, request) <= found
      <4>1. CASE o = foundat BY <4>1, <3>1, RunLengths DEF BestPassed
      <4>2. CASE o # foundat
        <5>1. Better(foundat, o) /\ found = RunLength(vbm, foundat, request)
          BY <2>1, <3>1, <4>2 DEF BestPassed
        <5> QED BY <5>1, RunLengths DEF Better, Types
      <4> QED BY <4>1, <4>2
    <3>3. RunLength(vbm, o, request) \in 1 .. request /\ found \in 0 .. request
          /\ request \in 1 .. NmAlBlks
      BY RunLengths DEF Types
    <3> QED BY <3>2, <3>3, <1>2, <1>4
  <2>2. at = mark /\ f = n BY <1>4
  <2> QED BY <2>1, <2>2, <1>1, <1>2 DEF Better
<1>5. CASE ~ (n > found)
  <2>1. at = foundat /\ f = found BY <1>5
  <2>2. found # 0 /\ found \in 1 .. request BY <1>2, <1>5, Bounds DEF Types
  <2>3. /\ foundat \in RunStarts(vbm) /\ Passed(foundat)
        /\ found = RunLength(vbm, foundat, request)
        /\ \A o \in RunStarts(vbm) \ {foundat} : Passed(o) => Better(foundat, o)
    BY <2>2 DEF BestPassed
  <2>4. Better(foundat, mark)
    <3>1. Turn(start, foundat) < Turn(start, mark) BY <2>3, <1>3
    <3>2. n <= found BY <1>2, <1>5, <2>2 DEF Types
    <3> QED BY <3>1, <3>2, <2>2, <2>3, <1>2 DEF Better, Types
  <2> QED BY <2>1, <2>2, <2>3, <2>4
<1> QED BY <1>4, <1>5

(* The scan came back to its start.                                        *)
LEMMA DoneAround ==
    ASSUME Types, StartBack, Scanning, pc = "scan", wrap, NEW mark, mark = FirstFree(vbm, pt),
           mark >= start
    PROVE  [at |-> foundat, n |-> found, ptr |-> mark] = Fit(vbm, start, request)
<1>1. /\ BestPassed /\ found < request /\ Edge(pt)
      /\ pt < start \/ (start = 0 /\ pt = 0)
  BY DEF Scanning
<1>2. /\ mark \in pt .. NmAlBlks
      /\ mark # NmAlBlks => mark \in RunStarts(vbm)
      /\ \A q \in RunStarts(vbm) : q < pt \/ q >= mark
  BY <1>1, MarkIs
<1>3. start \in 0 .. NmAlBlks /\ pt \in 0 .. NmAlBlks /\ found \in 0 .. request
      /\ request \in 1 .. NmAlBlks
  BY DEF Types
<1>4. ASSUME NEW o \in RunStarts(vbm) PROVE Passed(o)
  <2>1. o \in 0 .. NmAlBlks - 1 /\ (o < pt \/ o >= mark) BY <1>2, RunStartIs
  <2> QED BY <2>1, <1>2, <1>3 DEF Passed
<1>5. found # 0 BY <1>1, <1>4, SomeRun DEF BestPassed
<1>6. /\ foundat \in RunStarts(vbm) /\ found = RunLength(vbm, foundat, request)
      /\ \A o \in RunStarts(vbm) \ {foundat} : Better(foundat, o)
  BY <1>1, <1>4, <1>5 DEF BestPassed
<1>7. BestStart(vbm, start, request) = foundat
  BY <1>6, BestIs
<1>8. \A q \in pt .. mark - 1 : q \in vbm
  BY FirstFreeIs DEF Types
<1>9. ~ (start > 0 /\ start - 1 \notin vbm)
  <2> SUFFICES ASSUME start > 0 PROVE start - 1 \in vbm OBVIOUS
  <2>1. start - 1 \in pt .. mark - 1 BY <1>1, <1>2, <1>3
  <2> QED BY <2>1, <1>8
<1>10. FirstFree(vbm, start) = mark
  <2>1. mark \in start .. NmAlBlks BY <1>2, <1>3
  <2>2. mark # NmAlBlks => mark \notin vbm BY <1>2, RunStartIs
  <2>3. \A q \in start .. mark - 1 : q \in vbm BY <1>1, <1>2, <1>3, <1>8
  <2> QED BY <1>3, <2>1, <2>2, <2>3, FirstFreeUnique
<1>11. PtrAfter(vbm, start, request, foundat, found) = mark
  BY <1>1, <1>9, <1>10 DEF PtrAfter
<1> QED BY <1>6, <1>7, <1>11 DEF Fit

(* The request is satisfied.                                               *)
LEMMA DoneFull ==
    ASSUME Types, StartBack, Scanning, pc = "scan", NEW mark, mark = FirstFree(vbm, pt),
           ~ (wrap /\ mark >= start), NEW n, n = CountFrom(mark), n = request,
           NEW p, p = IF mark + n = NmAlBlks /\ ~ (wrap /\ mark + n >= start) THEN 0
                      ELSE mark + n
    PROVE  [at |-> mark, n |-> n, ptr |-> p] = Fit(vbm, start, request)
<1>1. /\ BestPassed /\ found < request /\ Edge(pt)
      /\ IF wrap THEN pt < start \/ (start = 0 /\ pt = 0)
                 ELSE start <= pt /\ (pt = NmAlBlks => start = NmAlBlks)
  BY DEF Scanning
<1>2. start \in 0 .. NmAlBlks /\ pt \in 0 .. NmAlBlks /\ found \in 0 .. request
      /\ request \in 1 .. NmAlBlks /\ wrap \in BOOLEAN
  BY DEF Types
<1>3. mark # NmAlBlks
  <2> SUFFICES ASSUME mark = NmAlBlks PROVE FALSE OBVIOUS
  <2>1. n = 0 BY <1>2, CountFromEnd
  <2> QED BY <2>1, <1>2
<1>4. /\ mark \in pt .. NmAlBlks /\ mark \in RunStarts(vbm)
      /\ \A q \in RunStarts(vbm) : q < pt \/ q >= mark
  BY <1>1, <1>3, MarkIs
<1>5. /\ n = RunLength(vbm, mark, request) /\ mark + n <= NmAlBlks
      /\ \A q \in mark .. mark + n - 1 : q \notin vbm
  BY <1>4, CountIs
<1>6. /\ n > found
      /\ \A o \in RunStarts(vbm) \ {mark} : Passed(o) => Better(mark, o)
  <2>1. n > found BY <1>1, <1>2
  <2> QED BY <2>1, <1>1, <1>3, Considered
<1>7. ASSUME NEW o \in RunStarts(vbm) \ {mark}, ~ Passed(o) PROVE Better(mark, o)
  <2>1. o \in 0 .. NmAlBlks - 1 /\ mark \in 0 .. NmAlBlks - 1 /\ (o < pt \/ o >= mark)
    BY <1>4, RunStartIs
  <2>2. Turn(start, o) = IF o >= start THEN o - start ELSE o - start + NmAlBlks
    BY RunLengths
  <2>3. Turn(start, mark) = IF mark >= start THEN mark - start ELSE mark - start + NmAlBlks
    BY <1>4, RunLengths
  <2>4. Turn(start, mark) < Turn(start, o)
    <3>1. CASE wrap BY <2>1, <2>2, <2>3, <3>1, <1>1, <1>2, <1>7, Bounds DEF Passed
    <3>2. CASE ~ wrap BY <2>1, <2>2, <2>3, <3>2, <1>1, <1>2, <1>4, <1>7, Bounds DEF Passed
    <3> QED BY <3>1, <3>2, <1>2
  <2>5. RunLength(vbm, o, request) \in 1 .. request BY RunLengths
  <2>6. RunLength(vbm, o, request) < n \/ RunLength(vbm, o, request) = n BY <2>5, <1>2
  <2> QED BY <2>4, <2>6, <1>5 DEF Better
<1>8. BestStart(vbm, start, request) = mark
  BY <1>4, <1>6, <1>7, BestIs
<1>9. ASSUME wrap, mark + n >= start, mark + n = NmAlBlks PROVE start = NmAlBlks
  <2> SUFFICES ASSUME start # NmAlBlks PROVE FALSE OBVIOUS
  <2>1. mark < start BY <1>2, <1>4, <1>9
  <2>2. start \in mark .. mark + n - 1 /\ start - 1 \in mark .. mark + n - 1
    BY <2>1, <1>2, <1>4, <1>9
  <2>3. start \notin vbm /\ start - 1 \notin vbm BY <2>2, <1>5
  <2>4. start # 0 BY <2>1, <1>2, <1>4
  <2> QED BY <2>3, <2>4 DEF StartBack
<1>10. ASSUME start = NmAlBlks
       PROVE  (wrap /\ mark + n >= start /\ mark < start) \/ mark + n # NmAlBlks
  BY <1>1, <1>2, <1>3, <1>4, <1>10
<1>11. PtrAfter(vbm, start, request, mark, n) = p
  <2>1. PtrAfter(vbm, start, request, mark, n)
          = IF mark + n = NmAlBlks /\ start < NmAlBlks THEN 0 ELSE mark + n
    BY <1>2 DEF PtrAfter
  <2> QED BY <2>1, <1>2, <1>9, <1>10, Bounds
<1> QED BY <1>5, <1>8, <1>11 DEF Fit

(* The scan came round to its start in the middle of a run.                *)
LEMMA DoneInRun ==
    ASSUME Types, StartBack, Scanning, pc = "scan", wrap, NEW mark, mark = FirstFree(vbm, pt),
           ~ (mark >= start), NEW n, n = CountFrom(mark), mark + n >= start,
           NEW f, f = IF n > found THEN n ELSE found, f # request,
           NEW at, at = IF n > found THEN mark ELSE foundat
    PROVE  [at |-> at, n |-> f, ptr |-> mark + n] = Fit(vbm, start, request)
<1>1. /\ BestPassed /\ found < request /\ Edge(pt)
      /\ pt < start \/ (start = 0 /\ pt = 0)
  BY DEF Scanning
<1>2. start \in 0 .. NmAlBlks /\ pt \in 0 .. NmAlBlks /\ found \in 0 .. request
      /\ request \in 1 .. NmAlBlks
  BY DEF Types
<1>3. mark \in pt .. NmAlBlks BY <1>1, MarkIs
<1>4. mark # NmAlBlks BY <1>2, <1>3
<1>5. /\ mark \in RunStarts(vbm)
      /\ \A q \in RunStarts(vbm) : q < pt \/ q >= mark
  BY <1>1, <1>4, MarkIs
<1>6. /\ n \in 1 .. request /\ mark + n <= NmAlBlks
      /\ \A q \in mark .. mark + n - 1 : q \notin vbm
      /\ \A q \in RunStarts(vbm) : q <= mark \/ q >= mark + n
  BY <1>5, CountIs
<1>7. /\ at \in RunStarts(vbm) /\ f = RunLength(vbm, at, request) /\ f \in 1 .. request
      /\ \A o \in RunStarts(vbm) \ {at} : o = mark \/ Passed(o) => Better(at, o)
  BY <1>1, <1>4, Considered
<1>8. ASSUME NEW o \in RunStarts(vbm) PROVE o = mark \/ Passed(o)
  <2>1. /\ o \in 0 .. NmAlBlks - 1
        /\ o < pt \/ o >= mark
        /\ o <= mark \/ o >= mark + n
    BY <1>5, <1>6, RunStartIs
  <2> QED BY <2>1, <1>2, <1>3, <1>6 DEF Passed
<1>9. BestStart(vbm, start, request) = at
  BY <1>7, <1>8, BestIs
<1>10. start > 0 /\ start - 1 \notin vbm
  <2>1. start > 0 /\ start - 1 \in mark .. mark + n - 1 BY <1>2, <1>3, <1>6
  <2> QED BY <2>1, <1>6
<1>11. mark + n = start
  <2> SUFFICES ASSUME mark + n # start PROVE FALSE OBVIOUS
  <2>1. start \in mark .. mark + n - 1 BY <1>2, <1>3, <1>6
  <2> QED BY <2>1, <1>6, <1>10 DEF StartBack
<1>12. PtrAfter(vbm, start, request, at, f) = mark + n
  BY <1>2, <1>7, <1>10, <1>11 DEF PtrAfter
<1> QED BY <1>7, <1>9, <1>12 DEF Fit

(* The scan goes on: behind a run, or at the first block after the last.   *)
LEMMA GoesOn ==
    ASSUME Types, StartBack, Scanning, pc = "scan", NEW mark, mark = FirstFree(vbm, pt),
           ~ (wrap /\ mark >= start), NEW n, n = CountFrom(mark),
           ~ (wrap /\ mark + n >= start),
           found' = (IF n > found THEN n ELSE found),
           foundat' = (IF n > found THEN mark ELSE foundat),
           found' # request, TurnRound(mark + n, found'), UNCHANGED <<call, start>>
    PROVE  ScanInv'
<1> DEFINE f == IF n > found THEN n ELSE found
           at == IF n > found THEN mark ELSE foundat
<1>1. /\ BestPassed /\ found < request /\ Edge(pt)
      /\ IF wrap THEN pt < start \/ (start = 0 /\ pt = 0)
                 ELSE start <= pt /\ (pt = NmAlBlks => start = NmAlBlks)
  BY DEF Scanning
<1>2. /\ start \in 0 .. NmAlBlks /\ pt \in 0 .. NmAlBlks /\ found \in 0 .. request
      /\ request \in 1 .. NmAlBlks /\ wrap \in BOOLEAN /\ foundat \in 0 .. NmAlBlks
  BY DEF Types
<1>3. mark \in pt .. NmAlBlks /\ \A q \in RunStarts(vbm) : q < pt \/ q >= mark
  BY <1>1, MarkIs
<1>4. /\ UNCHANGED <<vbm, allocPtr, request, start>> /\ pc' = "scan"
      /\ found' = f /\ foundat' = at
      /\ IF mark + n = NmAlBlks THEN pt' = 0 /\ wrap' = TRUE
                                ELSE pt' = mark + n /\ UNCHANGED wrap
  BY DEF TurnRound, call
<1>5. CASE mark = NmAlBlks
  <2>1. n = 0 BY <1>2, <1>5, CountFromEnd
  <2>2. f = found /\ at = foundat /\ ~ wrap BY <2>1, <1>2, <1>5
  <2>3. pt' = 0 /\ wrap' = TRUE BY <2>1, <1>4, <1>5, Bounds
  <2>4. \A o \in RunStarts(vbm) : Passed(o)' <=> Passed(o)
    BY <2>2, <2>3, <1>1, <1>2, <1>3, <1>4, <1>5, RunStartIs DEF Passed
  <2>5. BestPassed'
    BY <2>2, <2>4, <1>1, <1>4 DEF BestPassed, Better
  <2>6. Types' BY <2>2, <2>3, <1>2, <1>4, Bounds DEF Types
  <2>7. Scanning' BY <2>2, <2>3, <2>5, <1>1, <1>2, <1>4 DEF Scanning, Edge
  <2> QED BY <2>6, <2>7, <1>4 DEF ScanInv, StartBack, Fresh, ScanDone
<1>6. CASE mark # NmAlBlks
  <2>1. mark \in RunStarts(vbm) BY <1>1, <1>6, MarkIs
  <2>2. /\ n \in 1 .. request /\ mark + n <= NmAlBlks
        /\ n < request => mark + n = NmAlBlks \/ mark + n \in vbm
        /\ \A q \in RunStarts(vbm) : q <= mark \/ q >= mark + n
    BY <2>1, CountIs
  <2>3. /\ at \in RunStarts(vbm) /\ f = RunLength(vbm, at, request) /\ f \in 1 .. request
        /\ at = mark \/ Passed(at)
        /\ \A o \in RunStarts(vbm) \ {at} : o = mark \/ Passed(o) => Better(at, o)
    BY <1>1, <1>6, Considered
  <2>4. \A o \in RunStarts(vbm) : Passed(o)' <=> o = mark \/ Passed(o)
    <3> SUFFICES ASSUME NEW o \in RunStarts(vbm)
                 PROVE  Passed(o)' <=> o = mark \/ Passed(o)
      OBVIOUS
    <3>1. /\ o \in 0 .. NmAlBlks - 1 /\ (o < pt \/ o >= mark)
          /\ o <= mark \/ o >= mark + n
      BY <2>2, <1>3, RunStartIs
    <3>2. CASE mark + n = NmAlBlks
      BY <3>1, <3>2, <2>2, <1>1, <1>2, <1>3, <1>4 DEF Passed
    <3>3. CASE mark + n # NmAlBlks
      BY <3>1, <3>3, <2>2, <1>1, <1>2, <1>3, <1>4 DEF Passed
    <3> QED BY <3>2, <3>3
  <2>5. BestPassed'
    BY <2>3, <2>4, <1>2, <1>4 DEF BestPassed, Better
  <2>6. f < request /\ n < request BY <2>2, <2>3, <1>1, <1>2, <1>4
  <2>7. Types'
    <3>1. at \in 0 .. NmAlBlks - 1 BY <2>3, RunStartIs
    <3>2. mark + n \in 0 .. NmAlBlks BY <2>2, <1>2, <1>3, Bounds
    <3>3. f \in 0 .. request /\ at \in 0 .. NmAlBlks BY <2>3, <3>1, <1>2, Bounds
    <3>4. pt' \in 0 .. NmAlBlks
      <4>1. pt' = 0 \/ pt' = mark + n BY <1>4
      <4> QED BY <4>1, <3>2, Bounds
    <3>5. wrap' \in BOOLEAN
      <4>1. CASE mark + n = NmAlBlks BY <4>1, <1>4
      <4>2. CASE mark + n # NmAlBlks BY <4>2, <1>2, <1>4
      <4> QED BY <4>1, <4>2
    <3> HIDE DEF f, at
    <3> QED BY <3>3, <3>4, <3>5, <1>4 DEF Types
  <2>8. Scanning'
    <3>1. CASE mark + n = NmAlBlks
      BY <3>1, <2>2, <2>5, <2>6, <1>2, <1>4 DEF Scanning, Edge
    <3>2. CASE mark + n # NmAlBlks
      BY <3>2, <2>2, <2>5, <2>6, <1>1, <1>2, <1>3, <1>4 DEF Scanning, Edge
    <3> QED BY <3>1, <3>2
  <2> QED BY <2>7, <2>8, <1>4 DEF ScanInv, StartBack, Fresh, ScanDone
<1> QED BY <1>5, <1>6

(* The cases of an iteration together.                                     *)
LEMMA IterateInv == ASSUME ScanInv, Iterate PROVE ScanInv'
<1> DEFINE mark == FirstFree(vbm, pt)
           n == CountFrom(mark)
           f == IF n > found THEN n ELSE found
           at == IF n > found THEN mark ELSE foundat
<1>1. /\ Types /\ StartBack /\ Scanning /\ pc = "scan"
      /\ UNCHANGED <<vbm, allocPtr, request, start>> /\ UNCHANGED <<call, start>>
  BY DEF ScanInv, Iterate, call
<1>2. /\ found < request /\ found \in 0 .. request /\ request \in 1 .. NmAlBlks
      /\ start \in 0 .. NmAlBlks /\ pt \in 0 .. NmAlBlks /\ foundat \in 0 .. NmAlBlks
      /\ wrap \in BOOLEAN /\ Edge(pt)
  BY <1>1 DEF Types, Scanning
<1>3. mark \in 0 .. NmAlBlks /\ n \in 0 .. request /\ mark + n \in 0 .. NmAlBlks
  <2>1. /\ mark \in pt .. NmAlBlks
        /\ mark # NmAlBlks => mark \in RunStarts(vbm)
    BY <1>1, <1>2, MarkIs
  <2>2. CASE mark = NmAlBlks BY <2>1, <2>2, <1>2, CountFromEnd
  <2>3. CASE mark # NmAlBlks
    <3>1. n \in 1 .. request /\ mark + n <= NmAlBlks BY <2>1, <2>3, <1>1, CountIs
    <3> QED BY <2>1, <3>1, <1>2
  <2> QED BY <2>2, <2>3
<1>4. ASSUME pc' = "done", found' \in 0 .. request, foundat' \in 0 .. NmAlBlks,
             pt' \in 0 .. NmAlBlks, wrap' \in BOOLEAN,
             [at |-> foundat', n |-> found', ptr |-> pt'] = Fit(vbm, start, request)
      PROVE  ScanInv'
  BY <1>1, <1>4 DEF ScanInv, Types, StartBack, Fresh, Scanning, ScanDone
<1>5. CASE wrap /\ mark >= start
  <2>1. pt' = mark /\ pc' = "done" /\ UNCHANGED <<wrap, found, foundat>>
    BY <1>5 DEF Iterate
  <2>2. [at |-> foundat, n |-> found, ptr |-> mark] = Fit(vbm, start, request)
    BY <1>1, <1>5, DoneAround
  <2> HIDE DEF mark
  <2> QED BY <2>1, <2>2, <1>2, <1>3, <1>4
<1>6. CASE ~ (wrap /\ mark >= start)
  <2>1. Scan(mark, n) BY <1>6 DEF Iterate
  <2>2. /\ found' = f /\ foundat' = at
        /\ IF wrap /\ mark + n >= start
           THEN pt' = mark + n /\ pc' = "done" /\ UNCHANGED wrap
           ELSE TurnRound(mark + n, found')
    BY <2>1 DEF Scan
  <2>3. CASE found' = request
    <3> DEFINE p == IF mark + n = NmAlBlks /\ ~ (wrap /\ mark + n >= start) THEN 0
                    ELSE mark + n
    <3>1. n = request /\ f = n /\ at = mark BY <2>2, <2>3, <1>2, <1>3
    <3>2. pt' = p /\ pc' = "done" /\ wrap' \in BOOLEAN
      BY <2>2, <2>3, <1>2 DEF TurnRound
    <3>3. [at |-> mark, n |-> n, ptr |-> p] = Fit(vbm, start, request)
      BY <3>1, <1>1, <1>6, DoneFull
    <3> HIDE DEF mark, n, p
    <3>4. p \in 0 .. NmAlBlks BY <1>3, Bounds DEF p
    <3> QED BY <3>1, <3>2, <3>3, <3>4, <2>2, <1>2, <1>3, <1>4
  <2>4. CASE found' # request /\ wrap /\ mark + n >= start
    <3>1. f # request BY <2>2, <2>4
    <3>2. [at |-> at, n |-> f, ptr |-> mark + n] = Fit(vbm, start, request)
      BY <3>1, <2>4, <1>1, <1>6, DoneInRun
    <3>3. f \in 0 .. request /\ at \in 0 .. NmAlBlks BY <1>2, <1>3
    <3> HIDE DEF mark, n, f, at
    <3> QED BY <3>2, <3>3, <2>2, <2>4, <1>2, <1>3, <1>4
  <2>5. CASE found' # request /\ ~ (wrap /\ mark + n >= start)
    BY <2>2, <2>5, <1>1, <1>6, GoesOn
  <2> QED BY <2>3, <2>4, <2>5
<1> QED BY <1>5, <1>6

(* Growing a run backwards keeps what the scan knows. *)
LEMMA BacktrackInv == ASSUME ScanInv, Backtrack PROVE ScanInv'
<1>1. /\ Types /\ StartBack /\ Fresh /\ pc = "backtrack"
      /\ UNCHANGED <<vbm, allocPtr, request, wrap, found, foundat>>
      /\ found = 0 /\ wrap = FALSE
  BY DEF ScanInv, Backtrack, call, Fresh, Types
<1>2. /\ start \in 0 .. NmAlBlks /\ allocPtr \in 0 .. NmAlBlks /\ start <= allocPtr
      /\ request \in 1 .. NmAlBlks
      /\ IF allocPtr \in vbm THEN start = allocPtr ELSE start .. allocPtr \cap vbm = {}
  BY <1>1 DEF Types, StartBack
<1>3. CASE start \notin vbm /\ start > 0 /\ start - 1 \notin vbm
  <2>1. start' = start - 1 /\ UNCHANGED <<pt, pc>> BY <1>3 DEF Backtrack
  <2>2. allocPtr \notin vbm BY <1>2, <1>3
  <2>3. start - 1 .. allocPtr = {start - 1} \cup (start .. allocPtr) BY <1>2, <1>3
  <2>4. start - 1 .. allocPtr \cap vbm = {} BY <2>2, <2>3, <1>2, <1>3
  <2>5. StartBack' BY <2>1, <2>2, <2>4, <1>1, <1>2, <1>3 DEF StartBack
  <2>6. start - 1 \in 0 .. NmAlBlks BY <1>2, <1>3, Bounds
  <2>7. Types' BY <2>1, <2>6, <1>1 DEF Types
  <2> QED BY <2>1, <2>5, <2>7, <1>1 DEF ScanInv, Fresh, Scanning, ScanDone
<1>4. CASE ~ (start \notin vbm /\ start > 0 /\ start - 1 \notin vbm)
  <2>1. pt' = start /\ pc' = "scan" /\ UNCHANGED start BY <1>4 DEF Backtrack
  <2>2. start \in vbm \/ start = 0 \/ start - 1 \in vbm BY <1>2, <1>4
  <2>3. StartBack' BY <2>1, <2>2, <1>1, <1>2 DEF StartBack
  <2>4. Types' BY <2>1, <1>1 DEF Types
  <2>5. BestPassed'
    <3>1. \A o \in RunStarts(vbm) : ~ Passed(o)'
      BY <2>1, <1>1, <1>2, RunStartIs DEF Passed
    <3> QED BY <3>1, <1>1 DEF BestPassed
  <2>6. Scanning' BY <2>1, <2>2, <2>5, <1>1, <1>2 DEF Scanning, Edge
  <2> QED BY <2>1, <2>3, <2>4, <2>6 DEF ScanInv, Fresh, ScanDone
<1> QED BY <1>3, <1>4

(* Backtracking stops where FirstFit says.                                 *)
LEMMA StartIs == ASSUME Types, StartBack, pc # "backtrack"
                 PROVE  start = Backtracked(vbm, allocPtr)
<1>1. CASE allocPtr \in vbm BY <1>1 DEF StartBack, Backtracked
<1>2. CASE allocPtr \notin vbm
  <2> DEFINE S == {s \in 0 .. allocPtr : s .. allocPtr \cap vbm = {}}
  <2>1. start \in 0 .. NmAlBlks /\ allocPtr \in 0 .. NmAlBlks BY DEF Types
  <2>2. start \in S BY <2>1, <1>2 DEF StartBack
  <2>3. ASSUME NEW s \in S, s < start PROVE FALSE
    <3>1. start \in s .. allocPtr /\ start - 1 \in s .. allocPtr /\ start # 0
      BY <2>1, <2>2, <2>3
    <3>2. start \notin vbm /\ start - 1 \notin vbm BY <3>1
    <3> QED BY <3>1, <3>2 DEF StartBack
  <2>4. S \in SUBSET Int /\ \A s \in S : start <= s BY <2>1, <2>3
  <2>5. Backtracked(vbm, allocPtr) = Min(S) BY <1>2 DEF Backtracked
  <2> HIDE DEF S
  <2> QED BY <2>2, <2>4, <2>5, MinIs
<1> QED BY <1>1, <1>2

(* v_allocblocks "find[s] [the] largest unused block which satisfies       *)
(* request" on a volume of any size, from any start pointer.               *)
THEOREM ScanRight == Spec => []ScanFindsFit
<1>1. Init => ScanInv
  <2> SUFFICES ASSUME Init PROVE ScanInv OBVIOUS
  <2>1. Types
    <3>1. /\ vbm \subseteq 0 .. NmAlBlks /\ ~ (Block \subseteq vbm)
          /\ allocPtr \in 0 .. NmAlBlks /\ request \in 1 .. NmAlBlks
          /\ start = allocPtr /\ pt = 0 /\ wrap = FALSE
          /\ found = 0 /\ foundat = 0 /\ pc = "backtrack"
      BY DEF Init
    <3>2. 0 \in 0 .. NmAlBlks /\ 0 \in 0 .. request BY <3>1, Bounds
    <3> QED BY <3>1, <3>2 DEF Types
  <2>2. StartBack BY <2>1 DEF Init, StartBack, Types
  <2> QED BY <2>1, <2>2 DEF Init, ScanInv, Fresh, Scanning, ScanDone
<1>2. ScanInv /\ [Next]_vars => ScanInv'
  <2> SUFFICES ASSUME ScanInv, [Next]_vars PROVE ScanInv' OBVIOUS
  <2>1. CASE Backtrack BY <2>1, BacktrackInv
  <2>2. CASE Iterate BY <2>2, IterateInv
  <2>3. CASE UNCHANGED vars
    BY <2>3 DEF vars, ScanInv, Types, StartBack, Fresh, Scanning, ScanDone, BestPassed,
                Passed, Better, Edge
  <2> QED BY <2>1, <2>2, <2>3 DEF Next
<1>3. ScanInv => ScanFindsFit
  BY StartIs DEF ScanInv, ScanDone, ScanFindsFit, Reserve, Types
<1> QED BY <1>1, <1>2, <1>3, PTL DEF Spec
=============================================================================
