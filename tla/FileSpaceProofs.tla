-------------------------- MODULE FileSpaceProofs ---------------------------
(***************************************************************************)
(* What every system that implements FileSpace has, whatever its volumes   *)
(* and forks: files that share no block.  The run of Files.tla shows that  *)
(* libhfs implements it on small volumes.                                  *)
(***************************************************************************)
EXTENDS FileSpace, SequenceTheorems, TLAPS

(* A fork's list has numbers of blocks.                                    *)
Listed == chain \in [Owners -> Seq(Blocks)]

(* A block has one place in one fork.                                      *)
Apart == \A o, p \in Owners : \A i \in DOMAIN chain[o], j \in DOMAIN chain[p] :
             chain[o][i] = chain[p][j] => o = p /\ i = j

(* Forks have none of the trees' blocks, and all of both are marked.       *)
Marked == /\ kept \cup Owned(chain) \subseteq taken
          /\ kept \cap Owned(chain) = {}

OwnBlocks == Listed /\ Apart /\ Marked

(* The items of a prefix are the first items of the sequence. *)
LEMMA PrefixItems == ASSUME NEW S, NEW s \in Seq(S), NEW t \in Seq(S), IsPrefix(s, t)
                     PROVE  /\ DOMAIN s \subseteq DOMAIN t
                            /\ \A i \in DOMAIN s : s[i] = t[i]
<1>1. /\ Len(s) <= Len(t) /\ Len(s) \in Nat /\ Len(t) \in Nat
      /\ SubSeq(s, 1, Len(s)) = SubSeq(t, 1, Len(s))
      /\ DOMAIN s = 1 .. Len(s) /\ DOMAIN t = 1 .. Len(t)
  BY DEF IsPrefix
<1>2. ASSUME NEW i \in 1 .. Len(s) PROVE s[i] = t[i]
  <2>1. SubSeq(s, 1, Len(s))[i] = s[i] BY <1>1
  <2>2. SubSeq(t, 1, Len(s))[i] = t[i] BY <1>1
  <2> QED BY <1>1, <2>1, <2>2
<1> QED BY <1>1, <1>2

(* A fork that gets shorter keeps its items at their places.               *)
LEMMA ShortenedItems ==
    ASSUME Listed, Shortened
    PROVE  /\ \A o \in Owners : /\ DOMAIN chain'[o] \subseteq DOMAIN chain[o]
                                /\ \A i \in DOMAIN chain'[o] : chain'[o][i] = chain[o][i]
           /\ Owned(chain') \subseteq Owned(chain)
<1>1. ASSUME NEW o \in Owners
      PROVE  /\ DOMAIN chain'[o] \subseteq DOMAIN chain[o]
             /\ \A i \in DOMAIN chain'[o] : chain'[o][i] = chain[o][i]
  <2>1. chain[o] \in Seq(Blocks) /\ chain'[o] \in Seq(Blocks) /\ IsPrefix(chain'[o], chain[o])
    BY DEF Listed, Shortened
  <2> QED BY <2>1, PrefixItems
<1>2. \A o \in Owners : ToSet(chain'[o]) \subseteq ToSet(chain[o])
  BY <1>1 DEF ToSet
<1> QED BY <1>1, <1>2 DEF Owned

(* So forks that get shorter stay apart.                                   *)
LEMMA ShortenedApart == ASSUME OwnBlocks, Shortened, UNCHANGED kept
                        PROVE  Listed' /\ Apart' /\ (kept \cap Owned(chain) = {})'
<1>1. Listed' BY DEF Shortened, Listed
<1>2. Apart'
  <2> SUFFICES ASSUME NEW o \in Owners, NEW p \in Owners,
                      NEW i \in DOMAIN chain'[o], NEW j \in DOMAIN chain'[p],
                      chain'[o][i] = chain'[p][j]
               PROVE  o = p /\ i = j
    BY DEF Apart
  <2>1. i \in DOMAIN chain[o] /\ j \in DOMAIN chain[p] /\ chain[o][i] = chain[p][j]
    BY ShortenedItems DEF OwnBlocks
  <2> QED BY <2>1 DEF OwnBlocks, Apart
<1>3. (kept \cap Owned(chain) = {})'
  BY ShortenedItems DEF OwnBlocks, Marked
<1> QED BY <1>1, <1>2, <1>3

(* Growing a file adds only blocks that belonged to none. *)
LEMMA GrowKeepsOwn ==
    ASSUME OwnBlocks, NEW o \in Owners, Grow(o), UNCHANGED kept
    PROVE  OwnBlocks'
<1> DEFINE old(p, i) == i \in DOMAIN chain[p] /\ chain'[p][i] = chain[p][i]
           new(p, i) == p = o /\ i \in Gained(o) /\ chain'[o][i] \notin taken
<1>1. /\ chain \in [Owners -> Seq(Blocks)] /\ chain' \in [Owners -> Seq(Blocks)]
      /\ IsPrefix(chain[o], chain'[o])
      /\ \A p \in Owners \ {o} : chain'[p] = chain[p]
      /\ taken' = taken \cup ToSet(chain'[o])
  BY DEF Grow, OwnBlocks, Listed
<1>2. /\ DOMAIN chain[o] \subseteq DOMAIN chain'[o]
      /\ \A i \in DOMAIN chain[o] : chain[o][i] = chain'[o][i]
  <2>1. chain[o] \in Seq(Blocks) /\ chain'[o] \in Seq(Blocks) BY <1>1
  <2> QED BY <1>1, <2>1, PrefixItems
<1>3. ASSUME NEW p \in Owners, NEW i \in DOMAIN chain'[p] PROVE old(p, i) \/ new(p, i)
  <2>1. CASE p # o BY <2>1, <1>1
  <2>2. CASE p = o /\ i \in DOMAIN chain[o] BY <2>2, <1>2
  <2>3. CASE p = o /\ i \notin DOMAIN chain[o] BY <2>3 DEF Grow, Gained
  <2> QED BY <2>1, <2>2, <2>3
<1>4. ASSUME NEW p \in Owners, NEW i \in DOMAIN chain[p] PROVE chain[p][i] \in taken
  BY DEF OwnBlocks, Marked, Owned, ToSet
<1>5. Listed' BY <1>1 DEF Listed
<1>6. Apart'
  <2> SUFFICES ASSUME NEW p \in Owners, NEW q \in Owners,
                      NEW i \in DOMAIN chain'[p], NEW j \in DOMAIN chain'[q],
                      chain'[p][i] = chain'[q][j]
               PROVE  p = q /\ i = j
    BY DEF Apart
  <2>1. CASE old(p, i) /\ old(q, j)
    <3>1. i \in DOMAIN chain[p] /\ j \in DOMAIN chain[q] /\ chain[p][i] = chain[q][j]
      BY <2>1
    <3>2. Apart BY DEF OwnBlocks
    <3> QED BY <3>1, <3>2 DEF Apart
  <2>2. CASE old(p, i) /\ new(q, j) BY <2>2, <1>4
  <2>3. CASE new(p, i) /\ old(q, j) BY <2>3, <1>4
  <2>4. CASE new(p, i) /\ new(q, j) BY <2>4 DEF Grow
  <2> QED BY <2>1, <2>2, <2>3, <2>4, <1>3
<1>7. Owned(chain') \subseteq Owned(chain) \cup ToSet(chain'[o])
  <2> SUFFICES ASSUME NEW p \in Owners, NEW i \in DOMAIN chain'[p]
               PROVE  chain'[p][i] \in Owned(chain) \cup ToSet(chain'[o])
    BY DEF Owned, ToSet
  <2>1. CASE old(p, i) BY <2>1 DEF Owned, ToSet
  <2>2. CASE new(p, i) BY <2>2 DEF ToSet
  <2> QED BY <2>1, <2>2, <1>3
<1>8. kept \cap Owned(chain') = {}
  <2> SUFFICES ASSUME NEW p \in Owners, NEW i \in DOMAIN chain'[p]
               PROVE  chain'[p][i] \notin kept
    BY DEF Owned, ToSet
  <2>1. CASE old(p, i) BY <2>1 DEF OwnBlocks, Marked, Owned, ToSet
  <2>2. CASE new(p, i) BY <2>2 DEF OwnBlocks, Marked
  <2> QED BY <2>1, <2>2, <1>3
<1>9. Marked' BY <1>1, <1>7, <1>8 DEF OwnBlocks, Marked
<1> QED BY <1>5, <1>6, <1>9 DEF OwnBlocks

(* Every step keeps the files from sharing a block. *)
LEMMA OwnNext == ASSUME OwnBlocks, [Next]_vars PROVE OwnBlocks'
<1>1. CASE UNCHANGED vars BY <1>1 DEF vars, OwnBlocks, Listed, Apart, Marked, Owned, ToSet
<1>2. CASE UNCHANGED kept /\ Shrink
  <2>1. kept \cup Owned(chain') \subseteq taken'
    BY <1>2, ShortenedItems DEF Shrink, OwnBlocks, Marked
  <2> QED BY <1>2, <2>1, ShortenedApart DEF Shrink, OwnBlocks, Marked
<1>3. CASE UNCHANGED kept /\ \E o \in Owners : Grow(o)
  BY <1>3, GrowKeepsOwn
<1>4. CASE UNCHANGED kept /\ Restart
  BY <1>4, ShortenedApart DEF Restart, OwnBlocks, Marked
<1> QED BY <1>1, <1>2, <1>3, <1>4 DEF Next

(* Two forks never share a block, no fork has one twice or one of the      *)
(* trees', and all that are in use are marked in the bitmap: after any     *)
(* sequence of growing, shrinking and crashes (v_allocblocks,              *)
(* v_freeblocks, v_scavenge).                                              *)
THEOREM FilesOwnTheirBlocks == Spec => []OwnBlocks
<1>1. Init => OwnBlocks
  <2> SUFFICES ASSUME Init PROVE OwnBlocks OBVIOUS
  <2>1. \A o \in Owners : chain[o] = << >> BY DEF Init
  <2>2. Owned(chain) = {} BY <2>1 DEF Owned, ToSet
  <2> QED BY <2>1, <2>2 DEF Init, OwnBlocks, Listed, Apart, Marked
<1>2. OwnBlocks /\ [Next]_vars => OwnBlocks' BY OwnNext
<1> QED BY <1>1, <1>2, PTL DEF Spec
=============================================================================
