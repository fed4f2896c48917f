----------------------------- MODULE FileSpace ------------------------------
(***************************************************************************)
(* What libhfs promises about the blocks of its files: every fork is a     *)
(* sequence of blocks of its own, all of them marked in the bitmap, which  *)
(* grows and shrinks at its end.                                           *)
(***************************************************************************)
EXTENDS Integers, SequencesExt

CONSTANTS Blocks,     \* the allocation blocks
          Owners      \* the forks of the files

VARIABLES kept,       \* the blocks of the catalog and the extents file
          taken,      \* the blocks marked in the bitmap
          chain       \* the blocks of every fork, in the order of its contents

vars == <<kept, taken, chain>>

Owned(ch) == UNION {ToSet(ch[o]) : o \in Owners}

Init == kept \subseteq Blocks /\ taken = kept /\ chain = [o \in Owners |-> << >>]

(* A fork gets further blocks at its end, which nothing else has.          *)
Gained(o) == DOMAIN chain'[o] \ DOMAIN chain[o]

Grow(o) ==
    /\ chain' \in [Owners -> Seq(Blocks)]
    /\ IsPrefix(chain[o], chain'[o])
    /\ \A p \in Owners \ {o} : chain'[p] = chain[p]
    /\ \A i \in Gained(o) : chain'[o][i] \notin taken
    /\ \A i, j \in Gained(o) : chain'[o][i] = chain'[o][j] => i = j
    /\ taken' = taken \cup ToSet(chain'[o])

Shortened ==
    /\ chain' \in [Owners -> Seq(Blocks)]
    /\ \A o \in Owners : IsPrefix(chain'[o], chain[o])

(* Forks give back their last blocks, and no other block is given back.    *)
Shrink == /\ taken' \subseteq taken
          /\ Shortened
          /\ taken \ taken' = Owned(chain) \ Owned(chain')

(* After a crash forks have lost what was not recorded of them, and blocks *)
(* besides theirs may be marked.                                           *)
Restart == /\ taken' \subseteq Blocks
           /\ Shortened
           /\ Owned(chain') \cup kept \subseteq taken'

Next == /\ Shrink \/ (\E o \in Owners : Grow(o)) \/ Restart
        /\ UNCHANGED kept

Spec == Init /\ [][Next]_vars
=============================================================================
