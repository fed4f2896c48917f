------------------------------ MODULE MCChecks ------------------------------
EXTENDS Checks

(* A volume in order, and what may be wrong with it.                       *)
Header == [type |-> "HFS", created |-> 1, modified |-> 1, start |-> 3, clean |-> TRUE]
Raw    == [type |-> "swapped", created |-> 3, modified |-> 1, start |-> 0,
           sizes |-> TRUE, treesizes |-> TRUE, extents |-> TRUE, counted |-> FALSE,
           empty |-> FALSE]
mc_RawHeaders == [type : {"swapped"}, created : {0, 3}, modified : {1}, start : {0},
                  sizes : BOOLEAN, treesizes : BOOLEAN, extents : BOOLEAN, counted : BOOLEAN,
                  empty : BOOLEAN]
Volume == [mdb |-> Header, raw |-> Raw, trees |-> {"ext", "cat"}, size |-> "large"]

Dated == {[Volume EXCEPT !.mdb.created = c, !.mdb.modified = m, !.mdb.clean = u] :
              c \in 0 .. 3, m \in 0 .. 3, u \in BOOLEAN}

Damaged == {[Volume EXCEPT !.mdb.start = 4], [Volume EXCEPT !.mdb.type = "other"],
            [Volume EXCEPT !.trees = {"ext"}], [Volume EXCEPT !.trees = {"cat"}],
            [Volume EXCEPT !.trees = {}],
            [Volume EXCEPT !.size = "small"], [Volume EXCEPT !.size = "medium"],
            [Volume EXCEPT !.mdb.type = "HFS+", !.trees = {}, !.mdb.clean = FALSE]}

AsStructure == {[Volume EXCEPT !.raw.sizes = s, !.raw.treesizes = t, !.raw.extents = x,
                               !.raw.counted = c, !.raw.empty = e, !.raw.created = n] :
                    s \in BOOLEAN, t \in BOOLEAN, x \in BOOLEAN, c \in BOOLEAN,
                    e \in BOOLEAN, n \in {0, 3}}

mc_Media == {[p \in {0} |-> v] : v \in Dated \cup Damaged \cup AsStructure}
            \cup {[p \in {1} |-> v] : v \in Damaged}
            \cup {[p \in 1 .. 2 |-> IF p = 1 THEN Volume ELSE v] : v \in Damaged}

mc_Lines == {[prog |-> p, letters |-> l, part |-> n] :
                p \in {"hfsck", "fsck.hfs"},
                l \in {<< >>, <<"n">>, <<"y">>, <<"n", "a">>, <<"a", "r">>, <<"a", "n">>},
                n \in {NoPart, 0, 1, 2}}
=============================================================================
