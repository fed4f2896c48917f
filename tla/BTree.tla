------------------------------- MODULE BTree --------------------------------
(***************************************************************************)
(* The B*-trees of a volume: libhfs/btree.c and libhfs/node.c.             *)
(*                                                                         *)
(* A node is a record of its descriptor and its records; a record is a key *)
(* and, in an index node, the number of a child.  A node's records all     *)
(* take one unit of space, as those of the extents file do: LeafCap and    *)
(* IndexCap are the numbers that fit, and a split halves the node as the   *)
(* byte arithmetic of split() does for records of one size.                *)
(***************************************************************************)
EXTENDS Integers, Sequences, FiniteSets, FiniteSetsExt, SequencesExt

CONSTANTS Keys,       \* keys, a set of integers
          LeafCap,    \* records that fit in a leaf node
          IndexCap,   \* records that fit in an index node
          NodesInit,  \* nodes of the file when it is made, the header's included
          Chunk,      \* the nodes of a clump, the most that f_alloc adds to the file
          MapFirst,   \* nodes that the map in the header node covers
          MapNext,    \* nodes that each map node covers
          MaxNodes,   \* bound: nodes the medium has room for
          Workload    \* bound: "any", "floor" or "ascending", see Admitted

ASSUME BTreeAssumption ==
    /\ Keys \subseteq Int
    /\ {LeafCap, IndexCap} \subseteq Nat \ {0, 1}
    /\ {NodesInit, Chunk, MapFirst, MapNext} \subseteq Nat \ {0}
    /\ MaxNodes \in Nat /\ NodesInit <= Min({MaxNodes, MapFirst})
    /\ Workload \in {"any", "floor", "ascending"}

VARIABLES tree,       \* the btree: nodes, map and header
          answer      \* what the last call returned

vars == <<tree, answer>>

Num == 1 .. MaxNodes - 1      \* node 0 is the header node

EmptyNode == [type |-> "none", height |-> 0, fl |-> 0, bl |-> 0, recs |-> << >>]

EmptyTree == [node   |-> [n \in Num |-> EmptyNode],
              used   |-> {},          \* the bits set in bt->map
              depth  |-> 0, root  |-> 0, nrecs |-> 0,
              fnode  |-> 0, lnode |-> 0,
              nnodes |-> NodesInit,   \* bthNNodes
              free   |-> NodesInit - 1,
              ok     |-> TRUE]        \* no n_new has failed

Rec(k, p) == [k |-> k, p |-> p]

Init == tree = EmptyTree /\ answer = TRUE

-----------------------------------------------------------------------------
Cap(node) == IF node.type = "leaf" THEN LeafCap ELSE IndexCap

(* n_search: the last record whose key does not exceed k; 0 for none.      *)
SearchNode(recs, k) == Max({i \in DOMAIN recs : recs[i].k <= k} \cup {0})

Found(recs, k) == SearchNode(recs, k) # 0 /\ recs[SearchNode(recs, k)].k = k

(* n_index: the record that stands for node n in its parent.               *)
IndexRec(t, n) == Rec(t.node[n].recs[1].k, n)

FreeNums(t) == {n \in 1 .. t.nnodes - 1 : n \notin t.used}

(* n_new: the first node the map has free.                                 *)
Alloc(t) == LET n == Min(FreeNums(t)) IN
    [t EXCEPT !.used = @ \cup {n}, !.free = @ - 1]

(* Faulty variant: a freed node's left sibling keeps its forward link.     *)
FreeNodeHalf(t, n) ==
    LET x == t.node[n] IN
    [t EXCEPT !.used = @ \ {n}, !.free = @ + 1,
              !.fnode = IF @ = n THEN x.fl ELSE @,
              !.lnode = IF @ = n THEN x.bl ELSE @,
              !.node[n] = EmptyNode]

(* n_free: unlink the node from its siblings and give it back.             *)
FreeNode(t, n) ==
    LET x == t.node[n] IN
    [t EXCEPT !.used = @ \ {n}, !.free = @ + 1,
              !.fnode = IF @ = n THEN x.fl ELSE @,
              !.lnode = IF @ = n THEN x.bl ELSE @,
              !.node = [m \in Num |->
                  IF m = n THEN EmptyNode
                  ELSE IF m = x.fl THEN [@[m] EXCEPT !.bl = x.bl]
                  ELSE IF m = x.bl THEN [@[m] EXCEPT !.fl = x.fl]
                  ELSE @[m]]]

(* The number of records split() leaves in the left node, before it adds   *)
(* the new one: `mark' is twice the space still due to the left node, and  *)
(* the new record takes its share when its place `at' is passed.           *)
LeftShare(len, at) ==
    LET mark[i \in 0 .. len] ==
            IF i = 0 THEN len + 1 - (IF at = 0 THEN 2 ELSE 0)
            ELSE mark[i - 1] - (IF at = i THEN 4 ELSE 2)
    IN  Cardinality({i \in 1 .. len : mark[i - 1] > 0})

(* The half that gets the new record: decided after the record it follows. *)
LeftSide(len, at) == at = 0 \/ len + 1 - 2 * at > 0

(* The new record's place in the half that gets it.                        *)
InsertIn(recs, rec) == InsertAt(recs, SearchNode(recs, rec.k) + 1, rec)

(* What an insertion hands to the level above: the tree, and the index     *)
(* records (none or one) still to be inserted there.                       *)
Result(t, up) == [t |-> t, up |-> up, ok |-> TRUE]
Refused(t)    == [t |-> t, up |-> << >>, ok |-> FALSE]

Split(t0, n, at, rec) ==
    LET t     == Alloc(t0)
        r     == Min(FreeNums(t0))
        left  == t0.node[n]
        len   == Len(left.recs)
        share == LeftShare(len, at)
        lrecs == SubSeq(left.recs, 1, share)
        rrecs == SubSeq(left.recs, share + 1, len)
        lnew  == IF LeftSide(len, at) THEN InsertIn(lrecs, rec) ELSE lrecs
        rnew  == IF LeftSide(len, at) THEN rrecs ELSE InsertIn(rrecs, rec)
        split == [t EXCEPT
                    !.lnode = IF @ = n THEN r ELSE @,
                    !.node = [m \in Num |->
                        IF m = n THEN [left EXCEPT !.recs = lnew, !.fl = r]
                        ELSE IF m = r THEN [left EXCEPT !.recs = rnew, !.bl = n]
                        ELSE IF m = left.fl THEN [@[m] EXCEPT !.bl = r]
                        ELSE @[m]]]
    IN  IF FreeNums(t0) = {} THEN Refused([t0 EXCEPT !.ok = FALSE])
        ELSE Result(split, <<IndexRec(split, r)>>)

(* n_insert: after record `at' of node n, splitting the node if it is full.*)
InsertNode(t, n, at, rec) ==
    IF Len(t.node[n].recs) >= Cap(t.node[n])
    THEN Split(t, n, at, rec)
    ELSE Result([t EXCEPT !.node[n].recs = InsertAt(@, at + 1, rec)], << >>)

(* insertx: a key below all others goes to the first child, whose index    *)
(* record is then renewed.                                                 *)
RECURSIVE InsertX(_, _, _)
InsertX(t, n, rec) ==
    LET recs  == t.node[n].recs
        at    == SearchNode(recs, rec.k)
        child == recs[IF at = 0 THEN 1 ELSE at].p
        down  == InsertX(t, child, rec)
        below == IF at = 0
                 THEN [down.t EXCEPT !.node[n].recs[1] = IndexRec(down.t, child)]
                 ELSE down.t
    IN  IF Found(recs, rec.k) THEN Refused(t)
        ELSE IF t.node[n].type = "leaf" THEN InsertNode(t, n, at, rec)
        ELSE IF ~ down.ok THEN down
        ELSE IF down.up = << >> THEN Result(below, << >>)
        ELSE LET here == InsertNode(below, n, at, down.up[1])
             IN  IF here.ok THEN here ELSE Refused([down.t EXCEPT !.ok = FALSE])

NewRoot(t, type, recs) ==
    LET r == Min(FreeNums(t)) IN
    [Alloc(t) EXCEPT !.root = r, !.depth = @ + 1,
                     !.node[r] = [EmptyNode EXCEPT !.type = type,
                                                   !.height = t.depth + 1,
                                                   !.recs = recs]]

(* bt_insert.                                                              *)
TreeInsert(t, k) ==
    LET rooted == IF t.root # 0 THEN t
                  ELSE LET r == NewRoot(t, "leaf", << >>)
                       IN  [r EXCEPT !.fnode = r.root, !.lnode = r.root]
        x      == InsertX(rooted, rooted.root, Rec(k, 0))
        grown  == NewRoot(x.t, "index", <<IndexRec(x.t, x.t.root), x.up[1]>>)
        done   == IF x.up = << >> THEN x.t ELSE grown
    IN  IF t.root = 0 /\ FreeNums(t) = {} THEN Refused([t EXCEPT !.ok = FALSE])
        ELSE IF ~ x.ok THEN x
        ELSE IF x.up # << >> /\ FreeNums(x.t) = {}
             THEN Refused([x.t EXCEPT !.ok = FALSE])
        ELSE Result([done EXCEPT !.nrecs = @ + 1], << >>)

(* Faulty variant: one node for each record, whatever the depth.           *)
HasSpaceFlat(t, nrecs) == nrecs <= t.free

HasSpace(t, nrecs) == nrecs * (t.depth + 1) <= t.free

(* Nodes beyond what the map covers make it longer, by nodes of the file.  *)
MapNodes(nnodes) ==
    IF nnodes > MapFirst THEN (nnodes - MapFirst + MapNext - 1) \div MapNext ELSE 0

MapNode(t) == [Alloc(t) EXCEPT !.node[Min(FreeNums(t))].type = "map"]

Mapped(t, before) ==
    LET made[k \in before .. MapNodes(t.nnodes)] ==
            IF k = before THEN t ELSE MapNode(made[k - 1])
    IN  made[MapNodes(t.nnodes)]

(* bt_space: the tree with room for nrecs records.  f_alloc adds a clump,  *)
(* or the longest run of free blocks if that is shorter: whether it brings *)
(* the nodes that were missing is not looked at.                           *)
Space(t, nrecs) ==
    IF HasSpace(t, nrecs) THEN {t}
    ELSE {Mapped([t EXCEPT !.nnodes = @ + got, !.free = @ + got], MapNodes(t.nnodes)) :
              got \in 1 .. Min({Chunk, MaxNodes - t.nnodes})}

(* What a deletion does to the record of node n in its parent: "same",     *)
(* "gone", or "key" when it needs the key of n's new first record.         *)
Deleted(t, flag) == [t |-> t, flag |-> flag, ok |-> TRUE]
Missing(t)       == [t |-> t, flag |-> "same", ok |-> FALSE]

(* n_delete: drop record i of node n; free the node if it is empty, join   *)
(* it to its left sibling if the two fit in one node.                      *)
DeleteNode(t, n, i) ==
    LET x    == t.node[n]
        recs == RemoveAt(x.recs, i)
        left == t.node[x.bl]
        cut  == [t EXCEPT !.node[n].recs = recs]
    IN  IF recs = << >>
        THEN Deleted(FreeNode(cut, n), "gone")
        ELSE IF x.bl > 0 /\ Len(left.recs) + Len(recs) <= Cap(x)
        THEN Deleted(FreeNode([t EXCEPT !.node[x.bl].recs = @ \o recs], n), "gone")
        ELSE Deleted(cut, IF i = 1 THEN "key" ELSE "same")

(* Faulty variant: the change of a first key stays in the leaf's parent.   *)
RECURSIVE DeleteXShallow(_, _, _)
DeleteXShallow(t, n, k) ==
    LET recs == t.node[n].recs
        i    == SearchNode(recs, k)
        x    == DeleteXShallow(t, recs[i].p, k)
    IN  IF t.node[n].type = "leaf"
        THEN IF Found(recs, k) THEN DeleteNode(t, n, i) ELSE Missing(t)
        ELSE IF i = 0 THEN Missing(t)
        ELSE IF ~ x.ok \/ x.flag # "gone" THEN x
        ELSE DeleteNode(x.t, n, i)

(* deletex.                                                                *)
RECURSIVE DeleteX(_, _, _)
DeleteX(t, n, k) ==
    LET recs == t.node[n].recs
        i    == SearchNode(recs, k)
        x    == DeleteX(t, recs[i].p, k)
    IN  IF t.node[n].type = "leaf"
        THEN IF Found(recs, k) THEN DeleteNode(t, n, i) ELSE Missing(t)
        ELSE IF i = 0 THEN Missing(t)
        ELSE IF ~ x.ok \/ x.flag = "same" THEN x
        ELSE IF x.flag = "gone" THEN DeleteNode(x.t, n, i)
        ELSE Deleted([x.t EXCEPT !.node[n].recs[i] = IndexRec(x.t, recs[i].p)],
                     IF i = 1 THEN "key" ELSE "same")

(* bt_delete: a root index with a single record gives way to its child, a  *)
(* root leaf without records to the empty tree.                            *)
TreeDelete(t, k) ==
    LET x    == DeleteX(t, t.root, k)
        root == x.t.node[t.root]
        flat == IF t.depth > 1 /\ Len(root.recs) = 1
                THEN FreeNode([x.t EXCEPT !.depth = @ - 1,
                                          !.root = root.recs[1].p], t.root)
                ELSE IF t.depth = 1 /\ root.recs = << >>
                THEN [x.t EXCEPT !.depth = 0, !.root = 0]
                ELSE x.t
    IN  IF t.root = 0 \/ t.root \notin t.used \/ ~ x.ok THEN Missing(t)
        ELSE Deleted([flat EXCEPT !.nrecs = @ - 1], "same")

(* bt_search: the leaf a search for k ends in, 0 if it ends before.        *)
RECURSIVE LeafFor(_, _, _)
LeafFor(t, n, k) ==
    LET x == t.node[n]
        i == SearchNode(x.recs, k)
    IN  IF n \notin t.used THEN 0
        ELSE IF x.type = "leaf" THEN n
        ELSE IF i = 0 THEN 0
        ELSE LeafFor(t, x.recs[i].p, k)

TreeSearch(t, k) ==
    /\ t.root # 0
    /\ LET n == LeafFor(t, t.root, k) IN n # 0 /\ Found(t.node[n].recs, k)

-----------------------------------------------------------------------------
(* The leaves from bthFNode on, as r_ readers and hfs_readdir follow them. *)
RECURSIVE ChainFrom(_, _, _)
ChainFrom(t, n, fuel) ==
    IF n = 0 \/ fuel = 0 THEN << >>
    ELSE <<n>> \o ChainFrom(t, t.node[n].fl, fuel - 1)

Chain == ChainFrom(tree, tree.fnode, MaxNodes)

InOrder == LET chain == Chain
           IN  FlattenSeq([i \in DOMAIN chain |-> tree.node[chain[i]].recs])

Recorded == {rec.k : rec \in UNION {ToSet(tree.node[n].recs) : n \in ToSet(Chain)}}

(* Bounds on the callers.  "floor": the smallest key comes first and       *)
(* stays, as the root directory's record does in the catalog; "ascending": *)
(* a new key exceeds all others, as in the catalog of a volume that is     *)
(* only filled.  When an insertion has run out of nodes they only search.  *)
Admitted(op, k) ==
    /\ tree.ok
    /\ \/ Workload = "any"
       \/ Workload = "floor" /\ IF op = "insert" THEN k = Min(Keys) \/ tree.root # 0
                                                 ELSE k # Min(Keys)
       \/ Workload = "ascending" /\ (op = "insert" => \A j \in Recorded : j < k)

(* A caller's insertion: bt_space, then bt_insert.  The medium may be full *)
(* when f_alloc is called.                                                 *)
Insert(k) ==
    /\ Admitted("insert", k)
    /\ \/ \E t \in Space(tree, 1) :
              LET x == TreeInsert(t, k) IN tree' = x.t /\ answer' = x.ok
       \/ ~ HasSpace(tree, 1) /\ answer' = FALSE /\ UNCHANGED tree

Delete(k) ==
    /\ Admitted("delete", k)
    /\ LET x == TreeDelete(tree, k) IN tree' = x.t /\ answer' = x.ok

Find(k) == answer' = TreeSearch(tree, k) /\ UNCHANGED tree

Next == \E k \in Keys : Insert(k) \/ Delete(k) \/ Find(k)

Spec == Init /\ [][Next]_vars

-----------------------------------------------------------------------------
TypeOK ==
    /\ \A n \in Num :
          LET x == tree.node[n] IN
          /\ x.type \in {"none", "leaf", "index", "map"}
          /\ {x.fl, x.bl} \subseteq 0 .. MaxNodes - 1
          /\ Len(x.recs) <= Cap(x)
          /\ \A i \in DOMAIN x.recs : x.recs[i].k \in Keys
    /\ tree.used \subseteq 1 .. tree.nnodes - 1
    /\ tree.nnodes \in NodesInit .. MaxNodes
    /\ answer \in BOOLEAN

(* The tree is a set of records: through splits, joins and changes of      *)
(* depth, every record put in and not taken out is found, no other is, and *)
(* the answers of bt_insert, bt_delete and bt_search are those of a set,   *)
(* until an insertion runs out of nodes.                                   *)
Records == INSTANCE RecordSet WITH records <- Recorded, whole <- tree.ok

IsRecordSet == Records!Spec

(* Searching from the root agrees with walking the leaves: what            *)
(* hfs_readdir lists can be opened, and what can be opened is listed.      *)
SearchMatchesChain == {k \in Keys : TreeSearch(tree, k)} = Recorded

(* The leaves form one list from bthFNode to bthLNode, linked both ways,   *)
(* in ascending key order, with bthNRecs records in all (n_free, split,    *)
(* join, bt_insert, bt_delete).                                            *)
LeavesInOrder ==
    LET recs  == InOrder
        chain == Chain
    IN  /\ Len(recs) = tree.nrecs
        /\ \A i \in 1 .. Len(recs) - 1 : recs[i].k < recs[i + 1].k
        /\ (chain = << >>) = (tree.root = 0)
        /\ chain # << >> => /\ Last(chain) = tree.lnode
                            /\ tree.node[tree.fnode].bl = 0
        /\ \A i \in 1 .. Len(chain) - 1 : tree.node[chain[i + 1]].bl = chain[i]

(* Every allocated node but the root and those of the map has exactly one  *)
(* index record, that carries its first key and stands one level above it; *)
(* the free count is what the map says.  So no node is leaked, shared or   *)
(* lost.                                                                   *)
IndexIsExact ==
    LET maps    == {n \in tree.used : tree.node[n].type = "map"}
        entries == UNION {{<<n, i>> : i \in DOMAIN tree.node[n].recs} :
                          n \in {m \in tree.used : tree.node[m].type = "index"}}
        Child(e) == tree.node[e[1]].recs[e[2]]
    IN  /\ \A e \in entries :
              /\ Child(e).p \in tree.used
              /\ Child(e).k = tree.node[Child(e).p].recs[1].k
              /\ tree.node[Child(e).p].height = tree.node[e[1]].height - 1
        /\ Cardinality(maps) = MapNodes(tree.nnodes)
        /\ \A n \in tree.used \ {tree.root} :
              n \notin maps <=> Cardinality({e \in entries : Child(e).p = n}) = 1
        /\ tree.root # 0 => tree.node[tree.root].height = tree.depth
        /\ tree.free = Cardinality(FreeNums(tree))

(* All of these at once, and nodes within their capacity (TypeOK): no      *)
(* sequence of insertions and deletions breaks the links between levels,   *)
(* between leaves, or between the header and the map, as long as none has  *)
(* run out of nodes.                                                       *)
TreeIsExact == TypeOK /\ (tree.ok => SearchMatchesChain /\ LeavesInOrder /\ IndexIsExact)

Usable(t) == t.nnodes - MapNodes(t.nnodes)

(* An insertion runs out of nodes, half way through its splits, only if    *)
(* f_alloc had just brought fewer than bt_space found missing, or the map  *)
(* took one of them: depth + 1 nodes are enough for any insertion.         *)
SpaceSuffices ==
    [][tree.ok /\ ~ tree'.ok =>
           /\ tree'.nnodes > tree.nnodes
           /\ tree.free + Usable(tree') - Usable(tree) < tree.depth + 1]_vars

(* bt_getnode "verif[ies] the node exists and is marked as in-use": the    *)
(* node bthRoot names is.                                                  *)
RootIsInUse == tree.root # 0 => tree.root \in tree.used

(* bt_search "locate[s] a data record given a search key": a key that was  *)
(* inserted and never deleted is located.                                  *)
SearchLocates == \A k \in Recorded : TreeSearch(tree, k)
=============================================================================
