-------------------------------- MODULE Files -------------------------------
(***************************************************************************)
(* Open files and the blocks of their forks: libhfs/file.c, the file calls *)
(* of hfs.c, and the bitmap of volume.c.                                   *)
(*                                                                         *)
(* A fork's blocks are listed by descriptors [at, n]: the first geo.per of  *)
(* them in the catalog record of the file, the others in records of the    *)
(* extents file, keyed by the number of blocks before them.  A handle has  *)
(* a copy of the catalog record and, in cur and fabn, the last record of   *)
(* extents it looked at.                                                   *)
(*                                                                         *)
(* Lengths are counted in logical blocks (lg) and allocation blocks (py).  *)
(* The contents of blocks are left out: what matters is which block a call *)
(* reads or writes.  The two trees are maps from keys to records, have     *)
(* room, and are written through; bitmap and MDB reach the medium when the *)
(* volume is flushed.                                                      *)
(***************************************************************************)
EXTENDS FirstFit, Sequences, FiniteSets, SequencesExt, Functions

CONSTANTS Names,        \* the names of files
          Geometries,   \* bound: the volumes, see geo
          MaxCreates,   \* bound: files created
          Workload      \* bound: see MayOpen and MayCrash

AllForks == {"data", "rsrc"}

(* per: descriptors in a record of extents, 3 in the code; lpa: logical    *)
(* blocks in an allocation block; clump: drClpSiz in allocation blocks;    *)
(* system: the blocks of the catalog and the extents file.  Bounds: the    *)
(* forks that are used, the logical blocks in a fork, the files that can   *)
(* be open, the crashes.                                                   *)
ASSUME FilesAssumption ==
    /\ \A g \in Geometries :
          /\ {g.per, g.lpa} \subseteq Nat \ {0}
          /\ g.clump \in 1 .. NmAlBlks
          /\ g.system \subseteq Block
          /\ "data" \in g.forks /\ g.forks \subseteq AllForks
          /\ {g.len, g.open, g.crashes} \subseteq Nat
    /\ Workload \in {"exclusive", "shared", "crashing"}

VARIABLES geo,        \* one of Geometries
          vol,        \* the bitmap, drFreeBks, drAllocPtr and the extents tree
          catalog,    \* the file records of the catalog, by name
          files,      \* vol->files, the newest first
          cnid,       \* drNxtCNID
          crashes,    \* how often the process died
          ok          \* whether the last call succeeded

vars == <<geo, vol, catalog, files, cnid, crashes, ok>>

FirstNum == 16          \* HFS_CNID: the first number of a user's file
Nums     == FirstNum .. FirstNum + MaxCreates - 1

NoDesc == [at |-> 0, n |-> 0]
NoExt  == [i \in 1 .. geo.per |-> NoDesc]
NoRecs == [k \in {} |-> NoExt]

Init == /\ geo \in Geometries
        /\ vol = [vbm |-> geo.system, free |-> Cardinality(Block \ geo.system), ptr |-> 0,
                  ovf |-> NoRecs]
        /\ catalog = [n \in {} |-> NoExt]
        /\ files = << >>
        /\ cnid = FirstNum
        /\ crashes = 0 /\ ok = TRUE

(* f_init: the record of a file that was just created.                     *)
NewRecord(num) == [num |-> num, lg |-> [k \in geo.forks |-> 0], py |-> [k \in geo.forks |-> 0],
                   ext |-> [k \in geo.forks |-> NoExt]]

f_selectfork(h, fork) == [h EXCEPT !.fork = fork, !.cur = h.ext[fork], !.fabn = 0]

Handle(name, rec) == [name |-> name, num |-> rec.num, lg |-> rec.lg, py |-> rec.py,
                      ext |-> rec.ext, fork |-> "data", cur |-> rec.ext["data"],
                      fabn |-> 0, upd |-> FALSE]

RecordOf(h) == [num |-> h.num, lg |-> h.lg, py |-> h.py, ext |-> h.ext]

-----------------------------------------------------------------------------
(* A call works on the volume and one handle, and may fail.                *)
Work(v, h) == [v |-> v, h |-> h, ok |-> TRUE]

Fails(x) == [x EXCEPT !.ok = FALSE]

(* x after steps that go on as long as it is not at rest: no more than     *)
(* there are records of extents to look at.                                *)
Repeat(x, AtRest(_), Step(_)) ==
    LET most == Cardinality(DOMAIN x.v.ovf) + 2
        after[k \in 0 .. most] ==
            IF k = 0 THEN x
            ELSE LET y == after[k - 1] IN IF ~ y.ok \/ AtRest(y) THEN y ELSE Step(y)
    IN  after[most]

UpTo(ext, i) == LET sum[j \in 0 .. geo.per] == IF j = 0 THEN 0 ELSE sum[j - 1] + ext[j].n
                IN  sum[i]
Size(ext)    == UpTo(ext, geo.per)
Run(d)       == d.at .. d.at + d.n - 1
Key(h, s)    == <<h.num, h.fork, s>>

(* v_extsearch for the record of extents that begins at block s.           *)
Load(x, s) ==
    IF Key(x.h, s) \in DOMAIN x.v.ovf
    THEN [x EXCEPT !.h.cur = x.v.ovf[Key(x.h, s)], !.h.fabn = s]
    ELSE Fails(x)

LoadNext(x) == Load(x, x.h.fabn + Size(x.h.cur))

Rewound(x) == [x EXCEPT !.h.cur = x.h.ext[x.h.fork], !.h.fabn = 0]

(* Faulty variant: the record at hand is used for a block before it.       *)
f_doblockForward(x, a) ==
    Repeat(x, LAMBDA y : a < y.h.fabn + Size(y.h.cur), LoadNext)

(* f_doblock: find the record that lists block a of the fork.              *)
f_doblock(x, a) ==
    Repeat(IF a < x.h.fabn THEN Rewound(x) ELSE x,
           LAMBDA y : a < y.h.fabn + Size(y.h.cur), LoadNext)

BlockAt(h, a) ==
    LET i == Min({j \in 1 .. geo.per : a < h.fabn + UpTo(h.cur, j)})
    IN  h.cur[i].at + a - h.fabn - UpTo(h.cur, i - 1)

(* Faulty variant: drFreeBks is left alone.                                *)
TakeUncounted(v, e) == [v EXCEPT !.vbm = @ \cup Run(e), !.ptr = e.ptr]

Take(v, e) == [v EXCEPT !.vbm = @ \cup Run(e), !.ptr = e.ptr, !.free = @ - e.n]

(* v_freeblocks.                                                           *)
Free(v, d) == [v EXCEPT !.vbm = @ \ Run(d), !.free = @ + d.n]

(* The loops of f_addextent and f_trunc stop in the record that reaches    *)
(* block `end', or that has an empty descriptor before it.                 *)
Stops(h, end) == {i \in 1 .. geo.per : h.cur[i].n = 0 \/ h.fabn + UpTo(h.cur, i) >= end}

Reaching(x, end) ==
    Repeat(x, LAMBDA y : y.h.fabn >= end \/ Stops(y.h, end) # {}, LoadNext)

LastIn(h, end) == IF h.fabn >= end THEN 0 ELSE Min(Stops(h, end))

(* Store the record of extents at hand: in the copy of the catalog record, *)
(* or over the record of the extents tree.                                 *)
Stored(x) ==
    IF x.h.fabn = 0 THEN [x EXCEPT !.h.ext[x.h.fork] = x.h.cur]
    ELSE IF Key(x.h, x.h.fabn) \notin DOMAIN x.v.ovf THEN Fails(x)
    ELSE IF x.h.cur[1].n > 0 THEN [x EXCEPT !.v.ovf[Key(x.h, x.h.fabn)] = x.h.cur]
    ELSE [x EXCEPT !.v.ovf = Restrict(@, DOMAIN @ \ {Key(x.h, x.h.fabn)})]

(* Faulty variant: the new record gets the key of the one before it.       *)
InsertedAtOld(x, d, end) ==
    LET y == [x EXCEPT !.h.cur = [NoExt EXCEPT ![1] = d]]
    IN  IF Key(y.h, y.h.fabn) \in DOMAIN y.v.ovf THEN Fails(y)
        ELSE [y EXCEPT !.v.ovf = (Key(y.h, y.h.fabn) :> y.h.cur) @@ @, !.h.fabn = end]

(* A new record of extents; bt_insert refuses a key that is there.         *)
Inserted(x, d, end) ==
    LET y == [x EXCEPT !.h.cur = [NoExt EXCEPT ![1] = d], !.h.fabn = end]
    IN  IF Key(y.h, end) \in DOMAIN y.v.ovf THEN Fails(y)
        ELSE [y EXCEPT !.v.ovf = (Key(y.h, end) :> y.h.cur) @@ @]

Appended(x, i, d, end) ==
    IF i > 0 /\ x.h.cur[i].at + x.h.cur[i].n = d.at
    THEN Stored([x EXCEPT !.h.cur[i].n = @ + d.n])
    ELSE IF i < geo.per THEN Stored([x EXCEPT !.h.cur[i + 1] = d])
    ELSE Inserted(x, d, end)

Lengthened(x, d) ==
    IF x.ok THEN [x EXCEPT !.h.py[x.h.fork] = @ + d.n, !.h.upd = TRUE] ELSE x

AddedAt(x, d, end) ==
    IF x.ok /\ (x.h.fabn >= end \/ x.h.fabn + UpTo(x.h.cur, LastIn(x.h, end)) = end)
    THEN Lengthened(Appended(x, LastIn(x.h, end), d, end), d)
    ELSE Fails(x)

f_addextent(x, d) == AddedAt(Reaching(x, x.h.py[x.h.fork]), d, x.h.py[x.h.fork])

(* Faulty variant: a failure keeps the blocks.                             *)
UndoneNever(y, d) == y

Undone(y, d) == IF y.ok THEN y ELSE [y EXCEPT !.v = Free(@, d)]

(* v_allocblocks refuses what bitmap and free count contradict.            *)
f_alloc(x) ==
    LET e == Reserve(x.v.vbm, x.v.ptr, geo.clump)
        d == [at |-> e.at, n |-> e.n]
    IN  IF x.v.free = 0 \/ Block \subseteq x.v.vbm THEN Fails(x)
        ELSE IF e.n > x.v.free THEN Fails(x)
        ELSE Undone(f_addextent([x EXCEPT !.v = Take(@, e)], d), d)

-----------------------------------------------------------------------------
(* f_trunc.  While it releases, x also has the index i of the descriptor   *)
(* to keep, the number d of blocks still to release, and the block `next'  *)
(* at which the following record begins.                                   *)
Ceil(lg) == (lg + geo.lpa - 1) \div geo.lpa

Rest(x) == {j \in x.i + 1 .. geo.per : x.d > UpTo(x.h.cur, j - 1) - UpTo(x.h.cur, x.i)}

Bad(x) == {j \in Rest(x) : \/ x.h.cur[j].n = 0
                           \/ x.h.cur[j].n > x.d - UpTo(x.h.cur, j - 1) + UpTo(x.h.cur, x.i)}

Released(x, J) ==
    [x EXCEPT !.v.vbm = @ \ UNION {Run(x.h.cur[j]) : j \in J},
              !.v.free = @ + MapThenSumSet(LAMBDA j : x.h.cur[j].n, J),
              !.d = @ - MapThenSumSet(LAMBDA j : x.h.cur[j].n, J),
              !.h.cur = [j \in 1 .. geo.per |-> IF j \in J THEN NoDesc ELSE @[j]]]

Entered(x) ==
    IF x.ok THEN [x EXCEPT !.i = 0, !.next = @ + Size(x.h.cur)] ELSE x

ReleaseRecord(x) ==
    IF Bad(x) # {} THEN Fails(Released(x, {j \in Rest(x) : j < Min(Bad(x))}))
    ELSE LET y == Stored(Released(x, Rest(x)))
         IN  IF y.ok /\ y.d > 0 THEN Entered(Load(y, y.next)) ELSE [y EXCEPT !.done = TRUE]

Releasing(x, i, d, next) ==
    Repeat([v |-> x.v, h |-> x.h, ok |-> TRUE, i |-> i, d |-> d, next |-> next,
            done |-> FALSE],
           LAMBDA y : y.done, ReleaseRecord)

(* Faulty variant: the end of the extent that is cut is not given back.    *)
CutKept(x, i, over) == [x EXCEPT !.h.cur[i].n = @ - over]

Cut(x, i, over) ==
    [x EXCEPT !.h.cur[i].n = @ - over,
              !.v = Free(@, [at |-> x.h.cur[i].at + x.h.cur[i].n - over, n |-> over])]

Shortened(x, new) == [x EXCEPT !.h.py[x.h.fork] = new, !.h.upd = TRUE]

TruncAt(x, new, i, next) ==
    LET over == x.h.fabn + UpTo(x.h.cur, i) - new
        y    == IF over > 0 THEN Cut(x, i, over) ELSE x
    IN  IF over < 0 THEN Fails(x)
        ELSE Releasing(Shortened(y, new), i, x.h.py[x.h.fork] - new - over, next)

TruncFrom(x, new) ==
    IF x.ok THEN TruncAt(x, new, LastIn(x.h, new), x.h.fabn + Size(x.h.cur)) ELSE x

f_trunc(x) ==
    LET new == Ceil(x.h.lg[x.h.fork]) IN
    IF new > x.h.py[x.h.fork] THEN Fails(x)
    ELSE IF new = x.h.py[x.h.fork] THEN x
    ELSE TruncFrom(Reaching(IF x.h.fabn >= new THEN Rewound(x) ELSE x, new), new)

(* f_flush: the catalog record of the handle's name, whoever has it now.   *)
CanFlush(cat, h) == h.upd => h.name \in DOMAIN cat

f_flush(cat, h) ==
    IF h.upd /\ h.name \in DOMAIN cat THEN [cat EXCEPT ![h.name] = RecordOf(h)] ELSE cat

-----------------------------------------------------------------------------
(* Bound: with other workloads than "shared" a file is open once at most,  *)
(* and is not deleted while it is open.                                    *)
MayOpen(name) ==
    Workload # "shared" => \A f \in DOMAIN files : files[f].name # name

hfs_create(name) ==
    /\ name \notin DOMAIN catalog /\ MayOpen(name)
    /\ cnid < FirstNum + MaxCreates /\ Len(files) < geo.open
    /\ catalog' = (name :> NewRecord(cnid)) @@ catalog
    /\ files' = <<Handle(name, NewRecord(cnid))>> \o files
    /\ cnid' = cnid + 1 /\ ok' = TRUE
    /\ UNCHANGED <<geo, vol, crashes>>

hfs_open(name) ==
    /\ name \in DOMAIN catalog /\ MayOpen(name) /\ Len(files) < geo.open
    /\ files' = <<Handle(name, catalog[name])>> \o files
    /\ ok' = TRUE
    /\ UNCHANGED <<geo, vol, catalog, cnid, crashes>>

Update(f, x) == vol' = x.v /\ files' = [files EXCEPT ![f] = x.h] /\ ok' = x.ok

Located(x, i) == IF x.ok THEN f_doblock(x, i \div geo.lpa) ELSE x

hfs_read(f, i) ==
    /\ i < files[f].lg[files[f].fork]
    /\ Update(f, Located(Work(vol, files[f]), i))
    /\ UNCHANGED <<geo, catalog, cnid, crashes>>

Extended(x, i) ==
    IF x.ok THEN [x EXCEPT !.h.lg[x.h.fork] = Max({@, i + 1})] ELSE x

(* A call writes logical blocks i to j, one after the other, each with a   *)
(* clump when the fork has no room for it, and stops at the first it fails *)
(* at.  A handle's position never exceeds its length.                      *)
Roomy(x, i) == IF i + 1 > x.h.py[x.h.fork] * geo.lpa THEN f_alloc(x) ELSE x

Chunk(x, i) == IF x.ok THEN Extended(Located(Roomy(x, i), i), i) ELSE x

hfs_write(f, i, j) ==
    LET h == [files[f] EXCEPT !.upd = TRUE]
    IN  /\ i \in 0 .. h.lg[h.fork] /\ i <= j /\ j < geo.len
        /\ Update(f, FoldLeft(Chunk, Work(vol, h), [k \in 1 .. j - i + 1 |-> i + k - 1]))
        /\ UNCHANGED <<geo, catalog, cnid, crashes>>

hfs_truncate(f, len) ==
    /\ len < files[f].lg[files[f].fork]
    /\ files' = [files EXCEPT ![f].lg[files[f].fork] = len, ![f].upd = TRUE]
    /\ ok' = TRUE
    /\ UNCHANGED <<geo, vol, catalog, cnid, crashes>>

hfs_setfork(f, fork) ==
    LET t == f_trunc(Work(vol, files[f])) IN
    /\ fork # files[f].fork
    /\ vol' = t.v /\ files' = [files EXCEPT ![f] = f_selectfork(t.h, fork)] /\ ok' = t.ok
    /\ UNCHANGED <<geo, catalog, cnid, crashes>>

(* hfs_close, on the state c of a call that closes files: the handle is    *)
(* gone whether or not it could be truncated and flushed.                  *)
Without(seq, f) == [i \in 1 .. Len(seq) - 1 |-> seq[IF i < f THEN i ELSE i + 1]]

ClosedWith(c, f, t) ==
    [v |-> t.v, files |-> Without(c.files, f),
     cat |-> IF t.ok THEN f_flush(c.cat, t.h) ELSE c.cat,
     ok |-> c.ok /\ t.ok /\ CanFlush(c.cat, t.h)]

Closed(c, f) == ClosedWith(c, f, f_trunc(Work(c.v, c.files[f])))

Before == [v |-> vol, cat |-> catalog, files |-> files, ok |-> TRUE]

hfs_close(f) ==
    LET c == Closed(Before, f) IN
    /\ vol' = c.v /\ catalog' = c.cat /\ files' = c.files /\ ok' = c.ok
    /\ UNCHANGED <<geo, cnid, crashes>>

(* hfs_delete: a handle of its own gives back both forks; the record goes  *)
(* when that succeeded.                                                    *)
Emptied(x, fork) ==
    IF x.ok THEN f_trunc([x EXCEPT !.h = f_selectfork([@ EXCEPT !.lg[fork] = 0], fork)])
    ELSE x

EmptiedAll(x) == IF "rsrc" \in geo.forks THEN Emptied(Emptied(x, "data"), "rsrc")
                 ELSE Emptied(x, "data")

hfs_delete(name) ==
    /\ name \in DOMAIN catalog /\ MayOpen(name)
    /\ LET x == EmptiedAll(Work(vol, Handle(name, catalog[name]))) IN
       /\ vol' = x.v /\ ok' = x.ok
       /\ catalog' = IF x.ok THEN Restrict(catalog, DOMAIN catalog \ {name}) ELSE catalog
    /\ UNCHANGED <<geo, files, cnid, crashes>>

(* The files before the first that cannot be flushed.                      *)
Flushable == {f \in DOMAIN files : \A g \in 1 .. f : CanFlush(catalog, files[g])}

hfs_flush ==
    /\ files # << >>
    /\ catalog' = FoldLeft(f_flush, catalog, SubSeq(files, 1, Cardinality(Flushable)))
    /\ files' = [f \in DOMAIN files |->
                    IF f \in Flushable THEN [files[f] EXCEPT !.upd = FALSE] ELSE files[f]]
    /\ ok' = (Flushable = DOMAIN files)
    /\ UNCHANGED <<geo, vol, cnid, crashes>>

(* hfs_umount closes the files from the head of the list; the volume is    *)
(* mounted again, cleanly.                                                 *)
hfs_umount ==
    LET c == FoldLeft(LAMBDA b, f : Closed(b, 1), Before, files) IN
    /\ vol' = c.v /\ catalog' = c.cat /\ files' = c.files /\ ok' = c.ok
    /\ UNCHANGED <<geo, cnid, crashes>>

-----------------------------------------------------------------------------
(* The blocks of a fork, by its record of extents and the extents tree.    *)
Listed(ext) ==
    LET list[i \in 0 .. geo.per] ==
            IF i = 0 THEN << >>
            ELSE list[i - 1] \o [j \in 1 .. ext[i].n |-> ext[i].at + j - 1]
    IN  list[geo.per]

Chain(rec, fork) ==
    LET most == Cardinality(DOMAIN vol.ovf)
        from[k \in 0 .. most] ==
            IF k = 0 THEN Listed(rec.ext[fork])
            ELSE LET c == from[k - 1] IN
                 IF Len(c) < rec.py[fork] /\ <<rec.num, fork, Len(c)>> \in DOMAIN vol.ovf
                 THEN c \o Listed(vol.ovf[<<rec.num, fork, Len(c)>>])
                 ELSE c
    IN  from[most]

(* Faulty variant: only the extents in the catalog are marked.             *)
MarksCatalogOnly ==
    geo.system \cup
    UNION {Run(d) : d \in UNION {ToSet(catalog[n].ext[k]) : n \in DOMAIN catalog, k \in geo.forks}}

(* v_scavenge marks the two trees and what they list.                      *)
Marks ==
    geo.system \cup
    UNION {Run(d) : d \in UNION {ToSet(catalog[n].ext[k]) : n \in DOMAIN catalog, k \in geo.forks}
                          \cup UNION {ToSet(e) : e \in Range(vol.ovf)}}

LastNum == Max({catalog[n].num : n \in DOMAIN catalog} \cup {FirstNum - 1})

(* No handle has given back a block that the record in the catalog still   *)
(* lists, as hfs_setfork can.                                              *)
Settled ==
    \A f \in DOMAIN files, k \in geo.forks :
        LET rec == catalog[files[f].name] IN
        rec.py[k] <= files[f].py[k] /\ IsPrefix(Chain(rec, k), Chain(files[f], k))

(* No record of the extents tree has grown beyond the length that the      *)
(* catalog gives the fork, as f_addextent can let it.                      *)
Exact == \A rec \in Range(catalog), k \in geo.forks : Len(Chain(rec, k)) = rec.py[k]

(* Bound: when the process may die.                                        *)
MayCrash == /\ crashes < geo.crashes
            /\ Workload = "exclusive" => Settled /\ Exact

(* The process dies, and the volume is mounted and scavenged.  Bound: the  *)
(* bitmap and the MDB on the medium are those of now or of its format.     *)
Scavenged(marked, ptr, num) ==
    /\ vol' = [vbm |-> marked, ptr |-> ptr, ovf |-> vol.ovf,
               free |-> Cardinality(Block \ marked)]
    /\ cnid' = Max({num, LastNum + 1})

Crash ==
    /\ MayCrash
    /\ files' = << >>
    /\ \/ Scavenged(vol.vbm \cup Marks, vol.ptr, cnid)
       \/ Scavenged(Marks, 0, FirstNum)
    /\ crashes' = crashes + 1 /\ ok' = TRUE
    /\ UNCHANGED <<geo, catalog>>

Next == \/ \E name \in Names : hfs_create(name) \/ hfs_open(name) \/ hfs_delete(name)
        \/ \E f \in DOMAIN files :
              \/ \E i \in 0 .. geo.len : hfs_read(f, i) \/ hfs_truncate(f, i)
              \/ \E i, j \in 0 .. geo.len : hfs_write(f, i, j)
              \/ \E k \in geo.forks : hfs_setfork(f, k)
              \/ hfs_close(f)
        \/ hfs_flush \/ hfs_umount
        \/ Crash

Spec == Init /\ [][Next]_vars

-----------------------------------------------------------------------------
ExtRecs == [1 .. geo.per -> [at : Nat, n : 0 .. NmAlBlks]]

TypeOK ==
    /\ geo \in Geometries
    /\ vol.vbm \subseteq Block /\ vol.free \in 0 .. NmAlBlks /\ vol.ptr \in 0 .. NmAlBlks
    /\ DOMAIN vol.ovf \subseteq Nums \X geo.forks \X (1 .. NmAlBlks)
    /\ \A e \in Range(vol.ovf) : e \in ExtRecs
    /\ DOMAIN catalog \subseteq Names
    /\ \A rec \in Range(catalog) \cup {RecordOf(h) : h \in Range(files)} :
          /\ rec.num \in Nums
          /\ rec.lg \in [geo.forks -> 0 .. geo.len] /\ rec.py \in [geo.forks -> 0 .. NmAlBlks]
          /\ rec.ext \in [geo.forks -> ExtRecs]
    /\ cnid \in FirstNum .. FirstNum + MaxCreates

(* MDB field drFreeBks: "Number of free allocation blocks", never below    *)
(* zero or above the volume's (v_allocblocks, v_freeblocks, v_scavenge).   *)
FreeCountRight == TypeOK /\ vol.free = Cardinality(Block \ vol.vbm)

(* The forks, by the handle of an open file and the catalog record of      *)
(* another.                                                                *)
ChainNow(num, fork) ==
    LET open == {f \in DOMAIN files : files[f].num = num}
        kept == {n \in DOMAIN catalog : catalog[n].num = num}
    IN  IF open # {} THEN Chain(files[Min(open)], fork)
        ELSE IF kept # {} THEN Chain(catalog[CHOOSE n \in kept : TRUE], fork)
        ELSE << >>

Chains == [o \in Nums \X AllForks |->
              IF o[2] \in geo.forks THEN ChainNow(o[1], o[2]) ELSE << >>]

Held == UNION {ToSet(c) : c \in Range(Chains)}

(* No block is marked that no file has, as long as no crash lost a file's  *)
(* record of it: closing, truncating and deleting give all of them back    *)
(* (f_trunc through any number of extents records).                        *)
NothingLeaks == crashes = 0 => vol.vbm = Held \cup geo.system

(* Whatever record of extents a handle was left with by the calls before,  *)
(* f_doblock finds in the block that belongs at a position of the file.    *)
FindsItsBlock ==
    \A f \in DOMAIN files :
        LET chain == Chain(files[f], files[f].fork) IN
        \A a \in 0 .. Ceil(files[f].lg[files[f].fork]) - 1 :
            LET x == f_doblock(Work(vol, files[f]), a)
            IN  x.ok /\ BlockAt(x.h, a) = chain[a + 1]

(* The records on the medium describe complete files: every length has its *)
(* blocks.  So a crash at this point loses what was written since the last *)
(* flush and no more (f_flush, f_addextent, f_trunc).                      *)
CatalogIsComplete ==
    Settled => \A rec \in Range(catalog), k \in geo.forks :
                  /\ Ceil(rec.lg[k]) <= rec.py[k]
                  /\ rec.py[k] <= Len(Chain(rec, k))

(* A call that fails, be it half way through several clumps, has reserved  *)
(* nothing but what its file has got and has written full: f_alloc gives   *)
(* back what it could not add.  And it has given nothing back.             *)
FailureReservesNothing ==
    [][~ ok' =>
          /\ vol.vbm \subseteq vol'.vbm
          /\ vol'.vbm \ vol.vbm = Held' \ Held
          /\ vol'.free = vol.free - Cardinality(vol'.vbm \ vol.vbm)
          /\ vol'.vbm # vol.vbm =>
                \E f \in DOMAIN files :
                    LET k == files[f].fork IN
                    /\ files'[f].py[k] > files[f].py[k]
                    /\ files'[f].lg[k] = files'[f].py[k] * geo.lpa]_vars

(* v_scavenge "safeguard[s] blocks in the volume bitmap": once it has, the *)
(* blocks of the files that are not open stay marked.                      *)
StaysSafe == crashes > 0 /\ files = << >> => Marks \subseteq vol.vbm

(* Refinement: through all handles, extents records and crashes, every     *)
(* fork has its own blocks, and they are marked.                           *)
Space == INSTANCE FileSpace WITH
             Blocks <- Block, Owners <- Nums \X AllForks, kept <- geo.system, taken <- vol.vbm,
             chain <- Chains

IsFileSpace == Space!Spec
=============================================================================
