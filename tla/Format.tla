------------------------------- MODULE Format -------------------------------
(***************************************************************************)
(* The formatters: hfs_format of libhfs and hformat, which calls it;       *)
(* hformat -t hfs+ (src/common/hfsplus_format.c); mkfs.hfs and mkfs.hfs+   *)
(* (src/mkfs), which write with code of their own.                         *)
(*                                                                         *)
(* A formatter refuses, or works out where everything goes and writes it,  *)
(* area by area.  A write may fail, the formatter may be killed, and the   *)
(* medium may be formatted again, with the same formatter or another.      *)
(*                                                                         *)
(* Lengths are in sectors of 512 bytes.  What an area holds is known by    *)
(* its kind and by the places it points to.  HFS_OPT_ZERO, volume names,   *)
(* dates, and the bytes of records are left out.                           *)
(***************************************************************************)
EXTENDS Integers, Sequences, SequencesExt, FiniteSets, FiniteSetsExt, TLC

CONSTANTS Disks,        \* media: [size, file, map: partitions, zero: first bytes, mounted],
                        \* and, as a bound, runs: how many times one is formatted
          Lines,        \* command lines and calls
          Word          \* bound: one more than the largest node count of a tree

ASSUME FormatAssumption ==
    /\ \A d \in Disks :
          d.size \in Nat \ {0} /\ d.map \in Seq([at : Nat, len : Nat]) /\ d.runs \in Nat
    /\ Word \in Nat \ {0}

VARIABLES disk,         \* the medium as it came
          length,       \* its length; a file grows when something is written past its end
          landed,       \* the writes that reached it, in order
          job,          \* the formatting that is going on, or the last one
          runs

vars == <<disk, length, landed, job, runs>>

NoPart == -1
HFS_CACHED == {"hformat", "hfs_format"}

Ceil(n, d) == (n + d - 1) \div d
Overlap(v, w) == v.at < w.at + w.len /\ w.at < v.at + v.len

(* The last write that covers a sector says what it holds.                 *)
Old == [kind |-> "old", run |-> 0]
Covers(w, s) == s \in w.at .. w.at + w.len - 1
At(s) == LET I == {i \in DOMAIN landed : Covers(landed[i], s)}
         IN  IF I = {} THEN Old ELSE landed[Max(I)]

Idle == [tool |-> "none", exit |-> "none", plan |-> << >>, todo |-> << >>, lost |-> FALSE]

Init == /\ disk \in Disks
        /\ length = disk.size
        /\ landed = << >>
        /\ job = Idle
        /\ runs = 0

-----------------------------------------------------------------------------
(* Partitions.  Entry 1 of the map is the map's own, so the entry of HFS   *)
(* partition p is in sector 1 + p.                                         *)
MapReadable(p) == disk.map # << >> /\ \A s \in 1 .. 1 + p : At(s).kind = "old"

hfs_nparts == IF MapReadable(Len(disk.map)) THEN Len(disk.map) ELSE -1

(* The functions that mkfs.hfs and mkfs.hfs+ are linked with know none.    *)
mkfs_nparts == -1

NoVolume == [at |-> 0, len |-> 0]
v_geometry(p) ==
    IF p = 0 THEN [at |-> 0, len |-> length]
    ELSE IF MapReadable(p) /\ p \in DOMAIN disk.map THEN disk.map[p] ELSE NoVolume

(* hformat takes the only partition; a partitioned medium as a whole needs *)
(* -f.                                                                     *)
hformat_partition(l) == IF l.part # NoPart THEN l.part ELSE IF hfs_nparts = -1 THEN 0 ELSE 1

hformat_refuses(l) ==
    IF l.part = NoPart THEN hfs_nparts > 1
    ELSE hfs_nparts # -1 /\ l.part = 0 /\ ~l.force

(* validate_device: not mounted and, unless forced, two zero bytes first.  *)
(* hfs_format leaves zeroes there.                                         *)
ZeroFirst == At(0).kind = "zero" \/ (At(0).kind = "old" /\ disk.zero)

validate_device(l) == ~disk.mounted /\ (l.force \/ ZeroFirst)

hfs_read_volume_info == At(2).kind \in {"mdb", "H+"}

-----------------------------------------------------------------------------
(* hfs_format.  The places of the areas of a volume of so many sectors.    *)

BlockSize(vlen, aligned) ==
    LET lpa == 1 + (vlen - 6) \div 65536 IN IF aligned THEN Ceil(lpa, 4) * 4 ELSE lpa

(* With HFS_OPT_2048 the first allocation block is put at a multiple of 4. *)
Laid(vstart, vlen, lpa, vbmsz, aligned) ==
    LET AlBlSt == IF aligned THEN (((vstart % 4) + 3 + vbmsz + 3) \div 4) * 4 ELSE 3 + vbmsz
    IN  [lpa |-> lpa, vbmsz |-> vbmsz, AlBlSt |-> AlBlSt,
         NmAlBlks |-> ((vlen - 2 - AlBlSt) \div lpa) % 65536]

Geometry(vstart, vlen, aligned) ==
    LET lpa == BlockSize(vlen, aligned)
    IN  Laid(vstart, vlen, lpa, Ceil(vlen \div lpa, 4096), aligned)

(* A volume of 1594 blocks gives one up when it has bad blocks.            *)
Sparing(geo, bads) ==
    IF bads # << >> /\ geo.NmAlBlks = 1594 THEN [geo EXCEPT !.NmAlBlks = 1593] ELSE geo

CanSpare(geo, vlen, bads) ==
    /\ 4 * Len(bads) <= vlen
    /\ \A b \in ToSet(bads) : b >= geo.AlBlSt /\ b # vlen - 2 /\ b < vlen

BadBlocks(geo, bads) == [i \in DOMAIN bads |-> (bads[i] - geo.AlBlSt) \div geo.lpa]

(* v_allocblocks, with extents for the bitmap: of the runs of free blocks  *)
(* the longest, cut to the request, the first from the start pointer on.   *)
(* FirstFit says the same block by block.                                  *)
InExtents(extents, b) == \E e \in extents : b \in e.at .. e.at + e.n - 1

v_allocblocks(geo, used, ptr, request) ==
    LET N    == geo.NmAlBlks
        at   == {s \in {0, ptr} \cup {e.at + e.n : e \in used} :
                     s < N /\ ~InExtents(used, s)}
        n(s) == Min({request, N - s} \cup {e.at - s : e \in {u \in used : u.at > s}})
        best == CHOOSE s \in at : \A o \in at \ {s} :
                    n(s) > n(o) \/ (n(s) = n(o) /\ (s - ptr) % N < (o - ptr) % N)
    IN  [at |-> best, n |-> n(best)]

Once(s, a) == IF s # << >> /\ Last(s) = a THEN s ELSE Append(s, a)

(* Faulty variant: the blocks are taken in the order in which they came.   *)
SparedAsGiven(anums) == FoldLeft(Once, << >>, anums)

(* The bad blocks sorted, each once.                                       *)
Spared(anums) == FoldLeft(Once, << >>, SortSeq(anums, LAMBDA x, y : x < y))

(* f_addextent: a block joins the last extent, starts a new one, or starts *)
(* a new record; a record has three extents and is known by its first      *)
(* block's place in the file.                                              *)
Blocks(rec) == FoldLeft(LAMBDA t, e : t + e.n, 0, rec.ext)

f_addextent(recs, a) ==
    LET rec == Last(recs)
        end == rec.fabn + Blocks(rec)
        ext == [at |-> a, n |-> 1]
    IN  IF rec.ext # << >> /\ Last(rec.ext).at + Last(rec.ext).n = a
        THEN [recs EXCEPT ![Len(recs)].ext[Len(rec.ext)].n = @ + 1]
        ELSE IF Len(rec.ext) < 3 THEN [recs EXCEPT ![Len(recs)].ext = Append(@, ext)]
        ELSE Append(recs, [fabn |-> end, ext |-> <<ext>>])

BadFile(geo, anums) ==
    FoldLeft(f_addextent, <<[fabn |-> 0, ext |-> << >>]>>,
             SelectSeq(anums, LAMBDA a : a < geo.NmAlBlks))

(* The volume: its geometry, the extents of its trees, and the bad blocks. *)
(* bt_space asks for one clump for each tree.                              *)
NewVolume(place, aligned, bads) ==
    LET geo   == Sparing(Geometry(place.at, place.len, aligned), bads)
        anums == BadBlocks(geo, bads)
        bad   == {[at |-> a, n |-> 1] : a \in {b \in ToSet(anums) : b < geo.NmAlBlks}}
        clump == geo.NmAlBlks \div 128
        ext   == v_allocblocks(geo, bad, 0, clump)
        ptr   == IF ext.n = clump THEN (ext.at + ext.n) % geo.NmAlBlks
                 ELSE Min({s \in {0} \cup {e.at + e.n : e \in bad \cup {ext}} :
                              ~InExtents(bad \cup {ext}, s)})
        cat   == v_allocblocks(geo, bad \cup {ext}, ptr, clump)
    IN  [geo |-> geo, at |-> place.at, len |-> place.len, ext |-> ext, cat |-> cat,
         used |-> bad \cup {ext, cat}, bads |-> BadFile(geo, Spared(anums)),
         FreeBks |-> geo.NmAlBlks - ext.n - cat.n]

-----------------------------------------------------------------------------
(* What is written, in order.  Areas are relative to the volume.           *)
Nothing == [AlBlSt |-> 0]
Saying(at, len, kind, phase, says) ==
    [at |-> at, len |-> len, kind |-> kind, phase |-> phase, says |-> says]
Area(at, len, kind, phase) == Saying(at, len, kind, phase, Nothing)

NodePlace(geo, file, k) == geo.AlBlSt + file.at * geo.lpa + k
TreeNodes(geo, file)    == file.n * geo.lpa

(* The map in a header node covers HFS_MAP1SZ * 8 nodes, each map node     *)
(* HFS_MAPXSZ * 8 more.  They are the first nodes after the header's, each *)
(* linked to the next; the first record's leaf comes after them.           *)
MapNodes(nodes)      == IF nodes > 2048 THEN Ceil(nodes - 2048, 3936) ELSE 0
FirstLeaf(geo, file) == MapNodes(TreeNodes(geo, file)) + 1

MapNode(geo, file, k, next, phase) ==
    Saying(NodePlace(geo, file, k), 1, "map", phase, [AlBlSt |-> 0, next |-> next])

bt_space(geo, file) ==
    FlattenSeq([k \in 1 .. MapNodes(TreeNodes(geo, file)) |->
        (IF k = 1 THEN << >> ELSE <<MapNode(geo, file, k - 1, k, "space")>>)
        \o <<MapNode(geo, file, k, 0, "space")>>])

(* Faulty variant: the last node of the map is not linked.                 *)
bt_writehdrCut(geo, file, kind, root) ==
    LET n == MapNodes(TreeNodes(geo, file)) IN
    <<Saying(NodePlace(geo, file, 0), 1, kind, "close",
             [AlBlSt |-> 0, next |-> IF n > 1 THEN 1 ELSE 0, root |-> root])>>
    \o [k \in 1 .. n |-> MapNode(geo, file, k, IF k < n - 1 THEN k + 1 ELSE 0, "close")]

bt_writehdr(geo, file, kind, root) ==
    LET n == MapNodes(TreeNodes(geo, file)) IN
    <<Saying(NodePlace(geo, file, 0), 1, kind, "close",
             [AlBlSt |-> 0, next |-> IF n > 0 THEN 1 ELSE 0, root |-> root])>>
    \o [k \in 1 .. n |-> MapNode(geo, file, k, IF k < n THEN k + 1 ELSE 0, "close")]

(* hfs_format puts the nodes of the trees, then the boot blocks, and the   *)
(* close of the volume the rest.                                           *)
FormatWrites(vol, bads) ==
    LET geo  == vol.geo
        leaf == IF bads = << >> THEN 0 ELSE FirstLeaf(geo, vol.ext)
        root == FirstLeaf(geo, vol.cat)
        mdb  == [AlBlSt |-> geo.AlBlSt, NmAlBlks |-> geo.NmAlBlks, lpa |-> geo.lpa,
                 FreeBks |-> vol.FreeBks, ext |-> vol.ext, cat |-> vol.cat]
    IN  bt_space(geo, vol.ext) \o bt_space(geo, vol.cat)
        \o (IF leaf = 0 THEN << >>
            ELSE <<Area(NodePlace(geo, vol.ext, leaf), 1, "extleaf", "bad")>>)
        \o <<Area(NodePlace(geo, vol.cat, root), 1, "catleaf", "root"),
             Area(0, 2, "zero", "root")>>
        \o bt_writehdr(geo, vol.ext, "exthdr", leaf) \o bt_writehdr(geo, vol.cat, "cathdr", root)
        \o <<Area(3, geo.vbmsz, "vbm", "close"),
             Saying(2, 1, "mdb", "close", mdb),
             Saying(vol.len - 2, 1, "mdb", "close", mdb)>>

(* What is written to the same place again is left out but for the last.   *)
Renewed(v, w) == v.at = w.at /\ v.len = w.len /\ v.kind = w.kind

Lasting(writes) ==
    FoldLeft(LAMBDA kept, w : Append(SelectSeq(kept, LAMBDA v : ~Renewed(v, w)), w),
             << >>, writes)

(* The cache writes its blocks in ascending order when it is finished;     *)
(* there are fewer than it has room for.                                   *)
b_flush(writes) == SortSeq(Lasting(writes), LAMBDA v, w : v.at < w.at)

(* Faulty variant: the start of the volume is left out.                    *)
LogicalIsPhysical(vol, writes) == writes

b_writelb(vol, writes) == [i \in DOMAIN writes |-> [writes[i] EXCEPT !.at = @ + vol.at]]

-----------------------------------------------------------------------------
(* mkfs.hfs.  The block count is cut to 16 bits before it is compared.     *)
calculate_volume_parameters(size) ==
    LET lpa   == IF size > 65536 THEN Max({1, size \div 65536}) ELSE 1
        total == (size \div lpa) % 65536
        cat   == IF total > 1000 THEN total \div 250 ELSE 4
        vbm   == Ceil(total, 4096 * lpa)
    IN  [lpa |-> lpa, total |-> total, catalog |-> cat, vbm |-> vbm,
         sectors |-> Ceil(total, 4096), FreeBks |-> (total - vbm - cat - 1) % 65536]

write_boot_blocks == Area(0, 2, "boot", "write")

(* What the header says is not where the files go: it counts the bitmap,   *)
(* in allocation blocks, among what lies before them and among the blocks. *)
write_master_directory_block(at, p) ==
    Saying(at, 1, "mdb", "write",
           [AlBlSt |-> 3 + p.vbm, NmAlBlks |-> p.total, lpa |-> p.lpa,
            FreeBks |-> p.FreeBks, ext |-> [at |-> p.vbm, n |-> 1],
            cat |-> [at |-> p.vbm + 1, n |-> p.catalog]])

write_volume_bitmap(p) == Area(3, p.sectors, "vbm", "write")
initialize_catalog_file(p) == Area(3 + p.sectors, p.catalog * p.lpa, "catalog", "write")

(* Faulty variant: the extents file begins where the catalog does.         *)
ExtentsAtCatalog(p) == Area(3 + p.sectors, p.lpa, "extents", "write")

initialize_extents_file(p) ==
    Area(3 + p.sectors + p.catalog * p.lpa, p.lpa, "extents", "write")

format_hfs_volume(size) ==
    LET p == calculate_volume_parameters(size)
    IN  <<write_boot_blocks, write_master_directory_block(2, p), write_volume_bitmap(p),
          initialize_catalog_file(p), initialize_extents_file(p),
          write_master_directory_block(size - 2, p)>>

(* mkfs.hfs+.  Blocks are larger beyond 1 GB; nodes have 8 sectors.        *)
calculate_hfsplus_volume_parameters(size) ==
    LET bs      == IF size > 2097152 THEN 8 ELSE 1
        total   == size \div bs
        catalog == IF total > 10000 THEN total \div 2500 ELSE 4
    IN  [bs |-> bs, total |-> total, vbm |-> Ceil(total, 4096 * bs), catalog |-> catalog,
         free |-> total - Ceil(total, 4096 * bs) - catalog - 5]

Nodes(blocks, p) == (blocks * p.bs) \div 8

(* The node counts of a tree's header; one less than none is the largest.  *)
TreeHeader(at, kind, blocks, taken, p) ==
    Saying(at, 8, kind, "write", [AlBlSt |-> 0, nodes |-> Nodes(blocks, p),
                                  free |-> (Nodes(blocks, p) - taken) % Word])

write_hfsplus_volume_header(at, p) ==
    Saying(at, 1, "H+", "write",
           [AlBlSt |-> 0, total |-> p.total, lpa |-> p.bs, FreeBks |-> p.free])

write_hfsplus_allocation_bitmap(p) == Area(3, p.vbm * p.bs, "vbm", "write")

FreeNodes(at, n) == IF n > 0 THEN <<Area(at, 8 * n, "free nodes", "write")>> ELSE << >>

initialize_hfsplus_catalog_file(p) ==
    LET at    == 3 + p.vbm * p.bs
        nodes == Nodes(p.catalog, p)
    IN  <<TreeHeader(at, "H+cathdr", p.catalog, 2, p), Area(at + 8, 8, "catleaf", "write")>>
        \o FreeNodes(at + 16, nodes - 2)

initialize_hfsplus_extents_file(p) ==
    LET at    == 3 + (p.vbm + p.catalog) * p.bs
        nodes == Nodes(1, p)
    IN  <<TreeHeader(at, "H+exthdr", 1, 1, p)>>
        \o FreeNodes(at + 8, nodes - 1)

format_hfsplus_volume(size) ==
    LET p == calculate_hfsplus_volume_parameters(size)
    IN  <<write_boot_blocks, write_hfsplus_volume_header(2, p),
          write_hfsplus_allocation_bitmap(p)>>
        \o initialize_hfsplus_catalog_file(p) \o initialize_hfsplus_extents_file(p)
        \o <<write_hfsplus_volume_header(size - 2, p)>>

(* hformat -t hfs+: the header and its copy, two sectors into the last     *)
(* block.  The files it lists are not written.                             *)
hfsplus_get_optimal_block_size(size) ==
    CASE size < 131072 -> 1
      [] size \in 131072 .. 524287 -> 2
      [] size \in 524288 .. 2097151 -> 4
      [] OTHER -> 8

hfsplus_create_files(total, bs) ==
    LET alloc == Ceil(total, 4096 * bs)
    IN  [alloc   |-> [at |-> 1, n |-> alloc], extents |-> [at |-> 1 + alloc, n |-> 4],
         catalog |-> [at |-> 1 + alloc + 4, n |-> 8]]

hfsplus_write_volume_header(total, bs) ==
    LET vh == [AlBlSt |-> 0, total |-> total, lpa |-> bs,
               files |-> hfsplus_create_files(total, bs)]
    IN  <<Saying(2, 1, "H+", "write", vh),
          Saying((total - 1) * bs + 2, 1, "H+", "write", vh)>>

hfsplus_format_volume(size) ==
    LET bs == hfsplus_get_optimal_block_size(size)
    IN  hfsplus_write_volume_header(size \div bs, bs)

-----------------------------------------------------------------------------
(* What a run writes, where it goes, or why it goes no further.            *)
Volume(l) == NewVolume(v_geometry(hformat_partition(l)), "2048" \in l.mode, l.bads)

LibraryRefuses(l) ==
    LET place == v_geometry(hformat_partition(l))
    IN  place.len < 1600
        \/ ~CanSpare(Sparing(Geometry(place.at, place.len, "2048" \in l.mode), l.bads),
                     place.len, l.bads)

Refused(l) ==
    CASE l.tool = "hfs_format" -> LibraryRefuses(l)
      [] l.tool = "hformat"    -> hformat_refuses(l) \/ LibraryRefuses(l)
      [] l.tool = "hformat+"   -> hformat_refuses(l) \/ (~l.force /\ hfs_read_volume_info)
      [] l.tool \in {"mkfs.hfs", "mkfs.hfs+"} -> ~validate_device(l)

Plan(l) ==
    CASE l.tool \in HFS_CACHED ->
             LET writes == FormatWrites(Volume(l), l.bads)
             IN  b_writelb(Volume(l),
                           IF "nocache" \in l.mode THEN writes ELSE b_flush(writes))
      [] l.tool = "hformat+"  -> hfsplus_format_volume(length)
      [] l.tool = "mkfs.hfs"  -> format_hfs_volume(length)
      [] l.tool = "mkfs.hfs+" -> format_hfsplus_volume(length)

Running == job.exit = "running"

Begin(l) ==
    /\ ~Running
    /\ runs < disk.runs
    /\ runs' = runs + 1
    /\ job' = IF Refused(l)
              THEN [Idle EXCEPT !.tool = l.tool, !.exit = "refused"]
              ELSE [tool |-> l.tool, exit |-> "running", plan |-> Plan(l), todo |-> Plan(l),
                    lost |-> FALSE, line |-> l, place |-> v_geometry(hformat_partition(l)),
                    vol |-> IF l.tool \in HFS_CACHED THEN Volume(l) ELSE Nothing]
    /\ UNCHANGED <<disk, length, landed>>

Land(w) ==
    /\ landed' = Append(landed, w @@ [run |-> runs])
    /\ length' = Max({length, w.at + w.len})

Write ==
    /\ Running
    /\ job.todo # << >>
    /\ disk.file \/ Head(job.todo).at + Head(job.todo).len <= length
    /\ Land(Head(job.todo))
    /\ job' = [job EXCEPT !.todo = Tail(@)]
    /\ UNCHANGED <<disk, runs>>

(* A write that fails, perhaps after a part of it.  mkfs and hformat+ stop.*)
(* The cache goes on with the blocks it has left.  Without it hfs_format   *)
(* still closes the volume, if it was about to make the root directory or  *)
(* had made it.                                                            *)
AfterFailure ==
    LET w == Head(job.todo)
        closing(v) == v.phase = "close"
    IN  IF job.tool \in HFS_CACHED /\ "nocache" \notin job.line.mode THEN Tail(job.todo)
        ELSE IF w.phase = "root" THEN SelectSeq(Tail(job.todo), closing)
        ELSE << >>

WriteFails ==
    /\ Running
    /\ job.todo # << >>
    /\ ~job.lost                 \* bound: one failing write in a run
    /\ \/ UNCHANGED <<landed, length>>
       \/ /\ Head(job.todo).len > 1
          /\ Land([Head(job.todo) EXCEPT !.len = @ \div 2])
    /\ job' = [job EXCEPT !.lost = TRUE, !.todo = AfterFailure]
    /\ UNCHANGED <<disk, runs>>

(* A node of a tree of the volume at place, as it is on the medium; the    *)
(* node that comes after another in the map, if there is one.              *)
NodeAt(place, geo, file, k) == At(place.at + NodePlace(geo, file, k))

NextIn(node) == IF node.kind \in {"exthdr", "cathdr", "map"} THEN node.says.next ELSE 0

MapChain(place, geo, file) ==
    LET chain[k \in 0 .. MapNodes(TreeNodes(geo, file))] ==
            IF k = 0 THEN NextIn(NodeAt(place, geo, file, 0))
            ELSE IF chain[k - 1] = 0 THEN 0
            ELSE NextIn(NodeAt(place, geo, file, chain[k - 1]))
    IN  {chain[k] : k \in DOMAIN chain} \ {0}

bt_readhdr(place, geo, file, kind) ==
    /\ NodeAt(place, geo, file, 0).kind = kind
    /\ \A k \in MapChain(place, geo, file) : NodeAt(place, geo, file, k).kind = "map"

(* v_mount: the header, a bitmap that ends before the data, the headers    *)
(* and maps of the trees.                                                  *)
v_mount(place) ==
    LET mdb  == At(place.at + 2)
        says == mdb.says
    IN  /\ mdb.kind = "mdb"
        /\ says.AlBlSt - 3 >= Ceil(says.NmAlBlks, 4096)
        /\ bt_readhdr(place, says, says.ext, "exthdr")
        /\ bt_readhdr(place, says, says.cat, "cathdr")

(* hformat mounts the volume to record it.  mkfs asks the medium to write  *)
(* what it holds; that it verifies afterwards changes nothing.             *)
Finish ==
    /\ Running
    /\ job.todo = << >>
    /\ LET fails == job.lost \/ (job.tool = "hformat" /\ ~v_mount(job.vol))
       IN  job' = [job EXCEPT !.exit = IF fails THEN "error" ELSE "ok"]
    /\ UNCHANGED <<disk, length, landed, runs>>

SyncFails ==
    /\ Running
    /\ job.todo = << >>
    /\ job.tool \in {"mkfs.hfs", "mkfs.hfs+"}
    /\ job' = [job EXCEPT !.exit = "error"]
    /\ UNCHANGED <<disk, length, landed, runs>>

Killed ==
    /\ Running
    /\ job' = [job EXCEPT !.exit = "killed"]
    /\ UNCHANGED <<disk, length, landed, runs>>

Next == \/ \E l \in Lines : Begin(l)
        \/ Write
        \/ WriteFails
        \/ Finish
        \/ SyncFails
        \/ Killed

Spec == Init /\ [][Next]_vars

-----------------------------------------------------------------------------
(* A volume that hfs_format made, over whatever was there, mounts; hformat *)
(* says so.  Its areas lie apart and inside it, the map of each tree that  *)
(* the mount reads covers all its nodes, the root that each tree's header  *)
(* names is a leaf and none of the map's nodes, the bitmap has a bit for   *)
(* every block, and without bad blocks the free blocks are those outside   *)
(* the trees.                                                              *)
Made == job.tool \in HFS_CACHED /\ job.todo = << >> /\ ~job.lost /\ job.plan # << >>

Sectors(vol, file) == [at |-> NodePlace(vol.geo, file, 0), len |-> file.n * vol.geo.lpa]

MountsBack ==
    Made =>
        LET vol   == job.vol
            areas == <<[at |-> 0, len |-> 2], [at |-> 2, len |-> 1],
                       [at |-> 3, len |-> vol.geo.vbmsz], Sectors(vol, vol.ext),
                       Sectors(vol, vol.cat), [at |-> vol.len - 2, len |-> 1]>>
        IN  /\ job.exit \in {"running", "ok", "killed"}
            /\ v_mount(vol)
            /\ \A i, k \in DOMAIN areas : i < k => ~Overlap(areas[i], areas[k])
            /\ NodePlace(vol.geo, [at |-> vol.geo.NmAlBlks], 0) <= vol.len - 2
            /\ 4096 * vol.geo.vbmsz >= vol.geo.NmAlBlks
            /\ At(vol.at + 2).says = At(vol.at + vol.len - 2).says
            /\ \A tree \in {<<vol.ext, "extleaf">>, <<vol.cat, "catleaf">>} :
                  LET node(k) == NodeAt(vol, vol.geo, tree[1], k)
                      root    == node(0).says.root
                  IN  /\ 2048 + 3936 * Cardinality(MapChain(vol, vol.geo, tree[1]))
                             >= TreeNodes(vol.geo, tree[1])
                      /\ root = 0 <=> tree[1] = vol.ext /\ job.line.bads = << >>
                      /\ root # 0 => node(root).kind = tree[2]
            /\ \A s \in {2, vol.len - 2} : At(vol.at + s).run = runs
            /\ vol.ext.n > 1 /\ vol.cat.n > 1
            /\ (job.line.bads = << >> =>
                    vol.FreeBks = vol.geo.NmAlBlks - vol.ext.n - vol.cat.n)

(* No area that hfs_format writes, and no block of a tree, has a bad       *)
(* sector in it; the file of bad blocks has each of their blocks once, and *)
(* its records follow each other.                                          *)
SparesBadBlocks ==
    Made =>
        LET vol  == job.vol
            geo  == vol.geo
            recs == vol.bads
            bad  == {a \in ToSet(BadBlocks(geo, job.line.bads)) : a < geo.NmAlBlks}
            exts == {<<k, i>> : k \in DOMAIN recs, i \in 1 .. 3}
            has(x, a) == /\ x[2] \in DOMAIN recs[x[1]].ext
                         /\ InExtents({recs[x[1]].ext[x[2]]}, a)
        IN  /\ \A b \in ToSet(job.line.bads) :
                   \A w \in ToSet(job.plan) : ~Overlap(w, [at |-> vol.at + b, len |-> 1])
            /\ \A a \in bad : /\ ~InExtents({vol.ext, vol.cat}, a)
                               /\ InExtents(vol.used, a)
                               /\ Cardinality({x \in exts : has(x, a)}) = 1
            /\ FoldLeft(LAMBDA t, r : t + Blocks(r), 0, recs) = Cardinality(bad)
            /\ \A k \in 2 .. Len(recs) :
                   recs[k].fabn = recs[k - 1].fabn + Blocks(recs[k - 1])

(* hformat and hfs_format write nothing outside the partition they were    *)
(* given.                                                                  *)
Inside(w, place) == place.at <= w.at /\ w.at + w.len <= place.at + place.len

KeepsToItsPartition ==
    [][(landed' # landed /\ job.tool \in HFS_CACHED)
           => Inside(Last(landed'), job.place)]_vars

(* When a formatter ends with success, everything it wrote is still there: *)
(* no area was written over by a later one, though each works out its      *)
(* place on its own.  (mkfs.hfs+: from the size on where the catalog has   *)
(* two nodes.)                                                             *)
SuccessIsWhole ==
    job.exit = "ok" /\ (job.tool = "mkfs.hfs+" =>
                           Nodes(calculate_hfsplus_volume_parameters(disk.size).catalog,
                                 calculate_hfsplus_volume_parameters(disk.size)) >= 2) =>
        \A w \in ToSet(Lasting(job.plan)) :
            \E i \in DOMAIN landed :
                /\ landed[i] = w @@ [run |-> runs]
                /\ \A k \in i + 1 .. Len(landed) : ~Overlap(landed[k], w)

(* mkfs_hfs_main.c, usage: "-f /dev/sdb 1  # Force format partition 1".    *)
OthersKeepToPartition ==
    [][(/\ landed' # landed
        /\ job.tool \in {"mkfs.hfs", "mkfs.hfs+"}
        /\ job.line.part \in DOMAIN disk.map)
           => Inside(Last(landed'), disk.map[job.line.part])]_vars
=============================================================================
