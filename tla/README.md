# Verification of hfsutils

TLA+ models of the parts of hfsutils in which a wrong step costs a user data, checked by TLC on small
instances, with theorems checked by TLAPS for every value of the constants. Paths are relative to the
repository (`src/` here is the repository root, so `src/libhfs/block.c` is `libhfs/block.c`). Definitions
carry the names of the functions and fields they model; `PROJECT.json` maps each of them to its lines.

To run: `tlc -config X.cfg MCX.tla` for a run, `tlapm XProofs.tla` for the proofs of a module.

## The system

hfsutils reads, writes, makes and checks HFS and HFS+ volumes. Nearly all state lives on the volume;
`libhfs` holds a part of it in memory between mount and unmount. There is no concurrency inside a
process. What is hard is what lies between the memory and the medium: a cache that delays and reorders
writes, structures that describe each other (bitmap, counters, two B*-trees, extents), operations of
many steps that can fail or die after any of them, and handles that keep copies of records. Between
processes there is one shared file without a lock, `~/.hcwd`, and media that are exchanged.

| component | state | operations | what makes it correct |
| --- | --- | --- | --- |
| block cache, `libhfs/block.c` | ring and hash table of buckets, dirty bits, use counts | `b_init`, `b_readlb`, `b_writelb`, `b_readpb`, `b_writepb`, `b_flush`, `b_finish` | callers see an array of blocks; a dirty block is never dropped; a block has one bucket |
| B*-trees, `btree.c`, `node.c` | header (root, depth, first and last leaf, counts), map, nodes | `bt_search`, `bt_insert`, `bt_delete`, `bt_space`, `split`, `join` | a set of records in key order; search and leaf chain agree; no node leaked or shared |
| volume, `volume.c` | MDB, bitmap, flags of what is newer in memory, UMOUNTED bit | `v_mount`, `v_dirty`, `v_flush`, `v_close`, `v_scavenge`, `v_allocblocks`, `v_freeblocks` | marked in use before it changes; UMOUNTED only on a whole volume; the bitmap covers all extents |
| files, `file.c` | open handles: a copy of the catalog record, the extents record last looked at | `f_doblock`, `f_alloc`, `f_addextent`, `f_trunc`, `f_flush` | a block belongs to one fork; every position of a file leads to its block; blocks are given back |
| calls, `hfs.c` | list of mounts with references, open files and directories, catalog position | `hfs_mount` ... `hfs_umount`, `hfs_create`, `hfs_delete`, `hfs_rename`, `hfs_readdir` ... | the catalog stays a tree: threads, valences and parents agree |
| records, `record.c`, `data.c`, `low.c` | none | packing and unpacking | what is packed is unpacked |
| partition map, `medium.c` | the map's entries | `m_zeropm`, `m_findpmentry`, `m_mkpart` | partitions do not overlap; entries agree on the map's size |
| `~/.hcwd`, `src/common/hcwd.c` | list of known volumes and the current one | `hcwd_init`, `hcwd_mounted`, `hcwd_umounted`, `hcwd_setvol`, `hcwd_setcwd`, `hcwd_finish` | a volume is listed once; the current entry leads to the volume of that name |
| commands, `src/hfsutil/` | what a process has mounted and read | `hmount`, `humount`, `hvol`, `hpwd`, `hcd`, `hls`, `hmkdir`, `hrmdir`, `hdel`, `hrename`, `hcopy`, `hattrib`, `hformat` | a command works on the volume that the list names, and leaves the way back in the list |
| checkers, `hfsck/`, `src/fsck/`, `src/embedded/fsck/` | copy of the directory block, findings | options, open, phases, questions, close | `-n` writes nothing; exit code 0 means sound; a repaired volume needs no repair |
| formatters, `libhfs/hfs.c`, `src/mkfs/`, `src/common/hfsplus_format.c` | plan of areas | refuse, lay out, write | areas do not overlap and fit into the partition; the result can be mounted |
| copies, `src/common/copyin.c`, `copyout.c`, `src/binhex/` | two open files, buffers, coder and decoder | `hcopy` in four modes both ways | success means the whole file; decoding undoes coding |
| `src/fsck/journal.c`, `hfsck/journal.c` | HFS+ journal header and its circular buffer | `journal_is_valid`, `journal_replay`, `journal_disable` | replay applies committed transactions in order, and may be repeated |
| globbing, mount wrappers, `librsrc/`, `linux/`, containers | options, arguments | | not modelled: see the end |

How they interact: `hfs.c` calls `volume.c` and `file.c`; both read and change the trees and the
directory block through `btree.c` and `b_writeab`, which calls `v_dirty` before a write; everything
reaches the medium through `block.c`. `v_allocblocks` serves `f_alloc`, also for the trees, which are
files: `bt_space` grows them. Every command of `src/hfsutil` reads the list of volumes in `~/.hcwd`, mounts
the current one, works, unmounts and writes the list for the next. `hfsck` uses `libhfs`; `fsck.hfs` and
`mkfs.hfs` are linked with simplified functions of the same names (`src/embedded/shared/`).

## Modules

| module | models | abstract specification |
| --- | --- | --- |
| `BlockCache` | `block.c`: the ring, hash lists, hits, misses, read-ahead, eviction, runs of several blocks, failing I/O, death of the process | `BlockStore`: an array of blocks of which the medium lags behind |
| `BTree` | `btree.c` and `node.c`: search, insertion with splits up to a new root, deletion with joins, map and header, `bt_space` | `RecordSet`: a set of records |
| `Volume` | `volume.c` between mount and unmount: the UMOUNTED bit, flags, order of writes with and without cache, crash, scavenging | |
| `FirstFit` | which blocks `v_allocblocks` reserves, without its loop | |
| `Allocation` | the loop of `v_allocblocks` | `FirstFit!Reserve` |
| `Files` | `file.c`, the bitmap part of `volume.c`, and the file calls of `hfs.c`, with crash and scavenging | `FileSpace`: forks that own blocks |
| `Catalog` | path resolution, directories, threads, counts and numbers: the calls of `hfs.c` that take path names, with calls cut short, crash and scavenging | `Hierarchy`: a tree of names |
| `Commands` | the commands of `src/hfsutil` and the list in `~/.hcwd`, two processes at a time, media that are exchanged | |
| `Checks` | `hfsck` and `fsck.hfs`: options, phases, questions, repairs, exit codes | |
| `Format` | `hfs_format`, `hformat`, `hformat -t hfs+`, `mkfs.hfs`, `mkfs.hfs+`: what is refused, where each area goes | |
| `Copies` | `hcopy`: MacBinary, BinHex, text and raw copies both ways, their checksums and buffers | |
| `VolumeProofs`, `AllocationProofs`, `FileSpaceProofs`, `HierarchyProofs`, `CatalogProofs`, `CommandsProofs`, `ChecksProofs` | theorems | |
| `Extremes` | lemmas: least and greatest members of sets of numbers | |

`MC*` modules and `.cfg` files give the constants small values; they add views and symmetry and define
nothing that models code.

The modules are layers and each replaces what is below it by what the abstract specification of the
layer promises: `Volume` and `Files` know blocks and trees as `BlockStore` and `RecordSet` describe them,
`Catalog` knows the tree as `RecordSet` does, `Files` uses `FirstFit!Reserve` for `v_allocblocks`, which
`Allocation` shows to be what the loop does. The modules of the tools stand above the library: for
`Commands` a volume is a set of paths, as `Hierarchy` describes it, for `Copies` a file is two forks, for
`Checks` a volume is what the checkers ask of its headers; `Format` makes the volume from its first sector.

### BlockCache

The pointers `cnext`, `cprev`, `tail` and the hash lists are modelled as the code assigns them, because
whether they still form a ring is the question. A call is one action: the library is sequential. A call
chooses the set of blocks whose physical I/O fails while it runs; a transfer of several blocks
(`dobuckets`) stops at the first of them, after those before it. `Crash` may come between any two calls
and leaves the medium as it is; the blocks that a flush cut short has stored are those of a failing
flush. Left out: `b_size`, and the zero padding of the chain sort (the chains come out sorted).

### BTree

A node is its descriptor and its records, a record a key and a child. All records have one size, as in
the extents file; then the byte arithmetic of `split` amounts to counts. `f_alloc` adds any number of nodes
up to `Chunk`, as it takes the longest run of free blocks when that is shorter than a clump, or fails; and
`bt_space` does not look at whether that was enough (`Space`). Beyond `MapFirst` nodes, map nodes are taken
from the tree's own (`MapNode`); their links are in `Format`. Each call (with the `bt_space` its callers
precede an insertion with) is an action. An insertion that runs out of nodes half way leaves what its code
leaves, and `ok` is false from then on. Left out: I/O errors inside an operation, records of various sizes,
the keys' contents and the catalog's padding of index keys.

### Volume

Blocks are numbers. Of contents the module knows which blocks are newer in memory (`update`, headers
flagged) or in the cache (`dirty`) than on the medium, and what the three copies of the UMOUNTED bit say
(memory, cache, medium). `flushvol` and `b_flush` take one step per block, so a crash and a failing write
come between any two; `b_flush` goes in ascending order, `flushvol` in the order extents header, catalog
header, bitmap, directory block. `mixed` says that the medium has some but not all of the changes;
`torn` that it still has when the volume is no longer mounted, until it is scavenged.

### FirstFit and Allocation

A bitmap is the set of set bits, with one bit of padding behind the last block, which the code reads
when `drAllocPtr` has come to the end. `Allocation` makes the loop step by step: backtracking, skipping,
counting, wrapping.

### Files

A fork is a list of descriptors: `per` of them in the catalog record, further ones in records of the
extents tree keyed by the number of blocks before them. A handle has a copy of its catalog record, the
extents record it looked at last (`cur`) and where that begins (`fabn`). Every call of `hfs.c` is an
action, composed of the functions of `file.c` in the order of the code; a call that fails half way
leaves what its code leaves. `hfs_write` goes over its logical blocks (`Chunk`), each with an `f_alloc` of its
own when the fork has no room, and may fail after some of them have been allocated and written. `Crash` forgets handles and keeps catalog and extents tree, then scavenges.

### Catalog

`cat` has the records of files and directories by parent and name, `thr` the threads by number, `mdb` and
`disk` the directory block in memory and on the medium. A name is a pair of letters and case; keys have
the letters alone. `v_resolve` is a recursive function over the steps of a path; what it leaves in parent
and name when a path leads nowhere is modelled too, because callers look at it (`Read`: a buffer that was
not written).

A call works on a record `w` of what it changes, one change to the tree after the other in the order of
the code. A call may be cut short after any number of them (`Cuts`): an I/O error, a full tree, or, with
`Crash` after it, a process that dies in the midst. `hit` tells such an error from one that the catalog
itself causes, as a record that is missing or there already. `Crash` brings back the directory block of
the medium and does what `v_scavenge` does to it; the tree is written through.

A run explores several scopes, chosen by `Init`: which paths calls are given, how many numbers, calls cut
short, crashes and open files there are, and whether another system has put in a file with a thread.

### Commands

`media` has the volumes on each medium by partition number, `locks` the `fcntl` locks of `os_open`, `file`
what is in `~/.hcwd`. A process takes a step for each thing that others can see: it reads the list
(`Begin`), counts partitions (`hmount_main`, `hformat_main`), formats (`do_format`), mounts (`hfsutil_remount`,
`Introduce`), works and has the change on the medium (`Work`), unmounts (`hfsutil_unmount`), truncates the list
(`Empties`) and writes it (`Writes`). `Replace` exchanges a medium that nobody has open. `unclean` has the
volumes that were not unmounted properly: `hfsutil_remount` mounts what it finds before it compares names, so a
volume of another name (`WrongVolume`) is locked, scavenged and marked as unmounted when it is put away again.
`hfs_nparts` finds no partitions while another process writes on the medium. The operations of the library appear by their outcome on a set
of paths, with the order of operands and the first failures as the code has them: `DoOperand` is what a
command does with one operand, `Each` its loop. Two paths may lead to one medium (`hfsutil_samepath`
compares device and inode). What a volume is (`IsVolume`: its root directory begins every path) and what
operands a command line may have (`CommandLines`) are assumptions on the constants, for any set of names.

### Checks

A volume is what the questions ask: dates are unset, past, present or future; `trees` are those whose
headers can be read; `raw` is what the bytes of the directory block say when they are taken for a C
structure, which the functions do that `fsck.hfs` is linked with. A check takes one step per phase and
may be killed between them. `ask` gives each question any answer unless `-y`, `-n` or `-a` settles it.
`settled` has the volumes (by partition) that a thorough repair has left, for `RepairSettles`: no later
check, whatever its options and answers, changes such a volume again. `ChecksAssumption` says what a medium
is: a volume alone, or volumes in partitions from 1 on, whose directory blocks are `Headers` in the fields
that the questions look at. What a directory block is taken for by `fsck.hfs` is not restricted.

### Format

Places and lengths are in sectors; a formatter works out a `plan`, a sequence of areas with a kind and
with the places that the area names, and writes it one by one; a write may fail and the formatter may
be killed. `landed` has the writes that reached the medium, so that a sector holds what the last of them
says, and a second formatting starts from it. The arithmetic of each formatter is translated with its
width (16-bit block counts, sizes of allocation blocks, clumps, the bitmap); for `hfs_format` the records of
the bad blocks are made extent by extent. A tree of more than 2048 nodes has map nodes between its header and
its first leaf: `bt_space` makes and links them one by one, `bt_writehdr` writes them again with the header,
and `v_mount` follows their links (`MapChain`). Without a cache every one of these writes is a step; with it,
one per place, in ascending order, when the cache is flushed (`Lasting`, `b_flush`).

### Copies

Forks and UNIX files are sequences of bytes, BinHex streams sequences of 6-bit codes with marks. A buffer
read and written is a step; any of them may fail. The checksums are those of `crc.c`, computed from the
table it computes; the run lengths, the repeated mark, the lines, and the decoder's refusals are
translated as they are. A header is six bytes instead of 128, a buffer two blocks instead of four: what
matters is that files are shorter than, equal to and longer than both.

## Runs

| run | shows | bounds, and why they suffice |
| --- | --- | --- |
| `cache` | `BlockCache` implements `BlockStore`; hash table and ring stay sound; clean means stored | 4 buckets, 2 hash lists, read-ahead of 2 of 4, 5 blocks: every block number competes, both hash lists have collisions, eviction in the midst of a read-ahead occurs. Blocks 1 and 2 are written and either may fail, so a store of two adjacent dirty blocks fails at its first or at its second one, and a transfer at its first and middle blocks. At most one bucket has a use count above one (`MaxHot`): beyond it is the next run |
| `cache_reads` | violation: `b_readlb` returns another block | as above without failures, all buckets may be hot |
| `btree` | `BTree` implements `RecordSet`; leaf chain, index and map are exact; an insertion runs out of nodes only after a short extension | 6 keys, leaves of 2, index nodes of 3: three levels, splits and joins at each. The file begins with 2 nodes, grows by 1 to 4 up to 11; from the seventh on there are map nodes, two in the end. The smallest key is inserted first and stays, as the root directory's does in a catalog |
| `volume` | in use before changed; success of flush and close is success; without a cache UMOUNTED means whole | a data block before and one after the tree headers, so that the ascending order meets each relative position; any write may fail, the process may die anywhere |
| `allocation` | the loop finds what `FirstFit` says, and ends | every bitmap, pointer and request of 6 blocks; the safety part is also proved for all sizes |
| `files` | forks own their blocks through everything; count, bitmap, positions and records agree | 5 blocks in four geometries: scattered single blocks with two files open, one descriptor per record with a crash, clumps of two allocation blocks of two logical blocks, two forks. A write is of one to three logical blocks, so it allocates up to three times and can fail at the second and third. Overflow records occur in all but the third, merges in the third, a full volume in all |
| `catalog` | `Catalog` implements `Hierarchy`; threads, counts, numbers, paths and handles agree with it | three scopes of paths of up to two steps and `::`: three files or directories of one case (a directory may go two below itself); two in both cases with a foreign file, an open file and a crash; two with a call cut short anywhere and a crash |
| `commands` | what a command changes, whatever runs beside it; what the list says afterwards | two processes, three commands of 25, one exchange of a medium; two media under three paths, one medium may have two partitions; of the disks one has a single volume that was not unmounted, one such a volume in its second partition. Three commands are the least with which a list has an entry, another command changes it, and a third is deceived |
| `checks` | `-n` only looks, a repair settles, exit 0 is earned | one volume of 32 with all dates, 8 damages alone, in a partition and in the second of two, 64 readings of the raw block; both programs, six combinations of options, four partition numbers, two checks in a row, killed anywhere |
| `format` | what each formatter leaves on the medium | twelve media: below and at the smallest size, a floppy, where 16-bit counts, the block size and the bitmap change (32 MB, 64 MB), where each tree has one map node (132 MB) and four (1 GB), a disk in use, maps with one and two partitions; 20 command lines; any two formattings in a row (one for 1 GB), any write fails, killed anywhere |
| `format_partition` | violation: `mkfs.hfs` with a partition number writes outside the partition | as above |
| `copies` | a success means the whole file; what is refused spares the old file | five files with forks of 0 to 13 bytes, with runs, marks and line ends, five UNIX files that no copy made; buffers of 12 bytes, MacBinary blocks of 6, lines of 7, runs up to 5; out, in, and a third copy; any read and write fails, copies out are killed |

A violation run checks one property that the repository states, and finds it false of the code; the
`findings` of `PROJECT.json` quote the statement. Eight more configurations show counterexamples; they stay
beside the runs because the bounds of the runs above follow from them:

| configuration, with its module | counterexample |
| --- | --- |
| `BTreeSmallest.cfg`, `MCBTree` | keys in any order: a record that was inserted is not found |
| `BTreeFull.cfg`, `MCBTree` | `f_alloc` brings fewer nodes than an insertion takes: a record that was inserted is not found |
| `BTreeEmptied.cfg`, `MCBTree` | index nodes of 2, keys in ascending order: the root is a free node |
| `VolumeClose.cfg`, `MCVolume` | with a cache, UMOUNTED reaches the medium before what it vouches for |
| `FilesShared.cfg`, `MCFiles` | a file is deleted while open: the free count exceeds the clear bits |
| `FilesCrash.cfg`, `MCFiles` | a crash before a record is flushed: blocks of a file are free afterwards |
| `CommandsForce.cfg`, `MCCommands` | `hformat` without `-f` takes a partitioned medium as a whole, because `hmount` has it locked while the partitions are counted |
| `ChecksForeign.cfg`, `MCChecks` | `hfsck` repairs an HFS+ volume as though it were a damaged HFS one, and writes over its header |

What the properties say, in the order of the hazards they are about:

- `IsBlockStore`, `Indexed`, `CleanIsDurable`, `ChainIsRing`: no write is lost in the cache, no block is
  cached twice, no bucket drops out of the ring, whichever transfers fail.
- `IsRecordSet`, `TreeIsExact`, `SpaceSuffices`: what was inserted is found by search and by listing until
  deleted, until an insertion runs out of nodes, and that happens only when `f_alloc` has just brought fewer
  than `bt_space` found missing, or the map took one of them. `TreeIsExact` is the conjunction of
  `SearchMatchesChain`, `LeavesInOrder`, `IndexIsExact` and the types.
- `InUseBeforeChanges`, `DirectMeansWhole`, `SyncIsDurable`, `CloseMarksClean`: the next mount scavenges
  whenever it must, and success of `hfs_flush` or `hfs_umount` means that the medium has everything.
- `ScanFindsFit`, `ScanEnds`: the bitmap scan.
- `IsFileSpace`, `FreeCountRight`, `NothingLeaks`, `FindsItsBlock`, `CatalogIsComplete`,
  `FailureReservesNothing`: blocks and their owners. The last one says that a call that fails has reserved
  nothing but what its file has got and has written full, in earlier chunks of the same call.
- `IsHierarchy`, `ThreadsMatch`, `CountsRight`, `PathsLead`, `RefusalChangesNothing`: what is renamed and
  moved stays in one tree, found by its path, and a directory that counts as empty is; `NumbersUnique`,
  `HandlesFindTheirs`: also when calls are cut short or the process dies.
- `ChangesOnlyItsVolume`: although the list is read long before the medium is written and somebody may
  change disks in between, a command changes directories and files of no other volume than the one the list
  names. A volume of another name that is there instead may be marked as unmounted, by a process that has it
  mounted for writing, if it was not; nothing else is done to it.
  `SuccessLeavesAWayBack`: the entry that a command leaves leads to that volume and a directory of it, also
  after `hrename` of the volume or of a directory above the current one.
  `AloneKeepsTheList`: commands that do not overlap keep each other's entries. (Two that
  overlap lose entries; the code has no lock for the list.)
- `LooksOnly`, `RepairSettles`, `GoodMeansReadable`: what a check may write, and what its verdict is worth.
- `MountsBack`: what `hfs_format` has written passes all tests of `v_mount`, its areas are disjoint and inside
  the volume, the maps of the trees are linked and cover them, their roots are leaves, bitmap and counts agree
  with the trees. `SparesBadBlocks`: no area has a bad sector, and the
  bad blocks are in the extents tree, each once. `KeepsToItsPartition`: nothing else on the medium is written.
  `SuccessIsWhole`: a formatter that reports success has not written over its own areas.
- `CopiedIsTheFile`, `ExitTellsTheTruth`: out and in again gives the file, or an error, also when the file in
  between was cut short. `RefusedSparesTheOld`: the file on the volume is not replaced by what has no header.

The types are stated within `Indexed`, `TreeIsExact`, `FreeCountRight` and `CountsRight`, which begin with
`TypeOK` of their module, and on their own in `volume`.

Faulty variants of definitions stand beside them, each a plausible slip in the code (a dropped flag, a
wrong key, a wrong order); `PROJECT.json` pairs each with the property that notices it.

Fairness is assumed once: `WF_vars(Next)` in `Allocation`, whose steps are the iterations of a loop of
sequential code. No other module claims that anything happens eventually: whether a program calls
`hfs_umount` is up to it. Deadlock is checked for the modules of the library, whose callers may always go
on. `Allocation` ends with its loop; `Commands`, `Checks`, `Format` and `Copies` end when the bound on the
number of commands, checks, formattings or copies is used up, after which no process is left.

## Proofs

`VolumeProofs`, for any block numbers with the directory block and bitmap before the rest
(`VolumeAssumption`, which the layout of a volume gives) and any set of data blocks. Three inductive
invariants, each containing the one before:

- `ErrorInv`, which holds although writes fail: what `flushvol` and `b_flush` have passed without an error
  is neither flagged nor dirty, and the copies of the bit agree unless the directory block is on its way.
  It gives `TypeCorrect`, `SyncDurable`, `CloseClean`. The properties are not inductive: a flush that
  succeeds says nothing about `dirty` unless one knows that `todo` had all of it when it began.
- `InUseInv` adds what holds until a write fails: nothing but the directory block is changed while memory
  says UMOUNTED, and the medium says so longer than memory only while `v_dirty` flushes. It gives `InUse`.
- `DirectInv` adds what holds without a cache. It gives `DirectIsWhole`.

`AllocationProofs`, for any size of volume: `ScanRight`, that the loop ends with `FirstFit!Reserve`. The
invariant `ScanInv` says that the start pointer and the scan's pointer never lie inside a run (else a run
would be counted in two parts), and that `found`, `foundat` are the best of the runs that begin in the
part of the circle passed so far. The three ways to stop (request satisfied, came round between two runs,
came round inside a run) have a lemma each, `GoesOn` is the step that continues. Existence of greatest
and least numbers comes from the well-foundedness of `<` (`NatHasLeast` in `Extremes`).

`FileSpaceProofs`, for any set of blocks and any set of forks: `FilesOwnTheirBlocks`, that forks share
no block, list none twice and have none of the trees', and that all are marked. `FileSpace` only says how
forks may grow, by several blocks in one call, and shrink; the theorem is what this amounts to, and the run `files` shows that `Files`
obeys it on small volumes.

`HierarchyProofs`, for any sets of numbers and names: `CatalogIsTree`, that until an I/O error no set of
entries is without a way out (`NoCycle`: each nonempty set that does not hold the root has one whose
parent is not in it), names are not taken twice in a directory, and parents are directories. A move keeps
this because the set of directories above the destination, which `hfs_rename` climbs, does not have what
is moved: a set that would be closed afterwards, without that set of directories, was closed before.

`CatalogProofs`, for any sets of names and of scopes (paths, bounds and foreign files), with calls cut
short, remounts and crashes. Its invariants are built upon each other:

- `Inv`: numbers and handles (`NumbersAreUnique`, `HandlesAreRight`). Neither property is inductive:
  uniqueness needs that every record lies at the key of its own parent and name and that all numbers are
  below `drNxtCNID`; that handles find their records needs uniqueness, and that a rename takes a number
  along. A remount needs that the MDB in memory may differ from the medium's in `drNxtCNID` only while its
  update flag is set. `Sound` says this of a call after each of its changes: a call that is cut short after
  any of them, by an I/O error or a full tree, is covered by the same lemmas (`InsertSound`, `DeleteSound`,
  `AdjSound`, ..., one per helper of the code). After a crash the number comes from the records (`LastNum`),
  which have a greatest one as all are below the number in use.
- `TreeInv` adds `Intact`, what holds until an I/O error: threads and records lead to each other, parents
  are directories, valences are numbers of entries, and no set of entries is closed under the way up.
  `Outcome` says what a step that damages nothing can be: one entry is `Grown`, is `Lost` or `Went`
  elsewhere, the number alone is used up (`Unchanged`), or the records rest (`Rests`). From it follow
  `ThreadsAgree`, `RefusalsChangeNothing`, and `CatalogIsHierarchy`, the refinement: each outcome is one
  action of `Hierarchy` or a stutter. The hard case is the directory that `hfs_rename` moves: the climb
  through the threads must have met every directory above the destination (`NotBelow`). `VolumeIsOneTree`
  puts this refinement and the argument of `HierarchyProofs` together.
- `CountInv` adds the ranges of all fields (`Fitting`, `Fit` for a call in progress, which hold after I/O
  errors as well) and the four totals of the MDB, as cardinalities (`Totalled`). It gives `CountsAreRight`.
  A valence is a 16-bit number, so this takes the assumption `ValencesFit`: the numbers a scope gives out
  are fewer than 65536. The code has no such limit, and a directory of more entries has a wrong count.

No induction over paths is needed: the proofs look only at where a path ends (`ResolvedFinds`).

`CommandsProofs`, for any media, paths, disks, names, command lines and numbers of processes: `WayBackHolds`,
`OnlyItsVolume`, `AloneKeeps`. The invariant `Inv` says

- of each process by itself (`Steady`) how its list differs from what it read: not at all until it has
  mounted, then by one new or chosen entry whose name is that of the volume (`AtMounted`), whose way back
  exists after the work (`AtWorked`), and at the end only by what its command may do (`Ended`);
- that a mounted volume is what its medium holds (`OnVolume`), because whoever has mounted has the medium
  locked, alone if for writing (`Locked`); the lock is what keeps another command, another path to the
  same medium and the exchange of disks out between the read of the list and the write of the volume;
- that a process which nobody has overlapped finds the file as it read it or as it emptied it (`Unseen`).

`OnlyItsVolume` has the exception of `ChangesOnlyItsVolume`: a process that finds a volume of another name
(`wrong`) unmounts it, which may mark it, under its own lock; its directories and files stay.

The lemmas follow the code: the functions of `hcwd.c` on lists, the calls of the library on a set of paths
(`Goes`: what stays a volume, with a root that names it), the loop over operands (`EachSteps`, by the least
operand that would go wrong), and then one lemma per step of a process. That `hrename` leaves a way back
needs that what is renamed takes the current directory along (`RelocateGoes`).

`ChecksProofs`, for any media, command lines and answers: `GoodIsReadable`, `LooksOnlyHolds`, `RepairLasts`.
Only the closing of `hfsck` changes the medium (`OnlyClosing`), so the invariant `Inv` says of `hfsck`
between its opening and its close (`InPhase`) that it may write only if it may repair, that its copy differs
from the volume's directory block only if `update` is set, that it has agreed to a change only if
something was wrong (`Questioned`), and that it has found nothing only where it has read the trees; of
`fsck.hfs` that it has found something when it reaches its last phase; and of a settled volume that it
is in order (`InOrder`: no question would be raised, and it is marked clean). That the last part is kept is
where the order of the questions counts: each date is set from one that was asked about before it, so no
answer raises an earlier question again (`SettledBefore`, `AskedThus`), and what `v_writemdb` then does to
the modification date raises none (`WrittenIs`).

Every inductive invariant was checked with TLC on the run of its module before it was proved.

Only model-checked: `BlockCache`, `BTree`, `Files` and their refinements; `Format` and `Copies` (the latter
uses `Bitwise` and a recursive operator, which the prover does not accept); `PathsLead` of `Catalog`, whose
reference definition `WayTo` is a function of two arguments, which the prover does not know; `ScanEnds`
(liveness is out of the prover's reach). The bounds above are the limits of what is known about them.

## Limits

- `cache` bounds the number of hot buckets because the code loses buckets beyond it (`cplace` can run past
  the bucket that it moves); with a ring that has lost enough of them a read returns a wrong block.
- `v_dirty` clears the bit in memory before its write; when that fails and the call is tried again, the
  volume is changed while the medium says UMOUNTED. Properties of `Volume` are stated until a write fails
  where they depend on this.
- `v_mount` scavenges, and so writes, before it looks at the software lock. `Mount` has this order.
- `bt_space` extends a tree once per call and does not look at how much it got. When that was too little, an
  insertion fails after some of its splits, and records are lost (`BTreeFull.cfg`); the properties of `BTree`
  are stated until then.
- A key below all others is inserted where no search finds it (`BTreeSmallest.cfg`). In `btree` the smallest key
  is there first and stays, so the case does not arise.
- In `Files` both trees are maps with room that are written through, no I/O fails, and the medium's bitmap
  at a crash is the one of the moment or the one of its format: states in between are not explored.
- Crashes in `files` are bounded by `Settled` and `Exact`, which cut most of the states away in which records on
  the medium disagree. Without `Exact` the counterexample of
  `FilesCrash.cfg` results.
  Without `Settled`, `hfs_setfork` may have given blocks back that the record on the medium still lists;
  after other files got them and a crash, two files have them.
- A file that is deleted while open is in `FilesShared.cfg` only. A second handle on one file is bounded out
  of `files` for the same reason: each flushes its own copy of the record.
- Names do not change in `Files`. In `Catalog` a file is not renamed or deleted while open (`IsOpen`): its
  handle could not be flushed, as `f_flush` looks for the name of its opening, or would be flushed over
  another file that got this name.
- In `Catalog` the current directory is not removed (`hfs_rmdir`): `hfs_rmdir` does not look at `vol->cwd`,
  and calls with relative paths then make, under a number that is no directory's, records that no path
  leads to. They report an error, but after they have changed the catalog.
- `LeadsOn`: `hfs_rename` is not given a destination that climbs beyond the root. For `:a:::` `v_resolve`
  fails with the parent and name of `:a` left in its results; `hfs_rename` to that path deletes the source
  and fails to insert it over `a`.
- `hfs_rename` does not call `bt_space`; with a full tree it loses the source. `Catalog` has this as a
  call cut short, after which its properties about the tree are not stated.
- `CountsHeld`: after an I/O error between a record and its count, moves can bring a 16-bit count below
  zero again and again; calls of `hfs_rename` stop at the first.
- The scavenging does not restore counts of the directory block, nor remove threads without a directory;
  `CountsRight` and `ThreadsMatch` are stated accordingly.

The commands:

- `hcopy -R` exits with 0 after failures: `copy_dir_recursive` returns 1 for them, `do_copyin` looks for -1.
- When one operand of `hrename` fails, the entry in the list is not brought up to date for those before
  it; `SuccessLeavesAWayBack` speaks of commands that succeed.
- `hfsutil_remount` mounts a volume before it compares its name: one that was not unmounted is scavenged, and
  marked as unmounted, whatever its name is.
- `hfs_nparts` returns -1 for a medium that is locked, as for one without a map. `hformat` then takes the
  whole medium and erases the partitions without `-f`, which its manual page asks for (`CommandsForce.cfg`).
- That a volume is marked as in use while a command is at work on it is left out: its lock hides it and no
  command is killed. The moment in which `hfs_nparts` has the medium open is part of the step that counts, and
  volumes locked by software are left out.
- A remount whose current directory is gone goes on in the root directory, with a warning at most.
- Two commands at once overwrite each other's list, and one that dies between truncating and writing
  `~/.hcwd` loses all of it. No comment or document claims otherwise, so no property does.
- Lines of `~/.hcwd` beyond 511 bytes are left out: `hcwd_init` reads them in pieces and frees twice.

The checkers:

- `fsck.hfs` as it is linked finds fault with every volume, writes nothing and never exits with 0. It cannot
  be linked as long as `src/fsck/hfsplus_check.c` does not compile (an `else` without `if` at line 194), and
  `src/fsck/fsck_hfs_main.c` is in no Makefile; `Checks` says what the sources would do.
- `hfsck -n` does not open the medium and looks at a result that is not initialised. Whatever it is, the
  check ends with exit 8: at once, or since the volume's descriptor, 0, is standard input and no volume.
- `hfsck` looks at HFS+ journals only under the names `fsck.hfs` and `fsck.hfs+`, which are not installed for
  it; this part is left out.
- Faults that `ck_mdb` finds are not counted, so exit 0 says nothing of dates: `GoodMeansReadable` is about
  the trees. Exit 1 says that something was corrected, also where nothing was written.
- `hfsck` closes the volume as if it had been mounted, which marks an unclean volume as clean.
- The exit codes in the manual page of `fsck.hfs` (2, 4, 8) are not those of the code (4, 8, 16).
- `hfs_detect_filesystem_type` reads the start of the medium whatever the partition.

The formatters:

- `hfs_format` marks bad blocks in the bitmap and does not subtract them from `drFreeBks`: `MountsBack` compares
  the count on volumes without bad blocks only. `HFS_OPT_2048` aligns within the partition, which is no
  alignment on the medium unless the partition is aligned.
- `hfs_format` that fails after it made the root directory closes the volume as if all were well, and one that is
  killed may leave a new directory block over old trees. `Made` is therefore about a job that has written
  all of its plan.
- `mkfs.hfs`: the count of blocks is cut to 16 bits before it is compared with 65535, so 32 MB make 0 blocks;
  the header names other places for the trees than are written, and there are no trees in them: `libhfs`
  cannot mount the result. Volumes below 800 KB are not refused. `validate_device` does not see an HFS
  volume whose boot blocks are zero.
- `mkfs.hfs+`: on volumes below 20 MB the header of the extents tree is written over the catalog, and the count
  of free nodes wraps around; `SuccessIsWhole` begins above. `-s` is ignored; `-j` sets a bit and makes no journal.
- `hformat -t hfs+` writes the two volume headers and nothing they point to, ignores the partition, and for the
  smallest block sizes puts the second header beyond the end of the volume.
- The run `format_partition`: `mkfs.hfs` and `mkfs.hfs+` take a partition number and ignore it.
- `HFS_OPT_ZERO`, names and dates are left out.

Copies:

- A file of type TEXT with a resource fork is copied out as text in automatic mode, and loses the fork.
- `automode_unix` compares from before the start of a path that is shorter than the extension; the mode is
  therefore given in the model.
- A pipe as standard input may give short reads, which `do_macb` reports as an incomplete chunk; standard
  input is left out.
- The old file is deleted when the header has been accepted, before the data is read: a source that turns out
  to be cut short costs the old file. `RefusedSparesTheOld` is stated up to there.
- A process that dies while it copies in leaves what `Files` says.

## Plan

1. Proofs: `FreeCountRight` and the ownership invariant of `Files` from an invariant on descriptors, with
   `Reserve` returning unused blocks only; `KeepsToItsPartition` of `Format`; `CleanIsDurable` and `Indexed` of
   the cache, once its recursive operators (`CoolFrom`, `ReadAhead`, `PlaceAll`) are recursive functions.
2. The rest of the catalog: `hfs_readdir` over a leaf that changes between two calls (needs the layout of
   leaves), `hfs_setattr` while a handle is open, and the calls bounded out above.
3. `Mounts`: the list of mounts, references, current volume, open files and directories of a volume that
   is mounted twice.
4. `PartitionMap`: `m_mkpart` entry by entry with failures. `Journal`: replay over a circular buffer, dying
   between two blocks and repeated; abstract: the volume with all committed transactions applied.
   `src/fsck/journal.c` comes late since its only caller, `src/fsck/hfsplus_check.c`, does not compile, and
   nothing calls `hfsck/journal.c`.
5. Pure algorithms against reference definitions: `hfs_glob`, catalog key comparison, packing of records.

The modules are written to be proved about: constants with named assumptions, one action per call,
invariants as conjunctions of named parts.

Not modelled, and why: `libhfs/os/unix.c` beyond its locks (thin wrappers of system calls), `src/mount/` and
`src/embedded/mount` (option parsing and one call of mount(2)), `src/embedded/mkfs` (linked, never called),
`librsrc/`, `linux/` (a dump tool, a stub of a kernel module), `src/common/d*.c` (containers), `low.c` and
`record.c` (byte layouts), what `hls`, `hpwd` and `hvol` print, `hfsplus_check.c` and the journals (see the plan).
