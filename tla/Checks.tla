------------------------------- MODULE Checks -------------------------------
(***************************************************************************)
(* The checkers of HFS volumes: hfsck (hfsck/), which uses libhfs, and     *)
(* fsck.hfs (src/fsck, src/embedded/fsck), which is linked with simplified *)
(* functions under the names of the library's (src/embedded/shared).       *)
(*                                                                         *)
(* A checker reads its options, opens the medium and goes through its      *)
(* phases, asking before each repair.  Both work on a copy of the master   *)
(* directory block.  hfsck writes it when it closes the volume; the        *)
(* simplified functions take the bytes of the block for a C structure,     *)
(* find no tree and write nothing.  A check may be killed between phases.  *)
(*                                                                         *)
(* A header is known by what the questions ask: times are unset, past,     *)
(* present or future.  Journals (HFS+) are left out: hfsck looks at them   *)
(* only under names it is not installed under.                             *)
(***************************************************************************)
EXTENDS Integers, Sequences, SequencesExt, FiniteSets, FiniteSetsExt

CONSTANTS Media,        \* what may be on the medium: volumes by partition number
          RawHeaders,   \* what directory blocks may be taken for (src/embedded/shared)
          Lines,        \* command lines
          MaxRuns       \* bound: how many checks are begun

(* What the questions ask of a directory block, and what there is on a     *)
(* volume: its block, the bytes of it taken for the simplified structure,  *)
(* the trees whose headers can be read, and a size.                        *)
Signatures == {"HFS", "HFS+", "other"}
Headers == [type : Signatures, created : Int, modified : Int, start : Int, clean : BOOLEAN]
Volumes == [mdb : Headers, raw : RawHeaders, trees : SUBSET {"ext", "cat"},
            size : {"small", "medium", "large"}]

ASSUME ChecksAssumption ==
    /\ \A m \in Media : m \in [DOMAIN m -> Volumes] /\ IsFiniteSet(DOMAIN m)
    /\ \A m \in Media : DOMAIN m = {0} \/ DOMAIN m = 1 .. Cardinality(DOMAIN m)
    /\ MaxRuns \in Nat

VARIABLES medium,       \* the volumes by partition number, 0 alone if not partitioned
          writable,     \* the medium can be opened for writing
          run,          \* the check that is going on, or the last one
          settled,      \* the volumes that a thorough repair has left behind
          runs

vars == <<medium, writable, run, settled, runs>>

unset == 0
now   == 2          \* times are unset, past (1), now, or in the future (3)

FSCK_OK == 0
FSCK_CORRECTED == 1
FSCK_UNCORRECTED == 4
FSCK_OPERATIONAL_ERROR == 8
FSCK_USAGE_ERROR == 16

Idle == [pc |-> "idle"]

Init == /\ medium \in Media
        /\ writable \in BOOLEAN
        /\ run = Idle
        /\ settled = {}
        /\ runs = 0

-----------------------------------------------------------------------------
(* Options.  Repairing is the default.  fsck.hfs takes the letters in      *)
(* order; in hfsck -n wins wherever it stands.                             *)
Letter(opts, c) ==
    CASE c \in {"a", "y"} -> [opts EXCEPT !.repair = TRUE, !.yes = TRUE]
      [] c = "r" -> [opts EXCEPT !.repair = TRUE, !.yes = FALSE]
      [] c = "n" -> [opts EXCEPT !.repair = FALSE, !.readonly = TRUE]

fsck_parse_command_line(letters) ==
    FoldLeft(Letter, [repair |-> TRUE, yes |-> FALSE, readonly |-> FALSE], letters)

fsck_validate_options(opts) == ~(opts.readonly /\ opts.repair)

hfsck_options(letters) ==
    [repair |-> ~Contains(letters, "n"), yes |-> Contains(letters, "a") \/ Contains(letters, "y")]

(* The simplified functions know no partitions.                            *)
Nparts(prog) == IF prog = "fsck.hfs" \/ 0 \in DOMAIN medium THEN -1
                ELSE Cardinality(DOMAIN medium)

NoPart == -1
hfsck_partition(part) ==
    LET n == Nparts("hfsck")
    IN  IF part = NoPart THEN (IF n = -1 THEN 0 ELSE IF n = 1 THEN 1 ELSE NoPart)
        ELSE IF n = -1 THEN 0
        ELSE IF part \in 1 .. n THEN part ELSE NoPart

(* The signature is looked for at its place on the whole medium whatever   *)
(* the partition; on a partitioned medium a map entry is there.            *)
hfs_detect_filesystem_type == IF 0 \in DOMAIN medium THEN medium[0].mdb.type ELSE "unknown"

-----------------------------------------------------------------------------
(* The master directory block: what is asked of it.                        *)
Questions == {"signature", "created unset", "created later", "modified unset",
              "modified later", "modified first", "bitmap start"}

Wrong(m, q) ==
    CASE q = "signature"      -> m.type # "HFS"
      [] q = "created unset"  -> m.created = unset
      [] q = "created later"  -> m.created > now
      [] q = "modified unset" -> m.modified = unset
      [] q = "modified later" -> m.modified > now
      [] q = "modified first" -> m.modified < m.created
      [] q = "bitmap start"   -> m.start # 3

(* Faulty variant: a creation date in the future becomes the other date.   *)
MendFromOther(m, q) ==
    CASE q = "signature" -> [m EXCEPT !.type = "HFS"]
      [] q = "created unset" -> [m EXCEPT !.created = now]
      [] q = "created later" -> [m EXCEPT !.created = m.modified]
      [] q = "modified later" -> [m EXCEPT !.modified = now]
      [] q \in {"modified unset", "modified first"} -> [m EXCEPT !.modified = m.created]
      [] q = "bitmap start" -> [m EXCEPT !.start = 3]

Mend(m, q) ==
    CASE q = "signature" -> [m EXCEPT !.type = "HFS"]
      [] q \in {"created unset", "created later"} -> [m EXCEPT !.created = now]
      [] q = "modified later" -> [m EXCEPT !.modified = now]
      [] q \in {"modified unset", "modified first"} -> [m EXCEPT !.modified = m.created]
      [] q = "bitmap start" -> [m EXCEPT !.start = 3]

(* What the user may agree to, when asked: nothing without repair, and     *)
(* everything with -y.                                                     *)
ask(r) == IF ~r.repair THEN {{}} ELSE IF r.yes THEN {Questions} ELSE SUBSET Questions

Asked(r, agreed, q) ==
    IF Wrong(r.m, q) /\ q \in agreed THEN [r EXCEPT !.m = Mend(@, q), !.update = TRUE] ELSE r

Answered(r, agreed) ==
    LET a == Asked(r, agreed, "signature")
        b == Asked(a, agreed, "created unset")
        c == Asked(b, agreed, "created later")
        d == Asked(c, agreed, "modified unset")
        e == Asked(d, agreed, "modified later")
        f == Asked(e, agreed, "modified first")
    IN  Asked(f, agreed, "bitmap start")

-----------------------------------------------------------------------------
(* A check begins.  The medium is opened for writing if it may be repaired *)
(* and for reading if that fails, which ends all repairing; fsck.hfs opens *)
(* it for reading if it may not be repaired, hfsck does not open it at all.*)
EndWith(code) == run' = [run EXCEPT !.pc = "ended", !.exit = code]
                 /\ UNCHANGED <<medium, writable, settled, runs>>

Started(line, opts) ==
    [pc |-> "begun", prog |-> line.prog, repair |-> opts.repair, yes |-> opts.yes,
     part |-> line.part, mode |-> "closed", m |-> << >>, update |-> FALSE,
     found |-> FALSE, corrected |-> FALSE, exit |-> -1]

Refused(line) == [Started(line, [repair |-> FALSE, yes |-> FALSE])
                    EXCEPT !.pc = "ended", !.exit = FSCK_USAGE_ERROR]

Begin == /\ run.pc \in {"idle", "ended"} /\ runs < MaxRuns
         /\ runs' = runs + 1
         /\ \E line \in Lines :
                LET opts == fsck_parse_command_line(line.letters)
                IN  run' = IF line.prog = "hfsck"
                           THEN Started(line, hfsck_options(line.letters))
                           ELSE IF fsck_validate_options(opts) THEN Started(line, opts)
                           ELSE Refused(line)
         /\ UNCHANGED <<medium, writable, settled>>

(* Faulty variant: the medium is opened for writing whatever was asked.    *)
OpensAnyway(r) == IF writable THEN [r EXCEPT !.mode = "rw"]
                  ELSE [r EXCEPT !.mode = "ro", !.repair = FALSE]

Opened(r) == IF r.repair /\ writable THEN [r EXCEPT !.mode = "rw"]
             ELSE IF r.repair \/ r.prog = "fsck.hfs"
             THEN [r EXCEPT !.mode = "ro", !.repair = FALSE]
             ELSE r

(* Sizes: the library wants 800K, the simplified functions half of that.   *)
LargeEnough(prog, v) == v.size \in IF prog = "hfsck" THEN {"large"} ELSE {"large", "medium"}

Open == /\ run.pc = "begun"
        /\ LET part == IF run.prog = "hfsck" THEN hfsck_partition(run.part) ELSE 0
               r    == Opened(run)
           IN  IF run.prog = "fsck.hfs" /\ hfs_detect_filesystem_type # "HFS"
               THEN EndWith(FSCK_OPERATIONAL_ERROR)
               ELSE IF part = NoPart THEN EndWith(FSCK_USAGE_ERROR)
               ELSE IF r.mode = "closed" \/ ~LargeEnough(run.prog, medium[part])
               THEN EndWith(FSCK_OPERATIONAL_ERROR)
               ELSE /\ run' = [r EXCEPT !.part = part, !.pc = "header",
                                        !.m = IF r.prog = "hfsck" THEN medium[part].mdb
                                              ELSE medium[part].raw]
                    /\ UNCHANGED <<medium, writable, settled, runs>>

-----------------------------------------------------------------------------
(* hfsck: the header, whose faults are not counted, and then the headers   *)
(* of the two trees.                                                       *)
ck_mdb == /\ run.pc = "header" /\ run.prog = "hfsck"
          /\ \E agreed \in ask(run) : run' = [Answered(run, agreed) EXCEPT !.pc = "ext"]
          /\ UNCHANGED <<medium, writable, settled, runs>>

bt_readhdr(tree) == tree \in medium[run.part].trees

(* Faulty variant: the result of the last tree counts.                     *)
LastCounts(r, result, next) ==
    [r EXCEPT !.pc = next, !.found = ~result, !.corrected = ~result /\ r.repair]

(* A result that is not good means that something was found, and with      *)
(* repair that it was corrected.                                           *)
Counted(r, result, next) ==
    [r EXCEPT !.pc = next, !.found = @ \/ ~result, !.corrected = @ \/ (~result /\ r.repair)]

ck_btree(tree, next) ==
    /\ run.pc = tree /\ run.prog = "hfsck"
    /\ run' = Counted(run, bt_readhdr(tree), next)
    /\ UNCHANGED <<medium, writable, settled, runs>>

Code(r) == IF ~r.found THEN FSCK_OK
           ELSE IF r.corrected /\ r.repair THEN FSCK_CORRECTED ELSE FSCK_UNCORRECTED

(* The volume is closed as if it had been mounted: it is marked as cleanly *)
(* unmounted, and the header is written if anything in it has changed.     *)
v_writemdb(m) == [m EXCEPT !.modified = now, !.clean = TRUE]

Written(r) ==
    IF r.mode = "rw" /\ (r.update \/ ~r.m.clean)
    THEN [medium EXCEPT ![r.part].mdb = v_writemdb(r.m)] ELSE medium

v_close == /\ run.pc = "close" /\ run.prog = "hfsck"
           /\ medium' = Written(run)
           /\ settled' = IF run.repair /\ run.yes THEN settled \cup {run.part} ELSE settled
           /\ run' = [run EXCEPT !.pc = "ended", !.exit = Code(run)]
           /\ UNCHANGED <<writable, runs>>

-----------------------------------------------------------------------------
(* fsck.hfs: six phases over a header that is no header.                   *)
check_mdb_enhanced ==
    /\ run.pc = "header" /\ run.prog = "fsck.hfs"
    /\ \E agreed \in ask(run) :
           LET r == Answered(run, agreed)
           IN  IF ~r.m.sizes THEN EndWith(FSCK_UNCORRECTED)
               ELSE /\ run' = [r EXCEPT !.found = r.update, !.corrected = r.update,
                                        !.pc = "structure"]
                    /\ UNCHANGED <<medium, writable, settled, runs>>

(* Trees without a size are a critical error, which is found only; extents *)
(* beyond the volume are counted as corrected too.                         *)
check_file_extents(m) == m.extents

check_volume_structure_enhanced ==
    /\ run.pc = "structure"
    /\ run' = [Counted(run, check_file_extents(run.m), "bitmap") EXCEPT
                   !.found = @ \/ ~run.m.treesizes,
                   !.corrected = IF run.m.treesizes THEN @ ELSE run.corrected]
    /\ UNCHANGED <<medium, writable, settled, runs>>

(* The number of free blocks is compared with the bitmap, and set.         *)
verify_allocation_blocks(m) == m.counted

repair_allocation_bitmap(r) ==
    [r EXCEPT !.m.counted = TRUE, !.update = @ \/ ~r.m.counted]

check_allocation_bitmap ==
    /\ run.pc = "bitmap"
    /\ LET result == verify_allocation_blocks(run.m)
           r      == Counted(run, result, "trees")
       IN  run' = IF ~result /\ run.repair THEN repair_allocation_bitmap(r) ELSE r
    /\ UNCHANGED <<medium, writable, settled, runs>>

(* v_init has left the trees without a volume: the simplified bt_readhdr   *)
(* fails, a critical error that ends the phase.                            *)
check_btree_enhanced ==
    /\ run.pc = "trees"
    /\ run' = [run EXCEPT !.found = TRUE, !.pc = "catalog"]
    /\ UNCHANGED <<medium, writable, settled, runs>>

(* No record is found, so the counts are right if they are zero.           *)
validate_catalog_records(m) == m.empty

check_catalog_consistency ==
    /\ run.pc = "catalog"
    /\ run' = Counted(run, validate_catalog_records(run.m), "close")
    /\ UNCHANGED <<medium, writable, settled, runs>>

(* The simplified v_close forgets that there is something to write.        *)
ClosedUnwritten == run.pc = "close" /\ run.prog = "fsck.hfs" /\ EndWith(Code(run))

-----------------------------------------------------------------------------
Killed == /\ run.pc \notin {"idle", "ended"}
          /\ run' = Idle
          /\ UNCHANGED <<medium, writable, settled, runs>>

Next == \/ Begin \/ Open
        \/ ck_mdb \/ ck_btree("ext", "cat") \/ ck_btree("cat", "close") \/ v_close
        \/ check_mdb_enhanced \/ check_volume_structure_enhanced \/ check_allocation_bitmap
        \/ check_btree_enhanced \/ check_catalog_consistency \/ ClosedUnwritten
        \/ Killed

Spec == Init /\ [][Next]_vars

-----------------------------------------------------------------------------
(* A check that was asked to change nothing (-n), and one on a medium that *)
(* cannot be written, leave the medium as it is, though every volume is    *)
(* closed as if it had been mounted.                                       *)
LooksOnly == [][run.pc # "idle" /\ ~run.repair => medium' = medium]_<<medium>>

(* What a thorough repair (-a or -y) leaves behind is in order: no check   *)
(* after it, with whatever options and answers, changes that volume again, *)
(* whatever the dates were; dates that depend on each other are set in the *)
(* right order.                                                            *)
RepairSettles == [][\A p \in settled : medium'[p] = medium[p]]_<<medium>>

(* No error is reported (exit 0) only where both trees have headers that   *)
(* can be read, and only by hfsck: fsck.hfs finds fault with every volume. *)
FoundNone == run.pc = "ended" /\ run.exit = FSCK_OK

GoodMeansReadable ==
    FoundNone => run.prog = "hfsck" /\ {"ext", "cat"} \subseteq medium[run.part].trees

(* A check never changes what is not an HFS volume.  hfsck does: it takes  *)
(* the header of an HFS+ volume for a damaged HFS one.                     *)
OthersUntouched ==
    [][\A p \in DOMAIN medium : medium[p].mdb.type = "HFS+" => medium'[p] = medium[p]]_<<medium>>
=============================================================================
