------------------------------ MODULE Commands ------------------------------
(***************************************************************************)
(* The commands of hfsutils (src/hfsutil) and the list of known volumes    *)
(* that they keep in ~/.hcwd (src/common/hcwd.c).                          *)
(*                                                                         *)
(* A command is a process: it reads the list, mounts the volume that is    *)
(* current there "as though it were still mounted", does its work, and     *)
(* writes the list again.  Nothing locks the list.  A medium is locked     *)
(* while a process has it open.  Between any two of these steps another    *)
(* command may run, and somebody may replace a medium that is not in use.  *)
(*                                                                         *)
(* A volume is a set of directories and one of files, both as paths that   *)
(* begin with the name of the volume, and a mark that it was unmounted     *)
(* properly.  I/O errors, lack of space and commands that are killed are   *)
(* left out (modules Files, Catalog and Volume), and so are volumes that   *)
(* are locked by software and volumes whose directories have paths too     *)
(* long for a line of the list.                                            *)
(***************************************************************************)
EXTENDS Integers, Sequences, SequencesExt, FiniteSets, FiniteSetsExt

CONSTANTS Procs,
          Paths,        \* names of media in the host's file system
          MediumOf,     \* the medium that a path leads to
          Names,        \* names of volumes, directories and files
          Disks,        \* what a medium may be replaced by
          Commands,     \* command lines
          MaxCommands, MaxSwaps     \* bounds

Media == {MediumOf[p] : p \in Paths}

(* What a medium holds: volumes by partition number, number 0 alone on a   *)
(* medium without partitions.                                              *)
Nparts(disk) == IF 0 \in DOMAIN disk THEN -1 ELSE Cardinality(DOMAIN disk)

(* A disk has volumes, and some of them may not have been unmounted.       *)
ASSUME CommandsAssumption ==
    /\ MediumOf \in [Paths -> Media]
    /\ {MaxCommands, MaxSwaps} \subseteq Nat
    /\ \A d \in Disks : /\ \/ DOMAIN d.vols = {0}
                           \/ DOMAIN d.vols = 1 .. Cardinality(DOMAIN d.vols)
                        /\ d.unclean \subseteq DOMAIN d.vols

(* All paths of a volume begin with its name, which is its root directory. *)
IsVolume(v) ==
    /\ v \in [dirs : SUBSET Seq(Names), files : SUBSET Seq(Names)]
    /\ \E n \in Names : <<n>> \in v.dirs /\ \A x \in v.dirs : Len(x) > 0 /\ Head(x) = n
    /\ \A x \in v.files : Len(x) > 1

ASSUME DisksHaveVolumes ==
    \A d \in Disks : \A i \in DOMAIN d.vols : IsVolume(d.vols[i])

(* An absolute path begins with the name of a volume.                      *)
Operands == {a \in [rel : BOOLEAN, steps : Seq(Names)] : a.rel \/ a.steps # << >>}

HostEntries == [dir : BOOLEAN, path : Seq(Names) \ {<< >>}]

ASSUME CommandLines ==
    \A c \in Commands :
      /\ c.do \in {"hmount", "hformat"} => c.path \in Paths /\ c.part \in Int
      /\ c.do = "hformat" => c.label \in Names
      /\ c.do \in {"hmkdir", "hrmdir", "hdel", "hattrib", "hls", "hcopyout", "hrename", "hcd"}
            => c.args \in Seq(Operands)
      /\ c.do = "hcopyin" => c.args \in Seq(Names)
      /\ c.do = "hcopytree" => c.args \in Seq(HostEntries)
      /\ c.do \in {"hrename", "hcopyin", "hcopytree"} => c.dst \in Operands

VARIABLES media,        \* the volumes of each medium
          unclean,      \* the volumes without HFS_ATRB_UMOUNTED
          locks,        \* who has which medium open, and how
          file,         \* ~/.hcwd: the current entry, and the entries
          proc,         \* the processes
          begun, swaps

vars == <<media, unclean, locks, file, proc, begun, swaps>>

NoPart == -2
NoVol  == -1        \* counted from 0, as in the file

Empty == [cur |-> NoVol, ents |-> << >>]

Unclean(m, disk) == {<<m, i>> : i \in disk.unclean}

Idle   == [pc |-> "idle"]
NoWork == << >>

Init == /\ \E disk \in [Media -> Disks] :
              /\ media = [m \in Media |-> disk[m].vols]
              /\ unclean = UNION {Unclean(m, disk[m]) : m \in Media}
        /\ locks = {}
        /\ file = Empty
        /\ proc = [p \in Procs |-> Idle]
        /\ begun = 0 /\ swaps = 0

-----------------------------------------------------------------------------
(* The list, hcwd.c.  l is a list as the process has it in memory; dirty   *)
(* is set by the first entry (addent), so that any process that has seen   *)
(* an entry writes the list.                                               *)
addent(l, ent) == [l EXCEPT !.ents = Append(@, ent), !.dirty = TRUE]

hcwd_init == [cur   |-> IF file.cur \in 0 .. Len(file.ents) - 1 THEN file.cur ELSE NoVol,
              ents  |-> file.ents,
              dirty |-> file.ents # << >>]

Entry(vname, path, part, cwd) ==
    [vname |-> vname, path |-> path, part |-> part, cwd |-> cwd]

Listed(l, path, part) == {i \in DOMAIN l.ents : l.ents[i].path = path /\ l.ents[i].part = part}

hcwd_mounted(l, vname, path, part) ==
    LET same == Listed(l, path, part)
        new  == Entry(vname, path, part, << >>)
    IN  IF same = {} THEN [addent(l, new) EXCEPT !.cur = Len(l.ents)]
        ELSE [l EXCEPT !.ents[Min(same)] = new, !.cur = Min(same) - 1]

(* Faulty variant: the current entry is not counted anew.                  *)
UmountedInPlace(l, v) ==
    [l EXCEPT !.ents = RemoveAt(@, v + 1),
              !.cur  = IF @ = v THEN NoVol ELSE @]

hcwd_umounted(l, v) ==
    [l EXCEPT !.ents = RemoveAt(@, v + 1),
              !.cur  = IF @ > v THEN @ - 1 ELSE IF @ = v THEN NoVol ELSE @]

hcwd_setvol(l, v) == [l EXCEPT !.cur = v]

(* Faulty variant: the name of the volume is left as it was.               *)
SetDirOnly(l, full) == [l EXCEPT !.ents[l.cur + 1].cwd = Tail(full)]

(* A full path is the name of the volume and the rest.                     *)
hcwd_setcwd(l, full) ==
    [l EXCEPT !.ents[l.cur + 1].vname = Head(full), !.ents[l.cur + 1].cwd = Tail(full)]

(* The file is emptied at once; what is printed arrives when it is closed, *)
(* over what another process has put there in between.                     *)
Emptied(old) == Empty
Overlaid(old, l) ==
    [cur |-> l.cur, ents |-> l.ents \o SubSeq(old.ents, Len(l.ents) + 1, Len(old.ents))]

hasVol(l) == l.cur # NoVol
hcwd_getvol(l) == l.ents[l.cur + 1]

-----------------------------------------------------------------------------
(* Volumes.                                                                *)
NameOf(v) == Head(CHOOSE d \in v.dirs : Len(d) = 1)
RootOf(v) == <<NameOf(v)>>

Fresh(vname) == [dirs |-> {<<vname>>}, files |-> {}]

(* Relative paths start in the current directory.                          *)
Full(w, arg) == IF arg.rel THEN w.cwd \o arg.steps ELSE arg.steps

Within(d, path) == IsPrefix(d, path)

(* Everything below a directory goes with it, the current directory too.   *)
Moved(src, dst, path) ==
    IF Within(src, path) THEN dst \o SubSeq(path, Len(src) + 1, Len(path)) ELSE path

(* What a command does to the volume, operand by operand: w has volume,    *)
(* current directory and whether all went well.                            *)
Fail(w) == [w EXCEPT !.ok = FALSE]

hfs_mkdir(w, path) ==
    IF w.ro \/ path \in w.v.dirs \cup w.v.files \/ Front(path) \notin w.v.dirs THEN Fail(w)
    ELSE [w EXCEPT !.v.dirs = @ \cup {path}]

hfs_rmdir(w, path) ==
    IF \/ w.ro \/ path \notin w.v.dirs \/ Len(path) = 1
       \/ \E x \in w.v.dirs \cup w.v.files : Within(path, x) /\ x # path
    THEN Fail(w)
    ELSE [w EXCEPT !.v.dirs = @ \ {path}]

hfs_delete(w, path) ==
    IF w.ro \/ path \notin w.v.files THEN Fail(w)
    ELSE [w EXCEPT !.v.files = @ \ {path}]

(* A file is made anew in its directory (copyin.c).                        *)
CopyIn(w, path) ==
    IF w.ro \/ path \in w.v.dirs \/ Front(path) \notin w.v.dirs THEN Fail(w)
    ELSE [w EXCEPT !.v.files = @ \cup {path}]

(* hfs_stat or a read.                                                     *)
Look(w, path) == IF path \in w.v.dirs \cup w.v.files THEN w ELSE Fail(w)

(* hfs_setattr; attributes are not told apart.                             *)
SetAttr(w, path) == IF w.ro THEN Fail(w) ELSE Look(w, path)

Relocate(w, src, dst) ==
    LET M(path) == Moved(src, dst, path) IN
    [w EXCEPT !.v.dirs = {M(x) : x \in @}, !.v.files = {M(x) : x \in @}, !.cwd = M(@)]

(* Into a directory that exists, else to the new name; nothing moves to    *)
(* another volume, or into itself.                                         *)
hfs_rename(w, src, dst) ==
    LET all == w.v.dirs \cup w.v.files
        to  == IF dst \in w.v.dirs /\ dst # src THEN Append(dst, Last(src)) ELSE dst
        moving == Front(to) # Front(src)
    IN  IF src \notin all \/ (Len(to) > 1 /\ Front(to) \notin w.v.dirs) THEN Fail(w)
        ELSE IF to = src THEN w
        ELSE IF w.ro \/ to \in all THEN Fail(w)
        ELSE IF moving /\ (Len(to) = 1 \/ Len(src) = 1 \/ Within(src, Front(to)))
             THEN Fail(w)
        ELSE Relocate(w, src, to)

do_rename(c, u, a) == hfs_rename(u, Full(u, a), Full(u, c.dst))

(* A copied file has its own name in a directory, else the new one.        *)
Target(w, dst, name) == IF Full(w, dst) \in w.v.dirs THEN Append(Full(w, dst), name)
                        ELSE Full(w, dst)

do_copyin(c, u, name) == CopyIn(u, Target(u, c.dst, name))

(* Directories are refused one by one.                                     *)
do_copyout(u, path) == IF path \in u.v.dirs THEN Fail(u) ELSE Look(u, path)

(* hcopy -R: a directory of the host, its entries with their paths below   *)
(* it, directories before what they hold.  One that cannot be made keeps   *)
(* out what it holds.                                                      *)
MakeDir(w, path) == IF path \in w.v.dirs \cup w.v.files THEN w ELSE hfs_mkdir(w, path)

CopyEntry(c, u, e) == LET path == Full(u, c.dst) \o e.path
                      IN  IF e.dir THEN MakeDir(u, path) ELSE CopyIn(u, path)

DoOperand(c, u, a) ==
    CASE c.do = "hmkdir"    -> hfs_mkdir(u, Full(u, a))
      [] c.do = "hrmdir"    -> hfs_rmdir(u, Full(u, a))
      [] c.do = "hdel"      -> hfs_delete(u, Full(u, a))
      [] c.do = "hattrib"   -> SetAttr(u, Full(u, a))
      [] c.do = "hls"       -> Look(u, Full(u, a))
      [] c.do = "hcopyout"  -> do_copyout(u, Full(u, a))
      [] c.do = "hrename"   -> do_rename(c, u, a)
      [] c.do = "hcopyin"   -> do_copyin(c, u, a)
      [] c.do = "hcopytree" -> CopyEntry(c, u, a)

(* The loop over the operands: one that fails does not keep the others     *)
(* from their turn.                                                        *)
Each(c, w) ==
    LET after[n \in 0 .. Len(c.args)] ==
            IF n = 0 THEN w ELSE DoOperand(c, after[n - 1], c.args[n])
    IN  after[Len(c.args)]

(* Several operands need a directory to go to.                             *)
Several(c, w) ==
    IF Len(c.args) > 1 /\ Full(w, c.dst) \notin w.v.dirs THEN Fail(w) ELSE Each(c, w)

(* Of all entries only the topmost directory counts for whether the        *)
(* command has succeeded.                                                  *)
copy_dir_recursive(c, w) ==
    LET top == MakeDir(w, Full(w, c.dst))
    IN  IF ~ top.ok THEN top ELSE [Each(c, top) EXCEPT !.ok = w.ok]

(* One operand, or the root.                                               *)
ChangeDir(w, args) ==
    LET path == IF args = << >> THEN RootOf(w.v) ELSE Full(w, args[1])
    IN  IF Len(args) > 1 \/ path \notin w.v.dirs THEN Fail(w) ELSE [w EXCEPT !.cwd = path]

Worked(c, w) ==
    CASE c.do \in {"hmkdir", "hrmdir", "hdel", "hattrib", "hls", "hcopyout"} -> Each(c, w)
      [] c.do \in {"hrename", "hcopyin"} -> Several(c, w)
      [] c.do = "hcopytree" -> copy_dir_recursive(c, w)
      [] c.do = "hcd"       -> ChangeDir(w, c.args)
      [] OTHER              -> w        \* hmount, hvol and hformat only look

ReadsOnly(c) == c.do \in {"hcd", "hls", "hcopyout"}     \* HFS_MODE_RDONLY, else any
Makes(c)     == c.do \in {"hmount", "hformat"}          \* the entry is new
Shows(c)     == c.do = "hvol" /\ c.current              \* fails at nothing
Follows(c)   == c.do \in {"hcd", "hrename"}             \* the entry is told where we are

-----------------------------------------------------------------------------
(* Locks of media (os_open): one writer or several readers.                *)
CanLock(m, write) == \A l \in locks : l.medium = m => ~ write /\ ~ l.write

Lock(m, p, write) == [medium |-> m, proc |-> p, write |-> write]

(* hfs_mount: for reading if it must be, and if it may not write.          *)
Modes(c, m) == IF ~ ReadsOnly(c) /\ CanLock(m, TRUE) THEN {TRUE}
               ELSE IF CanLock(m, FALSE) THEN {FALSE} ELSE {}

Holds(p) == {l \in locks : l.proc = p}

Set(p, r) == proc' = [proc EXCEPT ![p] = r]

(* A command that ends, or fails, before it has touched a volume.          *)
EndWith(p, l, result) ==
    Set(p, [proc[p] EXCEPT !.pc = "ending", !.list = l, !.result = result])

-----------------------------------------------------------------------------
(* main: read the list.  alone and read are history: what was read, and    *)
(* whether no other command has run since.                                 *)
Begin(p) ==
    /\ proc[p].pc = "idle" /\ begun < MaxCommands
    /\ \E c \in Commands :
         LET others == {q \in Procs \ {p} : proc[q].pc # "idle"}
             new    == [pc |-> "read", cmd |-> c, list |-> hcwd_init, result |-> 0,
                        read |-> hcwd_init, alone |-> others = {}, w |-> NoWork,
                        part |-> NoPart]
         IN  proc' = [q \in Procs |->
                        IF q = p THEN new
                        ELSE IF q \in others THEN [proc[q] EXCEPT !.alone = FALSE]
                        ELSE proc[q]]
    /\ begun' = begun + 1
    /\ UNCHANGED <<media, unclean, locks, file, swaps>>

At(p, commands) == proc[p].pc = "read" /\ proc[p].cmd.do \in commands

Quiet == UNCHANGED <<media, unclean, locks, file, begun, swaps>>

(* An entry by what the user calls it: a path to the same medium, or the   *)
(* name of the volume.  The first one counts.                              *)
Called(l, c) == {i \in DOMAIN l.ents :
                   IF c.byname THEN l.ents[i].vname = c.name
                   ELSE MediumOf[l.ents[i].path] = MediumOf[c.path]}

humount_main(p) ==
    /\ At(p, {"humount"})
    /\ LET l == proc[p].list
           c == proc[p].cmd
       IN  IF c.current
           THEN IF hasVol(l) THEN EndWith(p, hcwd_umounted(l, l.cur), 0)
                ELSE EndWith(p, l, 1)
           ELSE IF Called(l, c) = {} THEN EndWith(p, l, 1)
                ELSE EndWith(p, hcwd_umounted(l, Min(Called(l, c)) - 1), 0)
    /\ Quiet

(* hpwd, and a command that cannot remount for want of a current volume.   *)
Unmountable(p) ==
    /\ proc[p].pc = "read"
    /\ ~ Makes(proc[p].cmd) /\ proc[p].cmd.do \notin {"humount", "hvol"}
    /\ ~ hasVol(proc[p].list) \/ proc[p].cmd.do = "hpwd"
    /\ EndWith(p, proc[p].list, IF hasVol(proc[p].list) THEN 0 ELSE 1)
    /\ Quiet

(* hvol with an operand makes its entry the current one; then it shows the *)
(* current volume, which remounts it.                                      *)
Chosen(l, c) == IF c.current \/ Called(l, c) = {} THEN l
                ELSE hcwd_setvol(l, Min(Called(l, c)) - 1)

hvol_main(p) ==
    /\ At(p, {"hvol"})
    /\ LET l == proc[p].list
           c == proc[p].cmd
       IN  IF ~ c.current /\ Called(l, c) = {} THEN EndWith(p, l, 1)
           ELSE IF ~ hasVol(Chosen(l, c)) THEN EndWith(p, l, 0)
           ELSE Set(p, [proc[p] EXCEPT !.pc = "chosen", !.list = Chosen(l, c)])
    /\ Quiet

(* The medium is opened for reading, and closed at once.  Nothing is found *)
(* while another process writes there.                                     *)
hfs_nparts(m) == IF CanLock(m, FALSE) THEN Nparts(media[m]) ELSE -1

(* Which partition hmount and hformat take: the one they are told, else    *)
(* the only one that is found.                                             *)
Partition(c) ==
    LET n == hfs_nparts(MediumOf[c.path])
    IN  IF c.part # NoPart THEN {c.part}
        ELSE IF n > 1 THEN {} ELSE IF n = -1 THEN {0} ELSE {1}

Mounted(p, w, l, part) ==
    Set(p, [proc[p] EXCEPT !.pc = "mounted", !.list = l, !.w = w, !.part = part])

WrongVolume(p, w, result) ==
    Set(p, [proc[p] EXCEPT !.pc = "wrong", !.w = w, !.result = result])

AtWork(v, write, cwd) == [v |-> v, ro |-> ~ write, cwd |-> cwd, ok |-> TRUE]

(* Faulty variant: any volume will do.                                     *)
RemountableAny(ent, disk) == TRUE

(* hfsutil_remount mounts what is there.  A volume of another name is      *)
(* unmounted again.  A current directory that is not there any more is     *)
(* reported, and the command goes on in the root directory.                *)
Remountable(ent, disk) == NameOf(disk[ent.part]) = ent.vname

hfsutil_remount(p) ==
    /\ \/ proc[p].pc = "chosen"
       \/ /\ proc[p].pc = "read" /\ hasVol(proc[p].list)
          /\ ~ Makes(proc[p].cmd) /\ proc[p].cmd.do \notin {"humount", "hvol", "hpwd"}
    /\ LET r    == proc[p]
           ent  == hcwd_getvol(r.list)
           m    == MediumOf[ent.path]
           v    == media[m][ent.part]
           full == <<ent.vname>> \o ent.cwd
           no   == IF Shows(r.cmd) THEN 0 ELSE 1
       IN  \/ /\ Modes(r.cmd, m) = {} \/ ent.part \notin DOMAIN media[m]
              /\ EndWith(p, r.list, no)
              /\ UNCHANGED locks
           \/ /\ ent.part \in DOMAIN media[m]
              /\ \E write \in Modes(r.cmd, m) :
                   /\ locks' = locks \cup {Lock(m, p, write)}
                   /\ \/ /\ Remountable(ent, media[m])
                         /\ Mounted(p,
                                AtWork(v, write, IF full \in v.dirs THEN full ELSE RootOf(v)),
                                r.list, ent.part)
                      \/ /\ ~ Remountable(ent, media[m])
                         /\ WrongVolume(p, AtWork(v, write, RootOf(v)), no)
    /\ UNCHANGED <<media, unclean, file, begun, swaps>>

(* hformat does not take number 0 without force if it has found            *)
(* partitions.                                                             *)
Refused(c) == c.part = 0 /\ hfs_nparts(MediumOf[c.path]) # -1 /\ ~ c.force

hformat_main(p) ==
    /\ At(p, {"hformat"})
    /\ LET c == proc[p].cmd IN
       IF Refused(c) \/ Partition(c) = {} THEN EndWith(p, proc[p].list, 4)
       ELSE \E part \in Partition(c) :
              Set(p, [proc[p] EXCEPT !.pc = "formatting", !.part = part])
    /\ Quiet

(* hfs_format: the volume is made while the medium is locked for writing.  *)
(* Number 0 is the whole medium, whatever partitions it has.               *)
Formatted(disk, part, vname) ==
    IF part = 0 THEN [i \in {0} |-> Fresh(vname)] ELSE [disk EXCEPT ![part] = Fresh(vname)]

Renewed(m, part) == {u \in unclean : u[1] = m /\ part \in {0, u[2]}}

CanFormat(m, part) == CanLock(m, TRUE) /\ part \in {0} \cup DOMAIN media[m]

do_format(p) ==
    /\ proc[p].pc = "formatting"
    /\ LET c    == proc[p].cmd
           m    == MediumOf[c.path]
           part == proc[p].part
       IN  \/ /\ ~ CanFormat(m, part)
              /\ EndWith(p, proc[p].list, 4)
              /\ UNCHANGED <<media, unclean>>
           \/ /\ CanFormat(m, part)
              /\ media' = [media EXCEPT ![m] = Formatted(@, part, c.label)]
              /\ unclean' = unclean \ Renewed(m, part)
              /\ Set(p, [proc[p] EXCEPT !.pc = "making"])
    /\ UNCHANGED <<locks, file, begun, swaps>>

hmount_main(p) ==
    /\ At(p, {"hmount"})
    /\ LET c == proc[p].cmd IN
       IF Partition(c) = {} THEN EndWith(p, proc[p].list, 1)
       ELSE \E part \in Partition(c) :
              Set(p, [proc[p] EXCEPT !.pc = "making", !.part = part])
    /\ Quiet

(* hfs_mount for hmount and hformat, and the new entry.                    *)
Introduce(p) ==
    /\ proc[p].pc = "making"
    /\ LET c == proc[p].cmd
           m == MediumOf[c.path]
           part == proc[p].part
       IN  \/ /\ Modes(c, m) = {} \/ part \notin DOMAIN media[m]
              /\ EndWith(p, proc[p].list, IF c.do = "hmount" THEN 1 ELSE 4)
              /\ UNCHANGED locks
           \/ /\ part \in DOMAIN media[m]
              /\ \E write \in Modes(c, m) :
                   LET v == media[m][part] IN
                   /\ Mounted(p, AtWork(v, write, RootOf(v)),
                              hcwd_mounted(proc[p].list, NameOf(v), c.path, part), part)
                   /\ locks' = locks \cup {Lock(m, p, write)}
    /\ UNCHANGED <<media, unclean, file, begun, swaps>>

(* The work itself, and hcwd_setcwd.  hrename does not tell the list when  *)
(* one of its operands has failed.                                         *)
Work(p) ==
    /\ proc[p].pc = "mounted"
    /\ LET w   == Worked(proc[p].cmd, proc[p].w)
           l   == proc[p].list
           ent == hcwd_getvol(l)
       IN  /\ media' = [media EXCEPT ![MediumOf[ent.path]][ent.part] = w.v]
           /\ Set(p, [proc[p] EXCEPT
                        !.pc     = "worked",
                        !.w      = w,
                        !.result = IF w.ok THEN 0 ELSE 1,
                        !.list   = IF w.ok /\ Follows(proc[p].cmd)
                                   THEN hcwd_setcwd(l, w.cwd) ELSE l])
    /\ UNCHANGED <<unclean, locks, file, begun, swaps>>

(* hfsutil_unmount.  A volume that could be written is marked, and if the  *)
(* mark was missing its bitmap is the one that v_scavenge has mended.      *)
hfsutil_unmount(p) ==
    /\ proc[p].pc \in {"worked", "wrong"}
    /\ LET ent == hcwd_getvol(proc[p].list) IN
       unclean' = IF proc[p].w.ro THEN unclean
                  ELSE unclean \ {<<MediumOf[ent.path], ent.part>>}
    /\ locks' = locks \ Holds(p)
    /\ EndWith(p, proc[p].list, proc[p].result)
    /\ UNCHANGED <<media, file, begun, swaps>>

(* hcwd_finish.                                                            *)
Empties(p) ==
    /\ proc[p].pc = "ending" /\ proc[p].list.dirty
    /\ file' = Emptied(file)
    /\ Set(p, [proc[p] EXCEPT !.pc = "emptied"])
    /\ UNCHANGED <<media, unclean, locks, begun, swaps>>

Writes(p) ==
    /\ proc[p].pc = "emptied"
    /\ file' = Overlaid(file, proc[p].list)
    /\ Set(p, Idle)
    /\ UNCHANGED <<media, unclean, locks, begun, swaps>>

WritesNothing(p) ==
    /\ proc[p].pc = "ending" /\ ~ proc[p].list.dirty
    /\ Set(p, Idle)
    /\ Quiet

(* Another disk in the drive, another image in place of the file.          *)
Replace ==
    /\ swaps < MaxSwaps
    /\ \E m \in Media, d \in Disks :
         /\ \A l \in locks : l.medium # m
         /\ media' = [media EXCEPT ![m] = d.vols]
         /\ unclean' = {u \in unclean : u[1] # m} \cup Unclean(m, d)
    /\ swaps' = swaps + 1
    /\ UNCHANGED <<locks, file, proc, begun>>

Step(p) == \/ Begin(p) \/ humount_main(p) \/ Unmountable(p) \/ hvol_main(p)
           \/ hfsutil_remount(p) \/ hformat_main(p) \/ do_format(p) \/ hmount_main(p)
           \/ Introduce(p) \/ Work(p) \/ hfsutil_unmount(p)
           \/ Empties(p) \/ Writes(p) \/ WritesNothing(p)

Next == Replace \/ \E p \in Procs : Step(p)

Spec == Init /\ [][Next]_vars

-----------------------------------------------------------------------------
(* Whatever runs at the same time and whatever disk is put in, the         *)
(* directories and files of a volume are changed only by hformat, or by a  *)
(* command whose list, read before, names it, and which reports as its     *)
(* volume what it has changed.  A volume that the list does not name, but  *)
(* that is there instead, is marked as unmounted if it was not, by a       *)
(* process that has it mounted for writing, and nothing else is done to it.*)
Formats(p, m, part) ==
    /\ proc[p].pc = "formatting" /\ proc'[p].pc = "making"
    /\ MediumOf[proc[p].cmd.path] = m /\ proc[p].part \in {0, part}

IsNamed(p, m, part) ==
    /\ hasVol(proc[p].read)
    /\ LET ent == hcwd_getvol(proc[p].read) IN
       MediumOf[ent.path] = m /\ ent.part = part /\ ent.vname = NameOf(media[m][part])

OnlyIts ==
    \A m \in Media : \A part \in DOMAIN media[m] :
         part \notin DOMAIN media'[m] \/ media'[m][part] # media[m][part] =>
            \/ swaps' # swaps
            \/ \E p \in Procs : Formats(p, m, part)
            \/ \E p \in Procs : /\ proc[p].pc = "mounted" /\ proc'[p].pc = "worked"
                                /\ IsNamed(p, m, part) /\ proc[p].w.v = media[m][part]

OnlyMarks ==
    \A u \in (unclean \ unclean') \cup (unclean' \ unclean) :
         \/ swaps' # swaps
         \/ \E p \in Procs : Formats(p, u[1], u[2])
         \/ /\ u \in unclean
            /\ \E p \in Procs : /\ proc[p].pc \in {"worked", "wrong"}
                                /\ proc'[p].pc = "ending"
                                /\ Lock(u[1], p, TRUE) \in locks

ChangesOnlyItsVolume == [][OnlyIts /\ OnlyMarks]_vars

(* hformat destroys partitions only with -f (hformat.1).  That is so unless*)
(* another process writes on the medium while it counts them.              *)
NeedsForce ==
    [][\A m \in Media : 0 \notin DOMAIN media[m] /\ 0 \in DOMAIN media'[m] =>
         \/ swaps' # swaps
         \/ \E p \in Procs : proc[p].pc = "formatting" /\ proc[p].cmd.force]_vars

(* After hmount, hformat, hcd or hrename has succeeded, and until another  *)
(* process gets at the medium, the current entry leads to the volume by    *)
(* its name, and to a directory that exists: the next command starts where *)
(* this one left off, also if hrename has renamed the volume or moved the  *)
(* current directory with it.                                              *)
SuccessLeavesAWayBack ==
    \A p \in Procs :
       proc[p].pc = "worked" /\ proc[p].result = 0
       /\ (Makes(proc[p].cmd) \/ Follows(proc[p].cmd)) =>
          LET ent == hcwd_getvol(proc[p].list)
              v   == media[MediumOf[ent.path]][ent.part]
          IN  ent.vname = NameOf(v) /\ <<ent.vname>> \o ent.cwd \in v.dirs

(* A command that no other has overlapped keeps the file's other entries,  *)
(* in their order, and with them which one is current, unless it is hmount,*)
(* hformat or hvol that chooses another: only humount forgets an entry,    *)
(* and only one.                                                           *)
Keys(ents) == [i \in DOMAIN ents |-> <<ents[i].path, ents[i].part>>]

Current(l) == {Keys(l.ents)[i] : i \in {l.cur + 1} \cap DOMAIN l.ents}

Forgets(old, new) ==
    \E i \in DOMAIN old.ents :
       /\ new.ents = RemoveAt(old.ents, i)
       /\ Current(new) = IF i = old.cur + 1 THEN {} ELSE Current(old)

Keeps(old, new) ==
    /\ IsPrefix(Keys(old.ents), Keys(new.ents))
    /\ Len(new.ents) <= Len(old.ents) + 1
    /\ \A i \in DOMAIN old.ents :
         Keys(old.ents)[i] \notin Current(new) => new.ents[i] = old.ents[i]

AloneKeepsTheList ==
    [][\A p \in Procs :
         proc[p].pc \in {"ending", "emptied"} /\ proc'[p].pc = "idle" /\ proc[p].alone =>
           LET old == proc[p].read
               c   == proc[p].cmd
           IN  IF c.do = "humount" /\ proc[p].result = 0
               THEN Forgets(old, file')
               ELSE /\ Keeps(old, file')
                    /\ Makes(c) \/ c.do = "hvol" \/ Current(file') = Current(old)]_vars
=============================================================================
