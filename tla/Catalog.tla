------------------------------ MODULE Catalog -------------------------------
(***************************************************************************)
(* The catalog of a volume: path names, directories, files as entries, and *)
(* their counts, from libhfs/hfs.c and volume.c.                           *)
(*                                                                         *)
(* The catalog tree has a record per file and directory, keyed by the      *)
(* number of the parent and the name, and a thread per directory (files    *)
(* may have one) that is keyed by its number and says parent and name.     *)
(* The tree is written through; the MDB reaches the medium when the volume *)
(* is flushed.                                                             *)
(*                                                                         *)
(* Any change to the tree may meet an I/O error, or a tree that is full;   *)
(* the call then returns without the rest.  A process that dies in a call  *)
(* is one that dies after such an error.  A call whose arguments are       *)
(* refused changes nothing and is left out.                                *)
(***************************************************************************)
EXTENDS Integers, Sequences, SequencesExt, FiniteSetsExt, Functions

CONSTANTS Names,        \* pairs of letters and case: <<x, 0>> and <<x, 1>> are one name
          VolName,      \* what the volume is called at first
          Scopes        \* bounds, see scope

RootPar  == 1           \* HFS_CNID_ROOTPAR
RootDir  == 2           \* HFS_CNID_ROOTDIR
FirstNum == 16          \* the first number of a user's file or directory
NoName   == << >>
NoKey    == << >>
Up       == << >>       \* the step of a path for a further colon

(* The bounds of a scope: the paths that calls are given; numbers are      *)
(* below max; how many calls are cut short, how often the process dies,    *)
(* how many files are open; the names that another system's file may have. *)
(*                                                                         *)
(* A path starts at the volumes or in the current directory; colon says    *)
(* whether it ends in one.                                                 *)
ASSUME CatalogAssumption ==
    /\ VolName \in Names
    /\ \A s \in Scopes :
          /\ s.max \in Nat /\ s.max > FirstNum
          /\ {s.faults, s.crashes, s.open} \subseteq Nat
          /\ s.foreign \subseteq Names
          /\ \A p \in s.paths : /\ p.abs \in BOOLEAN /\ p.colon \in BOOLEAN
                                /\ p.steps \in Seq(Names \cup {Up})

(* A directory has no more entries than its 16-bit count can say.          *)
ASSUME ValencesFit == \A s \in Scopes : s.max - FirstNum < 65536

VARIABLES scope,        \* one of Scopes
          cat,          \* records of files and directories, by key
          thr,          \* threads, by number
          mdb,          \* the MDB in memory
          disk,         \* the MDB on the medium
          upd,          \* HFS_VOL_UPDATE_MDB
          cwd,          \* vol->cwd
          files,        \* vol->files, the newest first
          faults, crashes,
          ok            \* whether the last call succeeded

vars == <<scope, cat, thr, mdb, disk, upd, cwd, files, faults, crashes, ok>>

(* r_comparecatkeys: names are compared by d_relstring, without case.      *)
Key(par, name) == <<par, name[1]>>

Dir(id, name)  == [id |-> id, dir |-> TRUE, name |-> name, val |-> 0]
File(id, name) == [id |-> id, dir |-> FALSE, name |-> name, val |-> 0]
Thread(isdir, par, name) == [dir |-> isdir, par |-> par, name |-> name]

With(f, x, v) == [y \in DOMAIN f \cup {x} |-> IF y = x THEN v ELSE f[y]]

RootKey    == Key(RootPar, VolName)
RootRecord == [key \in {RootKey} |-> Dir(RootDir, VolName)]
RootThread == [id \in {RootDir} |-> Thread(TRUE, RootPar, VolName)]

(* A volume as hfs_format leaves it, or with a file that another system    *)
(* made and gave a thread.                                                 *)
Fresh ==
    /\ cat = RootRecord
    /\ thr = RootThread
    /\ mdb = [vn |-> VolName, next |-> FirstNum, dirs |-> 0, files |-> 0,
              rtdirs |-> 0, rtfiles |-> 0]

Foreign ==
    \E n \in scope.foreign :
       /\ cat = With([RootRecord EXCEPT ![RootKey].val = 1], Key(RootDir, n), File(FirstNum, n))
       /\ thr = With(RootThread, FirstNum, Thread(FALSE, RootDir, n))
       /\ mdb = [vn |-> VolName, next |-> FirstNum + 1, dirs |-> 0, files |-> 1,
                 rtdirs |-> 0, rtfiles |-> 1]

Init == /\ scope \in Scopes
        /\ Fresh \/ Foreign
        /\ disk = mdb /\ upd = FALSE
        /\ cwd = RootDir /\ files = << >>
        /\ faults = 0 /\ crashes = 0 /\ ok = TRUE

-----------------------------------------------------------------------------
(* v_resolve.  r has the directory that the path has come to, parent and   *)
(* name of what was looked up last, and whether the path leads nowhere.    *)
HasThread(isdir, id) == id \in DOMAIN thr /\ thr[id].dir = isdir

Start(p) == [dir |-> IF p.abs THEN RootPar ELSE cwd, par |-> 0, name |-> NoName,
             lost |-> FALSE]

StepUp(r) == IF HasThread(TRUE, r.dir) THEN [r EXCEPT !.dir = thr[r.dir].par]
             ELSE [r EXCEPT !.lost = TRUE]

StepDown(r, n) ==
    LET key == Key(r.dir, n) IN
    IF key \in DOMAIN cat /\ cat[key].dir
    THEN [r EXCEPT !.dir = cat[key].id, !.par = r.dir, !.name = cat[key].name]
    ELSE [r EXCEPT !.par = 0, !.lost = TRUE]

Step(r, n) == IF r.lost THEN r ELSE IF n = Up THEN StepUp(r) ELSE StepDown(r, n)

Walked(p, steps) ==
    LET after[i \in 0 .. Len(steps)] ==
            IF i = 0 THEN Start(p) ELSE Step(after[i - 1], steps[i])
    IN  after[Len(steps)]

(* Where a path ends: at what has a name in a directory, or nowhere.       *)
EndsAt(par, name, otherwise) ==
    LET key == Key(par, name) IN
    IF key \in DOMAIN cat
    THEN [found |-> TRUE, key |-> key, par |-> par, name |-> cat[key].name]
    ELSE [found |-> FALSE, key |-> NoKey, par |-> par, name |-> otherwise]

Nowhere(r) == [found |-> FALSE, key |-> NoKey, par |-> r.par, name |-> r.name]

(* A path that ends in colons leads to the directory itself.               *)
EndsInDir(r) ==
    IF HasThread(TRUE, r.dir) /\ ~ r.lost
    THEN EndsAt(thr[r.dir].par, thr[r.dir].name, r.name)
    ELSE Nowhere(r)

EndsInName(r, n) == IF r.lost THEN Nowhere(r) ELSE EndsAt(r.dir, n, n)

v_resolve(p) ==
    IF p.steps = << >> \/ Last(p.steps) = Up THEN EndsInDir(Walked(p, p.steps))
    ELSE EndsInName(Walked(p, Front(p.steps)), Last(p.steps))

(* What hfs_rename takes for the name in a path: the text after the last   *)
(* colon.                                                                  *)
Typed(p) == IF p.colon \/ p.steps = << >> THEN NoName ELSE Last(p.steps)

(* Where a directory has a thread and no record, a parent comes back and   *)
(* no name: the buffer of the caller has any.                              *)
Read(r) == IF ~ r.found /\ r.par # 0 /\ r.name = NoName
           THEN {[r EXCEPT !.name = n] : n \in Names}
           ELSE {r}

Results(p) == {[found |-> r.found, key |-> r.key, par |-> r.par, name |-> r.name,
                typed |-> Typed(p)] : r \in Read(v_resolve(p))}

Resolved == UNION {Results(p) : p \in scope.paths}

-----------------------------------------------------------------------------
(* A call in progress: cut is the number of changes to the tree that       *)
(* succeed before one fails, hit whether one has failed.                   *)
Enough == 6         \* more than any call makes
Cuts   == (IF faults < scope.faults THEN 0 .. Enough - 1 ELSE {}) \cup {Enough}

Work(cut) == [cat |-> cat, thr |-> thr, mdb |-> mdb, upd |-> upd, ok |-> TRUE,
              cut |-> cut, hit |-> FALSE]

Done(w) == /\ cat' = w.cat /\ thr' = w.thr /\ mdb' = w.mdb /\ upd' = w.upd /\ ok' = w.ok
           /\ faults' = faults + (IF w.hit THEN 1 ELSE 0)

(* One change to the tree: w becomes `changed' if the record is as it has  *)
(* to be.                                                                  *)
Change(w, can, changed) ==
    IF ~ w.ok THEN w
    ELSE IF w.cut = 0 THEN [w EXCEPT !.ok = FALSE, !.hit = TRUE]
    ELSE IF can THEN [changed EXCEPT !.cut = @ - 1]
    ELSE [w EXCEPT !.ok = FALSE]

Insert(w, key, rec) ==
    Change(w, key \notin DOMAIN w.cat, [w EXCEPT !.cat = With(@, key, rec)])

Delete(w, key) ==
    Change(w, key \in DOMAIN w.cat, [w EXCEPT !.cat = Restrict(@, DOMAIN @ \ {key})])

InsertThread(w, id, t) ==
    Change(w, id \notin DOMAIN w.thr, [w EXCEPT !.thr = With(@, id, t)])

DeleteThread(w, id) ==
    Change(w, id \in DOMAIN w.thr, [w EXCEPT !.thr = Restrict(@, DOMAIN @ \ {id})])

PutThread(w, id, t) ==
    Change(w, id \in DOMAIN w.thr /\ w.thr[id].dir = t.dir, [w EXCEPT !.thr[id] = t])

(* Nothing to do without a thread; one of a directory is an error.         *)
DeleteFileThread(w, id) ==
    IF id \notin DOMAIN w.thr THEN w
    ELSE IF w.thr[id].dir THEN Change(w, FALSE, w) ELSE DeleteThread(w, id)

NewNumber(w) == [w EXCEPT !.mdb.next = @ + 1, !.upd = TRUE]

(* The counts of a directory have 16 bits.                                 *)
Short(n) == n % 65536

(* Faulty variant: the counts of the root directory are forgotten.         *)
CountedButRoot(w, par, isdir, adj) ==
    IF isdir THEN [w EXCEPT !.mdb.dirs = @ + adj, !.upd = TRUE]
    ELSE [w EXCEPT !.mdb.files = @ + adj, !.upd = TRUE]

(* The counts of the MDB.  The two of the volume have 32 bits, and no call *)
(* looks at them, so that they are not cut.                                *)
Counted(w, par, isdir, adj) ==
    LET root == IF par = RootDir THEN adj ELSE 0
    IN  IF isdir
        THEN [w EXCEPT !.mdb.dirs = @ + adj, !.mdb.rtdirs = Short(@ + root), !.upd = TRUE]
        ELSE [w EXCEPT !.mdb.files = @ + adj, !.mdb.rtfiles = Short(@ + root), !.upd = TRUE]

ParentKey(w, par) == Key(w.thr[par].par, w.thr[par].name)

HasParent(w, par) == /\ par \in DOMAIN w.thr /\ w.thr[par].dir
                     /\ ParentKey(w, par) \in DOMAIN w.cat
                     /\ w.cat[ParentKey(w, par)].dir

(* The counts of the MDB come first, then those of the parent, which is    *)
(* found by its thread.                                                    *)
v_adjvalence(w, par, isdir, adj) ==
    LET c == Counted(w, par, isdir, adj) IN
    IF ~ w.ok THEN w
    ELSE IF par = RootPar THEN c
    ELSE Change(c, HasParent(c, par), [c EXCEPT !.cat[ParentKey(c, par)].val = Short(@ + adj)])

-----------------------------------------------------------------------------
(* The record that a path was found to have.                               *)
Rec(r) == cat[r.key]

(* Bound: numbers.                                                         *)
CanCreate(r) == ~ r.found /\ r.par \notin {0, RootPar} /\ mdb.next < scope.max

v_mkdir(w, par, name) ==
    LET id == w.mdb.next
        a  == Insert(NewNumber(w), Key(par, name), Dir(id, name))
    IN  v_adjvalence(InsertThread(a, id, Thread(TRUE, par, name)), par, TRUE, 1)

hfs_mkdir(r) ==
    /\ CanCreate(r)
    /\ \E cut \in Cuts : Done(v_mkdir(Work(cut), r.par, r.name))
    /\ UNCHANGED <<scope, disk, cwd, files, crashes>>

(* Bound: the current directory is not removed, see the README.            *)
hfs_rmdir(r) ==
    /\ r.found /\ Rec(r).dir /\ Rec(r).val = 0 /\ r.par # RootPar
    /\ Rec(r).id # cwd
    /\ \E cut \in Cuts :
          LET w == DeleteThread(Delete(Work(cut), r.key), Rec(r).id)
          IN  Done(v_adjvalence(w, r.par, TRUE, -1))
    /\ UNCHANGED <<scope, disk, cwd, files, crashes>>

(* Faulty variant: the file is taken to be in the current directory.       *)
HandleInCwd(par, rec) == [par |-> cwd, name |-> rec.name, id |-> rec.id, upd |-> FALSE]

(* A handle has the parent and the name that it was opened with.           *)
Handle(par, rec) == [par |-> par, name |-> rec.name, id |-> rec.id, upd |-> FALSE]

hfs_create(r) ==
    /\ CanCreate(r) /\ Len(files) < scope.open
    /\ \E cut \in Cuts :
          LET rec == File(mdb.next, r.name)
              w   == v_adjvalence(Insert(NewNumber(Work(cut)), Key(r.par, r.name), rec),
                                  r.par, FALSE, 1)
          IN  /\ Done(w)
              /\ files' = IF w.ok THEN <<Handle(r.par, rec)>> \o files ELSE files
    /\ UNCHANGED <<scope, disk, cwd, crashes>>

hfs_open(r) ==
    /\ r.found /\ ~ Rec(r).dir /\ Len(files) < scope.open
    /\ files' = <<Handle(r.par, Rec(r))>> \o files
    /\ ok' = TRUE
    /\ UNCHANGED <<scope, cat, thr, mdb, disk, upd, cwd, faults, crashes>>

(* Bound: a file is not renamed or deleted while open, see the README.     *)
IsOpen(key) == \E f \in DOMAIN files : Key(files[f].par, files[f].name) = key

(* The thread goes last, if there is one.                                  *)
hfs_delete(r) ==
    /\ r.found /\ ~ Rec(r).dir /\ r.par # RootPar
    /\ ~ IsOpen(r.key)
    /\ \E cut \in Cuts :
          LET w == v_adjvalence(Delete(Work(cut), r.key), r.par, FALSE, -1)
          IN  Done(DeleteFileThread(w, Rec(r).id))
    /\ UNCHANGED <<scope, disk, cwd, files, crashes>>

-----------------------------------------------------------------------------
(* hfs_rename.  s is the source, d what the path of the destination leads  *)
(* to.  If that is another directory the source goes into it.  (That it is *)
(* another is tested for files too, by their type; types that are numbers  *)
(* of directories are left out.)                                           *)
Into(s, d) == /\ d.found /\ Rec(d).dir
              /\ ~ (Rec(s).dir /\ Rec(s).id = Rec(d).id)

Target(s, d) ==
    IF Into(s, d)
    THEN [par |-> Rec(d).id, name |-> s.name, found |-> Key(Rec(d).id, s.name) \in DOMAIN cat]
    ELSE [par |-> d.par, name |-> d.name, found |-> d.found]

(* The name that a record which is there already has to share.             *)
Chosen(t, d) == IF t.found /\ d.typed # NoName THEN d.typed ELSE t.name

(* Faulty variant: only the destination itself is looked at.               *)
NotItself(inside, id) == id # inside

(* The loop goes from a directory to its parent, and stays at the root, or *)
(* where there is no thread.                                               *)
Upward(i) == IF i # RootDir /\ HasThread(TRUE, i) THEN thr[i].par ELSE i

(* The directories from id to the root are not `inside'.  The loop of the  *)
(* code ends because threads lead to the root; a way longer than there are *)
(* numbers has a cycle.                                                    *)
NotBelow(inside, id) ==
    LET at[n \in 0 .. scope.max] == IF n = 0 THEN id ELSE Upward(at[n - 1])
    IN  /\ at[scope.max] = RootDir
        /\ \A n \in DOMAIN at : at[n] # RootDir => at[n] # inside /\ HasThread(TRUE, at[n])

(* Faulty variant: a record that has the name already is not noticed.      *)
MayRenameOnto(s, t, name) ==
    LET moving == s.par # t.par IN
    /\ t.par # 0
    /\ moving => t.par # RootPar
    /\ moving /\ Rec(s).dir => Rec(s).id # RootDir /\ NotBelow(Rec(s).id, t.par)

(* Arguments that are not refused, and change something.                   *)
MayRename(s, t, name) ==
    LET moving == s.par # t.par IN
    /\ t.par # 0
    /\ t.found => ~ moving /\ name # s.name /\ name[1] = s.name[1]
    /\ moving => t.par # RootPar
    /\ moving /\ Rec(s).dir => Rec(s).id # RootDir /\ NotBelow(Rec(s).id, t.par)

(* Faulty variant: the MDB keeps the name.                                 *)
NamedInCatalog(w, par, name) == w

(* The root directory gives the volume its name.                           *)
Named(w, par, name) ==
    IF par = RootPar THEN [w EXCEPT !.mdb.vn = name, !.upd = TRUE] ELSE w

(* Faulty variant: the thread keeps the old place.                         *)
ThreadKept(w, rec, par, name) == w

ThreadMoved(w, rec, par, name) ==
    IF rec.dir \/ rec.id \in DOMAIN w.thr
    THEN PutThread(w, rec.id, Thread(rec.dir, par, name))
    ELSE w

Renamed(w, s, par, name) ==
    LET rec == [Rec(s) EXCEPT !.name = name]
        a   == Insert(Delete(Named(w, par, name), s.key), Key(par, name), rec)
        b   == ThreadMoved(a, rec, par, name)
    IN  IF s.par = par THEN b
        ELSE v_adjvalence(v_adjvalence(b, s.par, rec.dir, -1), par, rec.dir, 1)

(* Bound: the destination does not climb beyond the root, which may leave  *)
(* parent and name of something that is there, see the README.             *)
LeadsOn(d) == ~ d.found /\ d.par # 0 => Key(d.par, d.name) \notin DOMAIN cat

(* Bound: after an I/O error counts can go down for ever, but they do not  *)
(* once one was below zero.                                                *)
CountsHeld == \A rec \in Range(cat) : rec.val <= scope.max

hfs_rename(s, d) ==
    LET t    == Target(s, d)
        name == Chosen(t, d)
    IN  /\ s.found /\ ~ IsOpen(s.key) /\ LeadsOn(d) /\ CountsHeld
        /\ MayRename(s, t, name)
        /\ \E cut \in Cuts : Done(Renamed(Work(cut), s, t.par, name))
        /\ UNCHANGED <<scope, disk, cwd, files, crashes>>

-----------------------------------------------------------------------------
hfs_chdir(r) ==
    /\ r.found /\ Rec(r).dir
    /\ cwd' = Rec(r).id /\ ok' = TRUE
    /\ UNCHANGED <<scope, cat, thr, mdb, disk, upd, files, faults, crashes>>

hfs_setcwd(id) ==
    /\ id # cwd /\ HasThread(TRUE, id)
    /\ cwd' = id /\ ok' = TRUE
    /\ UNCHANGED <<scope, cat, thr, mdb, disk, upd, files, faults, crashes>>

hfs_fsetattr(f) ==
    /\ files' = [files EXCEPT ![f].upd = TRUE] /\ ok' = TRUE
    /\ UNCHANGED <<scope, cat, thr, mdb, disk, upd, cwd, faults, crashes>>

(* f_flush puts the record of the handle where its name is found.          *)
PutAt(h, rec) == [rec EXCEPT !.id = h.id, !.dir = FALSE, !.val = 0]

HandleKey(h) == Key(h.par, h.name)

f_flush(w, h) ==
    IF h.upd
    THEN Change(w, HandleKey(h) \in DOMAIN w.cat,
                [w EXCEPT !.cat[HandleKey(h)] = PutAt(h, @)])
    ELSE w

hfs_close(f) ==
    /\ \E cut \in Cuts : Done(f_flush(Work(cut), files[f]))
    /\ files' = RemoveAt(files, f)
    /\ UNCHANGED <<scope, disk, cwd, crashes>>

(* The files of F are flushed, the first of the list first.                *)
AllPut(F) ==
    [key \in DOMAIN cat |->
        LET mine == {f \in F : files[f].upd /\ HandleKey(files[f]) = key}
        IN  IF mine = {} THEN cat[key] ELSE PutAt(files[Max(mine)], cat[key])]

CanFlush(f) == files[f].upd => HandleKey(files[f]) \in DOMAIN cat

(* v_flush, when no write fails.                                           *)
Flushed == IF upd THEN mdb ELSE disk

hfs_flush ==
    LET flushable == {f \in DOMAIN files : \A g \in 1 .. f : CanFlush(g)}
        all       == flushable = DOMAIN files
    IN  /\ upd \/ \E f \in DOMAIN files : files[f].upd
        /\ cat' = AllPut(flushable) /\ ok' = all
        /\ files' = [f \in DOMAIN files |-> [files[f] EXCEPT !.upd = @ /\ f \notin flushable]]
        /\ disk' = (IF all THEN Flushed ELSE disk) /\ upd' = (upd /\ ~ all)
        /\ UNCHANGED <<scope, thr, mdb, cwd, faults, crashes>>

(* hfs_umount and a mount of the volume, which was left in order.          *)
Remount ==
    /\ cat' = AllPut(DOMAIN files) /\ ok' = (\A f \in DOMAIN files : CanFlush(f))
    /\ disk' = Flushed /\ mdb' = Flushed /\ upd' = FALSE
    /\ cwd' = RootDir /\ files' = << >>
    /\ UNCHANGED <<scope, thr, faults, crashes>>

(* Faulty variant: directories are not looked at.                          *)
LastFileNum == Max({rec.id : rec \in {r \in Range(cat) : ~ r.dir}} \cup {FirstNum - 1})

LastNum == Max({rec.id : rec \in Range(cat)} \cup {FirstNum - 1})

(* The process dies; the volume is mounted and scavenged.                  *)
Crash ==
    /\ crashes < scope.crashes
    /\ mdb' = [disk EXCEPT !.next = IF @ <= LastNum THEN LastNum + 1 ELSE @]
    /\ upd' = (disk.next <= LastNum)
    /\ cwd' = RootDir /\ files' = << >> /\ ok' = TRUE
    /\ crashes' = crashes + 1
    /\ UNCHANGED <<scope, cat, thr, disk, faults>>

Next == \/ \E r \in Resolved :
              \/ hfs_mkdir(r) \/ hfs_rmdir(r) \/ hfs_create(r) \/ hfs_open(r) \/ hfs_delete(r)
              \/ hfs_chdir(r)
        \/ LET R == Resolved IN \E s, d \in R : hfs_rename(s, d)
        \/ \E id \in DOMAIN thr : hfs_setcwd(id)
        \/ \E f \in DOMAIN files : hfs_fsetattr(f) \/ hfs_close(f)
        \/ hfs_flush \/ Remount \/ Crash

Spec == Init /\ [][Next]_vars

-----------------------------------------------------------------------------
Nums == {RootDir} \cup UNION {FirstNum .. s.max - 1 : s \in Scopes}

Counts == 0 .. scope.max - FirstNum

Words == {n \in Nat : n < 65536}

MDBs == [vn : Names, next : FirstNum .. scope.max, dirs : Counts, files : Counts,
         rtdirs : Counts, rtfiles : Counts]

TypeOK ==
    /\ \A key \in DOMAIN cat :
          /\ key[1] \in {RootPar} \cup Nums
          /\ cat[key] \in [id : Nums, dir : BOOLEAN, name : Names,
                          val : IF faults = 0 THEN Counts ELSE Words]
          /\ key = Key(key[1], cat[key].name)
    /\ DOMAIN thr \subseteq Nums
    /\ \A id \in DOMAIN thr : thr[id] \in [dir : BOOLEAN, par : {RootPar} \cup Nums, name : Names]
    /\ faults = 0 /\ crashes = 0 => {mdb, disk} \subseteq MDBs
    /\ upd \in BOOLEAN /\ cwd \in Nums

(* drNxtCNID, "Next unused catalog node ID": no two files or directories   *)
(* have one number, and the next one is free, through calls that are cut   *)
(* short, and through crashes with an old MDB on the medium (hfs_create,   *)
(* v_mkdir, v_flush, v_scavenge).                                          *)
NumbersUnique ==
    /\ \A j, k \in DOMAIN cat : cat[j].id = cat[k].id => j = k
    /\ \A k \in DOMAIN cat : cat[k].id < mdb.next

(* Where a record is and what its thread says is the same, whatever was    *)
(* renamed and moved; no thread is without its record (hfs_rename,         *)
(* hfs_rmdir, hfs_delete, v_mkdir).                                        *)
ThreadsMatch ==
    faults = 0 =>
        /\ \A key \in DOMAIN cat :
              LET rec == cat[key]  id == rec.id IN
              /\ rec.dir => id \in DOMAIN thr
              /\ id \in DOMAIN thr => thr[id] = Thread(rec.dir, key[1], rec.name)
        /\ \A id \in DOMAIN thr : \E rec \in Range(cat) : rec.id = id

(* Counts are in range (TypeOK).                                           *)
(* What hfs_rmdir takes for an empty directory is one, and the counts of   *)
(* the MDB are right: valences follow creation, removal and moves between  *)
(* any two directories (v_adjvalence).  A crash may lose counts of the     *)
(* MDB, which v_scavenge does not restore.                                 *)
Entries(id) == {key \in DOMAIN cat : key[1] = id}

Amount(isdir, keys) == Cardinality({key \in keys : cat[key].dir = isdir})

CountsRight ==
    /\ TypeOK
    /\ faults = 0 =>
        /\ \A rec \in Range(cat) : rec.dir => rec.val = Cardinality(Entries(rec.id))
        /\ crashes = 0 =>
              /\ mdb.dirs = Amount(TRUE, DOMAIN cat) - 1
              /\ mdb.files = Amount(FALSE, DOMAIN cat)
              /\ mdb.rtdirs = Amount(TRUE, Entries(RootDir))
              /\ mdb.rtfiles = Amount(FALSE, Entries(RootDir))

(* The path that hfs_dirinfo gives by climbing from a directory leads back *)
(* to it, and begins with the name of the volume (hpwd, hcwd).             *)
WayTo(id) ==
    LET way[n \in 0 .. scope.max, i \in 0 .. scope.max] ==
            IF n = 0 \/ i \notin DOMAIN thr THEN << >>
            ELSE way[n - 1, thr[i].par] \o <<thr[i].name>>
    IN  way[scope.max, id]

PathsLead ==
    faults = 0 =>
        \A rec \in Range(cat) :
            rec.dir => LET r == v_resolve([abs |-> TRUE, steps |-> WayTo(rec.id), colon |-> TRUE])
                       IN  /\ r.found /\ Rec(r).id = rec.id
                           /\ crashes = 0 => Head(WayTo(rec.id)) = mdb.vn

(* The record that a handle flushes is its own, while the directories      *)
(* above are moved and renamed, and other calls are cut short (f_flush).   *)
HandlesFindTheirs ==
    \A f \in DOMAIN files :
        LET key == HandleKey(files[f]) IN
        key \in DOMAIN cat /\ cat[key].id = files[f].id /\ ~ cat[key].dir

(* As long as no I/O error has cut a call short, a call that fails has left *)
(* the catalog as it was.                                                  *)
RefusalChangesNothing == [][~ ok' /\ faults' = 0 => UNCHANGED <<cat, thr>>]_vars

(* Refinement: the catalog is one tree.                                    *)
Nodes == [id \in {rec.id : rec \in Range(cat)} |->
             LET key == CHOOSE k \in DOMAIN cat : cat[k].id = id
             IN  [par |-> key[1], name |-> key[2], dir |-> cat[key].dir]]

Tree == INSTANCE Hierarchy WITH
            Ids <- Nums, Names <- {n[1] : n \in Names}, Top <- RootDir, Outside <- RootPar,
            node <- Nodes, damaged <- (faults > 0)

IsHierarchy == Tree!Spec
=============================================================================
