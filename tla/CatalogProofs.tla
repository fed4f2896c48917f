--------------------------- MODULE CatalogProofs ----------------------------
(***************************************************************************)
(* The catalog of a volume, for any sets of names and of scopes: no two    *)
(* files or directories share a number and every handle finds its record;  *)
(* the threads, the valences and the MDB's totals are those of the         *)
(* entries; a refused call changes nothing; and the entries are one tree,  *)
(* as Hierarchy says.                                                      *)
(***************************************************************************)
EXTENDS Catalog, Extremes, FiniteSetTheorems, SequenceTheorems, TLAPS

(* Numbers: an invariant that damage does not touch.                       *)

(* What a record of the catalog, the MDB and a call in progress consist of *)
(* is the same at all times.                                               *)
Fields(r, F) == DOMAIN r = F /\ r = [x \in F |-> r[x]]

IsRecord(rec) == Fields(rec, {"id", "dir", "name", "val"}) /\ rec.dir \in BOOLEAN
IsMDB(m)      == Fields(m, {"vn", "next", "dirs", "files", "rtdirs", "rtfiles"})
IsWork(w)     == Fields(w, {"cat", "thr", "mdb", "upd", "ok", "cut", "hit"})
IsHandle(h)   == Fields(h, {"par", "name", "id", "upd"})

(* Records that are where their parent and name say, with numbers below    *)
(* next.                                                                   *)
Placed(key, rec) == IsRecord(rec) /\ key = Key(key[1], rec.name)

Numbered(c, next) ==
    /\ next \in Nat
    /\ \A k \in DOMAIN c : Placed(k, c[k]) /\ c[k].id \in Nat /\ c[k].id < next
    /\ \A j, k \in DOMAIN c : c[j].id = c[k].id => j = k

Finds(h, c) == /\ HandleKey(h) \in DOMAIN c
               /\ c[HandleKey(h)].id = h.id /\ ~ c[HandleKey(h)].dir

AllFind(c) == \A f \in DOMAIN files : IsHandle(files[f]) /\ Finds(files[f], c)

(* What holds of a call in progress, after each of its changes.            *)
Sound(w) ==
    /\ IsWork(w) /\ IsMDB(w.mdb)
    /\ Numbered(w.cat, w.mdb.next)
    /\ AllFind(w.cat)
    /\ w.upd \in BOOLEAN /\ (~ w.upd => w.mdb.next = disk.next)

FilesAreList == files \in Seq(Range(files))

OnMedium == IsMDB(disk) /\ disk.next \in Nat

Inv == Sound(Work(0)) /\ FilesAreList /\ OnMedium

-----------------------------------------------------------------------------
(* A change that fails, for whatever reason, leaves what is there.         *)
LEMMA ChangeSound ==
    ASSUME NEW w, Sound(w), NEW can, NEW changed, w.ok /\ can => Sound(changed)
    PROVE  Sound(Change(w, can, changed))
<1>1. ASSUME NEW v, Sound(v), NEW n PROVE Sound([v EXCEPT !.cut = n])
  <2> DEFINE u == [v EXCEPT !.cut = n]
  <2>1. IsWork(v) BY <1>1 DEF Sound
  <2>2. IsWork(u) /\ u.cat = v.cat /\ u.mdb = v.mdb /\ u.upd = v.upd
    BY <2>1 DEF IsWork, Fields
  <2> QED BY <1>1, <2>2 DEF Sound
<1>2. ASSUME NEW v, Sound(v), NEW o PROVE Sound([v EXCEPT !.ok = o])
  <2> DEFINE u == [v EXCEPT !.ok = o]
  <2>1. IsWork(v) BY <1>2 DEF Sound
  <2>2. IsWork(u) /\ u.cat = v.cat /\ u.mdb = v.mdb /\ u.upd = v.upd
    BY <2>1 DEF IsWork, Fields
  <2> QED BY <1>2, <2>2 DEF Sound
<1>3. ASSUME NEW v, Sound(v), NEW o, NEW h PROVE Sound([v EXCEPT !.ok = o, !.hit = h])
  <2> DEFINE u == [v EXCEPT !.ok = o, !.hit = h]
  <2>1. IsWork(v) BY <1>3 DEF Sound
  <2>2. IsWork(u) /\ u.cat = v.cat /\ u.mdb = v.mdb /\ u.upd = v.upd
    BY <2>1 DEF IsWork, Fields
  <2> QED BY <1>3, <2>2 DEF Sound
<1>4. CASE ~ w.ok BY <1>4 DEF Change
<1>5. CASE w.ok /\ w.cut = 0 BY <1>3, <1>5 DEF Change
<1>6. CASE w.ok /\ w.cut # 0 /\ can BY <1>1, <1>6 DEF Change
<1>7. CASE w.ok /\ w.cut # 0 /\ ~ can BY <1>2, <1>7 DEF Change
<1> QED BY <1>4, <1>5, <1>6, <1>7

(* A call begins with what is there.                                       *)
LEMMA WorkSound ==
    ASSUME Sound(Work(0)), NEW cut
    PROVE  Sound(Work(cut)) /\ Work(cut).ok /\ Work(cut).mdb = mdb /\ Work(cut).cat = cat
<1>1. IsWork(Work(cut)) BY DEF Work, IsWork, Fields
<1>2. /\ Work(cut).ok /\ Work(cut).mdb = mdb /\ Work(cut).cat = cat /\ Work(cut).upd = upd
      /\ Work(0).mdb = mdb /\ Work(0).cat = cat /\ Work(0).upd = upd
  BY DEF Work
<1> QED BY <1>1, <1>2 DEF Sound

(* A record under a number that is not in use keeps numbers apart, and the *)
(* handles find theirs.                                                    *)
LEMMA InsertSound ==
    ASSUME NEW w, Sound(w), NEW key, NEW rec, Placed(key, rec), rec.id \in Nat, rec.id < w.mdb.next,
           w.ok => \A k \in DOMAIN w.cat : w.cat[k].id # rec.id
    PROVE  Sound(Insert(w, key, rec))
<1> DEFINE c == With(w.cat, key, rec)
           v == [w EXCEPT !.cat = With(@, key, rec)]
<1>1. ASSUME w.ok, key \notin DOMAIN w.cat PROVE Sound(v)
  <2>1. IsWork(w) BY DEF Sound
  <2>2. IsWork(v) /\ v.cat = c /\ v.mdb = w.mdb /\ v.upd = w.upd BY <2>1 DEF IsWork, Fields
  <2>3. /\ DOMAIN c = {key} \cup DOMAIN w.cat /\ c[key] = rec
        /\ \A k \in DOMAIN w.cat : c[k] = w.cat[k]
    BY <1>1 DEF With
  <2> HIDE DEF c, v
  <2>4. Numbered(c, w.mdb.next)
    BY <1>1, <2>3 DEF Sound, Numbered
  <2>5. AllFind(c)
    BY <2>3 DEF Sound, AllFind, Finds
  <2> QED BY <2>2, <2>4, <2>5 DEF Sound
<1>2. Sound(Change(w, key \notin DOMAIN w.cat, v)) BY <1>1, ChangeSound
<1> QED BY <1>2 DEF Insert

(* A change that succeeds is made.                                         *)
LEMMA ChangeDone ==
    ASSUME NEW w, IsWork(w), NEW can, NEW changed, IsWork(changed),
           Change(w, can, changed).ok
    PROVE  /\ w.ok /\ can
           /\ Change(w, can, changed).cat = changed.cat
           /\ Change(w, can, changed).mdb = changed.mdb
<1>1. ~ [w EXCEPT !.ok = FALSE].ok /\ ~ [w EXCEPT !.ok = FALSE, !.hit = TRUE].ok
  BY DEF IsWork, Fields
<1>2. /\ [changed EXCEPT !.cut = @ - 1].cat = changed.cat
      /\ [changed EXCEPT !.cut = @ - 1].mdb = changed.mdb
  BY DEF IsWork, Fields
<1> QED BY <1>1, <1>2 DEF Change

(* A key that no handle has may go.                                        *)
LEMMA DeleteSound ==
    ASSUME NEW w, Sound(w), NEW key, \A f \in DOMAIN files : HandleKey(files[f]) # key
    PROVE  /\ Sound(Delete(w, key))
           /\ Delete(w, key).ok => /\ w.ok /\ Delete(w, key).mdb = w.mdb
                                  /\ \A k \in DOMAIN Delete(w, key).cat :
                                        /\ k \in DOMAIN w.cat /\ k # key
                                        /\ Delete(w, key).cat[k] = w.cat[k]
<1> DEFINE c == Restrict(w.cat, DOMAIN w.cat \ {key})
           v == [w EXCEPT !.cat = Restrict(@, DOMAIN @ \ {key})]
<1>1. IsWork(w) BY DEF Sound
<1>2. IsWork(v) /\ v.cat = c /\ v.mdb = w.mdb /\ v.upd = w.upd BY <1>1 DEF IsWork, Fields
<1>3. DOMAIN c = DOMAIN w.cat \ {key} /\ \A k \in DOMAIN c : c[k] = w.cat[k]
  BY DEF Restrict
<1> HIDE DEF c, v
<1>4. Sound(v)
  <2>1. Numbered(c, w.mdb.next) BY <1>3 DEF Sound, Numbered
  <2>2. AllFind(c) BY <1>3 DEF Sound, AllFind, Finds
  <2> QED BY <1>2, <2>1, <2>2 DEF Sound
<1>5. Sound(Change(w, key \in DOMAIN w.cat, v)) BY <1>4, ChangeSound, Zenon
<1>6. ASSUME Change(w, key \in DOMAIN w.cat, v).ok
      PROVE  /\ w.ok /\ Change(w, key \in DOMAIN w.cat, v).mdb = w.mdb
             /\ Change(w, key \in DOMAIN w.cat, v).cat = c
  BY <1>1, <1>2, <1>6, ChangeDone
<1> QED BY <1>3, <1>5, <1>6 DEF Delete, v

(* Threads have no part in this.                                           *)
LEMMA ThreadSound ==
    ASSUME NEW w, Sound(w), NEW id, NEW t
    PROVE  /\ Sound(InsertThread(w, id, t)) /\ Sound(DeleteThread(w, id))
           /\ Sound(PutThread(w, id, t)) /\ Sound(DeleteFileThread(w, id))
<1>1. IsWork(w) BY DEF Sound
<1>2. ASSUME NEW u PROVE Sound([w EXCEPT !.thr = u])
  <2> DEFINE v == [w EXCEPT !.thr = u]
  <2>1. IsWork(v) /\ v.cat = w.cat /\ v.mdb = w.mdb /\ v.upd = w.upd
    BY <1>1 DEF IsWork, Fields
  <2> QED BY <2>1 DEF Sound
<1>3. Sound(InsertThread(w, id, t)) BY <1>2, ChangeSound DEF InsertThread
<1>4. Sound(DeleteThread(w, id)) BY <1>2, ChangeSound DEF DeleteThread
<1>5. Sound(PutThread(w, id, t))
  <2>1. Sound([w EXCEPT !.thr[id] = t]) BY <1>2
  <2> QED BY <2>1, ChangeSound DEF PutThread
<1>6. Sound(DeleteFileThread(w, id)) BY <1>4, ChangeSound DEF DeleteFileThread
<1> QED BY <1>3, <1>4, <1>5, <1>6

(* A record whose number, kind and name stay.                              *)
LEMMA PutSound ==
    ASSUME NEW w, Sound(w), NEW key \in DOMAIN w.cat, NEW rec, IsRecord(rec),
           rec.id = w.cat[key].id, rec.dir = w.cat[key].dir, rec.name = w.cat[key].name
    PROVE  Sound([w EXCEPT !.cat[key] = rec])
<1> DEFINE c == [w.cat EXCEPT ![key] = rec]
           v == [w EXCEPT !.cat[key] = rec]
<1>1. IsWork(w) BY DEF Sound
<1>2. IsWork(v) /\ v.cat = c /\ v.mdb = w.mdb /\ v.upd = w.upd BY <1>1 DEF IsWork, Fields
<1>3. /\ DOMAIN c = DOMAIN w.cat
      /\ \A k \in DOMAIN c : /\ c[k].id = w.cat[k].id /\ c[k].dir = w.cat[k].dir
                            /\ c[k].name = w.cat[k].name /\ (k # key => c[k] = w.cat[k])
      /\ c[key] = rec
  OBVIOUS
<1> HIDE DEF c, v
<1>4. Numbered(c, w.mdb.next)
  <2>1. \A k \in DOMAIN c : Placed(k, c[k]) BY <1>3 DEF Sound, Numbered, Placed
  <2> QED BY <1>3, <2>1 DEF Sound, Numbered
<1>5. AllFind(c) BY <1>3 DEF Sound, AllFind, Finds
<1> QED BY <1>2, <1>4, <1>5 DEF Sound, v

(* Counts have no part in this either.                                     *)
LEMMA CountedSound ==
    ASSUME NEW w, Sound(w), NEW par, NEW isdir \in BOOLEAN, NEW adj
    PROVE  LET c == Counted(w, par, isdir, adj)
           IN  Sound(c) /\ c.cat = w.cat /\ c.thr = w.thr /\ c.ok = w.ok
<1> DEFINE c == Counted(w, par, isdir, adj)
           m == c.mdb
<1>1. IsWork(w) /\ IsMDB(w.mdb) BY DEF Sound
<1>2. /\ IsWork(c) /\ c.cat = w.cat /\ c.thr = w.thr /\ c.ok = w.ok /\ c.upd = TRUE
      /\ c.mdb = IF isdir THEN [w.mdb EXCEPT !.dirs = @ + adj,
                                    !.rtdirs = Short(@ + (IF par = RootDir THEN adj ELSE 0))]
                 ELSE [w.mdb EXCEPT !.files = @ + adj,
                                    !.rtfiles = Short(@ + (IF par = RootDir THEN adj ELSE 0))]
  BY <1>1 DEF Counted, IsWork, Fields
<1> HIDE DEF c
<1>3. IsMDB(c.mdb) /\ c.mdb.next = w.mdb.next
  BY <1>1, <1>2 DEF IsMDB, Fields
<1> QED BY <1>2, <1>3 DEF Sound, c

(* v_adjvalence changes counts.                                            *)
LEMMA AdjSound ==
    ASSUME NEW w, Sound(w), NEW par, NEW isdir \in BOOLEAN, NEW adj
    PROVE  LET v == v_adjvalence(w, par, isdir, adj)
           IN  /\ Sound(v)
               /\ v.ok => /\ w.ok /\ DOMAIN v.cat = DOMAIN w.cat
                         /\ \A k \in DOMAIN w.cat : /\ v.cat[k].id = w.cat[k].id
                                                   /\ v.cat[k].dir = w.cat[k].dir
<1> DEFINE c   == Counted(w, par, isdir, adj)
           key == ParentKey(c, par)
           u   == [c EXCEPT !.cat[key].val = Short(@ + adj)]
           v   == v_adjvalence(w, par, isdir, adj)
<1>1. Sound(c) /\ c.cat = w.cat /\ c.ok = w.ok BY CountedSound
<1> HIDE DEF c
<1>2. CASE ~ w.ok
  <2>1. v = w BY <1>2 DEF v_adjvalence
  <2> QED BY <1>2, <2>1
<1>3. CASE w.ok /\ par = RootPar
  <2>1. v = c BY <1>3 DEF v_adjvalence, c
  <2> QED BY <1>1, <1>3, <2>1
<1>4. CASE w.ok /\ par # RootPar
  <2>1. v = Change(c, HasParent(c, par), u) BY <1>4 DEF v_adjvalence, c
  <2> DEFINE rec == [c.cat[key] EXCEPT !.val = Short(@ + adj)]
  <2>2. ASSUME HasParent(c, par)
        PROVE  /\ Sound(u) /\ IsWork(u) /\ DOMAIN u.cat = DOMAIN c.cat
               /\ \A k \in DOMAIN c.cat : /\ u.cat[k].id = c.cat[k].id
                                         /\ u.cat[k].dir = c.cat[k].dir
    <3>1. key \in DOMAIN c.cat BY <2>2 DEF HasParent
    <3>2. IsRecord(c.cat[key]) BY <1>1, <3>1 DEF Sound, Numbered, Placed
    <3>3. /\ IsRecord(rec) /\ rec.id = c.cat[key].id /\ rec.dir = c.cat[key].dir
          /\ rec.name = c.cat[key].name
      BY <3>2 DEF IsRecord, Fields
    <3>4. u = [c EXCEPT !.cat[key] = rec] OBVIOUS
    <3> HIDE DEF rec, u, key
    <3>5. Sound(u) BY <1>1, <3>1, <3>3, <3>4, PutSound
    <3>6. IsWork(c) BY <1>1 DEF Sound
    <3>7. u.cat = [c.cat EXCEPT ![key] = rec] BY <3>4, <3>6 DEF IsWork, Fields
    <3> QED BY <3>1, <3>3, <3>5, <3>7 DEF Sound
  <2> HIDE DEF u, key
  <2>3. Sound(Change(c, HasParent(c, par), u)) BY <1>1, <2>2, ChangeSound
  <2>4. ASSUME Change(c, HasParent(c, par), u).ok
        PROVE  HasParent(c, par) /\ Change(c, HasParent(c, par), u).cat = u.cat
    <3>1. IsWork(c) BY <1>1 DEF Sound
    <3>2. ~ [c EXCEPT !.ok = FALSE].ok /\ ~ [c EXCEPT !.ok = FALSE, !.hit = TRUE].ok
      BY <3>1 DEF IsWork, Fields
    <3>3. HasParent(c, par) BY <2>4, <3>2 DEF Change
    <3>4. [u EXCEPT !.cut = @ - 1].cat = u.cat BY <2>2, <3>3 DEF IsWork, Fields
    <3> QED BY <2>4, <3>2, <3>3, <3>4 DEF Change
  <2> QED BY <1>1, <1>4, <2>1, <2>2, <2>3, <2>4
<1> QED BY <1>2, <1>3, <1>4

(* v_adjvalence changes no number and no kind of any record. *)
LEMMA AdjKeeps ==
    ASSUME NEW w, Sound(w), NEW par, NEW isdir \in BOOLEAN, NEW adj,
           NEW v, v = v_adjvalence(w, par, isdir, adj), v.ok
    PROVE  /\ w.ok /\ DOMAIN v.cat = DOMAIN w.cat
           /\ \A k \in DOMAIN w.cat : v.cat[k].id = w.cat[k].id /\ v.cat[k].dir = w.cat[k].dir
BY AdjSound

(* A new number is above those in use.                                     *)
LEMMA NewNumberSound ==
    ASSUME NEW w, Sound(w)
    PROVE  LET v == NewNumber(w)
           IN  Sound(v) /\ v.mdb.next = w.mdb.next + 1 /\ v.cat = w.cat /\ v.ok = w.ok
<1> DEFINE v == NewNumber(w)
           m == [w.mdb EXCEPT !.next = @ + 1]
<1>1. IsWork(w) /\ IsMDB(w.mdb) BY DEF Sound
<1>2. IsWork(v) /\ v.cat = w.cat /\ v.mdb = m /\ v.upd = TRUE /\ v.ok = w.ok
  BY <1>1 DEF NewNumber, IsWork, Fields
<1>3. IsMDB(m) /\ m.next = w.mdb.next + 1 BY <1>1 DEF IsMDB, Fields
<1> HIDE DEF v, m
<1>4. Numbered(w.cat, m.next) BY <1>3 DEF Sound, Numbered
<1> QED BY <1>2, <1>3, <1>4 DEF Sound, v

(* An entry that a call makes: the record of a file or directory under the *)
(* next number.                                                            *)
LEMMA EntrySound ==
    ASSUME NEW w, Sound(w), NEW par, NEW rec, IsRecord(rec), rec.id = w.mdb.next
    PROVE  LET v == Insert(NewNumber(w), Key(par, rec.name), rec)
           IN  /\ Sound(v)
               /\ v.ok => Key(par, rec.name) \in DOMAIN v.cat /\ v.cat[Key(par, rec.name)] = rec
<1> DEFINE u   == NewNumber(w)
           key == Key(par, rec.name)
           x   == [u EXCEPT !.cat = With(@, key, rec)]
<1>1. Sound(u) /\ u.mdb.next = w.mdb.next + 1 /\ u.cat = w.cat BY NewNumberSound
<1> HIDE DEF u
<1>2. Placed(key, rec) BY DEF Placed, Key
<1>3. w.mdb.next \in Nat /\ \A k \in DOMAIN w.cat : w.cat[k].id \in Nat /\ w.cat[k].id < w.mdb.next
  BY DEF Sound, Numbered
<1>4. rec.id \in Nat /\ rec.id < u.mdb.next /\ \A k \in DOMAIN u.cat : u.cat[k].id # rec.id
  BY <1>1, <1>3
<1> HIDE DEF key
<1>5. Sound(Insert(u, key, rec)) BY <1>1, <1>2, <1>4, InsertSound
<1>6. ASSUME Insert(u, key, rec).ok
      PROVE  key \in DOMAIN Insert(u, key, rec).cat /\ Insert(u, key, rec).cat[key] = rec
  <2>1. IsWork(u) BY <1>1 DEF Sound
  <2>2. IsWork(x) /\ x.cat = With(u.cat, key, rec) BY <2>1 DEF IsWork, Fields
  <2>3. key \in DOMAIN x.cat /\ x.cat[key] = rec BY <2>2 DEF With
  <2> HIDE DEF x
  <2>4. Change(u, key \notin DOMAIN u.cat, x).ok BY <1>6 DEF Insert, x
  <2>5. Change(u, key \notin DOMAIN u.cat, x).cat = x.cat BY <2>1, <2>2, <2>4, ChangeDone
  <2> QED BY <2>3, <2>5 DEF Insert, x
<1> QED BY <1>5, <1>6 DEF u, key

(* hfs_rename: the record goes from one key to another.                    *)
LEMMA RenamedSound ==
    ASSUME NEW w, Sound(w), w.cat = cat, NEW s, s.key \in DOMAIN cat, ~ IsOpen(s.key),
           NEW par, NEW name
    PROVE  Sound(Renamed(w, s, par, name))
<1> DEFINE rec == [Rec(s) EXCEPT !.name = name]
           n   == Named(w, par, name)
           d   == Delete(n, s.key)
           a   == Insert(d, Key(par, name), rec)
           b   == ThreadMoved(a, rec, par, name)
<1>1. /\ IsRecord(cat[s.key]) /\ cat[s.key].id \in Nat /\ cat[s.key].id < w.mdb.next
      /\ \A k \in DOMAIN cat : k # s.key => cat[k].id # cat[s.key].id
  BY DEF Sound, Numbered, Placed
<1>2. IsRecord(rec) /\ rec.name = name /\ rec.id = cat[s.key].id /\ rec.dir = cat[s.key].dir
  BY <1>1 DEF Rec, IsRecord, Fields
<1> HIDE DEF rec
<1>3. Sound(n) /\ n.cat = cat /\ n.mdb.next = w.mdb.next
  <2>1. CASE par # RootPar BY <2>1 DEF Named
  <2>2. CASE par = RootPar
    <3>1. IsWork(w) /\ IsMDB(w.mdb) BY DEF Sound
    <3>2. n = [w EXCEPT !.mdb = [w.mdb EXCEPT !.vn = name], !.upd = TRUE] BY <2>2 DEF Named
    <3> DEFINE m == [w.mdb EXCEPT !.vn = name]
    <3>3. IsMDB(m) /\ m.next = w.mdb.next BY <3>1 DEF IsMDB, Fields
    <3> HIDE DEF m, n
    <3>4. IsWork(n) /\ n.cat = w.cat /\ n.mdb = m /\ n.upd = TRUE
      BY <3>1, <3>2 DEF IsWork, Fields, m
    <3> QED BY <3>3, <3>4 DEF Sound
  <2> QED BY <2>1, <2>2
<1> HIDE DEF n
<1>4. \A f \in DOMAIN files : HandleKey(files[f]) # s.key BY DEF IsOpen, HandleKey
<1>5. /\ Sound(d)
      /\ d.ok => /\ d.mdb = n.mdb
                /\ \A k \in DOMAIN d.cat : k \in DOMAIN n.cat /\ k # s.key /\ d.cat[k] = n.cat[k]
  BY <1>3, <1>4, DeleteSound
<1> HIDE DEF d
<1>6. Sound(a)
  <2>1. CASE d.ok
    <3>1. Placed(Key(par, name), rec) BY <1>2 DEF Placed, Key
    <3>2. rec.id \in Nat /\ rec.id < d.mdb.next BY <1>1, <1>2, <1>3, <1>5, <2>1
    <3>3. \A k \in DOMAIN d.cat : d.cat[k].id # rec.id BY <1>1, <1>2, <1>3, <1>5, <2>1
    <3> QED BY <1>5, <3>1, <3>2, <3>3, InsertSound
  <2>2. CASE ~ d.ok
    <3>1. a = d BY <2>2 DEF Insert, Change
    <3> QED BY <1>5, <3>1
  <2> QED BY <2>1, <2>2
<1> HIDE DEF a
<1>7. Sound(b) BY <1>6, ThreadSound DEF ThreadMoved
<1>8. rec.dir \in BOOLEAN BY <1>2 DEF IsRecord
<1> HIDE DEF b
<1>9. Sound(v_adjvalence(v_adjvalence(b, s.par, rec.dir, -1), par, rec.dir, 1))
  <2>1. Sound(v_adjvalence(b, s.par, rec.dir, -1)) BY <1>7, <1>8, AdjSound
  <2> QED BY <1>8, <2>1, AdjSound
<1>10. Renamed(w, s, par, name) = IF s.par = par THEN b
            ELSE v_adjvalence(v_adjvalence(b, s.par, rec.dir, -1), par, rec.dir, 1)
  BY DEF Renamed, b, a, d, n, rec
<1> QED BY <1>7, <1>9, <1>10

(* f_flush: the handle finds its record.                                   *)
LEMMA FlushSound ==
    ASSUME NEW w, Sound(w), NEW f \in DOMAIN files
    PROVE  Sound(f_flush(w, files[f]))
<1> DEFINE h   == files[f]
           key == HandleKey(h)
           rec == PutAt(h, w.cat[key])
<1>1. /\ key \in DOMAIN w.cat /\ w.cat[key].id = h.id /\ ~ w.cat[key].dir
      /\ IsRecord(w.cat[key])
  BY DEF Sound, AllFind, Finds, Numbered, Placed
<1>2. /\ IsRecord(rec) /\ rec.id = w.cat[key].id /\ rec.dir = w.cat[key].dir
      /\ rec.name = w.cat[key].name
  BY <1>1 DEF PutAt, IsRecord, Fields
<1> HIDE DEF rec, key
<1>3. Sound([w EXCEPT !.cat[key] = rec]) BY <1>1, <1>2, PutSound
<1>4. Sound([w EXCEPT !.cat[HandleKey(h)] = PutAt(h, @)]) BY <1>3 DEF rec, key
<1> QED BY <1>4, ChangeSound DEF f_flush

(* A path that was found to lead somewhere.                                *)
LEMMA ResolvedFinds ==
    ASSUME Sound(Work(0)), NEW r \in Resolved, r.found
    PROVE  r.key \in DOMAIN cat /\ r.key = Key(r.par, cat[r.key].name)
<1> DEFINE Right(q) == q.found => q.key \in DOMAIN cat /\ q.key[1] = q.par
           Whole(q) == Fields(q, {"found", "key", "par", "name"})
<1>1. ASSUME NEW par, NEW name, NEW otherwise
      PROVE  Right(EndsAt(par, name, otherwise)) /\ Whole(EndsAt(par, name, otherwise))
  BY DEF EndsAt, Key, Fields
<1>2. ASSUME NEW q PROVE Right(Nowhere(q)) /\ Whole(Nowhere(q)) BY DEF Nowhere, Fields
<1>3. PICK p \in scope.paths : r \in Results(p) BY DEF Resolved
<1>4. Right(v_resolve(p)) /\ Whole(v_resolve(p))
  <2> HIDE DEF Right, Whole
  <2>1. ASSUME NEW q PROVE Right(EndsInDir(q)) /\ Whole(EndsInDir(q))
    BY <1>1, <1>2 DEF EndsInDir
  <2>2. ASSUME NEW q, NEW n PROVE Right(EndsInName(q, n)) /\ Whole(EndsInName(q, n))
    BY <1>1, <1>2 DEF EndsInName
  <2> QED BY <2>1, <2>2 DEF v_resolve
<1>5. ASSUME NEW q \in Read(v_resolve(p)) PROVE Right(q)
  <2> DEFINE v == v_resolve(p)
  <2>1. CASE q = v BY <1>4, <2>1
  <2>2. CASE ~ v.found /\ \E n \in Names : q = [v EXCEPT !.name = n]
    BY <1>4, <2>2 DEF Fields
  <2> QED BY <2>1, <2>2 DEF Read
<1>6. Right(r) BY <1>3, <1>5 DEF Results
<1>7. Placed(r.key, cat[r.key])
  <2>1. r.key \in DOMAIN cat BY <1>6
  <2>2. Work(0).cat = cat BY DEF Work
  <2> QED BY <2>1, <2>2 DEF Sound, Numbered
<1> QED BY <1>6, <1>7 DEF Placed, Key

-----------------------------------------------------------------------------
(* A list and what it gets or loses.                                       *)
LEMMA ListWith ==
    ASSUME FilesAreList, NEW h
    PROVE  LET list == <<h>> \o files
           IN  /\ list \in Seq(Range(list))
               /\ \A i \in DOMAIN list : list[i] = h \/ \E f \in DOMAIN files : list[i] = files[f]
<1> DEFINE S    == Range(files) \cup {h}
           list == <<h>> \o files
<1>1. files \in Seq(S) BY SeqMonotonic DEF FilesAreList
<1>2. <<h>> \in Seq(S) OBVIOUS
<1> HIDE DEF S
<1>3. list \in Seq(S) BY <1>1, <1>2, ConcatProperties
<1> HIDE DEF list
<1>4. list \in Seq(Range(list)) BY <1>3, SeqOfRange
<1>5. \A i \in DOMAIN list : list[i] \in S BY <1>3, LenProperties, ElementOfSeq
<1> QED BY <1>4, <1>5 DEF S, Range, list

(* Closing a file leaves a list of the other files. *)
LEMMA ListWithout ==
    ASSUME FilesAreList, NEW f \in DOMAIN files
    PROVE  LET list == RemoveAt(files, f)
           IN  /\ list \in Seq(Range(list))
               /\ \A i \in DOMAIN list : \E g \in DOMAIN files : list[i] = files[g]
<1> DEFINE S    == Range(files)
           n    == Len(files)
           list == RemoveAt(files, f)
<1>1. files \in Seq(S) BY DEF FilesAreList
<1>2. n \in Nat /\ DOMAIN files = 1 .. n /\ \A i \in 1 .. n : files[i] \in S
  BY <1>1, LenProperties, ElementOfSeq
<1>3. f \in Int /\ f - 1 \in Int /\ f + 1 \in Int /\ 1 <= f /\ f <= n BY <1>2
<1> HIDE DEF S, n
<1>4. (\A i \in 1 .. f - 1 : files[i] \in S) /\ (\A i \in f + 1 .. n : files[i] \in S)
  BY <1>2, <1>3
<1>5. SubSeq(files, 1, f - 1) \in Seq(S) BY <1>3, <1>4, SubSeqProperties
<1>6. SubSeq(files, f + 1, n) \in Seq(S) BY <1>2, <1>3, <1>4, SubSeqProperties
<1>7. list = SubSeq(files, 1, f - 1) \o SubSeq(files, f + 1, n) BY DEF RemoveAt, n
<1>8. list \in Seq(S) BY <1>5, <1>6, <1>7, ConcatProperties
<1> HIDE DEF list
<1>9. list \in Seq(Range(list)) BY <1>8, SeqOfRange
<1>10. \A i \in DOMAIN list : list[i] \in S BY <1>8, LenProperties, ElementOfSeq
<1> QED BY <1>9, <1>10 DEF S, Range, list

(* A list with a change at some of its places.                             *)
LEMMA ListChanged ==
    ASSUME FilesAreList, NEW list, DOMAIN list = DOMAIN files,
           list = [f \in DOMAIN files |-> list[f]]
    PROVE  list \in Seq(Range(list))
<1>1. Len(files) \in Nat /\ DOMAIN files = 1 .. Len(files)
  BY LenProperties DEF FilesAreList
<1>2. list \in [1 .. Len(files) -> Range(list)] BY <1>1 DEF Range
<1> QED BY <1>1, <1>2

(* When a call is done, what held of it holds of the state.                *)
LEMMA DoneInv ==
    ASSUME NEW w, Sound(w), Done(w), OnMedium, disk' = disk, FilesAreList',
           \A f \in DOMAIN files' : IsHandle(files'[f]) /\ Finds(files'[f], w.cat)
    PROVE  Inv'
<1>1. /\ Work(0)' = [cat |-> w.cat, thr |-> w.thr, mdb |-> w.mdb, upd |-> w.upd, ok |-> TRUE,
                     cut |-> 0, hit |-> FALSE]
  BY DEF Done, Work
<1>2. IsWork(Work(0)') /\ Work(0)'.cat = w.cat /\ Work(0)'.mdb = w.mdb /\ Work(0)'.upd = w.upd
  BY <1>1 DEF IsWork, Fields
<1>3. AllFind(w.cat)' BY DEF AllFind
<1>4. Sound(Work(0))' BY <1>2, <1>3 DEF Sound, AllFind
<1> QED BY <1>4 DEF Inv, OnMedium

(* The same when the list of files stays.                                  *)
LEMMA DoneKept ==
    ASSUME Inv, NEW w, Sound(w), Done(w), UNCHANGED <<disk, files>>
    PROVE  Inv'
<1>1. FilesAreList' BY DEF Inv, FilesAreList
<1>2. \A f \in DOMAIN files' : IsHandle(files'[f]) /\ Finds(files'[f], w.cat)
  BY DEF Sound, AllFind
<1> QED BY <1>1, <1>2, DoneInv DEF Inv

-----------------------------------------------------------------------------
(* Initially.                                                              *)
LEMMA InitInv == Init => Inv
<1> SUFFICES ASSUME Init PROVE Inv OBVIOUS
<1>1. files = << >> /\ disk = mdb /\ upd = FALSE BY DEF Init
<1>2. IsMDB(mdb) /\ Numbered(cat, mdb.next)
  <2>1. CASE Fresh
    <3>1. IsMDB(mdb) /\ mdb.next = 16 BY <2>1 DEF Fresh, IsMDB, Fields, FirstNum
    <3>2. DOMAIN cat = {RootKey} /\ cat[RootKey] = Dir(2, VolName)
      BY <2>1 DEF Fresh, RootRecord, RootDir
    <3>3. Placed(RootKey, Dir(2, VolName)) BY DEF Placed, RootKey, Key, Dir, IsRecord, Fields
    <3>4. Dir(2, VolName).id = 2 BY DEF Dir
    <3> QED BY <3>1, <3>2, <3>3, <3>4 DEF Numbered
  <2>2. CASE Foreign
    <3>1. PICK n \in scope.foreign :
             /\ cat = With([RootRecord EXCEPT ![RootKey].val = 1],
                           Key(RootDir, n), File(FirstNum, n))
             /\ mdb = [vn |-> VolName, next |-> FirstNum + 1, dirs |-> 0, files |-> 1,
                       rtdirs |-> 0, rtfiles |-> 1]
      BY <2>2 DEF Foreign
    <3> DEFINE key == Key(RootDir, n)
               top == [Dir(RootDir, VolName) EXCEPT !.val = 1]
    <3>2. IsMDB(mdb) /\ mdb.next = 17 BY <3>1 DEF IsMDB, Fields, FirstNum
    <3>3. key # RootKey BY DEF Key, RootKey, RootDir, RootPar
    <3>4. /\ DOMAIN cat = {RootKey, key} /\ cat[key] = File(16, n)
          /\ cat[RootKey] = top
      BY <3>1, <3>3 DEF With, RootRecord, FirstNum
    <3>5. Placed(RootKey, top) /\ top.id = 2
      BY DEF Placed, RootKey, Key, Dir, IsRecord, Fields, RootDir
    <3>6. Placed(key, File(16, n)) /\ File(16, n).id = 16
      BY DEF Placed, Key, File, IsRecord, Fields
    <3> HIDE DEF key, top
    <3> QED BY <3>2, <3>4, <3>5, <3>6 DEF Numbered
  <2> QED BY <2>1, <2>2 DEF Init
<1>3. FilesAreList /\ AllFind(cat)
  <2>1. DOMAIN files = {} BY <1>1
  <2>2. files \in Seq(Range(files)) BY <1>1
  <2> QED BY <2>1, <2>2 DEF FilesAreList, AllFind
<1>4. OnMedium BY <1>1, <1>2 DEF OnMedium, Numbered
<1>5. /\ IsWork(Work(0)) /\ Work(0).cat = cat /\ Work(0).mdb = mdb /\ Work(0).upd = upd
  BY DEF Work, IsWork, Fields
<1>6. Sound(Work(0)) BY <1>1, <1>2, <1>3, <1>5 DEF Sound
<1> QED BY <1>3, <1>4, <1>6 DEF Inv

(* When no call is in progress.                                            *)
Quiet == /\ IsMDB(mdb) /\ Numbered(cat, mdb.next) /\ AllFind(cat)
         /\ upd \in BOOLEAN /\ (~ upd => mdb.next = disk.next)
         /\ FilesAreList /\ OnMedium

(* Inv, said of the variables themselves. *)
LEMMA InvNow == Inv <=> Quiet
<1>1. /\ IsWork(Work(0)) /\ Work(0).cat = cat /\ Work(0).mdb = mdb /\ Work(0).upd = upd
  BY DEF Work, IsWork, Fields
<1> QED BY <1>1 DEF Inv, Sound, Quiet

(* The same of the next state. *)
LEMMA InvNext == Inv' <=> Quiet'
<1>1. /\ IsWork(Work(0))' /\ (Work(0).cat)' = cat' /\ (Work(0).mdb)' = mdb'
      /\ (Work(0).upd)' = upd'
  BY DEF Work, IsWork, Fields
<1> QED BY <1>1 DEF Inv, Sound, Quiet, AllFind

(* The calls that change the tree and keep the list of files.              *)
LEMMA TreeCallInv ==
    ASSUME Inv, NEW r \in Resolved, hfs_mkdir(r) \/ hfs_rmdir(r) \/ hfs_delete(r)
    PROVE  Inv'
<1>1. Sound(Work(0)) BY DEF Inv
<1>2. CASE hfs_mkdir(r)
  <2>1. PICK cut \in Cuts : Done(v_mkdir(Work(cut), r.par, r.name))
    BY <1>2 DEF hfs_mkdir
  <2> DEFINE w   == Work(cut)
             rec == Dir(w.mdb.next, r.name)
             a   == Insert(NewNumber(w), Key(r.par, r.name), rec)
             b   == InsertThread(a, w.mdb.next, Thread(TRUE, r.par, r.name))
  <2>2. Sound(w) BY <1>1, WorkSound
  <2>3. IsRecord(rec) /\ rec.id = w.mdb.next /\ rec.name = r.name BY DEF Dir, IsRecord, Fields
  <2> HIDE DEF w, rec
  <2>4. Sound(a) BY <2>2, <2>3, EntrySound
  <2> HIDE DEF a
  <2>5. Sound(b) BY <2>4, ThreadSound
  <2> HIDE DEF b
  <2>6. Sound(v_adjvalence(b, r.par, TRUE, 1)) BY <2>5, AdjSound
  <2>7. Done(v_adjvalence(b, r.par, TRUE, 1)) BY <2>1 DEF v_mkdir, b, a, rec, w
  <2> QED BY <1>2, <2>6, <2>7, DoneKept DEF hfs_mkdir
<1>3. CASE hfs_rmdir(r)
  <2>1. PICK cut \in Cuts :
           Done(v_adjvalence(DeleteThread(Delete(Work(cut), r.key), Rec(r).id), r.par, TRUE, -1))
    BY <1>3 DEF hfs_rmdir
  <2> DEFINE w == DeleteThread(Delete(Work(cut), r.key), Rec(r).id)
  <2>2. Sound(Work(cut)) BY <1>1, WorkSound
  <2>3. \A f \in DOMAIN files : HandleKey(files[f]) # r.key
    <3>1. cat[r.key].dir BY <1>3 DEF hfs_rmdir, Rec
    <3>2. AllFind(cat) BY <1>1 DEF Sound, Work
    <3> QED BY <3>1, <3>2 DEF AllFind, Finds
  <2>4. Sound(w) BY <2>2, <2>3, DeleteSound, ThreadSound
  <2> HIDE DEF w
  <2>5. Sound(v_adjvalence(w, r.par, TRUE, -1)) BY <2>4, AdjSound
  <2> QED BY <1>3, <2>1, <2>5, DoneKept DEF hfs_rmdir, w
<1>4. CASE hfs_delete(r)
  <2>1. PICK cut \in Cuts :
           Done(DeleteFileThread(v_adjvalence(Delete(Work(cut), r.key), r.par, FALSE, -1),
                                 Rec(r).id))
    BY <1>4 DEF hfs_delete
  <2> DEFINE w == v_adjvalence(Delete(Work(cut), r.key), r.par, FALSE, -1)
  <2>2. Sound(Work(cut)) BY <1>1, WorkSound
  <2>3. \A f \in DOMAIN files : HandleKey(files[f]) # r.key
    BY <1>4 DEF hfs_delete, IsOpen, HandleKey
  <2>4. Sound(w) BY <2>2, <2>3, DeleteSound, AdjSound
  <2> HIDE DEF w
  <2>5. Sound(DeleteFileThread(w, Rec(r).id)) BY <2>4, ThreadSound
  <2> QED BY <1>4, <2>1, <2>5, DoneKept DEF hfs_delete, w
<1> QED BY <1>2, <1>3, <1>4

(* hfs_rename keeps Inv wherever it is cut short. *)
LEMMA RenameInv ==
    ASSUME Inv, NEW s \in Resolved, NEW d, hfs_rename(s, d)
    PROVE  Inv'
<1>1. Sound(Work(0)) BY DEF Inv
<1>2. s.found /\ ~ IsOpen(s.key) /\ UNCHANGED <<disk, files>> BY DEF hfs_rename
<1>3. s.key \in DOMAIN cat BY <1>1, <1>2, ResolvedFinds
<1>4. PICK cut \in Cuts : Done(Renamed(Work(cut), s, Target(s, d).par, Chosen(Target(s, d), d)))
  BY DEF hfs_rename
<1>5. Sound(Work(cut)) /\ Work(cut).cat = cat BY <1>1, WorkSound
<1>6. Sound(Renamed(Work(cut), s, Target(s, d).par, Chosen(Target(s, d), d)))
  BY <1>2, <1>3, <1>5, RenamedSound
<1> QED BY <1>2, <1>4, <1>6, DoneKept

(* The calls that change the list of files.                                *)
LEMMA OpenInv ==
    ASSUME Inv, NEW r \in Resolved, hfs_create(r) \/ hfs_open(r)
    PROVE  Inv'
<1>1. Sound(Work(0)) /\ FilesAreList /\ OnMedium BY DEF Inv
<1>2. ASSUME NEW par, NEW rec PROVE IsHandle(Handle(par, rec)) BY DEF Handle, IsHandle, Fields
<1>3. CASE hfs_create(r)
  <2>1. PICK cut \in Cuts :
          LET rec == File(mdb.next, r.name)
              w   == v_adjvalence(Insert(NewNumber(Work(cut)), Key(r.par, r.name), rec),
                                  r.par, FALSE, 1)
          IN  Done(w) /\ files' = IF w.ok THEN <<Handle(r.par, rec)>> \o files ELSE files
    BY <1>3 DEF hfs_create
  <2> DEFINE rec == File(mdb.next, r.name)
             a   == Insert(NewNumber(Work(cut)), Key(r.par, r.name), rec)
             w   == v_adjvalence(a, r.par, FALSE, 1)
             h   == Handle(r.par, rec)
  <2>2. Sound(Work(cut)) /\ Work(cut).mdb = mdb BY <1>1, WorkSound
  <2>3. IsRecord(rec) /\ rec.id = Work(cut).mdb.next /\ rec.name = r.name /\ ~ rec.dir
    BY <2>2 DEF File, IsRecord, Fields
  <2>4. Done(w) /\ files' = IF w.ok THEN <<h>> \o files ELSE files BY <2>1
  <2>5. HandleKey(h) = Key(r.par, r.name) /\ h.id = rec.id BY <2>3 DEF Handle, HandleKey
  <2>6. IsHandle(h) BY <1>2
  <2> HIDE DEF rec, h
  <2>7. Sound(a) /\ (a.ok => Key(r.par, r.name) \in DOMAIN a.cat /\ a.cat[Key(r.par, r.name)] = rec)
    BY <2>2, <2>3, EntrySound
  <2> HIDE DEF a
  <2>8. /\ Sound(w)
        /\ w.ok => /\ a.ok /\ DOMAIN w.cat = DOMAIN a.cat
                  /\ \A k \in DOMAIN a.cat :
                        w.cat[k].id = a.cat[k].id /\ w.cat[k].dir = a.cat[k].dir
    <3>1. Sound(w) BY <2>7, AdjSound
    <3>2. w = v_adjvalence(a, r.par, FALSE, 1) OBVIOUS
    <3> HIDE DEF w
    <3>3. ASSUME w.ok
          PROVE  /\ a.ok /\ DOMAIN w.cat = DOMAIN a.cat
                 /\ \A k \in DOMAIN a.cat :
                        w.cat[k].id = a.cat[k].id /\ w.cat[k].dir = a.cat[k].dir
      <4> DEFINE isdir == FALSE
      <4>1. isdir \in BOOLEAN /\ w = v_adjvalence(a, r.par, isdir, 1) BY <3>2
      <4> HIDE DEF isdir
      <4> QED BY <2>7, <3>3, <4>1, AdjKeeps
    <3> QED BY <3>1, <3>3
  <2> HIDE DEF w
  <2>9. w.ok => Finds(h, w.cat)
    <3> SUFFICES ASSUME w.ok PROVE Finds(h, w.cat) OBVIOUS
    <3> DEFINE key == Key(r.par, r.name)
    <3>1. key \in DOMAIN a.cat /\ a.cat[key] = rec BY <2>7, <2>8
    <3> HIDE DEF key
    <3>2. key \in DOMAIN w.cat /\ w.cat[key].id = rec.id /\ w.cat[key].dir = rec.dir
      BY <2>8, <3>1
    <3>3. HandleKey(h) = key BY <2>5 DEF key
    <3> QED BY <2>3, <2>5, <3>2, <3>3 DEF Finds
  <2>10. FilesAreList'
    <3>1. CASE w.ok BY <1>1, <2>4, <3>1, ListWith DEF FilesAreList
    <3>2. CASE ~ w.ok BY <1>1, <2>4, <3>2 DEF FilesAreList
    <3> QED BY <3>1, <3>2
  <2>11. \A f \in DOMAIN files' : IsHandle(files'[f]) /\ Finds(files'[f], w.cat)
    <3>1. AllFind(w.cat) BY <2>8 DEF Sound
    <3>2. CASE w.ok
      <4>1. files' = <<h>> \o files BY <2>4, <3>2
      <4>2. \A i \in DOMAIN files' : files'[i] = h \/ \E f \in DOMAIN files : files'[i] = files[f]
        BY <1>1, <4>1, ListWith
      <4> QED BY <2>6, <2>9, <3>1, <3>2, <4>2 DEF AllFind
    <3>3. CASE ~ w.ok BY <2>4, <3>1, <3>3 DEF AllFind
    <3> QED BY <3>2, <3>3
  <2>12. disk' = disk BY <1>3 DEF hfs_create
  <2> QED BY <1>1, <2>4, <2>8, <2>10, <2>11, <2>12, DoneInv
<1>4. CASE hfs_open(r)
  <2> DEFINE h == Handle(r.par, Rec(r))
  <2>1. /\ r.found /\ ~ cat[r.key].dir /\ files' = <<h>> \o files
        /\ UNCHANGED <<cat, thr, mdb, disk, upd, faults>>
    BY <1>4 DEF hfs_open, Rec
  <2>2. r.key \in DOMAIN cat /\ r.key = Key(r.par, cat[r.key].name)
    BY <1>1, <2>1, ResolvedFinds
  <2>3. HandleKey(h) = r.key /\ h.id = cat[r.key].id BY <2>2 DEF Handle, HandleKey, Rec
  <2>4. IsHandle(h) /\ Finds(h, cat) BY <1>2, <2>1, <2>2, <2>3 DEF Finds
  <2> HIDE DEF h
  <2>5. /\ FilesAreList'
        /\ \A i \in DOMAIN files' : files'[i] = h \/ \E f \in DOMAIN files : files'[i] = files[f]
    BY <1>1, <2>1, ListWith DEF FilesAreList
  <2>6. Quiet BY InvNow
  <2>7. AllFind(cat)' BY <2>1, <2>4, <2>5, <2>6 DEF AllFind, Quiet
  <2>8. Quiet' BY <2>1, <2>5, <2>6, <2>7 DEF Quiet, OnMedium
  <2> QED BY <2>8, InvNext
<1> QED BY <1>3, <1>4

(* hfs_close keeps Inv. *)
LEMMA CloseInv ==
    ASSUME Inv, NEW f \in DOMAIN files, hfs_close(f)
    PROVE  Inv'
<1>1. Sound(Work(0)) /\ FilesAreList /\ OnMedium BY DEF Inv
<1>2. PICK cut \in Cuts : Done(f_flush(Work(cut), files[f])) BY DEF hfs_close
<1> DEFINE w == f_flush(Work(cut), files[f])
<1>3. Sound(Work(cut)) BY <1>1, WorkSound
<1>4. Sound(w) BY <1>3, FlushSound
<1> HIDE DEF w
<1>5. files' = RemoveAt(files, f) /\ disk' = disk BY DEF hfs_close
<1>6. FilesAreList' /\ \A i \in DOMAIN files' : \E g \in DOMAIN files : files'[i] = files[g]
  BY <1>1, <1>5, ListWithout DEF FilesAreList
<1>7. \A i \in DOMAIN files' : IsHandle(files'[i]) /\ Finds(files'[i], w.cat)
  BY <1>4, <1>6 DEF Sound, AllFind
<1>8. Done(w) BY <1>2 DEF w
<1> QED BY <1>1, <1>4, <1>5, <1>6, <1>7, <1>8, DoneInv

(* The flush of several handles leaves numbers, kinds and names.           *)
LEMMA AllPutKeeps ==
    ASSUME Inv, NEW F \in SUBSET DOMAIN files
    PROVE  LET c == AllPut(F)
           IN  /\ Numbered(c, mdb.next)
               /\ \A h : IsHandle(h) /\ Finds(h, cat) => Finds(h, c)
<1> DEFINE c == AllPut(F)
           Mine(key) == {f \in F : files[f].upd /\ HandleKey(files[f]) = key}
<1>1. Numbered(cat, mdb.next) /\ AllFind(cat) BY InvNow DEF Quiet
<1>2. Len(files) \in Nat /\ DOMAIN files = 1 .. Len(files)
  BY LenProperties DEF Inv, FilesAreList
<1>3. DOMAIN c = DOMAIN cat BY DEF AllPut
<1>4. ASSUME NEW key \in DOMAIN cat
      PROVE  /\ IsRecord(c[key]) /\ c[key].id = cat[key].id /\ c[key].dir = cat[key].dir
             /\ c[key].name = cat[key].name
  <2>1. IsRecord(cat[key]) BY <1>1 DEF Numbered, Placed
  <2>2. c[key] = IF Mine(key) = {} THEN cat[key] ELSE PutAt(files[Max(Mine(key))], cat[key])
    BY DEF AllPut
  <2>3. CASE Mine(key) = {} BY <2>1, <2>2, <2>3
  <2>4. CASE Mine(key) # {}
    <3> DEFINE f == Max(Mine(key))
    <3>1. Mine(key) \in SUBSET (0 .. Len(files)) BY <1>2
    <3>2. f \in Mine(key)
      <4> HIDE DEF Mine
      <4> QED BY <1>2, <2>4, <3>1, MaxOf
    <3> HIDE DEF f
    <3>3. f \in DOMAIN files /\ HandleKey(files[f]) = key BY <3>2
    <3>4. files[f].id = cat[key].id /\ ~ cat[key].dir BY <1>1, <3>3 DEF AllFind, Finds
    <3>5. c[key] = PutAt(files[f], cat[key]) BY <2>2, <2>4 DEF f
    <3> HIDE DEF c, Mine
    <3> QED BY <2>1, <3>4, <3>5 DEF PutAt, IsRecord, Fields
  <2> QED BY <2>3, <2>4
<1> HIDE DEF c
<1>5. Numbered(c, mdb.next)
  <2>1. \A k \in DOMAIN c : Placed(k, c[k]) BY <1>1, <1>3, <1>4 DEF Numbered, Placed
  <2> QED BY <1>1, <1>3, <1>4, <2>1 DEF Numbered
<1>6. \A h : IsHandle(h) /\ Finds(h, cat) => Finds(h, c) BY <1>3, <1>4 DEF Finds
<1> QED BY <1>5, <1>6 DEF c

(* hfs_flush keeps Inv, with whichever file it stops at. *)
LEMMA FlushInv ==
    ASSUME Inv, hfs_flush PROVE Inv'
<1> DEFINE F   == {f \in DOMAIN files : \A g \in 1 .. f : CanFlush(g)}
           all == F = DOMAIN files
<1>1. /\ cat' = AllPut(F) /\ mdb' = mdb
      /\ files' = [f \in DOMAIN files |-> [files[f] EXCEPT !.upd = @ /\ f \notin F]]
      /\ disk' = (IF all THEN Flushed ELSE disk) /\ upd' = (upd /\ ~ all)
  BY DEF hfs_flush
<1>2. F \in SUBSET DOMAIN files OBVIOUS
<1>3. Quiet BY InvNow
<1>4. FilesAreList /\ OnMedium BY DEF Inv
<1> HIDE DEF F
<1>5. /\ Numbered(cat', mdb.next)
      /\ \A h : IsHandle(h) /\ Finds(h, cat) => Finds(h, cat')
  BY <1>1, <1>2, AllPutKeeps
<1>6. DOMAIN files' = DOMAIN files /\ files' = [f \in DOMAIN files |-> files'[f]] BY <1>1
<1>7. ASSUME NEW f \in DOMAIN files PROVE IsHandle(files'[f]) /\ Finds(files'[f], cat)
  <2>1. IsHandle(files[f]) /\ Finds(files[f], cat) BY <1>3 DEF Quiet, AllFind
  <2>2. files'[f] = [files[f] EXCEPT !.upd = @ /\ f \notin F] BY <1>1
  <2>3. /\ IsHandle(files'[f]) /\ files'[f].id = files[f].id
        /\ files'[f].par = files[f].par /\ files'[f].name = files[f].name
    BY <2>1, <2>2 DEF IsHandle, Fields
  <2> QED BY <2>1, <2>3 DEF Finds, HandleKey
<1>8. AllFind(cat)' BY <1>5, <1>6, <1>7 DEF AllFind
<1>9. FilesAreList' BY <1>4, <1>6, ListChanged DEF FilesAreList
<1>10. upd' \in BOOLEAN /\ (~ upd' => mdb'.next = disk'.next) /\ OnMedium'
  BY <1>1, <1>3 DEF Flushed, OnMedium, Numbered, Quiet
<1>11. IsMDB(mdb') /\ Numbered(cat', mdb'.next) BY <1>1, <1>3, <1>5 DEF Quiet
<1> QED BY <1>8, <1>9, <1>10, <1>11, InvNext DEF Quiet

(* Unmounting and mounting again keeps Inv. *)
LEMMA RemountInv ==
    ASSUME Inv, Remount PROVE Inv'
<1>1. Quiet BY InvNow
<1>2. /\ cat' = AllPut(DOMAIN files) /\ files' = << >> /\ upd' = FALSE
      /\ disk' = Flushed /\ mdb' = Flushed
  BY DEF Remount
<1>3. Numbered(cat', mdb.next) BY <1>2, AllPutKeeps
<1>4. IsMDB(Flushed) /\ Flushed.next = mdb.next /\ mdb.next \in Nat
  BY <1>1 DEF Flushed, Quiet, OnMedium, Numbered
<1>5. DOMAIN files' = {} /\ files' \in Seq(Range(files')) BY <1>2
<1>6. AllFind(cat)' /\ FilesAreList' BY <1>5 DEF AllFind, FilesAreList
<1> HIDE DEF Flushed
<1>7. Quiet' BY <1>2, <1>3, <1>4, <1>6 DEF Quiet, OnMedium
<1> QED BY <1>7, InvNext

(* v_scavenge: the next number goes above all that it finds.               *)
LEMMA CrashInv ==
    ASSUME Inv, Crash PROVE Inv'
<1>1. Quiet BY InvNow
<1>2. /\ cat' = cat /\ files' = << >> /\ upd' = (disk.next <= LastNum) /\ disk' = disk
      /\ mdb' = [disk EXCEPT !.next = IF @ <= LastNum THEN LastNum + 1 ELSE @]
  BY DEF Crash
<1>3. LastNum \in Nat /\ \A k \in DOMAIN cat : cat[k].id <= LastNum
  <2> DEFINE S == {rec.id : rec \in Range(cat)} \cup {FirstNum - 1}
  <2>1. /\ mdb.next + 15 \in Nat /\ S \in SUBSET (0 .. mdb.next + 15) /\ 15 \in S
        /\ \A k \in DOMAIN cat : cat[k].id \in S
    BY <1>1 DEF Quiet, Numbered, Range, FirstNum
  <2>2. LastNum = Max(S) BY DEF LastNum
  <2> HIDE DEF S
  <2>3. Max(S) \in S /\ \A y \in S : Max(S) >= y BY <2>1, MaxOf
  <2>4. Max(S) \in Nat
    <3> DEFINE m == Max(S)
    <3>1. m \in S BY <2>3
    <3> HIDE DEF m
    <3>2. m \in 0 .. mdb.next + 15 BY <2>1, <3>1
    <3> QED BY <2>1, <3>2 DEF m
  <2>5. ASSUME NEW k \in DOMAIN cat PROVE cat[k].id <= Max(S)
    <3>1. cat[k].id \in S /\ cat[k].id \in Nat BY <1>1, <2>1 DEF Quiet, Numbered
    <3>2. Max(S) >= cat[k].id BY <2>3, <3>1
    <3> QED BY <2>4, <3>1, <3>2
  <2> QED BY <2>2, <2>4, <2>5
<1>4. IsMDB(disk) /\ disk.next \in Nat BY <1>1 DEF Quiet, OnMedium
<1> HIDE DEF LastNum
<1>5. /\ IsMDB(mdb') /\ mdb'.next = IF disk.next <= LastNum THEN LastNum + 1 ELSE disk.next
  BY <1>2, <1>4 DEF IsMDB, Fields
<1>6. Numbered(cat', mdb'.next)
  <2>1. mdb'.next \in Nat /\ \A k \in DOMAIN cat : cat[k].id < mdb'.next
    BY <1>1, <1>3, <1>4, <1>5 DEF Quiet, Numbered
  <2> QED BY <1>1, <1>2, <2>1 DEF Quiet, Numbered
<1>7. DOMAIN files' = {} /\ files' \in Seq(Range(files')) BY <1>2
<1>8. AllFind(cat)' /\ FilesAreList' BY <1>7 DEF AllFind, FilesAreList
<1>9. upd' \in BOOLEAN /\ (~ upd' => mdb'.next = disk'.next)
  <2> DEFINE late == disk.next <= LastNum
  <2>0. upd' = late BY <1>2
  <2> HIDE DEF late
  <2>1. upd' \in BOOLEAN /\ (upd' <=> late)
    <3>1. late \in BOOLEAN BY DEF late
    <3> QED BY <2>0, <3>1
  <2>2. ~ late => mdb'.next = disk'.next BY <1>2, <1>5 DEF late
  <2> QED BY <2>1, <2>2
<1>10. Quiet' BY <1>2, <1>4, <1>5, <1>6, <1>8, <1>9 DEF Quiet, OnMedium
<1> QED BY <1>10, InvNext

(* The steps that leave the catalog.                                       *)
LEMMA OtherInv ==
    ASSUME Inv,
           \/ \E r \in Resolved : hfs_chdir(r)
           \/ \E id \in DOMAIN thr : hfs_setcwd(id)
           \/ \E f \in DOMAIN files : hfs_fsetattr(f)
           \/ UNCHANGED vars
    PROVE  Inv'
<1>1. Quiet BY InvNow
<1>2. UNCHANGED <<cat, mdb, disk, upd>>
  BY DEF hfs_chdir, hfs_setcwd, hfs_fsetattr, vars
<1>3. CASE UNCHANGED files
  <2>1. AllFind(cat)' /\ FilesAreList' BY <1>1, <1>2, <1>3 DEF Quiet, AllFind, FilesAreList
  <2> QED BY <1>1, <1>2, <2>1, InvNext DEF Quiet, OnMedium
<1>4. CASE \E f \in DOMAIN files : hfs_fsetattr(f)
  <2>1. PICK f \in DOMAIN files : files' = [files EXCEPT ![f].upd = TRUE]
    BY <1>4 DEF hfs_fsetattr
  <2>2. DOMAIN files' = DOMAIN files /\ files' = [g \in DOMAIN files |-> files'[g]] BY <2>1
  <2>3. FilesAreList' BY <1>1, <2>2, ListChanged DEF FilesAreList, Quiet
  <2>4. ASSUME NEW g \in DOMAIN files PROVE IsHandle(files'[g]) /\ Finds(files'[g], cat)
    <3>1. IsHandle(files[g]) /\ Finds(files[g], cat) BY <1>1 DEF Quiet, AllFind
    <3>2. files'[g] = IF g = f THEN [files[g] EXCEPT !.upd = TRUE] ELSE files[g] BY <2>1
    <3>3. /\ IsHandle(files'[g]) /\ files'[g].id = files[g].id
          /\ files'[g].par = files[g].par /\ files'[g].name = files[g].name
      BY <3>1, <3>2 DEF IsHandle, Fields
    <3> QED BY <3>1, <3>3 DEF Finds, HandleKey
  <2>5. AllFind(cat)' BY <1>2, <2>2, <2>4 DEF AllFind
  <2> QED BY <1>1, <1>2, <2>3, <2>5, InvNext DEF Quiet, OnMedium
<1> QED BY <1>3, <1>4 DEF hfs_chdir, hfs_setcwd, vars

-----------------------------------------------------------------------------
(* Every step keeps Inv. *)
LEMMA StepInv == Inv /\ [Next]_vars => Inv'
<1> SUFFICES ASSUME Inv, [Next]_vars PROVE Inv' OBVIOUS
<1>1. ASSUME NEW r \in Resolved, hfs_mkdir(r) \/ hfs_rmdir(r) \/ hfs_delete(r) PROVE Inv'
  BY <1>1, TreeCallInv
<1>2. ASSUME NEW r \in Resolved, hfs_create(r) \/ hfs_open(r) PROVE Inv'
  BY <1>2, OpenInv
<1>3. ASSUME NEW s \in Resolved, NEW d \in Resolved, hfs_rename(s, d) PROVE Inv'
  BY <1>3, RenameInv
<1>4. ASSUME NEW f \in DOMAIN files, hfs_close(f) PROVE Inv'
  BY <1>4, CloseInv
<1>5. CASE hfs_flush BY <1>5, FlushInv
<1>6. CASE Remount BY <1>6, RemountInv
<1>7. CASE Crash BY <1>7, CrashInv
<1> QED BY <1>1, <1>2, <1>3, <1>4, <1>5, <1>6, <1>7, OtherInv DEF Next

(* Inv holds in every state. *)
LEMMA InvAlways == Spec => []Inv
<1> QED BY InitInv, StepInv, PTL DEF Spec

(* No two files or directories have one number, and drNxtCNID is above all *)
(* of them, through calls cut short and crashes (hfs_create, v_mkdir,      *)
(* v_scavenge).                                                            *)
THEOREM NumbersAreUnique == Spec => []NumbersUnique
<1>1. Inv => NumbersUnique BY InvNow DEF Quiet, Numbered, NumbersUnique
<1> QED BY <1>1, InvAlways, PTL

(* f_flush puts the record of a handle over its own.                       *)
THEOREM HandlesAreRight == Spec => []HandlesFindTheirs
<1>1. Inv => HandlesFindTheirs BY InvNow DEF Quiet, AllFind, Finds, HandlesFindTheirs
<1> QED BY <1>1, InvAlways, PTL

-----------------------------------------------------------------------------
(* The changes a call makes, one at a time: while no fault has happened, a *)
(* change either is made or refused with nothing changed (a call in        *)
(* progress that goes on is Going, one that a fault has cut short is       *)
(* Broken).                                                                *)

Without(c, key)      == Restrict(c, DOMAIN c \ {key})
Bumped(c, key, adj)  == [c EXCEPT ![key].val = Short(@ + adj)]

(* A call to which no I/O error has happened, and that has not failed.     *)
Going(w) == IsWork(w) /\ w.ok = TRUE /\ w.hit = FALSE

Yields(v, w, c, t) == Going(v) /\ v.cat = c /\ v.thr = t /\ v.mdb = w.mdb /\ v.upd = w.upd

Refuses(v, w) == /\ IsWork(v) /\ ~ v.ok /\ v.cat = w.cat /\ v.thr = w.thr
                 /\ v.mdb = w.mdb /\ v.upd = w.upd

(* An I/O error has happened.                                              *)
Broken(w) == ~ w.ok /\ w.hit

(* Without an I/O error, a change is made if it can be, and else refused.  *)
LEMMA ChangeCases ==
    ASSUME NEW w, Going(w), NEW can, NEW changed, can => Going(changed),
           NEW v, v = Change(w, can, changed), ~ Broken(v)
    PROVE  IF can THEN Yields(v, changed, changed.cat, changed.thr) ELSE Refuses(v, w)
<1>1. w.ok = TRUE BY DEF Going
<1>2. CASE w.cut = 0
  <2>1. v = [w EXCEPT !.ok = FALSE, !.hit = TRUE] BY <1>1, <1>2 DEF Change
  <2>2. Broken(v) BY <2>1 DEF Broken, Going, IsWork, Fields
  <2> QED BY <2>2
<1>3. CASE w.cut # 0 /\ can
  <2>1. v = [changed EXCEPT !.cut = @ - 1] BY <1>1, <1>3 DEF Change
  <2>2. Going(changed) BY <1>3
  <2> QED BY <1>3, <2>1, <2>2 DEF Yields, Going, IsWork, Fields
<1>4. CASE w.cut # 0 /\ ~ can
  <2>1. v = [w EXCEPT !.ok = FALSE] BY <1>1, <1>4 DEF Change
  <2> QED BY <1>4, <2>1 DEF Refuses, Going, IsWork, Fields
<1> QED BY <1>2, <1>3, <1>4

(* The changes of records and threads, when no I/O error happens.          *)
LEMMA InsertCases ==
    ASSUME NEW w, Going(w), NEW key, NEW rec, NEW v, v = Insert(w, key, rec), ~ Broken(v)
    PROVE  IF key \notin DOMAIN w.cat THEN Yields(v, w, With(w.cat, key, rec), w.thr)
           ELSE Refuses(v, w)
<1> DEFINE u == [w EXCEPT !.cat = With(@, key, rec)]
<1>1. /\ Going(u) /\ u.cat = With(w.cat, key, rec) /\ u.thr = w.thr /\ u.mdb = w.mdb
      /\ u.upd = w.upd
  BY DEF Going, IsWork, Fields
<1> DEFINE can == key \notin DOMAIN w.cat
<1>2. v = Change(w, can, u) BY DEF Insert
<1> HIDE DEF u, can
<1>3. IF can THEN Yields(v, u, u.cat, u.thr) ELSE Refuses(v, w)
  BY <1>1, <1>2, ChangeCases
<1> QED BY <1>1, <1>3 DEF Yields, can

(* Deleting an entry: refused when no record has the key.                  *)
LEMMA DeleteCases ==
    ASSUME NEW w, Going(w), NEW key, NEW v, v = Delete(w, key), ~ Broken(v)
    PROVE  IF key \in DOMAIN w.cat THEN Yields(v, w, Without(w.cat, key), w.thr)
           ELSE Refuses(v, w)
<1> DEFINE u == [w EXCEPT !.cat = Restrict(@, DOMAIN @ \ {key})]
<1>1. /\ Going(u) /\ u.cat = Without(w.cat, key) /\ u.thr = w.thr /\ u.mdb = w.mdb
      /\ u.upd = w.upd
  BY DEF Going, IsWork, Fields, Without
<1> DEFINE can == key \in DOMAIN w.cat
<1>2. v = Change(w, can, u) BY DEF Delete
<1> HIDE DEF u, can
<1>3. IF can THEN Yields(v, u, u.cat, u.thr) ELSE Refuses(v, w)
  BY <1>1, <1>2, ChangeCases
<1> QED BY <1>1, <1>3 DEF Yields, can

(* Inserting a thread: refused when the number has one.                    *)
LEMMA InsertThreadCases ==
    ASSUME NEW w, Going(w), NEW id, NEW t, NEW v, v = InsertThread(w, id, t), ~ Broken(v)
    PROVE  IF id \notin DOMAIN w.thr THEN Yields(v, w, w.cat, With(w.thr, id, t))
           ELSE Refuses(v, w)
<1> DEFINE u == [w EXCEPT !.thr = With(@, id, t)]
<1>1. /\ Going(u) /\ u.cat = w.cat /\ u.thr = With(w.thr, id, t) /\ u.mdb = w.mdb
      /\ u.upd = w.upd
  BY DEF Going, IsWork, Fields
<1> DEFINE can == id \notin DOMAIN w.thr
<1>2. v = Change(w, can, u) BY DEF InsertThread
<1> HIDE DEF u, can
<1>3. IF can THEN Yields(v, u, u.cat, u.thr) ELSE Refuses(v, w)
  BY <1>1, <1>2, ChangeCases
<1> QED BY <1>1, <1>3 DEF Yields, can

(* Deleting a thread: refused when the number has none.                    *)
LEMMA DeleteThreadCases ==
    ASSUME NEW w, Going(w), NEW id, NEW v, v = DeleteThread(w, id), ~ Broken(v)
    PROVE  IF id \in DOMAIN w.thr THEN Yields(v, w, w.cat, Without(w.thr, id))
           ELSE Refuses(v, w)
<1> DEFINE u == [w EXCEPT !.thr = Restrict(@, DOMAIN @ \ {id})]
<1>1. /\ Going(u) /\ u.cat = w.cat /\ u.thr = Without(w.thr, id) /\ u.mdb = w.mdb
      /\ u.upd = w.upd
  BY DEF Going, IsWork, Fields, Without
<1> DEFINE can == id \in DOMAIN w.thr
<1>2. v = Change(w, can, u) BY DEF DeleteThread
<1> HIDE DEF u, can
<1>3. IF can THEN Yields(v, u, u.cat, u.thr) ELSE Refuses(v, w)
  BY <1>1, <1>2, ChangeCases
<1> QED BY <1>1, <1>3 DEF Yields, can

(* Overwriting a thread: refused unless there is one of that kind.         *)
LEMMA PutThreadCases ==
    ASSUME NEW w, Going(w), NEW id, NEW t, NEW v, v = PutThread(w, id, t), ~ Broken(v)
    PROVE  IF id \in DOMAIN w.thr /\ w.thr[id].dir = t.dir
           THEN Yields(v, w, w.cat, [w.thr EXCEPT ![id] = t]) ELSE Refuses(v, w)
<1> DEFINE u == [w EXCEPT !.thr[id] = t]
<1>1. /\ Going(u) /\ u.cat = w.cat /\ u.thr = [w.thr EXCEPT ![id] = t] /\ u.mdb = w.mdb
      /\ u.upd = w.upd
  BY DEF Going, IsWork, Fields
<1> DEFINE can == id \in DOMAIN w.thr /\ w.thr[id].dir = t.dir
<1>2. v = Change(w, can, u) BY DEF PutThread
<1> HIDE DEF u, can
<1>3. IF can THEN Yields(v, u, u.cat, u.thr) ELSE Refuses(v, w)
  BY <1>1, <1>2, ChangeCases
<1> QED BY <1>1, <1>3 DEF Yields, can

(* What has failed stays as it is.                                         *)
LEMMA NothingAfter ==
    ASSUME NEW w, ~ w.ok
    PROVE  /\ \A key, rec : Insert(w, key, rec) = w
           /\ \A key : Delete(w, key) = w
           /\ \A id, t : InsertThread(w, id, t) = w /\ PutThread(w, id, t) = w
           /\ \A id : DeleteThread(w, id) = w /\ DeleteFileThread(w, id) = w
           /\ \A par, isdir, adj : v_adjvalence(w, par, isdir, adj) = w
<1>1. \A can, changed : Change(w, can, changed) = w BY DEF Change
<1> QED BY <1>1 DEF Insert, Delete, InsertThread, DeleteThread, PutThread, v_adjvalence,
                   DeleteFileThread

(* The thread of a directory leads to its record.                          *)
Leads(c, t, id, key) ==
    /\ id \in DOMAIN t /\ t[id].dir /\ key = Key(t[id].par, t[id].name)
    /\ key \in DOMAIN c /\ c[key].dir

InRoot(par, adj) == IF par = RootDir THEN adj ELSE 0

WithDirs(m, x, y)  == [m EXCEPT !.dirs = x, !.rtdirs = y]
WithFiles(m, x, y) == [m EXCEPT !.files = x, !.rtfiles = y]

CountedMDB(m, par, isdir, adj) ==
    IF isdir THEN WithDirs(m, m.dirs + adj, Short(m.rtdirs + InRoot(par, adj)))
    ELSE WithFiles(m, m.files + adj, Short(m.rtfiles + InRoot(par, adj)))

Adjusted(v, w, key, par, isdir, adj) ==
    /\ Going(v) /\ v.cat = Bumped(w.cat, key, adj) /\ v.thr = w.thr
    /\ v.mdb = CountedMDB(w.mdb, par, isdir, adj) /\ v.upd = TRUE

(* v_adjvalence, of a directory whose thread leads to its record, counts   *)
(* in that record and in the MDB.                                          *)
LEMMA AdjCases ==
    ASSUME NEW w, Going(w), IsMDB(w.mdb), NEW par, par # RootPar, NEW isdir, NEW adj,
           NEW key, Leads(w.cat, w.thr, par, key),
           NEW v, v = v_adjvalence(w, par, isdir, adj), ~ Broken(v)
    PROVE  Adjusted(v, w, key, par, isdir, adj)
<1> DEFINE c == Counted(w, par, isdir, adj)
           u == [c EXCEPT !.cat[ParentKey(c, par)].val = Short(@ + adj)]
<1>1. /\ Going(c) /\ c.cat = w.cat /\ c.thr = w.thr /\ c.upd = TRUE
      /\ c.mdb = CountedMDB(w.mdb, par, isdir, adj)
  BY DEF Going, IsWork, Fields, IsMDB, Counted, CountedMDB, InRoot, WithDirs, WithFiles
<1> DEFINE can == HasParent(c, par)
<1>2. v = Change(c, can, u) BY DEF v_adjvalence, Going
<1> HIDE DEF c
<1>3. can /\ ParentKey(c, par) = key
  BY <1>1 DEF HasParent, ParentKey, Leads
<1>4. Going(u) /\ u.cat = Bumped(w.cat, key, adj) /\ u.thr = c.thr /\ u.mdb = c.mdb /\ u.upd = c.upd
  BY <1>1, <1>3 DEF Going, IsWork, Fields, Bumped
<1> HIDE DEF u, can
<1>5. Yields(v, u, u.cat, u.thr) BY <1>1, <1>2, <1>3, <1>4, ChangeCases
<1> QED BY <1>1, <1>4, <1>5 DEF Yields, Adjusted

-----------------------------------------------------------------------------
(* Paths: what v_resolve finds, step by step.                              *)

(* A path is walked step by step.                                          *)
LEMMA WalkedSteps ==
    ASSUME NEW p, NEW S, NEW steps \in Seq(S)
    PROVE  \E f : /\ Walked(p, steps) = f[Len(steps)] /\ f[0] = Start(p)
                  /\ \A i \in 1 .. Len(steps) : f[i] = Step(f[i - 1], steps[i])
<1> DEFINE n == Len(steps)
           Follows(f, m) ==
               f = [i \in 0 .. m |-> IF i = 0 THEN Start(p) ELSE Step(f[i - 1], steps[i])]
           Bad == {m \in Nat : ~ \E f : Follows(f, m)}
<1>1. n \in Nat BY LenProperties
<1>2. Bad = {}
  <2> SUFFICES ASSUME Bad # {} PROVE FALSE OBVIOUS
  <2>1. PICK m \in Bad : \A y \in Bad : m <= y
    <3>1. Bad \in SUBSET Nat OBVIOUS
    <3> HIDE DEF Bad
    <3> QED BY <3>1, NatHasLeast
  <2>2. m \in Nat /\ ~ \E f : Follows(f, m) OBVIOUS
  <2>3. CASE m = 0
    <3> DEFINE f == [i \in 0 .. 0 |-> Start(p)]
    <3>1. f = [i \in 0 .. 0 |-> IF i = 0 THEN Start(p) ELSE Step(f[i - 1], steps[i])]
      OBVIOUS
    <3> QED BY <2>2, <2>3, <3>1
  <2>4. CASE m # 0
    <3>1. m - 1 \in Nat /\ m - 1 \notin Bad
      <4> HIDE DEF Bad
      <4> QED BY <2>1, <2>2, <2>4
    <3>2. PICK g : Follows(g, m - 1) BY <3>1
    <3> DEFINE f == [i \in 0 .. m |-> IF i = 0 THEN Start(p) ELSE Step(g[i - 1], steps[i])]
    <3>3. ASSUME NEW j \in 0 .. m - 1 PROVE f[j] = g[j]
      <4>1. g[j] = IF j = 0 THEN Start(p) ELSE Step(g[j - 1], steps[j]) BY <3>2
      <4>2. j \in 0 .. m BY <2>2
      <4> QED BY <4>1, <4>2
    <3>4. ASSUME NEW i \in 0 .. m, i # 0 PROVE f[i - 1] = g[i - 1]
      <4>1. i - 1 \in 0 .. m - 1 BY <2>2, <3>4
      <4> QED BY <3>3, <4>1
    <3>5. Follows(f, m)
      <4>1. f = [i \in 0 .. m |-> IF i = 0 THEN Start(p) ELSE Step(g[i - 1], steps[i])]
        OBVIOUS
      <4> HIDE DEF f
      <4> QED BY <3>4, <4>1
    <3> QED BY <2>2, <3>5
  <2> QED BY <2>3, <2>4
<1>3. \E f : Follows(f, n) BY <1>1, <1>2
<1> DEFINE after == CHOOSE f : Follows(f, n)
<1>4. Follows(after, n) BY <1>3
<1>5. Walked(p, steps) = after[n] BY DEF Walked
<1> HIDE DEF after
<1>6. after[0] = Start(p) BY <1>1, <1>4
<1>7. ASSUME NEW i \in 1 .. n PROVE after[i] = Step(after[i - 1], steps[i])
  <2>1. i \in 0 .. n /\ i # 0 BY <1>1
  <2> QED BY <1>4, <2>1
<1> QED BY <1>5, <1>6, <1>7

(* Steps = names and colons. *)
Steps == Names \cup {Up}

(* Wherever a path leads, it is at a directory, and so is what it has come *)
(* from.                                                                   *)
Walking(r, D) == /\ Fields(r, {"dir", "par", "name", "lost"})
                 /\ r.dir \in D /\ r.par \in D \cup {0}
                 /\ r.name \in Names \cup {NoName}

WayOf(D) == /\ RootPar \in D /\ cwd \in D
            /\ \A id \in DOMAIN thr : thr[id].dir => thr[id].par \in D
            /\ \A k \in DOMAIN cat : cat[k].name \in Names /\ (cat[k].dir => cat[k].id \in D)

(* A step of a path stays among the directories, if the threads and the    *)
(* records lead to them alone.                                             *)
LEMMA StepWalks ==
    ASSUME NEW D, WayOf(D), NEW r, Walking(r, D), NEW n
    PROVE  Walking(Step(r, n), D)
<1>1. Walking(StepUp(r), D)
  <2>1. CASE HasThread(TRUE, r.dir)
    <3>1. thr[r.dir].par \in D BY <2>1 DEF HasThread, WayOf
    <3> QED BY <2>1, <3>1 DEF StepUp, Walking, Fields
  <2>2. CASE ~ HasThread(TRUE, r.dir) BY <2>2 DEF StepUp, Walking, Fields
  <2> QED BY <2>1, <2>2
<1>2. Walking(StepDown(r, n), D)
  <2> DEFINE key == Key(r.dir, n)
  <2>1. CASE key \in DOMAIN cat /\ cat[key].dir
    <3>1. StepDown(r, n) = [r EXCEPT !.dir = cat[key].id, !.par = r.dir, !.name = cat[key].name]
      BY <2>1 DEF StepDown
    <3>2. cat[key].id \in D /\ cat[key].name \in Names BY <2>1 DEF WayOf
    <3> HIDE DEF key
    <3> QED BY <3>1, <3>2 DEF Walking, Fields
  <2>2. CASE ~ (key \in DOMAIN cat /\ cat[key].dir)
    <3>1. StepDown(r, n) = [r EXCEPT !.par = 0, !.lost = TRUE] BY <2>2 DEF StepDown
    <3> QED BY <3>1 DEF Walking, Fields
  <2> QED BY <2>1, <2>2
<1> QED BY <1>1, <1>2 DEF Step

(* So does the whole path.                                                 *)
LEMMA WalkedWalks ==
    ASSUME NEW D, WayOf(D), NEW p, NEW S, NEW steps \in Seq(S)
    PROVE  Walking(Walked(p, steps), D)
<1>1. PICK f : /\ Walked(p, steps) = f[Len(steps)] /\ f[0] = Start(p)
               /\ \A i \in 1 .. Len(steps) : f[i] = Step(f[i - 1], steps[i])
  BY WalkedSteps
<1>2. Len(steps) \in Nat BY LenProperties
<1> DEFINE Bad == {i \in 0 .. Len(steps) : ~ Walking(f[i], D)}
<1>3. Bad = {}
  <2> SUFFICES ASSUME Bad # {} PROVE FALSE OBVIOUS
  <2>1. Bad \in SUBSET Nat BY <1>2
  <2>2. PICK i \in Bad : \A y \in Bad : i <= y
    <3> HIDE DEF Bad
    <3> QED BY <2>1, NatHasLeast
  <2>3. i # 0
    <3>1. Walking(Start(p), D) BY DEF Start, Walking, WayOf, Fields
    <3> QED BY <1>1, <3>1
  <2>4. i \in 1 .. Len(steps) /\ i - 1 \in 0 .. Len(steps) BY <1>2, <2>3
  <2>5. i - 1 \notin Bad
    <3> HIDE DEF Bad
    <3> QED BY <2>1, <2>2, <2>4
  <2>6. Walking(f[i - 1], D) BY <2>4, <2>5
  <2>7. f[i] = Step(f[i - 1], steps[i]) BY <1>1, <2>4
  <2> QED BY <2>6, <2>7, StepWalks
<1> QED BY <1>1, <1>2, <1>3

(* A path that leads nowhere has nothing, a directory, or the parent of    *)
(* the root for the place where its last name is missing.                  *)
LEMMA ResolvedAt ==
    ASSUME CatalogAssumption, scope \in Scopes, NEW D, WayOf(D), NEW r \in Resolved
    PROVE  /\ r.par \in D \cup {0} \/ r.found
           /\ r.par # 0 \/ r.found => r.name \in Names
           /\ r.found => r.key \in DOMAIN cat /\ r.key[1] = r.par /\ r.name = cat[r.key].name
           /\ r.found \in BOOLEAN
           /\ r.typed \in Names \cup {NoName}
<1> DEFINE Good(q) ==
             /\ Fields(q, {"found", "key", "par", "name"})
             /\ q.par \in D \cup {0} \/ q.found
             /\ q.name \in Names \cup {NoName}
             /\ q.found => /\ q.key \in DOMAIN cat /\ q.key[1] = q.par
                           /\ q.name = cat[q.key].name
             /\ q.found \in BOOLEAN
<1>1. PICK p \in scope.paths : r \in Results(p) BY DEF Resolved
<1>2. p.steps \in Seq(Steps) BY DEF CatalogAssumption, Steps
<1>3. ASSUME NEW par \in D, NEW name, NEW other \in Names \cup {NoName}
      PROVE  Good(EndsAt(par, name, other))
  BY DEF EndsAt, Key, Fields, WayOf
<1>4. ASSUME NEW q, Walking(q, D) PROVE Good(Nowhere(q))
  BY <1>4 DEF Nowhere, Fields, Walking
<1>5. ASSUME NEW q, Walking(q, D) PROVE Good(EndsInDir(q))
  <2>1. CASE HasThread(TRUE, q.dir) /\ ~ q.lost
    <3>1. thr[q.dir].par \in D BY <2>1 DEF HasThread, WayOf
    <3>2. q.name \in Names \cup {NoName} BY <1>5 DEF Walking
    <3> HIDE DEF Good
    <3> QED BY <1>3, <2>1, <3>1, <3>2 DEF EndsInDir
  <2>2. CASE ~ (HasThread(TRUE, q.dir) /\ ~ q.lost)
    <3> HIDE DEF Good
    <3> QED BY <1>4, <1>5, <2>2 DEF EndsInDir
  <2> QED BY <2>1, <2>2
<1>6. ASSUME NEW q, Walking(q, D), NEW n \in Names PROVE Good(EndsInName(q, n))
  <2>1. q.dir \in D BY <1>6 DEF Walking
  <2> HIDE DEF Good
  <2> QED BY <1>3, <1>4, <1>6, <2>1 DEF EndsInName
<1>7. Good(v_resolve(p))
  <2>1. CASE p.steps = << >> \/ Last(p.steps) = Up
    <3>1. Walking(Walked(p, p.steps), D) BY <1>2, WalkedWalks
    <3> HIDE DEF Good
    <3> QED BY <1>5, <2>1, <3>1 DEF v_resolve
  <2>2. CASE ~ (p.steps = << >> \/ Last(p.steps) = Up)
    <3>1. p.steps # << >> /\ Len(p.steps) \in Nat /\ DOMAIN p.steps = 1 .. Len(p.steps)
      BY <1>2, <2>2, LenProperties
    <3>2. Len(p.steps) # 0 BY <1>2, <3>1, EmptySeq
    <3>3. Last(p.steps) \in Names
      <4>1. p.steps[Len(p.steps)] \in Steps BY <1>2, <3>1, <3>2, ElementOfSeq
      <4> QED BY <2>2, <4>1 DEF Last, Steps
    <3>4. Front(p.steps) \in Seq(Steps)
      <4>1. \A i \in 1 .. Len(p.steps) - 1 : p.steps[i] \in Steps
        BY <1>2, <3>1, ElementOfSeq
      <4>2. SubSeq(p.steps, 1, Len(p.steps) - 1) \in Seq(Steps)
        BY <1>2, <3>1, <4>1, SubSeqProperties
      <4> QED BY <4>2 DEF Front
    <3>5. Walking(Walked(p, Front(p.steps)), D) BY <3>4, WalkedWalks
    <3> HIDE DEF Good
    <3> QED BY <1>6, <2>2, <3>3, <3>5 DEF v_resolve
  <2> QED BY <2>1, <2>2
<1>8. ASSUME NEW q \in Read(v_resolve(p))
      PROVE  Good(q) /\ (q.par # 0 \/ q.found => q.name \in Names)
  <2> DEFINE v == v_resolve(p)
  <2>1. Good(v) BY <1>7
  <2> HIDE DEF v
  <2>2. ASSUME v.found PROVE v.name \in Names BY <2>1, <2>2 DEF WayOf
  <2>3. CASE ~ v.found /\ v.par # 0 /\ v.name = NoName
    <3>1. PICK n \in Names : q = [v EXCEPT !.name = n] BY <2>3 DEF Read, v
    <3> QED BY <2>1, <2>3, <3>1 DEF Fields
  <2>4. CASE ~ (~ v.found /\ v.par # 0 /\ v.name = NoName)
    <3>1. q = v BY <2>4 DEF Read, v
    <3> QED BY <2>1, <2>2, <2>4, <3>1
  <2> QED BY <2>3, <2>4
<1>9. Typed(p) \in Names \cup {NoName}
  <2>1. CASE p.colon \/ p.steps = << >> BY <2>1 DEF Typed
  <2>2. CASE ~ (p.colon \/ p.steps = << >>)
    <3>1. Len(p.steps) \in Nat /\ DOMAIN p.steps = 1 .. Len(p.steps) BY <1>2, LenProperties
    <3>2. Len(p.steps) # 0 BY <1>2, <2>2, EmptySeq
    <3>3. p.steps[Len(p.steps)] \in Steps BY <1>2, <3>1, <3>2, ElementOfSeq
    <3> QED BY <2>2, <3>3 DEF Typed, Last, Steps, Up, NoName
  <2> QED BY <2>1, <2>2
<1>10. PICK q \in Read(v_resolve(p)) :
          r = [found |-> q.found, key |-> q.key, par |-> q.par, name |-> q.name,
               typed |-> Typed(p)]
  BY <1>1 DEF Results
<1> QED BY <1>8, <1>9, <1>10

-----------------------------------------------------------------------------
(* What makes the catalog of an undamaged volume whole: every entry is in  *)
(* a directory of the volume, the threads are those of the entries, the    *)
(* valences are the numbers of entries.                                    *)

(* The directories of a catalog, and the entries of one among some keys.   *)
Homes(c)  == {c[k].id : k \in {j \in DOMAIN c : c[j].dir}}
In(K, id) == {k \in K : k[1] = id}

(* Each record is in a directory, the root directory alone is outside.     *)
Linked(c) ==
    /\ RootDir \in Homes(c)
    /\ \A k \in DOMAIN c :
          /\ k[1] \in Homes(c) \cup {RootPar} /\ k[1] # c[k].id
          /\ k[1] = RootPar <=> c[k].id = RootDir
          /\ c[k].id = RootDir \/ c[k].id >= FirstNum
          /\ c[k].name \in Names

Threaded(c, t) ==
    /\ \A k \in DOMAIN c :
          /\ c[k].dir => c[k].id \in DOMAIN t
          /\ c[k].id \in DOMAIN t => t[c[k].id] = Thread(c[k].dir, k[1], c[k].name)
    /\ \A id \in DOMAIN t : \E k \in DOMAIN c : c[k].id = id

Tallied(c) ==
    \A k \in DOMAIN c :
        c[k].val = IF c[k].dir THEN Cardinality(In(DOMAIN c, c[k].id)) ELSE 0

Whole(c, t, next) == Numbered(c, next) /\ Linked(c) /\ Threaded(c, t) /\ Tallied(c)

Sorted(c, K, isdir) == {k \in K : c[k].dir = isdir}

Totalled(c, m) ==
    /\ m.dirs    = Cardinality(Sorted(c, DOMAIN c, TRUE)) - 1
    /\ m.files   = Cardinality(Sorted(c, DOMAIN c, FALSE))
    /\ m.rtdirs  = Cardinality(Sorted(c, In(DOMAIN c, RootDir), TRUE))
    /\ m.rtfiles = Cardinality(Sorted(c, In(DOMAIN c, RootDir), FALSE))

(* The thread of a directory leads to its record.                          *)
LEMMA HomeLeads ==
    ASSUME NEW c, NEW t, NEW next, Whole(c, t, next), NEW id \in Homes(c)
    PROVE  \E key : Leads(c, t, id, key) /\ c[key].id = id
<1>1. PICK key \in DOMAIN c : c[key].dir /\ c[key].id = id BY DEF Homes
<1>2. id \in DOMAIN t /\ t[id] = Thread(TRUE, key[1], c[key].name)
  <2>1. c[key].dir = TRUE BY <1>1 DEF Whole, Numbered, Placed, IsRecord
  <2> QED BY <1>1, <2>1 DEF Whole, Threaded
<1>3. key = Key(key[1], c[key].name) BY <1>1 DEF Whole, Numbered, Placed
<1>4. t[id].dir /\ t[id].par = key[1] /\ t[id].name = c[key].name BY <1>2 DEF Thread
<1> QED BY <1>1, <1>2, <1>3, <1>4 DEF Leads

(* There are no more records than numbers, and but one above the root.     *)
LEMMA CountFits ==
    ASSUME NEW c, NEW next, Numbered(c, next), Linked(c)
    PROVE  /\ IsFiniteSet(DOMAIN c)
           /\ \A K \in SUBSET DOMAIN c :
                 /\ IsFiniteSet(K) /\ Cardinality(K) \in Nat
                 /\ (\A k \in K : c[k].id # RootDir) /\ next >= FirstNum
                       => Cardinality(K) <= next - FirstNum
<1> DEFINE num == [k \in DOMAIN c |-> c[k].id]
<1>1. next \in Nat /\ \A k \in DOMAIN c : c[k].id \in 0 .. next - 1
  BY DEF Numbered
<1>2. IsFiniteSet(DOMAIN c)
  <2>1. num \in Injection(DOMAIN c, 0 .. next - 1)
    <3>1. num \in [DOMAIN c -> 0 .. next - 1] BY <1>1
    <3> QED BY <3>1 DEF Injection, IsInjective, Numbered
  <2>2. IsFiniteSet(0 .. next - 1) BY <1>1, FS_Interval
  <2> QED BY <2>1, <2>2, FS_Injection
<1>3. ASSUME NEW K \in SUBSET DOMAIN c PROVE IsFiniteSet(K) /\ Cardinality(K) \in Nat
  BY <1>2, FS_Subset, FS_CardinalityType
<1>4. ASSUME NEW K \in SUBSET DOMAIN c, \A k \in K : c[k].id # RootDir, next >= FirstNum
      PROVE  Cardinality(K) <= next - FirstNum
  <2> DEFINE of == [k \in K |-> c[k].id]
             S  == FirstNum .. next - 1
  <2>1. \A k \in K : of[k] \in S BY <1>1, <1>4 DEF Linked, FirstNum
  <2>2. of \in Injection(K, S) BY <2>1 DEF Injection, IsInjective, Numbered
  <2>3. IsFiniteSet(S) /\ Cardinality(S) = next - FirstNum
    <3>1. FirstNum \in Int /\ next - 1 \in Int BY <1>1 DEF FirstNum
    <3>2. IsFiniteSet(S) /\ Cardinality(S) = IF FirstNum > next - 1 THEN 0
                                             ELSE next - 1 - FirstNum + 1
      BY <3>1, FS_Interval
    <3> HIDE DEF S
    <3> QED BY <1>1, <1>4, <3>1, <3>2
  <2> HIDE DEF of, S
  <2>4. Cardinality(K) <= Cardinality(S) BY <2>2, <2>3, FS_Injection
  <2> QED BY <2>3, <2>4
<1> QED BY <1>2, <1>3, <1>4

(* A set that loses or gains a member.                                     *)
LEMMA OneLess ==
    ASSUME NEW A, IsFiniteSet(A), NEW x \in A, NEW B, B = A \ {x}
    PROVE  IsFiniteSet(B) /\ Cardinality(B) = Cardinality(A) - 1 /\ Cardinality(B) \in Nat
BY FS_RemoveElement, FS_CardinalityType

(* One element more.                                                       *)
LEMMA OneMore ==
    ASSUME NEW A, IsFiniteSet(A), NEW x, x \notin A, NEW B, B = A \cup {x}
    PROVE  IsFiniteSet(B) /\ Cardinality(B) = Cardinality(A) + 1 /\ Cardinality(B) \in Nat
BY FS_AddElement, FS_CardinalityType

(* One element for another leaves as many.                                 *)
LEMMA OneForAnother ==
    ASSUME NEW A, IsFiniteSet(A), NEW x \in A, NEW y, y \notin A \ {x},
           NEW B, B = (A \ {x}) \cup {y}
    PROVE  IsFiniteSet(B) /\ Cardinality(B) = Cardinality(A)
<1>1. IsFiniteSet(A \ {x}) /\ Cardinality(A \ {x}) = Cardinality(A) - 1
  BY FS_RemoveElement
<1>2. IsFiniteSet(B) /\ Cardinality(B) = Cardinality(A \ {x}) + 1 BY <1>1, FS_AddElement
<1> QED BY <1>1, <1>2, FS_CardinalityType

-----------------------------------------------------------------------------
(* An entry more, an entry less, an entry that moves: what each keeps of a *)
(* whole catalog.                                                          *)

(* The same file or directory with perhaps another count.                  *)
Alike(a, b) == a.id = b.id /\ a.dir = b.dir /\ a.name = b.name

(* Of catalogs c and d: an entry more, an entry less, an entry at another  *)
(* key; pk, qk are the records of the directories that count them.         *)
Added(c, d, key, rec, pk) ==
    /\ key \notin DOMAIN c /\ DOMAIN d = DOMAIN c \cup {key} /\ d[key] = rec
    /\ pk \in DOMAIN c /\ c[pk].dir /\ c[pk].id = key[1]
    /\ \A k \in DOMAIN c : /\ Alike(d[k], c[k])
                           /\ d[k].val = IF k = pk THEN Short(c[k].val + 1) ELSE c[k].val

Removed(c, d, key, pk) ==
    /\ key \in DOMAIN c /\ DOMAIN d = DOMAIN c \ {key}
    /\ pk \in DOMAIN d /\ c[pk].dir /\ c[pk].id = key[1]
    /\ \A k \in DOMAIN d : /\ Alike(d[k], c[k])
                           /\ d[k].val = IF k = pk THEN Short(c[k].val - 1) ELSE c[k].val

(* A directory gets a thread with its record.                              *)
ThreadAdded(t, u, rec, par) ==
    IF rec.dir THEN u = With(t, rec.id, Thread(TRUE, par, rec.name)) ELSE u = t

(* The directories, with an entry more.                                    *)
LEMMA AddedHomes ==
    ASSUME NEW c, NEW d, NEW key, NEW rec, NEW pk, Added(c, d, key, rec, pk)
    PROVE  Homes(d) = Homes(c) \cup (IF rec.dir THEN {rec.id} ELSE {})
BY DEF Homes, Added, Alike

(* The directories, with an entry less.                                    *)
LEMMA RemovedHomes ==
    ASSUME NEW c, NEW d, NEW key, NEW pk, Removed(c, d, key, pk), NEW next, Numbered(c, next)
    PROVE  Homes(d) = Homes(c) \ (IF c[key].dir THEN {c[key].id} ELSE {})
<1>1. \A k \in DOMAIN d : k \in DOMAIN c /\ k # key /\ d[k].id = c[k].id /\ d[k].dir = c[k].dir
  BY DEF Removed, Alike
<1>2. \A k \in DOMAIN c : k # key => k \in DOMAIN d /\ c[k].id # c[key].id
  BY DEF Removed, Numbered
<1> QED BY <1>1, <1>2 DEF Homes

(* The threads are those of the entries after a new entry whose number no  *)
(* other has, if it has a thread when it is a directory.                   *)
LEMMA AddedThreaded ==
    ASSUME NEW c, NEW t, Threaded(c, t),
           NEW d, NEW key, NEW rec, NEW pk, Added(c, d, key, rec, pk),
           rec.dir \in BOOLEAN, \A k \in DOMAIN c : c[k].id # rec.id,
           NEW u, ThreadAdded(t, u, rec, key[1])
    PROVE  Threaded(d, u)
<1> DEFINE x == Thread(TRUE, key[1], rec.name)
<1>1. /\ DOMAIN d = DOMAIN c \cup {key} /\ d[key] = rec /\ key \notin DOMAIN c
      /\ \A k \in DOMAIN c : d[k].id = c[k].id /\ d[k].dir = c[k].dir /\ d[k].name = c[k].name
  BY DEF Added, Alike
<1>2. /\ \A k \in DOMAIN c : /\ c[k].dir => c[k].id \in DOMAIN t
                             /\ c[k].id \in DOMAIN t
                                   => t[c[k].id] = Thread(c[k].dir, k[1], c[k].name)
      /\ \A id \in DOMAIN t : \E k \in DOMAIN c : c[k].id = id
  BY DEF Threaded
<1>3. rec.id \notin DOMAIN t BY <1>2
<1>4. CASE rec.dir
  <2>1. u = With(t, rec.id, x) BY <1>4 DEF ThreadAdded
  <2>2. DOMAIN u = DOMAIN t \cup {rec.id} /\ u[rec.id] = x /\ \A id \in DOMAIN t : u[id] = t[id]
    <3> HIDE DEF x
    <3> QED BY <1>3, <2>1 DEF With
  <2>3. ASSUME NEW k \in DOMAIN d
        PROVE  /\ d[k].dir => d[k].id \in DOMAIN u
               /\ d[k].id \in DOMAIN u => u[d[k].id] = Thread(d[k].dir, k[1], d[k].name)
    <3>1. CASE k = key BY <1>1, <1>4, <2>2, <3>1
    <3>2. CASE k \in DOMAIN c
      <4>1. d[k].id = c[k].id /\ d[k].dir = c[k].dir /\ d[k].name = c[k].name BY <1>1, <3>2
      <4>2. /\ c[k].dir => c[k].id \in DOMAIN t
            /\ c[k].id \in DOMAIN t => t[c[k].id] = Thread(c[k].dir, k[1], c[k].name)
            /\ c[k].id # rec.id
        BY <1>2, <3>2
      <4>3. Thread(d[k].dir, k[1], d[k].name) = Thread(c[k].dir, k[1], c[k].name) BY <4>1
      <4> QED BY <2>2, <4>1, <4>2, <4>3
    <3> QED BY <1>1, <3>1, <3>2
  <2>4. \A id \in DOMAIN u : \E k \in DOMAIN d : d[k].id = id BY <1>1, <1>2, <2>2
  <2> QED BY <2>3, <2>4 DEF Threaded
<1>5. CASE ~ rec.dir
  <2>1. u = t BY <1>5 DEF ThreadAdded
  <2>2. ASSUME NEW k \in DOMAIN d
        PROVE  /\ d[k].dir => d[k].id \in DOMAIN t
               /\ d[k].id \in DOMAIN t => t[d[k].id] = Thread(d[k].dir, k[1], d[k].name)
    <3>1. CASE k = key BY <1>1, <1>3, <1>5, <3>1
    <3>2. CASE k \in DOMAIN c
      <4>1. d[k].id = c[k].id /\ d[k].dir = c[k].dir /\ d[k].name = c[k].name BY <1>1, <3>2
      <4>2. /\ c[k].dir => c[k].id \in DOMAIN t
            /\ c[k].id \in DOMAIN t => t[c[k].id] = Thread(c[k].dir, k[1], c[k].name)
        BY <1>2, <3>2
      <4>3. Thread(d[k].dir, k[1], d[k].name) = Thread(c[k].dir, k[1], c[k].name) BY <4>1
      <4> QED BY <4>1, <4>2, <4>3
    <3> QED BY <1>1, <3>1, <3>2
  <2>3. \A id \in DOMAIN t : \E k \in DOMAIN d : d[k].id = id BY <1>1, <1>2
  <2> QED BY <2>1, <2>2, <2>3 DEF Threaded
<1> QED BY <1>4, <1>5

(* Every entry is in a directory after a new entry in one.                 *)
LEMMA AddedLinked ==
    ASSUME NEW c, NEW next, Numbered(c, next), next >= FirstNum, Linked(c),
           NEW d, NEW key, NEW rec, NEW pk, Added(c, d, key, rec, pk),
           rec.id = next, rec.name \in Names
    PROVE  Linked(d)
<1>1. next \in Nat /\ \A k \in DOMAIN c : c[k].id \in Nat /\ c[k].id < next
  BY DEF Numbered
<1>2. /\ DOMAIN d = DOMAIN c \cup {key} /\ d[key] = rec /\ key \notin DOMAIN c
      /\ \A k \in DOMAIN c : d[k].id = c[k].id /\ d[k].dir = c[k].dir /\ d[k].name = c[k].name
  BY DEF Added, Alike
<1>3. Homes(c) \subseteq Homes(d) BY <1>2 DEF Homes
<1>4. key[1] \in Homes(c) BY DEF Added, Homes
<1>5. \A k \in DOMAIN c : c[k].id = RootDir \/ c[k].id >= FirstNum BY DEF Linked
<1>6. key[1] \in Nat /\ key[1] < next /\ (key[1] = RootDir \/ key[1] >= FirstNum)
  BY <1>1, <1>4, <1>5 DEF Homes
<1>7. key[1] # RootPar /\ next # RootDir /\ key[1] # next
  BY <1>1, <1>6 DEF RootPar, RootDir, FirstNum
<1>8. ASSUME NEW k \in DOMAIN c
      PROVE  /\ k[1] \in Homes(d) \cup {RootPar} /\ k[1] # d[k].id
             /\ k[1] = RootPar <=> d[k].id = RootDir
             /\ d[k].id = RootDir \/ d[k].id >= FirstNum
             /\ d[k].name \in Names
  <2>1. d[k].id = c[k].id /\ d[k].name = c[k].name BY <1>2
  <2>2. /\ k[1] \in Homes(c) \cup {RootPar} /\ k[1] # c[k].id
        /\ k[1] = RootPar <=> c[k].id = RootDir
        /\ c[k].name \in Names
    BY DEF Linked
  <2> QED BY <1>3, <1>5, <2>1, <2>2
<1>9. /\ key[1] \in Homes(d) \cup {RootPar} /\ key[1] # d[key].id
      /\ key[1] = RootPar <=> d[key].id = RootDir
      /\ d[key].id = RootDir \/ d[key].id >= FirstNum
      /\ d[key].name \in Names
  BY <1>2, <1>3, <1>4, <1>7
<1>10. RootDir \in Homes(d) BY <1>3 DEF Linked
<1> QED BY <1>2, <1>8, <1>9, <1>10 DEF Linked

(* A directory counts no more than 65535 entries.                          *)
LEMMA ShortFits ==
    ASSUME NEW n \in Nat, n < 65536 PROVE Short(n) = n
BY DEF Short

(* A directory has fewer entries than numbers have been given.             *)
LEMMA DirFits ==
    ASSUME NEW c, NEW next, Numbered(c, next), next >= FirstNum, Linked(c), NEW id \in Homes(c)
    PROVE  LET S == In(DOMAIN c, id)
           IN  IsFiniteSet(S) /\ Cardinality(S) \in Nat /\ Cardinality(S) <= next - FirstNum
<1> DEFINE S == In(DOMAIN c, id)
<1>1. S \in SUBSET DOMAIN c BY DEF In
<1>2. id # RootPar
  <2>1. \A k \in DOMAIN c : c[k].id \in Nat /\ (c[k].id = RootDir \/ c[k].id >= FirstNum)
    BY DEF Numbered, Linked
  <2> QED BY <2>1 DEF Homes, RootPar, RootDir, FirstNum
<1>3. \A k \in S : c[k].id # RootDir BY <1>2 DEF Linked, In
<1> HIDE DEF S
<1>4. IsFiniteSet(S) /\ Cardinality(S) \in Nat /\ Cardinality(S) <= next - FirstNum
  BY <1>1, <1>3, CountFits
<1> QED BY <1>4 DEF S

(* The valences are right after a new entry that the directory it is in    *)
(* counts.                                                                 *)
LEMMA AddedTallied ==
    ASSUME NEW c, NEW next, Numbered(c, next), next >= FirstNum, Linked(c), Tallied(c),
           NEW d, NEW key, NEW rec, NEW pk, Added(c, d, key, rec, pk),
           rec.id = next, rec.val = 0, next - FirstNum < 65535
    PROVE  Tallied(d)
<1>1. next \in Nat /\ \A k \in DOMAIN c : c[k].id \in Nat /\ c[k].id < next
  BY DEF Numbered
<1>2. /\ DOMAIN d = DOMAIN c \cup {key} /\ d[key] = rec /\ key \notin DOMAIN c
      /\ \A k \in DOMAIN c : d[k].id = c[k].id /\ d[k].dir = c[k].dir
  BY DEF Added, Alike
<1>3. pk \in DOMAIN c /\ c[pk].dir /\ c[pk].id = key[1] BY DEF Added
<1>4. ASSUME NEW id, id # key[1] PROVE In(DOMAIN d, id) = In(DOMAIN c, id)
  BY <1>2, <1>4 DEF In
<1>5. ASSUME NEW k \in DOMAIN c
      PROVE  d[k].val = IF d[k].dir THEN Cardinality(In(DOMAIN d, d[k].id)) ELSE 0
  <2>1. c[k].val = IF c[k].dir THEN Cardinality(In(DOMAIN c, c[k].id)) ELSE 0 BY DEF Tallied
  <2>2. d[k].id = c[k].id /\ d[k].dir = c[k].dir BY <1>2
  <2>3. CASE k # pk
    <3>1. d[k].val = c[k].val BY <2>3 DEF Added
    <3>2. c[k].id # key[1] BY <1>3, <2>3 DEF Numbered
    <3>3. In(DOMAIN d, c[k].id) = In(DOMAIN c, c[k].id) BY <1>4, <3>2
    <3> QED BY <2>1, <2>2, <3>1, <3>3
  <2>4. CASE k = pk
    <3> DEFINE A == In(DOMAIN c, key[1])
               B == In(DOMAIN d, key[1])
    <3>1. d[k].val = Short(c[k].val + 1) BY <2>4 DEF Added
    <3>2. key[1] \in Homes(c) BY <1>3 DEF Homes
    <3>3. key \notin A /\ B = A \cup {key} BY <1>2 DEF In
    <3>4. IsFiniteSet(A) /\ Cardinality(A) \in Nat /\ Cardinality(A) <= next - FirstNum
      BY <3>2, DirFits
    <3>5. c[k].val = Cardinality(A) BY <1>3, <2>1, <2>4
    <3> HIDE DEF A, B
    <3>6. Cardinality(B) = Cardinality(A) + 1 BY <3>3, <3>4, OneMore
    <3>7. Cardinality(A) + 1 \in Nat /\ Cardinality(A) + 1 < 65536
      BY <1>1, <3>4 DEF FirstNum
    <3>8. d[k].val = Cardinality(B) BY <3>1, <3>5, <3>6, <3>7, ShortFits
    <3> QED BY <1>3, <2>2, <2>4, <3>8 DEF B
  <2> QED BY <2>3, <2>4
<1>6. rec.val = IF rec.dir THEN Cardinality(In(DOMAIN d, rec.id)) ELSE 0
  <2>1. In(DOMAIN d, next) = {}
    <3>1. \A id \in Homes(c) : id # next BY <1>1 DEF Homes
    <3>2. \A k \in DOMAIN c : k[1] # next
      <4>1. \A k \in DOMAIN c : k[1] \in Homes(c) \/ k[1] = RootPar BY DEF Linked
      <4> QED BY <1>1, <3>1, <4>1 DEF RootPar, FirstNum
    <3>3. key[1] # next BY <1>1, <1>3
    <3> QED BY <1>2, <3>2, <3>3 DEF In
  <2>2. Cardinality({}) = 0 BY FS_EmptySet
  <2> QED BY <2>1, <2>2
<1> QED BY <1>2, <1>5, <1>6 DEF Tallied

-----------------------------------------------------------------------------
(* An entry that goes, with its thread if it has one.                      *)
ThreadRemoved(t, u, id) == u = IF id \in DOMAIN t THEN Without(t, id) ELSE t

(* The threads are those of the entries after an entry and its thread have *)
(* gone.                                                                   *)
LEMMA RemovedThreaded ==
    ASSUME NEW c, NEW t, Threaded(c, t), NEW next, Numbered(c, next),
           NEW d, NEW key, NEW pk, Removed(c, d, key, pk),
           NEW u, ThreadRemoved(t, u, c[key].id)
    PROVE  Threaded(d, u)
<1> DEFINE gone == c[key].id
<1>1. DOMAIN u = DOMAIN t \ {gone} /\ \A id \in DOMAIN u : u[id] = t[id]
  BY DEF ThreadRemoved, Without, Restrict
<1>2. \A k \in DOMAIN d : /\ k \in DOMAIN c /\ d[k].id = c[k].id /\ d[k].dir = c[k].dir
                          /\ d[k].name = c[k].name
  BY DEF Removed, Alike
<1>3. \A k \in DOMAIN c : k # key => k \in DOMAIN d /\ c[k].id # gone
  BY DEF Removed, Numbered
<1>4. /\ \A k \in DOMAIN c : /\ c[k].dir => c[k].id \in DOMAIN t
                             /\ c[k].id \in DOMAIN t
                                   => t[c[k].id] = Thread(c[k].dir, k[1], c[k].name)
      /\ \A id \in DOMAIN t : \E k \in DOMAIN c : c[k].id = id
  BY DEF Threaded
<1>5. \A k \in DOMAIN d : k # key BY DEF Removed
<1> HIDE DEF gone
<1>6. ASSUME NEW k \in DOMAIN d
      PROVE  /\ d[k].dir => d[k].id \in DOMAIN u
             /\ d[k].id \in DOMAIN u => u[d[k].id] = Thread(d[k].dir, k[1], d[k].name)
  <2>1. k \in DOMAIN c /\ d[k].id = c[k].id /\ d[k].dir = c[k].dir /\ d[k].name = c[k].name
    BY <1>2
  <2>2. c[k].id # gone BY <1>3, <1>5, <2>1
  <2>3. Thread(d[k].dir, k[1], d[k].name) = Thread(c[k].dir, k[1], c[k].name) BY <2>1
  <2> QED BY <1>1, <1>4, <2>1, <2>2, <2>3
<1>7. ASSUME NEW id \in DOMAIN u PROVE \E k \in DOMAIN d : d[k].id = id
  <2>1. PICK k \in DOMAIN c : c[k].id = id BY <1>1, <1>4
  <2>2. k # key BY <1>1, <2>1 DEF gone
  <2> QED BY <1>2, <1>3, <2>1, <2>2
<1> QED BY <1>6, <1>7 DEF Threaded

(* Every entry is in a directory after one that has no entries has gone.   *)
LEMMA RemovedLinked ==
    ASSUME NEW c, NEW next, Numbered(c, next), Linked(c),
           NEW d, NEW key, NEW pk, Removed(c, d, key, pk),
           c[key].id # RootDir, \A k \in DOMAIN c : k[1] # c[key].id
    PROVE  Linked(d)
<1>1. /\ DOMAIN d = DOMAIN c \ {key}
      /\ \A k \in DOMAIN d : d[k].id = c[k].id /\ d[k].name = c[k].name
  BY DEF Removed, Alike
<1>2. Homes(d) = Homes(c) \ (IF c[key].dir THEN {c[key].id} ELSE {}) BY RemovedHomes
<1>3. ASSUME NEW k \in DOMAIN d
      PROVE  /\ k[1] \in Homes(d) \cup {RootPar} /\ k[1] # d[k].id
             /\ k[1] = RootPar <=> d[k].id = RootDir
             /\ d[k].id = RootDir \/ d[k].id >= FirstNum
             /\ d[k].name \in Names
  <2>1. d[k].id = c[k].id /\ d[k].name = c[k].name /\ k \in DOMAIN c BY <1>1
  <2>2. /\ k[1] \in Homes(c) \cup {RootPar} /\ k[1] # c[k].id
        /\ k[1] = RootPar <=> c[k].id = RootDir
        /\ c[k].id = RootDir \/ c[k].id >= FirstNum
        /\ c[k].name \in Names
    BY <2>1 DEF Linked
  <2>3. k[1] # c[key].id BY <2>1
  <2>4. k[1] \in Homes(d) \cup {RootPar} BY <1>2, <2>2, <2>3
  <2> QED BY <2>1, <2>2, <2>4
<1>4. RootDir \in Homes(d) BY <1>2 DEF Linked
<1> QED BY <1>3, <1>4 DEF Linked

(* The valences are right after an entry has gone and its directory counts *)
(* one less.                                                               *)
LEMMA RemovedTallied ==
    ASSUME NEW c, NEW next, Numbered(c, next), next >= FirstNum, Linked(c), Tallied(c),
           NEW d, NEW key, NEW pk, Removed(c, d, key, pk), next - FirstNum < 65536
    PROVE  Tallied(d)
<1>1. next \in Nat BY DEF Numbered
<1>2. /\ DOMAIN d = DOMAIN c \ {key} /\ key \in DOMAIN c
      /\ \A k \in DOMAIN d : d[k].id = c[k].id /\ d[k].dir = c[k].dir
  BY DEF Removed, Alike
<1>3. pk \in DOMAIN c /\ c[pk].dir /\ c[pk].id = key[1] BY <1>2 DEF Removed
<1>4. ASSUME NEW id, id # key[1] PROVE In(DOMAIN d, id) = In(DOMAIN c, id)
  BY <1>2, <1>4 DEF In
<1>5. ASSUME NEW k \in DOMAIN d
      PROVE  d[k].val = IF d[k].dir THEN Cardinality(In(DOMAIN d, d[k].id)) ELSE 0
  <2>0. k \in DOMAIN c BY <1>2
  <2>1. c[k].val = IF c[k].dir THEN Cardinality(In(DOMAIN c, c[k].id)) ELSE 0
    BY <2>0 DEF Tallied
  <2>2. d[k].id = c[k].id /\ d[k].dir = c[k].dir BY <1>2
  <2>3. CASE k # pk
    <3>1. d[k].val = c[k].val BY <2>3 DEF Removed
    <3>2. c[k].id # key[1] BY <1>3, <2>0, <2>3 DEF Numbered
    <3>3. In(DOMAIN d, c[k].id) = In(DOMAIN c, c[k].id) BY <1>4, <3>2
    <3> QED BY <2>1, <2>2, <3>1, <3>3
  <2>4. CASE k = pk
    <3> DEFINE A == In(DOMAIN c, key[1])
               B == In(DOMAIN d, key[1])
    <3>1. d[k].val = Short(c[k].val - 1) BY <2>4 DEF Removed
    <3>2. key[1] \in Homes(c) BY <1>3 DEF Homes
    <3>3. key \in A /\ B = A \ {key} BY <1>2 DEF In
    <3>4. IsFiniteSet(A) /\ Cardinality(A) \in Nat /\ Cardinality(A) <= next - FirstNum
      BY <3>2, DirFits
    <3>5. c[k].val = Cardinality(A) BY <1>3, <2>1, <2>4
    <3> HIDE DEF A, B
    <3>6. Cardinality(B) = Cardinality(A) - 1 /\ Cardinality(B) \in Nat BY <3>3, <3>4, OneLess
    <3>7. Cardinality(A) - 1 \in Nat /\ Cardinality(A) - 1 < 65536
      BY <1>1, <3>4, <3>6 DEF FirstNum
    <3>8. d[k].val = Cardinality(B) BY <3>1, <3>5, <3>6, <3>7, ShortFits
    <3> QED BY <1>3, <2>2, <2>4, <3>8 DEF B
  <2> QED BY <2>3, <2>4
<1> QED BY <1>5 DEF Tallied

-----------------------------------------------------------------------------
(* An entry that gets another key: when its directory is another, that one *)
(* counts one more and the old one less.                                   *)
Recounted(rec, from, to) ==
    IF rec.dir /\ from # to
    THEN IF rec.id = from THEN Short(rec.val - 1)
         ELSE IF rec.id = to THEN Short(rec.val + 1) ELSE rec.val
    ELSE rec.val

Moved(c, d, key, new, name) ==
    /\ key \in DOMAIN c /\ new \notin DOMAIN c \ {key}
    /\ DOMAIN d = (DOMAIN c \ {key}) \cup {new}
    /\ d[new].id = c[key].id /\ d[new].dir = c[key].dir /\ d[new].name = name
    /\ d[new].val = c[key].val
    /\ \A k \in DOMAIN c \ {key} :
          Alike(d[k], c[k]) /\ d[k].val = Recounted(c[k], key[1], new[1])

(* The thread says the new place.                                          *)
ThreadPut(t, u, id, place) ==
    /\ DOMAIN u = DOMAIN t
    /\ \A i \in DOMAIN t : u[i] = IF i = id THEN place ELSE t[i]

(* An entry that moves leaves the directories the same.                    *)
LEMMA MovedHomes ==
    ASSUME NEW c, NEW d, NEW key, NEW new, NEW name, Moved(c, d, key, new, name)
    PROVE  Homes(d) = Homes(c)
<1>1. d[new].id = c[key].id /\ d[new].dir = c[key].dir /\ new \in DOMAIN d /\ key \in DOMAIN c
  BY DEF Moved
<1>2. \A k \in DOMAIN c : k # key => k \in DOMAIN d /\ d[k].id = c[k].id /\ d[k].dir = c[k].dir
  BY DEF Moved, Alike
<1>3. \A k \in DOMAIN d : k = new \/ (k \in DOMAIN c /\ k # key) BY DEF Moved
<1>4. ASSUME NEW id \in Homes(c) PROVE id \in Homes(d)
  <2>1. PICK k \in DOMAIN c : c[k].dir /\ c[k].id = id BY DEF Homes
  <2> QED BY <1>1, <1>2, <2>1 DEF Homes
<1>5. ASSUME NEW id \in Homes(d) PROVE id \in Homes(c)
  <2>1. PICK k \in DOMAIN d : d[k].dir /\ d[k].id = id BY DEF Homes
  <2>2. CASE k = new BY <1>1, <2>1, <2>2 DEF Homes
  <2>3. CASE k # new BY <1>2, <1>3, <2>1, <2>3 DEF Homes
  <2> QED BY <2>2, <2>3
<1> QED BY <1>4, <1>5

(* The threads are those of the entries after one has moved and its thread *)
(* says where.                                                             *)
LEMMA MovedThreaded ==
    ASSUME NEW c, NEW t, Threaded(c, t), NEW next, Numbered(c, next),
           NEW d, NEW key, NEW new, NEW name, Moved(c, d, key, new, name),
           NEW u, ThreadPut(t, u, c[key].id, Thread(c[key].dir, new[1], name))
    PROVE  Threaded(d, u)
<1> DEFINE id == c[key].id
           x  == Thread(c[key].dir, new[1], name)
<1>1. DOMAIN u = DOMAIN t /\ \A i \in DOMAIN t : u[i] = IF i = id THEN x ELSE t[i]
  BY DEF ThreadPut
<1>2. \A k \in DOMAIN c : k # key => /\ k \in DOMAIN d /\ d[k].id = c[k].id
                                     /\ d[k].dir = c[k].dir /\ d[k].name = c[k].name
  BY DEF Moved, Alike
<1>3. /\ d[new].id = id /\ d[new].dir = c[key].dir /\ d[new].name = name
      /\ new \in DOMAIN d /\ key \in DOMAIN c
  BY DEF Moved
<1>4. \A k \in DOMAIN d : k = new \/ (k \in DOMAIN c /\ k # key) BY DEF Moved
<1>5. \A k \in DOMAIN c : k # key => c[k].id # id BY <1>3 DEF Numbered
<1>6. /\ \A k \in DOMAIN c : /\ c[k].dir => c[k].id \in DOMAIN t
                             /\ c[k].id \in DOMAIN t
                                   => t[c[k].id] = Thread(c[k].dir, k[1], c[k].name)
      /\ \A i \in DOMAIN t : \E k \in DOMAIN c : c[k].id = i
  BY DEF Threaded
<1>7. ASSUME NEW k \in DOMAIN d
      PROVE  /\ d[k].dir => d[k].id \in DOMAIN u
             /\ d[k].id \in DOMAIN u => u[d[k].id] = Thread(d[k].dir, k[1], d[k].name)
  <2>1. CASE k = new
    <3>1. Thread(d[k].dir, k[1], d[k].name) = x BY <1>3, <2>1
    <3>2. c[key].dir => id \in DOMAIN t BY <1>3, <1>6
    <3> HIDE DEF id, x
    <3> QED BY <1>1, <1>3, <2>1, <3>1, <3>2
  <2>2. CASE k # new
    <3>1. k \in DOMAIN c /\ k # key BY <1>4, <2>2
    <3>2. d[k].id = c[k].id /\ d[k].dir = c[k].dir /\ d[k].name = c[k].name BY <1>2, <3>1
    <3>3. Thread(d[k].dir, k[1], d[k].name) = Thread(c[k].dir, k[1], c[k].name) BY <3>2
    <3>4. c[k].id # id BY <1>5, <3>1
    <3>5. /\ c[k].dir => c[k].id \in DOMAIN t
          /\ c[k].id \in DOMAIN t => t[c[k].id] = Thread(c[k].dir, k[1], c[k].name)
      BY <1>6, <3>1
    <3> HIDE DEF id, x
    <3> QED BY <1>1, <3>2, <3>3, <3>4, <3>5
  <2> QED BY <2>1, <2>2
<1>8. ASSUME NEW i \in DOMAIN u PROVE \E k \in DOMAIN d : d[k].id = i
  <2>1. PICK k \in DOMAIN c : c[k].id = i BY <1>1, <1>6
  <2> QED BY <1>2, <1>3, <2>1
<1> QED BY <1>7, <1>8 DEF Threaded

(* A root directory that is renamed stays, and nothing goes beside it.     *)
LEMMA MovedLinked ==
    ASSUME NEW c, NEW next, Numbered(c, next), Linked(c),
           NEW d, NEW key, NEW new, NEW name, Moved(c, d, key, new, name), name \in Names,
           new[1] = key[1] \/ (/\ c[key].id # RootDir /\ new[1] \in Homes(c)
                               /\ new[1] # c[key].id)
    PROVE  Linked(d)
<1>1. Homes(d) = Homes(c) BY MovedHomes
<1>2. \A k \in DOMAIN c : k # key => d[k].id = c[k].id /\ d[k].name = c[k].name
  BY DEF Moved, Alike
<1>3. d[new].id = c[key].id /\ d[new].name = name /\ key \in DOMAIN c BY DEF Moved
<1>4. \A k \in DOMAIN d : k = new \/ (k \in DOMAIN c /\ k # key) BY DEF Moved
<1>5. \A k \in DOMAIN c :
         /\ k[1] \in Homes(c) \cup {RootPar} /\ k[1] # c[k].id
         /\ k[1] = RootPar <=> c[k].id = RootDir
         /\ c[k].id = RootDir \/ c[k].id >= FirstNum
         /\ c[k].name \in Names
  BY DEF Linked
<1>6. RootPar \notin Homes(c)
  <2>1. \A k \in DOMAIN c : c[k].id \in Nat /\ (c[k].id = RootDir \/ c[k].id >= FirstNum)
    BY <1>5 DEF Numbered
  <2> QED BY <2>1 DEF Homes, RootPar, RootDir, FirstNum
<1>7. ASSUME NEW k \in DOMAIN d
      PROVE  /\ k[1] \in Homes(d) \cup {RootPar} /\ k[1] # d[k].id
             /\ k[1] = RootPar <=> d[k].id = RootDir
             /\ d[k].id = RootDir \/ d[k].id >= FirstNum
             /\ d[k].name \in Names
  <2>1. CASE k = new
    <3>1. d[k].id = c[key].id /\ d[k].name = name BY <1>3, <2>1
    <3>2. c[key].id = RootDir \/ c[key].id >= FirstNum BY <1>3, <1>5
    <3>3. CASE new[1] = key[1] BY <1>1, <1>3, <1>5, <2>1, <3>1, <3>3
    <3>4. CASE c[key].id # RootDir /\ new[1] \in Homes(c) /\ new[1] # c[key].id
      BY <1>1, <1>6, <2>1, <3>1, <3>2, <3>4
    <3> QED BY <3>3, <3>4
  <2>2. CASE k # new
    <3>1. k \in DOMAIN c /\ d[k].id = c[k].id /\ d[k].name = c[k].name BY <1>2, <1>4, <2>2
    <3> QED BY <1>1, <1>5, <3>1
  <2> QED BY <2>1, <2>2
<1>8. RootDir \in Homes(d) BY <1>1 DEF Linked
<1> QED BY <1>7, <1>8 DEF Linked

(* The valences are right after an entry has moved and both directories    *)
(* have counted it.                                                        *)
LEMMA MovedTallied ==
    ASSUME NEW c, NEW next, Numbered(c, next), next >= FirstNum, Linked(c), Tallied(c),
           NEW d, NEW key, NEW new, NEW name, Moved(c, d, key, new, name),
           Numbered(d, next), Linked(d), next - FirstNum < 65536, c[key].id # new[1]
    PROVE  Tallied(d)
<1> DEFINE From(id) == In(DOMAIN c, id)
           To(id)   == In(DOMAIN d, id)
<1>1. next \in Nat BY DEF Numbered
<1>2. key \in DOMAIN c /\ new \notin DOMAIN c \ {key} /\ DOMAIN d = (DOMAIN c \ {key}) \cup {new}
  BY DEF Moved
<1>3. Homes(d) = Homes(c) BY MovedHomes
<1>4. ASSUME NEW id \in Homes(c)
      PROVE  /\ IsFiniteSet(From(id)) /\ Cardinality(From(id)) \in Nat
             /\ IsFiniteSet(To(id)) /\ Cardinality(To(id)) \in Nat
             /\ Cardinality(To(id)) <= next - FirstNum
  BY <1>3, DirFits
<1>5. ASSUME NEW id \in Homes(c)
      PROVE  Cardinality(To(id)) =
                IF key[1] = new[1] THEN Cardinality(From(id))
                ELSE IF id = key[1] THEN Cardinality(From(id)) - 1
                ELSE IF id = new[1] THEN Cardinality(From(id)) + 1 ELSE Cardinality(From(id))
  <2>1. CASE key[1] # id /\ new[1] # id
    <3>1. To(id) = From(id) BY <1>2, <2>1 DEF In
    <3> QED BY <2>1, <3>1
  <2>2. CASE key[1] = id /\ new[1] = id
    <3>1. key \in From(id) /\ new \notin From(id) \ {key} /\ To(id) = (From(id) \ {key}) \cup {new}
      BY <1>2, <2>2 DEF In
    <3> DEFINE A == From(id)
               B == To(id)
    <3>2. IsFiniteSet(A) BY <1>4
    <3>3. key \in A /\ new \notin A \ {key} /\ B = (A \ {key}) \cup {new} BY <3>1
    <3> HIDE DEF A, B
    <3>4. Cardinality(B) = Cardinality(A) BY <3>2, <3>3, OneForAnother
    <3> QED BY <2>2, <3>4 DEF A, B
  <2>3. CASE key[1] = id /\ new[1] # id
    <3> DEFINE A == From(id)
               B == To(id)
    <3>1. key \in A /\ B = A \ {key} /\ IsFiniteSet(A)
      <4>1. key \in A BY <1>2, <2>3 DEF In
      <4>2. B = A \ {key} BY <1>2, <2>3 DEF In
      <4> QED BY <1>4, <4>1, <4>2
    <3> HIDE DEF A, B
    <3>2. Cardinality(B) = Cardinality(A) - 1 BY <3>1, OneLess
    <3> QED BY <2>3, <3>2 DEF A, B
  <2>4. CASE key[1] # id /\ new[1] = id
    <3> DEFINE A == From(id)
               B == To(id)
    <3>1. new \notin A /\ B = A \cup {new} /\ IsFiniteSet(A)
      <4>1. new \notin A BY <1>2, <2>4 DEF In
      <4>2. B = A \cup {new} BY <1>2, <2>4 DEF In
      <4> QED BY <1>4, <4>1, <4>2
    <3> HIDE DEF A, B
    <3>2. Cardinality(B) = Cardinality(A) + 1 BY <3>1, OneMore
    <3> QED BY <2>4, <3>2 DEF A, B
  <2> QED BY <2>1, <2>2, <2>3, <2>4
<1> HIDE DEF From, To
<1>6. ASSUME NEW k \in DOMAIN c
      PROVE  c[k].val = IF c[k].dir THEN Cardinality(From(c[k].id)) ELSE 0
  BY DEF Tallied, From
<1>7. ASSUME NEW k \in DOMAIN c, c[k].dir
      PROVE  Recounted(c[k], key[1], new[1]) = Cardinality(To(c[k].id))
  <2> DEFINE n == Cardinality(From(c[k].id))
             m == Cardinality(To(c[k].id))
  <2>1. c[k].id \in Homes(c) BY <1>7 DEF Homes
  <2>2. c[k].val = n BY <1>6, <1>7
  <2>3. n \in Nat /\ m \in Nat /\ m < 65536 BY <1>1, <1>4, <2>1 DEF FirstNum
  <2>4. m = IF key[1] = new[1] THEN n ELSE IF c[k].id = key[1] THEN n - 1
            ELSE IF c[k].id = new[1] THEN n + 1 ELSE n
    BY <1>5, <2>1
  <2> HIDE DEF n, m
  <2>5. Short(m) = m BY <2>3, ShortFits
  <2>6. Recounted(c[k], key[1], new[1]) = m BY <1>7, <2>2, <2>3, <2>4, <2>5 DEF Recounted
  <2> QED BY <2>6 DEF m
<1>8. ASSUME NEW k \in DOMAIN d
      PROVE  d[k].val = IF d[k].dir THEN Cardinality(To(d[k].id)) ELSE 0
  <2>1. CASE k = new
    <3>1. d[k].id = c[key].id /\ d[k].dir = c[key].dir /\ d[k].val = c[key].val
      BY <2>1 DEF Moved
    <3>2. CASE c[key].dir
      <4>1. c[key].id \in Homes(c) BY <1>2, <3>2 DEF Homes
      <4>2. c[key].id # key[1] BY <1>2 DEF Linked
      <4>3. Cardinality(To(c[key].id)) = Cardinality(From(c[key].id)) BY <1>5, <4>1, <4>2
      <4> QED BY <1>2, <1>6, <3>1, <3>2, <4>3
    <3>3. CASE ~ c[key].dir BY <1>2, <1>6, <3>1, <3>3
    <3> QED BY <3>2, <3>3
  <2>2. CASE k # new
    <3>1. k \in DOMAIN c \ {key} BY <1>2, <2>2
    <3>2. /\ d[k].id = c[k].id /\ d[k].dir = c[k].dir
          /\ d[k].val = Recounted(c[k], key[1], new[1])
      BY <3>1 DEF Moved, Alike
    <3>3. CASE c[k].dir BY <1>7, <3>1, <3>2, <3>3
    <3>4. CASE ~ c[k].dir
      <4>1. d[k].val = c[k].val BY <3>2, <3>4 DEF Recounted
      <4> QED BY <1>6, <3>1, <3>2, <3>4, <4>1
    <3> QED BY <3>3, <3>4
  <2> QED BY <2>1, <2>2
<1> QED BY <1>8 DEF Tallied, To

-----------------------------------------------------------------------------
(* The same for the totals of the MDB.                                     *)

(* How many directories, or files, there are, and how many in the root     *)
(* directory.                                                              *)
All(c, b) == Cardinality(Sorted(c, DOMAIN c, b))
RootCount(c, b) == Cardinality(Sorted(c, In(DOMAIN c, RootDir), b))

(* The totals of a whole catalog are natural numbers; those of the root    *)
(* directory fit a valence.                                                *)
LEMMA TotalsAre ==
    ASSUME NEW c, NEW next, Numbered(c, next), next >= FirstNum, Linked(c), NEW b
    PROVE  /\ IsFiniteSet(Sorted(c, DOMAIN c, b)) /\ All(c, b) \in Nat
           /\ IsFiniteSet(Sorted(c, In(DOMAIN c, RootDir), b))
           /\ RootCount(c, b) \in Nat /\ RootCount(c, b) <= next - FirstNum
<1> DEFINE A == Sorted(c, DOMAIN c, b)
           B == Sorted(c, In(DOMAIN c, RootDir), b)
<1>1. A \in SUBSET DOMAIN c BY DEF Sorted
<1>2. B \in SUBSET DOMAIN c /\ \A k \in B : c[k].id # RootDir
  BY DEF Sorted, In, Linked, RootDir, RootPar
<1> HIDE DEF A, B
<1>3. IsFiniteSet(A) /\ Cardinality(A) \in Nat BY <1>1, CountFits
<1>4. IsFiniteSet(B) /\ Cardinality(B) \in Nat /\ Cardinality(B) <= next - FirstNum
  BY <1>2, CountFits
<1> QED BY <1>3, <1>4 DEF A, B, All, RootCount

(* The totals with an entry more.                                          *)
LEMMA AddedTotals ==
    ASSUME NEW c, NEW next, Numbered(c, next), next >= FirstNum, Linked(c),
           NEW d, NEW key, NEW rec, NEW pk, Added(c, d, key, rec, pk), NEW b
    PROVE  /\ All(d, b) = All(c, b) + (IF rec.dir = b THEN 1 ELSE 0)
           /\ RootCount(d, b) = RootCount(c, b) + (IF rec.dir = b /\ key[1] = RootDir THEN 1 ELSE 0)
<1>1. /\ DOMAIN d = DOMAIN c \cup {key} /\ d[key].dir = rec.dir /\ key \notin DOMAIN c
      /\ \A k \in DOMAIN c : d[k].dir = c[k].dir
  BY DEF Added, Alike
<1> DEFINE A == Sorted(c, DOMAIN c, b)
           B == Sorted(d, DOMAIN d, b)
           S == Sorted(c, In(DOMAIN c, RootDir), b)
           T == Sorted(d, In(DOMAIN d, RootDir), b)
<1>2. IsFiniteSet(A) /\ All(c, b) \in Nat /\ IsFiniteSet(S) /\ RootCount(c, b) \in Nat BY TotalsAre
<1>3. key \notin A /\ key \notin S BY <1>1 DEF Sorted, In
<1>4. B = IF rec.dir = b THEN A \cup {key} ELSE A BY <1>1 DEF Sorted
<1>5. T = IF rec.dir = b /\ key[1] = RootDir THEN S \cup {key} ELSE S BY <1>1 DEF Sorted, In
<1> HIDE DEF A, B, S, T
<1>6. Cardinality(B) = Cardinality(A) + (IF rec.dir = b THEN 1 ELSE 0)
  <2>1. CASE rec.dir = b BY <1>2, <1>3, <1>4, <2>1, OneMore
  <2>2. CASE rec.dir # b BY <1>2, <1>4, <2>2 DEF A, All
  <2> QED BY <2>1, <2>2
<1>7. Cardinality(T) = Cardinality(S) + (IF rec.dir = b /\ key[1] = RootDir THEN 1 ELSE 0)
  <2>1. CASE rec.dir = b /\ key[1] = RootDir BY <1>2, <1>3, <1>5, <2>1, OneMore
  <2>2. CASE ~ (rec.dir = b /\ key[1] = RootDir) BY <1>2, <1>5, <2>2 DEF S, RootCount
  <2> QED BY <2>1, <2>2
<1> QED BY <1>6, <1>7 DEF A, B, S, T, All, RootCount

(* The totals with an entry less.                                          *)
LEMMA RemovedTotals ==
    ASSUME NEW c, NEW next, Numbered(c, next), next >= FirstNum, Linked(c),
           NEW d, NEW key, NEW pk, Removed(c, d, key, pk), NEW b
    PROVE  /\ All(d, b) = All(c, b) - (IF c[key].dir = b THEN 1 ELSE 0)
           /\ RootCount(d, b) = RootCount(c, b)
                - (IF c[key].dir = b /\ key[1] = RootDir THEN 1 ELSE 0)
           /\ All(d, b) \in Nat /\ RootCount(d, b) \in Nat
<1>1. /\ DOMAIN d = DOMAIN c \ {key} /\ key \in DOMAIN c
      /\ \A k \in DOMAIN d : d[k].dir = c[k].dir
  BY DEF Removed, Alike
<1> DEFINE A == Sorted(c, DOMAIN c, b)
           B == Sorted(d, DOMAIN d, b)
           S == Sorted(c, In(DOMAIN c, RootDir), b)
           T == Sorted(d, In(DOMAIN d, RootDir), b)
<1>2. IsFiniteSet(A) /\ All(c, b) \in Nat /\ IsFiniteSet(S) /\ RootCount(c, b) \in Nat BY TotalsAre
<1>3. key \in A <=> c[key].dir = b BY <1>1 DEF Sorted
<1>4. key \in S <=> c[key].dir = b /\ key[1] = RootDir BY <1>1 DEF Sorted, In
<1>5. B = A \ {key} BY <1>1 DEF Sorted
<1>6. T = S \ {key} BY <1>1 DEF Sorted, In
<1> HIDE DEF A, B, S, T
<1>7. /\ Cardinality(B) = Cardinality(A) - (IF c[key].dir = b THEN 1 ELSE 0)
      /\ Cardinality(B) \in Nat
  <2>1. CASE c[key].dir = b BY <1>2, <1>3, <1>5, <2>1, OneLess
  <2>2. CASE c[key].dir # b
    <3>1. B = A BY <1>3, <1>5, <2>2
    <3> QED BY <1>2, <2>2, <3>1 DEF A, All
  <2> QED BY <2>1, <2>2
<1>8. /\ Cardinality(T) = Cardinality(S) - (IF c[key].dir = b /\ key[1] = RootDir THEN 1 ELSE 0)
      /\ Cardinality(T) \in Nat
  <2>1. CASE c[key].dir = b /\ key[1] = RootDir BY <1>2, <1>4, <1>6, <2>1, OneLess
  <2>2. CASE ~ (c[key].dir = b /\ key[1] = RootDir)
    <3>1. T = S BY <1>4, <1>6, <2>2
    <3> QED BY <1>2, <2>2, <3>1 DEF S, RootCount
  <2> QED BY <2>1, <2>2
<1> QED BY <1>7, <1>8 DEF A, B, S, T, All, RootCount

(* The totals after an entry has moved: those of the root directory may    *)
(* differ.                                                                 *)
LEMMA MovedTotals ==
    ASSUME NEW c, NEW next, Numbered(c, next), next >= FirstNum, Linked(c),
           NEW d, NEW key, NEW new, NEW name, Moved(c, d, key, new, name), NEW b
    PROVE  /\ All(d, b) = All(c, b)
           /\ RootCount(d, b) = RootCount(c, b)
                  - (IF c[key].dir = b /\ key[1] = RootDir THEN 1 ELSE 0)
                  + (IF c[key].dir = b /\ new[1] = RootDir THEN 1 ELSE 0)
           /\ RootCount(c, b) - (IF c[key].dir = b /\ key[1] = RootDir THEN 1 ELSE 0) \in Nat
<1>1. /\ key \in DOMAIN c /\ new \notin DOMAIN c \ {key}
      /\ DOMAIN d = (DOMAIN c \ {key}) \cup {new}
      /\ d[new].dir = c[key].dir
      /\ \A k \in DOMAIN c \ {key} : d[k].dir = c[k].dir
  BY DEF Moved, Alike
<1> DEFINE A == Sorted(c, DOMAIN c, b)
           B == Sorted(d, DOMAIN d, b)
           S == Sorted(c, In(DOMAIN c, RootDir), b)
           T == Sorted(d, In(DOMAIN d, RootDir), b)
           X == S \ {key}
<1>2. IsFiniteSet(A) /\ All(c, b) \in Nat /\ IsFiniteSet(S) /\ RootCount(c, b) \in Nat BY TotalsAre
<1>3. key \in A <=> c[key].dir = b BY <1>1 DEF Sorted
<1>4. key \in S <=> c[key].dir = b /\ key[1] = RootDir BY <1>1 DEF Sorted, In
<1>5. new \notin A \ {key} /\ new \notin X BY <1>1 DEF Sorted, In
<1>6. B = IF c[key].dir = b THEN (A \ {key}) \cup {new} ELSE A
  <2>1. \A k \in DOMAIN d : k = new \/ (k \in DOMAIN c /\ k # key /\ d[k].dir = c[k].dir)
    BY <1>1
  <2>2. \A k \in DOMAIN c : k # key => k \in DOMAIN d /\ d[k].dir = c[k].dir BY <1>1
  <2>3. new \in DOMAIN d BY <1>1
  <2>4. \A k \in DOMAIN c : k = new => k = key BY <1>1
  <2>5. CASE c[key].dir = b
    <3>1. B \subseteq (A \ {key}) \cup {new} BY <2>1 DEF Sorted
    <3>2. (A \ {key}) \cup {new} \subseteq B BY <1>1, <2>2, <2>3, <2>5 DEF Sorted
    <3> QED BY <2>5, <3>1, <3>2
  <2>6. CASE c[key].dir # b
    <3>1. B \subseteq A BY <1>1, <2>1, <2>6 DEF Sorted
    <3>2. A \subseteq B BY <2>2, <2>6 DEF Sorted
    <3> QED BY <2>6, <3>1, <3>2
  <2> QED BY <2>5, <2>6
<1>7. T = IF c[key].dir = b /\ new[1] = RootDir THEN X \cup {new} ELSE X
  <2>1. \A k \in DOMAIN d : k = new \/ (k \in DOMAIN c /\ k # key /\ d[k].dir = c[k].dir)
    BY <1>1
  <2>2. \A k \in DOMAIN c : k # key => k \in DOMAIN d /\ d[k].dir = c[k].dir /\ k # new
    BY <1>1
  <2>3. new \in DOMAIN d BY <1>1
  <2>4. CASE c[key].dir = b /\ new[1] = RootDir
    <3>1. T \subseteq X \cup {new} BY <2>1 DEF Sorted, In
    <3>2. X \cup {new} \subseteq T BY <1>1, <2>2, <2>3, <2>4 DEF Sorted, In
    <3> QED BY <2>4, <3>1, <3>2
  <2>5. CASE ~ (c[key].dir = b /\ new[1] = RootDir)
    <3>1. T \subseteq X BY <1>1, <2>1, <2>5 DEF Sorted, In
    <3>2. X \subseteq T BY <2>2 DEF Sorted, In
    <3> QED BY <2>5, <3>1, <3>2
  <2> QED BY <2>4, <2>5
<1> HIDE DEF A, B, S, T
<1>8. Cardinality(B) = Cardinality(A)
  <2>1. CASE c[key].dir = b BY <1>2, <1>3, <1>5, <1>6, <2>1, OneForAnother
  <2>2. CASE c[key].dir # b BY <1>6, <2>2
  <2> QED BY <2>1, <2>2
<1>9. /\ IsFiniteSet(X) /\ Cardinality(X) \in Nat
      /\ Cardinality(X) = Cardinality(S) - (IF c[key].dir = b /\ key[1] = RootDir THEN 1 ELSE 0)
  <2>1. CASE c[key].dir = b /\ key[1] = RootDir BY <1>2, <1>4, <2>1, OneLess
  <2>2. CASE ~ (c[key].dir = b /\ key[1] = RootDir)
    <3>1. X = S BY <1>4, <2>2
    <3> QED BY <1>2, <2>2, <3>1 DEF S, RootCount
  <2> QED BY <2>1, <2>2
<1> HIDE DEF X
<1>10. Cardinality(T) = Cardinality(X) + (IF c[key].dir = b /\ new[1] = RootDir THEN 1 ELSE 0)
  <2>1. CASE c[key].dir = b /\ new[1] = RootDir BY <1>5, <1>7, <1>9, <2>1, OneMore
  <2>2. CASE ~ (c[key].dir = b /\ new[1] = RootDir) BY <1>7, <1>9, <2>2
  <2> QED BY <2>1, <2>2
<1>11. All(d, b) = All(c, b) BY <1>8 DEF A, B, All
<1>12. RootCount(d, b) = Cardinality(T) /\ RootCount(c, b) = Cardinality(S) BY DEF S, T, RootCount
<1> QED BY <1>9, <1>10, <1>11, <1>12

(* The counts of the MDB are these numbers.                                *)
Shows(m, dirs, fls, rtdirs, rtfiles) ==
    /\ IsMDB(m)
    /\ m.dirs = dirs /\ m.files = fls /\ m.rtdirs = rtdirs /\ m.rtfiles = rtfiles

(* Counting directories leaves the numbers of files alone.                 *)
LEMMA ShowsDirs ==
    ASSUME NEW i, NEW j, NEW k, NEW l, NEW m, Shows(m, i, j, k, l), NEW x, NEW y
    PROVE  Shows(WithDirs(m, x, y), x, j, y, l)
BY DEF Shows, WithDirs, IsMDB, Fields

(* Counting files leaves the numbers of directories alone.                 *)
LEMMA ShowsFiles ==
    ASSUME NEW i, NEW j, NEW k, NEW l, NEW m, Shows(m, i, j, k, l), NEW x, NEW y
    PROVE  Shows(WithFiles(m, x, y), i, x, k, y)
BY DEF Shows, WithFiles, IsMDB, Fields

(* What v_adjvalence makes of the totals for a directory.                  *)
LEMMA CountedDir ==
    ASSUME NEW i, NEW j, NEW k, NEW l, NEW m, Shows(m, i, j, k, l), NEW par, NEW adj
    PROVE  Shows(CountedMDB(m, par, TRUE, adj), i + adj, j, Short(k + InRoot(par, adj)), l)
<1>1. m.dirs = i /\ m.rtdirs = k BY DEF Shows
<1>2. CountedMDB(m, par, TRUE, adj) = WithDirs(m, i + adj, Short(k + InRoot(par, adj)))
  BY <1>1 DEF CountedMDB
<1> QED BY <1>2, ShowsDirs

(* What v_adjvalence makes of the totals for a file.                       *)
LEMMA CountedFile ==
    ASSUME NEW i, NEW j, NEW k, NEW l, NEW m, Shows(m, i, j, k, l), NEW par, NEW adj
    PROVE  Shows(CountedMDB(m, par, FALSE, adj), i, j + adj, k, Short(l + InRoot(par, adj)))
<1>1. m.files = j /\ m.rtfiles = l BY DEF Shows
<1>2. CountedMDB(m, par, FALSE, adj) = WithFiles(m, j + adj, Short(l + InRoot(par, adj)))
  BY <1>1 DEF CountedMDB
<1> QED BY <1>2, ShowsFiles

(* What the MDB says and what the catalog has.                             *)
LEMMA TotalsShown ==
    ASSUME NEW c, NEW m, IsMDB(m)
    PROVE  Totalled(c, m)
              <=> Shows(m, All(c, TRUE) - 1, All(c, FALSE), RootCount(c, TRUE), RootCount(c, FALSE))
BY DEF Totalled, Shows, All, RootCount

-----------------------------------------------------------------------------
(* A call that makes an entry: hfs_mkdir and hfs_create.                   *)

Bounds == scope \in Scopes /\ faults \in Nat /\ crashes \in Nat

(* A catalog that no I/O error has touched.                                *)
Intact ==
    /\ Whole(cat, thr, mdb.next)
    /\ FirstNum <= mdb.next /\ mdb.next <= scope.max
    /\ disk.next \in FirstNum .. scope.max
    /\ cwd \in Homes(cat)
    /\ ~ upd => mdb = disk

NewNumbered(m) == [m EXCEPT !.next = @ + 1]

(* A call that no I/O error cuts short.                                    *)
LEMMA DoneWhole ==
    ASSUME Bounds, faults' = 0, NEW w, Done(w)
    PROVE  faults = 0 /\ ~ Broken(w)
BY DEF Bounds, Done, Broken

(* A call begins with the volume as it is.                                 *)
LEMMA WorkGoing ==
    ASSUME NEW cut
    PROVE  LET w == Work(cut)
           IN  Going(w) /\ w.cat = cat /\ w.thr = thr /\ w.mdb = mdb /\ w.upd = upd
BY DEF Work, Going, IsWork, Fields

(* Taking the next number changes the MDB alone.                           *)
LEMMA NumberGoing ==
    ASSUME NEW w, Going(w), IsMDB(w.mdb)
    PROVE  LET v == NewNumber(w)
           IN  /\ Going(v) /\ v.cat = w.cat /\ v.thr = w.thr /\ v.mdb = NewNumbered(w.mdb)
               /\ v.upd = TRUE
BY DEF NewNumber, NewNumbered, Going, IsWork, Fields, IsMDB

(* A parent is one of the directories.                                     *)
LEMMA IntactWay ==
    ASSUME CatalogAssumption, Intact
    PROVE  WayOf(Homes(cat) \cup {RootPar})
<1>1. Whole(cat, thr, mdb.next) /\ cwd \in Homes(cat) BY DEF Intact
<1>2. ASSUME NEW id \in DOMAIN thr PROVE thr[id].par \in Homes(cat) \cup {RootPar}
  <2>1. PICK k \in DOMAIN cat : cat[k].id = id BY <1>1 DEF Whole, Threaded
  <2>2. thr[id] = Thread(cat[k].dir, k[1], cat[k].name) BY <1>1, <2>1 DEF Whole, Threaded
  <2>3. thr[id].par = k[1] BY <2>2 DEF Thread
  <2> QED BY <1>1, <2>3 DEF Whole, Linked
<1>3. \A k \in DOMAIN cat : cat[k].name \in Names BY <1>1 DEF Whole, Linked
<1>4. \A k \in DOMAIN cat : cat[k].dir => cat[k].id \in Homes(cat) BY DEF Homes
<1> QED BY <1>1, <1>2, <1>3, <1>4 DEF WayOf

(* The record of a new file or directory, and the thread of a directory.   *)
NewEntry(w, key, rec)    == Insert(NewNumber(w), key, rec)
NewThread(a, rec, par)   == IF rec.dir THEN InsertThread(a, rec.id, Thread(TRUE, par, rec.name))
                            ELSE a
Counting(b, rec, par)    == v_adjvalence(b, par, rec.dir, 1)

(* A call that has failed makes no thread and counts nothing.              *)
LEMMA NothingNew ==
    ASSUME NEW a, ~ a.ok, NEW rec, NEW par
    PROVE  NewThread(a, rec, par) = a /\ Counting(a, rec, par) = a
<1>1. /\ \A id, t : InsertThread(a, id, t) = a
      /\ \A adj, isdir : v_adjvalence(a, par, isdir, adj) = a
  BY NothingAfter
<1> QED BY <1>1 DEF NewThread, Counting

(* A new record, or an unused number; with its thread.                     *)
Listed(a, w, key, rec) ==
    /\ Going(a) /\ a.cat = With(w.cat, key, rec) /\ a.thr = w.thr
    /\ a.mdb = NewNumbered(w.mdb) /\ a.upd = TRUE

Unused(a, w) ==
    /\ ~ a.ok /\ a.cat = w.cat /\ a.thr = w.thr /\ a.mdb = NewNumbered(w.mdb) /\ a.upd = TRUE

ThreadedToo(b, a, rec, par) ==
    /\ Going(b) /\ b.cat = a.cat /\ b.mdb = a.mdb /\ b.upd = a.upd
    /\ ThreadAdded(a.thr, b.thr, rec, par)

(* The record of a new entry: refused when its name is taken, after the    *)
(* number has been used.                                                   *)
LEMMA NewEntryCases ==
    ASSUME NEW w, Going(w), IsMDB(w.mdb), NEW key, NEW rec, NEW a, a = NewEntry(w, key, rec),
           ~ Broken(a)
    PROVE  IF key \in DOMAIN w.cat THEN Unused(a, w) ELSE Listed(a, w, key, rec)
<1> DEFINE n == NewNumber(w)
<1>1. /\ Going(n) /\ n.cat = w.cat /\ n.thr = w.thr /\ n.mdb = NewNumbered(w.mdb)
      /\ n.upd = TRUE
  BY NumberGoing
<1>2. a = Insert(n, key, rec) BY DEF NewEntry
<1> HIDE DEF n
<1>3. IF key \notin DOMAIN n.cat THEN Yields(a, n, With(n.cat, key, rec), n.thr)
      ELSE Refuses(a, n)
  BY <1>1, <1>2, InsertCases
<1> QED BY <1>1, <1>3 DEF Yields, Refuses, Unused, Listed

(* The thread of a new directory: no number that was never given has one.  *)
LEMMA NewThreadCases ==
    ASSUME NEW a, Going(a), NEW rec, NEW par, rec.dir \in BOOLEAN, rec.id \notin DOMAIN a.thr,
           NEW b, b = NewThread(a, rec, par), ~ Broken(b)
    PROVE  ThreadedToo(b, a, rec, par)
<1> DEFINE t == Thread(TRUE, par, rec.name)
<1>1. CASE rec.dir
  <2>1. b = InsertThread(a, rec.id, t) BY <1>1 DEF NewThread
  <2> HIDE DEF t
  <2>2. Yields(b, a, a.cat, With(a.thr, rec.id, t)) BY <2>1, InsertThreadCases
  <2> QED BY <1>1, <2>2 DEF Yields, ThreadAdded, ThreadedToo, t
<1>2. CASE ~ rec.dir
  <2>1. b = a BY <1>2 DEF NewThread
  <2> QED BY <1>2, <2>1 DEF ThreadAdded, ThreadedToo
<1> QED BY <1>1, <1>2

(* The directory of a new entry counts it.                                 *)
LEMMA CountingCases ==
    ASSUME NEW w, Going(w), IsMDB(w.mdb), NEW par, par # RootPar, NEW rec,
           NEW pk, Leads(w.cat, w.thr, par, pk),
           NEW v, v = Counting(w, rec, par), ~ Broken(v)
    PROVE  Adjusted(v, w, pk, par, rec.dir, 1)
BY AdjCases DEF Counting

(* An entry more, and one more in the count of its directory.              *)
LEMMA WithBumped ==
    ASSUME NEW c, NEW next, Numbered(c, next), NEW par, NEW pk \in DOMAIN c, c[pk].dir,
           c[pk].id = par, NEW rec, NEW key, key = Key(par, rec.name), key \notin DOMAIN c,
           NEW d, d = Bumped(With(c, key, rec), pk, 1)
    PROVE  Added(c, d, key, rec, pk)
<1> DEFINE e == With(c, key, rec)
<1>1. DOMAIN e = DOMAIN c \cup {key} /\ e[key] = rec /\ \A k \in DOMAIN c : e[k] = c[k]
  BY DEF With
<1> HIDE DEF e
<1>2. d = [e EXCEPT ![pk].val = Short(@ + 1)] BY DEF Bumped, e
<1>3. DOMAIN d = DOMAIN e /\ \A k \in DOMAIN e : k # pk => d[k] = e[k] BY <1>2
<1>4. d[pk] = [c[pk] EXCEPT !.val = Short(@ + 1)] BY <1>1, <1>2
<1>5. d[key] = rec BY <1>1, <1>3
<1>6. ASSUME NEW k \in DOMAIN c
      PROVE  Alike(d[k], c[k]) /\ d[k].val = IF k = pk THEN Short(c[k].val + 1) ELSE c[k].val
  <2>1. IsRecord(c[k]) BY DEF Numbered, Placed
  <2>2. CASE k = pk BY <1>4, <2>1, <2>2 DEF Alike, IsRecord, Fields
  <2>3. CASE k # pk
    <3>1. d[k] = c[k] BY <1>1, <1>3, <2>3
    <3> QED BY <2>3, <3>1 DEF Alike
  <2> QED BY <2>2, <2>3
<1>7. key[1] = par BY DEF Key
<1> QED BY <1>1, <1>3, <1>5, <1>6, <1>7 DEF Added

Entering(v, key, rec, par) ==
    \/ /\ ~ v.ok /\ v.cat = cat /\ v.thr = thr /\ v.mdb = NewNumbered(mdb) /\ v.upd = TRUE
    \/ /\ v.ok /\ v.mdb = CountedMDB(NewNumbered(mdb), par, rec.dir, 1) /\ v.upd = TRUE
       /\ \E pk : Added(cat, v.cat, key, rec, pk)
       /\ ThreadAdded(thr, v.thr, rec, par)

(* A new entry altogether: its record, its thread, its directory's valence *)
(* and the totals, or a number used for nothing.                           *)
LEMMA EntryGrows ==
    ASSUME Intact, IsMDB(mdb), NEW w, Going(w), w.cat = cat, w.thr = thr, w.mdb = mdb,
           NEW par \in Homes(cat), NEW rec, IsRecord(rec), rec.id = mdb.next,
           NEW key, key = Key(par, rec.name),
           NEW a, a = NewEntry(w, key, rec), NEW b, b = NewThread(a, rec, par),
           NEW v, v = Counting(b, rec, par), ~ Broken(v)
    PROVE  Entering(v, key, rec, par)
<1>1. ~ a.ok => b = a /\ v = a BY NothingNew
<1>2. ~ b.ok => v = b BY NothingNew
<1>3. ~ Broken(a) /\ ~ Broken(b) BY <1>1, <1>2 DEF Broken
<1>4. CASE key \in DOMAIN cat
  <2>1. /\ ~ a.ok /\ a.cat = cat /\ a.thr = thr /\ a.mdb = NewNumbered(mdb) /\ a.upd = TRUE
    <3>1. Unused(a, w) BY <1>3, <1>4, NewEntryCases
    <3> QED BY <3>1 DEF Unused
  <2> QED BY <1>1, <2>1 DEF Entering
<1>5. CASE key \notin DOMAIN cat
  <2>1. /\ Going(a) /\ a.cat = With(cat, key, rec) /\ a.thr = thr /\ a.mdb = NewNumbered(mdb)
        /\ a.upd = TRUE
    <3>1. Listed(a, w, key, rec) BY <1>3, <1>5, NewEntryCases
    <3> QED BY <3>1 DEF Listed
  <2>2. Whole(cat, thr, mdb.next) BY DEF Intact
  <2>3. rec.id \notin DOMAIN thr BY <2>2 DEF Whole, Numbered, Threaded
  <2>4. rec.dir \in BOOLEAN BY DEF IsRecord
  <2>5. /\ Going(b) /\ b.cat = a.cat /\ b.mdb = a.mdb /\ b.upd = a.upd
        /\ ThreadAdded(thr, b.thr, rec, par)
    <3>1. ThreadedToo(b, a, rec, par) BY <1>3, <2>1, <2>3, <2>4, NewThreadCases
    <3> QED BY <2>1, <3>1 DEF ThreadedToo
  <2>6. PICK pk : Leads(cat, thr, par, pk) /\ cat[pk].id = par BY <2>2, HomeLeads
  <2>7. pk \in DOMAIN cat /\ cat[pk].dir /\ par \in DOMAIN thr /\ par # rec.id
    BY <2>3, <2>6 DEF Leads
  <2>8. par \in DOMAIN b.thr /\ b.thr[par] = thr[par]
    BY <2>5, <2>7 DEF ThreadAdded, With
  <2>9. pk \in DOMAIN b.cat /\ b.cat[pk] = cat[pk] BY <1>5, <2>1, <2>5, <2>7 DEF With
  <2>10. Leads(b.cat, b.thr, par, pk) BY <2>6, <2>8, <2>9 DEF Leads
  <2>11. par # RootPar BY <2>2, <2>6, <2>7 DEF Whole, Linked, RootPar, RootDir, FirstNum
  <2>12. IsMDB(b.mdb) BY <2>1, <2>5 DEF NewNumbered, IsMDB, Fields
  <2>13. /\ Going(v) /\ v.cat = Bumped(b.cat, pk, 1) /\ v.thr = b.thr
         /\ v.mdb = CountedMDB(b.mdb, par, rec.dir, 1) /\ v.upd = TRUE
    <3>1. Adjusted(v, b, pk, par, rec.dir, 1)
      BY <1>3, <2>5, <2>10, <2>11, <2>12, CountingCases
    <3> QED BY <3>1 DEF Adjusted
  <2>14. Added(cat, v.cat, key, rec, pk)
    BY <1>5, <2>1, <2>2, <2>5, <2>6, <2>7, <2>13, WithBumped DEF Whole
  <2>15. v.ok /\ v.mdb = CountedMDB(NewNumbered(mdb), par, rec.dir, 1)
    BY <2>1, <2>5, <2>13 DEF Going
  <2> QED BY <2>5, <2>13, <2>14, <2>15 DEF Entering
<1> QED BY <1>4, <1>5

-----------------------------------------------------------------------------
(* A call that removes an entry: hfs_rmdir and hfs_delete.                 *)

(* An entry less, and one less in the count of its directory.              *)
LEMMA WithoutBumped ==
    ASSUME NEW c, NEW next, Numbered(c, next), NEW key \in DOMAIN c,
           NEW pk \in DOMAIN c, pk # key, c[pk].dir, c[pk].id = key[1],
           NEW d, d = Bumped(Without(c, key), pk, -1)
    PROVE  Removed(c, d, key, pk)
<1> DEFINE e == Without(c, key)
<1>1. DOMAIN e = DOMAIN c \ {key} /\ \A k \in DOMAIN c \ {key} : e[k] = c[k]
  BY DEF Without, Restrict
<1> HIDE DEF e
<1>2. d = [e EXCEPT ![pk].val = Short(@ + (-1))] BY DEF Bumped, e
<1>3. DOMAIN d = DOMAIN e /\ \A k \in DOMAIN e : k # pk => d[k] = e[k] BY <1>2
<1>4. d[pk] = [c[pk] EXCEPT !.val = Short(@ - 1)]
  <2>1. d[pk] = [e[pk] EXCEPT !.val = Short(@ + (-1))] BY <1>1, <1>2
  <2>2. e[pk] = c[pk] BY <1>1
  <2>3. Short(c[pk].val + (-1)) = Short(c[pk].val - 1) OBVIOUS
  <2> QED BY <2>1, <2>2, <2>3
<1>6. ASSUME NEW k \in DOMAIN d
      PROVE  Alike(d[k], c[k]) /\ d[k].val = IF k = pk THEN Short(c[k].val - 1) ELSE c[k].val
  <2>1. IsRecord(c[k]) BY <1>1, <1>3 DEF Numbered, Placed
  <2>2. CASE k = pk BY <1>4, <2>1, <2>2 DEF Alike, IsRecord, Fields
  <2>3. CASE k # pk
    <3>1. d[k] = c[k] BY <1>1, <1>3, <2>3
    <3> QED BY <2>3, <3>1 DEF Alike
  <2> QED BY <2>2, <2>3
<1> QED BY <1>1, <1>3, <1>6 DEF Removed

(* A file or directory is removed from a catalog.                          *)
Shrunk(v, key) ==
    /\ Going(v) /\ v.mdb = CountedMDB(mdb, key[1], cat[key].dir, -1) /\ v.upd = TRUE
    /\ \E pk : Removed(cat, v.cat, key, pk)
    /\ ThreadRemoved(thr, v.thr, cat[key].id)

Fewer(a, w, key) == /\ Going(a) /\ a.cat = Without(w.cat, key) /\ a.thr = w.thr
                    /\ a.mdb = w.mdb /\ a.upd = w.upd

(* The record of an entry that goes.                                       *)
LEMMA GoneCases ==
    ASSUME NEW w, Going(w), NEW key \in DOMAIN w.cat, NEW a, a = Delete(w, key), ~ Broken(a)
    PROVE  Fewer(a, w, key)
<1>1. Yields(a, w, Without(w.cat, key), w.thr) BY DeleteCases
<1> QED BY <1>1 DEF Yields, Fewer

ThreadLess(b, a, id) == /\ Going(b) /\ b.cat = a.cat /\ ThreadRemoved(a.thr, b.thr, id)
                        /\ b.mdb = a.mdb /\ b.upd = a.upd

(* The thread of a directory that goes.                                    *)
LEMMA ThreadGoneCases ==
    ASSUME NEW a, Going(a), NEW id, id \in DOMAIN a.thr, NEW b, b = DeleteThread(a, id), ~ Broken(b)
    PROVE  ThreadLess(b, a, id)
<1>1. Yields(b, a, a.cat, Without(a.thr, id)) BY DeleteThreadCases
<1> QED BY <1>1 DEF Yields, ThreadLess, ThreadRemoved

(* The thread of a file that goes, if it has one.                          *)
LEMMA FileThreadGoneCases ==
    ASSUME NEW a, Going(a), NEW id, id \in DOMAIN a.thr => ~ a.thr[id].dir,
           NEW b, b = DeleteFileThread(a, id), ~ Broken(b)
    PROVE  ThreadLess(b, a, id)
<1>1. CASE id \in DOMAIN a.thr
  <2>1. b = DeleteThread(a, id) BY <1>1 DEF DeleteFileThread
  <2> QED BY <1>1, <2>1, ThreadGoneCases
<1>2. CASE id \notin DOMAIN a.thr
  <2>1. b = a BY <1>2 DEF DeleteFileThread
  <2> QED BY <1>2, <2>1 DEF ThreadLess, ThreadRemoved
<1> QED BY <1>1, <1>2

(* The directory of an entry that is not the root.                         *)
LEMMA ParentLeads ==
    ASSUME NEW c, NEW t, NEW next, Whole(c, t, next), NEW key \in DOMAIN c, key[1] # RootPar
    PROVE  \E pk : /\ Leads(c, t, key[1], pk) /\ c[pk].id = key[1] /\ pk # key
                   /\ key[1] # c[key].id
<1>1. key[1] \in Homes(c) /\ key[1] # c[key].id BY DEF Whole, Linked
<1>2. PICK pk : Leads(c, t, key[1], pk) /\ c[pk].id = key[1] BY <1>1, HomeLeads
<1> QED BY <1>1, <1>2

(* A directory that goes altogether.                                       *)
LEMMA RmdirShrinks ==
    ASSUME Intact, IsMDB(mdb), NEW w, Going(w), w.cat = cat, w.thr = thr, w.mdb = mdb,
           NEW key \in DOMAIN cat, cat[key].dir, key[1] # RootPar,
           NEW a, a = Delete(w, key), NEW b, b = DeleteThread(a, cat[key].id),
           NEW v, v = v_adjvalence(b, key[1], TRUE, -1), ~ Broken(v)
    PROVE  Shrunk(v, key)
<1>1. (~ a.ok => b = a /\ v = a) /\ (~ b.ok => v = b)
  <2>1. ~ a.ok => b = a BY NothingAfter
  <2>2. ~ b.ok => v = b BY DEF v_adjvalence
  <2> QED BY <2>1, <2>2
<1>2. ~ Broken(a) /\ ~ Broken(b) BY <1>1 DEF Broken
<1>3. Whole(cat, thr, mdb.next) BY DEF Intact
<1>4. PICK pk : /\ Leads(cat, thr, key[1], pk) /\ cat[pk].id = key[1] /\ pk # key
                /\ key[1] # cat[key].id
  BY <1>3, ParentLeads
<1>5. Fewer(a, w, key) BY <1>2, GoneCases
<1>6. cat[key].id \in DOMAIN thr BY <1>3 DEF Whole, Threaded
<1>7. ThreadLess(b, a, cat[key].id)
  <2>1. Going(a) /\ a.thr = thr BY <1>5 DEF Fewer
  <2> QED BY <1>2, <1>6, <2>1, ThreadGoneCases
<1>8. /\ Going(b) /\ b.cat = Without(cat, key) /\ ThreadRemoved(thr, b.thr, cat[key].id)
      /\ b.mdb = mdb
  BY <1>5, <1>7 DEF Fewer, ThreadLess
<1>9. pk \in DOMAIN cat /\ cat[pk].dir /\ key[1] \in DOMAIN thr BY <1>4 DEF Leads
<1>10. pk \in DOMAIN b.cat /\ b.cat[pk] = cat[pk] BY <1>4, <1>8, <1>9 DEF Without, Restrict
<1>11. key[1] \in DOMAIN b.thr /\ b.thr[key[1]] = thr[key[1]]
  BY <1>4, <1>8, <1>9 DEF ThreadRemoved, Without, Restrict
<1>12. Leads(b.cat, b.thr, key[1], pk) BY <1>4, <1>10, <1>11 DEF Leads
<1>13. Adjusted(v, b, pk, key[1], TRUE, -1) BY <1>8, <1>12, AdjCases
<1>14. cat[key].dir = TRUE BY <1>3 DEF Whole, Numbered, Placed, IsRecord
<1>15. /\ Going(v) /\ v.cat = Bumped(Without(cat, key), pk, -1) /\ v.thr = b.thr
       /\ v.mdb = CountedMDB(mdb, key[1], TRUE, -1) /\ v.upd = TRUE
  BY <1>8, <1>13 DEF Adjusted
<1>16. Numbered(cat, mdb.next) BY <1>3 DEF Whole
<1>17. Removed(cat, v.cat, key, pk) BY <1>4, <1>9, <1>15, <1>16, WithoutBumped
<1> QED BY <1>8, <1>14, <1>15, <1>17 DEF Shrunk

(* A file that goes altogether: its thread is the last to go.              *)
LEMMA DeleteShrinks ==
    ASSUME Intact, IsMDB(mdb), NEW w, Going(w), w.cat = cat, w.thr = thr, w.mdb = mdb,
           NEW key \in DOMAIN cat, ~ cat[key].dir, key[1] # RootPar,
           NEW a, a = Delete(w, key), NEW b, b = v_adjvalence(a, key[1], FALSE, -1),
           NEW v, v = DeleteFileThread(b, cat[key].id), ~ Broken(v)
    PROVE  Shrunk(v, key)
<1>1. (~ a.ok => b = a /\ v = a) /\ (~ b.ok => v = b)
  <2>1. ~ a.ok => b = a BY DEF v_adjvalence
  <2>2. ~ b.ok => v = b BY DEF DeleteFileThread, DeleteThread, Change
  <2> QED BY <2>1, <2>2
<1>2. ~ Broken(a) /\ ~ Broken(b) BY <1>1 DEF Broken
<1>3. Whole(cat, thr, mdb.next) BY DEF Intact
<1>4. PICK pk : /\ Leads(cat, thr, key[1], pk) /\ cat[pk].id = key[1] /\ pk # key
                /\ key[1] # cat[key].id
  BY <1>3, ParentLeads
<1>5. Fewer(a, w, key) BY <1>2, GoneCases
<1>6. /\ Going(a) /\ a.cat = Without(cat, key) /\ a.thr = thr /\ a.mdb = mdb
  BY <1>5 DEF Fewer
<1>7. pk \in DOMAIN cat /\ cat[pk].dir /\ key[1] \in DOMAIN thr BY <1>4 DEF Leads
<1>8. pk \in DOMAIN a.cat /\ a.cat[pk] = cat[pk] BY <1>4, <1>6, <1>7 DEF Without, Restrict
<1>9. Leads(a.cat, a.thr, key[1], pk) BY <1>4, <1>6, <1>8 DEF Leads
<1>10. Adjusted(b, a, pk, key[1], FALSE, -1) BY <1>2, <1>6, <1>9, AdjCases
<1>11. cat[key].dir = FALSE BY <1>3 DEF Whole, Numbered, Placed, IsRecord
<1>12. /\ Going(b) /\ b.cat = Bumped(Without(cat, key), pk, -1) /\ b.thr = thr
       /\ b.mdb = CountedMDB(mdb, key[1], FALSE, -1) /\ b.upd = TRUE
  BY <1>6, <1>10 DEF Adjusted
<1>13. cat[key].id \in DOMAIN b.thr => ~ b.thr[cat[key].id].dir
  <2>1. cat[key].id \in DOMAIN thr
           => thr[cat[key].id] = Thread(cat[key].dir, key[1], cat[key].name)
    BY <1>3 DEF Whole, Threaded
  <2>2. Thread(cat[key].dir, key[1], cat[key].name).dir = cat[key].dir BY DEF Thread
  <2> QED BY <1>11, <1>12, <2>1, <2>2
<1>14. ThreadLess(v, b, cat[key].id) BY <1>12, <1>13, FileThreadGoneCases
<1>15. Numbered(cat, mdb.next) BY <1>3 DEF Whole
<1>16. Removed(cat, b.cat, key, pk) BY <1>4, <1>7, <1>12, <1>15, WithoutBumped
<1> QED BY <1>11, <1>12, <1>14, <1>16 DEF Shrunk, ThreadLess

-----------------------------------------------------------------------------
(* A call that moves an entry: the record of hfs_rename.                   *)

(* A record that goes from one key to another, and its thread.             *)
Relisted(a, w, key, new, rec) ==
    /\ Going(a) /\ a.cat = With(Without(w.cat, key), new, rec) /\ a.thr = w.thr
    /\ a.mdb = w.mdb /\ a.upd = w.upd

(* The record of an entry that moves: deleted first, then inserted.        *)
LEMMA RelistedCases ==
    ASSUME NEW w, Going(w), NEW key \in DOMAIN w.cat, NEW new, new \notin DOMAIN w.cat \ {key},
           NEW rec, NEW d, d = Delete(w, key), NEW a, a = Insert(d, new, rec), ~ Broken(a)
    PROVE  Relisted(a, w, key, new, rec)
<1>1. ~ d.ok => a = d BY NothingAfter
<1>2. ~ Broken(d) BY <1>1 DEF Broken
<1>3. Fewer(d, w, key) BY <1>2, GoneCases
<1>4. Going(d) /\ new \notin DOMAIN d.cat BY <1>3 DEF Fewer, Without, Restrict
<1>5. Yields(a, d, With(d.cat, new, rec), d.thr) BY <1>4, InsertCases
<1> QED BY <1>3, <1>5 DEF Fewer, Yields, Relisted

ThreadFollows(b, a, rec, par, name) ==
    /\ Going(b) /\ b.cat = a.cat /\ b.mdb = a.mdb /\ b.upd = a.upd
    /\ ThreadPut(a.thr, b.thr, rec.id, Thread(rec.dir, par, name))

(* The thread of an entry that moves, if it has one.                       *)
LEMMA ThreadMovedCases ==
    ASSUME NEW a, Going(a), NEW rec, rec.dir => rec.id \in DOMAIN a.thr,
           rec.id \in DOMAIN a.thr => a.thr[rec.id].dir = rec.dir,
           NEW par, NEW name, NEW b, b = ThreadMoved(a, rec, par, name), ~ Broken(b)
    PROVE  ThreadFollows(b, a, rec, par, name)
<1> DEFINE t == Thread(rec.dir, par, name)
<1>0. t.dir = rec.dir BY DEF Thread
<1>1. CASE rec.id \in DOMAIN a.thr
  <2>1. b = PutThread(a, rec.id, t) BY <1>1 DEF ThreadMoved
  <2> HIDE DEF t
  <2>2. a.thr[rec.id].dir = t.dir BY <1>0, <1>1
  <2>3. Yields(b, a, a.cat, [a.thr EXCEPT ![rec.id] = t]) BY <1>1, <2>1, <2>2, PutThreadCases
  <2>4. ThreadPut(a.thr, b.thr, rec.id, t) BY <2>3 DEF Yields, ThreadPut
  <2> QED BY <2>3, <2>4 DEF Yields, ThreadFollows, t
<1>2. CASE rec.id \notin DOMAIN a.thr
  <2>1. b = a BY <1>2 DEF ThreadMoved
  <2> QED BY <1>2, <2>1 DEF ThreadFollows, ThreadPut
<1> QED BY <1>1, <1>2

(* The record at another key; the counts are still the old ones.           *)
Relocated(c, d, key, new, name) ==
    /\ DOMAIN d = (DOMAIN c \ {key}) \cup {new}
    /\ \A k \in DOMAIN c \ {key} : d[k] = c[k]
    /\ d[new].id = c[key].id /\ d[new].dir = c[key].dir /\ d[new].name = name
    /\ d[new].val = c[key].val

(* The record is then at its new key, the others are where they were.      *)
LEMMA RelistedMoves ==
    ASSUME NEW c, NEW next, Numbered(c, next), NEW key \in DOMAIN c, NEW new,
           new \notin DOMAIN c \ {key}, NEW name, NEW rec, rec = [c[key] EXCEPT !.name = name],
           NEW d, d = With(Without(c, key), new, rec)
    PROVE  Relocated(c, d, key, new, name)
<1> DEFINE e == Without(c, key)
<1>1. DOMAIN e = DOMAIN c \ {key} /\ \A k \in DOMAIN c \ {key} : e[k] = c[k]
  BY DEF Without, Restrict
<1> HIDE DEF e
<1>2. d = With(e, new, rec) BY DEF e
<1>3. /\ DOMAIN d = DOMAIN e \cup {new} /\ d[new] = rec
      /\ \A k \in DOMAIN e : k # new => d[k] = e[k]
  <2> DEFINE r == rec
  <2>1. d = With(e, new, r) BY <1>2
  <2> HIDE DEF r
  <2>2. DOMAIN d = DOMAIN e \cup {new} /\ d[new] = r /\ \A k \in DOMAIN e : k # new => d[k] = e[k]
    BY <2>1 DEF With
  <2> QED BY <2>2 DEF r
<1>4. \A k \in DOMAIN c \ {key} : d[k] = c[k] BY <1>1, <1>3
<1>5. /\ rec.id = c[key].id /\ rec.dir = c[key].dir /\ rec.name = name
      /\ rec.val = c[key].val
  BY DEF Numbered, Placed, IsRecord, Fields
<1> QED BY <1>1, <1>3, <1>4, <1>5 DEF Relocated

(* An entry that gets another name in the same directory has moved when    *)
(* its record has.                                                         *)
LEMMA StaysMoves ==
    ASSUME NEW c, NEW d, NEW key \in DOMAIN c, NEW new, new \notin DOMAIN c \ {key},
           NEW name, Relocated(c, d, key, new, name), key[1] = new[1]
    PROVE  Moved(c, d, key, new, name)
<1>1. \A k \in DOMAIN c \ {key} : Alike(d[k], c[k]) /\ d[k].val = Recounted(c[k], key[1], new[1])
  BY DEF Relocated, Alike, Recounted
<1> QED BY <1>1 DEF Relocated, Moved

(* One count less in a directory, one more in another.                     *)
LEMMA BumpedMoves ==
    ASSUME NEW c, NEW next, Numbered(c, next), NEW key \in DOMAIN c, NEW new,
           new \notin DOMAIN c \ {key}, NEW name, NEW e, Relocated(c, e, key, new, name),
           NEW p, p \in DOMAIN c \ {key}, c[p].dir, c[p].id = key[1],
           NEW q, q \in DOMAIN c \ {key}, c[q].dir, c[q].id = new[1], key[1] # new[1],
           NEW f, f = Bumped(e, p, -1), NEW d, d = Bumped(f, q, 1)
    PROVE  Moved(c, d, key, new, name)
<1>0. /\ DOMAIN e = (DOMAIN c \ {key}) \cup {new} /\ \A k \in DOMAIN c \ {key} : e[k] = c[k]
      /\ e[new].id = c[key].id /\ e[new].dir = c[key].dir /\ e[new].name = name
      /\ e[new].val = c[key].val
  BY DEF Relocated
<1>1. p # q OBVIOUS
<1>2. p \in DOMAIN e /\ q \in DOMAIN e /\ p # new /\ q # new BY <1>0
<1>3. /\ DOMAIN f = DOMAIN e /\ \A k \in DOMAIN e : k # p => f[k] = e[k]
      /\ f[p] = [e[p] EXCEPT !.val = Short(@ + (-1))]
  BY <1>2 DEF Bumped
<1>4. /\ DOMAIN d = DOMAIN f /\ \A k \in DOMAIN f : k # q => d[k] = f[k]
      /\ d[q] = [f[q] EXCEPT !.val = Short(@ + 1)]
  BY <1>2, <1>3 DEF Bumped
<1>5. DOMAIN d = DOMAIN e /\ d[new] = e[new] BY <1>0, <1>2, <1>3, <1>4
<1>6. \A k \in DOMAIN c : IsRecord(c[k]) BY DEF Numbered, Placed
<1>7. Short(c[p].val + (-1)) = Short(c[p].val - 1) OBVIOUS
<1>8. ASSUME NEW k \in DOMAIN c \ {key}
      PROVE  Alike(d[k], c[k]) /\ d[k].val = Recounted(c[k], key[1], new[1])
  <2>1. CASE k = p
    <3>1. d[p] = [c[p] EXCEPT !.val = Short(@ - 1)] BY <1>0, <1>1, <1>2, <1>3, <1>4, <1>7
    <3>2. IsRecord(c[p]) BY <1>6
    <3>3. Alike(d[p], c[p]) /\ d[p].val = Short(c[p].val - 1)
      BY <3>1, <3>2 DEF Alike, IsRecord, Fields
    <3> QED BY <2>1, <3>3 DEF Recounted
  <2>2. CASE k = q
    <3>1. d[q] = [c[q] EXCEPT !.val = Short(@ + 1)]
      BY <1>0, <1>1, <1>2, <1>3, <1>4
    <3>2. IsRecord(c[q]) BY <1>6
    <3>3. Alike(d[q], c[q]) /\ d[q].val = Short(c[q].val + 1)
      BY <3>1, <3>2 DEF Alike, IsRecord, Fields
    <3> QED BY <2>2, <3>3 DEF Recounted
  <2>3. CASE k # p /\ k # q
    <3>1. d[k] = c[k] BY <1>0, <1>3, <1>4, <1>5, <2>3
    <3>2. c[k].id # key[1] /\ c[k].id # new[1] BY <2>3 DEF Numbered
    <3> QED BY <3>1, <3>2 DEF Alike, Recounted
  <2> QED BY <2>1, <2>2, <2>3
<1> QED BY <1>0, <1>5, <1>8 DEF Moved

-----------------------------------------------------------------------------
(* All of the changes of hfs_rename.                                       *)

WithName(m, name) == [m EXCEPT !.vn = name]

(* A file or directory has another name or another directory.              *)
Shifted(v, key, new, name) ==
    /\ Going(v) /\ Moved(cat, v.cat, key, new, name)
    /\ ThreadPut(thr, v.thr, cat[key].id, Thread(cat[key].dir, new[1], name))
    /\ \/ /\ key[1] = new[1] /\ new[1] = RootPar
          /\ v.mdb = WithName(mdb, name) /\ v.upd = TRUE
       \/ /\ key[1] = new[1] /\ new[1] # RootPar /\ v.mdb = mdb /\ v.upd = upd
       \/ /\ key[1] # new[1] /\ v.upd = TRUE
          /\ v.mdb = CountedMDB(CountedMDB(mdb, key[1], cat[key].dir, -1), new[1], cat[key].dir, 1)

Renaming(n, w, par, name) ==
    /\ Going(n) /\ n.cat = w.cat /\ n.thr = w.thr
    /\ IF par = RootPar THEN n.mdb = WithName(w.mdb, name) /\ n.upd = TRUE
       ELSE n.mdb = w.mdb /\ n.upd = w.upd

(* The volume is named as its root directory is.                           *)
LEMMA NamedCases ==
    ASSUME NEW w, Going(w), IsMDB(w.mdb), NEW par, NEW name, NEW n, n = Named(w, par, name)
    PROVE  Renaming(n, w, par, name)
<1>1. CASE par = RootPar
  <2>1. n = [w EXCEPT !.mdb.vn = name, !.upd = TRUE] BY <1>1 DEF Named
  <2> QED BY <1>1, <2>1 DEF Renaming, Going, IsWork, Fields, WithName
<1>2. CASE par # RootPar
  <2>1. n = w BY <1>2 DEF Named
  <2> QED BY <1>2, <2>1 DEF Renaming
<1> QED BY <1>1, <1>2

(* The record and its thread at the new place, with no count changed yet.  *)
Placing(b, key, new, name) ==
    /\ Going(b)
    /\ b.cat = With(Without(cat, key), new, [cat[key] EXCEPT !.name = name])
    /\ ThreadPut(thr, b.thr, cat[key].id, Thread(cat[key].dir, new[1], name))
    /\ IF new[1] = RootPar THEN b.mdb = WithName(mdb, name) /\ b.upd = TRUE
       ELSE b.mdb = mdb /\ b.upd = upd

(* hfs_rename up to the valences: the name of the volume, the record and   *)
(* the thread.                                                             *)
LEMMA RenamePlaces ==
    ASSUME Intact, IsMDB(mdb),
           NEW w, Going(w), w.cat = cat, w.thr = thr, w.mdb = mdb, w.upd = upd,
           NEW key \in DOMAIN cat, NEW par, NEW name, NEW new, new = Key(par, name),
           new \notin DOMAIN cat \ {key},
           NEW n, n = Named(w, par, name), NEW d, d = Delete(n, key),
           NEW rec, rec = [cat[key] EXCEPT !.name = name], NEW a, a = Insert(d, new, rec),
           NEW b, b = ThreadMoved(a, rec, par, name), ~ Broken(b)
    PROVE  Placing(b, key, new, name)
<1>1. ~ a.ok => b = a BY NothingAfter DEF ThreadMoved
<1>2. ~ Broken(a) BY <1>1 DEF Broken
<1>3. Renaming(n, w, par, name) BY NamedCases
<1>4. Going(n) /\ n.cat = cat /\ n.thr = thr BY <1>3 DEF Renaming
<1>5. Relisted(a, n, key, new, rec) BY <1>2, <1>4, RelistedCases
<1>6. Whole(cat, thr, mdb.next) BY DEF Intact
<1>7. Going(a) /\ a.thr = thr BY <1>4, <1>5 DEF Relisted
<1>8. IsRecord(cat[key]) BY <1>6 DEF Whole, Numbered, Placed
<1>9. rec.id = cat[key].id /\ rec.dir = cat[key].dir BY <1>8 DEF IsRecord, Fields
<1>10. rec.dir => rec.id \in DOMAIN a.thr BY <1>6, <1>7, <1>9 DEF Whole, Threaded
<1>11. rec.id \in DOMAIN a.thr => a.thr[rec.id].dir = rec.dir
  <2>1. cat[key].id \in DOMAIN thr
           => thr[cat[key].id] = Thread(cat[key].dir, key[1], cat[key].name)
    BY <1>6 DEF Whole, Threaded
  <2>2. Thread(cat[key].dir, key[1], cat[key].name).dir = cat[key].dir BY DEF Thread
  <2> QED BY <1>7, <1>9, <2>1, <2>2
<1>12. ThreadFollows(b, a, rec, par, name)
  BY <1>7, <1>10, <1>11, <1>2, ThreadMovedCases
<1>13. new[1] = par BY DEF Key
<1>14. Going(b) /\ b.cat = a.cat /\ b.mdb = a.mdb /\ b.upd = a.upd
  BY <1>12 DEF ThreadFollows
<1>15. ThreadPut(thr, b.thr, cat[key].id, Thread(cat[key].dir, new[1], name))
  <2>1. ThreadPut(a.thr, b.thr, rec.id, Thread(rec.dir, par, name))
    BY <1>12 DEF ThreadFollows
  <2> QED BY <1>7, <1>9, <1>13, <2>1
<1>16. b.cat = With(Without(cat, key), new, rec) /\ a.mdb = n.mdb /\ a.upd = n.upd
  BY <1>4, <1>5, <1>14 DEF Relisted
<1>17. IF new[1] = RootPar THEN b.mdb = WithName(mdb, name) /\ b.upd = TRUE
       ELSE b.mdb = mdb /\ b.upd = upd
  BY <1>3, <1>13, <1>14, <1>16 DEF Renaming
<1> QED BY <1>14, <1>15, <1>16, <1>17 DEF Placing

(* Within a directory that is all.                                         *)
LEMMA StaysShifted ==
    ASSUME Intact, NEW key \in DOMAIN cat, NEW name, NEW new,
           new \notin DOMAIN cat \ {key}, key[1] = new[1], NEW v, Placing(v, key, new, name)
    PROVE  Shifted(v, key, new, name)
<1> DEFINE rec == [cat[key] EXCEPT !.name = name]
<1>1. Numbered(cat, mdb.next) BY DEF Intact, Whole
<1>2. v.cat = With(Without(cat, key), new, rec) BY DEF Placing
<1> HIDE DEF rec
<1>3. Relocated(cat, v.cat, key, new, name) BY <1>1, <1>2, RelistedMoves DEF rec
<1>4. Moved(cat, v.cat, key, new, name) BY <1>3, StaysMoves
<1> QED BY <1>4 DEF Placing, Shifted

(* From one directory to another, both count it.                           *)
LEMMA GoesShifted ==
    ASSUME Intact, IsMDB(mdb), NEW key \in DOMAIN cat, NEW name, NEW new,
           new \notin DOMAIN cat \ {key}, key[1] # new[1],
           key[1] # RootPar, new[1] \in Homes(cat), new[1] # cat[key].id, new[1] # RootPar,
           NEW b, Placing(b, key, new, name),
           NEW c, c = v_adjvalence(b, key[1], cat[key].dir, -1),
           NEW v, v = v_adjvalence(c, new[1], cat[key].dir, 1), ~ Broken(v)
    PROVE  Shifted(v, key, new, name)
<1> DEFINE rec == [cat[key] EXCEPT !.name = name]
<1>1. Whole(cat, thr, mdb.next) BY DEF Intact
<1>2. Numbered(cat, mdb.next) BY <1>1 DEF Whole
<1>3. /\ Going(b) /\ b.cat = With(Without(cat, key), new, rec) /\ b.mdb = mdb /\ b.upd = upd
      /\ ThreadPut(thr, b.thr, cat[key].id, Thread(cat[key].dir, new[1], name))
  BY DEF Placing
<1>4. PICK p : /\ Leads(cat, thr, key[1], p) /\ cat[p].id = key[1] /\ p # key
               /\ key[1] # cat[key].id
  BY <1>1, ParentLeads
<1>5. PICK q : Leads(cat, thr, new[1], q) /\ cat[q].id = new[1] BY <1>1, HomeLeads
<1>6. /\ p \in DOMAIN cat \ {key} /\ cat[p].dir /\ q \in DOMAIN cat \ {key} /\ cat[q].dir
      /\ key[1] \in DOMAIN thr /\ new[1] \in DOMAIN thr
  BY <1>4, <1>5 DEF Leads
<1> HIDE DEF rec
<1>7. Relocated(cat, b.cat, key, new, name) BY <1>2, <1>3, RelistedMoves DEF rec
<1>8. /\ DOMAIN b.cat = (DOMAIN cat \ {key}) \cup {new}
      /\ \A k \in DOMAIN cat \ {key} : b.cat[k] = cat[k]
  BY <1>7 DEF Relocated
<1>9. /\ key[1] \in DOMAIN b.thr /\ b.thr[key[1]] = thr[key[1]]
      /\ new[1] \in DOMAIN b.thr /\ b.thr[new[1]] = thr[new[1]]
  BY <1>3, <1>4, <1>6 DEF ThreadPut
<1>10. Leads(b.cat, b.thr, key[1], p) BY <1>4, <1>6, <1>8, <1>9 DEF Leads
<1>11. Leads(b.cat, b.thr, new[1], q) BY <1>5, <1>6, <1>8, <1>9 DEF Leads
<1>12. ~ c.ok => v = c BY NothingAfter
<1>13. ~ Broken(c) BY <1>12 DEF Broken
<1>14. Adjusted(c, b, p, key[1], cat[key].dir, -1) BY <1>3, <1>10, <1>13, AdjCases
<1>15. /\ Going(c) /\ c.cat = Bumped(b.cat, p, -1) /\ c.thr = b.thr
       /\ c.mdb = CountedMDB(mdb, key[1], cat[key].dir, -1)
  BY <1>3, <1>14 DEF Adjusted
<1>16. IsMDB(c.mdb) BY <1>15 DEF CountedMDB, WithDirs, WithFiles, IsMDB, Fields
<1>17. p # q BY <1>2, <1>4, <1>5
<1>18. DOMAIN c.cat = DOMAIN b.cat /\ c.cat[q] = b.cat[q]
  BY <1>6, <1>8, <1>15, <1>17 DEF Bumped
<1>19. Leads(c.cat, c.thr, new[1], q) BY <1>11, <1>15, <1>18 DEF Leads
<1>20. Adjusted(v, c, q, new[1], cat[key].dir, 1) BY <1>15, <1>16, <1>19, AdjCases
<1>21. /\ Going(v) /\ v.cat = Bumped(c.cat, q, 1) /\ v.thr = b.thr /\ v.upd = TRUE
       /\ v.mdb = CountedMDB(CountedMDB(mdb, key[1], cat[key].dir, -1), new[1], cat[key].dir, 1)
  BY <1>15, <1>20 DEF Adjusted
<1>22. Moved(cat, v.cat, key, new, name)
  <2> DEFINE e == b.cat
             f == c.cat
             d == v.cat
  <2>1. f = Bumped(e, p, -1) /\ d = Bumped(f, q, 1) BY <1>15, <1>21
  <2>2. Relocated(cat, e, key, new, name) BY <1>7
  <2> HIDE DEF e, f, d
  <2>3. Moved(cat, d, key, new, name) BY <1>2, <1>4, <1>5, <1>6, <2>1, <2>2, BumpedMoves
  <2> QED BY <2>3 DEF d
<1> QED BY <1>3, <1>21, <1>22 DEF Shifted

-----------------------------------------------------------------------------
(* What the operations do to an undamaged volume: the entry that comes,    *)
(* goes or moves, with its thread, its parent's valence and the totals.    *)

(* What the calls do to a catalog that no I/O error has touched: an entry  *)
(* more, an entry less, an entry elsewhere, or nothing.                    *)
Grown(key, rec) ==
    /\ \E pk : Added(cat, cat', key, rec, pk)
    /\ ThreadAdded(thr, thr', rec, key[1])
    /\ Placed(key, rec) /\ rec.id = mdb.next /\ rec.val = 0 /\ rec.name \in Names
    /\ mdb' = CountedMDB(NewNumbered(mdb), key[1], rec.dir, 1) /\ mdb.next < scope.max
    /\ upd' = TRUE

Lost(key) ==
    /\ \E pk : Removed(cat, cat', key, pk)
    /\ ThreadRemoved(thr, thr', cat[key].id)
    /\ cat[key].id \notin {RootDir, cwd} /\ \A k \in DOMAIN cat : k[1] # cat[key].id
    /\ mdb' = CountedMDB(mdb, key[1], cat[key].dir, -1) /\ upd' = TRUE

Went(key, new, name) ==
    /\ Moved(cat, cat', key, new, name)
    /\ ThreadPut(thr, thr', cat[key].id, Thread(cat[key].dir, new[1], name))
    /\ name \in Names /\ new = Key(new[1], name)
    /\ key[1] # new[1] => /\ cat[key].id # RootDir /\ new[1] \in Homes(cat)
                          /\ new[1] # cat[key].id
                          /\ cat[key].dir => NotBelow(cat[key].id, new[1])
    /\ \/ /\ key[1] = new[1] /\ new[1] = RootPar
          /\ mdb' = WithName(mdb, name) /\ upd' = TRUE
       \/ /\ key[1] = new[1] /\ new[1] # RootPar /\ mdb' = mdb /\ upd' = upd
       \/ /\ key[1] # new[1] /\ upd' = TRUE
          /\ mdb' = CountedMDB(CountedMDB(mdb, key[1], cat[key].dir, -1), new[1], cat[key].dir, 1)

Unchanged == /\ ~ ok' /\ cat' = cat /\ thr' = thr
             /\ mdb' = NewNumbered(mdb) /\ mdb.next < scope.max /\ upd' = TRUE

Calm == Bounds /\ Intact /\ Inv /\ CatalogAssumption /\ faults = 0

(* What an undamaged volume is known to be.                                *)
LEMMA CalmFacts ==
    ASSUME Calm
    PROVE  /\ scope \in Scopes /\ Whole(cat, thr, mdb.next) /\ IsMDB(mdb) /\ mdb.next \in Nat
           /\ FirstNum <= mdb.next /\ WayOf(Homes(cat) \cup {RootPar})
<1>1. Quiet BY InvNow DEF Calm
<1>2. WayOf(Homes(cat) \cup {RootPar}) BY IntactWay DEF Calm
<1> QED BY <1>1, <1>2 DEF Calm, Bounds, Intact, Quiet, Numbered

(* What a path finds on an undamaged volume.                               *)
LEMMA CalmResolved ==
    ASSUME Calm, NEW r \in Resolved
    PROVE  /\ r.par \in Homes(cat) \cup {RootPar, 0} \/ r.found
           /\ r.par # 0 \/ r.found => r.name \in Names
           /\ r.found => r.key \in DOMAIN cat /\ r.key[1] = r.par /\ r.name = cat[r.key].name
           /\ r.found \in BOOLEAN
           /\ r.typed \in Names \cup {NoName}
<1> DEFINE D == Homes(cat) \cup {RootPar}
<1>1. CatalogAssumption /\ scope \in Scopes /\ WayOf(D) BY CalmFacts DEF Calm
<1> HIDE DEF D
<1>2. /\ r.par \in D \cup {0} \/ r.found
      /\ r.par # 0 \/ r.found => r.name \in Names
      /\ r.found => r.key \in DOMAIN cat /\ r.key[1] = r.par /\ r.name = cat[r.key].name
      /\ r.found \in BOOLEAN
      /\ r.typed \in Names \cup {NoName}
  BY <1>1, ResolvedAt
<1> QED BY <1>2 DEF D

(* A call that ends with this result leaves no I/O error.                  *)
LEMMA CalmDone ==
    ASSUME Calm, faults' = 0, NEW v, Done(v)
    PROVE  /\ ~ Broken(v)
           /\ cat' = v.cat /\ thr' = v.thr /\ mdb' = v.mdb /\ upd' = v.upd /\ ok' = v.ok
<1>1. ~ Broken(v) BY DoneWhole DEF Calm
<1> QED BY <1>1 DEF Done

(* A call that makes an entry adds it or is refused after it has used a    *)
(* number.                                                                 *)
LEMMA GrownOr ==
    ASSUME Calm, faults' = 0, NEW r \in Resolved, CanCreate(r), NEW cut,
           NEW rec, IsRecord(rec), rec.id = mdb.next, rec.val = 0, rec.name = r.name,
           NEW a, a = NewEntry(Work(cut), Key(r.par, r.name), rec),
           NEW b, b = NewThread(a, rec, r.par),
           NEW v, v = Counting(b, rec, r.par), Done(v)
    PROVE  (Grown(Key(r.par, r.name), rec) /\ ok') \/ Unchanged
<1> DEFINE w == Work(cut)
           key == Key(r.par, r.name)
<1>1. Going(w) /\ w.cat = cat /\ w.thr = thr /\ w.mdb = mdb /\ w.upd = upd BY WorkGoing
<1>2. Intact /\ IsMDB(mdb) /\ mdb.next < scope.max BY CalmFacts DEF Calm, CanCreate
<1>3. r.par \in Homes(cat) /\ r.name \in Names BY CalmResolved DEF CanCreate
<1>4. ~ Broken(v) BY CalmDone
<1>5. key[1] = r.par /\ key = Key(r.par, rec.name) BY DEF Key
<1>6. a = NewEntry(w, key, rec) OBVIOUS
<1> HIDE DEF w, key
<1>7. Entering(v, key, rec, r.par) BY <1>1, <1>2, <1>3, <1>4, <1>5, <1>6, EntryGrows
<1>8. \/ /\ ~ v.ok /\ v.cat = cat /\ v.thr = thr /\ v.mdb = NewNumbered(mdb) /\ v.upd = TRUE
      \/ /\ v.ok /\ v.mdb = CountedMDB(NewNumbered(mdb), r.par, rec.dir, 1) /\ v.upd = TRUE
         /\ \E pk : Added(cat, v.cat, key, rec, pk)
         /\ ThreadAdded(thr, v.thr, rec, r.par)
  BY <1>7 DEF Entering
<1>9. cat' = v.cat /\ thr' = v.thr /\ mdb' = v.mdb /\ upd' = v.upd /\ ok' = v.ok BY DEF Done
<1>10. CASE v.ok
  <2>1. Placed(key, rec) BY <1>5 DEF Placed
  <2>2. Grown(key, rec) BY <1>2, <1>3, <1>5, <1>8, <1>9, <1>10, <2>1 DEF Grown
  <2> QED BY <1>9, <1>10, <2>2 DEF key
<1>11. CASE ~ v.ok BY <1>2, <1>8, <1>9, <1>11 DEF Unchanged
<1> QED BY <1>10, <1>11

-----------------------------------------------------------------------------
(* Each operation that changes an entry does one of these.                 *)

(* hfs_mkdir adds a directory.                                             *)
LEMMA MkdirDoes ==
    ASSUME Calm, faults' = 0, NEW r \in Resolved, hfs_mkdir(r)
    PROVE  (\E key, rec : Grown(key, rec) /\ ok') \/ Unchanged
<1> DEFINE rec == Dir(mdb.next, r.name)
           key == Key(r.par, r.name)
<1>1. CanCreate(r) BY DEF hfs_mkdir
<1>2. PICK cut : Done(v_mkdir(Work(cut), r.par, r.name)) BY DEF hfs_mkdir
<1> DEFINE a == NewEntry(Work(cut), key, rec)
           b == NewThread(a, rec, r.par)
           v == Counting(b, rec, r.par)
<1>3. /\ IsRecord(rec) /\ rec.id = mdb.next /\ rec.val = 0 /\ rec.name = r.name /\ rec.dir = TRUE
  BY DEF Dir, IsRecord, Fields
<1>4. Work(cut).mdb.next = mdb.next BY WorkGoing
<1>5. a = Insert(NewNumber(Work(cut)), key, Dir(Work(cut).mdb.next, r.name))
  BY <1>4 DEF NewEntry
<1>6. b = InsertThread(a, Work(cut).mdb.next, Thread(TRUE, r.par, r.name))
  <2> HIDE DEF a, rec
  <2> QED BY <1>3, <1>4 DEF NewThread
<1>7. v = v_adjvalence(b, r.par, TRUE, 1)
  <2> HIDE DEF b, rec
  <2> QED BY <1>3 DEF Counting
<1>8. v = v_mkdir(Work(cut), r.par, r.name)
  <2> HIDE DEF v
  <2> QED BY <1>5, <1>6, <1>7 DEF v_mkdir, key
<1>9. Done(v) BY <1>2, <1>8
<1> HIDE DEF rec, a, b, v
<1>10. (Grown(key, rec) /\ ok') \/ Unchanged
  BY <1>1, <1>3, <1>9, GrownOr DEF a, b, v
<1> QED BY <1>10

(* hfs_create adds a file.                                                 *)
LEMMA CreateDoes ==
    ASSUME Calm, faults' = 0, NEW r \in Resolved, hfs_create(r)
    PROVE  (\E key, rec : Grown(key, rec) /\ ok') \/ Unchanged
<1> DEFINE rec == File(mdb.next, r.name)
           key == Key(r.par, r.name)
<1>1. CanCreate(r) BY DEF hfs_create
<1>2. PICK cut : Done(v_adjvalence(Insert(NewNumber(Work(cut)), key, rec), r.par, FALSE, 1))
  BY DEF hfs_create
<1> DEFINE a == NewEntry(Work(cut), key, rec)
           b == NewThread(a, rec, r.par)
           v == Counting(b, rec, r.par)
<1>3. /\ IsRecord(rec) /\ rec.id = mdb.next /\ rec.val = 0 /\ rec.name = r.name /\ rec.dir = FALSE
  BY DEF File, IsRecord, Fields
<1>4. a = Insert(NewNumber(Work(cut)), key, rec) BY DEF NewEntry
<1>5. b = a
  <2> HIDE DEF a, rec
  <2> QED BY <1>3 DEF NewThread
<1>6. v = v_adjvalence(b, r.par, FALSE, 1)
  <2> HIDE DEF b, rec
  <2> QED BY <1>3 DEF Counting
<1>7. Done(v)
  <2> HIDE DEF v, rec, a, b
  <2> QED BY <1>2, <1>4, <1>5, <1>6
<1> HIDE DEF rec, a, b, v
<1>8. (Grown(key, rec) /\ ok') \/ Unchanged
  BY <1>1, <1>3, <1>7, GrownOr DEF a, b, v
<1> QED BY <1>8

(* An entry goes; the record of a directory that has none in it says so.   *)
LEMMA ShrunkIs ==
    ASSUME Calm, faults' = 0, NEW r \in Resolved, r.found, r.par # RootPar,
           cat[r.key].dir => cat[r.key].val = 0 /\ cat[r.key].id # cwd,
           NEW v, Done(v), Shrunk(v, r.key)
    PROVE  Lost(r.key) /\ ok'
<1> DEFINE key == r.key
           id  == cat[key].id
<1>1. Whole(cat, thr, mdb.next) /\ IsMDB(mdb) /\ mdb.next \in Nat /\ FirstNum <= mdb.next
  BY CalmFacts
<1>2. key \in DOMAIN cat /\ key[1] = r.par BY CalmResolved
<1>3. Numbered(cat, mdb.next) /\ Linked(cat) /\ Tallied(cat) BY <1>1 DEF Whole
<1>4. id # RootDir BY <1>2, <1>3 DEF Linked
<1>5. cwd \in Homes(cat) BY DEF Calm, Intact
<1>6. ASSUME cat[key].dir
      PROVE  id # cwd /\ \A k \in DOMAIN cat : k[1] # id
  <2>1. id \in Homes(cat) BY <1>2, <1>6 DEF Homes
  <2> DEFINE S == In(DOMAIN cat, id)
  <2>2. IsFiniteSet(S) /\ Cardinality(S) \in Nat BY <1>1, <1>3, <2>1, DirFits
  <2>3. Cardinality(S) = 0 BY <1>2, <1>3, <1>6 DEF Tallied
  <2> HIDE DEF S
  <2>4. S = {} BY <2>2, <2>3, FS_EmptySet
  <2>5. \A k \in DOMAIN cat : k[1] # id BY <2>4 DEF S, In
  <2> QED BY <1>6, <2>5
<1>7. ASSUME ~ cat[key].dir
      PROVE  id # cwd /\ \A k \in DOMAIN cat : k[1] # id
  <2>1. id \notin Homes(cat) BY <1>2, <1>3, <1>7 DEF Numbered, Homes
  <2>2. id # RootPar BY <1>2, <1>3 DEF Linked, RootDir, RootPar, FirstNum, Numbered
  <2>3. \A k \in DOMAIN cat : k[1] # id BY <1>3, <2>1, <2>2 DEF Linked
  <2> QED BY <1>5, <2>1, <2>3
<1>8. id \notin {RootDir, cwd} /\ \A k \in DOMAIN cat : k[1] # id
  BY <1>4, <1>6, <1>7
<1>9. cat' = v.cat /\ thr' = v.thr /\ mdb' = v.mdb /\ upd' = v.upd /\ ok' = v.ok BY DEF Done
<1>10. v.ok = TRUE BY DEF Shrunk, Going
<1> QED BY <1>8, <1>9, <1>10 DEF Lost, Shrunk

(* hfs_rmdir removes a directory.                                          *)
LEMMA RmdirDoes ==
    ASSUME Calm, faults' = 0, NEW r \in Resolved, hfs_rmdir(r)
    PROVE  Lost(r.key) /\ ok'
<1> DEFINE key == r.key
<1>1. /\ r.found /\ cat[key].dir /\ cat[key].val = 0 /\ r.par # RootPar /\ cat[key].id # cwd
  BY DEF hfs_rmdir, Rec
<1>2. key \in DOMAIN cat /\ key[1] = r.par BY <1>1, CalmResolved
<1>3. PICK cut : Done(v_adjvalence(DeleteThread(Delete(Work(cut), key), cat[key].id),
                                   r.par, TRUE, -1))
  BY DEF hfs_rmdir, Rec
<1> DEFINE w == Work(cut)
           a == Delete(w, key)
           b == DeleteThread(a, cat[key].id)
           v == v_adjvalence(b, key[1], TRUE, -1)
<1>4. Going(w) /\ w.cat = cat /\ w.thr = thr /\ w.mdb = mdb BY WorkGoing
<1>5. Done(v)
  <2> HIDE DEF key
  <2> QED BY <1>2, <1>3
<1> HIDE DEF w, a, b, v
<1>6. ~ Broken(v) BY <1>5, CalmDone
<1>7. Intact /\ IsMDB(mdb) BY CalmFacts DEF Calm
<1>8. Shrunk(v, key) BY <1>1, <1>2, <1>4, <1>6, <1>7, RmdirShrinks DEF a, b, v
<1> QED BY <1>1, <1>5, <1>8, ShrunkIs

(* hfs_delete removes a file.                                              *)
LEMMA DeleteDoes ==
    ASSUME Calm, faults' = 0, NEW r \in Resolved, hfs_delete(r)
    PROVE  Lost(r.key) /\ ok'
<1> DEFINE key == r.key
<1>1. r.found /\ ~ cat[key].dir /\ r.par # RootPar BY DEF hfs_delete, Rec
<1>2. key \in DOMAIN cat /\ key[1] = r.par BY <1>1, CalmResolved
<1>3. PICK cut : Done(DeleteFileThread(v_adjvalence(Delete(Work(cut), key), r.par, FALSE, -1),
                                       cat[key].id))
  BY DEF hfs_delete, Rec
<1> DEFINE w == Work(cut)
           a == Delete(w, key)
           b == v_adjvalence(a, key[1], FALSE, -1)
           v == DeleteFileThread(b, cat[key].id)
<1>4. Going(w) /\ w.cat = cat /\ w.thr = thr /\ w.mdb = mdb BY WorkGoing
<1>5. Done(v)
  <2> HIDE DEF key
  <2> QED BY <1>2, <1>3
<1> HIDE DEF w, a, b, v
<1>6. ~ Broken(v) BY <1>5, CalmDone
<1>7. Intact /\ IsMDB(mdb) BY CalmFacts DEF Calm
<1>8. Shrunk(v, key) BY <1>1, <1>2, <1>4, <1>6, <1>7, DeleteShrinks DEF a, b, v
<1> QED BY <1>1, <1>5, <1>8, ShrunkIs

(* Where hfs_rename may put something.                                     *)
GoodPlace(key, new, name) ==
    /\ key \in DOMAIN cat /\ new \notin DOMAIN cat \ {key} /\ name \in Names
    /\ key[1] # new[1] => /\ cat[key].id # RootDir /\ new[1] \in Homes(cat)
                          /\ key[1] # RootPar /\ new[1] # RootPar /\ new[1] # cat[key].id
                          /\ cat[key].dir => NotBelow(cat[key].id, new[1])

-----------------------------------------------------------------------------
(* The check of hfs_rename that a directory does not go below itself,      *)
(* which climbs from the place it goes to.                                 *)

(* The loop of hfs_rename, as the function that NotBelow names.            *)
Climbs(at, id, m) == at = [n \in 0 .. m |-> IF n = 0 THEN id ELSE Upward(at[n - 1])]

(* The loop of hfs_rename passes a sequence of directories, each the       *)
(* parent of the one before.                                               *)
LEMMA ClimbExists ==
    ASSUME NEW id, NEW m \in Nat
    PROVE  \E at : Climbs(at, id, m)
<1> DEFINE Bad == {k \in Nat : ~ \E at : Climbs(at, id, k)}
<1>1. Bad = {}
  <2> SUFFICES ASSUME Bad # {} PROVE FALSE OBVIOUS
  <2>1. PICK k \in Bad : \A y \in Bad : k <= y
    <3>1. Bad \in SUBSET Nat OBVIOUS
    <3> HIDE DEF Bad
    <3> QED BY <3>1, NatHasLeast
  <2>2. k \in Nat /\ ~ \E at : Climbs(at, id, k) OBVIOUS
  <2>3. CASE k = 0
    <3> DEFINE f == [i \in 0 .. 0 |-> id]
    <3>1. f = [i \in 0 .. 0 |-> IF i = 0 THEN id ELSE Upward(f[i - 1])] OBVIOUS
    <3> QED BY <2>2, <2>3, <3>1 DEF Climbs
  <2>4. CASE k # 0
    <3>1. k - 1 \in Nat /\ k - 1 \notin Bad
      <4> HIDE DEF Bad
      <4> QED BY <2>1, <2>2, <2>4
    <3>2. PICK g : Climbs(g, id, k - 1) BY <3>1
    <3> DEFINE f == [i \in 0 .. k |-> IF i = 0 THEN id ELSE Upward(g[i - 1])]
    <3>3. ASSUME NEW j \in 0 .. k - 1 PROVE f[j] = g[j]
      <4>1. g[j] = IF j = 0 THEN id ELSE Upward(g[j - 1]) BY <3>2 DEF Climbs
      <4>2. j \in 0 .. k BY <2>2
      <4> QED BY <4>1, <4>2
    <3>4. ASSUME NEW i \in 0 .. k, i # 0 PROVE f[i - 1] = g[i - 1]
      <4>1. i - 1 \in 0 .. k - 1 BY <2>2, <3>4
      <4> QED BY <3>3, <4>1
    <3>5. Climbs(f, id, k)
      <4>1. f = [i \in 0 .. k |-> IF i = 0 THEN id ELSE Upward(g[i - 1])] OBVIOUS
      <4> HIDE DEF f
      <4> QED BY <3>4, <4>1 DEF Climbs
    <3> QED BY <2>2, <3>5
  <2> QED BY <2>3, <2>4
<1> QED BY <1>1

(* The directories from id to the root, when the loop lets hfs_rename go   *)
(* on.                                                                     *)
LEMMA WayAbove ==
    ASSUME scope.max \in Nat, NEW inside, NEW id, NotBelow(inside, id)
    PROVE  \E A : /\ id \in A /\ (inside = RootDir \/ inside \notin A)
                  /\ \A a \in A : a = RootDir \/ (HasThread(TRUE, a) /\ thr[a].par \in A)
<1> DEFINE M  == scope.max
           at == CHOOSE f : Climbs(f, id, M)
<1>1. Climbs(at, id, M) BY ClimbExists
<1>2. /\ at[M] = RootDir
      /\ \A n \in DOMAIN at : at[n] # RootDir => at[n] # inside /\ HasThread(TRUE, at[n])
  BY DEF NotBelow, Climbs
<1> HIDE DEF at
<1>3. /\ DOMAIN at = 0 .. M /\ at[0] = id
      /\ \A n \in 0 .. M : n # M => n + 1 \in 0 .. M /\ at[n + 1] = Upward(at[n])
  <2>1. DOMAIN at = 0 .. M /\ \A n \in 0 .. M : at[n] = IF n = 0 THEN id ELSE Upward(at[n - 1])
    BY <1>1 DEF Climbs
  <2>2. 0 \in 0 .. M OBVIOUS
  <2>3. ASSUME NEW n \in 0 .. M, n # M PROVE n + 1 \in 0 .. M /\ at[n + 1] = Upward(at[n])
    <3>1. n + 1 \in 0 .. M /\ n + 1 # 0 /\ (n + 1) - 1 = n BY <2>3
    <3> QED BY <2>1, <3>1
  <2> QED BY <2>1, <2>2, <2>3
<1> DEFINE A == {at[n] : n \in 0 .. M}
<1>4. id \in A
  <2>1. 0 \in 0 .. M OBVIOUS
  <2> QED BY <1>3, <2>1
<1>5. ASSUME NEW a \in A, a # RootDir
      PROVE  a # inside /\ HasThread(TRUE, a) /\ thr[a].par \in A
  <2>1. PICK n \in 0 .. M : a = at[n] OBVIOUS
  <2>2. n # M /\ a # inside /\ HasThread(TRUE, a) BY <1>2, <1>3, <1>5, <2>1
  <2>3. at[n + 1] = Upward(a) /\ n + 1 \in 0 .. M BY <1>3, <2>1, <2>2
  <2> QED BY <1>5, <2>2, <2>3 DEF Upward
<1>6. inside = RootDir \/ inside \notin A BY <1>5
<1> HIDE DEF A
<1> QED BY <1>4, <1>5, <1>6

(* What the path of the destination leads to.                              *)
LEMMA TargetIs ==
    ASSUME Calm, NEW s \in Resolved, NEW d \in Resolved, s.found, LeadsOn(d),
           NEW t, t = Target(s, d), t.par # 0
    PROVE  /\ t.name \in Names
           /\ \/ t.found
              \/ Key(t.par, t.name) \notin DOMAIN cat /\ t.par \in Homes(cat) \cup {RootPar}
<1>1. s.name \in Names BY CalmResolved
<1>2. /\ d.par \in Homes(cat) \cup {RootPar, 0} \/ d.found
      /\ d.par # 0 \/ d.found => d.name \in Names
      /\ d.found => d.key \in DOMAIN cat
      /\ d.found \in BOOLEAN
  BY CalmResolved
<1>3. CASE Into(s, d)
  <2>1. t = [par |-> Rec(d).id, name |-> s.name, found |-> Key(Rec(d).id, s.name) \in DOMAIN cat]
    BY <1>3 DEF Target
  <2>2. t.par = cat[d.key].id /\ t.name = s.name BY <2>1 DEF Rec
  <2>3. t.found <=> Key(t.par, t.name) \in DOMAIN cat
    <3>1. t.found = (Key(Rec(d).id, s.name) \in DOMAIN cat) BY <2>1
    <3> QED BY <2>2, <3>1 DEF Rec
  <2>4. d.found /\ cat[d.key].dir BY <1>3 DEF Into, Rec
  <2>5. t.par \in Homes(cat) BY <1>2, <2>2, <2>4 DEF Homes
  <2> QED BY <1>1, <2>2, <2>3, <2>5
<1>4. CASE ~ Into(s, d)
  <2>1. t = [par |-> d.par, name |-> d.name, found |-> d.found] BY <1>4 DEF Target
  <2>2. t.par = d.par /\ t.name = d.name /\ t.found = d.found BY <2>1
  <2>3. ~ d.found => Key(d.par, d.name) \notin DOMAIN cat BY <2>2 DEF LeadsOn
  <2> QED BY <1>2, <2>2, <2>3
<1> QED BY <1>3, <1>4

(* What hfs_rename does not refuse.                                        *)
LEMMA RenameGood ==
    ASSUME Calm, NEW s \in Resolved, NEW d \in Resolved, s.found, LeadsOn(d),
           NEW t, t = Target(s, d), NEW name, name = Chosen(t, d), MayRename(s, t, name)
    PROVE  GoodPlace(s.key, Key(t.par, name), name)
<1> DEFINE key == s.key
           new == Key(t.par, name)
           id  == cat[key].id
           moving == s.par # t.par
<1>1. /\ Whole(cat, thr, mdb.next) /\ scope \in Scopes /\ CatalogAssumption
  BY CalmFacts DEF Calm
<1>2. Numbered(cat, mdb.next) /\ Linked(cat) BY <1>1 DEF Whole
<1>3. key \in DOMAIN cat /\ key[1] = s.par /\ s.name = cat[key].name /\ s.name \in Names
  BY CalmResolved
<1>4. key = Key(s.par, s.name) BY <1>2, <1>3 DEF Numbered, Placed
<1>5. d.typed \in Names \cup {NoName} BY CalmResolved
<1>6. /\ t.par # 0 /\ (moving => t.par # RootPar)
      /\ t.found => ~ moving /\ name[1] = s.name[1]
      /\ moving /\ cat[key].dir => id # RootDir /\ NotBelow(id, t.par)
  BY DEF MayRename, Rec
<1>7. /\ t.name \in Names
      /\ t.found \/ (Key(t.par, t.name) \notin DOMAIN cat /\ t.par \in Homes(cat) \cup {RootPar})
  BY <1>6, TargetIs
<1>8. name \in Names /\ (~ t.found => name = t.name) BY <1>5, <1>7 DEF Chosen
<1>9. new \notin DOMAIN cat \ {key}
  <2>1. t.found => new = key BY <1>4, <1>6 DEF Key
  <2>2. ~ t.found => new \notin DOMAIN cat BY <1>7, <1>8
  <2> QED BY <2>1, <2>2
<1>10. new[1] = t.par BY DEF Key
<1>11. ASSUME moving
       PROVE  /\ id # RootDir /\ t.par \in Homes(cat) /\ s.par # RootPar /\ t.par # RootPar
              /\ t.par # id /\ (cat[key].dir => NotBelow(id, t.par))
  <2>1. t.par \in Homes(cat) /\ t.par # RootPar BY <1>6, <1>7, <1>11
  <2>2. id # RootDir
    <3>1. PICK k \in DOMAIN cat : cat[k].dir /\ cat[k].id = RootDir BY <1>2 DEF Linked, Homes
    <3>2. id = RootDir => k = key BY <1>2, <1>3, <3>1 DEF Numbered
    <3> QED BY <1>6, <1>11, <3>1, <3>2
  <2>3. s.par # RootPar BY <1>2, <1>3, <2>2 DEF Linked
  <2>4. CASE cat[key].dir
    <3>1. NotBelow(id, t.par) BY <1>6, <1>11, <2>4
    <3>2. scope.max \in Nat BY <1>1 DEF CatalogAssumption
    <3>3. t.par # id BY <2>2, <3>1, <3>2, WayAbove
    <3> QED BY <2>1, <2>2, <2>3, <3>1, <3>3
  <2>5. CASE ~ cat[key].dir
    <3>1. id \notin Homes(cat) BY <1>2, <1>3, <2>5 DEF Numbered, Homes
    <3> QED BY <2>1, <2>2, <2>3, <2>5, <3>1
  <2> QED BY <2>4, <2>5
<1> QED BY <1>3, <1>8, <1>9, <1>10, <1>11 DEF GoodPlace

(* hfs_rename moves an entry.                                              *)
LEMMA RenameDoes ==
    ASSUME Calm, faults' = 0, NEW s \in Resolved, NEW d \in Resolved, hfs_rename(s, d)
    PROVE  (\E new, name : Went(s.key, new, name)) /\ ok'
<1> DEFINE t    == Target(s, d)
           name == Chosen(t, d)
           new  == Key(t.par, name)
           key  == s.key
           rec  == [cat[key] EXCEPT !.name = name]
<1>1. s.found /\ LeadsOn(d) /\ MayRename(s, t, name) BY DEF hfs_rename
<1>2. PICK cut : Done(Renamed(Work(cut), s, t.par, name)) BY DEF hfs_rename
<1> HIDE DEF t
<1>3. GoodPlace(key, new, name) BY <1>1, RenameGood DEF t
<1> HIDE DEF name
<1>4. key[1] = s.par BY <1>1, CalmResolved
<1>5. new[1] = t.par /\ new = Key(new[1], name) BY DEF Key
<1> DEFINE w == Work(cut)
           n == Named(w, t.par, name)
           e == Delete(n, key)
           a == Insert(e, new, rec)
           b == ThreadMoved(a, rec, t.par, name)
           c == v_adjvalence(b, key[1], rec.dir, -1)
           v == IF key[1] = new[1] THEN b ELSE v_adjvalence(c, new[1], rec.dir, 1)
<1>6. v = Renamed(w, s, t.par, name) BY <1>4, <1>5 DEF Renamed, Rec
<1>7. Going(w) /\ w.cat = cat /\ w.thr = thr /\ w.mdb = mdb /\ w.upd = upd BY WorkGoing
<1>8. Done(v) BY <1>2, <1>6
<1>9. Intact /\ IsMDB(mdb) BY CalmFacts DEF Calm
<1>10. Numbered(cat, mdb.next) BY <1>9 DEF Intact, Whole
<1>11. rec.dir = cat[key].dir BY <1>3, <1>10 DEF GoodPlace, Numbered, Placed, IsRecord, Fields
<1>12. key \in DOMAIN cat /\ new \notin DOMAIN cat \ {key} BY <1>3 DEF GoodPlace
<1> HIDE DEF w, n, e, a, b, c, v
<1>13. ~ Broken(v) BY <1>8, CalmDone
<1>14. ASSUME ~ Broken(b) PROVE Placing(b, key, new, name)
  <2> HIDE DEF new, rec, key
  <2>1. rec = [cat[key] EXCEPT !.name = name] /\ new = Key(t.par, name) BY DEF rec, new
  <2> QED BY <1>7, <1>9, <1>12, <1>14, <2>1, RenamePlaces DEF n, e, a, b
<1>15. Shifted(v, key, new, name)
  <2> HIDE DEF new, rec, key
  <2>1. CASE key[1] = new[1]
    <3>1. v = b BY <2>1 DEF v
    <3>2. Placing(v, key, new, name) BY <1>13, <1>14, <3>1
    <3> QED BY <1>9, <1>12, <2>1, <3>2, StaysShifted
  <2>2. CASE key[1] # new[1]
    <3>1. v = v_adjvalence(c, new[1], cat[key].dir, 1) BY <1>11, <2>2 DEF v
    <3>2. c = v_adjvalence(b, key[1], cat[key].dir, -1) BY <1>11 DEF c
    <3>3. (~ b.ok => c = b) /\ (~ c.ok => v = c) BY <3>1, <3>2, NothingAfter
    <3>4. ~ Broken(b) BY <1>13, <3>3 DEF Broken
    <3>5. Placing(b, key, new, name) BY <1>14, <3>4
    <3>6. /\ key[1] # RootPar /\ new[1] \in Homes(cat) /\ new[1] # cat[key].id
          /\ new[1] # RootPar
      BY <1>3, <2>2 DEF GoodPlace, key
    <3> QED BY <1>9, <1>12, <1>13, <2>2, <3>1, <3>2, <3>5, <3>6, GoesShifted
  <2> QED BY <2>1, <2>2
<1>16. cat' = v.cat /\ thr' = v.thr /\ mdb' = v.mdb /\ upd' = v.upd /\ ok' = v.ok
  BY <1>8 DEF Done
<1>17. v.ok = TRUE BY <1>15 DEF Shifted, Going
<1>18. Went(key, new, name)
  <2> HIDE DEF new, rec, key
  <2> QED BY <1>3, <1>5, <1>15, <1>16 DEF Went, Shifted, GoodPlace
<1> QED BY <1>16, <1>17, <1>18

-----------------------------------------------------------------------------
(* The steps that change no entry: opening, closing and flushing files,    *)
(* the current directory, mounting again, a crash.                         *)

(* The steps that change no entry.                                         *)
Kept == DOMAIN cat' = DOMAIN cat /\ (\A k \in DOMAIN cat : cat'[k] = cat[k]) /\ thr' = thr

Rests ==
    /\ Kept /\ cwd' \in Homes(cat)
    /\ FirstNum <= mdb'.next /\ mdb'.next <= scope.max
    /\ disk'.next \in FirstNum .. scope.max
    /\ ~ upd' => mdb' = disk'
    /\ crashes' = 0 => mdb' = mdb /\ disk' \in {disk, mdb}
    /\ ok' \/ cat' = cat

CalmState ==
    /\ Quiet /\ Whole(cat, thr, mdb.next) /\ scope.max \in Nat
    /\ mdb.next \in Nat /\ FirstNum <= mdb.next /\ mdb.next <= scope.max
    /\ disk.next \in FirstNum .. scope.max
    /\ cwd \in Homes(cat) /\ RootDir \in Homes(cat)
    /\ ~ upd => mdb = disk
    /\ crashes \in Nat

(* The facts about an undamaged volume that the proofs below use.          *)
LEMMA CalmIs == ASSUME Calm PROVE CalmState
<1>1. scope.max \in Nat BY DEF Calm, Bounds, CatalogAssumption
<1>2. Quiet BY InvNow DEF Calm
<1>3. mdb.next \in Nat /\ RootDir \in Homes(cat) BY CalmFacts DEF Whole, Linked
<1> QED BY <1>1, <1>2, <1>3 DEF Calm, CalmState, Intact, Bounds

(* A handle that has found its record flushes what is there.               *)
LEMMA PutSame ==
    ASSUME CalmState, NEW f \in DOMAIN files, NEW key, key = HandleKey(files[f])
    PROVE  key \in DOMAIN cat /\ PutAt(files[f], cat[key]) = cat[key]
<1>1. key \in DOMAIN cat /\ cat[key].id = files[f].id /\ ~ cat[key].dir
  BY DEF CalmState, Quiet, AllFind, Finds
<1>2. IsRecord(cat[key]) BY <1>1 DEF CalmState, Quiet, Numbered, Placed
<1>3. cat[key].val = 0 BY <1>1 DEF CalmState, Whole, Tallied
<1>4. cat[key].dir = FALSE BY <1>1, <1>2 DEF IsRecord
<1> QED BY <1>1, <1>2, <1>3, <1>4 DEF PutAt, IsRecord, Fields

(* So flushing the files changes no record.                                *)
LEMMA AllPutSame ==
    ASSUME CalmState, NEW F \in SUBSET DOMAIN files
    PROVE  DOMAIN AllPut(F) = DOMAIN cat /\ \A key \in DOMAIN cat : AllPut(F)[key] = cat[key]
<1> DEFINE c == AllPut(F)
           Mine(key) == {f \in F : files[f].upd /\ HandleKey(files[f]) = key}
<1>1. FilesAreList BY DEF CalmState, Quiet
<1>2. Len(files) \in Nat /\ DOMAIN files = 1 .. Len(files)
  BY <1>1, LenProperties DEF FilesAreList
<1>3. DOMAIN c = DOMAIN cat BY DEF AllPut
<1>4. ASSUME NEW key \in DOMAIN cat PROVE c[key] = cat[key]
  <2>1. c[key] = IF Mine(key) = {} THEN cat[key] ELSE PutAt(files[Max(Mine(key))], cat[key])
    BY DEF AllPut
  <2>2. CASE Mine(key) # {}
    <3> DEFINE f == Max(Mine(key))
    <3>1. Mine(key) \in SUBSET (0 .. Len(files)) BY <1>2
    <3>2. f \in Mine(key)
      <4> HIDE DEF Mine
      <4> QED BY <1>2, <2>2, <3>1, MaxOf
    <3> HIDE DEF f
    <3>3. f \in DOMAIN files /\ HandleKey(files[f]) = key BY <3>2
    <3>4. c[key] = PutAt(files[f], cat[key]) BY <2>1, <2>2 DEF f
    <3> HIDE DEF c, Mine
    <3> QED BY <3>3, <3>4, PutSame
  <2> QED BY <2>1, <2>2
<1> QED BY <1>3, <1>4

(* hfs_close changes no entry.                                             *)
LEMMA CloseRests ==
    ASSUME Calm, faults' = 0, NEW f \in DOMAIN files, hfs_close(f)
    PROVE  Rests
<1>1. CalmState BY CalmIs
<1> DEFINE h   == files[f]
           key == HandleKey(h)
<1>2. PICK cut : Done(f_flush(Work(cut), h)) BY DEF hfs_close
<1>3. UNCHANGED <<disk, cwd, crashes>> BY DEF hfs_close
<1> DEFINE w == Work(cut)
           v == f_flush(w, h)
<1>4. Going(w) /\ w.cat = cat /\ w.thr = thr /\ w.mdb = mdb /\ w.upd = upd BY WorkGoing
<1>5. Done(v) BY <1>2
<1>6. key \in DOMAIN cat /\ PutAt(h, cat[key]) = cat[key] BY <1>1, PutSame
<1> HIDE DEF w, h, key
<1>7. ~ Broken(v) BY <1>5, CalmDone
<1> DEFINE u   == [w EXCEPT !.cat[key] = PutAt(h, @)]
           can == key \in DOMAIN w.cat
<1>8. v = IF h.upd THEN Change(w, can, u) ELSE w BY DEF f_flush, key
<1>9. /\ Going(u) /\ u.cat = [cat EXCEPT ![key] = PutAt(h, @)] /\ u.thr = thr /\ u.mdb = mdb
      /\ u.upd = upd
  BY <1>4 DEF Going, IsWork, Fields
<1>10. DOMAIN u.cat = DOMAIN cat /\ \A k \in DOMAIN cat : u.cat[k] = cat[k] BY <1>6, <1>9
<1>11. can BY <1>4, <1>6
<1> HIDE DEF u, can, v
<1>12. /\ DOMAIN v.cat = DOMAIN cat /\ (\A k \in DOMAIN cat : v.cat[k] = cat[k]) /\ v.thr = thr
       /\ v.mdb = mdb /\ v.upd = upd /\ v.ok = TRUE
  <2>1. CASE h.upd
    <3>1. v = Change(w, can, u) BY <1>8, <2>1
    <3>2. Yields(v, u, u.cat, u.thr) BY <1>4, <1>7, <1>9, <1>11, <3>1, ChangeCases
    <3> QED BY <1>9, <1>10, <3>2 DEF Yields, Going
  <2>2. CASE ~ h.upd
    <3>1. v = w BY <1>8, <2>2
    <3> QED BY <1>4, <3>1 DEF Going
  <2> QED BY <2>1, <2>2
<1>13. cat' = v.cat /\ thr' = v.thr /\ mdb' = v.mdb /\ upd' = v.upd /\ ok' = v.ok
  BY <1>5 DEF Done
<1>14. Kept /\ mdb' = mdb /\ upd' = upd /\ ok' BY <1>12, <1>13 DEF Kept
<1> QED BY <1>1, <1>3, <1>14 DEF Rests, CalmState

(* hfs_flush, and mounting again, change no entry.                         *)
LEMMA FlushRests ==
    ASSUME CalmState, hfs_flush \/ Remount
    PROVE  Rests
<1>1. \A f \in DOMAIN files : CanFlush(f) BY DEF CalmState, Quiet, AllFind, Finds, CanFlush
<1>2. DOMAIN files = 1 .. Len(files)
  <2>1. FilesAreList BY DEF CalmState, Quiet
  <2> QED BY <2>1, LenProperties DEF FilesAreList
<1>3. Flushed = mdb BY DEF Flushed, CalmState
<1> DEFINE all == DOMAIN files
<1>4. CASE hfs_flush
  <2> DEFINE F == {f \in DOMAIN files : \A g \in 1 .. f : CanFlush(g)}
  <2>1. F = DOMAIN files
    <3>1. Len(files) \in Nat
      <4>1. FilesAreList BY DEF CalmState, Quiet
      <4> QED BY <4>1, LenProperties DEF FilesAreList
    <3>2. \A f \in DOMAIN files : \A g \in 1 .. f : g \in DOMAIN files BY <1>2, <3>1
    <3> QED BY <1>1, <3>2
  <2>2. /\ cat' = AllPut(F) /\ ok' = (F = DOMAIN files) /\ thr' = thr /\ mdb' = mdb /\ cwd' = cwd
        /\ disk' = IF F = DOMAIN files THEN Flushed ELSE disk
        /\ crashes' = crashes
    BY <1>4 DEF hfs_flush
  <2> HIDE DEF F
  <2>3. cat' = AllPut(DOMAIN files) /\ ok' /\ disk' = mdb BY <1>3, <2>1, <2>2
  <2>4. Kept BY <2>2, <2>3, AllPutSame DEF Kept
  <2> QED BY <2>2, <2>3, <2>4 DEF Rests, CalmState
<1>5. CASE Remount
  <2>1. /\ cat' = AllPut(DOMAIN files) /\ disk' = mdb /\ mdb' = mdb /\ cwd' = RootDir
        /\ thr' = thr /\ crashes' = crashes
    BY <1>3, <1>5 DEF Remount
  <2>2. ok' BY <1>1, <1>5 DEF Remount
  <2>3. Kept BY <2>1, AllPutSame DEF Kept
  <2> QED BY <2>1, <2>2, <2>3 DEF Rests, CalmState
<1> QED BY <1>4, <1>5

(* The highest number is that of a record, or below all.                   *)
LEMMA LastNumIs ==
    ASSUME Quiet
    PROVE  /\ LastNum \in Nat /\ LastNum >= FirstNum - 1
           /\ \A k \in DOMAIN cat : cat[k].id <= LastNum
           /\ LastNum = FirstNum - 1 \/ \E k \in DOMAIN cat : cat[k].id = LastNum
<1> DEFINE S == {rec.id : rec \in Range(cat)} \cup {FirstNum - 1}
<1>1. /\ mdb.next + 15 \in Nat /\ S \in SUBSET (0 .. mdb.next + 15) /\ 15 \in S
      /\ \A k \in DOMAIN cat : cat[k].id \in S
      /\ \A y \in S : y = FirstNum - 1 \/ \E k \in DOMAIN cat : cat[k].id = y
  BY DEF Quiet, Numbered, Range, FirstNum
<1>2. LastNum = Max(S) BY DEF LastNum
<1> HIDE DEF S
<1>3. Max(S) \in S /\ \A y \in S : Max(S) >= y BY <1>1, MaxOf
<1> DEFINE m == Max(S)
<1>4. m \in S /\ \A y \in S : m >= y BY <1>3
<1>5. LastNum = m BY <1>2
<1> HIDE DEF m
<1>6. m \in Nat BY <1>1, <1>4
<1>7. \A k \in DOMAIN cat : cat[k].id <= m
  <2>1. \A k \in DOMAIN cat : cat[k].id \in S /\ cat[k].id \in Nat BY <1>1 DEF Quiet, Numbered
  <2> QED BY <1>4, <1>6, <2>1
<1> QED BY <1>1, <1>4, <1>5, <1>6, <1>7 DEF FirstNum

(* A crash loses the MDB in memory; mounting scavenges the next number     *)
(* from the catalog, and no entry changes.                                 *)
LEMMA CrashRests ==
    ASSUME CalmState, Crash
    PROVE  Rests
<1>1. /\ cat' = cat /\ thr' = thr /\ upd' = (disk.next <= LastNum) /\ disk' = disk /\ ok'
      /\ mdb' = [disk EXCEPT !.next = IF @ <= LastNum THEN LastNum + 1 ELSE @]
      /\ cwd' = RootDir /\ crashes' = crashes + 1
  BY DEF Crash
<1>2. /\ LastNum \in Nat /\ LastNum >= FirstNum - 1
      /\ LastNum = FirstNum - 1 \/ \E k \in DOMAIN cat : cat[k].id = LastNum
  BY LastNumIs DEF CalmState
<1>3. LastNum < scope.max
  BY <1>2 DEF CalmState, Whole, Numbered, FirstNum
<1>4. IsMDB(disk) BY DEF CalmState, Quiet, OnMedium
<1> HIDE DEF LastNum
<1>5. mdb'.next = IF disk.next <= LastNum THEN LastNum + 1 ELSE disk.next
  BY <1>1, <1>4 DEF IsMDB, Fields
<1>6. FirstNum <= mdb'.next /\ mdb'.next <= scope.max
  BY <1>2, <1>3, <1>5 DEF CalmState, FirstNum
<1>7. ~ upd' => mdb' = disk'
  BY <1>1, <1>4 DEF IsMDB, Fields
<1>8. Kept BY <1>1 DEF Kept
<1> QED BY <1>1, <1>6, <1>7, <1>8 DEF Rests, CalmState

(* Opening a file, going to a directory by its number and setting a file's *)
(* attributes change no entry.                                             *)
LEMMA OthersRest ==
    ASSUME CalmState,
           \/ \E r \in Resolved : hfs_open(r)
           \/ \E id \in DOMAIN thr : hfs_setcwd(id)
           \/ \E f \in DOMAIN files : hfs_fsetattr(f)
           \/ UNCHANGED vars
    PROVE  Rests
<1>1. UNCHANGED <<cat, thr, mdb, disk, upd, crashes>>
  BY DEF hfs_open, hfs_setcwd, hfs_fsetattr, vars
<1>2. Kept BY <1>1 DEF Kept
<1>3. cwd' \in Homes(cat)
  <2>1. ASSUME NEW id \in DOMAIN thr, hfs_setcwd(id) PROVE cwd' \in Homes(cat)
    <3>1. cwd' = id /\ thr[id].dir BY <2>1 DEF hfs_setcwd, HasThread
    <3>2. PICK k \in DOMAIN cat : cat[k].id = id BY DEF CalmState, Whole, Threaded
    <3>3. thr[id] = Thread(cat[k].dir, k[1], cat[k].name) BY <3>2 DEF CalmState, Whole, Threaded
    <3>4. cat[k].dir BY <3>1, <3>3 DEF Thread
    <3> QED BY <3>1, <3>2, <3>4 DEF Homes
  <2>2. CASE cwd' = cwd BY <2>2 DEF CalmState
  <2> QED BY <2>1, <2>2 DEF hfs_open, hfs_fsetattr, vars
<1> QED BY <1>1, <1>2, <1>3 DEF Rests, CalmState

(* hfs_chdir goes to a directory of the volume.                            *)
LEMMA ChdirRests ==
    ASSUME Calm, NEW r \in Resolved, hfs_chdir(r)
    PROVE  Rests
<1>1. CalmState BY CalmIs
<1>2. UNCHANGED <<cat, thr, mdb, disk, upd, crashes>> BY DEF hfs_chdir
<1>3. r.found /\ cat[r.key].dir /\ cwd' = cat[r.key].id BY DEF hfs_chdir, Rec
<1>4. r.key \in DOMAIN cat BY <1>3, CalmResolved
<1>5. cwd' \in Homes(cat) BY <1>3, <1>4 DEF Homes
<1>6. Kept BY <1>2 DEF Kept
<1> QED BY <1>1, <1>2, <1>5, <1>6 DEF Rests, CalmState

-----------------------------------------------------------------------------
(* Each of these keeps the catalog whole.                                  *)

(* Counting leaves the next number and the volume's name alone.            *)
LEMMA CountedNext ==
    ASSUME NEW m, IsMDB(m), NEW par, NEW isdir, NEW adj
    PROVE  LET n == CountedMDB(m, par, isdir, adj) IN IsMDB(n) /\ n.next = m.next /\ n.vn = m.vn
BY DEF CountedMDB, WithDirs, WithFiles, IsMDB, Fields

(* Taking a number adds one to the next.                                   *)
LEMMA NumberedNext ==
    ASSUME NEW m, IsMDB(m)
    PROVE  LET n == NewNumbered(m) IN IsMDB(n) /\ n.next = m.next + 1 /\ n.vn = m.vn
BY DEF NewNumbered, IsMDB, Fields

(* Naming the volume leaves the next number alone.                         *)
LEMMA NamedNext ==
    ASSUME NEW m, IsMDB(m), NEW name
    PROVE  LET n == WithName(m, name) IN IsMDB(n) /\ n.next = m.next /\ n.vn = name
BY DEF WithName, IsMDB, Fields

(* What a step has to show.                                                *)
LEMMA WholeAgain ==
    ASSUME Quiet', Linked(cat'), Threaded(cat', thr'), Tallied(cat'),
           FirstNum <= mdb'.next, mdb'.next <= scope'.max, disk'.next \in FirstNum .. scope'.max,
           cwd' \in Homes(cat'), ~ upd' => mdb' = disk'
    PROVE  Intact'
<1>1. Numbered(cat', mdb'.next) BY DEF Quiet
<1> QED BY <1>1 DEF Intact, Whole

(* Fewer numbers are given than a valence can count: scope.max is small    *)
(* enough.                                                                 *)
LEMMA Room ==
    ASSUME Calm
    PROVE  /\ mdb.next - FirstNum < 65536
           /\ mdb.next < scope.max => mdb.next - FirstNum < 65535
<1>1. scope.max - FirstNum < 65536 /\ scope.max \in Nat
  BY CalmFacts, ValencesFit DEF Calm, CatalogAssumption
<1>2. mdb.next \in Nat /\ FirstNum <= mdb.next /\ mdb.next <= scope.max
  BY CalmIs DEF CalmState
<1> QED BY <1>1, <1>2 DEF FirstNum

(* An entry more keeps the catalog whole.                                  *)
LEMMA GrownIntact ==
    ASSUME Calm, NEW key, NEW rec, Grown(key, rec), UNCHANGED <<scope, disk, cwd>>, Quiet'
    PROVE  Intact'
<1>1. CalmState BY CalmIs
<1>2. /\ Numbered(cat, mdb.next) /\ Linked(cat) /\ Threaded(cat, thr) /\ Tallied(cat)
      /\ FirstNum <= mdb.next /\ mdb.next \in Nat /\ scope.max \in Nat /\ IsMDB(mdb)
  BY <1>1, CalmFacts DEF CalmState, Whole
<1>3. PICK pk : Added(cat, cat', key, rec, pk) BY DEF Grown
<1>4. /\ ThreadAdded(thr, thr', rec, key[1]) /\ rec.id = mdb.next /\ rec.val = 0
      /\ rec.name \in Names /\ rec.dir \in BOOLEAN /\ mdb.next < scope.max /\ upd' = TRUE
  BY DEF Grown, Placed, IsRecord
<1>5. Linked(cat') BY <1>2, <1>3, <1>4, AddedLinked
<1>6. Threaded(cat', thr')
  <2>1. \A k \in DOMAIN cat : cat[k].id # rec.id BY <1>2, <1>4 DEF Numbered
  <2> QED BY <1>2, <1>3, <1>4, <2>1, AddedThreaded
<1>7. Tallied(cat') BY <1>2, <1>3, <1>4, Room, AddedTallied
<1>8. mdb'.next = mdb.next + 1
  <2>1. mdb' = CountedMDB(NewNumbered(mdb), key[1], rec.dir, 1) BY DEF Grown
  <2>2. IsMDB(NewNumbered(mdb)) /\ NewNumbered(mdb).next = mdb.next + 1 BY <1>2, NumberedNext
  <2> QED BY <2>1, <2>2, CountedNext
<1>9. cwd' \in Homes(cat') BY <1>1, <1>3, AddedHomes DEF CalmState
<1>10. disk'.next \in FirstNum .. scope'.max BY <1>1 DEF CalmState
<1>11. FirstNum <= mdb'.next /\ mdb'.next <= scope'.max BY <1>2, <1>4, <1>8 DEF FirstNum
<1> QED BY <1>4, <1>5, <1>6, <1>7, <1>9, <1>10, <1>11, WholeAgain

(* An entry less keeps the catalog whole.                                  *)
LEMMA LostIntact ==
    ASSUME Calm, NEW key, Lost(key), UNCHANGED <<scope, disk, cwd>>, Quiet'
    PROVE  Intact'
<1>1. CalmState BY CalmIs
<1>2. /\ Numbered(cat, mdb.next) /\ Linked(cat) /\ Threaded(cat, thr) /\ Tallied(cat)
      /\ FirstNum <= mdb.next /\ mdb.next \in Nat /\ scope.max \in Nat /\ IsMDB(mdb)
      /\ mdb.next <= scope.max
  BY <1>1, CalmFacts DEF CalmState, Whole
<1>3. PICK pk : Removed(cat, cat', key, pk) BY DEF Lost
<1>4. /\ ThreadRemoved(thr, thr', cat[key].id) /\ cat[key].id \notin {RootDir, cwd}
      /\ (\A k \in DOMAIN cat : k[1] # cat[key].id) /\ upd' = TRUE
      /\ mdb' = CountedMDB(mdb, key[1], cat[key].dir, -1)
  BY DEF Lost
<1>5. Linked(cat') BY <1>2, <1>3, <1>4, RemovedLinked
<1>6. Threaded(cat', thr') BY <1>2, <1>3, <1>4, RemovedThreaded
<1>7. Tallied(cat') BY <1>2, <1>3, Room, RemovedTallied
<1>8. mdb'.next = mdb.next BY <1>2, <1>4, CountedNext
<1>9. cwd' \in Homes(cat') BY <1>1, <1>2, <1>3, <1>4, RemovedHomes DEF CalmState
<1>10. disk'.next \in FirstNum .. scope'.max BY <1>1 DEF CalmState
<1> QED BY <1>2, <1>4, <1>5, <1>6, <1>7, <1>8, <1>9, <1>10, WholeAgain

(* An entry that moves takes no number.                                    *)
LEMMA WentNext ==
    ASSUME IsMDB(mdb), NEW key, NEW new, NEW name, Went(key, new, name)
    PROVE  IsMDB(mdb') /\ mdb'.next = mdb.next
<1>1. CASE mdb' = WithName(mdb, name) BY <1>1, NamedNext
<1>2. CASE mdb' = mdb BY <1>2
<1>3. CASE mdb' = CountedMDB(CountedMDB(mdb, key[1], cat[key].dir, -1), new[1], cat[key].dir, 1)
  <2> DEFINE m == CountedMDB(mdb, key[1], cat[key].dir, -1)
  <2>1. IsMDB(m) /\ m.next = mdb.next BY CountedNext
  <2> HIDE DEF m
  <2> QED BY <1>3, <2>1, CountedNext DEF m
<1> QED BY <1>1, <1>2, <1>3 DEF Went

(* An entry that moves keeps the catalog whole.                            *)
LEMMA WentIntact ==
    ASSUME Calm, NEW key, NEW new, NEW name, Went(key, new, name),
           UNCHANGED <<scope, disk, cwd>>, Quiet'
    PROVE  Intact'
<1>1. CalmState BY CalmIs
<1>2. /\ Numbered(cat, mdb.next) /\ Linked(cat) /\ Threaded(cat, thr) /\ Tallied(cat)
      /\ FirstNum <= mdb.next /\ mdb.next \in Nat /\ scope.max \in Nat /\ IsMDB(mdb)
      /\ mdb.next <= scope.max
  BY <1>1, CalmFacts DEF CalmState, Whole
<1>3. Moved(cat, cat', key, new, name) /\ name \in Names BY DEF Went
<1>4. /\ ThreadPut(thr, thr', cat[key].id, Thread(cat[key].dir, new[1], name))
      /\ new[1] = key[1] \/ (/\ cat[key].id # RootDir /\ new[1] \in Homes(cat)
                             /\ new[1] # cat[key].id)
  BY DEF Went
<1>5. Linked(cat') BY <1>2, <1>3, <1>4, MovedLinked
<1>6. Threaded(cat', thr') BY <1>2, <1>3, <1>4, MovedThreaded
<1>7. mdb'.next = mdb.next BY <1>2, WentNext
<1>8. Tallied(cat')
  <2>1. key \in DOMAIN cat BY <1>3 DEF Moved
  <2>2. cat[key].id # new[1] BY <1>2, <1>4, <2>1 DEF Linked
  <2>3. Numbered(cat', mdb.next) BY <1>7 DEF Quiet
  <2> QED BY <1>2, <1>3, <1>5, <2>2, <2>3, Room, MovedTallied
<1>9. cwd' \in Homes(cat') BY <1>1, <1>3, MovedHomes DEF CalmState
<1>10. disk'.next \in FirstNum .. scope'.max BY <1>1 DEF CalmState
<1>11. ~ upd' => mdb' = disk' BY <1>1 DEF Went, CalmState
<1> QED BY <1>2, <1>5, <1>6, <1>7, <1>8, <1>9, <1>10, <1>11, WholeAgain

(* A catalog that is the same at every key.                                *)
LEMMA KeptWhole ==
    ASSUME NEW c, NEW t, Linked(c), Threaded(c, t), Tallied(c),
           NEW d, DOMAIN d = DOMAIN c, \A k \in DOMAIN c : d[k] = c[k]
    PROVE  Homes(d) = Homes(c) /\ Linked(d) /\ Threaded(d, t) /\ Tallied(d)
<1>1. Homes(d) = Homes(c) BY DEF Homes
<1>2. Linked(d) BY <1>1 DEF Linked
<1>3. Threaded(d, t) BY DEF Threaded
<1>4. Tallied(d) BY DEF Tallied
<1> QED BY <1>1, <1>2, <1>3, <1>4

(* A step that changes no entry keeps the catalog whole.                   *)
LEMMA RestsIntact ==
    ASSUME Calm, Rests, scope' = scope, Quiet'
    PROVE  Intact'
<1>1. CalmState BY CalmIs
<1>2. Linked(cat) /\ Threaded(cat, thr) /\ Tallied(cat) BY <1>1 DEF CalmState, Whole
<1>3. DOMAIN cat' = DOMAIN cat /\ (\A k \in DOMAIN cat : cat'[k] = cat[k]) /\ thr' = thr
  BY DEF Rests, Kept
<1> DEFINE d == cat'
<1>4. Homes(d) = Homes(cat) /\ Linked(d) /\ Threaded(d, thr) /\ Tallied(d)
  <2>1. DOMAIN d = DOMAIN cat /\ \A k \in DOMAIN cat : d[k] = cat[k] BY <1>3
  <2> HIDE DEF d
  <2> QED BY <1>2, <2>1, KeptWhole
<1> QED BY <1>3, <1>4, WholeAgain DEF Rests

(* A call that is refused after it has used a number keeps the catalog     *)
(* whole.                                                                  *)
LEMMA UnchangedIntact ==
    ASSUME Calm, Unchanged, UNCHANGED <<scope, disk, cwd>>, Quiet'
    PROVE  Intact'
<1>1. CalmState BY CalmIs
<1>2. Linked(cat) /\ Threaded(cat, thr) /\ Tallied(cat) BY <1>1 DEF CalmState, Whole
<1>3. mdb'.next = mdb.next + 1
  <2>1. mdb' = NewNumbered(mdb) /\ IsMDB(mdb) BY CalmFacts DEF Unchanged
  <2> QED BY <2>1, NumberedNext
<1>4. FirstNum <= mdb'.next /\ mdb'.next <= scope'.max
  BY <1>1, <1>3 DEF CalmState, Unchanged, FirstNum
<1> QED BY <1>1, <1>2, <1>4, WholeAgain DEF Unchanged, CalmState

-----------------------------------------------------------------------------
(* The inductive invariant of the undamaged volume.                        *)

Elsewhere == UNCHANGED <<scope, disk, cwd, crashes>>

(* What a step does to a catalog that no I/O error has touched.            *)
Outcome ==
    \/ Elsewhere /\ ok' /\ \E key, rec : Grown(key, rec)
    \/ Elsewhere /\ ok' /\ \E key : Lost(key)
    \/ Elsewhere /\ ok' /\ \E key, new, name : Went(key, new, name)
    \/ Elsewhere /\ Unchanged
    \/ scope' = scope /\ Rests

(* Every step of an undamaged volume that does not damage it adds, removes *)
(* or moves one entry and succeeds, or changes none.                       *)
LEMMA StepDoes ==
    ASSUME Calm, faults' = 0, [Next]_vars
    PROVE  Outcome
<1>0. CalmState BY CalmIs
<1>1. ASSUME NEW r \in Resolved, hfs_mkdir(r) PROVE Outcome
  <2>1. Elsewhere BY <1>1 DEF hfs_mkdir, Elsewhere
  <2>2. (\E key, rec : Grown(key, rec) /\ ok') \/ Unchanged BY <1>1, MkdirDoes
  <2> QED BY <2>1, <2>2 DEF Outcome
<1>2. ASSUME NEW r \in Resolved, hfs_create(r) PROVE Outcome
  <2>1. Elsewhere BY <1>2 DEF hfs_create, Elsewhere
  <2>2. (\E key, rec : Grown(key, rec) /\ ok') \/ Unchanged BY <1>2, CreateDoes
  <2> QED BY <2>1, <2>2 DEF Outcome
<1>3. ASSUME NEW r \in Resolved, hfs_rmdir(r) PROVE Outcome
  <2>1. Elsewhere BY <1>3 DEF hfs_rmdir, Elsewhere
  <2>2. Lost(r.key) /\ ok' BY <1>3, RmdirDoes
  <2> QED BY <2>1, <2>2 DEF Outcome
<1>4. ASSUME NEW r \in Resolved, hfs_delete(r) PROVE Outcome
  <2>1. Elsewhere BY <1>4 DEF hfs_delete, Elsewhere
  <2>2. Lost(r.key) /\ ok' BY <1>4, DeleteDoes
  <2> QED BY <2>1, <2>2 DEF Outcome
<1>5. ASSUME NEW s \in Resolved, NEW d \in Resolved, hfs_rename(s, d) PROVE Outcome
  <2>1. Elsewhere BY <1>5 DEF hfs_rename, Elsewhere
  <2>2. (\E new, name : Went(s.key, new, name)) /\ ok' BY <1>5, RenameDoes
  <2> QED BY <2>1, <2>2 DEF Outcome
<1>6. ASSUME NEW f \in DOMAIN files, hfs_close(f) PROVE Outcome
  <2>1. scope' = scope BY <1>6 DEF hfs_close
  <2>2. Rests BY <1>6, CloseRests
  <2> QED BY <2>1, <2>2 DEF Outcome
<1>7. ASSUME NEW r \in Resolved, hfs_chdir(r) PROVE Outcome
  <2>1. scope' = scope BY <1>7 DEF hfs_chdir
  <2>2. Rests BY <1>7, ChdirRests
  <2> QED BY <2>1, <2>2 DEF Outcome
<1>8. CASE hfs_flush \/ Remount
  <2>1. scope' = scope BY <1>8 DEF hfs_flush, Remount
  <2>2. Rests BY <1>0, <1>8, FlushRests
  <2> QED BY <2>1, <2>2 DEF Outcome
<1>9. CASE Crash
  <2>1. scope' = scope BY <1>9 DEF Crash
  <2>2. Rests BY <1>0, <1>9, CrashRests
  <2> QED BY <2>1, <2>2 DEF Outcome
<1>10. CASE \/ \E r \in Resolved : hfs_open(r)
            \/ \E id \in DOMAIN thr : hfs_setcwd(id)
            \/ \E f \in DOMAIN files : hfs_fsetattr(f)
            \/ UNCHANGED vars
  <2>1. scope' = scope BY <1>10 DEF hfs_open, hfs_setcwd, hfs_fsetattr, vars
  <2>2. Rests BY <1>0, <1>10, OthersRest
  <2> QED BY <2>1, <2>2 DEF Outcome
<1> QED BY <1>1, <1>2, <1>3, <1>4, <1>5, <1>6, <1>7, <1>8, <1>9, <1>10 DEF Next

(* I/O errors are counted, and stay.                                       *)
LEMMA BoundsKept == Bounds /\ [Next]_vars => Bounds' /\ (faults' = 0 => faults = 0)
<1> SUFFICES ASSUME Bounds, [Next]_vars PROVE Bounds' /\ (faults' = 0 => faults = 0)
  OBVIOUS
<1>1. ASSUME NEW w, Done(w), UNCHANGED <<scope, crashes>>
      PROVE  Bounds' /\ (faults' = 0 => faults = 0)
  BY <1>1 DEF Done, Bounds
<1>2. ASSUME NEW r \in Resolved, hfs_mkdir(r) \/ hfs_rmdir(r) \/ hfs_create(r) \/ hfs_delete(r)
      PROVE  Bounds' /\ (faults' = 0 => faults = 0)
  BY <1>1, <1>2 DEF hfs_mkdir, hfs_rmdir, hfs_create, hfs_delete
<1>3. ASSUME NEW s, NEW d, hfs_rename(s, d)
      PROVE  Bounds' /\ (faults' = 0 => faults = 0)
  BY <1>1, <1>3 DEF hfs_rename
<1>4. ASSUME NEW f, hfs_close(f)
      PROVE  Bounds' /\ (faults' = 0 => faults = 0)
  BY <1>1, <1>4 DEF hfs_close
<1>5. ASSUME NEW r, hfs_open(r) \/ hfs_chdir(r) \/ hfs_setcwd(r) \/ hfs_fsetattr(r)
      PROVE  Bounds' /\ (faults' = 0 => faults = 0)
  BY <1>5 DEF hfs_open, hfs_chdir, hfs_setcwd, hfs_fsetattr, Bounds
<1>6. CASE hfs_flush \/ Remount \/ UNCHANGED vars
  BY <1>6 DEF hfs_flush, Remount, vars, Bounds
<1>7. CASE Crash BY <1>7 DEF Crash, Bounds
<1> QED BY <1>2, <1>3, <1>4, <1>5, <1>6, <1>7 DEF Next

TreeInv == Inv /\ Bounds /\ (faults = 0 => Intact)

(* The invariant gives an undamaged volume what the lemmas about it need.  *)
LEMMA CalmNow == TreeInv /\ faults = 0 => Calm
BY CatalogAssumption DEF TreeInv, Calm

(* Every step keeps the invariant.                                         *)
LEMMA TreeStep == TreeInv /\ [Next]_vars => TreeInv'
<1> SUFFICES ASSUME TreeInv, [Next]_vars PROVE TreeInv' OBVIOUS
<1>1. Inv' BY StepInv DEF TreeInv
<1>2. Bounds' /\ (faults' = 0 => faults = 0) BY BoundsKept DEF TreeInv
<1>3. ASSUME faults' = 0 PROVE Intact'
  <2>1. Calm BY <1>2, <1>3, CalmNow
  <2>2. Quiet' BY <1>1, InvNext
  <2>3. Outcome BY <1>3, <2>1, StepDoes
  <2>4. CASE Elsewhere /\ \E key, rec : Grown(key, rec)
    BY <2>1, <2>2, <2>4, GrownIntact DEF Elsewhere
  <2>5. CASE Elsewhere /\ \E key : Lost(key)
    BY <2>1, <2>2, <2>5, LostIntact DEF Elsewhere
  <2>6. CASE Elsewhere /\ \E key, new, name : Went(key, new, name)
    BY <2>1, <2>2, <2>6, WentIntact DEF Elsewhere
  <2>7. CASE Elsewhere /\ Unchanged
    BY <2>1, <2>2, <2>7, UnchangedIntact DEF Elsewhere
  <2>8. CASE scope' = scope /\ Rests
    BY <2>1, <2>2, <2>8, RestsIntact
  <2> QED BY <2>3, <2>4, <2>5, <2>6, <2>7, <2>8 DEF Outcome
<1> QED BY <1>1, <1>2, <1>3 DEF TreeInv

(* A volume that hformat has just made satisfies it.                       *)
LEMMA InitTree == Init => TreeInv
<1> SUFFICES ASSUME Init PROVE TreeInv OBVIOUS
<1>1. Inv BY InitInv
<1>2. Quiet BY <1>1, InvNow
<1>3. scope \in Scopes /\ faults = 0 /\ crashes = 0 /\ disk = mdb /\ cwd = RootDir BY DEF Init
<1>4. Numbered(cat, mdb.next) BY <1>2 DEF Quiet
<1>5. /\ VolName \in Names /\ scope.max \in Nat /\ scope.max > FirstNum
      /\ scope.foreign \subseteq Names
  BY <1>3, CatalogAssumption
<1>6. CASE Fresh
  <2>1. cat = RootRecord /\ thr = RootThread /\ mdb.next = FirstNum BY <1>6 DEF Fresh
  <2> DEFINE c == RootRecord
             t == RootThread
  <2>2. DOMAIN c = {RootKey} /\ c[RootKey] = Dir(RootDir, VolName) BY DEF RootRecord
  <2>3. DOMAIN t = {RootDir} /\ t[RootDir] = Thread(TRUE, RootPar, VolName) BY DEF RootThread
  <2>4. RootKey[1] = RootPar BY DEF RootKey, Key
  <2> HIDE DEF c, t
  <2>5. /\ c[RootKey].id = RootDir /\ c[RootKey].dir = TRUE /\ c[RootKey].name = VolName
        /\ c[RootKey].val = 0
    BY <2>2 DEF Dir
  <2>6. Homes(c) = {RootDir} BY <2>2, <2>5 DEF Homes
  <2>7. Linked(c) BY <1>5, <2>2, <2>4, <2>5, <2>6 DEF Linked, RootDir, RootPar
  <2>8. Threaded(c, t) BY <2>2, <2>3, <2>4, <2>5 DEF Threaded
  <2>9. Tallied(c)
    <3>1. In(DOMAIN c, RootDir) = {} BY <2>2, <2>4 DEF In, RootDir, RootPar
    <3> QED BY <2>2, <2>5, <3>1, FS_EmptySet DEF Tallied
  <2>10. cat = c /\ thr = t BY <2>1 DEF c, t
  <2> QED BY <1>1, <1>3, <1>4, <1>5, <2>1, <2>6, <2>7, <2>8, <2>9, <2>10
          DEF TreeInv, Intact, Whole, Bounds, FirstNum
<1>7. CASE Foreign
  <2>1. PICK n \in scope.foreign :
          /\ cat = With([RootRecord EXCEPT ![RootKey].val = 1], Key(RootDir, n), File(FirstNum, n))
          /\ thr = With(RootThread, FirstNum, Thread(FALSE, RootDir, n))
          /\ mdb = [vn |-> VolName, next |-> FirstNum + 1, dirs |-> 0, files |-> 1,
                    rtdirs |-> 0, rtfiles |-> 1]
    BY <1>7 DEF Foreign
  <2> DEFINE key == Key(RootDir, n)
             a == [RootRecord EXCEPT ![RootKey].val = 1]
             f == File(FirstNum, n)
             s == Thread(FALSE, RootDir, n)
  <2>2. DOMAIN a = {RootKey} /\ a[RootKey] = [Dir(RootDir, VolName) EXCEPT !.val = 1]
    BY DEF RootRecord
  <2>3. DOMAIN RootThread = {RootDir} /\ RootThread[RootDir] = Thread(TRUE, RootPar, VolName)
    BY DEF RootThread
  <2>4. RootKey[1] = RootPar /\ key[1] = RootDir /\ key # RootKey
    BY DEF RootKey, Key, RootDir, RootPar
  <2>5. f.id = FirstNum /\ f.dir = FALSE /\ f.name = n /\ f.val = 0 BY DEF File
  <2> HIDE DEF key, a, f, s
  <2>6. DOMAIN cat = {RootKey, key} /\ cat[RootKey] = a[RootKey] /\ cat[key] = f
    <3>1. cat = With(a, key, f) BY <2>1 DEF a, key, f
    <3> QED BY <2>2, <2>4, <3>1 DEF With
  <2>7. /\ DOMAIN thr = {RootDir, FirstNum} /\ thr[RootDir] = RootThread[RootDir]
        /\ thr[FirstNum] = s
    <3>1. thr = With(RootThread, FirstNum, s) BY <2>1 DEF s
    <3>2. RootDir # FirstNum BY DEF RootDir, FirstNum
    <3> QED BY <2>3, <3>1, <3>2 DEF With
  <2>8. /\ cat[RootKey].id = RootDir /\ cat[RootKey].dir = TRUE /\ cat[RootKey].name = VolName
        /\ cat[RootKey].val = 1
    BY <2>2, <2>6 DEF Dir
  <2>9. Homes(cat) = {RootDir} BY <2>5, <2>6, <2>8 DEF Homes
  <2>10. Linked(cat)
    BY <1>5, <2>4, <2>5, <2>6, <2>8, <2>9 DEF Linked, RootDir, RootPar, FirstNum
  <2>11. Threaded(cat, thr)
    <3>1. s = Thread(f.dir, key[1], f.name) BY <2>4, <2>5 DEF s
    <3>2. RootThread[RootDir] = Thread(cat[RootKey].dir, RootKey[1], cat[RootKey].name)
      BY <2>3, <2>4, <2>8
    <3> QED BY <2>5, <2>6, <2>7, <2>8, <3>1, <3>2 DEF Threaded
  <2>12. Tallied(cat)
    <3>1. In(DOMAIN cat, RootDir) = {key} BY <2>4, <2>6 DEF In, RootDir, RootPar
    <3>2. Cardinality({key}) = 1 BY FS_Singleton
    <3> QED BY <2>5, <2>6, <2>8, <3>1, <3>2 DEF Tallied
  <2>13. mdb.next = FirstNum + 1 BY <2>1
  <2> QED BY <1>1, <1>3, <1>4, <1>5, <2>9, <2>10, <2>11, <2>12, <2>13
          DEF TreeInv, Intact, Whole, Bounds, FirstNum
<1> QED BY <1>6, <1>7 DEF Init

(* The invariant holds at all times.                                       *)
LEMMA TreeAlways == Spec => []TreeInv
<1> QED BY InitTree, TreeStep, PTL DEF Spec

(* The threads of an undamaged volume are those of its entries: each       *)
(* directory has one, it says where the record is and what its name is,    *)
(* and no thread is without an entry. hfs_mkdir, hfs_rmdir, hfs_delete and *)
(* hfs_rename change the two in separate writes to the tree.               *)
THEOREM ThreadsAgree == Spec => []ThreadsMatch
<1>1. TreeInv => ThreadsMatch
  BY DEF TreeInv, Intact, Whole, Threaded, ThreadsMatch, Range
<1> QED BY <1>1, TreeAlways, PTL

(* A call that fails without an I/O error leaves the catalog as it was:    *)
(* every check of hfs_mkdir, hfs_create, hfs_rmdir, hfs_delete and         *)
(* hfs_rename comes before the first change, or the change it precedes is  *)
(* the one that is refused.                                                *)
THEOREM RefusalsChangeNothing == Spec => RefusalChangesNothing
<1>1. TreeInv /\ [Next]_vars => [~ ok' /\ faults' = 0 => UNCHANGED <<cat, thr>>]_vars
  <2> SUFFICES ASSUME TreeInv, [Next]_vars, ~ ok', faults' = 0
               PROVE  UNCHANGED <<cat, thr>>
    OBVIOUS
  <2>1. Calm BY BoundsKept, CalmNow DEF TreeInv
  <2>2. Outcome BY <2>1, StepDoes
  <2> QED BY <2>2 DEF Outcome, Unchanged, Rests, Kept
<1> QED BY <1>1, TreeAlways, PTL DEF Spec, RefusalChangesNothing

-----------------------------------------------------------------------------
(* libhfs implements Hierarchy: each step of the catalog is a step of the  *)
(* tree of nodes, or changes no node.                                      *)

(* The catalog as a map from numbers to places.                            *)
Place(c, key) == [par |-> key[1], name |-> key[2], dir |-> c[key].dir]

NodesOf(c) == [id \in {rec.id : rec \in Range(c)} |->
                 LET key == CHOOSE k \in DOMAIN c : c[k].id = id
                 IN  [par |-> key[1], name |-> key[2], dir |-> c[key].dir]]

(* f is that map.                                                          *)
Maps(f, c) == /\ DOMAIN f = {c[k].id : k \in DOMAIN c}
              /\ \A k \in DOMAIN c : f[c[k].id] = Place(c, k)

(* The node of a number is where the record of that number is.             *)
LEMMA NodesMap ==
    ASSUME NEW c, NEW next, Numbered(c, next)
    PROVE  Maps(NodesOf(c), c)
<1>1. DOMAIN NodesOf(c) = {c[k].id : k \in DOMAIN c} BY DEF NodesOf, Range
<1>2. ASSUME NEW k \in DOMAIN c PROVE NodesOf(c)[c[k].id] = Place(c, k)
  <2> DEFINE j == CHOOSE i \in DOMAIN c : c[i].id = c[k].id
  <2>1. j \in DOMAIN c /\ c[j].id = c[k].id OBVIOUS
  <2>2. j = k BY <2>1 DEF Numbered
  <2>3. c[k].id \in {rec.id : rec \in Range(c)} BY DEF Range
  <2>4. NodesOf(c)[c[k].id] = Place(c, j) BY <2>3 DEF NodesOf, Place
  <2> HIDE DEF j
  <2> QED BY <2>2, <2>4
<1> QED BY <1>1, <1>2 DEF Maps

(* A number and the parent and name of what has it.                        *)
LEMMA MapsTo ==
    ASSUME NEW c, NEW f, Maps(f, c), NEW i \in DOMAIN f
    PROVE  \E k \in DOMAIN c : /\ c[k].id = i /\ f[i].par = k[1] /\ f[i].name = k[2]
                               /\ f[i].dir = c[k].dir
<1>1. PICK k \in DOMAIN c : c[k].id = i BY DEF Maps
<1>2. f[i] = Place(c, k) BY <1>1 DEF Maps
<1>3. f[i].par = k[1] /\ f[i].name = k[2] /\ f[i].dir = c[k].dir BY <1>2 DEF Place
<1> QED BY <1>1, <1>3

(* What happens to a map.                                                  *)
Joins(f, g, i, par, name, dir) ==
    /\ i \notin DOMAIN f /\ DOMAIN g = DOMAIN f \cup {i}
    /\ \A j \in DOMAIN f : g[j] = f[j]
    /\ g[i] = [par |-> par, name |-> name, dir |-> dir]
    /\ par \in DOMAIN f /\ f[par].dir

Leaves(f, g, i) == /\ i \in DOMAIN f /\ DOMAIN g = DOMAIN f \ {i}
                   /\ \A j \in DOMAIN g : g[j] = f[j]

Turns(f, g, i, old, par, name) ==
    /\ i \in DOMAIN f /\ DOMAIN g = DOMAIN f
    /\ \A j \in DOMAIN f : j # i => g[j] = f[j]
    /\ f[i] = old /\ g[i] = [par |-> par, name |-> name, dir |-> old.dir]

(* An entry more is a node more.                                           *)
LEMMA AddedMaps ==
    ASSUME NEW c, NEW next, Numbered(c, next), NEW f, Maps(f, c),
           NEW d, NEW key, NEW rec, NEW pk, Added(c, d, key, rec, pk), rec.id = next,
           NEW g, Maps(g, d)
    PROVE  Joins(f, g, rec.id, key[1], key[2], rec.dir)
<1>1. /\ key \notin DOMAIN c /\ DOMAIN d = DOMAIN c \cup {key} /\ d[key] = rec
      /\ pk \in DOMAIN c /\ c[pk].dir /\ c[pk].id = key[1]
      /\ \A k \in DOMAIN c : d[k].id = c[k].id /\ d[k].dir = c[k].dir
  BY DEF Added, Alike
<1>2. \A k \in DOMAIN c : c[k].id # rec.id BY DEF Numbered
<1>3. rec.id \notin DOMAIN f BY <1>2 DEF Maps
<1>4. DOMAIN g = DOMAIN f \cup {rec.id} BY <1>1 DEF Maps
<1>5. ASSUME NEW j \in DOMAIN f PROVE g[j] = f[j]
  <2>1. PICK k \in DOMAIN c : c[k].id = j BY DEF Maps
  <2>2. f[j] = Place(c, k) /\ g[d[k].id] = Place(d, k) BY <1>1, <2>1 DEF Maps
  <2> QED BY <1>1, <2>1, <2>2 DEF Place
<1>6. g[rec.id] = [par |-> key[1], name |-> key[2], dir |-> rec.dir]
  BY <1>1 DEF Maps, Place
<1>7. key[1] \in DOMAIN f /\ f[key[1]].dir
  <2>1. f[key[1]] = Place(c, pk) BY <1>1 DEF Maps
  <2> QED BY <1>1, <2>1 DEF Maps, Place
<1> QED BY <1>3, <1>4, <1>5, <1>6, <1>7 DEF Joins

(* An entry less is a node less.                                           *)
LEMMA RemovedMaps ==
    ASSUME NEW c, NEW next, Numbered(c, next), NEW f, Maps(f, c),
           NEW d, NEW key, NEW pk, Removed(c, d, key, pk), NEW g, Maps(g, d)
    PROVE  Leaves(f, g, c[key].id)
<1>1. /\ key \in DOMAIN c /\ DOMAIN d = DOMAIN c \ {key}
      /\ \A k \in DOMAIN d : d[k].id = c[k].id /\ d[k].dir = c[k].dir
  BY DEF Removed, Alike
<1>2. \A k \in DOMAIN c : k # key => c[k].id # c[key].id BY <1>1 DEF Numbered
<1>3. DOMAIN g = DOMAIN f \ {c[key].id} BY <1>1, <1>2 DEF Maps
<1>4. ASSUME NEW j \in DOMAIN g PROVE g[j] = f[j]
  <2>1. PICK k \in DOMAIN d : d[k].id = j BY DEF Maps
  <2>2. k \in DOMAIN c /\ c[k].id = j BY <1>1, <2>1
  <2>3. f[j] = Place(c, k) /\ g[j] = Place(d, k) BY <2>1, <2>2 DEF Maps
  <2> QED BY <1>1, <2>1, <2>3 DEF Place
<1> QED BY <1>1, <1>3, <1>4 DEF Maps, Leaves

(* An entry that moves is a node that moves.                               *)
LEMMA MovedMaps ==
    ASSUME NEW c, NEW next, Numbered(c, next), NEW f, Maps(f, c),
           NEW d, NEW key, NEW new, NEW name, Moved(c, d, key, new, name), NEW g, Maps(g, d)
    PROVE  Turns(f, g, c[key].id, Place(c, key), new[1], new[2])
<1>1. /\ key \in DOMAIN c /\ DOMAIN d = (DOMAIN c \ {key}) \cup {new}
      /\ d[new].id = c[key].id /\ d[new].dir = c[key].dir
      /\ \A k \in DOMAIN c : k # key => d[k].id = c[k].id /\ d[k].dir = c[k].dir
      /\ \A k \in DOMAIN c : k # key => k \in DOMAIN d
      /\ \A k \in DOMAIN d : k = new \/ (k \in DOMAIN c /\ k # key)
  BY DEF Moved, Alike
<1>2. DOMAIN g = DOMAIN f
  <2>1. \A j \in DOMAIN f : j \in DOMAIN g BY <1>1 DEF Maps
  <2>2. \A j \in DOMAIN g : j \in DOMAIN f BY <1>1 DEF Maps
  <2> QED BY <2>1, <2>2
<1>3. ASSUME NEW j \in DOMAIN f, j # c[key].id PROVE g[j] = f[j]
  <2>1. PICK k \in DOMAIN c : c[k].id = j BY DEF Maps
  <2>2. k # key BY <1>3, <2>1
  <2>3. k \in DOMAIN d /\ d[k].id = j /\ d[k].dir = c[k].dir BY <1>1, <2>1, <2>2
  <2>4. f[j] = Place(c, k) /\ g[j] = Place(d, k) BY <2>1, <2>3 DEF Maps
  <2> QED BY <2>3, <2>4 DEF Place
<1>4. g[c[key].id] = Place(d, new) /\ f[c[key].id] = Place(c, key) /\ c[key].id \in DOMAIN f
  <2>1. new \in DOMAIN d BY <1>1
  <2> QED BY <1>1, <2>1 DEF Maps
<1> QED BY <1>1, <1>2, <1>3, <1>4 DEF Place, Turns

Letters == {n[1] : n \in Names}

(* Numbers and names that the abstract volume knows.                       *)
LEMMA KnownEntry ==
    ASSUME NEW c, NEW next, Numbered(c, next), Linked(c), NEW s \in Scopes, s.max \in Nat,
           next <= s.max, NEW k \in DOMAIN c
    PROVE  /\ c[k].id \in Nums
           /\ Place(c, k) \in [par : Nums \cup {RootPar}, name : Letters, dir : BOOLEAN]
<1>1. ASSUME NEW j \in DOMAIN c PROVE c[j].id \in Nums
  <2>1. c[j].id \in Nat /\ c[j].id < next /\ next \in Nat BY DEF Numbered
  <2>2. CASE c[j].id = RootDir BY <2>2 DEF Nums
  <2>3. CASE c[j].id >= FirstNum
    <3>1. c[j].id \in FirstNum .. s.max - 1 BY <2>1, <2>3 DEF FirstNum
    <3> QED BY <3>1 DEF Nums
  <2> QED BY <2>2, <2>3 DEF Linked
<1>2. k[1] \in Nums \cup {RootPar} BY <1>1 DEF Linked, Homes
<1>3. k[2] \in Letters
  <2>1. k = Key(k[1], c[k].name) /\ c[k].name \in Names BY DEF Linked, Numbered, Placed
  <2>2. k[2] = c[k].name[1] BY <2>1 DEF Key
  <2> QED BY <2>1, <2>2 DEF Letters
<1>4. c[k].dir \in BOOLEAN BY DEF Numbered, Placed, IsRecord
<1> QED BY <1>1, <1>2, <1>3, <1>4 DEF Place

(* Two entries of one directory have two names.                            *)
LEMMA PlacesApart ==
    ASSUME NEW c, NEW next, Numbered(c, next), NEW j \in DOMAIN c, NEW key, NEW name,
           key = Key(key[1], name), j[1] = key[1], j[2] = key[2]
    PROVE  j = key
<1>1. j = Key(j[1], c[j].name) BY DEF Numbered, Placed
<1>2. j[2] = c[j].name[1] BY <1>1 DEF Key
<1>3. key[2] = name[1] BY DEF Key
<1> QED BY <1>1, <1>2, <1>3 DEF Key

(* The nodes are those of the entries.                                     *)
LEMMA NodesNow == Calm => Maps(Nodes, cat)
<1> SUFFICES ASSUME Calm PROVE Maps(Nodes, cat) OBVIOUS
<1>1. Numbered(cat, mdb.next) BY CalmFacts DEF Whole
<1>2. Nodes = NodesOf(cat) BY DEF Nodes, NodesOf
<1> QED BY <1>1, <1>2, NodesMap

(* They are so after a step.                                               *)
LEMMA NodesNext == Quiet' => Maps(Nodes', cat')
<1> SUFFICES ASSUME Quiet' PROVE Maps(Nodes', cat') OBVIOUS
<1>1. Numbered(cat', mdb'.next) BY DEF Quiet
<1>2. Nodes' = NodesOf(cat') BY DEF Nodes, NodesOf
<1> QED BY <1>1, <1>2, NodesMap

(* An entry more is a step Add of the tree.                                *)
LEMMA GrownAdds ==
    ASSUME Calm, Quiet', NEW key, NEW rec, Grown(key, rec), Intact', scope' = scope
    PROVE  \E i \in Nums : Tree!Add(i)
<1> DEFINE f == Nodes
           g == Nodes'
           i == rec.id
<1>1. Maps(f, cat) /\ Maps(g, cat') BY NodesNow, NodesNext
<1>2. PICK pk : Added(cat, cat', key, rec, pk) BY DEF Grown
<1>3. CalmState /\ Numbered(cat, mdb.next) /\ Linked(cat) BY CalmIs DEF CalmState, Whole
<1>4. rec.id = mdb.next /\ key = Key(key[1], rec.name) BY DEF Grown, Placed
<1> HIDE DEF f, g
<1>5. Joins(f, g, i, key[1], key[2], rec.dir) BY <1>1, <1>2, <1>3, <1>4, AddedMaps
<1>6. key \notin DOMAIN cat /\ key \in DOMAIN cat' /\ cat'[key] = rec BY <1>2 DEF Added
<1>7. i \in Nums /\ g[i] \in [par : Nums \cup {RootPar}, name : Letters, dir : BOOLEAN]
  <2>1. /\ Numbered(cat', mdb'.next) /\ Linked(cat') /\ mdb'.next <= scope.max /\ scope \in Scopes
        /\ scope.max \in Nat
    BY <1>3, CalmFacts DEF Intact, Whole, CalmState
  <2>2. g[i] = Place(cat', key) BY <1>1, <1>6 DEF Maps
  <2> QED BY <1>6, <2>1, <2>2, KnownEntry
<1>8. ASSUME NEW j \in DOMAIN f, f[j].par = key[1], f[j].name = key[2] PROVE FALSE
  <2>1. PICK k \in DOMAIN cat : f[j].par = k[1] /\ f[j].name = k[2] BY <1>1, MapsTo
  <2>2. k[1] = key[1] /\ k[2] = key[2] BY <1>8, <2>1
  <2>3. k = key BY <1>3, <1>4, <2>2, PlacesApart
  <2> QED BY <1>6, <2>3
<1>9. g[i].par = key[1] /\ g[i].name = key[2] BY <1>5 DEF Joins
<1> USE DEF Tree!Present, Tree!Same, Tree!Entries, Tree!Dirs, Tree!Taken, Tree!Children
<1>10. Tree!Add(i) BY <1>5, <1>7, <1>8, <1>9 DEF Tree!Add, f, g, Letters, Joins
<1> QED BY <1>7, <1>10

(* An entry less is a step Remove of the tree.                             *)
LEMMA LostRemoves ==
    ASSUME Calm, Quiet', NEW key, Lost(key)
    PROVE  \E i \in DOMAIN Nodes : Tree!Remove(i)
<1> DEFINE f == Nodes
           g == Nodes'
           i == cat[key].id
<1>1. Maps(f, cat) /\ Maps(g, cat') BY NodesNow, NodesNext
<1>2. PICK pk : Removed(cat, cat', key, pk) BY DEF Lost
<1>3. Numbered(cat, mdb.next) BY CalmFacts DEF Whole
<1>4. i # RootDir /\ \A k \in DOMAIN cat : k[1] # i BY DEF Lost
<1> HIDE DEF f, g, i
<1>5. Leaves(f, g, i) BY <1>1, <1>2, <1>3, RemovedMaps DEF i
<1>6. \A j \in DOMAIN f : f[j].par # i
  <2> SUFFICES ASSUME NEW j \in DOMAIN f, f[j].par = i PROVE FALSE OBVIOUS
  <2>1. PICK k \in DOMAIN cat : f[j].par = k[1] BY <1>1, MapsTo
  <2> QED BY <1>4, <2>1
<1>7. Tree!Remove(i)
  BY <1>4, <1>5, <1>6 DEF Tree!Remove, Tree!Present, Tree!Same, Tree!Children, f, g, Leaves
<1> QED BY <1>5, <1>7 DEF Leaves, f

(* The way up from a directory, on the map.                                *)
LEMMA NodesAbove ==
    ASSUME Calm, NEW inside, inside # RootDir, NEW id, NotBelow(inside, id)
    PROVE  \E A \in SUBSET Tree!Dirs : Tree!WayUp(id, A) /\ inside \notin A
<1> DEFINE f == Nodes
<1>1. Maps(f, cat) BY NodesNow
<1>2. Whole(cat, thr, mdb.next) BY CalmFacts
<1>3. PICK A : /\ id \in A /\ (inside = RootDir \/ inside \notin A)
               /\ \A a \in A : a = RootDir \/ (HasThread(TRUE, a) /\ thr[a].par \in A)
  <2>1. scope.max \in Nat BY CalmIs DEF CalmState
  <2> QED BY <2>1, WayAbove
<1> HIDE DEF f
<1>4. ASSUME NEW a \in A, a # RootDir PROVE a \in DOMAIN f /\ f[a].dir /\ f[a].par \in A
  <2>1. a \in DOMAIN thr /\ thr[a].dir = TRUE /\ thr[a].par \in A BY <1>3, <1>4 DEF HasThread
  <2>2. PICK k \in DOMAIN cat : cat[k].id = a BY <1>2, <2>1 DEF Whole, Threaded
  <2>3. thr[a] = Thread(cat[k].dir, k[1], cat[k].name) BY <1>2, <2>1, <2>2 DEF Whole, Threaded
  <2>4. cat[k].dir /\ k[1] \in A BY <2>1, <2>3 DEF Thread
  <2>5. a \in DOMAIN f /\ f[a] = Place(cat, k) BY <1>1, <2>2 DEF Maps
  <2> QED BY <2>4, <2>5 DEF Place
<1>5. RootDir \in DOMAIN f /\ f[RootDir].dir
  <2>1. PICK k \in DOMAIN cat : cat[k].dir /\ cat[k].id = RootDir
    BY <1>2 DEF Whole, Linked, Homes
  <2>2. RootDir \in DOMAIN f /\ f[RootDir] = Place(cat, k) BY <1>1, <2>1 DEF Maps
  <2> QED BY <2>1, <2>2 DEF Place
<1>6. A \in SUBSET Tree!Dirs BY <1>4, <1>5 DEF Tree!Dirs, Tree!Present, f
<1>7. Tree!WayUp(id, A) BY <1>3, <1>4 DEF Tree!WayUp, f
<1> QED BY <1>3, <1>6, <1>7

(* All directories are a way up.                                           *)
LEMMA NodesLinked ==
    ASSUME Calm, NEW id \in Homes(cat)
    PROVE  /\ id \in Tree!Dirs /\ Tree!WayUp(id, Tree!Dirs)
           /\ \A k \in DOMAIN cat : ~ cat[k].dir => cat[k].id \notin Tree!Dirs
<1> DEFINE f == Nodes
<1>1. Maps(f, cat) BY NodesNow
<1>2. Numbered(cat, mdb.next) /\ Linked(cat) BY CalmFacts DEF Whole
<1> HIDE DEF f
<1>3. ASSUME NEW k \in DOMAIN cat
      PROVE  cat[k].id \in DOMAIN f /\ f[cat[k].id].par = k[1] /\ f[cat[k].id].dir = cat[k].dir
  <2>1. cat[k].id \in DOMAIN f /\ f[cat[k].id] = Place(cat, k) BY <1>1 DEF Maps
  <2> QED BY <2>1 DEF Place
<1>4. Tree!Dirs = {i \in DOMAIN f : f[i].dir} BY DEF Tree!Dirs, Tree!Present, f
<1>5. \A i \in Homes(cat) : i \in Tree!Dirs BY <1>3, <1>4 DEF Homes
<1>6. ASSUME NEW a \in Tree!Dirs, a # RootDir PROVE f[a].par \in Tree!Dirs
  <2>1. a \in DOMAIN f /\ f[a].dir BY <1>4
  <2>2. PICK k \in DOMAIN cat : cat[k].id = a /\ f[a].par = k[1] BY <1>1, <2>1, MapsTo
  <2>3. k[1] \in Homes(cat) BY <1>2, <1>6, <2>2 DEF Linked
  <2> QED BY <1>5, <2>2, <2>3
<1>7. Tree!WayUp(id, Tree!Dirs) BY <1>5, <1>6 DEF Tree!WayUp, f
<1> QED BY <1>3, <1>4, <1>5, <1>7

(* An entry that moves is a step Move of the tree: hfs_rename's climb has  *)
(* shown that it does not go below itself.                                 *)
LEMMA WentMoves ==
    ASSUME Calm, Quiet', NEW key, NEW new, NEW name, Went(key, new, name), Intact',
           scope' = scope
    PROVE  \E i \in DOMAIN Nodes : Tree!Move(i)
<1> DEFINE f == Nodes
           g == Nodes'
           i == cat[key].id
<1>1. Maps(f, cat) /\ Maps(g, cat') BY NodesNow, NodesNext
<1>2. Moved(cat, cat', key, new, name) /\ new = Key(new[1], name) BY DEF Went
<1>3. CalmState /\ Numbered(cat, mdb.next) /\ Linked(cat) BY CalmIs DEF CalmState, Whole
<1>4. /\ key \in DOMAIN cat /\ new \notin DOMAIN cat \ {key} /\ new \in DOMAIN cat'
      /\ cat'[new].id = i
  BY <1>2 DEF Moved
<1> HIDE DEF f, g
<1>5. Turns(f, g, i, Place(cat, key), new[1], new[2]) BY <1>1, <1>2, <1>3, MovedMaps
<1>6. /\ f[i].par = key[1] /\ f[i].dir = cat[key].dir /\ g[i].par = new[1] /\ g[i].name = new[2]
      /\ g[i].dir = cat[key].dir
  BY <1>5 DEF Turns, Place
<1>7. g[i] \in [par : Nums \cup {RootPar}, name : Letters, dir : BOOLEAN]
  <2>1. /\ Numbered(cat', mdb'.next) /\ Linked(cat') /\ mdb'.next <= scope.max /\ scope \in Scopes
        /\ scope.max \in Nat
    BY <1>3, CalmFacts DEF Intact, Whole, CalmState
  <2>2. g[i] = Place(cat', new) BY <1>1, <1>4 DEF Maps
  <2> QED BY <1>4, <2>1, <2>2, KnownEntry
<1>8. ASSUME NEW j \in DOMAIN f, f[j].par = new[1], f[j].name = new[2] PROVE j = i
  <2>1. PICK k \in DOMAIN cat : cat[k].id = j /\ f[j].par = k[1] /\ f[j].name = k[2]
    BY <1>1, MapsTo
  <2>2. k[1] = new[1] /\ k[2] = new[2] BY <1>8, <2>1
  <2>3. k = new BY <1>2, <1>3, <2>2, PlacesApart
  <2> QED BY <1>4, <2>1, <2>3
<1>9. g[i].par = f[i].par \/ Tree!Goes(i, g[i].par)
  <2>1. CASE key[1] = new[1] BY <1>6, <2>1
  <2>2. CASE key[1] # new[1]
    <3>1. /\ i # RootDir /\ new[1] \in Homes(cat)
          /\ cat[key].dir => NotBelow(i, new[1])
      BY <2>2 DEF Went
    <3>2. /\ new[1] \in Tree!Dirs /\ Tree!WayUp(new[1], Tree!Dirs)
          /\ ~ cat[key].dir => i \notin Tree!Dirs
      BY <1>4, <3>1, NodesLinked
    <3>3. \E A \in SUBSET Tree!Dirs : Tree!WayUp(new[1], A) /\ i \notin A
      <4>1. CASE cat[key].dir BY <3>1, <4>1, NodesAbove
      <4>2. CASE ~ cat[key].dir BY <3>2, <4>2
      <4> QED BY <4>1, <4>2
    <3> QED BY <1>6, <3>1, <3>2, <3>3 DEF Tree!Goes
  <2> QED BY <2>1, <2>2
<1>10. Tree!Move(i)
  BY <1>5, <1>6, <1>7, <1>8, <1>9
     DEF Tree!Move, Tree!Present, Tree!Same, Tree!Entries, Tree!Taken, Tree!Children, f, g,
         Turns, Letters
<1> QED BY <1>5, <1>10 DEF Turns, f

(* A catalog that is the same at every key has the same map.               *)
LEMMA SameNodes ==
    ASSUME NEW c, NEW next, Numbered(c, next), NEW d, NEW after, Numbered(d, after),
           DOMAIN d = DOMAIN c, \A k \in DOMAIN c : d[k] = c[k]
    PROVE  NodesOf(d) = NodesOf(c)
<1> DEFINE f == NodesOf(c)
           g == NodesOf(d)
           S == {rec.id : rec \in Range(c)}
           T == {rec.id : rec \in Range(d)}
<1>1. Maps(f, c) /\ Maps(g, d) BY NodesMap
<1>2. f = [i \in S |-> f[i]] /\ g = [i \in T |-> g[i]] BY DEF NodesOf
<1>3. S = T BY DEF Range
<1>4. S = {c[k].id : k \in DOMAIN c} BY DEF Range
<1> HIDE DEF f, g, S, T
<1>5. ASSUME NEW i \in S PROVE f[i] = g[i]
  <2>1. PICK k \in DOMAIN c : c[k].id = i BY <1>4
  <2>2. f[i] = Place(c, k) /\ g[i] = Place(d, k) BY <1>1, <2>1 DEF Maps
  <2> QED BY <2>2 DEF Place
<1>6. f = g BY <1>2, <1>3, <1>5
<1> QED BY <1>6 DEF f, g

(* At first the root directory has all that there is.                      *)
LEMMA InitFlat ==
    ASSUME Init
    PROVE  \A k \in DOMAIN cat : cat[k].id = RootDir \/ k[1] = RootDir
<1>1. CASE Fresh
  <2>1. DOMAIN cat = {RootKey} /\ cat[RootKey].id = RootDir
    BY <1>1 DEF Fresh, RootRecord, Dir
  <2> QED BY <2>1
<1>2. CASE Foreign
  <2>1. PICK n \in scope.foreign :
          cat = With([RootRecord EXCEPT ![RootKey].val = 1], Key(RootDir, n), File(FirstNum, n))
    BY <1>2 DEF Foreign
  <2> DEFINE key == Key(RootDir, n)
             a == [RootRecord EXCEPT ![RootKey].val = 1]
  <2>2. DOMAIN a = {RootKey} /\ a[RootKey].id = RootDir BY DEF RootRecord, Dir
  <2>3. key[1] = RootDir BY DEF Key
  <2> HIDE DEF a, key
  <2>4. cat = With(a, key, File(FirstNum, n)) BY <2>1 DEF a, key
  <2>5. \A k \in DOMAIN cat : k = key \/ (k = RootKey /\ cat[k] = a[k]) BY <2>2, <2>4 DEF With
  <2> QED BY <2>2, <2>3, <2>5
<1> QED BY <1>1, <1>2 DEF Init

(* A new volume is a tree that has a root and nothing below its entries.   *)
LEMMA InitNodes == Init => Tree!Init
<1> SUFFICES ASSUME Init PROVE Tree!Init OBVIOUS
<1> DEFINE f == Nodes
<1>1. TreeInv /\ faults = 0 BY InitTree DEF Init
<1>2. Calm BY <1>1, CalmNow
<1>3. Maps(f, cat) BY <1>2, NodesNow
<1>4. /\ CalmState /\ Numbered(cat, mdb.next) /\ Linked(cat) /\ mdb.next <= scope.max
      /\ scope \in Scopes /\ scope.max \in Nat
  BY <1>2, CalmIs, CalmFacts DEF CalmState, Whole
<1> HIDE DEF f
<1>5. ASSUME NEW i \in DOMAIN f
      PROVE  /\ i \in Nums /\ f[i] \in [par : Nums \cup {RootPar}, name : Letters, dir : BOOLEAN]
             /\ i # RootDir => f[i].par = RootDir
  <2>1. PICK k \in DOMAIN cat : cat[k].id = i /\ f[i].par = k[1] BY <1>3, MapsTo
  <2>2. f[i] = Place(cat, k) BY <1>3, <2>1 DEF Maps
  <2>3. i # RootDir => f[i].par = RootDir BY <2>1, InitFlat
  <2> QED BY <1>4, <2>1, <2>2, <2>3, KnownEntry
<1>6. RootDir \in DOMAIN f /\ f[RootDir].dir /\ f[RootDir].par = RootPar
  <2>1. PICK k \in DOMAIN cat : cat[k].dir /\ cat[k].id = RootDir BY <1>4 DEF Linked, Homes
  <2>2. k[1] = RootPar BY <1>4, <2>1 DEF Linked
  <2>3. RootDir \in DOMAIN f /\ f[RootDir] = Place(cat, k) BY <1>3, <2>1 DEF Maps
  <2> QED BY <2>1, <2>2, <2>3 DEF Place
<1>7. RootPar \notin Nums
  <2>1. \A s \in Scopes : s.max \in Nat BY <1>2 DEF Calm, CatalogAssumption
  <2>2. \A s \in Scopes : RootPar \notin FirstNum .. s.max - 1 BY <2>1 DEF RootPar, FirstNum
  <2> QED BY <2>2 DEF Nums, RootPar, RootDir
<1>8. ASSUME NEW i \in DOMAIN f, NEW j \in DOMAIN f, i # RootDir, j # RootDir,
             f[i].name = f[j].name
      PROVE  i = j
  <2>1. PICK k \in DOMAIN cat : cat[k].id = i /\ f[i].par = k[1] /\ f[i].name = k[2]
    BY <1>3, MapsTo
  <2>2. PICK l \in DOMAIN cat : cat[l].id = j /\ f[j].par = l[1] /\ f[j].name = l[2]
    BY <1>3, MapsTo
  <2>3. k[1] = l[1] /\ k[2] = l[2] BY <1>5, <1>8, <2>1, <2>2
  <2>4. l = Key(l[1], cat[l].name) BY <1>4 DEF Numbered, Placed
  <2>5. k = l BY <1>4, <2>3, <2>4, PlacesApart
  <2> QED BY <2>1, <2>2, <2>5
<1> QED BY <1>1, <1>5, <1>6, <1>7, <1>8 DEF Tree!Init, Tree!Present, Tree!Entries, f, Letters

(* Every step of the catalog is a step of the tree or leaves its nodes     *)
(* alone.                                                                  *)
LEMMA StepNodes == TreeInv /\ [Next]_vars => [Tree!Next]_(Tree!vars)
<1> SUFFICES ASSUME TreeInv, [Next]_vars PROVE Tree!Next \/ UNCHANGED Tree!vars
  BY DEF Tree!vars
<1>1. TreeInv' /\ Bounds' BY TreeStep DEF TreeInv
<1>2. CASE faults' # 0
  <2>1. faults' \in Nat BY <1>1 DEF Bounds
  <2>2. (faults' > 0) = TRUE BY <1>2, <2>1
  <2> QED BY <2>2 DEF Tree!Next
<1>3. CASE faults' = 0
  <2>1. faults = 0 /\ Calm /\ Quiet' BY <1>1, <1>3, BoundsKept, CalmNow, InvNext DEF TreeInv
  <2>2. Intact' BY <1>1, <1>3 DEF TreeInv
  <2>3. (faults > 0) = FALSE /\ (faults' > 0) = FALSE BY <1>3, <2>1
  <2>4. Outcome BY <1>3, <2>1, StepDoes
  <2>5. CASE Elsewhere /\ \E key, rec : Grown(key, rec)
    <3>1. \E i \in Nums : Tree!Add(i) BY <2>1, <2>2, <2>5, GrownAdds DEF Elsewhere
    <3> QED BY <2>3, <3>1 DEF Tree!Next
  <2>6. CASE Elsewhere /\ \E key : Lost(key)
    <3>1. \E i \in DOMAIN Nodes : Tree!Remove(i) BY <2>1, <2>6, LostRemoves
    <3> QED BY <2>3, <3>1 DEF Tree!Next, Tree!Present
  <2>7. CASE Elsewhere /\ \E key, new, name : Went(key, new, name)
    <3>1. \E i \in DOMAIN Nodes : Tree!Move(i) BY <2>1, <2>2, <2>7, WentMoves DEF Elsewhere
    <3> QED BY <2>3, <3>1 DEF Tree!Next, Tree!Present
  <2>8. CASE (Elsewhere /\ Unchanged) \/ (scope' = scope /\ Rests)
    <3> DEFINE d == cat'
    <3>1. DOMAIN d = DOMAIN cat /\ \A k \in DOMAIN cat : d[k] = cat[k]
      BY <2>8 DEF Unchanged, Rests, Kept
    <3>2. NodesOf(d) = NodesOf(cat)
      <4>1. Numbered(cat, mdb.next) /\ Numbered(d, mdb'.next)
        BY <2>1, CalmFacts DEF Whole, Quiet
      <4> HIDE DEF d
      <4> QED BY <3>1, <4>1, SameNodes
    <3>3. Nodes' = Nodes BY <3>2 DEF Nodes, NodesOf
    <3> QED BY <2>3, <3>3 DEF Tree!vars
  <2> QED BY <2>4, <2>5, <2>6, <2>7, <2>8 DEF Outcome
<1> QED BY <1>2, <1>3

(* libhfs implements Hierarchy: hfs_mkdir, hfs_create, hfs_rmdir,          *)
(* hfs_delete and hfs_rename add, remove and move the nodes of one tree of *)
(* names, and nothing else changes it until an I/O error.                  *)
THEOREM CatalogIsHierarchy == Spec => IsHierarchy
<1> QED BY TreeAlways, InitNodes, StepNodes, PTL DEF Spec, IsHierarchy, Tree!Spec

-----------------------------------------------------------------------------
(* What Hierarchy promises, of libhfs.                                     *)

One == INSTANCE HierarchyProofs WITH
           Ids <- Nums, Names <- {n[1] : n \in Names}, Top <- RootDir, Outside <- RootPar,
           node <- Nodes, damaged <- (faults > 0)

(* So what holds of every Hierarchy holds of the volume: as long as no I/O *)
(* error has damaged it, its entries are one tree with the root directory  *)
(* at its top, no directory is below itself and no two entries of one have *)
(* the same name.                                                          *)
THEOREM VolumeIsOneTree == Spec => [](faults = 0 => One!OneTree)
<1>1. Init => One!Init
  BY InitNodes DEF Tree!Init, Tree!Present, Tree!Entries, One!Init, One!Present, One!Entries
<1>2. TreeInv /\ [Next]_vars => [One!Next]_(One!vars)
  <2> SUFFICES ASSUME TreeInv, [Next]_vars PROVE [One!Next]_(One!vars) OBVIOUS
  <2>1. [Tree!Next]_(Tree!vars) BY StepNodes
  <2> USE DEF Tree!Present, Tree!Entries, Tree!Same, Tree!Dirs, Tree!Children, Tree!Taken,
              Tree!WayUp, Tree!Goes, One!Present, One!Entries, One!Same, One!Dirs,
              One!Children, One!Taken, One!WayUp, One!Goes
  <2>2. \A i : Tree!Add(i) => One!Add(i) BY DEF Tree!Add, One!Add
  <2>3. \A i : Tree!Remove(i) => One!Remove(i) BY DEF Tree!Remove, One!Remove
  <2>4. \A i : Tree!Move(i) => One!Move(i) BY DEF Tree!Move, One!Move
  <2> QED BY <2>1, <2>2, <2>3, <2>4 DEF Tree!Next, Tree!vars, One!Next, One!vars
<1>3. TreeInv => (faults = 0 => (faults > 0) = FALSE) BY DEF TreeInv, Bounds
<1>4. One!Spec => []((faults > 0) = FALSE => One!OneTree) BY One!CatalogIsTree
<1> QED BY <1>1, <1>2, <1>3, <1>4, TreeAlways, PTL DEF Spec, One!Spec

-----------------------------------------------------------------------------
(* What holds of a damaged volume too: each field of a record fits the     *)
(* field of the medium it is written to.                                   *)

(* Records and threads that are in range, whatever was cut short.          *)
Parents == {RootPar} \cup Nums

FitRecord(rec) == IsRecord(rec) /\ rec.id \in Nums /\ rec.name \in Names /\ rec.val \in Words

FitThread(t) == t \in [dir : BOOLEAN, par : Parents, name : Names]

Filled(c) == \A k \in DOMAIN c : k[1] \in Parents /\ FitRecord(c[k])
Marked(t) == DOMAIN t \subseteq Nums /\ \A id \in DOMAIN t : FitThread(t[id])
Ready(n)  == n \in FirstNum .. scope.max

Fit(w) == IsWork(w) /\ IsMDB(w.mdb) /\ Filled(w.cat) /\ Marked(w.thr) /\ Ready(w.mdb.next)

(* A change keeps the fields in their ranges if what it writes is in them. *)
LEMMA ChangeFit ==
    ASSUME NEW w, Fit(w), NEW can, NEW changed, w.ok /\ can => Fit(changed)
    PROVE  Fit(Change(w, can, changed))
<1>1. ASSUME NEW v, Fit(v), NEW n PROVE Fit([v EXCEPT !.cut = n])
  <2> DEFINE u == [v EXCEPT !.cut = n]
  <2>1. IsWork(u) /\ u.cat = v.cat /\ u.thr = v.thr /\ u.mdb = v.mdb
    BY <1>1 DEF Fit, IsWork, Fields
  <2> QED BY <1>1, <2>1 DEF Fit
<1>2. ASSUME NEW v, Fit(v), NEW o PROVE Fit([v EXCEPT !.ok = o])
  <2> DEFINE u == [v EXCEPT !.ok = o]
  <2>1. IsWork(u) /\ u.cat = v.cat /\ u.thr = v.thr /\ u.mdb = v.mdb
    BY <1>2 DEF Fit, IsWork, Fields
  <2> QED BY <1>2, <2>1 DEF Fit
<1>3. ASSUME NEW v, Fit(v), NEW o, NEW h PROVE Fit([v EXCEPT !.ok = o, !.hit = h])
  <2> DEFINE u == [v EXCEPT !.ok = o, !.hit = h]
  <2>1. IsWork(u) /\ u.cat = v.cat /\ u.thr = v.thr /\ u.mdb = v.mdb
    BY <1>3 DEF Fit, IsWork, Fields
  <2> QED BY <1>3, <2>1 DEF Fit
<1>4. CASE ~ w.ok BY <1>4 DEF Change
<1>5. CASE w.ok /\ w.cut = 0 BY <1>3, <1>5 DEF Change
<1>6. CASE w.ok /\ w.cut # 0 /\ can BY <1>1, <1>6 DEF Change
<1>7. CASE w.ok /\ w.cut # 0 /\ ~ can BY <1>2, <1>7 DEF Change
<1> QED BY <1>4, <1>5, <1>6, <1>7

(* Another catalog, or other threads.                                      *)
LEMMA FitAgain ==
    ASSUME NEW w, Fit(w)
    PROVE  /\ \A c : Filled(c) => Fit([w EXCEPT !.cat = c])
           /\ \A t : Marked(t) => Fit([w EXCEPT !.thr = t])
<1>1. ASSUME NEW c, Filled(c) PROVE Fit([w EXCEPT !.cat = c])
  <2> DEFINE u == [w EXCEPT !.cat = c]
  <2>1. IsWork(u) /\ u.cat = c /\ u.thr = w.thr /\ u.mdb = w.mdb
    BY DEF Fit, IsWork, Fields
  <2> QED BY <1>1, <2>1 DEF Fit
<1>2. ASSUME NEW t, Marked(t) PROVE Fit([w EXCEPT !.thr = t])
  <2> DEFINE u == [w EXCEPT !.thr = t]
  <2>1. IsWork(u) /\ u.cat = w.cat /\ u.thr = t /\ u.mdb = w.mdb
    BY DEF Fit, IsWork, Fields
  <2> QED BY <1>2, <2>1 DEF Fit
<1> QED BY <1>1, <1>2

(* Inserting and deleting entries.                                         *)
LEMMA EntriesFit ==
    ASSUME NEW w, Fit(w), NEW key
    PROVE  /\ \A rec : key[1] \in Parents /\ FitRecord(rec) => Fit(Insert(w, key, rec))
           /\ Fit(Delete(w, key))
<1>1. ASSUME NEW rec, key[1] \in Parents, FitRecord(rec) PROVE Fit(Insert(w, key, rec))
  <2>1. Filled(With(w.cat, key, rec)) BY <1>1 DEF Filled, With, Fit
  <2>2. Fit([w EXCEPT !.cat = With(@, key, rec)]) BY <2>1, FitAgain
  <2> QED BY <2>2, ChangeFit DEF Insert
<1>2. Fit(Delete(w, key))
  <2>1. Filled(Restrict(w.cat, DOMAIN w.cat \ {key})) BY DEF Filled, Restrict, Fit
  <2>2. Fit([w EXCEPT !.cat = Restrict(@, DOMAIN @ \ {key})]) BY <2>1, FitAgain
  <2> QED BY <2>2, ChangeFit DEF Delete
<1> QED BY <1>1, <1>2

(* Inserting, overwriting and deleting threads.                            *)
LEMMA ThreadsFit ==
    ASSUME NEW w, Fit(w), NEW id
    PROVE  /\ \A t : id \in Nums /\ FitThread(t) => Fit(InsertThread(w, id, t))
           /\ \A t : FitThread(t) => Fit(PutThread(w, id, t))
           /\ Fit(DeleteThread(w, id)) /\ Fit(DeleteFileThread(w, id))
<1>1. ASSUME NEW t, id \in Nums, FitThread(t) PROVE Fit(InsertThread(w, id, t))
  <2>1. Marked(With(w.thr, id, t)) BY <1>1 DEF Marked, With, Fit
  <2>2. Fit([w EXCEPT !.thr = With(@, id, t)]) BY <2>1, FitAgain
  <2> QED BY <2>2, ChangeFit DEF InsertThread
<1>2. ASSUME NEW t, FitThread(t) PROVE Fit(PutThread(w, id, t))
  <2>1. Marked([w.thr EXCEPT ![id] = t]) BY <1>2 DEF Marked, Fit
  <2>2. Fit([w EXCEPT !.thr = [w.thr EXCEPT ![id] = t]]) BY <2>1, FitAgain
  <2>3. Fit([w EXCEPT !.thr[id] = t]) BY <2>2
  <2> QED BY <2>3, ChangeFit DEF PutThread
<1>3. Fit(DeleteThread(w, id))
  <2>1. Marked(Restrict(w.thr, DOMAIN w.thr \ {id})) BY DEF Marked, Restrict, Fit
  <2>2. Fit([w EXCEPT !.thr = Restrict(@, DOMAIN @ \ {id})]) BY <2>1, FitAgain
  <2> QED BY <2>2, ChangeFit DEF DeleteThread
<1>4. Fit(DeleteFileThread(w, id)) BY <1>3, ChangeFit DEF DeleteFileThread
<1> QED BY <1>1, <1>2, <1>3, <1>4

(* Sixteen bits.                                                           *)
LEMMA ShortIn == ASSUME NEW k \in Int PROVE Short(k) \in Words
BY DEF Short, Words

(* A word is an integer.                                                   *)
LEMMA WordIs == ASSUME NEW n \in Words PROVE n \in Int
BY DEF Words

(* A valence that counts one more or less still fits: it wraps at its      *)
(* width.                                                                  *)
LEMMA BumpedFit ==
    ASSUME NEW old, FitRecord(old), NEW adj \in Int
    PROVE  FitRecord([old EXCEPT !.val = Short(@ + adj)])
<1> DEFINE n == Short(old.val + adj)
<1>1. old.val \in Int BY WordIs DEF FitRecord
<1>2. n \in Words
  <2>1. old.val + adj \in Int BY <1>1
  <2> QED BY <2>1, ShortIn
<1> HIDE DEF n
<1>3. FitRecord([old EXCEPT !.val = n]) BY <1>2 DEF FitRecord, IsRecord, Fields
<1> QED BY <1>3 DEF n

(* v_adjvalence keeps the fields in their ranges, whatever record and      *)
(* thread it finds.                                                        *)
LEMMA AdjFit ==
    ASSUME NEW w, Fit(w), NEW par, NEW isdir \in BOOLEAN, NEW adj \in Int
    PROVE  Fit(v_adjvalence(w, par, isdir, adj))
<1> DEFINE c   == Counted(w, par, isdir, adj)
           key == ParentKey(c, par)
           u   == [c EXCEPT !.cat[key].val = Short(@ + adj)]
<1>1. Fit(c)
  <2>1. /\ IsWork(c) /\ c.cat = w.cat /\ c.thr = w.thr
        /\ c.mdb = IF isdir THEN [w.mdb EXCEPT !.dirs = @ + adj,
                                      !.rtdirs = Short(@ + (IF par = RootDir THEN adj ELSE 0))]
                   ELSE [w.mdb EXCEPT !.files = @ + adj,
                                      !.rtfiles = Short(@ + (IF par = RootDir THEN adj ELSE 0))]
    BY DEF Counted, IsWork, Fields, Fit
  <2> HIDE DEF c
  <2>2. IsMDB(c.mdb) /\ c.mdb.next = w.mdb.next BY <2>1 DEF Fit, IsMDB, Fields
  <2> QED BY <2>1, <2>2 DEF Fit
<1> HIDE DEF c
<1>2. ASSUME HasParent(c, par) PROVE Fit(u)
  <2> DEFINE rec == [c.cat[key] EXCEPT !.val = Short(@ + adj)]
  <2>1. key \in DOMAIN c.cat BY <1>2 DEF HasParent
  <2>2. FitRecord(c.cat[key]) BY <1>1, <2>1 DEF Fit, Filled
  <2>3. FitRecord(rec)
    <3> HIDE DEF key
    <3> QED BY <2>2, BumpedFit
  <2>4. u = [c EXCEPT !.cat = [c.cat EXCEPT ![key] = rec]] OBVIOUS
  <2> HIDE DEF rec, u
  <2>5. Filled([c.cat EXCEPT ![key] = rec]) BY <1>1, <2>3 DEF Fit, Filled
  <2> QED BY <1>1, <2>4, <2>5, FitAgain
<1> HIDE DEF u
<1>3. v_adjvalence(w, par, isdir, adj) =
        IF ~ w.ok THEN w ELSE IF par = RootPar THEN c ELSE Change(c, HasParent(c, par), u)
  BY DEF v_adjvalence, c, u, key
<1>4. Fit(Change(c, HasParent(c, par), u)) BY <1>1, <1>2, ChangeFit
<1> QED BY <1>1, <1>3, <1>4

(* So does taking a number.                                                *)
LEMMA NumberFit ==
    ASSUME NEW w, Fit(w), w.mdb.next < scope.max, scope.max \in Nat
    PROVE  Fit(NewNumber(w))
<1> DEFINE v == NewNumber(w)
           m == [w.mdb EXCEPT !.next = @ + 1]
<1>1. IsWork(v) /\ v.cat = w.cat /\ v.thr = w.thr /\ v.mdb = m
  BY DEF NewNumber, IsWork, Fields, Fit
<1>2. IsMDB(m) /\ m.next = w.mdb.next + 1 BY DEF Fit, IsMDB, Fields
<1> HIDE DEF v, m
<1>3. Ready(m.next) BY <1>2 DEF Fit, Ready, FirstNum
<1> QED BY <1>1, <1>2, <1>3 DEF Fit, v

(* So do all of the changes of hfs_rename.                                 *)
LEMMA RenamedFit ==
    ASSUME NEW w, Fit(w), NEW s, FitRecord(cat[s.key]), cat[s.key].dir \in BOOLEAN,
           NEW par \in Parents, NEW name \in Names
    PROVE  Fit(Renamed(w, s, par, name))
<1> DEFINE old == cat[s.key]
           rec == [old EXCEPT !.name = name]
           new == Key(par, name)
           n   == Named(w, par, name)
           d   == Delete(n, s.key)
           a   == Insert(d, new, rec)
           b   == ThreadMoved(a, rec, par, name)
<1>1. FitRecord(rec) /\ rec.dir \in BOOLEAN
  <2>1. FitRecord(old) /\ old.dir \in BOOLEAN OBVIOUS
  <2> HIDE DEF old
  <2> QED BY <2>1 DEF FitRecord, IsRecord, Fields
<1>2. Fit(n)
  <2>1. CASE par # RootPar BY <2>1 DEF Named
  <2>2. CASE par = RootPar
    <3> DEFINE m == [w.mdb EXCEPT !.vn = name]
    <3>1. n = [w EXCEPT !.mdb = m, !.upd = TRUE] BY <2>2 DEF Named
    <3>2. IsMDB(m) /\ m.next = w.mdb.next BY DEF IsMDB, Fields, Fit
    <3> HIDE DEF m, n
    <3>3. IsWork(n) /\ n.cat = w.cat /\ n.thr = w.thr /\ n.mdb = m
      BY <3>1 DEF IsWork, Fields, Fit
    <3> QED BY <3>2, <3>3 DEF Fit
  <2> QED BY <2>1, <2>2
<1>3. new[1] \in Parents BY DEF Key
<1> HIDE DEF rec, new, n
<1>4. Fit(d) BY <1>2, EntriesFit
<1> HIDE DEF d
<1>5. Fit(a) BY <1>1, <1>3, <1>4, EntriesFit
<1> HIDE DEF a
<1>6. Fit(b)
  <2>1. FitThread(Thread(rec.dir, par, name)) BY <1>1 DEF FitThread, Thread
  <2> QED BY <1>5, <2>1, ThreadsFit DEF ThreadMoved
<1> HIDE DEF b
<1>7. Fit(v_adjvalence(v_adjvalence(b, s.par, rec.dir, -1), par, rec.dir, 1))
  <2>1. Fit(v_adjvalence(b, s.par, rec.dir, -1)) BY <1>1, <1>6, AdjFit
  <2> QED BY <1>1, <2>1, AdjFit
<1>8. Renamed(w, s, par, name) = IF s.par = par THEN b
            ELSE v_adjvalence(v_adjvalence(b, s.par, rec.dir, -1), par, rec.dir, 1)
  BY DEF Renamed, Rec, b, a, d, n, new, rec
<1> QED BY <1>6, <1>7, <1>8

(* Records and threads are in range, and so are the numbers to come.       *)
Fitting ==
    /\ Filled(cat) /\ Marked(thr) /\ Ready(mdb.next) /\ Ready(disk.next) /\ cwd \in Nums

(* A call begins in the ranges.                                            *)
LEMMA WorkFit ==
    ASSUME Inv, Fitting, NEW cut
    PROVE  LET w == Work(cut) IN Fit(w) /\ w.cat = cat /\ w.thr = thr /\ w.mdb = mdb
<1>1. IsMDB(mdb) BY InvNow DEF Quiet
<1> QED BY <1>1 DEF Work, Fit, IsWork, Fields, Fitting

(* A call that ends in the ranges leaves the volume in them.               *)
LEMMA DoneFit ==
    ASSUME Fitting, NEW w, Fit(w), Done(w), UNCHANGED <<scope, disk>>, cwd' = cwd
    PROVE  Fitting'
BY DEF Done, Fit, Fitting, Filled, Marked, Ready

(* A path leads to known places.                                           *)
LEMMA PathFits ==
    ASSUME CatalogAssumption, Bounds, Inv, Fitting, NEW r \in Resolved
    PROVE  /\ r.par \in Parents \cup {0} \/ r.found
           /\ r.par # 0 \/ r.found => r.name \in Names
           /\ r.found => /\ r.key \in DOMAIN cat /\ r.par \in Parents
                         /\ FitRecord(cat[r.key]) /\ cat[r.key].dir \in BOOLEAN
           /\ r.typed \in Names \cup {NoName}
<1>1. WayOf(Parents)
  <2>1. \A k \in DOMAIN cat : cat[k].name \in Names /\ cat[k].id \in Nums
    BY DEF Fitting, Filled, FitRecord
  <2>2. \A id \in DOMAIN thr : thr[id].par \in Parents BY DEF Fitting, Marked, FitThread
  <2> QED BY <2>1, <2>2 DEF WayOf, Parents, Fitting
<1>2. /\ r.par \in Parents \cup {0} \/ r.found
      /\ r.par # 0 \/ r.found => r.name \in Names
      /\ r.found => r.key \in DOMAIN cat /\ r.key[1] = r.par
      /\ r.typed \in Names \cup {NoName}
  BY <1>1, ResolvedAt DEF Bounds
<1>3. ASSUME NEW k \in DOMAIN cat
      PROVE  k[1] \in Parents /\ FitRecord(cat[k]) /\ cat[k].dir \in BOOLEAN
  <2>1. k[1] \in Parents /\ FitRecord(cat[k]) BY DEF Fitting, Filled
  <2> QED BY <2>1 DEF FitRecord, IsRecord
<1> QED BY <1>2, <1>3

-----------------------------------------------------------------------------
(* Each step keeps the fields in their ranges.                             *)

Ranged == CatalogAssumption /\ Bounds /\ Inv /\ Fitting

(* hfs_mkdir and hfs_create keep the fields in their ranges.               *)
LEMMA MakeFits ==
    ASSUME Ranged, NEW r \in Resolved, hfs_mkdir(r) \/ hfs_create(r)
    PROVE  Fitting'
<1>1. scope \in Scopes /\ scope.max \in Nat /\ CanCreate(r) /\ UNCHANGED <<scope, disk, cwd>>
  BY DEF Ranged, Bounds, CatalogAssumption, hfs_mkdir, hfs_create
<1>2. mdb.next < scope.max /\ r.par \in Parents /\ r.name \in Names
  BY <1>1, PathFits DEF Ranged, CanCreate
<1>3. mdb.next \in Nums
  <2>1. mdb.next \in FirstNum .. scope.max - 1 BY <1>1, <1>2 DEF Ranged, Fitting, Ready, FirstNum
  <2> QED BY <1>1, <2>1 DEF Nums
<1>4. 0 \in Words BY DEF Words
<1> DEFINE key == Key(r.par, r.name)
           Begun(cut) == NewNumber(Work(cut))
<1>5. ASSUME NEW cut PROVE Fit(Begun(cut))
  <2> DEFINE w == Work(cut)
  <2>1. Fit(w) /\ w.mdb.next = mdb.next BY WorkFit DEF Ranged
  <2> HIDE DEF w
  <2>2. Fit(NewNumber(w)) BY <1>1, <1>2, <2>1, NumberFit
  <2> QED BY <2>2 DEF w
<1>6. key[1] \in Parents BY <1>2 DEF Key
<1> HIDE DEF key, Begun
<1>7. CASE hfs_mkdir(r)
  <2> DEFINE rec == Dir(mdb.next, r.name)
             t   == Thread(TRUE, r.par, r.name)
             a(cut) == Insert(Begun(cut), key, rec)
             b(cut) == InsertThread(a(cut), mdb.next, t)
             v(cut) == v_adjvalence(b(cut), r.par, TRUE, 1)
  <2>1. FitRecord(rec) BY <1>2, <1>3, <1>4 DEF FitRecord, Dir, IsRecord, Fields
  <2>2. FitThread(t) BY <1>2 DEF FitThread, Thread
  <2>3. PICK cut \in Cuts : Done(v_mkdir(Work(cut), r.par, r.name)) BY <1>7 DEF hfs_mkdir
  <2>4. v(cut) = v_mkdir(Work(cut), r.par, r.name)
    <3>1. Work(cut).mdb.next = mdb.next BY DEF Work
    <3> QED BY <3>1 DEF v_mkdir, Begun, key
  <2>5. Done(v(cut)) BY <2>3, <2>4
  <2> HIDE DEF rec, t
  <2>6. Fit(a(cut)) BY <1>5, <1>6, <2>1, EntriesFit
  <2> HIDE DEF a
  <2>7. Fit(b(cut)) BY <1>3, <2>2, <2>6, ThreadsFit
  <2> HIDE DEF b
  <2>8. Fit(v(cut))
    <3>1. TRUE \in BOOLEAN /\ 1 \in Int OBVIOUS
    <3> QED BY <2>7, <3>1, AdjFit
  <2> HIDE DEF v
  <2> QED BY <1>1, <2>5, <2>8, DoneFit DEF Ranged
<1>8. CASE hfs_create(r)
  <2> DEFINE rec == File(mdb.next, r.name)
             a(cut) == Insert(Begun(cut), key, rec)
             v(cut) == v_adjvalence(a(cut), r.par, FALSE, 1)
  <2>1. FitRecord(rec) BY <1>2, <1>3, <1>4 DEF FitRecord, File, IsRecord, Fields
  <2>2. PICK cut \in Cuts : Done(v(cut)) BY <1>8 DEF hfs_create, Begun, key
  <2> HIDE DEF rec
  <2>3. Fit(a(cut)) BY <1>5, <1>6, <2>1, EntriesFit
  <2> HIDE DEF a
  <2>4. Fit(v(cut))
    <3>1. FALSE \in BOOLEAN /\ 1 \in Int OBVIOUS
    <3> QED BY <2>3, <3>1, AdjFit
  <2> HIDE DEF v
  <2> QED BY <1>1, <2>2, <2>4, DoneFit DEF Ranged
<1> QED BY <1>7, <1>8

(* hfs_rmdir and hfs_delete keep them.                                     *)
LEMMA RemoveFits ==
    ASSUME Ranged, NEW r \in Resolved, hfs_rmdir(r) \/ hfs_delete(r)
    PROVE  Fitting'
<1>1. UNCHANGED <<scope, disk, cwd>> BY DEF hfs_rmdir, hfs_delete
<1>2. -1 \in Int /\ TRUE \in BOOLEAN /\ FALSE \in BOOLEAN OBVIOUS
<1>3. \A cut : Fit(Work(cut)) BY WorkFit DEF Ranged
<1>4. CASE hfs_rmdir(r)
  <2> DEFINE a(cut) == DeleteThread(Delete(Work(cut), r.key), Rec(r).id)
             v(cut) == v_adjvalence(a(cut), r.par, TRUE, -1)
  <2>1. PICK cut \in Cuts : Done(v(cut)) BY <1>4 DEF hfs_rmdir
  <2>2. Fit(a(cut)) BY <1>3, EntriesFit, ThreadsFit
  <2> HIDE DEF a
  <2>3. Fit(v(cut)) BY <1>2, <2>2, AdjFit
  <2> HIDE DEF v
  <2> QED BY <1>1, <2>1, <2>3, DoneFit DEF Ranged
<1>5. CASE hfs_delete(r)
  <2> DEFINE a(cut) == Delete(Work(cut), r.key)
             b(cut) == v_adjvalence(a(cut), r.par, FALSE, -1)
             v(cut) == DeleteFileThread(b(cut), Rec(r).id)
  <2>1. PICK cut \in Cuts : Done(v(cut)) BY <1>5 DEF hfs_delete
  <2>2. Fit(a(cut)) BY <1>3, EntriesFit
  <2> HIDE DEF a
  <2>3. Fit(b(cut)) BY <1>2, <2>2, AdjFit
  <2> HIDE DEF b
  <2>4. Fit(v(cut)) BY <2>3, ThreadsFit
  <2> HIDE DEF v
  <2> QED BY <1>1, <2>1, <2>4, DoneFit DEF Ranged
<1> QED BY <1>4, <1>5

(* hfs_rename keeps them.                                                  *)
LEMMA RenameFits ==
    ASSUME Ranged, NEW s \in Resolved, NEW d \in Resolved, hfs_rename(s, d)
    PROVE  Fitting'
<1> DEFINE t    == Target(s, d)
           name == Chosen(t, d)
<1>1. s.found /\ MayRename(s, t, name) /\ UNCHANGED <<scope, disk, cwd>> BY DEF hfs_rename
<1>2. PICK cut \in Cuts : Done(Renamed(Work(cut), s, t.par, name)) BY DEF hfs_rename
<1>3. /\ s.name \in Names /\ FitRecord(cat[s.key]) /\ cat[s.key].dir \in BOOLEAN
  BY <1>1, PathFits DEF Ranged
<1>4. /\ d.par \in Parents \cup {0} \/ d.found
      /\ d.par # 0 \/ d.found => d.name \in Names
      /\ d.found => d.par \in Parents /\ FitRecord(cat[d.key])
      /\ d.typed \in Names \cup {NoName}
  BY PathFits DEF Ranged
<1>5. t.par # 0 BY <1>1 DEF MayRename
<1>6. t.par \in Parents /\ t.name \in Names
  <2>1. CASE Into(s, d)
    <3>1. t.par = cat[d.key].id /\ t.name = s.name BY <2>1 DEF Target, Rec
    <3>2. cat[d.key].id \in Nums BY <1>4, <2>1 DEF Into, FitRecord
    <3> QED BY <1>3, <3>1, <3>2 DEF Parents
  <2>2. CASE ~ Into(s, d)
    <3>1. t.par = d.par /\ t.name = d.name BY <2>2 DEF Target
    <3> QED BY <1>4, <1>5, <3>1
  <2> QED BY <2>1, <2>2
<1> HIDE DEF t
<1>7. name \in Names BY <1>4, <1>6 DEF Chosen
<1> HIDE DEF name
<1>8. Fit(Work(cut)) BY WorkFit DEF Ranged
<1>9. Fit(Renamed(Work(cut), s, t.par, name)) BY <1>3, <1>6, <1>7, <1>8, RenamedFit
<1> QED BY <1>1, <1>2, <1>9, DoneFit DEF Ranged

(* What a handle puts in the place of its record.                          *)
LEMMA PutFits ==
    ASSUME Ranged, NEW f \in DOMAIN files, NEW key, key = HandleKey(files[f])
    PROVE  FitRecord(PutAt(files[f], cat[key]))
<1> DEFINE h   == files[f]
           old == cat[key]
<1>1. key \in DOMAIN cat /\ old.id = h.id BY InvNow DEF Ranged, Quiet, AllFind, Finds
<1>2. FitRecord(old) BY <1>1 DEF Ranged, Fitting, Filled
<1>3. 0 \in Words BY DEF Words
<1> HIDE DEF h, old
<1>4. FitRecord(PutAt(h, old)) BY <1>1, <1>2, <1>3 DEF PutAt, FitRecord, IsRecord, Fields
<1> QED BY <1>4 DEF h, old

(* hfs_close keeps them.                                                   *)
LEMMA CloseFits ==
    ASSUME Ranged, NEW f \in DOMAIN files, hfs_close(f)
    PROVE  Fitting'
<1> DEFINE h   == files[f]
           key == HandleKey(h)
           rec == PutAt(h, cat[key])
<1>1. UNCHANGED <<scope, disk, cwd>> BY DEF hfs_close
<1>2. PICK cut \in Cuts : Done(f_flush(Work(cut), h)) BY DEF hfs_close
<1> DEFINE w == Work(cut)
           u == [w EXCEPT !.cat[key] = PutAt(h, @)]
           v == f_flush(w, h)
<1>3. Fit(w) /\ w.cat = cat BY WorkFit DEF Ranged
<1>4. FitRecord(rec) BY PutFits
<1>5. v = IF h.upd THEN Change(w, key \in DOMAIN w.cat, u) ELSE w BY DEF f_flush
<1>6. Done(v) BY <1>2
<1>7. u = [w EXCEPT !.cat = [w.cat EXCEPT ![key] = PutAt(h, w.cat[key])]] OBVIOUS
<1> HIDE DEF u, v, w, h, key
<1>8. PutAt(h, w.cat[key]) = rec BY <1>3
<1> HIDE DEF rec
<1>9. Filled([w.cat EXCEPT ![key] = rec]) BY <1>3, <1>4 DEF Fit, Filled
<1>10. Fit(u) BY <1>3, <1>7, <1>8, <1>9, FitAgain
<1>11. Fit(v) BY <1>3, <1>5, <1>10, ChangeFit
<1> QED BY <1>1, <1>6, <1>11, DoneFit DEF Ranged

(* A flush of several files changes records of theirs.                     *)
LEMMA AllPutIs ==
    ASSUME FilesAreList, NEW F \in SUBSET DOMAIN files, NEW key \in DOMAIN cat
    PROVE  \/ AllPut(F)[key] = cat[key]
           \/ \E f \in F : /\ HandleKey(files[f]) = key
                           /\ AllPut(F)[key] = PutAt(files[f], cat[key])
<1> DEFINE Mine == {f \in F : files[f].upd /\ HandleKey(files[f]) = key}
           f == Max(Mine)
<1>1. Len(files) \in Nat /\ DOMAIN files = 1 .. Len(files)
  BY LenProperties DEF FilesAreList
<1>2. AllPut(F)[key] = IF Mine = {} THEN cat[key] ELSE PutAt(files[f], cat[key])
  BY DEF AllPut
<1>3. Mine \in SUBSET (0 .. Len(files)) BY <1>1
<1>4. \A g \in Mine : g \in F /\ HandleKey(files[g]) = key OBVIOUS
<1>5. CASE Mine # {}
  <2>1. f \in Mine
    <3> HIDE DEF Mine
    <3> QED BY <1>1, <1>3, <1>5, MaxOf
  <2> HIDE DEF f, Mine
  <2> QED BY <1>2, <1>4, <1>5, <2>1
<1> QED BY <1>2, <1>5

(* hfs_flush and mounting again keep them.                                 *)
LEMMA FlushFits ==
    ASSUME Ranged, hfs_flush \/ Remount
    PROVE  Fitting'
<1>1. PICK F \in SUBSET DOMAIN files : cat' = AllPut(F)
  <2>1. CASE hfs_flush
    <3> DEFINE F == {f \in DOMAIN files : \A g \in 1 .. f : CanFlush(g)}
    <3>1. cat' = AllPut(F) /\ F \in SUBSET DOMAIN files BY <2>1 DEF hfs_flush
    <3> QED BY <3>1
  <2>2. CASE Remount
    <3>1. cat' = AllPut(DOMAIN files) BY <2>2 DEF Remount
    <3> QED BY <3>1
  <2> QED BY <2>1, <2>2
<1>2. FilesAreList BY DEF Ranged, Inv
<1>3. DOMAIN cat' = DOMAIN cat BY <1>1 DEF AllPut
<1>4. ASSUME NEW k \in DOMAIN cat PROVE FitRecord(cat'[k])
  <2>1. FitRecord(cat[k]) BY DEF Ranged, Fitting, Filled
  <2>2. cat'[k] = cat[k] \/ \E f \in F : HandleKey(files[f]) = k
                                         /\ cat'[k] = PutAt(files[f], cat[k])
    BY <1>1, <1>2, AllPutIs
  <2> QED BY <2>1, <2>2, PutFits
<1>5. Filled(cat') BY <1>3, <1>4 DEF Filled, Ranged, Fitting
<1>6. /\ thr' = thr /\ scope' = scope /\ mdb' \in {mdb, disk} /\ disk' \in {mdb, disk}
      /\ cwd' \in {cwd, RootDir}
  BY DEF hfs_flush, Remount, Flushed
<1>7. RootDir \in Nums BY DEF Nums
<1> QED BY <1>5, <1>6, <1>7 DEF Fitting, Ranged, Marked, Ready

(* The calls that change no record keep them.                              *)
LEMMA OtherFits ==
    ASSUME Ranged,
           \/ \E r \in Resolved : hfs_open(r) \/ hfs_chdir(r)
           \/ \E id \in DOMAIN thr : hfs_setcwd(id)
           \/ \E f \in DOMAIN files : hfs_fsetattr(f)
           \/ UNCHANGED vars
    PROVE  Fitting'
<1>1. UNCHANGED <<scope, cat, thr, mdb, disk>>
  BY DEF hfs_open, hfs_chdir, hfs_setcwd, hfs_fsetattr, vars
<1>2. cwd' \in Nums
  <2>1. ASSUME NEW r \in Resolved, hfs_chdir(r) PROVE cwd' \in Nums
    <3>1. r.found /\ cwd' = cat[r.key].id BY <2>1 DEF hfs_chdir, Rec
    <3>2. FitRecord(cat[r.key]) BY <3>1, PathFits DEF Ranged
    <3> QED BY <3>1, <3>2 DEF FitRecord
  <2>2. ASSUME NEW id \in DOMAIN thr, hfs_setcwd(id) PROVE cwd' \in Nums
    BY <2>2 DEF hfs_setcwd, Ranged, Fitting, Marked
  <2>3. CASE cwd' = cwd BY <2>3 DEF Ranged, Fitting
  <2> QED BY <2>1, <2>2, <2>3 DEF hfs_open, hfs_fsetattr, vars
<1> QED BY <1>1, <1>2 DEF Fitting, Ranged, Filled, Marked, Ready

(* A crash keeps them.                                                     *)
LEMMA CrashFits ==
    ASSUME Ranged, Crash
    PROVE  Fitting'
<1>1. /\ cat' = cat /\ thr' = thr /\ disk' = disk /\ scope' = scope /\ cwd' = RootDir
      /\ mdb' = [disk EXCEPT !.next = IF @ <= LastNum THEN LastNum + 1 ELSE @]
  BY DEF Crash
<1>2. Quiet /\ scope.max \in Nat BY InvNow DEF Ranged, Bounds, CatalogAssumption
<1>3. /\ LastNum \in Nat /\ LastNum >= FirstNum - 1
      /\ LastNum = FirstNum - 1 \/ \E k \in DOMAIN cat : cat[k].id = LastNum
  BY <1>2, LastNumIs
<1>4. Ready(mdb.next) /\ Ready(disk.next) BY DEF Ranged, Fitting
<1>5. LastNum < scope.max BY <1>2, <1>3, <1>4 DEF Quiet, Numbered, Ready, FirstNum
<1>6. IsMDB(disk) BY <1>2 DEF Quiet, OnMedium
<1> HIDE DEF LastNum
<1>7. mdb'.next = IF disk.next <= LastNum THEN LastNum + 1 ELSE disk.next
  BY <1>1, <1>6 DEF IsMDB, Fields
<1>8. mdb'.next \in FirstNum .. scope.max BY <1>2, <1>3, <1>4, <1>5, <1>7 DEF Ready, FirstNum
<1>9. RootDir \in Nums BY DEF Nums
<1> QED BY <1>1, <1>8, <1>9 DEF Fitting, Ranged, Filled, Marked, Ready

(* Every step keeps them.                                                  *)
LEMMA StepFits == Ranged /\ [Next]_vars => Fitting'
<1> SUFFICES ASSUME Ranged, [Next]_vars PROVE Fitting' OBVIOUS
<1>1. ASSUME NEW r \in Resolved, hfs_mkdir(r) \/ hfs_create(r) PROVE Fitting'
  BY <1>1, MakeFits
<1>2. ASSUME NEW r \in Resolved, hfs_rmdir(r) \/ hfs_delete(r) PROVE Fitting'
  BY <1>2, RemoveFits
<1>3. ASSUME NEW s \in Resolved, NEW d \in Resolved, hfs_rename(s, d) PROVE Fitting'
  BY <1>3, RenameFits
<1>4. ASSUME NEW f \in DOMAIN files, hfs_close(f) PROVE Fitting'
  BY <1>4, CloseFits
<1>5. CASE hfs_flush \/ Remount BY <1>5, FlushFits
<1>6. CASE Crash BY <1>6, CrashFits
<1> QED BY <1>1, <1>2, <1>3, <1>4, <1>5, <1>6, OtherFits DEF Next

-----------------------------------------------------------------------------
(* The totals of the MDB after each of the calls.                          *)

(* A number that goes up by adj, or stays.                                 *)
By(adj, yes, n, new) == n \in Int /\ adj \in Int /\ new = n + (IF yes THEN adj ELSE 0)

(* A count that fits a valence is written as it is.                        *)
LEMMA ShortStays == ASSUME NEW n \in Words PROVE Short(n) = n
<1>1. n \in Nat /\ n < 65536 BY DEF Words
<1> QED BY <1>1, ShortFits

(* A number below 65536 is a word.                                         *)
LEMMA WordFits == ASSUME NEW n \in Nat, n < 65536 PROVE n \in Words
<1>1. Short(n) = n BY ShortFits
<1> QED BY <1>1, ShortIn

(* What v_adjvalence makes of the four counts of the MDB, when none of     *)
(* those of the root directory leaves its 16 bits.                         *)
LEMMA CountsFollow ==
    ASSUME NEW m, NEW i, NEW j, NEW k, NEW l, Shows(m, i, j, k, l),
           NEW par, NEW dir \in BOOLEAN, NEW adj,
           NEW a, By(adj, dir = TRUE, i, a), NEW b, By(adj, dir = FALSE, j, b),
           NEW x \in Words, By(InRoot(par, adj), dir = TRUE, k, x),
           NEW y \in Words, By(InRoot(par, adj), dir = FALSE, l, y)
    PROVE  Shows(CountedMDB(m, par, dir, adj), a, b, x, y)
<1>1. Short(x) = x /\ Short(y) = y BY ShortStays
<1>2. CASE dir = TRUE
  <2>1. a = i + adj /\ b = j /\ x = k + InRoot(par, adj) /\ y = l
    <3>1. dir = TRUE /\ ~ (dir = FALSE) BY <1>2
    <3>2. a = i + adj BY <3>1 DEF By
    <3>3. b = j BY <3>1 DEF By
    <3>4. x = k + InRoot(par, adj) BY <3>1 DEF By
    <3>5. y = l BY <3>1 DEF By
    <3> QED BY <3>2, <3>3, <3>4, <3>5
  <2>2. Shows(CountedMDB(m, par, TRUE, adj), i + adj, j, Short(k + InRoot(par, adj)), l)
    BY CountedDir
  <2> QED BY <1>1, <1>2, <2>1, <2>2
<1>3. CASE dir = FALSE
  <2>1. a = i /\ b = j + adj /\ x = k /\ y = l + InRoot(par, adj)
    <3>1. dir = FALSE /\ ~ (dir = TRUE) BY <1>3
    <3>2. a = i BY <3>1 DEF By
    <3>3. b = j + adj BY <3>1 DEF By
    <3>4. x = k BY <3>1 DEF By
    <3>5. y = l + InRoot(par, adj) BY <3>1 DEF By
    <3> QED BY <3>2, <3>3, <3>4, <3>5
  <2>2. Shows(CountedMDB(m, par, FALSE, adj), i, j + adj, k, Short(l + InRoot(par, adj)))
    BY CountedFile
  <2> QED BY <1>1, <1>3, <2>1, <2>2
<1> QED BY <1>2, <1>3

(* One number less on either side.                                         *)
LEMMA ByLess ==
    ASSUME NEW adj, NEW yes, NEW n, NEW new, By(adj, yes, n, new)
    PROVE  By(adj, yes, n - 1, new - 1)
BY DEF By

(* The totals of a catalog that no I/O error has touched.                  *)
LEMMA CalmTotals ==
    ASSUME Calm, Totalled(cat, mdb), NEW b
    PROVE  /\ Shows(mdb, All(cat, TRUE) - 1, All(cat, FALSE), RootCount(cat, TRUE),
                    RootCount(cat, FALSE))
           /\ All(cat, b) \in Nat /\ RootCount(cat, b) \in Nat
<1>1. /\ IsMDB(mdb) /\ Numbered(cat, mdb.next) /\ Linked(cat) /\ mdb.next >= FirstNum
      /\ mdb.next \in Nat
  BY CalmFacts DEF Whole
<1>2. All(cat, b) \in Nat /\ RootCount(cat, b) \in Nat BY <1>1, TotalsAre
<1> QED BY <1>1, <1>2, TotalsShown

(* The totals after a step.                                                *)
LEMMA TotalsNext ==
    ASSUME Calm, scope' = scope, Intact', NEW b
    PROVE  All(cat', b) \in Nat /\ RootCount(cat', b) \in Words
<1>1. /\ Numbered(cat', mdb'.next) /\ Linked(cat') /\ mdb'.next >= FirstNum
      /\ mdb'.next <= scope.max
  BY DEF Intact, Whole
<1>2. mdb'.next \in Nat BY <1>1 DEF Numbered
<1>3. scope.max \in Nat /\ scope.max - FirstNum < 65536
  BY CalmFacts, ValencesFit DEF Calm, CatalogAssumption
<1> DEFINE d == cat'
<1>4. Numbered(d, mdb'.next) /\ Linked(d) BY <1>1
<1> HIDE DEF d
<1>5. All(d, b) \in Nat /\ RootCount(d, b) \in Nat /\ RootCount(d, b) <= mdb'.next - FirstNum
  BY <1>1, <1>4, TotalsAre
<1>6. RootCount(d, b) < 65536 BY <1>1, <1>2, <1>3, <1>5 DEF FirstNum
<1>7. RootCount(d, b) \in Words BY <1>5, <1>6, WordFits
<1> QED BY <1>5, <1>7 DEF d

(* The totals are right after an entry more.                               *)
LEMMA GrownSums ==
    ASSUME Calm, scope' = scope, Intact', NEW key, NEW rec, Grown(key, rec), Totalled(cat, mdb)
    PROVE  Totalled(cat', mdb')
<1> DEFINE c == cat
           d == cat'
           n == NewNumbered(mdb)
<1>1. IsMDB(mdb) /\ Numbered(c, mdb.next) /\ Linked(c) /\ mdb.next >= FirstNum
  BY CalmFacts DEF Whole
<1>2. rec.dir \in BOOLEAN BY DEF Grown, Placed, IsRecord
<1>3. mdb' = CountedMDB(n, key[1], rec.dir, 1) BY DEF Grown
<1>4. PICK pk : Added(c, d, key, rec, pk) BY DEF Grown
<1>5. Shows(n, All(c, TRUE) - 1, All(c, FALSE), RootCount(c, TRUE), RootCount(c, FALSE))
  BY CalmTotals DEF Shows, NewNumbered, IsMDB, Fields
<1>6. ASSUME NEW b
      PROVE  All(c, b) \in Int /\ RootCount(c, b) \in Int /\ RootCount(d, b) \in Words
  <2>1. All(cat, b) \in Nat /\ RootCount(cat, b) \in Nat BY CalmTotals
  <2>2. RootCount(cat', b) \in Words BY TotalsNext
  <2> QED BY <2>1, <2>2
<1>7. 1 \in Int /\ InRoot(key[1], 1) \in Int BY DEF InRoot
<1> HIDE DEF c, d, n
<1>8. ASSUME NEW b
      PROVE  /\ By(1, rec.dir = b, All(c, b), All(d, b))
             /\ By(InRoot(key[1], 1), rec.dir = b, RootCount(c, b), RootCount(d, b))
  <2>1. /\ All(d, b) = All(c, b) + (IF rec.dir = b THEN 1 ELSE 0)
        /\ RootCount(d, b) = RootCount(c, b) + (IF rec.dir = b /\ key[1] = RootDir THEN 1 ELSE 0)
    BY <1>1, <1>4, AddedTotals
  <2> QED BY <1>6, <1>7, <2>1 DEF InRoot, By
<1>9. Shows(mdb', All(d, TRUE) - 1, All(d, FALSE), RootCount(d, TRUE), RootCount(d, FALSE))
  <2>1. By(1, rec.dir = TRUE, All(c, TRUE) - 1, All(d, TRUE) - 1) BY <1>8, ByLess
  <2>2. /\ By(1, rec.dir = FALSE, All(c, FALSE), All(d, FALSE))
        /\ By(InRoot(key[1], 1), rec.dir = TRUE, RootCount(c, TRUE), RootCount(d, TRUE))
        /\ By(InRoot(key[1], 1), rec.dir = FALSE, RootCount(c, FALSE), RootCount(d, FALSE))
    BY <1>8
  <2>3. RootCount(d, TRUE) \in Words /\ RootCount(d, FALSE) \in Words BY <1>6
  <2> QED BY <1>2, <1>3, <1>5, <2>1, <2>2, <2>3, CountsFollow
<1>10. IsMDB(mdb') BY <1>9 DEF Shows
<1> QED BY <1>9, <1>10, TotalsShown DEF d

(* The totals are right after an entry less.                               *)
LEMMA LostSums ==
    ASSUME Calm, scope' = scope, Intact', NEW key, Lost(key), Totalled(cat, mdb)
    PROVE  Totalled(cat', mdb')
<1> DEFINE c == cat
           d == cat'
           dir == cat[key].dir
<1>1. Numbered(c, mdb.next) /\ Linked(c) /\ mdb.next >= FirstNum
  BY CalmFacts DEF Whole
<1>2. PICK pk : Removed(c, d, key, pk) BY DEF Lost
<1>3. dir \in BOOLEAN BY <1>1, <1>2 DEF Removed, Numbered, Placed, IsRecord
<1>4. mdb' = CountedMDB(mdb, key[1], dir, -1) BY DEF Lost
<1>5. Shows(mdb, All(c, TRUE) - 1, All(c, FALSE), RootCount(c, TRUE), RootCount(c, FALSE))
  BY CalmTotals
<1>6. ASSUME NEW b
      PROVE  All(c, b) \in Int /\ RootCount(c, b) \in Int /\ RootCount(d, b) \in Words
  <2>1. All(cat, b) \in Nat /\ RootCount(cat, b) \in Nat BY CalmTotals
  <2>2. RootCount(cat', b) \in Words BY TotalsNext
  <2> QED BY <2>1, <2>2
<1>7. -1 \in Int /\ InRoot(key[1], -1) \in Int BY DEF InRoot
<1>8. c[key].dir = dir OBVIOUS
<1> HIDE DEF c, d, dir
<1>9. ASSUME NEW b
      PROVE  /\ By(-1, dir = b, All(c, b), All(d, b))
             /\ By(InRoot(key[1], -1), dir = b, RootCount(c, b), RootCount(d, b))
  <2>1. /\ All(d, b) = All(c, b) - (IF dir = b THEN 1 ELSE 0)
        /\ RootCount(d, b) = RootCount(c, b) - (IF dir = b /\ key[1] = RootDir THEN 1 ELSE 0)
    BY <1>1, <1>2, <1>8, RemovedTotals
  <2> QED BY <1>6, <1>7, <2>1 DEF InRoot, By
<1>10. Shows(mdb', All(d, TRUE) - 1, All(d, FALSE), RootCount(d, TRUE), RootCount(d, FALSE))
  <2>1. By(-1, dir = TRUE, All(c, TRUE) - 1, All(d, TRUE) - 1) BY <1>9, ByLess
  <2>2. /\ By(-1, dir = FALSE, All(c, FALSE), All(d, FALSE))
        /\ By(InRoot(key[1], -1), dir = TRUE, RootCount(c, TRUE), RootCount(d, TRUE))
        /\ By(InRoot(key[1], -1), dir = FALSE, RootCount(c, FALSE), RootCount(d, FALSE))
    BY <1>9
  <2>3. RootCount(d, TRUE) \in Words /\ RootCount(d, FALSE) \in Words BY <1>6
  <2> QED BY <1>3, <1>4, <1>5, <2>1, <2>2, <2>3, CountsFollow
<1>11. IsMDB(mdb') BY <1>10 DEF Shows
<1> QED BY <1>10, <1>11, TotalsShown DEF d

(* The directory that an entry leaves counts one less before the other     *)
(* counts one more.                                                        *)
LEMMA WentSums ==
    ASSUME Calm, scope' = scope, Intact', NEW key, NEW new, NEW name, Went(key, new, name),
           Totalled(cat, mdb)
    PROVE  Totalled(cat', mdb')
<1> DEFINE c == cat
           d == cat'
           dir == cat[key].dir
           n == CountedMDB(mdb, key[1], dir, -1)
           left(b) == RootCount(c, b) - (IF dir = b /\ key[1] = RootDir THEN 1 ELSE 0)
           rest(b) == All(c, b) - (IF dir = b THEN 1 ELSE 0)
<1>1. /\ IsMDB(mdb) /\ Numbered(c, mdb.next) /\ Linked(c) /\ mdb.next >= FirstNum
      /\ mdb.next \in Nat
  BY CalmFacts DEF Whole
<1>2. Moved(c, d, key, new, name) BY DEF Went
<1>3. dir \in BOOLEAN BY <1>1, <1>2 DEF Moved, Numbered, Placed, IsRecord
<1>4. Shows(mdb, All(c, TRUE) - 1, All(c, FALSE), RootCount(c, TRUE), RootCount(c, FALSE))
  BY CalmTotals
<1>5. ASSUME NEW b
      PROVE  /\ All(c, b) \in Int /\ RootCount(c, b) \in Nat /\ RootCount(c, b) < 65536
             /\ RootCount(d, b) \in Words
  <2>1. All(cat, b) \in Nat /\ RootCount(cat, b) \in Nat BY CalmTotals
  <2>2. RootCount(cat', b) \in Words BY TotalsNext
  <2>3. RootCount(c, b) <= mdb.next - FirstNum
    <3> HIDE DEF c
    <3> QED BY <1>1, TotalsAre
  <2>4. mdb.next - FirstNum < 65536 BY Room
  <2>5. RootCount(c, b) < 65536 BY <1>1, <2>1, <2>3, <2>4 DEF FirstNum
  <2> QED BY <2>1, <2>2, <2>5
<1>6. InRoot(key[1], -1) \in Int /\ InRoot(new[1], 1) \in Int BY DEF InRoot
<1>7. c[key].dir = dir OBVIOUS
<1>8. ASSUME NEW b
      PROVE  /\ All(d, b) = All(c, b)
             /\ RootCount(d, b) = left(b) + (IF dir = b /\ new[1] = RootDir THEN 1 ELSE 0)
             /\ left(b) \in Nat
  <2> HIDE DEF c, d, dir
  <2>1. /\ All(d, b) = All(c, b)
        /\ RootCount(d, b) = RootCount(c, b)
                 - (IF c[key].dir = b /\ key[1] = RootDir THEN 1 ELSE 0)
                 + (IF c[key].dir = b /\ new[1] = RootDir THEN 1 ELSE 0)
        /\ RootCount(c, b) - (IF c[key].dir = b /\ key[1] = RootDir THEN 1 ELSE 0) \in Nat
    BY <1>1, <1>2, MovedTotals
  <2> QED BY <1>7, <2>1
<1>9. CASE key[1] = new[1]
  <2>1. ASSUME NEW b PROVE All(d, b) = All(c, b) /\ RootCount(d, b) = RootCount(c, b)
    <3> HIDE DEF c, d, dir
    <3>1. RootCount(c, b) \in Nat BY <1>5
    <3> QED BY <1>8, <1>9, <3>1
  <2>2. mdb' = mdb \/ mdb' = WithName(mdb, name) BY <1>9 DEF Went
  <2>3. Shows(mdb', All(c, TRUE) - 1, All(c, FALSE), RootCount(c, TRUE), RootCount(c, FALSE))
    BY <1>4, <2>2 DEF Shows, WithName, IsMDB, Fields
  <2>4. IsMDB(mdb') BY <2>3 DEF Shows
  <2> HIDE DEF c, d
  <2>5. /\ All(d, TRUE) = All(c, TRUE) /\ All(d, FALSE) = All(c, FALSE)
        /\ RootCount(d, TRUE) = RootCount(c, TRUE) /\ RootCount(d, FALSE) = RootCount(c, FALSE)
    BY <2>1
  <2>6. Shows(mdb', All(d, TRUE) - 1, All(d, FALSE), RootCount(d, TRUE), RootCount(d, FALSE))
    BY <2>3, <2>5
  <2> QED BY <2>4, <2>6, TotalsShown DEF d
<1>10. CASE key[1] # new[1]
  <2>1. mdb' = CountedMDB(n, new[1], dir, 1) BY <1>10 DEF Went
  <2> HIDE DEF c, d, dir, n
  <2>2. ASSUME NEW b
        PROVE  /\ By(-1, dir = b, All(c, b), rest(b))
               /\ By(InRoot(key[1], -1), dir = b, RootCount(c, b), left(b))
               /\ By(1, dir = b, rest(b), All(d, b))
               /\ By(InRoot(new[1], 1), dir = b, left(b), RootCount(d, b))
               /\ left(b) \in Words
    <3>1. All(c, b) \in Int /\ RootCount(c, b) \in Nat /\ RootCount(c, b) < 65536 BY <1>5
    <3>2. By(-1, dir = b, All(c, b), rest(b)) BY <3>1 DEF By
    <3>3. By(InRoot(key[1], -1), dir = b, RootCount(c, b), left(b)) BY <3>1 DEF By, InRoot
    <3>4. By(1, dir = b, rest(b), All(d, b)) BY <1>8, <3>1 DEF By
    <3>5. left(b) \in Nat /\ left(b) < 65536 BY <1>8, <3>1
    <3>6. By(InRoot(new[1], 1), dir = b, left(b), RootCount(d, b)) BY <1>8, <3>5 DEF By, InRoot
    <3> HIDE DEF left
    <3>7. left(b) \in Words BY <3>5, WordFits
    <3> QED BY <3>2, <3>3, <3>4, <3>6, <3>7
  <2> HIDE DEF left, rest
  <2>3. Shows(n, rest(TRUE) - 1, rest(FALSE), left(TRUE), left(FALSE))
    <3>1. By(-1, dir = TRUE, All(c, TRUE) - 1, rest(TRUE) - 1) BY <2>2, ByLess
    <3>2. /\ By(-1, dir = FALSE, All(c, FALSE), rest(FALSE))
          /\ By(InRoot(key[1], -1), dir = TRUE, RootCount(c, TRUE), left(TRUE))
          /\ By(InRoot(key[1], -1), dir = FALSE, RootCount(c, FALSE), left(FALSE))
          /\ left(TRUE) \in Words /\ left(FALSE) \in Words
      BY <2>2
    <3> QED BY <1>3, <1>4, <3>1, <3>2, CountsFollow DEF n
  <2>4. Shows(mdb', All(d, TRUE) - 1, All(d, FALSE), RootCount(d, TRUE), RootCount(d, FALSE))
    <3>1. By(1, dir = TRUE, rest(TRUE) - 1, All(d, TRUE) - 1) BY <2>2, ByLess
    <3>2. /\ By(1, dir = FALSE, rest(FALSE), All(d, FALSE))
          /\ By(InRoot(new[1], 1), dir = TRUE, left(TRUE), RootCount(d, TRUE))
          /\ By(InRoot(new[1], 1), dir = FALSE, left(FALSE), RootCount(d, FALSE))
      BY <2>2
    <3>3. \A b : RootCount(d, b) \in Words BY <1>5
    <3> QED BY <1>3, <2>1, <2>3, <3>1, <3>2, <3>3, CountsFollow
  <2>5. IsMDB(mdb') BY <2>4 DEF Shows
  <2> QED BY <2>4, <2>5, TotalsShown DEF d
<1> QED BY <1>9, <1>10

-----------------------------------------------------------------------------
(* The inductive invariant of the totals.                                  *)

(* The counts of the MDB while no call was cut short and nothing crashed.  *)
TotalsRight == /\ Totalled(cat, mdb) /\ mdb.vn \in Names /\ disk \in MDBs

CountInv == TreeInv /\ Fitting /\ (faults = 0 /\ crashes = 0 => TotalsRight)

(* The entries of a directory are so many that the valence counts them.    *)
LEMMA CountIs ==
    ASSUME CatalogAssumption, Bounds, Intact, NEW n \in Nat, n <= mdb.next - FirstNum
    PROVE  n \in Counts
<1>1. mdb.next \in Nat /\ FirstNum <= mdb.next /\ mdb.next <= scope.max /\ scope.max \in Nat
  BY DEF Intact, Whole, Numbered, Bounds, CatalogAssumption
<1> QED BY <1>1 DEF Counts, FirstNum

(* The MDB with the right totals has them in their ranges.                 *)
LEMMA MdbFits ==
    ASSUME CatalogAssumption, Bounds, Intact, IsMDB(mdb), Totalled(cat, mdb), mdb.vn \in Names
    PROVE  mdb \in MDBs
<1>1. Numbered(cat, mdb.next) /\ Linked(cat) /\ mdb.next >= FirstNum BY DEF Intact, Whole
<1>2. Shows(mdb, All(cat, TRUE) - 1, All(cat, FALSE), RootCount(cat, TRUE), RootCount(cat, FALSE))
  BY TotalsShown
<1>3. PICK root \in DOMAIN cat : cat[root].dir /\ cat[root].id = RootDir
  BY <1>1 DEF Linked, Homes
<1>4. cat[root].dir = TRUE BY <1>1, <1>3 DEF Numbered, Placed, IsRecord
<1>5. mdb.dirs \in Counts
  <2> DEFINE A == Sorted(cat, DOMAIN cat, TRUE)
             B == A \ {root}
  <2>1. A \in SUBSET DOMAIN cat /\ root \in A BY <1>3, <1>4 DEF Sorted
  <2>2. B \in SUBSET DOMAIN cat /\ \A k \in B : cat[k].id # RootDir
    BY <1>1, <1>3, <2>1 DEF Numbered
  <2> HIDE DEF A
  <2>3. IsFiniteSet(A) BY <1>1, <2>1, CountFits
  <2>4. Cardinality(B) = Cardinality(A) - 1 /\ Cardinality(B) \in Nat BY <2>1, <2>3, OneLess
  <2> HIDE DEF B
  <2>5. Cardinality(B) <= mdb.next - FirstNum BY <1>1, <2>2, CountFits
  <2>6. Cardinality(B) \in Counts BY <2>4, <2>5, CountIs
  <2>7. mdb.dirs = Cardinality(A) - 1 BY <1>2 DEF Shows, All, A
  <2> QED BY <2>4, <2>6, <2>7
<1>6. mdb.files \in Counts
  <2> DEFINE A == Sorted(cat, DOMAIN cat, FALSE)
  <2>1. A \in SUBSET DOMAIN cat BY DEF Sorted
  <2>2. \A k \in A : cat[k].id # RootDir
    <3>1. \A k \in A : k \in DOMAIN cat /\ ~ cat[k].dir BY DEF Sorted
    <3> QED BY <1>1, <1>3, <3>1 DEF Numbered
  <2> HIDE DEF A
  <2>3. Cardinality(A) \in Nat /\ Cardinality(A) <= mdb.next - FirstNum
    BY <1>1, <2>1, <2>2, CountFits
  <2>4. Cardinality(A) \in Counts BY <2>3, CountIs
  <2> QED BY <1>2, <2>4 DEF Shows, All, A
<1>7. mdb.rtdirs \in Counts /\ mdb.rtfiles \in Counts
  <2>1. ASSUME NEW b PROVE RootCount(cat, b) \in Counts
    <3>1. RootCount(cat, b) \in Nat /\ RootCount(cat, b) <= mdb.next - FirstNum BY <1>1, TotalsAre
    <3> HIDE DEF RootCount
    <3> QED BY <3>1, CountIs
  <2> QED BY <1>2, <2>1 DEF Shows
<1>8. mdb.next \in FirstNum .. scope.max
  <2>1. mdb.next \in Nat /\ mdb.next <= scope.max /\ scope.max \in Nat
    BY DEF Intact, Whole, Numbered, Bounds, CatalogAssumption
  <2> QED BY <1>1, <2>1 DEF FirstNum
<1> QED BY <1>5, <1>6, <1>7, <1>8 DEF MDBs, IsMDB, Fields

(* The process may die, but has not if it has not died by the next state.  *)
LEMMA CrashesStay ==
    ASSUME Bounds, [Next]_vars, crashes' = 0
    PROVE  crashes = 0
<1>1. ASSUME NEW r \in Resolved,
             \/ hfs_mkdir(r) \/ hfs_rmdir(r) \/ hfs_create(r)
             \/ hfs_open(r) \/ hfs_delete(r) \/ hfs_chdir(r)
      PROVE  crashes' = crashes
  BY <1>1 DEF hfs_mkdir, hfs_rmdir, hfs_create, hfs_open, hfs_delete, hfs_chdir
<1>2. ASSUME NEW s, NEW d, hfs_rename(s, d) PROVE crashes' = crashes BY <1>2 DEF hfs_rename
<1>3. ASSUME NEW f, hfs_close(f) \/ hfs_fsetattr(f) \/ hfs_setcwd(f) PROVE crashes' = crashes
  BY <1>3 DEF hfs_close, hfs_fsetattr, hfs_setcwd
<1>4. CASE hfs_flush \/ Remount \/ UNCHANGED vars BY <1>4 DEF hfs_flush, Remount, vars
<1>5. ASSUME Crash PROVE crashes' = crashes + 1 BY <1>5 DEF Crash
<1> QED BY <1>1, <1>2, <1>3, <1>4, <1>5 DEF Next, Bounds

(* The totals of the same entries are the same.                            *)
LEMMA SameTotals ==
    ASSUME NEW c, NEW d, DOMAIN d = DOMAIN c, \A k \in DOMAIN c : d[k] = c[k],
           NEW m, Totalled(c, m)
    PROVE  Totalled(d, m)
<1>1. ASSUME NEW K \in SUBSET DOMAIN c, NEW b PROVE Sorted(d, K, b) = Sorted(c, K, b)
  BY <1>1 DEF Sorted
<1>2. In(DOMAIN c, RootDir) \in SUBSET DOMAIN c /\ DOMAIN c \in SUBSET DOMAIN c BY DEF In
<1> QED BY <1>1, <1>2 DEF Totalled

(* Every step keeps the invariant of the totals.                           *)
LEMMA CountStep == CountInv /\ [Next]_vars => CountInv'
<1> SUFFICES ASSUME CountInv, [Next]_vars PROVE CountInv' OBVIOUS
<1>1. TreeInv' BY TreeStep DEF CountInv
<1>2. Fitting' BY CatalogAssumption, StepFits DEF CountInv, TreeInv, Ranged
<1>3. ASSUME faults' = 0, crashes' = 0 PROVE TotalsRight'
  <2>1. faults = 0 /\ crashes = 0
    BY <1>3, BoundsKept, CrashesStay DEF CountInv, TreeInv
  <2>2. Calm BY <2>1, CalmNow DEF CountInv
  <2>3. Totalled(cat, mdb) /\ mdb.vn \in Names /\ disk \in MDBs
    BY <2>1 DEF CountInv, TotalsRight
  <2>4. IsMDB(mdb) /\ Intact BY <2>2, CalmFacts DEF Calm
  <2>5. mdb \in MDBs BY <2>2, <2>3, <2>4, MdbFits DEF Calm
  <2>6. Intact' BY <1>1, <1>3 DEF TreeInv
  <2>7. Outcome BY <1>3, <2>2, StepDoes
  <2>8. scope' = scope BY <2>7 DEF Outcome, Elsewhere
  <2>9. MDBs' = MDBs BY <2>8 DEF MDBs, Counts
  <2>10. ASSUME Elsewhere, NEW key, NEW rec, Grown(key, rec) PROVE TotalsRight'
    <3>1. Totalled(cat', mdb') BY <2>2, <2>3, <2>6, <2>8, <2>10, GrownSums
    <3>2. mdb'.vn = mdb.vn
      <4>1. mdb' = CountedMDB(NewNumbered(mdb), key[1], rec.dir, 1) BY <2>10 DEF Grown
      <4> QED BY <2>4, <4>1, NumberedNext, CountedNext
    <3> QED BY <2>3, <2>9, <2>10, <3>1, <3>2 DEF TotalsRight, Elsewhere
  <2>11. ASSUME Elsewhere, NEW key, Lost(key) PROVE TotalsRight'
    <3>1. Totalled(cat', mdb') BY <2>2, <2>3, <2>6, <2>8, <2>11, LostSums
    <3>2. mdb'.vn = mdb.vn
      <4>1. mdb' = CountedMDB(mdb, key[1], cat[key].dir, -1) BY <2>11 DEF Lost
      <4> QED BY <2>4, <4>1, CountedNext
    <3> QED BY <2>3, <2>9, <2>11, <3>1, <3>2 DEF TotalsRight, Elsewhere
  <2>12. ASSUME Elsewhere, NEW key, NEW new, NEW name, Went(key, new, name) PROVE TotalsRight'
    <3>1. Totalled(cat', mdb') BY <2>2, <2>3, <2>6, <2>8, <2>12, WentSums
    <3>2. mdb'.vn \in {mdb.vn, name} /\ name \in Names
      <4>1. name \in Names BY <2>12 DEF Went
      <4>2. CASE mdb' = WithName(mdb, name) BY <2>4, <4>1, <4>2, NamedNext
      <4>3. CASE mdb' = mdb BY <4>1, <4>3
      <4>4. CASE mdb' = CountedMDB(CountedMDB(mdb, key[1], cat[key].dir, -1), new[1],
                                   cat[key].dir, 1)
        <5> DEFINE n == CountedMDB(mdb, key[1], cat[key].dir, -1)
        <5>1. IsMDB(n) /\ n.vn = mdb.vn BY <2>4, CountedNext
        <5> HIDE DEF n
        <5>2. mdb'.vn = n.vn BY <4>4, <5>1, CountedNext DEF n
        <5> QED BY <4>1, <5>1, <5>2
      <4> QED BY <2>12, <4>2, <4>3, <4>4 DEF Went
    <3> QED BY <2>3, <2>9, <2>12, <3>1, <3>2 DEF TotalsRight, Elsewhere
  <2>13. ASSUME Elsewhere, Unchanged PROVE TotalsRight'
    <3>1. cat' = cat /\ mdb' = NewNumbered(mdb) BY <2>13 DEF Unchanged
    <3>2. /\ mdb'.dirs = mdb.dirs /\ mdb'.files = mdb.files /\ mdb'.rtdirs = mdb.rtdirs
          /\ mdb'.rtfiles = mdb.rtfiles /\ mdb'.vn = mdb.vn
      BY <2>4, <3>1 DEF NewNumbered, IsMDB, Fields
    <3>3. Totalled(cat', mdb') BY <2>3, <3>1, <3>2 DEF Totalled
    <3> QED BY <2>3, <2>9, <2>13, <3>2, <3>3 DEF TotalsRight, Elsewhere
  <2>14. ASSUME Rests PROVE TotalsRight'
    <3>1. mdb' = mdb /\ disk' \in {disk, mdb} BY <1>3, <2>14 DEF Rests
    <3>2. DOMAIN cat' = DOMAIN cat /\ \A k \in DOMAIN cat : cat'[k] = cat[k]
      BY <2>14 DEF Rests, Kept
    <3> DEFINE d == cat'
    <3>3. DOMAIN d = DOMAIN cat /\ \A k \in DOMAIN cat : d[k] = cat[k] BY <3>2
    <3> HIDE DEF d
    <3>4. Totalled(d, mdb) BY <2>3, <3>3, SameTotals
    <3>5. Totalled(cat', mdb') BY <3>1, <3>4 DEF d
    <3> QED BY <2>3, <2>5, <2>9, <3>1, <3>5 DEF TotalsRight
  <2> QED BY <2>7, <2>10, <2>11, <2>12, <2>13, <2>14 DEF Outcome
<1> QED BY <1>1, <1>2, <1>3 DEF CountInv

-----------------------------------------------------------------------------
(* The totals of a volume that hformat has just made, and the theorem.     *)

(* One entry is none below the root.                                       *)
LEMMA OneIsAll == ASSUME NEW n, n = 1 PROVE n - 1 = 0
OBVIOUS

(* The totals of a volume that has a root directory alone.                 *)
LEMMA CountsOfOne ==
    ASSUME NEW c, NEW x, DOMAIN c = {x}, c[x].dir = TRUE, x[1] # RootDir,
           NEW m, m.dirs = 0, m.files = 0, m.rtdirs = 0, m.rtfiles = 0
    PROVE  Totalled(c, m)
<1>1. Sorted(c, DOMAIN c, TRUE) = {x} /\ Sorted(c, DOMAIN c, FALSE) = {} BY DEF Sorted
<1>2. \A b : Sorted(c, In(DOMAIN c, RootDir), b) = {} BY DEF Sorted, In
<1>3. Cardinality({x}) = 1 /\ Cardinality({}) = 0 BY FS_Singleton, FS_EmptySet
<1>4. Cardinality(Sorted(c, DOMAIN c, TRUE)) - 1 = 0
  <2>1. Cardinality(Sorted(c, DOMAIN c, TRUE)) = 1 BY <1>1, <1>3
  <2> QED BY <2>1, OneIsAll
<1> QED BY <1>1, <1>2, <1>3, <1>4 DEF Totalled

(* The totals of a volume that has one file in its root directory.         *)
LEMMA CountsOfTwo ==
    ASSUME NEW c, NEW x, NEW y, DOMAIN c = {x, y}, c[x].dir = TRUE, x[1] # RootDir,
           c[y].dir = FALSE, y[1] = RootDir,
           NEW m, m.dirs = 0, m.files = 1, m.rtdirs = 0, m.rtfiles = 1
    PROVE  Totalled(c, m)
<1>1. Sorted(c, DOMAIN c, TRUE) = {x} /\ Sorted(c, DOMAIN c, FALSE) = {y} BY DEF Sorted
<1>2. In(DOMAIN c, RootDir) = {y} BY DEF In
<1>3. /\ Sorted(c, In(DOMAIN c, RootDir), TRUE) = {}
      /\ Sorted(c, In(DOMAIN c, RootDir), FALSE) = {y}
  BY <1>2 DEF Sorted
<1>4. Cardinality({x}) = 1 /\ Cardinality({y}) = 1 /\ Cardinality({}) = 0
  BY FS_Singleton, FS_EmptySet
<1>5. Cardinality(Sorted(c, DOMAIN c, TRUE)) - 1 = 0
  <2>1. Cardinality(Sorted(c, DOMAIN c, TRUE)) = 1 BY <1>1, <1>4
  <2> QED BY <2>1, OneIsAll
<1> QED BY <1>1, <1>3, <1>4, <1>5 DEF Totalled

(* Zero and one are words.                                                 *)
LEMMA SmallWords == 0 \in Words /\ 1 \in Words
BY DEF Words

(* A volume that hformat has just made satisfies the invariant of the      *)
(* totals.                                                                 *)
LEMMA InitCount == Init => CountInv
<1> SUFFICES ASSUME Init PROVE CountInv OBVIOUS
<1>1. TreeInv BY InitTree
<1>2. Quiet BY <1>1, InvNow DEF TreeInv
<1>3. scope \in Scopes /\ faults = 0 /\ disk = mdb /\ cwd = RootDir BY DEF Init
<1>4. /\ VolName \in Names /\ scope.max \in Nat /\ scope.max > FirstNum
      /\ scope.foreign \subseteq Names
  BY <1>3, CatalogAssumption
<1>5. RootDir \in Nums /\ FirstNum \in Nums
  <2>1. FirstNum \in FirstNum .. scope.max - 1 BY <1>4 DEF FirstNum
  <2> QED BY <1>3, <2>1 DEF Nums
<1>6. RootPar \in Parents /\ RootDir \in Parents BY <1>5 DEF Parents
<1>7. CASE Fresh
  <2>1. cat = RootRecord /\ thr = RootThread BY <1>7 DEF Fresh
  <2>2. /\ mdb.next = FirstNum /\ mdb.vn = VolName /\ mdb.dirs = 0 /\ mdb.files = 0
        /\ mdb.rtdirs = 0 /\ mdb.rtfiles = 0
    BY <1>7 DEF Fresh
  <2>3. DOMAIN cat = {RootKey} /\ cat[RootKey] = Dir(RootDir, VolName) BY <2>1 DEF RootRecord
  <2>4. DOMAIN thr = {RootDir} /\ thr[RootDir] = Thread(TRUE, RootPar, VolName)
    BY <2>1 DEF RootThread
  <2>5. RootKey[1] = RootPar /\ RootPar # RootDir BY DEF RootKey, Key, RootPar, RootDir
  <2>6. FitRecord(Dir(RootDir, VolName))
    BY <1>4, <1>5, SmallWords DEF FitRecord, Dir, IsRecord, Fields
  <2>7. Filled(cat) BY <1>6, <2>3, <2>5, <2>6 DEF Filled
  <2>8. FitThread(Thread(TRUE, RootPar, VolName)) BY <1>4, <1>6 DEF FitThread, Thread
  <2>9. Marked(thr) BY <1>5, <2>4, <2>8 DEF Marked
  <2>10. Ready(mdb.next) BY <1>4, <2>2 DEF Ready, FirstNum
  <2>11. cat[RootKey].dir = TRUE BY <2>3 DEF Dir
  <2>12. Totalled(cat, mdb)
    <3> DEFINE c == cat
    <3>1. DOMAIN c = {RootKey} /\ c[RootKey].dir = TRUE BY <2>3, <2>11
    <3> HIDE DEF c
    <3>2. RootKey[1] # RootDir BY <2>5
    <3>3. Totalled(c, mdb) BY <2>2, <3>1, <3>2, CountsOfOne
    <3> QED BY <3>3 DEF c
  <2>13. Fitting BY <1>3, <1>5, <2>7, <2>9, <2>10 DEF Fitting
  <2>14. mdb \in MDBs
    BY <1>1, <1>2, <1>3, <1>4, <2>2, <2>12, CatalogAssumption, MdbFits DEF TreeInv, Quiet
  <2> QED BY <1>1, <1>3, <1>4, <2>2, <2>12, <2>13, <2>14 DEF CountInv, TotalsRight
<1>8. CASE Foreign
  <2>1. PICK n \in scope.foreign :
          /\ cat = With([RootRecord EXCEPT ![RootKey].val = 1], Key(RootDir, n), File(FirstNum, n))
          /\ thr = With(RootThread, FirstNum, Thread(FALSE, RootDir, n))
          /\ mdb = [vn |-> VolName, next |-> FirstNum + 1, dirs |-> 0, files |-> 1,
                    rtdirs |-> 0, rtfiles |-> 1]
    BY <1>8 DEF Foreign
  <2>2. /\ mdb.next = FirstNum + 1 /\ mdb.vn = VolName /\ mdb.dirs = 0 /\ mdb.files = 1
        /\ mdb.rtdirs = 0 /\ mdb.rtfiles = 1
    BY <2>1
  <2> DEFINE key == Key(RootDir, n)
             a == [RootRecord EXCEPT ![RootKey].val = 1]
             f == File(FirstNum, n)
             r == [Dir(RootDir, VolName) EXCEPT !.val = 1]
             s == Thread(FALSE, RootDir, n)
             t == Thread(TRUE, RootPar, VolName)
  <2>3. DOMAIN a = {RootKey} /\ a[RootKey] = r BY DEF RootRecord
  <2>4. DOMAIN RootThread = {RootDir} /\ RootThread[RootDir] = t BY DEF RootThread
  <2>5. RootKey[1] = RootPar /\ key[1] = RootDir /\ key # RootKey /\ RootPar # RootDir
    BY DEF RootKey, Key, RootDir, RootPar
  <2>6. FitRecord(f) /\ f.dir = FALSE
    BY <1>4, <1>5, SmallWords DEF FitRecord, File, IsRecord, Fields
  <2>7. FitRecord(r) /\ r.dir = TRUE
    BY <1>4, <1>5, SmallWords DEF FitRecord, Dir, IsRecord, Fields
  <2>8. FitThread(s) /\ FitThread(t) BY <1>4, <1>6 DEF FitThread, Thread
  <2> HIDE DEF key, a, f, r, s, t
  <2>9. DOMAIN cat = {RootKey, key} /\ cat[RootKey] = r /\ cat[key] = f
    <3>1. cat = With(a, key, f) BY <2>1 DEF a, key, f
    <3> QED BY <2>3, <2>5, <3>1 DEF With
  <2>10. DOMAIN thr = {RootDir, FirstNum} /\ thr[RootDir] = t /\ thr[FirstNum] = s
    <3>1. thr = With(RootThread, FirstNum, s) BY <2>1 DEF s
    <3>2. RootDir # FirstNum BY DEF RootDir, FirstNum
    <3> QED BY <2>4, <3>1, <3>2 DEF With
  <2>11. Filled(cat) BY <1>6, <2>5, <2>6, <2>7, <2>9 DEF Filled
  <2>12. Marked(thr) BY <1>5, <2>8, <2>10 DEF Marked
  <2>13. Ready(mdb.next) BY <1>4, <2>2 DEF Ready, FirstNum
  <2>14. Totalled(cat, mdb)
    <3> DEFINE c == cat
    <3>1. DOMAIN c = {RootKey, key} /\ c[RootKey].dir = TRUE /\ c[key].dir = FALSE
      BY <2>6, <2>7, <2>9
    <3> HIDE DEF c
    <3>2. RootKey[1] # RootDir BY <2>5
    <3>3. Totalled(c, mdb) BY <2>2, <2>5, <3>1, <3>2, CountsOfTwo
    <3> QED BY <3>3 DEF c
  <2>15. Fitting BY <1>3, <1>5, <2>11, <2>12, <2>13 DEF Fitting
  <2>16. mdb \in MDBs
    BY <1>1, <1>2, <1>3, <1>4, <2>2, <2>14, CatalogAssumption, MdbFits DEF TreeInv, Quiet
  <2> QED BY <1>1, <1>3, <1>4, <2>2, <2>14, <2>15, <2>16 DEF CountInv, TotalsRight
<1> QED BY <1>7, <1>8 DEF Init

(* The invariant of the totals holds at all times.                         *)
LEMMA CountAlways == Spec => []CountInv
<1> QED BY InitCount, CountStep, PTL DEF Spec

(* Everything is in range.                                                 *)
LEMMA TypesHold == CountInv => TypeOK
<1> SUFFICES ASSUME CountInv PROVE TypeOK OBVIOUS
<1>1. Quiet BY InvNow DEF CountInv, TreeInv
<1>2. ASSUME NEW key \in DOMAIN cat
      PROVE  /\ key[1] \in {RootPar} \cup Nums
             /\ cat[key] \in [id : Nums, dir : BOOLEAN, name : Names,
                             val : IF faults = 0 THEN Counts ELSE Words]
             /\ key = Key(key[1], cat[key].name)
  <2>1. key[1] \in Parents /\ FitRecord(cat[key]) BY DEF CountInv, Fitting, Filled
  <2>2. key = Key(key[1], cat[key].name) BY <1>1 DEF Quiet, Numbered, Placed
  <2>3. cat[key].val \in IF faults = 0 THEN Counts ELSE Words
    <3>1. CASE faults = 0
      <4>1. /\ Intact /\ Numbered(cat, mdb.next) /\ Linked(cat) /\ mdb.next >= FirstNum
            /\ Tallied(cat)
        BY <3>1 DEF CountInv, TreeInv, Intact, Whole
      <4>2. CatalogAssumption /\ Bounds BY CatalogAssumption DEF CountInv, TreeInv
      <4>3. CASE cat[key].dir
        <5> DEFINE S == In(DOMAIN cat, cat[key].id)
        <5>1. cat[key].id \in Homes(cat) BY <4>3 DEF Homes
        <5>2. Cardinality(S) \in Nat /\ Cardinality(S) <= mdb.next - FirstNum
          BY <4>1, <5>1, DirFits
        <5>3. cat[key].val = Cardinality(S) BY <4>1, <4>3 DEF Tallied
        <5> HIDE DEF S
        <5>4. Cardinality(S) \in Counts BY <4>1, <4>2, <5>2, CountIs
        <5> QED BY <3>1, <5>3, <5>4
      <4>4. CASE ~ cat[key].dir
        <5>1. cat[key].val = 0 BY <4>1, <4>4 DEF Tallied
        <5>2. 0 \in Counts
          <6>1. 0 \in Nat /\ 0 <= mdb.next - FirstNum BY <4>1 DEF Numbered, FirstNum
          <6> QED BY <4>1, <4>2, <6>1, CountIs
        <5> QED BY <3>1, <5>1, <5>2
      <4> QED BY <4>3, <4>4
    <3>2. CASE faults # 0 BY <2>1, <3>2 DEF FitRecord
    <3> QED BY <3>1, <3>2
  <2>4. cat[key] \in [id : Nums, dir : BOOLEAN, name : Names,
                     val : IF faults = 0 THEN Counts ELSE Words]
    BY <2>1, <2>3 DEF FitRecord, IsRecord, Fields
  <2> QED BY <2>1, <2>2, <2>4 DEF Parents
<1>3. /\ DOMAIN thr \subseteq Nums
      /\ \A id \in DOMAIN thr : thr[id] \in [dir : BOOLEAN, par : {RootPar} \cup Nums, name : Names]
  BY DEF CountInv, Fitting, Marked, FitThread, Parents
<1>4. ASSUME faults = 0, crashes = 0 PROVE {mdb, disk} \subseteq MDBs
  <2>1. Totalled(cat, mdb) /\ mdb.vn \in Names /\ disk \in MDBs BY <1>4 DEF CountInv, TotalsRight
  <2>2. mdb \in MDBs
    BY <1>1, <1>4, <2>1, CatalogAssumption, MdbFits DEF CountInv, TreeInv, Quiet
  <2> QED BY <2>1, <2>2
<1>5. upd \in BOOLEAN /\ cwd \in Nums BY <1>1 DEF CountInv, Fitting, Quiet
<1> QED BY <1>2, <1>3, <1>4, <1>5 DEF TypeOK

(* The counts are right on every volume, for any sets of names and of      *)
(* numbers that the valences can count: until an I/O error every valence   *)
(* is the number of entries of its directory, and until a crash as well    *)
(* the MDB's totals are the numbers of the files and directories there     *)
(* are. v_adjvalence changes these by one at each call and nothing ever    *)
(* recounts them; mounting an unclean volume trusts the MDB of the medium. *)
THEOREM CountsAreRight == Spec => []CountsRight
<1>1. CountInv => CountsRight
  <2> SUFFICES ASSUME CountInv PROVE CountsRight OBVIOUS
  <2>1. ASSUME faults = 0, NEW rec \in Range(cat), rec.dir
        PROVE  rec.val = Cardinality(Entries(rec.id))
    <3>1. PICK k \in DOMAIN cat : rec = cat[k] BY DEF Range
    <3>2. Tallied(cat) BY <2>1 DEF CountInv, TreeInv, Intact, Whole
    <3> QED BY <2>1, <3>1, <3>2 DEF Tallied, In, Entries
  <2>2. ASSUME faults = 0, crashes = 0
        PROVE  /\ mdb.dirs = Amount(TRUE, DOMAIN cat) - 1
               /\ mdb.files = Amount(FALSE, DOMAIN cat)
               /\ mdb.rtdirs = Amount(TRUE, Entries(RootDir))
               /\ mdb.rtfiles = Amount(FALSE, Entries(RootDir))
    BY <2>2 DEF CountInv, TotalsRight, Totalled, Amount, Entries, In, Sorted
  <2> QED BY <2>1, <2>2, TypesHold DEF CountsRight
<1> QED BY <1>1, CountAlways, PTL
=============================================================================
