---------------------------- MODULE ChecksProofs ----------------------------
(***************************************************************************)
(* The checkers, for any media, command lines and answers: what they must  *)
(* leave alone, what exit 0 is worth, and that a thorough repair lasts.    *)
(***************************************************************************)
EXTENDS Checks, FiniteSetTheorems, TLAPS

(* What a check in progress consists of.                                   *)
Check(pc, prog, repair, yes, part, mode, m, update, found, corrected, exit) ==
    [pc |-> pc, prog |-> prog, repair |-> repair, yes |-> yes, part |-> part, mode |-> mode,
     m |-> m, update |-> update, found |-> found, corrected |-> corrected, exit |-> exit]

IsCheck(r) == r = Check(r.pc, r.prog, r.repair, r.yes, r.part, r.mode, r.m, r.update,
                        r.found, r.corrected, r.exit)

(* A header of which nothing is asked, and one that is not written again.  *)
Sane(h)    == \A q \in Questions : ~ Wrong(h, q)
InOrder(h) == Sane(h) /\ h.clean

Readable(disk, p) == {"ext", "cat"} \subseteq disk[p].trees

-----------------------------------------------------------------------------
(* hfsck at its header: it has what the volume has.                        *)
AtHeader(r, v) == r.m = v.mdb /\ r.update = FALSE /\ r.found = FALSE

(* After the questions: without an update nothing differs from the volume, *)
(* a thorough repair has left nothing to ask, and a volume in order has    *)
(* not been updated.                                                       *)
Questioned(r, v) ==
    /\ r.update \in BOOLEAN /\ (~ r.update => r.m = v.mdb)
    /\ r.repair /\ r.yes => Sane(r.m)
    /\ Sane(v.mdb) => ~ r.update

Phases == {"header", "ext", "cat", "close"}

(* hfsck between its opening and its close.                                *)
InPhase(r, disk) ==
    /\ r.part \in DOMAIN disk /\ r.m \in Headers /\ r.found \in BOOLEAN
    /\ r.repair => r.mode = "rw"
    /\ r.pc = "header" => AtHeader(r, disk[r.part])
    /\ r.pc # "header" => Questioned(r, disk[r.part])
    /\ r.pc = "cat" /\ ~ r.found => "ext" \in disk[r.part].trees
    /\ r.pc = "close" /\ ~ r.found => Readable(disk, r.part)

(* A check that has begun.                                                 *)
Going(r, disk) ==
    /\ IsCheck(r) /\ r.pc # "idle"
    /\ r.mode = "rw" => r.repair
    /\ r.pc = "begun" => r.mode = "closed" /\ r.update = FALSE /\ r.found = FALSE
    /\ r.pc \in {"structure", "bitmap", "trees", "catalog"} => r.prog = "fsck.hfs"
    /\ r.prog = "hfsck" /\ r.pc \in Phases => InPhase(r, disk)
    /\ r.prog = "fsck.hfs" /\ r.pc \in {"catalog", "close"} => r.found = TRUE
    /\ r.pc = "ended" /\ r.exit = FSCK_OK => r.prog = "hfsck" /\ Readable(disk, r.part)

IsDisk(disk) ==
    /\ disk \in [DOMAIN disk -> Volumes] /\ IsFiniteSet(DOMAIN disk)
    /\ DOMAIN disk = {0} \/ DOMAIN disk = 1 .. Cardinality(DOMAIN disk)

InvOf(disk, r, done) ==
    /\ IsDisk(disk)
    /\ r = Idle \/ Going(r, disk)
    /\ \A p \in done : p \in DOMAIN disk /\ InOrder(disk[p].mdb)

Inv == InvOf(medium, run, settled)

-----------------------------------------------------------------------------
(* The rest of a check, which no question touches.                         *)
Asks(r, u) ==
    /\ IsCheck(u)
    /\ u.pc = r.pc /\ u.prog = r.prog /\ u.repair = r.repair /\ u.yes = r.yes
    /\ u.part = r.part /\ u.mode = r.mode
    /\ u.found = r.found /\ u.corrected = r.corrected /\ u.exit = r.exit

(* A question changes the copy of the header and notes that it did, and    *)
(* leaves the rest of the check as it was.                                 *)
LEMMA AskedIs ==
    ASSUME NEW r, IsCheck(r), NEW agreed, NEW q, NEW u, u = Asked(r, agreed, q)
    PROVE  /\ Asks(r, u)
           /\ IF Wrong(r.m, q) /\ q \in agreed THEN u.m = Mend(r.m, q) /\ u.update = TRUE
                                               ELSE u = r
BY DEF Asked, Asks, IsCheck, Check

(* All of them together leave the rest of the check as it was too.         *)
LEMMA AnsweredAsks ==
    ASSUME NEW r, IsCheck(r), NEW agreed, NEW u, u = Answered(r, agreed)
    PROVE  Asks(r, u)
<1>1. ASSUME NEW s, Asks(r, s), NEW q PROVE Asks(r, Asked(s, agreed, q))
  <2> DEFINE v == Asked(s, agreed, q)
  <2>0. IsCheck(s) BY <1>1 DEF Asks
  <2>1. Asks(s, v) BY <2>0, AskedIs
  <2> HIDE DEF v
  <2>2. Asks(r, v) BY <1>1, <2>1 DEF Asks
  <2> QED BY <2>2 DEF v
<1>2. Asks(r, r) BY DEF Asks
<1> QED BY <1>1, <1>2 DEF Answered

(* A header by its fields.                                                 *)
Header(type, created, modified, start, clean) ==
    [type |-> type, created |-> created, modified |-> modified, start |-> start, clean |-> clean]

IsHeader(h, type, created, modified, start, clean) ==
    /\ h \in Headers /\ h.type = type /\ h.created = created /\ h.modified = modified
    /\ h.start = start /\ h.clean = clean

(* Such a record is a header.                                              *)
LEMMA HeaderIs ==
    ASSUME NEW t \in Signatures, NEW c \in Int, NEW m \in Int, NEW s \in Int, NEW b \in BOOLEAN,
           NEW h, h = Header(t, c, m, s, b)
    PROVE  IsHeader(h, t, c, m, s, b)
BY DEF Signatures, Headers, Header, IsHeader

(* A mended header has one other field.                                    *)
Mended(h, k, q) ==
    /\ k \in Headers /\ k.clean = h.clean
    /\ k.type = IF q = "signature" THEN "HFS" ELSE h.type
    /\ k.created = IF q \in {"created unset", "created later"} THEN now ELSE h.created
    /\ k.modified = IF q = "modified later" THEN now
                    ELSE IF q \in {"modified unset", "modified first"} THEN h.created
                    ELSE h.modified
    /\ k.start = IF q = "bitmap start" THEN 3 ELSE h.start

(* What an answer makes of a header is one again.                          *)
LEMMA MendIs ==
    ASSUME NEW h \in Headers, NEW q \in Questions, NEW k, k = Mend(h, q)
    PROVE  Mended(h, k, q)
<1> USE DEF Mended
<1>1. /\ h = Header(h.type, h.created, h.modified, h.start, h.clean)
      /\ h.type \in Signatures /\ h.created \in Int /\ h.modified \in Int /\ h.start \in Int
      /\ h.clean \in BOOLEAN
      /\ "HFS" \in Signatures /\ now \in Int /\ 3 \in Int
  BY DEF Headers, Header, Signatures, now
<1>2. CASE q = "signature"
  <2>1. k = Header("HFS", h.created, h.modified, h.start, h.clean) BY <1>1, <1>2 DEF Mend, Header
  <2>2. IsHeader(k, "HFS", h.created, h.modified, h.start, h.clean)
    BY <1>1, <2>1, HeaderIs
  <2> QED BY <1>2, <2>2 DEF IsHeader
<1>3. CASE q = "created unset"
  <2>1. k = Header(h.type, now, h.modified, h.start, h.clean) BY <1>1, <1>3 DEF Mend, Header
  <2>2. IsHeader(k, h.type, now, h.modified, h.start, h.clean)
    BY <1>1, <2>1, HeaderIs
  <2> QED BY <1>3, <2>2 DEF IsHeader
<1>4. CASE q = "created later"
  <2>1. k = Header(h.type, now, h.modified, h.start, h.clean) BY <1>1, <1>4 DEF Mend, Header
  <2>2. IsHeader(k, h.type, now, h.modified, h.start, h.clean)
    BY <1>1, <2>1, HeaderIs
  <2> QED BY <1>4, <2>2 DEF IsHeader
<1>5. CASE q = "modified unset"
  <2>1. k = Header(h.type, h.created, h.created, h.start, h.clean) BY <1>1, <1>5 DEF Mend, Header
  <2>2. IsHeader(k, h.type, h.created, h.created, h.start, h.clean)
    BY <1>1, <2>1, HeaderIs
  <2> QED BY <1>5, <2>2 DEF IsHeader
<1>6. CASE q = "modified later"
  <2>1. k = Header(h.type, h.created, now, h.start, h.clean) BY <1>1, <1>6 DEF Mend, Header
  <2>2. IsHeader(k, h.type, h.created, now, h.start, h.clean)
    BY <1>1, <2>1, HeaderIs
  <2> QED BY <1>6, <2>2 DEF IsHeader
<1>7. CASE q = "modified first"
  <2>1. k = Header(h.type, h.created, h.created, h.start, h.clean) BY <1>1, <1>7 DEF Mend, Header
  <2>2. IsHeader(k, h.type, h.created, h.created, h.start, h.clean)
    BY <1>1, <2>1, HeaderIs
  <2> QED BY <1>7, <2>2 DEF IsHeader
<1>8. CASE q = "bitmap start"
  <2>1. k = Header(h.type, h.created, h.modified, 3, h.clean) BY <1>1, <1>8 DEF Mend, Header
  <2>2. IsHeader(k, h.type, h.created, h.modified, 3, h.clean)
    BY <1>1, <2>1, HeaderIs
  <2> QED BY <1>8, <2>2 DEF IsHeader
<1> QED BY <1>2, <1>3, <1>4, <1>5, <1>6, <1>7, <1>8 DEF Questions

(* The questions one after the other.                                      *)
Order == <<"signature", "created unset", "created later", "modified unset", "modified later",
           "modified first", "bitmap start">>

(* The questions are these.                                                *)
LEMMA OrderIs ==
    /\ Order[1] = "signature" /\ Order[2] = "created unset" /\ Order[3] = "created later"
    /\ Order[4] = "modified unset" /\ Order[5] = "modified later"
    /\ Order[6] = "modified first" /\ Order[7] = "bitmap start"
BY DEF Order

(* Each of them is one of the questions.                                   *)
LEMMA OrderIn == \A n \in 1 .. 7 : Order[n] \in Questions
<1>1. \A n \in 1 .. 7 : n \in {1, 2, 3, 4, 5, 6, 7} OBVIOUS
<1> QED BY <1>1, OrderIs DEF Questions

(* No answer raises one of the questions before it again: each date is set *)
(* from the one that was asked about earlier.                              *)
LEMMA SettledBefore ==
    ASSUME NEW h \in Headers, NEW k, NEW n \in 1 .. 7, Mended(h, k, Order[n]),
           Wrong(h, Order[n]), \A j \in 1 .. n - 1 : ~ Wrong(h, Order[j]), NEW i \in 1 .. n
    PROVE  ~ Wrong(k, Order[i])
<1>2. h.created \in Int /\ h.modified \in Int /\ h.start \in Int BY DEF Headers
<1> DEFINE Is(m) == /\ Wrong(m, "signature") <=> m.type # "HFS"
                    /\ Wrong(m, "created unset") <=> m.created = unset
                    /\ Wrong(m, "created later") <=> m.created > now
                    /\ Wrong(m, "modified unset") <=> m.modified = unset
                    /\ Wrong(m, "modified later") <=> m.modified > now
                    /\ Wrong(m, "modified first") <=> m.modified < m.created
                    /\ Wrong(m, "bitmap start") <=> m.start # 3
<1>0. Is(h) /\ Is(k) BY DEF Wrong
<1>10. now # unset /\ ~ (now > now) /\ now \in Int /\ ~ (h.created < h.created)
  BY <1>2 DEF now, unset
<1> HIDE DEF Is
<1>3. CASE n = 1
  <2>1. Mended(h, k, "signature") /\ Wrong(h, "signature") BY <1>3, OrderIs
  <2>2. /\ k.type = "HFS" /\ k.created = h.created /\ k.modified = h.modified /\ k.start = h.start
        /\ k.created \in Int /\ k.modified \in Int
    BY <2>1 DEF Mended, Headers
  <2>3. /\ ~ Wrong(k, "signature")
    BY <1>0, <1>2, <1>10, <2>1, <2>2 DEF Is
  <2>4. i \in {1} BY <1>3
  <2> QED BY <2>3, <2>4, OrderIs
<1>4. CASE n = 2
  <2>1. Mended(h, k, "created unset") /\ Wrong(h, "created unset") BY <1>4, OrderIs
  <2>2. {1} \subseteq 1 .. n - 1 BY <1>4
  <2>3. /\ ~ Wrong(h, "signature")
    BY <2>2, OrderIs
  <2>4. /\ k.type = h.type /\ k.created = now /\ k.modified = h.modified /\ k.start = h.start
        /\ k.created \in Int /\ k.modified \in Int
    BY <2>1 DEF Mended, Headers
  <2>5. /\ ~ Wrong(k, "signature") /\ ~ Wrong(k, "created unset")
    BY <1>0, <1>2, <1>10, <2>1, <2>4, <2>3 DEF Is
  <2>6. i \in {1, 2} BY <1>4
  <2> QED BY <2>5, <2>6, OrderIs
<1>5. CASE n = 3
  <2>1. Mended(h, k, "created later") /\ Wrong(h, "created later") BY <1>5, OrderIs
  <2>2. {1, 2} \subseteq 1 .. n - 1 BY <1>5
  <2>3. /\ ~ Wrong(h, "signature") /\ ~ Wrong(h, "created unset")
    BY <2>2, OrderIs
  <2>4. /\ k.type = h.type /\ k.created = now /\ k.modified = h.modified /\ k.start = h.start
        /\ k.created \in Int /\ k.modified \in Int
    BY <2>1 DEF Mended, Headers
  <2>5. /\ ~ Wrong(k, "signature") /\ ~ Wrong(k, "created unset")
        /\ ~ Wrong(k, "created later")
    BY <1>0, <1>2, <1>10, <2>1, <2>4, <2>3 DEF Is
  <2>6. i \in {1, 2, 3} BY <1>5
  <2> QED BY <2>5, <2>6, OrderIs
<1>6. CASE n = 4
  <2>1. Mended(h, k, "modified unset") /\ Wrong(h, "modified unset") BY <1>6, OrderIs
  <2>2. {1, 2, 3} \subseteq 1 .. n - 1 BY <1>6
  <2>3. /\ ~ Wrong(h, "signature") /\ ~ Wrong(h, "created unset")
        /\ ~ Wrong(h, "created later")
    BY <2>2, OrderIs
  <2>4. /\ k.type = h.type /\ k.created = h.created /\ k.modified = h.created /\ k.start = h.start
        /\ k.created \in Int /\ k.modified \in Int
    BY <2>1 DEF Mended, Headers
  <2>5. /\ ~ Wrong(k, "signature") /\ ~ Wrong(k, "created unset")
        /\ ~ Wrong(k, "created later") /\ ~ Wrong(k, "modified unset")
    BY <1>0, <1>2, <1>10, <2>1, <2>4, <2>3 DEF Is
  <2>6. i \in {1, 2, 3, 4} BY <1>6
  <2> QED BY <2>5, <2>6, OrderIs
<1>7. CASE n = 5
  <2>1. Mended(h, k, "modified later") /\ Wrong(h, "modified later") BY <1>7, OrderIs
  <2>2. {1, 2, 3, 4} \subseteq 1 .. n - 1 BY <1>7
  <2>3. /\ ~ Wrong(h, "signature") /\ ~ Wrong(h, "created unset")
        /\ ~ Wrong(h, "created later") /\ ~ Wrong(h, "modified unset")
    BY <2>2, OrderIs
  <2>4. /\ k.type = h.type /\ k.created = h.created /\ k.modified = now /\ k.start = h.start
        /\ k.created \in Int /\ k.modified \in Int
    BY <2>1 DEF Mended, Headers
  <2>5. /\ ~ Wrong(k, "signature") /\ ~ Wrong(k, "created unset")
        /\ ~ Wrong(k, "created later") /\ ~ Wrong(k, "modified unset")
        /\ ~ Wrong(k, "modified later")
    BY <1>0, <1>2, <1>10, <2>1, <2>4, <2>3 DEF Is
  <2>6. i \in {1, 2, 3, 4, 5} BY <1>7
  <2> QED BY <2>5, <2>6, OrderIs
<1>8. CASE n = 6
  <2>1. Mended(h, k, "modified first") /\ Wrong(h, "modified first") BY <1>8, OrderIs
  <2>2. {1, 2, 3, 4, 5} \subseteq 1 .. n - 1 BY <1>8
  <2>3. /\ ~ Wrong(h, "signature") /\ ~ Wrong(h, "created unset")
        /\ ~ Wrong(h, "created later") /\ ~ Wrong(h, "modified unset")
        /\ ~ Wrong(h, "modified later")
    BY <2>2, OrderIs
  <2>4. /\ k.type = h.type /\ k.created = h.created /\ k.modified = h.created /\ k.start = h.start
        /\ k.created \in Int /\ k.modified \in Int
    BY <2>1 DEF Mended, Headers
  <2>5. /\ ~ Wrong(k, "signature") /\ ~ Wrong(k, "created unset")
        /\ ~ Wrong(k, "created later") /\ ~ Wrong(k, "modified unset")
        /\ ~ Wrong(k, "modified later") /\ ~ Wrong(k, "modified first")
    BY <1>0, <1>2, <1>10, <2>1, <2>4, <2>3 DEF Is
  <2>6. i \in {1, 2, 3, 4, 5, 6} BY <1>8
  <2> QED BY <2>5, <2>6, OrderIs
<1>9. CASE n = 7
  <2>1. Mended(h, k, "bitmap start") /\ Wrong(h, "bitmap start") BY <1>9, OrderIs
  <2>2. {1, 2, 3, 4, 5, 6} \subseteq 1 .. n - 1 BY <1>9
  <2>3. /\ ~ Wrong(h, "signature") /\ ~ Wrong(h, "created unset")
        /\ ~ Wrong(h, "created later") /\ ~ Wrong(h, "modified unset")
        /\ ~ Wrong(h, "modified later") /\ ~ Wrong(h, "modified first")
    BY <2>2, OrderIs
  <2>4. /\ k.type = h.type /\ k.created = h.created /\ k.modified = h.modified /\ k.start = 3
        /\ k.created \in Int /\ k.modified \in Int
    BY <2>1 DEF Mended, Headers
  <2>5. /\ ~ Wrong(k, "signature") /\ ~ Wrong(k, "created unset")
        /\ ~ Wrong(k, "created later") /\ ~ Wrong(k, "modified unset")
        /\ ~ Wrong(k, "modified later") /\ ~ Wrong(k, "modified first")
        /\ ~ Wrong(k, "bitmap start")
    BY <1>0, <1>2, <1>10, <2>1, <2>4, <2>3 DEF Is
  <2>6. i \in {1, 2, 3, 4, 5, 6, 7} BY <1>9
  <2> QED BY <2>5, <2>6, OrderIs
<1> QED BY <1>3, <1>4, <1>5, <1>6, <1>7, <1>8, <1>9

(* r is at question n, having begun at v.                                  *)
Thus(r, v, agreed, n) ==
    /\ IsCheck(r) /\ r.m \in Headers /\ r.update \in BOOLEAN
    /\ ~ r.update => r.m = v.m
    /\ r.update => ~ Sane(v.m)
    /\ agreed = Questions => \A i \in 1 .. n : ~ Wrong(r.m, Order[i])

(* One more question is asked.                                             *)
LEMMA AskedThus ==
    ASSUME NEW n \in 1 .. 7, NEW v, NEW agreed, NEW r, Thus(r, v, agreed, n - 1),
           NEW u, u = Asked(r, agreed, Order[n])
    PROVE  Thus(u, v, agreed, n)
<1> DEFINE q == Order[n]
<1>0. IsCheck(r) BY DEF Thus
<1>1. q \in Questions BY OrderIn
<1>2. /\ Asks(r, u)
      /\ IF Wrong(r.m, q) /\ q \in agreed THEN u.m = Mend(r.m, q) /\ u.update = TRUE
                                          ELSE u = r
  <2> HIDE DEF q
  <2>1. u = Asked(r, agreed, q) BY DEF q
  <2> QED BY <1>0, <2>1, AskedIs
<1>6. IsCheck(u) BY <1>2 DEF Asks
<1>4. CASE ~ (Wrong(r.m, q) /\ q \in agreed)
  <2>1. u = r BY <1>2, <1>4
  <2>2. agreed = Questions => ~ Wrong(r.m, q) BY <1>1, <1>4
  <2>3. ASSUME agreed = Questions, NEW i \in 1 .. n PROVE ~ Wrong(r.m, Order[i])
    <3>1. CASE i = n BY <2>2, <2>3, <3>1
    <3>2. CASE i \in 1 .. n - 1 BY <2>3, <3>2 DEF Thus
    <3> QED BY <3>1, <3>2
  <2> QED BY <2>1, <2>3 DEF Thus
<1>5. CASE Wrong(r.m, q) /\ q \in agreed
  <2>0. r.m \in Headers BY DEF Thus
  <2>1. u.m = Mend(r.m, q) /\ u.update = TRUE BY <1>2, <1>5
  <2>2. Mended(r.m, u.m, q) /\ u.m \in Headers
    <3> HIDE DEF q
    <3>1. Mended(r.m, u.m, q) BY <1>1, <2>0, <2>1, MendIs
    <3> QED BY <3>1 DEF Mended
  <2>3. ~ Sane(v.m) BY <1>1, <1>5 DEF Thus, Sane
  <2>4. ASSUME agreed = Questions, NEW i \in 1 .. n PROVE ~ Wrong(u.m, Order[i])
    <3>1. \A j \in 1 .. n - 1 : ~ Wrong(r.m, Order[j]) BY <2>4 DEF Thus
    <3> QED BY <1>5, <2>0, <2>2, <2>4, <3>1, SettledBefore
  <2> QED BY <1>6, <2>1, <2>2, <2>3, <2>4 DEF Thus
<1> QED BY <1>4, <1>5

(* All seven are asked.                                                    *)
LEMMA AnsweredThus ==
    ASSUME NEW r, IsCheck(r), r.m \in Headers, r.update = FALSE, NEW agreed,
           NEW u, u = Answered(r, agreed)
    PROVE  Thus(u, r, agreed, 7)
<1>0. ASSUME NEW n \in 1 .. 7, NEW s, Thus(s, r, agreed, n - 1)
      PROVE  Thus(Asked(s, agreed, Order[n]), r, agreed, n)
  BY <1>0, AskedThus
<1> DEFINE a == Asked(r, agreed, Order[1])
           b == Asked(a, agreed, Order[2])
           c == Asked(b, agreed, Order[3])
           d == Asked(c, agreed, Order[4])
           e == Asked(d, agreed, Order[5])
           f == Asked(e, agreed, Order[6])
           g == Asked(f, agreed, Order[7])
<1>1. u = g BY OrderIs DEF Answered
<1>2. Thus(r, r, agreed, 1 - 1)
  <2>1. \A i \in 1 .. 1 - 1 : FALSE OBVIOUS
  <2> QED BY <2>1 DEF Thus
<1>3. Thus(a, r, agreed, 2 - 1) BY <1>0, <1>2
<1> HIDE DEF a
<1>4. Thus(b, r, agreed, 3 - 1) BY <1>0, <1>3
<1> HIDE DEF b
<1>5. Thus(c, r, agreed, 4 - 1) BY <1>0, <1>4
<1> HIDE DEF c
<1>6. Thus(d, r, agreed, 5 - 1) BY <1>0, <1>5
<1> HIDE DEF d
<1>7. Thus(e, r, agreed, 6 - 1) BY <1>0, <1>6
<1> HIDE DEF e
<1>8. Thus(f, r, agreed, 7 - 1) BY <1>0, <1>7
<1> HIDE DEF f
<1> QED BY <1>0, <1>1, <1>8

(* A header that went through all of them raises none.                     *)
LEMMA AllOfThem == ASSUME NEW h, \A i \in 1 .. 7 : ~ Wrong(h, Order[i]) PROVE Sane(h)
<1>1. {1, 2, 3, 4, 5, 6, 7} \subseteq 1 .. 7 OBVIOUS
<1>2. Questions = {Order[1], Order[2], Order[3], Order[4], Order[5], Order[6], Order[7]}
  BY OrderIs DEF Questions
<1> QED BY <1>1, <1>2 DEF Sane

-----------------------------------------------------------------------------
(* Each step of a check, on a medium as it is.                             *)
Step(r, u, pc) ==
    /\ IsCheck(u) /\ u.pc = pc /\ u.prog = r.prog /\ u.repair = r.repair /\ u.yes = r.yes
    /\ u.part = r.part /\ u.mode = r.mode

(* An end: exit 0 is given only where the trees can be read.               *)
LEMMA EndGoes ==
    ASSUME NEW disk, NEW r, Going(r, disk), NEW code,
           code = FSCK_OK => r.prog = "hfsck" /\ Readable(disk, r.part),
           NEW u, u = [r EXCEPT !.pc = "ended", !.exit = code]
    PROVE  Going(u, disk)
<1>1. IsCheck(r) /\ (r.mode = "rw" => r.repair) BY DEF Going
<1>2. Step(r, u, "ended") /\ u.exit = code BY <1>1 DEF IsCheck, Check, Step
<1> QED BY <1>1, <1>2 DEF Going, Step, Phases

(* The beginning.                                                          *)
LEMMA BeginGoes ==
    ASSUME NEW disk, NEW line, NEW opts, NEW u, u = Started(line, opts) \/ u = Refused(line)
    PROVE  Going(u, disk)
<1>1. CASE u = Started(line, opts)
  <2>1. /\ IsCheck(u) /\ u.pc = "begun" /\ u.mode = "closed"
        /\ u.update = FALSE /\ u.found = FALSE
    BY <1>1 DEF Started, IsCheck, Check
  <2> QED BY <2>1 DEF Going, Phases
<1>2. CASE u = Refused(line)
  <2>1. IsCheck(u) /\ u.pc = "ended" /\ u.mode = "closed" /\ u.exit = 16
    BY <1>2 DEF Refused, Started, IsCheck, Check, FSCK_USAGE_ERROR
  <2> QED BY <2>1 DEF Going, Phases, FSCK_OK
<1> QED BY <1>1, <1>2

(* The opening.                                                            *)
LEMMA OpenGoes ==
    ASSUME NEW disk, IsDisk(disk), NEW r, Going(r, disk), r.pc = "begun",
           NEW s, s = Opened(r), s.mode # "closed",
           NEW part, r.prog = "hfsck" => part \in DOMAIN disk,
           NEW m, r.prog = "hfsck" => m = disk[part].mdb,
           NEW u, u = [s EXCEPT !.part = part, !.pc = "header", !.m = m]
    PROVE  Going(u, disk)
<1>1. IsCheck(r) /\ r.mode = "closed" /\ r.update = FALSE /\ r.found = FALSE BY DEF Going
<1>2. /\ IsCheck(s) /\ s.prog = r.prog /\ s.update = r.update /\ s.found = r.found
      /\ s.mode = "rw" => s.repair
      /\ s.repair => s.mode = "rw"
  BY <1>1 DEF Opened, IsCheck, Check
<1>3. /\ IsCheck(u) /\ u.pc = "header" /\ u.prog = r.prog /\ u.part = part /\ u.m = m
      /\ u.update = r.update /\ u.found = r.found
      /\ u.mode = "rw" => u.repair
      /\ u.repair => u.mode = "rw"
  BY <1>2 DEF IsCheck, Check
<1>4. ASSUME r.prog = "hfsck" PROVE InPhase(u, disk)
  <2>1. disk[part] \in Volumes BY <1>4 DEF IsDisk
  <2>2. disk[part].mdb \in Headers BY <2>1 DEF Volumes
  <2> QED BY <1>1, <1>3, <1>4, <2>2 DEF InPhase, AtHeader
<1> QED BY <1>3, <1>4 DEF Going

(* The header.  A thorough repair agrees to everything.                    *)
LEMMA HeaderGoes ==
    ASSUME NEW disk, IsDisk(disk), NEW r, Going(r, disk), r.prog = "hfsck", r.pc = "header",
           NEW agreed \in ask(r), NEW u, u = [Answered(r, agreed) EXCEPT !.pc = "ext"]
    PROVE  Going(u, disk)
<1> DEFINE s == Answered(r, agreed)
           v == disk[r.part]
<1>1. InPhase(r, disk) /\ IsCheck(r) /\ (r.mode = "rw" => r.repair)
  BY DEF Going, Phases
<1>2. r.m = v.mdb /\ r.m \in Headers /\ r.update = FALSE /\ r.found = FALSE
  BY <1>1 DEF InPhase, AtHeader
<1>3. Thus(s, r, agreed, 7) BY <1>1, <1>2, AnsweredThus
<1>4. Asks(r, s) BY <1>1, AnsweredAsks
<1> HIDE DEF s
<1>5. Step(r, u, "ext") /\ u.m = s.m /\ u.update = s.update /\ u.found = r.found
  <2>1. u = [s EXCEPT !.pc = "ext"] BY DEF s
  <2> QED BY <1>4, <2>1 DEF Asks, IsCheck, Check, Step
<1>6. Questioned(u, v)
  <2>1. s.update \in BOOLEAN /\ (~ s.update => s.m = v.mdb) /\ (Sane(v.mdb) => ~ s.update)
    BY <1>2, <1>3 DEF Thus
  <2>2. r.repair /\ r.yes => Sane(s.m)
    <3>1. r.repair /\ r.yes => agreed = Questions BY DEF ask
    <3> QED BY <1>3, <3>1, AllOfThem DEF Thus
  <2> QED BY <1>5, <2>1, <2>2 DEF Questioned, Step
<1>7. InPhase(u, disk)
  <2>1. u.m \in Headers BY <1>3, <1>5 DEF Thus
  <2> QED BY <1>1, <1>2, <1>5, <1>6, <2>1 DEF InPhase, Step
<1> QED BY <1>1, <1>5, <1>7 DEF Going, Step, FSCK_OK

(* The trees, one after the other.                                         *)
LEMMA TreeGoes ==
    ASSUME NEW disk, NEW r, Going(r, disk), r.prog = "hfsck",
           NEW tree, NEW next, r.pc = tree,
           <<tree, next>> = <<"ext", "cat">> \/ <<tree, next>> = <<"cat", "close">>,
           NEW u, u = Counted(r, tree \in disk[r.part].trees, next)
    PROVE  Going(u, disk)
<1>1. InPhase(r, disk) /\ IsCheck(r) /\ (r.mode = "rw" => r.repair)
  BY DEF Going, Phases
<1>2. /\ Step(r, u, next) /\ u.m = r.m /\ u.update = r.update
      /\ u.found = (r.found \/ ~ (tree \in disk[r.part].trees))
  BY <1>1 DEF Counted, IsCheck, Check, Step
<1>3. u.pc = next /\ u.part = r.part BY <1>2 DEF Step
<1>4. Questioned(r, disk[r.part]) BY <1>1 DEF InPhase
<1>5. Questioned(u, disk[u.part]) BY <1>2, <1>4 DEF Questioned, Step
<1>6. /\ u.part \in DOMAIN disk /\ u.m \in Headers /\ u.found \in BOOLEAN
      /\ u.repair => u.mode = "rw"
  BY <1>1, <1>2 DEF InPhase, Step
<1>7. InPhase(u, disk)
  <2>1. CASE tree = "ext" /\ next = "cat"
    <3>1. ~ u.found => "ext" \in disk[u.part].trees BY <1>2, <1>3, <2>1
    <3> QED BY <1>3, <1>5, <1>6, <2>1, <3>1 DEF InPhase
  <2>2. CASE tree = "cat" /\ next = "close"
    <3>1. ~ r.found => "ext" \in disk[r.part].trees BY <1>1, <2>2 DEF InPhase
    <3>2. ~ u.found => Readable(disk, u.part)
      <4>1. ~ u.found => ~ r.found /\ "cat" \in disk[r.part].trees BY <1>2, <2>2
      <4> QED BY <1>3, <3>1, <4>1 DEF Readable
    <3> QED BY <1>3, <1>5, <1>6, <2>2, <3>2 DEF InPhase
  <2> QED BY <2>1, <2>2
<1>8. u.pc \in {"cat", "close"} BY <1>3
<1> QED BY <1>1, <1>2, <1>7, <1>8 DEF Going, Step

(* fsck.hfs, up to where it finds what it always finds.                    *)
LEMMA ElsewhereGoes ==
    ASSUME NEW disk, NEW r, Going(r, disk), r.prog = "fsck.hfs",
           NEW pc \in {"structure", "bitmap", "trees", "catalog", "close"}, NEW u, Step(r, u, pc),
           pc \in {"catalog", "close"} => u.found = TRUE
    PROVE  Going(u, disk)
<1>1. r.mode = "rw" => r.repair BY DEF Going
<1> QED BY <1>1 DEF Going, Step

-----------------------------------------------------------------------------
(* The partition that hfsck is given, or finds, is on the medium.          *)
LEMMA PartitionThere ==
    ASSUME IsDisk(medium), NEW p, hfsck_partition(p) # NoPart
    PROVE  hfsck_partition(p) \in DOMAIN medium
<1>1. CASE DOMAIN medium = {0}
  <2>1. Nparts("hfsck") = -1 BY <1>1 DEF Nparts
  <2> QED BY <1>1, <2>1 DEF hfsck_partition, NoPart
<1>2. CASE DOMAIN medium = 1 .. Cardinality(DOMAIN medium)
  <2> DEFINE n == Cardinality(DOMAIN medium)
  <2>0. n \in Nat BY FS_CardinalityType DEF IsDisk
  <2>1. 0 \notin DOMAIN medium BY <1>2, <2>0
  <2>2. Nparts("hfsck") = n BY <2>1 DEF Nparts
  <2>3. n # -1
    <3>1. SUFFICES ASSUME n = -1 PROVE FALSE OBVIOUS
    <3>2. DOMAIN medium = {} BY <1>2, <3>1
    <3> QED BY <3>1, <3>2, FS_EmptySet
  <2>4. hfsck_partition(p) \in 1 .. n
    <3> HIDE DEF n
    <3>1. n = 1 => 1 \in 1 .. n OBVIOUS
    <3> QED BY <2>2, <2>3, <3>1 DEF hfsck_partition, NoPart
  <2> QED BY <1>2, <2>4
<1> QED BY <1>1, <1>2 DEF IsDisk

(* Only the closing of hfsck changes the medium.                           *)
LEMMA SameDisk ==
    ASSUME Inv, UNCHANGED <<medium, settled>>, run' = Idle \/ Going(run', medium)
    PROVE  Inv'
BY DEF Inv, InvOf

(* A check that ends with a fault.                                         *)
LEMMA EndKeeps ==
    ASSUME Inv, run.pc # "idle", NEW code, EndWith(code),
           code = FSCK_OK => run.prog = "hfsck" /\ Readable(medium, run.part)
    PROVE  Inv'
<1>1. Going(run, medium) BY DEF Inv, InvOf, Idle
<1>2. run' = [run EXCEPT !.pc = "ended", !.exit = code] /\ UNCHANGED <<medium, settled>>
  BY DEF EndWith
<1>3. Going(run', medium) BY <1>1, <1>2, EndGoes
<1> QED BY <1>2, <1>3, SameDisk

(* A check may be begun.                                                   *)
LEMMA BeginKeeps == ASSUME Inv, Begin PROVE Inv'
<1>1. PICK line \in Lines :
          \/ run' = Started(line, hfsck_options(line.letters))
          \/ run' = Started(line, fsck_parse_command_line(line.letters))
          \/ run' = Refused(line)
  BY DEF Begin
<1>2. Going(run', medium) BY <1>1, BeginGoes
<1> QED BY <1>2, SameDisk DEF Begin

(* The medium is opened.                                                   *)
LEMMA OpenKeeps == ASSUME Inv, Open PROVE Inv'
<1> DEFINE part == IF run.prog = "hfsck" THEN hfsck_partition(run.part) ELSE 0
           r    == Opened(run)
           m    == IF r.prog = "hfsck" THEN medium[part].mdb ELSE medium[part].raw
<1>1. run.pc = "begun" BY DEF Open
<1>2. Going(run, medium) /\ IsDisk(medium) BY <1>1 DEF Inv, InvOf, Idle
<1>3. \/ EndWith(FSCK_OPERATIONAL_ERROR) \/ EndWith(FSCK_USAGE_ERROR)
      \/ /\ part # NoPart /\ r.mode # "closed"
         /\ run' = [r EXCEPT !.part = part, !.pc = "header", !.m = m]
         /\ UNCHANGED <<medium, writable, settled, runs>>
  BY DEF Open
<1>4. CASE EndWith(FSCK_OPERATIONAL_ERROR) \/ EndWith(FSCK_USAGE_ERROR)
  BY <1>1, <1>4, EndKeeps DEF FSCK_OK, FSCK_OPERATIONAL_ERROR, FSCK_USAGE_ERROR
<1>5. CASE /\ part # NoPart /\ r.mode # "closed"
           /\ run' = [r EXCEPT !.part = part, !.pc = "header", !.m = m]
           /\ UNCHANGED <<medium, writable, settled, runs>>
  <2>1. run.prog = "hfsck" => part \in DOMAIN medium BY <1>2, <1>5, PartitionThere
  <2>2. r.prog = run.prog BY <1>2 DEF Going, Opened, IsCheck, Check
  <2>3. run.prog = "hfsck" => m = medium[part].mdb BY <2>2
  <2>4. /\ run' = [r EXCEPT !.part = part, !.pc = "header", !.m = m] /\ r = Opened(run)
        /\ r.mode # "closed"
    BY <1>5
  <2> HIDE DEF part, r, m
  <2>5. Going(run', medium) BY <1>1, <1>2, <2>1, <2>3, <2>4, OpenGoes
  <2> QED BY <1>5, <2>5, SameDisk
<1> QED BY <1>3, <1>4, <1>5

(* hfsck asks about the header.                                            *)
LEMMA MdbKeeps == ASSUME Inv, ck_mdb PROVE Inv'
<1>1. PICK agreed \in ask(run) : run' = [Answered(run, agreed) EXCEPT !.pc = "ext"]
  BY DEF ck_mdb
<1>2. /\ run.pc = "header" /\ run.prog = "hfsck" /\ UNCHANGED <<medium, settled>>
  BY DEF ck_mdb
<1>3. Going(run, medium) /\ IsDisk(medium) BY <1>2 DEF Inv, InvOf, Idle
<1>4. Going(run', medium) BY <1>1, <1>2, <1>3, HeaderGoes
<1> QED BY <1>2, <1>4, SameDisk

(* hfsck reads the header of a tree.                                       *)
LEMMA TreeKeeps ==
    ASSUME Inv, NEW tree, NEW next, ck_btree(tree, next),
           <<tree, next>> = <<"ext", "cat">> \/ <<tree, next>> = <<"cat", "close">>
    PROVE  Inv'
<1>1. /\ run.pc = tree /\ run.prog = "hfsck" /\ UNCHANGED <<medium, settled>>
      /\ run' = Counted(run, tree \in medium[run.part].trees, next)
  BY DEF ck_btree, bt_readhdr
<1>2. run.pc # "idle" BY <1>1
<1>3. Going(run, medium) BY <1>2 DEF Inv, InvOf, Idle
<1>4. Going(run', medium) BY <1>1, <1>3, TreeGoes
<1> QED BY <1>1, <1>4, SameDisk

(* What is written for a volume without faults has none.                   *)
LEMMA WrittenIs ==
    ASSUME NEW h \in Headers, NEW k, k = v_writemdb(h)
    PROVE  k \in Headers /\ (Sane(h) => InOrder(k))
<1>1. /\ h = Header(h.type, h.created, h.modified, h.start, h.clean)
      /\ h.type \in Signatures /\ h.created \in Int /\ h.modified \in Int /\ h.start \in Int
      /\ now \in Int /\ TRUE \in BOOLEAN
  BY DEF Headers, Header, now
<1>2. k = Header(h.type, h.created, now, h.start, TRUE) BY <1>1 DEF v_writemdb, Header
<1>3. IsHeader(k, h.type, h.created, now, h.start, TRUE) BY <1>1, <1>2, HeaderIs
<1>4. ASSUME Sane(h) PROVE InOrder(k)
  <2>1. /\ ~ Wrong(h, "signature") /\ ~ Wrong(h, "created unset")
        /\ ~ Wrong(h, "created later") /\ ~ Wrong(h, "bitmap start")
    BY <1>4 DEF Sane, Questions
  <2>2. /\ h.type = "HFS" /\ h.created # unset /\ ~ (h.created > now) /\ h.start = 3
    BY <2>1 DEF Wrong
  <2>3. /\ k.type = "HFS" /\ k.created = h.created /\ k.modified = now /\ k.start = 3
        /\ k.clean = TRUE
    BY <1>3, <2>2 DEF IsHeader
  <2>4. now # unset /\ ~ (now > now) /\ ~ (now < h.created) BY <1>1, <2>2 DEF now, unset
  <2>5. ~ Wrong(k, "signature") /\ ~ Wrong(k, "created unset") /\ ~ Wrong(k, "created later")
    BY <2>2, <2>3 DEF Wrong
  <2>6. ~ Wrong(k, "modified unset") /\ ~ Wrong(k, "modified later")
    BY <2>3, <2>4 DEF Wrong
  <2>7. ~ Wrong(k, "modified first") /\ ~ Wrong(k, "bitmap start")
    BY <2>3, <2>4 DEF Wrong
  <2> QED BY <2>3, <2>5, <2>6, <2>7 DEF InOrder, Sane, Questions
<1> QED BY <1>3, <1>4 DEF IsHeader

(* What closing does to the volume that is closed: one in order is left as *)
(* it is, and a thorough repair leaves one in order.                       *)
LEMMA CloseIs ==
    ASSUME NEW r, InPhase(r, medium), r.pc = "close", IsDisk(medium), NEW disk, disk = Written(r)
    PROVE  /\ IsDisk(disk) /\ DOMAIN disk = DOMAIN medium
           /\ \A p \in DOMAIN medium : disk[p].trees = medium[p].trees
           /\ \A p \in DOMAIN medium : p # r.part \/ InOrder(medium[p].mdb) => disk[p] = medium[p]
           /\ r.repair /\ r.yes => InOrder(disk[r.part].mdb)
           /\ r.mode # "rw" => disk = medium
<1> DEFINE v == medium[r.part]
           w == [v EXCEPT !.mdb = v_writemdb(r.m)]
<1>1. /\ r.part \in DOMAIN medium /\ r.m \in Headers /\ (r.repair => r.mode = "rw")
      /\ r.update \in BOOLEAN /\ (~ r.update => r.m = v.mdb) /\ (Sane(v.mdb) => ~ r.update)
      /\ (r.repair /\ r.yes => Sane(r.m))
  BY DEF InPhase, Questioned
<1>2. v \in Volumes /\ medium \in [DOMAIN medium -> Volumes] BY <1>1 DEF IsDisk
<1>3. v_writemdb(r.m) \in Headers /\ (Sane(r.m) => InOrder(v_writemdb(r.m)))
  BY <1>1, WrittenIs
<1>4. CASE r.mode = "rw" /\ (r.update \/ ~ r.m.clean)
  <2>1. disk = [medium EXCEPT ![r.part] = w] BY <1>4 DEF Written
  <2>2. w \in Volumes /\ w.trees = v.trees /\ w.mdb = v_writemdb(r.m)
    BY <1>2, <1>3 DEF Volumes
  <2>3. ~ InOrder(v.mdb) BY <1>1, <1>4 DEF InOrder
  <2> HIDE DEF w
  <2>4. disk \in [DOMAIN medium -> Volumes] BY <1>2, <2>1, <2>2
  <2>5. DOMAIN disk = DOMAIN medium BY <2>4
  <2>6. disk[r.part] = w /\ \A p \in DOMAIN medium : p # r.part => disk[p] = medium[p]
    BY <1>1, <1>2, <2>1
  <2>7. IsDisk(disk) BY <2>4, <2>5 DEF IsDisk
  <2>8. \A p \in DOMAIN medium : disk[p].trees = medium[p].trees BY <2>2, <2>6
  <2> QED BY <1>1, <1>3, <1>4, <2>2, <2>3, <2>5, <2>6, <2>7, <2>8
<1>5. CASE ~ (r.mode = "rw" /\ (r.update \/ ~ r.m.clean))
  <2>1. disk = medium BY <1>5 DEF Written
  <2>2. r.repair /\ r.yes => InOrder(v.mdb) BY <1>1, <1>5 DEF InOrder
  <2> QED BY <2>1, <2>2
<1> QED BY <1>4, <1>5

(* hfsck closes the volume.                                                *)
LEMMA CloseKeeps == ASSUME Inv, v_close PROVE Inv'
<1>1. /\ run.pc = "close" /\ run.prog = "hfsck" /\ medium' = Written(run)
      /\ settled' = IF run.repair /\ run.yes THEN settled \cup {run.part} ELSE settled
      /\ run' = [run EXCEPT !.pc = "ended", !.exit = Code(run)]
  BY DEF v_close
<1>2. /\ Going(run, medium) /\ IsDisk(medium)
      /\ \A p \in settled : p \in DOMAIN medium /\ InOrder(medium[p].mdb)
  BY <1>1 DEF Inv, InvOf, Idle
<1>3. InPhase(run, medium) BY <1>1, <1>2 DEF Going, Phases
<1>4. /\ IsDisk(medium') /\ DOMAIN medium' = DOMAIN medium
      /\ \A p \in DOMAIN medium : medium'[p].trees = medium[p].trees
      /\ \A p \in DOMAIN medium :
             p # run.part \/ InOrder(medium[p].mdb) => medium'[p] = medium[p]
      /\ run.repair /\ run.yes => InOrder(medium'[run.part].mdb)
  BY <1>1, <1>2, <1>3, CloseIs
<1>5. \A p \in settled' : p \in DOMAIN medium' /\ InOrder(medium'[p].mdb)
  <2>1. \A p \in settled : p \in DOMAIN medium' /\ InOrder(medium'[p].mdb) BY <1>2, <1>4
  <2>2. run.part \in DOMAIN medium' BY <1>3, <1>4 DEF InPhase
  <2>3. CASE run.repair /\ run.yes
    <3>1. settled' = settled \cup {run.part} BY <1>1, <2>3
    <3> QED BY <1>4, <2>1, <2>2, <2>3, <3>1
  <2>4. CASE ~ (run.repair /\ run.yes)
    <3>1. settled' = settled BY <1>1, <2>4
    <3> QED BY <2>1, <3>1
  <2> QED BY <2>3, <2>4
<1>6. Going(run', medium')
  <2>1. Code(run) = FSCK_OK => ~ run.found
    BY DEF Code, FSCK_OK, FSCK_CORRECTED, FSCK_UNCORRECTED
  <2>2. ~ run.found => Readable(medium, run.part) BY <1>1, <1>3 DEF InPhase
  <2>3. Going(run', medium) BY <1>1, <1>2, <2>1, <2>2, EndGoes
  <2>4. Step(run, run', "ended") /\ run'.exit = Code(run)
    BY <1>1, <1>2 DEF Going, IsCheck, Check, Step
  <2>5. ~ run.found => Readable(medium', run'.part)
    BY <1>3, <1>4, <2>2, <2>4 DEF Readable, InPhase, Step
  <2> QED BY <1>1, <2>1, <2>3, <2>4, <2>5 DEF Going, Step, Phases
<1> QED BY <1>4, <1>5, <1>6 DEF Inv, InvOf

(* fsck.hfs asks about what it takes for the header.                       *)
LEMMA EnhancedKeeps == ASSUME Inv, check_mdb_enhanced PROVE Inv'
<1>1. run.pc = "header" /\ run.prog = "fsck.hfs" BY DEF check_mdb_enhanced
<1>2. Going(run, medium) BY <1>1 DEF Inv, InvOf, Idle
<1>3. PICK agreed \in ask(run) :
          \/ EndWith(FSCK_UNCORRECTED)
          \/ /\ UNCHANGED <<medium, settled>>
             /\ run' = [Answered(run, agreed) EXCEPT !.found = Answered(run, agreed).update,
                            !.corrected = Answered(run, agreed).update, !.pc = "structure"]
  BY DEF check_mdb_enhanced
<1> DEFINE s == Answered(run, agreed)
<1>4. CASE EndWith(FSCK_UNCORRECTED)
  BY <1>1, <1>4, EndKeeps DEF FSCK_OK, FSCK_UNCORRECTED
<1>5. CASE /\ UNCHANGED <<medium, settled>>
           /\ run' = [s EXCEPT !.found = s.update, !.corrected = s.update, !.pc = "structure"]
  <2>1. Asks(run, s) BY <1>2, AnsweredAsks DEF Going
  <2> HIDE DEF s
  <2>2. Step(run, run', "structure") BY <1>5, <2>1 DEF Asks, IsCheck, Check, Step
  <2>3. Going(run', medium) BY <1>1, <1>2, <2>2, ElsewhereGoes
  <2> QED BY <1>5, <2>3, SameDisk
<1> QED BY <1>3, <1>4, <1>5

(* The phases of fsck.hfs, of which the last but one finds something.      *)
LEMMA PhasesKeep ==
    ASSUME Inv, \/ check_volume_structure_enhanced \/ check_allocation_bitmap
                \/ check_btree_enhanced \/ check_catalog_consistency
    PROVE  Inv'
<1>1. run.pc \in {"structure", "bitmap", "trees", "catalog"} /\ UNCHANGED <<medium, settled>>
  BY DEF check_volume_structure_enhanced, check_allocation_bitmap, check_btree_enhanced,
         check_catalog_consistency
<1>2. Going(run, medium) BY <1>1 DEF Inv, InvOf, Idle
<1>3. IsCheck(run) /\ run.prog = "fsck.hfs" BY <1>1, <1>2 DEF Going
<1>4. CASE check_volume_structure_enhanced
  <2>1. Step(run, run', "bitmap")
    BY <1>3, <1>4 DEF check_volume_structure_enhanced, Counted, IsCheck, Check, Step
  <2>2. Going(run', medium) BY <1>2, <1>3, <2>1, ElsewhereGoes
  <2> QED BY <1>1, <2>2, SameDisk
<1>5. CASE check_allocation_bitmap
  <2>1. Step(run, run', "trees")
    BY <1>3, <1>5
    DEF check_allocation_bitmap, repair_allocation_bitmap, Counted, IsCheck, Check, Step
  <2>2. Going(run', medium) BY <1>2, <1>3, <2>1, ElsewhereGoes
  <2> QED BY <1>1, <2>2, SameDisk
<1>6. CASE check_btree_enhanced
  <2>1. Step(run, run', "catalog") /\ run'.found = TRUE
    BY <1>3, <1>6 DEF check_btree_enhanced, IsCheck, Check, Step
  <2>2. Going(run', medium) BY <1>2, <1>3, <2>1, ElsewhereGoes
  <2> QED BY <1>1, <2>2, SameDisk
<1>7. CASE check_catalog_consistency
  <2>1. run.found = TRUE BY <1>2, <1>3, <1>7 DEF Going, check_catalog_consistency
  <2>2. Step(run, run', "close") /\ run'.found = TRUE
    BY <1>3, <1>7, <2>1 DEF check_catalog_consistency, Counted, IsCheck, Check, Step
  <2>3. Going(run', medium) BY <1>2, <1>3, <2>2, ElsewhereGoes
  <2> QED BY <1>1, <2>3, SameDisk
<1> QED BY <1>4, <1>5, <1>6, <1>7

(* Every step leaves the checker between two phases as described.          *)
LEMMA NextKeeps == ASSUME Inv, [Next]_vars PROVE Inv'
<1>1. CASE Begin BY <1>1, BeginKeeps
<1>2. CASE Open BY <1>2, OpenKeeps
<1>3. CASE ck_mdb BY <1>3, MdbKeeps
<1>4. CASE ck_btree("ext", "cat") BY <1>4, TreeKeeps
<1>5. CASE ck_btree("cat", "close") BY <1>5, TreeKeeps
<1>6. CASE v_close BY <1>6, CloseKeeps
<1>7. CASE check_mdb_enhanced BY <1>7, EnhancedKeeps
<1>8. CASE \/ check_volume_structure_enhanced \/ check_allocation_bitmap
           \/ check_btree_enhanced \/ check_catalog_consistency
  BY <1>8, PhasesKeep
<1>9. CASE ClosedUnwritten
  <2>1. run.pc = "close" /\ run.prog = "fsck.hfs" /\ EndWith(Code(run))
    BY <1>9 DEF ClosedUnwritten
  <2>2. Going(run, medium) BY <2>1 DEF Inv, InvOf, Idle
  <2>3. run.found = TRUE BY <2>1, <2>2 DEF Going
  <2>4. Code(run) # FSCK_OK BY <2>3 DEF Code, FSCK_OK, FSCK_CORRECTED, FSCK_UNCORRECTED
  <2>5. run.pc # "idle" BY <2>1
  <2> QED BY <2>1, <2>4, <2>5, EndKeeps
<1>10. CASE Killed BY <1>10, SameDisk DEF Killed
<1>11. CASE UNCHANGED vars BY <1>11 DEF vars, Inv, InvOf
<1> QED BY <1>1, <1>2, <1>3, <1>4, <1>5, <1>6, <1>7, <1>8, <1>9, <1>10, <1>11 DEF Next

(* Between any two steps hfsck has what its volume has, or has changed a   *)
(* copy in which a thorough repair leaves nothing to ask; it has found     *)
(* nothing only where it has read the trees; fsck.hfs has found something  *)
(* by its last phase; and what a thorough repair left is in order.         *)
THEOREM Invariant == Spec => []Inv
<1>1. Init => Inv BY ChecksAssumption DEF Init, Inv, InvOf, IsDisk
<1>2. Inv /\ [Next]_vars => Inv' BY NextKeeps
<1> QED BY <1>1, <1>2, PTL DEF Spec

(* No error is reported only by hfsck, and only for a volume whose two     *)
(* trees have headers that can be read, on any medium, with any command    *)
(* line and whatever is answered.                                          *)
THEOREM GoodIsReadable == Spec => []GoodMeansReadable
<1>1. Inv => GoodMeansReadable
  BY DEF Inv, InvOf, GoodMeansReadable, FoundNone, Going, Idle, Readable
<1> QED BY <1>1, Invariant, PTL

(* What a step does to the medium: only the closing of hfsck changes it.   *)
LEMMA OnlyClosing ==
    ASSUME Inv, [Next]_vars, medium' # medium
    PROVE  /\ run.pc = "close" /\ InPhase(run, medium) /\ IsDisk(medium)
           /\ run.mode = "rw" /\ run.repair /\ medium' = Written(run)
<1>1. v_close
  BY DEF Next, vars, Begin, Open, EndWith, ck_mdb, ck_btree, check_mdb_enhanced,
         check_volume_structure_enhanced, check_allocation_bitmap, check_btree_enhanced,
         check_catalog_consistency, ClosedUnwritten, Killed
<1>2. run.pc = "close" /\ run.prog = "hfsck" /\ medium' = Written(run) BY <1>1 DEF v_close
<1>3. Going(run, medium) /\ IsDisk(medium) BY <1>2 DEF Inv, InvOf, Idle
<1>4. InPhase(run, medium) /\ (run.mode = "rw" => run.repair)
  BY <1>2, <1>3 DEF Going, Phases
<1>5. run.mode = "rw" BY <1>2 DEF Written
<1> QED BY <1>2, <1>3, <1>4, <1>5

(* A check asked to change nothing, or on a medium that cannot be written, *)
(* leaves the medium as it is.                                             *)
THEOREM LooksOnlyHolds == Spec => LooksOnly
<1>1. Inv /\ [Next]_vars => [run.pc # "idle" /\ ~ run.repair => medium' = medium]_<<medium>>
  BY OnlyClosing
<1> QED BY <1>1, Invariant, PTL DEF Spec, LooksOnly

(* A volume that a thorough repair has left is never changed by a check    *)
(* again, whatever its dates were and whatever is asked of later checks.   *)
THEOREM RepairLasts == Spec => RepairSettles
<1>1. Inv /\ [Next]_vars => [\A p \in settled : medium'[p] = medium[p]]_<<medium>>
  <2> SUFFICES ASSUME Inv, [Next]_vars, medium' # medium, NEW p \in settled
               PROVE  medium'[p] = medium[p]
    OBVIOUS
  <2>1. p \in DOMAIN medium /\ InOrder(medium[p].mdb) BY DEF Inv, InvOf
  <2>2. /\ run.pc = "close" /\ InPhase(run, medium) /\ IsDisk(medium)
        /\ medium' = Written(run)
    BY OnlyClosing
  <2> QED BY <2>1, <2>2, CloseIs
<1> QED BY <1>1, Invariant, PTL DEF Spec, RepairSettles
=============================================================================
