--------------------------- MODULE CommandsProofs ---------------------------
(***************************************************************************)
(* Proofs about the commands of hfsutils (Commands.tla): whatever runs at  *)
(* the same time and whatever disks are put in, a command changes nothing  *)
(* on a volume but on the one that its list names, except that it marks as *)
(* unmounted what it has mounted for writing (OnlyItsVolume); the list     *)
(* leads back to where a command that has succeeded was (WayBackHolds);    *)
(* and a command that no other has overlapped keeps the rest of the list   *)
(* (AloneKeeps).                                                           *)
(*                                                                         *)
(* The invariant Inv has, for each process, what its list may be           *)
(* (Steady) and that the volume it works on is what its medium holds       *)
(* (OnVolume); the locks are what keeps that so (Locked), and a process    *)
(* that is alone finds the file as it was read (Unseen).                   *)
(***************************************************************************)
EXTENDS Commands, Extremes, SequenceTheorems, TLAPS

Entries == [vname : Names, path : Paths, part : Int, cwd : Seq(Names)]

(* A list as a process has it: the current entry is one of its entries or  *)
(* none, and an entry makes it dirty.                                      *)
IsList(l) ==
    /\ l \in [cur : Int, ents : Seq(Entries), dirty : BOOLEAN]
    /\ -1 <= l.cur /\ l.cur < Len(l.ents)
    /\ l.dirty \/ l.ents = << >>

Settled(c, old, new) ==
    Keeps(old, new) /\ (Makes(c) \/ c.do = "hvol" \/ Current(new) = Current(old))

(* What a command makes of the list, when it has ended with result.        *)
Ended(c, result, old, new) ==
    IF c.do = "humount" /\ result = 0 THEN Forgets(old, new) ELSE Settled(c, old, new)

-----------------------------------------------------------------------------
(* The list.                                                               *)

(* The keys of entries are as many as the entries.                         *)
LEMMA KeysAre ==
    ASSUME NEW s \in Seq(Entries)
    PROVE  /\ Keys(s) \in Seq(Paths \X Int) /\ Len(Keys(s)) = Len(s)
           /\ DOMAIN Keys(s) = DOMAIN s /\ DOMAIN s = 1 .. Len(s) /\ Len(s) \in Nat
           /\ \A i \in 1 .. Len(s) : Keys(s)[i] = <<s[i].path, s[i].part>>
<1>1. /\ Len(s) \in Nat /\ DOMAIN s = 1 .. Len(s) /\ \A i \in 1 .. Len(s) : s[i] \in Entries
  BY LenProperties, ElementOfSeq
<1> DEFINE n == Len(s)
<1>2. Keys(s) = [i \in 1 .. n |-> <<s[i].path, s[i].part>>] BY <1>1 DEF Keys
<1>3. \A i \in 1 .. n : <<s[i].path, s[i].part>> \in Paths \X Int BY <1>1 DEF Entries
<1>4. Keys(s) \in [1 .. n -> Paths \X Int] BY <1>2, <1>3
<1>5. Keys(s) \in Seq(Paths \X Int) BY <1>1, <1>4, SeqDef
<1>6. n \in Nat /\ DOMAIN Keys(s) = 1 .. n BY <1>1, <1>2
<1> HIDE DEF n
<1>7. Len(Keys(s)) = n
  <2>1. Len(Keys(s)) \in Nat /\ DOMAIN Keys(s) = 1 .. Len(Keys(s)) BY <1>5, LenProperties
  <2> QED BY <1>6, <2>1
<1> QED BY <1>1, <1>2, <1>5, <1>6, <1>7 DEF n

(* A sequence is a prefix of another with the same first elements.         *)
LEMMA PrefixIs ==
    ASSUME NEW S, NEW s \in Seq(S), NEW t \in Seq(S), Len(s) <= Len(t),
           \A i \in 1 .. Len(s) : s[i] = t[i]
    PROVE  IsPrefix(s, t)
<1> DEFINE n == Len(s)
           a == SubSeq(t, 1, n)
<1>1. n \in Nat /\ Len(t) \in Nat BY LenProperties
<1>2. \A i \in 1 .. n : t[i] \in S BY <1>1, ElementOfSeq
<1>3. a \in Seq(S) /\ Len(a) = n /\ \A i \in 1 .. n : a[i] = t[i]
  <2>1. /\ a \in Seq(S) /\ Len(a) = IF 1 <= n THEN n - 1 + 1 ELSE 0
        /\ \A i \in 1 .. n - 1 + 1 : a[i] = t[1 + i - 1]
    BY <1>1, <1>2, SubSeqProperties
  <2> QED BY <1>1, <2>1
<1>4. a = s
  <2> HIDE DEF a
  <2> QED BY <1>3, SeqEqual
<1>5. SubSeq(s, 1, n) = s BY SubSeqFull
<1> QED BY <1>4, <1>5 DEF IsPrefix

(* Entries that stay where they are, and at most one more after them,      *)
(* keep the list when only the current one differs.                        *)
LEMMA KeepsIf ==
    ASSUME NEW l, IsList(l), NEW n, IsList(n),
           Len(l.ents) <= Len(n.ents), Len(n.ents) <= Len(l.ents) + 1,
           \A i \in 1 .. Len(l.ents) :
               /\ n.ents[i].path = l.ents[i].path /\ n.ents[i].part = l.ents[i].part
               /\ i = n.cur + 1 \/ n.ents[i] = l.ents[i]
    PROVE  Keeps(l, n)
<1>1. l.ents \in Seq(Entries) /\ n.ents \in Seq(Entries) BY DEF IsList
<1>2. /\ Keys(l.ents) \in Seq(Paths \X Int) /\ Len(Keys(l.ents)) = Len(l.ents)
      /\ DOMAIN l.ents = 1 .. Len(l.ents) /\ Len(l.ents) \in Nat
      /\ \A i \in 1 .. Len(l.ents) : Keys(l.ents)[i] = <<l.ents[i].path, l.ents[i].part>>
  BY <1>1, KeysAre
<1>3. /\ Keys(n.ents) \in Seq(Paths \X Int) /\ Len(Keys(n.ents)) = Len(n.ents)
      /\ DOMAIN n.ents = 1 .. Len(n.ents) /\ Len(n.ents) \in Nat
      /\ \A i \in 1 .. Len(n.ents) : Keys(n.ents)[i] = <<n.ents[i].path, n.ents[i].part>>
  BY <1>1, KeysAre
<1>4. ASSUME NEW i \in 1 .. Len(l.ents)
      PROVE  i \in 1 .. Len(n.ents) /\ Keys(l.ents)[i] = Keys(n.ents)[i]
  <2>1. i \in 1 .. Len(n.ents) BY <1>2, <1>3
  <2>2. Keys(n.ents)[i] = <<n.ents[i].path, n.ents[i].part>> BY <1>3, <2>1
  <2>3. Keys(l.ents)[i] = <<l.ents[i].path, l.ents[i].part>> BY <1>2
  <2> QED BY <2>1, <2>2, <2>3
<1>5. IsPrefix(Keys(l.ents), Keys(n.ents)) BY <1>2, <1>3, <1>4, PrefixIs
<1>6. ASSUME NEW i \in DOMAIN l.ents, Keys(l.ents)[i] \notin Current(n)
      PROVE  n.ents[i] = l.ents[i]
  <2>1. i \in 1 .. Len(l.ents) BY <1>2
  <2>2. i = n.cur + 1 => Keys(n.ents)[i] \in Current(n) BY <1>3, <1>4, <2>1 DEF Current
  <2> QED BY <1>4, <1>6, <2>1, <2>2
<1> QED BY <1>5, <1>6 DEF Keeps

(* A list that stays as it is.                                             *)
LEMMA KeepsSame == ASSUME NEW l, IsList(l), NEW c PROVE Settled(c, l, l)
<1>1. Len(l.ents) \in Nat BY LenProperties DEF IsList
<1>2. Keeps(l, l) BY <1>1, KeepsIf
<1> QED BY <1>2 DEF Settled

(* hmount and hformat: the entry of the medium and partition is made anew, *)
(* where it was, or at the end.                                            *)
LEMMA MountedKeeps ==
    ASSUME NEW l, IsList(l), NEW vname \in Names, NEW path \in Paths, NEW part \in Int,
           NEW n, n = hcwd_mounted(l, vname, path, part)
    PROVE  /\ IsList(n) /\ n.dirty /\ Keeps(l, n) /\ hasVol(n)
           /\ hcwd_getvol(n) = Entry(vname, path, part, << >>)
<1> DEFINE new  == Entry(vname, path, part, << >>)
           same == Listed(l, path, part)
           k    == Len(l.ents)
<1>1. l.ents \in Seq(Entries) /\ k \in Nat /\ DOMAIN l.ents = 1 .. k
  BY LenProperties DEF IsList
<1>2. new \in Entries
  <2>1. << >> \in Seq(Names) BY EmptySeq
  <2> QED BY <2>1 DEF Entry, Entries
<1>3. new.path = path /\ new.part = part BY DEF Entry
<1>4. /\ l.cur \in Int /\ l.dirty \in BOOLEAN
      /\ l = [cur |-> l.cur, ents |-> l.ents, dirty |-> l.dirty]
  BY DEF IsList
<1> HIDE DEF new
<1>5. CASE same = {}
  <2>1. n = [addent(l, new) EXCEPT !.cur = k] BY <1>5 DEF hcwd_mounted, new
  <2>2. n = [cur |-> k, ents |-> Append(l.ents, new), dirty |-> TRUE] BY <1>4, <2>1 DEF addent
  <2>3. n.ents = Append(l.ents, new) /\ n.cur = k /\ n.dirty = TRUE BY <2>2
  <2>4. /\ n.ents \in Seq(Entries) /\ Len(n.ents) = k + 1 /\ n.ents[k + 1] = new
        /\ \A i \in 1 .. k : n.ents[i] = l.ents[i]
    BY <1>1, <1>2, <2>3, AppendProperties
  <2>5. IsList(n) BY <1>1, <2>2, <2>3, <2>4 DEF IsList
  <2>6. Keeps(l, n) BY <1>1, <2>4, <2>5, KeepsIf
  <2> QED BY <1>1, <2>3, <2>4, <2>5, <2>6 DEF hasVol, NoVol, hcwd_getvol, new
<1>6. CASE same # {}
  <2> DEFINE m == Min(same)
  <2>1. same \in SUBSET Nat BY <1>1 DEF Listed
  <2>2. m \in same BY <1>6, <2>1, MinOf
  <2>3. m \in 1 .. k /\ l.ents[m].path = path /\ l.ents[m].part = part BY <1>1, <2>2 DEF Listed
  <2>4. n = [l EXCEPT !.ents[m] = new, !.cur = m - 1] BY <1>6 DEF hcwd_mounted, new
  <2> HIDE DEF m
  <2>5. n = [cur |-> m - 1, ents |-> [l.ents EXCEPT ![m] = new], dirty |-> l.dirty]
    BY <1>4, <2>4
  <2>6. n.ents = [l.ents EXCEPT ![m] = new] /\ n.cur = m - 1 /\ n.dirty = l.dirty BY <2>5
  <2>7. /\ n.ents \in Seq(Entries) /\ Len(n.ents) = k
        /\ \A i \in 1 .. k : n.ents[i] = IF i = m THEN new ELSE l.ents[i]
    BY <1>1, <1>2, <2>3, <2>6, ExceptSeq
  <2>8. l.dirty
    <3>1. l.ents # << >> BY <1>1, <2>3
    <3> QED BY <3>1 DEF IsList
  <2>9. IsList(n) BY <1>1, <1>4, <2>3, <2>5, <2>6, <2>7, <2>8 DEF IsList
  <2>10. Keeps(l, n) BY <1>1, <1>3, <2>3, <2>6, <2>7, <2>9, KeepsIf
  <2>11. hcwd_getvol(n) = new /\ n.cur # -1 BY <1>1, <2>3, <2>6, <2>7 DEF hcwd_getvol
  <2> QED BY <2>6, <2>8, <2>9, <2>10, <2>11 DEF hasVol, NoVol, new
<1> QED BY <1>5, <1>6

(* hvol: another entry is the current one.                                 *)
LEMMA SetvolKeeps ==
    ASSUME NEW l, IsList(l), NEW i \in DOMAIN l.ents, NEW n, n = hcwd_setvol(l, i - 1)
    PROVE  IsList(n) /\ n.dirty /\ Keeps(l, n) /\ hasVol(n)
<1>1. l.ents \in Seq(Entries) /\ Len(l.ents) \in Nat /\ DOMAIN l.ents = 1 .. Len(l.ents)
  BY LenProperties DEF IsList
<1>2. n = [cur |-> i - 1, ents |-> l.ents, dirty |-> l.dirty] BY DEF hcwd_setvol, IsList
<1>3. n.ents = l.ents /\ n.cur = i - 1 /\ n.dirty = l.dirty BY <1>2
<1>4. l.dirty BY <1>1 DEF IsList
<1>5. i \in Int /\ 1 <= i /\ i <= Len(l.ents) BY <1>1
<1>6. i - 1 \in Int /\ -1 <= i - 1 /\ i - 1 < Len(l.ents) /\ i - 1 # -1 BY <1>1, <1>5
<1>7. IsList(n) BY <1>1, <1>2, <1>3, <1>4, <1>6 DEF IsList
<1>8. Keeps(l, n) BY <1>1, <1>3, <1>7, KeepsIf
<1> QED BY <1>3, <1>4, <1>6, <1>7, <1>8 DEF hasVol, NoVol

(* hcd and hrename: the current entry says where we are.                   *)
LEMMA SetcwdKeeps ==
    ASSUME NEW l, IsList(l), hasVol(l), NEW full \in Seq(Names), full # << >>,
           NEW n, n = hcwd_setcwd(l, full)
    PROVE  /\ IsList(n) /\ n.dirty /\ Keeps(l, n) /\ hasVol(n) /\ Current(n) = Current(l)
           /\ hcwd_getvol(n).path = hcwd_getvol(l).path
           /\ hcwd_getvol(n).part = hcwd_getvol(l).part
           /\ hcwd_getvol(n).vname = Head(full) /\ hcwd_getvol(n).cwd = Tail(full)
<1> DEFINE k == Len(l.ents)
           m == l.cur + 1
           e == l.ents[m]
           new == [e EXCEPT !.vname = Head(full), !.cwd = Tail(full)]
<1>1. l.ents \in Seq(Entries) /\ k \in Nat /\ DOMAIN l.ents = 1 .. k BY LenProperties DEF IsList
<1>2. m \in 1 .. k BY <1>1 DEF IsList, hasVol, NoVol
<1>3. e \in Entries BY <1>1, <1>2, ElementOfSeq
<1>4. Head(full) \in Names /\ Tail(full) \in Seq(Names) BY HeadTailProperties
<1>5. new = [vname |-> Head(full), path |-> e.path, part |-> e.part, cwd |-> Tail(full)]
  <2>1. ASSUME NEW x \in Entries, NEW a, NEW d
        PROVE  [x EXCEPT !.vname = a, !.cwd = d]
                  = [vname |-> a, path |-> x.path, part |-> x.part, cwd |-> d]
    <3> DEFINE y == [x EXCEPT !.vname = a]
    <3>1. y = [vname |-> a, path |-> x.path, part |-> x.part, cwd |-> x.cwd] BY DEF Entries
    <3>2. \A p, q, r : [[vname |-> a, path |-> p, part |-> q, cwd |-> r] EXCEPT !.cwd = d]
                          = [vname |-> a, path |-> p, part |-> q, cwd |-> d]
      OBVIOUS
    <3>3. [x EXCEPT !.vname = a, !.cwd = d] = [y EXCEPT !.cwd = d] OBVIOUS
    <3> HIDE DEF y
    <3> QED BY <3>1, <3>2, <3>3
  <2> QED BY <1>3, <2>1
<1>6. new \in Entries BY <1>3, <1>4, <1>5 DEF Entries
<1>7. /\ l.cur \in Int /\ l.dirty \in BOOLEAN
      /\ l = [cur |-> l.cur, ents |-> l.ents, dirty |-> l.dirty]
  BY DEF IsList
<1> DEFINE s == [l.ents EXCEPT ![m] = new]
<1>8. n = [cur |-> l.cur, ents |-> s, dirty |-> l.dirty]
  <2>1. n = [l EXCEPT !.ents[m].vname = Head(full), !.ents[m].cwd = Tail(full)] BY DEF hcwd_setcwd
  <2>2. [l.ents EXCEPT ![m].vname = Head(full), ![m].cwd = Tail(full)] = s
    BY <1>1, <1>2, <1>3 DEF Entries
  <2>3. n = [l EXCEPT !.ents = [l.ents EXCEPT ![m].vname = Head(full), ![m].cwd = Tail(full)]]
    BY <1>1, <1>2, <1>7, <2>1
  <2> QED BY <1>7, <2>2, <2>3
<1> HIDE DEF new, m, s
<1>9. n.ents = s /\ n.cur = l.cur /\ n.dirty = l.dirty BY <1>8
<1>10. /\ s \in Seq(Entries) /\ Len(s) = k
       /\ \A i \in 1 .. k : s[i] = IF i = m THEN new ELSE l.ents[i]
  BY <1>1, <1>2, <1>6, ExceptSeq DEF s
<1>11. l.dirty BY <1>1, <1>2 DEF IsList
<1>12. IsList(n) BY <1>1, <1>7, <1>8, <1>9, <1>10, <1>11 DEF IsList
<1>13. new.path = e.path /\ new.part = e.part /\ new.vname = Head(full) /\ new.cwd = Tail(full)
  BY <1>5
<1>14. Keeps(l, n)
  <2>1. Len(l.ents) <= Len(n.ents) /\ Len(n.ents) <= Len(l.ents) + 1 BY <1>1, <1>9, <1>10
  <2>2. ASSUME NEW i \in 1 .. Len(l.ents)
        PROVE  /\ n.ents[i].path = l.ents[i].path /\ n.ents[i].part = l.ents[i].part
               /\ i = n.cur + 1 \/ n.ents[i] = l.ents[i]
    <3>1. n.ents[i] = IF i = m THEN new ELSE l.ents[i] BY <1>9, <1>10
    <3>2. m = n.cur + 1 /\ e = l.ents[m] BY <1>9 DEF m
    <3> HIDE DEF e
    <3> QED BY <1>13, <3>1, <3>2
  <2> QED BY <1>12, <2>1, <2>2, KeepsIf
<1>15. hcwd_getvol(n) = new /\ hcwd_getvol(l) = e BY <1>2, <1>9, <1>10 DEF hcwd_getvol, m
<1>16. hasVol(n) BY <1>9 DEF hasVol
<1>17. Keys(n.ents)[m] = Keys(l.ents)[m]
  <2>1. Keys(n.ents)[m] = <<s[m].path, s[m].part>> BY <1>2, <1>9, <1>10, KeysAre
  <2>2. Keys(l.ents)[m] = <<e.path, e.part>> BY <1>1, <1>2, KeysAre
  <2> QED BY <1>2, <1>10, <1>13, <2>1, <2>2
<1>18. DOMAIN n.ents = DOMAIN l.ents BY <1>1, <1>9, <1>10, LenProperties
<1>19. Current(n) = Current(l)
  <2>1. Current(n) = {Keys(n.ents)[m]} BY <1>1, <1>2, <1>9, <1>18 DEF Current, m
  <2>2. Current(l) = {Keys(l.ents)[m]} BY <1>1, <1>2 DEF Current, m
  <2> QED BY <1>17, <2>1, <2>2
<1> QED BY <1>9, <1>11, <1>12, <1>13, <1>14, <1>15, <1>16, <1>19

(* A sequence without one of its elements.                                 *)
LEMMA RemovedAt ==
    ASSUME NEW S, NEW s \in Seq(S), NEW i, i \in 1 .. Len(s), NEW r, r = RemoveAt(s, i)
    PROVE  /\ r \in Seq(S) /\ Len(r) = Len(s) - 1
           /\ \A j \in 1 .. Len(r) : r[j] = IF j < i THEN s[j] ELSE s[j + 1]
<1> DEFINE k == Len(s)
           a == SubSeq(s, 1, i - 1)
           b == SubSeq(s, i + 1, k)
<1>1. k \in Nat /\ i \in Int /\ 1 <= i /\ i <= k BY LenProperties
<1>2. \A j \in 1 .. k : s[j] \in S BY ElementOfSeq
<1> HIDE DEF k
<1>3. /\ a \in Seq(S) /\ Len(a) = IF 1 <= i - 1 THEN i - 1 - 1 + 1 ELSE 0
      /\ \A j \in 1 .. i - 1 - 1 + 1 : a[j] = s[1 + j - 1]
  <2>1. \A j \in 1 .. i - 1 : s[j] \in S BY <1>1, <1>2
  <2>2. 1 \in Int /\ i - 1 \in Int BY <1>1
  <2> QED BY <2>1, <2>2, SubSeqProperties
<1>4. /\ b \in Seq(S) /\ Len(b) = IF i + 1 <= k THEN k - (i + 1) + 1 ELSE 0
      /\ \A j \in 1 .. k - (i + 1) + 1 : b[j] = s[i + 1 + j - 1]
  <2>1. \A j \in i + 1 .. k : s[j] \in S BY <1>1, <1>2
  <2>2. i + 1 \in Int /\ k \in Int BY <1>1
  <2> QED BY <2>1, <2>2, SubSeqProperties
<1> HIDE DEF a, b
<1>5. Len(a) = i - 1 /\ Len(b) = k - i BY <1>1, <1>3, <1>4
<1>6. r = a \o b BY DEF RemoveAt, a, b, k
<1>7. /\ r \in Seq(S) /\ Len(r) = Len(a) + Len(b)
      /\ \A j \in 1 .. Len(a) + Len(b) : r[j] = IF j <= Len(a) THEN a[j] ELSE b[j - Len(a)]
  <2>1. a \in Seq(S) /\ b \in Seq(S) BY <1>3, <1>4
  <2>2. /\ a \o b \in Seq(S) /\ Len(a \o b) = Len(a) + Len(b)
        /\ \A j \in 1 .. Len(a) + Len(b) :
              (a \o b)[j] = IF j <= Len(a) THEN a[j] ELSE b[j - Len(a)]
    BY <2>1, ConcatProperties
  <2> QED BY <1>6, <2>2
<1>8. Len(r) = k - 1 BY <1>1, <1>5, <1>7
<1>9. ASSUME NEW j \in 1 .. Len(r) PROVE r[j] = IF j < i THEN s[j] ELSE s[j + 1]
  <2>1. j \in Int /\ 1 <= j /\ j <= k - 1 BY <1>1, <1>8
  <2>2. r[j] = IF j <= i - 1 THEN a[j] ELSE b[j - (i - 1)] BY <1>1, <1>5, <1>7, <2>1
  <2>3. CASE j < i
    <3>1. j <= i - 1 /\ j \in 1 .. i - 1 - 1 + 1 /\ 1 + j - 1 = j BY <1>1, <2>1, <2>3
    <3> QED BY <1>3, <2>2, <2>3, <3>1
  <2>4. CASE ~ (j < i)
    <3>1. ~ (j <= i - 1) /\ j - (i - 1) \in 1 .. k - (i + 1) + 1 BY <1>1, <2>1, <2>4
    <3>2. i + 1 + (j - (i - 1)) - 1 = j + 1 BY <1>1, <2>1
    <3>3. b[j - (i - 1)] = s[j + 1] BY <1>4, <3>1, <3>2
    <3> QED BY <2>2, <2>4, <3>1, <3>3
  <2> QED BY <2>3, <2>4
<1> QED BY <1>7, <1>8, <1>9 DEF k

(* humount: one entry goes, and the current one is current where it is     *)
(* now, unless it has gone.                                                *)
LEMMA UmountedForgets ==
    ASSUME NEW l, IsList(l), NEW i, i \in DOMAIN l.ents, NEW n, n = hcwd_umounted(l, i - 1)
    PROVE  IsList(n) /\ n.dirty /\ Forgets(l, n)
<1> DEFINE k == Len(l.ents)
           cur == l.cur
           r == RemoveAt(l.ents, i)
           now == IF cur > i - 1 THEN cur - 1 ELSE IF cur = i - 1 THEN -1 ELSE cur
<1>1. l.ents \in Seq(Entries) /\ k \in Nat /\ DOMAIN l.ents = 1 .. k BY LenProperties DEF IsList
<1>2. i \in 1 .. k /\ i \in Int /\ 1 <= i /\ i <= k BY <1>1
<1>3. cur \in Int /\ -1 <= cur /\ cur < k /\ l.dirty \in BOOLEAN BY DEF IsList
<1>4. n = [cur |-> now, ents |-> r, dirty |-> l.dirty]
  <2>1. n = [l EXCEPT !.ents = RemoveAt(l.ents, i),
                      !.cur = IF l.cur > i - 1 THEN l.cur - 1
                              ELSE IF l.cur = i - 1 THEN -1 ELSE l.cur]
    <3>1. i - 1 + 1 = i BY <1>2
    <3> QED BY <3>1 DEF hcwd_umounted, NoVol
  <2>2. l = [cur |-> l.cur, ents |-> l.ents, dirty |-> l.dirty] BY DEF IsList
  <2> QED BY <2>1, <2>2
<1>5. n.ents = r /\ n.cur = now /\ n.dirty = l.dirty BY <1>4
<1>6. /\ r \in Seq(Entries) /\ Len(r) = k - 1
      /\ \A j \in 1 .. Len(r) : r[j] = IF j < i THEN l.ents[j] ELSE l.ents[j + 1]
  <2>1. i \in 1 .. Len(l.ents) /\ l.ents \in Seq(Entries) BY <1>1, <1>2
  <2> HIDE DEF now, cur
  <2> QED BY <2>1, RemovedAt, SMTT(30)
<1>7. DOMAIN r = 1 .. k - 1 BY <1>6, LenProperties
<1>8. l.dirty BY <1>1, <1>2 DEF IsList
<1>9. now \in Int /\ -1 <= now /\ now < k - 1
      /\ (now = -1 <=> cur = i - 1 \/ cur = -1)
      /\ (now # -1 => IF now + 1 < i THEN now = cur ELSE now + 1 = cur)
  BY <1>2, <1>3
<1> HIDE DEF r, now, cur
<1>10. IsList(n) BY <1>3, <1>4, <1>5, <1>6, <1>8, <1>9 DEF IsList
<1>11. Current(n) = IF i = cur + 1 THEN {} ELSE Current(l)
  <2>1. CASE now = -1
    <3>1. now + 1 \notin DOMAIN n.ents BY <1>5, <1>7, <2>1
    <3>2. Current(n) = {} BY <1>5, <3>1 DEF Current
    <3>3. cur = -1 => Current(l) = {} BY <1>1 DEF Current, cur
    <3>4. i = cur + 1 <=> cur = i - 1 BY <1>2, <1>3
    <3> QED BY <1>9, <2>1, <3>2, <3>3, <3>4
  <2>2. CASE now # -1
    <3>1. now + 1 \in DOMAIN n.ents /\ now + 1 \in 1 .. Len(r) BY <1>5, <1>6, <1>7, <1>9, <2>2, <1>1
    <3>2. i # cur + 1 BY <1>2, <1>3, <1>9, <2>2
    <3>3. cur + 1 \in 1 .. k BY <1>1, <1>2, <1>3, <1>9, <2>2
    <3>4. r[now + 1] = l.ents[cur + 1]
      <4>1. r[now + 1] = IF now + 1 < i THEN l.ents[now + 1] ELSE l.ents[now + 1 + 1]
        BY <1>6, <3>1
      <4> QED BY <1>2, <1>3, <1>9, <2>2, <4>1
    <3>5. Current(n) = {Keys(n.ents)[now + 1]} BY <1>5, <3>1 DEF Current
    <3>6. Current(l) = {Keys(l.ents)[cur + 1]} BY <1>1, <3>3 DEF Current, cur
    <3>7. Keys(n.ents)[now + 1] = <<r[now + 1].path, r[now + 1].part>>
      BY <1>5, <1>6, <3>1, KeysAre
    <3>8. Keys(l.ents)[cur + 1] = <<l.ents[cur + 1].path, l.ents[cur + 1].part>>
      BY <1>1, <3>3, KeysAre
    <3> QED BY <3>2, <3>4, <3>5, <3>6, <3>7, <3>8
  <2> QED BY <2>1, <2>2
<1>12. Forgets(l, n)
  <2>1. n.ents = RemoveAt(l.ents, i) BY <1>5 DEF r
  <2> QED BY <1>11, <2>1 DEF Forgets, cur
<1> QED BY <1>5, <1>8, <1>10, <1>12

(* What the file may hold.                                                 *)
IsFile(f) == f \in [cur : Int, ents : Seq(Entries)]

(* What is read from the file is a list.                                   *)
LEMMA ReadIsList == ASSUME IsFile(file) PROVE IsList(hcwd_init)
<1> DEFINE cur == IF file.cur \in 0 .. Len(file.ents) - 1 THEN file.cur ELSE NoVol
<1>1. file.ents \in Seq(Entries) /\ Len(file.ents) \in Nat BY LenProperties DEF IsFile
<1>2. cur \in Int /\ -1 <= cur /\ cur < Len(file.ents) BY <1>1 DEF NoVol
<1>3. hcwd_init = [cur |-> cur, ents |-> file.ents, dirty |-> file.ents # << >>] BY DEF hcwd_init
<1> HIDE DEF cur
<1> QED BY <1>1, <1>2, <1>3 DEF IsList

(* The file keeps the list that is written to it when it is empty.         *)
LEMMA OverlaidIsFile ==
    ASSUME NEW old, IsFile(old), NEW l, IsList(l)
    PROVE  /\ IsFile(Overlaid(old, l))
           /\ old = Empty => Overlaid(old, l).ents = l.ents /\ Overlaid(old, l).cur = l.cur
<1> DEFINE k == Len(l.ents)
           m == Len(old.ents)
           rest == SubSeq(old.ents, k + 1, m)
<1>1. /\ l.ents \in Seq(Entries) /\ old.ents \in Seq(Entries) /\ l.cur \in Int
      /\ k \in Nat /\ m \in Nat
  BY LenProperties DEF IsList, IsFile
<1>2. Overlaid(old, l) = [cur |-> l.cur, ents |-> l.ents \o rest] BY DEF Overlaid
<1>3. rest \in Seq(Entries)
  <2>1. \A j \in 1 .. m : old.ents[j] \in Entries BY <1>1, ElementOfSeq
  <2> HIDE DEF k, m
  <2>2. \A j \in k + 1 .. m : old.ents[j] \in Entries BY <1>1, <2>1
  <2>3. k + 1 \in Int /\ m \in Int BY <1>1
  <2> QED BY <2>2, <2>3, SubSeqProperties
<1>4. l.ents \o rest \in Seq(Entries) BY <1>1, <1>3, ConcatProperties
<1>5. ASSUME old = Empty PROVE l.ents \o rest = l.ents
  <2>1. old.ents = << >> BY <1>5 DEF Empty
  <2>2. m = 0 BY <2>1
  <2>3. rest = << >> BY <1>1, <2>2, SubSeqEmpty
  <2> QED BY <1>1, <2>3, ConcatEmptySeq
<1> HIDE DEF rest
<1> QED BY <1>1, <1>2, <1>4, <1>5 DEF IsFile

-----------------------------------------------------------------------------
(* Volumes, and what a command does to one.                                *)
Volumes == [dirs : SUBSET Seq(Names), files : SUBSET Seq(Names)]
Vol(dirs, fls) == [dirs |-> dirs, files |-> fls]

Under(x, n) == Len(x) > 0 /\ Head(x) = n

Of(v, n) == /\ v \in Volumes /\ n \in Names /\ <<n>> \in v.dirs
            /\ \A x \in v.dirs : Under(x, n)
            /\ \A x \in v.files : Len(x) > 1

(* A command at work, the one that cannot write does not change the volume.*)
Works == [v : Volumes, ro : BOOLEAN, cwd : Seq(Names), ok : BOOLEAN]
Working(w) == /\ w \in Works
              /\ IsVolume(w.v) /\ w.cwd # << >>

Goes(w, u) == Working(u) /\ u.ro = w.ro /\ (w.ro => u.v = w.v)

Home(w) == w.cwd \in w.v.dirs

Made(v, ro, cwd, ok) == [v |-> v, ro |-> ro, cwd |-> cwd, ok |-> ok]

(* What one assignment to a command's state makes of it.                   *)
LEMMA Changed ==
    ASSUME NEW w \in Works, NEW x
    PROVE  /\ w = Made(w.v, w.ro, w.cwd, w.ok) /\ w.v = Vol(w.v.dirs, w.v.files)
           /\ [w EXCEPT !.ok = x] = Made(w.v, w.ro, w.cwd, x)
           /\ [w EXCEPT !.cwd = x] = Made(w.v, w.ro, x, w.ok)
           /\ [w EXCEPT !.v.dirs = x] = Made(Vol(x, w.v.files), w.ro, w.cwd, w.ok)
           /\ [w EXCEPT !.v.files = x] = Made(Vol(w.v.dirs, x), w.ro, w.cwd, w.ok)
<1>1. w = Made(w.v, w.ro, w.cwd, w.ok) BY DEF Works, Made
<1>2. w.v \in Volumes BY DEF Works
<1>3. \A v \in Volumes : /\ v = Vol(v.dirs, v.files)
                         /\ [v EXCEPT !.dirs = x] = Vol(x, v.files)
                         /\ [v EXCEPT !.files = x] = Vol(v.dirs, x)
  BY DEF Volumes, Vol
<1>4. [w EXCEPT !.ok = x] = Made(w.v, w.ro, w.cwd, x) BY DEF Works, Made
<1>5. [w EXCEPT !.cwd = x] = Made(w.v, w.ro, x, w.ok) BY DEF Works, Made
<1>6. [w EXCEPT !.v.dirs = x] = Made([w.v EXCEPT !.dirs = x], w.ro, w.cwd, w.ok)
  BY DEF Works, Made
<1>7. [w EXCEPT !.v.files = x] = Made([w.v EXCEPT !.files = x], w.ro, w.cwd, w.ok)
  BY DEF Works, Made
<1> QED BY <1>1, <1>2, <1>3, <1>4, <1>5, <1>6, <1>7

(* The parts of a command's state.                                         *)
LEMMA MadeIs ==
    ASSUME NEW v, NEW ro, NEW cwd, NEW ok, NEW u, u = Made(v, ro, cwd, ok)
    PROVE  u.v = v /\ u.ro = ro /\ u.cwd = cwd /\ u.ok = ok
BY DEF Made

(* A volume has one name.                                                  *)
LEMMA VolumeOf == ASSUME NEW v PROVE IsVolume(v) <=> \E n \in Names : Of(v, n)
BY DEF IsVolume, Of, Volumes, Under

(* The name of a volume is that of its root, which is one of its           *)
(* directories.                                                            *)
LEMMA NameIs ==
    ASSUME NEW v, NEW n, Of(v, n)
    PROVE  NameOf(v) = n /\ RootOf(v) = <<n>> /\ RootOf(v) \in v.dirs
<1> DEFINE d == CHOOSE x \in v.dirs : Len(x) = 1
<1>1. <<n>> \in v.dirs /\ Len(<<n>>) = 1 BY DEF Of
<1>2. d \in v.dirs BY <1>1
<1>3. Head(d) = n BY <1>2 DEF Of, Under
<1>4. NameOf(v) = n BY <1>3 DEF NameOf
<1> QED BY <1>1, <1>4 DEF RootOf

(* What a directory of the path, and the path, have in common.             *)
LEMMA FrontIs ==
    ASSUME NEW x \in Seq(Names)
    PROVE  /\ Front(x) \in Seq(Names)
           /\ Len(Front(x)) = IF Len(x) > 0 THEN Len(x) - 1 ELSE 0
           /\ \A n : Under(Front(x), n) => Under(x, n) /\ Len(x) > 1
<1> DEFINE k == Len(x)
           f == Front(x)
<1>1. k \in Nat /\ \A i \in 1 .. k : x[i] \in Names BY LenProperties, ElementOfSeq
<1>2. f = SubSeq(x, 1, k - 1) BY DEF Front
<1>3. /\ f \in Seq(Names) /\ Len(f) = IF 1 <= k - 1 THEN k - 1 - 1 + 1 ELSE 0
      /\ \A i \in 1 .. k - 1 - 1 + 1 : f[i] = x[1 + i - 1]
  <2> HIDE DEF k, f
  <2>1. 1 \in Int /\ k - 1 \in Int /\ \A i \in 1 .. k - 1 : x[i] \in Names BY <1>1
  <2> QED BY <1>2, <2>1, SubSeqProperties
<1>4. Len(f) = IF k > 0 THEN k - 1 ELSE 0
  <2> HIDE DEF k, f
  <2> QED BY <1>1, <1>3
<1>5. ASSUME NEW n, Under(f, n) PROVE Under(x, n) /\ k > 1
  <2>1. Len(f) > 0 /\ Head(f) = n BY <1>5 DEF Under
  <2>2. k > 1
    <3> HIDE DEF k, f
    <3> QED BY <1>1, <1>4, <2>1
  <2>3. f[1] = x[1]
    <3> HIDE DEF k, f
    <3>1. 1 \in 1 .. k - 1 - 1 + 1 /\ 1 + 1 - 1 = 1 BY <1>1, <2>2
    <3> QED BY <1>3, <3>1
  <2>4. Head(f) = f[1] /\ Head(x) = x[1] OBVIOUS
  <2> QED BY <2>1, <2>2, <2>3, <2>4 DEF Under
<1> QED BY <1>3, <1>4, <1>5

(* What a call leaves: a volume of the same name, or of another.           *)
LEMMA MadeGoes ==
    ASSUME NEW w, Working(w), NEW v, NEW n, Of(v, n), w.ro => v = w.v,
           NEW cwd \in Seq(Names), cwd # << >>, NEW ok \in BOOLEAN,
           NEW u, u = Made(v, w.ro, cwd, ok)
    PROVE  Goes(w, u)
<1>1. v \in Volumes /\ IsVolume(v) BY VolumeOf DEF Of
<1>2. w.ro \in BOOLEAN BY DEF Working, Works
<1>3. u.v = v /\ u.ro = w.ro /\ u.cwd = cwd /\ u.ok = ok BY MadeIs
<1>4. u \in Works BY <1>1, <1>2 DEF Made, Works
<1> QED BY <1>1, <1>3, <1>4 DEF Goes, Working

(* The parts of the state of a command that is at work.                    *)
LEMMA WorkIs ==
    ASSUME NEW w, Working(w)
    PROVE  /\ w \in Works /\ w = Made(w.v, w.ro, w.cwd, w.ok) /\ w.v = Vol(w.v.dirs, w.v.files)
           /\ w.cwd \in Seq(Names) /\ w.cwd # << >> /\ w.ok \in BOOLEAN /\ w.ro \in BOOLEAN
           /\ w.v \in Volumes /\ w.v.dirs \in SUBSET Seq(Names) /\ w.v.files \in SUBSET Seq(Names)
           /\ \E n \in Names : Of(w.v, n)
<1>1. w \in Works BY DEF Working
<1>2. /\ w.v \in Volumes /\ w.cwd \in Seq(Names) /\ w.ok \in BOOLEAN /\ w.ro \in BOOLEAN
  BY <1>1 DEF Works
<1>3. w.v.dirs \in SUBSET Seq(Names) /\ w.v.files \in SUBSET Seq(Names) BY <1>2 DEF Volumes
<1> QED BY <1>1, <1>2, <1>3, VolumeOf, Changed DEF Working

(* One that fails leaves the volume and the current directory as they are. *)
LEMMA FailGoes ==
    ASSUME NEW w, Working(w)
    PROVE  /\ Goes(w, Fail(w)) /\ Goes(w, w) /\ ~ Fail(w).ok
           /\ Fail(w).v = w.v /\ Fail(w).cwd = w.cwd /\ Fail(w).ro = w.ro
<1>1. PICK n \in Names : Of(w.v, n) BY WorkIs
<1>2. Fail(w) = Made(w.v, w.ro, w.cwd, FALSE) BY WorkIs, Changed DEF Fail
<1>3. Fail(w).v = w.v /\ Fail(w).cwd = w.cwd /\ Fail(w).ro = w.ro /\ ~ Fail(w).ok
  <2>1. ASSUME NEW u, u = Made(w.v, w.ro, w.cwd, FALSE)
        PROVE  u.v = w.v /\ u.cwd = w.cwd /\ u.ro = w.ro /\ ~ u.ok
    BY <2>1 DEF Made
  <2> QED BY <1>2, <2>1
<1>4. Goes(w, Fail(w)) BY <1>1, <1>2, MadeGoes, WorkIs
<1> QED BY <1>3, <1>4 DEF Goes

(* A new directory is on the volume that the one it is in is on.           *)
LEMMA MkdirGoes ==
    ASSUME NEW w, Working(w), NEW path \in Seq(Names)
    PROVE  Goes(w, hfs_mkdir(w, path))
<1>1. CASE w.ro \/ path \in w.v.dirs \cup w.v.files \/ Front(path) \notin w.v.dirs
  BY <1>1, FailGoes DEF hfs_mkdir
<1>2. CASE ~ (w.ro \/ path \in w.v.dirs \cup w.v.files \/ Front(path) \notin w.v.dirs)
  <2> DEFINE v == Vol(w.v.dirs \cup {path}, w.v.files)
  <2>1. PICK n \in Names : Of(w.v, n) BY WorkIs
  <2>2. hfs_mkdir(w, path) = Made(v, w.ro, w.cwd, w.ok)
    <3>1. hfs_mkdir(w, path) = [w EXCEPT !.v.dirs = @ \cup {path}] BY <1>2 DEF hfs_mkdir
    <3> QED BY <3>1, WorkIs, Changed
  <2>3. Under(path, n) BY <1>2, <2>1, FrontIs DEF Of
  <2>4. v \in Volumes /\ v.dirs = w.v.dirs \cup {path} /\ v.files = w.v.files
    BY WorkIs DEF Volumes, Vol
  <2> HIDE DEF v
  <2>5. Of(v, n) BY <2>1, <2>3, <2>4 DEF Of
  <2> QED BY <1>2, <2>2, <2>5, MadeGoes, WorkIs
<1> QED BY <1>1, <1>2

(* So is a new file.                                                       *)
LEMMA CopyInGoes ==
    ASSUME NEW w, Working(w), NEW path \in Seq(Names)
    PROVE  Goes(w, CopyIn(w, path))
<1>1. CASE w.ro \/ path \in w.v.dirs \/ Front(path) \notin w.v.dirs
  BY <1>1, FailGoes DEF CopyIn
<1>2. CASE ~ (w.ro \/ path \in w.v.dirs \/ Front(path) \notin w.v.dirs)
  <2> DEFINE v == Vol(w.v.dirs, w.v.files \cup {path})
  <2>1. PICK n \in Names : Of(w.v, n) BY WorkIs
  <2>2. CopyIn(w, path) = Made(v, w.ro, w.cwd, w.ok)
    <3>1. CopyIn(w, path) = [w EXCEPT !.v.files = @ \cup {path}] BY <1>2 DEF CopyIn
    <3> QED BY <3>1, WorkIs, Changed
  <2>3. Len(path) > 1 BY <1>2, <2>1, FrontIs DEF Of
  <2>4. v \in Volumes /\ v.dirs = w.v.dirs /\ v.files = w.v.files \cup {path}
    BY WorkIs DEF Volumes, Vol
  <2> HIDE DEF v
  <2>5. Of(v, n) BY <2>1, <2>3, <2>4 DEF Of
  <2> QED BY <1>2, <2>2, <2>5, MadeGoes, WorkIs
<1> QED BY <1>1, <1>2

(* The root is not removed.                                                *)
LEMMA RmdirGoes ==
    ASSUME NEW w, Working(w), NEW path
    PROVE  Goes(w, hfs_rmdir(w, path))
<1> DEFINE Not == \/ w.ro \/ path \notin w.v.dirs \/ Len(path) = 1
                  \/ \E x \in w.v.dirs \cup w.v.files : Within(path, x) /\ x # path
<1>1. CASE Not BY <1>1, FailGoes DEF hfs_rmdir
<1>2. CASE ~ Not
  <2> DEFINE v == Vol(w.v.dirs \ {path}, w.v.files)
  <2>1. PICK n \in Names : Of(w.v, n) BY WorkIs
  <2>2. hfs_rmdir(w, path) = Made(v, w.ro, w.cwd, w.ok)
    <3>1. hfs_rmdir(w, path) = [w EXCEPT !.v.dirs = @ \ {path}] BY <1>2 DEF hfs_rmdir
    <3> QED BY <3>1, WorkIs, Changed
  <2>3. path # <<n>> BY <1>2
  <2>4. v \in Volumes /\ v.dirs = w.v.dirs \ {path} /\ v.files = w.v.files
    BY WorkIs DEF Volumes, Vol
  <2> HIDE DEF v
  <2>5. Of(v, n) BY <2>1, <2>3, <2>4 DEF Of
  <2> QED BY <1>2, <2>2, <2>5, MadeGoes, WorkIs
<1> QED BY <1>1, <1>2

(* Nor does hdel remove a directory.                                       *)
LEMMA DeleteGoes ==
    ASSUME NEW w, Working(w), NEW path
    PROVE  Goes(w, hfs_delete(w, path))
<1>1. CASE w.ro \/ path \notin w.v.files BY <1>1, FailGoes DEF hfs_delete
<1>2. CASE ~ (w.ro \/ path \notin w.v.files)
  <2> DEFINE v == Vol(w.v.dirs, w.v.files \ {path})
  <2>1. PICK n \in Names : Of(w.v, n) BY WorkIs
  <2>2. hfs_delete(w, path) = Made(v, w.ro, w.cwd, w.ok)
    <3>1. hfs_delete(w, path) = [w EXCEPT !.v.files = @ \ {path}] BY <1>2 DEF hfs_delete
    <3> QED BY <3>1, WorkIs, Changed
  <2>3. v \in Volumes /\ v.dirs = w.v.dirs /\ v.files = w.v.files \ {path}
    BY WorkIs DEF Volumes, Vol
  <2> HIDE DEF v
  <2>4. Of(v, n) BY <2>1, <2>3 DEF Of
  <2> QED BY <1>2, <2>2, <2>4, MadeGoes, WorkIs
<1> QED BY <1>1, <1>2

(* What only looks, or makes a directory that may be there, keeps a volume *)
(* too.                                                                    *)
LEMMA LooksGo ==
    ASSUME NEW w, Working(w), NEW path \in Seq(Names)
    PROVE  /\ Goes(w, Look(w, path)) /\ Goes(w, SetAttr(w, path)) /\ Goes(w, do_copyout(w, path))
           /\ Goes(w, MakeDir(w, path))
BY FailGoes, MkdirGoes DEF Look, SetAttr, do_copyout, MakeDir

-----------------------------------------------------------------------------
(* What moves with a directory keeps its path below it.                    *)
LEMMA MovedIs ==
    ASSUME NEW src \in Seq(Names), src # << >>, NEW dst \in Seq(Names), dst # << >>,
           NEW x \in Seq(Names), NEW y, y = Moved(src, dst, x)
    PROVE  /\ y \in Seq(Names) /\ (~ Within(src, x) => y = x)
           /\ Within(src, x) => /\ Len(src) <= Len(x) /\ Len(y) = Len(dst) + (Len(x) - Len(src))
                                /\ Len(y) > 0 /\ Head(y) = Head(dst)
<1>1. CASE ~ Within(src, x) BY <1>1 DEF Moved
<1>2. CASE Within(src, x)
  <2> DEFINE k == Len(src)
             d == Len(dst)
             n == Len(x)
             r == SubSeq(x, k + 1, n)
  <2>1. k \in Nat /\ n \in Nat /\ d \in Nat /\ d > 0 BY LenProperties, EmptySeq
  <2>2. k <= n BY <1>2 DEF Within, IsPrefix
  <2>3. \A i \in 1 .. n : x[i] \in Names BY ElementOfSeq
  <2>4. y = dst \o r BY <1>2 DEF Moved
  <2>5. r \in Seq(Names) /\ Len(r) = n - k
    <3> HIDE DEF k, n, d
    <3>1. \A i \in k + 1 .. n : x[i] \in Names BY <2>1, <2>3
    <3>2. r \in Seq(Names) /\ Len(r) = IF k + 1 <= n THEN n - (k + 1) + 1 ELSE 0
      BY <2>1, <3>1, SubSeqProperties
    <3> QED BY <2>1, <2>2, <3>2
  <2> HIDE DEF r
  <2>6. /\ y \in Seq(Names) /\ Len(y) = d + Len(r)
        /\ \A i \in 1 .. d + Len(r) : y[i] = IF i <= d THEN dst[i] ELSE r[i - d]
    <3>1. /\ dst \o r \in Seq(Names) /\ Len(dst \o r) = d + Len(r)
          /\ \A i \in 1 .. d + Len(r) : (dst \o r)[i] = IF i <= d THEN dst[i] ELSE r[i - d]
      BY <2>5, ConcatProperties
    <3> QED BY <2>4, <3>1
  <2>7. Len(y) = d + (n - k) /\ Len(y) > 0 /\ y[1] = dst[1]
    <3> HIDE DEF k, n, d
    <3> QED BY <2>1, <2>2, <2>5, <2>6
  <2>8. Head(y) = y[1] /\ Head(dst) = dst[1] OBVIOUS
  <2> QED BY <1>2, <2>2, <2>6, <2>7, <2>8
<1> QED BY <1>1, <1>2

(* Everything on a volume is below its root.                               *)
LEMMA AllBelow ==
    ASSUME NEW src \in Seq(Names), Len(src) = 1, NEW x \in Seq(Names), Under(x, Head(src))
    PROVE  Within(src, x)
<1> DEFINE n == Len(x)
<1>1. n \in Nat /\ n > 0 BY LenProperties DEF Under
<1>2. x[1] = src[1] BY DEF Under
<1> HIDE DEF n
<1>3. Len(src) <= n /\ \A i \in 1 .. Len(src) : src[i] = x[i]
  <2>1. \A i \in 1 .. 1 : i = 1 OBVIOUS
  <2> QED BY <1>1, <1>2, <2>1
<1> QED BY <1>3, PrefixIs DEF n, Within

(* What three assignments make of a command's state.                       *)
LEMMA RelocateIs ==
    ASSUME NEW w \in Works, NEW x, NEW y, NEW z,
           NEW u, u = [w EXCEPT !.v.dirs = x, !.v.files = y, !.cwd = z]
    PROVE  u = Made(Vol(x, y), w.ro, z, w.ok)
<1> DEFINE a == [w EXCEPT !.v.dirs = x]
           b == [a EXCEPT !.v.files = y]
<1>1. u = [b EXCEPT !.cwd = z] OBVIOUS
<1>2. a = Made(Vol(x, w.v.files), w.ro, w.cwd, w.ok) BY Changed
<1>3. \A v, ro, cwd, ok : [Made(v, ro, cwd, ok) EXCEPT !.v.files = y]
                             = Made([v EXCEPT !.files = y], ro, cwd, ok)
  BY DEF Made
<1>4. \A s, t : [Vol(s, t) EXCEPT !.files = y] = Vol(s, y) BY DEF Vol
<1>5. \A v, ro, cwd, ok : [Made(v, ro, cwd, ok) EXCEPT !.cwd = z] = Made(v, ro, z, ok)
  BY DEF Made
<1> HIDE DEF a
<1>6. b = Made(Vol(x, y), w.ro, w.cwd, w.ok) BY <1>2, <1>3, <1>4
<1> HIDE DEF b
<1>7. [Made(Vol(x, y), w.ro, w.cwd, w.ok) EXCEPT !.cwd = z] = Made(Vol(x, y), w.ro, z, w.ok)
  BY <1>5
<1> QED BY <1>1, <1>6, <1>7

(* What moves to another directory stays on the volume; the volume itself  *)
(* gets another name.                                                      *)
LEMMA RelocateGoes ==
    ASSUME NEW w, Working(w), ~ w.ro, NEW src \in Seq(Names), src # << >>,
           NEW to \in Seq(Names), to # << >>, src \in w.v.dirs \cup w.v.files,
           \/ Len(src) = 1 /\ Len(to) = 1
           \/ Len(src) > 1 /\ Len(to) > 1 /\ Front(to) \in w.v.dirs,
           NEW u, u = Relocate(w, src, to)
    PROVE  Goes(w, u) /\ u.ok = w.ok /\ (Home(w) => Home(u))
<1> DEFINE M(x) == Moved(src, to, x)
           dirs == {M(x) : x \in w.v.dirs}
           fls  == {M(x) : x \in w.v.files}
<1>1. PICK n \in Names : Of(w.v, n) BY WorkIs
<1>2. /\ w.v.dirs \in SUBSET Seq(Names) /\ w.v.files \in SUBSET Seq(Names)
      /\ w \in Works /\ w.cwd \in Seq(Names) /\ w.cwd # << >> /\ w.ok \in BOOLEAN
      /\ Len(src) \in Nat /\ Len(to) \in Nat
  BY WorkIs, LenProperties
<1>3. u = Made(Vol(dirs, fls), w.ro, M(w.cwd), w.ok)
  <2>1. u = [w EXCEPT !.v.dirs = dirs, !.v.files = fls, !.cwd = M(w.cwd)] BY DEF Relocate
  <2> HIDE DEF dirs, fls, M
  <2> QED BY <1>2, <2>1, RelocateIs
<1>4. ASSUME NEW x \in Seq(Names)
      PROVE  /\ M(x) \in Seq(Names) /\ (~ Within(src, x) => M(x) = x)
             /\ Within(src, x) => /\ Len(src) <= Len(x) /\ Len(M(x)) = Len(to) + (Len(x) - Len(src))
                                  /\ Len(M(x)) > 0 /\ Head(M(x)) = Head(to)
  BY MovedIs
<1>5. \A x \in Seq(Names) : Len(x) \in Nat BY LenProperties
<1> HIDE DEF M
<1>6. \A x \in w.v.files : Len(M(x)) > 1
  <2> SUFFICES ASSUME NEW x \in w.v.files PROVE Len(M(x)) > 1 OBVIOUS
  <2>1. x \in Seq(Names) /\ Len(x) > 1 BY <1>1, <1>2 DEF Of
  <2>2. /\ ~ Within(src, x) => M(x) = x
        /\ Within(src, x) => Len(src) <= Len(x) /\ Len(M(x)) = Len(to) + (Len(x) - Len(src))
    BY <1>4, <2>1
  <2>3. Len(x) \in Nat BY <1>5, <2>1
  <2> QED BY <1>2, <2>1, <2>2, <2>3
<1>7. \E m \in Names : <<m>> \in dirs /\ \A x \in w.v.dirs : Under(M(x), m)
  <2>1. CASE Len(src) = 1 /\ Len(to) = 1
    <3>1. src \in w.v.dirs /\ Under(src, n)
      <4>1. ~ (Len(src) > 1) BY <2>1
      <4>2. src \notin w.v.files BY <1>1, <4>1 DEF Of
      <4> QED BY <1>1, <4>2 DEF Of
    <3>2. \A x \in w.v.dirs : Within(src, x)
      <4> SUFFICES ASSUME NEW x \in w.v.dirs PROVE Within(src, x) OBVIOUS
      <4>1. Under(x, n) /\ x \in Seq(Names) BY <1>1, <1>2 DEF Of
      <4> QED BY <2>1, <3>1, <4>1, AllBelow DEF Under
    <3>3. \A x \in w.v.dirs : Under(M(x), Head(to)) BY <1>2, <1>4, <3>2 DEF Under
    <3>4. Head(to) \in Names BY HeadTailProperties
    <3>5. M(src) \in Seq(Names) /\ Len(M(src)) = 1 /\ Head(M(src)) = Head(to)
      BY <1>4, <2>1, <3>1, <3>2
    <3>6. M(src) = <<Head(to)>>
      <4> DEFINE s == M(src)
                 t == <<Head(to)>>
      <4>1. t \in Seq(Names) /\ Len(t) = 1 /\ t[1] = Head(to) BY <3>4
      <4>2. s[1] = Head(to) BY <3>5
      <4> HIDE DEF s, t
      <4>3. \A i \in 1 .. Len(s) : i = 1 BY <3>5 DEF s
      <4>4. s = t BY <3>5, <4>1, <4>2, <4>3, SeqEqual DEF s
      <4> QED BY <4>4 DEF s, t
    <3> QED BY <3>1, <3>3, <3>4, <3>6
  <2>2. CASE Len(src) > 1 /\ Len(to) > 1 /\ Front(to) \in w.v.dirs
    <3>1. Under(to, n) BY <1>1, <2>2, FrontIs DEF Of
    <3>2. ASSUME NEW x \in w.v.dirs PROVE Under(M(x), n)
      <4>1. Under(x, n) /\ x \in Seq(Names) BY <1>1, <1>2 DEF Of
      <4> QED BY <1>4, <3>1, <4>1 DEF Under
    <3>3. M(<<n>>) = <<n>>
      <4>1. <<n>> \in Seq(Names) /\ Len(<<n>>) = 1 OBVIOUS
      <4>2. /\ ~ Within(src, <<n>>) => M(<<n>>) = <<n>>
            /\ Within(src, <<n>>) => Len(src) <= Len(<<n>>)
        BY <1>4, <4>1
      <4>3. ~ (Len(src) <= 1) BY <1>2, <2>2
      <4> QED BY <4>1, <4>2, <4>3
    <3>4. <<n>> \in dirs BY <1>1, <3>3 DEF Of
    <3> QED BY <3>2, <3>4
  <2> QED BY <2>1, <2>2
<1>8. PICK m \in Names : <<m>> \in dirs /\ \A x \in w.v.dirs : Under(M(x), m) BY <1>7
<1>9. Of(Vol(dirs, fls), m)
  <2>1. dirs \in SUBSET Seq(Names) /\ fls \in SUBSET Seq(Names) BY <1>2, <1>4
  <2>2. \A y \in dirs : Under(y, m) BY <1>8
  <2>3. \A y \in fls : Len(y) > 1 BY <1>6
  <2> HIDE DEF dirs, fls
  <2>4. \A v : v = Vol(dirs, fls) => v.dirs = dirs /\ v.files = fls /\ v \in Volumes
    BY <2>1 DEF Vol, Volumes
  <2> QED BY <1>8, <2>2, <2>3, <2>4 DEF Of
<1>10. M(w.cwd) \in Seq(Names) /\ M(w.cwd) # << >>
  <2>1. Len(w.cwd) > 0 BY <1>2, EmptySeq
  <2>2. Len(M(w.cwd)) > 0 BY <1>2, <1>4, <2>1
  <2>3. M(w.cwd) \in Seq(Names) BY <1>2, <1>4
  <2>4. \A s : s = << >> => ~ (Len(s) > 0) OBVIOUS
  <2> HIDE DEF M
  <2> QED BY <2>2, <2>3, <2>4
<1>11. Goes(w, u)
  <2> HIDE DEF dirs, fls
  <2> QED BY <1>2, <1>3, <1>9, <1>10, MadeGoes
<1>12. u.v = Vol(dirs, fls) /\ u.cwd = M(w.cwd) /\ u.ok = w.ok
  <2> HIDE DEF dirs, fls
  <2> QED BY <1>3, MadeIs
<1>13. Home(w) => Home(u)
  <2>1. w.cwd \in w.v.dirs => M(w.cwd) \in dirs OBVIOUS
  <2>2. u.v.dirs = dirs
    <3> HIDE DEF dirs, fls
    <3> QED BY <1>12 DEF Vol
  <2> QED BY <1>12, <2>1, <2>2 DEF Home
<1> QED BY <1>11, <1>12, <1>13

(* hrename: what is renamed stays on its volume, and the current directory *)
(* goes with it.                                                           *)
LEMMA RenameGoes ==
    ASSUME NEW w, Working(w), NEW src \in Seq(Names), src # << >>,
           NEW dst \in Seq(Names), dst # << >>, NEW u, u = hfs_rename(w, src, dst)
    PROVE  Goes(w, u) /\ (Home(w) => Home(u))
<1> DEFINE all == w.v.dirs \cup w.v.files
           to  == IF dst \in w.v.dirs /\ dst # src THEN Append(dst, Last(src)) ELSE dst
           moving == Front(to) # Front(src)
           No == \/ src \notin all \/ (Len(to) > 1 /\ Front(to) \notin w.v.dirs)
                 \/ to # src /\ (w.ro \/ to \in all)
                 \/ to # src /\ moving /\ (Len(to) = 1 \/ Len(src) = 1 \/ Within(src, Front(to)))
<1>1. to \in Seq(Names) /\ to # << >>
  <2>1. Last(src) \in Names
    <3>1. Len(src) \in Nat \ {0} /\ Len(src) \in 1 .. Len(src) BY EmptySeq
    <3> QED BY <3>1, ElementOfSeq DEF Last
  <2>2. /\ Append(dst, Last(src)) \in Seq(Names) /\ Len(Append(dst, Last(src))) = Len(dst) + 1
    BY <2>1, AppendProperties
  <2>3. Len(dst) \in Nat /\ Len(<< >>) = 0 BY LenProperties
  <2>4. Append(dst, Last(src)) # << >> BY <2>2, <2>3
  <2> QED BY <2>2, <2>4
<1>2. CASE No
  <2>1. u = Fail(w) \/ u = w BY <1>2 DEF hfs_rename
  <2> QED BY <2>1, FailGoes DEF Home
<1>3. CASE ~ No /\ to = src
  <2>1. u = w BY <1>3 DEF hfs_rename
  <2> QED BY <2>1, FailGoes
<1>4. CASE ~ No /\ to # src
  <2>1. u = Relocate(w, src, to) BY <1>4 DEF hfs_rename
  <2> HIDE DEF to
  <2>2. /\ Len(Front(to)) = IF Len(to) > 0 THEN Len(to) - 1 ELSE 0
        /\ Len(Front(src)) = IF Len(src) > 0 THEN Len(src) - 1 ELSE 0
    BY <1>1, FrontIs
  <2>3. Len(to) \in Nat \ {0} /\ Len(src) \in Nat \ {0} BY <1>1, EmptySeq
  <2>4. \/ Len(src) = 1 /\ Len(to) = 1
        \/ Len(src) > 1 /\ Len(to) > 1 /\ Front(to) \in w.v.dirs
    <3> DEFINE a == Len(to)
               b == Len(src)
    <3>1. /\ a > 1 => Front(to) \in w.v.dirs
          /\ Front(to) # Front(src) => a # 1 /\ b # 1
          /\ Front(to) = Front(src) => Len(Front(to)) = Len(Front(src))
      BY <1>4
    <3>2. a \in Nat \ {0} /\ b \in Nat \ {0} BY <2>3
    <3>3. Len(Front(to)) = a - 1 /\ Len(Front(src)) = b - 1 BY <2>2, <2>3
    <3> HIDE DEF a, b
    <3>4. (a = 1 /\ b = 1) \/ (b > 1 /\ a > 1 /\ Front(to) \in w.v.dirs) BY <3>1, <3>2, <3>3
    <3> QED BY <3>4 DEF a, b
  <2> QED BY <1>1, <1>4, <2>1, <2>4, RelocateGoes
<1> QED BY <1>2, <1>3, <1>4

-----------------------------------------------------------------------------
(* What each operand, and a whole command, does to the volume.             *)
Walks(c, w, u) == Goes(w, u) /\ (c.do = "hrename" /\ Home(w) => Home(u))

Loops == {"hmkdir", "hrmdir", "hdel", "hattrib", "hls", "hcopyout", "hrename", "hcopyin",
          "hcopytree"}

(* What has gone on can go on.                                             *)
LEMMA GoesOn ==
    ASSUME NEW c, NEW w, NEW u, NEW z, Walks(c, w, u), Walks(c, u, z)
    PROVE  Walks(c, w, z)
BY DEF Walks, Goes

(* A full path is one.                                                     *)
LEMMA FullIs ==
    ASSUME NEW w, Working(w), NEW a \in Operands
    PROVE  Full(w, a) \in Seq(Names) /\ Full(w, a) # << >>
<1>1. w.cwd \in Seq(Names) /\ w.cwd # << >> BY WorkIs
<1>2. a.rel \in BOOLEAN /\ a.steps \in Seq(Names) /\ (a.rel \/ a.steps # << >>) BY DEF Operands
<1>3. w.cwd \o a.steps \in Seq(Names) /\ (w.cwd \o a.steps = << >> => w.cwd = << >>)
  BY <1>1, <1>2, ConcatProperties, ConcatEqualIffEmpty
<1> QED BY <1>1, <1>2, <1>3 DEF Full

(* An operand keeps a volume a volume, and one that cannot be written as   *)
(* it is.                                                                  *)
LEMMA OperandGoes ==
    ASSUME NEW c \in Commands, c.do \in Loops, NEW i \in 1 .. Len(c.args), NEW w, Working(w)
    PROVE  Walks(c, w, DoOperand(c, w, c.args[i]))
<1> DEFINE a == c.args[i]
<1>1. CASE c.do = "hrename"
  <2>1. a \in Operands /\ c.dst \in Operands BY <1>1, CommandLines, ElementOfSeq
  <2>2. /\ Full(w, a) \in Seq(Names) /\ Full(w, a) # << >>
        /\ Full(w, c.dst) \in Seq(Names) /\ Full(w, c.dst) # << >>
    BY <2>1, FullIs
  <2>3. DoOperand(c, w, a) = hfs_rename(w, Full(w, a), Full(w, c.dst))
    BY <1>1 DEF DoOperand, do_rename
  <2> QED BY <2>2, <2>3, RenameGoes DEF Walks
<1>2. CASE c.do = "hcopyin"
  <2>1. a \in Names /\ c.dst \in Operands BY <1>2, CommandLines, ElementOfSeq
  <2>2. Full(w, c.dst) \in Seq(Names) BY <2>1, FullIs
  <2>3. Target(w, c.dst, a) \in Seq(Names) BY <2>1, <2>2, AppendProperties DEF Target
  <2>4. DoOperand(c, w, a) = CopyIn(w, Target(w, c.dst, a)) BY <1>2 DEF DoOperand, do_copyin
  <2> QED BY <1>2, <2>3, <2>4, CopyInGoes DEF Walks
<1>3. CASE c.do = "hcopytree"
  <2>1. a \in HostEntries /\ c.dst \in Operands BY <1>3, CommandLines, ElementOfSeq
  <2> DEFINE path == Full(w, c.dst) \o a.path
  <2>2. Full(w, c.dst) \in Seq(Names) /\ a.path \in Seq(Names) BY <2>1, FullIs DEF HostEntries
  <2>3. path \in Seq(Names) BY <2>2, ConcatProperties
  <2> HIDE DEF path
  <2>4. DoOperand(c, w, a) = IF a.dir THEN MakeDir(w, path) ELSE CopyIn(w, path)
    BY <1>3 DEF DoOperand, CopyEntry, path
  <2> QED BY <1>3, <2>3, <2>4, CopyInGoes, LooksGo DEF Walks
<1>4. CASE c.do \in {"hmkdir", "hrmdir", "hdel", "hattrib", "hls", "hcopyout"}
  <2>1. a \in Operands BY <1>4, CommandLines, ElementOfSeq
  <2> DEFINE path == Full(w, a)
  <2>2. path \in Seq(Names) BY <2>1, FullIs
  <2> HIDE DEF path
  <2>3. \/ DoOperand(c, w, a) = hfs_mkdir(w, path)
        \/ DoOperand(c, w, a) = hfs_rmdir(w, path)
        \/ DoOperand(c, w, a) = hfs_delete(w, path)
        \/ DoOperand(c, w, a) = SetAttr(w, path)
        \/ DoOperand(c, w, a) = Look(w, path)
        \/ DoOperand(c, w, a) = do_copyout(w, path)
    BY <1>4 DEF DoOperand, path
  <2>4. Goes(w, DoOperand(c, w, a)) BY <2>2, <2>3, MkdirGoes, RmdirGoes, DeleteGoes, LooksGo
  <2> QED BY <1>4, <2>4 DEF Walks
<1> QED BY <1>1, <1>2, <1>3, <1>4 DEF Loops

(* The loop takes the operands one after the other.                        *)
LEMMA EachSteps ==
    ASSUME NEW c, NEW w, Len(c.args) \in Nat
    PROVE  \E f : /\ Each(c, w) = f[Len(c.args)] /\ f[0] = w
                  /\ \A i \in 1 .. Len(c.args) : f[i] = DoOperand(c, f[i - 1], c.args[i])
<1> DEFINE n == Len(c.args)
           Takes(f, m) ==
               f = [i \in 0 .. m |-> IF i = 0 THEN w ELSE DoOperand(c, f[i - 1], c.args[i])]
           Bad == {m \in Nat : ~ \E f : Takes(f, m)}
<1>1. Bad = {}
  <2> SUFFICES ASSUME Bad # {} PROVE FALSE OBVIOUS
  <2>1. Min(Bad) \in Bad /\ \A y \in Bad : Min(Bad) <= y
    <3>1. Bad \in SUBSET Nat OBVIOUS
    <3> HIDE DEF Bad
    <3> QED BY <3>1, MinOf
  <2>2. PICK m \in Bad : \A y \in Bad : m <= y
    <3> HIDE DEF Bad
    <3> QED BY <2>1
  <2>3. m \in Nat /\ ~ \E f : Takes(f, m) OBVIOUS
  <2>4. CASE m = 0
    <3> DEFINE f == [i \in 0 .. 0 |-> w]
    <3>1. f = [i \in 0 .. 0 |-> IF i = 0 THEN w ELSE DoOperand(c, f[i - 1], c.args[i])]
      OBVIOUS
    <3> QED BY <2>3, <2>4, <3>1
  <2>5. CASE m # 0
    <3>1. m - 1 \in Nat /\ m - 1 \notin Bad
      <4> HIDE DEF Bad
      <4> QED BY <2>2, <2>3, <2>5
    <3>2. PICK g : Takes(g, m - 1) BY <3>1
    <3> DEFINE f == [i \in 0 .. m |-> IF i = 0 THEN w ELSE DoOperand(c, g[i - 1], c.args[i])]
    <3>3. ASSUME NEW j \in 0 .. m - 1 PROVE f[j] = g[j]
      <4>1. g[j] = IF j = 0 THEN w ELSE DoOperand(c, g[j - 1], c.args[j]) BY <3>2
      <4>2. j \in 0 .. m BY <2>3
      <4> QED BY <4>1, <4>2
    <3>4. ASSUME NEW i \in 0 .. m, i # 0 PROVE f[i - 1] = g[i - 1]
      <4>1. i - 1 \in 0 .. m - 1 BY <2>3, <3>4
      <4> QED BY <3>3, <4>1
    <3>5. Takes(f, m)
      <4>1. f = [i \in 0 .. m |-> IF i = 0 THEN w ELSE DoOperand(c, g[i - 1], c.args[i])]
        OBVIOUS
      <4> HIDE DEF f
      <4> QED BY <3>4, <4>1
    <3> QED BY <2>3, <3>5
  <2> QED BY <2>4, <2>5
<1>2. \E f : Takes(f, n) BY <1>1
<1> DEFINE after == CHOOSE f : Takes(f, n)
<1>3. Takes(after, n) BY <1>2
<1>4. Each(c, w) = after[n] BY DEF Each
<1> HIDE DEF after
<1>5. after[0] = w BY <1>3
<1>6. ASSUME NEW i \in 1 .. n PROVE after[i] = DoOperand(c, after[i - 1], c.args[i])
  <2>1. i \in 0 .. n /\ i # 0 OBVIOUS
  <2> QED BY <1>3, <2>1
<1> QED BY <1>4, <1>5, <1>6

(* The whole loop.                                                         *)
LEMMA EachGoes ==
    ASSUME NEW c \in Commands, c.do \in Loops, NEW w, Working(w)
    PROVE  Walks(c, w, Each(c, w))
<1> DEFINE n == Len(c.args)
<1>1. n \in Nat
  <2>1. c.args \in Seq(Operands) \/ c.args \in Seq(Names) \/ c.args \in Seq(HostEntries)
    BY CommandLines DEF Loops
  <2> QED BY <2>1, LenProperties
<1>2. PICK f : /\ Each(c, w) = f[n] /\ f[0] = w
               /\ \A i \in 1 .. n : f[i] = DoOperand(c, f[i - 1], c.args[i])
  BY <1>1, EachSteps
<1> DEFINE Bad == {i \in 0 .. n : ~ Walks(c, w, f[i])}
<1>3. Bad = {}
  <2> SUFFICES ASSUME Bad # {} PROVE FALSE OBVIOUS
  <2>1. Bad \in SUBSET Nat BY <1>1
  <2>2. PICK i \in Bad : \A y \in Bad : i <= y
    <3> HIDE DEF Bad
    <3> QED BY <2>1, MinOf
  <2>3. i # 0
    <3>1. Walks(c, w, w) BY FailGoes DEF Walks
    <3> QED BY <1>2, <3>1
  <2>4. i \in 1 .. n /\ i - 1 \in 0 .. n BY <1>1, <2>3
  <2>5. i - 1 \notin Bad
    <3> HIDE DEF Bad
    <3> QED BY <2>1, <2>2, <2>4
  <2>6. Walks(c, w, f[i - 1]) BY <2>4, <2>5
  <2>7. f[i] = DoOperand(c, f[i - 1], c.args[i]) BY <1>2, <2>4
  <2>8. Working(f[i - 1]) BY <2>6 DEF Walks, Goes
  <2>9. Walks(c, f[i - 1], f[i]) BY <2>4, <2>7, <2>8, OperandGoes
  <2>10. Walks(c, w, f[i]) BY <2>6, <2>9, GoesOn
  <2> QED BY <2>10
<1>4. n \in 0 .. n BY <1>1
<1>5. Walks(c, w, f[n]) BY <1>3, <1>4
<1> QED BY <1>2, <1>5

(* hmount, hformat and hvol do nothing to a volume.                        *)
Looking(c) == Makes(c) \/ c.do = "hvol"

(* A command that cannot write leaves its volume as it is, and the current *)
(* directory of those that tell the list is still there.                   *)
LEMMA WorkedGoes ==
    ASSUME NEW c \in Commands, NEW w, Working(w), NEW u, u = Worked(c, w)
    PROVE  Goes(w, u) /\ (Looking(c) => u = w) /\ (Follows(c) /\ Home(w) => Home(u))
<1>1. CASE c.do \in {"hmkdir", "hrmdir", "hdel", "hattrib", "hls", "hcopyout"}
  <2>1. u = Each(c, w) BY <1>1 DEF Worked
  <2>2. Goes(w, u) BY <1>1, <2>1, EachGoes DEF Walks, Loops
  <2> QED BY <1>1, <2>2 DEF Looking, Makes, Follows
<1>2. CASE c.do \in {"hrename", "hcopyin"}
  <2>1. u = Fail(w) \/ u = Each(c, w) BY <1>2 DEF Worked, Several
  <2>2. Walks(c, w, Each(c, w)) BY <1>2, EachGoes DEF Loops
  <2>3. Goes(w, Fail(w)) /\ (Home(w) => Home(Fail(w))) BY FailGoes DEF Home
  <2> QED BY <1>2, <2>1, <2>2, <2>3 DEF Walks, Looking, Makes, Follows
<1>3. CASE c.do = "hcopytree"
  <2> DEFINE top == MakeDir(w, Full(w, c.dst))
             all == Each(c, top)
  <2>1. Full(w, c.dst) \in Seq(Names) BY <1>3, CommandLines, FullIs
  <2>2. Goes(w, top) BY <2>1, LooksGo
  <2>3. Goes(top, all) BY <1>3, <2>2, EachGoes DEF Goes, Walks, Loops
  <2>4. u = IF ~ top.ok THEN top ELSE [all EXCEPT !.ok = w.ok]
    BY <1>3 DEF Worked, copy_dir_recursive
  <2> HIDE DEF top, all
  <2>5. Goes(w, all) BY <2>2, <2>3 DEF Goes
  <2>6. Working(all) /\ all.ro = w.ro /\ (w.ro => all.v = w.v) BY <2>5 DEF Goes
  <2>7. [all EXCEPT !.ok = w.ok] = Made(all.v, w.ro, all.cwd, w.ok)
    <3>1. all \in Works BY <2>6, WorkIs
    <3>2. \A x : [all EXCEPT !.ok = x] = Made(all.v, all.ro, all.cwd, x) BY <3>1, Changed
    <3> QED BY <2>6, <3>2
  <2>8. PICK n \in Names : Of(all.v, n) BY <2>6, WorkIs
  <2>9. Goes(w, Made(all.v, w.ro, all.cwd, w.ok)) BY <2>6, <2>8, WorkIs, MadeGoes
  <2>10. Goes(w, u) BY <2>2, <2>4, <2>7, <2>9
  <2> QED BY <1>3, <2>10 DEF Looking, Makes, Follows
<1>4. CASE c.do = "hcd"
  <2> DEFINE path == IF c.args = << >> THEN RootOf(w.v) ELSE Full(w, c.args[1])
  <2>1. u = ChangeDir(w, c.args) BY <1>4 DEF Worked
  <2>2. u = Fail(w) \/ (path \in w.v.dirs /\ u = [w EXCEPT !.cwd = path])
    BY <2>1 DEF ChangeDir
  <2> HIDE DEF path
  <2>3. Goes(w, Fail(w)) /\ (Home(w) => Home(Fail(w))) BY FailGoes DEF Home
  <2>4. ASSUME path \in w.v.dirs, u = [w EXCEPT !.cwd = path] PROVE Goes(w, u) /\ Home(u)
    <3>1. PICK n \in Names : Of(w.v, n) BY WorkIs
    <3>2. path \in Seq(Names) /\ path # << >>
      <4>1. Len(path) > 0 /\ Len(<< >>) = 0 BY <2>4, <3>1 DEF Of, Under
      <4> QED BY <2>4, <4>1, WorkIs
    <3>3. u = Made(w.v, w.ro, path, w.ok) BY <2>4, WorkIs, Changed
    <3>4. Goes(w, u) BY <3>1, <3>2, <3>3, WorkIs, MadeGoes
    <3>5. u.v = w.v /\ u.cwd = path BY <3>3 DEF Made
    <3> QED BY <2>4, <3>4, <3>5 DEF Home
  <2> QED BY <1>4, <2>2, <2>3, <2>4 DEF Looking, Makes, Follows
<1>5. CASE c.do \notin Loops \cup {"hcd"}
  <2>1. u = w BY <1>5 DEF Worked, Loops
  <2> QED BY <2>1, FailGoes
<1> QED BY <1>1, <1>2, <1>3, <1>4, <1>5 DEF Loops

-----------------------------------------------------------------------------
(* The inductive invariant.  r is what proc holds of one process, d what   *)
(* the media hold, ls the locks and pr the processes.                      *)
Run(pc, cmd, list, result, read, alone, w, part) ==
    [pc |-> pc, cmd |-> cmd, list |-> list, result |-> result, read |-> read,
     alone |-> alone, w |-> w, part |-> part]

IsRun(r) == r = Run(r.pc, r.cmd, r.list, r.result, r.read, r.alone, r.w, r.part)

Ent(r)   == hcwd_getvol(r.list)
Place(r) == MediumOf[Ent(r).path]
Has(r)   == r.pc \in {"mounted", "worked", "wrong"}

WayBack(ent, v) == ent.vname = NameOf(v) /\ <<ent.vname>> \o ent.cwd \in v.dirs

(* What a process has mounted: the volume that its list, as it has read    *)
(* it, names, unless it makes the entry or has chosen it.                  *)
AtMounted(r) ==
    /\ r.cmd.do # "humount" /\ Settled(r.cmd, r.read, r.list)
    /\ Looking(r.cmd) \/ r.list = r.read
    /\ Home(r.w) /\ Ent(r).vname = NameOf(r.w.v) /\ (Makes(r.cmd) => Ent(r).cwd = << >>)

AtWorked(r) ==
    r.result = 0 /\ (Makes(r.cmd) \/ Follows(r.cmd)) => WayBack(Ent(r), r.w.v)

(* A process on its own: its command, what it has read and its list.       *)
Steady(r) ==
    /\ IsRun(r) /\ r.cmd \in Commands /\ r.part \in Int
    /\ IsList(r.read) /\ IsList(r.list) /\ (r.list.dirty \/ r.list = r.read)
    /\ r.pc \in {"read", "chosen", "formatting", "making", "mounted", "worked", "wrong",
                 "ending", "emptied"}
    /\ r.pc \in {"read", "formatting", "making"} => r.list = r.read
    /\ r.pc \in {"formatting", "making"} => Makes(r.cmd)
    /\ r.pc = "formatting" => r.cmd.do = "hformat"
    /\ r.pc = "chosen" => r.cmd.do = "hvol" /\ hasVol(r.list) /\ Keeps(r.read, r.list)
    /\ r.pc = "mounted" => AtMounted(r)
    /\ r.pc = "worked" => AtWorked(r)
    /\ r.pc \in {"worked", "wrong", "ending", "emptied"} => Ended(r.cmd, r.result, r.read, r.list)
    /\ r.pc = "emptied" => r.list.dirty

(* A process that has a volume mounted has it as it is on its medium.      *)
OnVolume(d, r) ==
    /\ hasVol(r.list) /\ Working(r.w)
    /\ Ent(r).part \in DOMAIN d[Place(r)] /\ d[Place(r)][Ent(r).part] = r.w.v

LockOf(p, r) == Lock(Place(r), p, ~ r.w.ro)

(* Who has a volume mounted has its medium locked, and nobody else has; a  *)
(* writer is alone on a medium.                                            *)
Locked(ls, pr) ==
    /\ \A p \in Procs : Has(pr[p]) => LockOf(p, pr[p]) \in ls
    /\ \A l \in ls : l.proc \in Procs /\ Has(pr[l.proc]) /\ l = LockOf(l.proc, pr[l.proc])
    /\ \A k, l \in ls : k.medium = l.medium => k = l \/ (~ k.write /\ ~ l.write)

(* A process that no other has overlapped: the file is as it was read, or  *)
(* the process has emptied it.                                             *)
Unseen ==
    \A p \in Procs : proc[p].pc # "idle" /\ proc[p].alone =>
      /\ \A q \in Procs \ {p} : proc[q].pc = "idle"
      /\ IF proc[p].pc = "emptied" THEN file = Empty ELSE hcwd_init = proc[p].read

IsDisk(disk) == \A i \in DOMAIN disk : IsVolume(disk[i])

Inv ==
    /\ DOMAIN media = Media /\ \A m \in Media : IsDisk(media[m])
    /\ IsFile(file) /\ swaps \in Nat
    /\ DOMAIN proc = Procs
    /\ \A p \in Procs : proc[p] = Idle \/ Steady(proc[p])
    /\ \A p \in Procs : Has(proc[p]) => OnVolume(media, proc[p])
    /\ Locked(locks, proc)
    /\ Unseen

(* What the assignments of the steps make of a process.                    *)
ToEnd(r, l, x)            == [r EXCEPT !.pc = "ending", !.list = l, !.result = x]
ToChosen(r, l)            == [r EXCEPT !.pc = "chosen", !.list = l]
ToFormat(r, part)         == [r EXCEPT !.pc = "formatting", !.part = part]
ToMake(r, part)           == [r EXCEPT !.pc = "making", !.part = part]
ToMaking(r)               == [r EXCEPT !.pc = "making"]
ToMounted(r, l, w, part)  == [r EXCEPT !.pc = "mounted", !.list = l, !.w = w, !.part = part]
ToWorked(r, w, x, l)      == [r EXCEPT !.pc = "worked", !.w = w, !.result = x, !.list = l]
ToWrong(r, w, x)          == [r EXCEPT !.pc = "wrong", !.w = w, !.result = x]
ToEmptied(r)              == [r EXCEPT !.pc = "emptied"]
Overlapped(r)             == [r EXCEPT !.alone = FALSE]

(* A command that ends keeps what it has read.                             *)
LEMMA EndsIs ==
    ASSUME NEW r, IsRun(r), NEW l, NEW x,
           NEW u, u = ToEnd(r, l, x)
    PROVE  /\ IsRun(u) /\ u.pc = "ending" /\ u.cmd = r.cmd /\ u.list = l /\ u.result = x
           /\ u.read = r.read /\ u.alone = r.alone /\ u.part = r.part
BY DEF IsRun, Run, ToEnd

(* The same for hvol, which has chosen an entry.                           *)
LEMMA ChosenIs ==
    ASSUME NEW r, IsRun(r), NEW l, NEW u, u = ToChosen(r, l)
    PROVE  /\ IsRun(u) /\ u.pc = "chosen" /\ u.cmd = r.cmd /\ u.list = l
           /\ u.read = r.read /\ u.alone = r.alone /\ u.part = r.part
BY DEF IsRun, Run, ToChosen

(* The same for hmount and hformat, which have their partition.            *)
LEMMA MakingIs ==
    ASSUME NEW r, IsRun(r), NEW x, NEW u, u = ToMake(r, x)
    PROVE  /\ IsRun(u) /\ u.pc = "making" /\ u.cmd = r.cmd /\ u.list = r.list
           /\ u.read = r.read /\ u.alone = r.alone /\ u.part = x
BY DEF IsRun, Run, ToMake

(* The same for hformat, which has still to make its volume.               *)
LEMMA FormattingIs ==
    ASSUME NEW r, IsRun(r), NEW x, NEW u, u = ToFormat(r, x)
    PROVE  /\ IsRun(u) /\ u.pc = "formatting" /\ u.cmd = r.cmd /\ u.list = r.list
           /\ u.read = r.read /\ u.alone = r.alone /\ u.part = x
BY DEF IsRun, Run, ToFormat

(* The same for hformat, which has made it.                                *)
LEMMA FormattedIs ==
    ASSUME NEW r, IsRun(r), NEW u, u = ToMaking(r)
    PROVE  /\ IsRun(u) /\ u.pc = "making" /\ u.cmd = r.cmd /\ u.list = r.list
           /\ u.read = r.read /\ u.alone = r.alone /\ u.part = r.part
BY DEF IsRun, Run, ToMaking

(* The same for a command that finds a volume of another name.             *)
LEMMA WrongIs ==
    ASSUME NEW r, IsRun(r), NEW w, NEW x, NEW u, u = ToWrong(r, w, x)
    PROVE  /\ IsRun(u) /\ u.pc = "wrong" /\ u.cmd = r.cmd /\ u.list = r.list /\ u.w = w
           /\ u.result = x /\ u.read = r.read /\ u.alone = r.alone /\ u.part = r.part
BY DEF IsRun, Run, ToWrong

(* The same for a command that has mounted a volume.                       *)
LEMMA MountedIs ==
    ASSUME NEW r, IsRun(r), NEW l, NEW w, NEW x,
           NEW u, u = ToMounted(r, l, w, x)
    PROVE  /\ IsRun(u) /\ u.pc = "mounted" /\ u.cmd = r.cmd /\ u.list = l /\ u.w = w
           /\ u.read = r.read /\ u.alone = r.alone /\ u.part = x
BY DEF IsRun, Run, ToMounted

(* The same for a command that has done its work.                          *)
LEMMA WorkedIs ==
    ASSUME NEW r, IsRun(r), NEW l, NEW w, NEW x,
           NEW u, u = ToWorked(r, w, x, l)
    PROVE  /\ IsRun(u) /\ u.pc = "worked" /\ u.cmd = r.cmd /\ u.list = l /\ u.w = w
           /\ u.result = x /\ u.read = r.read /\ u.alone = r.alone /\ u.part = r.part
BY DEF IsRun, Run, ToWorked

(* The same for one that has emptied the file.                             *)
LEMMA EmptiedIs ==
    ASSUME NEW r, IsRun(r), NEW u, u = ToEmptied(r)
    PROVE  /\ IsRun(u) /\ u.pc = "emptied" /\ u.cmd = r.cmd /\ u.list = r.list
           /\ u.result = r.result /\ u.read = r.read /\ u.alone = r.alone /\ u.part = r.part
BY DEF IsRun, Run, ToEmptied

(* The same for one that another command has overlapped.                   *)
LEMMA SeenIs ==
    ASSUME NEW r, IsRun(r), NEW u, u = Overlapped(r)
    PROVE  /\ IsRun(u) /\ u.pc = r.pc /\ u.cmd = r.cmd /\ u.list = r.list /\ u.w = r.w
           /\ u.result = r.result /\ u.read = r.read /\ ~ u.alone /\ u.part = r.part
BY DEF IsRun, Run, Overlapped

(* The parts of a running process, and of an idle one.                     *)
LEMMA PcIs ==
    ASSUME Inv, NEW p \in Procs
    PROVE  /\ proc[p].pc # "idle" => Steady(proc[p]) /\ IsRun(proc[p])
           /\ proc[p].pc = "idle" => proc[p] = Idle
           /\ \A u : (proc' = [proc EXCEPT ![p] = u] =>
                         /\ DOMAIN proc' = Procs /\ proc'[p] = u
                         /\ \A q \in Procs \ {p} : proc'[q] = proc[q])
BY DEF Inv, Steady, Idle

(* The step of one process that keeps hold of what it has read.            *)
LEMMA Proceeds ==
    ASSUME Inv, NEW p \in Procs, proc[p].pc \notin {"idle", "emptied"},
           NEW u, Set(p, u), Steady(u), u.pc # "emptied",
           u.alone = proc[p].alone, u.read = proc[p].read, UNCHANGED <<file, swaps>>,
           DOMAIN media' = Media, \A m \in Media : IsDisk(media'[m]),
           \A q \in Procs \ {p} : Has(proc[q]) => OnVolume(media', proc[q]),
           Has(u) => OnVolume(media', u), Locked(locks', proc')
    PROVE  Inv'
<1>1. /\ DOMAIN proc' = Procs /\ proc'[p] = u
      /\ \A q \in Procs \ {p} : proc'[q] = proc[q]
  BY PcIs DEF Set
<1>2. \A q \in Procs : proc'[q] = Idle \/ Steady(proc'[q]) BY <1>1 DEF Inv
<1>3. \A q \in Procs : Has(proc'[q]) => OnVolume(media', proc'[q]) BY <1>1
<1>4. Unseen'
  <2>1. hcwd_init' = hcwd_init /\ file' = file BY DEF hcwd_init
  <2>2. u.pc # "idle" BY DEF Steady
  <2>3. SUFFICES ASSUME NEW q \in Procs, proc'[q].pc # "idle", proc'[q].alone
                 PROVE  /\ \A o \in Procs \ {q} : proc'[o].pc = "idle"
                        /\ IF proc'[q].pc = "emptied" THEN file = Empty
                           ELSE hcwd_init = proc'[q].read
    BY <2>1 DEF Unseen
  <2>4. CASE q = p
    <3>1. \A o \in Procs \ {p} : proc[o].pc = "idle" BY <1>1, <2>3, <2>4 DEF Inv, Unseen
    <3>2. hcwd_init = proc[p].read BY <1>1, <2>3, <2>4 DEF Inv, Unseen
    <3> QED BY <1>1, <2>4, <3>1, <3>2
  <2>5. CASE q # p
    <3>1. proc[q].pc # "idle" /\ proc[q].alone BY <1>1, <2>3, <2>5
    <3>2. proc[p].pc = "idle" BY <2>5, <3>1 DEF Inv, Unseen
    <3> QED BY <3>2
  <2> QED BY <2>4, <2>5
<1>5. IsFile(file') /\ swaps' \in Nat BY DEF Inv
<1> QED BY <1>1, <1>2, <1>3, <1>4, <1>5 DEF Inv

(* Locks do not change while who holds what does not.                      *)
LEMMA LocksStay ==
    ASSUME Inv, NEW p \in Procs, NEW u, Set(p, u), UNCHANGED locks,
           \/ ~ Has(proc[p]) /\ ~ Has(u)
           \/ Has(proc[p]) /\ Has(u) /\ LockOf(p, u) = LockOf(p, proc[p])
    PROVE  Locked(locks', proc')
<1>1. proc'[p] = u /\ \A q \in Procs \ {p} : proc'[q] = proc[q] BY PcIs DEF Set
<1>2. Locked(locks, proc) BY DEF Inv
<1>3. ASSUME NEW q \in Procs, Has(proc'[q]) PROVE LockOf(q, proc'[q]) \in locks
  BY <1>1, <1>2, <1>3 DEF Locked
<1>4. ASSUME NEW l \in locks
      PROVE  l.proc \in Procs /\ Has(proc'[l.proc]) /\ l = LockOf(l.proc, proc'[l.proc])
  BY <1>1, <1>2 DEF Locked
<1>5. \A k, l \in locks : k.medium = l.medium => k = l \/ (~ k.write /\ ~ l.write)
  BY <1>2 DEF Locked
<1> QED BY <1>3, <1>4, <1>5 DEF Locked

(* A process that has nothing mounted, before and after, changes only its  *)
(* own state.                                                              *)
LEMMA Quietly ==
    ASSUME Inv, NEW p \in Procs,
           proc[p].pc \notin {"idle", "emptied", "mounted", "worked", "wrong"},
           NEW u, Set(p, u), Steady(u), u.pc \notin {"emptied", "mounted", "worked", "wrong"},
           u.alone = proc[p].alone, u.read = proc[p].read,
           UNCHANGED <<media, locks, file, swaps>>
    PROVE  Inv'
<1>1. ~ Has(proc[p]) /\ ~ Has(u) BY DEF Has
<1>2. Locked(locks', proc') BY <1>1, LocksStay
<1>3. DOMAIN media' = Media /\ \A m \in Media : IsDisk(media'[m]) BY DEF Inv
<1>4. \A q \in Procs \ {p} : Has(proc[q]) => OnVolume(media', proc[q]) BY DEF Inv
<1> QED BY <1>1, <1>2, <1>3, <1>4, Proceeds

-----------------------------------------------------------------------------
(* Each step keeps the invariant.                                          *)

(* A process that ends with a list that it may end with.                   *)
LEMMA EndSteady ==
    ASSUME NEW r, Steady(r), NEW l, IsList(l), l.dirty \/ l = r.read, NEW x,
           Ended(r.cmd, x, r.read, l),
           NEW u, u = ToEnd(r, l, x)
    PROVE  Steady(u) /\ u.pc = "ending" /\ u.alone = r.alone /\ u.read = r.read
<1>1. /\ IsRun(u) /\ u.pc = "ending" /\ u.cmd = r.cmd /\ u.list = l /\ u.result = x
      /\ u.read = r.read /\ u.alone = r.alone /\ u.part = r.part
  <2>1. IsRun(r) BY DEF Steady
  <2> QED BY <2>1, EndsIs
<1> QED BY <1>1 DEF Steady

(* One that has nothing mounted, and ends.                                 *)
LEMMA EndsQuietly ==
    ASSUME Inv, NEW p \in Procs, proc[p].pc \in {"read", "chosen", "formatting", "making"},
           NEW l, IsList(l), l.dirty \/ l = proc[p].read, NEW x,
           Ended(proc[p].cmd, x, proc[p].read, l), EndWith(p, l, x),
           UNCHANGED <<media, locks, file, swaps>>
    PROVE  Inv'
<1> DEFINE u == ToEnd(proc[p], l, x)
<1>1. Steady(proc[p]) BY PcIs
<1>2. Steady(u) /\ u.pc = "ending" /\ u.alone = proc[p].alone /\ u.read = proc[p].read
  BY <1>1, EndSteady
<1>3. Set(p, u) BY DEF EndWith, ToEnd
<1> HIDE DEF u
<1> QED BY <1>2, <1>3, Quietly

(* The list that has been read, and what else a process can end with.      *)
LEMMA ListIs ==
    ASSUME Inv, NEW p \in Procs, proc[p].pc \in {"read", "chosen", "formatting", "making"}
    PROVE  /\ Steady(proc[p]) /\ IsList(proc[p].list) /\ IsList(proc[p].read)
           /\ proc[p].list.dirty \/ proc[p].list = proc[p].read
           /\ proc[p].cmd \in Commands
           /\ \A x : proc[p].cmd.do # "humount" \/ (x # 0 /\ proc[p].pc = "read") =>
                       Ended(proc[p].cmd, x, proc[p].read, proc[p].list)
<1>1. Steady(proc[p]) BY PcIs
<1>2. ASSUME proc[p].pc \in {"read", "formatting", "making"}
      PROVE  Settled(proc[p].cmd, proc[p].read, proc[p].list)
  BY <1>1, <1>2, KeepsSame DEF Steady
<1>3. ASSUME proc[p].pc = "chosen"
      PROVE  Settled(proc[p].cmd, proc[p].read, proc[p].list)
  BY <1>1, <1>3 DEF Steady, Settled
<1> QED BY <1>1, <1>2, <1>3 DEF Steady, Ended

(* humount: the list loses the entry that the command names.               *)
LEMMA HumountKeeps == ASSUME Inv, NEW p \in Procs, humount_main(p) PROVE Inv'
<1> DEFINE l == proc[p].list
           c == proc[p].cmd
<1>1. proc[p].pc = "read" /\ c.do = "humount" BY DEF humount_main, At
<1>2. /\ IsList(l) /\ Steady(proc[p]) /\ l = proc[p].read /\ (l.dirty \/ l = proc[p].read)
      /\ Ended(c, 1, proc[p].read, l)
  BY <1>1, ListIs DEF Steady
<1>3. UNCHANGED <<media, locks, file, swaps>> BY DEF humount_main, Quiet
<1>4. CASE EndWith(p, l, 1)
  <2> HIDE DEF l, c
  <2> QED BY <1>1, <1>2, <1>3, <1>4, EndsQuietly DEF c
<1>5. ASSUME NEW i \in DOMAIN l.ents, NEW n, n = hcwd_umounted(l, i - 1), EndWith(p, n, 0)
      PROVE  Inv'
  <2>1. IsList(n) /\ n.dirty /\ Forgets(l, n) BY <1>2, <1>5, UmountedForgets
  <2>2. Ended(c, 0, proc[p].read, n) BY <1>1, <1>2, <2>1 DEF Ended
  <2> QED BY <1>1, <1>3, <1>5, <2>1, <2>2, EndsQuietly
<1>6. ASSUME c.current, hasVol(l), EndWith(p, hcwd_umounted(l, l.cur), 0) PROVE Inv'
  <2> DEFINE i == l.cur + 1
  <2>1. i \in DOMAIN l.ents /\ i - 1 = l.cur
    <3>1. l.ents \in Seq(Entries) /\ l.cur \in Int /\ -1 <= l.cur /\ l.cur < Len(l.ents)
      BY <1>2 DEF IsList
    <3>2. Len(l.ents) \in Nat /\ DOMAIN l.ents = 1 .. Len(l.ents) BY <3>1, LenProperties
    <3> QED BY <1>6, <3>1, <3>2 DEF hasVol, NoVol
  <2> HIDE DEF i
  <2>2. hcwd_umounted(l, l.cur) = hcwd_umounted(l, i - 1) BY <2>1
  <2> QED BY <1>5, <1>6, <2>1, <2>2
<1>7. ASSUME Called(l, c) # {}, EndWith(p, hcwd_umounted(l, Min(Called(l, c)) - 1), 0) PROVE Inv'
  <2>1. Called(l, c) \in SUBSET DOMAIN l.ents BY DEF Called
  <2>2. DOMAIN l.ents \in SUBSET Nat BY <1>2, LenProperties DEF IsList
  <2>3. Min(Called(l, c)) \in DOMAIN l.ents BY <1>7, <2>1, <2>2, MinOf
  <2> QED BY <1>5, <1>7, <2>3
<1> QED BY <1>4, <1>6, <1>7 DEF humount_main

(* hpwd, and commands without a current volume.                            *)
LEMMA UnmountableKeeps == ASSUME Inv, NEW p \in Procs, Unmountable(p) PROVE Inv'
<1>1. proc[p].pc = "read" /\ proc[p].cmd.do # "humount" BY DEF Unmountable
<1>2. UNCHANGED <<media, locks, file, swaps>> BY DEF Unmountable, Quiet
<1>3. PICK x : EndWith(p, proc[p].list, x) BY DEF Unmountable
<1> QED BY <1>1, <1>2, <1>3, ListIs, EndsQuietly

(* hvol: another entry is the current one.                                 *)
LEMMA HvolKeeps == ASSUME Inv, NEW p \in Procs, hvol_main(p) PROVE Inv'
<1> DEFINE l == proc[p].list
           c == proc[p].cmd
           n == Chosen(l, c)
<1>1. proc[p].pc = "read" /\ c.do = "hvol" BY DEF hvol_main, At
<1>2. /\ IsList(l) /\ Steady(proc[p]) /\ l = proc[p].read /\ (l.dirty \/ l = proc[p].read)
      /\ \A x : Ended(c, x, proc[p].read, l)
  BY <1>1, ListIs DEF Steady
<1>3. UNCHANGED <<media, locks, file, swaps>> BY DEF hvol_main, Quiet
<1>4. IsList(n) /\ Keeps(proc[p].read, n) /\ (n.dirty \/ n = proc[p].read)
  <2>1. CASE c.current \/ Called(l, c) = {}
    BY <1>2, <2>1, KeepsSame DEF Chosen, Settled
  <2>2. CASE ~ (c.current \/ Called(l, c) = {})
    <3> DEFINE i == Min(Called(l, c))
    <3>1. Called(l, c) \in SUBSET DOMAIN l.ents BY DEF Called
    <3>2. DOMAIN l.ents \in SUBSET Nat BY <1>2, LenProperties DEF IsList
    <3>3. i \in DOMAIN l.ents BY <2>2, <3>1, <3>2, MinOf
    <3>4. n = hcwd_setvol(l, i - 1) BY <2>2 DEF Chosen
    <3> HIDE DEF i, n
    <3> QED BY <1>2, <3>3, <3>4, SetvolKeeps
  <2> QED BY <2>1, <2>2
<1>5. CASE EndWith(p, l, 1) \/ EndWith(p, l, 0)
  <2> HIDE DEF l, c
  <2> QED BY <1>1, <1>2, <1>3, <1>5, EndsQuietly DEF c
<1>6. ASSUME hasVol(n), Set(p, [proc[p] EXCEPT !.pc = "chosen", !.list = n]) PROVE Inv'
  <2> DEFINE u == ToChosen(proc[p], n)
  <2> HIDE DEF n
  <2>0. IsRun(proc[p]) /\ Set(p, u) BY <1>2, <1>6 DEF Steady, ToChosen
  <2>1. /\ IsRun(u) /\ u.pc = "chosen" /\ u.cmd = c /\ u.list = n
        /\ u.read = proc[p].read /\ u.alone = proc[p].alone /\ u.part = proc[p].part
    BY <2>0, ChosenIs
  <2> HIDE DEF u
  <2>2. Steady(u) BY <1>1, <1>2, <1>4, <1>6, <2>1 DEF Steady
  <2> QED BY <1>1, <1>3, <2>0, <2>1, <2>2, Quietly
<1>7. CASE ~ hasVol(n) /\ EndWith(p, l, 0) BY <1>5, <1>7
<1> QED BY <1>5, <1>6, <1>7 DEF hvol_main

(* A partition is a number.                                                *)
LEMMA PartitionIs ==
    ASSUME NEW c \in Commands, Makes(c), NEW part \in Partition(c) PROVE part \in Int
<1>1. c.part \in Int BY CommandLines DEF Makes
<1> QED BY <1>1 DEF Partition

(* hmount and hformat have their partition.                                *)
LEMMA MakingSteady ==
    ASSUME Inv, NEW p \in Procs, proc[p].pc = "read", Makes(proc[p].cmd), NEW part \in Int,
           NEW u, \/ u = ToMake(proc[p], part)
                  \/ proc[p].cmd.do = "hformat" /\ u = ToFormat(proc[p], part)
    PROVE  /\ Steady(u) /\ u.pc \in {"making", "formatting"}
           /\ u.alone = proc[p].alone /\ u.read = proc[p].read
<1>1. Steady(proc[p]) /\ IsRun(proc[p]) BY PcIs
<1>2. /\ IsRun(u) /\ u.cmd = proc[p].cmd /\ u.list = proc[p].list
      /\ u.read = proc[p].read /\ u.alone = proc[p].alone /\ u.part = part
      /\ u.pc = "making" \/ (u.pc = "formatting" /\ u.cmd.do = "hformat")
  <2>1. CASE u = ToMake(proc[p], part) BY <1>1, <2>1, MakingIs
  <2>2. CASE proc[p].cmd.do = "hformat" /\ u = ToFormat(proc[p], part)
    BY <1>1, <2>2, FormattingIs
  <2> QED BY <2>1, <2>2
<1> QED BY <1>1, <1>2 DEF Steady

(* hmount, up to there.                                                    *)
LEMMA HmountKeeps == ASSUME Inv, NEW p \in Procs, hmount_main(p) PROVE Inv'
<1> DEFINE c == proc[p].cmd
<1>1. proc[p].pc = "read" /\ c.do = "hmount" BY DEF hmount_main, At
<1>2. UNCHANGED <<media, locks, file, swaps>> BY DEF hmount_main, Quiet
<1>3. c \in Commands /\ c.do # "humount" /\ Makes(c) BY <1>1, ListIs DEF Makes
<1>4. CASE EndWith(p, proc[p].list, 1) BY <1>1, <1>2, <1>3, <1>4, ListIs, EndsQuietly
<1>5. ASSUME NEW part \in Partition(c), Set(p, [proc[p] EXCEPT !.pc = "making", !.part = part])
      PROVE  Inv'
  <2> DEFINE u == ToMake(proc[p], part)
  <2>0. Set(p, u) BY <1>5 DEF ToMake
  <2>1. part \in Int BY <1>3, PartitionIs
  <2>2. /\ Steady(u) /\ u.pc \in {"making", "formatting"}
        /\ u.alone = proc[p].alone /\ u.read = proc[p].read
    BY <1>1, <1>3, <2>1, MakingSteady
  <2> HIDE DEF u
  <2> QED BY <1>1, <1>2, <2>0, <2>2, Quietly
<1> QED BY <1>4, <1>5 DEF hmount_main

(* A process is at work on a volume from the moment it has mounted it.     *)
LEMMA AtWorkIs ==
    ASSUME NEW v, IsVolume(v), NEW write \in BOOLEAN, NEW cwd \in v.dirs,
           NEW w, w = AtWork(v, write, cwd)
    PROVE  Working(w) /\ w.v = v /\ w.ro = (~ write) /\ Home(w)
<1>1. PICK n \in Names : Of(v, n) BY VolumeOf
<1>2. v \in Volumes /\ v.dirs \in SUBSET Seq(Names) BY <1>1 DEF Of, Volumes
<1>3. cwd \in Seq(Names) /\ cwd # << >>
  <2>1. Len(cwd) > 0 /\ Len(<< >>) = 0 BY <1>1 DEF Of, Under
  <2> QED BY <1>2, <2>1
<1>4. w.v = v /\ w.ro = (~ write) /\ w.cwd = cwd BY DEF AtWork
<1>5. w \in Works BY <1>2, <1>3 DEF AtWork, Works
<1> QED BY <1>3, <1>4, <1>5 DEF Working, Home

(* The current entry is one, and its medium is one.                        *)
LEMMA EntIs ==
    ASSUME NEW l, IsList(l), hasVol(l)
    PROVE  /\ hcwd_getvol(l) \in Entries /\ MediumOf[hcwd_getvol(l).path] \in Media
           /\ hcwd_getvol(l).vname \in Names /\ hcwd_getvol(l).path \in Paths
           /\ hcwd_getvol(l).part \in Int /\ hcwd_getvol(l).cwd \in Seq(Names)
<1>1. l.ents \in Seq(Entries) /\ Len(l.ents) \in Nat BY LenProperties DEF IsList
<1>2. l.cur + 1 \in 1 .. Len(l.ents) BY <1>1 DEF IsList, hasVol, NoVol
<1>3. hcwd_getvol(l) \in Entries BY <1>1, <1>2, ElementOfSeq DEF hcwd_getvol
<1> QED BY <1>3 DEF Entries, Media

(* A command mounts a volume as the locks allow it.                        *)
LEMMA ModesCan ==
    ASSUME NEW c, NEW m, NEW write \in Modes(c, m) PROVE write \in BOOLEAN /\ CanLock(m, write)
BY DEF Modes

(* A process that mounts a volume locks its medium.                        *)
LEMMA Mounts ==
    ASSUME Inv, NEW p \in Procs, proc[p].pc \in {"read", "chosen", "making"},
           NEW u, Set(p, u), Steady(u), u.pc \in {"mounted", "wrong"},
           u.alone = proc[p].alone, u.read = proc[p].read, OnVolume(media, u),
           NEW write \in BOOLEAN, CanLock(Place(u), write), u.w.ro = (~ write),
           locks' = locks \cup {Lock(Place(u), p, write)},
           UNCHANGED <<media, file, swaps>>
    PROVE  Inv'
<1> DEFINE new == Lock(Place(u), p, write)
<1>1. proc'[p] = u /\ \A q \in Procs \ {p} : proc'[q] = proc[q] BY PcIs DEF Set
<1>2. Locked(locks, proc) BY DEF Inv
<1>3. new = LockOf(p, u) BY DEF LockOf
<1>4. new.medium = Place(u) /\ new.proc = p /\ new.write = write BY DEF Lock
<1>5. Has(u) /\ ~ Has(proc[p]) BY DEF Has
<1> HIDE DEF new
<1>6. \A l \in locks : l.medium = Place(u) => ~ write /\ ~ l.write BY DEF CanLock
<1>7. Locked(locks', proc')
  <2>1. locks' = locks \cup {new} BY DEF new
  <2>2. ASSUME NEW q \in Procs, Has(proc'[q]) PROVE LockOf(q, proc'[q]) \in locks'
    BY <1>1, <1>2, <1>3, <2>1, <2>2 DEF Locked
  <2>3. ASSUME NEW l \in locks'
        PROVE  l.proc \in Procs /\ Has(proc'[l.proc]) /\ l = LockOf(l.proc, proc'[l.proc])
    <3>1. CASE l = new BY <1>1, <1>3, <1>4, <1>5, <3>1
    <3>2. CASE l \in locks
      <4>1. l.proc \in Procs /\ Has(proc[l.proc]) /\ l = LockOf(l.proc, proc[l.proc])
        BY <1>2, <3>2 DEF Locked
      <4>2. l.proc # p BY <1>5, <4>1
      <4> QED BY <1>1, <4>1, <4>2
    <3> QED BY <2>1, <3>1, <3>2
  <2>4. ASSUME NEW k \in locks', NEW l \in locks', k.medium = l.medium
        PROVE  k = l \/ (~ k.write /\ ~ l.write)
    <3>1. CASE k \in locks /\ l \in locks BY <1>2, <2>4, <3>1 DEF Locked
    <3>2. CASE k = new /\ l \in locks BY <1>4, <1>6, <2>4, <3>2
    <3>3. CASE k \in locks /\ l = new BY <1>4, <1>6, <2>4, <3>3
    <3> QED BY <2>1, <3>1, <3>2, <3>3
  <2> QED BY <2>2, <2>3, <2>4 DEF Locked
<1>8. DOMAIN media' = Media /\ \A m \in Media : IsDisk(media'[m]) BY DEF Inv
<1>9. \A q \in Procs \ {p} : Has(proc[q]) => OnVolume(media', proc[q]) BY DEF Inv
<1> QED BY <1>7, <1>8, <1>9, Proceeds

(* hfsutil_remount: the volume that a command works on has the name that   *)
(* the list has; one of another name is unmounted again.                   *)
LEMMA RemountKeeps == ASSUME Inv, NEW p \in Procs, hfsutil_remount(p) PROVE Inv'
<1> DEFINE r    == proc[p]
           l    == r.list
           ent  == hcwd_getvol(l)
           m    == MediumOf[ent.path]
           full == <<ent.vname>> \o ent.cwd
<1>1. /\ r.pc \in {"read", "chosen"}
      /\ r.pc = "read" => hasVol(l) /\ ~ Makes(r.cmd) /\ r.cmd.do \notin {"humount", "hvol"}
  BY DEF hfsutil_remount
<1>2. /\ Steady(r) /\ IsRun(r) /\ IsList(l) /\ IsList(r.read) /\ (l.dirty \/ l = r.read)
      /\ r.cmd \in Commands /\ r.part \in Int
      /\ r.pc = "read" => l = r.read
      /\ r.pc = "chosen" => r.cmd.do = "hvol" /\ hasVol(l) /\ Keeps(r.read, l)
  BY <1>1, PcIs DEF Steady
<1>3. hasVol(l) /\ r.cmd.do # "humount" /\ ~ Makes(r.cmd) /\ (Looking(r.cmd) \/ l = r.read)
      /\ Settled(r.cmd, r.read, l)
  BY <1>1, <1>2, KeepsSame DEF Makes, Looking, Settled
<1>4. /\ ent \in Entries /\ m \in Media /\ ent.vname \in Names /\ ent.part \in Int
      /\ ent.cwd \in Seq(Names)
  BY <1>2, <1>3, EntIs
<1>5. UNCHANGED <<media, file, swaps>> BY DEF hfsutil_remount
<1>6. ASSUME NEW x, EndWith(p, l, x), UNCHANGED locks PROVE Inv'
  <2>1. Ended(r.cmd, x, r.read, l) BY <1>3 DEF Ended
  <2> QED BY <1>1, <1>2, <1>5, <1>6, <2>1, EndsQuietly
<1> DEFINE v   == media[m][ent.part]
           cwd == IF full \in v.dirs THEN full ELSE RootOf(v)
<1>7. ASSUME ent.part \in DOMAIN media[m], Remountable(ent, media[m]),
             NEW write \in Modes(r.cmd, m), Mounted(p, AtWork(v, write, cwd), l, ent.part),
             locks' = locks \cup {Lock(m, p, write)}
      PROVE  Inv'
  <2> DEFINE w == AtWork(v, write, cwd)
             u == ToMounted(r, l, w, ent.part)
  <2>1. ent.part \in DOMAIN media[m] /\ NameOf(v) = ent.vname BY <1>7 DEF Remountable
  <2>2. IsVolume(v) BY <1>4, <2>1 DEF Inv, IsDisk
  <2>3. cwd \in v.dirs
    <3>1. RootOf(v) \in v.dirs BY <2>2, VolumeOf, NameIs
    <3> QED BY <3>1
  <2>4. write \in BOOLEAN /\ CanLock(m, write) BY <1>7, ModesCan
  <2> HIDE DEF cwd, v
  <2>5. Working(w) /\ w.v = v /\ w.ro = (~ write) /\ Home(w) BY <2>2, <2>3, <2>4, AtWorkIs
  <2>6. Set(p, u) BY <1>7 DEF Mounted, ToMounted
  <2> HIDE DEF w
  <2>7. /\ IsRun(u) /\ u.pc = "mounted" /\ u.cmd = r.cmd /\ u.list = l /\ u.w = w
        /\ u.read = r.read /\ u.alone = r.alone /\ u.part = ent.part
    BY <1>2, MountedIs
  <2> HIDE DEF u
  <2>8. Ent(u) = ent /\ Place(u) = m BY <2>7 DEF Ent, Place
  <2>9. AtMounted(u) BY <1>3, <2>1, <2>5, <2>7, <2>8 DEF AtMounted
  <2>10. Steady(u) BY <1>2, <1>4, <2>7, <2>9 DEF Steady
  <2>11. OnVolume(media, u) BY <1>3, <2>1, <2>5, <2>7, <2>8 DEF OnVolume, v
  <2> QED BY <1>1, <1>5, <1>7, <2>4, <2>5, <2>6, <2>7, <2>8, <2>10, <2>11, Mounts
<1>8. ASSUME ent.part \in DOMAIN media[m], NEW x,
             NEW write \in Modes(r.cmd, m), WrongVolume(p, AtWork(v, write, RootOf(v)), x),
             locks' = locks \cup {Lock(m, p, write)}
      PROVE  Inv'
  <2> DEFINE root == RootOf(v)
             w == AtWork(v, write, root)
             u == ToWrong(r, w, x)
  <2>1. IsVolume(v) BY <1>4, <1>8 DEF Inv, IsDisk
  <2>2. root \in v.dirs BY <2>1, VolumeOf, NameIs
  <2>3. write \in BOOLEAN /\ CanLock(m, write) BY <1>8, ModesCan
  <2> HIDE DEF root, v
  <2>4. Working(w) /\ w.v = v /\ w.ro = (~ write) BY <2>1, <2>2, <2>3, AtWorkIs
  <2>5. Set(p, u) BY <1>8 DEF WrongVolume, ToWrong, root
  <2> HIDE DEF w
  <2>6. /\ IsRun(u) /\ u.pc = "wrong" /\ u.cmd = r.cmd /\ u.list = l /\ u.w = w
        /\ u.result = x /\ u.read = r.read /\ u.alone = r.alone /\ u.part = r.part
    BY <1>2, WrongIs
  <2> HIDE DEF u
  <2>7. Ent(u) = ent /\ Place(u) = m BY <2>6 DEF Ent, Place
  <2>8. Ended(u.cmd, u.result, u.read, u.list) BY <1>3, <2>6 DEF Ended
  <2>9. Steady(u) BY <1>2, <2>6, <2>8 DEF Steady
  <2>10. OnVolume(media, u) BY <1>3, <1>8, <2>4, <2>6, <2>7 DEF OnVolume, v
  <2> QED BY <1>1, <1>5, <1>8, <2>3, <2>4, <2>5, <2>6, <2>7, <2>9, <2>10, Mounts
<1>9. \/ \E x : EndWith(p, l, x) /\ UNCHANGED locks
      \/ /\ ent.part \in DOMAIN media[m]
         /\ \E write \in Modes(r.cmd, m) :
              /\ locks' = locks \cup {Lock(m, p, write)}
              /\ \/ /\ Remountable(ent, media[m])
                    /\ Mounted(p, AtWork(v, write, cwd), l, ent.part)
                 \/ \E x : WrongVolume(p, AtWork(v, write, RootOf(v)), x)
  BY DEF hfsutil_remount
<1> QED BY <1>6, <1>7, <1>8, <1>9

(* hmount and hformat: the entry that is made is the volume's.             *)
LEMMA IntroduceKeeps == ASSUME Inv, NEW p \in Procs, Introduce(p) PROVE Inv'
<1> DEFINE r == proc[p]
           c == r.cmd
           m == MediumOf[c.path]
           part == r.part
           v == media[m][part]
<1>1. r.pc = "making" BY DEF Introduce
<1>2. /\ Steady(r) /\ IsRun(r) /\ IsList(r.list) /\ IsList(r.read) /\ r.list = r.read
      /\ c \in Commands /\ part \in Int /\ Makes(c)
  BY <1>1, PcIs DEF Steady
<1>3. c.do # "humount" /\ c.path \in Paths /\ m \in Media /\ Looking(c)
  BY <1>2, CommandLines DEF Makes, Media, Looking
<1>4. UNCHANGED <<media, file, swaps>> BY DEF Introduce
<1>5. ASSUME NEW x, EndWith(p, r.list, x), UNCHANGED locks PROVE Inv'
  <2>1. Ended(c, x, r.read, r.list) BY <1>1, <1>3, ListIs
  <2> QED BY <1>1, <1>2, <1>4, <1>5, <2>1, EndsQuietly
<1>6. ASSUME part \in DOMAIN media[m], NEW write \in Modes(c, m),
             Mounted(p, AtWork(v, write, RootOf(v)),
                     hcwd_mounted(r.list, NameOf(v), c.path, part), part),
             locks' = locks \cup {Lock(m, p, write)}
      PROVE  Inv'
  <2> DEFINE w == AtWork(v, write, RootOf(v))
             n == hcwd_mounted(r.list, NameOf(v), c.path, part)
             u == ToMounted(r, n, w, part)
  <2>1. IsVolume(v) BY <1>3, <1>6 DEF Inv, IsDisk
  <2>2. RootOf(v) \in v.dirs /\ NameOf(v) \in Names BY <2>1, VolumeOf, NameIs DEF Of
  <2>3. write \in BOOLEAN /\ CanLock(m, write) BY <1>6, ModesCan
  <2>4. Working(w) /\ w.v = v /\ w.ro = (~ write) /\ Home(w)
    <3> DEFINE cwd == RootOf(v)
    <3>1. cwd \in v.dirs /\ w = AtWork(v, write, cwd) BY <2>2
    <3> HIDE DEF cwd, v, w
    <3> QED BY <2>1, <2>3, <3>1, AtWorkIs
  <2>5. Set(p, u) BY <1>6 DEF Mounted, ToMounted
  <2>6. /\ IsList(n) /\ n.dirty /\ Keeps(r.list, n) /\ hasVol(n)
        /\ hcwd_getvol(n) = Entry(NameOf(v), c.path, part, << >>)
    BY <1>2, <1>3, <2>2, MountedKeeps
  <2> HIDE DEF w, n
  <2>7. /\ IsRun(u) /\ u.pc = "mounted" /\ u.cmd = c /\ u.list = n /\ u.w = w
        /\ u.read = r.read /\ u.alone = r.alone /\ u.part = part
    BY <1>2, MountedIs
  <2> HIDE DEF u
  <2>8. /\ Ent(u).path = c.path /\ Ent(u).part = part /\ Ent(u).vname = NameOf(v)
        /\ Ent(u).cwd = << >> /\ Place(u) = m
    BY <2>6, <2>7 DEF Ent, Place, Entry
  <2>9. AtMounted(u) BY <1>2, <1>3, <2>4, <2>6, <2>7, <2>8 DEF AtMounted, Settled
  <2>10. Steady(u) BY <1>2, <2>6, <2>7, <2>9 DEF Steady
  <2>11. OnVolume(media, u) BY <1>6, <2>4, <2>6, <2>7, <2>8 DEF OnVolume
  <2> QED BY <1>1, <1>4, <1>6, <2>3, <2>4, <2>5, <2>7, <2>8, <2>10, <2>11, Mounts
<1>7. \/ \E x : EndWith(p, r.list, x) /\ UNCHANGED locks
      \/ /\ part \in DOMAIN media[m]
         /\ \E write \in Modes(c, m) :
              /\ Mounted(p, AtWork(v, write, RootOf(v)),
                         hcwd_mounted(r.list, NameOf(v), c.path, part), part)
              /\ locks' = locks \cup {Lock(m, p, write)}
  BY DEF Introduce
<1> QED BY <1>5, <1>6, <1>7

(* hformat changes a medium that nobody has locked, and makes a volume.    *)
LEMMA FreshIs == ASSUME NEW n \in Names PROVE IsVolume(Fresh(n))
<1> DEFINE v == Fresh(n)
<1>1. <<n>> \in Seq(Names) /\ Len(<<n>>) > 0 /\ Head(<<n>>) = n OBVIOUS
<1>2. v.dirs = {<<n>>} /\ v.files = {} /\ v \in Volumes BY <1>1 DEF Fresh, Volumes
<1> HIDE DEF v
<1>3. Of(v, n) BY <1>1, <1>2 DEF Of, Under
<1> QED BY <1>3, VolumeOf DEF v

(* hformat, up to hfs_format.                                              *)
LEMMA HformatKeeps == ASSUME Inv, NEW p \in Procs, hformat_main(p) PROVE Inv'
<1> DEFINE c == proc[p].cmd
<1>1. proc[p].pc = "read" /\ c.do = "hformat" BY DEF hformat_main, At
<1>2. UNCHANGED <<media, locks, file, swaps>> BY DEF hformat_main, Quiet
<1>3. c \in Commands /\ c.do # "humount" /\ Makes(c) BY <1>1, ListIs DEF Makes
<1>4. CASE EndWith(p, proc[p].list, 4) BY <1>1, <1>2, <1>3, <1>4, ListIs, EndsQuietly
<1>5. ASSUME NEW part \in Partition(c),
             Set(p, [proc[p] EXCEPT !.pc = "formatting", !.part = part])
      PROVE  Inv'
  <2> DEFINE u == ToFormat(proc[p], part)
  <2>0. Set(p, u) BY <1>5 DEF ToFormat
  <2>1. part \in Int BY <1>3, PartitionIs
  <2>2. /\ Steady(u) /\ u.pc \in {"making", "formatting"}
        /\ u.alone = proc[p].alone /\ u.read = proc[p].read
    BY <1>1, <1>3, <2>1, MakingSteady
  <2> HIDE DEF u
  <2> QED BY <1>1, <1>2, <2>0, <2>2, Quietly
<1> QED BY <1>4, <1>5 DEF hformat_main

(* hfs_format: what the medium had is gone, and nobody had it mounted.     *)
LEMMA FormatKeeps == ASSUME Inv, NEW p \in Procs, do_format(p) PROVE Inv'
<1> DEFINE r == proc[p]
           c == r.cmd
           m == MediumOf[c.path]
           part == r.part
<1>1. r.pc = "formatting" BY DEF do_format
<1>2. /\ Steady(r) /\ IsRun(r) /\ IsList(r.list) /\ IsList(r.read) /\ r.list = r.read
      /\ c \in Commands /\ c.do = "hformat" /\ part \in Int
  BY <1>1, PcIs DEF Steady
<1>3. c.path \in Paths /\ m \in Media /\ Makes(c) /\ c.label \in Names
  BY <1>2, CommandLines DEF Makes, Media
<1>4. UNCHANGED <<locks, file, swaps>> BY DEF do_format
<1>5. ASSUME EndWith(p, r.list, 4), UNCHANGED media PROVE Inv'
  <2>1. Ended(c, 4, r.read, r.list) BY <1>1, <1>2, ListIs
  <2> QED BY <1>1, <1>2, <1>4, <1>5, <2>1, EndsQuietly
<1>6. ASSUME CanFormat(m, part),
             media' = [media EXCEPT ![m] = Formatted(media[m], part, c.label)],
             Set(p, [proc[p] EXCEPT !.pc = "making"])
      PROVE  Inv'
  <2> DEFINE u == ToMaking(proc[p])
             new == Formatted(media[m], part, c.label)
  <2>2. Set(p, u) BY <1>6 DEF ToMaking
  <2>3. Steady(u) /\ u.pc = "making" /\ u.alone = proc[p].alone /\ u.read = proc[p].read
    <3>1. /\ IsRun(u) /\ u.pc = "making" /\ u.cmd = c /\ u.list = r.list
          /\ u.read = r.read /\ u.alone = r.alone /\ u.part = part
      BY <1>2, FormattedIs
    <3> HIDE DEF u
    <3> QED BY <1>2, <1>3, <3>1 DEF Steady
  <2>4. CanLock(m, TRUE) BY <1>6 DEF CanFormat
  <2> HIDE DEF u
  <2>5. IsDisk(new)
    <3>1. IsVolume(Fresh(c.label)) BY <1>3, FreshIs
    <3>2. IsDisk(media[m]) BY <1>3 DEF Inv
    <3> DEFINE fresh == Fresh(c.label)
               disk == media[m]
    <3>3. new = IF part = 0 THEN [i \in {0} |-> fresh] ELSE [disk EXCEPT ![part] = fresh]
      BY DEF Formatted
    <3> HIDE DEF fresh, disk, new
    <3>4. IsVolume(fresh) /\ IsDisk(disk) BY <3>1, <3>2 DEF fresh, disk
    <3>5. CASE part = 0 BY <3>3, <3>4, <3>5 DEF IsDisk
    <3>6. CASE part # 0
      <4>1. new = [disk EXCEPT ![part] = fresh] BY <3>3, <3>6
      <4> QED BY <3>4, <4>1 DEF IsDisk
    <3> QED BY <3>5, <3>6
  <2> HIDE DEF new
  <2>6. DOMAIN media = Media /\ \A k \in Media : IsDisk(media[k]) BY DEF Inv
  <2>7. DOMAIN media' = Media /\ \A k \in Media : media'[k] = IF k = m THEN new ELSE media[k]
    BY <1>6, <2>6 DEF new
  <2>8. \A k \in Media : IsDisk(media'[k]) BY <2>5, <2>6, <2>7
  <2>9. ASSUME NEW q \in Procs, Has(proc[q]) PROVE OnVolume(media', proc[q])
    <3>1. LockOf(q, proc[q]) \in locks /\ OnVolume(media, proc[q]) BY <2>9 DEF Inv, Locked
    <3>2. Place(proc[q]) # m BY <2>4, <3>1 DEF CanLock, LockOf, Lock
    <3>3. IsList(proc[q].list) /\ hasVol(proc[q].list)
      BY <2>9, <3>1, PcIs DEF Has, Steady, OnVolume
    <3>4. Place(proc[q]) \in Media BY <3>3, EntIs DEF Place, Ent
    <3>5. media'[Place(proc[q])] = media[Place(proc[q])] BY <2>7, <3>2, <3>4
    <3> QED BY <3>1, <3>5 DEF OnVolume
  <2>10. ~ Has(proc[p]) /\ ~ Has(u) BY <1>1, <2>3 DEF Has
  <2>11. Locked(locks', proc') BY <1>4, <2>2, <2>10, LocksStay
  <2> QED BY <1>1, <1>4, <2>2, <2>3, <2>7, <2>8, <2>9, <2>10, <2>11, Proceeds
<1>7. \/ EndWith(p, r.list, 4) /\ UNCHANGED media
      \/ /\ CanFormat(m, part)
         /\ media' = [media EXCEPT ![m] = Formatted(media[m], part, c.label)]
         /\ Set(p, [proc[p] EXCEPT !.pc = "making"])
  BY DEF do_format
<1> QED BY <1>5, <1>6, <1>7

(* A full path is its name and the rest.                                   *)
LEMMA HeadAndTail ==
    ASSUME NEW s \in Seq(Names), s # << >> PROVE <<Head(s)>> \o Tail(s) = s
<1> DEFINE k == Len(s)
           a == <<Head(s)>>
           b == Tail(s)
           t == a \o b
<1>1. /\ Head(s) \in Names /\ b \in Seq(Names) /\ Len(b) = k - 1
      /\ \A i \in 1 .. Len(b) : b[i] = s[i + 1]
  BY HeadTailProperties
<1>2. a \in Seq(Names) /\ Len(a) = 1 /\ a[1] = s[1] BY <1>1
<1>3. k \in Nat BY LenProperties
<1> HIDE DEF k, a, b
<1>4. /\ t \in Seq(Names) /\ Len(t) = Len(a) + Len(b)
      /\ \A i \in 1 .. Len(a) + Len(b) : t[i] = IF i <= Len(a) THEN a[i] ELSE b[i - Len(a)]
  <2>1. a \in Seq(Names) /\ b \in Seq(Names) BY <1>1, <1>2
  <2> QED BY <2>1, ConcatProperties
<1> HIDE DEF t
<1>5. Len(t) = k BY <1>1, <1>2, <1>3, <1>4
<1>6. ASSUME NEW i \in 1 .. Len(t) PROVE t[i] = s[i]
  <2>1. t[i] = IF i <= 1 THEN a[i] ELSE b[i - 1] BY <1>1, <1>2, <1>3, <1>4, <1>5
  <2>2. CASE i = 1 BY <1>2, <2>1, <2>2
  <2>3. CASE i # 1
    <3>1. i \in Int /\ i > 1 /\ i - 1 \in 1 .. Len(b) /\ i - 1 + 1 = i BY <1>1, <1>3, <1>5, <2>3
    <3> QED BY <1>1, <2>1, <3>1
  <2> QED BY <2>2, <2>3
<1>7. t = s BY <1>4, <1>5, <1>6, SeqEqual DEF k
<1> QED BY <1>7 DEF t, a, b

(* The name of a volume is what the paths of its directories begin with.   *)
LEMMA PathIs ==
    ASSUME NEW w, Working(w), Home(w)
    PROVE  /\ Head(w.cwd) = NameOf(w.v) /\ <<Head(w.cwd)>> \o Tail(w.cwd) = w.cwd
           /\ w.cwd \in Seq(Names) /\ w.cwd # << >>
<1>1. PICK n \in Names : Of(w.v, n) BY WorkIs
<1>2. NameOf(w.v) = n /\ Head(w.cwd) = n BY <1>1, NameIs DEF Home, Of, Under
<1> QED BY <1>2, WorkIs, HeadAndTail

(* What a command does to a volume leaves every other volume as it is.     *)
LEMMA WroteIs ==
    ASSUME DOMAIN media = Media, NEW m \in Media, NEW part \in DOMAIN media[m], NEW x,
           media' = [media EXCEPT ![m][part] = x]
    PROVE  /\ DOMAIN media' = Media /\ \A k \in Media : DOMAIN media'[k] = DOMAIN media[k]
           /\ \A k \in Media : \A i \in DOMAIN media[k] :
                media'[k][i] = IF k = m /\ i = part THEN x ELSE media[k][i]
<1> DEFINE disk == [media[m] EXCEPT ![part] = x]
<1>1. media' = [media EXCEPT ![m] = disk] OBVIOUS
<1>2. DOMAIN disk = DOMAIN media[m]
      /\ \A i \in DOMAIN media[m] : disk[i] = IF i = part THEN x ELSE media[m][i]
  OBVIOUS
<1> HIDE DEF disk
<1>3. DOMAIN media' = Media /\ \A k \in Media : media'[k] = IF k = m THEN disk ELSE media[k]
  BY <1>1
<1> QED BY <1>2, <1>3

(* What the list of a command that has done its work says.                 *)
LEMMA WorkSteady ==
    ASSUME NEW r, Steady(r), r.pc = "mounted", hasVol(r.list), Working(r.w),
           NEW w, w = Worked(r.cmd, r.w),
           NEW n, n = IF w.ok /\ Follows(r.cmd) THEN hcwd_setcwd(r.list, w.cwd) ELSE r.list,
           NEW x, x = IF w.ok THEN 0 ELSE 1, NEW u, u = ToWorked(r, w, x, n)
    PROVE  /\ Steady(u) /\ u.pc = "worked" /\ u.alone = r.alone /\ u.read = r.read
           /\ u.w = w /\ u.list = n /\ hasVol(n)
           /\ Ent(u).path = Ent(r).path /\ Ent(u).part = Ent(r).part
<1>1. /\ IsRun(r) /\ IsList(r.list) /\ IsList(r.read) /\ AtMounted(r) /\ r.cmd \in Commands
      /\ r.part \in Int /\ (r.list.dirty \/ r.list = r.read)
  BY DEF Steady
<1>2. /\ IsRun(u) /\ u.pc = "worked" /\ u.cmd = r.cmd /\ u.list = n /\ u.w = w
      /\ u.result = x /\ u.read = r.read /\ u.alone = r.alone /\ u.part = r.part
  BY <1>1, WorkedIs
<1>3. Goes(r.w, w) /\ (Looking(r.cmd) => w = r.w) /\ (Follows(r.cmd) => Home(w))
  BY <1>1, WorkedGoes DEF AtMounted
<1>4. Working(w) BY <1>3 DEF Goes
<1>5. CASE w.ok /\ Follows(r.cmd)
  <2>1. n = hcwd_setcwd(r.list, w.cwd) BY <1>5
  <2>2. /\ Head(w.cwd) = NameOf(w.v) /\ <<Head(w.cwd)>> \o Tail(w.cwd) = w.cwd
        /\ w.cwd \in Seq(Names) /\ w.cwd # << >>
    BY <1>3, <1>4, <1>5, PathIs
  <2>3. /\ IsList(n) /\ n.dirty /\ Keeps(r.list, n) /\ hasVol(n) /\ Current(n) = Current(r.list)
        /\ hcwd_getvol(n).path = Ent(r).path /\ hcwd_getvol(n).part = Ent(r).part
        /\ hcwd_getvol(n).vname = Head(w.cwd) /\ hcwd_getvol(n).cwd = Tail(w.cwd)
    <3> DEFINE l    == r.list
               full == w.cwd
    <3>1. IsList(l) /\ hasVol(l) /\ full \in Seq(Names) /\ full # << >> /\ n = hcwd_setcwd(l, full)
      BY <1>1, <2>1, <2>2
    <3>2. hcwd_getvol(l) = Ent(r) BY DEF Ent
    <3> HIDE DEF l, full
    <3>3. /\ IsList(n) /\ n.dirty /\ Keeps(l, n) /\ hasVol(n) /\ Current(n) = Current(l)
          /\ hcwd_getvol(n).path = hcwd_getvol(l).path
          /\ hcwd_getvol(n).part = hcwd_getvol(l).part
          /\ hcwd_getvol(n).vname = Head(full) /\ hcwd_getvol(n).cwd = Tail(full)
      BY <3>1, SetcwdKeeps
    <3> QED BY <3>2, <3>3 DEF l, full
  <2>4. r.list = r.read BY <1>1, <1>5 DEF AtMounted, Follows, Looking, Makes
  <2>5. Ended(r.cmd, x, r.read, n) BY <1>5, <2>3, <2>4 DEF Ended, Settled, Follows
  <2>6. Ent(u) = hcwd_getvol(n) BY <1>2 DEF Ent
  <2>7. AtWorked(u)
    <3>1. Ent(u).vname = NameOf(w.v) BY <2>2, <2>3, <2>6
    <3>2. <<Ent(u).vname>> \o Ent(u).cwd = w.cwd BY <2>2, <2>3, <2>6
    <3>3. w.cwd \in w.v.dirs BY <1>3, <1>5 DEF Home
    <3>4. WayBack(Ent(u), w.v) BY <3>1, <3>2, <3>3 DEF WayBack
    <3> QED BY <1>2, <3>4 DEF AtWorked
  <2>8. Steady(u) BY <1>1, <1>2, <2>3, <2>5, <2>7 DEF Steady
  <2> QED BY <1>2, <2>3, <2>6, <2>8
<1>6. CASE ~ (w.ok /\ Follows(r.cmd))
  <2>1. n = r.list /\ Ent(u) = Ent(r) BY <1>2, <1>6 DEF Ent
  <2>2. Ended(r.cmd, x, r.read, n) BY <1>1, <2>1 DEF Ended, AtMounted
  <2>3. AtWorked(u)
    <3>1. SUFFICES ASSUME u.result = 0, Makes(u.cmd) \/ Follows(u.cmd)
                   PROVE  WayBack(Ent(u), w.v)
      BY <1>2 DEF AtWorked
    <3>2. w.ok BY <1>2, <3>1
    <3>3. Makes(r.cmd) /\ w = r.w BY <1>2, <1>3, <1>6, <3>1, <3>2 DEF Looking
    <3>4. Ent(r).vname = NameOf(w.v) /\ Ent(r).cwd = << >> BY <1>1, <3>3 DEF AtMounted
    <3>5. Ent(r).vname \in Names BY <1>1, EntIs DEF Ent
    <3>6. <<Ent(r).vname>> \o Ent(r).cwd = <<Ent(r).vname>>
      <4>1. <<Ent(r).vname>> \in Seq(Names) BY <3>5
      <4> QED BY <3>4, <4>1, ConcatEmptySeq
    <3>7. RootOf(w.v) \in w.v.dirs BY <1>4, WorkIs, NameIs
    <3> QED BY <2>1, <3>4, <3>6, <3>7 DEF WayBack, RootOf
  <2>4. Steady(u) BY <1>1, <1>2, <2>1, <2>2, <2>3 DEF Steady
  <2> QED BY <1>2, <2>1, <2>4
<1> QED BY <1>5, <1>6

(* What Work does to the media: a volume is another than before only where *)
(* the process has one mounted that it may write.                          *)
LEMMA WorkWrites ==
    ASSUME Inv, NEW p \in Procs, Work(p)
    PROVE  LET r == proc[p]
               w == Worked(r.cmd, r.w)
           IN  /\ r.pc = "mounted" /\ Steady(r) /\ OnVolume(media, r)
               /\ Place(r) \in Media /\ Ent(r).part \in DOMAIN media[Place(r)]
               /\ Goes(r.w, w) /\ (Looking(r.cmd) => w = r.w)
               /\ DOMAIN media' = Media /\ \A k \in Media : DOMAIN media'[k] = DOMAIN media[k]
               /\ \A k \in Media : \A i \in DOMAIN media[k] :
                    media'[k][i] = IF k = Place(r) /\ i = Ent(r).part THEN w.v ELSE media[k][i]
<1> DEFINE r == proc[p]
           w == Worked(r.cmd, r.w)
<1>1. r.pc = "mounted" BY DEF Work
<1>2. Steady(r) /\ OnVolume(media, r) BY <1>1, PcIs DEF Inv, Has
<1>3. IsList(r.list) /\ hasVol(r.list) /\ Working(r.w) /\ r.cmd \in Commands
  BY <1>2 DEF Steady, OnVolume
<1>4. Goes(r.w, w) /\ (Looking(r.cmd) => w = r.w) BY <1>3, WorkedGoes
<1>5. Place(r) \in Media BY <1>3, EntIs DEF Place, Ent
<1>6. Ent(r).part \in DOMAIN media[Place(r)] BY <1>2 DEF OnVolume
<1>7. media' = [media EXCEPT ![Place(r)][Ent(r).part] = w.v] BY DEF Work, Place, Ent
<1>8. DOMAIN media = Media BY DEF Inv
<1> HIDE DEF r, w
<1>9. /\ DOMAIN media' = Media /\ \A k \in Media : DOMAIN media'[k] = DOMAIN media[k]
      /\ \A k \in Media : \A i \in DOMAIN media[k] :
           media'[k][i] = IF k = Place(r) /\ i = Ent(r).part THEN w.v ELSE media[k][i]
  BY <1>5, <1>6, <1>7, <1>8, WroteIs
<1> QED BY <1>1, <1>2, <1>4, <1>5, <1>6, <1>9 DEF r, w

(* The work of a command changes its volume under its lock; those who read *)
(* the same volume still have it as it is on the medium.                   *)
LEMMA WorkKeeps == ASSUME Inv, NEW p \in Procs, Work(p) PROVE Inv'
<1> DEFINE r == proc[p]
           w == Worked(r.cmd, r.w)
           x == IF w.ok THEN 0 ELSE 1
           n == IF w.ok /\ Follows(r.cmd) THEN hcwd_setcwd(r.list, w.cwd) ELSE r.list
           u == ToWorked(r, w, x, n)
           m == Place(r)
           part == Ent(r).part
<1>1. /\ r.pc = "mounted" /\ Steady(r) /\ OnVolume(media, r)
      /\ m \in Media /\ part \in DOMAIN media[m] /\ Goes(r.w, w)
      /\ DOMAIN media' = Media /\ \A k \in Media : DOMAIN media'[k] = DOMAIN media[k]
      /\ \A k \in Media : \A i \in DOMAIN media[k] :
           media'[k][i] = IF k = m /\ i = part THEN w.v ELSE media[k][i]
  BY WorkWrites
<1>2. Set(p, u) /\ UNCHANGED <<locks, file, swaps>> BY DEF Work, ToWorked
<1>3. Working(r.w) /\ hasVol(r.list) /\ media[m][part] = r.w.v BY <1>1 DEF OnVolume
<1> HIDE DEF x, n, w
<1>4. /\ Steady(u) /\ u.pc = "worked" /\ u.alone = r.alone /\ u.read = r.read
      /\ u.w = w /\ u.list = n /\ hasVol(n) /\ Ent(u).path = Ent(r).path /\ Ent(u).part = part
  BY <1>1, <1>3, WorkSteady DEF x, n, w
<1> HIDE DEF u, r
<1>5. Working(w) /\ w.ro = r.w.ro /\ (w.ro => w.v = r.w.v) BY <1>1 DEF Goes
<1>6. Place(u) = m BY <1>4 DEF Place
<1>7. OnVolume(media', u) BY <1>1, <1>4, <1>5, <1>6 DEF OnVolume
<1>8. \A k \in Media : IsDisk(media'[k])
  <2> SUFFICES ASSUME NEW k \in Media, NEW i \in DOMAIN media'[k] PROVE IsVolume(media'[k][i])
    BY DEF IsDisk
  <2>1. i \in DOMAIN media[k] BY <1>1
  <2>2. IsVolume(media[k][i]) BY <2>1 DEF Inv, IsDisk
  <2>3. IsVolume(w.v) BY <1>5 DEF Working
  <2> QED BY <1>1, <2>1, <2>2, <2>3
<1>9. ASSUME NEW q \in Procs \ {p}, Has(proc[q]) PROVE OnVolume(media', proc[q])
  <2> DEFINE s == proc[q]
             k == Place(s)
             i == Ent(s).part
  <2>1. OnVolume(media, s) /\ Steady(s) BY <1>9, PcIs DEF Inv, Has
  <2>2. k \in Media /\ i \in DOMAIN media[k] /\ media[k][i] = s.w.v
    BY <2>1, EntIs DEF OnVolume, Steady, Place, Ent
  <2>3. media'[k][i] = media[k][i]
    <3>1. CASE k # m BY <1>1, <2>2, <3>1
    <3>2. CASE k = m
      <4>1. LockOf(p, r) \in locks /\ LockOf(q, s) \in locks
        BY <1>1, <1>9 DEF Inv, Locked, Has, r
      <4>2. /\ LockOf(p, r).medium = m /\ LockOf(p, r).proc = p /\ LockOf(p, r).write = (~ r.w.ro)
            /\ LockOf(q, s).medium = k /\ LockOf(q, s).proc = q
        BY DEF LockOf, Lock
      <4>3. ~ LockOf(p, r).write BY <3>2, <4>1, <4>2 DEF Inv, Locked
      <4>4. w.v = r.w.v BY <1>5, <4>2, <4>3
      <4> QED BY <1>1, <1>3, <2>2, <4>4
    <3> QED BY <3>1, <3>2
  <2>4. i \in DOMAIN media'[k] BY <1>1, <2>2
  <2> HIDE DEF s
  <2> QED BY <2>1, <2>2, <2>3, <2>4 DEF OnVolume, s
<1>10. Locked(locks', proc')
  <2>1. LockOf(p, u) = LockOf(p, r) BY <1>4, <1>5, <1>6 DEF LockOf
  <2>2. Has(r) /\ Has(u) BY <1>1, <1>4 DEF Has
  <2> QED BY <1>2, <2>1, <2>2, LocksStay DEF r
<1> QED BY <1>1, <1>2, <1>4, <1>7, <1>8, <1>9, <1>10, Proceeds DEF r

(* hfsutil_unmount: the lock goes with the volume.                         *)
LEMMA UnmountKeeps == ASSUME Inv, NEW p \in Procs, hfsutil_unmount(p) PROVE Inv'
<1> DEFINE r == proc[p]
           u == ToEnd(r, r.list, r.result)
<1>1. r.pc \in {"worked", "wrong"} /\ locks' = locks \ Holds(p) /\ UNCHANGED <<media, file, swaps>>
  BY DEF hfsutil_unmount
<1>2. Steady(r) BY <1>1, PcIs
<1>3. Set(p, u) BY DEF hfsutil_unmount, EndWith, ToEnd
<1>4. /\ IsList(r.list) /\ (r.list.dirty \/ r.list = r.read)
      /\ Ended(r.cmd, r.result, r.read, r.list)
  BY <1>1, <1>2 DEF Steady
<1>5. Steady(u) /\ u.pc = "ending" /\ u.alone = r.alone /\ u.read = r.read
  BY <1>2, <1>4, EndSteady
<1> HIDE DEF u
<1>6. proc'[p] = u /\ \A q \in Procs \ {p} : proc'[q] = proc[q] BY <1>3, PcIs DEF Set
<1>7. Locked(locks', proc')
  <2>1. Locked(locks, proc) BY DEF Inv
  <2>2. \A l : l \in locks' <=> l \in locks /\ l.proc # p BY <1>1 DEF Holds
  <2>3. ASSUME NEW q \in Procs, Has(proc'[q]) PROVE LockOf(q, proc'[q]) \in locks'
    <3>1. q # p BY <1>5, <1>6, <2>3 DEF Has
    <3>2. LockOf(q, proc[q]) \in locks BY <1>6, <2>1, <2>3, <3>1 DEF Locked
    <3>3. LockOf(q, proc[q]).proc = q BY DEF LockOf, Lock
    <3> QED BY <1>6, <2>2, <3>1, <3>2, <3>3
  <2>4. ASSUME NEW l \in locks'
        PROVE  l.proc \in Procs /\ Has(proc'[l.proc]) /\ l = LockOf(l.proc, proc'[l.proc])
    <3>1. l \in locks /\ l.proc # p BY <2>2
    <3>2. l.proc \in Procs /\ Has(proc[l.proc]) /\ l = LockOf(l.proc, proc[l.proc])
      BY <2>1, <3>1 DEF Locked
    <3> QED BY <1>6, <3>1, <3>2
  <2>5. \A k, l \in locks' : k.medium = l.medium => k = l \/ (~ k.write /\ ~ l.write)
    BY <2>1, <2>2 DEF Locked
  <2> QED BY <2>3, <2>4, <2>5 DEF Locked
<1>8. DOMAIN media' = Media /\ \A m \in Media : IsDisk(media'[m]) BY <1>1 DEF Inv
<1>9. \A q \in Procs \ {p} : Has(proc[q]) => OnVolume(media', proc[q]) BY <1>1 DEF Inv
<1>10. ~ Has(u) BY <1>5 DEF Has
<1> QED BY <1>1, <1>3, <1>5, <1>7, <1>8, <1>9, <1>10, Proceeds

(* A process whose file nobody else has touched touches it, or ends.       *)
LEMMA Finishes ==
    ASSUME Inv, NEW p \in Procs, proc[p].pc \in {"ending", "emptied"}, NEW u, Set(p, u),
           UNCHANGED <<media, locks, swaps>>, IsFile(file'),
           \/ u = Idle
           \/ Steady(u) /\ u.pc = "emptied" /\ u.alone = proc[p].alone /\ file' = Empty
    PROVE  Inv'
<1>1. /\ DOMAIN proc' = Procs /\ proc'[p] = u
      /\ \A q \in Procs \ {p} : proc'[q] = proc[q]
  BY PcIs DEF Set
<1>2. \A q \in Procs : proc'[q] = Idle \/ Steady(proc'[q]) BY <1>1 DEF Inv
<1>3. ~ Has(u) /\ ~ Has(proc[p]) BY DEF Has, Idle
<1>4. \A q \in Procs : Has(proc'[q]) => OnVolume(media', proc'[q]) BY <1>1, <1>3 DEF Inv
<1>5. Locked(locks', proc') BY <1>3, LocksStay
<1>6. Unseen'
  <2> SUFFICES ASSUME NEW q \in Procs, proc'[q].pc # "idle", proc'[q].alone
               PROVE  /\ \A o \in Procs \ {q} : proc'[o].pc = "idle"
                      /\ IF proc'[q].pc = "emptied" THEN file' = Empty
                         ELSE hcwd_init' = proc'[q].read
    BY DEF Unseen
  <2>1. CASE q # p
    <3>1. proc[q].pc # "idle" /\ proc[q].alone BY <1>1, <2>1
    <3>2. proc[p].pc = "idle" BY <2>1, <3>1 DEF Inv, Unseen
    <3> QED BY <3>2
  <2>2. CASE q = p
    <3>1. u.pc = "emptied" /\ u.alone = proc[p].alone /\ file' = Empty
      BY <1>1, <2>2 DEF Idle
    <3>2. \A o \in Procs \ {p} : proc[o].pc = "idle" BY <1>1, <2>2, <3>1 DEF Inv, Unseen
    <3> QED BY <1>1, <2>2, <3>1, <3>2
  <2> QED BY <2>1, <2>2
<1>7. DOMAIN media' = Media /\ \A m \in Media : IsDisk(media'[m]) BY DEF Inv
<1>8. swaps' \in Nat BY DEF Inv
<1> QED BY <1>1, <1>2, <1>4, <1>5, <1>6, <1>7, <1>8 DEF Inv

(* The empty file is one.                                                  *)
LEMMA EmptyIsFile == IsFile(Empty)
<1>1. << >> \in Seq(Entries) BY EmptySeq
<1> QED BY <1>1 DEF Empty, IsFile, NoVol

(* hcwd_finish: the file is emptied,                                       *)
LEMMA EmptiesKeeps == ASSUME Inv, NEW p \in Procs, Empties(p) PROVE Inv'
<1> DEFINE r == proc[p]
           u == ToEmptied(r)
<1>1. /\ r.pc = "ending" /\ r.list.dirty /\ file' = Empty /\ UNCHANGED <<media, locks, swaps>>
      /\ Set(p, u)
  BY DEF Empties, Emptied, ToEmptied
<1>2. Steady(r) /\ IsRun(r) BY <1>1, PcIs
<1>3. /\ IsRun(u) /\ u.pc = "emptied" /\ u.cmd = r.cmd /\ u.list = r.list
      /\ u.result = r.result /\ u.read = r.read /\ u.alone = r.alone /\ u.part = r.part
  BY <1>2, EmptiedIs
<1> HIDE DEF u
<1>4. Steady(u) BY <1>1, <1>2, <1>3 DEF Steady
<1> QED BY <1>1, <1>3, <1>4, EmptyIsFile, Finishes

(* and written,                                                            *)
LEMMA WritesKeeps == ASSUME Inv, NEW p \in Procs, Writes(p) PROVE Inv'
<1>1. /\ proc[p].pc = "emptied" /\ file' = Overlaid(file, proc[p].list)
      /\ UNCHANGED <<media, locks, swaps>> /\ Set(p, Idle)
  BY DEF Writes
<1>2. IsFile(file) /\ IsList(proc[p].list) BY <1>1, PcIs DEF Inv, Steady
<1>3. IsFile(file') BY <1>1, <1>2, OverlaidIsFile
<1> QED BY <1>1, <1>3, Finishes

(* unless there is nothing to be written.                                  *)
LEMMA WritesNothingKeeps == ASSUME Inv, NEW p \in Procs, WritesNothing(p) PROVE Inv'
<1>1. proc[p].pc = "ending" /\ UNCHANGED <<media, locks, swaps, file>> /\ Set(p, Idle)
  BY DEF WritesNothing, Quiet
<1>2. IsFile(file') BY <1>1 DEF Inv
<1> QED BY <1>1, <1>2, Finishes

(* A new process reads the list, and overlaps those that run already.      *)
LEMMA BeginKeeps == ASSUME Inv, NEW p \in Procs, Begin(p) PROVE Inv'
<1> DEFINE others == {q \in Procs \ {p} : proc[q].pc # "idle"}
<1>1. /\ proc[p].pc = "idle" /\ UNCHANGED <<media, locks, file, swaps>>
  BY DEF Begin
<1>2. PICK c \in Commands :
        LET new == [pc |-> "read", cmd |-> c, list |-> hcwd_init, result |-> 0,
                    read |-> hcwd_init, alone |-> others = {}, w |-> NoWork, part |-> NoPart]
        IN  proc' = [q \in Procs |-> IF q = p THEN new
                                     ELSE IF q \in others THEN [proc[q] EXCEPT !.alone = FALSE]
                                     ELSE proc[q]]
  BY DEF Begin
<1> DEFINE none == others = {}
           u == Run("read", c, hcwd_init, 0, hcwd_init, none, NoWork, NoPart)
<1>3. /\ DOMAIN proc' = Procs /\ proc'[p] = u
      /\ \A q \in others : proc'[q] = Overlapped(proc[q])
      /\ \A q \in Procs \ {p} : q \notin others => proc'[q] = proc[q]
  BY <1>2 DEF Run, Overlapped
<1>4. /\ IsRun(u) /\ u.pc = "read" /\ u.cmd = c /\ u.list = hcwd_init /\ u.read = hcwd_init
      /\ u.alone = none /\ u.part = NoPart
  BY DEF Run, IsRun
<1> HIDE DEF u
<1>5. Steady(u)
  <2>1. IsList(hcwd_init) BY ReadIsList DEF Inv
  <2> HIDE DEF none
  <2> QED BY <1>4, <2>1 DEF Steady, NoPart
<1>6. ASSUME NEW q \in others
      PROVE  LET s == proc[q]
                 t == proc'[q]
             IN  /\ Steady(t) /\ ~ t.alone /\ t.pc = s.pc /\ t.w = s.w /\ t.list = s.list
  <2> DEFINE s == proc[q]
             t == proc'[q]
  <2>1. Steady(s) /\ IsRun(s) BY PcIs
  <2>2. t = Overlapped(s) BY <1>3
  <2> HIDE DEF t
  <2>3. /\ IsRun(t) /\ t.pc = s.pc /\ t.cmd = s.cmd /\ t.list = s.list /\ t.w = s.w
        /\ t.result = s.result /\ t.read = s.read /\ ~ t.alone /\ t.part = s.part
    BY <2>1, <2>2, SeenIs
  <2>4. AtMounted(s) => AtMounted(t) BY <2>3 DEF AtMounted, Ent
  <2>5. AtWorked(s) => AtWorked(t) BY <2>3 DEF AtWorked, Ent
  <2>6. Steady(t) BY <2>1, <2>3, <2>4, <2>5 DEF Steady
  <2> QED BY <2>3, <2>6 DEF t
<1>7. \A q \in Procs : proc'[q] = Idle \/ Steady(proc'[q]) BY <1>3, <1>5, <1>6 DEF Inv
<1>8. ASSUME NEW q \in Procs
      PROVE  /\ Has(proc'[q]) <=> Has(proc[q])
             /\ Has(proc[q]) => proc'[q].w = proc[q].w /\ proc'[q].list = proc[q].list
  <2>1. CASE q = p BY <1>1, <1>3, <1>4, <2>1 DEF Has
  <2>2. CASE q \in others BY <1>6, <2>2 DEF Has
  <2>3. CASE q # p /\ q \notin others BY <1>3, <2>3
  <2> QED BY <2>1, <2>2, <2>3
<1>9. \A q \in Procs :
        Has(proc[q]) => Ent(proc'[q]) = Ent(proc[q]) /\ Place(proc'[q]) = Place(proc[q])
  BY <1>8 DEF Ent, Place
<1>10. \A q \in Procs : Has(proc'[q]) => OnVolume(media', proc'[q])
  BY <1>1, <1>8, <1>9 DEF Inv, OnVolume
<1>11. Locked(locks', proc')
  <2>1. \A q \in Procs : Has(proc[q]) => LockOf(q, proc'[q]) = LockOf(q, proc[q])
    BY <1>8, <1>9 DEF LockOf
  <2>2. Locked(locks, proc) /\ locks' = locks BY <1>1 DEF Inv
  <2> QED BY <1>8, <2>1, <2>2 DEF Locked
<1>12. Unseen'
  <2>1. hcwd_init' = hcwd_init BY <1>1 DEF hcwd_init
  <2> SUFFICES ASSUME NEW q \in Procs, proc'[q].pc # "idle", proc'[q].alone
               PROVE  /\ \A o \in Procs \ {q} : proc'[o].pc = "idle"
                      /\ IF proc'[q].pc = "emptied" THEN file' = Empty
                         ELSE hcwd_init' = proc'[q].read
    BY DEF Unseen
  <2>2. q = p
    <3>1. q \notin others BY <1>6
    <3> QED BY <1>3, <3>1
  <2>3. others = {} BY <1>3, <1>4, <2>2
  <2>4. \A o \in Procs \ {p} : proc'[o].pc = "idle" BY <1>3, <2>3
  <2> QED BY <1>3, <1>4, <2>1, <2>2, <2>4
<1>13. /\ DOMAIN media' = Media /\ \A m \in Media : IsDisk(media'[m])
       /\ IsFile(file') /\ swaps' \in Nat
  BY <1>1 DEF Inv
<1> QED BY <1>3, <1>7, <1>10, <1>11, <1>12, <1>13 DEF Inv

(* A medium is replaced only while nobody has it open.                     *)
LEMMA ReplaceKeeps == ASSUME Inv, Replace PROVE Inv'
<1>1. PICK m \in Media, d \in Disks :
        (\A l \in locks : l.medium # m) /\ media' = [media EXCEPT ![m] = d.vols]
  BY DEF Replace
<1>2. UNCHANGED <<locks, file, proc>> /\ swaps' = swaps + 1 BY DEF Replace
<1>3. DOMAIN media = Media /\ \A k \in Media : IsDisk(media[k]) BY DEF Inv
<1>4. DOMAIN media' = Media /\ \A k \in Media : media'[k] = IF k = m THEN d.vols ELSE media[k]
  BY <1>1, <1>3
<1>5. IsDisk(d.vols) BY DisksHaveVolumes DEF IsDisk
<1>6. \A k \in Media : IsDisk(media'[k]) BY <1>3, <1>4, <1>5
<1>7. ASSUME NEW q \in Procs, Has(proc[q]) PROVE OnVolume(media', proc[q])
  <2>1. LockOf(q, proc[q]) \in locks /\ OnVolume(media, proc[q]) BY <1>7 DEF Inv, Locked
  <2>2. Place(proc[q]) # m BY <1>1, <2>1 DEF LockOf, Lock
  <2>3. Place(proc[q]) \in Media
    BY <1>7, <2>1, PcIs, EntIs DEF Has, Steady, OnVolume, Place, Ent
  <2>4. media'[Place(proc[q])] = media[Place(proc[q])] BY <1>4, <2>2, <2>3
  <2> QED BY <2>1, <2>4 DEF OnVolume
<1>8. Unseen' BY <1>2 DEF Inv, Unseen, hcwd_init
<1>9. Locked(locks', proc') BY <1>2 DEF Inv
<1> QED BY <1>2, <1>4, <1>6, <1>7, <1>8, <1>9 DEF Inv

(* The invariant holds at first,                                           *)
LEMMA InvInit == ASSUME Init PROVE Inv
<1>1. DOMAIN media = Media /\ \A m \in Media : IsDisk(media[m])
  <2>1. PICK disk \in [Media -> Disks] : media = [m \in Media |-> disk[m].vols] BY DEF Init
  <2> QED BY <2>1, DisksHaveVolumes DEF IsDisk
<1>2. DOMAIN proc = Procs /\ \A p \in Procs : proc[p] = Idle /\ proc[p].pc = "idle"
  BY DEF Init, Idle
<1>3. IsFile(file) /\ swaps \in Nat BY EmptyIsFile DEF Init
<1>4. Locked(locks, proc) BY <1>2 DEF Init, Locked, Has
<1> QED BY <1>1, <1>2, <1>3, <1>4 DEF Inv, Unseen, Has

(* and each step keeps it.                                                 *)
LEMMA InvStep == ASSUME Inv, [Next]_vars PROVE Inv'
<1>1. CASE UNCHANGED vars
  <2>1. hcwd_init' = hcwd_init BY <1>1 DEF vars, hcwd_init
  <2> QED BY <1>1, <2>1 DEF vars, Inv, Unseen
<1>2. CASE Replace BY <1>2, ReplaceKeeps
<1>3. ASSUME NEW p \in Procs, Step(p) PROVE Inv'
  BY <1>3, BeginKeeps, HumountKeeps, UnmountableKeeps, HvolKeeps, RemountKeeps, HformatKeeps,
     FormatKeeps, HmountKeeps, IntroduceKeeps, WorkKeeps, UnmountKeeps, EmptiesKeeps, WritesKeeps,
     WritesNothingKeeps
     DEF Step
<1> QED BY <1>1, <1>2, <1>3 DEF Next

(* The inductive invariant holds always.                                   *)
THEOREM Invariant == Spec => []Inv
<1>1. Init => Inv BY InvInit
<1>2. Inv /\ [Next]_vars => Inv' BY InvStep
<1> QED BY <1>1, <1>2, PTL DEF Spec

-----------------------------------------------------------------------------
(* After hmount, hformat, hcd or hrename has succeeded, the current entry  *)
(* leads to the volume and to a directory on it.                           *)
THEOREM WayBackHolds == Spec => []SuccessLeavesAWayBack
<1>1. ASSUME Inv PROVE SuccessLeavesAWayBack
  <2> SUFFICES ASSUME NEW p \in Procs, proc[p].pc = "worked", proc[p].result = 0,
                      Makes(proc[p].cmd) \/ Follows(proc[p].cmd)
               PROVE  WayBack(Ent(proc[p]), media[Place(proc[p])][Ent(proc[p]).part])
    BY DEF SuccessLeavesAWayBack, WayBack, Ent, Place
  <2>1. AtWorked(proc[p]) /\ OnVolume(media, proc[p]) BY <1>1, PcIs DEF Inv, Steady, Has
  <2> QED BY <2>1 DEF AtWorked, OnVolume
<1> QED BY <1>1, Invariant, PTL

-----------------------------------------------------------------------------
(* The work of a command changes the volume that its list names.           *)
LEMMA WorkIsOnlyIts == ASSUME Inv, NEW p \in Procs, Work(p) PROVE OnlyIts
<1> DEFINE r == proc[p]
           w == Worked(r.cmd, r.w)
<1>1. /\ r.pc = "mounted" /\ Steady(r) /\ OnVolume(media, r)
      /\ (Looking(r.cmd) => w = r.w)
      /\ DOMAIN media' = Media /\ \A k \in Media : DOMAIN media'[k] = DOMAIN media[k]
      /\ \A k \in Media : \A i \in DOMAIN media[k] :
           media'[k][i] = IF k = Place(r) /\ i = Ent(r).part THEN w.v ELSE media[k][i]
  BY WorkWrites
<1>2. proc'[p].pc = "worked"
  <2>1. IsRun(r) BY <1>1 DEF Steady
  <2>2. \E x, l, v : Set(p, ToWorked(r, v, x, l)) BY DEF Work, ToWorked
  <2>3. PICK x, l, v : Set(p, ToWorked(r, v, x, l)) BY <2>2
  <2>4. proc'[p] = ToWorked(r, v, x, l) BY <2>3, PcIs DEF Set
  <2> QED BY <2>1, <2>4, WorkedIs
<1>3. AtMounted(r) /\ hasVol(r.list) /\ media[Place(r)][Ent(r).part] = r.w.v
  BY <1>1 DEF Steady, OnVolume
<1> HIDE DEF w
<1> SUFFICES ASSUME NEW m \in Media, NEW part \in DOMAIN media[m],
                    media'[m][part] # media[m][part]
             PROVE  IsNamed(p, m, part) /\ r.w.v = media[m][part]
  BY <1>1, <1>2 DEF OnlyIts
<1>4. m = Place(r) /\ part = Ent(r).part /\ w.v # media[m][part] BY <1>1
<1>5. w # r.w BY <1>3, <1>4
<1>6. r.list = r.read BY <1>1, <1>3, <1>5 DEF AtMounted
<1> QED BY <1>3, <1>4, <1>6 DEF AtMounted, Ent, Place, IsNamed

(* hfs_format makes the volumes that it is told to make.                   *)
LEMMA FormatIsOnlyIts ==
    ASSUME Inv, NEW p \in Procs, do_format(p) PROVE OnlyIts /\ OnlyMarks
<1> DEFINE r == proc[p]
           c == r.cmd
           m == MediumOf[c.path]
           part == r.part
<1>1. r.pc = "formatting" BY DEF do_format
<1>2. IsRun(r) /\ c \in Commands /\ c.do = "hformat" BY <1>1, PcIs DEF Steady
<1>3. m \in Media BY <1>2, CommandLines DEF Media
<1>4. CASE UNCHANGED <<media, unclean>> BY <1>4 DEF OnlyIts, OnlyMarks
<1>5. ASSUME media' = [media EXCEPT ![m] = Formatted(media[m], part, c.label)],
             unclean' = unclean \ Renewed(m, part),
             Set(p, [proc[p] EXCEPT !.pc = "making"])
      PROVE  OnlyIts /\ OnlyMarks
  <2>1. proc'[p].pc = "making"
    <3>1. proc'[p] = ToMaking(r) BY <1>5, PcIs DEF Set, ToMaking
    <3> QED BY <1>2, <3>1, FormattedIs
  <2>2. \A i : part \in {0, i} => Formats(p, m, i) BY <1>1, <2>1 DEF Formats
  <2>3. OnlyMarks
    <3>1. \A u \in unclean \ unclean' : u[1] = m /\ part \in {0, u[2]} BY <1>5 DEF Renewed
    <3>2. unclean' \ unclean = {} BY <1>5
    <3> SUFFICES ASSUME NEW u \in unclean \ unclean' PROVE \E q \in Procs : Formats(q, u[1], u[2])
      BY <3>2 DEF OnlyMarks
    <3> QED BY <2>2, <3>1
  <2>4. OnlyIts
    <3> DEFINE new == Formatted(media[m], part, c.label)
    <3>1. \A i \in DOMAIN media[m] : part \in {0, i} \/ (i \in DOMAIN new /\ new[i] = media[m][i])
      BY DEF Formatted
    <3> HIDE DEF new
    <3>2. \A k \in Media : media'[k] = IF k = m THEN new ELSE media[k]
      BY <1>5 DEF Inv, new
    <3> SUFFICES ASSUME NEW k \in Media, NEW i \in DOMAIN media[k],
                        i \notin DOMAIN media'[k] \/ media'[k][i] # media[k][i]
                 PROVE  Formats(p, k, i)
      BY DEF OnlyIts
    <3>3. k = m /\ part \in {0, i} BY <3>1, <3>2
    <3> QED BY <2>2, <3>3
  <2> QED BY <2>3, <2>4
<1> QED BY <1>4, <1>5 DEF do_format

(* A process that unmounts a volume marks it, if it has it for writing.    *)
LEMMA UnmountIsOnlyMarks ==
    ASSUME Inv, NEW p \in Procs, hfsutil_unmount(p) PROVE OnlyMarks
<1> DEFINE r == proc[p]
<1>1. r.pc \in {"worked", "wrong"}
      /\ unclean' = IF r.w.ro THEN unclean ELSE unclean \ {<<Place(r), Ent(r).part>>}
  BY DEF hfsutil_unmount, Place, Ent
<1>2. IsRun(r) /\ LockOf(p, r) \in locks BY <1>1, PcIs DEF Inv, Locked, Has
<1>3. proc'[p].pc = "ending"
  <2>1. proc'[p] = ToEnd(r, r.list, r.result)
    BY <1>1, PcIs DEF hfsutil_unmount, EndWith, Set, ToEnd
  <2> QED BY <1>2, <2>1, EndsIs
<1>4. CASE r.w.ro BY <1>1, <1>4 DEF OnlyMarks
<1>5. CASE ~ r.w.ro
  <2>1. LockOf(p, r) = Lock(Place(r), p, TRUE) BY <1>5 DEF LockOf
  <2>2. \A u \in unclean \ unclean' : u[1] = Place(r) BY <1>1
  <2>3. unclean' \ unclean = {} BY <1>1
  <2> QED BY <1>1, <1>2, <1>3, <2>1, <2>2, <2>3 DEF OnlyMarks
<1> QED BY <1>4, <1>5

(* No other step changes a volume.                                         *)
LEMMA StepIsOnlyIts == ASSUME Inv, [Next]_vars PROVE OnlyIts /\ OnlyMarks
<1>1. CASE UNCHANGED <<media, unclean>> BY <1>1 DEF OnlyIts, OnlyMarks
<1>2. CASE Replace
  <2>1. swaps' = swaps + 1 /\ swaps \in Nat BY <1>2 DEF Replace, Inv
  <2>2. swaps' # swaps BY <2>1
  <2> QED BY <2>2 DEF OnlyIts, OnlyMarks
<1>3. ASSUME NEW p \in Procs, Work(p) PROVE OnlyIts /\ OnlyMarks
  <2>1. UNCHANGED unclean BY <1>3 DEF Work
  <2> QED BY <1>3, <2>1, WorkIsOnlyIts DEF OnlyMarks
<1>4. ASSUME NEW p \in Procs, do_format(p) PROVE OnlyIts /\ OnlyMarks BY <1>4, FormatIsOnlyIts
<1>5. ASSUME NEW p \in Procs, hfsutil_unmount(p) PROVE OnlyIts /\ OnlyMarks
  <2>1. UNCHANGED media BY <1>5 DEF hfsutil_unmount
  <2> QED BY <1>5, <2>1, UnmountIsOnlyMarks DEF OnlyIts
<1>6. ASSUME NEW p \in Procs, Step(p), ~ Work(p), ~ do_format(p), ~ hfsutil_unmount(p)
      PROVE  UNCHANGED <<media, unclean>>
  BY <1>6 DEF Step, Begin, humount_main, Unmountable, hvol_main, hfsutil_remount, hmount_main,
              hformat_main, Introduce, Empties, Writes, WritesNothing, Quiet
<1> QED BY <1>1, <1>2, <1>3, <1>4, <1>5, <1>6 DEF Next, vars

(* The directories and files of a volume are changed only by hformat, or   *)
(* by a command whose list, as it has read it, names the volume, and which *)
(* reports on the volume that it has changed, whatever runs at the same    *)
(* time and whatever disk is put in.  A volume of another name that was    *)
(* not unmounted properly is scavenged by hfs_mount, and marked by         *)
(* hfs_umount, under the lock of a process that may write it.              *)
THEOREM OnlyItsVolume == Spec => ChangesOnlyItsVolume
<1>1. Inv /\ [Next]_vars => [OnlyIts /\ OnlyMarks]_vars BY StepIsOnlyIts
<1> QED BY <1>1, Invariant, PTL DEF Spec, ChangesOnlyItsVolume

-----------------------------------------------------------------------------
(* What a process leaves of the file when it ends.                         *)
Leaves ==
    \A p \in Procs :
         proc[p].pc \in {"ending", "emptied"} /\ proc'[p].pc = "idle" /\ proc[p].alone =>
           LET old == proc[p].read
               c   == proc[p].cmd
           IN  IF c.do = "humount" /\ proc[p].result = 0
               THEN Forgets(old, file')
               ELSE /\ Keeps(old, file')
                    /\ Makes(c) \/ c.do = "hvol" \/ Current(file') = Current(old)

(* A file with the entries and the current entry of a list does as well.   *)
LEMMA SameList ==
    ASSUME NEW c, NEW x, NEW old, NEW l, NEW f, Ended(c, x, old, l),
           f.ents = l.ents, Current(f) = Current(l)
    PROVE  IF c.do = "humount" /\ x = 0 THEN Forgets(old, f)
           ELSE Keeps(old, f) /\ (Makes(c) \/ c.do = "hvol" \/ Current(f) = Current(old))
BY DEF Ended, Settled, Forgets, Keeps

(* A process that no other has overlapped leaves its list in the file.     *)
LEMMA LeavesItsList ==
    ASSUME Inv, [Next]_vars, NEW p \in Procs, proc[p].pc \in {"ending", "emptied"},
           proc'[p].pc = "idle", proc[p].alone
    PROVE  file'.ents = proc[p].list.ents /\ Current(file') = Current(proc[p].list)
<1> DEFINE r == proc[p]
           l == r.list
<1>1. Steady(r) /\ IsRun(r) /\ IsList(l) /\ IsList(r.read) /\ (l.dirty \/ l = r.read)
  BY PcIs DEF Steady
<1>2. IF r.pc = "emptied" THEN file = Empty ELSE hcwd_init = r.read BY DEF Inv, Unseen
<1>3. CASE Writes(p)
  <2>1. r.pc = "emptied" /\ file' = Overlaid(file, l) BY <1>3 DEF Writes
  <2>2. file = Empty /\ IsFile(file) BY <1>2, <2>1 DEF Inv
  <2>3. file'.ents = l.ents /\ file'.cur = l.cur BY <1>1, <2>1, <2>2, OverlaidIsFile
  <2> QED BY <2>3 DEF Current
<1>4. CASE WritesNothing(p)
  <2>1. r.pc = "ending" /\ ~ l.dirty /\ file' = file BY <1>4 DEF WritesNothing, Quiet
  <2>2. l = r.read /\ l.ents = << >> /\ hcwd_init = r.read BY <1>1, <1>2, <2>1 DEF IsList
  <2>3. file.ents = l.ents BY <2>2 DEF hcwd_init
  <2>4. DOMAIN l.ents = {} BY <2>2
  <2> QED BY <2>1, <2>3, <2>4 DEF Current
<1>5. Writes(p) \/ WritesNothing(p)
  <2>1. ASSUME proc'[p] = proc[p] PROVE FALSE BY <2>1
  <2>2. CASE UNCHANGED vars \/ Replace BY <2>1, <2>2 DEF vars, Replace
  <2>3. ASSUME NEW q \in Procs, Step(q), q # p PROVE FALSE
    <3>1. CASE Begin(q)
      <4>1. proc'[p].pc = proc[p].pc
        <5>1. proc'[p] = Overlapped(proc[p]) BY <2>3, <3>1 DEF Begin, Overlapped
        <5> QED BY <1>1, <5>1, SeenIs
      <4> QED BY <4>1
    <3>2. CASE ~ Begin(q)
      <4>1. \E u : Set(q, u)
        BY <2>3, <3>2 DEF Step, humount_main, Unmountable, hvol_main, hfsutil_remount, hformat_main,
                do_format, hmount_main, Introduce, Work, hfsutil_unmount, Empties, Writes,
                WritesNothing, EndWith, Mounted, WrongVolume
      <4>2. proc'[p] = proc[p] BY <2>3, <4>1, PcIs DEF Set
      <4> QED BY <2>1, <4>2
    <3> QED BY <3>1, <3>2
  <2>4. ASSUME Step(p) PROVE Writes(p) \/ WritesNothing(p)
    <3>1. ~ Empties(p)
      <4>1. SUFFICES ASSUME Empties(p) PROVE FALSE OBVIOUS
      <4>2. proc'[p] = ToEmptied(proc[p]) BY <4>1, PcIs DEF Empties, Set, ToEmptied
      <4> QED BY <1>1, <4>2, EmptiedIs
    <3> QED BY <2>4, <3>1 DEF Step, Begin, At, humount_main, Unmountable, hvol_main,
                              hfsutil_remount, hformat_main, do_format, hmount_main,
                              Introduce, Work, hfsutil_unmount
  <2> QED BY <2>2, <2>3, <2>4 DEF Next
<1> QED BY <1>3, <1>4, <1>5

(* A command that no other has overlapped keeps the file's other entries,  *)
(* in their order, and with them which one is current; only humount        *)
(* forgets an entry, and only one.                                         *)
THEOREM AloneKeeps == Spec => AloneKeepsTheList
<1>1. ASSUME Inv, [Next]_vars PROVE Leaves
  <2> SUFFICES ASSUME NEW p \in Procs, proc[p].pc \in {"ending", "emptied"},
                      proc'[p].pc = "idle", proc[p].alone
               PROVE  LET old == proc[p].read
                          c   == proc[p].cmd
                      IN  IF c.do = "humount" /\ proc[p].result = 0 THEN Forgets(old, file')
                          ELSE /\ Keeps(old, file')
                               /\ Makes(c) \/ c.do = "hvol" \/ Current(file') = Current(old)
    BY DEF Leaves
  <2>1. file'.ents = proc[p].list.ents /\ Current(file') = Current(proc[p].list)
    BY <1>1, LeavesItsList
  <2>2. Ended(proc[p].cmd, proc[p].result, proc[p].read, proc[p].list)
    BY <1>1, PcIs DEF Steady
  <2> QED BY <2>1, <2>2, SameList
<1>2. Inv /\ [Next]_vars => [Leaves]_vars BY <1>1
<1>3. AloneKeepsTheList <=> [][Leaves]_vars BY DEF AloneKeepsTheList, Leaves
<1> QED BY <1>2, <1>3, Invariant, PTL DEF Spec
=============================================================================
