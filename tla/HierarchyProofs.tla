-------------------------- MODULE HierarchyProofs ---------------------------
(***************************************************************************)
(* What every catalog that implements Hierarchy is, whatever its numbers   *)
(* and names: one tree under the root directory.  That libhfs implements   *)
(* it is the theorem CatalogIsHierarchy of CatalogProofs.tla.              *)
(***************************************************************************)
EXTENDS Hierarchy, TLAPS

Typed == /\ Present \subseteq Ids
         /\ \A i \in Present : node[i] \in Entries

RootOnTop == /\ Top \in Present /\ node[Top].dir
             /\ node[Top].par = Outside /\ Outside \notin Ids

ParentsAreDirs == \A i \in Present \ {Top} : node[i].par \in Dirs

NamesApart == \A i, j \in Present :
                 node[i].par = node[j].par /\ node[i].name = node[j].name => i = j

(* No set of files and directories has all its parents in itself: the way  *)
(* up from any of them ends, and it can only end at the root.              *)
NoCycle == \A S \in SUBSET (Present \ {Top}) : S # {} => \E i \in S : node[i].par \notin S

OneTree == Typed /\ RootOnTop /\ ParentsAreDirs /\ NamesApart /\ NoCycle

(* A new volume holds only the root. *)
LEMMA InitTree == Init => OneTree
<1> SUFFICES ASSUME Init PROVE OneTree OBVIOUS
<1> USE DEF Init
<1>1. Typed /\ RootOnTop BY DEF Typed, RootOnTop
<1>2. ParentsAreDirs BY DEF ParentsAreDirs, Dirs
<1>3. NamesApart
  <2> SUFFICES ASSUME NEW i \in Present, NEW j \in Present,
                      node[i].par = node[j].par, node[i].name = node[j].name
               PROVE  i = j
    BY DEF NamesApart
  <2>1. CASE i = Top \/ j = Top
    <3>1. \A k \in Present \ {Top} : node[k].par # Outside OBVIOUS
    <3> QED BY <2>1, <3>1
  <2>2. CASE i # Top /\ j # Top BY <2>2
  <2> QED BY <2>1, <2>2
<1>4. NoCycle
  <2> SUFFICES ASSUME NEW S \in SUBSET (Present \ {Top}), S # {}
               PROVE  \E i \in S : node[i].par \notin S
    BY DEF NoCycle
  <2>1. PICK i \in S : TRUE OBVIOUS
  <2>2. node[i].par = Top /\ Top \notin S OBVIOUS
  <2> QED BY <2>2
<1> QED BY <1>1, <1>2, <1>3, <1>4 DEF OneTree

(* What is added has no children yet, so no cycle goes through it.         *)
LEMMA AddTree == ASSUME OneTree, NEW i \in Ids, Add(i) PROVE OneTree'
<1> USE DEF OneTree, Add, Same
<1>1. i # Top /\ Present' = Present \cup {i} /\ \A j \in Present : j # i /\ node'[j] = node[j]
  BY DEF RootOnTop
<1>2. Typed' BY <1>1 DEF Typed, Entries
<1>3. RootOnTop' BY <1>1 DEF RootOnTop
<1>4. Dirs \subseteq Dirs' BY <1>1 DEF Dirs
<1>5. ParentsAreDirs' BY <1>1, <1>4 DEF ParentsAreDirs
<1>6. \A j \in Present : ~ (node[j].par = node'[i].par /\ node[j].name = node'[i].name)
  BY DEF Taken, Children
<1>7. NamesApart' BY <1>1, <1>6 DEF NamesApart
<1>8. \A j \in Present : node[j].par # i
  BY <1>1 DEF ParentsAreDirs, RootOnTop, Dirs
<1>9. NoCycle'
  <2> SUFFICES ASSUME NEW S, S \subseteq Present' \ {Top}, S # {},
                      \A j \in S : node'[j].par \in S
               PROVE  FALSE
    BY DEF NoCycle
  <2>1. node'[i].par \in Present BY DEF Dirs
  <2>2. S \ {i} \subseteq Present \ {Top} BY <1>1
  <2>3. S \ {i} # {} BY <1>1, <2>1
  <2>4. \A j \in S \ {i} : node[j].par \in S \ {i} BY <1>1, <1>8, <2>2
  <2> QED BY <2>2, <2>3, <2>4 DEF NoCycle
<1> QED BY <1>2, <1>3, <1>5, <1>7, <1>9

(* Removing something nothing is in leaves a tree. *)
LEMMA RemoveTree == ASSUME OneTree, NEW i \in Present, Remove(i) PROVE OneTree'
<1> USE DEF OneTree, Remove, Same
<1>1. i # Top /\ Present' = Present \ {i} /\ \A j \in Present' : node'[j] = node[j]
  OBVIOUS
<1>2. Typed' BY <1>1 DEF Typed, Entries
<1>3. RootOnTop' BY <1>1 DEF RootOnTop
<1>4. \A j \in Present : node[j].par # i BY DEF Children
<1>5. ParentsAreDirs' BY <1>1, <1>4 DEF ParentsAreDirs, Dirs
<1>6. NamesApart' BY <1>1 DEF NamesApart
<1>7. NoCycle'
  <2> SUFFICES ASSUME NEW S, S \subseteq Present' \ {Top}, S # {}
               PROVE  \E j \in S : node'[j].par \notin S
    BY DEF NoCycle
  <2>1. PICK j \in S : node[j].par \notin S BY <1>1 DEF NoCycle
  <2> QED BY <1>1, <2>1
<1> QED BY <1>2, <1>3, <1>5, <1>6, <1>7

(* A cycle through what has moved would pass its new parent, and go on     *)
(* through the directories above, none of which has moved.                 *)
LEMMA MoveTree == ASSUME OneTree, NEW i \in Present, Move(i) PROVE OneTree'
<1> USE DEF OneTree, Move, Same
<1>1. /\ Present' = Present
      /\ \A j \in Present : j # i => node'[j] = node[j]
      /\ node'[i].dir = node[i].dir
  OBVIOUS
<1>2. Typed' BY <1>1 DEF Typed, Entries
<1>3. RootOnTop' BY <1>1 DEF RootOnTop, Goes
<1>4. Dirs' = Dirs BY <1>1 DEF Dirs
<1>5. ParentsAreDirs' BY <1>1, <1>4 DEF ParentsAreDirs, Goes
<1>6. \A j \in Present : j # i =>
         ~ (node[j].par = node'[i].par /\ node[j].name = node'[i].name)
  BY DEF Taken, Children
<1>7. NamesApart' BY <1>1, <1>6 DEF NamesApart
<1>8. NoCycle'
  <2> SUFFICES ASSUME NEW S, S \subseteq Present \ {Top}, S # {},
                      \A j \in S : node'[j].par \in S
               PROVE  FALSE
    BY <1>1 DEF NoCycle
  <2>1. CASE i \notin S \/ node'[i].par = node[i].par
    <3>1. \A j \in S : node[j].par \in S BY <1>1, <2>1
    <3> QED BY <3>1 DEF NoCycle
  <2>2. CASE i \in S /\ node'[i].par # node[i].par
    <3>1. PICK A \in SUBSET Dirs : WayUp(node'[i].par, A) /\ i \notin A BY <2>2 DEF Goes
    <3>2. node'[i].par \in S \cap A BY <2>2, <3>1 DEF WayUp
    <3>3. ASSUME NEW j \in S \cap A PROVE node[j].par \in S \cap A
      <4>1. j # Top /\ j # i BY <3>1
      <4>2. node[j].par \in A BY <3>1, <4>1 DEF WayUp
      <4>3. node[j].par \in S BY <1>1, <4>1
      <4> QED BY <4>2, <4>3
    <3> QED BY <3>2, <3>3 DEF NoCycle
  <2> QED BY <2>1, <2>2
<1> QED BY <1>2, <1>3, <1>5, <1>7, <1>8

(* Until an I/O error cuts a call short, the catalog is one tree with      *)
(* every name once per directory, whatever is created, removed, renamed    *)
(* and moved (hfs_mkdir, hfs_create, hfs_rmdir, hfs_delete, hfs_rename).   *)
THEOREM CatalogIsTree == Spec => [](damaged = FALSE => OneTree)
<1> DEFINE Inv == damaged = FALSE => OneTree
<1>1. Init => Inv BY InitTree
<1>2. Inv /\ [Next]_vars => Inv'
  <2> SUFFICES ASSUME Inv, [Next]_vars, damaged' = FALSE PROVE OneTree' OBVIOUS
  <2>1. CASE UNCHANGED vars
    <3>1. OneTree /\ node' = node BY <2>1 DEF vars
    <3> QED BY <3>1 DEF OneTree, Typed, RootOnTop, ParentsAreDirs, NamesApart, NoCycle,
                        Present, Dirs
  <2>2. CASE damaged = FALSE /\ Next
    <3>1. ASSUME NEW i \in Ids, Add(i) PROVE OneTree' BY <2>2, <3>1, AddTree
    <3>2. ASSUME NEW i \in Present, Remove(i) PROVE OneTree' BY <2>2, <3>2, RemoveTree
    <3>3. ASSUME NEW i \in Present, Move(i) PROVE OneTree' BY <2>2, <3>3, MoveTree
    <3> QED BY <2>2, <3>1, <3>2, <3>3 DEF Next
  <2> QED BY <2>1, <2>2 DEF Next
<1> QED BY <1>1, <1>2, PTL DEF Spec
=============================================================================
