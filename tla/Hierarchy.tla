----------------------------- MODULE Hierarchy ------------------------------
(***************************************************************************)
(* What libhfs promises about the catalog of a volume: directories and     *)
(* files form one tree, in which a name occurs once per directory.         *)
(***************************************************************************)
CONSTANTS Ids,      \* numbers of directories and files
          Names,    \* names, of which two that differ in case are one
          Top,      \* the number of the root directory
          Outside   \* the number that the root directory has for a parent

VARIABLES node,     \* the files and directories, by number
          damaged   \* whether an I/O error has cut a call short

vars == <<node, damaged>>

Entries == [par : Ids \cup {Outside}, name : Names, dir : BOOLEAN]

Present    == DOMAIN node
Dirs       == {i \in Present : node[i].dir}
Children(i) == {j \in Present : node[j].par = i}
Taken(par, name) == {i \in Children(par) : node[i].name = name}

Init == /\ Top \in Present /\ Present \subseteq Ids
        /\ \A i \in Present : node[i] \in Entries
        /\ node[Top].par = Outside /\ Outside \notin Ids /\ node[Top].dir
        /\ \A i \in Present \ {Top} : node[i].par = Top
        /\ \A i, j \in Present \ {Top} : node[i].name = node[j].name => i = j
        /\ damaged = FALSE

Same(S) == \A i \in S : node'[i] = node[i]

(* A file or a directory that goes to a directory under a name that is not *)
(* taken there.                                                            *)
Add(i) == /\ i \notin Present /\ Present' = Present \cup {i}
          /\ Same(Present)
          /\ node'[i] \in Entries
          /\ node'[i].par \in Dirs /\ Taken(node'[i].par, node'[i].name) = {}

Remove(i) == /\ i # Top /\ Children(i) = {}
             /\ Present' = Present \ {i}
             /\ Same(Present \ {i})

(* par and directories above it, with all that are above these.            *)
WayUp(par, A) == par \in A /\ \A a \in A \ {Top} : node[a].par \in A

(* To a directory that is not below it, and not from above all others.     *)
Goes(i, par) == /\ i # Top /\ par \in Dirs
                /\ \E A \in SUBSET Dirs : WayUp(par, A) /\ i \notin A

(* What gets another name stays where it is, or goes elsewhere.            *)
Move(i) == /\ Present' = Present /\ Same(Present \ {i})
           /\ node'[i] \in Entries /\ node'[i].dir = node[i].dir
           /\ node'[i].par = node[i].par \/ Goes(i, node'[i].par)
           /\ Taken(node'[i].par, node'[i].name) \subseteq {i}

Next == \/ damaged' = TRUE
        \/ /\ damaged = FALSE /\ damaged' = FALSE
           /\ (\E i \in Ids : Add(i)) \/ (\E i \in Present : Remove(i) \/ Move(i))

Spec == Init /\ [][Next]_vars
=============================================================================
