----------------------------- MODULE MCCommands -----------------------------
(* Commands on two media, of which one has two names and two partitions.   *)
EXTENDS Commands, TLC

CONSTANTS u1, u2

mc_Procs    == {u1, u2}
mc_Symmetry == Permutations(Procs)

mc_Paths    == {"pa", "pb", "pc"}
mc_MediumOf == [x \in mc_Paths |-> IF x = "pc" THEN "n" ELSE "m"]

Vol(dirs, fls) == [dirs |-> dirs, files |-> fls]

mc_Names    == {"V", "W", "X", "a", "b", "c", "d", "f", "g", "x"}

(* A floppy disk with a directory and a file, one with another name that   *)
(* was not unmounted; a disk with two partitions, of which one was not.    *)
Disk(vols, parts) == [vols |-> vols, unclean |-> parts]

Floppy == [i \in {0} |-> Vol({<<"V">>, <<"V", "a">>, <<"V", "b">>}, {<<"V", "a", "f">>})]
Other  == [i \in {0} |-> Vol({<<"W">>, <<"W", "a">>}, {<<"W", "f">>})]
Parted == [i \in 1 .. 2 |-> IF i = 1 THEN Vol({<<"V">>}, {}) ELSE Vol({<<"W">>, <<"W", "a">>}, {})]

mc_Disks == {Disk(Floppy, {}), Disk(Other, {0}), Disk(Parted, {2})}

Rel(steps) == [rel |-> TRUE, steps |-> steps]
Abs(steps) == [rel |-> FALSE, steps |-> steps]

Mount(path, part)        == [do |-> "hmount", path |-> path, part |-> part]
Format(path, part, l, f) == [do |-> "hformat", path |-> path, part |-> part, label |-> l,
                             force |-> f]
OfCurrent(do)    == [do |-> do, current |-> TRUE]
OfPath(do, path) == [do |-> do, current |-> FALSE, byname |-> FALSE, path |-> path]
OfName(do, name) == [do |-> do, current |-> FALSE, byname |-> TRUE, name |-> name]
Do(do, args)         == [do |-> do, args |-> args]
DoTo(do, args, dst)  == [do |-> do, args |-> args, dst |-> dst]

Item(dir, path)      == [dir |-> dir, path |-> path]

mc_Commands ==
    {Mount("pa", NoPart), Mount("pb", 2), Mount("pc", NoPart),
     Format("pa", 0, "V", TRUE), Format("pb", NoPart, "W", FALSE),
     OfCurrent("humount"), OfPath("humount", "pa"), OfName("humount", "W"),
     OfCurrent("hvol"), OfPath("hvol", "pb"), OfName("hvol", "V"),
     [do |-> "hpwd"],
     Do("hcd", << >>), Do("hcd", <<Rel(<<"a">>)>>),
     Do("hls", <<Rel(<< >>)>>),
     Do("hattrib", <<Rel(<<"f">>)>>),
     Do("hmkdir", <<Rel(<<"c">>)>>), Do("hrmdir", <<Abs(<<"V", "b">>), Rel(<<"c">>)>>),
     Do("hdel", <<Rel(<<"f">>), Rel(<<"g">>)>>),
     DoTo("hcopyin", <<"g">>, Rel(<< >>)), Do("hcopyout", <<Rel(<<"f">>)>>),
     DoTo("hcopytree", <<Item(TRUE, <<"d">>), Item(FALSE, <<"d", "g">>), Item(FALSE, <<"f">>)>>,
          Rel(<<"a">>)),
     DoTo("hrename", <<Abs(<<"V">>)>>, Abs(<<"X">>)),
     DoTo("hrename", <<Abs(<<"V", "a">>)>>, Abs(<<"V", "b">>)),
     DoTo("hrename", <<Abs(<<"V", "a">>), Rel(<<"x">>)>>, Abs(<<"V", "b">>))}
=============================================================================
