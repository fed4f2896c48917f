----------------------------- MODULE MCCatalog ------------------------------
(* Catalog with few names and short paths. *)
EXTENDS Catalog

CONSTANTS x, y

mc_Names   == {<<x, 0>>, <<x, 1>>, <<y, 0>>}
mc_VolName == <<x, 0>>

Path(abs, colon, steps) == [abs |-> abs, colon |-> colon, steps |-> steps]

(* ":", "x", ":x:", "::", "::x", ":x:y", "x:" and "x:y".                   *)
PathsOf(names) ==
    {Path(FALSE, TRUE, << >>), Path(FALSE, TRUE, <<Up>>)}
    \cup {Path(FALSE, c, <<n>>) : n \in names, c \in BOOLEAN}
    \cup {Path(FALSE, FALSE, <<Up, n>>) : n \in names}
    \cup {Path(FALSE, FALSE, <<m, n>>) : m, n \in names}
    \cup {Path(TRUE, TRUE, <<n>>) : n \in names}
    \cup {Path(TRUE, FALSE, <<m, n>>) : m, n \in names}

Scope(paths, max, flts, crshs, open, foreign) ==
    [paths |-> paths, max |-> max, faults |-> flts, crashes |-> crshs, open |-> open,
     foreign |-> foreign]

(* Three files and directories, so that a directory may go two below       *)
(* itself; names in two cases, an open file and a crash; a call that is    *)
(* cut short and a crash.                                                  *)
mc_Plain  == PathsOf({<<x, 0>>, <<y, 0>>})

mc_Scopes == {Scope(mc_Plain, 19, 0, 0, 0, {}),
              Scope(PathsOf(mc_Names), 18, 0, 1, 1, {<<y, 0>>}),
              Scope(mc_Plain, 18, 1, 1, 0, {})}

(* No call looks at the counts and at the name of the volume in the MDB,   *)
(* and no property after a call was cut short or after a crash; what the   *)
(* medium has of them matters after a crash only.                          *)
SeenMDB == IF faults = 0 /\ crashes = 0 THEN mdb ELSE [next |-> mdb.next]

Seen == <<scope, cat, thr, SeenMDB, disk.next, upd, cwd, files, faults, crashes>>
=============================================================================
