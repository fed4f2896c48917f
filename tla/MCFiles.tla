------------------------------ MODULE MCFiles -------------------------------
(* Files on small volumes. *)
EXTENDS Files

mc_Names == Permutations(Names)

(* No step depends on how the last call ended.                             *)
Seen == <<geo, vol, catalog, files, cnid, crashes>>

Geometry(per, lpa, clump, system, forks, len, open, crash) ==
    [per |-> per, lpa |-> lpa, clump |-> clump, system |-> system, forks |-> forks,
     len |-> len, open |-> open, crashes |-> crash]

(* Blocks 0, 2 and 4 for the files: every block is an extent of its own,   *)
(* and a fork of three has an overflow record.                             *)
mc_Scattered == Geometry(2, 1, 1, {1, 3}, {"data"}, 3, 2, 0)

(* The same blocks, with crashes: all but the first are in overflow        *)
(* records.                                                                *)
mc_Crashing  == Geometry(1, 1, 1, {1, 3}, {"data"}, 2, 1, 1)

(* Clumps of two blocks of two logical blocks each.                        *)
mc_Clumps    == Geometry(2, 2, 2, {1, 2}, {"data"}, 3, 1, 0)

(* Two blocks for two forks, the second of a fork in an overflow record.   *)
mc_TwoForks  == Geometry(1, 1, 1, {1, 3, 4}, AllForks, 2, 1, 0)

mc_JustClumps   == {mc_Clumps}
mc_JustCrashing == {Geometry(1, 1, 1, {1}, {"data"}, 3, 1, 1)}

mc_Geometries == {mc_Scattered, mc_Crashing, mc_Clumps, mc_TwoForks}
=============================================================================
