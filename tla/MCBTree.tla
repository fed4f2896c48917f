------------------------------- MODULE MCBTree ------------------------------
(* The B*-tree with nodes of two and three records. *)
EXTENDS BTree

mc_Keys == 1 .. 9
mc_SomeKeys == 1 .. 6
=============================================================================
