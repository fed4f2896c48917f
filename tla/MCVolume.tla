------------------------------ MODULE MCVolume ------------------------------
(* A volume with two data blocks, one before and one after the headers of  *)
(* the trees: b_flush meets every order of data and headers.               *)
EXTENDS Volume

mc_Data == {4, 7}
=============================================================================
