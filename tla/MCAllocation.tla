---------------------------- MODULE MCAllocation ----------------------------
(* Every bitmap, start pointer and request of a volume of NmAlBlks blocks. *)
EXTENDS Allocation
=============================================================================
