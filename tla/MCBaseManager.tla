---------------------------- MODULE MCBaseManager ----------------------------
(***************************************************************************)
(* Instances of BaseManager.  The thresholds 16 and 38 become 0 and 1; the *)
(* number of SCVs ranges over both sides of each.                          *)
(***************************************************************************)
EXTENDS BaseManager, TLC

CenterSymmetry == Permutations(Center)
==============================================================================
