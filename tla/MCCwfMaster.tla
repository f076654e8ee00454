---------------------------- MODULE MCCwfMaster -----------------------------
(***************************************************************************)
(* Instances of CwfMaster for TLC: two children, and two forks more than   *)
(* that, for one that died and for one that was taken for dead.            *)
(***************************************************************************)
EXTENDS CwfMaster
=============================================================================
