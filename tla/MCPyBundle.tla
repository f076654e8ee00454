----------------------------- MODULE MCPyBundle -----------------------------
(***************************************************************************)
(* Instances of PyBundle for TLC.                                          *)
(***************************************************************************)
EXTENDS PyBundle, TLC

ProcSymmetry == Permutations(Procs)
=============================================================================
