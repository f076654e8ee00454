--------------------------- MODULE MCBundleStore ----------------------------
(***************************************************************************)
(* Instances of BundleStore for TLC: one thread in each process, as        *)
(* bundled -F 2 starts them; a process is named by its thread.             *)
(***************************************************************************)
EXTENDS BundleStoreAbs, TLC

OneThreadPerProc == [t \in Threads |-> t]

ThreadSymmetry == Permutations(Threads)
=============================================================================
