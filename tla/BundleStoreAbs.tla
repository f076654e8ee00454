--------------------------- MODULE BundleStoreAbs ---------------------------
(***************************************************************************)
(* The bundle store implements WriteOnce: what is stored is what a client  *)
(* was told is stored (Write returned 0) and Reader::Read gives back.      *)
(***************************************************************************)
EXTENDS BundleStore

visible == {a \in acked : Reads(a[1], a[2])}

Abstract == INSTANCE WriteOnce WITH stored <- visible

(***************************************************************************)
(* Every step of Writer adds at most one readable url, one that no earlier *)
(* write was given, and never takes one away or changes what it reads.     *)
(***************************************************************************)
ImplementsWriteOnce == Abstract!Spec
=============================================================================
