---------------------------- MODULE BundleLayout ----------------------------
(***************************************************************************)
(* The on-disk layout of a bundle store: sizes and alignment of records    *)
(* (bundle.h) and the two-level file name of a bundle (bundle.cc).         *)
(* Constant-level only; every other bundle module builds on it.            *)
(***************************************************************************)
EXTENDS Integers

CONSTANTS file_count_level_1,   \* Setting: bundles per first-level directory
          file_count_level_2    \* Setting: modulus of the second-level name

(***************************************************************************)
(* g_default_setting has 50 and 400; the tests also use 10 and 10.  Two    *)
(* ids share a file as soon as level 1 exceeds level 2 (see                *)
(* Bid2FilenameInjective), so the order of the two is part of what a       *)
(* Setting must satisfy.                                                   *)
(***************************************************************************)
ASSUME LevelAssumption ==
  /\ file_count_level_1 \in Nat \ {0}
  /\ file_count_level_2 \in Nat \ {0}
  /\ file_count_level_1 <= file_count_level_2

kFileHeaderSize == 512
kBundleHeaderSize == 1024

Align1K(v) == LET a == v % 1024 IN IF a # 0 THEN v + 1024 - a ELSE v

\* Bytes one file occupies in a bundle: header and content, padded.
RecordSize(n) == Align1K(kFileHeaderSize + n)

\* "%08x/%08x": the hexadecimal text of a pair of numbers is one-to-one, so
\* the name is the pair.
Bid2Filename(bid) == <<bid \div file_count_level_1, bid % file_count_level_2>>

\* base::Dirname of the name above.
Bid2Dirname(bid) == bid \div file_count_level_1

=============================================================================
