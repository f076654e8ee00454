--------------------------- MODULE PyBundleProofs ---------------------------
(***************************************************************************)
(* Machine-checked proofs about PyBundle, for every number of processes,   *)
(* bundles, lengths, allocations and crashes.                              *)
(***************************************************************************)
EXTENDS PyBundle, FiniteSetTheorems, TLAPS

Local == [length: Nat, loop_count: Nat, bid: Bids, found: BOOLEAN,
          flock: Bids \cup {None}, offset: Nat]
Rec == [off: Nat, len: Nat, data: Nat]
PCs == {"idle", "stat", "lockdir", "mklockdir", "lock", "folder", "mkfolder", "open",
        "header", "restat", "writer", "written"}

TypeOK ==
  /\ lockfiles \subseteq Bids
  /\ size \in [Bids -> Nat \cup {None}]
  /\ recs \in [Bids -> SUBSET Rec]
  /\ pc \in [Procs -> PCs]
  /\ w \in [Procs -> Local]
  /\ IsFiniteSet(acked)
  /\ acked \subseteq [bid: Bids, off: Nat, len: Nat, data: Nat]

(***************************************************************************)
(* OneWriter is not inductive: it says nothing of the FileLock that a      *)
(* "continue" leaves in hand while the loop goes round.  LockInv speaks of *)
(* every FileLock, from its creation to its release.                       *)
(***************************************************************************)
LockInv ==
  /\ orphans \subseteq lockfiles
  /\ \A p \in Procs : w[p].flock # None => w[p].flock \in lockfiles \ orphans
  /\ \A p \in Procs : \A q \in Procs \ {p} :
       w[p].flock # None => w[q].flock # w[p].flock
  /\ \A p \in Procs : Holding(p) => w[p].flock = w[p].bid
  /\ \A p \in Procs : pc[p] = "idle" => w[p].flock = None

(***************************************************************************)
(* What an append relies on: records lie within the file, the file is      *)
(* empty between open and header, and the offset of a Writer is the size   *)
(* that its bundle still has.                                              *)
(***************************************************************************)
SizeInv ==
  /\ \A b \in Bids : \A r \in recs[b] : r.off + kFileHeaderSize + r.len <= size[b]
  /\ \A p \in Procs : pc[p] = "header" => recs[w[p].bid] = {}
  /\ \A p \in Procs : pc[p] = "writer" => w[p].offset = size[w[p].bid]

-----------------------------------------------------------------------------

LEMMA BidsFacts ==
  /\ \A i \in Nat : i % kBundleCountPerDay \in Bids
  /\ 0 \in Bids /\ None \notin Bids /\ LastIdBound \in Nat
BY PyAssumption DEF Bids, None, LastIdBound

LEMMA NoLocalType == NoLocal \in Local
BY BidsFacts DEF NoLocal, Local

\* Align1K rounds up, and a record has room for its header and its content.
LEMMA RecordSizeBounds ==
  ASSUME NEW n \in Nat
  PROVE  RecordSize(n) \in Nat /\ kFileHeaderSize + n <= RecordSize(n)
BY DEF RecordSize, Align1K, kFileHeaderSize

LEMMA LargerBounds ==
  ASSUME NEW m \in Nat \cup {None}, NEW n \in Nat
  PROVE  Larger(m, n) \in Nat /\ m <= Larger(m, n) /\ n <= Larger(m, n)
BY DEF Larger, None

-----------------------------------------------------------------------------
(***************************************************************************)
(* Type correctness                                                        *)
(***************************************************************************)
LEMMA InitTypeOK == Init => TypeOK
<1> SUFFICES ASSUME Init PROVE TypeOK
  OBVIOUS
<1> QED BY BidsFacts, NoLocalType, FS_EmptySet DEF Init, TypeOK, PCs

LEMMA LeaveType ==
  ASSUME TypeOK, NEW p \in Procs, Leave(p)
  PROVE  /\ lockfiles' \subseteq Bids /\ pc' \in [Procs -> PCs] /\ w' \in [Procs -> Local]
BY NoLocalType DEF TypeOK, Leave, Release, Goto, PCs

LEMMA MakeDirType ==
  ASSUME TypeOK, NEW p \in Procs, NEW d, NEW next \in PCs, MakeDir(p, d, next)
  PROVE  /\ lockfiles' \subseteq Bids /\ pc' \in [Procs -> PCs] /\ w' \in [Procs -> Local]
<1>1. CASE Leave(p)
  BY <1>1, LeaveType
<1>2. CASE Goto(p, next) /\ UNCHANGED <<lockfiles, w>>
  BY <1>2 DEF TypeOK, Goto
<1> QED BY <1>1, <1>2 DEF MakeDir

LEMMA AllocateStepType ==
  ASSUME TypeOK, NEW p \in Procs, AllocateStep(p)
  PROVE  TypeOK'
<1> w[p] \in Local
  BY DEF TypeOK
<1>1. CASE Stat(p)
  <2> DEFINE lc == IF w[p].loop_count = kBundleCountPerDay
                   THEN w[p].loop_count ELSE w[p].loop_count + 1
  <2>1. PICK i \in 0 .. LastIdBound :
          /\ w' = [w EXCEPT ![p] = [@ EXCEPT !.loop_count = lc, !.bid = i % kBundleCountPerDay,
                     !.found = (size[i % kBundleCountPerDay] # None)]]
          /\ Goto(p, "stat") \/ Goto(p, "lockdir")
    BY <1>1 DEF Stat
  <2>2. UNCHANGED <<lockfiles, size, recs, acked>>
    BY <1>1 DEF Stat, disk
  <2>3. i % kBundleCountPerDay \in Bids /\ lc \in Nat
    BY BidsFacts DEF Local
  <2> HIDE DEF lc
  <2>4. w' \in [Procs -> Local]
    BY <2>1, <2>3 DEF TypeOK, Local
  <2>5. pc' \in [Procs -> PCs]
    BY <2>1 DEF TypeOK, Goto, PCs
  <2> QED BY <2>2, <2>4, <2>5 DEF TypeOK
<1>2. CASE LockDir(p)
  BY <1>2 DEF LockDir, TypeOK, Goto, PCs, disk
<1>3. CASE MakeLockDir(p)
  <2>1. MakeDir(p, "lock", "lock") /\ UNCHANGED <<size, recs, acked>>
    BY <1>3 DEF MakeLockDir
  <2>2. "lock" \in PCs
    BY DEF PCs
  <2> QED BY <2>1, <2>2, MakeDirType DEF TypeOK
<1>4. CASE Lock(p)
  <2> w[p].bid \in Bids
    BY DEF Local
  <2>1. lockfiles' \subseteq Bids /\ pc' \in [Procs -> PCs] /\ UNCHANGED <<size, recs, acked>>
    BY <1>4 DEF Lock, TypeOK, Goto, PCs
  <2>2. PICK f \in Bids \cup {None} : w' = [w EXCEPT ![p] = [@ EXCEPT !.flock = f]]
    BY <1>4 DEF Lock
  <2>3. w' \in [Procs -> Local]
    BY <2>2 DEF TypeOK, Local
  <2> QED BY <2>1, <2>3 DEF TypeOK
<1>5. CASE Folder(p)
  BY <1>5 DEF Folder, TypeOK, Goto, PCs, disk
<1>6. CASE MakeFolder(p)
  <2>1. MakeDir(p, "place", "open") /\ UNCHANGED <<size, recs, acked>>
    BY <1>6 DEF MakeFolder
  <2>2. "open" \in PCs
    BY DEF PCs
  <2> QED BY <2>1, <2>2, MakeDirType DEF TypeOK
<1>7. CASE Open(p)
  BY <1>7 DEF Open, TypeOK, Goto, PCs
<1>8. CASE Header(p)
  <2>1. w' \in [Procs -> Local]
    BY <1>8 DEF Header, TypeOK, Local, kBundleHeaderSize
  <2>2. pc' \in [Procs -> PCs] /\ UNCHANGED <<lockfiles, recs, acked>>
    BY <1>8 DEF Header, TypeOK, Goto, PCs
  <2>3. size' \in [Bids -> Nat \cup {None}]
    <3>1. size' = [size EXCEPT ![w[p].bid] = 1024]
      BY <1>8 DEF Header, kBundleHeaderSize
    <3>2. size \in [Bids -> Nat \cup {None}] /\ 1024 \in Nat
      BY DEF TypeOK
    <3> QED BY <3>1, <3>2
  <2> QED BY <2>1, <2>2, <2>3 DEF TypeOK
<1>9. CASE Restat(p)
  <2> DEFINE n == size[w[p].bid]
  <2>1. UNCHANGED <<size, recs, acked>>
    BY <1>9 DEF Restat
  <2>2. CASE Leave(p)
    BY <2>1, <2>2, LeaveType DEF TypeOK
  <2>3. CASE Goto(p, "stat") /\ UNCHANGED <<w, lockfiles>>
    BY <2>1, <2>3 DEF TypeOK, Goto, PCs
  <2>4. CASE /\ kBundleHeaderSize <= n /\ Goto(p, "writer") /\ UNCHANGED lockfiles
             /\ w' = [w EXCEPT ![p] = [@ EXCEPT !.offset = n]]
    <3>1. n \in Nat
      BY <2>4 DEF TypeOK, Local, kBundleHeaderSize, None
    <3>2. w' \in [Procs -> Local]
      BY <2>4, <3>1 DEF TypeOK, Local
    <3> QED BY <2>1, <2>4, <3>2 DEF TypeOK, Goto, PCs
  <2> QED BY <1>9, <2>2, <2>3, <2>4 DEF Restat
<1> QED BY <1>1, <1>2, <1>3, <1>4, <1>5, <1>6, <1>7, <1>8, <1>9 DEF AllocateStep

LEMMA WriteType ==
  ASSUME TypeOK, NEW p \in Procs, write(p)
  PROVE  TypeOK'
<1> DEFINE b == w[p].bid
           o == w[p].offset
           n == w[p].length
           d == Cardinality(acked) + 1
           a == [bid |-> b, off |-> o, len |-> n, data |-> d]
<1>1. b \in Bids /\ o \in Nat /\ n \in Nat /\ d \in Nat
  BY FS_CardinalityType DEF TypeOK, Local
<1>2. pc' \in [Procs -> PCs] /\ UNCHANGED <<lockfiles, w>>
  BY DEF write, TypeOK, Goto, PCs
<1>3. \A k \in Nat : Surviving(recs[b], o, k) \in SUBSET Rec
  BY <1>1 DEF TypeOK, Surviving
<1>4. RecordSize(n) \in Nat /\ kFileHeaderSize \in Nat
  BY <1>1, RecordSizeBounds DEF kFileHeaderSize
<1>5. \A k \in Nat : Larger(size[b], o + k) \in Nat
  <2>1. size[b] \in Nat \cup {None}
    BY <1>1 DEF TypeOK
  <2>2. \A k \in Nat : o + k \in Nat
    BY <1>1
  <2> HIDE DEF b, o
  <2> QED BY <2>1, <2>2, LargerBounds
<1> HIDE DEF b, o, n, d
<1>6. CASE /\ size' = [size EXCEPT ![b] = Larger(@, o + RecordSize(n))]
           /\ recs' = [recs EXCEPT ![b] = Surviving(@, o, RecordSize(n))
                                         \cup {[off |-> o, len |-> n, data |-> d]}]
           /\ acked' = acked \cup {a}
  <2>1. IsFiniteSet(acked')
    BY <1>6, FS_AddElement DEF TypeOK
  <2>2. /\ a \in [bid: Bids, off: Nat, len: Nat, data: Nat]
        /\ [off |-> o, len |-> n, data |-> d] \in Rec
    BY <1>1 DEF Rec
  <2>3. size' \in [Bids -> Nat \cup {None}]
    BY <1>1, <1>4, <1>5, <1>6 DEF TypeOK
  <2>4. recs' \in [Bids -> SUBSET Rec]
    BY <1>1, <1>3, <1>4, <1>6, <2>2 DEF TypeOK
  <2> QED BY <1>2, <1>6, <2>1, <2>2, <2>3, <2>4 DEF TypeOK
<1>7. CASE /\ size' = [size EXCEPT ![b] = Larger(@, o + kFileHeaderSize)]
           /\ recs' = [recs EXCEPT ![b] = Surviving(@, o, kFileHeaderSize)]
           /\ UNCHANGED acked
  <2>1. size' \in [Bids -> Nat \cup {None}]
    BY <1>1, <1>4, <1>5, <1>7 DEF TypeOK
  <2>2. recs' \in [Bids -> SUBSET Rec]
    BY <1>1, <1>3, <1>4, <1>7 DEF TypeOK
  <2> QED BY <1>2, <1>7, <2>1, <2>2 DEF TypeOK
<1>8. CASE UNCHANGED <<size, recs, acked>>
  BY <1>2, <1>8 DEF TypeOK
<1> QED BY <1>6, <1>7, <1>8 DEF write, b, o, n, d

LEMMA NextTypeOK == TypeOK /\ [Next]_vars => TypeOK'
<1> SUFFICES ASSUME TypeOK, [Next]_vars PROVE TypeOK'
  OBVIOUS
<1>1. CASE UNCHANGED vars
  BY <1>1 DEF vars, disk, TypeOK
<1>2. ASSUME NEW p \in Procs, NEW n \in Lengths, allocate(p, n) PROVE TypeOK'
  <2>1. [NoLocal EXCEPT !.length = n] \in Local
    BY NoLocalType, PyAssumption DEF Local
  <2> QED BY <1>2, <2>1 DEF allocate, TypeOK, Goto, PCs, disk
<1>3. ASSUME NEW p \in Procs, Drop(p) PROVE TypeOK'
  BY <1>3, LeaveType DEF Drop, TypeOK
<1>4. ASSUME NEW p \in Procs, Crash(p) PROVE TypeOK'
  BY <1>4, NoLocalType DEF Crash, TypeOK, Goto, PCs, disk
<1> QED BY <1>1, <1>2, <1>3, <1>4, AllocateStepType, WriteType DEF Next

-----------------------------------------------------------------------------
(***************************************************************************)
(* Lock files                                                              *)
(***************************************************************************)
LockIInv == TypeOK /\ LockInv /\ LocksCollected

HoldingPC(l) == l \in {"folder", "mkfolder", "open", "header", "restat", "writer", "written"}

\* What a step of process p to the locals v and the label l has to respect.
LEMMA LockStep ==
  ASSUME LockIInv, NEW p \in Procs, NEW v \in Local, NEW l,
         w' = [w EXCEPT ![p] = v], pc' = [pc EXCEPT ![p] = l],
         orphans' \subseteq lockfiles',
         v.flock # None => v.flock \in lockfiles' \ orphans',
         v.flock # None => \A q \in Procs \ {p} : w[q].flock # v.flock,
         \A q \in Procs \ {p} : w[q].flock # None => w[q].flock \in lockfiles' \ orphans',
         \A b \in lockfiles' : \/ b \in orphans' \/ v.flock = b
                               \/ \E q \in Procs \ {p} : w[q].flock = b,
         HoldingPC(l) => v.flock = v.bid,
         l = "idle" => v.flock = None
  PROVE  LockInv' /\ LocksCollected'
<1>1. /\ w'[p] = v /\ pc'[p] = l
      /\ \A q \in Procs \ {p} : w'[q] = w[q] /\ pc'[q] = pc[q]
  BY DEF LockIInv, TypeOK
<1>2. \A q \in Procs : w'[q].flock # None => w'[q].flock \in lockfiles' \ orphans'
  BY <1>1
<1>3. \A q \in Procs : \A r \in Procs \ {q} : w'[q].flock # None => w'[r].flock # w'[q].flock
  BY <1>1 DEF LockIInv, LockInv
<1>4. \A q \in Procs : (Holding(q))' => w'[q].flock = w'[q].bid
  BY <1>1 DEF LockIInv, LockInv, Holding, HoldingPC
<1>5. \A q \in Procs : pc'[q] = "idle" => w'[q].flock = None
  BY <1>1 DEF LockIInv, LockInv
<1>6. LocksCollected'
  BY <1>1 DEF LocksCollected
<1> QED BY <1>2, <1>3, <1>4, <1>5, <1>6 DEF LockInv

\* A step that leaves the lock files and the FileLock in hand alone.
LEMMA LockKeep ==
  ASSUME LockIInv, NEW p \in Procs, NEW v \in Local, NEW l,
         w' = [w EXCEPT ![p] = v], pc' = [pc EXCEPT ![p] = l],
         UNCHANGED <<lockfiles, orphans>>, v.flock = w[p].flock,
         HoldingPC(l) => v.flock = v.bid,
         l = "idle" => v.flock = None
  PROVE  LockInv' /\ LocksCollected'
<1>1. \A b \in lockfiles' : \/ b \in orphans' \/ v.flock = b
                            \/ \E q \in Procs \ {p} : w[q].flock = b
  BY DEF LockIInv, LocksCollected
<1>2. /\ orphans' \subseteq lockfiles'
      /\ v.flock # None => v.flock \in lockfiles' \ orphans'
      /\ v.flock # None => \A q \in Procs \ {p} : w[q].flock # v.flock
      /\ \A q \in Procs \ {p} : w[q].flock # None => w[q].flock \in lockfiles' \ orphans'
  BY DEF LockIInv, LockInv
<1> QED BY <1>1, <1>2, LockStep

\* Of those, a step that changes only the label.
LEMMA LockGoto ==
  ASSUME LockIInv, NEW p \in Procs, NEW l, Goto(p, l), UNCHANGED <<w, lockfiles, orphans>>,
         HoldingPC(l) => Holding(p), l # "idle"
  PROVE  LockInv' /\ LocksCollected'
<1>1. w[p] \in Local /\ w' = [w EXCEPT ![p] = w[p]]
  BY DEF LockIInv, TypeOK
<1>2. HoldingPC(l) => w[p].flock = w[p].bid
  BY DEF LockIInv, LockInv
<1> QED BY <1>1, <1>2, LockKeep DEF Goto

\* The FileLock in hand is collected.
LEMMA LockLeave ==
  ASSUME LockIInv, NEW p \in Procs, Leave(p), UNCHANGED orphans
  PROVE  LockInv' /\ LocksCollected'
<1>1. /\ w' = [w EXCEPT ![p] = NoLocal] /\ pc' = [pc EXCEPT ![p] = "idle"]
      /\ lockfiles' = lockfiles \ {w[p].flock} /\ NoLocal.flock = None
  BY DEF Leave, Goto, Release, NoLocal
<1>2. \A b \in lockfiles' : b \in orphans' \/ \E q \in Procs \ {p} : w[q].flock = b
  BY <1>1 DEF LockIInv, LocksCollected
<1>3. orphans' \subseteq lockfiles'
  BY <1>1, BidsFacts DEF LockIInv, LockInv, TypeOK
<1>4. \A q \in Procs \ {p} : w[q].flock # None => w[q].flock \in lockfiles' \ orphans'
  BY <1>1 DEF LockIInv, LockInv
<1> QED BY <1>1, <1>2, <1>3, <1>4, NoLocalType, LockStep DEF HoldingPC

LEMMA LockMakeDir ==
  ASSUME LockIInv, NEW p \in Procs, NEW d, NEW next, MakeDir(p, d, next), UNCHANGED orphans,
         HoldingPC(next) => Holding(p), next # "idle"
  PROVE  LockInv' /\ LocksCollected'
<1>1. CASE Leave(p)
  BY <1>1, LockLeave
<1>2. CASE Goto(p, next) /\ UNCHANGED <<lockfiles, w>>
  BY <1>2, LockGoto
<1> QED BY <1>1, <1>2 DEF MakeDir

LEMMA LockLock ==
  ASSUME LockIInv, NEW p \in Procs, Lock(p)
  PROVE  LockInv' /\ LocksCollected'
<1> DEFINE b == w[p].bid
           held == lockfiles \ {w[p].flock}
<1>1. w[p] \in Local /\ b \in Bids
  BY DEF LockIInv, TypeOK, Local
<1>2. UNCHANGED orphans /\ orphans \subseteq held
  BY BidsFacts DEF Lock, LockIInv, LockInv, TypeOK
<1>3. \A q \in Procs \ {p} : w[q].flock # None => w[q].flock \in held \ orphans
  BY DEF LockIInv, LockInv
<1>4. \A c \in held : c \in orphans \/ \E q \in Procs \ {p} : w[q].flock = c
  BY DEF LockIInv, LocksCollected
<1>5. CASE /\ b \notin held /\ lockfiles' = held \cup {b}
           /\ w' = [w EXCEPT ![p] = [@ EXCEPT !.flock = b]]
           /\ Goto(p, IF w[p].found THEN "restat" ELSE "folder")
  <2> DEFINE v == [w[p] EXCEPT !.flock = b]
             l == IF w[p].found THEN "restat" ELSE "folder"
  <2>1. v \in Local /\ v.flock = b /\ v.bid = b
    BY <1>1 DEF Local
  <2>2. w' = [w EXCEPT ![p] = v] /\ pc' = [pc EXCEPT ![p] = l] /\ l # "idle"
    BY <1>5 DEF Goto
  <2> HIDE DEF v, l
  <2>3. /\ v.flock \in lockfiles' \ orphans'
        /\ \A q \in Procs \ {p} : w[q].flock # v.flock
    BY <1>1, <1>2, <1>3, <1>5, <2>1, BidsFacts
  <2>4. /\ orphans' \subseteq lockfiles'
        /\ \A q \in Procs \ {p} : w[q].flock # None => w[q].flock \in lockfiles' \ orphans'
        /\ \A c \in lockfiles' : \/ c \in orphans' \/ v.flock = c
                                 \/ \E q \in Procs \ {p} : w[q].flock = c
    BY <1>2, <1>3, <1>4, <1>5, <2>1
  <2> QED BY <2>1, <2>2, <2>3, <2>4, LockStep
<1>6. CASE /\ lockfiles' = held
           /\ w' = [w EXCEPT ![p] = [@ EXCEPT !.flock = None]]
           /\ Goto(p, "stat")
  <2> DEFINE v == [w[p] EXCEPT !.flock = None]
  <2>1. v \in Local /\ v.flock = None
    BY <1>1 DEF Local
  <2>2. w' = [w EXCEPT ![p] = v] /\ pc' = [pc EXCEPT ![p] = "stat"] /\ ~HoldingPC("stat")
    BY <1>6 DEF Goto, HoldingPC
  <2> HIDE DEF v
  <2>3. /\ orphans' \subseteq lockfiles'
        /\ \A q \in Procs \ {p} : w[q].flock # None => w[q].flock \in lockfiles' \ orphans'
        /\ \A c \in lockfiles' : c \in orphans' \/ \E q \in Procs \ {p} : w[q].flock = c
    BY <1>2, <1>3, <1>4, <1>6
  <2> QED BY <2>1, <2>2, <2>3, LockStep
<1> QED BY <1>5, <1>6 DEF Lock, TryAcquire

LEMMA LockAllocateStep ==
  ASSUME LockIInv, NEW p \in Procs, AllocateStep(p)
  PROVE  LockInv' /\ LocksCollected'
<1> w[p] \in Local
  BY DEF LockIInv, TypeOK
<1>1. CASE Stat(p)
  <2>1. UNCHANGED <<lockfiles, orphans>>
    BY <1>1 DEF Stat, disk
  <2> DEFINE lc == IF w[p].loop_count = kBundleCountPerDay
                   THEN w[p].loop_count ELSE w[p].loop_count + 1
  <2>2. PICK i \in 0 .. LastIdBound :
          /\ w' = [w EXCEPT ![p] = [@ EXCEPT !.loop_count = lc, !.bid = i % kBundleCountPerDay,
                     !.found = (size[i % kBundleCountPerDay] # None)]]
          /\ Goto(p, "stat") \/ Goto(p, "lockdir")
    BY <1>1 DEF Stat
  <2> DEFINE v == [w[p] EXCEPT !.loop_count = lc, !.bid = i % kBundleCountPerDay,
                     !.found = (size[i % kBundleCountPerDay] # None)]
  <2> HIDE DEF lc
  <2>3. w' = [w EXCEPT ![p] = v] /\ v.flock = w[p].flock
    BY <2>2 DEF Local
  <2>4. v \in Local
    <3>1. w'[p] = v
      BY <2>3 DEF LockIInv, TypeOK
    <3> QED BY <3>1, AllocateStepType DEF LockIInv, TypeOK
  <2>5. ~HoldingPC("stat") /\ ~HoldingPC("lockdir")
    BY DEF HoldingPC
  <2> HIDE DEF v
  <2> QED BY <2>1, <2>2, <2>3, <2>4, <2>5, LockKeep DEF Goto
<1>2. CASE LockDir(p)
  <2>1. PICK l \in {"lock", "mklockdir"} : Goto(p, l) /\ UNCHANGED <<w, lockfiles, orphans>>
    BY <1>2 DEF LockDir, disk
  <2> QED BY <2>1, LockGoto DEF HoldingPC
<1>3. CASE MakeLockDir(p)
  BY <1>3, LockMakeDir DEF MakeLockDir, HoldingPC
<1>4. CASE Lock(p)
  BY <1>4, LockLock
<1>5. CASE Folder(p)
  <2>1. PICK l \in {"open", "mkfolder"} : Goto(p, l) /\ UNCHANGED <<w, lockfiles, orphans>>
    BY <1>5 DEF Folder, disk
  <2> QED BY <1>5, <2>1, LockGoto DEF Folder, Holding
<1>6. CASE MakeFolder(p)
  BY <1>6, LockMakeDir DEF MakeFolder, Holding
<1>7. CASE Open(p)
  BY <1>7, LockGoto DEF Open, Holding
<1>8. CASE Header(p)
  <2> DEFINE v == [w[p] EXCEPT !.offset = kBundleHeaderSize]
  <2>1. w' = [w EXCEPT ![p] = v] /\ Goto(p, "writer") /\ UNCHANGED <<lockfiles, orphans>>
    BY <1>8 DEF Header
  <2>2. v \in Local /\ v.flock = w[p].flock /\ v.bid = w[p].bid
    BY DEF Local, kBundleHeaderSize
  <2>3. w[p].flock = w[p].bid
    BY <1>8 DEF Header, LockIInv, LockInv, Holding
  <2> HIDE DEF v
  <2> QED BY <2>1, <2>2, <2>3, LockKeep DEF Goto
<1>9. CASE Restat(p)
  <2> DEFINE n == size[w[p].bid]
             v == [w[p] EXCEPT !.offset = n]
  <2>1. UNCHANGED orphans
    BY <1>9 DEF Restat
  <2>2. CASE Leave(p)
    BY <2>1, <2>2, LockLeave
  <2>3. CASE Goto(p, "stat") /\ UNCHANGED <<w, lockfiles>>
    BY <2>1, <2>3, LockGoto DEF HoldingPC
  <2>4. CASE /\ kBundleHeaderSize <= n /\ Goto(p, "writer") /\ UNCHANGED lockfiles
             /\ w' = [w EXCEPT ![p] = v]
    <3>1. v \in Local
      <4>1. w'[p] = v
        BY <2>4 DEF LockIInv, TypeOK
      <4> QED BY <4>1, AllocateStepType DEF LockIInv, TypeOK
    <3>2. v.flock = w[p].flock /\ v.bid = w[p].bid
      BY DEF Local
    <3>3. w[p].flock = w[p].bid
      BY <1>9 DEF Restat, LockIInv, LockInv, Holding
    <3> HIDE DEF v
    <3> QED BY <2>1, <2>4, <3>1, <3>2, <3>3, LockKeep DEF Goto
  <2> QED BY <1>9, <2>2, <2>3, <2>4 DEF Restat
<1> QED BY <1>1, <1>2, <1>3, <1>4, <1>5, <1>6, <1>7, <1>8, <1>9 DEF AllocateStep

LEMMA LockCrash ==
  ASSUME LockIInv, NEW p \in Procs, Crash(p)
  PROVE  LockInv' /\ LocksCollected'
<1>1. /\ w' = [w EXCEPT ![p] = NoLocal] /\ pc' = [pc EXCEPT ![p] = "idle"]
      /\ UNCHANGED lockfiles /\ orphans' = orphans \cup ({w[p].flock} \ {None})
      /\ NoLocal.flock = None
  BY DEF Crash, Goto, disk, NoLocal
<1>2. orphans' \subseteq lockfiles'
  BY <1>1 DEF LockIInv, LockInv
<1>3. \A q \in Procs \ {p} : w[q].flock # None => w[q].flock \in lockfiles' \ orphans'
  BY <1>1 DEF LockIInv, LockInv
<1>4. \A b \in lockfiles' : b \in orphans' \/ \E q \in Procs \ {p} : w[q].flock = b
  BY <1>1, BidsFacts DEF LockIInv, LocksCollected, TypeOK
<1> QED BY <1>1, <1>2, <1>3, <1>4, NoLocalType, LockStep DEF HoldingPC

LEMMA InitLock == Init => LockIInv
<1> SUFFICES ASSUME Init PROVE LockInv /\ LocksCollected
  BY InitTypeOK DEF LockIInv
<1> QED BY DEF Init, NoLocal, LockInv, LocksCollected, Holding

LEMMA NextLock == LockIInv /\ [Next]_vars => LockIInv'
<1> SUFFICES ASSUME LockIInv, [Next]_vars PROVE LockInv' /\ LocksCollected'
  BY NextTypeOK DEF LockIInv
<1>1. CASE UNCHANGED vars
  BY <1>1 DEF vars, disk, LockIInv, LockInv, LocksCollected, Holding
<1>2. ASSUME NEW p \in Procs, NEW n \in Lengths, allocate(p, n)
      PROVE  LockInv' /\ LocksCollected'
  <2> DEFINE v == [NoLocal EXCEPT !.length = n]
  <2>1. v \in Local /\ v.flock = None
    BY NoLocalType, PyAssumption DEF Local, NoLocal
  <2>2. /\ w' = [w EXCEPT ![p] = v] /\ pc' = [pc EXCEPT ![p] = "stat"] /\ pc[p] = "idle"
        /\ UNCHANGED <<lockfiles, orphans>>
    BY <1>2 DEF allocate, Goto, disk
  <2>3. w[p].flock = None
    BY <2>2 DEF LockIInv, LockInv
  <2> HIDE DEF v
  <2> QED BY <2>1, <2>2, <2>3, LockKeep DEF HoldingPC
<1>3. ASSUME NEW p \in Procs, write(p) PROVE LockInv' /\ LocksCollected'
  BY <1>3, LockGoto DEF write, Holding
<1>4. ASSUME NEW p \in Procs, Drop(p) PROVE LockInv' /\ LocksCollected'
  BY <1>4, LockLeave DEF Drop
<1> QED BY <1>1, <1>2, <1>3, <1>4, LockAllocateStep, LockCrash DEF Next

LEMMA LockInvariant == Spec => []LockIInv
BY InitLock, NextLock, PTL DEF Spec

(***************************************************************************)
(* O_EXCL makes the bundle of a Writer its own, from the creation of the   *)
(* lock file to its release, for any number of processes and crashes.      *)
(***************************************************************************)
THEOREM OneWriterTheorem == Spec => []OneWriter
<1>1. LockIInv => OneWriter
  <2> SUFFICES ASSUME LockIInv, NEW p \in Procs, Holding(p)
               PROVE  /\ w[p].flock = w[p].bid /\ w[p].bid \in lockfiles \ orphans
                      /\ \A q \in Procs \ {p} : Holding(q) => w[q].bid # w[p].bid
    BY DEF OneWriter
  <2>1. w[p].bid \in Bids
    BY DEF LockIInv, TypeOK, Local
  <2>2. w[p].flock = w[p].bid /\ w[p].flock # None
    BY <2>1, BidsFacts DEF LockIInv, LockInv
  <2> QED BY <2>2 DEF LockIInv, LockInv
<1> QED BY <1>1, LockInvariant, PTL

(***************************************************************************)
(* No path through allocate, no exception and no crash leaves a lock file  *)
(* that nobody will unlink, other than those of the processes that died.   *)
(***************************************************************************)
THEOREM LocksCollectedTheorem == Spec => []LocksCollected
<1>1. LockIInv => LocksCollected
  BY DEF LockIInv
<1> QED BY <1>1, LockInvariant, PTL

-----------------------------------------------------------------------------
(***************************************************************************)
(* Records                                                                 *)
(***************************************************************************)
PyInv == LockIInv /\ SizeInv

\* The lock makes the bundles of two Writers different.
LEMMA BidsDiffer ==
  ASSUME LockIInv, NEW p \in Procs, Holding(p), NEW q \in Procs \ {p}, Holding(q)
  PROVE  w[q].bid # w[p].bid
<1>1. w[p].bid # None
  BY BidsFacts DEF LockIInv, TypeOK, Local
<1> QED BY <1>1 DEF LockIInv, LockInv

\* A step that leaves the files alone and does not make p a Writer.
LEMMA SizeKeep ==
  ASSUME PyInv, NEW p \in Procs, NEW v, NEW l, l \notin {"header", "writer"},
         w' = [w EXCEPT ![p] = v], pc' = [pc EXCEPT ![p] = l], UNCHANGED <<size, recs>>
  PROVE  SizeInv'
<1>1. /\ pc'[p] = l
      /\ \A q \in Procs \ {p} : w'[q] = w[q] /\ pc'[q] = pc[q]
  BY DEF PyInv, LockIInv, TypeOK
<1> QED BY <1>1 DEF PyInv, SizeInv

LEMMA SizeGoto ==
  ASSUME PyInv, NEW p \in Procs, NEW l, l \notin {"header", "writer"},
         Goto(p, l), UNCHANGED <<w, size, recs>>
  PROVE  SizeInv'
<1>1. w' = [w EXCEPT ![p] = w[p]]
  BY DEF PyInv, LockIInv, TypeOK
<1> QED BY <1>1, SizeKeep DEF Goto

LEMMA SizeLeave ==
  ASSUME PyInv, NEW p \in Procs, Leave(p), UNCHANGED <<size, recs>>
  PROVE  SizeInv'
BY SizeKeep DEF Leave, Goto

LEMMA SizeMakeDir ==
  ASSUME PyInv, NEW p \in Procs, NEW d, NEW next, next \notin {"header", "writer"},
         MakeDir(p, d, next), UNCHANGED <<size, recs>>
  PROVE  SizeInv'
<1>1. CASE Leave(p)
  BY <1>1, SizeLeave
<1>2. CASE Goto(p, next) /\ UNCHANGED <<lockfiles, w>>
  BY <1>2, SizeGoto
<1> QED BY <1>1, <1>2 DEF MakeDir

LEMMA SizeOpen ==
  ASSUME PyInv, NEW p \in Procs, Open(p)
  PROVE  SizeInv'
<1> DEFINE b == w[p].bid
<1>1. b \in Bids /\ Holding(p)
  BY DEF PyInv, LockIInv, TypeOK, Local, Open, Holding
<1>2. /\ size' = [size EXCEPT ![b] = 0] /\ recs' = [recs EXCEPT ![b] = {}]
      /\ pc' = [pc EXCEPT ![p] = "header"] /\ UNCHANGED w
  BY DEF Open, Goto
<1>3. \A q \in Procs \ {p} : pc[q] \in {"header", "writer"} => w[q].bid \in Bids \ {b}
  BY <1>1, BidsDiffer DEF PyInv, LockIInv, TypeOK, Local, Holding
<1> HIDE DEF b
<1>4. recs'[b] = {} /\ \A c \in Bids \ {b} : recs'[c] = recs[c] /\ size'[c] = size[c]
  BY <1>1, <1>2 DEF PyInv, LockIInv, TypeOK
<1>5. pc'[p] = "header" /\ \A q \in Procs \ {p} : pc'[q] = pc[q]
  BY <1>2 DEF PyInv, LockIInv, TypeOK
<1>6. \A c \in Bids : \A r \in recs'[c] : r.off + kFileHeaderSize + r.len <= size'[c]
  BY <1>4 DEF PyInv, SizeInv
<1>7. \A q \in Procs : pc'[q] = "header" => recs'[w'[q].bid] = {}
  BY <1>2, <1>3, <1>4, <1>5 DEF PyInv, SizeInv, b
<1>8. \A q \in Procs : pc'[q] = "writer" => w'[q].offset = size'[w'[q].bid]
  BY <1>2, <1>3, <1>4, <1>5 DEF PyInv, SizeInv
<1> QED BY <1>6, <1>7, <1>8 DEF SizeInv

LEMMA SizeHeader ==
  ASSUME PyInv, NEW p \in Procs, Header(p)
  PROVE  SizeInv'
<1> DEFINE b == w[p].bid
           v == [w[p] EXCEPT !.offset = kBundleHeaderSize]
<1>1. b \in Bids /\ Holding(p) /\ recs[b] = {}
  BY DEF PyInv, SizeInv, LockIInv, TypeOK, Local, Header, Holding
<1>2. /\ size' = [size EXCEPT ![b] = kBundleHeaderSize] /\ UNCHANGED recs
      /\ pc' = [pc EXCEPT ![p] = "writer"] /\ w' = [w EXCEPT ![p] = v]
  BY DEF Header, Goto
<1>3. \A q \in Procs \ {p} : pc[q] \in {"header", "writer"} => w[q].bid \in Bids \ {b}
  BY <1>1, BidsDiffer DEF PyInv, LockIInv, TypeOK, Local, Holding
<1>4. v.offset = kBundleHeaderSize /\ v.bid = b
  BY DEF PyInv, LockIInv, TypeOK, Local
<1> HIDE DEF b, v
<1>5. size'[b] = kBundleHeaderSize /\ \A c \in Bids \ {b} : size'[c] = size[c]
  BY <1>1, <1>2 DEF PyInv, LockIInv, TypeOK
<1>6. /\ pc'[p] = "writer" /\ w'[p] = v
      /\ \A q \in Procs \ {p} : pc'[q] = pc[q] /\ w'[q] = w[q]
  BY <1>2 DEF PyInv, LockIInv, TypeOK
<1>7. \A c \in Bids : \A r \in recs'[c] : r.off + kFileHeaderSize + r.len <= size'[c]
  BY <1>1, <1>2, <1>5 DEF PyInv, SizeInv
<1>8. \A q \in Procs : pc'[q] = "header" => recs'[w'[q].bid] = {}
  BY <1>2, <1>3, <1>6 DEF PyInv, SizeInv
<1>9. \A q \in Procs : pc'[q] = "writer" => w'[q].offset = size'[w'[q].bid]
  BY <1>3, <1>4, <1>5, <1>6 DEF PyInv, SizeInv
<1> QED BY <1>7, <1>8, <1>9 DEF SizeInv

LEMMA SizeRestat ==
  ASSUME PyInv, NEW p \in Procs, Restat(p)
  PROVE  SizeInv'
<1> DEFINE n == size[w[p].bid]
           v == [w[p] EXCEPT !.offset = n]
<1>1. UNCHANGED <<size, recs>>
  BY DEF Restat
<1>2. CASE Leave(p)
  BY <1>1, <1>2, SizeLeave
<1>3. CASE Goto(p, "stat") /\ UNCHANGED <<w, lockfiles>>
  BY <1>1, <1>3, SizeGoto
<1>4. CASE w' = [w EXCEPT ![p] = v] /\ Goto(p, "writer")
  <2>1. v.offset = n /\ v.bid = w[p].bid
    BY DEF PyInv, LockIInv, TypeOK, Local
  <2> HIDE DEF v
  <2>2. /\ pc'[p] = "writer" /\ w'[p] = v
        /\ \A q \in Procs \ {p} : pc'[q] = pc[q] /\ w'[q] = w[q]
    BY <1>4 DEF PyInv, LockIInv, TypeOK, Goto
  <2> QED BY <1>1, <2>1, <2>2 DEF PyInv, SizeInv
<1> QED BY <1>2, <1>3, <1>4 DEF Restat

\* Bytes appended at the size of the file overlap no record.
LEMMA AllSurvive ==
  ASSUME PyInv, NEW p \in Procs, pc[p] = "writer", NEW k \in Nat
  PROVE  Surviving(recs[w[p].bid], w[p].offset, k) = recs[w[p].bid]
<1>1. w[p].bid \in Bids /\ w[p].offset = size[w[p].bid]
  BY DEF PyInv, SizeInv, LockIInv, TypeOK, Local
<1> QED BY <1>1 DEF PyInv, SizeInv, Surviving

LEMMA WriteKeeps ==
  ASSUME PyInv, NEW p \in Procs, write(p)
  PROVE  \A b \in Bids : recs[b] \subseteq recs'[b]
<1> DEFINE b == w[p].bid
           o == w[p].offset
           n == w[p].length
           d == Cardinality(acked) + 1
<1>1. RecordSize(n) \in Nat /\ kFileHeaderSize \in Nat
  BY RecordSizeBounds DEF PyInv, LockIInv, TypeOK, Local, kFileHeaderSize
<1>2. /\ Surviving(recs[b], o, RecordSize(n)) = recs[b]
      /\ Surviving(recs[b], o, kFileHeaderSize) = recs[b]
  BY <1>1, AllSurvive DEF write
<1> HIDE DEF b, o, n, d
<1>3. \/ recs' = [recs EXCEPT ![b] = Surviving(@, o, RecordSize(n))
                                         \cup {[off |-> o, len |-> n, data |-> d]}]
      \/ recs' = [recs EXCEPT ![b] = Surviving(@, o, kFileHeaderSize)]
      \/ UNCHANGED recs
  BY DEF write, b, o, n, d
<1> QED BY <1>2, <1>3 DEF PyInv, LockIInv, TypeOK

LEMMA SizeWrite ==
  ASSUME PyInv, NEW p \in Procs, write(p)
  PROVE  SizeInv'
<1> DEFINE b == w[p].bid
           o == w[p].offset
           n == w[p].length
           r0 == [off |-> o, len |-> n, data |-> Cardinality(acked) + 1]
<1>1. /\ b \in Bids /\ o \in Nat /\ n \in Nat /\ Holding(p) /\ pc[p] = "writer"
      /\ size[b] \in Nat \cup {None}
  BY DEF PyInv, LockIInv, TypeOK, Local, write, Holding
<1>2. RecordSize(n) \in Nat /\ kFileHeaderSize + n <= RecordSize(n) /\ kFileHeaderSize \in Nat
  BY <1>1, RecordSizeBounds DEF kFileHeaderSize
<1>3. \A k \in Nat : Surviving(recs[b], o, k) = recs[b]
  BY <1>1, AllSurvive
<1>4. \A q \in Procs \ {p} : pc[q] \in {"header", "writer"} => w[q].bid \in Bids \ {b}
  BY <1>1, BidsDiffer DEF PyInv, LockIInv, TypeOK, Local, Holding
<1>5. pc' = [pc EXCEPT ![p] = "written"] /\ UNCHANGED w
  BY DEF write, Goto
<1>6. \/ /\ size' = [size EXCEPT ![b] = Larger(@, o + RecordSize(n))]
         /\ recs' = [recs EXCEPT ![b] = Surviving(@, o, RecordSize(n)) \cup {r0}]
      \/ /\ size' = [size EXCEPT ![b] = Larger(@, o + kFileHeaderSize)]
         /\ recs' = [recs EXCEPT ![b] = Surviving(@, o, kFileHeaderSize)]
      \/ UNCHANGED <<size, recs>>
  BY DEF write
<1>7. r0.off = o /\ r0.len = n
  OBVIOUS
<1> HIDE DEF b, o, n, r0
<1>8. \A c \in Bids \ {b} : recs'[c] = recs[c] /\ size'[c] = size[c]
  BY <1>6 DEF PyInv, LockIInv, TypeOK
<1>9. pc'[p] = "written" /\ \A q \in Procs \ {p} : pc'[q] = pc[q]
  BY <1>5 DEF PyInv, LockIInv, TypeOK
<1>10. size'[b] \in Int /\ size[b] <= size'[b]
  <2>1. /\ o + RecordSize(n) \in Nat /\ o + kFileHeaderSize \in Nat
    BY <1>1, <1>2
  <2>2. size'[b] \in {size[b], Larger(size[b], o + RecordSize(n)),
                      Larger(size[b], o + kFileHeaderSize)}
    BY <1>1, <1>6 DEF PyInv, LockIInv, TypeOK
  <2> QED BY <1>1, <2>1, <2>2, LargerBounds DEF None
<1>11. \A r \in recs'[b] : r \in recs[b] \/ (r = r0 /\ o + RecordSize(n) <= size'[b])
  <2>1. CASE /\ size' = [size EXCEPT ![b] = Larger(@, o + RecordSize(n))]
             /\ recs' = [recs EXCEPT ![b] = Surviving(@, o, RecordSize(n)) \cup {r0}]
    <3>1. o + RecordSize(n) \in Nat
      BY <1>1, <1>2
    <3>2. o + RecordSize(n) <= Larger(size[b], o + RecordSize(n))
      BY <1>1, <3>1, LargerBounds
    <3>3. size'[b] = Larger(size[b], o + RecordSize(n)) /\ recs'[b] = recs[b] \cup {r0}
      BY <1>1, <1>2, <1>3, <2>1 DEF PyInv, LockIInv, TypeOK
    <3> QED BY <3>2, <3>3
  <2>2. CASE recs' = [recs EXCEPT ![b] = Surviving(@, o, kFileHeaderSize)]
    BY <1>1, <1>2, <1>3, <2>2 DEF PyInv, LockIInv, TypeOK
  <2> QED BY <1>6, <2>1, <2>2
<1>12. \A r \in recs'[b] : r.off + kFileHeaderSize + r.len <= size'[b]
  <2> SUFFICES ASSUME NEW r \in recs'[b]
               PROVE  r.off + kFileHeaderSize + r.len <= size'[b]
    OBVIOUS
  <2>1. CASE r \in recs[b]
    <3>1. r.off \in Nat /\ r.len \in Nat /\ r.off + kFileHeaderSize + r.len <= size[b]
      BY <1>1, <2>1 DEF PyInv, LockIInv, TypeOK, Rec, SizeInv
    <3> QED BY <1>1, <1>2, <1>10, <3>1 DEF None
  <2>2. CASE r = r0 /\ o + RecordSize(n) <= size'[b]
    BY <1>1, <1>2, <1>7, <1>10, <2>2
  <2> QED BY <1>11, <2>1, <2>2
<1>13. \A c \in Bids : \A r \in recs'[c] : r.off + kFileHeaderSize + r.len <= size'[c]
  BY <1>8, <1>12 DEF PyInv, SizeInv
<1>14. \A q \in Procs : pc'[q] = "header" => recs'[w'[q].bid] = {}
  BY <1>4, <1>5, <1>8, <1>9 DEF PyInv, SizeInv
<1>15. \A q \in Procs : pc'[q] = "writer" => w'[q].offset = size'[w'[q].bid]
  BY <1>4, <1>5, <1>8, <1>9 DEF PyInv, SizeInv
<1> QED BY <1>13, <1>14, <1>15 DEF SizeInv

LEMMA InitPy == Init => PyInv
<1> SUFFICES ASSUME Init PROVE SizeInv
  BY InitLock DEF PyInv
<1> QED BY DEF Init, SizeInv

LEMMA NextPy == PyInv /\ [Next]_vars => PyInv'
<1> SUFFICES ASSUME PyInv, [Next]_vars PROVE SizeInv'
  BY NextLock DEF PyInv
<1>1. CASE UNCHANGED vars
  BY <1>1 DEF vars, disk, PyInv, SizeInv
<1>2. ASSUME NEW p \in Procs, NEW n \in Lengths, allocate(p, n) PROVE SizeInv'
  BY <1>2, SizeKeep DEF allocate, Goto, disk
<1>3. ASSUME NEW p \in Procs, Drop(p) PROVE SizeInv'
  BY <1>3, SizeLeave DEF Drop
<1>4. ASSUME NEW p \in Procs, Crash(p) PROVE SizeInv'
  BY <1>4, SizeKeep DEF Crash, Goto, disk
<1>5. ASSUME NEW p \in Procs, AllocateStep(p) PROVE SizeInv'
  <2>1. CASE Stat(p)
    <3>1. UNCHANGED <<size, recs>>
      BY <2>1 DEF Stat, disk
    <3>2. PICK l \in {"stat", "lockdir"} : pc' = [pc EXCEPT ![p] = l]
      BY <2>1 DEF Stat, Goto
    <3>3. w' = [w EXCEPT ![p] = w'[p]]
      BY <2>1 DEF Stat, PyInv, LockIInv, TypeOK
    <3> QED BY <3>1, <3>2, <3>3, SizeKeep
  <2>2. CASE LockDir(p)
    <3>1. PICK l \in {"lock", "mklockdir"} : Goto(p, l) /\ UNCHANGED <<w, size, recs>>
      BY <2>2 DEF LockDir, disk
    <3> QED BY <3>1, SizeGoto
  <2>3. CASE MakeLockDir(p)
    BY <2>3, SizeMakeDir DEF MakeLockDir
  <2>4. CASE Lock(p)
    <3>1. UNCHANGED <<size, recs>>
      BY <2>4 DEF Lock
    <3>2. PICK l \in {"restat", "folder", "stat"} : pc' = [pc EXCEPT ![p] = l]
      BY <2>4 DEF Lock, Goto
    <3>3. w' = [w EXCEPT ![p] = w'[p]]
      BY <2>4 DEF Lock, PyInv, LockIInv, TypeOK
    <3> QED BY <3>1, <3>2, <3>3, SizeKeep
  <2>5. CASE Folder(p)
    <3>1. PICK l \in {"open", "mkfolder"} : Goto(p, l) /\ UNCHANGED <<w, size, recs>>
      BY <2>5 DEF Folder, disk
    <3> QED BY <3>1, SizeGoto
  <2>6. CASE MakeFolder(p)
    BY <2>6, SizeMakeDir DEF MakeFolder
  <2> QED BY <1>5, <2>1, <2>2, <2>3, <2>4, <2>5, <2>6, SizeOpen, SizeHeader, SizeRestat
          DEF AllocateStep
<1> QED BY <1>1, <1>2, <1>3, <1>4, <1>5, SizeWrite DEF Next

LEMMA PyInvariant == Spec => []PyInv
BY InitPy, NextPy, PTL DEF Spec

\* Every step but an open for creation keeps the records of every bundle.
LEMMA StepKeeps ==
  ASSUME PyInv, [Next]_vars, \A p \in Procs : ~Open(p)
  PROVE  \A b \in Bids : recs[b] \subseteq recs'[b]
<1>1. CASE UNCHANGED recs
  BY <1>1
<1>2. ASSUME NEW p \in Procs, AllocateStep(p) PROVE UNCHANGED recs
  BY <1>2 DEF AllocateStep, Stat, LockDir, MakeLockDir, Lock, Folder, MakeFolder, Header,
              Restat, disk
<1>3. ASSUME NEW p \in Procs, (\E n \in Lengths : allocate(p, n)) \/ Drop(p) \/ Crash(p)
      PROVE  UNCHANGED recs
  BY <1>3 DEF allocate, Drop, Crash, disk
<1> QED BY <1>1, <1>2, <1>3, WriteKeeps DEF Next, vars, disk

(***************************************************************************)
(* Appends, complete or cut short, overlap no acknowledged record, since a *)
(* Writer's offset is still the size of its bundle when it writes: only    *)
(* the truncation in create can take one away.                             *)
(***************************************************************************)
THEOREM AppendsPreserveTheorem == Spec => AppendsPreserve
<1>1. PyInv /\ [Next]_vars =>
        [\A a \in acked : Reads(a) => (Reads(a))' \/ \E p \in Procs : Open(p)]_vars
  <2> SUFFICES ASSUME PyInv, [Next]_vars, NEW a \in acked, Reads(a), \A p \in Procs : ~Open(p)
               PROVE  (Reads(a))'
    OBVIOUS
  <2>1. a.bid \in Bids
    BY DEF PyInv, LockIInv, TypeOK
  <2>2. recs[a.bid] \subseteq recs'[a.bid]
    BY <2>1, StepKeeps
  <2> QED BY <2>2 DEF Reads
<1> QED BY <1>1, PyInvariant, PTL DEF Spec, AppendsPreserve
=============================================================================
