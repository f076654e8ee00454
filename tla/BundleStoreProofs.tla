------------------------- MODULE BundleStoreProofs --------------------------
(***************************************************************************)
(* Machine-checked proofs about BundleStore, for every number of threads,  *)
(* ids, prefixes, sizes and faults.                                        *)
(***************************************************************************)
EXTENDS BundleStoreAbs, TLAPS

(***************************************************************************)
(* Align1K rounds up to the next multiple of 1024.                         *)
(***************************************************************************)
LEMMA Align1KBounds ==
  ASSUME NEW v \in Nat
  PROVE  Align1K(v) \in Nat /\ v <= Align1K(v) /\ Align1K(v) < v + 1024
BY DEF Align1K

\* A record has room for its header and its content.
LEMMA RecordSizeBounds ==
  ASSUME NEW n \in Nat
  PROVE  RecordSize(n) \in Nat /\ kFileHeaderSize + n <= RecordSize(n)
BY Align1KBounds DEF RecordSize, kFileHeaderSize

\* The quotient and the remainder of a division by a positive number.
LEMMA DivMod ==
  ASSUME NEW a \in Nat, NEW m \in Nat \ {0}
  PROVE  /\ a \div m \in Nat /\ a % m \in Nat /\ a % m < m
         /\ a = m * (a \div m) + (a % m)
OBVIOUS

\* A multiple of m that is smaller than m in absolute value is 0.
LEMMA SmallMultiple ==
  ASSUME NEW m \in Nat \ {0}, NEW k \in Int, m * k < m, -m < m * k
  PROVE  k = 0
<1>1. CASE k >= 1
  <2>1. m * k >= m BY <1>1
  <2> QED BY <2>1
<1>2. CASE k <= -1
  <2>1. m * k <= -m BY <1>2
  <2> QED BY <2>1
<1> QED BY <1>1, <1>2

(***************************************************************************)
(* Two ids never share a bundle file name, provided that                   *)
(* file_count_level_1 <= file_count_level_2 (LevelAssumption).             *)
(***************************************************************************)
THEOREM Bid2FilenameInjective ==
  ASSUME NEW i \in Nat, NEW j \in Nat, Bid2Filename(i) = Bid2Filename(j)
  PROVE  i = j
<1> DEFINE a == file_count_level_1
           b == file_count_level_2
           q == i \div a
           r == i % b
<1>1. j \div a = q /\ j % b = r
  BY DEF Bid2Filename
<1>2. /\ q \in Nat
      /\ i = a * q + (i % a) /\ i % a \in 0 .. a - 1
      /\ j = a * q + (j % a) /\ j % a \in 0 .. a - 1
  BY <1>1, DivMod, LevelAssumption
<1>3. /\ i \div b \in Nat /\ j \div b \in Nat
      /\ i = b * (i \div b) + r /\ j = b * (j \div b) + r
      /\ r \in Nat
  BY <1>1, DivMod, LevelAssumption
<1>4. i - j < a /\ -a < i - j
  <2> HIDE DEF q
  <2> QED BY <1>2, LevelAssumption
<1>5. i - j = b * ((i \div b) - (j \div b))
  BY <1>3, LevelAssumption
<1>6. (i \div b) - (j \div b) = 0
  BY <1>3, <1>4, <1>5, SmallMultiple, LevelAssumption
<1> QED BY <1>3, <1>6

-----------------------------------------------------------------------------
(***************************************************************************)
(* Type correctness                                                        *)
(***************************************************************************)
LEMMA NoCallType == NoCall \in Call
<1>1. (CHOOSE x \in Prefixes : TRUE) \in Prefixes
  BY StoreAssumption
<1> QED BY <1>1, StoreAssumption DEF NoCall, Call, NoId, Method

LEMMA FileOfType ==
  ASSUME NEW x \in Prefixes, NEW i \in Ids
  PROVE  FileOf(x, i) \in Files
BY DEF Files

\* Initially every variable has its type.
LEMMA InitTypeOK == Init => TypeOK
<1> SUFFICES ASSUME Init PROVE TypeOK
  OBVIOUS
<1> QED BY NoCallType, StoreAssumption DEF Init, TypeOK, Dirs, PCs, InAllocate

\* The store a write leaves behind has its type.
LEMMA PutBytesType ==
  ASSUME TypeOK, NEW t \in Threads, call[t].bid \in Ids,
         NEW n \in Nat, NEW b \in Method, NEW k \in Nat, PutBytes(t, n, b, k)
  PROVE  size' \in [Files -> Nat] /\ recs' \in [Files -> SUBSET Record]
<1>1. /\ call[t] \in Call /\ call[t].off \in Nat /\ call[t].prefix \in Prefixes
      /\ writes \in Nat
  BY StoreAssumption DEF TypeOK, Call
<1> DEFINE f == BundleFile(t)
           o == call[t].off
           r == [off |-> o, len |-> n, data |-> writes + 1, by |-> b]
<1>2. f \in Files
  BY <1>1, FileOfType DEF BundleFile
<1>3. r \in Record
  BY <1>1 DEF Record
<1>4. size' = [size EXCEPT ![f] = IF o + k > @ THEN o + k ELSE @]
  BY DEF PutBytes
<1>5. size' \in [Files -> Nat]
  BY <1>1, <1>2, <1>4 DEF TypeOK
<1>6. recs' = [recs EXCEPT ![f] =
                Surviving(@, o, k) \cup (IF kFileHeaderSize + n <= k THEN {r} ELSE {})]
  BY DEF PutBytes
<1>7. Surviving(recs[f], o, k) \in SUBSET Record
  BY <1>2 DEF TypeOK, Surviving
<1>8. recs' \in [Files -> SUBSET Record]
  BY <1>2, <1>3, <1>6, <1>7 DEF TypeOK
<1> QED BY <1>5, <1>8

(***************************************************************************)
(* TypeOK alone is not inductive: what a thread has read from last_id_ is  *)
(* an id only because the program point says it has been assigned.         *)
(***************************************************************************)
Assigned ==
  \A t \in Threads :
    /\ pc[t] \in InAllocate => last_id[ProcOf[t]] \in Ids
    /\ pc[t] \notin {"idle", "loop"} => call[t].lock \in Ids
    /\ HasFile(t) => call[t].bid \in Ids
    /\ pc[t] \in {"writer", "written"} => call[t].id \in Ids

TypeInv == TypeOK /\ Assigned

\* Every step keeps TypeInv.
LEMMA NextTypeInv == TypeInv /\ [Next]_vars => TypeInv'
<1> SUFFICES ASSUME TypeInv, [Next]_vars PROVE TypeInv'
  OBVIOUS
<1> USE StoreAssumption, NoCallType DEF TypeInv, Method, PCs, InAllocate, Goto, SetErrno, Return
<1>1. ASSUME NEW t \in Threads, NEW x \in Prefixes, NEW n \in Sizes, Allocate(t, x, n)
      PROVE  TypeInv'
  <2>1. [NoCall EXCEPT !.prefix = x, !.want = n] \in Call
    BY DEF Call
  <2>2. TypeOK'
    BY <1>1, <2>1 DEF Allocate, TypeOK, disk
  <2>3. Assigned'
    BY <1>1 DEF Allocate, TypeOK, Assigned, HasFile, NoId
  <2> QED BY <2>2, <2>3
<1>2. ASSUME NEW t \in Threads, TryLock(t) PROVE TypeInv'
  <2> DEFINE lc == IF call[t].loop_count > bundle_count_per_day
                   THEN call[t].loop_count ELSE call[t].loop_count + 1
  <2>1. PICK i \in Ids :
          /\ pc[t] = "loop"
          /\ last_id' = [last_id EXCEPT ![ProcOf[t]] = i]
          /\ call' = [call EXCEPT ![t] = [@ EXCEPT !.loop_count = lc, !.lock = i]]
          /\ \/ LockSucceeds(i) /\ Goto(t, "stat") /\ UNCHANGED errno
             \/ LockFails(i) /\ Goto(t, "lockdir") /\ SetErrno(t) /\ UNCHANGED locks
          /\ UNCHANGED <<dirs, files, size, recs, allocs, writes, crashes, acked, orphans>>
    BY <1>2 DEF TryLock
  <2>2. lc \in 0 .. bundle_count_per_day + 1
    BY DEF TypeOK, Call
  <2> HIDE DEF lc
  <2>3. call[t] \in Call /\ [call[t] EXCEPT !.loop_count = lc, !.lock = i] \in Call
    BY <2>2 DEF TypeOK, Call
  <2>4. TypeOK'
    BY <2>1, <2>3 DEF TypeOK, LockSucceeds
  <2>5. call'[t].lock = i
    BY <2>1, <2>3 DEF TypeOK, Call
  <2>6. Assigned'
    BY <2>1, <2>5 DEF TypeOK, Assigned, HasFile
  <2> QED BY <2>4, <2>6
<1>3. ASSUME NEW t \in Threads, CheckLockDir(t) PROVE TypeInv'
  BY <1>3 DEF CheckLockDir, TypeOK, Dirs, Assigned, HasFile
<1>4. ASSUME NEW t \in Threads, TryLockAgain(t) PROVE TypeInv'
  BY <1>4 DEF TryLockAgain, TypeOK, Assigned, HasFile, LockSucceeds, LockFails, BumpLastId
<1>5. ASSUME NEW t \in Threads, Stat(t) PROVE TypeInv'
  <2> DEFINE i == last_id[ProcOf[t]]
             f == FileOf(call[t].prefix, i)
  <2>1. i \in Ids /\ call[t] \in Call /\ f \in Files /\ size[f] \in Nat
    BY <1>5, FileOfType DEF Stat, TypeOK, Assigned, Call
  <2>2. call[t].lock \in Ids
    BY <1>5 DEF Stat, Assigned
  <2> DEFINE w == [call[t] EXCEPT !.bid = i, !.id = i, !.off = size[f]]
             c == [call[t] EXCEPT !.bid = i]
  <2>3. w \in Call /\ w.lock = call[t].lock /\ w.bid = i /\ w.id = i
    BY <2>1 DEF Call
  <2>4. c \in Call /\ c.lock = call[t].lock /\ c.bid = i
    BY <2>1 DEF Call
  <2>5. CASE /\ BumpLastId(t) /\ Goto(t, "loop") /\ UNCHANGED call
             /\ Unlock(t) \/ (orphans' = orphans \cup {call[t].lock} /\ UNCHANGED locks)
             /\ SetErrno(t) \/ UNCHANGED errno
    BY <1>5, <2>2, <2>5 DEF Stat, TypeOK, Assigned, HasFile, BumpLastId, Unlock
  <2>6. CASE /\ call' = [call EXCEPT ![t] = w] /\ Goto(t, "writer")
             /\ UNCHANGED <<errno, last_id, locks, orphans>>
    <3> HIDE DEF w
    <3> QED BY <1>5, <2>1, <2>2, <2>3, <2>6 DEF Stat, TypeOK, Assigned, HasFile
  <2>7. CASE /\ call' = [call EXCEPT ![t] = c] /\ Goto(t, "parent") /\ SetErrno(t)
             /\ UNCHANGED <<last_id, locks, orphans>>
    <3> HIDE DEF c
    <3> QED BY <1>5, <2>1, <2>2, <2>4, <2>7 DEF Stat, TypeOK, Assigned, HasFile
  <2> QED BY <1>5, <2>5, <2>6, <2>7 DEF Stat
<1>6. ASSUME NEW t \in Threads, MakeParent(t) PROVE TypeInv'
  <2>1. DirOf(call[t].prefix, call[t].bid) \in Dirs /\ call[t].lock \in Ids
    BY <1>6 DEF MakeParent, TypeOK, Dirs, Assigned, HasFile, Call
  <2> QED BY <1>6, <2>1 DEF MakeParent, TypeOK, Assigned, HasFile, Unlock
<1>7. ASSUME NEW t \in Threads, CreateBundle(t) PROVE TypeInv'
  <2>1. BundleFile(t) \in Files
    BY <1>7, FileOfType DEF CreateBundle, BundleFile, TypeOK, Assigned, HasFile, Call
  <2> QED BY <1>7, <2>1 DEF CreateBundle, TypeOK, Assigned, HasFile, Unlock
<1>8. ASSUME NEW t \in Threads, WriteBundleHeader(t) PROVE TypeInv'
  <2>1. BundleFile(t) \in Files /\ last_id[ProcOf[t]] \in Ids /\ call[t] \in Call
    BY <1>8, FileOfType DEF WriteBundleHeader, BundleFile, TypeOK, Assigned, HasFile, Call
  <2> DEFINE i == last_id[ProcOf[t]]
             w == [call[t] EXCEPT !.id = i, !.off = kBundleHeaderSize]
  <2>2. w \in Call /\ w.lock = call[t].lock /\ w.bid = call[t].bid /\ w.id \in Ids
    <3>1. i \in Ids /\ kBundleHeaderSize \in Nat
      BY <2>1 DEF kBundleHeaderSize
    <3> HIDE DEF i
    <3> QED BY <2>1, <3>1 DEF Call
  <2>3. pc[t] = "bheader" /\ call[t].lock \in Ids /\ call[t].bid \in Ids
    BY <1>8 DEF WriteBundleHeader, Assigned, HasFile
  <2>4. CASE /\ size' = [size EXCEPT ![BundleFile(t)] = kBundleHeaderSize]
             /\ call' = [call EXCEPT ![t] = w]
             /\ Goto(t, "writer") /\ UNCHANGED <<errno, locks, orphans>>
    <3> HIDE DEF w
    <3> QED BY <1>8, <2>1, <2>2, <2>3, <2>4
            DEF WriteBundleHeader, TypeOK, Assigned, HasFile, kBundleHeaderSize
  <2>5. CASE /\ \E k \in Shorts \cup {0} :
                  k < kBundleHeaderSize /\ size' = [size EXCEPT ![BundleFile(t)] = k]
             /\ Unlock(t) /\ Return(t) /\ SetErrno(t)
    BY <1>8, <2>1, <2>3, <2>5 DEF WriteBundleHeader, TypeOK, Assigned, HasFile, Unlock
  <2> QED BY <1>8, <2>4, <2>5 DEF WriteBundleHeader
<1>9. ASSUME NEW t \in Threads, NEW n \in Nat, NEW b \in Method, NEW ret \in {0, 1},
             pc[t] = "writer", WriteRecord(t, n, b, ret)
      PROVE  /\ size' \in [Files -> Nat] /\ recs' \in [Files -> SUBSET Record]
             /\ acked' \in SUBSET (Url \X Nat) /\ errno' \in [Threads -> {0, 1}]
             /\ writes' \in 0 .. MaxWrites
             /\ RecordSize(n) \in Nat
  <2>1. call[t].bid \in Ids /\ call[t].id \in Ids
    BY <1>9 DEF Assigned, HasFile
  <2>2. RecordSize(n) \in Nat
    BY RecordSizeBounds
  <2>3. size' \in [Files -> Nat] /\ recs' \in [Files -> SUBSET Record]
    BY <1>9, <2>1, <2>2, PutBytesType DEF WriteRecord, TypeOK
  <2>4. UrlOf(t, n) \in Url
    BY <2>1 DEF UrlOf, Url, TypeOK, Call
  <2>5. acked' \in SUBSET (Url \X Nat) /\ writes' \in 0 .. MaxWrites
    BY <1>9, <2>4 DEF WriteRecord, TypeOK
  <2>6. errno' \in [Threads -> {0, 1}]
    BY <1>9 DEF WriteRecord, TypeOK
  <2> QED BY <2>2, <2>3, <2>5, <2>6
<1>10. ASSUME NEW t \in Threads, Write(t) PROVE TypeInv'
  <2>1. call[t].want \in Nat
    BY DEF TypeOK, Call
  <2>2. PICK ret \in {0, 1} : WriteRecord(t, call[t].want, "Write", ret)
    BY <1>10 DEF Write
  <2> QED BY <1>10, <2>1, <2>2, <1>9 DEF Write, WriteRecord, TypeOK, Assigned, HasFile
<1>11. ASSUME NEW t \in Threads, NEW n \in Sizes, BatchWrite(t, n) PROVE TypeInv'
  <2>1. PICK ret \in {0, 1} :
          /\ WriteRecord(t, n, "BatchWrite", ret)
          /\ call' = [call EXCEPT ![t] =
               [@ EXCEPT !.want = n, !.by = "BatchWrite", !.off = NextOffset(t, n, ret)]]
    BY <1>11 DEF BatchWrite
  <2>2. n \in Nat /\ RecordSize(n) \in Nat
    BY RecordSizeBounds
  <2>3. call' \in [Threads -> Call]
    <3>1. call[t] \in Call /\ NextOffset(t, n, ret) \in Nat
      BY <2>2 DEF TypeOK, Call, NextOffset
    <3>2. [call[t] EXCEPT !.want = n, !.by = "BatchWrite",
                          !.off = NextOffset(t, n, ret)] \in Call
      BY <2>2, <3>1 DEF Call
    <3> QED BY <2>1, <3>2 DEF TypeOK
  <2>4. TypeOK'
    BY <1>11, <2>1, <2>2, <2>3, <1>9 DEF BatchWrite, WriteRecord, TypeOK
  <2>5. Assigned'
    BY <1>11, <2>1 DEF BatchWrite, WriteRecord, TypeOK, Assigned, HasFile, Call
  <2> QED BY <2>4, <2>5
<1>12. ASSUME NEW t \in Threads, Release(t) \/ Lose(t) PROVE TypeInv'
  <2>1. CASE Release(t)
    BY <2>1 DEF Release, TypeOK, Assigned, HasFile, Unlock
  <2>2. CASE Lose(t)
    BY <2>2 DEF Lose, TypeOK, Assigned, HasFile, disk
  <2> QED BY <1>12, <2>1, <2>2
<1>13. ASSUME NEW p \in Procs, Crash(p) PROVE TypeInv'
  <2>1. {call[t].lock : t \in {u \in Threads : ProcOf[u] = p /\ Locked(u)}} \subseteq Ids
    BY DEF Locked, Assigned
  <2>2. TypeOK'
    BY <1>13, <2>1 DEF Crash, TypeOK, disk
  <2>3. Assigned'
    BY <1>13 DEF Crash, TypeOK, Assigned, HasFile
  <2> QED BY <2>2, <2>3
<1>14. CASE UNCHANGED vars
  BY <1>14 DEF vars, disk, local, TypeOK, Assigned, HasFile
<1> QED
  BY <1>1, <1>2, <1>3, <1>4, <1>5, <1>6, <1>7, <1>8, <1>10, <1>11, <1>12, <1>13, <1>14
  DEF Next, AllocateStep

(***************************************************************************)
(* Every variable of the store keeps its type, for any threads, faults and *)
(* bounds.                                                                 *)
(***************************************************************************)
THEOREM TypeCorrect == Spec => []TypeOK
<1>1. Init => TypeInv
  BY InitTypeOK DEF TypeInv, Assigned, Init, InAllocate, HasFile
<1>2. TypeInv => TypeOK
  BY DEF TypeInv
<1> QED BY <1>1, <1>2, NextTypeInv, PTL DEF Spec

-----------------------------------------------------------------------------
(***************************************************************************)
(* Mutual exclusion                                                        *)
(***************************************************************************)
\* Processes with one thread: a step of one thread moves no other's last_id_.
LEMMA NextLockInv ==
  ASSUME SingleThreaded, TypeInv, LockInv, [Next]_vars
  PROVE  LockInv'
<1> USE StoreAssumption DEF TypeInv, LockInv, LockedNow, LastIdIsLock, Locked, HasFile, InAllocate,
                            Goto, SetErrno, Return
<1>1. ASSUME NEW t \in Threads, NEW x \in Prefixes, NEW n \in Sizes, Allocate(t, x, n)
      PROVE  LockInv'
  BY <1>1 DEF Allocate, TypeOK, disk, SingleThreaded
<1>2. ASSUME NEW t \in Threads, TryLock(t) PROVE LockInv'
  <2> DEFINE lc == IF call[t].loop_count > bundle_count_per_day
                   THEN call[t].loop_count ELSE call[t].loop_count + 1
  <2>1. PICK i \in Ids :
          /\ pc[t] = "loop"
          /\ last_id' = [last_id EXCEPT ![ProcOf[t]] = i]
          /\ call' = [call EXCEPT ![t] = [@ EXCEPT !.loop_count = lc, !.lock = i]]
          /\ \/ LockSucceeds(i) /\ Goto(t, "stat")
             \/ LockFails(i) /\ Goto(t, "lockdir") /\ UNCHANGED locks
          /\ UNCHANGED orphans
    BY <1>2 DEF TryLock
  <2> HIDE DEF lc
  <2>2. call'[t].lock = i
    BY <2>1 DEF TypeOK, Call
  <2>3. \A u \in Threads \ {t} : call'[u] = call[u] /\ pc'[u] = pc[u]
                                 /\ last_id'[ProcOf[u]] = last_id[ProcOf[u]]
    BY <2>1 DEF TypeOK, SingleThreaded
  <2>4. last_id'[ProcOf[t]] = i
    BY <2>1 DEF TypeOK
  <2>5. CASE LockSucceeds(i) /\ Goto(t, "stat")
    BY <2>1, <2>2, <2>3, <2>4, <2>5 DEF LockSucceeds, TypeOK
  <2>6. CASE Goto(t, "lockdir") /\ UNCHANGED locks
    BY <2>1, <2>2, <2>3, <2>4, <2>6 DEF TypeOK
  <2> QED BY <2>1, <2>5, <2>6
<1>3. ASSUME NEW t \in Threads, CheckLockDir(t) PROVE LockInv'
  BY <1>3 DEF CheckLockDir, TypeOK
<1>4. ASSUME NEW t \in Threads, TryLockAgain(t) PROVE LockInv'
  <2>1. \A u \in Threads \ {t} : pc'[u] = pc[u] /\ last_id'[ProcOf[u]] = last_id[ProcOf[u]]
    BY <1>4 DEF TryLockAgain, BumpLastId, TypeOK, SingleThreaded
  <2> QED BY <1>4, <2>1 DEF TryLockAgain, LockSucceeds, TypeOK
<1>5. ASSUME NEW t \in Threads, Stat(t) PROVE LockInv'
  <2> DEFINE i == last_id[ProcOf[t]]
             f == FileOf(call[t].prefix, i)
             w == [call[t] EXCEPT !.bid = i, !.id = i, !.off = size[f]]
             c == [call[t] EXCEPT !.bid = i]
  <2>1. pc[t] = "stat" /\ i = call[t].lock /\ call[t] \in Call
    BY <1>5 DEF Stat, TypeOK
  <2>2. /\ w.lock = call[t].lock /\ w.bid = i /\ w.id = i
        /\ c.lock = call[t].lock /\ c.bid = i
    BY <2>1 DEF Call
  <2>3. CASE BumpLastId(t) /\ Unlock(t) /\ Goto(t, "loop") /\ UNCHANGED call
    <3>1. \A u \in Threads \ {t} : pc'[u] = pc[u] /\ last_id'[ProcOf[u]] = last_id[ProcOf[u]]
      BY <2>3 DEF BumpLastId, TypeOK, SingleThreaded
    <3> QED BY <2>1, <2>3, <3>1 DEF Unlock, TypeOK
  <2>4. CASE /\ call' = [call EXCEPT ![t] = w] /\ Goto(t, "writer")
             /\ UNCHANGED <<last_id, locks, orphans>>
    <3> HIDE DEF w
    <3> QED BY <2>1, <2>2, <2>4 DEF TypeOK
  <2>5. CASE /\ call' = [call EXCEPT ![t] = c] /\ Goto(t, "parent")
             /\ UNCHANGED <<last_id, locks, orphans>>
    <3> HIDE DEF c
    <3> QED BY <2>1, <2>2, <2>5 DEF TypeOK
  <2>6. CASE /\ BumpLastId(t) /\ orphans' = orphans \cup {call[t].lock}
             /\ Goto(t, "loop") /\ UNCHANGED <<locks, call>>
    <3>1. \A u \in Threads \ {t} : pc'[u] = pc[u] /\ last_id'[ProcOf[u]] = last_id[ProcOf[u]]
      BY <2>6 DEF BumpLastId, TypeOK, SingleThreaded
    <3> QED BY <2>1, <2>6, <3>1 DEF TypeOK
  <2> QED BY <1>5, <2>3, <2>4, <2>5, <2>6 DEF Stat
<1>6. ASSUME NEW t \in Threads, MakeParent(t) PROVE LockInv'
  BY <1>6 DEF MakeParent, Unlock, TypeOK
<1>7. ASSUME NEW t \in Threads, CreateBundle(t) PROVE LockInv'
  BY <1>7 DEF CreateBundle, Unlock, TypeOK
<1>8. ASSUME NEW t \in Threads, WriteBundleHeader(t) PROVE LockInv'
  <2> DEFINE i == last_id[ProcOf[t]]
             w == [call[t] EXCEPT !.id = i, !.off = kBundleHeaderSize]
  <2>1. pc[t] = "bheader" /\ i = call[t].lock /\ call[t] \in Call
    BY <1>8 DEF WriteBundleHeader, TypeOK
  <2>2. w.lock = call[t].lock /\ w.bid = call[t].bid /\ w.id = i
    BY <2>1 DEF Call
  <2>3. CASE /\ call' = [call EXCEPT ![t] = w] /\ Goto(t, "writer")
             /\ UNCHANGED <<last_id, locks, orphans>>
    <3> HIDE DEF w
    <3> QED BY <2>1, <2>2, <2>3 DEF TypeOK
  <2>4. CASE Unlock(t) /\ Return(t) /\ UNCHANGED last_id
    BY <2>1, <2>4 DEF Unlock, TypeOK
  <2> QED BY <1>8, <2>3, <2>4 DEF WriteBundleHeader
<1>10. ASSUME NEW t \in Threads, Write(t) PROVE LockInv'
  BY <1>10 DEF Write, WriteRecord, TypeOK
<1>11. ASSUME NEW t \in Threads, NEW n \in Sizes, BatchWrite(t, n) PROVE LockInv'
  <2>1. PICK ret \in {0, 1} :
          /\ WriteRecord(t, n, "BatchWrite", ret)
          /\ call' = [call EXCEPT ![t] =
               [@ EXCEPT !.want = n, !.by = "BatchWrite", !.off = NextOffset(t, n, ret)]]
    BY <1>11 DEF BatchWrite
  <2> DEFINE w == [call[t] EXCEPT !.want = n, !.by = "BatchWrite",
                                  !.off = NextOffset(t, n, ret)]
  <2>2. w.lock = call[t].lock /\ w.bid = call[t].bid /\ w.id = call[t].id
    BY DEF TypeOK, Call
  <2>3. call' = [call EXCEPT ![t] = w]
    BY <2>1
  <2> HIDE DEF w
  <2> QED BY <1>11, <2>1, <2>2, <2>3 DEF BatchWrite, WriteRecord, TypeOK
<1>12. ASSUME NEW t \in Threads, Release(t) \/ Lose(t) PROVE LockInv'
  <2>1. CASE Release(t)
    BY <2>1 DEF Release, Unlock, TypeOK
  <2>2. CASE Lose(t)
    BY <2>2 DEF Lose, TypeOK, disk
  <2> QED BY <1>12, <2>1, <2>2
<1>13. ASSUME NEW p \in Procs, Crash(p) PROVE LockInv'
  BY <1>13 DEF Crash, TypeOK, disk
<1>14. CASE UNCHANGED vars
  BY <1>14 DEF vars, disk, local
<1> QED
  BY <1>1, <1>2, <1>3, <1>4, <1>5, <1>6, <1>7, <1>8, <1>10, <1>11, <1>12, <1>13, <1>14
  DEF Next, AllocateStep

LEMMA InitLockInv == Init => LockInv
BY DEF Init, LockInv, LockedNow, LastIdIsLock, Locked, HasFile, InAllocate

\* Different locks are different bundle files: Bid2Filename is one-to-one.
LEMMA LockInvOneWriter ==
  ASSUME TypeInv, LockInv
  PROVE  OneWriterPerBundle
<1> SUFFICES ASSUME NEW t \in Threads, NEW u \in Threads, HasFile(t), HasFile(u), t # u,
                    BundleFile(t) = BundleFile(u)
             PROVE  FALSE
  BY DEF OneWriterPerBundle
<1>1. /\ call[t].bid = call[t].lock /\ call[u].bid = call[u].lock
      /\ call[t].lock # call[u].lock
  BY DEF LockInv, LockedNow, HasFile, Locked
<1>2. call[t].bid \in Nat /\ call[u].bid \in Nat
  BY StoreAssumption DEF TypeInv, Assigned, Ids
<1>3. Bid2Filename(call[t].bid) = Bid2Filename(call[u].bid)
  BY DEF BundleFile, FileOf
<1> QED BY <1>1, <1>2, <1>3, Bid2FilenameInjective

(***************************************************************************)
(* With one thread in each process, a thread that looks at or writes a     *)
(* bundle holds that bundle's lock file.                                   *)
(***************************************************************************)
THEOREM AllocateLocks ==
  ASSUME SingleThreaded
  PROVE  Spec => []LockedNow
<1>1. Init => TypeInv /\ LockInv
  BY InitTypeOK, InitLockInv DEF TypeInv, Assigned, Init, InAllocate, HasFile
<1>2. TypeInv /\ LockInv /\ [Next]_vars => TypeInv' /\ LockInv'
  BY NextTypeInv, NextLockInv
<1>3. LockInv => LockedNow
  BY DEF LockInv
<1> QED BY <1>1, <1>2, <1>3, PTL DEF Spec

(***************************************************************************)
(* With one thread in each process, no two threads ever work on the same   *)
(* bundle file, for every LevelAssumption-abiding pair of file counts.     *)
(***************************************************************************)
THEOREM MutualExclusion ==
  ASSUME SingleThreaded
  PROVE  Spec => []OneWriterPerBundle
<1>1. Init => TypeInv /\ LockInv
  BY InitTypeOK, InitLockInv DEF TypeInv, Assigned, Init, InAllocate, HasFile
<1>2. TypeInv /\ LockInv /\ [Next]_vars => TypeInv' /\ LockInv'
  BY NextTypeInv, NextLockInv
<1>3. TypeInv /\ LockInv => OneWriterPerBundle
  BY LockInvOneWriter
<1> QED BY <1>1, <1>2, <1>3, PTL DEF Spec

-----------------------------------------------------------------------------
(***************************************************************************)
(* Integrity of the records                                                *)
(***************************************************************************)
LEMMA InitFileInv == Init => FileInv
BY DEF Init, FileInv, RecordsInFile, WriterAtEnd, AtEnd

\* What a write does to its bundle when the Writer is at the end of it.
LEMMA PutBytesAppends ==
  ASSUME TypeInv, FileInv, NEW t \in Threads, pc[t] = "writer",
         NEW n \in Nat, NEW b \in Method, NEW k \in Nat, PutBytes(t, n, b, k)
  PROVE  LET f == BundleFile(t)
             o == call[t].off
             r == [off |-> o, len |-> n, data |-> writes + 1, by |-> b]
         IN /\ f \in files /\ f \in Files /\ o \in Nat
            /\ \A g \in Files \ {f} : recs'[g] = recs[g] /\ size'[g] = size[g]
            /\ recs'[f] \subseteq recs[f] \cup {r}
            /\ \A s \in recs[f] : Acked(s) => s \in recs'[f]
            /\ kFileHeaderSize + n <= k => r \in recs'[f]
            /\ r \in recs'[f] => r \in recs[f] \/ kFileHeaderSize + n <= k
            /\ size[f] <= size'[f] /\ o + k <= size'[f]
<1> DEFINE f == BundleFile(t)
           o == call[t].off
           r == [off |-> o, len |-> n, data |-> writes + 1, by |-> b]
<1>1. f \in Files /\ o \in Nat
  BY FileOfType DEF TypeInv, TypeOK, Assigned, HasFile, Call, BundleFile
<1>2. f \in files /\ \A s \in recs[f] : End(s) <= o \/ ~Acked(s)
  BY DEF FileInv, WriterAtEnd, AtEnd
<1>3. \A s \in recs[f] : Acked(s) => s \in Surviving(recs[f], o, k)
  BY <1>2 DEF Surviving
<1>4. Surviving(recs[f], o, k) \subseteq recs[f]
  BY DEF Surviving
<1>5. /\ size' = [size EXCEPT ![f] = IF o + k > @ THEN o + k ELSE @]
      /\ recs' = [recs EXCEPT ![f] =
           Surviving(@, o, k) \cup (IF kFileHeaderSize + n <= k THEN {r} ELSE {})]
  BY DEF PutBytes
<1>6. size[f] \in Nat
  BY <1>1 DEF TypeInv, TypeOK
<1>7. size[f] <= size'[f] /\ o + k <= size'[f]
  BY <1>1, <1>5, <1>6 DEF TypeInv, TypeOK
<1>8. recs'[f] = Surviving(recs[f], o, k)
                   \cup (IF kFileHeaderSize + n <= k THEN {r} ELSE {})
  BY <1>1, <1>5 DEF TypeInv, TypeOK
<1>9. \A g \in Files \ {f} : recs'[g] = recs[g] /\ size'[g] = size[g]
  BY <1>5 DEF TypeInv, TypeOK
<1> HIDE DEF f, o, r
<1> QED BY <1>1, <1>2, <1>3, <1>4, <1>7, <1>8, <1>9 DEF f, o, r

NewRecord(t, n, b) == [off |-> call[t].off, len |-> n, data |-> writes + 1, by |-> b]

\* What a call of the static Write does, whatever its outcome.
LEMMA WriteRecordEffect ==
  ASSUME TypeInv, FileInv, NEW t \in Threads, pc[t] = "writer",
         NEW n \in Nat, NEW b \in Method, NEW ret \in {0, 1}, WriteRecord(t, n, b, ret)
  PROVE  LET f == BundleFile(t)
             r == NewRecord(t, n, b)
         IN /\ f \in files /\ f \in Files
            /\ \A g \in Files \ {f} : recs'[g] = recs[g] /\ size'[g] = size[g]
            /\ recs'[f] \subseteq recs[f] \cup {r}
            /\ \A s \in recs[f] : Acked(s) => s \in recs'[f]
            /\ size[f] <= size'[f]
            /\ r \in recs'[f] => End(r) <= size'[f]
            /\ "short" \notin Faults /\ ret = 0 => r \in recs'[f]
<1> DEFINE f == BundleFile(t)
           r == NewRecord(t, n, b)
           o == call[t].off
<1>1. f \in files /\ f \in Files /\ o \in Nat /\ size[f] \in Nat /\ writes \in Nat
  BY FileOfType, StoreAssumption
  DEF TypeInv, TypeOK, Assigned, HasFile, Call, BundleFile, FileInv, WriterAtEnd, AtEnd
<1>2. r \notin recs[f]
  BY <1>1 DEF FileInv, RecordsInFile, NewRecord
<1>3. End(r) = o + kFileHeaderSize + n
  BY DEF End, NewRecord
<1>4. ASSUME NEW k \in Nat, PutBytes(t, n, b, k)
      PROVE  /\ \A g \in Files \ {f} : recs'[g] = recs[g] /\ size'[g] = size[g]
             /\ recs'[f] \subseteq recs[f] \cup {r}
             /\ \A s \in recs[f] : Acked(s) => s \in recs'[f]
             /\ size[f] <= size'[f]
             /\ r \in recs'[f] => End(r) <= size'[f]
             /\ kFileHeaderSize + n <= k => r \in recs'[f]
  <2>1. /\ \A g \in Files \ {f} : recs'[g] = recs[g] /\ size'[g] = size[g]
        /\ recs'[f] \subseteq recs[f] \cup {r}
        /\ \A s \in recs[f] : Acked(s) => s \in recs'[f]
        /\ kFileHeaderSize + n <= k => r \in recs'[f]
        /\ r \in recs'[f] => r \in recs[f] \/ kFileHeaderSize + n <= k
        /\ size[f] <= size'[f] /\ o + k <= size'[f]
    BY <1>4, PutBytesAppends DEF NewRecord
  <2>2. size'[f] \in Nat
    BY <1>1, <1>4, PutBytesType DEF TypeInv, Assigned, HasFile
  <2>3. r \in recs'[f] => End(r) <= size'[f]
    <3> HIDE DEF f, r, o
    <3> QED BY <1>1, <1>2, <1>3, <2>1, <2>2 DEF kFileHeaderSize
  <2> QED BY <2>1, <2>3
<1>5. CASE ret = 0 /\ PutBytes(t, n, b, RecordSize(n))
  BY <1>1, <1>4, <1>5, RecordSizeBounds
<1>6. CASE "short" \in Faults /\ \E k \in Shorts : PutBytes(t, n, b, k)
  BY <1>1, <1>4, <1>6, StoreAssumption
<1>7. CASE ret = 1 /\ UNCHANGED <<size, recs>>
  BY <1>1, <1>2, <1>7
<1> QED BY <1>5, <1>6, <1>7 DEF WriteRecord

\* A write keeps the records in their files, acknowledges no other record,
\* and leaves its own unacknowledged when it reports failure.
LEMMA WriteRecordInv ==
  ASSUME TypeInv, FileInv, NEW t \in Threads, pc[t] = "writer",
         NEW n \in Nat, NEW b \in Method, NEW ret \in {0, 1}, WriteRecord(t, n, b, ret)
  PROVE  /\ RecordsInFile'
         /\ \A g \in Files : \A s \in recs[g] : ~Acked(s) => ~(Acked(s))'
         /\ ret # 0 => \A a \in acked' : a[2] # writes + 1
<1> DEFINE f == BundleFile(t)
           r == NewRecord(t, n, b)
<1>1. /\ f \in files /\ f \in Files
      /\ \A g \in Files \ {f} : recs'[g] = recs[g] /\ size'[g] = size[g]
      /\ recs'[f] \subseteq recs[f] \cup {r}
      /\ size[f] <= size'[f]
      /\ r \in recs'[f] => End(r) <= size'[f]
  BY WriteRecordEffect
<1>2. /\ writes \in Nat /\ writes' = writes + 1 /\ files' = files
      /\ acked' = IF ret = 0 THEN acked \cup {<<UrlOf(t, n), writes + 1>>} ELSE acked
  BY StoreAssumption DEF WriteRecord, TypeInv, TypeOK
<1>3. r.data = writes + 1
  BY DEF NewRecord
<1>4. \A a \in acked' : a[2] \in Nat /\ a[2] <= writes'
  BY <1>2 DEF FileInv, RecordsInFile, TypeInv, TypeOK
<1>5. ASSUME NEW g \in Files, NEW s \in recs[g]
      PROVE  s \in Record /\ s.data <= writes /\ End(s) \in Nat /\ End(s) <= size[g]
  <2>1. s \in Record
    BY DEF TypeInv, TypeOK
  <2> QED BY <2>1 DEF FileInv, RecordsInFile, Record, End, kFileHeaderSize
<1>6. \A g \in Files : \A s \in recs[g] : ~Acked(s) => ~(Acked(s))'
  <2> SUFFICES ASSUME NEW g \in Files, NEW s \in recs[g], ~Acked(s) PROVE ~(Acked(s))'
    OBVIOUS
  <2>1. s.data \in Nat /\ s.data <= writes
    BY <1>5 DEF Record
  <2> QED BY <1>2, <2>1 DEF Acked
<1>7. ret # 0 => \A a \in acked' : a[2] # writes + 1
  <2>1. \A a \in acked : a[2] \in Nat /\ a[2] <= writes
    BY DEF FileInv, RecordsInFile, TypeInv, TypeOK
  <2> QED BY <1>2, <2>1
<1>8. ASSUME NEW g \in Files
      PROVE  /\ g \notin files' => recs'[g] = {} /\ size'[g] = 0
             /\ \A s \in recs'[g] : End(s) <= size'[g] /\ s.data <= writes'
  <2>1. CASE g # f
    BY <1>1, <1>2, <1>5, <2>1 DEF FileInv, RecordsInFile, Record
  <2>2. CASE g = f
    <3>1. size[f] \in Nat /\ size'[f] \in Nat
      <4>1. PICK k \in Nat : PutBytes(t, n, b, k) \/ UNCHANGED size
        BY RecordSizeBounds, StoreAssumption DEF WriteRecord
      <4> QED BY <1>1, <4>1, PutBytesType DEF TypeInv, TypeOK, Assigned, HasFile
    <3> HIDE DEF f, r
    <3> QED BY <1>1, <1>2, <1>3, <1>5, <2>2, <3>1 DEF Record
  <2> QED BY <2>1, <2>2
<1> QED BY <1>4, <1>6, <1>7, <1>8 DEF RecordsInFile

\* A step keeps AtEnd of a thread whose locals and bundle it leaves alone.
LEMMA AtEndKept ==
  ASSUME NEW u \in Threads, AtEnd(u), pc'[u] = pc[u], call'[u] = call[u],
         HasFile(u) => LET f == BundleFile(u)
                       IN /\ f \in files <=> f \in files'
                          /\ recs'[f] = recs[f] /\ size'[f] = size[f]
                          /\ \A r \in recs[f] : ~Acked(r) => ~(Acked(r))'
  PROVE  AtEnd(u)'
BY DEF AtEnd, BundleFile, HasFile

\* A step that writes no record and no bundle keeps RecordsInFile.
LEMMA RecordsKept ==
  ASSUME FileInv, UNCHANGED <<files, size, recs, writes, acked>>
  PROVE  RecordsInFile'
BY DEF FileInv, RecordsInFile

\* Other threads are not disturbed by what a thread does to its own bundle.
LEMMA OthersAtEnd ==
  ASSUME TypeInv, LockInv, FileInv, NEW t \in Threads,
         \A u \in Threads \ {t} : pc'[u] = pc[u] /\ call'[u] = call[u],
         HasFile(t) \/ UNCHANGED <<files, size, recs>>,
         \A g \in Files \ {BundleFile(t)} :
           (g \in files <=> g \in files') /\ recs'[g] = recs[g] /\ size'[g] = size[g],
         \A g \in Files : \A s \in recs[g] : ~Acked(s) => ~(Acked(s))'
  PROVE  \A u \in Threads \ {t} : AtEnd(u)'
<1> SUFFICES ASSUME NEW u \in Threads \ {t} PROVE AtEnd(u)'
  OBVIOUS
<1> DEFINE f == BundleFile(u)
<1>1. AtEnd(u)
  BY DEF FileInv, WriterAtEnd
<1>2. HasFile(u) => f \in Files
  BY FileOfType DEF TypeInv, TypeOK, Assigned, Call, BundleFile
<1>3. HasFile(u) /\ HasFile(t) => f # BundleFile(t)
  BY LockInvOneWriter DEF OneWriterPerBundle
<1>4. HasFile(u) => /\ f \in files <=> f \in files'
                    /\ recs'[f] = recs[f] /\ size'[f] = size[f]
                    /\ \A r \in recs[f] : ~Acked(r) => ~(Acked(r))'
  <2> HIDE DEF f
  <2> QED BY <1>2, <1>3
<1> QED BY <1>1, <1>4, AtEndKept

LEMMA NextFileInv ==
  ASSUME SingleThreaded, TypeInv, TypeInv', LockInv, LockInv', FileInv, [Next]_vars
  PROVE  FileInv'
<1>1. ASSUME NEW t \in Threads, UNCHANGED <<files, size, recs, writes, acked>>,
             \A u \in Threads \ {t} : pc'[u] = pc[u] /\ call'[u] = call[u], AtEnd(t)'
      PROVE  FileInv'
  <2>1. \A u \in Threads \ {t} : AtEnd(u)'
    BY <1>1, OthersAtEnd DEF Acked
  <2> QED BY <1>1, <2>1, RecordsKept DEF FileInv, WriterAtEnd
<1>2. ASSUME NEW t \in Threads, UNCHANGED <<files, size, recs, writes, acked>>,
             \A u \in Threads \ {t} : pc'[u] = pc[u] /\ call'[u] = call[u],
             pc'[t] \in {"idle", "loop", "lockdir", "retry", "stat", "written"}
      PROVE  FileInv'
  BY <1>1, <1>2 DEF AtEnd
<1>3. ASSUME NEW t \in Threads, NEW x \in Prefixes, NEW n \in Sizes, Allocate(t, x, n)
      PROVE  FileInv'
  BY <1>2, <1>3 DEF Allocate, Goto, TypeInv, TypeOK, disk
<1>4. ASSUME NEW t \in Threads, TryLock(t) PROVE FileInv'
  BY <1>2, <1>4 DEF TryLock, Goto, TypeInv, TypeOK
<1>5. ASSUME NEW t \in Threads, CheckLockDir(t) PROVE FileInv'
  BY <1>2, <1>5 DEF CheckLockDir, Return, Goto, TypeInv, TypeOK
<1>6. ASSUME NEW t \in Threads, TryLockAgain(t) PROVE FileInv'
  BY <1>2, <1>6 DEF TryLockAgain, Goto, TypeInv, TypeOK
<1>7. ASSUME NEW t \in Threads, Stat(t) PROVE FileInv'
  <2> DEFINE i == last_id[ProcOf[t]]
             f == FileOf(call[t].prefix, i)
             w == [call[t] EXCEPT !.bid = i, !.id = i, !.off = size[f]]
             c == [call[t] EXCEPT !.bid = i]
  <2>1. /\ pc[t] = "stat" /\ call[t] \in Call /\ i \in Ids /\ f \in Files
        /\ UNCHANGED <<files, size, recs, writes, acked>>
        /\ \A u \in Threads \ {t} : pc'[u] = pc[u] /\ call'[u] = call[u]
    BY <1>7, FileOfType
    DEF Stat, Goto, TypeInv, TypeOK, Assigned, InAllocate, Call, LockInv, LastIdIsLock
  <2>2. CASE Goto(t, "loop")
    BY <1>2, <2>1, <2>2 DEF Goto, TypeInv, TypeOK
  <2>3. CASE /\ f \in files /\ ~Full(f, call[t].want)
             /\ call' = [call EXCEPT ![t] = w] /\ Goto(t, "writer")
    <3>1. /\ w.prefix = call[t].prefix /\ w.bid = i /\ w.off = size[f]
          /\ w.want = call[t].want
      BY <2>1 DEF Call
    <3>2. size[f] \in Nat /\ call[t].want \in Nat /\ max_bundle_size \in Nat
      BY <2>1, StoreAssumption DEF TypeInv, TypeOK, Call
    <3>3. size[f] + RecordSize(call[t].want) <= max_bundle_size
      BY <2>3, <3>2, RecordSizeBounds DEF Full
    <3>4. call'[t] = w /\ pc'[t] = "writer"
      BY <2>3 DEF Goto, TypeInv, TypeOK
    <3>5. \A r \in recs[f] : End(r) <= size[f]
      BY <2>1 DEF FileInv, RecordsInFile
    <3>6. BundleFile(t)' = f
      BY <3>1, <3>4 DEF BundleFile
    <3> HIDE DEF w, f, i
    <3>7. AtEnd(t)'
      BY <2>1, <2>3, <3>1, <3>3, <3>4, <3>5, <3>6 DEF AtEnd
    <3> QED BY <1>1, <2>1, <3>7
  <2>4. CASE /\ f \notin files /\ call' = [call EXCEPT ![t] = c] /\ Goto(t, "parent")
    <3>1. c.prefix = call[t].prefix /\ c.bid = i
      BY <2>1 DEF Call
    <3>2. call'[t] = c /\ pc'[t] = "parent"
      BY <2>4 DEF Goto, TypeInv, TypeOK
    <3>3. BundleFile(t)' = f
      BY <3>1, <3>2 DEF BundleFile
    <3> HIDE DEF c, f, i
    <3>4. AtEnd(t)'
      BY <2>1, <2>4, <3>2, <3>3 DEF AtEnd
    <3> QED BY <1>1, <2>1, <3>4
  <2> QED BY <1>7, <2>2, <2>3, <2>4 DEF Stat
<1>8. ASSUME NEW t \in Threads, MakeParent(t) PROVE FileInv'
  <2>1. CASE Goto(t, "create") /\ UNCHANGED call
    <3>1. AtEnd(t)'
      BY <1>8, <2>1 DEF MakeParent, Goto, AtEnd, BundleFile, FileInv, WriterAtEnd, TypeInv, TypeOK
    <3> QED BY <1>1, <1>8, <2>1, <3>1 DEF MakeParent, Goto, TypeInv, TypeOK
  <2>2. CASE Return(t)
    BY <1>2, <1>8, <2>2 DEF MakeParent, Return, Goto, TypeInv, TypeOK
  <2> QED BY <1>8, <2>1, <2>2 DEF MakeParent
<1>9. ASSUME NEW t \in Threads, CreateBundle(t) PROVE FileInv'
  <2> DEFINE f == BundleFile(t)
  <2>1. CASE /\ files' = files \cup {f}
             /\ size' = [size EXCEPT ![f] = 0] /\ recs' = [recs EXCEPT ![f] = {}]
             /\ Goto(t, "bheader") /\ UNCHANGED <<call, writes, acked>>
    <3>1. f \in Files /\ HasFile(t) /\ pc'[t] = "bheader" /\ BundleFile(t)' = f
      BY <1>9, <2>1, FileOfType
      DEF CreateBundle, HasFile, Goto, TypeInv, TypeOK, Assigned, Call, BundleFile
    <3>2. /\ size'[f] = 0 /\ recs'[f] = {} /\ f \in files'
          /\ \A g \in Files \ {f} :
               (g \in files <=> g \in files') /\ recs'[g] = recs[g] /\ size'[g] = size[g]
      BY <2>1, <3>1 DEF TypeInv, TypeOK
    <3>3. AtEnd(t)'
      BY <3>1, <3>2 DEF AtEnd
    <3>4. \A u \in Threads \ {t} : AtEnd(u)'
      BY <2>1, <3>1, <3>2, OthersAtEnd DEF Goto, Acked, TypeInv, TypeOK
    <3>5. RecordsInFile'
      <4> HIDE DEF f
      <4> QED BY <2>1, <3>1, <3>2 DEF FileInv, RecordsInFile
    <3> QED BY <3>3, <3>4, <3>5 DEF FileInv, WriterAtEnd
  <2>2. CASE Return(t) /\ UNCHANGED <<files, size, recs, writes, acked>>
    BY <1>2, <2>2 DEF Return, Goto, TypeInv, TypeOK
  <2> QED BY <1>9, <2>1, <2>2 DEF CreateBundle
<1>10. ASSUME NEW t \in Threads, WriteBundleHeader(t) PROVE FileInv'
  <2> DEFINE f == BundleFile(t)
             w == [call[t] EXCEPT !.id = last_id[ProcOf[t]], !.off = kBundleHeaderSize]
  <2>1. /\ f \in Files /\ HasFile(t) /\ pc[t] = "bheader" /\ call[t] \in Call
        /\ f \in files /\ recs[f] = {} /\ size[f] = 0
        /\ UNCHANGED <<files, recs, writes, acked>>
    BY <1>10, FileOfType
    DEF WriteBundleHeader, HasFile, TypeInv, TypeOK, Assigned, Call, BundleFile,
        FileInv, WriterAtEnd, AtEnd
  <2>2. \A g \in Files \ {f} : size'[g] = size[g]
    BY <1>10 DEF WriteBundleHeader, TypeInv, TypeOK
  <2>3. RecordsInFile'
    <3> HIDE DEF f
    <3> QED BY <2>1, <2>2 DEF FileInv, RecordsInFile
  <2>4. \A u \in Threads \ {t} : pc'[u] = pc[u] /\ call'[u] = call[u]
    BY <1>10 DEF WriteBundleHeader, Return, Goto, TypeInv, TypeOK
  <2>5. \A u \in Threads \ {t} : AtEnd(u)'
    BY <2>1, <2>2, <2>4, OthersAtEnd DEF Acked
  <2>6. CASE call' = [call EXCEPT ![t] = w] /\ Goto(t, "writer")
    <3>1. /\ w.prefix = call[t].prefix /\ w.bid = call[t].bid
          /\ w.off = kBundleHeaderSize
      BY <2>1 DEF Call
    <3>2. call'[t] = w /\ pc'[t] = "writer"
      BY <2>6 DEF Goto, TypeInv, TypeOK
    <3> HIDE DEF w
    <3>3. BundleFile(t)' = f
      BY <3>1, <3>2 DEF BundleFile
    <3> HIDE DEF f
    <3>4. AtEnd(t)'
      BY <2>1, <3>1, <3>2, <3>3 DEF AtEnd
    <3> QED BY <2>3, <2>5, <3>4 DEF FileInv, WriterAtEnd
  <2>7. CASE Return(t)
    <3>1. AtEnd(t)'
      BY <2>7 DEF Return, Goto, AtEnd, TypeInv, TypeOK
    <3> QED BY <2>3, <2>5, <3>1 DEF FileInv, WriterAtEnd
  <2> QED BY <1>10, <2>6, <2>7 DEF WriteBundleHeader
<1>11. ASSUME NEW t \in Threads, Write(t) PROVE FileInv'
  <2>1. PICK ret \in {0, 1} : WriteRecord(t, call[t].want, "Write", ret)
    BY <1>11 DEF Write
  <2>2. /\ pc[t] = "writer" /\ HasFile(t) /\ call[t].want \in Nat /\ "Write" \in Method
        /\ files' = files /\ pc' = [pc EXCEPT ![t] = "written"] /\ call' = call
    BY <1>11, <2>1 DEF Write, WriteRecord, Goto, HasFile, TypeInv, TypeOK, Call, Method
  <2>3. /\ RecordsInFile'
        /\ \A g \in Files : \A s \in recs[g] : ~Acked(s) => ~(Acked(s))'
    BY <2>1, <2>2, WriteRecordInv
  <2>4. \A g \in Files \ {BundleFile(t)} : recs'[g] = recs[g] /\ size'[g] = size[g]
    BY <2>1, <2>2, WriteRecordEffect
  <2>5. \A u \in Threads \ {t} : AtEnd(u)'
    BY <2>2, <2>3, <2>4, OthersAtEnd DEF TypeInv, TypeOK
  <2>6. AtEnd(t)'
    BY <2>2 DEF AtEnd, TypeInv, TypeOK
  <2> QED BY <2>3, <2>5, <2>6 DEF FileInv, WriterAtEnd
<1>12. ASSUME NEW t \in Threads, NEW n \in Sizes, BatchWrite(t, n) PROVE FileInv'
  <2>1. PICK ret \in {0, 1} :
          /\ WriteRecord(t, n, "BatchWrite", ret)
          /\ call' = [call EXCEPT ![t] =
               [@ EXCEPT !.want = n, !.by = "BatchWrite", !.off = NextOffset(t, n, ret)]]
    BY <1>12 DEF BatchWrite
  <2> DEFINE f == BundleFile(t)
             o == call[t].off
             r == NewRecord(t, n, "BatchWrite")
             w == [call[t] EXCEPT !.want = n, !.by = "BatchWrite",
                                  !.off = NextOffset(t, n, ret)]
  <2>2. /\ pc[t] = "writer" /\ HasFile(t) /\ n \in Nat /\ "BatchWrite" \in Method
        /\ files' = files /\ pc' = pc /\ call[t] \in Call /\ o \in Nat
    BY <1>12, <2>1, StoreAssumption
    DEF BatchWrite, WriteRecord, HasFile, TypeInv, TypeOK, Call, Method
  <2>3. /\ RecordsInFile'
        /\ \A g \in Files : \A s \in recs[g] : ~Acked(s) => ~(Acked(s))'
        /\ ret # 0 => \A a \in acked' : a[2] # writes + 1
    BY <2>1, <2>2, WriteRecordInv
  <2>4. /\ \A g \in Files \ {f} : recs'[g] = recs[g] /\ size'[g] = size[g]
        /\ f \in files /\ f \in Files /\ recs'[f] \subseteq recs[f] \cup {r}
    BY <2>1, <2>2, WriteRecordEffect
  <2>5. /\ w.prefix = call[t].prefix /\ w.bid = call[t].bid
        /\ w.by = "BatchWrite" /\ w.off = NextOffset(t, n, ret)
    BY <2>2 DEF Call
  <2>6. call' = [call EXCEPT ![t] = w] /\ call'[t] = w
    BY <2>1 DEF TypeInv, TypeOK
  <2> HIDE DEF w
  <2>7. \A u \in Threads \ {t} : AtEnd(u)'
    BY <2>2, <2>3, <2>4, <2>6, OthersAtEnd DEF TypeInv, TypeOK
  <2>8. BundleFile(t)' = f
    BY <2>5, <2>6 DEF BundleFile
  <2>9. /\ RecordSize(n) \in Nat /\ End(r) = o + kFileHeaderSize + n
        /\ kFileHeaderSize + n <= RecordSize(n) /\ r.data = writes + 1
    BY <2>2, RecordSizeBounds DEF End, NewRecord
  <2>10. /\ w.off \in Nat /\ o <= w.off
         /\ ret = 0 => End(r) <= w.off
         /\ ret # 0 => ~\E a \in acked' : a[2] = r.data
    <3> HIDE DEF o, r
    <3>1. NextOffset(t, n, ret) = IF ret = 0 THEN o + RecordSize(n) ELSE o
      BY DEF NextOffset, o
    <3> QED BY <2>2, <2>3, <2>5, <2>9, <3>1 DEF kFileHeaderSize
  <2>11. ASSUME NEW s \in recs'[f]
         PROVE  End(s) <= w.off \/ ~(Acked(s))'
    <3>1. CASE s \in recs[f]
      <4>1. End(s) <= o \/ ~Acked(s)
        BY <2>2, <3>1 DEF FileInv, WriterAtEnd, AtEnd
      <4>2. End(s) \in Nat
        BY <2>4, <3>1 DEF TypeInv, TypeOK, Record, End, kFileHeaderSize
      <4> HIDE DEF o, f
      <4> QED BY <2>2, <2>3, <2>4, <2>10, <3>1, <4>1, <4>2
    <3>2. CASE s = r
      BY <2>1, <2>10, <3>2 DEF Acked
    <3> QED BY <2>4, <3>1, <3>2
  <2>12. AtEnd(t)'
    <3> HIDE DEF f
    <3> QED BY <2>2, <2>4, <2>5, <2>6, <2>8, <2>11 DEF AtEnd
  <2> QED BY <2>3, <2>7, <2>12 DEF FileInv, WriterAtEnd
<1>13. ASSUME NEW t \in Threads, Release(t) \/ Lose(t) PROVE FileInv'
  BY <1>2, <1>13 DEF Release, Lose, disk, Return, Goto, TypeInv, TypeOK
<1>14. ASSUME NEW p \in Procs, Crash(p) PROVE FileInv'
  BY <1>14 DEF Crash, disk, FileInv, RecordsInFile, WriterAtEnd, AtEnd, BundleFile,
     Acked, TypeInv, TypeOK
<1>15. CASE UNCHANGED vars
  BY <1>15 DEF vars, disk, local, FileInv, RecordsInFile, WriterAtEnd, AtEnd, BundleFile, Acked
<1> QED
  BY <1>3, <1>4, <1>5, <1>6, <1>7, <1>8, <1>9, <1>10, <1>11, <1>12, <1>13, <1>14, <1>15
  DEF Next, AllocateStep

LEMMA InitInv == Init => TypeInv /\ LockInv /\ FileInv
BY InitTypeOK, InitLockInv, InitFileInv DEF TypeInv, Assigned, Init, InAllocate, HasFile

\* The only steps that touch the records of a bundle: the truncation of a
\* bundle nobody has written, and a write at the end of one.
LEMMA StepRecords ==
  ASSUME SingleThreaded, TypeInv, LockInv, FileInv, Next
  PROVE  \/ UNCHANGED <<files, size, recs, acked>>
         \/ \E t \in Threads :
              /\ BundleFile(t) \in Files /\ recs[BundleFile(t)] = {} /\ size[BundleFile(t)] = 0
              /\ \A g \in Files : recs'[g] = recs[g] /\ size[g] <= size'[g]
              /\ files \subseteq files' /\ UNCHANGED acked
         \/ \E t \in Threads, ret \in {0, 1} :
              /\ pc[t] = "writer"
              /\ \/ call[t].by = "Write" /\ WriteRecord(t, call[t].want, "Write", ret)
                 \/ \E n \in Sizes : WriteRecord(t, n, "BatchWrite", ret)
<1>1. ASSUME NEW t \in Threads, Write(t) \/ \E n \in Sizes : BatchWrite(t, n)
      PROVE  \E ret \in {0, 1} :
              /\ pc[t] = "writer"
              /\ \/ call[t].by = "Write" /\ WriteRecord(t, call[t].want, "Write", ret)
                 \/ \E n \in Sizes : WriteRecord(t, n, "BatchWrite", ret)
  BY <1>1 DEF Write, BatchWrite
<1>2. ASSUME NEW t \in Threads, CreateBundle(t) \/ WriteBundleHeader(t)
      PROVE  \/ UNCHANGED <<files, size, recs, acked>>
             \/ /\ BundleFile(t) \in Files /\ recs[BundleFile(t)] = {} /\ size[BundleFile(t)] = 0
                /\ \A g \in Files : recs'[g] = recs[g] /\ size[g] <= size'[g]
                /\ files \subseteq files' /\ UNCHANGED acked
  <2> DEFINE f == BundleFile(t)
  <2>1. f \in Files
    BY <1>2, FileOfType
    DEF CreateBundle, WriteBundleHeader, HasFile, TypeInv, TypeOK, Assigned, Call, BundleFile
  <2>2. recs[f] = {} /\ size[f] = 0
    BY <1>2, <2>1
    DEF CreateBundle, WriteBundleHeader, FileInv, RecordsInFile, WriterAtEnd, AtEnd
  <2>3. CASE CreateBundle(t)
    <3>1. CASE /\ files' = files \cup {f} /\ UNCHANGED acked
               /\ size' = [size EXCEPT ![f] = 0] /\ recs' = [recs EXCEPT ![f] = {}]
      <4>1. \A g \in Files : recs'[g] = recs[g] /\ size[g] <= size'[g]
        <5> HIDE DEF f
        <5> QED BY <2>1, <2>2, <3>1 DEF TypeInv, TypeOK
      <4> QED BY <2>1, <2>2, <3>1, <4>1
    <3> QED BY <2>3, <3>1 DEF CreateBundle
  <2>4. CASE WriteBundleHeader(t)
    <3>1. UNCHANGED <<files, recs, acked>>
      BY <2>4 DEF WriteBundleHeader
    <3>2. PICK k \in Nat : size' = [size EXCEPT ![f] = k]
      BY <2>4, StoreAssumption DEF WriteBundleHeader, kBundleHeaderSize
    <3>3. \A g \in Files : size[g] <= size'[g]
      <4> HIDE DEF f
      <4> QED BY <2>1, <2>2, <3>2 DEF TypeInv, TypeOK
    <3> QED BY <2>1, <2>2, <3>1, <3>3
  <2> QED BY <1>2, <2>3, <2>4
<1>3. ASSUME NEW t \in Threads,
             \/ \E x \in Prefixes, n \in Sizes : Allocate(t, x, n)
             \/ TryLock(t) \/ CheckLockDir(t) \/ TryLockAgain(t) \/ Stat(t)
             \/ MakeParent(t) \/ Release(t) \/ Lose(t)
      PROVE  UNCHANGED <<files, size, recs, acked>>
  BY <1>3 DEF Allocate, TryLock, CheckLockDir, TryLockAgain, Stat, MakeParent, Release, Lose, disk
<1>4. ASSUME NEW p \in Procs, Crash(p)
      PROVE  UNCHANGED <<files, size, recs, acked>>
  BY <1>4 DEF Crash, disk
<1> QED BY <1>1, <1>2, <1>3, <1>4 DEF Next, AllocateStep

LEMMA StepAppends ==
  ASSUME SingleThreaded, TypeInv, LockInv, FileInv, [Next]_vars
  PROVE  KeepsAcked
<1>1. CASE UNCHANGED <<files, size, recs, acked>>
  BY <1>1 DEF KeepsAcked, TypeInv, TypeOK
<1>2. ASSUME NEW t \in Threads,
             \A g \in Files : recs'[g] = recs[g] /\ size[g] <= size'[g],
             files \subseteq files'
      PROVE  KeepsAcked
  BY <1>2 DEF KeepsAcked
<1>3. ASSUME NEW t \in Threads, pc[t] = "writer", NEW n \in Nat, NEW b \in Method,
             NEW ret \in {0, 1}, WriteRecord(t, n, b, ret)
      PROVE  KeepsAcked
  <2> DEFINE f == BundleFile(t)
  <2>1. /\ f \in files /\ f \in Files
        /\ \A g \in Files \ {f} : recs'[g] = recs[g] /\ size'[g] = size[g]
        /\ \A s \in recs[f] : Acked(s) => s \in recs'[f]
        /\ size[f] <= size'[f]
    BY <1>3, WriteRecordEffect
  <2>2. files' = files /\ \A g \in Files : size[g] <= size[g]
    BY <1>3 DEF WriteRecord, TypeInv, TypeOK
  <2> HIDE DEF f
  <2> QED BY <2>1, <2>2 DEF KeepsAcked
<1>4. \A t \in Threads : call[t].want \in Nat
  BY DEF TypeInv, TypeOK, Call
<1>5. CASE Next
  BY <1>1, <1>2, <1>3, <1>4, <1>5, StepRecords, StoreAssumption DEF Method
<1>6. CASE UNCHANGED vars
  BY <1>1, <1>6 DEF vars, disk
<1> QED BY <1>5, <1>6

(***************************************************************************)
(* With one thread in each process, bundle files are append-only: no step  *)
(* of any process, failing or not, damages a record that was acknowledged, *)
(* shrinks a bundle file or removes one.                                   *)
(***************************************************************************)
THEOREM BundlesAppendOnly ==
  ASSUME SingleThreaded
  PROVE  Spec => AppendOnly
<1>1. Init => TypeInv /\ LockInv /\ FileInv
  BY InitInv
<1>2. TypeInv /\ LockInv /\ FileInv /\ [Next]_vars => TypeInv' /\ LockInv' /\ FileInv'
  BY NextTypeInv, NextLockInv, NextFileInv
<1>3. TypeInv /\ LockInv /\ FileInv /\ [Next]_vars => [KeepsAcked]_vars
  BY StepAppends
<1> QED BY <1>1, <1>2, <1>3, PTL DEF Spec, AppendOnly

LEMMA StepReadable ==
  ASSUME SingleThreaded, "short" \notin Faults,
         TypeInv, LockInv, FileInv, AckedReadable, [Next]_vars
  PROVE  AckedReadable'
<1>1. ASSUME NEW a \in acked PROVE (Reads(a[1], a[2]))'
  <2> DEFINE f == FileOf(a[1].prefix, a[1].id)
  <2>1. f \in files /\ f \in Files
    BY DEF AckedReadable, Reads, TypeInv, TypeOK
  <2>2. PICK r \in recs[f] : r.off = a[1].off /\ a[1].size <= r.len /\ r.data = a[2]
    BY DEF AckedReadable, Reads
  <2>3. r \in recs'[f] /\ f \in files'
    BY <2>1, <2>2, StepAppends DEF KeepsAcked, Acked
  <2> QED BY <2>2, <2>3 DEF Reads
<1>2. ASSUME NEW t \in Threads, pc[t] = "writer", NEW n \in Nat, NEW b \in Method,
             NEW ret \in {0, 1}, WriteRecord(t, n, b, ret)
      PROVE  AckedReadable'
  <2> DEFINE f == BundleFile(t)
             r == NewRecord(t, n, b)
             u == UrlOf(t, n)
  <2>1. /\ f \in files /\ files' = files
        /\ ret = 0 => r \in recs'[f]
        /\ acked' = IF ret = 0 THEN acked \cup {<<u, writes + 1>>} ELSE acked
    BY <1>2, WriteRecordEffect DEF WriteRecord
  <2>2. FileOf(u.prefix, u.id) = f /\ u.off = call[t].off /\ u.size = n
    BY <1>2 DEF LockInv, LockedNow, Locked, HasFile, UrlOf, BundleFile
  <2>3. r.off = call[t].off /\ r.len = n /\ r.data = writes + 1
    BY DEF NewRecord
  <2>4. ASSUME NEW a \in acked' PROVE (Reads(a[1], a[2]))'
    <3>1. CASE ret = 0 /\ a = <<u, writes + 1>>
      <4>1. /\ FileOf(a[1].prefix, a[1].id) = f /\ a[1].off = r.off /\ a[1].size = r.len
            /\ a[2] = r.data /\ r.len <= r.len
        BY <1>2, <2>2, <2>3, <3>1
      <4> HIDE DEF f, r
      <4> QED BY <2>1, <3>1, <4>1 DEF Reads
    <3> QED BY <1>1, <2>1, <2>4, <3>1
  <2> QED BY <2>4 DEF AckedReadable
<1>3. CASE acked' = acked
  BY <1>1, <1>3 DEF AckedReadable
<1>4. \A t \in Threads : call[t].want \in Nat
  BY DEF TypeInv, TypeOK, Call
<1>5. CASE Next
  BY <1>2, <1>3, <1>4, <1>5, StepRecords, StoreAssumption DEF Method
<1>6. CASE UNCHANGED vars
  BY <1>3, <1>6 DEF vars
<1> QED BY <1>5, <1>6

(***************************************************************************)
(* With one thread in each process and a write() that is all or nothing,   *)
(* every acknowledged write is readable under its url for ever, across     *)
(* failures of every other system call and crashes of the processes.       *)
(***************************************************************************)
THEOREM AcknowledgedIsDurable ==
  ASSUME SingleThreaded, "short" \notin Faults
  PROVE  Spec => []AckedReadable
<1>1. Init => TypeInv /\ LockInv /\ FileInv /\ AckedReadable
  BY InitInv DEF Init, AckedReadable
<1>2. TypeInv /\ LockInv /\ FileInv /\ AckedReadable /\ [Next]_vars
        => TypeInv' /\ LockInv' /\ FileInv' /\ AckedReadable'
  BY NextTypeInv, NextLockInv, NextFileInv, StepReadable
<1> QED BY <1>1, <1>2, PTL DEF Spec

-----------------------------------------------------------------------------
LEMMA StepCapacity ==
  ASSUME SingleThreaded, TypeInv, LockInv, FileInv, CapacityRespected, [Next]_vars
  PROVE  CapacityRespected'
<1>1. CASE UNCHANGED recs \/ \A g \in Files : recs'[g] = recs[g]
  BY <1>1 DEF CapacityRespected
<1>2. ASSUME NEW t \in Threads, pc[t] = "writer", NEW n \in Nat, NEW b \in Method,
             NEW ret \in {0, 1}, WriteRecord(t, n, b, ret),
             b = "BatchWrite" \/ (call[t].by = "Write" /\ n = call[t].want)
      PROVE  CapacityRespected'
  <2> DEFINE f == BundleFile(t)
             r == NewRecord(t, n, b)
  <2>1. /\ f \in files /\ f \in Files
        /\ \A g \in Files \ {f} : recs'[g] = recs[g]
        /\ recs'[f] \subseteq recs[f] \cup {r}
    BY <1>2, WriteRecordEffect
  <2>2. \/ r.off = kBundleHeaderSize \/ r.by = "BatchWrite"
        \/ r.off + RecordSize(r.len) <= max_bundle_size
    BY <1>2 DEF FileInv, WriterAtEnd, AtEnd, NewRecord
  <2> HIDE DEF f, r
  <2> QED BY <2>1, <2>2 DEF CapacityRespected
<1>3. \A t \in Threads : call[t].want \in Nat
  BY DEF TypeInv, TypeOK, Call
<1>4. CASE Next
  BY <1>1, <1>2, <1>3, <1>4, StepRecords, StoreAssumption DEF Method
<1>5. CASE UNCHANGED vars
  BY <1>1, <1>5 DEF vars, disk
<1> QED BY <1>4, <1>5

(***************************************************************************)
(* With one thread in each process, a record that is neither the first of  *)
(* its bundle nor part of a batch ends within max_bundle_size.             *)
(***************************************************************************)
THEOREM BundlesBounded ==
  ASSUME SingleThreaded
  PROVE  Spec => []CapacityRespected
<1>1. Init => TypeInv /\ LockInv /\ FileInv /\ CapacityRespected
  BY InitInv DEF Init, CapacityRespected
<1>2. TypeInv /\ LockInv /\ FileInv /\ CapacityRespected /\ [Next]_vars
        => TypeInv' /\ LockInv' /\ FileInv' /\ CapacityRespected'
  BY NextTypeInv, NextLockInv, NextFileInv, StepCapacity
<1> QED BY <1>1, <1>2, PTL DEF Spec

-----------------------------------------------------------------------------
LEMMA StepAccounted ==
  ASSUME TypeInv, LocksAccountedFor, [Next]_vars
  PROVE  LocksAccountedFor'
<1> USE DEF LocksAccountedFor, Locked, Goto, Return
<1>0. TypeOK
  BY DEF TypeInv
<1>1. ASSUME NEW t \in Threads, NEW x \in Prefixes, NEW n \in Sizes, Allocate(t, x, n)
      PROVE  LocksAccountedFor'
  BY <1>0, <1>1 DEF Allocate, TypeOK, disk
<1>2. ASSUME NEW t \in Threads, TryLock(t) PROVE LocksAccountedFor'
  <2> DEFINE n == call[t].loop_count
             lc == IF n > bundle_count_per_day THEN n ELSE n + 1
  <2>1. PICK i \in Ids :
          /\ pc[t] = "loop"
          /\ call' = [call EXCEPT ![t] = [@ EXCEPT !.loop_count = lc, !.lock = i]]
          /\ \/ LockSucceeds(i) /\ Goto(t, "stat")
             \/ Goto(t, "lockdir") /\ UNCHANGED locks
          /\ UNCHANGED orphans
    BY <1>2 DEF TryLock
  <2>2. call'[t].lock = i /\ \A u \in Threads \ {t} : pc'[u] = pc[u] /\ call'[u] = call[u]
    BY <1>0, <2>1 DEF TypeOK, Call
  <2> HIDE DEF lc
  <2> QED BY <1>0, <2>1, <2>2 DEF LockSucceeds, TypeOK
<1>3. ASSUME NEW t \in Threads, CheckLockDir(t) PROVE LocksAccountedFor'
  BY <1>0, <1>3 DEF CheckLockDir, TypeOK
<1>4. ASSUME NEW t \in Threads, TryLockAgain(t) PROVE LocksAccountedFor'
  BY <1>0, <1>4 DEF TryLockAgain, LockSucceeds, TypeOK
<1>5. ASSUME NEW t \in Threads, Stat(t) PROVE LocksAccountedFor'
  <2>1. CASE Goto(t, "loop") /\ Unlock(t) /\ UNCHANGED call
    BY <1>0, <2>1 DEF Unlock, TypeOK
  <2>2. CASE Goto(t, "loop") /\ orphans' = orphans \cup {call[t].lock} /\ UNCHANGED <<call, locks>>
    BY <1>0, <2>2 DEF TypeOK
  <2>3. CASE /\ pc[t] = "stat" /\ (Goto(t, "writer") \/ Goto(t, "parent"))
             /\ UNCHANGED <<locks, orphans>>
    <3> DEFINE i == last_id[ProcOf[t]]
               w == [call[t] EXCEPT !.bid = i, !.id = i,
                                    !.off = size[FileOf(call[t].prefix, i)]]
               c == [call[t] EXCEPT !.bid = i]
    <3>1. \/ call' = [call EXCEPT ![t] = w] \/ call' = [call EXCEPT ![t] = c]
          \/ UNCHANGED call
      BY <1>5 DEF Stat
    <3>2. w.lock = call[t].lock /\ c.lock = call[t].lock
      BY <1>0 DEF TypeOK, Call
    <3> HIDE DEF w, c
    <3>3. call'[t].lock = call[t].lock /\ \A u \in Threads \ {t} : call'[u] = call[u]
      BY <1>0, <3>1, <3>2 DEF TypeOK
    <3> QED BY <1>0, <2>3, <3>3 DEF TypeOK
  <2> QED BY <1>5, <2>1, <2>2, <2>3 DEF Stat
<1>6. ASSUME NEW t \in Threads, MakeParent(t) PROVE LocksAccountedFor'
  BY <1>0, <1>6 DEF MakeParent, Unlock, TypeOK
<1>7. ASSUME NEW t \in Threads, CreateBundle(t) PROVE LocksAccountedFor'
  BY <1>0, <1>7 DEF CreateBundle, Unlock, TypeOK
<1>8. ASSUME NEW t \in Threads, WriteBundleHeader(t) PROVE LocksAccountedFor'
  <2>1. CASE Unlock(t) /\ Return(t)
    BY <1>0, <2>1 DEF Unlock, TypeOK
  <2>2. CASE /\ pc[t] = "bheader" /\ Goto(t, "writer")
             /\ call' = [call EXCEPT ![t] =
                  [@ EXCEPT !.id = last_id[ProcOf[t]], !.off = kBundleHeaderSize]]
             /\ UNCHANGED <<locks, orphans>>
    <3>1. call'[t].lock = call[t].lock /\ \A u \in Threads \ {t} : call'[u] = call[u]
      BY <1>0, <2>2 DEF TypeOK, Call
    <3> QED BY <1>0, <2>2, <3>1 DEF TypeOK
  <2> QED BY <1>8, <2>1, <2>2 DEF WriteBundleHeader
<1>10. ASSUME NEW t \in Threads, Write(t) PROVE LocksAccountedFor'
  BY <1>0, <1>10 DEF Write, WriteRecord, TypeOK
<1>11. ASSUME NEW t \in Threads, NEW n \in Sizes, BatchWrite(t, n) PROVE LocksAccountedFor'
  <2>1. /\ UNCHANGED <<pc, locks, orphans>>
        /\ call'[t].lock = call[t].lock /\ \A u \in Threads \ {t} : call'[u] = call[u]
    BY <1>0, <1>11 DEF BatchWrite, WriteRecord, TypeOK, Call
  <2> QED BY <1>0, <2>1 DEF TypeOK
<1>12. ASSUME NEW t \in Threads, Release(t) \/ Lose(t) PROVE LocksAccountedFor'
  BY <1>0, <1>12 DEF Release, Lose, Unlock, TypeOK, disk
<1>13. ASSUME NEW p \in Procs, Crash(p) PROVE LocksAccountedFor'
  BY <1>0, <1>13 DEF Crash, TypeOK, disk
<1>14. CASE UNCHANGED vars
  BY <1>14 DEF vars, disk, local
<1> QED
  BY <1>1, <1>2, <1>3, <1>4, <1>5, <1>6, <1>7, <1>8, <1>10, <1>11, <1>12, <1>13, <1>14
  DEF Next, AllocateStep

(***************************************************************************)
(* However many threads a process has, a lock file on disk has a live      *)
(* owner or was orphaned by a crash, a failed unlink, a failed lstat or a  *)
(* client that dropped its Writer.                                         *)
(***************************************************************************)
THEOREM LocksHaveOwners == Spec => []LocksAccountedFor
<1>1. Init => TypeInv /\ LocksAccountedFor
  BY InitInv DEF Init, LocksAccountedFor
<1>2. TypeInv /\ LocksAccountedFor /\ [Next]_vars => TypeInv' /\ LocksAccountedFor'
  BY NextTypeInv, StepAccounted
<1> QED BY <1>1, <1>2, PTL DEF Spec

-----------------------------------------------------------------------------
(***************************************************************************)
(* Refinement of WriteOnce                                                 *)
(***************************************************************************)
\* A successful write is given a url that no earlier one was given.
LEMMA FreshUrl ==
  ASSUME TypeInv, LockInv, FileInv, AckedReadable, NEW t \in Threads, pc[t] = "writer",
         NEW n \in Nat, NEW a \in acked
  PROVE  a[1] # UrlOf(t, n)
<1> SUFFICES ASSUME a[1] = UrlOf(t, n) PROVE FALSE
  OBVIOUS
<1> DEFINE f == BundleFile(t)
           o == call[t].off
<1>1. FileOf(a[1].prefix, a[1].id) = f /\ a[1].off = o
  BY DEF LockInv, LockedNow, Locked, HasFile, UrlOf, BundleFile
<1>2. PICK r \in recs[f] : r.off = o /\ r.data = a[2]
  BY <1>1 DEF AckedReadable, Reads
<1>3. End(r) <= o
  BY <1>2 DEF FileInv, WriterAtEnd, AtEnd, Acked
<1>4. f \in Files /\ o \in Nat
  BY FileOfType DEF TypeInv, TypeOK, Assigned, HasFile, Call, BundleFile
<1>5. r \in Record
  BY <1>2, <1>4 DEF TypeInv, TypeOK
<1>6. o + kFileHeaderSize + r.len <= o /\ r.len \in Nat
  BY <1>2, <1>3, <1>5 DEF End, Record
<1> HIDE DEF o
<1> QED BY <1>4, <1>6 DEF kFileHeaderSize

LEMMA StepWriteOnce ==
  ASSUME SingleThreaded, TypeInv, LockInv, FileInv, AckedReadable, AckedReadable',
         [Next]_vars
  PROVE  [Abstract!Next]_visible
<1>1. visible = acked /\ visible' = acked'
  BY DEF visible, AckedReadable
<1>2. ASSUME NEW t \in Threads, pc[t] = "writer", NEW n \in Nat, NEW b \in Method,
             NEW ret \in {0, 1}, WriteRecord(t, n, b, ret)
      PROVE  [Abstract!Next]_visible
  <2> DEFINE e == <<UrlOf(t, n), writes + 1>>
  <2>1. acked' = IF ret = 0 THEN acked \cup {e} ELSE acked
    BY <1>2 DEF WriteRecord
  <2>2. \A x \in acked : x[1] # e[1]
    BY <1>2, FreshUrl
  <2>3. CASE ret = 0
    <3>1. e \notin acked
      BY <2>2
    <3> HIDE DEF e
    <3> QED BY <1>1, <2>1, <2>2, <2>3, <3>1 DEF Abstract!Next, Abstract!Put
  <2> QED BY <1>1, <2>1, <2>3
<1>3. CASE acked' = acked
  BY <1>1, <1>3
<1>4. \A t \in Threads : call[t].want \in Nat
  BY DEF TypeInv, TypeOK, Call
<1>5. CASE Next
  BY <1>2, <1>3, <1>4, <1>5, StepRecords, StoreAssumption DEF Method
<1>6. CASE UNCHANGED vars
  BY <1>3, <1>6 DEF vars
<1> QED BY <1>5, <1>6

(***************************************************************************)
(* With one thread in each process and a write() that is all or nothing,   *)
(* the store is a write-once map for its clients: every url is handed out  *)
(* for one content only, and keeps it.                                     *)
(***************************************************************************)
THEOREM StoreImplementsWriteOnce ==
  ASSUME SingleThreaded, "short" \notin Faults
  PROVE  Spec => ImplementsWriteOnce
<1>1. Init => TypeInv /\ LockInv /\ FileInv /\ AckedReadable /\ Abstract!Init
  BY InitInv DEF Init, AckedReadable, Abstract!Init, visible
<1>2. TypeInv /\ LockInv /\ FileInv /\ AckedReadable /\ [Next]_vars
        => TypeInv' /\ LockInv' /\ FileInv' /\ AckedReadable'
  BY NextTypeInv, NextLockInv, NextFileInv, StepReadable
<1>3. TypeInv /\ LockInv /\ FileInv /\ AckedReadable /\ AckedReadable' /\ [Next]_vars
        => [Abstract!Next]_visible
  BY StepWriteOnce
<1> QED BY <1>1, <1>2, <1>3, PTL DEF Spec, ImplementsWriteOnce, Abstract!Spec
=============================================================================
