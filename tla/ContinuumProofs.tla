---------------------------- MODULE ContinuumProofs ----------------------------
(***************************************************************************)
(* The read-write lock excludes and loses no wake-up, for every set of     *)
(* threads and every depth of read locks.  The hash ring uses its lock     *)
(* only through the lock's operations, so this holds of the ring; and the  *)
(* only way for threads to get stuck is the read lock that Dump takes      *)
(* again in size().  The points are those of one Rebuild, and keys move to *)
(* new points only.                                                        *)
(***************************************************************************)
EXTENDS Continuum, FiniteSetTheorems, TLAPS

(***************************************************************************)
(* Who has been notified.  A reader waits only behind a writer, so when no *)
(* writer holds the lock or waits every waiting reader has been woken; and *)
(* when nobody holds the lock one of the waiting writers has.              *)
(***************************************************************************)
WakeInv ==
  /\ cond_read \cap cond_write = {}
  /\ cond_write = {} /\ writing = {} => cond_read \subseteq woken
  /\ cond_write # {} /\ reading = {} /\ writing = {} => cond_write \cap woken # {}

LockInv == LockTypeOK /\ CountersMatch /\ Exclusion /\ WakeInv
-----------------------------------------------------------------------------
LEMMA FiniteParts ==
  ASSUME LockTypeOK
  PROVE  /\ IsFiniteSet(reading) /\ IsFiniteSet(writing)
         /\ IsFiniteSet(cond_read) /\ IsFiniteSet(cond_write)
<1>1. IsFiniteSet(1 .. MaxDepth)
  BY MaxDepthNat, FS_Interval
<1>2. IsFiniteSet(Holds)
  BY <1>1, ThreadsFinite, FS_Product DEF Holds
<1> QED BY <1>2, ThreadsFinite, FS_Subset DEF LockTypeOK

\* One more and one less.
LEMMA AddOne ==
  ASSUME NEW S, IsFiniteSet(S), NEW x, x \notin S
  PROVE  Cardinality(S \cup {x}) = Cardinality(S) + 1
BY FS_AddElement

LEMMA RemoveOne ==
  ASSUME NEW S, IsFiniteSet(S), NEW x \in S
  PROVE  Cardinality(S \ {x}) = Cardinality(S) - 1
BY FS_RemoveElement

LEMMA PositiveIffNonempty ==
  ASSUME NEW S, IsFiniteSet(S)
  PROVE  Cardinality(S) \in Nat /\ (Cardinality(S) > 0 <=> S # {})
BY FS_CardinalityType, FS_EmptySet

\* The counters, read as the code reads them.
LEMMA WhoBlocks ==
  ASSUME LockTypeOK, CountersMatch
  PROVE  /\ BlockedRead <=> writing # {} \/ cond_write # {}
         /\ BlockedWrite <=> reading # {} \/ writing # {}
         /\ write_waiters > 0 <=> cond_write # {}
         /\ read_waiters > 0 <=> cond_read # {}
<1>1. readers > 0 <=> reading # {}
  BY FiniteParts, PositiveIffNonempty DEF CountersMatch
<1>2. writers > 0 <=> writing # {}
  BY FiniteParts, PositiveIffNonempty DEF CountersMatch
<1>3. read_waiters > 0 <=> cond_read # {}
  BY FiniteParts, PositiveIffNonempty DEF CountersMatch
<1>4. write_waiters > 0 <=> cond_write # {}
  BY FiniteParts, PositiveIffNonempty DEF CountersMatch
<1> QED BY <1>1, <1>2, <1>3, <1>4 DEF BlockedRead, BlockedWrite
-----------------------------------------------------------------------------
LEMMA InitEstablishes == LockInit => LockInv
<1>1. Cardinality({}) = 0
  BY FS_EmptySet
<1> QED BY <1>1 DEF LockInit, LockInv, LockTypeOK, CountersMatch, Exclusion, WakeInv

\* A thread gets one more read lock, or gives one back.
LEMMA GetReadCounts ==
  ASSUME LockInv, NEW t \in Threads, GetRead(t)
  PROVE  /\ readers' \in Nat /\ readers' = Cardinality(reading')
         /\ reading' \subseteq Holds /\ reading' # {}
<1>1. PICK d \in 1 .. MaxDepth : <<t, d>> \notin reading /\ reading' = reading \cup {<<t, d>>}
  BY DEF GetRead
<1>2. Cardinality(reading') = Cardinality(reading) + 1
  BY <1>1, FiniteParts, AddOne DEF LockInv
<1>3. reading' \subseteq Holds /\ reading' # {}
  BY <1>1 DEF LockInv, LockTypeOK, Holds
<1> QED BY <1>2, <1>3 DEF LockInv, LockTypeOK, CountersMatch, GetRead

LEMMA ReadLockPreserves ==
  ASSUME LockInv, NEW t \in Threads, ReadLock(t)
  PROVE  LockInv'
<1>1. CASE BlockedRead
  <2>1. t \notin cond_read /\ t \notin cond_write
    BY DEF ReadLock, Waiting
  <2>2. Cardinality(cond_read') = Cardinality(cond_read) + 1
    BY <1>1, <2>1, FiniteParts, AddOne DEF ReadLock, LockInv
  <2>3. LockTypeOK' /\ CountersMatch' /\ Exclusion'
    BY <1>1, <2>2 DEF ReadLock, LockInv, LockTypeOK, CountersMatch, Exclusion
  <2>4. writing # {} \/ cond_write # {}
    BY <1>1, WhoBlocks DEF LockInv
  <2>5. WakeInv'
    BY <1>1, <2>1, <2>4 DEF ReadLock, LockInv, WakeInv
  <2> QED BY <2>3, <2>5 DEF LockInv
<1>2. CASE ~BlockedRead
  <2>1. GetRead(t)
    BY <1>2 DEF ReadLock
  <2>2. LockTypeOK' /\ CountersMatch'
    BY <1>2, <2>1, GetReadCounts DEF ReadLock, LockInv, LockTypeOK, CountersMatch
  <2>3. writing = {} /\ writing' = {}
    BY <1>2, WhoBlocks DEF ReadLock, LockInv
  <2>4. Exclusion' /\ WakeInv'
    BY <1>2, <2>1, <2>3, GetReadCounts DEF ReadLock, LockInv, Exclusion, WakeInv
  <2> QED BY <2>2, <2>4 DEF LockInv
<1> QED BY <1>1, <1>2

LEMMA ReadWakePreserves ==
  ASSUME LockInv, NEW t \in Threads, ReadWake(t)
  PROVE  LockInv'
<1>0. t \in cond_read /\ t \notin cond_write
  BY DEF ReadWake, LockInv, WakeInv
<1>1. CASE BlockedRead
  <2>1. LockTypeOK' /\ CountersMatch' /\ Exclusion'
    BY <1>1 DEF ReadWake, LockInv, LockTypeOK, CountersMatch, Exclusion
  <2>2. writing # {} \/ cond_write # {}
    BY <1>1, WhoBlocks DEF LockInv
  <2>3. WakeInv'
    BY <1>0, <1>1, <2>2 DEF ReadWake, LockInv, WakeInv
  <2> QED BY <2>1, <2>3 DEF LockInv
<1>2. CASE ~BlockedRead
  <2>1. GetRead(t)
    BY <1>2 DEF ReadWake
  <2>2. Cardinality(cond_read') = Cardinality(cond_read) - 1 /\ Cardinality(cond_read') \in Nat
    BY <1>0, <1>2, FiniteParts, RemoveOne, FS_Subset, FS_CardinalityType DEF ReadWake, LockInv
  <2>3. LockTypeOK' /\ CountersMatch'
    BY <1>0, <1>2, <2>1, <2>2, GetReadCounts DEF ReadWake, LockInv, LockTypeOK, CountersMatch
  <2>4. writing = {} /\ cond_write = {}
    BY <1>2, WhoBlocks DEF LockInv
  <2>5. Exclusion' /\ WakeInv'
    BY <1>0, <1>2, <2>1, <2>4, GetReadCounts DEF ReadWake, LockInv, Exclusion, WakeInv
  <2> QED BY <2>3, <2>5 DEF LockInv
<1> QED BY <1>1, <1>2

LEMMA ReadUnlockPreserves ==
  ASSUME LockInv, NEW t \in Threads, ReadUnlock(t)
  PROVE  LockInv'
<1>1. PICK d \in 1 .. MaxDepth : <<t, d>> \in reading /\ reading' = reading \ {<<t, d>>}
  BY DEF ReadUnlock
<1>2. Cardinality(reading') = Cardinality(reading) - 1 /\ Cardinality(reading') \in Nat
  BY <1>1, FiniteParts, RemoveOne, FS_Subset, FS_CardinalityType DEF LockInv
<1>3. woken \subseteq woken' /\ woken' \subseteq cond_read \cup cond_write
  BY DEF ReadUnlock, NotifyOne, LockInv, LockTypeOK
<1>4. cond_write # {} => cond_write \cap woken' # {}
  <2>1. cond_write # {} => NotifyOne(cond_write)
    BY WhoBlocks DEF ReadUnlock, LockInv
  <2> QED BY <2>1 DEF NotifyOne
<1>5. LockTypeOK' /\ CountersMatch'
  BY <1>1, <1>2, <1>3 DEF ReadUnlock, LockInv, LockTypeOK, CountersMatch
<1>6. Exclusion' /\ WakeInv'
  BY <1>1, <1>3, <1>4 DEF ReadUnlock, LockInv, Exclusion, WakeInv
<1> QED BY <1>5, <1>6 DEF LockInv

\* A writer that gets the lock is the only one.
LEMMA GetWriteCounts ==
  ASSUME LockInv, NEW t \in Threads, ~BlockedWrite, GetWrite(t)
  PROVE  /\ writers' = 1 /\ writing' = {t} /\ Cardinality(writing') = 1
         /\ reading = {} /\ writing = {}
<1>1. reading = {} /\ writing = {}
  BY WhoBlocks DEF LockInv
<1>2. writing' = {t}
  BY <1>1 DEF GetWrite
<1> QED BY <1>1, <1>2, FS_Singleton DEF GetWrite

LEMMA WriteLockPreserves ==
  ASSUME LockInv, NEW t \in Threads, WriteLock(t)
  PROVE  LockInv'
<1>1. CASE BlockedWrite
  <2>1. t \notin cond_read /\ t \notin cond_write
    BY DEF WriteLock, Waiting
  <2>2. Cardinality(cond_write') = Cardinality(cond_write) + 1
    BY <1>1, <2>1, FiniteParts, AddOne DEF WriteLock, LockInv
  <2>3. LockTypeOK' /\ CountersMatch' /\ Exclusion'
    BY <1>1, <2>2 DEF WriteLock, LockInv, LockTypeOK, CountersMatch, Exclusion
  <2>4. reading # {} \/ writing # {}
    BY <1>1, WhoBlocks DEF LockInv
  <2>5. WakeInv'
    BY <1>1, <2>1, <2>4 DEF WriteLock, LockInv, WakeInv
  <2> QED BY <2>3, <2>5 DEF LockInv
<1>2. CASE ~BlockedWrite
  <2>1. GetWrite(t)
    BY <1>2 DEF WriteLock
  <2>2. LockTypeOK' /\ CountersMatch'
    BY <1>2, <2>1, GetWriteCounts DEF WriteLock, LockInv, LockTypeOK, CountersMatch
  <2>3. Exclusion' /\ WakeInv'
    BY <1>2, <2>1, GetWriteCounts DEF WriteLock, LockInv, Exclusion, WakeInv
  <2> QED BY <2>2, <2>3 DEF LockInv
<1> QED BY <1>1, <1>2

LEMMA WriteWakePreserves ==
  ASSUME LockInv, NEW t \in Threads, WriteWake(t)
  PROVE  LockInv'
<1>0. t \in cond_write /\ t \notin cond_read
  BY DEF WriteWake, LockInv, WakeInv
<1>1. CASE BlockedWrite
  <2>1. LockTypeOK' /\ CountersMatch' /\ Exclusion'
    BY <1>1 DEF WriteWake, LockInv, LockTypeOK, CountersMatch, Exclusion
  <2>2. reading # {} \/ writing # {}
    BY <1>1, WhoBlocks DEF LockInv
  <2>3. WakeInv'
    BY <1>0, <1>1, <2>2 DEF WriteWake, LockInv, WakeInv
  <2> QED BY <2>1, <2>3 DEF LockInv
<1>2. CASE ~BlockedWrite
  <2>1. GetWrite(t)
    BY <1>2 DEF WriteWake
  <2>2. Cardinality(cond_write') = Cardinality(cond_write) - 1 /\ Cardinality(cond_write') \in Nat
    BY <1>0, <1>2, FiniteParts, RemoveOne, FS_Subset, FS_CardinalityType DEF WriteWake, LockInv
  <2>3. LockTypeOK' /\ CountersMatch'
    BY <1>0, <1>2, <2>1, <2>2, GetWriteCounts DEF WriteWake, LockInv, LockTypeOK, CountersMatch
  <2>4. Exclusion' /\ WakeInv'
    BY <1>0, <1>2, <2>1, GetWriteCounts DEF WriteWake, LockInv, Exclusion, WakeInv
  <2> QED BY <2>3, <2>4 DEF LockInv
<1> QED BY <1>1, <1>2

LEMMA WriteUnlockPreserves ==
  ASSUME LockInv, NEW t \in Threads, WriteUnlock(t)
  PROVE  LockInv'
<1>1. writing = {t} /\ reading = {}
  BY DEF WriteUnlock, LockInv, Exclusion
<1>2. writing' = {} /\ writers' = 0 /\ Cardinality(writing') = 0
  BY <1>1, FS_EmptySet DEF WriteUnlock
<1>3. woken' \subseteq cond_read \cup cond_write
  BY DEF WriteUnlock, NotifyOne, LockInv, LockTypeOK
<1>4. cond_write # {} => cond_write \cap woken' # {}
  <2>1. cond_write # {} => NotifyOne(cond_write)
    BY WhoBlocks DEF WriteUnlock, LockInv
  <2> QED BY <2>1 DEF NotifyOne
<1>5. cond_write = {} => cond_read \subseteq woken'
  BY WhoBlocks DEF WriteUnlock, LockInv
<1>6. LockTypeOK' /\ CountersMatch'
  BY <1>2, <1>3 DEF WriteUnlock, LockInv, LockTypeOK, CountersMatch
<1>7. Exclusion' /\ WakeInv'
  BY <1>1, <1>2, <1>4, <1>5 DEF WriteUnlock, LockInv, Exclusion, WakeInv
<1> QED BY <1>6, <1>7 DEF LockInv

LEMMA StepPreserves == LockInv /\ [LockNext]_lockvars => LockInv'
<1> SUFFICES ASSUME LockInv, [LockNext]_lockvars
             PROVE  LockInv'
  OBVIOUS
<1>1. ASSUME NEW t \in Threads, Lock(t)
      PROVE  LockInv'
  BY <1>1, ReadLockPreserves, ReadWakePreserves, WriteLockPreserves, WriteWakePreserves DEF Lock
<1>2. ASSUME NEW t \in Threads, Unlock(t)
      PROVE  LockInv'
  BY <1>2, ReadUnlockPreserves, WriteUnlockPreserves DEF Unlock
<1>3. CASE UNCHANGED lockvars
  BY <1>3 DEF lockvars, LockInv, LockTypeOK, CountersMatch, Exclusion, WakeInv
<1> QED BY <1>1, <1>2, <1>3 DEF LockNext
-----------------------------------------------------------------------------
(***************************************************************************)
(* ReadWriteLock: the invariant of every behaviour of its threads.         *)
(***************************************************************************)
THEOREM LockInvariant == LockSpec => []LockInv
<1>1. LockInit => LockInv
  BY InitEstablishes
<1>2. LockInv /\ [LockNext]_lockvars => LockInv'
  BY StepPreserves
<1> QED BY <1>1, <1>2, PTL DEF LockSpec

(***************************************************************************)
(* ReadWriteLock: its variables keep their types.                          *)
(***************************************************************************)
THEOREM LockTypeCorrect == LockSpec => []LockTypeOK
BY LockInvariant, PTL DEF LockInv

(***************************************************************************)
(* readers_, writers_ and the waiters_ count the threads they are about.   *)
(***************************************************************************)
THEOREM CountersCount == LockSpec => []CountersMatch
BY LockInvariant, PTL DEF LockInv

(***************************************************************************)
(* ReadWriteLock: a writer is alone, for any number of threads.            *)
(***************************************************************************)
THEOREM WritersAlone == LockSpec => []Exclusion
BY LockInvariant, PTL DEF LockInv

(***************************************************************************)
(* ReadUnlock, WriteUnlock: when threads wait and nobody holds the lock,   *)
(* one of them has been notified.                                          *)
(***************************************************************************)
THEOREM WakeupsKept == LockSpec => []NoLostWakeup
<1>1. LockInv => NoLostWakeup
  BY DEF LockInv, LockTypeOK, WakeInv, NoLostWakeup
<1> QED BY <1>1, LockInvariant, PTL
-----------------------------------------------------------------------------
(***************************************************************************)
(* Every step of the ring is a step of the lock, or leaves it alone.       *)
(***************************************************************************)
LEMMA RingStepIsLockStep == [Next]_vars => [LockNext]_lockvars
<1> SUFFICES ASSUME [Next]_vars
             PROVE  [LockNext]_lockvars
  OBVIOUS
<1>1. ASSUME NEW t \in Threads, BeginRead(t) \/ DumpSize(t)
      PROVE  LockNext
  BY <1>1 DEF BeginRead, DumpSize, LockNext, Lock
<1>2. ASSUME NEW t \in Threads, BeginWrite(t) \/ BeginSwap(t)
      PROVE  LockNext
  BY <1>2 DEF BeginWrite, BeginSwap, LockNext, Lock
<1>3. ASSUME NEW t \in Threads, Wake(t)
      PROVE  LockNext
  BY <1>3 DEF Wake, LockNext, Lock
<1>4. ASSUME NEW t \in Threads, EndLocate(t) \/ Snapshot(t) \/ DumpSizeEnd(t) \/ EndDump(t)
      PROVE  LockNext
  BY <1>4 DEF EndLocate, Snapshot, DumpSizeEnd, EndDump, LockNext, Unlock
<1>5. ASSUME NEW t \in Threads, Change(t) \/ EndSwap(t)
      PROVE  LockNext
  BY <1>5 DEF Change, EndSwap, LockNext, Unlock
<1>6. CASE UNCHANGED vars
  BY <1>6 DEF vars, lockvars
<1> QED BY <1>1, <1>2, <1>3, <1>4, <1>5, <1>6 DEF Next, Step

(***************************************************************************)
(* Continuum: its threads are threads of the ReadWriteLock, so the lock    *)
(* excludes, counts and wakes up for them too.                             *)
(***************************************************************************)
THEOREM RingUsesLock == Spec => LockSpec
<1>1. Init => LockInit
  BY DEF Init
<1> QED BY <1>1, RingStepIsLockStep, PTL DEF Spec, LockSpec

(***************************************************************************)
(* Continuum, ReadWriteLock: in the ring too the counters of the lock are  *)
(* right, writers are alone and no wake-up is lost.                        *)
(***************************************************************************)
COROLLARY RingLockInvariant == Spec => []LockInv
BY RingUsesLock, LockInvariant, PTL
-----------------------------------------------------------------------------
(***************************************************************************)
(* Where a thread stands, and the read locks it has or waits for there.    *)
(***************************************************************************)
Places == {"idle", "locate", "snapshot", "dump", "change", "sorted", "swap", "dump size", "dumped"}
Readers == {"locate", "snapshot", "dump", "dump size"}

Wanted == [l \in Places |->
             IF l = "dump size" THEN 2
             ELSE IF l \in {"locate", "snapshot", "dump", "dumped"} THEN 1 ELSE 0]
Sum(t) == Depth(t) + (IF t \in cond_read THEN 1 ELSE 0)

PlaceInv ==
  /\ pc \in [Threads -> Places]
  /\ \A t \in Threads : Depth(t) \in Nat /\ Sum(t) = Wanted[pc[t]]
  /\ \A t \in cond_read : pc[t] \in Readers
  /\ \A t \in cond_write : t \notin writing /\ Depth(t) = 0
  /\ \A t \in cond_read : t \notin writing
\* The arithmetic of a second read lock.
LEMMA TwoIsOneMore == 2 = 1 + 1
OBVIOUS

\* Wanted, place by place.
LEMMA WantedAt ==
  /\ Wanted["idle"] = 0 /\ Wanted["change"] = 0 /\ Wanted["sorted"] = 0 /\ Wanted["swap"] = 0
  /\ Wanted["locate"] = 1 /\ Wanted["snapshot"] = 1 /\ Wanted["dump"] = 1 /\ Wanted["dumped"] = 1
  /\ Wanted["dump size"] = 2
BY DEF Wanted, Places
-----------------------------------------------------------------------------
Mine(t, R) == {h \in R : h[1] = t}

\* A thread has finitely many read locks.
LEMMA DepthIsNat ==
  ASSUME LockTypeOK, NEW t
  PROVE  /\ IsFiniteSet(Mine(t, reading)) /\ Depth(t) = Cardinality(Mine(t, reading))
         /\ Depth(t) \in Nat
<1>1. IsFiniteSet(Mine(t, reading))
  BY FiniteParts, FS_Subset DEF Mine
<1> QED BY <1>1, FS_CardinalityType DEF Mine, Depth

\* A read lock more, or one less, is one of the thread that took or gave it.
LEMMA DepthAfterGet ==
  ASSUME LockTypeOK, NEW t \in Threads, GetRead(t)
  PROVE  /\ Depth(t)' = Depth(t) + 1
         /\ \A u \in Threads \ {t} : Depth(u)' = Depth(u)
<1>1. PICK d \in 1 .. MaxDepth : <<t, d>> \notin reading /\ reading' = reading \cup {<<t, d>>}
  BY DEF GetRead
<1>2. Mine(t, reading') = Mine(t, reading) \cup {<<t, d>>} /\ <<t, d>> \notin Mine(t, reading)
  BY <1>1 DEF Mine
<1>3. Cardinality(Mine(t, reading')) = Cardinality(Mine(t, reading)) + 1
  BY <1>2, DepthIsNat, AddOne
<1>4. ASSUME NEW u \in Threads \ {t}
      PROVE  Mine(u, reading') = Mine(u, reading)
  BY <1>1 DEF Mine
<1>5. \A u : Depth(u)' = Cardinality(Mine(u, reading')) /\ Depth(u) = Cardinality(Mine(u, reading))
  BY DEF Depth, Mine
<1> QED BY <1>3, <1>4, <1>5

\* The same for a read lock that is given back.
LEMMA DepthAfterUnlock ==
  ASSUME LockTypeOK, NEW t \in Threads, ReadUnlock(t)
  PROVE  /\ Depth(t)' = Depth(t) - 1 /\ Depth(t)' \in Nat
         /\ \A u \in Threads \ {t} : Depth(u)' = Depth(u)
<1>1. PICK d \in 1 .. MaxDepth : <<t, d>> \in reading /\ reading' = reading \ {<<t, d>>}
  BY DEF ReadUnlock
<1>2. Mine(t, reading') = Mine(t, reading) \ {<<t, d>>} /\ <<t, d>> \in Mine(t, reading)
  BY <1>1 DEF Mine
<1>3. Cardinality(Mine(t, reading')) = Cardinality(Mine(t, reading)) - 1
  BY <1>2, DepthIsNat, RemoveOne
<1>4. Cardinality(Mine(t, reading')) \in Nat
  BY <1>2, DepthIsNat, FS_RemoveElement, FS_CardinalityType
<1>5. ASSUME NEW u \in Threads \ {t}
      PROVE  Mine(u, reading') = Mine(u, reading)
  BY <1>1 DEF Mine
<1>6. \A u : Depth(u)' = Cardinality(Mine(u, reading')) /\ Depth(u) = Cardinality(Mine(u, reading))
  BY DEF Depth, Mine
<1> QED BY <1>3, <1>4, <1>5, <1>6

\* Depth depends on reading alone.
LEMMA DepthStays ==
  ASSUME reading' = reading, NEW t
  PROVE  Depth(t)' = Depth(t)
BY DEF Depth
-----------------------------------------------------------------------------
\* What the operations of the lock do to Sum(t), and to no other thread's.
LEMMA SumOfOthers ==
  ASSUME NEW t, NEW u, u # t, Depth(u)' = Depth(u), (u \in cond_read)' = (u \in cond_read)
  PROVE  Sum(u)' = Sum(u)
BY DEF Sum

\* t has one more read lock, or waits for one; or it has got what it waited for.
LEMMA AfterReadLock ==
  ASSUME LockInv, NEW t \in Threads, ReadLock(t), Depth(t) \in Nat
  PROVE  /\ Sum(t)' = Sum(t) + 1 /\ Depth(t)' \in Nat
         /\ \A u \in Threads \ {t} : Depth(u)' = Depth(u)
         /\ cond_read' \subseteq cond_read \cup {t} /\ cond_read \subseteq cond_read'
         /\ t \notin cond_write /\ t \notin writing
         /\ cond_write' = cond_write /\ writing' = writing
<1>1. t \notin cond_read /\ t \notin cond_write /\ t \notin writing
  BY DEF ReadLock, Waiting
<1>2. CASE BlockedRead
  <2>1. reading' = reading /\ cond_read' = cond_read \cup {t}
    BY <1>2 DEF ReadLock
  <2>2. \A u \in Threads : Depth(u)' = Depth(u)
    BY <2>1, DepthStays
  <2> QED BY <1>1, <2>1, <2>2 DEF ReadLock, Sum
<1>3. CASE ~BlockedRead
  <2>1. GetRead(t) /\ cond_read' = cond_read
    BY <1>3 DEF ReadLock
  <2> QED BY <1>1, <2>1, DepthAfterGet DEF ReadLock, Sum, LockInv
<1> QED BY <1>2, <1>3

\* A woken reader has what it waited for, or waits on.
LEMMA AfterReadWake ==
  ASSUME LockInv, NEW t \in Threads, ReadWake(t), Depth(t) \in Nat
  PROVE  /\ Sum(t)' = Sum(t) /\ Depth(t)' \in Nat
         /\ \A u \in Threads \ {t} : Depth(u)' = Depth(u)
         /\ cond_read' \subseteq cond_read /\ cond_read \ {t} \subseteq cond_read'
         /\ t \notin cond_write
         /\ cond_write' = cond_write /\ writing' = writing
<1>1. t \in cond_read /\ t \notin cond_write
  BY DEF ReadWake, LockInv, WakeInv
<1>2. CASE BlockedRead
  <2>1. reading' = reading /\ cond_read' = cond_read
    BY <1>2 DEF ReadWake
  <2>2. \A u \in Threads : Depth(u)' = Depth(u)
    BY <2>1, DepthStays
  <2> QED BY <1>1, <2>1, <2>2 DEF ReadWake, Sum
<1>3. CASE ~BlockedRead
  <2>1. GetRead(t) /\ cond_read' = cond_read \ {t}
    BY <1>3 DEF ReadWake
  <2> QED BY <1>1, <2>1, DepthAfterGet DEF ReadWake, Sum, LockInv
<1> QED BY <1>2, <1>3

\* t has one read lock less, and does not wait.
LEMMA AfterReadUnlock ==
  ASSUME LockInv, NEW t \in Threads, ReadUnlock(t), Depth(t) \in Nat
  PROVE  /\ Sum(t)' = Sum(t) - 1 /\ Depth(t)' \in Nat
         /\ \A u \in Threads \ {t} : Depth(u)' = Depth(u)
         /\ t \notin cond_read /\ t \notin cond_write
         /\ cond_read' = cond_read /\ cond_write' = cond_write /\ writing' = writing
<1>1. t \notin cond_read /\ t \notin cond_write
  BY DEF ReadUnlock, Waiting
<1>2. cond_read' = cond_read /\ cond_write' = cond_write /\ writing' = writing
  BY DEF ReadUnlock
<1> QED BY <1>1, <1>2, DepthAfterUnlock DEF Sum, LockInv

\* The operations of writers.
LEMMA AfterWrite ==
  ASSUME LockInv, NEW t \in Threads, WriteLock(t) \/ WriteWake(t) \/ WriteUnlock(t)
  PROVE  /\ reading' = reading /\ cond_read' = cond_read
         /\ \A u : u # t => /\ u \in writing' => u \in writing
                            /\ u \in cond_write' => u \in cond_write
         /\ t \in writing' => t \notin cond_read
BY DEF WriteLock, WriteWake, WriteUnlock, GetWrite, Waiting, LockInv, WakeInv, Exclusion
-----------------------------------------------------------------------------
(***************************************************************************)
(* A thread that goes from one place to the next with an operation of the  *)
(* lock that fits keeps PlaceInv.                                          *)
(***************************************************************************)
LEMMA ReadLockPlaces ==
  ASSUME LockInv, PlaceInv, NEW t \in Threads, NEW l \in Readers, ReadLock(t), Go(t, l),
         Wanted[l] = Wanted[pc[t]] + 1
  PROVE  PlaceInv'
<1>1. Depth(t) \in Nat /\ Sum(t) = Wanted[pc[t]]
  BY DEF PlaceInv
<1>2. pc' = [pc EXCEPT ![t] = l] /\ pc' \in [Threads -> Places]
  BY DEF Go, PlaceInv, Readers, Places
<1>3. \A u \in Threads : Depth(u)' \in Nat /\ Sum(u)' = Wanted[pc'[u]]
  <2>1. Depth(t)' \in Nat /\ Sum(t)' = Wanted[pc'[t]]
    BY <1>1, <1>2, AfterReadLock DEF PlaceInv
  <2>2. ASSUME NEW u \in Threads \ {t}
        PROVE  Depth(u)' \in Nat /\ Sum(u)' = Wanted[pc'[u]]
    <3>1. Depth(u)' = Depth(u) /\ (u \in cond_read)' = (u \in cond_read) /\ pc'[u] = pc[u]
      BY <1>1, <1>2, AfterReadLock DEF PlaceInv
    <3> QED BY <3>1, SumOfOthers DEF PlaceInv
  <2> QED BY <2>1, <2>2
<1>4. \A u \in cond_read' : pc'[u] \in Readers /\ u \notin writing'
  BY <1>1, <1>2, AfterReadLock DEF PlaceInv, LockInv, LockTypeOK
<1>5. \A u \in cond_write' : u \notin writing' /\ Depth(u)' = 0
  BY <1>1, AfterReadLock DEF PlaceInv, LockInv, LockTypeOK
<1> QED BY <1>2, <1>3, <1>4, <1>5 DEF PlaceInv

\* The same for a read unlock,
LEMMA ReadUnlockPlaces ==
  ASSUME LockInv, PlaceInv, NEW t \in Threads, NEW l \in Places, ReadUnlock(t), Go(t, l),
         Wanted[l] = Wanted[pc[t]] - 1
  PROVE  PlaceInv'
<1>1. Depth(t) \in Nat /\ Sum(t) = Wanted[pc[t]]
  BY DEF PlaceInv
<1>2. pc' = [pc EXCEPT ![t] = l] /\ pc' \in [Threads -> Places]
  BY DEF Go, PlaceInv
<1>3. \A u \in Threads : Depth(u)' \in Nat /\ Sum(u)' = Wanted[pc'[u]]
  <2>1. Depth(t)' \in Nat /\ Sum(t)' = Wanted[pc'[t]]
    BY <1>1, <1>2, AfterReadUnlock DEF PlaceInv
  <2>2. ASSUME NEW u \in Threads \ {t}
        PROVE  Depth(u)' \in Nat /\ Sum(u)' = Wanted[pc'[u]]
    <3>1. Depth(u)' = Depth(u) /\ (u \in cond_read)' = (u \in cond_read) /\ pc'[u] = pc[u]
      BY <1>1, <1>2, AfterReadUnlock DEF PlaceInv
    <3> QED BY <3>1, SumOfOthers DEF PlaceInv
  <2> QED BY <2>1, <2>2
<1>4. \A u \in cond_read' : pc'[u] \in Readers /\ u \notin writing'
  BY <1>1, <1>2, AfterReadUnlock DEF PlaceInv, LockInv, LockTypeOK
<1>5. \A u \in cond_write' : u \notin writing' /\ Depth(u)' = 0
  BY <1>1, AfterReadUnlock DEF PlaceInv, LockInv, LockTypeOK
<1> QED BY <1>2, <1>3, <1>4, <1>5 DEF PlaceInv

\* for a reader that wakes up,
LEMMA ReadWakePlaces ==
  ASSUME LockInv, PlaceInv, NEW t \in Threads, ReadWake(t), pc' = pc
  PROVE  PlaceInv'
<1>1. Depth(t) \in Nat /\ Sum(t) = Wanted[pc[t]]
  BY DEF PlaceInv
<1>2. \A u \in Threads : Depth(u)' \in Nat /\ Sum(u)' = Wanted[pc'[u]]
  <2>1. Depth(t)' \in Nat /\ Sum(t)' = Wanted[pc'[t]]
    BY <1>1, AfterReadWake
  <2>2. ASSUME NEW u \in Threads \ {t}
        PROVE  Depth(u)' \in Nat /\ Sum(u)' = Wanted[pc'[u]]
    <3>1. Depth(u)' = Depth(u) /\ (u \in cond_read)' = (u \in cond_read)
      BY <1>1, AfterReadWake
    <3> QED BY <3>1, SumOfOthers DEF PlaceInv
  <2> QED BY <2>1, <2>2
<1>3. \A u \in cond_read' : pc'[u] \in Readers /\ u \notin writing'
  BY <1>1, AfterReadWake DEF PlaceInv
<1>4. \A u \in cond_write' : u \notin writing' /\ Depth(u)' = 0
  BY <1>1, AfterReadWake DEF PlaceInv, LockInv, LockTypeOK
<1> QED BY <1>2, <1>3, <1>4 DEF PlaceInv

\* A writer holds no read lock, so it waits with none.
LEMMA WriterHasNone ==
  ASSUME NEW t \in Threads, WriteLock(t), LockTypeOK
  PROVE  Depth(t) = 0
<1>1. {h \in reading : h[1] = t} = {}
  BY DEF WriteLock, LockTypeOK, Holds
<1> QED BY <1>1, FS_EmptySet DEF Depth

\* and for the operations of a writer.
LEMMA WritePlaces ==
  ASSUME LockInv, PlaceInv, NEW t \in Threads, NEW l \in Places,
         WriteLock(t) \/ WriteWake(t) \/ WriteUnlock(t), Go(t, l),
         Wanted[l] = Wanted[pc[t]], t \notin cond_read
  PROVE  PlaceInv'
<1>1. reading' = reading /\ cond_read' = cond_read
  BY AfterWrite
<1>2. pc' = [pc EXCEPT ![t] = l] /\ pc' \in [Threads -> Places]
  BY DEF Go, PlaceInv
<1>3. \A u \in Threads : Depth(u)' = Depth(u) /\ Sum(u)' = Sum(u)
  BY <1>1 DEF Depth, Sum
<1>4. \A u \in Threads : Depth(u)' \in Nat /\ Sum(u)' = Wanted[pc'[u]]
  BY <1>2, <1>3 DEF PlaceInv
<1>5. \A u \in cond_read' : pc'[u] \in Readers /\ u \notin writing'
  BY <1>1, <1>2, AfterWrite DEF PlaceInv
<1>6. \A u \in cond_write' : u \notin writing' /\ Depth(u)' = 0
  <2>1. ASSUME NEW u \in cond_write', u # t
        PROVE  u \notin writing' /\ Depth(u)' = 0
    BY <1>3, <2>1, AfterWrite DEF PlaceInv, LockInv, LockTypeOK
  <2>2. ASSUME t \in cond_write', WriteLock(t)
        PROVE  t \notin writing' /\ Depth(t)' = 0
    BY <1>3, <2>2, WriterHasNone DEF WriteLock, Waiting, LockInv
  <2>3. ASSUME t \in cond_write', WriteWake(t)
        PROVE  t \notin writing' /\ Depth(t)' = 0
    BY <1>3, <2>3 DEF WriteWake, PlaceInv
  <2>4. ASSUME t \in cond_write', WriteUnlock(t)
        PROVE  t \notin writing' /\ Depth(t)' = 0
    BY <1>3, <2>4 DEF WriteUnlock, PlaceInv
  <2> QED BY <2>1, <2>2, <2>3, <2>4
<1> QED BY <1>2, <1>4, <1>5, <1>6 DEF PlaceInv

\* PlaceInv holds when all threads are idle,
LEMMA PlacesInit == Init => PlaceInv
<1> SUFFICES ASSUME Init
             PROVE  PlaceInv
  OBVIOUS
<1>1. \A t : Depth(t) = 0
  BY FS_EmptySet DEF Init, LockInit, Depth
<1> QED BY <1>1 DEF Init, LockInit, PlaceInv, Places, Sum, Wanted

\* and every step of the ring keeps it.
LEMMA PlacesStep == LockInv /\ PlaceInv /\ [Next]_vars => PlaceInv'
<1> SUFFICES ASSUME LockInv, PlaceInv, [Next]_vars
             PROVE  PlaceInv'
  OBVIOUS
<1>1. ASSUME NEW t \in Threads, BeginRead(t)
      PROVE  PlaceInv'
  <2>1. PICK l \in {"locate", "snapshot", "dump"} : Go(t, l) /\ pc[t] = "idle"
    BY <1>1 DEF BeginRead, Begin
  <2>2. l \in Readers /\ Wanted[l] = 1 /\ Wanted[pc[t]] = 0
    BY <2>1, WantedAt, Zenon DEF Readers
  <2>3. Wanted[l] = Wanted[pc[t]] + 1
    BY <2>2
  <2> QED BY <1>1, <2>1, <2>2, <2>3, ReadLockPlaces DEF BeginRead
<1>2. ASSUME NEW t \in Threads, DumpSize(t)
      PROVE  PlaceInv'
  <2>1. PICK l \in {"dump size"} : Go(t, l) /\ pc[t] = "dump"
    BY <1>2 DEF DumpSize
  <2>2. l \in Readers /\ Wanted[l] = 2 /\ Wanted[pc[t]] = 1
    BY <2>1, WantedAt, Zenon DEF Readers
  <2>3. Wanted[l] = Wanted[pc[t]] + 1
    BY <2>2, TwoIsOneMore, Zenon
  <2> QED BY <1>2, <2>1, <2>2, <2>3, ReadLockPlaces DEF DumpSize
<1>3. ASSUME NEW t \in Threads, BeginWrite(t) \/ BeginSwap(t)
      PROVE  PlaceInv'
  <2>1. WriteLock(t) /\ t \notin cond_read
    BY <1>3 DEF BeginWrite, BeginSwap, WriteLock, Waiting
  <2>2. PICK l \in {"change", "swap"} : Go(t, l) /\ pc[t] \in {"idle", "sorted"}
    BY <1>3 DEF BeginWrite, BeginSwap, Begin
  <2>3. l \in Places /\ Wanted[l] = Wanted[pc[t]]
    BY <2>2, WantedAt DEF Places
  <2> QED BY <2>1, <2>2, <2>3, WritePlaces
<1>4. ASSUME NEW t \in Threads, Wake(t)
      PROVE  PlaceInv'
  <2>1. CASE ReadWake(t)
    BY <1>4, <2>1, ReadWakePlaces DEF Wake
  <2>2. CASE WriteWake(t)
    <3>1. t \notin cond_read
      BY <2>2 DEF WriteWake, LockInv, WakeInv
    <3>2. pc[t] \in Places /\ Go(t, pc[t])
      BY <1>4 DEF Wake, PlaceInv, Go
    <3> QED BY <2>2, <3>1, <3>2, WritePlaces
  <2> QED BY <1>4, <2>1, <2>2 DEF Wake
<1>5. ASSUME NEW t \in Threads, EndLocate(t) \/ Snapshot(t) \/ DumpSizeEnd(t) \/ EndDump(t)
      PROVE  PlaceInv'
  <2>1. PICK l \in {"idle", "sorted", "dumped"} :
          /\ Go(t, l)
          /\ \/ Wanted[pc[t]] = 1 /\ Wanted[l] = 0
             \/ Wanted[pc[t]] = 2 /\ Wanted[l] = 1
    BY <1>5, WantedAt, Zenon DEF EndLocate, Snapshot, DumpSizeEnd, EndDump
  <2>2. ReadUnlock(t) /\ l \in Places
    BY <1>5 DEF EndLocate, Snapshot, DumpSizeEnd, EndDump, Places
  <2>3. Wanted[l] = Wanted[pc[t]] - 1
    BY <2>1
  <2> QED BY <2>1, <2>2, <2>3, ReadUnlockPlaces
<1>6. ASSUME NEW t \in Threads, Change(t) \/ EndSwap(t)
      PROVE  PlaceInv'
  <2>1. WriteUnlock(t) /\ Go(t, "idle") /\ pc[t] \in {"change", "swap"}
    BY <1>6 DEF Change, EndSwap
  <2>2. t \notin cond_read
    BY <2>1 DEF WriteUnlock, PlaceInv
  <2> QED BY <2>1, <2>2, WritePlaces, WantedAt DEF Places
<1>7. CASE UNCHANGED vars
  <2>1. pc' = pc /\ reading' = reading /\ cond_read' = cond_read /\ cond_write' = cond_write
        /\ writing' = writing
    BY <1>7 DEF vars, lockvars
  <2>2. \A u : Depth(u)' = Depth(u) /\ Sum(u)' = Sum(u)
    BY <2>1 DEF Depth, Sum
  <2> QED BY <2>1, <2>2 DEF PlaceInv
<1> QED BY <1>1, <1>2, <1>3, <1>4, <1>5, <1>6, <1>7 DEF Next, Step
-----------------------------------------------------------------------------
\* If everybody waits and nobody is notified, the lock is held by a waiting
\* thread, and that can only be a Dump in size().
LEMMA StuckIsDump == LockInv /\ PlaceInv => StuckOnlyInDump
<1> SUFFICES ASSUME LockInv, PlaceInv, NEW w \in Threads, Waiting(w), woken = {}
             PROVE  \/ \E t \in Threads : ~Waiting(t) /\ (t \in writing \/ Depth(t) > 0)
                    \/ \E t \in cond_read : pc[t] = "dump size"
  BY DEF StuckOnlyInDump
<1>1. reading # {} \/ writing # {}
  BY DEF Waiting, LockInv, WakeInv
<1>2. CASE writing # {}
  <2>1. PICK t \in writing : TRUE
    BY <1>2
  <2>2. t \in Threads /\ ~Waiting(t)
    BY DEF LockInv, LockTypeOK, PlaceInv, Waiting
  <2> QED BY <2>2
<1>3. CASE reading # {}
  <2>1. PICK h \in reading : TRUE
    BY <1>3
  <2>2. h[1] \in Threads /\ h \in Mine(h[1], reading)
    BY DEF LockInv, LockTypeOK, Holds, Mine
  <2>3. Depth(h[1]) > 0
    BY <2>2, DepthIsNat, PositiveIffNonempty DEF LockInv
  <2>4. CASE ~Waiting(h[1])
    BY <2>2, <2>3, <2>4
  <2>5. CASE Waiting(h[1])
    <3>1. h[1] \in cond_read
      BY <2>3, <2>5 DEF Waiting, PlaceInv
    <3>2. pc[h[1]] \in Readers /\ Sum(h[1]) = Wanted[pc[h[1]]] /\ Depth(h[1]) \in Nat
      BY <2>2, <3>1 DEF PlaceInv
    <3>3. Sum(h[1]) > 1
      BY <2>3, <3>1, <3>2 DEF Sum
    <3>4. pc[h[1]] = "dump size"
      <4>1. pc[h[1]] = "dump size" \/ Wanted[pc[h[1]]] = 1
        BY <3>2, WantedAt, Zenon DEF Readers
      <4>2. Wanted[pc[h[1]]] # 1
        BY <3>2, <3>3
      <4> QED BY <4>1, <4>2
    <3> QED BY <3>1, <3>4
  <2> QED BY <2>4, <2>5
<1> QED BY <1>1, <1>2, <1>3

(***************************************************************************)
(* Dump, ReadWriteLock: for any number of threads, descriptions and calls, *)
(* threads that wait for the lock of the ring and cannot go on wait for a  *)
(* Dump that took its read lock again in size().                           *)
(***************************************************************************)
THEOREM OnlyDumpSticks == Spec => []StuckOnlyInDump
<1>1. Init => PlaceInv
  BY PlacesInit
<1>2. LockInv /\ PlaceInv /\ [Next]_vars => PlaceInv'
  BY PlacesStep
<1>3. LockInv /\ PlaceInv => StuckOnlyInDump
  BY StuckIsDump
<1> QED BY <1>1, <1>2, <1>3, RingLockInvariant, PTL DEF Spec
-----------------------------------------------------------------------------
(***************************************************************************)
(* What is on the ring                                                     *)
(***************************************************************************)
Indices == UNION {0 .. c - 1 : c \in Capacities}
AllPoints == UNION {{<<PointOf[<<d, k>>], d>> : k \in Indices} : d \in Descs}
IsDescMap(m) == DOMAIN m \subseteq Descs /\ \A d \in DOMAIN m : m[d] \in Capacities

(***************************************************************************)
(* RingWhole says nothing of the points a Rebuild has made and not yet     *)
(* swapped in, nor of the stale ones that another may swap in before.      *)
(***************************************************************************)
RingInv ==
  /\ IsDescMap(desc_map) /\ points \subseteq AllPoints
  /\ pc \in [Threads -> Places] /\ target \in [Threads -> SUBSET AllPoints]
  /\ changes \in Nat /\ made \in 0 .. changes /\ from \in [Threads -> 0 .. changes]
  /\ (made = changes /\ points # {}) => points = PointsOf(desc_map)
  /\ \A t \in Threads :
       pc[t] \in {"sorted", "swap"} /\ from[t] = changes => target[t] = PointsOf(desc_map)

LEMMA PointFacts ==
  /\ \A p \in AllPoints : p[1] \in Nat /\ p[2] \in Descs /\ p[2] # ""
  /\ \A p, q \in AllPoints : p[1] = q[1] => p[2] = q[2]
<1>1. ASSUME NEW p \in AllPoints
      PROVE  \E d \in Descs, c \in Capacities : \E k \in 0 .. c - 1 : p = <<PointOf[<<d, k>>], d>>
  BY DEF AllPoints, Indices
<1>2. ASSUME NEW p \in AllPoints PROVE p[1] \in Nat /\ p[2] \in Descs /\ p[2] # ""
  <2>1. PICK d \in Descs, c \in Capacities : \E k \in 0 .. c - 1 : p = <<PointOf[<<d, k>>], d>>
    BY <1>1
  <2>2. PICK k \in 0 .. c - 1 : p = <<PointOf[<<d, k>>], d>>
    BY <2>1
  <2>3. PointOf[<<d, k>>] \in 0 .. MaxHash /\ MaxHash \in Nat /\ "" \notin Descs
    BY RingAssumption
  <2> DEFINE x == PointOf[<<d, k>>]
  <2>4. p = <<x, d>> /\ x \in 0 .. MaxHash /\ MaxHash \in Nat
    BY <2>2, <2>3
  <2> HIDE DEF x
  <2>5. x \in Nat
    BY <2>4
  <2>6. p[1] = x /\ p[2] = d
    BY <2>4
  <2> QED BY <2>3, <2>5, <2>6
<1>3. ASSUME NEW p \in AllPoints, NEW q \in AllPoints, p[1] = q[1] PROVE p[2] = q[2]
  <2>1. PICK d \in Descs, c \in Capacities : \E k \in 0 .. c - 1 : p = <<PointOf[<<d, k>>], d>>
    BY <1>1
  <2>2. PICK k \in 0 .. c - 1 : p = <<PointOf[<<d, k>>], d>>
    BY <2>1
  <2>3. PICK e \in Descs, b \in Capacities : \E j \in 0 .. b - 1 : q = <<PointOf[<<e, j>>], e>>
    BY <1>1
  <2>4. PICK j \in 0 .. b - 1 : q = <<PointOf[<<e, j>>], e>>
    BY <2>3
  <2>5. PointOf[<<d, k>>] = PointOf[<<e, j>>]
    BY <1>3, <2>2, <2>4
  <2>6. d = e
    BY <2>5, RingAssumption
  <2> QED BY <2>2, <2>4, <2>6
<1> QED BY <1>2, <1>3

LEMMA PointsOfType ==
  ASSUME NEW m, IsDescMap(m)
  PROVE  PointsOf(m) \subseteq AllPoints
<1> SUFFICES ASSUME NEW p \in PointsOf(m) PROVE p \in AllPoints
  OBVIOUS
<1>1. PICK d \in DOMAIN m : p \in {<<PointOf[<<d, k>>], d>> : k \in 0 .. m[d] - 1}
  BY DEF PointsOf
<1>2. PICK k \in 0 .. m[d] - 1 : p = <<PointOf[<<d, k>>], d>>
  BY <1>1
<1>3. d \in Descs /\ k \in Indices
  BY DEF IsDescMap, Indices
<1> QED BY <1>2, <1>3 DEF AllPoints

\* A set of naturals that is not empty has a least element.
LEMMA LeastExists ==
  ASSUME NEW S \in SUBSET Nat, S # {}
  PROVE  \E m \in S : \A n \in S : m <= n
<1> DEFINE R == {ss \in Nat \X Nat : ss[1] < ss[2]}
<1>1. IsWellFoundedOn(R, Nat)
  BY NatLessThanWellFounded, Zenon DEF OpToRel
<1>2. PICK x \in S : \A y \in S : <<y, x>> \notin R
  <2> HIDE DEF R
  <2> QED BY <1>1, WFMin
<1>3. \A y \in S : ~(y < x)
  BY <1>2
<1> QED BY <1>3

\* FirstPoint is what it says.
LEMMA FirstPointIs ==
  ASSUME NEW s, s \subseteq AllPoints, s # {}
  PROVE  FirstPoint(s) \in s /\ \A q \in s : FirstPoint(s)[1] <= q[1]
<1> DEFINE S == {p[1] : p \in s}
<1>1. S \in SUBSET Nat /\ S # {}
  BY PointFacts
<1>2. PICK m \in S : \A n \in S : m <= n
  <2> HIDE DEF S
  <2> QED BY <1>1, LeastExists
<1>3. \E p \in s : \A q \in s : p[1] <= q[1]
  BY <1>2
<1> QED BY <1>3 DEF FirstPoint

\* A point of s that comes first is the one that FirstPoint finds, as far as
\* its description goes.
LEMMA FirstPointUnique ==
  ASSUME NEW s, s \subseteq AllPoints, NEW p \in s, \A q \in s : p[1] <= q[1]
  PROVE  FirstPoint(s)[2] = p[2]
<1>1. FirstPoint(s) \in s /\ FirstPoint(s)[1] <= p[1] /\ p[1] <= FirstPoint(s)[1]
  BY FirstPointIs
<1> DEFINE f == FirstPoint(s)
<1>2. f \in AllPoints /\ p \in AllPoints /\ f[1] \in Nat /\ p[1] \in Nat
  BY <1>1, PointFacts
<1> HIDE DEF f
<1>3. f[1] = p[1]
  BY <1>1, <1>2 DEF f
<1>4. f[2] = p[2]
  BY <1>2, <1>3, PointFacts
<1> QED BY <1>4 DEF f

\* Locate finds the description of a point, if there is one.
LEMMA LocateFinds ==
  ASSUME NEW ps, ps \subseteq AllPoints, ps # {}, NEW h
  PROVE  Locate(ps, h) # ""
<1> DEFINE above == {p \in ps : p[1] >= h}
<1>1. CASE above # {}
  <2>1. FirstPoint(above) \in above
    BY <1>1, FirstPointIs
  <2>2. Locate(ps, h) = FirstPoint(above)[2]
    BY <1>1 DEF Locate
  <2> QED BY <2>1, <2>2, PointFacts
<1>2. CASE above = {}
  <2>1. FirstPoint(ps) \in ps
    BY FirstPointIs
  <2>2. Locate(ps, h) = FirstPoint(ps)[2]
    BY <1>2 DEF Locate
  <2> QED BY <2>1, <2>2, PointFacts
<1> QED BY <1>1, <1>2

-----------------------------------------------------------------------------
LEMMA InitRing == Init => RingInv
<1> SUFFICES ASSUME Init PROVE RingInv
  OBVIOUS
<1>1. IsDescMap(desc_map)
  BY DEF Init, IsDescMap
<1> QED BY <1>1 DEF Init, RingInv, Places

LEMMA ChangeRing ==
  ASSUME RingInv, NEW t \in Threads, Change(t)
  PROVE  RingInv'
<1>1. IsDescMap(desc_map')
  BY DEF RingInv, IsDescMap, Change
<1>2. /\ pc' = [pc EXCEPT ![t] = "idle"] /\ changes' = changes + 1
      /\ UNCHANGED <<points, target, made, from>>
  BY DEF Change, Go
<1>3. changes' \in Nat /\ made' \in 0 .. changes' /\ made' # changes'
  BY <1>2 DEF RingInv
<1>4. \A u \in Threads : from'[u] \in 0 .. changes' /\ from'[u] # changes'
  BY <1>2 DEF RingInv
<1>5. from' \in [Threads -> 0 .. changes']
  BY <1>2, <1>4 DEF RingInv
<1>6. pc' \in [Threads -> Places]
  BY <1>2 DEF RingInv, Places
<1> QED BY <1>1, <1>2, <1>3, <1>4, <1>5, <1>6 DEF RingInv

LEMMA SnapshotRing ==
  ASSUME RingInv, NEW t \in Threads, Snapshot(t)
  PROVE  RingInv'
<1>1. UNCHANGED <<desc_map, points, changes, made>>
  BY DEF Snapshot
<1>2. CASE Go(t, "idle") /\ UNCHANGED <<target, from>>
  <2>1. pc' \in [Threads -> Places] /\ pc'[t] = "idle" /\ \A u \in Threads \ {t} : pc'[u] = pc[u]
    BY <1>2 DEF RingInv, Places, Go
  <2> QED BY <1>1, <1>2, <2>1 DEF RingInv
<1>3. CASE /\ Go(t, "sorted")
           /\ target' = [target EXCEPT ![t] = PointsOf(desc_map)]
           /\ from' = [from EXCEPT ![t] = changes]
  <2>1. pc' \in [Threads -> Places] /\ \A u \in Threads \ {t} : pc'[u] = pc[u]
    BY <1>3 DEF RingInv, Places, Go
  <2>2. PointsOf(desc_map) \in SUBSET AllPoints
    BY PointsOfType DEF RingInv
  <2>3. /\ target' \in [Threads -> SUBSET AllPoints] /\ target'[t] = PointsOf(desc_map)
        /\ \A u \in Threads \ {t} : target'[u] = target[u]
    BY <1>3, <2>2 DEF RingInv
  <2>4. from' \in [Threads -> 0 .. changes] /\ \A u \in Threads \ {t} : from'[u] = from[u]
    BY <1>3 DEF RingInv
  <2>5. \A u \in Threads : pc'[u] \in {"sorted", "swap"} /\ from'[u] = changes'
          => target'[u] = PointsOf(desc_map')
    BY <1>1, <2>1, <2>3, <2>4 DEF RingInv
  <2> QED BY <1>1, <2>1, <2>3, <2>4, <2>5 DEF RingInv
<1> QED BY <1>2, <1>3 DEF Snapshot

LEMMA EndSwapRing ==
  ASSUME RingInv, NEW t \in Threads, EndSwap(t)
  PROVE  RingInv'
<1>1. /\ pc[t] = "swap" /\ pc' = [pc EXCEPT ![t] = "idle"] /\ points' = target[t]
      /\ target' = [target EXCEPT ![t] = {}] /\ made' = from[t]
      /\ from' = [from EXCEPT ![t] = 0] /\ UNCHANGED <<desc_map, changes>>
  BY DEF EndSwap, Go, Swap
<1>2. /\ pc' \in [Threads -> Places] /\ pc'[t] = "idle"
      /\ \A u \in Threads \ {t} : pc'[u] = pc[u]
  BY <1>1 DEF RingInv, Places
<1>3. /\ target' \in [Threads -> SUBSET AllPoints] /\ points' \subseteq AllPoints
      /\ \A u \in Threads \ {t} : target'[u] = target[u]
  BY <1>1 DEF RingInv
<1>4. /\ from' \in [Threads -> 0 .. changes] /\ made' \in 0 .. changes
      /\ \A u \in Threads \ {t} : from'[u] = from[u]
  BY <1>1 DEF RingInv
<1>5. made' = changes' => points' = PointsOf(desc_map')
  BY <1>1 DEF RingInv
<1>6. \A u \in Threads : pc'[u] \in {"sorted", "swap"} /\ from'[u] = changes'
        => target'[u] = PointsOf(desc_map')
  BY <1>1, <1>2, <1>3, <1>4 DEF RingInv
<1> QED BY <1>1, <1>2, <1>3, <1>4, <1>5, <1>6 DEF RingInv

LEMMA NextRing == RingInv /\ [Next]_vars => RingInv'
<1> SUFFICES ASSUME RingInv, [Next]_vars PROVE RingInv'
  OBVIOUS
\* Any other step only moves a thread, and to "swap" only from "sorted".
<1>1. ASSUME UNCHANGED data, NEW t \in Threads, NEW l \in Places, pc' = [pc EXCEPT ![t] = l],
             l \in {"sorted", "swap"} => pc[t] \in {"sorted", "swap"}
      PROVE  RingInv'
  <2>1. UNCHANGED <<desc_map, points, target, changes, made, from>>
    BY <1>1 DEF data
  <2>2. pc' \in [Threads -> Places]
    BY <1>1 DEF RingInv
  <2>3. \A u \in Threads : pc'[u] \in {"sorted", "swap"} => pc[u] \in {"sorted", "swap"}
    BY <1>1 DEF RingInv
  <2> QED BY <2>1, <2>2, <2>3 DEF RingInv
<1>2. CASE UNCHANGED <<data, pc>>
  BY <1>2 DEF data, RingInv
<1>3. ASSUME NEW t \in Threads, BeginRead(t) \/ BeginWrite(t) PROVE RingInv'
  <2>1. PICK l \in {"locate", "snapshot", "dump", "change"} : pc' = [pc EXCEPT ![t] = l]
    BY <1>3 DEF BeginRead, BeginWrite, Begin, Go
  <2>2. UNCHANGED data /\ l \in Places /\ l \notin {"sorted", "swap"}
    BY <1>3 DEF BeginRead, BeginWrite, Places
  <2> QED BY <1>1, <2>1, <2>2
<1>4. ASSUME NEW t \in Threads,
             EndLocate(t) \/ BeginSwap(t) \/ DumpSize(t) \/ DumpSizeEnd(t) \/ EndDump(t)
      PROVE  RingInv'
  <2>1. PICK l \in {"idle", "swap", "dump size", "dumped"} :
          pc' = [pc EXCEPT ![t] = l] /\ (l = "swap" => pc[t] = "sorted")
    BY <1>4 DEF EndLocate, BeginSwap, DumpSize, DumpSizeEnd, EndDump, Go
  <2>2. UNCHANGED data /\ l \in Places /\ l # "sorted"
    BY <1>4 DEF EndLocate, BeginSwap, DumpSize, DumpSizeEnd, EndDump, Places
  <2> QED BY <1>1, <2>1, <2>2
<1> QED BY <1>2, <1>3, <1>4, ChangeRing, SnapshotRing, EndSwapRing DEF Next, Step, Wake, vars, data

LEMMA RingInvariant == Spec => []RingInv
BY InitRing, NextRing, PTL DEF Spec

(***************************************************************************)
(* Rebuild: however Rebuilds and changes overlap, the ring holds what one  *)
(* Rebuild made of one desc_map_, the current one when nothing has changed *)
(* since, and Locate finds a server on it.                                 *)
(***************************************************************************)
THEOREM RingWholeTheorem == Spec => []RingWhole
<1>1. RingInv => RingWhole
  <2> SUFFICES ASSUME RingInv PROVE RingWhole
    OBVIOUS
  <2>1. \A p \in points : \A k \in 0 .. MaxHash : Locate(points, k) # ""
    BY LocateFinds DEF RingInv
  <2> QED BY <2>1 DEF RingInv, RingWhole
<1> QED BY <1>1, RingInvariant, PTL

\* The hash moves to a new point or stays with the old description.
LEMMA LocateMoves ==
  ASSUME NEW ps, NEW qs, qs \subseteq AllPoints, ps \subseteq qs, ps # {}, NEW h \in Nat
  PROVE  Locate(qs, h) = Locate(ps, h) \/ \E p \in qs \ ps : p[2] = Locate(qs, h)
<1> DEFINE up(s) == {p \in s : p[1] >= h}
<1>0. up(ps) \subseteq up(qs) /\ up(qs) \subseteq AllPoints /\ up(ps) \subseteq AllPoints
  OBVIOUS
<1>1. CASE up(qs) # {}
  <2> DEFINE f == FirstPoint(up(qs))
  <2>1. f \in up(qs) /\ \A q \in up(qs) : f[1] <= q[1]
    <3> HIDE DEF up
    <3> QED BY <1>0, <1>1, FirstPointIs
  <2>2. Locate(qs, h) = f[2]
    BY <1>1 DEF Locate
  <2> HIDE DEF f
  <2>3. CASE f \in ps
    <3>1. f \in up(ps) /\ up(ps) # {} /\ \A q \in up(ps) : f[1] <= q[1]
      BY <1>0, <2>1, <2>3
    <3>2. Locate(ps, h) = FirstPoint(up(ps))[2]
      BY <3>1 DEF Locate
    <3>3. FirstPoint(up(ps))[2] = f[2]
      <4> HIDE DEF up
      <4> QED BY <1>0, <3>1, FirstPointUnique
    <3> QED BY <2>2, <3>2, <3>3
  <2>4. CASE f \notin ps
    BY <2>1, <2>2, <2>4
  <2> QED BY <2>3, <2>4
<1>2. CASE up(qs) = {}
  <2> DEFINE f == FirstPoint(qs)
  <2>1. f \in qs /\ \A q \in qs : f[1] <= q[1]
    BY FirstPointIs
  <2>2. Locate(qs, h) = f[2] /\ Locate(ps, h) = FirstPoint(ps)[2]
    BY <1>0, <1>2 DEF Locate
  <2> HIDE DEF f
  <2>3. CASE f \in ps
    BY <2>1, <2>2, <2>3, FirstPointUnique
  <2>4. CASE f \notin ps
    BY <2>1, <2>2, <2>4
  <2> QED BY <2>3, <2>4
<1> QED BY <1>1, <1>2

(***************************************************************************)
(* Locate, Rebuild: adding servers moves keys to the new ones only, the    *)
(* promise of consistent hashing, for any number of servers and points.    *)
(***************************************************************************)
THEOREM KeysMoveToNewTheorem == Spec => KeysMoveToNew
<1>1. RingInv' => [points \subseteq points' /\ points # {} =>
       \A h \in 0 .. MaxHash :
         Locate(points', h) = Locate(points, h)
           \/ \E p \in points' \ points : p[2] = Locate(points', h)]_vars
  BY LocateMoves DEF RingInv
<1> QED BY <1>1, RingInvariant, PTL DEF KeysMoveToNew
================================================================================
