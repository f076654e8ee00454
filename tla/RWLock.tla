-------------------------------- MODULE RWLock --------------------------------
(***************************************************************************)
(* base::ReadWriteLock (base3/rwlock.h): readers and writers that wait on  *)
(* two condition variables under one mutex; waiting writers hold back new  *)
(* readers.  A step is what a thread does from taking the mutex to giving  *)
(* it back, by unlocking it or by waiting.  A thread may read-lock again   *)
(* while it holds a read lock: a hold is a thread and a depth.             *)
(***************************************************************************)
EXTENDS Naturals, FiniteSets

CONSTANTS
  Threads,
  MaxDepth    \* read locks one thread holds at a time

ASSUME ThreadsFinite == IsFiniteSet(Threads)
ASSUME MaxDepthNat == MaxDepth \in Nat

VARIABLES
  readers, writers, read_waiters, write_waiters,  \* the counters of the lock
  reading,     \* the read locks held: pairs of a thread and a depth
  writing,     \* threads that hold the write lock
  cond_read, cond_write,  \* threads in wait() of the condition variables
  woken        \* those of them that were notified and have not run yet

lockvars == <<readers, writers, read_waiters, write_waiters, reading, writing,
              cond_read, cond_write, woken>>

Holds == Threads \X (1 .. MaxDepth)
Depth(t) == Cardinality({h \in reading : h[1] = t})

LockInit ==
  /\ readers = 0 /\ writers = 0 /\ read_waiters = 0 /\ write_waiters = 0
  /\ reading = {} /\ writing = {} /\ cond_read = {} /\ cond_write = {} /\ woken = {}

Waiting(t) == t \in cond_read \cup cond_write

\* notify_one wakes some thread that waits; if none does it is lost.
NotifyOne(waiting) ==
  IF waiting \subseteq woken THEN UNCHANGED woken
  ELSE \E t \in waiting \ woken : woken' = woken \cup {t}
-----------------------------------------------------------------------------
GetRead(t) ==
  /\ readers' = readers + 1
  /\ \E d \in 1 .. MaxDepth : <<t, d>> \notin reading /\ reading' = reading \cup {<<t, d>>}

\* Mutant: a reader does not look at the writers.
BlockedReadIgnores == FALSE

BlockedRead == writers > 0 \/ write_waiters > 0

ReadLock(t) ==
  /\ ~Waiting(t) /\ t \notin writing
  /\ IF BlockedRead
     THEN /\ read_waiters' = read_waiters + 1 /\ cond_read' = cond_read \cup {t}
          /\ UNCHANGED <<readers, reading>>
     ELSE GetRead(t) /\ UNCHANGED <<read_waiters, cond_read>>
  /\ UNCHANGED <<writers, write_waiters, writing, cond_write, woken>>

\* wait() returns, after a notification or without one.
ReadWake(t) ==
  /\ t \in cond_read /\ woken' = woken \ {t}
  /\ IF BlockedRead
     THEN UNCHANGED <<readers, reading, read_waiters, cond_read>>
     ELSE /\ GetRead(t)
          /\ read_waiters' = read_waiters - 1 /\ cond_read' = cond_read \ {t}
  /\ UNCHANGED <<writers, write_waiters, writing, cond_write>>

ReadUnlock(t) ==
  /\ ~Waiting(t) /\ readers' = readers - 1
  /\ \E d \in 1 .. MaxDepth : <<t, d>> \in reading /\ reading' = reading \ {<<t, d>>}
  /\ IF write_waiters > 0 THEN NotifyOne(cond_write) ELSE UNCHANGED woken
  /\ UNCHANGED <<writers, read_waiters, write_waiters, writing, cond_read, cond_write>>

GetWrite(t) == writers' = 1 /\ writing' = writing \cup {t}
BlockedWrite == readers > 0 \/ writers > 0

WriteLock(t) ==
  /\ ~Waiting(t) /\ t \notin writing /\ \A d \in 1 .. MaxDepth : <<t, d>> \notin reading
  /\ IF BlockedWrite
     THEN /\ write_waiters' = write_waiters + 1 /\ cond_write' = cond_write \cup {t}
          /\ UNCHANGED <<writers, writing>>
     ELSE GetWrite(t) /\ UNCHANGED <<write_waiters, cond_write>>
  /\ UNCHANGED <<readers, read_waiters, reading, cond_read, woken>>

WriteWake(t) ==
  /\ t \in cond_write /\ woken' = woken \ {t}
  /\ IF BlockedWrite
     THEN UNCHANGED <<writers, writing, write_waiters, cond_write>>
     ELSE /\ GetWrite(t)
          /\ write_waiters' = write_waiters - 1 /\ cond_write' = cond_write \ {t}
  /\ UNCHANGED <<readers, read_waiters, reading, cond_read>>

\* Mutant: only readers are woken.
WriteUnlockReaders(t) ==
  /\ t \in writing /\ writing' = writing \ {t} /\ writers' = 0
  /\ woken' = woken \cup cond_read
  /\ UNCHANGED <<readers, read_waiters, write_waiters, reading, cond_read, cond_write>>

WriteUnlock(t) ==
  /\ t \in writing /\ writing' = writing \ {t} /\ writers' = 0
  /\ IF write_waiters > 0 THEN NotifyOne(cond_write)
     ELSE IF read_waiters > 0 THEN woken' = woken \cup cond_read
     ELSE UNCHANGED woken
  /\ UNCHANGED <<readers, read_waiters, write_waiters, reading, cond_read, cond_write>>
-----------------------------------------------------------------------------
Lock(t) == ReadLock(t) \/ ReadWake(t) \/ WriteLock(t) \/ WriteWake(t)
Unlock(t) == ReadUnlock(t) \/ WriteUnlock(t)
LockNext == \E t \in Threads : Lock(t) \/ Unlock(t)
LockSpec == LockInit /\ [][LockNext]_lockvars
-----------------------------------------------------------------------------
\* The variables have their types.
LockTypeOK ==
  /\ readers \in Nat /\ writers \in Nat /\ read_waiters \in Nat /\ write_waiters \in Nat
  /\ reading \subseteq Holds /\ writing \subseteq Threads
  /\ cond_read \subseteq Threads /\ cond_write \subseteq Threads
  /\ woken \subseteq cond_read \cup cond_write

(***************************************************************************)
(* ReadWriteLock: a writer is alone.  No thread writes while another reads *)
(* or writes, however waits, wake-ups and barging threads interleave.      *)
(***************************************************************************)
Exclusion ==
  /\ \A t, u \in writing : t = u
  /\ writing # {} => reading = {}

(***************************************************************************)
(* readers_, writers_, read_waiters_, write_waiters_ count the threads     *)
(* that hold the lock and that wait for it.                                *)
(***************************************************************************)
CountersMatch ==
  /\ readers = Cardinality(reading) /\ writers = Cardinality(writing)
  /\ read_waiters = Cardinality(cond_read) /\ write_waiters = Cardinality(cond_write)

(***************************************************************************)
(* notify_one, notify_all: no wake-up is lost.  When threads wait, one of  *)
(* them has been notified, or the lock is held and its release will notify.*)
(***************************************************************************)
NoLostWakeup ==
  cond_read \cup cond_write # {} /\ woken = {} => reading # {} \/ writing # {}
=============================================================================
