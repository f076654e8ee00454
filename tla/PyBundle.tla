------------------------------ MODULE PyBundle ------------------------------
(***************************************************************************)
(* pybundle/bundle.py over pybundle/filelock.py: the Python writer of the  *)
(* bundle store, one thread in each process, one day's bundles.  Unlike    *)
(* Writer::Allocate it looks at the bundle before it locks it.  One action *)
(* is one system call with the computation around it.  An exception ends   *)
(* the call: the FileLock it held is collected, which unlinks its file.    *)
(***************************************************************************)
EXTENDS BundleLayout, FiniteSets

CONSTANTS
  Procs,               \* processes
  Lengths,             \* content lengths that are stored
  Faults,              \* system calls that may fail
  kBundleCountPerDay,
  kMaxBundleSize,
  RandMax,             \* random.randint(1, RandMax), 100 in the code
  PidRange,            \* getpid() % PidRange, 10 in the code
  MaxAllocs,           \* bound: calls of allocate
  MaxCrashes           \* bound: process crashes

ASSUME PyAssumption ==
  /\ Lengths \subseteq Nat /\ Faults \subseteq {"stat", "short"}
  /\ kBundleCountPerDay \in Nat \ {0} /\ kMaxBundleSize \in Nat
  /\ RandMax \in Nat \ {0} /\ PidRange \in Nat \ {0}
  /\ MaxAllocs \in Nat /\ MaxCrashes \in Nat

Bids == 0 .. kBundleCountPerDay - 1
None == -1

\* _last_id counts up for ever, but only _last_id % kBundleCountPerDay is used.
LastIdBound == 2 * kBundleCountPerDay + RandMax

VARIABLES
  lockfiles,  \* bids whose lock file exists
  dirs,       \* the day's directories that exist: "lock", "place"
  size,       \* st_size of each bundle file, None if there is no file
  recs,       \* records of each bundle file: [off, len, data]
  last_id,    \* per process: _last_id
  pc,         \* per process: the next system call
  w,          \* per process: locals of allocate, then the Writer
  allocs, crashes,
  acked,      \* history: [bid, off, len, data] of each write that returned length
  orphans     \* history: lock files left behind by a crash

disk == <<lockfiles, dirs, size, recs>>
vars == <<disk, last_id, pc, w, allocs, crashes, acked, orphans>>

-----------------------------------------------------------------------------
\* flock is the bid whose lock file the FileLock in hand has created; found
\* is whether the first os.stat found the file.
NoLocal == [length |-> 0, loop_count |-> 0, bid |-> 0, found |-> FALSE,
            flock |-> None, offset |-> 0]

Init ==
  /\ lockfiles = {} /\ dirs = {}
  /\ size = [b \in Bids |-> None]
  /\ recs = [b \in Bids |-> {}]
  /\ last_id = [p \in Procs |-> None]
  /\ pc = [p \in Procs |-> "idle"]
  /\ w = [p \in Procs |-> NoLocal]
  /\ allocs = 0 /\ crashes = 0 /\ acked = {} /\ orphans = {}

Goto(p, l) == pc' = [pc EXCEPT ![p] = l]

\* _last_id += 1, for an id that is given up: i is what _last_id is now.
NextLastId(p, i) ==
  last_id' = [last_id EXCEPT ![p] =
    IF i = LastIdBound THEN i + 1 - kBundleCountPerDay ELSE i + 1]

\* FileLock.release, from Writer.__del__ or FileLock.__del__.
Release(p) == lockfiles' = lockfiles \ {w[p].flock}

\* An exception leaves allocate, or the Writer is dropped.
Leave(p) == Release(p) /\ Goto(p, "idle") /\ w' = [w EXCEPT ![p] = NoLocal]
-----------------------------------------------------------------------------
allocate(p, n) ==
  /\ pc[p] = "idle"
  /\ allocs < MaxAllocs
  /\ allocs' = allocs + 1
  /\ IF last_id[p] = None
     THEN \E r \in 0 .. PidRange - 1 : last_id' = [last_id EXCEPT ![p] = r]
     ELSE UNCHANGED last_id
  /\ w' = [w EXCEPT ![p] = [NoLocal EXCEPT !.length = n]]
  /\ Goto(p, "stat")
  /\ UNCHANGED <<disk, crashes, acked, orphans>>

\* The id that an iteration of the loop starts from.
StartId(p, lc, i) ==
  IF lc >= kBundleCountPerDay
  THEN \E r \in 1 .. RandMax : i = kBundleCountPerDay + r
  ELSE i = last_id[p]

\* Top of the loop, and os.stat(fn_bundle).
Stat(p) ==
  LET n == w[p].loop_count
      lc == IF n = kBundleCountPerDay THEN n ELSE n + 1
  IN \E i \in 0 .. LastIdBound :
       LET b == i % kBundleCountPerDay IN
       /\ pc[p] = "stat"
       /\ StartId(p, lc, i)
       /\ w' = [w EXCEPT ![p] = [@ EXCEPT !.loop_count = lc, !.bid = b,
                                          !.found = (size[b] # None)]]
       /\ \/ \* an error other than ENOENT, or no room
             /\ "stat" \in Faults \/ size[b] > kMaxBundleSize
             /\ NextLastId(p, i) /\ Goto(p, "stat")
          \/ /\ size[b] <= kMaxBundleSize
             /\ last_id' = [last_id EXCEPT ![p] = i] /\ Goto(p, "lockdir")
       /\ UNCHANGED <<disk, allocs, crashes, acked, orphans>>

\* os.path.exists(dir_lock)
LockDir(p) ==
  /\ pc[p] = "lockdir"
  /\ Goto(p, IF "lock" \in dirs THEN "lock" ELSE "mklockdir")
  /\ UNCHANGED <<disk, last_id, w, allocs, crashes, acked, orphans>>

\* os.makedirs raises when the directory has come to exist.
MakeDir(p, d, next) ==
  \/ d \notin dirs /\ dirs' = dirs \cup {d} /\ Goto(p, next) /\ UNCHANGED <<lockfiles, w>>
  \/ d \in dirs /\ Leave(p) /\ UNCHANGED dirs

MakeLockDir(p) ==
  /\ pc[p] = "mklockdir"
  /\ MakeDir(p, "lock", "lock")
  /\ UNCHANGED <<size, recs, last_id, allocs, crashes, acked, orphans>>

\* Mutant: os.open without O_EXCL.
TryAcquireShared(held, b) == TRUE

\* try_acquire: os.open(O_CREAT | O_EXCL).
TryAcquire(held, b) == b \notin held

\* A new FileLock takes the place of the one a "continue" left in hand.
Lock(p) ==
  LET b == w[p].bid
      held == lockfiles \ {w[p].flock}
  IN /\ pc[p] = "lock"
     /\ \/ /\ TryAcquire(held, b)
           /\ lockfiles' = held \cup {b}
           /\ w' = [w EXCEPT ![p] = [@ EXCEPT !.flock = b]]
           /\ Goto(p, IF w[p].found THEN "restat" ELSE "folder")
           /\ UNCHANGED last_id
        \/ /\ ~TryAcquire(held, b)
           /\ lockfiles' = held
           /\ w' = [w EXCEPT ![p] = [@ EXCEPT !.flock = None]]
           /\ NextLastId(p, last_id[p]) /\ Goto(p, "stat")
     /\ UNCHANGED <<dirs, size, recs, allocs, crashes, acked, orphans>>

\* create: os.path.exists(folder), os.makedirs(folder)
Folder(p) ==
  /\ pc[p] = "folder"
  /\ Goto(p, IF "place" \in dirs THEN "open" ELSE "mkfolder")
  /\ UNCHANGED <<disk, last_id, w, allocs, crashes, acked, orphans>>

MakeFolder(p) ==
  /\ pc[p] = "mkfolder"
  /\ MakeDir(p, "place", "open")
  /\ UNCHANGED <<size, recs, last_id, allocs, crashes, acked, orphans>>

\* create: open(filename, "wb") truncates whatever is there.
Open(p) ==
  /\ pc[p] = "open"
  /\ size' = [size EXCEPT ![w[p].bid] = 0]
  /\ recs' = [recs EXCEPT ![w[p].bid] = {}]
  /\ Goto(p, "header")
  /\ UNCHANGED <<lockfiles, dirs, last_id, w, allocs, crashes, acked, orphans>>

\* create: the header is flushed when the file is closed.
Header(p) ==
  /\ pc[p] = "header"
  /\ size' = [size EXCEPT ![w[p].bid] = kBundleHeaderSize]
  /\ w' = [w EXCEPT ![p] = [@ EXCEPT !.offset = kBundleHeaderSize]]
  /\ Goto(p, "writer")
  /\ UNCHANGED <<lockfiles, dirs, recs, last_id, allocs, crashes, acked, orphans>>

\* Mutant: the size found before the lock was taken is trusted.
RestatStale(p) ==
  /\ pc[p] = "restat"
  /\ w' = [w EXCEPT ![p] = [@ EXCEPT !.offset = kBundleHeaderSize]] /\ Goto(p, "writer")
  /\ UNCHANGED <<disk, last_id, allocs, crashes, acked, orphans>>

\* Mutant: the FileLock is dropped, not released, when there is no room left.
RestatLeak(p) ==
  LET n == size[w[p].bid] IN
  /\ pc[p] = "restat"
  /\ \/ /\ n > kMaxBundleSize
        /\ NextLastId(p, last_id[p]) /\ Goto(p, "stat")
        /\ w' = [w EXCEPT ![p] = [@ EXCEPT !.flock = None]] /\ UNCHANGED lockfiles
     \/ /\ kBundleHeaderSize <= n /\ n <= kMaxBundleSize
        /\ w' = [w EXCEPT ![p] = [@ EXCEPT !.offset = n]] /\ Goto(p, "writer")
        /\ UNCHANGED <<last_id, lockfiles>>
     \/ n < kBundleHeaderSize /\ Leave(p) /\ UNCHANGED last_id
  /\ UNCHANGED <<dirs, size, recs, allocs, crashes, acked, orphans>>

\* The second os.stat, only for a bundle that the first one found, and the
\* assertion on the offset.
Restat(p) ==
  LET n == size[w[p].bid] IN
  /\ pc[p] = "restat"
  /\ \/ /\ n > kMaxBundleSize
        /\ NextLastId(p, last_id[p]) /\ Goto(p, "stat")
        /\ UNCHANGED <<w, lockfiles>>
     \/ /\ kBundleHeaderSize <= n /\ n <= kMaxBundleSize
        /\ w' = [w EXCEPT ![p] = [@ EXCEPT !.offset = n]] /\ Goto(p, "writer")
        /\ UNCHANGED <<last_id, lockfiles>>
     \/ n < kBundleHeaderSize /\ Leave(p) /\ UNCHANGED last_id
  /\ UNCHANGED <<dirs, size, recs, allocs, crashes, acked, orphans>>

\* What k bytes written at offset o leave of the records and of the size.
Surviving(rs, o, k) ==
  {r \in rs : r.off + kFileHeaderSize + r.len <= o \/ o + k <= r.off}
Larger(m, n) == IF m > n THEN m ELSE n

(***************************************************************************)
(* Writer.write: an offset that is not aligned fails the assertion; all of *)
(* the record is written and length returned, or a part of it with an      *)
(* IOError.                                                                *)
(***************************************************************************)
write(p) ==
  LET b == w[p].bid
      o == w[p].offset
      n == w[p].length
      d == Cardinality(acked) + 1
  IN /\ pc[p] = "writer"
     /\ \/ /\ o = Align1K(o)
           /\ size' = [size EXCEPT ![b] = Larger(@, o + RecordSize(n))]
           /\ recs' = [recs EXCEPT ![b] = Surviving(@, o, RecordSize(n))
                                         \cup {[off |-> o, len |-> n, data |-> d]}]
           /\ acked' = acked \cup {[bid |-> b, off |-> o, len |-> n, data |-> d]}
        \/ /\ o = Align1K(o) /\ "short" \in Faults
           /\ size' = [size EXCEPT ![b] = Larger(@, o + kFileHeaderSize)]
           /\ recs' = [recs EXCEPT ![b] = Surviving(@, o, kFileHeaderSize)]
           /\ UNCHANGED acked
        \/ o # Align1K(o) /\ UNCHANGED <<size, recs, acked>>
     /\ Goto(p, "written")
     /\ UNCHANGED <<lockfiles, dirs, last_id, w, allocs, crashes, orphans>>

\* del w
Drop(p) ==
  /\ pc[p] \in {"writer", "written"}
  /\ Leave(p)
  /\ UNCHANGED <<dirs, size, recs, last_id, allocs, crashes, acked, orphans>>

\* A process is killed: its lock file stays.
Crash(p) ==
  /\ crashes < MaxCrashes
  /\ crashes' = crashes + 1
  /\ orphans' = orphans \cup ({w[p].flock} \ {None})
  /\ last_id' = [last_id EXCEPT ![p] = None]
  /\ Goto(p, "idle") /\ w' = [w EXCEPT ![p] = NoLocal]
  /\ UNCHANGED <<disk, allocs, acked>>
-----------------------------------------------------------------------------
AllocateStep(p) ==
  \/ Stat(p) \/ LockDir(p) \/ MakeLockDir(p) \/ Lock(p)
  \/ Folder(p) \/ MakeFolder(p) \/ Open(p) \/ Header(p) \/ Restat(p)

Next ==
  \E p \in Procs :
    \/ \E n \in Lengths : allocate(p, n)
    \/ AllocateStep(p)
    \/ write(p)
    \/ Drop(p)
    \/ Crash(p)

Spec == Init /\ [][Next]_vars
-----------------------------------------------------------------------------
\* read(place, url): a record of exactly the url's length at its offset.
Reads(a) ==
  \E r \in recs[a.bid] : r.off = a.off /\ r.len = a.len /\ r.data = a.data

(***************************************************************************)
(* From the creation of the lock file to its release no two processes work *)
(* on the same bundle, and each works on the one whose lock file it made.  *)
(***************************************************************************)
Holding(p) == pc[p] \in {"folder", "mkfolder", "open", "header", "restat", "writer", "written"}

OneWriter ==
  \A p \in Procs :
    Holding(p) => /\ w[p].flock = w[p].bid /\ w[p].bid \in lockfiles \ orphans
                  /\ \A q \in Procs \ {p} : Holding(q) => w[q].bid # w[p].bid

(***************************************************************************)
(* A lock file has a live FileLock object that will unlink it, or a crash  *)
(* left it: not even a "continue" or an exception in the middle of         *)
(* allocate leaks one.                                                     *)
(***************************************************************************)
LocksCollected ==
  \A b \in lockfiles : b \in orphans \/ \E p \in Procs : w[p].flock = b

(***************************************************************************)
(* What was written stays readable until some process truncates the bundle *)
(* to create it: appends never overlap an acknowledged record.             *)
(***************************************************************************)
AppendsPreserve ==
  [][\A a \in acked : Reads(a) => (Reads(a))' \/ \E p \in Procs : Open(p)]_vars

(***************************************************************************)
(* "2 try lock 3 stat again" (docstring of allocate): the decision between *)
(* creating and appending is taken on a stat made under the lock, so an    *)
(* acknowledged write stays readable.                                      *)
(***************************************************************************)
AckedReadable == \A a \in acked : Reads(a)
=============================================================================
