---------------------------- MODULE BundleStore -----------------------------
(***************************************************************************)
(* bundle::Writer and bundle::Reader (bundle.cc) over a shared file        *)
(* system: Allocate picks a bundle under a per-id lock file (filelock.h),  *)
(* Write and BatchWrite append records to it, Release drops the lock.      *)
(*                                                                         *)
(* A thread runs one Writer at a time.  Threads of one process share the   *)
(* static last_id_; processes share only the file system.  One action is   *)
(* one system call of the code with the computation around it.             *)
(***************************************************************************)
EXTENDS BundleLayout

CONSTANTS
  Threads,               \* threads that call Writer, in all processes
  Procs,                 \* processes
  ProcOf,                \* the process a thread belongs to
  Prefixes,              \* storage prefixes ("p/20120512")
  Sizes,                 \* content sizes a client stores
  Shorts,                \* byte counts at which a write may stop short
  Faults,                \* system calls that may fail
  max_bundle_size,       \* Setting
  bundle_count_per_day,  \* Setting
  RandRange,             \* rand() % RandRange, 100 in the code
  PidRange,              \* getpid() % PidRange, 10 in the code
  MaxId,                 \* bound: the largest bundle id the model follows
  MaxAllocs,             \* bound: calls of Allocate
  MaxWrites,             \* bound: calls of Write and BatchWrite
  MaxCrashes             \* bound: process crashes

ASSUME StoreAssumption ==
  /\ ProcOf \in [Threads -> Procs]
  /\ Prefixes # {}
  /\ Sizes \subseteq Nat /\ Shorts \subseteq Nat
  /\ Faults \subseteq {"open", "unlink", "stat", "mkdirs", "create", "write", "short"}
  /\ max_bundle_size \in Nat /\ bundle_count_per_day \in Nat
  /\ RandRange \in Nat \ {0} /\ PidRange \in Nat \ {0}
  /\ MaxId \in Nat /\ MaxAllocs \in Nat
  /\ MaxWrites \in Nat /\ MaxCrashes \in Nat

Ids == 0 .. MaxId
NoId == -1

\* A bundle file is its prefix and the two-level name of its id.
FileOf(x, i) == <<x, Bid2Filename(i)>>
DirOf(x, i) == <<x, Bid2Dirname(i)>>
Files == {FileOf(x, i) : x \in Prefixes, i \in Ids}
LockDir == <<".lock", 0>>
Dirs == {DirOf(x, i) : x \in Prefixes, i \in Ids} \cup {LockDir}

\* A record that Reader::Read can find, and the url a Writer hands out.
Method == {"Write", "BatchWrite"}
Record == [off : Nat, len : Nat, data : Nat, by : Method]
Url == [prefix : Prefixes, id : Ids, off : Nat, size : Nat]

\* The first byte after the header and the content of a record.
End(r) == r.off + kFileHeaderSize + r.len

VARIABLES
  locks,      \* ids whose lock file exists
  dirs,       \* directories that exist
  files,      \* bundle files that exist
  size,       \* st_size of each bundle file
  recs,       \* intact records of each bundle file
  last_id,    \* per process: the static last_id_, NoId at first
  pc,         \* per thread: the next system call
  errno,      \* per thread: 0, or 1 for any error; no call ever clears it
  call,       \* per thread: arguments and locals of Allocate, then the Writer
  allocs, writes, crashes,  \* counters for the bounds
  acked,      \* history: <<url, data>> of every write that returned 0
  orphans     \* history: ids whose lock file has lost its owner

disk == <<locks, dirs, files, size, recs>>
local == <<pc, errno, call>>
vars == <<disk, last_id, local, allocs, writes, crashes, acked, orphans>>

-----------------------------------------------------------------------------
InAllocate == {"loop", "lockdir", "retry", "stat", "parent", "create", "bheader"}
PCs == InAllocate \cup {"idle", "writer", "written"}

(***************************************************************************)
(* The locals of a call: loop_count saturates one past the limit it is     *)
(* compared with; lock is the id in lockfile_ of the FileLock; bid is the  *)
(* id that named bundle_file (filename_ of the Writer); id, off and want   *)
(* are info_.id, info_.offset and info_.size; by is how the client writes. *)
(***************************************************************************)
Call == [prefix : Prefixes, want : Nat, loop_count : 0 .. bundle_count_per_day + 1,
         lock : Ids \cup {NoId}, bid : Ids \cup {NoId}, id : Ids \cup {NoId},
         off : Nat, by : Method]

NoCall == [prefix |-> CHOOSE x \in Prefixes : TRUE, want |-> 0, loop_count |-> 0,
           lock |-> NoId, bid |-> NoId, id |-> NoId, off |-> 0, by |-> "Write"]

\* The program points at which the thread owns a FileLock with locked_ set.
Locked(t) == pc[t] \in {"stat", "parent", "create", "bheader", "writer", "written"}
\* ... and at which bundle_file has been computed.
HasFile(t) == pc[t] \in {"parent", "create", "bheader", "writer", "written"}

BundleFile(t) == FileOf(call[t].prefix, call[t].bid)

Init ==
  /\ dirs \in {{}, {LockDir}}
  /\ locks = {} /\ files = {}
  /\ size = [f \in Files |-> 0]
  /\ recs = [f \in Files |-> {}]
  /\ last_id = [p \in Procs |-> NoId]
  /\ pc = [t \in Threads |-> "idle"]
  /\ errno = [t \in Threads |-> 0]
  /\ call = [t \in Threads |-> NoCall]
  /\ allocs = 0 /\ writes = 0 /\ crashes = 0
  /\ acked = {} /\ orphans = {}

Goto(t, l) == pc' = [pc EXCEPT ![t] = l]
SetErrno(t) == errno' = [errno EXCEPT ![t] = 1]

\* Allocate returns NULL, or the Writer is gone: the locals die.
Return(t) == Goto(t, "idle") /\ call' = [call EXCEPT ![t] = NoCall]

\* Mutant: last_id_ is not moved on when an id is given up.
BumpLastIdStays(t) == UNCHANGED last_id

(***************************************************************************)
(* last_id_ ++.  Unsynchronised: while another thread of the process is in *)
(* Allocate, the store may write back the increment of a stale load.       *)
(***************************************************************************)
Racing(t) == \E u \in Threads \ {t} : ProcOf[u] = ProcOf[t] /\ pc[u] \in InAllocate

BumpLastId(t) ==
  LET p == ProcOf[t] IN
  \E v \in Ids :
    /\ v = last_id[p] + 1 \/ (Racing(t) /\ v <= last_id[p])
    /\ last_id' = [last_id EXCEPT ![p] = v]

\* Mutant: open without O_EXCL.
LockSucceedsShared(i) == LockDir \in dirs /\ locks' = locks \cup {i}

(***************************************************************************)
(* FileLock.  Lock is open(O_EXCL | O_CREAT): it fails when the file       *)
(* exists, when the directory does not, or for a reason of its own.        *)
(* Unlock ignores what unlink returns.                                     *)
(***************************************************************************)
LockSucceeds(i) == LockDir \in dirs /\ i \notin locks /\ locks' = locks \cup {i}

LockFails(i) == LockDir \notin dirs \/ i \in locks \/ "open" \in Faults

Unlock(t) ==
  \/ locks' = locks \ {call[t].lock} /\ UNCHANGED orphans
  \/ /\ "unlink" \in Faults
     /\ orphans' = orphans \cup {call[t].lock}
     /\ UNCHANGED locks
-----------------------------------------------------------------------------
(***************************************************************************)
(* Writer::Allocate                                                        *)
(***************************************************************************)
Allocate(t, x, n) ==
  /\ pc[t] = "idle"
  /\ allocs < MaxAllocs
  /\ allocs' = allocs + 1
  /\ IF last_id[ProcOf[t]] = NoId
     THEN \E r \in Ids : r < PidRange /\ last_id' = [last_id EXCEPT ![ProcOf[t]] = r]
     ELSE UNCHANGED last_id
  /\ call' = [call EXCEPT ![t] = [NoCall EXCEPT !.prefix = x, !.want = n]]
  /\ Goto(t, "loop")
  /\ UNCHANGED <<disk, errno, writes, crashes, acked, orphans>>

\* Past the limit on iterations, every iteration draws a random id.
NextId(t, lc, i) ==
  IF lc > bundle_count_per_day
  THEN \E r \in 0 .. RandRange - 1 : i = bundle_count_per_day + r
  ELSE i = last_id[ProcOf[t]]

\* Top of the loop, up to the first TryLock.
TryLock(t) ==
  LET n == call[t].loop_count
      lc == IF n > bundle_count_per_day THEN n ELSE n + 1
  IN \E i \in Ids :
       /\ pc[t] = "loop"
       /\ NextId(t, lc, i)
       /\ last_id' = [last_id EXCEPT ![ProcOf[t]] = i]
       /\ call' = [call EXCEPT ![t] = [@ EXCEPT !.loop_count = lc, !.lock = i]]
       /\ \/ LockSucceeds(i) /\ Goto(t, "stat") /\ UNCHANGED errno
          \/ LockFails(i) /\ Goto(t, "lockdir") /\ SetErrno(t) /\ UNCHANGED locks
       /\ UNCHANGED <<dirs, files, size, recs, allocs, writes, crashes, acked, orphans>>

\* Mutant: a lock directory that was just made counts as the lock.
CheckLockDirNoRetry(t) ==
  /\ pc[t] = "lockdir"
  /\ dirs' = dirs \cup {LockDir} /\ Goto(t, "stat")
  /\ UNCHANGED <<locks, files, size, recs, last_id, errno, call,
                 allocs, writes, crashes, acked, orphans>>

\* access(lock_dir), and mkdirs if it is missing.
CheckLockDir(t) ==
  /\ pc[t] = "lockdir"
  /\ \/ dirs' = dirs \cup {LockDir} /\ Goto(t, "retry") /\ UNCHANGED call
     \/ LockDir \notin dirs /\ "mkdirs" \in Faults /\ Return(t) /\ UNCHANGED dirs
  /\ UNCHANGED <<locks, files, size, recs, last_id, errno,
                 allocs, writes, crashes, acked, orphans>>

\* The second TryLock; the id is given up when it fails too.
TryLockAgain(t) ==
  /\ pc[t] = "retry"
  /\ \/ LockSucceeds(call[t].lock) /\ Goto(t, "stat") /\ UNCHANGED <<last_id, errno>>
     \/ /\ LockFails(call[t].lock)
        /\ BumpLastId(t) /\ Goto(t, "loop") /\ SetErrno(t) /\ UNCHANGED locks
  /\ UNCHANGED <<dirs, files, size, recs, call,
                 allocs, writes, crashes, acked, orphans>>

\* Mutant: the limit is checked against the bytes stored so far.
FullAlready(f, n) == size[f] > max_bundle_size

Full(f, n) == size[f] + RecordSize(n) > max_bundle_size

\* lstat of the bundle file that last_id_ names now.
Stat(t) ==
  LET i == last_id[ProcOf[t]]
      f == FileOf(call[t].prefix, i)
  IN /\ pc[t] = "stat"
     /\ \/ \* no room: next id
           /\ f \in files /\ Full(f, call[t].want)
           /\ BumpLastId(t) /\ Unlock(t) /\ Goto(t, "loop")
           /\ UNCHANGED <<errno, call>>
        \/ \* append to it
           /\ f \in files /\ ~Full(f, call[t].want)
           /\ call' = [call EXCEPT ![t] = [@ EXCEPT !.bid = i, !.id = i, !.off = size[f]]]
           /\ Goto(t, "writer")
           /\ UNCHANGED <<errno, last_id, locks, orphans>>
        \/ \* ENOENT
           /\ f \notin files
           /\ call' = [call EXCEPT ![t] = [@ EXCEPT !.bid = i]]
           /\ Goto(t, "parent") /\ SetErrno(t)
           /\ UNCHANGED <<last_id, locks, orphans>>
        \/ \* any other error: next id, and the FileLock is not deleted
           /\ "stat" \in Faults
           /\ BumpLastId(t) /\ orphans' = orphans \cup {call[t].lock}
           /\ Goto(t, "loop") /\ SetErrno(t)
           /\ UNCHANGED <<locks, call>>
     /\ UNCHANGED <<dirs, files, size, recs, allocs, writes, crashes, acked>>

\* Mutant: the early return for a failed mkdirs does not delete the FileLock.
MakeParentLeak(t) ==
  LET d == DirOf(call[t].prefix, call[t].bid) IN
  /\ pc[t] = "parent"
  /\ \/ dirs' = dirs \cup {d} /\ Goto(t, "create") /\ UNCHANGED call
     \/ d \notin dirs /\ "mkdirs" \in Faults /\ Return(t) /\ UNCHANGED dirs
  /\ UNCHANGED <<files, size, recs, locks, orphans, last_id, errno,
                 allocs, writes, crashes, acked>>

\* access(parent), and mkdirs if it is missing.
MakeParent(t) ==
  LET d == DirOf(call[t].prefix, call[t].bid) IN
  /\ pc[t] = "parent"
  /\ \/ /\ dirs' = dirs \cup {d}
        /\ Goto(t, "create") /\ UNCHANGED <<call, locks, orphans>>
     \/ /\ d \notin dirs /\ "mkdirs" \in Faults
        /\ Unlock(t) /\ Return(t) /\ UNCHANGED dirs
  /\ UNCHANGED <<files, size, recs, last_id, errno, allocs, writes, crashes, acked>>

\* CreateBundle: open(O_CREAT | O_TRUNC).
CreateBundle(t) ==
  LET f == BundleFile(t) IN
  /\ pc[t] = "create"
  /\ \/ /\ files' = files \cup {f}
        /\ size' = [size EXCEPT ![f] = 0]
        /\ recs' = [recs EXCEPT ![f] = {}]
        /\ Goto(t, "bheader") /\ UNCHANGED <<errno, call, locks, orphans>>
     \/ /\ "create" \in Faults
        /\ Unlock(t) /\ Return(t) /\ SetErrno(t) /\ UNCHANGED <<files, size, recs>>
  /\ UNCHANGED <<dirs, last_id, allocs, writes, crashes, acked>>

\* CreateBundle: write of the bundle header; Allocate returns the Writer.
WriteBundleHeader(t) ==
  LET f == BundleFile(t) IN
  /\ pc[t] = "bheader"
  /\ \/ /\ size' = [size EXCEPT ![f] = kBundleHeaderSize]
        /\ call' = [call EXCEPT ![t] =
             [@ EXCEPT !.id = last_id[ProcOf[t]], !.off = kBundleHeaderSize]]
        /\ Goto(t, "writer") /\ UNCHANGED <<errno, locks, orphans>>
     \/ /\ "create" \in Faults
        /\ \E k \in Shorts \cup {0} :
             k < kBundleHeaderSize /\ size' = [size EXCEPT ![f] = k]
        /\ Unlock(t) /\ Return(t) /\ SetErrno(t)
  /\ UNCHANGED <<dirs, files, recs, last_id, allocs, writes, crashes, acked>>
-----------------------------------------------------------------------------
(***************************************************************************)
(* Writer::Write, BatchWrite, Release                                      *)
(***************************************************************************)
\* What k bytes written at offset o leave of the records of a file.
Surviving(rs, o, k) == {r \in rs : End(r) <= o \/ o + k <= r.off}

\* Mutant: the url points at the content.
UrlOfContent(t, n) == [prefix |-> call[t].prefix, id |-> call[t].id,
                       off |-> call[t].off + kFileHeaderSize, size |-> n]

UrlOf(t, n) == [prefix |-> call[t].prefix, id |-> call[t].id,
                off |-> call[t].off, size |-> n]

\* Mutant: Write opens the bundle with O_TRUNC.
PutBytesTrunc(t, n, b, k) ==
  LET f == BundleFile(t)
      r == [off |-> call[t].off, len |-> n, data |-> writes + 1, by |-> b]
  IN /\ size' = [size EXCEPT ![f] = call[t].off + k]
     /\ recs' = [recs EXCEPT ![f] = IF kFileHeaderSize + n <= k THEN {r} ELSE {}]

\* write() puts down the first k bytes of a record of n bytes of content.
PutBytes(t, n, b, k) ==
  LET f == BundleFile(t)
      o == call[t].off
      r == [off |-> o, len |-> n, data |-> writes + 1, by |-> b]
  IN /\ size' = [size EXCEPT ![f] = IF o + k > @ THEN o + k ELSE @]
     /\ recs' = [recs EXCEPT ![f] =
          Surviving(@, o, k) \cup (IF kFileHeaderSize + n <= k THEN {r} ELSE {})]

(***************************************************************************)
(* The static Write: open, lseek and one write(), with its result.  All of *)
(* the record is written and 0 is returned; or write() stops short and     *)
(* errno is returned, which that call has not set; or a call fails.        *)
(***************************************************************************)
WriteRecord(t, n, b, ret) ==
  /\ writes < MaxWrites
  /\ writes' = writes + 1
  /\ \/ ret = 0 /\ PutBytes(t, n, b, RecordSize(n)) /\ UNCHANGED errno
     \/ /\ "short" \in Faults /\ ret = errno[t]
        /\ \E k \in Shorts : k < RecordSize(n) /\ PutBytes(t, n, b, k)
        /\ UNCHANGED errno
     \/ "write" \in Faults /\ ret = 1 /\ SetErrno(t) /\ UNCHANGED <<size, recs>>
  /\ acked' = IF ret = 0 THEN acked \cup {<<UrlOf(t, n), writes + 1>>} ELSE acked
  /\ UNCHANGED <<locks, dirs, files, last_id, allocs, crashes, orphans>>

\* Clients write a Writer once, with the size they allocated.
Write(t) ==
  /\ pc[t] = "writer" /\ call[t].by = "Write"
  /\ \E ret \in {0, 1} : WriteRecord(t, call[t].want, "Write", ret)
  /\ Goto(t, "written") /\ UNCHANGED call

\* Mutant: the offset is not moved for the next record.
NextOffsetStays(t, n, ret) == call[t].off

\* The offset moves past the record when Write has returned 0.
NextOffset(t, n, ret) == IF ret = 0 THEN call[t].off + RecordSize(n) ELSE call[t].off

BatchWrite(t, n) ==
  /\ pc[t] = "writer"
  /\ \E ret \in {0, 1} :
       /\ WriteRecord(t, n, "BatchWrite", ret)
       /\ call' = [call EXCEPT ![t] =
            [@ EXCEPT !.want = n, !.by = "BatchWrite", !.off = NextOffset(t, n, ret)]]
  /\ UNCHANGED pc

Release(t) ==
  /\ pc[t] \in {"writer", "written"}
  /\ Unlock(t) /\ Return(t)
  /\ UNCHANGED <<dirs, files, size, recs, last_id, errno,
                 allocs, writes, crashes, acked>>

\* A client lets go of a Writer it has written, without Release or delete
\* (WriteRedirectAction returns with aw still allocated).
Lose(t) ==
  /\ pc[t] = "written"
  /\ orphans' = orphans \cup {call[t].lock} /\ Return(t)
  /\ UNCHANGED <<disk, last_id, errno, allocs, writes, crashes, acked>>

(***************************************************************************)
(* A process dies, at any point; the lock files of its threads stay.  The  *)
(* process started in its place has a last_id_ and an errno of its own.    *)
(***************************************************************************)
Crash(p) ==
  /\ crashes < MaxCrashes
  /\ crashes' = crashes + 1
  /\ orphans' = orphans \cup {call[t].lock : t \in {u \in Threads : ProcOf[u] = p /\ Locked(u)}}
  /\ last_id' = [last_id EXCEPT ![p] = NoId]
  /\ pc' = [t \in Threads |-> IF ProcOf[t] = p THEN "idle" ELSE pc[t]]
  /\ errno' = [t \in Threads |-> IF ProcOf[t] = p THEN 0 ELSE errno[t]]
  /\ call' = [t \in Threads |-> IF ProcOf[t] = p THEN NoCall ELSE call[t]]
  /\ UNCHANGED <<disk, allocs, writes, acked>>
-----------------------------------------------------------------------------
AllocateStep(t) ==
  \/ TryLock(t) \/ CheckLockDir(t) \/ TryLockAgain(t)
  \/ Stat(t) \/ MakeParent(t) \/ CreateBundle(t) \/ WriteBundleHeader(t)

Next ==
  \/ \E t \in Threads :
       \/ \E x \in Prefixes, n \in Sizes : Allocate(t, x, n)
       \/ AllocateStep(t)
       \/ Write(t)
       \/ \E n \in Sizes : BatchWrite(t, n)
       \/ Release(t) \/ Lose(t)
  \/ \E p \in Procs : Crash(p)

Spec == Init /\ [][Next]_vars

\* A thread inside Allocate keeps running, and a Writer is released in the
\* end; nothing makes a client allocate or write.
FairSpec == Spec /\ \A t \in Threads : WF_vars(AllocateStep(t)) /\ WF_vars(Release(t))
-----------------------------------------------------------------------------
(***************************************************************************)
(* Reader::Read(url): the file is opened without a lock, the header at the *)
(* offset must be that of a record at least as long as the url says.       *)
(***************************************************************************)
Reads(u, d) ==
  LET f == FileOf(u.prefix, u.id) IN
  /\ f \in files
  /\ \E r \in recs[f] : r.off = u.off /\ u.size <= r.len /\ r.data = d

\* The variables have their types.
TypeOK ==
  /\ locks \in SUBSET Ids
  /\ dirs \in SUBSET Dirs
  /\ files \in SUBSET Files
  /\ size \in [Files -> Nat]
  /\ recs \in [Files -> SUBSET Record]
  /\ last_id \in [Procs -> Ids \cup {NoId}]
  /\ pc \in [Threads -> PCs]
  /\ errno \in [Threads -> {0, 1}]
  /\ call \in [Threads -> Call]
  /\ allocs \in 0 .. MaxAllocs
  /\ writes \in 0 .. MaxWrites
  /\ crashes \in 0 .. MaxCrashes
  /\ acked \in SUBSET (Url \X Nat)
  /\ orphans \in SUBSET Ids

(***************************************************************************)
(* "2 check bundle file (locked now)" (Allocate): from the lstat until     *)
(* Release, the lock file of the very bundle that the thread looks at or   *)
(* writes exists, and no other live thread counts on the same lock file.   *)
(***************************************************************************)
LockedNow ==
  /\ \A t \in Threads :
       Locked(t) => /\ call[t].lock \in locks \ orphans
                    /\ pc[t] = "stat" => last_id[ProcOf[t]] = call[t].lock
                    /\ HasFile(t) => call[t].bid = call[t].lock
                    /\ pc[t] \in {"writer", "written"} => call[t].id = call[t].lock
  /\ \A t, u \in Threads :
       Locked(t) /\ Locked(u) /\ t # u => call[t].lock # call[u].lock

(***************************************************************************)
(* The inductive strengthening of LockedNow for processes with one thread: *)
(* an orphaned lock file stays on disk, and last_id_ does not move between *)
(* the first TryLock on an id and the return from Allocate.                *)
(***************************************************************************)
SingleThreaded == \A t, u \in Threads : ProcOf[t] = ProcOf[u] => t = u

LastIdIsLock ==
  \A t \in Threads :
    pc[t] \in InAllocate \ {"loop"} => last_id[ProcOf[t]] = call[t].lock

LockInv == LockedNow /\ orphans \subseteq locks /\ LastIdIsLock

(***************************************************************************)
(* Two live threads never have the same bundle file in hand, whatever the  *)
(* processes, ids and prefixes: what the lock files are for.               *)
(***************************************************************************)
OneWriterPerBundle ==
  \A t, u \in Threads :
    HasFile(t) /\ HasFile(u) /\ t # u => BundleFile(t) # BundleFile(u)

(***************************************************************************)
(* A write that returned 0 can be read back with its url, then and for     *)
(* ever after: no later create, append, retry or crash damages it.         *)
(***************************************************************************)
AckedReadable == \A a \in acked : Reads(a[1], a[2])

(***************************************************************************)
(* What the locks protect, as an inductive invariant: no record reaches    *)
(* past the end of its file; a bundle about to be created does not exist,  *)
(* one being created is empty, and a Writer's offset is past all records   *)
(* of its bundle, except for what its own failed BatchWrite has left, with *)
(* the room reserved that Allocate checked.                                *)
(***************************************************************************)
Acked(r) == \E a \in acked : a[2] = r.data

RecordsInFile ==
  /\ \A f \in Files : /\ f \notin files => recs[f] = {} /\ size[f] = 0
                      /\ \A r \in recs[f] : End(r) <= size[f] /\ r.data <= writes
  /\ \A a \in acked : a[2] <= writes

AtEnd(t) ==
  LET f == BundleFile(t)
      o == call[t].off
  IN /\ pc[t] \in {"parent", "create"} => f \notin files
     /\ pc[t] = "bheader" => f \in files /\ size[f] = 0 /\ recs[f] = {}
     /\ pc[t] = "writer" =>
          /\ f \in files
          /\ \A r \in recs[f] : End(r) <= o \/ ~Acked(r)
          /\ call[t].by = "Write" =>
               o = kBundleHeaderSize \/ o + RecordSize(call[t].want) <= max_bundle_size

WriterAtEnd == \A t \in Threads : AtEnd(t)

FileInv == RecordsInFile /\ WriterAtEnd

(***************************************************************************)
(* max_bundle_size: a record that is not the first of a new bundle, nor    *)
(* one of a batch, ends within the limit: the check Allocate makes on      *)
(* st_size still holds when the record is written.                         *)
(***************************************************************************)
CapacityRespected ==
  \A f \in Files : \A r \in recs[f] :
    \/ r.off = kBundleHeaderSize \/ r.by = "BatchWrite"
    \/ r.off + RecordSize(r.len) <= max_bundle_size

(***************************************************************************)
(* Every lock file on disk has a live owner that will remove it, unless a  *)
(* crash, a failed unlink, a failed lstat or a client that dropped its     *)
(* Writer has orphaned it: Allocate itself loses ids in no other way.      *)
(***************************************************************************)
LocksAccountedFor ==
  \A i \in locks : i \in orphans \/ \E t \in Threads : Locked(t) /\ call[t].lock = i

(***************************************************************************)
(* A bundle file is append-only: no step removes or changes a record whose *)
(* write has returned 0, shrinks the file or removes it (CreateBundle      *)
(* truncates and Write seeks, both only ever where nothing of worth is).   *)
(***************************************************************************)
KeepsAcked ==
  \A f \in Files :
    /\ \A r \in recs[f] : Acked(r) => r \in recs'[f]
    /\ size[f] <= size'[f]
    /\ f \in files => f \in files'

AppendOnly == [][KeepsAcked]_vars

(***************************************************************************)
(* Allocate returns (a Writer or NULL) to a process that stays up.         *)
(***************************************************************************)
AllocateReturns ==
  \A t \in Threads : pc[t] = "loop" ~> pc[t] \notin InAllocate
=============================================================================
