# Verification of bundle

Bundle packs many small files into large ones ("bundles") on a shared file
system, usually MooseFS. Writers in any number of processes allocate a bundle
under a lock file and append a record to it; the url of a record encodes where
it is, so reading needs no index. Nothing is ever overwritten or deleted. The
daemon `bundled` offers this over FastCGI, with a master that keeps a number of
worker processes running. A client of MooseFS in the repository carries the same
calls to a MooseFS master and its chunk servers without a mounted file system.

This directory holds TLA+ models of that code, TLC configurations that check
them on small instances, and TLAPS proofs. `PROJECT.json` has the exact
correspondence between definitions and source lines, and the list of hazards.

    tlc -workers 2 -config store.cfg MCBundleStore     # one run
    tlapm BundleStoreProofs.tla                        # the proofs of a module

## Inventory

| Component | State | Operations | Interaction | What makes it correct |
|---|---|---|---|---|
| `bundle::Writer`, `bundle::Reader` (`bundle.cc`, `bundle.h`) | bundle files, directories; static `last_id_`; `filename_`, `info_`, `filelock_` of a Writer | `Allocate`, `Write`, `BatchWrite`, `Release`, `Reader::Read` | processes share only the file system; threads of a process share `last_id_` | one writer to a bundle; an acknowledged record stays readable; bundles stay within their limit; `Allocate` returns |
| `FileLock` (`filelock.h`) | lock files; `locked_` | `TryLock`, `Lock` with a timeout, `Unlock`, destructor | `open(O_EXCL)` and `unlink`, of the kernel or of the MooseFS client | exclusive; not leaked; `Lock` returns |
| url encoding (`bundle.cc`, `sixty.h`, `murmurhash2.cc`) | none | two `Extract`/`Build` pairs, base sixty | used by `EnsureUrl` and `Reader::Read` | `Extract` inverts `Build` |
| HTTP actions (`bundleaction.cc`) | the request being served | `WriteAction`, `WriteRedirectAction`, `ReadAction` | called by cwf, drive a Writer | a url that is sent can be read; the response accounts for every file; Writers are released |
| cwf request loop (`frame.cc`, `stream.cc`) | action list; `quit_` of the process; request and response | accept, parse, find the action, answer, quit | threads of a child share a socket and `quit_` | every request that is taken is answered, also when told to quit |
| cwf master (`cwfmain.cc`) | `children_`, `fork_count_`, `quit_`; pending signals | first forks, `MasterCycle`, handlers of `SIGCHLD`, `SIGINT`/`SIGTERM`, `SIGUSR1`, `SIGUSR2` | fork, wait, kill; handlers interrupt the cycle, children inherit them | no more children than configured, beyond those forked for a child that was only stopped; the dead are reaped; quitting reaches everyone; signals that are passed on come to an end |
| pybundle (`bundle.py`, `filelock.py`) | as for `Writer`, in Python | `allocate`, `Writer.write`, `create`, `read`, `walk` | shares stores with the C++ code only by convention (another lock directory) | as for `Writer` |
| MooseFS client: master connection (`moose.cc`, `MasterServer`) | socket, session id, buffer of the command | connect and register, twelve commands, each resent after a lost connection | TCP to a master that forgets sessions | at most so many executions, all within the call, and the last one reported; one session; no socket left open; calls return |
| MooseFS client: names (`moose.cc`, `moose_c.cc`) | the directory tree at the master | lookup of a path, `File::Open`, `File::Create`, `mfs_mkdirs`, `mfs_mkdir`, `mfs_rmdir`, `mfs_unlink`, `mfs_stat` | `FileLock` and `base::mkdirs` of the store run on them | a lock excludes; 0 of `mfs_mkdirs` means the path is there |
| MooseFS client: files (`moose.cc`, `File`, `ChunkServer`, `Cached`) | `map_` of descriptors, positions, pool of connections; chunks and their locks | open, read, write, seek, close | TCP to the master and to chunk servers, one after the other for each chunk | each byte at its offset; what is reported read was read; chunk locks and connections are given back |
| MooseFS client: `preload.cc` | `map_`, the kernel's descriptors | `open` ... `lseek` under `LD_PRELOAD` | inodes and descriptors are the same numbers; paths go to MooseFS with their mount point | a descriptor reaches the file it was opened for |
| `base3`: read-write lock, hash ring (`rwlock.h`, `consistenthash.h`) | four counters, two conditions; `desc_map_`, `points_` | lock and unlock; `Add`, `Remove`, `Clear`, `Rebuild`, `Locate`, `Dump` | threads share a ring under the lock | writers alone, no lost wake-up; the ring is the image of one map; keys move only to new servers |
| `base3`: thread pool, message queue (`threadpool.cc`, `messagequeue.h`) | workers, queues, `busy_`, `quit_` | `Post`, `Process`, `Close`, `GetIdle`, `set_size`, `Stop` | posters, workers, a controller | run once, in order, in the end; pool bounded; closed workers end |
| `base3`: hash cache (`cache.h`) | list, map, `replacing_` | `Locate`, `Insert`, `Find`, `Erase`, `Replace` | threads under a mutex, let go in `Creator`; `Replace` is posted | no dangling iterator, nothing past the end |
| `base3`: asynchronous runner (`asyncall.*`, `baseasync.*`) | `io_service`, threads, `busy_`, `task_` | `Start`, `Stop`, `Check`, `Post` with delay and count, `SurePost` | boost.asio | counted calls run as often as asked; what is posted runs; `Stop` returns |
| `bundlewrite` | none | one write from the command line | client of `Writer` | prints the url of what it stored |
| rest of `base3`, `moosefs`, `3rdparty`, `testing` | — | utilities, protocol constants, vendored code | — | out of scope, see the end |

What is hard here: processes racing for lock files and directories; threads
racing for `last_id_`; a crash between any two system calls; calls that fail
half way through `Allocate`; `write()` that stops short; signals that arrive
between any two steps of the master, merge, come before a handler is installed,
or are passed on by children; commands that are carried out although the
answer is lost, and sent again; chunk servers that fail in the middle of a file;
condition variables that are notified too early; loops that end only if some
id is free.

## Modules

| Module | What it is |
|---|---|
| `BundleLayout` | constants and arithmetic of the on-disk layout: `Align1K`, record size, `Bid2Filename` |
| `BundleStore` | `Writer`, `Reader` and `FileLock` over the file system |
| `WriteOnce` | the abstract promise: a growing map from urls to contents |
| `BundleStoreAbs` | the refinement mapping from `BundleStore` to `WriteOnce` |
| `BundleStoreProofs` | proofs about `BundleStore` |
| `BundleHttp` | `bundled`: the request loop and the actions, composed with `BundleStore` |
| `BundleHttpProofs` | proofs about the composition |
| `BundleUrl` | urls: `Build` and `Extract`, plain and in base sixty |
| `PyBundle`, `PyBundleProofs` | the Python writer; proofs |
| `CwfMaster`, `CwfMasterProofs` | master, children and signals; proofs |
| `MooseCommands` | the commands of the MooseFS client and what a master makes of them |
| `RemoteCall` | the abstract promise of a command |
| `MooseMaster` | the connection to the master; implements `RemoteCall` |
| `MooseNames` | paths and `FileLock` over commands as `RemoteCall` promises them |
| `MooseFile` | files, chunks, blocks and the pool of connections |
| `MooseProofs` | proofs about the connection, the names and the files |
| `Preload` | the system calls under `LD_PRELOAD` |
| `RWLock`, `Continuum` | the read-write lock; the hash ring composed with it |
| `ContinuumProofs` | proofs about the lock and the ring |
| `ThreadPool`, `HashCache`, `AsyncRunner` | the other concurrent parts of `base3` |
| `ThreadPoolProofs`, `SupportProofs` | proofs about the pool; about the runner, the cache and `Preload` |
| `MCBundleStore`, `MCBundleHttp`, `MCPyBundle`, `MCCwfMaster` | constants and symmetry for TLC |
| `MCMoose`, `MCSupport` | several modules in one run: a behaviour is one of them, chosen at the start, while the others stay where they begin |

Definitions whose comment begins with "Mutant" are deliberately wrong forms of
the definition after them (a dropped `O_EXCL`, a missing `delete`); each
property fails under at least one of them. They take no part in any
specification.

### BundleStore

One action is one system call with the computation around it, so processes
interleave and die between any two. `Allocate` starts a call and draws
`last_id_`; `TryLock`, `CheckLockDir`, `TryLockAgain`, `Stat`, `MakeParent`,
`CreateBundle` and `WriteBundleHeader` are the steps of its loop in order;
`Write`, `BatchWrite` and `Release` are the operations of the Writer it
returns. `Lose` is a client that forgets its Writer (`WriteRedirectAction` does).
`Crash` ends a process and starts another: its lock files stay. `Faults` names
the calls that may fail; each failure takes the error path of the code.

A bundle file is its size and the set of its intact records; writing bytes over
a record, or truncating the file, removes it. `Reads` is what `Reader::Read`
accepts. A url is the tuple it encodes. `errno` is kept per thread, because
`Write` returns it after a short `write()`, which does not set it. `last_id_` is
per process; its increment is not atomic, so while another thread of the process
is in `Allocate` the increment may store any smaller value. `acked` and
`orphans` are history: the writes that returned 0, and lock files without owner.

Clients write a Writer once, with the size they asked for, or batch any number
of records, as the callers and tests in the repository do.

### BundleHttp

Extends `BundleStore`: each thread is also at a place of `FastcgiProc`, with a
request, the index of the next file and the response so far. Every action that
touches the store is an action of `BundleStore` together with its effect on the
request. A request is the set of actions whose `Match` accepts its url, so the
order of registration matters, and what parsing yields from it. `NullWriter` is
the death of the process by `aw->Write` on a NULL `aw`. A chunk of the response
says whether it ends its line: "failed" and its number do not
(bundleaction.cc:66), so a url after a failure comes on the same line, and
`AnswersInOrder` says of each file what the client gets for it and which urls
have a line of their own (`OwnLine`: the first file's, and those after another
url). `Finish` looks at `quit_`, as the loop does, and lets the main thread take
the process with it.

### BundleUrl

A string is a sequence of digits, separators and other characters; `Build` and
`Extract` work on it as the code does, from the last dot and the last slash.
`Digits` is the loop of `ToSixty`, which `ostream` runs with base ten, and `Sum`
that of `FromSixty`, with a character table that has -1 for what is not a digit;
both are recursive functions. `Cuts` are the places where `boost::split` cuts.
The strings, the bases and `MurmurHash2`, of which only the range is known, are
constants; `MCSupport` gives them prefixes and postfixes with and without what
`Extract` looks for, 60 and 10, and a hash that is all ones for some strings. An
`Info` is built and extracted again; `RoundTrip` says exactly for which that
gives it back; any other url is refused or means another file.

### PyBundle

The same grain for `allocate`: `Stat` comes before the lock, `Lock` creates the
lock file, `Restat` runs only if the first stat found a file, otherwise
`Folder`, `MakeFolder`, `Open` and `Header` are `create`. An exception anywhere
drops the `FileLock`, whose `__del__` unlinks the file (`Leave`).

### CwfMaster

The master's program points are those at which a handler can make a difference:
fork, wait, `push_back`, the reset of `fork_count_`, the test of `quit_`,
`pause`. `pending` is a set: a signal that is already pending is not queued.
Each child is `forked` (default handlers), `starting` (handlers inherited from
the master) or `serving` (its own). A child that was forked again also inherits
`children_`, so `SignalReopen`, and before it serves `SignalTerminate`, pass
their signals on to its elder siblings (`ChildUsr`, `ChildInt`). `Failed` stands
for the -1 of `fork()`, which `KillChildren` takes for a pid: `kill(-1)` reaches
everybody but the caller, the master too. A child that is stopped or continued
(`StopOrContinue`) raises SIGCHLD as well, since `signal()` in `InstallSignal`
does not set `SA_NOCLDSTOP`; `SignalChildren` asks for a fork without asking
waitpid, so that each such signal may make one child more than configured.

### MooseMaster, RemoteCall, MooseNames

`MooseMaster` follows `SendAndReceive` from write to read and round its loops:
`EnsureConnect` with its retries inside the retries of the command. The
connection and the master are external: either may break the connection before
or after a command is carried out, cut an answer, send NOPs, or forget the
session, `MaxTroubles` times. After a cut answer the buffer that is sent again
holds part of it, and the master makes nothing of it. `Access` never fills its
buffer, so it sends nothing; `Truncate` returns the truth value of a status.

`RemoteCall` is what is left of it for the callers: the command is carried out
some number of times, at most one more than the retries, only while the call
lasts, and the caller is told the outcome of the last one, or `ERROR_IO`.
`ImplementsRemoteCall` is the refinement. `MooseNames` is built on that promise:
each of its steps is a command that is carried out, or carried out and lost and
sent again later, or given up. Several processes look up, make and remove the
directories and the lock file of one path.

### MooseFile

A step is one command to the master or one exchange with a chunk server. A file
has its length, its bytes (each tagged with the write that put it there) and its
chunks, locked while they are written. `io` holds the locals of `Read` and
`Write`: position, bytes left, the chunk, the location that is tried. A deleted
connection that is returned to the pool is `freed`: a read through it fails and
deletes it once more, where the process may end. A file may have been written by
other clients (`Lengths`), and a `Close` truncates it (`truncate_in_close_`),
also under a read of another process.

`File::Read` retries a chunk that has no location, or whose block could not be
read, as long as the client registered less than ten seconds ago
(moose.cc:1506): `grace` is the time that is left of them. `Reconnected` sets it
when the connection to the master was lost and made again, `Tick` and the sleep
of a retry (`TryAgain`) take a second from it, and at zero the loop goes on
without the chunk (`TooLate`).

### Preload

Which file a number reaches: descriptors of the kernel and inodes in one space.
A path is the sequence of its names. `ToAbspath`, `IsTrappedFile` and
`ToInterpath` follow the code, but `open` and `creat` compute the interpath and
pass on the pathname (preload.cc:123, 140): an absolute path is looked up with
its mount point, and only a relative one whose directory is the mount point
comes out right. `Meant` is the file that the interpath names. An open may fail,
create a file, or, after a Lookup that failed, go on with whatever number was in
the inode (`OpenUnset`, moose.cc:1261).

`mixed` is the set of descriptors that went wrong: one that is an inode and a
descriptor of the kernel at once, an inode opened twice, `lseek` on a descriptor
of the kernel, which closes it, and an open that got another inode than the
path means. It is per descriptor, so that `DescriptorsSound` goes on to hold of
all the others.

### RWLock, Continuum

A step of `RWLock` is what happens under its mutex, up to a wait or the return.
A waiting thread may wake up at any time, as condition variables allow; the
threads that have been notified are `woken`, and those alone are owed a step.
Read locks nest, because `Dump` takes one inside another. `Continuum` follows
each call through its lock operations, with `Rebuild` in its two halves.
`changes`, `made` and `from` are history: which map a ring was made of.

### ThreadPool, HashCache, AsyncRunner

`ThreadPool` has a step for what happens under a hold of a mutex, cut at each
access to `quit_` and `busy_`, which none guards: the scan of `GetIdle` is a
step for each worker, with the mutex held from one to the next (`held`), and a
`Post` is the push and, outside the mutex, the notification. Only `Close` sets
`quit_` and notifies in one step. A poster that finds its worker deleted in
between has no further step. Deleting and joining is done by `Shrunk`.
`HashCache` lets go of the mutex in `Creator`, and runs `Replace` when its task
comes. `AsyncRunner` is both `asyncall` (no work object: `run()` returns when
there is nothing to do) and `baseasync` (with one), chosen at the start; the
`io_service` is external.

## Runs

Runs that pass:

| Run | Checks | Bounds |
|---|---|---|
| `store` | `LockedNow`, `LocksAccountedFor`, `OneWriterPerBundle`, `AckedReadable`, `CapacityRespected`, `AppendOnly` | 2 processes, sizes of one and two kilobytes on disk, 3 allocations, 2 writes, every call may fail, 1 crash; bundles fill up and the random ids are used; 3.3 million states |
| `store_promise` | `AllocateReturns`, `ImplementsWriteOnce` | 2 prefixes with the same ids, bundles that hold one record, 3 allocations, 1 crash, more ids than allocations |
| `http_upload` | `LocksReturned`, `UrlsReadable`, `NoRequestLost` | 2 processes, 3 requests of one or two files, reads of every url handed out, failing creates and writes, 1 SIGINT |
| `http_threads` | `AnswersInOrder` | 2 threads in one process, 2 requests, redirects too, short writes, 1 SIGINT, 1 kill, `last_id_` raced |
| `py_locks` | `OneWriter`, `LocksCollected`, `AppendsPreserve` | 2 processes, 3 bundles, 4 allocations, failing stats, short writes, 1 crash |
| `master_cycle` | `AtMostConfigured`, `AtMostOneEscapes`, `ZombiesReaped`, `MasterQuits`, `ReopenEnds` | 2 children, 1 of which dies of itself, is stopped or is continued (others die of signals), 4 forks that may fail, any number of SIGINT and SIGUSR2, 1 SIGUSR1 from outside |
| `moose` | `NothingLeaks`, `OneHolderUnlessRepeated`, `LockOwned`, `AckedStays`, `ImplementsRemoteCall`, `MkdirsMakes`, `ReadHonest`, `CallsReturn` | connection: 2 commands on 1 name, 1 resend, 1 reconnect, 3 troubles; names: 2 processes, a path of 3, 4 operations, 2 lost or failed commands; files: 2 processes, chunks of 4 bytes, blocks of 2, files of 8, of which 0 or 5 bytes are there at first, counts of 5 at 0 and at 3, 4 operations, 1 failure or lost master connection, 1 second of retries, 2 servers for each chunk |
| `support` | `Exclusion`, `StuckOnlyInDump`, `RingWhole`, `KeysMoveToNew`, `CacheSound`, `CallsCounted`, `RunnerProgress`, `DescriptorsSound`, `RoundTrip`, `OnceInOrder`, `PoolBounded`, `WorkersGoOn` | ring: 3 threads, 2 servers with 1 or 2 points, 4 calls; cache: 3 threads and keys for 2 places, 6 calls; runner: 2 functions, 2 starts, 1 to 2 threads; preload: 4 paths, 2 files in MooseFS at first (one of which has the number of a descriptor), 6 calls; pool: 2 posters, 3 messages and `set_size`s together, up to 3 workers, `Stop` at any time; urls: 5 prefixes, 8 postfixes, numbers of one and several digits |

Two processes suffice for every race over files, which is over one lock file,
one directory or one file at a time; three bundle ids beyond the full ones let
`Allocate` step over a full, a locked and an orphaned id. Sizes are chosen so
that a record takes one or two kilobytes (both sides of the alignment) and the
limits are met exactly. A count of 5 with chunks of 4 and blocks of 2 crosses
both boundaries from an aligned and from an unaligned offset. Three troubles
make a command fail, its resend fail and the reconnect within it fail. Three
threads at the lock are a reader, a writer between, and a reader that nests.
Deadlock is not checked: clients may stop calling, and the bounds end every
behaviour; where everybody could be waiting, a property says so
(`StuckOnlyInDump`, `WorkersGoOn`, `RunnerProgress`).

Properties that name an exception (`stops`, `unless`, `missed`, `broken`, `mixed`) say
how far the code goes: the exception is a way the code can be led astray, and
the property shows that there is no other.

Runs that show a disagreement between the code and what the repository says
about it (details in `PROJECT.json`, "findings"):

| Run | Property | What happens |
|---|---|---|
| `store_short_ack` | `AckedReadable` | a short `write()` is reported as `errno`, which may be 0 |
| `http_leak` | `LocksReturned` | a redirect leaves its lock file |
| `py_truncates` | `AckedReadable` | a bundle created since the first stat is truncated |
| `runner_dry` | `PostedIsCalled` | a service with nothing to do returns before the first `Post`, which is then not run (asyncall_test.cc:260-264 expects it to be) |

Other weaknesses that the models show, without a run of their own:

* bundle: with `-t 2`, threads share `last_id_`, which moves between the lock
  and the lstat (bundle.cc:506): `LockedNow` fails when two threads have one
  process. `Allocate` never returns once the ids above the daily count are full
  too (`bundle_count_per_day = 2`, `MaxId = 4`). `last_id_` runs past "another
  100" (bundle.cc:498). A short `fread` returns an `errno` nobody has set
  (bundle.cc:301). `bundlewrite` prints a url whatever `Write` returned
  (bundlewrite.cc:32). `FileLock::Unlock` leaves `locked_` set.
* bundled: `ReadAction` answers 404 twice (bundleaction.cc:151). A "failed" line
  has no end (bundleaction.cc:66).
* cwf: a child between `fork` and `push_back` is not told to quit (at most one,
  `AtMostOneEscapes`). SIGINT to a respawned child before `FastcgiMain` is
  swallowed by the handler it inherited (frame.cc:207). A child that gets no
  request never looks at `quit_` (frame.cc:181). After a failed fork
  `KillChildren` calls `kill(-1)` (cwfmain.cc:263, 377), and with children
  forked later a SIGUSR1 goes round for ever: `ReopenEnds` fails without its
  premise. A SIGUSR1 soon after the start kills a child that has yet to install
  the handler. A SIGCHLD for a child that is stopped or continued is answered by
  a fork (cwfmain.cc:156). The handlers iterate over a vector that `push_back` may be
  reallocating (cwfmain.cc:127).
* pybundle: the fallback id is reduced modulo the daily count (bundle.py:176).
* MooseFS client: an `Unlink` that is sent again after a lost answer may remove
  the lock of the next holder, and a repeated `Mknod` finds its own file. An
  iterator is used after its erasure (moose.cc:774), `EFBIG` is returned as a
  count (moose.cc:1445), `Access` sends nothing (moose.cc:589), `Truncate`
  reports a failure as success (moose.cc:578). The preloaded `open` and `creat`
  do not take the mount point off a path (preload.cc:123, 140).
* base3: `Close` may notify before a worker waits (`missed`); a worker that
  `GetIdle` returned may be deleted by `Shrunk` before the push or the
  notification of `Post` (threadpool.cc:151); `set_size` passes
  the new size as the number to erase (threadpool.cc:180); `SurePost` never
  retries (asyncall.h:127); `Dump` reads the first point of none
  (consistenthash.h:137); `FromSixty` adds the -1 of what is no digit
  (sixty.h:75); `set_max_size` does not compile when used (cache.h:115).

Fairness. `store_promise` assumes that a process in the middle of an allocation
keeps running and that a Writer is released some time, which every caller but
`WriteRedirectAction` does in the same function; nothing makes a client call.
For `CwfMaster` the kernel schedules every process and delivers every signal,
and requests keep coming to a child that serves (without them a child never
looks at `quit_`, frame.cc:181). Of a child only this is assumed, that it takes
some step as long as it can take one. `MasterQuits` is about a master that is
sent SIGINT again and again, since one handled just before `pause()` is lost. In
the MooseFS modules a process that is in a call goes on, and the master answers
what reaches it or the connection breaks; `CallsReturn` holds because retries,
delays and chunks are counted, and because the seconds in which `File::Read`
retries run out: a file that is truncated under a read makes it fail again and
again, with no failure of the servers, and nothing but the time ends that loop.
`ThreadPool` assumes that worker threads are scheduled, and a poster that has
pushed a message notifies; `AsyncRunner` that the threads in `run()` are, and
that each handler that stays ready is taken up in the end (strong fairness, as a
`Stop` may come between); `PostedIsCalled` is refuted under the same fairness.

## Proofs

Each theorem holds for every value of the constants: any number of threads,
processes, files and messages, every set of faults, every bound. Besides types
the constants are constrained as named below. Each inductive invariant was
checked with TLC on the bounds of the runs before it was proved.

| Property of a run | Theorem | Inductive invariant | Hypotheses |
|---|---|---|---|
| `LockedNow`, `OneWriterPerBundle`, `CapacityRespected`, `AppendOnly` | `AllocateLocks`, `MutualExclusion`, `BundlesBounded`, `BundlesAppendOnly` | `TypeInv /\ LockInv /\ FileInv` | one thread in a process |
| `AckedReadable`, `ImplementsWriteOnce` | `AcknowledgedIsDurable`, `StoreImplementsWriteOnce` | the same | also no short writes |
| `LocksAccountedFor` | `LocksHaveOwners` | the same | none |
| `UrlsReadable` | `SentUrlsReadable` | with `OutInv` | one thread in a process, no short writes |
| `NoRequestLost` | `QuitLosesNoRequest` | `PlaceInv` | one thread in a process, no kill from outside |
| `LocksReturned` | `LocksReturnedTheorem` | `PlaceInv /\ OrphanInv` | also `unlink` and `lstat` work, no redirects |
| `AnswersInOrder` | `AnswersInOrderTheorem` | `ReqInv /\ OutInv /\ AnswersInv` | none |
| `OneWriter`, `LocksCollected` | `OneWriterTheorem`, `LocksCollectedTheorem` | `TypeOK /\ LockInv /\ LocksCollected` | none |
| `AppendsPreserve` | `AppendsPreserveTheorem` | with `SizeInv` | none |
| `AtMostConfigured` | `AtMostConfiguredTheorem` | `CountInv` | none |
| `AtMostOneEscapes` | `AtMostOneEscapesTheorem` | `TellInv` | none |
| `ImplementsRemoteCall` | `RemoteCallTheorem` | `MasterInv` | none |
| `NothingLeaks` | `NothingLeaksTheorem` | `MasterInv`, `FileInv` | none |
| `OneHolderUnlessRepeated`, `LockOwned`, `MkdirsMakes` | `OneHolderTheorem`, `LockOwnedTheorem`, `MkdirsMakesTheorem` | `NamesInv` | none |
| `AckedStays`, `ReadHonest` | `AckedStaysTheorem`, `ReadHonestTheorem` | `FileInv` | none |
| `Exclusion` | `WritersAlone` | `LockInv` | none |
| `StuckOnlyInDump` | `OnlyDumpSticks` | with `PlaceInv` | none |
| `RingWhole`, `KeysMoveToNew` | `RingWholeTheorem`, `KeysMoveToNewTheorem` | `RingInv` | none |
| `OnceInOrder` | `PoolOnceInOrder` | `WorkerInv /\ PosterInv` | none |
| `PoolBounded` | `PoolStaysBounded` | `SizeInv` | `init_size <= max_size`, there is a poster |
| `CallsCounted`, `DescriptorsSound`, `CacheSound` | `CallsCountedTheorem`, `DescriptorsSoundTheorem`, `CacheSoundTheorem` | `RunnerInv`, `PreloadInv`, `CacheInv` | none |
| `RoundTrip` | `RoundTripTheorem` | `UrlInv` | none |

### The store and bundled

The constants are constrained by `LevelAssumption`
(`file_count_level_1 <= file_count_level_2`; the defaults are 50 and 400) and
the types in `StoreAssumption` and `HttpAssumption`. `Bid2FilenameInjective`:
ids with the same file name are equal. A lock is per id, so this is what makes a
lock cover its bundle. One thread in a process (`SingleThreaded`) is needed, as
threads of one process share `last_id_`; `store_short_ack` shows that "no short
writes" is.

`LockInv` adds to `LockedNow` that orphaned lock files stay on disk, and that
`last_id_` equals the id being locked from the first `TryLock` to the return:
the code reads `last_id_` again after the lock, so the lock covers the bundle
only because of this. `FileInv` says that records end within their file, that a
bundle about to be created does not exist and one being created is empty (or
`O_TRUNC` would destroy records), and that a Writer's offset is past every
acknowledged record of its bundle with the reserved room still there. Each is
preserved because another thread with the same bundle would hold the same lock.
`AckedReadable` and `CapacityRespected` follow step by step from it. For the
refinement, a successful write adds a url at an offset where no acknowledged
record starts, so it is new.

`HttpUsesStore`: every step of `bundled` is a step of the store or leaves it
alone, so all of the above holds of the composition. `OutInv` says that every
url in a response belongs to an acknowledged write. `PlaceInv` ties the place of
a thread in `FastcgiProc` to the place of its Writer: a request that has been
taken ends only through `Finish` or the NULL of `Allocate`, when nobody kills
the process and no other thread ends it. `OrphanInv`: without redirects no
Writer is forgotten, and without failing `unlink` and `lstat` none loses its
lock file; `http_leak` shows that the first is needed. `AnswersInv` says what
part of the response is there at each place (`Served`): the header and one chunk
for each file so far, in order, which each `WriteAction` step extends by one.
Which urls stand on a line of their own follows from it: a chunk that failed
leaves its line open.

### pybundle, the master of cwf

`LockInv` of `PyBundle` speaks of every `FileLock` from its creation to its
release, also of the one a `continue` leaves in hand while the loop goes round:
no two processes have the same, and one that is past its lock has that of its
bundle. `SizeInv` has what an append relies on: records lie within the file, the
file is empty between open and header, and the offset of a Writer is still the
size of its bundle.

`CountInv` of `CwfMaster`: the children alive, together with the SIGCHLD and the
fork that are still to come, are never more than configured and the stops that
were taken for deaths. `AtMostConfigured` alone does not survive a fork.
`TellInv`: the master knows of all its children but the one it is forking, so
once it is told to quit, that one alone can have missed it.

### The MooseFS client

`MooseProofs` is about `MCMoose`, which has the three modules side by side;
`MooseAssumption` says that a path has a component, that chunks and blocks have
a size, and that numbers are natural.

`MasterInv` holds of the connection to the master. `CommandInv`: executions so
far and attempts left are together at most those allowed. `ConnInv`: on the
connection in use there is at most one answer, it is the one to what was sent
last, and there is none while nothing was sent; a request on its way belongs to the
call in progress. So whatever `ReadCommand` reads is the answer to the last
attempt, which is what makes each step of `MooseMaster` a step of `RemoteCall`
or a stuttering step (`RemoteCallTheorem`): `Call` begins, `ServeCommand` runs,
`Recv` and `GiveUp` return. `SessionInv` counts sessions made, forgotten and
lost; `SocketInv` the sockets.

`NamesInv`: while no `Unlink` was repeated and no `File::Open` went on without
an inode, at most one process has the lock, the lock file is there for it, and
its `Unlink` goes to the directory the file is in, which cannot be removed as
long as it is not empty (`LockInv`); the components that `mfs_mkdirs` has passed
are there unless one was removed (`PathInv`).

`FileInv` carries the arithmetic of `File::Write` and `File::Read`: buffer,
chunk and block agree on the position, and each loop stays within its chunk and
within its block (`WriteAt`); the bytes of the buffer before that position are stored
(`WriteInv`), so when the loop ends all are; what a read has counted is in the
buffer (`ReadInv`). `AckInv` keeps the write in progress away from what was
acknowledged, `ChunkInv` says whose a locked chunk is, and `Connected` counts
connections. Since `M64` and `K64` are parameters, the proof covers the real
sizes, which no run can.

### The lock and the ring, the pool, the rest of base3

`LockInv` of `RWLock`, for any finite set of threads and any depth of read
locks, has the types, `CountersMatch` (the four counters of the code are the
numbers of threads that hold the lock and wait for it), `Exclusion`, and
`WakeInv`: when no writer holds the lock or waits, every waiting reader has been
notified, and when nobody holds it and writers wait, one of them has been.
`WakeInv` is what makes `WakeupsKept` inductive, since the code decides by the
counters whom to notify. `LockTypeCorrect`, `CountersCount`, `WritersAlone` and
`WakeupsKept` are its consequences.

The ring uses its lock only through the lock's operations (`RingUsesLock`), so
`LockInv` holds of it too. `OnlyDumpSticks`: if threads wait and nobody is
notified, somebody who is not waiting holds the lock, or a `Dump` waits in
`size()`. `PlaceInv` counts, for each place in the code, the read locks a thread
has or waits for (two in `Dump`'s `size()`, else at most one): a waiting thread
that holds the lock has a second one in view, and only `Dump` does. `RingInv`
adds to `RingWhole` the points that a `Rebuild` has made and not yet swapped in:
they are those of the map if nothing has changed since. `KeysMoveToNew` follows
from what `Locate` returns, the least point at or after a hash, or the least of
all (`LocateMoves`). `RingAssumption` has hashes within their range, no empty
description, and no point that two descriptions share: which of them owns it
is left open by the `sort` in the code.

`ThreadPoolProofs` is about `ThreadPool`, under its `PoolAssumption`;
`SupportProofs` instantiates it and shows that a behaviour of `MCSupport` is one
of the pool (`PoolSpec`), from which `PoolOnceInOrder` and `PoolStaysBounded`
follow. `WorkerInv` of the pool: what was posted to a worker is what it ran,
what it runs and what it has queued, in this order. `SizeInv` counts the posters
that have seen room in the pool and are about to use it, which is why the pool
may outgrow its maximum by the posters but one. `init_size <= max_size` is
needed because the constructor starts `init_size` workers whatever `max_size`
is.

`RunnerInv` has for each call how often it ran at each place, and that `busy_`
and `task_` count calls. `PreloadInv`: every descriptor that is not in `mixed`
is free, or is an inode or a descriptor of the kernel and not both, with one
holder that means the file it leads to (`Tidy`); a step on another descriptor
leaves this alone. `CacheInv`: the map leads into the list and the list into the
map, and a `Replace` that was posted finds more than `max_size` entries, unless
an `Erase` came between.

### Urls

`UrlInv` says that the url is the one `Build` makes of the Info, and what was
extracted is what `Extract` makes of that url; the rest is about these
operators, for any strings, numbers and hash function. `UrlAssumption` has
characters as numbers, bases from two up to the first separator, a hash within
its range, and no number of more than eleven digits, which is what the largest
`int64_t` has (sixty.h:38). The argument goes from the inside out.

1. Numbers. The library's induction theorems cannot be used here, as they take
   a predicate for a parameter. A natural number for which the claim fails has
   a least one below it (`LeastExists`), and that one is refuted. In this way the
   recursive functions are shown to exist (`DigitTableExists`, `SumTableExists`),
   and `DigitsFacts`: the digits of a number are digits, there is at least
   one, and they add up to it. `SixtyComesBack` is the result for sixty.h;
   `DecimalFacts` the one for `ostream` and `atol`.
2. Splitting. The cuts of a concatenation are those of its parts, shifted
   (`SepsClean`, `SepsSeparator`). A cut is found by its rank among the cuts
   (`CutOfRank`), so three or four words without separators, joined by
   separators, are what `Split` returns (`SplitThree`, `SplitFour`).
3. The url. The last slash is the one after the prefix and the last dot the one
   that begins the postfix, if the postfix is a dot and a word (`UrlParts`,
   `MiddlePart`); hence `EncodedComesBack` and `SimpleComesBack`. Conversely
   (`EncodedOnly`, `SimpleOnly`), the postfix that `Extract` returns always is a
   dot and what follows the last one; if it has a slash in it, the prefix
   comes out longer than it was; an empty prefix comes back as more than that
   from a url without a slash, and a name, which begins with no digit, as id 0.

### Only model-checked

Liveness: `AllocateReturns`, `ZombiesReaped`, `MasterQuits`, `ReopenEnds`,
`CallsReturn`, `WorkersGoOn`, `RunnerProgress`. The provers have no rules for
fairness and none for `ENABLED`.

## Not modelled

* Python's timed `acquire`: no caller uses it. `walk` only reads.
* Parsing of FastCGI parameters and forms; the byte contents of headers.
* Options, daemon and socket set-up (`connect.cc`, `spawn-fcgi.c`), http tables,
  cookies, patterns: straight lines of calls and tables.
* `bundlewrite`: one allocation, write and release in a row. `mooseclient/main.cc`
  drives the client by hand; `sockutil.cc` wraps single system calls.
* The race inside `std::vector::push_back` with a handler that iterates.
* The murmur hash: a constant operator with a range.
* The rest of `base3` (strings, numbers, logging, time, pickles, processes,
  histograms, atomic operations for other platforms), which is taken over from
  Chromium and is the greater part of the repository's lines; `moosefs`
  (constants of the protocol), vendored code, test frameworks and tests. It has
  no protocol of its own, and most of it is not called from here.
  `base::mkdirs` is an atomic step that may fail where `Allocate` calls it.

So the modules cover about a tenth of the lines of the repository, and nearly
all of the lines in which the repository's own components change shared state.

## Plan

Done, in this order: `BundleLayout`, `BundleStore` with runs and proofs,
`WriteOnce` and the refinement, `PyBundle`, `CwfMaster`, `BundleHttp` and its
proofs; then the MooseFS client with `RemoteCall` and its refinement, `Preload`,
`BundleUrl`, the concurrent parts of `base3`, the proofs about the lock and the
ring, and SIGUSR1 and SIGUSR2 in `CwfMaster`; then a theorem for every safety
property of the runs, that of the urls last. Left:

1. That the answers of `MooseNames` are among those `RemoteCall` allows.
2. Composition of `CwfMaster` with `BundleHttp`: a quit of the master that loses
   no request; and of `BundleStore` with `MooseNames`, where the lock files and
   `mkdirs` of the store are commands that may be repeated.
