------------------------------ MODULE MooseNames ------------------------------
(***************************************************************************)
(* The name space of MooseFS as bundle uses it: FileLock over mfs_open and *)
(* mfs_unlink (bundle/filelock.h, mooseclient/moose_c.cc), mfs_mkdirs,     *)
(* mfs_rmdir, mfs_stat and mfs_access, by processes that share one master. *)
(* There is one path of Depth components: directories, and the lock file.  *)
(*                                                                         *)
(* A step is one command to the master, as RemoteCall promises it: it may  *)
(* be carried out with its answer lost, to be sent again later (Lost), and *)
(* it may come to ERROR_IO.                                                *)
(***************************************************************************)
EXTENDS Naturals, FiniteSets

CONSTANTS
  Procs,
  Depth,             \* components of the path, the last is the lock file
  Delay, Timeout,    \* delay_ and timeout_ of a FileLock
  MaxOps,            \* bound: operations of all processes
  MaxFaults,         \* bound: answers lost and commands given up
  Faults             \* the faults that happen: "lost", "error"

VARIABLES
  tree,      \* the inode of each component, 0 if it does not exist
  made,      \* inodes given out
  op,        \* what a process is doing: the outermost call, "none" between calls
  pc,        \* its next command
  at, goal,  \* Lookup of a path: the component it is at and the last one
  inode,     \* Lookup: the inode of the component before
  dir,       \* mfs_mkdirs: the component being made
  delay,     \* FileLock::Lock: the delay before the next attempt
  locked,    \* locked_
  result,    \* what mfs_mkdirs returned last
  gone,      \* a directory was removed since the call began
  broken,    \* history: what broke the promise of open(O_EXCL) and unlink
  ops, faults

procs == <<op, pc, at, goal, inode, dir, delay, locked, result>>
vars == <<tree, made, procs, gone, broken, ops, faults>>

Root == 1
Components == 1 .. Depth
Commands == {"lookup", "mknod", "open", "mkdir", "unlink", "rmdir"}

Init ==
  /\ \/ tree = [c \in Components |-> 0] /\ made = Root
     \/ tree = [c \in Components |-> IF c < Depth THEN Root + c ELSE 0] /\ made = Root + Depth - 1
  /\ op = [p \in Procs |-> "none"] /\ pc = [p \in Procs |-> "none"]
  /\ at = [p \in Procs |-> 1] /\ goal = [p \in Procs |-> 0]
  /\ inode = [p \in Procs |-> Root] /\ dir = [p \in Procs |-> 0]
  /\ delay = [p \in Procs |-> 0] /\ locked = [p \in Procs |-> FALSE]
  /\ result = [p \in Procs |-> "none"] /\ gone = [p \in Procs |-> FALSE]
  /\ broken = {} /\ ops = 0 /\ faults = 0
-----------------------------------------------------------------------------
(***************************************************************************)
(* The master                                                              *)
(***************************************************************************)
Parent(c) == IF c = 1 THEN Root ELSE tree[c - 1]
Exists(i, c) == i = Parent(c) /\ tree[c] # 0
Empty(c) == c = Depth \/ tree[c + 1] = 0

Creates(cmd) == cmd \in {"mknod", "mkdir"}
Removes(cmd) == cmd \in {"unlink", "rmdir"}

\* The answer to cmd on component c of the directory i.
Answer(cmd, i, c) ==
  IF Creates(cmd)
  THEN IF i # Parent(c) THEN "ENOENT" ELSE IF tree[c] # 0 THEN "EEXIST" ELSE "OK"
  ELSE IF ~Exists(i, c) THEN "ENOENT"
  ELSE IF cmd = "rmdir" /\ ~Empty(c) THEN "ENOTEMPTY" ELSE "OK"

\* The command is carried out.
CarryOut(cmd, i, c) ==
  IF Answer(cmd, i, c) = "OK" /\ Creates(cmd)
  THEN /\ made' = made + 1 /\ tree' = [tree EXCEPT ![c] = made + 1]
       /\ UNCHANGED gone
  ELSE IF Answer(cmd, i, c) = "OK" /\ Removes(cmd)
  THEN /\ tree' = [tree EXCEPT ![c] = 0] /\ UNCHANGED made
       /\ gone' = IF cmd = "rmdir" THEN [p \in Procs |-> TRUE] ELSE gone
  ELSE UNCHANGED <<tree, made, gone>>

\* The component that the pending command of p is about.
Target(p) == CASE pc[p] = "lookup" -> at[p]
               [] pc[p] = "mkdir" -> dir[p]
               [] pc[p] = "rmdir" -> Depth - 1
               [] OTHER -> Depth

\* The command comes to st: an answer, or ERROR_IO.
RPC(p, st) ==
  \/ /\ st = Answer(pc[p], inode[p], Target(p))
     /\ CarryOut(pc[p], inode[p], Target(p))
     /\ UNCHANGED faults
  \/ /\ st = "ERROR_IO" /\ "error" \in Faults
     /\ faults < MaxFaults /\ faults' = faults + 1
     /\ UNCHANGED <<tree, made, gone>>
Statuses == {"OK", "ENOENT", "EEXIST", "ENOTEMPTY", "ERROR_IO"}

\* The answer is lost: SendAndReceive will send the command again.
Lost(p) ==
  /\ pc[p] \in Commands \ {"open"} /\ "lost" \in Faults
  /\ faults < MaxFaults /\ faults' = faults + 1
  /\ CarryOut(pc[p], inode[p], Target(p))
  /\ broken' = IF /\ pc[p] \in {"mknod", "unlink"}
                  /\ Answer(pc[p], inode[p], Target(p)) = "OK"
               THEN broken \cup {pc[p]} ELSE broken
  /\ UNCHANGED <<procs, ops>>
-----------------------------------------------------------------------------
(***************************************************************************)
(* Steps shared by the operations                                          *)
(***************************************************************************)
\* MasterServer::Lookup(path) begins at the root; the path of the root itself
\* needs no command.
Lookup(p, n) ==
  /\ pc' = [pc EXCEPT ![p] = "lookup"]
  /\ at' = [at EXCEPT ![p] = 1] /\ goal' = [goal EXCEPT ![p] = n]
  /\ inode' = [inode EXCEPT ![p] = Root]

\* The lookup of the parent of component c comes before cmd on c.
InParent(p, c, cmd) ==
  IF c = 1
  THEN /\ pc' = [pc EXCEPT ![p] = cmd]
       /\ inode' = [inode EXCEPT ![p] = Root] /\ UNCHANGED <<at, goal>>
  ELSE Lookup(p, c - 1)

Go(p, cmd) == pc' = [pc EXCEPT ![p] = cmd]

\* The call is over, and the locals die.
Done(p) ==
  /\ op' = [op EXCEPT ![p] = "none"] /\ pc' = [pc EXCEPT ![p] = "none"]
  /\ at' = [at EXCEPT ![p] = 1] /\ goal' = [goal EXCEPT ![p] = 0]
  /\ inode' = [inode EXCEPT ![p] = Root] /\ dir' = [dir EXCEPT ![p] = 0]
  /\ delay' = [delay EXCEPT ![p] = 0]

Begin(p, o) ==
  /\ op[p] = "none" /\ ops < MaxOps /\ ops' = ops + 1
  /\ op' = [op EXCEPT ![p] = o]
  /\ result' = [result EXCEPT ![p] = "none"] /\ gone' = [gone EXCEPT ![p] = FALSE]
  /\ UNCHANGED <<tree, made, locked, broken, faults>>
-----------------------------------------------------------------------------
(***************************************************************************)
(* FileLock                                                                *)
(***************************************************************************)
\* Lock(name) is mfs_open(O_RDWR | O_EXCL | O_CREAT): File::Open looks the
\* path up.  TryLock is a Lock whose delay has run out.
Lock(p, d) ==
  /\ ~locked[p] /\ Begin(p, "open") /\ Lookup(p, Depth)
  /\ delay' = [delay EXCEPT ![p] = d] /\ UNCHANGED dir

\* Mutant: the delay does not grow.
RetrySame(p) ==
  IF delay[p] < Timeout
  THEN /\ op' = [op EXCEPT ![p] = "open"] /\ Lookup(p, Depth)
       /\ UNCHANGED <<delay, dir, locked>>
  ELSE Done(p) /\ UNCHANGED locked

\* The attempt failed: Lock sleeps and doubles its delay, or gives up.
Retry(p) ==
  IF delay[p] < Timeout
  THEN /\ op' = [op EXCEPT ![p] = "open"] /\ Lookup(p, Depth)
       /\ delay' = [delay EXCEPT ![p] = @ + @] /\ UNCHANGED <<dir, locked>>
  ELSE Done(p) /\ UNCHANGED locked

\* The file is closed, and locked_ is set.
Locked(p) == Done(p) /\ locked' = [locked EXCEPT ![p] = TRUE]

\* ~FileLock: mfs_unlink looks the directory up and removes the file.
Unlock(p) ==
  /\ locked[p] /\ Begin(p, "unlock") /\ InParent(p, Depth, "unlink")
  /\ UNCHANGED <<dir, delay>>

\* File::Create looks the parent up.
Create(p) ==
  /\ op' = [op EXCEPT ![p] = "create"] /\ InParent(p, Depth, "mknod")
  /\ UNCHANGED <<dir, delay, locked>>

\* Mutant: a file that exists is opened, as without O_EXCL.
OpenLookupShares(p, st) ==
  (IF st = "ENOENT" THEN Create(p) ELSE Locked(p)) /\ UNCHANGED broken

\* File::Open with the result of its Lookup.  Another error than ENOENT leaves
\* inode without a value, and the file of that number is opened.
OpenLookup(p, st) ==
  CASE st = "ENOENT" -> Create(p) /\ UNCHANGED broken
    [] st = "OK" -> Retry(p) /\ UNCHANGED broken
    [] OTHER -> Go(p, "open") /\ UNCHANGED <<op, at, goal, inode, dir, delay, locked, broken>>

\* MasterServer::Open of that inode: it exists or not.
OpenGarbage(p) ==
  /\ pc[p] = "open"
  /\ \/ Locked(p) /\ broken' = broken \cup {"open"}
     \/ Retry(p) /\ UNCHANGED broken
  /\ UNCHANGED <<tree, made, result, gone, ops, faults>>

Mknod(p) ==
  /\ pc[p] = "mknod"
  /\ \E st \in Statuses :
       /\ RPC(p, st)
       /\ IF st = "OK" THEN Locked(p) ELSE Retry(p)
  /\ UNCHANGED <<result, broken, ops>>

\* Whatever Unlink comes to, the FileLock is gone.
Unlocked(p, st) ==
  /\ Done(p) /\ locked' = [locked EXCEPT ![p] = FALSE]
  /\ broken' = IF st = "ERROR_IO" THEN broken \cup {"unlock"} ELSE broken

\* Mutant: the destructor forgets the file.
UnlinkSkipped(p) ==
  /\ pc[p] = "unlink" /\ Unlocked(p, "OK")
  /\ UNCHANGED <<tree, made, gone, result, ops, faults>>

Unlink(p) ==
  /\ pc[p] = "unlink"
  /\ \E st \in Statuses : RPC(p, st) /\ Unlocked(p, st)
  /\ UNCHANGED <<result, ops>>
-----------------------------------------------------------------------------
(***************************************************************************)
(* Directories                                                             *)
(***************************************************************************)
\* mfs_mkdirs of the parent of the lock file: mfs_mkdir for each component.
Mkdirs(p) ==
  /\ Depth > 1 /\ Begin(p, "mkdirs")
  /\ dir' = [dir EXCEPT ![p] = 1] /\ InParent(p, 1, "mkdir") /\ UNCHANGED delay

Returns(p, r) == Done(p) /\ result' = [result EXCEPT ![p] = r]

\* Mutant: a component that exists is taken for the whole path.
MkdirNextSkips(p, st) ==
  IF st = "EEXIST" \/ dir[p] = Depth - 1 THEN Returns(p, "0")
  ELSE /\ dir' = [dir EXCEPT ![p] = @ + 1] /\ InParent(p, dir[p] + 1, "mkdir")
       /\ UNCHANGED <<op, delay, result>>

\* A directory that exists is as good as one that was made.
MkdirNext(p, st) ==
  IF st \notin {"OK", "EEXIST"} THEN Returns(p, "-1")
  ELSE IF dir[p] = Depth - 1 THEN Returns(p, "0")
  ELSE /\ dir' = [dir EXCEPT ![p] = @ + 1] /\ InParent(p, dir[p] + 1, "mkdir")
       /\ UNCHANGED <<op, delay, result>>

Mkdir(p) ==
  /\ pc[p] = "mkdir"
  /\ \E st \in Statuses : RPC(p, st) /\ MkdirNext(p, st)
  /\ UNCHANGED <<locked, broken, ops>>

Rmdir(p) ==
  /\ Depth > 1 /\ Begin(p, "rmdir") /\ InParent(p, Depth - 1, "rmdir")
  /\ UNCHANGED <<dir, delay>>

RmdirAnswer(p) ==
  /\ pc[p] = "rmdir"
  /\ \E st \in Statuses : RPC(p, st) /\ Done(p)
  /\ UNCHANGED <<locked, result, broken, ops>>

\* mfs_stat and mfs_access of the lock file.
Stat(p) == Begin(p, "stat") /\ Lookup(p, Depth) /\ UNCHANGED <<dir, delay>>

\* What comes after the Lookup of a path, with its result.
AfterLookup(p, st) ==
  CASE op[p] = "open" -> OpenLookup(p, st) /\ UNCHANGED result
    [] op[p] = "stat" -> Done(p) /\ UNCHANGED <<locked, result, broken>>
    [] op[p] = "create" /\ st # "OK" -> Retry(p) /\ UNCHANGED <<result, broken>>
    [] op[p] = "unlock" /\ st # "OK" -> Unlocked(p, "ERROR_IO") /\ UNCHANGED result
    [] op[p] = "mkdirs" /\ st # "OK" -> Returns(p, "-1") /\ UNCHANGED <<locked, broken>>
    [] op[p] = "rmdir" /\ st # "OK" -> Done(p) /\ UNCHANGED <<locked, result, broken>>
    [] OTHER -> /\ Go(p, CASE op[p] = "create" -> "mknod" [] op[p] = "unlock" -> "unlink"
                           [] op[p] = "mkdirs" -> "mkdir" [] OTHER -> "rmdir")
                /\ inode' = [inode EXCEPT ![p] = tree[at[p]]]
                /\ UNCHANGED <<op, at, goal, dir, delay, locked, result, broken>>

\* MasterServer::Lookup of one component.
LookupName(p) ==
  /\ pc[p] = "lookup"
  /\ \E st \in Statuses :
       /\ RPC(p, st)
       /\ IF st = "OK" /\ at[p] < goal[p]
          THEN /\ at' = [at EXCEPT ![p] = @ + 1]
               /\ inode' = [inode EXCEPT ![p] = tree[at[p]]]
               /\ UNCHANGED <<op, pc, goal, dir, delay, locked, result, broken>>
          ELSE AfterLookup(p, st)
  /\ UNCHANGED ops
-----------------------------------------------------------------------------
Step(p) == LookupName(p) \/ OpenGarbage(p) \/ Mknod(p) \/ Unlink(p) \/ Mkdir(p) \/ RmdirAnswer(p)

Next == \E p \in Procs :
  \/ Lock(p, Delay) \/ Lock(p, Timeout) \/ Unlock(p) \/ Mkdirs(p) \/ Rmdir(p) \/ Stat(p)
  \/ Step(p) \/ Lost(p)

Spec == Init /\ [][Next]_vars

\* A process keeps running, and its commands come to something.
Fairness == \A p \in Procs : WF_vars(Step(p))
FairSpec == Spec /\ Fairness
-----------------------------------------------------------------------------
\* The processes that rely on the lock.
Holders == {p \in Procs : locked[p] /\ op[p] # "unlock"}

(***************************************************************************)
(* FileLock over MooseFS: two processes hold the lock only after an Unlink *)
(* whose answer was lost was carried out again, or after File::Open went   *)
(* on with a Lookup that had failed.                                       *)
(***************************************************************************)
OneHolderUnlessRepeated == Cardinality(Holders) > 1 => broken \cap {"unlink", "open"} # {}

(***************************************************************************)
(* FileLock over MooseFS: a lock file that no process holds or is creating *)
(* is left behind only when the answer to a Mknod was lost, when an Unlink *)
(* failed, or when a lock was broken before.                               *)
(***************************************************************************)
LockOwned == tree[Depth] # 0 => broken # {} \/ \E p \in Procs : locked[p]

(***************************************************************************)
(* mfs_mkdirs: when it returns 0 every directory of the path is there,     *)
(* whatever answers were lost and whoever else was making them, unless one *)
(* has been removed since it began.                                        *)
(***************************************************************************)
MkdirsMakes ==
  [][\A p \in Procs : op[p] = "mkdirs" /\ result'[p] = "0" /\ ~gone[p]
                       => \A c \in 1 .. Depth - 1 : tree'[c] # 0]_vars

(***************************************************************************)
(* FileLock::Lock, mfs_mkdirs: every call returns, also when somebody else *)
(* holds the lock all the time.                                            *)
(***************************************************************************)
CallsReturn == \A p \in Procs : op[p] # "none" ~> op[p] = "none"
=============================================================================
