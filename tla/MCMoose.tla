------------------------------- MODULE MCMoose -------------------------------
(***************************************************************************)
(* MooseMaster, MooseNames and MooseFile for TLC, in one run: a behaviour  *)
(* is one of the three, chosen at the start, and the other two stay where  *)
(* they begin.                                                             *)
(***************************************************************************)
EXTENDS Integers, Sequences, FiniteSets

CONSTANTS
  Names, SendRetries, ConnectRetries, MaxCalls, MaxTroubles,
  Procs, Depth, Delay, Timeout, MaxNameOps, MaxNameFaults, NameFaults,
  Inodes, M64, K64, MFS_MAX_FILE_SIZE, Lengths, Counts, Offsets, Grace, MaxSize,
  MaxFileOps, MaxFileFaults, FileFaults

\* A path has a component; sizes and offsets are unsigned.
ASSUME MooseAssumption ==
  /\ Depth \in Nat \ {0} /\ SendRetries \in Nat
  /\ M64 \in Nat \ {0} /\ K64 \in Nat \ {0} /\ MaxSize \in Nat
  /\ Counts \subseteq Nat /\ Offsets \subseteq Nat /\ Grace \in Nat
  /\ Lengths \subseteq 0 .. MaxSize

Locations == <<1, 2>>

VARIABLES
  part,
  m_master_socket, m_session_id, m_hostaddr, m_registered, m_pc, m_back, m_retry, m_tries,
  m_req, m_buf, m_result, m_fds, m_conn, m_names, m_sessions, m_runs, m_st, m_lost,
  m_forgets, m_calls, m_troubles,
  n_tree, n_made, n_op, n_pc, n_at, n_goal, n_inode, n_dir, n_delay, n_locked, n_result,
  n_gone, n_broken, n_ops, n_faults,
  f_file, f_map, f_pool, f_sockets, f_grace, f_pc, f_io, f_result, f_acked, f_leaked, f_ops, f_faults

m_vars == <<m_master_socket, m_session_id, m_hostaddr, m_registered, m_pc, m_back,
            m_retry, m_tries, m_req, m_buf, m_result, m_fds, m_conn, m_names,
            m_sessions, m_runs, m_st, m_lost, m_forgets, m_calls, m_troubles>>
n_vars == <<n_tree, n_made, n_op, n_pc, n_at, n_goal, n_inode, n_dir, n_delay, n_locked,
            n_result, n_gone, n_broken, n_ops, n_faults>>
f_vars == <<f_file, f_map, f_pool, f_sockets, f_grace, f_pc, f_io, f_result, f_acked, f_leaked,
            f_ops, f_faults>>

M == INSTANCE MooseMaster WITH
  master_socket <- m_master_socket, session_id <- m_session_id, hostaddr <- m_hostaddr,
  registered <- m_registered, pc <- m_pc, back <- m_back, retry <- m_retry, tries <- m_tries,
  req <- m_req, buf <- m_buf, result <- m_result, fds <- m_fds, conn <- m_conn,
  names <- m_names, sessions <- m_sessions, runs <- m_runs, st <- m_st, lost <- m_lost,
  forgets <- m_forgets, calls <- m_calls, troubles <- m_troubles

N == INSTANCE MooseNames WITH
  MaxOps <- MaxNameOps, MaxFaults <- MaxNameFaults, Faults <- NameFaults,
  tree <- n_tree, made <- n_made, op <- n_op, pc <- n_pc, at <- n_at, goal <- n_goal,
  inode <- n_inode, dir <- n_dir, delay <- n_delay, locked <- n_locked, result <- n_result,
  gone <- n_gone, broken <- n_broken, ops <- n_ops, faults <- n_faults

F == INSTANCE MooseFile WITH
  MaxOps <- MaxFileOps, MaxFaults <- MaxFileFaults, Faults <- FileFaults,
  file <- f_file, map <- f_map, pool <- f_pool, sockets <- f_sockets,
  grace <- f_grace, pc <- f_pc, io <- f_io,
  result <- f_result, acked <- f_acked, leaked <- f_leaked, ops <- f_ops, faults <- f_faults

Init ==
  /\ part \in {"master", "names", "file"} /\ M!Init /\ N!Init /\ F!Init
  /\ part # "master" => m_names = {}
  /\ part # "names" => n_made = 1
  /\ part # "file" => f_file = [i \in Inodes |-> F!Existing(CHOOSE n \in Lengths : TRUE)]

MasterNext ==
  part = "master" /\ M!Next /\ UNCHANGED <<part, n_vars, f_vars>>
NamesNext ==
  part = "names" /\ N!Next /\ UNCHANGED <<part, m_vars, f_vars>>
FileNext ==
  part = "file" /\ F!Next /\ UNCHANGED <<part, m_vars, n_vars>>

Next == MasterNext \/ NamesNext \/ FileNext

\* The fairness of the three modules, for the one that runs: a process takes
\* its next step, and the master answers.
ProcessStep(p) ==
  \/ part = "master" /\ M!ClientStep /\ UNCHANGED <<part, n_vars, f_vars>>
  \/ part = "names" /\ N!Step(p) /\ UNCHANGED <<part, m_vars, f_vars>>
  \/ part = "file" /\ F!Step(p) /\ UNCHANGED <<part, m_vars, n_vars>>

Spec ==
  /\ Init /\ [][Next]_<<part, m_vars, n_vars, f_vars>>
  /\ \A p \in Procs : WF_<<part, m_vars, n_vars, f_vars>>(ProcessStep(p))
  /\ WF_m_vars(M!Serve)

\* The process is in a call; MooseMaster has one process only.
Working(p) ==
  m_req # M!NoMessage \/ n_op[p] # "none" \/ f_pc[p] \notin {"idle", "dead"}
-----------------------------------------------------------------------------
(***************************************************************************)
(* SendAndReceive: a call keeps the promise of RemoteCall through lost     *)
(* connections, cut answers and retries.                                   *)
(***************************************************************************)
ImplementsRemoteCall == M!ImplementsRemoteCall

(***************************************************************************)
(* Connect, Disconnect, Cached, File::Write: after any row of failures the *)
(* client holds one session, the sockets that are in use or pooled, and    *)
(* the locks of chunks it is writing; what is left over is what a lost     *)
(* registration, a failed WriteBlockInit and a failed Write leave.         *)
(***************************************************************************)
NothingLeaks ==
  M!OneSession /\ M!SocketsAccountedFor /\ F!ConnectionsAccountedFor /\ F!ChunksReleased

(***************************************************************************)
(* FileLock over MooseFS: two processes hold a lock only after a repeated  *)
(* Unlink or a Lookup that failed in File::Open.                           *)
(***************************************************************************)
OneHolderUnlessRepeated == N!OneHolderUnlessRepeated

(***************************************************************************)
(* FileLock over MooseFS: no lock file is without an owner, but for a lost *)
(* answer to a Mknod, a failed Unlink, or a lock that was broken before.   *)
(***************************************************************************)
LockOwned == N!LockOwned

(***************************************************************************)
(* mfs_mkdirs: a return value of 0 means that the directories are there.   *)
(***************************************************************************)
MkdirsMakes == N!MkdirsMakes

(***************************************************************************)
(* File::Write: what it acknowledged is stored, each byte at its offset.   *)
(***************************************************************************)
AckedStays == F!AckedStays

(***************************************************************************)
(* File::Read: unless a ReadBlock failed, what is reported as read was.    *)
(***************************************************************************)
ReadHonest == F!ReadHonest

(***************************************************************************)
(* Every call of the client returns: commands to the master, as retries    *)
(* and reconnects are counted; FileLock::Lock and mfs_mkdirs, whoever else *)
(* is at the same names; the loops of File::Write; and those of File::Read *)
(* as well, also when another process cuts the file off under it, as a     *)
(* chunk is tried again only for some seconds after a registration.        *)
(***************************************************************************)
CallsReturn == \A p \in Procs : Working(p) ~> ~Working(p)
=============================================================================
