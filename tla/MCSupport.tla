------------------------------ MODULE MCSupport ------------------------------
(***************************************************************************)
(* The parts the servers are built on, for TLC in one run: Continuum with  *)
(* its RWLock, HashCache, AsyncRunner, Preload, ThreadPool and BundleUrl.  *)
(* A behaviour is one of them, chosen at the start, and the others stay    *)
(* where they begin.                                                       *)
(***************************************************************************)
EXTENDS Continuum, Integers, Sequences

CONSTANTS
  Keys, max_size, MaxCacheCalls,
  Tasks, Counts, thread_size_0, max_thread_size, MaxStarts,
  Pathnames, cwd, mount_point, InitTree, Dirs, Inodes, Fds, MaxOps,
  Posters, init_size, max_pool, PoolSizes, MaxWorkers, MaxPoolCalls,
  Numbers, PrefixSet, PostfixSet, Sixty, Ten, HashValues, MurmurHash2(_)

ASSUME SupportAssumption ==
  /\ IsFiniteSet(Keys) /\ max_size \in Nat
  /\ IsFiniteSet(Tasks) /\ Counts \subseteq Nat
  /\ Fds \subseteq Nat /\ \A path \in DOMAIN InitTree : InitTree[path] \in Inodes

VARIABLES
  part,
  h_list, h_map, h_replacing, h_tasks, h_creating, h_nodes, h_calls, h_erased, h_overrun,
  a_work, a_state, a_to_create, a_thread_size, a_group, a_alive, a_late, a_stopped, a_call, a_at,
  a_busy, a_task, a_starts, a_ran,
  p_tree, p_kernel, p_map, p_ready, p_held, p_served, p_mixed, p_ops,
  w_queue, w_busy, w_quit, w_wpc, w_running, w_workers, w_i, w_held, w_scan, w_ppc, w_target,
  w_message, w_cpc, w_at, w_left, w_created, w_posted, w_set_sizes, w_sent, w_ran, w_missed,
  w_added,
  u_info, u_coded, u_url, u_extracted

h_vars == <<h_list, h_map, h_replacing, h_tasks, h_creating, h_nodes, h_calls, h_erased,
            h_overrun>>
a_vars == <<a_work, a_state, a_to_create, a_thread_size, a_group, a_alive, a_late, a_stopped,
            a_call, a_at, a_busy, a_task, a_starts, a_ran>>
p_vars == <<p_tree, p_kernel, p_map, p_ready, p_held, p_served, p_mixed, p_ops>>
w_vars == <<w_queue, w_busy, w_quit, w_wpc, w_running, w_workers, w_i, w_held, w_scan, w_ppc,
            w_target, w_message, w_cpc, w_at, w_left, w_created, w_posted, w_set_sizes,
            w_sent, w_ran, w_missed, w_added>>
u_vars == <<u_info, u_coded, u_url, u_extracted>>

\* Continuum: the points of two descriptions alternate on the ring.
TwoByTwo == [x \in {"a", "b"} \X {0, 1} |-> (IF x[1] = "a" THEN 1 ELSE 2) + 2 * x[2]]

\* Preload: the mount point and the working directory are /m.  In MooseFS is a
\* file x, whose inode is the number of a descriptor, and in a directory m of
\* the same name another x; the program asks for these and for files that are
\* not there, in MooseFS and in the kernel.
TwoFiles == [path \in {<<"x">>, <<"m", "x">>} |-> IF path = <<"x">> THEN 4 ELSE 9]
RootAndM == {<<>>, <<"m">>}
SlashM == <<"m">>
SomePaths ==
  {[absolute |-> FALSE, names |-> <<"x">>], [absolute |-> TRUE, names |-> <<"m", "x">>],
   [absolute |-> FALSE, names |-> <<"z">>], [absolute |-> TRUE, names |-> <<"k">>]}

\* BundleUrl: strings of separators, digits and letters beyond them, with and
\* without a slash or a dot where Extract looks for one.
SomePrefixes ==
  {<<>>, <<2000>>, <<2000, 1000, 1, 2>>, <<2000, 1001, 2001>>, <<2000, 1002, 1, 1002, 2>>}
SomePostfixes ==
  {<<>>, <<1001, 2002>>, <<1001, 2003, 1001, 2004>>, <<1001>>, <<2002>>,
   <<1001, 1002, 2002>>, <<1001, 2002, 1000, 2003>>, <<1002, 2002, 1001, 2003>>}

\* A hash that tells most of them apart, and is all ones for some.
LOCAL Seqs == INSTANCE SequencesExt
SomeHash(s) == Seqs!FoldLeft(LAMBDA h, c : (h * 31 + c + 7) % HashValues, 0, s)

H == INSTANCE HashCache WITH
  MaxCalls <- MaxCacheCalls,
  list <- h_list, map <- h_map, replacing <- h_replacing, tasks <- h_tasks,
  creating <- h_creating, nodes <- h_nodes, calls <- h_calls, erased <- h_erased,
  overrun <- h_overrun

A == INSTANCE AsyncRunner WITH
  work <- a_work, state <- a_state, to_create <- a_to_create, thread_size <- a_thread_size,
  group <- a_group, alive <- a_alive, late <- a_late, stopped <- a_stopped,
  call <- a_call, at <- a_at, busy <- a_busy, task <- a_task, starts <- a_starts, ran <- a_ran

P == INSTANCE Preload WITH
  tree <- p_tree, kernel <- p_kernel, map <- p_map, ready <- p_ready, held <- p_held,
  served <- p_served, mixed <- p_mixed, ops <- p_ops

W == INSTANCE ThreadPool WITH
  max_size <- max_pool, Sizes <- PoolSizes, MaxCalls <- MaxPoolCalls,
  queue <- w_queue, busy <- w_busy, quit <- w_quit, wpc <- w_wpc, running <- w_running,
  workers <- w_workers, i <- w_i, held <- w_held, scan <- w_scan, ppc <- w_ppc,
  target <- w_target, message <- w_message, cpc <- w_cpc, at <- w_at, left <- w_left,
  created <- w_created, posted <- w_posted, set_sizes <- w_set_sizes, sent <- w_sent,
  ran <- w_ran, missed <- w_missed, added <- w_added

ASSUME PoolAssumption == W!PoolAssumption

U == INSTANCE BundleUrl WITH
  info <- u_info, coded <- u_coded, url <- u_url, extracted <- u_extracted

\* Characters are numbers, a digit is none of the separators; the numbers of an
\* Info, and a hash, have at most the eleven digits of an int64_t.
ASSUME UrlAssumption ==
  /\ {Sixty, Ten} \subseteq 2 .. U!Slash /\ HashValues \in Nat \ {0} /\ Numbers \subseteq Nat
  /\ \A s \in PrefixSet \cup PostfixSet : s \in Seq(Nat)
  /\ \A i \in U!Info : U!Hash(i) \in 0 .. HashValues - 1
  /\ \A n \in Numbers \cup 0 .. HashValues - 1 : Len(U!ToSixty(n)) <= 11

SupportInit ==
  /\ part \in {"ring", "cache", "runner", "preload", "pool", "url"}
  /\ Init /\ H!Init /\ A!Init /\ P!Init /\ W!Init
  /\ part # "ring" => desc_map = [d \in {} |-> 0]
  /\ part # "runner" => ~a_work
  /\ IF part = "url" THEN U!Init
     ELSE u_info = {} /\ u_coded = FALSE /\ u_url = <<>> /\ u_extracted = U!Failure

RingNext ==
  part = "ring" /\ Next /\ UNCHANGED <<part, h_vars, a_vars, p_vars, w_vars, u_vars>>
CacheNext ==
  part = "cache" /\ H!Next /\ UNCHANGED <<part, vars, a_vars, p_vars, w_vars, u_vars>>
RunnerNext ==
  part = "runner" /\ A!Next /\ UNCHANGED <<part, vars, h_vars, p_vars, w_vars, u_vars>>
PreloadNext ==
  part = "preload" /\ P!Next /\ UNCHANGED <<part, vars, h_vars, a_vars, w_vars, u_vars>>
PoolNext ==
  part = "pool" /\ W!Next /\ UNCHANGED <<part, vars, h_vars, a_vars, p_vars, u_vars>>
UrlNext ==
  part = "url" /\ U!Next /\ UNCHANGED <<part, vars, h_vars, a_vars, p_vars, w_vars>>

SupportNext == RingNext \/ CacheNext \/ RunnerNext \/ PreloadNext \/ PoolNext \/ UrlNext

\* Of the six AsyncRunner and ThreadPool have fairness: a runner that is off
\* owes no step, the threads of the pool owe theirs when it is the part chosen.
PoolFairness ==
  /\ \A w \in W!Workers : WF_w_vars(part = "pool" /\ W!WorkerStep(w))
  /\ \A p \in Posters : WF_w_vars(part = "pool" /\ W!Notify(p))

SupportSpec ==
  /\ SupportInit /\ [][SupportNext]_<<part, vars, h_vars, a_vars, p_vars, w_vars, u_vars>>
  /\ A!Fairness /\ PoolFairness
-----------------------------------------------------------------------------
(***************************************************************************)
(* HashCache: the map has no dangling iterator, though two threads may put *)
(* in the same key, and Replace stays within the list unless Erase came    *)
(* between its Post and its run.                                           *)
(***************************************************************************)
CacheSound == H!NoDangling /\ H!ReplaceInBounds

(***************************************************************************)
(* AsyncRunner: a counted call runs as often as it was asked to, and busy_ *)
(* and task_ stay right, through any row of Stops and Starts.              *)
(***************************************************************************)
CallsCounted == A!TasksCounted /\ A!RunsCounted

(***************************************************************************)
(* AsyncRunner: what is posted to a runner that is on, while its service   *)
(* has not run dry, is run unless Stop comes first; and Stop returns.      *)
(***************************************************************************)
RunnerProgress == part = "runner" => A!PendingRuns /\ A!StopReturns

(***************************************************************************)
(* preload.cc: reads and writes reach the file that the program means, and *)
(* nothing stays open that nobody holds, on every descriptor that has not  *)
(* been mixed up itself.                                                   *)
(***************************************************************************)
DescriptorsSound == P!RightFile /\ P!NothingLeftOpen

(***************************************************************************)
(* MessageQueue: a worker runs what was posted to it, each message once    *)
(* and in the order of the Posts, whoever posted them.                     *)
(***************************************************************************)
OnceInOrder == W!OnceInOrder

(***************************************************************************)
(* ThreadPool::GetIdle: the pool outgrows max_size by no more than the     *)
(* posters that decided to inflate it at the same time.                    *)
(***************************************************************************)
PoolBounded == W!PoolBounded

(***************************************************************************)
(* Post, Close, Process: workers go on with what they are sent, messages   *)
(* and the order to end alike.                                             *)
(***************************************************************************)
WorkersGoOn == part = "pool" => W!WorkersGoOn

(***************************************************************************)
(* Build, Extract: Extract undoes Build for a proper postfix and no other. *)
(***************************************************************************)
RoundTrip == U!RoundTrip
=============================================================================
