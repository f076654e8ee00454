----------------------------- MODULE AsyncRunner -----------------------------
(***************************************************************************)
(* base::AsyncRunner and the Post functions (base3/asyncall.h,             *)
(* base3/asyncall.cc), and base::detail::Async (base3/baseasync.cc), which *)
(* differs in having an io_service::work object, one thread that nobody    *)
(* checks, no SurePost and no counters.                                    *)
(*                                                                         *)
(* The io_service is external: run() executes handlers until stop(), or    *)
(* until there is nothing left to wait for, when it stops itself; nothing  *)
(* is executed from then until reset().                                    *)
(***************************************************************************)
EXTENDS Integers, FiniteSets

CONSTANTS
  Tasks,            \* names of the functions posted; each is posted once
  Counts,           \* what Post is given as count; 0 means for ever
  thread_size_0,    \* thread_size_ at first
  max_thread_size,
  MaxStarts         \* bound: calls of Start

VARIABLES
  work,             \* this is Async, and an io_service::work exists while it is on
  state,            \* of the runner: "off", "starting", "on", "stopping"
  to_create,        \* Start: threads to be created
  thread_size,      \* thread_size_
  group,            \* g_.size(), which counts threads that have ended
  alive,            \* threads in io_service::run
  late,             \* those that Check has created after Stop was called
  stopped,          \* the io_service has stopped
  call,             \* the call of each task: kind, count and called_
  at,               \* where it is: "none", "pending", "running", "done"
  busy, task,       \* busy_ and task_
  starts,
  ran               \* history: times a function ran, 1 for ever if its count is 0

runner == <<state, to_create, thread_size, group, alive, late>>
vars == <<work, runner, stopped, call, at, busy, task, starts, ran>>

NoCall == [kind |-> "none", count |-> 0, called |-> 0]
At(l) == {t \in Tasks : at[t] = l}

Init ==
  /\ work \in BOOLEAN /\ thread_size = IF work THEN 1 ELSE thread_size_0
  /\ state = "off" /\ to_create = 0 /\ group = 0 /\ alive = 0
  /\ late = 0 /\ stopped = FALSE
  /\ call = [t \in Tasks |-> NoCall] /\ at = [t \in Tasks |-> "none"]
  /\ busy = 0 /\ task = 0 /\ starts = 0 /\ ran = [t \in Tasks |-> 0]

\* Nothing is left to wait for when the tasks are at a.
Dry(a) == ~work /\ \A t \in Tasks : a[t] \notin {"pending", "running"}
-----------------------------------------------------------------------------
(***************************************************************************)
(* Start, Stop and Check                                                   *)
(***************************************************************************)
Start ==
  /\ state = "off" /\ starts < MaxStarts /\ starts' = starts + 1
  /\ state' = "starting" /\ to_create' = thread_size /\ stopped' = FALSE
  /\ late' = 0
  /\ UNCHANGED <<thread_size, group, alive, call, at, busy, task, ran>>

\* A thread that finds nothing to wait for stops the service.
CreateOne ==
  /\ group' = group + 1 /\ alive' = alive + 1
  /\ stopped' = (stopped \/ Dry(at))

\* Mutant: one thread too few.
StartOneLess ==
  /\ state = "starting"
  /\ IF to_create > 1
     THEN CreateOne /\ to_create' = to_create - 1 /\ UNCHANGED state
     ELSE state' = "on" /\ UNCHANGED <<to_create, group, alive, stopped>>
  /\ UNCHANGED <<thread_size, late, call, at, busy, task, starts, ran>>

\* The last step of Start is the thread of Check.
StartOne ==
  /\ state = "starting"
  /\ IF to_create > 0
     THEN CreateOne /\ to_create' = to_create - 1 /\ UNCHANGED state
     ELSE state' = "on" /\ UNCHANGED <<to_create, group, alive, stopped>>
  /\ UNCHANGED <<thread_size, late, call, at, busy, task, starts, ran>>

\* Check, and set_thread_size with one more: no thread is created while the
\* group counts more than thread_size_, as after a second Start.  Check sees
\* stop_ after that: one more thread may come while Stop waits.
Check ==
  /\ ~work /\ state \in {"on", "stopping"} /\ late = 0 /\ busy + 2 > thread_size /\ thread_size < max_thread_size
  /\ thread_size + 1 > group
  /\ CreateOne /\ thread_size' = group + 1
  /\ late' = IF state = "on" THEN 0 ELSE 1
  /\ UNCHANGED <<state, to_create, call, at, busy, task, starts, ran>>

\* Mutant: the service is not told.
StopQuietly ==
  /\ state = "on" /\ state' = "stopping"
  /\ UNCHANGED <<stopped, to_create, thread_size, group, alive, late, call, at, busy, task,
                 starts, ran>>

Stop ==
  /\ state = "on" /\ state' = "stopping" /\ stopped' = TRUE
  /\ UNCHANGED <<to_create, thread_size, group, alive, late, call, at, busy, task, starts, ran>>

\* join_all and join return: a late thread is joined, or not if it came to
\* the group after join_all.  Handlers that are pending stay with the service.
Stopped ==
  /\ state = "stopping" /\ alive <= late /\ state' = "off"
  /\ UNCHANGED <<to_create, thread_size, group, alive, late, stopped, call, at, busy, task,
                 starts, ran>>

\* io_service::run returns in a thread.
Leave ==
  /\ stopped /\ alive > Cardinality(At("running")) /\ alive' = alive - 1
  /\ UNCHANGED <<state, to_create, thread_size, group, late, stopped, call, at, busy, task,
                 starts, ran>>
-----------------------------------------------------------------------------
(***************************************************************************)
(* Posting and running                                                     *)
(***************************************************************************)
Posted(t, kind, count) ==
  /\ at[t] = "none" /\ at' = [at EXCEPT ![t] = "pending"]
  /\ call' = [call EXCEPT ![t] = [kind |-> kind, count |-> count, called |-> 0]]
  /\ UNCHANGED <<runner, stopped, busy, starts, ran>>

Post(t) == Posted(t, "call", 1) /\ task' = IF work THEN task ELSE task + 1
PostDelay(t) == Posted(t, "delay", 1) /\ UNCHANGED task
PostCount(t, n) == Posted(t, "count", n) /\ UNCHANGED task
SurePost(t) == ~work /\ Posted(t, "sure", 1) /\ task' = task + 1

\* A thread takes up a handler, or a timer that has expired.
Begin(t) ==
  /\ at[t] = "pending" /\ ~stopped /\ alive > Cardinality(At("running"))
  /\ at' = [at EXCEPT ![t] = "running"]
  /\ busy' = IF ~work /\ call[t].kind = "call" THEN busy + 1 ELSE busy
  /\ UNCHANGED <<runner, stopped, call, task, starts, ran>>

\* Mutants: left() is asked before called_ is counted up; the wrapper of a
\* call that is done forgets the counter.
LeftBefore(c) == c.count - (c.called - 1)
CountedDownNot(t) == UNCHANGED <<busy, task>>

\* left(), once called_ counts this call.
Left(c) == c.count - c.called

CountedDown(t) ==
  /\ busy' = IF ~work /\ call[t].kind = "call" THEN busy - 1 ELSE busy
  /\ task' = IF ~work /\ call[t].kind \in {"call", "sure"} THEN task - 1 ELSE task

\* The function has run.  Only a counted call is posted again: what
\* WrappedSureCall returns for a function that failed is not looked at.
Finish(t) ==
  /\ at[t] = "running"
  /\ ran' = [ran EXCEPT ![t] = IF call[t].count = 0 THEN 1 ELSE @ + 1]
  /\ LET c == [call[t] EXCEPT !.called = @ + 1]
         again == c.kind = "count" /\ (c.count = 0 \/ Left(c) > 0)
     IN /\ call' = [call EXCEPT ![t] = IF c.count = 0 THEN call[t] ELSE c]
        /\ at' = [at EXCEPT ![t] = IF again THEN "pending" ELSE "done"]
  /\ CountedDown(t)
  /\ stopped' = (stopped \/ Dry(at'))
  /\ UNCHANGED <<runner, starts>>
-----------------------------------------------------------------------------
Step ==
  \/ Start \/ StartOne \/ Check \/ Stop \/ Stopped \/ Leave
  \/ \E t \in Tasks :
       \/ Post(t) \/ PostDelay(t) \/ SurePost(t) \/ (\E n \in Counts : PostCount(t, n))
       \/ Begin(t) \/ Finish(t)

Next == Step /\ UNCHANGED work

Spec == Init /\ [][Next]_vars

\* Start goes on, functions return, threads leave a service that has stopped,
\* and the service takes up its handlers in turn.
Fairness ==
  /\ WF_vars(StartOne /\ UNCHANGED work) /\ WF_vars(Leave /\ UNCHANGED work)
  /\ WF_vars(Stopped /\ UNCHANGED work)
  /\ \A t \in Tasks : WF_vars(Finish(t) /\ UNCHANGED work) /\ SF_vars(Begin(t) /\ UNCHANGED work)
FairSpec == Spec /\ Fairness
-----------------------------------------------------------------------------
(***************************************************************************)
(* WrappedCall, WrappedSureCall: task_ counts the plain and the sure calls *)
(* that have not ended and busy_ the plain ones that run, through any row  *)
(* of Stops and Starts.                                                    *)
(***************************************************************************)
TasksCounted == ~work =>
  /\ busy = Cardinality({t \in At("running") : call[t].kind = "call"})
  /\ task = Cardinality({t \in At("pending") \cup At("running") :
                           call[t].kind \in {"call", "sure"}})

(***************************************************************************)
(* WrappedCountCall: a function posted with a count runs that many times,  *)
(* and is posted again until then.                                         *)
(***************************************************************************)
RunsCounted ==
  \A t \in Tasks : call[t].count > 0 =>
    /\ ran[t] <= call[t].count
    /\ at[t] = "done" => ran[t] = call[t].count
    /\ at[t] \in {"pending", "running"} => ran[t] < call[t].count

(***************************************************************************)
(* Post: what is posted while the runner is on and its service has not     *)
(* stopped is run, unless Stop comes first.  (The service of AsyncRunner   *)
(* has no io_service::work: once it has run dry, nothing is run until the  *)
(* next Start.)                                                            *)
(***************************************************************************)
PendingRuns ==
  \A t \in Tasks :
    (at[t] = "pending" /\ state = "on" /\ ~stopped)
      ~> (at[t] = "done" \/ ran[t] > 0 \/ state # "on")

(***************************************************************************)
(* What asyncall_test.cc expects between Start and Stop: what is posted to *)
(* a runner that is on is run, unless Stop comes first.  A service that    *)
(* has run dry before the Post, for want of an io_service::work, does not  *)
(* run it.                                                                 *)
(***************************************************************************)
PostedIsCalled ==
  \A t \in Tasks :
    (call[t].kind = "call" /\ at[t] = "pending" /\ state = "on")
      ~> (at[t] = "done" \/ state # "on")

(***************************************************************************)
(* Stop: it returns, whatever was pending, when functions return.          *)
(***************************************************************************)
StopReturns == state = "stopping" ~> state = "off"
=============================================================================
