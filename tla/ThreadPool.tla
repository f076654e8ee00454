----------------------------- MODULE ThreadPool ------------------------------
(***************************************************************************)
(* base::ThreadPool over base::MessageQueue (base3/threadpool.cc,          *)
(* base3/messagequeue.h): posters hand messages to workers, each of which  *)
(* has a queue and a thread of its own; a controller stops the pool or     *)
(* sets its size.  A step is what happens under one hold of a mutex, cut   *)
(* at each access to a variable of another thread that no mutex guards,    *)
(* and a notification; only Close sets quit_ and notifies in one step.     *)
(***************************************************************************)
EXTENDS Naturals, Sequences, FiniteSets

CONSTANTS
  Posters,
  init_size, max_size,
  Sizes,         \* what set_size is asked for
  MaxWorkers,    \* bound: workers that are ever created
  MaxCalls       \* bound: messages and calls of set_size together

\* What is assumed of the constants.
PoolAssumption ==
  /\ IsFiniteSet(Posters)
  /\ init_size \in Nat /\ max_size \in Nat /\ Sizes \subseteq Nat /\ MaxWorkers \in Nat

VARIABLES
  queue,         \* message_queue_ of a worker
  busy, quit,    \* busy_ and quit_
  wpc, running,  \* next step of its thread, and the message it runs
  workers, i,    \* workers_ and i_, which is End past the last one
  held,          \* mutex_ of the pool is held from one step to the next
  scan,          \* locals of GetIdle: workers still to be seen, idle_worker_ and its busy_
  ppc, target,   \* next step of a poster, and the worker GetIdle gave it
  message,       \* the message it posts, 0 if none
  cpc, at, left, \* the controller: next step, place in the list, counter
  created, posted, set_sizes,
  sent, ran,     \* history: what was put into the queue of a worker and run by it
  missed,        \* history: Close notified a thread that had yet to wait
  added          \* history: workers that set_size has created

queues == <<queue, busy, quit, wpc, running>>
pool == <<workers, i, held, scan>>
poster == <<ppc, target, message>>
controller == <<cpc, at, left>>
history == <<sent, ran, missed, added>>
vars == <<queues, pool, poster, controller, created, posted, set_sizes, history>>

End == 0
NoScan == [left |-> 0, idle_worker |-> 0, min_busy |-> 0]
Workers == 1 .. MaxWorkers

Init ==
  /\ queue = [w \in Workers |-> <<>>] /\ busy = [w \in Workers |-> 0]
  /\ quit = [w \in Workers |-> FALSE]
  /\ wpc = [w \in Workers |-> IF w <= init_size THEN "test" ELSE "none"]
  /\ running = [w \in Workers |-> 0]
  /\ workers = [w \in 1 .. init_size |-> w]
  /\ i = (IF init_size = 0 THEN End ELSE 1) /\ held = FALSE /\ scan = NoScan
  /\ ppc = [p \in Posters |-> "idle"] /\ target = [p \in Posters |-> 0]
  /\ message = [p \in Posters |-> 0]
  /\ cpc = "idle" /\ at = 0 /\ left = 0
  /\ created = init_size /\ posted = 0 /\ set_sizes = 0
  /\ sent = [w \in Workers |-> <<>>] /\ ran = [w \in Workers |-> <<>>]
  /\ missed = [w \in Workers |-> FALSE] /\ added = 0
-----------------------------------------------------------------------------
(***************************************************************************)
(* MessageQueue, by the thread of worker w                                 *)
(***************************************************************************)
WorkerGo(w, l) == wpc' = [wpc EXCEPT ![w] = l]

\* Process: the test of quit_, outside the mutex.
Test(w) ==
  /\ wpc[w] = "test" /\ WorkerGo(w, IF quit[w] THEN "exit" ELSE "wait")
  /\ UNCHANGED <<queue, busy, quit, running, pool, poster, controller,
                 created, posted, set_sizes, history>>

\* Mutant: the thread waits whether or not there is something to do.
WaitAlways(w) ==
  /\ wpc[w] = "wait" /\ WorkerGo(w, "waiting")
  /\ UNCHANGED <<queue, busy, quit, running, pool, poster, controller,
                 created, posted, set_sizes, history>>

Wait(w) ==
  /\ wpc[w] = "wait" /\ WorkerGo(w, IF queue[w] = <<>> THEN "waiting" ELSE "process")
  /\ UNCHANGED <<queue, busy, quit, running, pool, poster, controller,
                 created, posted, set_sizes, history>>

\* condition::wait may return although nobody notified.
Spurious(w) ==
  /\ wpc[w] = "waiting" /\ WorkerGo(w, "process")
  /\ UNCHANGED <<queue, busy, quit, running, pool, poster, controller,
                 created, posted, set_sizes, history>>

\* ProcessAll up to the next message: busy_ is set before the first and after
\* the last.
Take(w) ==
  /\ wpc[w] \in {"process", "again"}
  /\ busy' = IF wpc[w] = "process" \/ queue[w] = <<>>
             THEN [busy EXCEPT ![w] = Len(queue[w])] ELSE busy
  /\ IF queue[w] = <<>> THEN WorkerGo(w, "test") /\ UNCHANGED <<queue, running>>
     ELSE /\ running' = [running EXCEPT ![w] = Head(queue[w])]
          /\ queue' = [queue EXCEPT ![w] = Tail(@)] /\ WorkerGo(w, "run")
  /\ UNCHANGED <<quit, pool, poster, controller, created, posted, set_sizes, history>>

Run(w) ==
  /\ wpc[w] = "run" /\ WorkerGo(w, "again")
  /\ ran' = [ran EXCEPT ![w] = Append(@, running[w])]
  /\ running' = [running EXCEPT ![w] = 0]
  /\ UNCHANGED <<queue, busy, quit, pool, poster, controller, created, posted,
                 set_sizes, sent, missed, added>>

\* Mutant: a notification wakes nobody.
NotifiedNot(w) == wpc

\* notify_all, and Close around it.
Notified(w) == IF wpc[w] = "waiting" THEN [wpc EXCEPT ![w] = "process"] ELSE wpc

Close(w) ==
  /\ quit' = [quit EXCEPT ![w] = TRUE] /\ wpc' = Notified(w)
  /\ missed' = [missed EXCEPT ![w] = @ \/ wpc[w] = "wait"]
-----------------------------------------------------------------------------
(***************************************************************************)
(* ThreadPool::Post                                                        *)
(***************************************************************************)
Place(w) == CHOOSE k \in 1 .. Len(workers) : workers[k] = w
After(w) == IF Place(w) = Len(workers) THEN End ELSE workers[Place(w) + 1]

\* Mutant: one worker too many.
MayInflateOnce(n) == n <= max_size

MayInflate(n) == n < max_size

\* GetIdle has found w, or is to create a worker, and gives the mutex back.
Got(p, w, l) ==
  /\ target' = [target EXCEPT ![p] = w] /\ ppc' = [ppc EXCEPT ![p] = l]
  /\ held' = FALSE /\ scan' = NoScan

\* All are busy: a new worker, or the least busy one.
AllBusy(p, s) == Got(p, s.idle_worker, IF MayInflate(Len(workers)) THEN "create" ELSE "post")

\* One round of the loop of GetIdle: a worker that is not busy is taken, and
\* i_ is moved past it.
Look(p, s) ==
  IF s.left = 0 THEN AllBusy(p, s) /\ UNCHANGED i
  ELSE LET w == IF i = End THEN workers[1] ELSE i
           t == IF s.idle_worker = 0 \/ busy[w] < s.min_busy
                THEN [left |-> s.left - 1, idle_worker |-> w, min_busy |-> busy[w]]
                ELSE [s EXCEPT !.left = @ - 1]
       IN /\ i' = After(w)
          /\ \/ busy[w] = 0 /\ Got(p, w, "post")
             \/ busy[w] > 0 /\ t.left = 0 /\ AllBusy(p, t)
             \/ /\ busy[w] > 0 /\ t.left > 0
                /\ scan' = t /\ held' = TRUE /\ ppc' = [ppc EXCEPT ![p] = "scan"]
                /\ UNCHANGED target

\* A pool with neither workers nor the right to create one is not asked: GetIdle
\* would dereference end().
GetIdle(p) ==
  /\ ppc[p] = "idle" /\ ~held /\ posted + set_sizes < MaxCalls /\ (workers # <<>> \/ max_size > 0)
  /\ posted' = posted + 1 /\ message' = [message EXCEPT ![p] = posted + 1]
  /\ Look(p, [NoScan EXCEPT !.left = Len(workers)])
  /\ UNCHANGED <<queues, workers, controller, created, set_sizes, history>>

Scan(p) ==
  /\ ppc[p] = "scan" /\ Look(p, scan)
  /\ UNCHANGED <<queues, workers, message, controller, created, posted, set_sizes, history>>

\* Create: the thread is started, then the worker is put into the list.
Create ==
  /\ ~held /\ created < MaxWorkers /\ created' = created + 1
  /\ wpc' = [wpc EXCEPT ![created + 1] = "test"]
  /\ workers' = Append(workers, created + 1)

Inflate(p) ==
  /\ ppc[p] = "create" /\ Create
  /\ target' = [target EXCEPT ![p] = created'] /\ ppc' = [ppc EXCEPT ![p] = "post"]
  /\ UNCHANGED <<queue, busy, quit, running, i, held, scan, message, controller,
                 posted, set_sizes, history>>

\* Mutant: the message goes in front of the others.
PushFront(w, m) == <<m>> \o queue[w]

Push(w, m) == Append(queue[w], m)

\* MessageQueue::Post to the worker that GetIdle gave: the push, under the mutex
\* of the queue.  A worker that has been deleted by then is memory that is no
\* longer the program's.
Post(p) ==
  /\ ppc[p] = "post"
  /\ LET w == target[p] IN
     IF wpc[w] = "deleted"
     THEN ppc' = [ppc EXCEPT ![p] = "dead"] /\ UNCHANGED <<queue, sent>>
     ELSE /\ queue' = [queue EXCEPT ![w] = Push(w, message[p])]
          /\ sent' = [sent EXCEPT ![w] = Append(@, message[p])]
          /\ ppc' = [ppc EXCEPT ![p] = "notify"]
  /\ message' = [message EXCEPT ![p] = 0]
  /\ UNCHANGED <<busy, quit, wpc, running, pool, target, controller, created, posted, set_sizes,
                 ran, missed, added>>

\* Then notify_all, without it: the worker may have run the message, ended and
\* been deleted meanwhile.
Notify(p) ==
  /\ ppc[p] = "notify" /\ target' = [target EXCEPT ![p] = 0]
  /\ LET w == target[p] IN
     IF wpc[w] = "deleted" THEN ppc' = [ppc EXCEPT ![p] = "dead"] /\ UNCHANGED wpc
     ELSE wpc' = Notified(w) /\ ppc' = [ppc EXCEPT ![p] = "idle"]
  /\ UNCHANGED <<queue, busy, quit, running, pool, message, controller, created, posted,
                 set_sizes, history>>
-----------------------------------------------------------------------------
(***************************************************************************)
(* Stop and set_size, by the controller                                    *)
(***************************************************************************)
Stop ==
  /\ cpc = "idle" /\ cpc' = "stop" /\ at' = 1
  /\ UNCHANGED <<queues, pool, poster, left, created, posted, set_sizes, history>>

\* The loop of Stop, which does not hold the mutex.
StopNext ==
  /\ cpc = "stop"
  /\ IF at > Len(workers)
     THEN cpc' = "stopped" /\ at' = 0 /\ UNCHANGED <<quit, wpc, missed>>
     ELSE Close(workers[at]) /\ at' = at + 1 /\ UNCHANGED cpc
  /\ UNCHANGED <<queue, busy, running, pool, poster, left, created, posted, set_sizes,
                 sent, ran, added>>

\* set_size looks at the number of workers without the mutex.
SetSize(n) ==
  /\ cpc = "idle" /\ posted + set_sizes < MaxCalls /\ set_sizes' = set_sizes + 1
  /\ \/ /\ Len(workers) > n /\ ~held
        /\ cpc' = "shrunk" /\ held' = TRUE /\ at' = 1 /\ left' = n
     \/ /\ Len(workers) < n
        /\ cpc' = "grow" /\ left' = n - Len(workers) /\ UNCHANGED <<at, held>>
  /\ UNCHANGED <<queues, workers, i, scan, poster, created, posted, history>>

Grow ==
  /\ cpc = "grow" /\ Create /\ added' = added + 1
  /\ left' = left - 1 /\ cpc' = (IF left = 1 THEN "idle" ELSE "grow")
  /\ UNCHANGED <<queue, busy, quit, running, i, held, scan, poster, at, posted, set_sizes,
                 sent, ran, missed>>

Erase(k) == SubSeq(workers, 1, k - 1) \o SubSeq(workers, k + 1, Len(workers))

\* Shrunk goes over the list: a worker whose queue is empty is taken out,
\* closed and joined.  i_ may be left on it; the nodes of the list are reused
\* at will, so that i_ is anywhere after that.
Shrunk ==
  /\ cpc = "shrunk"
  /\ IF at > Len(workers)
     THEN /\ cpc' = "idle" /\ held' = FALSE /\ at' = 0 /\ left' = 0
          /\ UNCHANGED <<workers, i, quit, wpc, missed>>
     ELSE IF queue[workers[at]] # <<>>
     THEN at' = at + 1 /\ UNCHANGED <<cpc, held, left, workers, i, quit, wpc, missed>>
     ELSE /\ cpc' = "join" /\ Close(workers[at]) /\ workers' = Erase(at)
          /\ i' \in IF i = workers[at] THEN {End} \cup {workers'[k] : k \in DOMAIN workers'}
                    ELSE {i}
          /\ UNCHANGED <<at, held, left>>
  /\ UNCHANGED <<queue, busy, running, scan, poster, created, posted, set_sizes,
                 sent, ran, added>>

\* delete w returns once the thread has ended.  The count goes from n to 0,
\* and wraps when n was 0.
Joined ==
  /\ cpc = "join"
  /\ \E w \in Workers :
       /\ wpc[w] = "exit" /\ \A k \in DOMAIN workers : workers[k] # w
       /\ WorkerGo(w, "deleted")
  /\ IF left = 1 THEN cpc' = "idle" /\ held' = FALSE /\ left' = 0 /\ at' = 0
     ELSE /\ cpc' = "shrunk" /\ UNCHANGED <<held, at>>
          /\ left' = IF left = 0 THEN 0 ELSE left - 1
  /\ UNCHANGED <<queue, busy, quit, running, workers, i, scan, poster, created, posted,
                 set_sizes, history>>
-----------------------------------------------------------------------------
WorkerStep(w) == Test(w) \/ Wait(w) \/ Take(w) \/ Run(w)
PosterStep(p) == Scan(p) \/ Inflate(p) \/ Post(p) \/ Notify(p)
ControllerStep == StopNext \/ Grow \/ Shrunk \/ Joined

Next ==
  \/ \E w \in Workers : WorkerStep(w) \/ Spurious(w)
  \/ \E p \in Posters : GetIdle(p) \/ PosterStep(p)
  \/ Stop \/ (\E n \in Sizes : SetSize(n)) \/ ControllerStep

Spec == Init /\ [][Next]_vars

\* Threads keep running, those of posters up to the end of a Post, and messages
\* end.
Fairness ==
  /\ \A w \in Workers : WF_vars(WorkerStep(w))
  /\ \A p \in Posters : WF_vars(Notify(p))
FairSpec == Spec /\ Fairness
-----------------------------------------------------------------------------
(***************************************************************************)
(* MessageQueue: a worker runs what was posted to it, each message once    *)
(* and in the order of the Posts, whoever posted them.                     *)
(***************************************************************************)
OnceInOrder ==
  \A w \in Workers :
    sent[w] = ran[w] \o (IF running[w] = 0 THEN <<>> ELSE <<running[w]>>) \o queue[w]

(***************************************************************************)
(* ThreadPool::GetIdle: the pool outgrows max_size by no more than the     *)
(* posters that decided to inflate it at the same time.                    *)
(***************************************************************************)
PoolBounded == Len(workers) <= max_size + added + Cardinality(Posters) - 1

(***************************************************************************)
(* Post, Close, Process: no wake-up is lost.  A worker that has messages   *)
(* runs them, whatever comes between the push and its notification, or is  *)
(* closed; and one that is closed ends, unless Close notified it between   *)
(* its test of quit_ and its wait.                                         *)
(***************************************************************************)
Owes(w) ==
  \/ queue[w] # <<>> /\ ~quit[w]
  \/ quit[w] /\ ~missed[w] /\ wpc[w] \notin {"exit", "deleted"}

WorkersGoOn == \A w \in Workers : Owes(w) ~> ~Owes(w)
=============================================================================
