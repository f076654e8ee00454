---------------------------- MODULE SupportProofs ----------------------------
(***************************************************************************)
(* The hash cache, the asynchronous runner, the preloaded system calls,    *)
(* the urls and the thread pool (by the proofs of ThreadPoolProofs), for   *)
(* any number of threads, keys, tasks, messages, files and descriptors,    *)
(* any strings and any numbers.                                            *)
(***************************************************************************)
EXTENDS MCSupport, ContinuumProofs, SequenceTheorems

all == <<part, vars, h_vars, a_vars, p_vars, w_vars, u_vars>>

\* A step is one of a part, or leaves that part alone.
LEMMA PartStep ==
  ASSUME [SupportNext]_all
  PROVE  /\ H!Next \/ UNCHANGED h_vars
         /\ A!Next \/ UNCHANGED a_vars
         /\ P!Next \/ UNCHANGED p_vars
BY DEF SupportNext, RingNext, CacheNext, RunnerNext, PreloadNext, PoolNext, UrlNext, all

\* The operator of FiniteSets, seen through AsyncRunner and HashCache.
LEMMA SameCardinality ==
  \A S : A!Cardinality(S) = Cardinality(S) /\ H!Cardinality(S) = Cardinality(S)
BY DEF Cardinality, A!Cardinality, H!Cardinality

-----------------------------------------------------------------------------
(***************************************************************************)
(* AsyncRunner: a call, from its Post to its end.                          *)
(***************************************************************************)
Kinds == {"none", "call", "delay", "count", "sure"}
CallPlaces == {"none", "pending", "running", "done"}
Calls == [kind : Kinds, count : Nat, called : Nat]

\* The call c that is at l and has run r times.
CallInv(c, l, r) ==
  /\ c \in Calls /\ l \in CallPlaces /\ r \in Nat
  /\ l = "none" => r = 0
  /\ c.kind = "none" => l = "none" /\ c.count = 0
  /\ c.kind \in {"call", "delay", "sure"} => c.count = 1
  /\ c.count > 0 => /\ c.called = r /\ r <= c.count
                    /\ l = "done" => r = c.count
                    /\ l \in {"pending", "running"} => r < c.count

RunningCalls == {t \in Tasks : a_at[t] = "running" /\ a_call[t].kind = "call"}
OpenCalls == {t \in Tasks : /\ a_at[t] \in {"pending", "running"}
                            /\ a_call[t].kind \in {"call", "sure"}}

RunnerInv ==
  /\ a_call \in [Tasks -> Calls] /\ a_at \in [Tasks -> CallPlaces] /\ a_ran \in [Tasks -> Nat]
  /\ \A t \in Tasks : CallInv(a_call[t], a_at[t], a_ran[t])
  /\ ~a_work => a_busy = Cardinality(RunningCalls) /\ a_task = Cardinality(OpenCalls)

LEMMA CallsFinite ==
  /\ IsFiniteSet(RunningCalls) /\ Cardinality(RunningCalls) \in Nat
  /\ IsFiniteSet(OpenCalls) /\ Cardinality(OpenCalls) \in Nat
<1>1. RunningCalls \subseteq Tasks /\ OpenCalls \subseteq Tasks /\ IsFiniteSet(Tasks)
  BY SupportAssumption DEF RunningCalls, OpenCalls
<1>2. IsFiniteSet(RunningCalls) /\ IsFiniteSet(OpenCalls)
  BY <1>1, FS_Subset
<1> QED BY <1>2, FS_CardinalityType

\* One call has gone from one place to another: the others count as before.
LEMMA CallsMoved ==
  ASSUME NEW t \in Tasks, DOMAIN a_call = Tasks, DOMAIN a_at = Tasks,
         NEW c, NEW l, a_call' = [a_call EXCEPT ![t] = c], a_at' = [a_at EXCEPT ![t] = l]
  PROVE  /\ RunningCalls' = IF l = "running" /\ c.kind = "call"
                            THEN RunningCalls \cup {t} ELSE RunningCalls \ {t}
         /\ OpenCalls' = IF l \in {"pending", "running"} /\ c.kind \in {"call", "sure"}
                         THEN OpenCalls \cup {t} ELSE OpenCalls \ {t}
<1>1. /\ a_call'[t] = c /\ a_at'[t] = l
      /\ \A u \in Tasks \ {t} : a_call'[u] = a_call[u] /\ a_at'[u] = a_at[u]
  OBVIOUS
<1>2. ASSUME NEW u \in Tasks
      PROVE  u \in RunningCalls' <=> IF u = t THEN l = "running" /\ c.kind = "call"
                                     ELSE u \in RunningCalls
  BY <1>1 DEF RunningCalls
<1>3. ASSUME NEW u \in Tasks
      PROVE  u \in OpenCalls' <=> IF u = t THEN l \in {"pending", "running"}
                                                  /\ c.kind \in {"call", "sure"}
                                  ELSE u \in OpenCalls
  BY <1>1 DEF OpenCalls
<1>4. RunningCalls \subseteq Tasks /\ RunningCalls' \subseteq Tasks
  BY DEF RunningCalls
<1>5. OpenCalls \subseteq Tasks /\ OpenCalls' \subseteq Tasks
  BY DEF OpenCalls
<1>6. RunningCalls' = IF l = "running" /\ c.kind = "call"
                      THEN RunningCalls \cup {t} ELSE RunningCalls \ {t}
  BY <1>2, <1>4
<1>7. OpenCalls' = IF l \in {"pending", "running"} /\ c.kind \in {"call", "sure"}
                   THEN OpenCalls \cup {t} ELSE OpenCalls \ {t}
  BY <1>3, <1>5
<1> QED BY <1>6, <1>7

LEMMA CountMoved ==
  ASSUME NEW S, IsFiniteSet(S), NEW t
  PROVE  /\ Cardinality(S \cup {t}) = IF t \in S THEN Cardinality(S) ELSE Cardinality(S) + 1
         /\ Cardinality(S \ {t}) = IF t \in S THEN Cardinality(S) - 1 ELSE Cardinality(S)
BY FS_AddElement, FS_RemoveElement

\* The counters after a call has moved.
LEMMA RunnerMoved ==
  ASSUME RunnerInv, NEW t \in Tasks, NEW c, NEW l, NEW r,
         a_call' = [a_call EXCEPT ![t] = c], a_at' = [a_at EXCEPT ![t] = l],
         a_ran' = [a_ran EXCEPT ![t] = r], CallInv(c, l, r), UNCHANGED a_work,
         NEW b, NEW k, a_busy' = b, a_task' = k,
         ~a_work =>
           /\ b = a_busy + (IF l = "running" /\ c.kind = "call" THEN 1 ELSE 0)
                         - (IF t \in RunningCalls THEN 1 ELSE 0)
           /\ k = a_task + (IF l \in {"pending", "running"} /\ c.kind \in {"call", "sure"}
                            THEN 1 ELSE 0)
                         - (IF t \in OpenCalls THEN 1 ELSE 0)
  PROVE  RunnerInv'
<1>1. /\ a_call' \in [Tasks -> Calls] /\ a_at' \in [Tasks -> CallPlaces]
      /\ a_ran' \in [Tasks -> Nat]
      /\ \A u \in Tasks : CallInv(a_call'[u], a_at'[u], a_ran'[u])
  BY DEF RunnerInv, CallInv
<1>2. ASSUME ~a_work
      PROVE  /\ a_busy' = Cardinality(RunningCalls')
             /\ a_task' = Cardinality(OpenCalls')
  <2>1. /\ RunningCalls' = IF l = "running" /\ c.kind = "call"
                           THEN RunningCalls \cup {t} ELSE RunningCalls \ {t}
        /\ OpenCalls' = IF l \in {"pending", "running"} /\ c.kind \in {"call", "sure"}
                        THEN OpenCalls \cup {t} ELSE OpenCalls \ {t}
    BY CallsMoved DEF RunnerInv
  <2>2. a_busy = Cardinality(RunningCalls) /\ a_task = Cardinality(OpenCalls)
    BY <1>2 DEF RunnerInv
  <2>3. a_busy \in Nat /\ a_task \in Nat
    BY <2>2, CallsFinite
  <2>4. /\ Cardinality(RunningCalls \cup {t}) =
             IF t \in RunningCalls THEN a_busy ELSE a_busy + 1
        /\ Cardinality(RunningCalls \ {t}) =
             IF t \in RunningCalls THEN a_busy - 1 ELSE a_busy
    BY <2>2, CallsFinite, CountMoved
  <2>5. /\ Cardinality(OpenCalls \cup {t}) = IF t \in OpenCalls THEN a_task ELSE a_task + 1
        /\ Cardinality(OpenCalls \ {t}) = IF t \in OpenCalls THEN a_task - 1 ELSE a_task
    BY <2>2, CallsFinite, CountMoved
  <2>6. a_busy' = Cardinality(RunningCalls')
    <3>1. CASE l = "running" /\ c.kind = "call"
      BY <1>2, <2>1, <2>3, <2>4, <3>1
    <3>2. CASE ~(l = "running" /\ c.kind = "call")
      BY <1>2, <2>1, <2>3, <2>4, <3>2
    <3> QED BY <3>1, <3>2
  <2>7. a_task' = Cardinality(OpenCalls')
    <3>1. CASE l \in {"pending", "running"} /\ c.kind \in {"call", "sure"}
      BY <1>2, <2>1, <2>3, <2>5, <3>1
    <3>2. CASE ~(l \in {"pending", "running"} /\ c.kind \in {"call", "sure"})
      BY <1>2, <2>1, <2>3, <2>5, <3>2
    <3> QED BY <3>1, <3>2
  <2> QED BY <2>6, <2>7
<1> QED BY <1>1, <1>2 DEF RunnerInv

LEMMA PostedKeeps ==
  ASSUME RunnerInv, NEW t \in Tasks, NEW kind \in Kinds \ {"none"}, NEW n \in Nat,
         A!Posted(t, kind, n), UNCHANGED a_work, kind # "count" => n = 1,
         a_task' = IF ~a_work /\ kind \in {"call", "sure"} THEN a_task + 1 ELSE a_task
  PROVE  RunnerInv'
<1> DEFINE c == [kind |-> kind, count |-> n, called |-> 0]
<1>1. /\ a_at[t] = "none" /\ a_at' = [a_at EXCEPT ![t] = "pending"]
      /\ a_call' = [a_call EXCEPT ![t] = c] /\ UNCHANGED <<a_busy, a_ran>>
  BY DEF A!Posted
<1>2. CallInv(a_call[t], a_at[t], a_ran[t]) /\ a_ran \in [Tasks -> Nat]
  BY DEF RunnerInv
<1>3. a_ran' = [a_ran EXCEPT ![t] = 0]
  BY <1>1, <1>2 DEF CallInv
<1>4. c.kind = kind /\ c.count = n /\ c.called = 0 /\ c \in Calls
  BY DEF Calls
<1> HIDE DEF c
<1>5. CallInv(c, "pending", 0)
  BY <1>4 DEF CallInv, Kinds, CallPlaces
<1>6. t \notin RunningCalls /\ t \notin OpenCalls
  BY <1>1 DEF RunningCalls, OpenCalls
<1>7. ~a_work => a_busy \in Nat /\ a_task \in Nat
  BY CallsFinite DEF RunnerInv
<1>8. ~a_work =>
        /\ a_busy' = a_busy + (IF "pending" = "running" /\ c.kind = "call" THEN 1 ELSE 0)
                            - (IF t \in RunningCalls THEN 1 ELSE 0)
        /\ a_task' = a_task + (IF "pending" \in {"pending", "running"}
                                  /\ c.kind \in {"call", "sure"} THEN 1 ELSE 0)
                            - (IF t \in OpenCalls THEN 1 ELSE 0)
  BY <1>1, <1>4, <1>6, <1>7
<1> QED BY <1>1, <1>3, <1>5, <1>8, RunnerMoved

LEMMA BeginKeeps ==
  ASSUME RunnerInv, NEW t \in Tasks, A!Begin(t), UNCHANGED a_work
  PROVE  RunnerInv'
<1> DEFINE c == a_call[t]
           r == a_ran[t]
<1>1. /\ a_at[t] = "pending" /\ a_at' = [a_at EXCEPT ![t] = "running"]
      /\ UNCHANGED <<a_call, a_ran, a_task>>
      /\ a_busy' = IF ~a_work /\ c.kind = "call" THEN a_busy + 1 ELSE a_busy
  BY DEF A!Begin
<1>2. CallInv(c, "pending", r)
  BY <1>1 DEF RunnerInv
<1>3. a_call' = [a_call EXCEPT ![t] = c] /\ a_ran' = [a_ran EXCEPT ![t] = r]
  BY <1>1 DEF RunnerInv
<1> HIDE DEF r
<1>4. CallInv(c, "running", r)
  BY <1>2 DEF CallInv, CallPlaces
<1>5. t \notin RunningCalls /\ (t \in OpenCalls <=> c.kind \in {"call", "sure"})
  BY <1>1 DEF RunningCalls, OpenCalls
<1>6. ~a_work => a_busy \in Nat /\ a_task \in Nat
  BY CallsFinite DEF RunnerInv
<1> HIDE DEF c
<1>7. ~a_work =>
        /\ a_busy' = a_busy + (IF "running" = "running" /\ c.kind = "call" THEN 1 ELSE 0)
                            - (IF t \in RunningCalls THEN 1 ELSE 0)
        /\ a_task' = a_task + (IF "running" \in {"pending", "running"}
                                  /\ c.kind \in {"call", "sure"} THEN 1 ELSE 0)
                            - (IF t \in OpenCalls THEN 1 ELSE 0)
  BY <1>1, <1>5, <1>6 DEF c
<1> QED BY <1>1, <1>3, <1>4, <1>7, RunnerMoved

LEMMA FinishKeeps ==
  ASSUME RunnerInv, NEW t \in Tasks, A!Finish(t), UNCHANGED a_work
  PROVE  RunnerInv'
<1> DEFINE c == a_call[t]
           d == [c EXCEPT !.called = @ + 1]
           again == d.kind = "count" /\ (d.count = 0 \/ A!Left(d) > 0)
           l == IF again THEN "pending" ELSE "done"
           e == IF d.count = 0 THEN c ELSE d
           r == IF c.count = 0 THEN 1 ELSE a_ran[t] + 1
<1>1. /\ a_at[t] = "running" /\ a_at' = [a_at EXCEPT ![t] = l]
      /\ a_call' = [a_call EXCEPT ![t] = e] /\ a_ran' = [a_ran EXCEPT ![t] = r]
  BY DEF A!Finish
<1>2. /\ a_busy' = IF ~a_work /\ c.kind = "call" THEN a_busy - 1 ELSE a_busy
      /\ a_task' = IF ~a_work /\ c.kind \in {"call", "sure"} THEN a_task - 1 ELSE a_task
  BY DEF A!Finish, A!CountedDown
<1>3. CallInv(c, "running", a_ran[t])
  BY <1>1 DEF RunnerInv
<1>4. /\ c \in Calls /\ c.kind \in Kinds /\ c.count \in Nat /\ c.called \in Nat
      /\ a_ran[t] \in Nat
  BY <1>3 DEF CallInv, Calls
<1>5. d \in Calls /\ d.kind = c.kind /\ d.count = c.count /\ d.called = c.called + 1
  BY <1>4 DEF Calls
<1>6. A!Left(d) = c.count - (c.called + 1)
  BY <1>5 DEF A!Left
<1>7. t \in RunningCalls <=> c.kind = "call"
  BY <1>1 DEF RunningCalls
<1>8. t \in OpenCalls <=> c.kind \in {"call", "sure"}
  BY <1>1 DEF OpenCalls
<1>9. ~a_work => a_busy \in Nat /\ a_task \in Nat
  BY CallsFinite DEF RunnerInv
<1>10. again <=> c.kind = "count" /\ (c.count = 0 \/ c.count > c.called + 1)
  BY <1>4, <1>5, <1>6
<1>11. e \in Calls /\ e.kind = c.kind /\ e.count = c.count
       /\ (c.count > 0 => e.called = c.called + 1)
  BY <1>4, <1>5
<1> HIDE DEF c, d, e, again
<1>12. CallInv(e, l, r)
  <2>1. c.kind # "none"
    BY <1>3 DEF CallInv
  <2>2. CASE c.count = 0
    <3>1. c.kind = "count"
      BY <1>3, <1>4, <2>1, <2>2 DEF CallInv, Kinds
    <3>2. again /\ l = "pending" /\ r = 1 /\ e.count = 0
      BY <1>10, <1>11, <2>2, <3>1
    <3>3. e.kind = "count"
      BY <1>11, <3>1
    <3> HIDE DEF l, r
    <3> QED BY <1>11, <3>2, <3>3 DEF CallInv, CallPlaces
  <2>3. CASE c.count > 0
    <3>1. c.called = a_ran[t] /\ a_ran[t] < c.count /\ r = a_ran[t] + 1
      BY <1>3, <1>4, <2>3 DEF CallInv
    <3>2. e.called = r /\ r <= c.count /\ r \in Nat
      BY <1>4, <1>11, <2>3, <3>1
    <3>3. c.kind \in {"call", "delay", "sure"} => c.count = 1
      BY <1>3 DEF CallInv
    <3>4. again => r < c.count
      BY <1>4, <1>10, <2>3, <3>1
    <3>5. ~again => r = c.count
      <4>1. CASE c.kind = "count"
        BY <1>4, <1>10, <2>3, <3>1, <3>2, <4>1
      <4>2. CASE c.kind # "count"
        <5>1. c.count = 1
          BY <1>4, <2>1, <3>3, <4>2 DEF Kinds
        <5> QED BY <1>4, <3>1, <5>1
      <4> QED BY <4>1, <4>2
    <3>6. l \in {"pending", "done"} /\ (l = "pending" <=> again)
      OBVIOUS
    <3> HIDE DEF l, r
    <3> QED BY <1>4, <1>11, <2>1, <2>3, <3>2, <3>3, <3>4, <3>5, <3>6 DEF CallInv, CallPlaces
  <2> QED BY <1>4, <2>2, <2>3
<1>13. l = "pending" => c.kind = "count"
  BY <1>10
<1>14. l \in {"pending", "done"}
  OBVIOUS
<1> HIDE DEF l, r
<1>15. ~a_work =>
        /\ a_busy' = a_busy + (IF l = "running" /\ e.kind = "call" THEN 1 ELSE 0)
                            - (IF t \in RunningCalls THEN 1 ELSE 0)
        /\ a_task' = a_task + (IF l \in {"pending", "running"}
                                  /\ e.kind \in {"call", "sure"} THEN 1 ELSE 0)
                            - (IF t \in OpenCalls THEN 1 ELSE 0)
  BY <1>2, <1>7, <1>8, <1>9, <1>11, <1>13, <1>14
<1> QED BY <1>1, <1>12, <1>15, RunnerMoved

LEMMA NextRunner ==
  ASSUME RunnerInv, A!Next \/ UNCHANGED a_vars
  PROVE  RunnerInv'
<1>1. ASSUME UNCHANGED <<a_work, a_call, a_at, a_busy, a_task, a_ran>>
      PROVE  RunnerInv'
  BY <1>1 DEF RunnerInv, RunningCalls, OpenCalls
<1>2. CASE UNCHANGED a_vars
  BY <1>1, <1>2 DEF a_vars
<1>3. ASSUME UNCHANGED a_work,
             A!Start \/ A!StartOne \/ A!Check \/ A!Stop \/ A!Stopped \/ A!Leave
      PROVE  RunnerInv'
  BY <1>1, <1>3 DEF A!Start, A!StartOne, A!Check, A!Stop, A!Stopped, A!Leave
<1>4. ASSUME UNCHANGED a_work, NEW t \in Tasks,
             A!Post(t) \/ A!PostDelay(t) \/ A!SurePost(t) \/ (\E n \in Counts : A!PostCount(t, n))
      PROVE  RunnerInv'
  <2> USE DEF Kinds
  <2>1. CASE A!Post(t)
    BY <1>4, <2>1, PostedKeeps DEF A!Post
  <2>2. CASE A!PostDelay(t)
    BY <1>4, <2>2, PostedKeeps DEF A!PostDelay
  <2>3. CASE A!SurePost(t)
    BY <1>4, <2>3, PostedKeeps DEF A!SurePost
  <2>4. ASSUME NEW n \in Counts, A!PostCount(t, n) PROVE RunnerInv'
    <3>1. n \in Nat
      BY SupportAssumption
    <3> QED BY <1>4, <2>4, <3>1, PostedKeeps DEF A!PostCount
  <2> QED BY <1>4, <2>1, <2>2, <2>3, <2>4
<1>5. ASSUME UNCHANGED a_work, NEW t \in Tasks, A!Begin(t) \/ A!Finish(t)
      PROVE  RunnerInv'
  BY <1>5, BeginKeeps, FinishKeeps
<1> QED BY <1>2, <1>3, <1>4, <1>5 DEF A!Next, A!Step

LEMMA InitRunner == SupportInit => RunnerInv
<1> SUFFICES ASSUME A!Init PROVE RunnerInv
  BY DEF SupportInit
<1>1. RunningCalls = {} /\ OpenCalls = {}
  BY DEF A!Init, RunningCalls, OpenCalls
<1>2. A!NoCall \in Calls /\ A!NoCall.kind = "none" /\ A!NoCall.count = 0
  BY DEF A!NoCall, Calls, Kinds
<1>3. CallInv(A!NoCall, "none", 0) /\ "none" \in CallPlaces
  BY <1>2 DEF CallInv, CallPlaces
<1> QED BY <1>1, <1>2, <1>3, FS_EmptySet DEF A!Init, RunnerInv

(***************************************************************************)
(* AsyncRunner: through any row of Starts, Stops and Checks and with any   *)
(* number of threads, busy_ and task_ are the numbers of calls they stand  *)
(* for, and a function posted with a count runs exactly that often.        *)
(***************************************************************************)
THEOREM CallsCountedTheorem == SupportSpec => []CallsCounted
<1>1. RunnerInv /\ [SupportNext]_all => RunnerInv'
  BY PartStep, NextRunner
<1>2. RunnerInv => CallsCounted
  <2> SUFFICES ASSUME RunnerInv PROVE CallsCounted
    OBVIOUS
  <2>1. A!RunsCounted
    BY DEF RunnerInv, CallInv, A!RunsCounted
  <2>2. /\ RunningCalls = {t \in A!At("running") : a_call[t].kind = "call"}
        /\ OpenCalls = {t \in A!At("pending") \cup A!At("running") :
                          a_call[t].kind \in {"call", "sure"}}
    BY DEF RunningCalls, OpenCalls, A!At
  <2>3. A!TasksCounted
    BY <2>2, SameCardinality DEF RunnerInv, A!TasksCounted
  <2> QED BY <2>1, <2>3 DEF CallsCounted
<1> QED BY <1>1, <1>2, InitRunner, PTL DEF SupportSpec, all
-----------------------------------------------------------------------------
(***************************************************************************)
(* Preload: a descriptor that has not been mixed up leads nowhere and is   *)
(* held by nobody, or it is held once, by one who means the file that it   *)
(* leads to, in map_ or in the kernel.                                     *)
(***************************************************************************)
Files ==
  {P!None, P!Socket} \cup {P!OnMoose(i) : i \in Inodes}
    \cup {P!OnKernel(P!ToAbspath(pathname)) : pathname \in Pathnames}
Holding == [fd : P!Descriptors, file : Files, n : Nat \ {0}]
HeldAt(d) == {h \in p_held : h.fd = d}
Once(d, f) == [fd |-> d, file |-> f, n |-> 1]

Tidy(d) ==
  \/ d \notin p_map /\ ~P!InKernel(d) /\ HeldAt(d) = {}
  \/ d \in p_map /\ ~P!InKernel(d) /\ HeldAt(d) = {Once(d, P!OnMoose(d))}
  \/ d \notin p_map /\ P!InKernel(d) /\ HeldAt(d) = {Once(d, p_kernel[d])}

PreloadInv ==
  /\ \A path \in DOMAIN p_tree : p_tree[path] \in Inodes
  /\ p_kernel \in [Fds -> Files] /\ p_map \subseteq Inodes /\ p_held \subseteq Holding
  /\ p_map # {} => p_ready
  /\ p_served.asked = p_served.got \/ p_served.fd \in p_mixed
  /\ \A d \in P!Descriptors : d \in p_mixed \/ Tidy(d)

\* The kernel gives the lowest descriptor that is free.
LEMMA LowestIsFree ==
  ASSUME P!Free # {}
  PROVE  P!Lowest \in Fds /\ p_kernel[P!Lowest] = P!None
<1>1. P!Free \in SUBSET Nat
  BY SupportAssumption DEF P!Free
<1>2. \E d \in P!Free : \A e \in P!Free : d <= e
  BY <1>1, LeastExists
<1>3. P!Lowest \in P!Free
  BY <1>2 DEF P!Lowest
<1> QED BY <1>3 DEF P!Free

\* A step that leaves a descriptor alone.
LEMMA TidyKept ==
  ASSUME NEW e, Tidy(e), HeldAt(e)' = HeldAt(e), e \in p_map' <=> e \in p_map,
         e \in Fds => p_kernel'[e] = p_kernel[e]
  PROVE  Tidy(e)'
BY DEF Tidy, P!InKernel

\* An open adds to the holders of its descriptor only.
LEMMA GotAt ==
  ASSUME p_held \subseteq Holding, NEW d \in P!Descriptors, NEW f \in Files,
         p_held' = P!Got(d, f)
  PROVE  /\ p_held' \subseteq Holding
         /\ \A e : e # d => HeldAt(e)' = HeldAt(e)
         /\ HeldAt(d) = {} => HeldAt(d)' = {Once(d, f)}
<1> DEFINE old == {h \in p_held : h.fd = d /\ h.file = f}
<1>1. CASE old = {}
  <2>1. p_held' = p_held \cup {Once(d, f)}
    BY <1>1 DEF P!Got, Once
  <2>2. Once(d, f) \in Holding /\ Once(d, f).fd = d
    BY DEF Once, Holding
  <2> QED BY <2>1, <2>2 DEF HeldAt
<1>2. CASE old # {}
  <2>1. p_held' = {IF h \in old THEN [h EXCEPT !.n = @ + 1] ELSE h : h \in p_held}
    BY <1>2 DEF P!Got
  <2>2. ASSUME NEW h \in p_held
        PROVE  [h EXCEPT !.n = @ + 1] \in Holding /\ [h EXCEPT !.n = @ + 1].fd = h.fd
    BY DEF Holding
  <2>3. HeldAt(d) # {}
    BY <1>2 DEF HeldAt
  <2> QED BY <2>1, <2>2, <2>3 DEF HeldAt
<1> QED BY <1>1, <1>2

\* A close takes from the holders of its descriptor only.
LEMMA GivenUpAt ==
  ASSUME p_held \subseteq Holding, NEW h \in p_held, p_held' = P!GivenUp(h)
  PROVE  /\ p_held' \subseteq Holding
         /\ \A e : e # h.fd => HeldAt(e)' = HeldAt(e)
         /\ HeldAt(h.fd) = {h} /\ h.n = 1 => HeldAt(h.fd)' = {}
<1>1. CASE h.n = 1
  <2>1. p_held' = p_held \ {h}
    BY <1>1 DEF P!GivenUp
  <2> QED BY <2>1 DEF HeldAt
<1>2. CASE h.n # 1
  <2>1. p_held' = (p_held \ {h}) \cup {[h EXCEPT !.n = @ - 1]}
    BY <1>2 DEF P!GivenUp
  <2>2. h \in Holding /\ h.n - 1 \in Nat \ {0}
    BY <1>2 DEF Holding
  <2> QED BY <1>2, <2>1, <2>2 DEF HeldAt, Holding
<1> QED BY <1>1, <1>2

LEMMA RealOpenKeeps ==
  ASSUME PreloadInv, NEW f \in Files, f # P!None, P!RealOpen(f),
         UNCHANGED <<p_tree, p_map, p_served>>, p_ready => p_ready'
  PROVE  PreloadInv'
<1>0. PICK d : d = P!Lowest
  OBVIOUS
<1>1. d \in Fds /\ p_kernel[d] = P!None /\ d \in P!Descriptors
  BY <1>0, LowestIsFree DEF P!RealOpen, P!Descriptors
<1>2. /\ p_kernel' = [p_kernel EXCEPT ![d] = f] /\ p_held' = P!Got(d, f)
      /\ p_mixed' = IF d \in p_map THEN p_mixed \cup {d} ELSE p_mixed
  BY <1>0 DEF P!RealOpen
<1>3. /\ p_held' \subseteq Holding /\ \A e : e # d => HeldAt(e)' = HeldAt(e)
      /\ HeldAt(d) = {} => HeldAt(d)' = {Once(d, f)}
  BY <1>1, <1>2, GotAt DEF PreloadInv
<1>4. p_kernel' \in [Fds -> Files] /\ p_kernel'[d] = f
  BY <1>1, <1>2 DEF PreloadInv
<1>5. ASSUME NEW e \in P!Descriptors, e \notin p_mixed' PROVE Tidy(e)'
  <2>1. Tidy(e)
    BY <1>2, <1>5 DEF PreloadInv
  <2>2. CASE e = d
    <3>1. d \notin p_map /\ ~P!InKernel(d) /\ HeldAt(d) = {}
      BY <1>1, <1>2, <1>5, <2>1, <2>2 DEF Tidy, P!InKernel
    <3>2. d \notin p_map' /\ P!InKernel(d)' /\ HeldAt(d)' = {Once(d, p_kernel'[d])}
      BY <1>1, <1>3, <1>4, <3>1 DEF P!InKernel
    <3> QED BY <2>2, <3>2 DEF Tidy
  <2>3. CASE e # d
    <3>1. e \in Fds => p_kernel'[e] = p_kernel[e]
      BY <1>2, <2>3 DEF PreloadInv
    <3> QED BY <1>3, <2>1, <2>3, <3>1, TidyKept
  <2> QED BY <2>2, <2>3
<1>6. p_mixed \subseteq p_mixed'
  BY <1>2
<1> QED BY <1>3, <1>4, <1>5, <1>6 DEF PreloadInv

\* A File that open has got, for whatever inode.
LEMMA TrapKeeps ==
  ASSUME PreloadInv, NEW pathname \in Pathnames, NEW i \in Inodes, P!Trap(pathname, i),
         \A path \in DOMAIN p_tree' : p_tree'[path] \in Inodes,
         p_ready, UNCHANGED <<p_kernel, p_ready, p_served>>
  PROVE  PreloadInv'
<1> DEFINE f == P!Meant(p_tree', pathname)
<1>1. /\ p_map' = p_map \cup {i} /\ p_held' = P!Got(i, f)
      /\ p_mixed' = IF i \in p_map \/ P!InKernel(i) \/ f # P!OnMoose(i)
                    THEN p_mixed \cup {i} ELSE p_mixed
  BY DEF P!Trap
<1>2. f \in Files
  BY DEF P!Meant, Files
<1> HIDE DEF f
<1>3. i \in P!Descriptors
  BY DEF P!Descriptors
<1>4. /\ p_held' \subseteq Holding /\ \A e : e # i => HeldAt(e)' = HeldAt(e)
      /\ HeldAt(i) = {} => HeldAt(i)' = {Once(i, f)}
  BY <1>1, <1>2, <1>3, GotAt DEF PreloadInv
<1>5. ASSUME NEW e \in P!Descriptors, e \notin p_mixed' PROVE Tidy(e)'
  <2>1. Tidy(e)
    BY <1>1, <1>5 DEF PreloadInv
  <2>2. CASE e = i
    <3>1. i \notin p_map /\ ~P!InKernel(i) /\ f = P!OnMoose(i)
      BY <1>1, <1>5, <2>2
    <3>2. HeldAt(i) = {}
      BY <2>1, <2>2, <3>1 DEF Tidy
    <3>3. i \in p_map' /\ ~P!InKernel(i)' /\ HeldAt(i)' = {Once(i, P!OnMoose(i))}
      BY <1>1, <1>4, <3>1, <3>2 DEF P!InKernel
    <3> QED BY <2>2, <3>3 DEF Tidy
  <2>3. CASE e # i
    BY <1>1, <1>4, <2>1, <2>3, TidyKept
  <2> QED BY <2>2, <2>3
<1>6. p_mixed \subseteq p_mixed' /\ p_map' \subseteq Inodes
  BY <1>1 DEF PreloadInv
<1> QED BY <1>4, <1>5, <1>6 DEF PreloadInv

LEMMA OpenKeeps ==
  ASSUME PreloadInv, NEW pathname \in Pathnames, P!Open(pathname)
  PROVE  PreloadInv'
<1> DEFINE trapped == P!IsTrappedFile(P!ToAbspath(pathname)) /\ p_ready
<1>1. UNCHANGED <<p_ready, p_served>>
  BY DEF P!Open
<1>2. CASE ~trapped
  <2>1. P!OnKernel(P!ToAbspath(pathname)) \in Files
    BY DEF Files
  <2>2. P!OnKernel(P!ToAbspath(pathname)) # P!None
    BY DEF P!OnKernel, P!None
  <2>3. P!RealOpen(P!OnKernel(P!ToAbspath(pathname))) /\ UNCHANGED <<p_tree, p_map>>
    BY <1>2 DEF P!Open
  <2> QED BY <1>1, <2>1, <2>2, <2>3, RealOpenKeeps
<1>3. CASE trapped
  <2>1. UNCHANGED p_kernel
    BY <1>3 DEF P!Open
  <2>2. CASE UNCHANGED <<p_tree, p_map, p_held, p_mixed>>
    BY <1>1, <2>1, <2>2 DEF PreloadInv, Tidy, HeldAt, P!InKernel
  <2>3. ASSUME NEW i \in Inodes, P!Trap(pathname, i),
               P!OpenFound(pathname, i) \/ P!Create(pathname, i) \/ P!OpenUnset(i)
        PROVE  PreloadInv'
    <3>1. \A path \in DOMAIN p_tree' : p_tree'[path] \in Inodes
      BY <2>3 DEF P!OpenFound, P!Create, P!OpenUnset, PreloadInv
    <3> QED BY <1>1, <1>3, <2>1, <2>3, <3>1, TrapKeeps
  <2> QED BY <1>3, <2>2, <2>3 DEF P!Open
<1> QED BY <1>2, <1>3

LEMMA ReadWriteKeeps ==
  ASSUME PreloadInv, NEW h \in p_held, P!ReadWrite(h)
  PROVE  PreloadInv'
<1>1. /\ p_served' = [fd |-> h.fd, asked |-> h.file, got |-> P!Reached(h.fd)]
      /\ UNCHANGED <<p_tree, p_kernel, p_map, p_ready, p_held, p_mixed>>
  BY DEF P!ReadWrite
<1>2. ASSUME h.fd \notin p_mixed PROVE P!Reached(h.fd) = h.file
  <2>1. h.fd \in P!Descriptors /\ Tidy(h.fd) /\ h \in HeldAt(h.fd)
    BY <1>2 DEF PreloadInv, HeldAt, Holding
  <2>2. CASE h.fd \in p_map /\ h = Once(h.fd, P!OnMoose(h.fd))
    BY <2>2 DEF Once, P!Reached, PreloadInv
  <2>3. CASE h.fd \notin p_map /\ P!InKernel(h.fd) /\ h = Once(h.fd, p_kernel[h.fd])
    BY <2>3 DEF Once, P!Reached, P!InKernel
  <2> QED BY <2>1, <2>2, <2>3 DEF Tidy
<1>3. p_served'.asked = p_served'.got \/ p_served'.fd \in p_mixed'
  BY <1>1, <1>2
<1>4. \A d : Tidy(d) => Tidy(d)'
  BY <1>1 DEF Tidy, HeldAt, P!InKernel
<1> QED BY <1>1, <1>3, <1>4 DEF PreloadInv

LEMMA CloseKeeps ==
  ASSUME PreloadInv, NEW h \in p_held, P!Close(h)
  PROVE  PreloadInv'
<1> DEFINE d == h.fd
<1>1. /\ p_held' = P!GivenUp(h) /\ UNCHANGED <<p_tree, p_ready, p_served, p_mixed>>
      /\ IF d \in p_map THEN p_map' = p_map \ {d} /\ UNCHANGED p_kernel
         ELSE /\ p_kernel' = IF d \in Fds THEN [p_kernel EXCEPT ![d] = P!None] ELSE p_kernel
              /\ UNCHANGED p_map
  BY DEF P!Close, P!RealClose
<1>2. /\ p_held' \subseteq Holding /\ \A e : e # d => HeldAt(e)' = HeldAt(e)
      /\ HeldAt(d) = {h} /\ h.n = 1 => HeldAt(d)' = {}
  BY <1>1, GivenUpAt DEF PreloadInv
<1>3. p_kernel' \in [Fds -> Files] /\ p_map' \subseteq p_map
  <2>1. P!None \in Files
    BY DEF Files
  <2> QED BY <1>1, <2>1 DEF PreloadInv
<1>4. ASSUME NEW e \in P!Descriptors, Tidy(e) PROVE Tidy(e)'
  <2>1. CASE e = d
    <3>1. h \in HeldAt(d)
      BY DEF HeldAt
    <3>2. HeldAt(d) = {h} /\ h.n = 1
      BY <1>4, <2>1, <3>1 DEF Tidy, Once
    <3>3. d \notin p_map' /\ ~P!InKernel(d)'
      BY <1>1, <1>4, <2>1, <3>1 DEF Tidy, P!InKernel, PreloadInv
    <3> QED BY <1>2, <2>1, <3>2, <3>3 DEF Tidy
  <2>2. CASE e # d
    <3>1. e \in p_map' <=> e \in p_map
      BY <1>1, <2>2
    <3>2. e \in Fds => p_kernel'[e] = p_kernel[e]
      BY <1>1, <2>2 DEF PreloadInv
    <3> QED BY <1>2, <1>4, <2>2, <3>1, <3>2, TidyKept
  <2> QED BY <2>1, <2>2
<1> QED BY <1>1, <1>2, <1>3, <1>4 DEF PreloadInv

LEMMA LseekKeeps ==
  ASSUME PreloadInv, NEW h \in p_held, P!Lseek(h)
  PROVE  PreloadInv'
<1>1. UNCHANGED <<p_tree, p_map, p_ready, p_held, p_served>>
  BY DEF P!Lseek
<1>2. CASE h.fd \in p_map
  <2>1. UNCHANGED <<p_kernel, p_mixed>>
    BY <1>2 DEF P!Lseek
  <2> QED BY <1>1, <2>1 DEF PreloadInv, Tidy, HeldAt, P!InKernel
<1>3. CASE h.fd \notin p_map
  <2>1. /\ p_kernel' = IF h.fd \in Fds THEN [p_kernel EXCEPT ![h.fd] = P!None] ELSE p_kernel
        /\ p_mixed' = p_mixed \cup {h.fd}
    BY <1>3 DEF P!Lseek, P!RealClose
  <2>2. P!None \in Files
    BY DEF Files
  <2>3. p_kernel' \in [Fds -> Files] /\ \A e \in Fds : e # h.fd => p_kernel'[e] = p_kernel[e]
    BY <2>1, <2>2 DEF PreloadInv
  <2>4. ASSUME NEW e \in P!Descriptors, e \notin p_mixed' PROVE Tidy(e)'
    <3>1. Tidy(e) /\ e # h.fd
      BY <2>1, <2>4 DEF PreloadInv
    <3>2. HeldAt(e)' = HeldAt(e)
      BY <1>1 DEF HeldAt
    <3> QED BY <1>1, <2>3, <3>1, <3>2, TidyKept
  <2> QED BY <1>1, <2>1, <2>3, <2>4 DEF PreloadInv
<1> QED BY <1>2, <1>3

LEMMA NextPreload ==
  ASSUME PreloadInv, P!Next \/ UNCHANGED p_vars
  PROVE  PreloadInv'
<1>1. CASE P!SetMaster
  <2>1. P!Socket \in Files /\ P!Socket # P!None
    BY DEF Files, P!Socket, P!None
  <2> QED BY <1>1, <2>1, RealOpenKeeps DEF P!SetMaster
<1>2. CASE UNCHANGED p_vars
  BY <1>2 DEF p_vars, PreloadInv, Tidy, HeldAt, P!InKernel
<1> QED BY <1>1, <1>2, OpenKeeps, ReadWriteKeeps, CloseKeeps, LseekKeeps DEF P!Next

LEMMA InitPreload == SupportInit => PreloadInv
<1> SUFFICES ASSUME P!Init PROVE PreloadInv
  BY DEF SupportInit
<1>1. \A d : Tidy(d)
  BY DEF P!Init, Tidy, HeldAt, P!InKernel
<1>2. p_kernel \in [Fds -> Files] /\ p_held \subseteq Holding /\ p_map \subseteq Inodes
  BY DEF P!Init, Files
<1>3. \A path \in DOMAIN p_tree : p_tree[path] \in Inodes
  BY SupportAssumption DEF P!Init
<1>4. p_map = {} /\ p_served.asked = p_served.got
  BY DEF P!Init
<1> QED BY <1>1, <1>2, <1>3, <1>4 DEF PreloadInv

(***************************************************************************)
(* preload.cc, for any paths, inodes and descriptors: on a descriptor that *)
(* has not been mixed up, what is read and written goes to the file that   *)
(* the program means, and what nobody holds is closed.  It is mixed up     *)
(* when it is an inode and open in the kernel at a time, when its file is  *)
(* opened twice, by an lseek in the kernel, or when open, which looks up   *)
(* the path with the mount point in it and goes on after a failed Lookup,  *)
(* had another inode than the path means.                                  *)
(***************************************************************************)
THEOREM DescriptorsSoundTheorem == SupportSpec => []DescriptorsSound
<1>1. PreloadInv /\ [SupportNext]_all => PreloadInv'
  BY PartStep, NextPreload
<1>2. PreloadInv => DescriptorsSound
  <2> SUFFICES ASSUME PreloadInv PROVE P!RightFile /\ P!NothingLeftOpen
    BY DEF DescriptorsSound
  <2>1. ASSUME NEW d \in P!Descriptors \ p_mixed, d \in p_map \/ P!InKernel(d)
        PROVE  \E h \in p_held : h.fd = d
    <3>1. HeldAt(d) # {}
      BY <2>1 DEF PreloadInv, Tidy
    <3> QED BY <3>1 DEF HeldAt
  <2>2. P!RightFile
    BY DEF PreloadInv, P!RightFile
  <2> QED BY <2>1, <2>2 DEF P!NothingLeftOpen
<1> QED BY <1>1, <1>2, InitPreload, PTL DEF SupportSpec, all
-----------------------------------------------------------------------------
(***************************************************************************)
(* HashCache: the nodes of the list, all different, and the map into it.   *)
(***************************************************************************)
Entries(n) == [key : Keys, id : 1 .. n]

\* The list l of entries that are different nodes, numbered up to n.
ListOK(l, n) ==
  l \in Seq(Entries(n)) /\ \A i, j \in 1 .. Len(l) : l[i].id = l[j].id => i = j

\* The map m leads from a key to an entry of that key.
Leads(m, l) ==
  \A k \in Keys : m[k] # 0 => \E j \in 1 .. Len(l) : l[j].key = k /\ l[j].id = m[k]

Mapped(m) == {k \in Keys : m[k] # 0}

CacheInv ==
  /\ h_nodes \in Nat /\ h_map \in [Keys -> Nat] /\ h_replacing \in BOOLEAN
  /\ h_tasks \in Nat /\ h_creating \in [Threads -> Keys \cup {"none"}]
  /\ ListOK(h_list, h_nodes) /\ Leads(h_map, h_list)
  /\ ~h_overrun => h_tasks = IF h_replacing THEN 1 ELSE 0
  /\ ~h_overrun /\ h_tasks > 0 /\ ~h_erased => Cardinality(Mapped(h_map)) > max_size
  /\ h_overrun => h_erased

LEMMA SizeIs == \A m : H!Size(m) = Cardinality(Mapped(m))
BY SameCardinality DEF H!Size, Mapped

LEMMA MappedFinite ==
  \A m : IsFiniteSet(Mapped(m)) /\ Cardinality(Mapped(m)) \in Nat
<1> SUFFICES ASSUME NEW m PROVE IsFiniteSet(Mapped(m)) /\ Cardinality(Mapped(m)) \in Nat
  OBVIOUS
<1>1. Mapped(m) \subseteq Keys /\ IsFiniteSet(Keys)
  BY SupportAssumption DEF Mapped
<1>2. IsFiniteSet(Mapped(m))
  BY <1>1, FS_Subset
<1> QED BY <1>2, FS_CardinalityType

\* There are no more keys in the map than entries in the list.
LEMMA NoMoreKeysThanEntries ==
  ASSUME NEW n \in Nat, NEW l, ListOK(l, n), NEW m, Leads(m, l)
  PROVE  Cardinality(Mapped(m)) <= Len(l)
<1>1. Len(l) \in Nat
  BY DEF ListOK
<1> DEFINE D == 1 .. Len(l)
           f == [k \in Mapped(m) |-> CHOOSE j \in D : l[j].key = k /\ l[j].id = m[k]]
<1>2. ASSUME NEW k \in Mapped(m) PROVE f[k] \in D /\ l[f[k]].key = k
  <2>1. \E j \in D : l[j].key = k /\ l[j].id = m[k]
    BY DEF Leads, Mapped
  <2> QED BY <2>1
<1> HIDE DEF f
<1>3. f \in [Mapped(m) -> D]
  <2>1. DOMAIN f = Mapped(m) /\ f = [k \in Mapped(m) |-> f[k]]
    BY DEF f
  <2> QED BY <1>2, <2>1
<1>4. \A a, b \in Mapped(m) : f[a] = f[b] => a = b
  BY <1>2
<1>5. f \in Injection(Mapped(m), D)
  BY <1>3, <1>4 DEF Injection, IsInjective
<1>6. IsFiniteSet(D) /\ Cardinality(D) = Len(l)
  <2>1. 1 \in Int /\ Len(l) \in Int
    BY <1>1
  <2>2. IsFiniteSet(D) /\ Cardinality(D) = IF 1 > Len(l) THEN 0 ELSE Len(l) - 1 + 1
    BY <2>1, FS_Interval
  <2> QED BY <1>1, <2>2
<1> HIDE DEF D
<1> QED BY <1>5, <1>6, FS_Injection

-----------------------------------------------------------------------------
\* Insert: a new node at the end of the list.
LEMMA InsertedOK ==
  ASSUME NEW n \in Nat, NEW l, ListOK(l, n), NEW m \in [Keys -> Nat], Leads(m, l), NEW k \in Keys
  PROVE  LET l2 == Append(l, [key |-> k, id |-> n + 1])
             m2 == [m EXCEPT ![k] = n + 1]
         IN  ListOK(l2, n + 1) /\ m2 \in [Keys -> Nat] /\ Leads(m2, l2)
               /\ Cardinality(Mapped(m)) <= Cardinality(Mapped(m2))
<1> DEFINE e == [key |-> k, id |-> n + 1]
           l2 == Append(l, e)
           m2 == [m EXCEPT ![k] = n + 1]
<1>1. l \in Seq(Entries(n + 1)) /\ \A j \in 1 .. Len(l) : l[j].id \in 1 .. n
  <2>1. Entries(n) \subseteq Entries(n + 1)
    BY DEF Entries
  <2>2. l \in Seq(Entries(n))
    BY DEF ListOK
  <2>3. \A j \in 1 .. Len(l) : l[j] \in Entries(n)
    BY <2>2
  <2>4. l \in Seq(Entries(n + 1))
    BY <2>1, <2>2
  <2> QED BY <2>3, <2>4 DEF Entries
<1>2. e \in Entries(n + 1) /\ e.id = n + 1 /\ e.key = k
  BY DEF Entries
<1> HIDE DEF e
<1>3. /\ l2 \in Seq(Entries(n + 1)) /\ Len(l2) = Len(l) + 1 /\ Len(l) \in Nat
      /\ \A j \in 1 .. Len(l) : l2[j] = l[j]
      /\ l2[Len(l) + 1] = e
  BY <1>1, <1>2
<1> HIDE DEF l2
<1>4. ASSUME NEW i \in 1 .. Len(l2), NEW j \in 1 .. Len(l2), l2[i].id = l2[j].id
      PROVE  i = j
  <2>1. CASE i \in 1 .. Len(l) /\ j \in 1 .. Len(l)
    BY <1>3, <1>4, <2>1 DEF ListOK
  <2>2. CASE i \in 1 .. Len(l) /\ j = Len(l) + 1
    <3>1. l[i].id \in 1 .. n /\ l[i].id = n + 1
      BY <1>1, <1>2, <1>3, <1>4, <2>2
    <3> QED BY <3>1
  <2>3. CASE i = Len(l) + 1 /\ j \in 1 .. Len(l)
    <3>1. l[j].id \in 1 .. n /\ l[j].id = n + 1
      BY <1>1, <1>2, <1>3, <1>4, <2>3
    <3> QED BY <3>1
  <2>4. CASE i = Len(l) + 1 /\ j = Len(l) + 1
    BY <2>4
  <2> QED BY <1>3, <2>1, <2>2, <2>3, <2>4
<1>5. ListOK(l2, n + 1)
  BY <1>3, <1>4 DEF ListOK
<1>6. m2 \in [Keys -> Nat] /\ m2[k] = n + 1 /\ \A q \in Keys \ {k} : m2[q] = m[q]
  OBVIOUS
<1> HIDE DEF m2
<1>7. ASSUME NEW q \in Keys, m2[q] # 0
      PROVE  \E j \in 1 .. Len(l2) : l2[j].key = q /\ l2[j].id = m2[q]
  <2>1. CASE q = k
    <3>1. Len(l) + 1 \in 1 .. Len(l2)
      BY <1>3
    <3> QED BY <1>2, <1>3, <1>6, <2>1, <3>1
  <2>2. CASE q # k
    <3>1. PICK j \in 1 .. Len(l) : l[j].key = q /\ l[j].id = m[q]
      BY <1>6, <1>7, <2>2 DEF Leads
    <3>2. j \in 1 .. Len(l2) /\ l2[j] = l[j]
      BY <1>3
    <3> QED BY <1>6, <2>2, <3>1, <3>2
  <2> QED BY <2>1, <2>2
<1>8. Mapped(m) \subseteq Mapped(m2)
  BY <1>6 DEF Mapped
<1>9. Cardinality(Mapped(m)) <= Cardinality(Mapped(m2))
  BY <1>8, MappedFinite, FS_Subset
<1> QED BY <1>5, <1>6, <1>7, <1>9 DEF Leads, l2, m2, e

\* What Erase and splice make of the list: every other entry stays.
Cut(l, p) == SubSeq(l, 1, p - 1) \o SubSeq(l, p + 1, Len(l))

LEMMA CutOK ==
  ASSUME NEW n \in Nat, NEW l, ListOK(l, n), NEW p \in 1 .. Len(l)
  PROVE  /\ ListOK(Cut(l, p), n)
         /\ \A i \in 1 .. Len(l) : i # p => \E j \in 1 .. Len(Cut(l, p)) : Cut(l, p)[j] = l[i]
         /\ \A j \in 1 .. Len(Cut(l, p)) : Cut(l, p)[j].id # l[p].id
<1> DEFINE a == SubSeq(l, 1, p - 1)
           b == SubSeq(l, p + 1, Len(l))
           w == Cut(l, p)
           N == Len(l)
<1>1. l \in Seq(Entries(n)) /\ N \in Nat /\ p \in Nat /\ \A i \in 1 .. N : l[i] \in Entries(n)
  BY DEF ListOK
<1>2. a \in Seq(Entries(n)) /\ Len(a) = p - 1 /\ \A i \in 1 .. p - 1 : a[i] = l[i]
  BY <1>1, SubSeqProperties
<1>3. b \in Seq(Entries(n)) /\ Len(b) = N - p /\ \A i \in 1 .. N - p : b[i] = l[p + i]
  BY <1>1, SubSeqProperties
<1>4. w = a \o b
  BY DEF Cut
<1> HIDE DEF a, b, w
<1>5. /\ w \in Seq(Entries(n)) /\ Len(w) = Len(a) + Len(b)
      /\ \A i \in 1 .. Len(a) + Len(b) : w[i] = IF i <= Len(a) THEN a[i] ELSE b[i - Len(a)]
  BY <1>2, <1>3, <1>4, ConcatProperties
<1>6. Len(w) = N - 1
  BY <1>1, <1>2, <1>3, <1>5
<1> DEFINE At(i) == IF i < p THEN i ELSE i + 1
<1>7. ASSUME NEW i \in 1 .. N - 1 PROVE w[i] = l[At(i)] /\ At(i) \in 1 .. N /\ At(i) # p
  <2>1. CASE i < p
    <3>1. i \in 1 .. Len(a) + Len(b) /\ i <= Len(a) /\ i \in 1 .. p - 1
      BY <1>1, <1>2, <1>3, <2>1
    <3> QED BY <1>1, <1>2, <1>5, <2>1, <3>1
  <2>2. CASE ~(i < p)
    <3>1. /\ i \in 1 .. Len(a) + Len(b) /\ ~(i <= Len(a)) /\ i - Len(a) \in 1 .. N - p
          /\ p + (i - Len(a)) = i + 1
      BY <1>1, <1>2, <1>3, <2>2
    <3>2. w[i] = b[i - Len(a)] /\ b[i - Len(a)] = l[i + 1]
      BY <1>3, <1>5, <3>1
    <3> QED BY <1>1, <2>2, <3>2
  <2> QED BY <2>1, <2>2
<1>8. ASSUME NEW i \in 1 .. N - 1, NEW j \in 1 .. N - 1, At(i) = At(j) PROVE i = j
  BY <1>1, <1>8
<1>9. ASSUME NEW i \in 1 .. N, i # p PROVE \E j \in 1 .. N - 1 : At(j) = i
  <2>1. CASE i < p
    <3>1. i \in 1 .. N - 1 /\ At(i) = i
      BY <1>1, <2>1
    <3> QED BY <3>1
  <2>2. CASE i > p
    <3>1. i - 1 \in 1 .. N - 1 /\ At(i - 1) = i
      BY <1>1, <2>2
    <3> QED BY <3>1
  <2> QED BY <1>1, <1>9, <2>1, <2>2
<1> HIDE DEF At
<1>10. ASSUME NEW i \in 1 .. N - 1, NEW j \in 1 .. N - 1, w[i].id = w[j].id PROVE i = j
  <2>1. At(i) = At(j)
    BY <1>7, <1>10 DEF ListOK
  <2> QED BY <1>8, <2>1
<1>11. ListOK(w, n)
  BY <1>5, <1>6, <1>10 DEF ListOK
<1>12. \A i \in 1 .. N : i # p => \E j \in 1 .. Len(w) : w[j] = l[i]
  BY <1>6, <1>7, <1>9
<1>13. \A j \in 1 .. Len(w) : w[j].id # l[p].id
  BY <1>6, <1>7 DEF ListOK
<1> QED BY <1>11, <1>12, <1>13 DEF w

\* An entry that goes to the end of the list.
LEMMA MovedOK ==
  ASSUME NEW n \in Nat, NEW l, ListOK(l, n), NEW p \in 1 .. Len(l)
  PROVE  LET v == Append(Cut(l, p), l[p])
         IN  /\ ListOK(v, n)
             /\ \A i \in 1 .. Len(l) : \E j \in 1 .. Len(v) : v[j] = l[i]
<1> DEFINE w == Cut(l, p)
           v == Append(w, l[p])
<1>1. ListOK(w, n) /\ \A j \in 1 .. Len(w) : w[j].id # l[p].id
  BY CutOK
<1>2. \A i \in 1 .. Len(l) : i # p => \E j \in 1 .. Len(w) : w[j] = l[i]
  BY CutOK
<1>3. w \in Seq(Entries(n)) /\ l[p] \in Entries(n)
  BY <1>1 DEF ListOK
<1> HIDE DEF w
<1>4. /\ v \in Seq(Entries(n)) /\ Len(v) = Len(w) + 1 /\ Len(w) \in Nat
      /\ \A j \in 1 .. Len(w) : v[j] = w[j]
      /\ v[Len(w) + 1] = l[p]
  BY <1>3
<1> HIDE DEF v
<1>5. ASSUME NEW i \in 1 .. Len(v), NEW j \in 1 .. Len(v), v[i].id = v[j].id PROVE i = j
  <2>1. CASE i \in 1 .. Len(w) /\ j \in 1 .. Len(w)
    BY <1>1, <1>4, <1>5, <2>1 DEF ListOK
  <2>2. CASE i \in 1 .. Len(w) /\ j = Len(w) + 1
    BY <1>1, <1>4, <1>5, <2>2
  <2>3. CASE i = Len(w) + 1 /\ j \in 1 .. Len(w)
    BY <1>1, <1>4, <1>5, <2>3
  <2>4. CASE i = Len(w) + 1 /\ j = Len(w) + 1
    BY <2>4
  <2> QED BY <1>4, <2>1, <2>2, <2>3, <2>4
<1>6. ListOK(v, n)
  BY <1>4, <1>5 DEF ListOK
<1>7. ASSUME NEW i \in 1 .. Len(l) PROVE \E j \in 1 .. Len(v) : v[j] = l[i]
  <2>1. CASE i = p
    <3>1. Len(w) + 1 \in 1 .. Len(v)
      BY <1>4
    <3> QED BY <1>4, <2>1, <3>1
  <2>2. CASE i # p
    <3>1. PICK j \in 1 .. Len(w) : w[j] = l[i]
      BY <1>2, <2>2
    <3>2. j \in 1 .. Len(v) /\ v[j] = w[j]
      BY <1>4
    <3> QED BY <3>1, <3>2
  <2> QED BY <2>1, <2>2
<1> QED BY <1>6, <1>7 DEF v, w

\* Replace: the oldest c entries go.
LEMMA DroppedOK ==
  ASSUME NEW n \in Nat, NEW l, ListOK(l, n), NEW c \in 0 .. Len(l)
  PROVE  LET v == SubSeq(l, c + 1, Len(l))
         IN  /\ ListOK(v, n)
             /\ \A i \in 1 .. Len(l) : i > c => \E j \in 1 .. Len(v) : v[j] = l[i]
<1> DEFINE v == SubSeq(l, c + 1, Len(l))
           N == Len(l)
<1>1. N \in Nat /\ c \in Nat /\ \A i \in 1 .. N : l[i] \in Entries(n)
  BY DEF ListOK
<1>2. v \in Seq(Entries(n)) /\ Len(v) = N - c /\ \A i \in 1 .. N - c : v[i] = l[c + i]
  BY <1>1, SubSeqProperties
<1> HIDE DEF v
<1>3. ASSUME NEW i \in 1 .. N - c, NEW j \in 1 .. N - c, v[i].id = v[j].id PROVE i = j
  <2>1. c + i \in 1 .. N /\ c + j \in 1 .. N
    BY <1>1
  <2>2. c + i = c + j
    BY <1>2, <1>3, <2>1 DEF ListOK
  <2> QED BY <1>1, <2>2
<1>4. ListOK(v, n)
  BY <1>2, <1>3 DEF ListOK
<1>5. ASSUME NEW i \in 1 .. N, i > c PROVE \E j \in 1 .. Len(v) : v[j] = l[i]
  <2>1. i - c \in 1 .. N - c /\ c + (i - c) = i
    BY <1>1, <1>5
  <2> QED BY <1>2, <2>1
<1> QED BY <1>4, <1>5 DEF v
-----------------------------------------------------------------------------
\* The iterator of a key that is in the map.
LEMMA PlaceIs ==
  ASSUME CacheInv, NEW k \in Keys, h_map[k] # 0
  PROVE  /\ H!Place(h_map[k]) \in 1 .. Len(h_list)
         /\ h_list[H!Place(h_map[k])].id = h_map[k] /\ h_list[H!Place(h_map[k])].key = k
         /\ H!Without(h_map[k]) = Cut(h_list, H!Place(h_map[k]))
         /\ H!Touched(h_map[k])
              = Append(Cut(h_list, H!Place(h_map[k])), h_list[H!Place(h_map[k])])
<1> DEFINE p == H!Place(h_map[k])
<1>1. PICK j \in 1 .. Len(h_list) : h_list[j].key = k /\ h_list[j].id = h_map[k]
  BY DEF CacheInv, Leads
<1>2. p \in 1 .. Len(h_list) /\ h_list[p].id = h_map[k]
  BY <1>1 DEF H!Place
<1>3. p = j
  BY <1>1, <1>2 DEF CacheInv, ListOK
<1>4. H!Without(h_map[k]) = Cut(h_list, p)
  BY DEF H!Without, Cut
<1> QED BY <1>1, <1>2, <1>3, <1>4 DEF H!Touched

\* The list is another one of the same or more entries, and the map the same.
LEMMA LeadsOn ==
  ASSUME NEW m, NEW l, NEW v, Leads(m, l),
         \A i \in 1 .. Len(l) : \E j \in 1 .. Len(v) : v[j] = l[i]
  PROVE  Leads(m, v)
<1> SUFFICES ASSUME NEW k \in Keys, m[k] # 0
             PROVE  \E j \in 1 .. Len(v) : v[j].key = k /\ v[j].id = m[k]
  BY DEF Leads
<1>1. PICK i \in 1 .. Len(l) : l[i].key = k /\ l[i].id = m[k]
  BY DEF Leads
<1> QED BY <1>1

LEMMA InsertedKeeps ==
  ASSUME CacheInv, ~h_overrun, NEW k \in Keys, H!Inserted(k), UNCHANGED h_overrun,
         h_creating' \in [Threads -> Keys \cup {"none"}]
  PROVE  CacheInv'
<1> DEFINE m2 == [h_map EXCEPT ![k] = h_nodes + 1]
<1>1. /\ h_nodes' = h_nodes + 1 /\ h_map' = m2
      /\ h_list' = Append(h_list, [key |-> k, id |-> h_nodes + 1])
      /\ IF H!ReplaceDue(m2)
         THEN h_replacing' = TRUE /\ h_tasks' = h_tasks + 1 /\ h_erased' = FALSE
         ELSE UNCHANGED <<h_replacing, h_tasks, h_erased>>
  BY DEF H!Inserted
<1>2. /\ h_nodes \in Nat /\ h_map \in [Keys -> Nat] /\ h_tasks \in Nat /\ h_replacing \in BOOLEAN
      /\ ListOK(h_list, h_nodes) /\ Leads(h_map, h_list)
      /\ h_tasks = IF h_replacing THEN 1 ELSE 0
      /\ h_tasks > 0 /\ ~h_erased => Cardinality(Mapped(h_map)) > max_size
  BY DEF CacheInv
<1>3. /\ ListOK(h_list', h_nodes') /\ h_map' \in [Keys -> Nat] /\ Leads(h_map', h_list')
      /\ Cardinality(Mapped(h_map)) <= Cardinality(Mapped(m2)) /\ h_nodes' \in Nat
  <2> DEFINE l2 == Append(h_list, [key |-> k, id |-> h_nodes + 1])
  <2>1. /\ ListOK(l2, h_nodes + 1) /\ m2 \in [Keys -> Nat] /\ Leads(m2, l2)
        /\ Cardinality(Mapped(h_map)) <= Cardinality(Mapped(m2))
    BY <1>2, InsertedOK
  <2>2. h_list' = l2 /\ h_map' = m2 /\ h_nodes' = h_nodes + 1 /\ h_nodes' \in Nat
    BY <1>1, <1>2
  <2> HIDE DEF l2, m2
  <2> QED BY <2>1, <2>2
<1>4. /\ Cardinality(Mapped(h_map)) \in Nat /\ Cardinality(Mapped(m2)) \in Nat
      /\ max_size \in Nat
  BY MappedFinite, SupportAssumption
<1>5. Mapped(h_map)' = Mapped(m2)
  BY <1>1 DEF Mapped
<1> HIDE DEF m2
<1>6. H!ReplaceDue(m2) => ~h_replacing /\ Cardinality(Mapped(m2)) > max_size
  BY SizeIs DEF H!ReplaceDue, H!Exceeded
<1>7. /\ h_tasks' \in Nat /\ h_replacing' \in BOOLEAN
      /\ h_tasks' = IF h_replacing' THEN 1 ELSE 0
  <2>1. CASE H!ReplaceDue(m2)
    BY <1>1, <1>2, <1>6, <2>1
  <2>2. CASE ~H!ReplaceDue(m2)
    BY <1>1, <1>2, <2>2
  <2> QED BY <2>1, <2>2
<1>8. h_tasks' > 0 /\ ~h_erased' => Cardinality(Mapped(m2)) > max_size
  <2>1. CASE H!ReplaceDue(m2)
    BY <1>6, <2>1
  <2>2. CASE ~H!ReplaceDue(m2)
    BY <1>1, <1>2, <1>3, <1>4, <2>2
  <2> QED BY <2>1, <2>2
<1>9. (h_tasks' > 0 /\ ~h_erased') => (Cardinality(Mapped(h_map)) > max_size)'
  BY <1>5, <1>8
<1> QED BY <1>3, <1>7, <1>9 DEF CacheInv

LEMMA FindKeeps ==
  ASSUME CacheInv, ~h_overrun, NEW t \in Threads, NEW k \in Keys, H!Find(t, k)
  PROVE  CacheInv'
<1>1. /\ h_list' = IF h_map[k] # 0 THEN H!Touched(h_map[k]) ELSE h_list
      /\ UNCHANGED <<h_map, h_replacing, h_tasks, h_creating, h_nodes, h_erased, h_overrun>>
  BY DEF H!Find
<1>2. ListOK(h_list', h_nodes) /\ Leads(h_map, h_list')
  <2>1. CASE h_map[k] = 0
    BY <1>1, <2>1 DEF CacheInv
  <2>2. CASE h_map[k] # 0
    <3>1. ListOK(h_list, h_nodes) /\ h_nodes \in Nat /\ Leads(h_map, h_list)
      BY DEF CacheInv
    <3>2. PICK p \in 1 .. Len(h_list) : h_list' = Append(Cut(h_list, p), h_list[p])
      BY <1>1, <2>2, PlaceIs
    <3>3. /\ ListOK(h_list', h_nodes)
          /\ \A i \in 1 .. Len(h_list) : \E j \in 1 .. Len(h_list') : h_list'[j] = h_list[i]
      BY <3>1, <3>2, MovedOK
    <3> QED BY <3>1, <3>3, LeadsOn
  <2> QED BY <2>1, <2>2
<1>3. Mapped(h_map)' = Mapped(h_map)
  BY <1>1 DEF Mapped
<1> QED BY <1>1, <1>2, <1>3 DEF CacheInv

LEMMA EraseKeeps ==
  ASSUME CacheInv, ~h_overrun, NEW t \in Threads, NEW k \in Keys, H!Erase(t, k)
  PROVE  CacheInv'
<1>1. /\ h_list' = IF h_map[k] # 0 THEN H!Without(h_map[k]) ELSE h_list
      /\ h_map' = [h_map EXCEPT ![k] = 0]
      /\ h_erased' = (h_erased \/ h_map[k] # 0)
      /\ UNCHANGED <<h_replacing, h_tasks, h_creating, h_nodes, h_overrun>>
  BY DEF H!Erase
<1>2. /\ ListOK(h_list, h_nodes) /\ h_nodes \in Nat /\ Leads(h_map, h_list)
      /\ h_map \in [Keys -> Nat]
  BY DEF CacheInv
<1>3. CASE h_map[k] = 0
  <2>1. h_map' = h_map /\ h_list' = h_list /\ (h_erased' <=> h_erased)
    BY <1>1, <1>2, <1>3
  <2>2. Mapped(h_map)' = Mapped(h_map)
    BY <2>1 DEF Mapped
  <2> QED BY <1>1, <2>1, <2>2 DEF CacheInv
<1>4. CASE h_map[k] # 0
  <2>1. PICK p \in 1 .. Len(h_list) :
          h_list' = Cut(h_list, p) /\ h_list[p].key = k
    BY <1>1, <1>4, PlaceIs
  <2>2. ListOK(h_list', h_nodes)
    BY <1>2, <2>1, CutOK
  <2>3. \A i \in 1 .. Len(h_list) :
          i # p => \E j \in 1 .. Len(h_list') : h_list'[j] = h_list[i]
    BY <1>2, <2>1, CutOK
  <2>4. h_map' \in [Keys -> Nat] /\ h_map'[k] = 0 /\ \A q \in Keys \ {k} : h_map'[q] = h_map[q]
    BY <1>1, <1>2
  <2>5. ASSUME NEW q \in Keys, h_map'[q] # 0
        PROVE  \E j \in 1 .. Len(h_list') : h_list'[j].key = q /\ h_list'[j].id = h_map'[q]
    <3>1. q # k /\ h_map'[q] = h_map[q]
      BY <2>4, <2>5
    <3>2. PICK i \in 1 .. Len(h_list) : h_list[i].key = q /\ h_list[i].id = h_map[q]
      BY <1>2, <2>5, <3>1 DEF Leads
    <3>3. i # p
      BY <2>1, <3>1, <3>2
    <3> QED BY <2>3, <3>1, <3>2, <3>3
  <2>6. Leads(h_map', h_list')
    BY <2>5 DEF Leads
  <2>7. h_erased'
    BY <1>1, <1>4
  <2> QED BY <1>1, <2>2, <2>4, <2>6, <2>7 DEF CacheInv
<1> QED BY <1>3, <1>4

\* Replace: the map has outgrown max_size when it runs, or Erase has been at it.
LEMMA ReplaceKeeps ==
  ASSUME CacheInv, ~h_overrun, H!Replace
  PROVE  CacheInv'
<1> DEFINE s == Cardinality(Mapped(h_map))
           c == s - max_size
<1>1. /\ ListOK(h_list, h_nodes) /\ h_nodes \in Nat /\ Leads(h_map, h_list)
      /\ h_map \in [Keys -> Nat] /\ h_tasks \in Nat /\ h_tasks = IF h_replacing THEN 1 ELSE 0
      /\ h_creating \in [Threads -> Keys \cup {"none"}] /\ h_replacing \in BOOLEAN
      /\ h_tasks > 0 /\ ~h_erased => s > max_size
  BY DEF CacheInv
<1>2. /\ s \in Nat /\ max_size \in Nat /\ s <= Len(h_list) /\ Len(h_list) \in Nat
  BY <1>1, MappedFinite, SupportAssumption, NoMoreKeysThanEntries DEF ListOK
<1>3. /\ h_tasks > 0 /\ h_tasks' = h_tasks - 1
      /\ UNCHANGED <<h_creating, h_nodes, h_calls, h_erased>>
      /\ IF s >= max_size /\ c <= Len(h_list)
         THEN /\ h_map' = H!Forgotten(c) /\ h_list' = SubSeq(h_list, c + 1, Len(h_list))
              /\ h_replacing' = FALSE /\ UNCHANGED h_overrun
         ELSE h_overrun' = TRUE /\ UNCHANGED <<h_list, h_map, h_replacing>>
  BY SizeIs DEF H!Replace
<1> HIDE DEF s
<1>4. CASE s >= max_size
  <2>1. c \in 0 .. Len(h_list) /\ c <= Len(h_list)
    BY <1>2, <1>4
  <2> HIDE DEF c
  <2>2. /\ h_map' = H!Forgotten(c) /\ h_list' = SubSeq(h_list, c + 1, Len(h_list))
        /\ h_replacing' = FALSE /\ h_overrun' = h_overrun /\ h_tasks' = 0
    <3>1. h_tasks' = 0
      BY <1>1, <1>3
    <3> QED BY <1>3, <1>4, <2>1, <3>1
  <2>3. /\ ListOK(h_list', h_nodes)
        /\ \A i \in 1 .. Len(h_list) :
             i > c => \E j \in 1 .. Len(h_list') : h_list'[j] = h_list[i]
    BY <1>1, <2>1, <2>2, DroppedOK
  <2>4. h_map' \in [Keys -> Nat]
    BY <1>1, <2>2 DEF H!Forgotten
  <2>5. ASSUME NEW k \in Keys, h_map'[k] # 0
        PROVE  \E j \in 1 .. Len(h_list') : h_list'[j].key = k /\ h_list'[j].id = h_map'[k]
    <3>1. h_map'[k] = h_map[k] /\ \A j \in 1 .. c : h_list[j].key # k
      BY <2>2, <2>5 DEF H!Forgotten
    <3>2. PICK i \in 1 .. Len(h_list) : h_list[i].key = k /\ h_list[i].id = h_map[k]
      BY <1>1, <2>5, <3>1 DEF Leads
    <3>3. i > c
      BY <1>2, <2>1, <3>1, <3>2
    <3> QED BY <2>3, <3>1, <3>2, <3>3
  <2>6. Leads(h_map', h_list')
    BY <2>5 DEF Leads
  <2>7. /\ h_tasks' \in Nat /\ ~(h_tasks' > 0) /\ h_replacing' \in BOOLEAN /\ ~h_overrun'
        /\ h_tasks' = IF h_replacing' THEN 1 ELSE 0
    <3>1. h_tasks' = 0 /\ h_replacing' = FALSE /\ h_overrun' = h_overrun
      BY <2>2
    <3>2. h_tasks' \in Nat /\ ~(h_tasks' > 0)
      BY <3>1
    <3>3. h_replacing' \in BOOLEAN /\ ~h_overrun' /\ h_tasks' = IF h_replacing' THEN 1 ELSE 0
      BY <3>1, Zenon
    <3> QED BY <3>2, <3>3
  <2>8. ListOK(h_list', h_nodes') /\ h_nodes' \in Nat /\ h_creating' = h_creating
    BY <1>1, <1>3, <2>3
  <2> QED BY <1>1, <2>4, <2>6, <2>7, <2>8 DEF CacheInv
<1>5. CASE ~(s >= max_size)
  <2>1. h_erased /\ h_overrun' = TRUE /\ UNCHANGED <<h_list, h_map, h_replacing>>
    BY <1>1, <1>2, <1>3, <1>5
  <2>2. h_tasks' \in Nat
    BY <1>1, <1>3
  <2> QED BY <1>1, <1>3, <2>1, <2>2 DEF CacheInv
<1> QED BY <1>4, <1>5

LEMMA NextCache ==
  ASSUME CacheInv, H!Next \/ UNCHANGED h_vars
  PROVE  CacheInv'
<1>1. CASE UNCHANGED h_vars
  BY <1>1 DEF h_vars, CacheInv, ListOK, Leads, Mapped
<1>2. ASSUME NEW t \in Threads, NEW k \in Keys, H!Insert(t, k), ~h_overrun PROVE CacheInv'
  <2>1. H!Inserted(k) /\ UNCHANGED <<h_creating, h_overrun>>
    BY <1>2 DEF H!Insert
  <2>2. h_creating' \in [Threads -> Keys \cup {"none"}]
    BY <2>1 DEF CacheInv
  <2> QED BY <1>2, <2>1, <2>2, InsertedKeeps
<1>3. ASSUME NEW t \in Threads, NEW k \in Keys, H!Locate(t, k) PROVE CacheInv'
  BY <1>3 DEF H!Locate, CacheInv, ListOK, Leads, Mapped
<1>4. ASSUME NEW t \in Threads, H!Created(t), ~h_overrun PROVE CacheInv'
  <2>1. /\ h_creating[t] # "none" /\ h_creating' = [h_creating EXCEPT ![t] = "none"]
        /\ UNCHANGED <<h_calls, h_overrun>>
    BY <1>4 DEF H!Created, H!NoKey
  <2>2. h_creating[t] \in Keys /\ h_creating' \in [Threads -> Keys \cup {"none"}]
    BY <2>1 DEF CacheInv
  <2>3. CASE H!Inserted(h_creating[t])
    BY <1>4, <2>1, <2>2, <2>3, InsertedKeeps
  <2>4. CASE UNCHANGED <<h_list, h_map, h_replacing, h_tasks, h_nodes, h_erased>>
    BY <2>1, <2>2, <2>4 DEF CacheInv, ListOK, Leads, Mapped
  <2> QED BY <1>4, <2>3, <2>4 DEF H!Created
<1> QED BY <1>1, <1>2, <1>3, <1>4, FindKeeps, EraseKeeps, ReplaceKeeps DEF H!Next

LEMMA InitCache == SupportInit => CacheInv
<1> SUFFICES ASSUME H!Init PROVE CacheInv
  BY DEF SupportInit
<1>1. /\ h_list = <<>> /\ h_map = [k \in Keys |-> 0] /\ h_nodes = 0 /\ h_tasks = 0
      /\ ~h_replacing /\ h_replacing \in BOOLEAN /\ ~h_overrun
      /\ h_creating = [t \in Threads |-> "none"]
  BY DEF H!Init, H!NoKey
<1>2. ListOK(h_list, h_nodes) /\ Leads(h_map, h_list)
  BY <1>1 DEF ListOK, Leads
<1> QED BY <1>1, <1>2 DEF CacheInv

(***************************************************************************)
(* base3/cache.h, for any threads, keys and max_size: what the map says of *)
(* a key is an entry of that key in the list, whichever entries of it      *)
(* Insert has left there, and Replace stays within the list unless Erase   *)
(* came between its Post and its run.                                      *)
(***************************************************************************)
THEOREM CacheSoundTheorem == SupportSpec => []CacheSound
<1>1. CacheInv /\ [SupportNext]_all => CacheInv'
  BY PartStep, NextCache
<1>2. ASSUME CacheInv PROVE CacheSound
  <2>1. ASSUME NEW k \in Keys, h_map[k] # 0
        PROVE  [key |-> k, id |-> h_map[k]] \in {h_list[j] : j \in 1 .. Len(h_list)}
    <3>1. PICK j \in 1 .. Len(h_list) : h_list[j].key = k /\ h_list[j].id = h_map[k]
      BY <1>2, <2>1 DEF CacheInv, Leads
    <3>2. h_list[j] \in [key : Keys, id : 1 .. h_nodes]
      <4>1. h_list \in Seq(Entries(h_nodes))
        BY <1>2 DEF CacheInv, ListOK
      <4>2. h_list[j] \in Entries(h_nodes)
        BY <4>1
      <4> QED BY <4>2 DEF Entries
    <3>3. [key |-> k, id |-> h_map[k]] = h_list[j]
      BY <3>1, <3>2
    <3> QED BY <3>3
  <2> QED BY <1>2, <2>1 DEF CacheInv, CacheSound, H!NoDangling, H!ReplaceInBounds
<1> QED BY <1>1, <1>2, InitCache, PTL DEF SupportSpec, all
-----------------------------------------------------------------------------
(***************************************************************************)
(* BundleUrl: numbers.  What a recursive function of the model computes is *)
(* proved by the least number for which it would be otherwise.             *)
(***************************************************************************)

\* The tables that the loops of ToSixty and of FromSixty fill.
DigitTable(D, n, base) ==
  D = [m \in 0 .. n |-> IF m < base THEN <<m>> ELSE Append(D[m \div base], m % base)]

SumTable(t, L, s, base) ==
  t = [j \in 0 .. L |->
         IF j = 0 THEN 0
         ELSE IF t[j - 1] < 0 THEN -1 ELSE t[j - 1] * base + U!CharTable(s[j], base)]

\* Quotient and remainder make up the number.
LEMMA Division ==
  ASSUME NEW m \in Int, NEW base \in Int, base > 0
  PROVE  m = (m \div base) * base + (m % base)
BY Z3

\* What one turn of ToSixty's loop leaves is less.
LEMMA DivisionFacts ==
  ASSUME NEW m \in Nat, NEW base \in Nat, base > 1
  PROVE  /\ m \div base \in Nat /\ m % base \in 0 .. base - 1
         /\ (m \div base) * base + (m % base) = m
         /\ m >= base => m \div base < m
<1>1. m \div base \in Nat /\ m % base \in 0 .. base - 1
  OBVIOUS
<1>2. (m \div base) * base + (m % base) = m
  BY Division
<1>3. ASSUME m >= base PROVE m \div base < m
  <2> DEFINE q == m \div base
  <2>1. q \in Nat /\ q * base <= m
    BY <1>1, <1>2
  <2>2. CASE q = 0
    BY <2>2, <1>3
  <2>3. CASE q > 0
    <3>1. q * base >= q * 2
      BY <2>1
    <3> QED BY <2>1, <2>3, <3>1
  <2> QED BY <2>1, <2>2, <2>3
<1> QED BY <1>1, <1>2, <1>3

\* The table that ToSixty's loop fills exists, by the least number without one.
LEMMA DigitTableExists ==
  ASSUME NEW base \in Nat, base > 1, NEW n \in Nat
  PROVE  \E D : DigitTable(D, n, base)
<1> DEFINE Bad == {k \in Nat : ~ \E D : DigitTable(D, k, base)}
<1>1. CASE Bad = {}
  BY <1>1
<1>2. CASE Bad # {}
  <2>1. PICK k \in Bad : \A j \in Bad : k <= j
    BY <1>2, LeastExists
  <2>2. k # 0
    <3> DEFINE Z == [m \in 0 .. 0 |-> <<m>>]
    <3>1. \A m \in 0 .. 0 : m < base
      OBVIOUS
    <3>2. DigitTable(Z, 0, base)
      BY <3>1 DEF DigitTable
    <3> QED BY <3>2
  <2>3. k - 1 \in Nat /\ k - 1 \notin Bad
    BY <2>1, <2>2
  <2>4. PICK E : DigitTable(E, k - 1, base)
    BY <2>3
  <2> DEFINE F == [m \in 0 .. k |->
                     IF m < base THEN <<m>> ELSE Append(E[m \div base], m % base)]
  <2>5. ASSUME NEW m \in 0 .. k - 1 PROVE E[m] = F[m]
    <3>1. m \in 0 .. k
      BY <2>3
    <3>2. E[m] = IF m < base THEN <<m>> ELSE Append(E[m \div base], m % base)
      BY <2>4, Zenon DEF DigitTable
    <3> QED BY <3>1, <3>2
  <2>6. ASSUME NEW m \in 0 .. k, ~(m < base) PROVE E[m \div base] = F[m \div base]
    <3>1. m \in Nat /\ m >= base /\ m <= k
      BY <2>6, <2>3
    <3> DEFINE q == m \div base
    <3>2. q \in Nat /\ q < m
      BY <3>1, DivisionFacts
    <3> HIDE DEF q
    <3>3. q \in 0 .. k - 1
      BY <3>1, <3>2, <2>3
    <3> QED BY <3>3, <2>5 DEF q
  <2>7. DigitTable(F, k, base)
    BY <2>6 DEF DigitTable
  <2> QED BY <2>7, <2>1
<1> QED BY <1>1, <1>2

\* So does the table of FromSixty's loop.
LEMMA SumTableExists ==
  ASSUME NEW base, NEW s, NEW L \in Nat
  PROVE  \E t : SumTable(t, L, s, base)
<1> DEFINE Bad == {k \in Nat : ~ \E t : SumTable(t, k, s, base)}
<1>1. CASE Bad = {}
  BY <1>1
<1>2. CASE Bad # {}
  <2>1. PICK k \in Bad : \A j \in Bad : k <= j
    BY <1>2, LeastExists
  <2>2. k # 0
    <3> DEFINE Z == [j \in 0 .. 0 |-> 0]
    <3>1. \A j \in 0 .. 0 : j = 0
      OBVIOUS
    <3>2. SumTable(Z, 0, s, base)
      BY <3>1 DEF SumTable
    <3> QED BY <3>2
  <2>3. k - 1 \in Nat /\ k - 1 \notin Bad
    BY <2>1, <2>2
  <2>4. PICK e : SumTable(e, k - 1, s, base)
    BY <2>3
  <2> DEFINE f == [j \in 0 .. k |->
                     IF j = 0 THEN 0
                     ELSE IF e[j - 1] < 0 THEN -1 ELSE e[j - 1] * base + U!CharTable(s[j], base)]
  <2>5. ASSUME NEW j \in 0 .. k - 1 PROVE e[j] = f[j]
    BY <2>4, <2>3 DEF SumTable
  <2>6. ASSUME NEW j \in 0 .. k, j # 0 PROVE e[j - 1] = f[j - 1]
    <3>1. j - 1 \in 0 .. k - 1
      BY <2>6
    <3> QED BY <3>1, <2>5
  <2>7. SumTable(f, k, s, base)
    BY <2>6 DEF SumTable
  <2> QED BY <2>7, <2>1
<1> QED BY <1>1, <1>2

\* Only one table adds up a string.
LEMMA SumIs ==
  ASSUME NEW base, NEW s, Len(s) \in Nat, NEW t, SumTable(t, Len(s), s, base)
  PROVE  U!Sum(s, base) = t[Len(s)]
<1> DEFINE L == Len(s)
           c == CHOOSE f : SumTable(f, L, s, base)
<1>1. U!Sum(s, base) = c[L]
  BY Zenon DEF U!Sum, SumTable
<1>2. SumTable(c, L, s, base)
  <2> HIDE DEF L
  <2>1. SumTable(t, L, s, base)
    BY DEF L
  <2> QED BY <2>1, Zenon
<1> HIDE DEF c
<1> DEFINE Bad == {j \in 0 .. L : c[j] # t[j]}
<1>3. CASE Bad = {}
  BY <1>1, <1>3
<1>4. CASE Bad # {}
  <2>1. PICK k \in Bad : \A j \in Bad : k <= j
    <3>1. Bad \in SUBSET Nat
      OBVIOUS
    <3> HIDE DEF Bad
    <3> QED BY <3>1, <1>4, LeastExists
  <2>2. c[0] = 0 /\ t[0] = 0
    BY <1>2 DEF SumTable
  <2>3. k # 0 /\ k - 1 \in 0 .. L /\ k - 1 \notin Bad
    BY <2>1, <2>2
  <2>4. c[k - 1] = t[k - 1]
    BY <2>3
  <2>5. c[k] = (IF c[k - 1] < 0 THEN -1 ELSE c[k - 1] * base + U!CharTable(s[k], base))
    BY <1>2, <2>3 DEF SumTable
  <2>6. t[k] = (IF t[k - 1] < 0 THEN -1 ELSE t[k - 1] * base + U!CharTable(s[k], base))
    BY <2>3 DEF SumTable
  <2> QED BY <2>1, <2>4, <2>5, <2>6
<1> QED BY <1>3, <1>4

\* One more digit: what FromSixty has so far, times the base, and the digit.
LEMMA SumAppend ==
  ASSUME NEW base \in Nat, NEW s \in Seq(Nat), NEW d \in 0 .. base - 1, U!Sum(s, base) \in Nat
  PROVE  U!Sum(Append(s, d), base) = U!Sum(s, base) * base + d
<1> DEFINE L == Len(s)
           r == Append(s, d)
<1>1. L \in Nat /\ Len(r) = L + 1 /\ r[L + 1] = d /\ \A j \in 1 .. L : r[j] = s[j]
  OBVIOUS
<1>2. PICK t : SumTable(t, L, s, base)
  BY <1>1, SumTableExists
<1>3. U!Sum(s, base) = t[L]
  BY <1>1, <1>2, SumIs
<1> HIDE DEF L, r
<1> DEFINE e == [j \in 0 .. L + 1 |-> IF j = L + 1 THEN t[L] * base + d ELSE t[j]]
<1>4. U!CharTable(d, base) = d
  BY DEF U!CharTable
<1>5. \A j \in 0 .. L : e[j] = t[j]
  BY <1>1
<1>6. ASSUME NEW j \in 0 .. L + 1
      PROVE  e[j] = IF j = 0 THEN 0
                    ELSE IF e[j - 1] < 0 THEN -1 ELSE e[j - 1] * base + U!CharTable(r[j], base)
  <2>1. CASE j = L + 1
    <3>1. e[j] = t[L] * base + d /\ j # 0 /\ j - 1 = L /\ L \in 0 .. L
      BY <1>1, <2>1
    <3>2. e[j - 1] = t[L] /\ ~(t[L] < 0)
      BY <3>1, <1>5, <1>3
    <3>3. r[j] = d
      BY <1>1, <2>1
    <3> QED BY <3>1, <3>2, <3>3, <1>4
  <2>2. CASE j = 0
    BY <1>1, <1>2, <2>2 DEF SumTable
  <2>3. CASE j # 0 /\ j # L + 1
    <3>1. j \in 1 .. L /\ j - 1 \in 0 .. L /\ j \in 0 .. L
      BY <1>1, <2>3
    <3>2. e[j] = t[j] /\ e[j - 1] = t[j - 1] /\ r[j] = s[j]
      BY <3>1, <1>1, <1>5
    <3>3. t[j] = IF t[j - 1] < 0 THEN -1 ELSE t[j - 1] * base + U!CharTable(s[j], base)
      BY <3>1, <1>2, <2>3 DEF SumTable
    <3> HIDE DEF e
    <3> QED BY <3>2, <3>3, <2>3
  <2> QED BY <2>1, <2>2, <2>3
<1>7. SumTable(e, L + 1, r, base)
  BY <1>6 DEF SumTable
<1>8. U!Sum(r, base) = e[L + 1]
  BY <1>1, <1>7, SumIs
<1> QED BY <1>1, <1>3, <1>8 DEF r

\* No digit adds up to nothing.
LEMMA SumEmpty ==
  ASSUME NEW base
  PROVE  U!Sum(<<>>, base) = 0
<1>1. Len(<<>>) = 0
  OBVIOUS
<1>2. PICK t : SumTable(t, 0, <<>>, base)
  BY SumTableExists
<1>3. U!Sum(<<>>, base) = t[0]
  BY <1>1, <1>2, SumIs
<1> QED BY <1>2, <1>3 DEF SumTable

\* A string with a character more.
LEMMA AppendTyped ==
  ASSUME NEW S, NEW s \in Seq(S), NEW e \in S
  PROVE  Append(s, e) \in Seq(S) /\ Append(s, e) # <<>>
<1>1. Append(s, e) \in Seq(S) /\ Len(Append(s, e)) = Len(s) + 1 /\ Len(s) \in Nat
  OBVIOUS
<1>2. Len(<<>>) = 0
  OBVIOUS
<1> QED BY <1>1, <1>2

\* What is written in a base is made of its digits and reads back as the number.
LEMMA DigitsFacts ==
  ASSUME NEW base \in Nat, base > 1, NEW n \in Nat
  PROVE  /\ U!Digits(n, base) \in Seq(0 .. base - 1) /\ U!Digits(n, base) # <<>>
         /\ U!Sum(U!Digits(n, base), base) = n
<1> DEFINE D == CHOOSE f : DigitTable(f, n, base)
<1>1. ~(n < 0)
  OBVIOUS
<1>2. U!Digits(n, base) = D[n]
  BY <1>1, Zenon DEF U!Digits, DigitTable
<1>3. DigitTable(D, n, base)
  BY DigitTableExists, Zenon
<1> HIDE DEF D
<1> DEFINE Good(m) == /\ D[m] \in Seq(0 .. base - 1) /\ D[m] # <<>>
                      /\ U!Sum(D[m], base) = m
           Bad == {m \in 0 .. n : ~Good(m)}
<1>4. ASSUME NEW m \in 0 .. n, m < base PROVE Good(m)
  <2>1. D[m] = <<m>>
    <3>1. D[m] = IF m < base THEN <<m>> ELSE Append(D[m \div base], m % base)
      BY <1>3, Zenon DEF DigitTable
    <3> QED BY <3>1, <1>4
  <2>2. m \in 0 .. base - 1 /\ 0 * base + m = m
    BY <1>4
  <2>3. U!Sum(<<>>, base) = 0
    BY SumEmpty
  <2>4. Append(<<>>, m) = <<m>> /\ <<>> \in Seq(Nat)
    OBVIOUS
  <2>5. U!Sum(Append(<<>>, m), base) = U!Sum(<<>>, base) * base + m
    <3>1. U!Sum(<<>>, base) \in Nat /\ m \in 0 .. base - 1
      BY <2>2, <2>3
    <3> QED BY <3>1, <2>4, SumAppend, Zenon
  <2>6. U!Sum(<<m>>, base) = m
    BY <2>5, <2>3, <2>4, <2>2
  <2>7. <<m>> \in Seq(0 .. base - 1) /\ <<m>> # <<>>
    BY <2>2
  <2> QED BY <2>1, <2>6, <2>7
<1>5. ASSUME NEW m \in 0 .. n, ~(m < base), Good(m \div base) PROVE Good(m)
  <2> DEFINE q == m \div base
             r == m % base
  <2>1. D[m] = Append(D[q], r)
    <3>1. D[m] = IF m < base THEN <<m>> ELSE Append(D[m \div base], m % base)
      BY <1>3, Zenon DEF DigitTable
    <3> QED BY <3>1, <1>5
  <2>2. q \in Nat /\ r \in 0 .. base - 1 /\ q * base + r = m
    <3>1. m \in Nat
      OBVIOUS
    <3> QED BY <3>1, DivisionFacts, Zenon
  <2>3. D[q] \in Seq(0 .. base - 1) /\ U!Sum(D[q], base) = q
    BY <1>5
  <2> HIDE DEF q, r
  <2>4. D[q] \in Seq(Nat)
    BY <2>3
  <2>5. U!Sum(Append(D[q], r), base) = q * base + r
    BY <2>2, <2>3, <2>4, SumAppend
  <2>6. Append(D[q], r) \in Seq(0 .. base - 1) /\ Append(D[q], r) # <<>>
    BY <2>2, <2>3, AppendTyped, Zenon
  <2> QED BY <2>1, <2>2, <2>5, <2>6
<1>6. CASE Bad = {}
  BY <1>2, <1>6
<1>7. CASE Bad # {}
  <2>1. Bad \in SUBSET Nat
    OBVIOUS
  <2>2. PICK m \in Bad : \A j \in Bad : m <= j
    <3> HIDE DEF Bad
    <3> QED BY <2>1, <1>7, LeastExists
  <2>3. m \in 0 .. n /\ ~Good(m) /\ \A j \in 0 .. n : j < m => Good(j)
    BY <2>2
  <2> HIDE DEF Good, Bad
  <2>4. ~(m < base)
    BY <2>3, <1>4
  <2> DEFINE q == m \div base
  <2>5. q \in Nat /\ q < m
    <3>1. m \in Nat /\ m >= base
      BY <2>3, <2>4
    <3> QED BY <3>1, DivisionFacts, Zenon
  <2>6. q \in 0 .. n /\ q < m
    <3> HIDE DEF q
    <3> QED BY <2>3, <2>5
  <2>7. Good(q)
    BY <2>6, <2>3
  <2> QED BY <2>3, <2>4, <2>7, <1>5
<1> QED BY <1>6, <1>7

-----------------------------------------------------------------------------
(***************************************************************************)
(* BundleUrl: strings, and where rfind() and split() find what.            *)
(***************************************************************************)

\* A substring of a concatenation that is one of its parts.
LEMMA MiddlePart ==
  ASSUME NEW x \in Seq(Nat), NEW y \in Seq(Nat), NEW z \in Seq(Nat)
  PROVE  SubSeq((x \o y) \o z, Len(x) + 1, Len(x) + Len(y)) = y
<1> DEFINE s == (x \o y) \o z
           X == Len(x)
           Y == Len(y)
           w == SubSeq(s, X + 1, X + Y)
<1>1. X \in Nat /\ Y \in Nat /\ Len(z) \in Nat
  OBVIOUS
<1>2. ASSUME NEW j \in 1 .. Y PROVE s[X + j] = y[j] /\ s[X + j] \in Nat
  OBVIOUS
<1>3. \A j \in X + 1 .. X + Y : s[j] \in Nat
  <2> TAKE j \in X + 1 .. X + Y
  <2>1. j - X \in 1 .. Y /\ X + (j - X) = j
    BY <1>1
  <2> QED BY <2>1, <1>2
<1> HIDE DEF s, X, Y
<1>4. /\ w \in Seq(Nat)
      /\ Len(w) = IF X + 1 <= X + Y THEN (X + Y) - (X + 1) + 1 ELSE 0
      /\ \A j \in 1 .. (X + Y) - (X + 1) + 1 : w[j] = s[X + 1 + j - 1]
  <2>1. X + 1 \in Int /\ X + Y \in Int
    BY <1>1
  <2> QED BY <1>3, <2>1, SubSeqProperties
<1>5. Len(w) = Len(y)
  BY <1>1, <1>4 DEF Y
<1>6. ASSUME NEW j \in 1 .. Len(w) PROVE w[j] = y[j]
  <2>1. j \in 1 .. Y /\ j \in 1 .. (X + Y) - (X + 1) + 1 /\ X + 1 + j - 1 = X + j
    BY <1>1, <1>5 DEF Y
  <2> QED BY <2>1, <1>2, <1>4
<1> HIDE DEF w
<1>7. w = y
  BY <1>4, <1>5, <1>6, SeqEqual
<1> QED BY <1>7 DEF w, s, X, Y

\* The same at its beginning.
LEMMA FirstPart ==
  ASSUME NEW x \in Seq(Nat), NEW z \in Seq(Nat)
  PROVE  SubSeq(x \o z, 1, Len(x)) = x
<1>1. <<>> \in Seq(Nat) /\ Len(<<>>) = 0 /\ <<>> \o x = x /\ Len(x) \in Nat
  OBVIOUS
<1>2. SubSeq((<<>> \o x) \o z, Len(<<>>) + 1, Len(<<>>) + Len(x)) = x
  BY <1>1, MiddlePart
<1>3. Len(<<>>) + 1 = 1 /\ Len(<<>>) + Len(x) = Len(x)
  BY <1>1
<1> QED BY <1>1, <1>2, <1>3

\* The same at its end.
LEMMA LastPart ==
  ASSUME NEW x \in Seq(Nat), NEW y \in Seq(Nat)
  PROVE  SubSeq(x \o y, Len(x) + 1, Len(x) + Len(y)) = y
<1>1. <<>> \in Seq(Nat) /\ x \o y \in Seq(Nat) /\ (x \o y) \o <<>> = x \o y
  OBVIOUS
<1> QED BY <1>1, MiddlePart

\* rfind() finds the last one.
LEMMA RfindIs ==
  ASSUME NEW s \in Seq(Nat), NEW c, NEW r \in 1 .. Len(s), s[r] = c,
         \A k \in r + 1 .. Len(s) : s[k] # c
  PROVE  U!Rfind(s, c) = r
<1>1. \E j \in 1 .. Len(s) : s[j] = c
  OBVIOUS
<1> DEFINE Q(j) == s[j] = c /\ \A k \in j + 1 .. Len(s) : s[k] # c
<1>2. Q(r)
  OBVIOUS
<1>3. \A j \in 1 .. Len(s) : Q(j) => j = r
  <2> SUFFICES ASSUME NEW j \in 1 .. Len(s), Q(j), j # r PROVE FALSE
    OBVIOUS
  <2>1. CASE j < r
    <3>1. r \in j + 1 .. Len(s)
      BY <2>1
    <3> QED BY <3>1
  <2>2. CASE r < j
    <3>1. j \in r + 1 .. Len(s)
      BY <2>2
    <3> QED BY <3>1
  <2> QED BY <2>1, <2>2
<1> DEFINE x == CHOOSE j \in 1 .. Len(s) : Q(j)
<1>4. U!Rfind(s, c) = x
  BY <1>1, Zenon DEF U!Rfind
<1>5. x \in 1 .. Len(s) /\ Q(x)
  <2> HIDE DEF Q
  <2> QED BY <1>2
<1> QED BY <1>3, <1>4, <1>5

\* rfind() returns the last place, or none where there is none.
LEMMA RfindFacts ==
  ASSUME NEW s \in Seq(Nat), NEW c
  PROVE  /\ U!Rfind(s, c) \in 0 .. Len(s)
         /\ U!Rfind(s, c) # 0 => /\ s[U!Rfind(s, c)] = c
                                 /\ \A k \in U!Rfind(s, c) + 1 .. Len(s) : s[k] # c
         /\ U!Rfind(s, c) = 0 => \A k \in 1 .. Len(s) : s[k] # c
<1>1. CASE ~ \E j \in 1 .. Len(s) : s[j] = c
  <2>1. U!Rfind(s, c) = 0
    BY <1>1, Zenon DEF U!Rfind
  <2>2. Len(s) \in Nat
    OBVIOUS
  <2> QED BY <1>1, <2>1, <2>2
<1>2. CASE \E j \in 1 .. Len(s) : s[j] = c
  <2> DEFINE L == Len(s)
             S == {d \in 0 .. L - 1 : s[L - d] = c}
  <2>0. L \in Nat
    OBVIOUS
  <2>1. PICK j \in 1 .. L : s[j] = c
    BY <1>2
  <2>2. L - j \in 0 .. L - 1 /\ L - (L - j) = j
    BY <2>0
  <2>3. S \in SUBSET Nat /\ S # {}
    <3>1. L - j \in S
      BY <2>1, <2>2
    <3>2. S \subseteq 0 .. L - 1 /\ 0 .. L - 1 \subseteq Nat
      BY <2>0
    <3> HIDE DEF S
    <3> QED BY <3>1, <3>2
  <2>4. PICK d \in S : \A e \in S : d <= e
    <3> HIDE DEF S
    <3> QED BY <2>3, LeastExists
  <2> DEFINE r == L - d
  <2>5. r \in 1 .. L /\ s[r] = c
    BY <2>0, <2>4
  <2>6. ASSUME NEW k \in r + 1 .. L PROVE s[k] # c
    <3>1. L - k \in 0 .. L - 1 /\ L - (L - k) = k /\ L - k < d
      BY <2>0, <2>4
    <3> SUFFICES ASSUME s[k] = c PROVE FALSE
      OBVIOUS
    <3>2. L - k \in S
      BY <3>1
    <3>3. d <= L - k /\ d \in Nat /\ L - k \in Nat
      BY <3>1, <3>2, <2>4, <2>3
    <3> QED BY <3>1, <3>3
  <2> HIDE DEF r, S
  <2>7. U!Rfind(s, c) = r
    BY <2>5, <2>6, RfindIs
  <2> QED BY <2>5, <2>6, <2>7, <2>0
<1> QED BY <1>1, <1>2

\* Where separators are; a string without any.
Seps(s) == {j \in 1 .. Len(s) : U!Separator(s[j])}
Clean(s) == s \in Seq(Nat) /\ \A j \in 1 .. Len(s) : ~U!Separator(s[j])

\* A word brings no separator.
LEMMA SepsClean ==
  ASSUME NEW x \in Seq(Nat), NEW y, Clean(y)
  PROVE  x \o y \in Seq(Nat) /\ Len(x \o y) = Len(x) + Len(y) /\ Seps(x \o y) = Seps(x)
<1>1. y \in Seq(Nat) /\ Len(x) \in Nat /\ Len(y) \in Nat
  BY DEF Clean
<1>2. x \o y \in Seq(Nat) /\ Len(x \o y) = Len(x) + Len(y)
  BY <1>1
<1>3. ASSUME NEW j \in 1 .. Len(x) PROVE (x \o y)[j] = x[j] /\ j \in 1 .. Len(x) + Len(y)
  BY <1>1
<1>4. ASSUME NEW j \in 1 .. Len(x) + Len(y), j \notin 1 .. Len(x)
      PROVE  ~U!Separator((x \o y)[j])
  <2>1. (x \o y)[j] = y[j - Len(x)] /\ j - Len(x) \in 1 .. Len(y)
    BY <1>1, <1>4
  <2> QED BY <2>1 DEF Clean
<1> QED BY <1>2, <1>3, <1>4 DEF Seps

\* A separator is one more.
LEMMA SepsSeparator ==
  ASSUME NEW x \in Seq(Nat), NEW c \in Nat, U!Separator(c)
  PROVE  /\ x \o <<c>> \in Seq(Nat) /\ Len(x \o <<c>>) = Len(x) + 1
         /\ Seps(x \o <<c>>) = Seps(x) \cup {Len(x) + 1}
<1>1. Len(x) \in Nat
  OBVIOUS
<1>2. x \o <<c>> \in Seq(Nat) /\ Len(x \o <<c>>) = Len(x) + 1
  OBVIOUS
<1>3. ASSUME NEW j \in 1 .. Len(x) PROVE (x \o <<c>>)[j] = x[j] /\ j \in 1 .. Len(x) + 1
  OBVIOUS
<1>4. (x \o <<c>>)[Len(x) + 1] = c /\ Len(x) + 1 \in 1 .. Len(x) + 1
  OBVIOUS
<1>5. \A j \in 1 .. Len(x) + 1 : j \in 1 .. Len(x) \/ j = Len(x) + 1
  BY <1>1
<1> QED BY <1>2, <1>3, <1>4, <1>5 DEF Seps

\* A word alone has none.
LEMMA SepsOfClean ==
  ASSUME NEW y, Clean(y)
  PROVE  Seps(y) = {} /\ y \in Seq(Nat) /\ Len(y) \in Nat
BY DEF Clean, Seps

\* How many cuts are to the left of l.
Rank(s, l) == U!Cardinality({i \in U!Cuts(s) : i < l})

\* From one cut to the next the rank grows by one.
LEMMA RankNext ==
  ASSUME NEW s \in Seq(Nat), NEW j \in U!Cuts(s), NEW l \in Nat, j < l,
         \A i \in U!Cuts(s) : i < l => i <= j
  PROVE  Rank(s, l) = Rank(s, j) + 1
<1> DEFINE S == {i \in U!Cuts(s) : i < j}
           T == {i \in U!Cuts(s) : i < l}
<1>1. Len(s) + 1 \in Nat /\ U!Cuts(s) \subseteq 0 .. Len(s) + 1
  BY DEF U!Cuts
<1>2. IsFiniteSet(0 .. Len(s) + 1)
  BY <1>1, FS_Interval
<1>3. IsFiniteSet(S)
  BY <1>1, <1>2, FS_Subset
<1>4. T = S \cup {j} /\ j \notin S
  BY <1>1
<1> HIDE DEF S, T
<1>5. Cardinality(T) = Cardinality(S) + 1
  BY <1>3, <1>4, FS_AddElement
<1>6. \A X : U!Cardinality(X) = Cardinality(X)
  BY DEF Cardinality, U!Cardinality
<1> QED BY <1>5, <1>6 DEF Rank, S, T

\* No cut is left of 0, every cut is left of what is beyond the end.
LEMMA RankEnds ==
  ASSUME NEW s \in Seq(Nat)
  PROVE  Rank(s, 0) = 0 /\ \A l \in Nat : l > Len(s) + 1 => Rank(s, l) = U!Cardinality(U!Cuts(s))
<1>1. Len(s) + 1 \in Nat /\ U!Cuts(s) \subseteq 0 .. Len(s) + 1
  BY DEF U!Cuts
<1>2. {i \in U!Cuts(s) : i < 0} = {}
  BY <1>1
<1>3. U!Cardinality({}) = 0
  <2>1. \A X : U!Cardinality(X) = Cardinality(X)
    BY DEF Cardinality, U!Cardinality
  <2> QED BY <2>1, FS_EmptySet
<1>4. ASSUME NEW l \in Nat, l > Len(s) + 1 PROVE {i \in U!Cuts(s) : i < l} = U!Cuts(s)
  BY <1>1, <1>4
<1> QED BY <1>2, <1>3, <1>4 DEF Rank

\* Different cuts have different ranks: Cut(s, k) is the cut of rank k.
LEMMA CutOfRank ==
  ASSUME NEW s \in Seq(Nat), NEW j \in U!Cuts(s)
  PROVE  U!Cut(s, Rank(s, j)) = j
<1>1. Len(s) + 1 \in Nat /\ U!Cuts(s) \subseteq 0 .. Len(s) + 1
  BY DEF U!Cuts
<1>2. IsFiniteSet(0 .. Len(s) + 1)
  BY <1>1, FS_Interval
<1> DEFINE Below(l) == {i \in U!Cuts(s) : i < l}
<1>3. ASSUME NEW k \in U!Cuts(s), NEW l \in U!Cuts(s), k < l PROVE Rank(s, k) # Rank(s, l)
  <2>1. IsFiniteSet(Below(l))
    BY <1>1, <1>2, FS_Subset
  <2>2. Below(k) \subseteq Below(l) /\ k \in Below(l) /\ k \notin Below(k)
    BY <1>1, <1>3
  <2> HIDE DEF Below
  <2>3. Cardinality(Below(k)) # Cardinality(Below(l))
    BY <2>1, <2>2, FS_Subset
  <2>4. \A X : U!Cardinality(X) = Cardinality(X)
    BY DEF Cardinality, U!Cardinality
  <2> QED BY <2>3, <2>4 DEF Rank, Below
<1>4. \A l \in U!Cuts(s) : l < j \/ j < l \/ l = j
  BY <1>1
<1>5. \A l \in U!Cuts(s) : Rank(s, l) = Rank(s, j) => l = j
  BY <1>3, <1>4
<1> DEFINE k == Rank(s, j)
           x == CHOOSE l \in U!Cuts(s) : Rank(s, l) = k
<1>6. U!Cut(s, k) = x
  BY Zenon DEF U!Cut, Rank
<1>7. x \in U!Cuts(s) /\ Rank(s, x) = k
  OBVIOUS
<1> QED BY <1>5, <1>6, <1>7

\* Four cuts in order.
LEMMA FourCuts ==
  ASSUME NEW s \in Seq(Nat), NEW x \in Nat, NEW y \in Nat, NEW z \in Nat,
         0 < x /\ x < y /\ y < z /\ z = Len(s) + 1, U!Cuts(s) = {0, x, y, z}
  PROVE  /\ U!Cardinality(U!Cuts(s)) = 4
         /\ U!Cut(s, 0) = 0 /\ U!Cut(s, 1) = x /\ U!Cut(s, 2) = y /\ U!Cut(s, 3) = z
<1>1. 0 \in U!Cuts(s) /\ x \in U!Cuts(s) /\ y \in U!Cuts(s) /\ z \in U!Cuts(s)
  OBVIOUS
<1>2. /\ \A i \in U!Cuts(s) : i < x => i <= 0
      /\ \A i \in U!Cuts(s) : i < y => i <= x
      /\ \A i \in U!Cuts(s) : i < z => i <= y
      /\ \A i \in U!Cuts(s) : i < z + 1 => i <= z
  OBVIOUS
<1>3. Rank(s, 0) = 0 /\ Rank(s, z + 1) = U!Cardinality(U!Cuts(s))
  <2>1. z + 1 \in Nat /\ z + 1 > Len(s) + 1
    OBVIOUS
  <2> QED BY <2>1, RankEnds, Zenon
<1>4. Rank(s, x) = Rank(s, 0) + 1
  BY <1>1, <1>2, RankNext, Zenon
<1>5. Rank(s, y) = Rank(s, x) + 1
  BY <1>1, <1>2, RankNext, Zenon
<1>6. Rank(s, z) = Rank(s, y) + 1
  BY <1>1, <1>2, RankNext, Zenon
<1>7. Rank(s, z + 1) = Rank(s, z) + 1
  <2>1. z + 1 \in Nat /\ z < z + 1
    OBVIOUS
  <2> QED BY <2>1, <1>1, <1>2, RankNext, Zenon
<1>8. Rank(s, 0) = 0 /\ Rank(s, x) = 1 /\ Rank(s, y) = 2 /\ Rank(s, z) = 3
  BY <1>3, <1>4, <1>5, <1>6
<1>9. U!Cardinality(U!Cuts(s)) = 4
  BY <1>3, <1>7, <1>8
<1>10. /\ U!Cut(s, Rank(s, 0)) = 0 /\ U!Cut(s, Rank(s, x)) = x
       /\ U!Cut(s, Rank(s, y)) = y /\ U!Cut(s, Rank(s, z)) = z
  BY <1>1, CutOfRank, Zenon
<1> QED BY <1>8, <1>9, <1>10

\* The cuts of s are 0 and these four, in this order.
FiveInOrder(s, x, y, z, w) ==
  /\ s \in Seq(Nat) /\ x \in Nat /\ y \in Nat /\ z \in Nat /\ w \in Nat
  /\ 0 < x /\ x < y /\ y < z /\ z < w /\ w = Len(s) + 1
  /\ U!Cuts(s) = {0, x, y, z, w}

\* Five cuts in order.
LEMMA FiveCuts ==
  ASSUME NEW s, NEW x, NEW y, NEW z, NEW w, FiveInOrder(s, x, y, z, w)
  PROVE  /\ U!Cardinality(U!Cuts(s)) = 5
         /\ U!Cut(s, 0) = 0 /\ U!Cut(s, 1) = x /\ U!Cut(s, 2) = y /\ U!Cut(s, 3) = z
         /\ U!Cut(s, 4) = w
<1> USE DEF FiveInOrder
<1>1. /\ 0 \in U!Cuts(s) /\ x \in U!Cuts(s) /\ y \in U!Cuts(s) /\ z \in U!Cuts(s)
      /\ w \in U!Cuts(s)
  OBVIOUS
<1>2. /\ \A i \in U!Cuts(s) : i < x => i <= 0
      /\ \A i \in U!Cuts(s) : i < y => i <= x
      /\ \A i \in U!Cuts(s) : i < z => i <= y
      /\ \A i \in U!Cuts(s) : i < w => i <= z
      /\ \A i \in U!Cuts(s) : i < w + 1 => i <= w
  OBVIOUS
<1>3. Rank(s, 0) = 0 /\ Rank(s, w + 1) = U!Cardinality(U!Cuts(s))
  <2>1. w + 1 \in Nat /\ w + 1 > Len(s) + 1
    OBVIOUS
  <2> QED BY <2>1, RankEnds, Zenon
<1>4. Rank(s, x) = Rank(s, 0) + 1
  BY <1>1, <1>2, RankNext, Zenon
<1>5. Rank(s, y) = Rank(s, x) + 1
  BY <1>1, <1>2, RankNext, Zenon
<1>6. Rank(s, z) = Rank(s, y) + 1
  BY <1>1, <1>2, RankNext, Zenon
<1>7. Rank(s, w) = Rank(s, z) + 1
  BY <1>1, <1>2, RankNext, Zenon
<1>8. Rank(s, w + 1) = Rank(s, w) + 1
  <2>1. w + 1 \in Nat /\ w < w + 1
    OBVIOUS
  <2> QED BY <2>1, <1>1, <1>2, RankNext, Zenon
<1>9. /\ Rank(s, 0) = 0 /\ Rank(s, x) = 1 /\ Rank(s, y) = 2 /\ Rank(s, z) = 3
      /\ Rank(s, w) = 4
  BY <1>3, <1>4, <1>5, <1>6, <1>7
<1>10. U!Cardinality(U!Cuts(s)) = 5
  BY <1>3, <1>8, <1>9
<1>11. /\ U!Cut(s, Rank(s, 0)) = 0 /\ U!Cut(s, Rank(s, x)) = x
       /\ U!Cut(s, Rank(s, y)) = y /\ U!Cut(s, Rank(s, z)) = z /\ U!Cut(s, Rank(s, w)) = w
  BY <1>1, CutOfRank, Zenon
<1> QED BY <1>9, <1>10, <1>11

\* What is appended does not change a substring.
LEMMA PrefixKept ==
  ASSUME NEW x \in Seq(Nat), NEW z \in Seq(Nat), NEW p \in Nat, NEW q \in Nat, 1 <= p, q <= Len(x)
  PROVE  SubSeq(x \o z, p, q) = SubSeq(x, p, q)
<1>0. PICK y : y = x \o z
  OBVIOUS
<1> DEFINE v == SubSeq(y, p, q)
           w == SubSeq(x, p, q)
<1>1. \A j \in p .. q : x[j] \in Nat /\ y[j] \in Nat /\ y[j] = x[j]
  BY <1>0
<1>2. /\ v \in Seq(Nat) /\ Len(v) = IF p <= q THEN q - p + 1 ELSE 0
      /\ \A j \in 1 .. q - p + 1 : v[j] = y[p + j - 1]
  <2>1. p \in Int /\ q \in Int /\ \A j \in p .. q : y[j] \in Nat
    BY <1>1
  <2> QED BY ONLY <2>1, SubSeqProperties
<1>3. /\ w \in Seq(Nat) /\ Len(w) = IF p <= q THEN q - p + 1 ELSE 0
      /\ \A j \in 1 .. q - p + 1 : w[j] = x[p + j - 1]
  <2>1. p \in Int /\ q \in Int /\ \A j \in p .. q : x[j] \in Nat
    BY <1>1
  <2> QED BY ONLY <2>1, SubSeqProperties
<1> HIDE DEF v, w
<1>4. ASSUME NEW j \in 1 .. Len(v) PROVE v[j] = w[j]
  <2>1. p <= q /\ Len(v) = q - p + 1
    <3>1. CASE ~(p <= q)
      <4>1. j \in 1 .. 0
        BY <1>2, <3>1
      <4> QED BY <4>1
    <3> QED BY <3>1, <1>2
  <2>2. j \in 1 .. q - p + 1 /\ p + j - 1 \in p .. q
    BY <2>1
  <2> QED BY <2>2, <1>1, <1>2, <1>3
<1>5. Len(v) = Len(w)
  BY <1>2, <1>3
<1>6. v = w
  BY <1>2, <1>3, <1>4, <1>5, SeqEqual
<1> QED BY <1>0, <1>6 DEF v, w

\* Three and four words with a separator between them.
Join3(a, b, c, S) == (((a \o <<S>>) \o b) \o <<S>>) \o c
Join4(a, b, c, d, S) == (Join3(a, b, c, S) \o <<S>>) \o d

\* Where the words and the separators of s are.
Joins3(s, a, b, c) ==
  /\ s \in Seq(Nat) /\ Seps(s) = {Len(a) + 1, Len(a) + Len(b) + 2}
  /\ Len(s) = Len(a) + Len(b) + Len(c) + 2
  /\ SubSeq(s, 1, Len(a)) = a
  /\ SubSeq(s, Len(a) + 2, Len(a) + 1 + Len(b)) = b
  /\ SubSeq(s, Len(a) + Len(b) + 3, Len(a) + Len(b) + 2 + Len(c)) = c

\* boost::split() undoes the joining of words that have no separator in them.
LEMMA SplitThree ==
  ASSUME NEW a, NEW b, NEW c, Clean(a), Clean(b), Clean(c), NEW S \in Nat, U!Separator(S)
  PROVE  /\ Joins3(Join3(a, b, c, S), a, b, c)
         /\ U!Split(Join3(a, b, c, S)) = <<a, b, c>>
<1> DEFINE LA == Len(a)
           B == Len(b)
           C == Len(c)
           a1 == a \o <<S>>
           b0 == a1 \o b
           b1 == b0 \o <<S>>
           s == Join3(a, b, c, S)
<1>1. /\ Seps(a) = {} /\ a \in Seq(Nat) /\ LA \in Nat /\ b \in Seq(Nat) /\ B \in Nat
      /\ c \in Seq(Nat) /\ C \in Nat /\ <<S>> \in Seq(Nat)
  BY SepsOfClean
<1> HIDE DEF LA, B, C
<1>2. a1 \in Seq(Nat) /\ Len(a1) = LA + 1 /\ Seps(a1) = {LA + 1}
  BY <1>1, SepsSeparator DEF LA
<1> HIDE DEF a1
<1>3. b0 \in Seq(Nat) /\ Len(b0) = LA + 1 + B /\ Seps(b0) = {LA + 1}
  BY <1>1, <1>2, SepsClean DEF B
<1> HIDE DEF b0
<1>4. b1 \in Seq(Nat) /\ Len(b1) = LA + 1 + B + 1 /\ Seps(b1) = {LA + 1, LA + 1 + B + 1}
  BY <1>1, <1>3, SepsSeparator
<1> HIDE DEF b1
<1>0. s = b1 \o c
  BY DEF Join3, b1, b0, a1
<1> HIDE DEF s
<1>5. s \in Seq(Nat) /\ Len(s) = LA + 1 + B + 1 + C /\ Seps(s) = {LA + 1, LA + 1 + B + 1}
  BY <1>0, <1>1, <1>4, SepsClean DEF C
<1>6. LA + 1 + B + 1 = LA + B + 2 /\ LA + 1 + B + 1 + C = LA + B + C + 2
  BY <1>1
<1>7. SubSeq(s, 1, LA) = a
  <2>1. SubSeq(a1, 1, LA) = a
    BY <1>1, FirstPart DEF a1, LA
  <2>2. SubSeq(b0, 1, LA) = SubSeq(a1, 1, LA)
    BY <1>1, <1>2, PrefixKept DEF b0
  <2>3. SubSeq(b1, 1, LA) = SubSeq(b0, 1, LA)
    BY <1>1, <1>3, PrefixKept DEF b1
  <2>4. SubSeq(s, 1, LA) = SubSeq(b1, 1, LA)
    BY <1>0, <1>1, <1>4, PrefixKept
  <2> QED BY <2>1, <2>2, <2>3, <2>4
<1>8. SubSeq(s, LA + 2, LA + 1 + B) = b
  <2>1. SubSeq(b0, Len(a1) + 1, Len(a1) + Len(b)) = b
    BY <1>1, <1>2, LastPart DEF b0
  <2>2. Len(a1) + 1 = LA + 2 /\ Len(a1) + Len(b) = LA + 1 + B
    BY <1>1, <1>2 DEF B
  <2>3. SubSeq(b1, LA + 2, LA + 1 + B) = SubSeq(b0, LA + 2, LA + 1 + B)
    BY <1>1, <1>3, PrefixKept DEF b1
  <2>4. SubSeq(s, LA + 2, LA + 1 + B) = SubSeq(b1, LA + 2, LA + 1 + B)
    BY <1>0, <1>1, <1>4, PrefixKept
  <2> QED BY <2>1, <2>2, <2>3, <2>4
<1>9. SubSeq(s, LA + B + 3, LA + B + 2 + C) = c
  <2>1. SubSeq(s, Len(b1) + 1, Len(b1) + Len(c)) = c
    BY <1>0, <1>1, <1>4, LastPart
  <2>2. Len(b1) + 1 = LA + B + 3 /\ Len(b1) + Len(c) = LA + B + 2 + C
    BY <1>1, <1>4 DEF C
  <2> QED BY <2>1, <2>2
<1>10. U!Split(s) = <<a, b, c>>
  <2> DEFINE x == LA + 1
             y == LA + B + 2
             z == LA + B + C + 3
  <2>1. x \in Nat /\ y \in Nat /\ z \in Nat
    BY <1>1
  <2>8. 0 < x /\ x < y /\ y < z /\ z = Len(s) + 1
    BY <1>1, <1>5
  <2>2. U!Cuts(s) = {0, x, y, z}
    <3>1. U!Cuts(s) = {0, Len(s) + 1} \cup Seps(s)
      BY DEF U!Cuts, Seps
    <3> QED BY <3>1, <2>8, <1>5, <1>6
  <2>3. /\ x - 1 = LA /\ x + 1 = LA + 2 /\ y - 1 = LA + 1 + B
        /\ y + 1 = LA + B + 3 /\ z - 1 = LA + B + 2 + C
    BY <1>1
  <2> HIDE DEF x, y, z
  <2>4. /\ U!Cardinality(U!Cuts(s)) = 4
        /\ U!Cut(s, 0) = 0 /\ U!Cut(s, 1) = x /\ U!Cut(s, 2) = y /\ U!Cut(s, 3) = z
    <3>1. s \in Seq(Nat)
      BY <1>5
    <3> QED BY ONLY <3>1, <2>1, <2>2, <2>8, FourCuts, Zenon
  <2>5. SubSeq(s, 0 + 1, x - 1) = a /\ SubSeq(s, x + 1, y - 1) = b /\ SubSeq(s, y + 1, z - 1) = c
    BY <1>7, <1>8, <1>9, <2>3
  <2> DEFINE F(k) == SubSeq(s, U!Cut(s, k - 1) + 1, U!Cut(s, k) - 1)
  <2>6. F(1) = a /\ F(2) = b /\ F(3) = c
    BY <2>4, <2>5
  <2>7. U!Split(s) = [k \in 1 .. 3 |-> F(k)]
    BY <2>4 DEF U!Split
  <2> HIDE DEF F
  <2> QED BY <2>6, <2>7
<1>12. Len(s) = LA + B + C + 2 /\ Seps(s) = {LA + 1, LA + B + 2}
  BY <1>5, <1>6
<1> QED BY <1>5, <1>7, <1>8, <1>9, <1>10, <1>12 DEF LA, B, C, s, Joins3

\* The same for four words.
LEMMA SplitFour ==
  ASSUME NEW a, NEW b, NEW c, NEW d, Clean(a), Clean(b), Clean(c), Clean(d),
         NEW S \in Nat, U!Separator(S)
  PROVE  Join4(a, b, c, d, S) \in Seq(Nat) /\ U!Split(Join4(a, b, c, d, S)) = <<a, b, c, d>>
<1> DEFINE LA == Len(a)
           B == Len(b)
           C == Len(c)
           D == Len(d)
           c0 == Join3(a, b, c, S)
           c1 == c0 \o <<S>>
           s == Join4(a, b, c, d, S)
<1>1. /\ LA \in Nat /\ B \in Nat /\ C \in Nat /\ d \in Seq(Nat) /\ D \in Nat /\ <<S>> \in Seq(Nat)
  BY SepsOfClean
<1>2. /\ c0 \in Seq(Nat) /\ Seps(c0) = {LA + 1, LA + B + 2} /\ Len(c0) = LA + B + C + 2
      /\ SubSeq(c0, 1, LA) = a /\ SubSeq(c0, LA + 2, LA + 1 + B) = b
      /\ SubSeq(c0, LA + B + 3, LA + B + 2 + C) = c
  <2>1. Joins3(c0, a, b, c)
    BY SplitThree
  <2> HIDE DEF c0
  <2> QED BY <2>1 DEF Joins3
<1> HIDE DEF LA, B, C, D
<1>0. s = c1 \o d
  BY DEF Join4
<1> HIDE DEF c0, s
<1>3. c1 \in Seq(Nat) /\ Len(c1) = LA + B + C + 3 /\ Seps(c1) = {LA + 1, LA + B + 2, LA + B + C + 3}
  <2>1. /\ c1 \in Seq(Nat) /\ Len(c1) = LA + B + C + 2 + 1
        /\ Seps(c1) = {LA + 1, LA + B + 2} \cup {LA + B + C + 2 + 1}
    BY <1>2, SepsSeparator
  <2>2. LA + B + C + 2 + 1 = LA + B + C + 3
    BY <1>1
  <2> HIDE DEF c1
  <2> QED BY <2>1, <2>2
<1> HIDE DEF c1
<1>4. /\ s \in Seq(Nat) /\ Len(s) = LA + B + C + 3 + D
      /\ Seps(s) = {LA + 1, LA + B + 2, LA + B + C + 3}
  BY <1>0, <1>1, <1>3, SepsClean DEF D
<1>5. SubSeq(s, 1, LA) = a /\ SubSeq(s, LA + 2, LA + 1 + B) = b
  <2>1. /\ SubSeq(c1, 1, LA) = SubSeq(c0, 1, LA)
        /\ SubSeq(c1, LA + 2, LA + 1 + B) = SubSeq(c0, LA + 2, LA + 1 + B)
    BY <1>1, <1>2, PrefixKept DEF c1
  <2>2. /\ SubSeq(s, 1, LA) = SubSeq(c1, 1, LA)
        /\ SubSeq(s, LA + 2, LA + 1 + B) = SubSeq(c1, LA + 2, LA + 1 + B)
    BY <1>0, <1>1, <1>3, PrefixKept
  <2> QED BY <2>1, <2>2, <1>2
<1>6. SubSeq(s, LA + B + 3, LA + B + 2 + C) = c
  <2>1. SubSeq(c1, LA + B + 3, LA + B + 2 + C) = SubSeq(c0, LA + B + 3, LA + B + 2 + C)
    BY <1>1, <1>2, PrefixKept DEF c1
  <2>2. SubSeq(s, LA + B + 3, LA + B + 2 + C) = SubSeq(c1, LA + B + 3, LA + B + 2 + C)
    BY <1>0, <1>1, <1>3, PrefixKept
  <2> QED BY <2>1, <2>2, <1>2
<1>7. SubSeq(s, LA + B + C + 4, LA + B + C + 3 + D) = d
  <2>1. SubSeq(s, Len(c1) + 1, Len(c1) + Len(d)) = d
    BY <1>0, <1>1, <1>3, LastPart
  <2>2. Len(c1) + 1 = LA + B + C + 4 /\ Len(c1) + Len(d) = LA + B + C + 3 + D
    BY <1>1, <1>3 DEF D
  <2> QED BY <2>1, <2>2
<1>8. U!Split(s) = <<a, b, c, d>>
  <2> DEFINE x == LA + 1
             y == LA + B + 2
             z == LA + B + C + 3
             w == LA + B + C + D + 4
  <2>1. x \in Nat /\ y \in Nat /\ z \in Nat /\ w \in Nat
    BY <1>1
  <2>8. 0 < x /\ x < y /\ y < z /\ z < w /\ w = Len(s) + 1
    BY <1>1, <1>4
  <2>2. U!Cuts(s) = {0, x, y, z, w}
    <3>1. U!Cuts(s) = {0, Len(s) + 1} \cup Seps(s)
      BY DEF U!Cuts, Seps
    <3> QED BY <3>1, <2>8, <1>4
  <2>3. /\ x - 1 = LA /\ x + 1 = LA + 2 /\ y - 1 = LA + 1 + B /\ y + 1 = LA + B + 3
        /\ z - 1 = LA + B + 2 + C /\ z + 1 = LA + B + C + 4 /\ w - 1 = LA + B + C + 3 + D
    BY <1>1
  <2> HIDE DEF x, y, z, w
  <2>4. /\ U!Cardinality(U!Cuts(s)) = 5
        /\ U!Cut(s, 0) = 0 /\ U!Cut(s, 1) = x /\ U!Cut(s, 2) = y /\ U!Cut(s, 3) = z
        /\ U!Cut(s, 4) = w
    <3>1. FiveInOrder(s, x, y, z, w)
      BY <1>4, <2>1, <2>2, <2>8 DEF FiveInOrder
    <3> QED BY <3>1, FiveCuts, Zenon
  <2>5. /\ SubSeq(s, 0 + 1, x - 1) = a /\ SubSeq(s, x + 1, y - 1) = b
        /\ SubSeq(s, y + 1, z - 1) = c /\ SubSeq(s, z + 1, w - 1) = d
    BY <1>5, <1>6, <1>7, <2>3
  <2> DEFINE F(k) == SubSeq(s, U!Cut(s, k - 1) + 1, U!Cut(s, k) - 1)
  <2>6. F(1) = a /\ F(2) = b /\ F(3) = c /\ F(4) = d
    BY <2>4, <2>5
  <2>7. U!Split(s) = [k \in 1 .. 4 |-> F(k)]
    BY <2>4 DEF U!Split
  <2> HIDE DEF F
  <2> QED BY <2>6, <2>7
<1> QED BY <1>4, <1>8 DEF s

\* A concatenation, position by position.
LEMMA Concatenated ==
  ASSUME NEW x \in Seq(Nat), NEW z \in Seq(Nat)
  PROVE  /\ x \o z \in Seq(Nat) /\ Len(x \o z) = Len(x) + Len(z) /\ Len(x) \in Nat /\ Len(z) \in Nat
         /\ \A j \in 1 .. Len(x) : (x \o z)[j] = x[j]
         /\ \A j \in 1 .. Len(z) : (x \o z)[Len(x) + j] = z[j]
OBVIOUS

\* A url of its three parts.
UrlOf(p, m, q) == ((p \o <<U!Slash>>) \o m) \o q

\* Prefix, slash, middle and postfix, position by position.
Placed(u, p, m, q) ==
  /\ u \in Seq(Nat) /\ Len(u) = Len(p) + 1 + Len(m) + Len(q)
  /\ u[Len(p) + 1] = U!Slash
  /\ \A j \in 1 .. Len(m) : u[Len(p) + 1 + j] = m[j]
  /\ \A j \in 1 .. Len(q) : u[Len(p) + 1 + Len(m) + j] = q[j]

\* A url has its parts where it should.
LEMMA UrlPositions ==
  ASSUME NEW p \in Seq(Nat), NEW m \in Seq(Nat), NEW q \in Seq(Nat)
  PROVE  Placed(UrlOf(p, m, q), p, m, q)
<1>1. U!Slash \in Nat
  BY DEF U!Slash
<1> HIDE DEF U!Slash
<1> DEFINE x == p \o <<U!Slash>>
           y == x \o m
           u == UrlOf(p, m, q)
           LP == Len(p)
           M == Len(m)
           Q == Len(q)
<1>2. x \in Seq(Nat) /\ Len(x) = LP + 1 /\ x[LP + 1] = U!Slash /\ LP \in Nat
  BY <1>1
<1>3. u = y \o q
  BY DEF UrlOf
<1> HIDE DEF x, u
<1>5. /\ y \in Seq(Nat) /\ Len(y) = Len(x) + M /\ M \in Nat
      /\ \A j \in 1 .. Len(x) : y[j] = x[j]
      /\ \A j \in 1 .. M : y[Len(x) + j] = m[j]
  BY <1>2, Concatenated
<1> HIDE DEF y
<1>6. /\ u \in Seq(Nat) /\ Len(u) = Len(y) + Q /\ Q \in Nat
      /\ \A j \in 1 .. Len(y) : u[j] = y[j]
      /\ \A j \in 1 .. Q : u[Len(y) + j] = q[j]
  BY <1>3, <1>5, Concatenated
<1> HIDE DEF LP, M, Q
<1>7. LP + 1 \in 1 .. Len(x) /\ LP + 1 \in 1 .. Len(y)
  BY <1>2, <1>5
<1>8. ASSUME NEW j \in 1 .. M PROVE u[LP + 1 + j] = m[j]
  <2>1. LP \in Nat /\ M \in Nat /\ Len(y) = LP + 1 + M
    BY <1>2, <1>5
  <2>2. LP + 1 + j \in 1 .. Len(y)
    BY ONLY <2>1, j \in 1 .. M
  <2> QED BY <2>2, <1>2, <1>5, <1>6
<1>9. Len(u) = LP + 1 + M + Q /\ Len(y) = LP + 1 + M
  BY <1>2, <1>5, <1>6
<1>10. u[LP + 1] = U!Slash
  BY <1>2, <1>5, <1>6, <1>7
<1>11. \A j \in 1 .. Q : u[LP + 1 + M + j] = q[j]
  BY <1>6, <1>9
<1> QED BY <1>6, <1>8, <1>9, <1>10, <1>11 DEF LP, M, Q, u, Placed

\* A url with a proper postfix comes apart where it was put together.
LEMMA UrlParts ==
  ASSUME NEW p \in Seq(Nat), NEW m \in Seq(Nat), NEW q \in Seq(Nat),
         \A j \in 1 .. Len(m) : m[j] \notin {U!Slash, U!Dot},
         U!ProperPostfix(q)
  PROVE  /\ U!Rfind(UrlOf(p, m, q), U!Dot) # 0 /\ U!Middle(UrlOf(p, m, q)) = m
         /\ U!PrefixOf(UrlOf(p, m, q)) = p /\ U!PostfixOf(UrlOf(p, m, q)) = q
<1> DEFINE u == UrlOf(p, m, q)
           LP == Len(p)
           M == Len(m)
           Q == Len(q)
<1>1. /\ u \in Seq(Nat) /\ Len(u) = LP + 1 + M + Q
      /\ u[LP + 1] = U!Slash
      /\ \A j \in 1 .. M : u[LP + 1 + j] = m[j]
      /\ \A j \in 1 .. Q : u[LP + 1 + M + j] = q[j]
  <2>1. Placed(u, p, m, q)
    BY UrlPositions
  <2> HIDE DEF u
  <2> QED BY <2>1 DEF Placed
<1>2. LP \in Nat /\ M \in Nat /\ Q \in Nat /\ Q >= 1
  <2>1. q # <<>>
    BY DEF U!ProperPostfix
  <2> QED BY <2>1
<1>3. q[1] = U!Dot /\ \A j \in 2 .. Q : q[j] \notin {U!Dot, U!Slash}
  BY DEF U!ProperPostfix
<1>4. U!Dot # U!Slash
  BY DEF U!Dot, U!Slash
<1> HIDE DEF u, LP, M, Q
<1>5. ASSUME NEW j \in LP + 2 .. LP + 1 + M PROVE u[j] \notin {U!Slash, U!Dot}
  <2>1. j - (LP + 1) \in 1 .. M /\ LP + 1 + (j - (LP + 1)) = j
    BY <1>2
  <2>2. u[j] = m[j - (LP + 1)]
    BY <2>1, <1>1
  <2> QED BY <2>1, <2>2 DEF M
<1>6. u[LP + 2 + M] = U!Dot
  <2>1. 1 \in 1 .. Q /\ LP + 1 + M + 1 = LP + 2 + M
    BY <1>2
  <2> QED BY <2>1, <1>1, <1>3
<1>7. ASSUME NEW j \in LP + 3 + M .. Len(u) PROVE u[j] \notin {U!Slash, U!Dot}
  <2>1. /\ j - (LP + 1 + M) \in 2 .. Q /\ j - (LP + 1 + M) \in 1 .. Q
        /\ LP + 1 + M + (j - (LP + 1 + M)) = j
    BY <1>1, <1>2
  <2>2. u[j] = q[j - (LP + 1 + M)]
    BY <2>1, <1>1
  <2> QED BY <2>1, <2>2, <1>3
<1>8. U!Rfind(u, U!Slash) = LP + 1
  <2>1. LP + 1 \in 1 .. Len(u)
    BY <1>1, <1>2
  <2>2. ASSUME NEW k \in LP + 1 + 1 .. Len(u) PROVE u[k] # U!Slash
    <3>1. k \in LP + 2 .. LP + 1 + M \/ k = LP + 2 + M \/ k \in LP + 3 + M .. Len(u)
      BY <1>1, <1>2
    <3> QED BY <3>1, <1>4, <1>5, <1>6, <1>7
  <2> QED BY <2>1, <2>2, <1>1, RfindIs, Zenon
<1>9. U!Rfind(u, U!Dot) = LP + 2 + M
  <2>1. LP + 2 + M \in 1 .. Len(u)
    <3>1. Len(u) = LP + 1 + M + Q
      BY <1>1
    <3> QED BY ONLY <3>1, <1>2
  <2>2. ASSUME NEW k \in LP + 2 + M + 1 .. Len(u) PROVE u[k] # U!Dot
    <3>1. k \in LP + 3 + M .. Len(u)
      BY <1>1, <1>2
    <3> QED BY <3>1, <1>7
  <2> QED BY <2>1, <2>2, <1>1, <1>6, RfindIs, Zenon
<1> DEFINE x == p \o <<U!Slash>>
           y == x \o m
<1>10. <<U!Slash>> \in Seq(Nat) /\ Len(<<U!Slash>>) = 1 /\ u = y \o q
  BY DEF U!Slash, UrlOf, u
<1>16. x \in Seq(Nat) /\ Len(x) = LP + 1
  BY <1>10, Concatenated DEF LP
<1>17. y \in Seq(Nat) /\ Len(y) = Len(x) + Len(m)
  <2>1. y = x \o m
    OBVIOUS
  <2> HIDE DEF x, y
  <2> QED BY <2>1, <1>16, Concatenated
<1>18. Len(y) = LP + 1 + M
  BY <1>16, <1>17 DEF M
<1>19. SubSeq(u, Len(x) + 1, Len(x) + Len(m)) = m
  BY <1>10, <1>16, MiddlePart
<1>20. SubSeq(x, 1, LP) = p
  BY <1>10, FirstPart, Zenon DEF LP
<1>21. SubSeq(y, 1, LP) = SubSeq(x, 1, LP)
  <2>1. 1 <= 1 /\ LP <= Len(x) /\ 1 \in Nat
    BY <1>2, <1>16
  <2> QED BY <2>1, <1>2, <1>16, PrefixKept, Zenon
<1> HIDE DEF x, y
<1>12. U!Middle(u) = m
  <2>2. /\ U!Rfind(u, U!Dot) > U!Rfind(u, U!Slash)
        /\ U!Rfind(u, U!Slash) + 1 = Len(x) + 1
        /\ U!Rfind(u, U!Dot) - 1 = Len(x) + Len(m)
    BY <1>2, <1>8, <1>9, <1>16 DEF M
  <2> QED BY <1>19, <2>2 DEF U!Middle
<1>13. U!PrefixOf(u) = p
  <2>3. SubSeq(u, 1, LP) = SubSeq(y, 1, LP)
    BY <1>2, <1>10, <1>17, <1>18, PrefixKept
  <2>4. U!Rfind(u, U!Slash) # 0 /\ U!Rfind(u, U!Slash) - 1 = LP
    BY <1>2, <1>8
  <2> QED BY <1>20, <1>21, <2>3, <2>4 DEF U!PrefixOf
<1>14. U!PostfixOf(u) = q
  <2>1. SubSeq(u, Len(y) + 1, Len(y) + Len(q)) = q
    BY <1>10, <1>17, LastPart
  <2>2. Len(y) + 1 = U!Rfind(u, U!Dot) /\ Len(y) + Len(q) = Len(u)
    BY <1>1, <1>2, <1>9, <1>18 DEF Q
  <2> QED BY <2>1, <2>2 DEF U!PostfixOf
<1>15. U!Rfind(u, U!Dot) # 0
  BY <1>2, <1>9
<1> QED BY <1>12, <1>13, <1>14, <1>15 DEF u

-----------------------------------------------------------------------------
(***************************************************************************)
(* BundleUrl: the words of a url, and the parts Extract finds in one.      *)
(***************************************************************************)

\* A word in some base.
DigitString(s, base) == Clean(s) /\ s # <<>> /\ \A j \in 1 .. Len(s) : s[j] < base

\* What ToSixty writes is a word.
LEMMA DigitsClean ==
  ASSUME NEW base \in 2 .. U!Slash, NEW n \in Nat
  PROVE  DigitString(U!Digits(n, base), base)
<1> DEFINE s == U!Digits(n, base)
<1>1. base \in Nat /\ base > 1 /\ base <= 1000
  BY DEF U!Slash
<1>2. s \in Seq(0 .. base - 1) /\ s # <<>>
  BY <1>1, DigitsFacts
<1> HIDE DEF s
<1>3. \A j \in 1 .. Len(s) : s[j] \in 0 .. base - 1
  BY <1>2
<1>4. s \in Seq(Nat)
  BY <1>2
<1>5. \A c \in 0 .. base - 1 : ~U!Separator(c) /\ c < base
  BY <1>1 DEF U!Separator, U!Slash, U!Dot, U!Comma, U!Underscore
<1>6. Clean(s)
  BY <1>3, <1>4, <1>5 DEF Clean
<1> QED BY <1>2, <1>3, <1>5, <1>6 DEF s, DigitString

(***************************************************************************)
(* sixty.h: FromSixty gives back every number that ToSixty wrote, as long  *)
(* as that took no more than the eleven digits FromSixty takes.            *)
(***************************************************************************)
THEOREM SixtyComesBack ==
  ASSUME NEW n \in Nat, Len(U!ToSixty(n)) <= 11
  PROVE  U!FromSixty(U!ToSixty(n)) = n
<1> DEFINE s == U!Digits(n, Sixty)
<1>1. Sixty \in Nat /\ Sixty > 1
  BY UrlAssumption
<1>2. U!ToSixty(n) = s
  BY DEF U!ToSixty
<1>3. s \in Seq(0 .. Sixty - 1) /\ s # <<>> /\ U!Sum(s, Sixty) = n
  BY <1>1, DigitsFacts
<1> HIDE DEF s
<1>4. Len(s) \in Nat /\ ~(Len(s) > 11) /\ ~(n < 0)
  BY <1>2, <1>3
<1>5. U!FromSixty(s) = n
  BY <1>3, <1>4 DEF U!FromSixty
<1> QED BY <1>2, <1>5

\* What Info has, and what ToSixty makes of its numbers.
LEMMA SixtyFacts ==
  ASSUME NEW n \in Numbers \cup {-1} \cup (0 .. HashValues - 1)
  PROVE  Clean(U!ToSixty(n)) /\ U!FromSixty(U!ToSixty(n)) = n
<1>1. Sixty \in 2 .. U!Slash /\ Numbers \subseteq Nat /\ HashValues \in Nat
  BY UrlAssumption
<1>2. CASE n = -1
  <2>1. U!ToSixty(n) = <<>>
    BY <1>2 DEF U!ToSixty, U!Digits
  <2>2. Clean(<<>>) /\ U!FromSixty(<<>>) = -1
    BY DEF Clean, U!FromSixty
  <2> QED BY <2>1, <2>2, <1>2
<1>3. CASE n \in Numbers \cup (0 .. HashValues - 1)
  <2>1. n \in Nat /\ Sixty \in Nat /\ Sixty > 1
    BY <1>1, <1>3
  <2>2. Clean(U!ToSixty(n))
    BY <1>1, <2>1, DigitsClean DEF DigitString, U!ToSixty
  <2>3. Len(U!ToSixty(n)) <= 11
    BY <1>3, UrlAssumption
  <2> QED BY <2>1, <2>2, <2>3, SixtyComesBack
<1> QED BY <1>2, <1>3

\* What ostream writes, and what atol() makes of it.
LEMMA DecimalFacts ==
  ASSUME NEW n \in Numbers
  PROVE  /\ Clean(U!Decimal(n)) /\ U!Decimal(n) # <<>> /\ U!Atol(U!Decimal(n)) = n
         /\ U!Decimal(n)[1] # U!Slash
<1>1. Ten \in 2 .. U!Slash /\ n \in Nat /\ Ten \in Nat /\ Ten > 1 /\ Ten <= U!Slash /\ U!Slash = 1000
  <2>1. Ten \in 2 .. U!Slash /\ Numbers \subseteq Nat
    BY UrlAssumption
  <2>2. U!Slash = 1000
    BY DEF U!Slash
  <2> QED BY <2>1, <2>2
<1> DEFINE s == U!Digits(n, Ten)
           L == Len(s)
<1>2. Clean(s) /\ s # <<>> /\ \A j \in 1 .. Len(s) : s[j] < Ten
  <2>1. DigitString(s, Ten)
    BY <1>1, DigitsClean
  <2> HIDE DEF s
  <2> QED BY <2>1 DEF DigitString
<1>3. U!Sum(s, Ten) = n
  BY <1>1, DigitsFacts
<1>4. U!Decimal(n) = s
  BY DEF U!Decimal
<1> HIDE DEF s
<1>5. s \in Seq(Nat) /\ L \in Nat /\ L >= 1
  BY <1>2 DEF Clean
<1>6. U!Leading(s) = L
  <2> DEFINE Q(k) == (\A j \in 1 .. k : s[j] < Ten) /\ (k < L => s[k + 1] >= Ten)
  <2>1. L \in 0 .. L /\ Q(L)
    BY <1>2, <1>5
  <2>2. ASSUME NEW k \in 0 .. L, Q(k) PROVE k = L
    <3>1. CASE k < L
      <4>1. k + 1 \in 1 .. L
        BY <3>1, <1>5
      <4>2. s[k + 1] \in Nat /\ s[k + 1] >= Ten /\ s[k + 1] < Ten
        BY <4>1, <3>1, <2>2, <1>2, <1>5
      <4> QED BY <4>2, <1>1
    <3> QED BY <3>1, <1>5
  <2> DEFINE x == CHOOSE k \in 0 .. L : Q(k)
  <2>3. U!Leading(s) = x
    BY Zenon DEF U!Leading
  <2>4. x \in 0 .. L /\ Q(x)
    <3> HIDE DEF Q, L
    <3> QED BY <2>1
  <2> QED BY <2>2, <2>3, <2>4
<1>7. SubSeq(s, 1, L) = s
  <2>1. SubSeq(s \o <<>>, 1, Len(s)) = s /\ s \o <<>> = s
    <3>1. <<>> \in Seq(Nat) /\ s \o <<>> = s
      BY <1>5
    <3> QED BY <3>1, <1>5, FirstPart
  <2> QED BY <2>1
<1>8. U!Atol(s) = n
  BY <1>3, <1>6, <1>7 DEF U!Atol
<1>9. s[1] # U!Slash
  <2>1. 1 \in 1 .. Len(s)
    BY <1>5
  <2>2. s[1] \in Nat /\ s[1] < Ten
    BY <2>1, <1>2, <1>5
  <2> QED BY <2>2, <1>1
<1> QED BY <1>2, <1>4, <1>8, <1>9

\* info.name is no number.
LEMMA NameFacts ==
  Clean(<<U!Name>>) /\ U!Atol(<<U!Name>>) = 0
<1> DEFINE s == <<U!Name>>
<1>1. s \in Seq(Nat) /\ Len(s) = 1 /\ s[1] = 1004
  BY DEF U!Name
<1>2. Clean(s)
  BY DEF Clean, U!Name, U!Separator, U!Slash, U!Dot, U!Comma, U!Underscore
<1>3. Ten \in Nat /\ Ten <= 1000
  <2>1. Ten \in 2 .. U!Slash
    BY UrlAssumption
  <2>2. U!Slash = 1000
    BY DEF U!Slash
  <2> QED BY <2>1, <2>2
<1> HIDE DEF s
<1>4. U!Leading(s) = 0
  <2> DEFINE Q(k) == (\A j \in 1 .. k : s[j] < Ten) /\ (k < Len(s) => s[k + 1] >= Ten)
  <2>1. 0 \in 0 .. Len(s) /\ Q(0)
    BY <1>1, <1>3
  <2>2. ASSUME NEW k \in 0 .. Len(s), Q(k) PROVE k = 0
    BY <1>1, <1>3, <2>2
  <2> DEFINE x == CHOOSE k \in 0 .. Len(s) : Q(k)
  <2>3. U!Leading(s) = x
    BY Zenon DEF U!Leading
  <2>4. x \in 0 .. Len(s) /\ Q(x)
    <3> HIDE DEF Q
    <3> QED BY <2>1
  <2> QED BY <2>2, <2>3, <2>4
<1>5. SubSeq(s, 1, 0) = <<>>
  BY SubSeqEmpty
<1>6. U!Atol(s) = 0
  BY <1>4, <1>5, SumEmpty DEF U!Atol
<1> QED BY <1>2, <1>6 DEF s

\* Joined words have neither a slash nor a dot in them.
LEMMA JoinedWithout ==
  ASSUME NEW S \in Nat, U!Separator(S), S \notin {U!Slash, U!Dot},
         NEW a, NEW b, NEW c, NEW d, Clean(a), Clean(b), Clean(c), Clean(d)
  PROVE  /\ \A j \in 1 .. Len(Join3(a, b, c, S)) : Join3(a, b, c, S)[j] \notin {U!Slash, U!Dot}
         /\ \A j \in 1 .. Len(Join4(a, b, c, d, S)) : Join4(a, b, c, d, S)[j] \notin {U!Slash, U!Dot}
<1> DEFINE Free(s) == s \in Seq(Nat) /\ \A j \in 1 .. Len(s) : s[j] \notin {U!Slash, U!Dot}
<1>1. ASSUME NEW x, NEW y, Free(x), Free(y) PROVE Free(x \o y)
  <2>1. /\ x \o y \in Seq(Nat) /\ Len(x \o y) = Len(x) + Len(y) /\ Len(x) \in Nat /\ Len(y) \in Nat
        /\ \A j \in 1 .. Len(x) : (x \o y)[j] = x[j]
        /\ \A j \in 1 .. Len(y) : (x \o y)[Len(x) + j] = y[j]
    BY <1>1, Concatenated
  <2> DEFINE z == x \o y
  <2> HIDE DEF z
  <2>2. ASSUME NEW j \in 1 .. Len(z) PROVE z[j] \notin {U!Slash, U!Dot}
    <3>1. CASE j <= Len(x)
      BY <3>1, <2>1, <1>1 DEF z
    <3>2. CASE ~(j <= Len(x))
      <4>1. j - Len(x) \in 1 .. Len(y) /\ Len(x) + (j - Len(x)) = j
        BY <3>2, <2>1 DEF z
      <4> QED BY <4>1, <2>1, <1>1 DEF z
    <3> QED BY <3>1, <3>2
  <2> QED BY <2>1, <2>2 DEF z
<1>2. ASSUME NEW x, Clean(x) PROVE Free(x)
  BY <1>2 DEF Clean, U!Separator
<1>3. Free(<<S>>)
  OBVIOUS
<1>4. Free(a) /\ Free(b) /\ Free(c) /\ Free(d)
  BY <1>2
<1> HIDE DEF Free
<1>5. Free(a \o <<S>>)
  BY <1>1, <1>3, <1>4
<1>6. Free((a \o <<S>>) \o b)
  BY <1>1, <1>5, <1>4
<1>7. Free(((a \o <<S>>) \o b) \o <<S>>)
  BY <1>1, <1>6, <1>3
<1>8. Free(Join3(a, b, c, S))
  BY <1>1, <1>7, <1>4 DEF Join3
<1>9. Free(Join3(a, b, c, S) \o <<S>>)
  BY <1>1, <1>8, <1>3
<1>10. Free(Join4(a, b, c, d, S))
  BY <1>1, <1>9, <1>4 DEF Join4
<1> QED BY <1>8, <1>10 DEF Free

\* The only postfix that Extract finds again is a proper one.
LEMMA OnlyProper ==
  ASSUME NEW p \in Seq(Nat), NEW m \in Seq(Nat), NEW q \in Seq(Nat),
         U!Rfind(UrlOf(p, m, q), U!Dot) # 0,
         U!PrefixOf(UrlOf(p, m, q)) = p, U!PostfixOf(UrlOf(p, m, q)) = q
  PROVE  U!ProperPostfix(q)
<1> DEFINE u == UrlOf(p, m, q)
           d == U!Rfind(u, U!Dot)
           r == U!Rfind(u, U!Slash)
           L == Len(u)
<1>1. Placed(u, p, m, q)
  BY UrlPositions
<1>2. U!PrefixOf(u) = p /\ U!PostfixOf(u) = q /\ d # 0
  OBVIOUS
<1> HIDE DEF u
<1>3. u \in Seq(Nat) /\ L \in Nat /\ L = Len(p) + 1 + Len(m) + Len(q)
      /\ Len(p) \in Nat /\ Len(m) \in Nat /\ Len(q) \in Nat
  BY <1>1 DEF Placed
<1>4. d \in 1 .. L /\ u[d] = U!Dot /\ \A k \in d + 1 .. L : u[k] # U!Dot
  <2>1. d \in 0 .. L /\ (d # 0 => u[d] = U!Dot /\ \A k \in d + 1 .. L : u[k] # U!Dot)
    BY <1>3, RfindFacts
  <2> HIDE DEF d
  <2> QED BY <2>1, <1>2, <1>3
<1>5. /\ r \in 0 .. L /\ (r # 0 => \A k \in r + 1 .. L : u[k] # U!Slash)
      /\ r = 0 => \A k \in 1 .. L : u[k] # U!Slash
  BY <1>3, RfindFacts
<1>6. q = SubSeq(u, d, L)
  BY <1>2 DEF U!PostfixOf
<1>7. r # 0 => p = SubSeq(u, 1, r - 1)
  BY <1>2 DEF U!PrefixOf
<1> HIDE DEF d, r, L
<1>8. Len(q) = L - d + 1 /\ \A j \in 1 .. Len(q) : q[j] = u[d + j - 1]
  <2>1. \A j \in d .. L : u[j] \in Nat
    BY <1>3, <1>4 DEF L
  <2>4. d \in Int /\ L \in Int
    BY <1>3, <1>4
  <2>5. /\ Len(SubSeq(u, d, L)) = IF d <= L THEN L - d + 1 ELSE 0
        /\ \A j \in 1 .. L - d + 1 : SubSeq(u, d, L)[j] = u[d + j - 1]
    BY ONLY <2>1, <2>4, SubSeqProperties
  <2>2. /\ Len(q) = IF d <= L THEN L - d + 1 ELSE 0
        /\ \A j \in 1 .. L - d + 1 : q[j] = u[d + j - 1]
    BY <2>5, <1>6, Zenon
  <2>3. d <= L
    BY <1>3, <1>4
  <2> QED BY <2>2, <2>3
<1>9. q # <<>> /\ q[1] = U!Dot
  <2>1. 1 \in 1 .. Len(q) /\ d + 1 - 1 = d
    BY <1>3, <1>4, <1>8
  <2>2. Len(<<>>) = 0 /\ 1 \notin 1 .. 0
    OBVIOUS
  <2> QED BY <2>1, <2>2, <1>4, <1>8
<1>10. ASSUME NEW j \in 2 .. Len(q) PROVE q[j] \notin {U!Dot, U!Slash}
  <2>1. j \in 1 .. Len(q) /\ d + j - 1 \in d + 1 .. L /\ d + j - 1 \in 1 .. L
    BY <1>3, <1>4, <1>8
  <2>2. q[j] = u[d + j - 1]
    BY <2>1, <1>8
  <2>3. ASSUME u[d + j - 1] = U!Slash PROVE FALSE
    <3>1. r # 0
      BY <2>1, <2>3, <1>5
    <3>2. r >= d + j - 1
      <4>1. CASE r < d + j - 1
        <5>1. d + j - 1 \in r + 1 .. L
          BY <2>1, <4>1, <1>5, <1>3, <1>4
        <5> QED BY <5>1, <2>3, <3>1, <1>5
      <4> QED BY <4>1, <1>5, <1>3, <1>4
    <3>3. Len(p) = r - 1
      <4>1. \A k \in 1 .. r - 1 : u[k] \in Nat
        <5>1. \A k \in 1 .. r - 1 : k \in 1 .. L
          BY <1>3, <1>5
        <5>2. u \in Seq(Nat) /\ L = Len(u)
          BY <1>3 DEF L
        <5> QED BY ONLY <5>1, <5>2
      <4>2. r - 1 \in Int /\ r - 1 >= 0
        BY <1>3, <1>5, <3>1
      <4>3. Len(SubSeq(u, 1, r - 1)) = IF 1 <= r - 1 THEN (r - 1) - 1 + 1 ELSE 0
        BY ONLY <4>1, <4>2, SubSeqProperties
      <4> QED BY <4>2, <4>3, <3>1, <1>7
    <3> QED BY <3>2, <3>3, <1>3, <1>4, <1>5, <1>8
  <2> QED BY <2>1, <2>2, <2>3, <1>4
<1> QED BY <1>9, <1>10 DEF U!ProperPostfix

\* Two groupings of two, three and four strings after x.
Grouped2(x, y, z) == x \o (y \o z) = (x \o y) \o z

\* Concatenation is associative.
LEMMA Associative ==
  ASSUME NEW x \in Seq(Nat), NEW y \in Seq(Nat), NEW z \in Seq(Nat)
  PROVE  y \o z \in Seq(Nat) /\ Grouped2(x, y, z)
<1>1. y \o z \in Seq(Nat)
  OBVIOUS
<1>2. (x \o y) \o z = x \o (y \o z)
  OBVIOUS
<1> QED BY <1>1, <1>2, Zenon DEF Grouped2

\* Joined words after a path, grouped as Build writes them.
Grouped3(x, a, b, c, S) ==
  x \o Join3(a, b, c, S) = ((((x \o a) \o <<S>>) \o b) \o <<S>>) \o c
Grouped4(x, a, b, c, d, S) ==
  x \o Join4(a, b, c, d, S) = ((((((x \o a) \o <<S>>) \o b) \o <<S>>) \o c) \o <<S>>) \o d

\* The two groupings are the same string.
LEMMA Regroup ==
  ASSUME NEW x \in Seq(Nat), NEW a \in Seq(Nat), NEW b \in Seq(Nat), NEW c \in Seq(Nat),
         NEW d \in Seq(Nat), NEW S \in Nat
  PROVE  Grouped3(x, a, b, c, S) /\ Grouped4(x, a, b, c, d, S)
<1>0. <<S>> \in Seq(Nat)
  OBVIOUS
<1> DEFINE s == <<S>>
           a1 == a \o s
           b0 == a1 \o b
           b1 == b0 \o s
           c0 == b1 \o c
           c1 == c0 \o s
<1> HIDE DEF s
<1>1. s \in Seq(Nat)
  BY <1>0 DEF s
<1>2. a1 \in Seq(Nat) /\ x \o a1 = (x \o a) \o s
  <2>1. a1 \in Seq(Nat) /\ Grouped2(x, a, s)
    BY <1>1, Associative
  <2> QED BY <2>1, Zenon DEF Grouped2
<1> HIDE DEF a1
<1>3. b0 \in Seq(Nat) /\ x \o b0 = (x \o a1) \o b
  <2>1. b0 \in Seq(Nat) /\ Grouped2(x, a1, b)
    BY <1>2, Associative
  <2> QED BY <2>1, Zenon DEF Grouped2
<1> HIDE DEF b0
<1>4. b1 \in Seq(Nat) /\ x \o b1 = (x \o b0) \o s
  <2>1. b1 \in Seq(Nat) /\ Grouped2(x, b0, s)
    BY <1>1, <1>3, Associative
  <2> QED BY <2>1, Zenon DEF Grouped2
<1> HIDE DEF b1
<1>5. c0 \in Seq(Nat) /\ x \o c0 = (x \o b1) \o c
  <2>1. c0 \in Seq(Nat) /\ Grouped2(x, b1, c)
    BY <1>4, Associative
  <2> QED BY <2>1, Zenon DEF Grouped2
<1> HIDE DEF c0
<1>6. c1 \in Seq(Nat) /\ x \o c1 = (x \o c0) \o s
  <2>1. c1 \in Seq(Nat) /\ Grouped2(x, c0, s)
    BY <1>1, <1>5, Associative
  <2> QED BY <2>1, Zenon DEF Grouped2
<1> HIDE DEF c1
<1>7. x \o (c1 \o d) = (x \o c1) \o d
  <2>1. Grouped2(x, c1, d)
    BY <1>6, Associative
  <2> QED BY <2>1, Zenon DEF Grouped2
<1>8. Join3(a, b, c, S) = c0 /\ Join4(a, b, c, d, S) = c1 \o d
  BY Zenon DEF Join3, Join4, a1, b0, b1, c0, c1, s
<1>9. x \o c0 = ((((x \o a) \o s) \o b) \o s) \o c
  BY <1>2, <1>3, <1>4, <1>5, Zenon
<1>10. x \o (c1 \o d) = ((((((x \o a) \o s) \o b) \o s) \o c) \o s) \o d
  BY <1>6, <1>7, <1>9, Zenon
<1> QED BY <1>8, <1>9, <1>10, Zenon DEF s, Grouped3, Grouped4

\* An Info is what its fields are.
LEMMA InfoFields ==
  ASSUME NEW i \in U!Info
  PROVE  /\ i.prefix \in Seq(Nat) /\ i.postfix \in Seq(Nat)
         /\ i.id \in Numbers \cup {-1} /\ i.offset \in Numbers /\ i.size \in Numbers
         /\ i = [prefix |-> i.prefix, id |-> i.id, offset |-> i.offset, size |-> i.size,
                 postfix |-> i.postfix]
         /\ U!Hash(i) \in 0 .. HashValues - 1
<1>1. i.prefix \in PrefixSet /\ i.postfix \in PostfixSet
  BY DEF U!Info
<1>2. /\ i.id \in Numbers \cup {-1} /\ i.offset \in Numbers /\ i.size \in Numbers
      /\ i = [prefix |-> i.prefix, id |-> i.id, offset |-> i.offset, size |-> i.size,
              postfix |-> i.postfix]
  BY DEF U!Info
<1>3. i.prefix \in Seq(Nat) /\ i.postfix \in Seq(Nat)
  BY <1>1, UrlAssumption
<1>4. U!Hash(i) \in 0 .. HashValues - 1
  BY UrlAssumption
<1> QED BY <1>2, <1>3, <1>4

\* The url of an Info between its prefix and its postfix.
SixtyPart(i) ==
  Join4(U!ToSixty(i.id), U!ToSixty(i.offset), U!ToSixty(i.size), U!ToSixty(U!Hash(i)), U!Underscore)

FirstWord(i) == IF i.id = -1 THEN <<U!Name>> ELSE U!Decimal(i.id)
DecimalPart(i) == Join3(FirstWord(i), U!Decimal(i.offset), U!Decimal(i.size), U!Comma)

\* What BuildWithEncode writes.
LEMMA EncodedUrl ==
  ASSUME NEW i \in U!Info
  PROVE  /\ SixtyPart(i) \in Seq(Nat)
         /\ \A j \in 1 .. Len(SixtyPart(i)) : SixtyPart(i)[j] \notin {U!Slash, U!Dot}
         /\ U!Split(SixtyPart(i)) =
              <<U!ToSixty(i.id), U!ToSixty(i.offset), U!ToSixty(i.size), U!ToSixty(U!Hash(i))>>
         /\ U!BuildWithEncode(i) = UrlOf(i.prefix, SixtyPart(i), i.postfix)
<1> DEFINE a == U!ToSixty(i.id)
           b == U!ToSixty(i.offset)
           c == U!ToSixty(i.size)
           d == U!ToSixty(U!Hash(i))
           S == U!Underscore
           x == i.prefix \o <<U!Slash>>
<1>1. Clean(a) /\ Clean(b) /\ Clean(c) /\ Clean(d)
  BY InfoFields, SixtyFacts
<1>2. S \in Nat /\ U!Separator(S) /\ S \notin {U!Slash, U!Dot}
  BY DEF U!Underscore, U!Separator, U!Slash, U!Dot
<1>3. i.prefix \in Seq(Nat) /\ U!Slash \in Nat
  BY InfoFields DEF U!Slash
<1>4. x \in Seq(Nat)
  BY <1>3
<1>5. U!BuildWithEncode(i) = (((((((x \o a) \o <<S>>) \o b) \o <<S>>) \o c) \o <<S>>) \o d) \o i.postfix
  BY Zenon DEF U!BuildWithEncode
<1>6. SixtyPart(i) = Join4(a, b, c, d, S)
  BY DEF SixtyPart
<1>7. UrlOf(i.prefix, SixtyPart(i), i.postfix) = (x \o Join4(a, b, c, d, S)) \o i.postfix
  BY <1>6, Zenon DEF UrlOf
<1> HIDE DEF a, b, c, d, S, x
<1>8. Join4(a, b, c, d, S) \in Seq(Nat) /\ U!Split(Join4(a, b, c, d, S)) = <<a, b, c, d>>
  BY <1>1, <1>2, SplitFour
<1>9. \A j \in 1 .. Len(Join4(a, b, c, d, S)) : Join4(a, b, c, d, S)[j] \notin {U!Slash, U!Dot}
  BY <1>1, <1>2, JoinedWithout
<1>10. a \in Seq(Nat) /\ b \in Seq(Nat) /\ c \in Seq(Nat) /\ d \in Seq(Nat)
  BY <1>1 DEF Clean
<1>11. x \o Join4(a, b, c, d, S) = ((((((x \o a) \o <<S>>) \o b) \o <<S>>) \o c) \o <<S>>) \o d
  <2>1. Grouped4(x, a, b, c, d, S)
    BY <1>2, <1>4, <1>10, Regroup
  <2> QED BY <2>1, Zenon DEF Grouped4
<1>12. U!BuildWithEncode(i) = UrlOf(i.prefix, SixtyPart(i), i.postfix)
  BY <1>5, <1>7, <1>11, Zenon
<1>13. U!Split(SixtyPart(i)) = <<a, b, c, d>>
  BY <1>6, <1>8, Zenon
<1>14. /\ SixtyPart(i) \in Seq(Nat)
       /\ \A j \in 1 .. Len(SixtyPart(i)) : SixtyPart(i)[j] \notin {U!Slash, U!Dot}
  BY <1>6, <1>8, <1>9, Zenon
<1> QED BY <1>12, <1>13, <1>14, Zenon DEF a, b, c, d

\* What BuildSimple writes, with and without a prefix.
LEMMA SimpleUrl ==
  ASSUME NEW i \in U!Info
  PROVE  /\ DecimalPart(i) \in Seq(Nat) /\ DecimalPart(i)[1] # U!Slash /\ DecimalPart(i) # <<>>
         /\ \A j \in 1 .. Len(DecimalPart(i)) : DecimalPart(i)[j] \notin {U!Slash, U!Dot}
         /\ U!Split(DecimalPart(i)) = <<FirstWord(i), U!Decimal(i.offset), U!Decimal(i.size)>>
         /\ i.prefix # <<>> => U!BuildSimple(i) = UrlOf(i.prefix, DecimalPart(i), i.postfix)
         /\ i.prefix = <<>> => U!BuildSimple(i) = DecimalPart(i) \o i.postfix
<1> DEFINE a == FirstWord(i)
           b == U!Decimal(i.offset)
           c == U!Decimal(i.size)
           S == U!Comma
           x == U!PathOf(i.prefix)
           m == DecimalPart(i)
<1>1. Clean(a) /\ Clean(b) /\ Clean(c)
  BY InfoFields, DecimalFacts, NameFacts DEF FirstWord
<1>2. S \in Nat /\ U!Separator(S) /\ S \notin {U!Slash, U!Dot}
  BY DEF U!Comma, U!Separator, U!Slash, U!Dot
<1>3. i.prefix \in Seq(Nat) /\ U!Slash \in Nat
  BY InfoFields DEF U!Slash
<1>4. /\ x \in Seq(Nat)
      /\ (i.prefix # <<>> => x = i.prefix \o <<U!Slash>>) /\ (i.prefix = <<>> => x = <<>>)
  BY <1>3 DEF U!PathOf
<1>5. U!BuildSimple(i) = (((((x \o a) \o <<S>>) \o b) \o <<S>>) \o c) \o i.postfix
  BY Zenon DEF U!BuildSimple, FirstWord
<1>6. m = Join3(a, b, c, S)
  BY DEF DecimalPart
<1> HIDE DEF a, b, c, S, x, m
<1>7. m \in Seq(Nat) /\ U!Split(m) = <<a, b, c>>
  <2>1. Joins3(Join3(a, b, c, S), a, b, c) /\ U!Split(Join3(a, b, c, S)) = <<a, b, c>>
    BY <1>1, <1>2, SplitThree
  <2> QED BY <2>1, <1>6 DEF Joins3
<1>8. \A j \in 1 .. Len(m) : m[j] \notin {U!Slash, U!Dot}
  BY <1>1, <1>2, <1>6, JoinedWithout
<1>9. a \in Seq(Nat) /\ b \in Seq(Nat) /\ c \in Seq(Nat) /\ <<>> \in Seq(Nat)
  BY <1>1 DEF Clean
<1>10. x \o m = ((((x \o a) \o <<S>>) \o b) \o <<S>>) \o c
  <2>1. x \o Join3(a, b, c, S) = ((((x \o a) \o <<S>>) \o b) \o <<S>>) \o c
    <3>1. Grouped3(x, a, b, c, S)
      BY <1>2, <1>4, <1>9, Regroup
    <3> QED BY <3>1, Zenon DEF Grouped3
  <2> QED BY <2>1, <1>6, Zenon
<1>11. U!BuildSimple(i) = (x \o m) \o i.postfix
  BY <1>5, <1>10, Zenon
<1>12. ASSUME i.prefix # <<>> PROVE U!BuildSimple(i) = UrlOf(i.prefix, m, i.postfix)
  BY <1>4, <1>11, <1>12, Zenon DEF UrlOf
<1>13. ASSUME i.prefix = <<>> PROVE U!BuildSimple(i) = m \o i.postfix
  <2>1. <<>> \o m = m
    BY <1>7
  <2> QED BY <1>4, <1>11, <1>13, <2>1, Zenon
<1>14. m # <<>> /\ m[1] # U!Slash
  <2>1. Joins3(m, a, b, c)
    BY <1>1, <1>2, <1>6, SplitThree
  <2>2. Len(m) >= 2 /\ Len(m) \in Nat
    BY <2>1, <1>7, <1>9 DEF Joins3
  <2>3. 1 \in 1 .. Len(m)
    BY <2>2
  <2>4. m # <<>>
    BY <2>2
  <2> QED BY <2>3, <2>4, <1>8
<1> QED BY <1>7, <1>8, <1>12, <1>13, <1>14 DEF a, b, c, m

\* A string is made of its characters.
LEMMA Character ==
  ASSUME NEW s \in Seq(Nat), NEW k \in 1 .. Len(s)
  PROVE  s[k] \in Nat
OBVIOUS

\* A hash is less than HashValues.
LEMMA HashRange ==
  ASSUME NEW h \in 0 .. HashValues - 1
  PROVE  h % HashValues = h
<1>1. HashValues \in Nat /\ HashValues > 0
  BY UrlAssumption
<1> QED BY ONLY <1>1, h \in 0 .. HashValues - 1

\* With its hash a url leads back to an Info whose postfix is proper.
LEMMA EncodedComesBack ==
  ASSUME NEW i \in U!Info, U!ProperPostfix(i.postfix), U!Hash(i) # HashValues - 1
  PROVE  U!ExtractWithEncode(U!BuildWithEncode(i)) = i
<1> DEFINE u == U!BuildWithEncode(i)
           m == SixtyPart(i)
           h == U!Hash(i)
           vs == U!Split(U!Middle(u))
<1>1. u = UrlOf(i.prefix, m, i.postfix) /\ m \in Seq(Nat)
  BY EncodedUrl
<1>2. /\ U!Rfind(u, U!Dot) # 0 /\ U!Middle(u) = m
      /\ U!PrefixOf(u) = i.prefix /\ U!PostfixOf(u) = i.postfix
  <2>1. \A j \in 1 .. Len(m) : m[j] \notin {U!Slash, U!Dot}
    BY EncodedUrl
  <2>2. i.prefix \in Seq(Nat) /\ i.postfix \in Seq(Nat)
    BY InfoFields
  <2> HIDE DEF u, m
  <2> QED BY <1>1, <2>1, <2>2, UrlParts
<1>3. vs = <<U!ToSixty(i.id), U!ToSixty(i.offset), U!ToSixty(i.size), U!ToSixty(h)>>
  BY <1>2, EncodedUrl
<1>4. /\ U!FromSixty(U!ToSixty(i.id)) = i.id /\ U!FromSixty(U!ToSixty(i.offset)) = i.offset
      /\ U!FromSixty(U!ToSixty(i.size)) = i.size /\ U!FromSixty(U!ToSixty(h)) = h
  BY InfoFields, SixtyFacts
<1> HIDE DEF vs, u
<1>5. Len(vs) = 4 /\ U!FromSixty(vs[1]) = i.id /\ U!FromSixty(vs[2]) = i.offset
      /\ U!FromSixty(vs[3]) = i.size /\ U!FromSixty(vs[4]) = h
  BY <1>3, <1>4
<1>6. U!Genuine(i, h)
  <2>1. h % HashValues = h
    BY InfoFields, HashRange
  <2> QED BY <2>1 DEF U!Genuine
<1>7. i = [prefix |-> i.prefix, id |-> i.id, offset |-> i.offset, size |-> i.size,
           postfix |-> i.postfix]
  BY InfoFields
<1>8. U!ExtractWithEncode(u) =
        LET e == [prefix |-> U!PrefixOf(u), id |-> U!FromSixty(vs[1]), offset |-> U!FromSixty(vs[2]),
                  size |-> U!FromSixty(vs[3]), postfix |-> U!PostfixOf(u)]
        IN IF U!Genuine(e, U!FromSixty(vs[4])) THEN e ELSE U!Failure
  BY <1>2, <1>5, Zenon DEF U!ExtractWithEncode, vs
<1>9. U!ExtractWithEncode(u) = i
  BY <1>2, <1>5, <1>6, <1>7, <1>8, Zenon
<1> QED BY <1>9 DEF u

\* No other postfix and no hash of all ones leads back.
LEMMA EncodedOnly ==
  ASSUME NEW i \in U!Info, U!ExtractWithEncode(U!BuildWithEncode(i)) = i
  PROVE  U!ProperPostfix(i.postfix) /\ U!Hash(i) # HashValues - 1
<1> DEFINE u == U!BuildWithEncode(i)
           m == SixtyPart(i)
           vs == U!Split(U!Middle(u))
           e == [prefix |-> U!PrefixOf(u), id |-> U!FromSixty(vs[1]), offset |-> U!FromSixty(vs[2]),
                 size |-> U!FromSixty(vs[3]), postfix |-> U!PostfixOf(u)]
<1>1. u = UrlOf(i.prefix, m, i.postfix) /\ m \in Seq(Nat)
  BY EncodedUrl
<1>2. i # U!Failure
  <2>1. DOMAIN i = {"prefix", "id", "offset", "size", "postfix"}
    BY DEF U!Info
  <2>2. DOMAIN U!Failure = {"failed"}
    BY DEF U!Failure
  <2> QED BY <2>1, <2>2
<1>3. U!ExtractWithEncode(u) = IF U!Rfind(u, U!Dot) = 0 \/ Len(vs) # 4 THEN U!Failure
                               ELSE IF U!Genuine(e, U!FromSixty(vs[4])) THEN e ELSE U!Failure
  BY Zenon DEF U!ExtractWithEncode
<1>4. U!ExtractWithEncode(u) = i
  OBVIOUS
<1>5. e.prefix = U!PrefixOf(u) /\ e.postfix = U!PostfixOf(u)
  OBVIOUS
<1> HIDE DEF u, vs, e, m
<1>6. U!Rfind(u, U!Dot) # 0 /\ e = i /\ U!Genuine(e, U!FromSixty(vs[4]))
  BY <1>2, <1>3, <1>4, Zenon
<1>7. U!PrefixOf(u) = i.prefix /\ U!PostfixOf(u) = i.postfix
  BY <1>5, <1>6, Zenon
<1>8. U!ProperPostfix(i.postfix)
  <2>1. i.prefix \in Seq(Nat) /\ i.postfix \in Seq(Nat)
    BY InfoFields
  <2> QED BY <2>1, <1>1, <1>6, <1>7, OnlyProper
<1>9. U!Hash(i) # HashValues - 1
  BY <1>6, Zenon DEF U!Genuine
<1> QED BY <1>8, <1>9

LEMMA SimpleParts ==
  ASSUME NEW i \in U!Info, U!ProperPostfix(i.postfix), i.prefix # <<>>
  PROVE  U!ExtractSimple(U!BuildSimple(i)) =
           [prefix |-> i.prefix, id |-> U!Atol(FirstWord(i)), offset |-> i.offset,
            size |-> i.size, postfix |-> i.postfix]
<1> DEFINE u == U!BuildSimple(i)
           m == DecimalPart(i)
           vs == U!Split(U!Middle(u))
<1>1. u = UrlOf(i.prefix, m, i.postfix) /\ m \in Seq(Nat)
  BY SimpleUrl
<1>2. /\ U!Rfind(u, U!Dot) # 0 /\ U!Middle(u) = m
      /\ U!PrefixOf(u) = i.prefix /\ U!PostfixOf(u) = i.postfix
  <2>1. \A j \in 1 .. Len(m) : m[j] \notin {U!Slash, U!Dot}
    BY SimpleUrl
  <2>2. i.prefix \in Seq(Nat) /\ i.postfix \in Seq(Nat)
    BY InfoFields
  <2> HIDE DEF u, m
  <2> QED BY <1>1, <2>1, <2>2, UrlParts
<1>3. vs = <<FirstWord(i), U!Decimal(i.offset), U!Decimal(i.size)>>
  BY <1>2, SimpleUrl
<1>4. U!Atol(U!Decimal(i.offset)) = i.offset /\ U!Atol(U!Decimal(i.size)) = i.size
  BY InfoFields, DecimalFacts
<1> HIDE DEF vs, u
<1>5. ~(Len(vs) < 3) /\ U!Atol(vs[1]) = U!Atol(FirstWord(i)) /\ U!Atol(vs[2]) = i.offset
      /\ U!Atol(vs[3]) = i.size
  BY <1>3, <1>4
<1>6. U!ExtractSimple(u) = [prefix |-> U!PrefixOf(u), id |-> U!Atol(vs[1]), offset |-> U!Atol(vs[2]),
                            size |-> U!Atol(vs[3]), postfix |-> U!PostfixOf(u)]
  BY <1>2, <1>5, Zenon DEF U!ExtractSimple, vs
<1>7. U!ExtractSimple(u) = [prefix |-> i.prefix, id |-> U!Atol(FirstWord(i)), offset |-> i.offset,
                            size |-> i.size, postfix |-> i.postfix]
  BY <1>2, <1>5, <1>6, Zenon
<1> QED BY <1>7 DEF u

\* With an id it is the Info.
LEMMA SimpleComesBack ==
  ASSUME NEW i \in U!Info, U!ProperPostfix(i.postfix), i.prefix # <<>>, i.id # -1
  PROVE  U!ExtractSimple(U!BuildSimple(i)) = i
<1>1. i.id \in Numbers
  BY InfoFields
<1>2. U!Atol(FirstWord(i)) = i.id
  BY <1>1, DecimalFacts DEF FirstWord
<1>3. i = [prefix |-> i.prefix, id |-> i.id, offset |-> i.offset, size |-> i.size,
           postfix |-> i.postfix]
  BY InfoFields
<1>4. U!ExtractSimple(U!BuildSimple(i)) =
        [prefix |-> i.prefix, id |-> U!Atol(FirstWord(i)), offset |-> i.offset,
         size |-> i.size, postfix |-> i.postfix]
  BY SimpleParts
<1> QED BY <1>2, <1>3, <1>4, Zenon

\* Nothing else leads back.
LEMMA SimpleOnly ==
  ASSUME NEW i \in U!Info, U!ExtractSimple(U!BuildSimple(i)) = i
  PROVE  U!ProperPostfix(i.postfix) /\ i.prefix # <<>> /\ i.id # -1
<1> DEFINE u == U!BuildSimple(i)
           m == DecimalPart(i)
           vs == U!Split(U!Middle(u))
           e == [prefix |-> U!PrefixOf(u), id |-> U!Atol(vs[1]), offset |-> U!Atol(vs[2]),
                 size |-> U!Atol(vs[3]), postfix |-> U!PostfixOf(u)]
<1>1. /\ m \in Seq(Nat) /\ m # <<>> /\ m[1] # U!Slash
      /\ i.prefix # <<>> => u = UrlOf(i.prefix, m, i.postfix)
      /\ i.prefix = <<>> => u = m \o i.postfix
  BY SimpleUrl
<1>2. i # U!Failure
  <2>1. DOMAIN i = {"prefix", "id", "offset", "size", "postfix"}
    BY DEF U!Info
  <2>2. DOMAIN U!Failure = {"failed"}
    BY DEF U!Failure
  <2> QED BY <2>1, <2>2
<1>3. U!ExtractSimple(u) = IF U!Rfind(u, U!Dot) = 0 \/ Len(vs) < 3 THEN U!Failure ELSE e
  BY Zenon DEF U!ExtractSimple
<1>4. U!ExtractSimple(u) = i
  OBVIOUS
<1>5. e.prefix = U!PrefixOf(u) /\ e.postfix = U!PostfixOf(u)
  OBVIOUS
<1> HIDE DEF u, vs, e, m
<1>6. U!Rfind(u, U!Dot) # 0 /\ e = i
  BY <1>2, <1>3, <1>4, Zenon
<1>7. U!PrefixOf(u) = i.prefix /\ U!PostfixOf(u) = i.postfix
  BY <1>5, <1>6, Zenon
<1>8. i.prefix \in Seq(Nat) /\ i.postfix \in Seq(Nat)
  BY InfoFields
<1>9. i.prefix # <<>>
  <2> SUFFICES ASSUME i.prefix = <<>> PROVE FALSE
    OBVIOUS
  <2> DEFINE q == i.postfix
             r == U!Rfind(u, U!Slash)
  <2>1. u = m \o q
    BY <1>1
  <2> HIDE DEF q
  <2>2. u \in Seq(Nat) /\ Len(u) >= 1 /\ u[1] # U!Slash /\ Len(u) \in Nat
    <3>1. q \in Seq(Nat)
      BY <1>8 DEF q
    <3>2. m \o q \in Seq(Nat) /\ Len(m \o q) = Len(m) + Len(q) /\ Len(m) \in Nat /\ Len(q) \in Nat
          /\ \A j \in 1 .. Len(m) : (m \o q)[j] = m[j]
      BY <1>1, <3>1, Concatenated
    <3>3. Len(m) >= 1
      BY <1>1, <3>2
    <3>4. 1 \in 1 .. Len(m)
      BY <3>2, <3>3
    <3> QED BY <2>1, <3>2, <3>3, <3>4, <1>1
  <2>3. U!PrefixOf(u) = <<>>
    BY <1>7
  <2>4. r \in 0 .. Len(u) /\ (r # 0 => u[r] = U!Slash)
    BY <2>2, RfindFacts
  <2>5. U!PrefixOf(u) = IF r = 0 THEN u ELSE SubSeq(u, 1, r - 1)
    BY DEF U!PrefixOf
  <2> HIDE DEF r
  <2>6. CASE r = 0
    BY <2>2, <2>3, <2>5, <2>6
  <2>7. CASE r # 0
    <3>1. r - 1 >= 1 /\ r - 1 \in Int
      <4>1. r # 1
        BY <2>2, <2>4, <2>7
      <4> QED BY <4>1, <2>2, <2>4, <2>7
    <3>2. \A k \in 1 .. r - 1 : u[k] \in Nat
      <4>1. \A k \in 1 .. r - 1 : k \in 1 .. Len(u)
        BY <2>2, <2>4
      <4>2. u \in Seq(Nat)
        BY <2>2
      <4> TAKE k \in 1 .. r - 1
      <4>3. k \in 1 .. Len(u)
        BY <4>1
      <4> QED BY <4>2, <4>3, Character, Zenon
    <3>3. Len(SubSeq(u, 1, r - 1)) = IF 1 <= r - 1 THEN (r - 1) - 1 + 1 ELSE 0
      BY ONLY <3>1, <3>2, SubSeqProperties
    <3>4. Len(<<>>) = 0
      OBVIOUS
    <3>5. SubSeq(u, 1, r - 1) = <<>>
      BY <2>3, <2>5, <2>7
    <3>6. (IF 1 <= r - 1 THEN (r - 1) - 1 + 1 ELSE 0) = 0
      BY <3>3, <3>4, <3>5, Zenon
    <3> QED BY ONLY <3>1, <3>6
  <2> QED BY <2>6, <2>7
<1>10. U!ProperPostfix(i.postfix)
  <2>1. u = UrlOf(i.prefix, m, i.postfix)
    BY <1>1, <1>9
  <2> QED BY <2>1, <1>1, <1>6, <1>7, <1>8, OnlyProper
<1>11. i.id # -1
  <2> SUFFICES ASSUME i.id = -1 PROVE FALSE
    OBVIOUS
  <2>1. U!Atol(FirstWord(i)) = 0
    BY NameFacts DEF FirstWord
  <2>2. i = [prefix |-> i.prefix, id |-> U!Atol(FirstWord(i)), offset |-> i.offset,
             size |-> i.size, postfix |-> i.postfix]
    BY <1>9, <1>10, SimpleParts
  <2>3. i.id = U!Atol(FirstWord(i))
    BY <2>2
  <2> QED BY <2>1, <2>3
<1> QED BY <1>9, <1>10, <1>11

-----------------------------------------------------------------------------
(***************************************************************************)
(* BundleUrl: the url that a behaviour has built, and the Info found in it.*)
(***************************************************************************)

BuiltUrl == IF u_coded THEN U!BuildWithEncode(u_info) ELSE U!BuildSimple(u_info)
FoundInfo == IF u_coded THEN U!ExtractWithEncode(BuiltUrl) ELSE U!ExtractSimple(BuiltUrl)

\* Once there, the url is what Build makes of the Info, and what was extracted is what
\* Extract makes of that url.
UrlInv ==
  /\ part # "url" => u_extracted = U!Failure
  /\ part = "url" => /\ u_info \in U!Info /\ u_coded \in BOOLEAN
                     /\ u_url = U!NotYet \/ u_url = BuiltUrl
                     /\ u_extracted = U!Failure \/ u_extracted.i = FoundInfo

\* UrlInv is inductive.
LEMMA UrlInvInit == SupportInit => UrlInv
BY DEF SupportInit, U!Init, UrlInv

LEMMA UrlInvStep ==
  ASSUME UrlInv, [SupportNext]_all
  PROVE  UrlInv'
<1>1. CASE UNCHANGED <<part, u_vars>>
  BY <1>1 DEF UrlInv, u_vars, BuiltUrl, FoundInfo
<1>2. CASE UrlNext /\ U!Build
  <2>1. /\ part = "url" /\ part' = part /\ u_info' = u_info /\ u_coded' = u_coded
        /\ u_extracted' = u_extracted /\ u_url' = BuiltUrl
    BY <1>2, Zenon DEF UrlNext, U!Build, BuiltUrl
  <2>2. BuiltUrl' = BuiltUrl /\ FoundInfo' = FoundInfo
    BY <2>1, Zenon DEF BuiltUrl, FoundInfo
  <2> QED BY <2>1, <2>2, Zenon DEF UrlInv
<1>3. CASE UrlNext /\ U!Extract
  <2>1. /\ part = "url" /\ part' = part /\ u_info' = u_info /\ u_coded' = u_coded
        /\ u_url' = u_url /\ u_url # U!NotYet
        /\ u_extracted' = [i |-> IF u_coded THEN U!ExtractWithEncode(u_url) ELSE U!ExtractSimple(u_url)]
    BY <1>3, Zenon DEF UrlNext, U!Extract
  <2>2. BuiltUrl' = BuiltUrl /\ FoundInfo' = FoundInfo
    BY <2>1, Zenon DEF BuiltUrl, FoundInfo
  <2>3. u_url = BuiltUrl
    BY <2>1, Zenon DEF UrlInv
  <2>4. u_extracted' = [i |-> FoundInfo]
    BY <2>1, <2>3, Zenon DEF FoundInfo
  <2>5. u_extracted'.i = FoundInfo
    BY <2>4
  <2> QED BY <2>1, <2>2, <2>5, Zenon DEF UrlInv
<1> QED BY <1>1, <1>2, <1>3 DEF SupportNext, RingNext, CacheNext, RunnerNext, PreloadNext,
           PoolNext, UrlNext, U!Next, all

\* From the invariant to the property, by what Build and Extract do to any Info.
LEMMA UrlInvRoundTrip == UrlInv => RoundTrip
<1> SUFFICES ASSUME UrlInv, u_extracted # U!Failure
             PROVE  (u_extracted.i = u_info) = /\ U!ProperPostfix(u_info.postfix)
                                               /\ u_coded => U!Hash(u_info) # HashValues - 1
                                               /\ ~u_coded => u_info.prefix # <<>> /\ u_info.id # -1
  BY DEF RoundTrip, U!RoundTrip
<1>1. u_info \in U!Info /\ u_coded \in BOOLEAN /\ u_extracted.i = FoundInfo
  BY Zenon DEF UrlInv
<1>2. CASE u_coded
  <2>1. FoundInfo = U!ExtractWithEncode(U!BuildWithEncode(u_info))
    BY <1>2, Zenon DEF FoundInfo, BuiltUrl
  <2>2. FoundInfo = u_info <=> U!ProperPostfix(u_info.postfix) /\ U!Hash(u_info) # HashValues - 1
    BY <1>1, <2>1, EncodedComesBack, EncodedOnly, Zenon
  <2> QED BY <1>1, <1>2, <2>2, Zenon
<1>3. CASE ~u_coded
  <2>1. FoundInfo = U!ExtractSimple(U!BuildSimple(u_info))
    BY <1>3, Zenon DEF FoundInfo, BuiltUrl
  <2>2. FoundInfo = u_info <=> /\ U!ProperPostfix(u_info.postfix)
                               /\ u_info.prefix # <<>> /\ u_info.id # -1
    BY <1>1, <2>1, SimpleComesBack, SimpleOnly, Zenon
  <2> QED BY <1>1, <1>3, <2>2, Zenon
<1> QED BY <1>1, <1>2, <1>3, Zenon

(***************************************************************************)
(* Build, Extract: for any strings, numbers and hash function the url of a *)
(* file leads back to its Info if its postfix is a dot and a word, its     *)
(* hash is not all ones and, without a hash, it has a prefix and an id;    *)
(* and in no other case.                                                   *)
(***************************************************************************)
THEOREM RoundTripTheorem == SupportSpec => []RoundTrip
<1>1. UrlInv /\ [SupportNext]_all => UrlInv'
  BY UrlInvStep
<1> QED BY <1>1, UrlInvInit, UrlInvRoundTrip, PTL DEF SupportSpec, all

-----------------------------------------------------------------------------
(***************************************************************************)
(* ThreadPool: what ThreadPoolProofs shows of a pool holds of the one here.*)
(***************************************************************************)
Pool == INSTANCE ThreadPoolProofs WITH
  max_size <- max_pool, Sizes <- PoolSizes, MaxCalls <- MaxPoolCalls,
  queue <- w_queue, busy <- w_busy, quit <- w_quit, wpc <- w_wpc, running <- w_running,
  workers <- w_workers, i <- w_i, held <- w_held, scan <- w_scan, ppc <- w_ppc,
  target <- w_target, message <- w_message, cpc <- w_cpc, at <- w_at, left <- w_left,
  created <- w_created, posted <- w_posted, set_sizes <- w_set_sizes, sent <- w_sent,
  ran <- w_ran, missed <- w_missed, added <- w_added

\* MCSupport and ThreadPoolProofs have the same actions, under two names.
LEMMA PoolSteps == W!Next => Pool!Next
<1>1. ASSUME NEW w \in W!Workers, W!WorkerStep(w) \/ W!Spurious(w)
      PROVE  Pool!WorkerStep(w) \/ Pool!Spurious(w)
  BY <1>1 DEF W!WorkerStep, Pool!WorkerStep, W!Spurious, Pool!Spurious,
         W!Test, Pool!Test, W!Wait, Pool!Wait, W!Take, Pool!Take, W!Run, Pool!Run,
         W!WorkerGo, Pool!WorkerGo, W!queues, Pool!queues, W!pool, Pool!pool,
         W!poster, Pool!poster, W!controller, Pool!controller,
         W!history, Pool!history
<1>2. ASSUME NEW p \in Posters, W!GetIdle(p) \/ W!PosterStep(p)
      PROVE  Pool!GetIdle(p) \/ Pool!PosterStep(p)
  BY <1>2 DEF W!PosterStep, Pool!PosterStep, W!GetIdle, Pool!GetIdle,
         W!Scan, Pool!Scan, W!Inflate, Pool!Inflate, W!Post, Pool!Post,
         W!Notify, Pool!Notify, W!Look, Pool!Look, W!AllBusy, Pool!AllBusy,
         W!Got, Pool!Got, W!MayInflate, Pool!MayInflate, W!Create, Pool!Create,
         W!Push, Pool!Push, W!Notified, Pool!Notified, W!After, Pool!After,
         W!Place, Pool!Place, W!End, Pool!End, W!NoScan, Pool!NoScan,
         W!queues, Pool!queues, W!pool, Pool!pool, W!poster, Pool!poster,
         W!controller, Pool!controller, W!history, Pool!history
<1>3. ASSUME W!Stop \/ (\E n \in PoolSizes : W!SetSize(n)) \/ W!ControllerStep
      PROVE  Pool!Stop \/ (\E n \in PoolSizes : Pool!SetSize(n)) \/ Pool!ControllerStep
  BY <1>3 DEF W!ControllerStep, Pool!ControllerStep, W!Stop, Pool!Stop,
         W!SetSize, Pool!SetSize, W!StopNext, Pool!StopNext, W!Grow, Pool!Grow,
         W!Shrunk, Pool!Shrunk, W!Joined, Pool!Joined, W!Close, Pool!Close,
         W!Notified, Pool!Notified, W!Erase, Pool!Erase, W!Create, Pool!Create,
         W!WorkerGo, Pool!WorkerGo, W!Workers, Pool!Workers, W!End, Pool!End,
         W!queues, Pool!queues, W!pool, Pool!pool, W!poster, Pool!poster,
         W!controller, Pool!controller, W!history, Pool!history
<1> QED BY <1>1, <1>2, <1>3 DEF W!Next, Pool!Next, W!Workers, Pool!Workers

\* A behaviour of the support run is one of a pool.
LEMMA PoolSpec == SupportSpec => Pool!Spec
<1>1. SupportInit => Pool!Init
  BY DEF SupportInit, W!Init, Pool!Init, W!End, Pool!End, W!NoScan, Pool!NoScan,
         W!Workers, Pool!Workers
<1>2. [SupportNext]_all => [Pool!Next]_Pool!vars
  <2>1. UNCHANGED w_vars => UNCHANGED Pool!vars
    BY DEF w_vars, Pool!vars, Pool!queues, Pool!pool, Pool!poster, Pool!controller, Pool!history
  <2>2. [SupportNext]_all => W!Next \/ UNCHANGED w_vars
    BY DEF SupportNext, RingNext, CacheNext, RunnerNext, PreloadNext, PoolNext, UrlNext, all
  <2> QED BY <2>1, <2>2, PoolSteps
<1> QED BY <1>1, <1>2, PTL DEF SupportSpec, Pool!Spec, all

\* The assumption of MCSupport is the one ThreadPoolProofs needs.
LEMMA PoolConstants == Pool!PoolAssumption
BY PoolAssumption DEF Pool!PoolAssumption, W!PoolAssumption, Pool!IsFiniteSet, W!IsFiniteSet

(***************************************************************************)
(* MessageQueue: whatever the posters, the other workers, Stop and         *)
(* set_size do, a worker runs the messages posted to it once each and in   *)
(* the order in which they came.                                           *)
(***************************************************************************)
THEOREM PoolOnceInOrder == SupportSpec => []OnceInOrder
<1>1. Pool!Spec => []Pool!OnceInOrder
  BY PoolConstants, Pool!OnceInOrderTheorem
<1>2. Pool!OnceInOrder => OnceInOrder
  BY DEF Pool!OnceInOrder, OnceInOrder, W!OnceInOrder, W!Workers, Pool!Workers
<1> QED BY <1>1, <1>2, PoolSpec, PTL

(***************************************************************************)
(* ThreadPool::GetIdle: a pool made with no more workers than max_size     *)
(* outgrows it by one worker for each further poster at most, beside what  *)
(* set_size has asked for, in any run of Posts, set_sizes and Stops.       *)
(***************************************************************************)
THEOREM PoolStaysBounded ==
  ASSUME init_size <= max_pool, Posters # {}
  PROVE  SupportSpec => []PoolBounded
<1>1. Pool!Spec => []Pool!PoolBounded
  BY PoolConstants, Pool!PoolBoundedTheorem
<1>2. Pool!PoolBounded => PoolBounded
  BY DEF Pool!PoolBounded, PoolBounded, W!PoolBounded, W!Cardinality, Pool!Cardinality
<1> QED BY <1>1, <1>2, PoolSpec, PTL
=============================================================================
