--------------------------- MODULE ThreadPoolProofs ---------------------------
(***************************************************************************)
(* base::ThreadPool, for any number of posters, workers and messages: a    *)
(* queue loses, repeats and reorders nothing, and the pool is bounded.     *)
(***************************************************************************)
EXTENDS ThreadPool, FiniteSetTheorems, SequenceTheorems, TLAPS

Messages == Nat \ {0}

-----------------------------------------------------------------------------
(***************************************************************************)
(* What a worker has been sent is what it has run, the message it runs and *)
(* its queue.                                                              *)
(***************************************************************************)
Current(m) == IF m = 0 THEN <<>> ELSE <<m>>

QueueInv(w) ==
  /\ queue[w] \in Seq(Messages) /\ ran[w] \in Seq(Messages) /\ running[w] \in Nat
  /\ running[w] # 0 <=> wpc[w] = "run"
  /\ sent[w] = ran[w] \o Current(running[w]) \o queue[w]
  /\ w > created => wpc[w] = "none"

WorkerInv ==
  /\ DOMAIN queue = Workers /\ DOMAIN ran = Workers /\ DOMAIN running = Workers
  /\ DOMAIN wpc = Workers /\ DOMAIN sent = Workers
  /\ created \in Nat
  /\ \A w \in Workers : QueueInv(w)

\* A message that a poster has is not 0, which stands for none.
PosterInv ==
  /\ DOMAIN message = Posters /\ DOMAIN ppc = Posters /\ posted \in Nat
  /\ \A p \in Posters : ppc[p] \in {"scan", "create", "post"} => message[p] \in Messages

-----------------------------------------------------------------------------
\* The next message is taken out of the queue, and then it has run.
LEMMA TakeHead ==
  ASSUME NEW r \in Seq(Messages), NEW q \in Seq(Messages), q # <<>>
  PROVE  /\ Head(q) \in Messages /\ Tail(q) \in Seq(Messages)
         /\ r \o <<>> \o q = r \o <<Head(q)>> \o Tail(q)
<1>1. Head(q) \in Messages /\ Tail(q) \in Seq(Messages)
  OBVIOUS
<1>2. r \o <<>> = r
  OBVIOUS
<1>3. q = <<Head(q)>> \o Tail(q)
  OBVIOUS
<1>4. (r \o <<Head(q)>>) \o Tail(q) = r \o (<<Head(q)>> \o Tail(q))
  BY <1>1, ConcatAssociative
<1> QED BY <1>1, <1>2, <1>3, <1>4

LEMMA RunEnds ==
  ASSUME NEW r \in Seq(Messages), NEW m \in Messages
  PROVE  Append(r, m) \in Seq(Messages) /\ Append(r, m) \o <<>> = r \o <<m>>
OBVIOUS

LEMMA PushLast ==
  ASSUME NEW r \in Seq(Messages), NEW n \in Nat, NEW q \in Seq(Messages), NEW m \in Messages
  PROVE  /\ Append(q, m) \in Seq(Messages)
         /\ Append(r \o Current(n) \o q, m) = r \o Current(n) \o Append(q, m)
<1>1. Current(n) \in Seq(Messages)
  <2>1. CASE n = 0
    BY <2>1 DEF Current
  <2>2. CASE n # 0
    <3>1. n \in Messages
      BY <2>2 DEF Messages
    <3> QED BY <2>2, <3>1 DEF Current
  <2> QED BY <2>1, <2>2
<1> DEFINE c == r \o Current(n)
<1>2. c \in Seq(Messages)
  BY <1>1
<1> HIDE DEF c
<1>3. <<m>> \in Seq(Messages) /\ c \o q \in Seq(Messages)
  BY <1>2
<1>4. Append(c \o q, m) = (c \o q) \o <<m>> /\ Append(q, m) = q \o <<m>>
  BY <1>3
<1>5. (c \o q) \o <<m>> = c \o (q \o <<m>>)
  BY <1>2, <1>3, ConcatAssociative
<1> QED BY <1>4, <1>5 DEF c

\* A worker whose queue and thread are where they were, or whose thread has
\* gone from one place without a message to another.
LEMMA QueueKeep ==
  ASSUME NEW w \in Workers, QueueInv(w), queue'[w] = queue[w], ran'[w] = ran[w],
         running'[w] = running[w], sent'[w] = sent[w], created' = created,
         \/ wpc'[w] = wpc[w]
         \/ wpc[w] \notin {"run", "none"} /\ wpc'[w] # "run"
  PROVE  QueueInv(w)'
BY DEF QueueInv

\* A thread that is notified.
LEMMA NotifiedKeeps ==
  ASSUME WorkerInv, NEW v, wpc' = Notified(v)
  PROVE  /\ DOMAIN wpc' = Workers
         /\ \A w \in Workers : \/ wpc'[w] = wpc[w]
                               \/ wpc[w] = "waiting" /\ wpc'[w] = "process"
BY DEF Notified, WorkerInv

LEMMA CreateKeeps ==
  ASSUME PoolAssumption, WorkerInv, Create, UNCHANGED <<queue, running, sent, ran>>
  PROVE  WorkerInv'
<1>1. created \in Nat /\ created' = created + 1 /\ created' \in Workers
  BY DEF PoolAssumption, WorkerInv, Create, Workers
<1>2. /\ DOMAIN wpc' = Workers
      /\ \A w \in Workers : wpc'[w] = IF w = created' THEN "test" ELSE wpc[w]
  BY <1>1 DEF WorkerInv, Create
<1>3. ASSUME NEW w \in Workers PROVE QueueInv(w)'
  <2>1. QueueInv(w) /\ w \in Nat
    BY DEF WorkerInv, Workers
  <2>2. CASE w = created'
    <3>1. wpc[w] = "none" /\ wpc'[w] = "test"
      BY <1>1, <1>2, <2>1, <2>2 DEF QueueInv
    <3>2. ~(w > created')
      BY <1>1, <2>2
    <3> QED BY <2>1, <3>1, <3>2 DEF QueueInv
  <2>3. CASE w # created'
    <3>1. w > created' => w > created
      BY <1>1, <2>1
    <3> QED BY <1>2, <2>1, <2>3, <3>1 DEF QueueInv
  <2> QED BY <2>2, <2>3
<1> QED BY <1>1, <1>2, <1>3 DEF WorkerInv

LEMMA NextWorkers ==
  ASSUME PoolAssumption, WorkerInv, PosterInv, [Next]_vars
  PROVE  WorkerInv'
<1>1. ASSUME UNCHANGED <<queue, ran, running, sent, created>>, DOMAIN wpc' = Workers,
             \A w \in Workers : \/ wpc'[w] = wpc[w]
                                \/ wpc[w] \notin {"run", "none"} /\ wpc'[w] # "run"
      PROVE  WorkerInv'
  <2>1. \A w \in Workers : QueueInv(w)'
    BY <1>1, QueueKeep DEF WorkerInv
  <2> QED BY <1>1, <2>1 DEF WorkerInv
<1>2. ASSUME NEW w \in Workers, Test(w) \/ Wait(w) \/ Spurious(w) PROVE WorkerInv'
  <2>1. /\ UNCHANGED <<queue, ran, running, sent, created>>
        /\ wpc[w] \in {"test", "wait", "waiting"}
        /\ \E l \in {"exit", "wait", "waiting", "process"} : wpc' = [wpc EXCEPT ![w] = l]
    BY <1>2 DEF Test, Wait, Spurious, WorkerGo, history
  <2>2. /\ DOMAIN wpc' = Workers
        /\ \A v \in Workers : \/ wpc'[v] = wpc[v]
                              \/ wpc[v] \notin {"run", "none"} /\ wpc'[v] # "run"
    BY <2>1 DEF WorkerInv
  <2> QED BY <1>1, <2>1, <2>2
<1>3. ASSUME NEW w \in Workers, Take(w) PROVE WorkerInv'
  <2>1. QueueInv(w) /\ running[w] = 0
    BY <1>3 DEF WorkerInv, QueueInv, Take
  <2>2. CASE queue[w] = <<>>
    <3>1. /\ UNCHANGED <<queue, ran, running, sent, created>>
          /\ wpc' = [wpc EXCEPT ![w] = "test"] /\ wpc[w] \in {"process", "again"}
      BY <1>3, <2>2 DEF Take, WorkerGo, history
    <3> QED BY <1>1, <3>1 DEF WorkerInv
  <2>3. CASE queue[w] # <<>>
    <3> DEFINE m == Head(queue[w])
               r == Tail(queue[w])
    <3>1. /\ running' = [running EXCEPT ![w] = m] /\ queue' = [queue EXCEPT ![w] = r]
          /\ wpc' = [wpc EXCEPT ![w] = "run"] /\ UNCHANGED <<ran, sent, created>>
      BY <1>3, <2>3 DEF Take, WorkerGo, history
    <3>2. /\ m \in Messages /\ r \in Seq(Messages)
          /\ sent[w] = ran[w] \o <<m>> \o r
      BY <2>1, <2>3, TakeHead DEF QueueInv, Current
    <3> HIDE DEF m, r
    <3>3. /\ running'[w] = m /\ queue'[w] = r /\ wpc'[w] = "run"
          /\ \A v \in Workers \ {w} : /\ running'[v] = running[v] /\ queue'[v] = queue[v]
                                      /\ wpc'[v] = wpc[v]
          /\ DOMAIN running' = Workers /\ DOMAIN queue' = Workers /\ DOMAIN wpc' = Workers
      BY <3>1 DEF WorkerInv
    <3>4. QueueInv(w)'
      <4>1. m # 0 /\ m \in Nat
        BY <3>2 DEF Messages
      <4>2. wpc[w] # "none"
        BY <1>3 DEF Take
      <4> QED BY <2>1, <3>1, <3>2, <3>3, <4>1, <4>2 DEF QueueInv, Current
    <3>5. ASSUME NEW v \in Workers \ {w} PROVE QueueInv(v)'
      BY <3>1, <3>3, QueueKeep DEF WorkerInv
    <3> QED BY <3>1, <3>3, <3>4, <3>5 DEF WorkerInv
  <2> QED BY <2>2, <2>3
<1>4. ASSUME NEW w \in Workers, Run(w) PROVE WorkerInv'
  <2> DEFINE m == running[w]
  <2>1. /\ running' = [running EXCEPT ![w] = 0] /\ ran' = [ran EXCEPT ![w] = Append(@, m)]
        /\ wpc' = [wpc EXCEPT ![w] = "again"] /\ UNCHANGED <<queue, sent, created>>
        /\ wpc[w] = "run"
    BY <1>4 DEF Run, WorkerGo
  <2>2. QueueInv(w) /\ m \in Messages /\ ran[w] \in Seq(Messages)
    BY <2>1 DEF WorkerInv, QueueInv, Messages
  <2> HIDE DEF m
  <2>3. /\ running'[w] = 0 /\ ran'[w] = Append(ran[w], m) /\ wpc'[w] = "again"
        /\ \A v \in Workers \ {w} : /\ running'[v] = running[v] /\ ran'[v] = ran[v]
                                    /\ wpc'[v] = wpc[v]
        /\ DOMAIN running' = Workers /\ DOMAIN ran' = Workers /\ DOMAIN wpc' = Workers
    BY <2>1 DEF WorkerInv
  <2>4. QueueInv(w)'
    <3>1. ran'[w] \in Seq(Messages) /\ ran'[w] \o <<>> = ran[w] \o <<m>>
      BY <2>2, <2>3, RunEnds
    <3>2. sent[w] = ran[w] \o <<m>> \o queue[w]
      BY <2>2 DEF QueueInv, Current, Messages, m
    <3>3. sent'[w] = ran'[w] \o <<>> \o queue'[w]
      BY <2>1, <3>1, <3>2
    <3> QED BY <2>1, <2>2, <2>3, <3>1, <3>3 DEF QueueInv, Current
  <2>5. ASSUME NEW v \in Workers \ {w} PROVE QueueInv(v)'
    BY <2>1, <2>3, QueueKeep DEF WorkerInv
  <2> QED BY <2>1, <2>3, <2>4, <2>5 DEF WorkerInv
<1>5. ASSUME NEW p \in Posters, GetIdle(p) \/ Scan(p) PROVE WorkerInv'
  BY <1>1, <1>5 DEF GetIdle, Scan, queues, history, WorkerInv
<1>6. ASSUME NEW p \in Posters, Inflate(p) PROVE WorkerInv'
  BY <1>6, CreateKeeps DEF Inflate, history
<1>7. ASSUME NEW p \in Posters, Post(p) PROVE WorkerInv'
  <2> DEFINE u == target[p]
             m == message[p]
  <2>1. CASE wpc[u] = "deleted"
    BY <1>1, <1>7, <2>1 DEF Post, WorkerInv
  <2>2. CASE wpc[u] # "deleted"
    <3>1. /\ queue' = [queue EXCEPT ![u] = Append(queue[u], m)]
          /\ sent' = [sent EXCEPT ![u] = Append(sent[u], m)]
          /\ UNCHANGED <<wpc, ran, running, created>>
      BY <1>7, <2>2 DEF Post, Push
    <3>2. m \in Messages
      BY <1>7 DEF Post, PosterInv
    <3> HIDE DEF u, m
    <3>3. DOMAIN wpc' = Workers
      BY <3>1 DEF WorkerInv
    <3>4. /\ DOMAIN queue' = Workers /\ DOMAIN sent' = Workers
          /\ \A w \in Workers \ {u} : queue'[w] = queue[w] /\ sent'[w] = sent[w]
      BY <3>1 DEF WorkerInv
    <3>5. ASSUME NEW w \in Workers PROVE QueueInv(w)'
      <4>1. QueueInv(w)
        BY DEF WorkerInv
      <4>2. CASE w # u
        BY <3>1, <3>4, <4>1, <4>2, QueueKeep
      <4>3. CASE w = u
        <5>1. queue'[w] = Append(queue[w], m) /\ sent'[w] = Append(sent[w], m)
          BY <3>1, <4>3 DEF WorkerInv
        <5>2. /\ queue'[w] \in Seq(Messages)
              /\ sent'[w] = ran[w] \o Current(running[w]) \o queue'[w]
          <6>1. /\ queue[w] \in Seq(Messages) /\ ran[w] \in Seq(Messages) /\ running[w] \in Nat
                /\ sent[w] = ran[w] \o Current(running[w]) \o queue[w]
            BY <4>1 DEF QueueInv
          <6>2. /\ Append(queue[w], m) \in Seq(Messages)
                /\ Append(ran[w] \o Current(running[w]) \o queue[w], m)
                     = ran[w] \o Current(running[w]) \o Append(queue[w], m)
            BY <3>2, <6>1, PushLast
          <6> QED BY <5>1, <6>1, <6>2
        <5>3. running'[w] = running[w] /\ ran'[w] = ran[w] /\ created' = created
          BY <3>1
        <5> QED BY <3>1, <4>1, <5>2, <5>3 DEF QueueInv
      <4> QED BY <4>2, <4>3
    <3> QED BY <3>1, <3>3, <3>4, <3>5 DEF WorkerInv
  <2> QED BY <2>1, <2>2
<1>8. ASSUME NEW v, Close(v), UNCHANGED <<queue, ran, running, sent, created>>
      PROVE  WorkerInv'
  <2>1. /\ DOMAIN wpc' = Workers
        /\ \A w \in Workers : \/ wpc'[w] = wpc[w]
                              \/ wpc[w] = "waiting" /\ wpc'[w] = "process"
    BY <1>8, NotifiedKeeps DEF Close
  <2> QED BY <1>1, <1>8, <2>1
<1>9. CASE StopNext \/ Shrunk
  <2>1. UNCHANGED <<queue, ran, running, sent, created>>
    BY <1>9 DEF StopNext, Shrunk
  <2>2. UNCHANGED wpc \/ Close(workers[at])
    BY <1>9 DEF StopNext, Shrunk
  <2> QED BY <1>1, <1>8, <2>1, <2>2 DEF WorkerInv
<1>10. CASE Stop \/ (\E n \in Sizes : SetSize(n)) \/ UNCHANGED vars
  BY <1>1, <1>10 DEF Stop, SetSize, queues, history, vars, WorkerInv
<1>11. CASE Grow
  BY <1>11, CreateKeeps DEF Grow
<1>12. CASE Joined
  <2>1. PICK w \in Workers : wpc[w] = "exit" /\ wpc' = [wpc EXCEPT ![w] = "deleted"]
    BY <1>12 DEF Joined, WorkerGo
  <2>2. UNCHANGED <<queue, ran, running, sent, created>>
    BY <1>12 DEF Joined, history
  <2> QED BY <1>1, <2>1, <2>2 DEF WorkerInv
<1>13. ASSUME NEW p \in Posters, Notify(p) PROVE WorkerInv'
  <2>1. /\ UNCHANGED <<queue, ran, running, sent, created>>
        /\ UNCHANGED wpc \/ wpc' = Notified(target[p])
    BY <1>13 DEF Notify, history
  <2> QED BY <1>1, <2>1, NotifiedKeeps DEF WorkerInv
<1> QED BY <1>2, <1>3, <1>4, <1>5, <1>6, <1>7, <1>9, <1>10, <1>11, <1>12, <1>13
        DEF Next, WorkerStep, PosterStep, ControllerStep

\* Where a round of GetIdle leaves the poster, and when it decides to inflate.
LEMMA LookGoes ==
  ASSUME NEW p \in Posters, NEW s, Look(p, s)
  PROVE  \E l \in {"scan", "create", "post"} :
           ppc' = [ppc EXCEPT ![p] = l] /\ (l = "create" => MayInflate(Len(workers)))
BY DEF Look, AllBusy, Got

LEMMA NextPosters ==
  ASSUME PosterInv, [Next]_vars
  PROVE  PosterInv'
<1> USE DEF Messages
<1>1. ASSUME NEW p \in Posters, GetIdle(p) PROVE PosterInv'
  <2>1. /\ message' = [message EXCEPT ![p] = posted + 1] /\ posted' = posted + 1
        /\ \E l \in {"scan", "create", "post"} : ppc' = [ppc EXCEPT ![p] = l]
    <3>1. message' = [message EXCEPT ![p] = posted + 1] /\ posted' = posted + 1
      BY <1>1 DEF GetIdle
    <3>2. \E s : Look(p, s)
      BY <1>1 DEF GetIdle
    <3> QED BY <3>1, <3>2, LookGoes
  <2> QED BY <2>1 DEF PosterInv
<1>2. ASSUME NEW p \in Posters, Inflate(p) PROVE PosterInv'
  BY <1>2 DEF Inflate, PosterInv
<1>3. ASSUME NEW p \in Posters, Post(p) PROVE PosterInv'
  <2>1. /\ message' = [message EXCEPT ![p] = 0] /\ posted' = posted
        /\ \E l \in {"dead", "notify"} : ppc' = [ppc EXCEPT ![p] = l]
    BY <1>3 DEF Post
  <2> QED BY <2>1 DEF PosterInv
<1>4. ASSUME UNCHANGED <<poster, posted>> PROVE PosterInv'
  BY <1>4 DEF PosterInv, poster
<1>5. CASE (\E w \in Workers : WorkerStep(w) \/ Spurious(w))
  BY <1>4, <1>5 DEF WorkerStep, Test, Wait, Take, Run, Spurious
<1>6. CASE Stop \/ (\E n \in Sizes : SetSize(n)) \/ ControllerStep \/ UNCHANGED vars
  BY <1>4, <1>6 DEF Stop, SetSize, ControllerStep, StopNext, Grow, Shrunk, Joined, vars
<1>7. ASSUME NEW p \in Posters, Scan(p) PROVE PosterInv'
  <2>1. UNCHANGED <<message, posted>> /\ ppc[p] = "scan"
    BY <1>7 DEF Scan
  <2>2. \E l \in {"scan", "create", "post"} : ppc' = [ppc EXCEPT ![p] = l]
    BY <1>7, LookGoes DEF Scan
  <2> QED BY <2>1, <2>2 DEF PosterInv
<1>8. ASSUME NEW p \in Posters, Notify(p) PROVE PosterInv'
  <2>1. /\ UNCHANGED <<message, posted>>
        /\ \E l \in {"dead", "idle"} : ppc' = [ppc EXCEPT ![p] = l]
    BY <1>8 DEF Notify
  <2> QED BY <2>1 DEF PosterInv
<1> QED BY <1>1, <1>2, <1>3, <1>5, <1>6, <1>7, <1>8 DEF Next, PosterStep

LEMMA InitInv ==
  ASSUME PoolAssumption, Init
  PROVE  WorkerInv /\ PosterInv
<1>1. PosterInv
  BY DEF Init, PosterInv
<1>2. ASSUME NEW w \in Workers PROVE QueueInv(w)
  <2>1. w \in Nat /\ init_size \in Nat /\ created = init_size
    BY DEF PoolAssumption, Workers, Init
  <2>2. /\ queue[w] = <<>> /\ ran[w] = <<>> /\ sent[w] = <<>> /\ running[w] = 0
        /\ wpc[w] # "run" /\ (w > created => wpc[w] = "none")
    BY <2>1 DEF Init
  <2> QED BY <2>2 DEF QueueInv, Current
<1>3. WorkerInv
  BY <1>2 DEF PoolAssumption, Init, WorkerInv
<1> QED BY <1>1, <1>3

(***************************************************************************)
(* MessageQueue: whatever the posters, the other workers, Stop and         *)
(* set_size do, a worker runs the messages posted to it once each and in   *)
(* the order in which they came.                                           *)
(***************************************************************************)
THEOREM OnceInOrderTheorem ==
  ASSUME PoolAssumption
  PROVE  Spec => []OnceInOrder
<1>1. WorkerInv /\ PosterInv /\ [Next]_vars => WorkerInv' /\ PosterInv'
  BY NextWorkers, NextPosters
<1>2. WorkerInv => OnceInOrder
  BY DEF WorkerInv, QueueInv, OnceInOrder, Current
<1>3. Init => WorkerInv /\ PosterInv
  BY InitInv
<1> QED BY <1>1, <1>2, <1>3, PTL DEF Spec
-----------------------------------------------------------------------------
(***************************************************************************)
(* The size of the pool: those who have decided to create a worker count.  *)
(***************************************************************************)
Creating == {p \in Posters : ppc[p] = "create"}

SizeInv ==
  /\ workers \in Seq(Nat) /\ created \in Nat /\ added \in Nat /\ at \in Nat
  /\ cpc \in {"shrunk", "join"} => at # 0
  /\ DOMAIN ppc = Posters
  /\ Len(workers) + Cardinality(Creating) <= max_size + added + Cardinality(Posters) - 1

LEMMA CreatingFinite ==
  ASSUME PoolAssumption
  PROVE  /\ IsFiniteSet(Creating) /\ Cardinality(Creating) \in Nat
         /\ Cardinality(Posters) \in Nat /\ Cardinality(Creating) <= Cardinality(Posters)
<1>1. IsFiniteSet(Posters) /\ Creating \subseteq Posters
  BY DEF PoolAssumption, Creating
<1> QED BY <1>1, FS_Subset, FS_CardinalityType

\* A list with one entry less.
LEMMA EraseLen ==
  ASSUME workers \in Seq(Nat), NEW k \in 1 .. Len(workers)
  PROVE  Erase(k) \in Seq(Nat) /\ Len(Erase(k)) = Len(workers) - 1
<1> DEFINE a == SubSeq(workers, 1, k - 1)
           b == SubSeq(workers, k + 1, Len(workers))
<1>1. Len(workers) \in Nat
  OBVIOUS
<1>2. a \in Seq(Nat) /\ Len(a) = k - 1
  BY <1>1, SubSeqProperties
<1>3. b \in Seq(Nat) /\ Len(b) = Len(workers) - k
  BY <1>1, SubSeqProperties
<1> HIDE DEF a, b
<1>4. a \o b \in Seq(Nat) /\ Len(a \o b) = Len(a) + Len(b)
  BY <1>2, <1>3, ConcatProperties
<1>5. Erase(k) = a \o b
  BY DEF Erase, a, b
<1>6. (k - 1) + (Len(workers) - k) = Len(workers) - 1
  BY <1>1
<1>7. Len(a \o b) = Len(workers) - 1
  BY <1>2, <1>3, <1>4, <1>6
<1> QED BY <1>4, <1>5, <1>7

LEMMA NextSize ==
  ASSUME PoolAssumption, SizeInv, [Next]_vars
  PROVE  SizeInv'
<1> DEFINE n == Len(workers)
           c == Cardinality(Creating)
           b == Cardinality(Posters)
<1>0. n \in Nat /\ c \in Nat /\ b \in Nat /\ c <= b /\ max_size \in Nat /\ added \in Nat
  BY CreatingFinite DEF PoolAssumption, SizeInv
<1>1. n + c <= max_size + added + b - 1
  BY DEF SizeInv
<1>2. ASSUME UNCHANGED <<workers, created, added, ppc>>, at' \in Nat,
             cpc' \in {"shrunk", "join"} => at' # 0
      PROVE  SizeInv'
  <2>1. Creating' = Creating
    BY <1>2 DEF Creating
  <2> QED BY <1>2, <2>1 DEF SizeInv
<1>3. ASSUME UNCHANGED <<workers, created, added, at, cpc>>, DOMAIN ppc' = Posters,
             Creating' \subseteq Creating
      PROVE  SizeInv'
  <2>1. Cardinality(Creating') \in Nat /\ Cardinality(Creating') <= c
    BY <1>3, CreatingFinite, FS_Subset, FS_CardinalityType
  <2> DEFINE d == Cardinality(Creating')
  <2>2. n + d <= max_size + added + b - 1
    BY <1>0, <1>1, <2>1
  <2> QED BY <1>3, <2>2 DEF SizeInv
<1>4. ASSUME Create PROVE workers' \in Seq(Nat) /\ Len(workers') = n + 1 /\ created' \in Nat
  BY <1>4 DEF Create, SizeInv
<1> HIDE DEF n, c, b
<1>5. CASE (\E w \in Workers : WorkerStep(w) \/ Spurious(w)) \/ UNCHANGED vars
  <2>1. UNCHANGED <<workers, created, added, ppc, at, cpc>>
    BY <1>5 DEF WorkerStep, Test, Wait, Take, Run, Spurious, pool, poster, controller, history, vars
  <2> QED BY <1>2, <2>1 DEF SizeInv
<1>6. ASSUME NEW p \in Posters, GetIdle(p) \/ Scan(p) PROVE SizeInv'
  <2>1. UNCHANGED <<workers, created, added, at, cpc>>
    BY <1>6 DEF GetIdle, Scan, controller, history
  <2>2. PICK l \in {"scan", "create", "post"} :
          ppc' = [ppc EXCEPT ![p] = l] /\ (l = "create" => MayInflate(n))
    BY <1>6, LookGoes DEF GetIdle, Scan, n
  <2>3. DOMAIN ppc' = Posters
    BY <2>2 DEF SizeInv
  <2>4. CASE l # "create"
    <3>1. Creating' \subseteq Creating
      BY <2>2, <2>4 DEF Creating, SizeInv
    <3> QED BY <1>3, <2>1, <2>3, <3>1
  <2>5. CASE l = "create"
    <3>1. n < max_size
      BY <2>2, <2>5 DEF MayInflate
    <3>2. Creating' \subseteq Posters /\ IsFiniteSet(Posters)
      BY DEF PoolAssumption, Creating
    <3> DEFINE d == Cardinality(Creating')
    <3>3. d \in Nat /\ d <= b
      BY <3>2, FS_Subset, FS_CardinalityType DEF b
    <3> HIDE DEF d
    <3>4. n + d <= max_size + added + b - 1
      BY <1>0, <3>1, <3>3
    <3> QED BY <2>1, <2>3, <3>4 DEF SizeInv, d, n, b
  <2> QED BY <2>2, <2>4, <2>5
<1>7. ASSUME NEW p \in Posters, Inflate(p) PROVE SizeInv'
  <2>1. UNCHANGED <<added, at, cpc>> /\ ppc[p] = "create" /\ ppc' = [ppc EXCEPT ![p] = "post"]
    BY <1>7 DEF Inflate, controller, history
  <2>2. Creating' = Creating \ {p} /\ p \in Creating
    BY <2>1 DEF Creating, SizeInv
  <2> DEFINE d == Cardinality(Creating')
  <2>3. d = c - 1
    BY <2>2, CreatingFinite, FS_RemoveElement DEF c
  <2> HIDE DEF d
  <2>4. (n + 1) + d <= max_size + added + b - 1
    BY <1>0, <1>1, <2>3
  <2>5. workers' \in Seq(Nat) /\ Len(workers') = n + 1 /\ created' \in Nat
    BY <1>4, <1>7 DEF Inflate
  <2>6. DOMAIN ppc' = Posters
    BY <2>1 DEF SizeInv
  <2> QED BY <2>1, <2>4, <2>5, <2>6 DEF SizeInv, d, b
<1>8. ASSUME NEW p \in Posters, Post(p) \/ Notify(p) PROVE SizeInv'
  <2>1. PICK l \in {"dead", "notify", "idle"} : ppc' = [ppc EXCEPT ![p] = l]
    BY <1>8 DEF Post, Notify
  <2>2. UNCHANGED <<workers, created, added, at, cpc>>
    BY <1>8 DEF Post, Notify, pool, controller, history
  <2>3. DOMAIN ppc' = Posters /\ Creating' \subseteq Creating
    BY <2>1 DEF Creating, SizeInv
  <2> QED BY <1>3, <2>2, <2>3
<1>9. CASE Stop \/ StopNext
  <2>1. UNCHANGED <<workers, created, added, ppc>> /\ cpc' \in {"stop", "stopped"}
    BY <1>9 DEF Stop, StopNext, pool, poster, history
  <2>2. at' \in {0, 1, at + 1}
    BY <1>9 DEF Stop, StopNext
  <2>3. at' \in Nat
    BY <2>2 DEF SizeInv
  <2> QED BY <1>2, <2>1, <2>3
<1>10. ASSUME NEW m \in Sizes, SetSize(m) PROVE SizeInv'
  <2>1. /\ UNCHANGED <<workers, created, added, ppc>>
        /\ \/ cpc' = "shrunk" /\ at' = 1
           \/ cpc' = "grow" /\ at' = at
    BY <1>10 DEF SetSize, poster, history
  <2>2. at' \in Nat /\ (cpc' \in {"shrunk", "join"} => at' # 0)
    BY <2>1 DEF SizeInv
  <2> QED BY <1>2, <2>1, <2>2
<1>11. CASE Grow
  <2>1. UNCHANGED <<ppc, at>> /\ added' = added + 1 /\ cpc' \in {"idle", "grow"}
    BY <1>11 DEF Grow, poster
  <2>2. workers' \in Seq(Nat) /\ Len(workers') = n + 1 /\ created' \in Nat
    BY <1>4, <1>11 DEF Grow
  <2>3. Creating' = Creating
    BY <2>1 DEF Creating
  <2>4. (n + 1) + c <= max_size + (added + 1) + b - 1
    BY <1>0, <1>1
  <2> QED BY <1>0, <2>1, <2>2, <2>3, <2>4 DEF SizeInv, c, b
<1>12. CASE Shrunk
  <2>1. UNCHANGED <<created, added, ppc>> /\ cpc = "shrunk" /\ at \in Nat /\ at # 0
    BY <1>12 DEF Shrunk, poster, SizeInv
  <2>2. CASE at > n
    <3>1. cpc' = "idle" /\ at' = 0 /\ UNCHANGED workers
      BY <1>12, <2>2 DEF Shrunk, n
    <3> QED BY <1>2, <2>1, <3>1
  <2>3. CASE at <= n /\ queue[workers[at]] # <<>>
    <3>1. at' = at + 1 /\ UNCHANGED <<workers, cpc>>
      BY <1>0, <1>12, <2>1, <2>3 DEF Shrunk, n
    <3>2. at' \in Nat /\ at' # 0
      BY <2>1, <3>1
    <3> QED BY <1>2, <2>1, <3>1, <3>2
  <2>4. CASE at <= n /\ queue[workers[at]] = <<>>
    <3>1. workers' = Erase(at) /\ UNCHANGED at
      BY <1>0, <1>12, <2>1, <2>4 DEF Shrunk, n
    <3>2. workers' \in Seq(Nat) /\ Len(workers') = n - 1
      <4>1. workers \in Seq(Nat) /\ at \in 1 .. Len(workers)
        BY <1>0, <2>1, <2>4 DEF SizeInv, n
      <4> QED BY <3>1, <4>1, EraseLen DEF n
    <3>3. (n - 1) + c <= max_size + added + b - 1
      BY <1>0, <1>1
    <3>4. Creating' = Creating
      BY <2>1 DEF Creating
    <3>5. created \in Nat /\ DOMAIN ppc = Posters
      BY DEF SizeInv
    <3> QED BY <1>0, <2>1, <3>1, <3>2, <3>3, <3>4, <3>5 DEF SizeInv, c, b
  <2> QED BY <1>0, <2>1, <2>2, <2>3, <2>4
<1>13. CASE Joined
  <2>1. UNCHANGED <<workers, created, added, ppc>> /\ cpc = "join"
    BY <1>13 DEF Joined, poster, history
  <2>2. \/ cpc' = "idle" /\ at' = 0
        \/ cpc' = "shrunk" /\ at' = at
    BY <1>13 DEF Joined
  <2>3. at' \in Nat /\ (cpc' \in {"shrunk", "join"} => at' # 0)
    BY <2>1, <2>2 DEF SizeInv
  <2> QED BY <1>2, <2>1, <2>3
<1> QED BY <1>5, <1>6, <1>7, <1>8, <1>9, <1>10, <1>11, <1>12, <1>13
        DEF Next, PosterStep, ControllerStep

(***************************************************************************)
(* GetIdle decides and Create acts under different holds of the mutex, so  *)
(* a pool may outgrow max_size; not by more than one worker for each       *)
(* further poster, beside what set_size has asked for, in any run of Posts,*)
(* set_sizes and Stops.  (The constructor compares nothing: a pool may be  *)
(* made with more workers than max_size.)                                  *)
(***************************************************************************)
THEOREM PoolBoundedTheorem ==
  ASSUME PoolAssumption, init_size <= max_size, Posters # {}
  PROVE  Spec => []PoolBounded
<1>1. Init => SizeInv
  <2> SUFFICES ASSUME Init PROVE SizeInv
    OBVIOUS
  <2>1. Creating = {} /\ Cardinality(Creating) = 0
    BY FS_EmptySet DEF Init, Creating
  <2>2. Cardinality(Posters) \in Nat \ {0}
    BY FS_EmptySet, FS_CardinalityType DEF PoolAssumption
  <2>3. workers \in Seq(Nat) /\ Len(workers) = init_size
    <3>1. workers = [w \in 1 .. init_size |-> w] /\ init_size \in Nat
      BY DEF PoolAssumption, Init
    <3>2. \A w \in 1 .. init_size : w \in Nat
      OBVIOUS
    <3> QED BY <3>1, <3>2
  <2>4. init_size + 0 <= max_size + 0 + Cardinality(Posters) - 1
    BY <2>2 DEF PoolAssumption
  <2>5. created \in Nat /\ added = 0 /\ at = 0 /\ cpc = "idle" /\ DOMAIN ppc = Posters
    BY DEF PoolAssumption, Init
  <2> QED BY <2>1, <2>3, <2>4, <2>5 DEF SizeInv
<1>2. SizeInv /\ [Next]_vars => SizeInv'
  BY NextSize
<1>3. SizeInv => PoolBounded
  <2> SUFFICES ASSUME SizeInv PROVE PoolBounded
    OBVIOUS
  <2> DEFINE n == Len(workers)
             c == Cardinality(Creating)
             b == Cardinality(Posters)
  <2>1. n \in Nat /\ c \in Nat /\ b \in Nat /\ max_size \in Nat /\ added \in Nat
    BY CreatingFinite DEF PoolAssumption, SizeInv
  <2>2. n + c <= max_size + added + b - 1
    BY DEF SizeInv
  <2> HIDE DEF n, c, b
  <2>3. n <= max_size + added + b - 1
    BY <2>1, <2>2
  <2> QED BY <2>3 DEF PoolBounded, n, b
<1> QED BY <1>1, <1>2, <1>3, PTL DEF Spec
=============================================================================
