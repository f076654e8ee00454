------------------------------- MODULE Continuum -------------------------------
(***************************************************************************)
(* base::Continuum (base3/consistenthash.h): a consistent hash ring that   *)
(* threads share under a ReadWriteLock.  Each call is followed through its *)
(* lock operations; what it does while it holds the lock is one step with  *)
(* the release, as nobody else can come between.                           *)
(***************************************************************************)
EXTENDS RWLock

CONSTANTS
  Descs, Capacities,   \* descriptions of servers and numbers of points
  PointOf,             \* func: the point of a description and an index
  MaxHash,             \* hashes are 0 .. MaxHash
  MaxCalls             \* bound: calls

\* No description is the empty string, which Locate answers for an empty ring,
\* and no two descriptions hash to the same point.
ASSUME RingAssumption ==
  /\ Capacities \subseteq Nat /\ MaxHash \in Nat /\ "" \notin Descs
  /\ \A d \in Descs, c \in Capacities : \A k \in 0 .. c - 1 : PointOf[<<d, k>>] \in 0 .. MaxHash
  /\ \A d, e \in Descs, b, c \in Capacities : \A j \in 0 .. b - 1, k \in 0 .. c - 1 :
       d # e => PointOf[<<d, j>>] # PointOf[<<e, k>>]

VARIABLES
  desc_map,   \* desc_map_: the capacity of each description in it
  points,     \* points_, sorted: a set of <<point, description>>
  pc,         \* what a thread is doing, "idle" between calls
  target,     \* Rebuild: the points it has made
  changes,    \* history: changes of desc_map
  made, from, \* history: changes before points was made, and before target was
  calls

vars == <<lockvars, desc_map, points, pc, target, changes, made, from, calls>>
data == <<desc_map, points, target, changes, made, from>>

\* Descriptions may have been added before the threads start.
Init ==
  /\ LockInit
  /\ desc_map \in [{} -> Capacities] \cup {[d \in Descs |-> c] : c \in Capacities}
  /\ points = {}
  /\ pc = [t \in Threads |-> "idle"] /\ target = [t \in Threads |-> {}]
  /\ changes = 0 /\ made = 0 /\ from = [t \in Threads |-> 0]
  /\ calls = 0

Go(t, l) == pc' = [pc EXCEPT ![t] = l]
-----------------------------------------------------------------------------
\* Mutant: the key modulo the number of points is taken.
LocateModulo(ps, h) ==
  IF ps = {} THEN ""
  ELSE (CHOOSE p \in ps : Cardinality({q \in ps : q[1] < p[1]}) = h % Cardinality(ps))[2]

\* The point that comes first in the order of CompareByPoint.
FirstPoint(s) == CHOOSE p \in s : \A q \in s : p[1] <= q[1]

\* Locate: lower_bound, and the first point beyond the last.
Locate(ps, h) ==
  LET above == {p \in ps : p[1] >= h}
  IN IF above # {} THEN FirstPoint(above)[2] ELSE IF ps # {} THEN FirstPoint(ps)[2] ELSE ""

\* The points that Rebuild makes of a map.
PointsOf(m) == UNION {{<<PointOf[<<d, k>>], d>> : k \in 0 .. m[d] - 1} : d \in DOMAIN m}
-----------------------------------------------------------------------------
\* Each call begins with its lock operation, and goes on as pc says.
Begin(t, l) == pc[t] = "idle" /\ calls < MaxCalls /\ calls' = calls + 1 /\ Go(t, l)

BeginRead(t) ==
  /\ \/ Begin(t, "locate")     \* also size()
     \/ Begin(t, "snapshot")   \* Rebuild
     \/ Begin(t, "dump")
  /\ ReadLock(t) /\ UNCHANGED data

BeginWrite(t) == Begin(t, "change") /\ WriteLock(t) /\ UNCHANGED data

\* A thread that waited gets the lock, or waits on.
Wake(t) == (ReadWake(t) \/ WriteWake(t)) /\ UNCHANGED <<pc, calls, data>>

EndLocate(t) ==
  /\ pc[t] = "locate" /\ ReadUnlock(t) /\ Go(t, "idle") /\ UNCHANGED <<data, calls>>

\* Add, Remove or Clear.
Change(t) ==
  /\ pc[t] = "change" /\ WriteUnlock(t) /\ Go(t, "idle")
  /\ \/ \E d \in Descs, c \in Capacities :
          desc_map' = [x \in DOMAIN desc_map \cup {d} |-> IF x = d THEN c ELSE desc_map[x]]
     \/ \E d \in Descs : desc_map' = [x \in DOMAIN desc_map \ {d} |-> desc_map[x]]
     \/ desc_map' = [x \in {} |-> 0]
  /\ changes' = changes + 1
  /\ UNCHANGED <<points, target, made, from, calls>>

\* Rebuild: the points are made under the read lock.
Snapshot(t) ==
  /\ pc[t] = "snapshot" /\ ReadUnlock(t)
  /\ IF PointsOf(desc_map) = {}
     THEN Go(t, "idle") /\ UNCHANGED <<target, from>>
     ELSE /\ Go(t, "sorted")
          /\ target' = [target EXCEPT ![t] = PointsOf(desc_map)]
          /\ from' = [from EXCEPT ![t] = changes]
  /\ UNCHANGED <<desc_map, points, changes, made, calls>>

\* Then, sorted, they are swapped in under the write lock.
BeginSwap(t) ==
  pc[t] = "sorted" /\ WriteLock(t) /\ Go(t, "swap") /\ UNCHANGED <<data, calls>>

\* Mutant: the new points are added to the old ones.
SwapMerges(t) == points' = points \cup target[t]

Swap(t) == points' = target[t]

EndSwap(t) ==
  /\ pc[t] = "swap" /\ WriteUnlock(t) /\ Go(t, "idle")
  /\ Swap(t) /\ target' = [target EXCEPT ![t] = {}]
  /\ made' = from[t] /\ from' = [from EXCEPT ![t] = 0]
  /\ UNCHANGED <<desc_map, changes, calls>>

\* Dump calls size() for each description while it holds the lock; the calls
\* are all the same.  Without a point it reads the first of none, where the
\* program ends: the thread takes no more steps.
DumpSize(t) ==
  /\ pc[t] = "dump" /\ Depth(t) = 1 /\ points # {}
  /\ ReadLock(t) /\ Go(t, "dump size") /\ UNCHANGED <<data, calls>>

DumpSizeEnd(t) ==
  pc[t] = "dump size" /\ Depth(t) = 2 /\ ReadUnlock(t) /\ Go(t, "dumped") /\ UNCHANGED <<data, calls>>

EndDump(t) ==
  /\ pc[t] = "dumped" /\ ReadUnlock(t) /\ Go(t, "idle") /\ UNCHANGED <<data, calls>>

Step(t) ==
  \/ Wake(t) \/ EndLocate(t) \/ Change(t) \/ Snapshot(t) \/ BeginSwap(t) \/ EndSwap(t)
  \/ DumpSize(t) \/ DumpSizeEnd(t) \/ EndDump(t)

Next == \E t \in Threads : BeginRead(t) \/ BeginWrite(t) \/ Step(t)

Spec == Init /\ [][Next]_vars
-----------------------------------------------------------------------------
(***************************************************************************)
(* Dump, ReadWriteLock: the threads are stuck only when a Dump waits in    *)
(* size() for the lock it holds itself, a writer being in between.         *)
(***************************************************************************)
StuckOnlyInDump ==
  (\E t \in Threads : Waiting(t)) /\ woken = {}
     => \/ \E t \in Threads : ~Waiting(t) /\ (t \in writing \/ Depth(t) > 0)
        \/ \E t \in cond_read : pc[t] = "dump size"

(***************************************************************************)
(* Rebuild: the ring is what some Rebuild made of the whole desc_map_ at   *)
(* one moment, never a mixture, and Locate always finds a description when *)
(* there is one.                                                           *)
(***************************************************************************)
RingWhole ==
  /\ \A p \in points : \A k \in 0 .. MaxHash : Locate(points, k) # ""
  /\ (made = changes /\ points # {}) => points = PointsOf(desc_map)

(***************************************************************************)
(* Locate, Rebuild: when descriptions are only added between two Rebuilds, *)
(* keys move to the new ones and no key moves between the old ones.        *)
(***************************************************************************)
KeysMoveToNew ==
  [][points \subseteq points' /\ points # {} =>
       \A h \in 0 .. MaxHash :
         Locate(points', h) = Locate(points, h) \/ \E p \in points' \ points : p[2] = Locate(points', h)]_vars
=============================================================================
