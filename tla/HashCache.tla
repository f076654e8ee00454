------------------------------ MODULE HashCache ------------------------------
(***************************************************************************)
(* base::HashCache (base3/cache.h): a list of entries, the newest at its   *)
(* end, and a map from keys to places in the list.  Locate lets go of the  *)
(* mutex to create what it has not found; Replace is posted to another     *)
(* thread when the map has outgrown max_size.                              *)
(***************************************************************************)
EXTENDS Naturals, Sequences, FiniteSets

CONSTANTS
  Threads, Keys,
  max_size,
  MaxCalls        \* bound: calls of Locate, Find, Erase and Insert

VARIABLES
  list,           \* list_: entries [key, id], where id stands for the node
  map,            \* map_: the node of a key, 0 if it has none
  replacing,      \* replacing_
  tasks,          \* Replace calls that were posted and have not run
  creating,       \* the key for which a thread is in Creator, NoKey if none
  nodes, calls,
  erased,         \* history: Erase has taken something out since the last Post
  overrun         \* history: Replace went past the end of the list

vars == <<list, map, replacing, tasks, creating, nodes, calls, erased, overrun>>

NoKey == "none"

Init ==
  /\ list = <<>> /\ map = [k \in Keys |-> 0] /\ replacing = FALSE /\ tasks = 0
  /\ creating = [t \in Threads |-> NoKey]
  /\ nodes = 0 /\ calls = 0 /\ erased = FALSE /\ overrun = FALSE
-----------------------------------------------------------------------------
Size(m) == Cardinality({k \in Keys : m[k] # 0})

\* Mutant: the difference is taken without looking at the sizes first.
ExceededWraps(m) == Size(m) < max_size \/ Size(m) - max_size > max_size \div 10

\* ebaseed().
Exceeded(m) == Size(m) > max_size /\ Size(m) - max_size > max_size \div 10

\* The place of node id, which an iterator is, and the list without it.
Place(id) == CHOOSE j \in 1 .. Len(list) : list[j].id = id
Without(id) == SubSeq(list, 1, Place(id) - 1) \o SubSeq(list, Place(id) + 1, Len(list))

\* splice(): the entry of node id becomes the newest.
Touched(id) == Append(Without(id), list[Place(id)])

Begin(t) == creating[t] = NoKey /\ calls < MaxCalls /\ calls' = calls + 1

\* Insert posts a Replace unless one is on its way.
ReplaceDue(m) == ~replacing /\ Exceeded(m)

\* Insert: an older entry of the key stays in the list.
Inserted(k) ==
  LET m == [map EXCEPT ![k] = nodes + 1] IN
  /\ nodes' = nodes + 1
  /\ list' = Append(list, [key |-> k, id |-> nodes + 1]) /\ map' = m
  /\ IF ReplaceDue(m)
     THEN replacing' = TRUE /\ tasks' = tasks + 1 /\ erased' = FALSE
     ELSE UNCHANGED <<replacing, tasks, erased>>

Insert(t, k) == Begin(t) /\ Inserted(k) /\ UNCHANGED <<creating, overrun>>

Find(t, k) ==
  /\ Begin(t)
  /\ list' = IF map[k] # 0 THEN Touched(map[k]) ELSE list
  /\ UNCHANGED <<map, replacing, tasks, creating, nodes, erased, overrun>>

\* Locate of a key that is there is Find; otherwise Creator is called without
\* the mutex.
Locate(t, k) ==
  /\ Begin(t) /\ map[k] = 0
  /\ creating' = [creating EXCEPT ![t] = k]
  /\ UNCHANGED <<list, map, replacing, tasks, nodes, erased, overrun>>

\* Creator returns a value, which is inserted, or NULL.
Created(t) ==
  /\ creating[t] # NoKey
  /\ \/ Inserted(creating[t])
     \/ UNCHANGED <<list, map, replacing, tasks, nodes, erased>>
  /\ creating' = [creating EXCEPT ![t] = NoKey]
  /\ UNCHANGED <<calls, overrun>>

Erase(t, k) ==
  /\ Begin(t)
  /\ list' = IF map[k] # 0 THEN Without(map[k]) ELSE list
  /\ map' = [map EXCEPT ![k] = 0]
  /\ erased' = (erased \/ map[k] # 0)
  /\ UNCHANGED <<replacing, tasks, creating, nodes, overrun>>

\* Mutant: the entries go, the keys stay.
ForgottenNone(n) == map

\* The keys of the n oldest entries are taken out of the map, also when their
\* place in the map is a newer one.
Forgotten(n) ==
  [k \in Keys |-> IF \E j \in 1 .. n : list[j].key = k THEN 0 ELSE map[k]]

\* Replace.  The difference is unsigned: when the map is smaller than
\* max_size, or there are fewer entries, advance() leaves the list, and
\* anything may follow; the model stops there.
Replace ==
  /\ tasks > 0 /\ tasks' = tasks - 1
  /\ IF Size(map) >= max_size /\ Size(map) - max_size <= Len(list)
     THEN LET n == Size(map) - max_size IN
          /\ map' = Forgotten(n) /\ list' = SubSeq(list, n + 1, Len(list))
          /\ replacing' = FALSE /\ UNCHANGED overrun
     ELSE overrun' = TRUE /\ UNCHANGED <<list, map, replacing>>
  /\ UNCHANGED <<creating, nodes, calls, erased>>
-----------------------------------------------------------------------------
Next ==
  /\ ~overrun
  /\ \/ \E t \in Threads :
          \/ \E k \in Keys : Insert(t, k) \/ Find(t, k) \/ Locate(t, k) \/ Erase(t, k)
          \/ Created(t)
     \/ Replace

Spec == Init /\ [][Next]_vars
-----------------------------------------------------------------------------
(***************************************************************************)
(* HashCache: the map holds no dangling iterator.  Two Locates of one key  *)
(* leave two entries of it in the list; whichever of them Erase or Replace *)
(* takes out, what the map says of a key is an entry of that key.          *)
(***************************************************************************)
NoDangling ==
  \A k \in Keys : map[k] # 0 => [key |-> k, id |-> map[k]] \in {list[j] : j \in 1 .. Len(list)}

(***************************************************************************)
(* Replace: it stays within the list, unless Erase has made the map small  *)
(* between the Post and the call: then the count wraps.                    *)
(***************************************************************************)
ReplaceInBounds == overrun => erased
=============================================================================
