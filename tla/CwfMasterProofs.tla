--------------------------- MODULE CwfMasterProofs ---------------------------
(***************************************************************************)
(* Machine-checked proofs about CwfMaster, for every number of children,   *)
(* forks, deaths, stops and signals.                                       *)
(***************************************************************************)
EXTENDS CwfMaster, FiniteSetTheorems, TLAPS

KidStates == {"none", "forked", "starting", "serving", "zombie", "reaped"}
MasterPCs == {"spawn", "spawned", "pause", "paused", "check", "wait", "push", "reset", "quit",
              "exited"}

TypeOK ==
  /\ mpc \in MasterPCs
  /\ left \in Nat /\ stops \in Nat /\ (mpc = "spawned" => left > 0)
  /\ child \in Pids \cup {Failed}
  /\ children_ \subseteq Pids \cup {Failed}
  /\ kid \in [Pids -> KidStates]
  /\ kids_known \in [Pids -> SUBSET (Pids \cup {Failed})]

\* A SIGCHLD on its way, and a fork that is asked for and not yet made: each
\* stands for a child that is dead, or was stopped or continued.
Notified == IF "CHLD" \in pending THEN 1 ELSE 0
ForkDue == IF fork_count_ # 0 /\ mpc \notin {"wait", "push", "reset"} THEN 1 ELSE 0

(***************************************************************************)
(* AtMostConfigured is not inductive: a fork that is due would break it.   *)
(* Before the handlers are installed the children still to fork, and after *)
(* that the deaths that were not yet answered by a fork, fill up to -F and *)
(* the stops that were taken for deaths.                                   *)
(***************************************************************************)
CountInv ==
  /\ mpc = "spawn" => Cardinality(Alive) + left <= Children
  /\ mpc = "spawned" => Cardinality(Alive) + left <= Children + 1
  /\ mpc \in {"spawn", "spawned"} => fork_count_ = 0 /\ "CHLD" \notin pending
  /\ Installed => Cardinality(Alive) + Notified + ForkDue <= Children + stops
  /\ Cardinality(Alive) <= Children + stops

(***************************************************************************)
(* Who the master knows of, and who has been told once quit_ is set.  A    *)
(* master that is told to quit while it is paused goes round once more and *)
(* may fork one more child.                                                *)
(***************************************************************************)
InFork == IF mpc \in {"spawned", "wait", "push"} THEN {child} ELSE {}

TellInv ==
  /\ mpc # "exited" => Failed \in children_ \/ Alive \subseteq children_ \cup InFork
  /\ mpc \in {"spawn", "spawned"} => quit_ = 0
  /\ quit_ = 1 /\ mpc \in {"pause", "paused", "check"} => Alive \subseteq told
  /\ quit_ = 1 => Alive \ told \subseteq {child}

-----------------------------------------------------------------------------
LEMMA PidsFacts == Failed \notin Pids /\ IsFiniteSet(Pids)
BY FS_Interval, MasterAssumption DEF Pids, Failed

LEMMA AliveFinite == Alive \subseteq Pids /\ IsFiniteSet(Alive) /\ Cardinality(Alive) \in Nat
<1>1. Alive \subseteq Pids
  BY DEF Alive
<1> QED BY <1>1, PidsFacts, FS_Subset, FS_CardinalityType

\* What each kind of step does to the set of live children.
LEMMA ForkAlive ==
  ASSUME TypeOK, NEW state \in {"forked", "starting"}, NEW known, ForkKid(state, known)
  PROVE  \/ Alive' = Alive /\ child' = Failed
         \/ \E k \in Pids : /\ Alive' = Alive \cup {k} /\ child' = k
                            /\ Cardinality(Alive') = Cardinality(Alive) + 1
<1>1. CASE child' = Failed /\ UNCHANGED <<kid, kids_known>>
  BY <1>1 DEF Alive
<1>2. ASSUME NEW k \in Pids, kid[k] = "none", kid' = [kid EXCEPT ![k] = state], child' = k
      PROVE  \E j \in Pids : /\ Alive' = Alive \cup {j} /\ child' = j
                             /\ Cardinality(Alive') = Cardinality(Alive) + 1
  <2>1. k \notin Alive /\ Alive' = Alive \cup {k}
    BY <1>2 DEF Alive, TypeOK
  <2>2. Cardinality(Alive') = Cardinality(Alive) + 1
    BY <2>1, AliveFinite, FS_AddElement
  <2> QED BY <1>2, <2>1, <2>2
<1> QED BY <1>1, <1>2 DEF ForkKid

LEMMA WaitAlive ==
  ASSUME TypeOK, WaitKid
  PROVE  Alive' = Alive /\ kid' \in [Pids -> KidStates]
BY DEF WaitKid, TypeOK, Alive, KidStates

LEMMA DiesAlive ==
  ASSUME TypeOK, NEW k \in Pids, k \in Alive, Dies(k)
  PROVE  /\ Alive' = Alive \ {k}
         /\ Cardinality(Alive') = Cardinality(Alive) - 1
         /\ kid' \in [Pids -> KidStates]
<1>1. Alive' = Alive \ {k} /\ kid' \in [Pids -> KidStates]
  BY DEF Dies, Alive, TypeOK, KidStates
<1> QED BY <1>1, AliveFinite, FS_RemoveElement

\* A death shows in pending as soon as the handler is installed.
LEMMA DiesNotifies ==
  ASSUME NEW k \in Pids, Dies(k), Installed
  PROVE  "CHLD" \in pending'
BY DEF Dies

-----------------------------------------------------------------------------
(***************************************************************************)
(* Type correctness                                                        *)
(***************************************************************************)
LEMMA InitTypeOK == Init => TypeOK
BY MasterAssumption DEF Init, TypeOK, MasterPCs, KidStates

LEMMA ForkType ==
  ASSUME TypeOK, NEW state \in {"forked", "starting"},
         NEW known \in SUBSET (Pids \cup {Failed}), ForkKid(state, known)
  PROVE  /\ child' \in Pids \cup {Failed} /\ kid' \in [Pids -> KidStates]
         /\ kids_known' \in [Pids -> SUBSET (Pids \cup {Failed})]
<1>1. CASE child' = Failed /\ UNCHANGED <<kid, kids_known>>
  BY <1>1 DEF TypeOK
<1>2. ASSUME NEW k \in Pids, kid' = [kid EXCEPT ![k] = state],
             kids_known' = [kids_known EXCEPT ![k] = known], child' = k
      PROVE  /\ child' \in Pids \cup {Failed} /\ kid' \in [Pids -> KidStates]
             /\ kids_known' \in [Pids -> SUBSET (Pids \cup {Failed})]
  BY <1>2 DEF TypeOK, KidStates
<1> QED BY <1>1, <1>2 DEF ForkKid

LEMMA NextTypeOK == TypeOK /\ [Next]_vars => TypeOK'
<1> SUFFICES ASSUME TypeOK, [Next]_vars PROVE TypeOK'
  OBVIOUS
<1> USE DEF MasterPCs
<1>1. CASE UNCHANGED vars
  BY <1>1 DEF vars, master, kidvars, TypeOK
<1>2. CASE Spawn
  <2>1. /\ ForkKid("forked", {}) /\ mpc' = "spawned" /\ left > 0
        /\ UNCHANGED <<left, children_, stops>>
    BY <1>2 DEF Spawn
  <2> QED BY <2>1, ForkType DEF TypeOK
<1>3. CASE Spawned
  <2>1. /\ WaitKid /\ mpc' = "spawn" /\ left' = left - 1 /\ left - 1 \in Nat
        /\ children_' = children_ \cup {child} /\ UNCHANGED <<child, kids_known, stops>>
    BY <1>3 DEF Spawned, TypeOK
  <2> QED BY <2>1, WaitAlive DEF TypeOK
<1>4. CASE Install \/ Pause \/ Push \/ Reset \/ CheckQuit
  BY <1>4 DEF Install, Pause, Push, Reset, CheckQuit, TypeOK, kidvars
<1>5. CASE CheckFork
  <2>1. UNCHANGED <<left, children_, stops>> /\ mpc' \in {"wait", "quit"}
    BY <1>5 DEF CheckFork
  <2>2. CASE ForkKid("starting", children_)
    <3>1. children_ \in SUBSET (Pids \cup {Failed})
      BY DEF TypeOK
    <3> QED BY <2>1, <2>2, <3>1, ForkType DEF TypeOK
  <2>3. CASE UNCHANGED <<child, kid, kids_known>>
    BY <2>1, <2>3 DEF TypeOK
  <2> QED BY <1>5, <2>2, <2>3 DEF CheckFork
<1>6. CASE Wait
  BY <1>6, WaitAlive DEF Wait, TypeOK
<1>7. CASE Handler
  <2>1. CASE SignalChildren
    <3>1. kid' \in [Pids -> KidStates]
      BY <2>1 DEF SignalChildren, TypeOK, KidStates
    <3> QED BY <2>1, <3>1 DEF SignalChildren, WakeUp, TypeOK
  <2>2. CASE SignalTerminate \/ SignalReopen \/ SignalUpdate
    BY <2>2 DEF SignalTerminate, SignalReopen, SignalUpdate, WakeUp, TypeOK, kidvars
  <2> QED BY <1>7, <2>1, <2>2 DEF Handler
<1>8. ASSUME NEW sig \in {"INT", "USR1"}, Send(sig) PROVE TypeOK'
  BY <1>8 DEF Send, TypeOK, kidvars
<1>9. ASSUME NEW k \in Pids,
             \/ Crash(k) \/ StopOrContinue(k) \/ FastcgiMain(k) \/ ChildInt(k) \/ ChildUsr(k)
             \/ Serve(k)
      PROVE  TypeOK'
  <2>1. UNCHANGED <<master, kids_known>> /\ stops' \in Nat
    BY <1>9 DEF TypeOK, kidvars, StopOrContinue, Crash, FastcgiMain, ChildInt, ChildUsr, Serve
  <2>2. kid' \in [Pids -> KidStates]
    <3>1. CASE Dies(k) /\ k \in Alive
      BY <3>1, DiesAlive
    <3>2. CASE FastcgiMain(k)
      BY <3>2 DEF FastcgiMain, TypeOK, KidStates
    <3>3. CASE UNCHANGED kid
      BY <3>3 DEF TypeOK
    <3> QED BY <1>9, <3>1, <3>2, <3>3 DEF StopOrContinue, kidvars, Crash, ChildInt, ChildUsr, Serve, Alive
  <2> QED BY <2>1, <2>2 DEF TypeOK, master
<1> QED BY <1>1, <1>2, <1>3, <1>4, <1>5, <1>6, <1>7, <1>8, <1>9 DEF Next, MasterStep
-----------------------------------------------------------------------------
(***************************************************************************)
(* The number of live children                                             *)
(***************************************************************************)
LEMMA InitCount == Init => CountInv
<1> SUFFICES ASSUME Init PROVE CountInv
  OBVIOUS
<1>1. Alive = {}
  BY DEF Init, Alive
<1>2. Cardinality(Alive) = 0
  BY <1>1, FS_EmptySet
<1> QED BY <1>2, MasterAssumption DEF Init, CountInv, Installed

LEMMA DueType == Notified \in 0 .. 1 /\ ForkDue \in 0 .. 1
BY DEF Notified, ForkDue

\* A step that neither forks nor kills, and asks for no fork, is harmless.
LEMMA CountKeep ==
  ASSUME TypeOK, CountInv, Alive' = Alive, UNCHANGED stops,
         mpc' \in {"spawn", "spawned"} => UNCHANGED <<mpc, left, fork_count_>>,
         "CHLD" \in pending' => "CHLD" \in pending,
         Installed' => Installed /\ ForkDue' + Notified' <= ForkDue + Notified
  PROVE  CountInv'
<1> DEFINE c == Cardinality(Alive)
<1>1. c \in Nat /\ Cardinality(Alive') = c
  BY AliveFinite
<1>2. Notified \in 0 .. 1 /\ ForkDue \in 0 .. 1 /\ Notified' \in 0 .. 1 /\ ForkDue' \in 0 .. 1
  BY DEF Notified, ForkDue
<1> HIDE DEF c
<1>3. Installed' => Cardinality(Alive') + Notified' + ForkDue' <= Children + stops'
  BY <1>1, <1>2, MasterAssumption DEF CountInv, c, Notified, ForkDue, TypeOK
<1> QED BY <1>1, <1>3 DEF CountInv, c

LEMMA CountDies ==
  ASSUME TypeOK, CountInv, NEW k \in Pids, k \in Alive, Dies(k),
         UNCHANGED <<master, stops>>
  PROVE  CountInv'
<1> DEFINE c == Cardinality(Alive)
<1>1. c \in Nat /\ Cardinality(Alive') = c - 1 /\ Children \in Nat /\ stops \in Nat
  BY AliveFinite, DiesAlive, MasterAssumption DEF TypeOK
<1>2. UNCHANGED <<mpc, left, fork_count_, ForkDue, Installed>>
  BY DEF master, ForkDue, Installed
<1>3. Notified \in 0 .. 1 /\ Notified' \in 0 .. 1 /\ ForkDue \in 0 .. 1
  BY DEF Notified, ForkDue
<1>4. mpc \in {"spawn", "spawned"} => UNCHANGED pending
  BY DEF Dies, Installed
<1> HIDE DEF c
<1>5. Installed' => Cardinality(Alive') + Notified' + ForkDue' <= Children + stops'
  BY <1>1, <1>2, <1>3 DEF CountInv, c
<1>6. Cardinality(Alive') <= Children + stops'
  BY <1>1 DEF CountInv, c
<1>7. mpc' = "spawn" => Cardinality(Alive') + left' <= Children
  BY <1>1, <1>2 DEF CountInv, c, TypeOK
<1>8. mpc' = "spawned" => Cardinality(Alive') + left' <= Children + 1
  BY <1>1, <1>2 DEF CountInv, c, TypeOK
<1> QED BY <1>2, <1>4, <1>5, <1>6, <1>7, <1>8 DEF CountInv

LEMMA NextCount == TypeOK /\ CountInv /\ [Next]_vars => CountInv'
<1> SUFFICES ASSUME TypeOK, CountInv, [Next]_vars PROVE CountInv'
  OBVIOUS
<1> DEFINE c == Cardinality(Alive)
<1>0. c \in Nat /\ Children \in Nat /\ left \in Nat /\ stops \in Nat
  BY AliveFinite, MasterAssumption DEF TypeOK
<1>1. CASE UNCHANGED vars
  <2>1. Alive' = Alive
    BY <1>1 DEF vars, kidvars, Alive
  <2>2. UNCHANGED <<mpc, left, fork_count_, pending, stops>>
    BY <1>1 DEF vars, master
  <2>3. UNCHANGED <<Notified, ForkDue, Installed>>
    BY <2>2 DEF Notified, ForkDue, Installed
  <2> QED BY <2>1, <2>2, <2>3, DueType, CountKeep
<1>2. CASE Spawn
  <2>1. /\ ForkKid("forked", {}) /\ mpc = "spawn" /\ mpc' = "spawned" /\ left > 0
        /\ UNCHANGED <<left, fork_count_, pending, stops>>
    BY <1>2 DEF Spawn
  <2>2. Cardinality(Alive') = c \/ Cardinality(Alive') = c + 1
    BY <2>1, ForkAlive
  <2>3. c + left <= Children
    BY <2>1 DEF CountInv
  <2>4. fork_count_ = 0 /\ "CHLD" \notin pending /\ ~Installed'
    BY <2>1 DEF CountInv, Installed
  <2> HIDE DEF c
  <2>5. Cardinality(Alive') + left <= Children + 1 /\ Cardinality(Alive') <= Children + stops'
    BY <1>0, <2>1, <2>2, <2>3
  <2> QED BY <2>1, <2>4, <2>5 DEF CountInv
<1>3. CASE Spawned
  <2>1. /\ WaitKid /\ mpc = "spawned" /\ mpc' = "spawn" /\ left' = left - 1
        /\ UNCHANGED <<fork_count_, pending, stops>>
    BY <1>3 DEF Spawned
  <2>2. Cardinality(Alive') = c
    BY <2>1, WaitAlive
  <2>3. c + left <= Children + 1 /\ left > 0
    BY <2>1 DEF CountInv, TypeOK
  <2>4. fork_count_ = 0 /\ "CHLD" \notin pending /\ ~Installed'
    BY <2>1 DEF CountInv, Installed
  <2> HIDE DEF c
  <2>5. Cardinality(Alive') + left' <= Children /\ Cardinality(Alive') <= Children + stops'
    BY <1>0, <2>1, <2>2, <2>3
  <2> QED BY <2>1, <2>4, <2>5 DEF CountInv
<1>4. CASE Install
  <2>1. /\ mpc = "spawn" /\ mpc' = "pause" /\ UNCHANGED <<fork_count_, pending, kid, stops>>
    BY <1>4 DEF Install, kidvars
  <2>2. Alive' = Alive
    BY <2>1 DEF Alive
  <2>3. fork_count_ = 0 /\ "CHLD" \notin pending /\ c <= Children + stops
    BY <2>1 DEF CountInv
  <2>4. Notified' = 0 /\ ForkDue' = 0
    BY <2>1, <2>3 DEF Notified, ForkDue
  <2> HIDE DEF c
  <2>5. Cardinality(Alive') + Notified' + ForkDue' <= Children + stops'
    BY <1>0, <2>1, <2>2, <2>3, <2>4 DEF c
  <2> QED BY <2>1, <2>2, <2>3, <2>5 DEF CountInv, c
<1>5. CASE Pause \/ Push \/ Reset \/ CheckQuit
  <2>1. /\ mpc \in {"pause", "push", "reset", "quit"}
        /\ mpc' \in {"paused", "reset", "quit", "exited", "pause"}
        /\ UNCHANGED <<kid, stops>> /\ (UNCHANGED pending \/ pending' = {})
    BY <1>5 DEF Pause, Push, Reset, CheckQuit, kidvars
  <2>2. ForkDue' <= ForkDue /\ ForkDue' \in 0 .. 1 /\ ForkDue \in 0 .. 1
    BY <1>5 DEF ForkDue, Pause, Push, Reset, CheckQuit
  <2>3. Notified' <= Notified /\ Notified' \in 0 .. 1 /\ Notified \in 0 .. 1
    BY <2>1 DEF Notified
  <2>4. Alive' = Alive /\ Installed
    BY <2>1 DEF Alive, Installed
  <2>5. ForkDue' + Notified' <= ForkDue + Notified
    BY <2>2, <2>3 DEF ForkDue, Notified
  <2> QED BY <2>1, <2>4, <2>5, CountKeep
<1>6. CASE CheckFork
  <2>1. mpc = "check" /\ UNCHANGED <<fork_count_, pending, Notified, stops>>
    BY <1>6 DEF CheckFork, Notified
  <2>2. CASE fork_count_ # 0 /\ ForkKid("starting", children_) /\ mpc' = "wait"
    <3>1. Cardinality(Alive') = c \/ Cardinality(Alive') = c + 1
      BY <2>2, ForkAlive
    <3>2. ForkDue = 1 /\ ForkDue' = 0 /\ Installed
      BY <2>1, <2>2 DEF ForkDue, Installed
    <3>3. c + Notified + ForkDue <= Children + stops
      BY <3>2 DEF CountInv
    <3> HIDE DEF c
    <3>4. /\ Cardinality(Alive') + Notified' + ForkDue' <= Children + stops'
          /\ Cardinality(Alive') <= Children + stops'
      BY <1>0, <2>1, <3>1, <3>2, <3>3, DueType
    <3> QED BY <2>2, <3>4 DEF CountInv
  <2>3. CASE fork_count_ = 0 /\ mpc' = "quit" /\ UNCHANGED <<child, kid, kids_known>>
    <3>1. ForkDue' = 0 /\ ForkDue = 0 /\ Installed /\ Alive' = Alive
      BY <2>1, <2>3 DEF ForkDue, Installed, Alive
    <3> QED BY <2>1, <2>3, <3>1, DueType, CountKeep
  <2> QED BY <1>6, <2>2, <2>3 DEF CheckFork
<1>7. CASE Wait
  <2>1. mpc = "wait" /\ mpc' = "push" /\ WaitKid /\ UNCHANGED <<fork_count_, pending, stops>>
    BY <1>7 DEF Wait
  <2>2. ForkDue' = 0 /\ ForkDue = 0 /\ Installed /\ UNCHANGED Notified
    BY <2>1 DEF ForkDue, Installed, Notified
  <2> QED BY <2>1, <2>2, WaitAlive, DueType, CountKeep
<1>8. CASE SignalChildren
  <2>1. /\ Installed /\ "CHLD" \in pending /\ "CHLD" \notin pending'
        /\ mpc' \notin {"spawn", "spawned", "exited"} /\ UNCHANGED stops
    BY <1>8 DEF SignalChildren, WakeUp, Installed
  <2>2. Alive' = Alive
    BY <1>8 DEF SignalChildren, Alive, TypeOK
  <2>3. Notified = 1 /\ Notified' = 0 /\ ForkDue \in 0 .. 1 /\ ForkDue' \in 0 .. 1
    BY <2>1 DEF Notified, ForkDue
  <2>4. ForkDue' + Notified' <= ForkDue + Notified
    BY <2>3 DEF ForkDue, Notified
  <2> QED BY <2>1, <2>2, <2>4, CountKeep
<1>9. CASE SignalTerminate \/ SignalReopen \/ SignalUpdate
  <2>1. /\ Installed /\ UNCHANGED <<kid, fork_count_, stops>>
        /\ mpc' = IF mpc = "paused" THEN "check" ELSE mpc
        /\ "CHLD" \in pending' => "CHLD" \in pending
        /\ "CHLD" \in pending => "CHLD" \in pending'
    BY <1>9 DEF SignalTerminate, SignalReopen, SignalUpdate, WakeUp, kidvars
  <2>2. UNCHANGED <<Alive, Notified, ForkDue>> /\ mpc' \notin {"spawn", "spawned"}
    BY <2>1 DEF Alive, Notified, ForkDue, Installed
  <2> QED BY <2>1, <2>2, DueType, CountKeep
<1>10. ASSUME NEW sig \in {"INT", "USR1"}, Send(sig) PROVE CountInv'
  <2>1. /\ UNCHANGED <<kid, fork_count_, left, stops>>
        /\ Installed => UNCHANGED mpc
        /\ ~Installed => mpc' = "exited"
        /\ "CHLD" \in pending' => "CHLD" \in pending
        /\ "CHLD" \in pending => "CHLD" \in pending'
    BY <1>10 DEF Send, kidvars
  <2>2. UNCHANGED <<Alive, Notified>> /\ (Installed' => Installed /\ UNCHANGED ForkDue)
    BY <2>1 DEF Alive, Notified, ForkDue, Installed
  <2>3. mpc' \in {"spawn", "spawned"} => UNCHANGED mpc
    BY <2>1
  <2> QED BY <2>1, <2>2, <2>3, DueType, CountKeep
<1>11. ASSUME NEW k \in Pids, StopOrContinue(k) PROVE CountInv'
  <2>1. /\ UNCHANGED <<mpc, left, fork_count_, kid>> /\ stops' = stops + 1 /\ Installed
    BY <1>11 DEF StopOrContinue, master, kidvars
  <2>2. UNCHANGED <<Alive, ForkDue, Installed>>
    BY <2>1 DEF Alive, ForkDue, Installed
  <2>3. c + Notified + ForkDue <= Children + stops
    BY <2>1 DEF CountInv
  <2>4. /\ Notified \in 0 .. 1 /\ Notified' \in 0 .. 1 /\ ForkDue \in 0 .. 1
    BY DEF Notified, ForkDue
  <2> HIDE DEF c
  <2>5. /\ Cardinality(Alive') + Notified' + ForkDue' <= Children + stops'
        /\ Cardinality(Alive') <= Children + stops'
    BY <1>0, <2>1, <2>2, <2>3, <2>4 DEF c
  <2>6. mpc' \notin {"spawn", "spawned"}
    BY <2>1 DEF Installed
  <2> QED BY <2>5, <2>6 DEF CountInv
<1>12. ASSUME NEW k \in Pids,
              Crash(k) \/ FastcgiMain(k) \/ ChildInt(k) \/ ChildUsr(k) \/ Serve(k)
       PROVE  CountInv'
  <2>1. UNCHANGED <<master, stops>>
    BY <1>12 DEF Crash, FastcgiMain, ChildInt, ChildUsr, Serve
  <2>2. CASE Dies(k) /\ k \in Alive
    BY <2>1, <2>2, CountDies
  <2>3. CASE /\ Alive' = Alive
             /\ pending' \in {pending, pending \cup {"INT"}, pending \cup {"USR1"}}
    <3>1. /\ "CHLD" \in pending' => "CHLD" \in pending
          /\ "CHLD" \in pending => "CHLD" \in pending'
      BY <2>3
    <3>2. UNCHANGED <<mpc, left, fork_count_, Notified, ForkDue, Installed>>
      BY <2>1, <3>1 DEF master, Notified, ForkDue, Installed
    <3> QED BY <2>1, <2>3, <3>1, <3>2, DueType, CountKeep
  <2>4. CASE FastcgiMain(k)
    <3>1. Alive' = Alive
      BY <2>4 DEF FastcgiMain, Alive, TypeOK
    <3>2. UNCHANGED pending
      BY <2>4 DEF FastcgiMain
    <3> QED BY <2>3, <3>1, <3>2
  <2>5. CASE Crash(k) \/ Serve(k)
    BY <2>2, <2>5 DEF Crash, Serve, Alive
  <2>6. CASE ChildInt(k)
    <3>1. CASE kid[k] = "forked" /\ Dies(k)
      BY <2>2, <3>1 DEF Alive
    <3>2. CASE UNCHANGED kid /\ pending' \in {pending, pending \cup {"INT"}}
      BY <2>3, <3>2 DEF Alive
    <3> QED BY <2>6, <3>1, <3>2 DEF ChildInt, ReachesMaster
  <2>7. CASE ChildUsr(k)
    <3>1. CASE kid[k] = "forked" /\ Dies(k)
      BY <2>2, <3>1 DEF Alive
    <3>2. CASE UNCHANGED kid /\ pending' \in {pending, pending \cup {"USR1"}}
      BY <2>3, <3>2 DEF Alive
    <3> QED BY <2>7, <3>1, <3>2 DEF ChildUsr, ReachesMaster
  <2> QED BY <1>12, <2>4, <2>5, <2>6, <2>7
<1> QED BY <1>1, <1>2, <1>3, <1>4, <1>5, <1>6, <1>7, <1>8, <1>9, <1>10, <1>11, <1>12
        DEF Next, MasterStep, Handler

(***************************************************************************)
(* The master never has more live children than -F and the stops and       *)
(* continues SignalChildren took for deaths, for any number of deaths and  *)
(* any merging of their SIGCHLDs: each fork of MasterCycle is paid for by  *)
(* a death, a stop or a continue that no other fork has answered.          *)
(***************************************************************************)
THEOREM AtMostConfiguredTheorem == Spec => []AtMostConfigured
<1>1. CountInv => AtMostConfigured
  BY DEF CountInv, AtMostConfigured
<1> QED BY <1>1, InitTypeOK, NextTypeOK, InitCount, NextCount, PTL DEF Spec
-----------------------------------------------------------------------------
(***************************************************************************)
(* Who has been told to quit                                               *)
(***************************************************************************)
LEMMA InitTell == Init => TellInv
<1> SUFFICES ASSUME Init PROVE TellInv
  OBVIOUS
<1>1. Alive = {}
  BY DEF Init, Alive
<1> QED BY <1>1 DEF Init, TellInv

\* A step that forks nobody and does not set quit_.
LEMMA TellKeep ==
  ASSUME TellInv, Alive' \subseteq Alive, told \subseteq told', UNCHANGED <<child, quit_>>,
         children_ \subseteq children_',
         mpc' # "exited" => mpc # "exited" /\ InFork \subseteq InFork' \cup children_',
         mpc' \in {"spawn", "spawned"} => quit_ = 0,
         quit_ = 1 /\ mpc' \in {"pause", "paused", "check"} => mpc \in {"pause", "paused", "check"}
  PROVE  TellInv'
<1>1. mpc' # "exited" => Failed \in children_' \/ Alive' \subseteq children_' \cup InFork'
  BY DEF TellInv
<1>2. mpc' \in {"spawn", "spawned"} => quit_' = 0
  OBVIOUS
<1>3. quit_' = 1 /\ mpc' \in {"pause", "paused", "check"} => Alive' \subseteq told'
  BY DEF TellInv
<1>4. quit_' = 1 => Alive' \ told' \subseteq {child'}
  BY DEF TellInv
<1> QED BY <1>1, <1>2, <1>3, <1>4 DEF TellInv

\* kill reaches everyone that the master knows of.
LEMMA KillReaches ==
  ASSUME TellInv, mpc # "exited"
  PROVE  Alive \subseteq KillChildren(children_, Failed) \cup InFork
<1>1. CASE Failed \in children_
  BY <1>1, AliveFinite, PidsFacts DEF KillChildren
<1>2. CASE Failed \notin children_
  BY <1>2 DEF KillChildren, TellInv
<1> QED BY <1>1, <1>2

LEMMA TellTerminate ==
  ASSUME TypeOK, TellInv, SignalTerminate
  PROVE  TellInv'
<1>1. /\ Installed /\ told' = told \cup KillChildren(children_, Failed)
      /\ UNCHANGED <<child, children_, kid>>
      /\ mpc' = IF mpc = "paused" THEN "check" ELSE mpc
  BY DEF SignalTerminate, WakeUp
<1>2. mpc \notin {"spawn", "spawned", "exited"} /\ mpc' \notin {"spawn", "spawned", "exited"}
  BY <1>1 DEF Installed
<1>3. UNCHANGED <<Alive, InFork>>
  BY <1>1, <1>2 DEF Alive, InFork
<1>4. Alive \subseteq KillChildren(children_, Failed) \cup InFork
  BY <1>2, KillReaches
<1>5. mpc' \in {"pause", "paused", "check"} => InFork = {}
  BY <1>1 DEF InFork
<1>6. InFork \subseteq {child}
  BY DEF InFork
<1>7. Failed \in children_' \/ Alive' \subseteq children_' \cup InFork'
  BY <1>1, <1>2, <1>3 DEF TellInv
<1>8. mpc' \in {"pause", "paused", "check"} => Alive' \subseteq told'
  BY <1>1, <1>3, <1>4, <1>5
<1>9. Alive' \ told' \subseteq {child'}
  BY <1>1, <1>3, <1>4, <1>6
<1> QED BY <1>2, <1>7, <1>8, <1>9 DEF TellInv

LEMMA TellFork ==
  ASSUME TypeOK, TellInv, NEW state \in {"forked", "starting"}, NEW known,
         ForkKid(state, known), UNCHANGED <<children_, quit_, told>>,
         \/ mpc = "spawn" /\ mpc' = "spawned"
         \/ mpc = "check" /\ mpc' = "wait"
  PROVE  TellInv'
<1>1. Alive' = Alive \/ Alive' = Alive \cup {child'}
  BY ForkAlive
<1>2. InFork = {} /\ InFork' = {child'}
  BY DEF InFork
<1>3. quit_ = 1 => Alive \subseteq told
  BY DEF TellInv
<1>4. Failed \in children_' \/ Alive' \subseteq children_' \cup InFork'
  BY <1>1, <1>2 DEF TellInv
<1>5. quit_' = 1 => Alive' \ told' \subseteq {child'}
  BY <1>1, <1>3
<1> QED BY <1>4, <1>5 DEF TellInv

LEMMA NextTell == TypeOK /\ TellInv /\ [Next]_vars => TellInv'
<1> SUFFICES ASSUME TypeOK, TellInv, [Next]_vars PROVE TellInv'
  OBVIOUS
<1>0. mpc \in {"spawn", "spawned"} => quit_ = 0
  BY DEF TellInv
<1>1. CASE UNCHANGED vars
  <2>1. UNCHANGED <<mpc, child, children_, quit_, told, kid>>
    BY <1>1 DEF vars, master, kidvars
  <2>2. UNCHANGED <<Alive, InFork>>
    BY <2>1 DEF Alive, InFork
  <2> QED BY <1>0, <2>1, <2>2, TellKeep
<1>2. CASE Spawn
  BY <1>2, TellFork DEF Spawn
<1>3. CASE Spawned
  <2>1. /\ mpc = "spawned" /\ mpc' = "spawn" /\ WaitKid /\ children_' = children_ \cup {child}
        /\ UNCHANGED <<child, quit_, told>>
    BY <1>3 DEF Spawned
  <2>2. InFork \subseteq children_'
    BY <2>1 DEF InFork
  <2> QED BY <1>0, <2>1, <2>2, WaitAlive, TellKeep
<1>4. CASE Install \/ Pause \/ Reset \/ CheckQuit
  <2>1. /\ mpc \in {"spawn", "pause", "reset", "quit"}
        /\ mpc' \in {"pause", "paused", "quit", "exited"}
        /\ UNCHANGED <<child, children_, quit_, told, kid>>
    BY <1>4 DEF Install, Pause, Reset, CheckQuit, kidvars
  <2>2. UNCHANGED Alive /\ InFork = {}
    BY <2>1 DEF Alive, InFork
  <2>3. quit_ = 1 /\ mpc' \in {"pause", "paused", "check"} => mpc \in {"pause", "paused", "check"}
    BY <1>0, <1>4 DEF Install, Pause, Reset, CheckQuit
  <2> QED BY <2>1, <2>2, <2>3, TellKeep
<1>5. CASE Push
  <2>1. /\ mpc = "push" /\ mpc' = "reset" /\ children_' = children_ \cup {child}
        /\ UNCHANGED <<child, quit_, told, kid>>
    BY <1>5 DEF Push, kidvars
  <2>2. UNCHANGED Alive /\ InFork \subseteq children_'
    BY <2>1 DEF Alive, InFork
  <2> QED BY <2>1, <2>2, TellKeep
<1>6. CASE CheckFork
  <2>1. mpc = "check" /\ UNCHANGED <<children_, quit_, told>>
    BY <1>6 DEF CheckFork
  <2>2. CASE ForkKid("starting", children_) /\ mpc' = "wait"
    BY <2>1, <2>2, TellFork
  <2>3. CASE mpc' = "quit" /\ UNCHANGED <<child, kid, kids_known>>
    <3>1. UNCHANGED Alive /\ InFork = {}
      BY <2>1, <2>3 DEF Alive, InFork
    <3> QED BY <2>1, <2>3, <3>1, TellKeep
  <2> QED BY <1>6, <2>2, <2>3 DEF CheckFork
<1>7. CASE Wait
  <2>1. /\ mpc = "wait" /\ mpc' = "push" /\ WaitKid
        /\ UNCHANGED <<child, children_, quit_, told>>
    BY <1>7 DEF Wait
  <2>2. InFork = InFork'
    BY <2>1 DEF InFork
  <2> QED BY <2>1, <2>2, WaitAlive, TellKeep
<1>8. CASE SignalChildren \/ SignalReopen \/ SignalUpdate
  <2>1. /\ mpc' = IF mpc = "paused" THEN "check" ELSE mpc
        /\ UNCHANGED <<child, children_, quit_, told>>
    BY <1>8 DEF SignalChildren, SignalReopen, SignalUpdate, WakeUp
  <2>2. Alive' = Alive
    BY <1>8 DEF SignalChildren, SignalReopen, SignalUpdate, Alive, TypeOK, kidvars
  <2>3. InFork = InFork'
    BY <2>1 DEF InFork
  <2>4. mpc' \in {"spawn", "spawned"} => quit_ = 0
    BY <1>0, <2>1
  <2> QED BY <2>1, <2>2, <2>3, <2>4, TellKeep
<1>9. CASE SignalTerminate
  BY <1>9, TellTerminate
<1>10. ASSUME NEW sig \in {"INT", "USR1"}, Send(sig) PROVE TellInv'
  <2>1. mpc' \in {mpc, "exited"} /\ UNCHANGED <<child, children_, quit_, told, kid>>
    BY <1>10 DEF Send, kidvars
  <2>2. UNCHANGED Alive
    BY <2>1 DEF Alive
  <2>3. CASE mpc' = "exited"
    BY <2>1, <2>2, <2>3, TellKeep
  <2>4. CASE mpc' = mpc
    <3>1. InFork' = InFork
      BY <2>1, <2>4 DEF InFork
    <3> QED BY <1>0, <2>1, <2>2, <2>4, <3>1, TellKeep
  <2> QED BY <2>1, <2>3, <2>4
<1>11. ASSUME NEW k \in Pids,
              \/ Crash(k) \/ StopOrContinue(k) \/ FastcgiMain(k) \/ ChildInt(k) \/ ChildUsr(k)
              \/ Serve(k)
       PROVE  TellInv'
  <2>1. UNCHANGED <<mpc, child, children_, quit_>> /\ told \subseteq told'
    BY <1>11 DEF Crash, StopOrContinue, FastcgiMain, ChildInt, ChildUsr, Serve, master
  <2>2. Alive' \subseteq Alive
    <3>1. CASE Dies(k) /\ k \in Alive
      BY <3>1, DiesAlive
    <3>2. CASE FastcgiMain(k)
      BY <3>2 DEF FastcgiMain, Alive, TypeOK
    <3>3. CASE UNCHANGED kid
      BY <3>3 DEF Alive
    <3> QED BY <1>11, <3>1, <3>2, <3>3 DEF Crash, StopOrContinue, kidvars, ChildInt, ChildUsr, Serve, Alive
  <2>3. InFork' = InFork
    BY <2>1 DEF InFork
  <2> QED BY <1>0, <2>1, <2>2, <2>3, TellKeep
<1> QED BY <1>1, <1>2, <1>3, <1>4, <1>5, <1>6, <1>7, <1>8, <1>9, <1>10, <1>11
        DEF Next, MasterStep, Handler

(***************************************************************************)
(* A master that quits on SIGINT leaves at most one live child that was    *)
(* not told, whatever died, was forked again or was sent meanwhile.        *)
(***************************************************************************)
THEOREM AtMostOneEscapesTheorem == Spec => []AtMostOneEscapes
<1>1. TellInv => AtMostOneEscapes
  <2> SUFFICES ASSUME TellInv, quit_ = 1 PROVE Cardinality(Alive \ told) <= 1
    BY DEF AtMostOneEscapes
  <2>1. Alive \ told \subseteq {child}
    BY DEF TellInv
  <2>2. IsFiniteSet({child}) /\ Cardinality({child}) = 1
    BY FS_Singleton
  <2> QED BY <2>1, <2>2, FS_Subset
<1> QED BY <1>1, InitTypeOK, NextTypeOK, InitTell, NextTell, PTL DEF Spec
==============================================================================
