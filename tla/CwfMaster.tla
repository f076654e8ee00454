------------------------------ MODULE CwfMaster ------------------------------
(***************************************************************************)
(* The process model of cwf (cwfmain.cc, frame.cc): a master forks -F      *)
(* children that accept requests on one socket, forks again when SIGCHLD   *)
(* tells of a death, and passes on SIGINT when it is told to quit and      *)
(* SIGUSR1 when it is told to reopen the log.  Signal handlers run between *)
(* any two steps of the master; a signal that is already pending is not    *)
(* queued again.                                                           *)
(***************************************************************************)
EXTENDS Naturals, FiniteSets

CONSTANTS
  Children,   \* -F: the number of children to fork
  MaxForks,   \* bound: processes ever forked
  MaxMishaps, \* bound: times a child dies of itself, is stopped or is continued
  MaxReopens, \* bound: SIGUSR1s that are sent to the master from outside
  ForkFails   \* whether fork() may fail: a subset of {TRUE}

ASSUME MasterAssumption ==
  /\ Children \in Nat \ {0} /\ MaxForks \in Nat /\ Children <= MaxForks
  /\ MaxMishaps \in Nat /\ MaxReopens \in Nat /\ ForkFails \subseteq {TRUE}

Pids == 1 .. MaxForks
Failed == 0  \* stands for the -1 that Fork returns

VARIABLES
  mpc,          \* the master's next step
  left,         \* main: children still to fork
  child,        \* what the last Fork returned
  children_,    \* pids the master has recorded, Failed among them after an error
  fork_count_, quit_,
  pending,      \* signals sent to the master and not yet handled
  kid,          \* per pid: its state
  kids_known,   \* per pid: children_ as copied by fork
  kid_int,      \* pids with a SIGINT on its way
  kid_usr,      \* pids with a SIGUSR1 on its way
  kid_quit,     \* pids whose own quit_ (frame.cc) is set
  deaths, reopens, stops,
  told          \* history: pids that were sent SIGINT

master == <<mpc, left, child, children_, fork_count_, quit_>>
kidvars == <<kid, kids_known, kid_int, kid_usr, kid_quit>>
vars == <<master, pending, kidvars, deaths, reopens, stops, told>>

-----------------------------------------------------------------------------
Alive == {k \in Pids : kid[k] \in {"forked", "starting", "serving"}}

\* The SIGCHLD and SIGINT handlers are installed when MasterCycle begins.
Installed == mpc \notin {"spawn", "spawned", "exited"}

Init ==
  /\ mpc = "spawn" /\ left = Children /\ child = Failed /\ children_ = {}
  /\ fork_count_ = 0 /\ quit_ = 0 /\ pending = {}
  /\ kid = [k \in Pids |-> "none"] /\ kids_known = [k \in Pids |-> {}]
  /\ kid_int = {} /\ kid_usr = {} /\ kid_quit = {} /\ deaths = 0 /\ reopens = 0
  /\ stops = 0 /\ told = {}

\* fork(): a child that starts with the handlers of the parent, and with its
\* children_, known, of which there are none before MasterCycle.
ForkKid(state, known) ==
  \/ \E k \in Pids :
       /\ kid[k] = "none" /\ \A j \in Pids : j < k => kid[j] # "none"
       /\ kid' = [kid EXCEPT ![k] = state]
       /\ kids_known' = [kids_known EXCEPT ![k] = known]
       /\ child' = k
  \/ TRUE \in ForkFails /\ child' = Failed /\ UNCHANGED <<kid, kids_known>>

\* waitpid(child, WNOHANG), after the pause of 100 ms.
WaitKid ==
  kid' = IF child # Failed /\ kid[child] = "zombie"
         THEN [kid EXCEPT ![child] = "reaped"] ELSE kid

(***************************************************************************)
(* main: the first children, before any handler is installed.              *)
(***************************************************************************)
Spawn ==
  /\ mpc = "spawn" /\ left > 0
  /\ ForkKid("forked", {})
  /\ mpc' = "spawned"
  /\ UNCHANGED <<left, children_, fork_count_, quit_, pending, kid_int, kid_usr, kid_quit,
                 deaths, reopens, stops, told>>

Spawned ==
  /\ mpc = "spawned"
  /\ WaitKid
  /\ children_' = children_ \cup {child}
  /\ left' = left - 1
  /\ mpc' = "spawn"
  /\ UNCHANGED <<child, fork_count_, quit_, pending, kids_known, kid_int, kid_usr, kid_quit,
                 deaths, reopens, stops, told>>

Install ==
  /\ mpc = "spawn" /\ left = 0
  /\ mpc' = "pause"
  /\ UNCHANGED <<left, child, children_, fork_count_, quit_, pending, kidvars,
                 deaths, reopens, stops, told>>

(***************************************************************************)
(* MasterCycle                                                             *)
(***************************************************************************)
Pause ==
  /\ mpc = "pause"
  /\ mpc' = "paused"
  /\ UNCHANGED <<left, child, children_, fork_count_, quit_, pending, kidvars,
                 deaths, reopens, stops, told>>

\* if (fork_count_) Fork(...)
CheckFork ==
  /\ mpc = "check"
  /\ \/ fork_count_ # 0 /\ ForkKid("starting", children_) /\ mpc' = "wait"
     \/ fork_count_ = 0 /\ mpc' = "quit" /\ UNCHANGED <<child, kid, kids_known>>
  /\ UNCHANGED <<left, children_, fork_count_, quit_, pending, kid_int, kid_usr, kid_quit,
                 deaths, reopens, stops, told>>

Wait ==
  /\ mpc = "wait"
  /\ WaitKid
  /\ mpc' = "push"
  /\ UNCHANGED <<left, child, children_, fork_count_, quit_, pending, kids_known,
                 kid_int, kid_usr, kid_quit,
                 deaths, reopens, stops, told>>

\* Mutant: a child forked again is not recorded.
PushForgets ==
  /\ mpc = "push"
  /\ mpc' = "reset"
  /\ UNCHANGED <<left, child, children_, fork_count_, quit_, pending, kidvars,
                 deaths, reopens, stops, told>>

\* children_->push_back(child)
Push ==
  /\ mpc = "push"
  /\ children_' = children_ \cup {child}
  /\ mpc' = "reset"
  /\ UNCHANGED <<left, child, fork_count_, quit_, pending, kidvars,
                 deaths, reopens, stops, told>>

\* Mutant: fork_count_ keeps its value after the fork.
ResetForgets ==
  /\ mpc = "reset"
  /\ mpc' = "quit"
  /\ UNCHANGED <<left, child, children_, fork_count_, quit_, pending, kidvars,
                 deaths, reopens, stops, told>>

\* fork_count_ = 0
Reset ==
  /\ mpc = "reset"
  /\ fork_count_' = 0
  /\ mpc' = "quit"
  /\ UNCHANGED <<left, child, children_, quit_, pending, kidvars,
                 deaths, reopens, stops, told>>

\* if (quit_) break
CheckQuit ==
  /\ mpc = "quit"
  /\ IF quit_ # 0 THEN mpc' = "exited" /\ pending' = {}
                   ELSE mpc' = "pause" /\ UNCHANGED pending
  /\ UNCHANGED <<left, child, children_, fork_count_, quit_, kidvars,
                 deaths, reopens, stops, told>>
-----------------------------------------------------------------------------
(***************************************************************************)
(* Signals.  pause() returns only when a handler ran while it slept.       *)
(***************************************************************************)
WakeUp == mpc' = IF mpc = "paused" THEN "check" ELSE mpc

\* Mutant: one waitpid for one SIGCHLD.
SignalChildrenOnce ==
  /\ Installed /\ "CHLD" \in pending
  /\ pending' = pending \ {"CHLD"}
  /\ fork_count_' = 1
  /\ LET z == {k \in Pids : kid[k] = "zombie"} IN
     IF z = {} THEN UNCHANGED kid ELSE \E k \in z : kid' = [kid EXCEPT ![k] = "reaped"]
  /\ WakeUp
  /\ UNCHANGED <<left, child, children_, quit_, kids_known, kid_int, kid_usr, kid_quit,
                 deaths, reopens, stops, told>>

\* SignalChildren reaps whoever is dead, and asks for one fork, dead or not.
SignalChildren ==
  /\ Installed /\ "CHLD" \in pending
  /\ pending' = pending \ {"CHLD"}
  /\ fork_count_' = 1
  /\ kid' = [k \in Pids |-> IF kid[k] = "zombie" THEN "reaped" ELSE kid[k]]
  /\ WakeUp
  /\ UNCHANGED <<left, child, children_, quit_, kids_known, kid_int, kid_usr, kid_quit,
                 deaths, reopens, stops, told>>

(***************************************************************************)
(* KillChildren with the pids in ps, called by process k (Failed stands    *)
(* for the master here): the children that get the signal, and whether the *)
(* master does.  kill(-1) reaches every process but the caller.            *)
(***************************************************************************)
\* Mutant: kill(0), which signals the whole process group.
KillChildrenGroup(ps, k) == Alive \ {k}

KillChildren(ps, k) == IF Failed \in ps THEN Alive \ {k} ELSE ps \cap Alive
ReachesMaster(ps, sig) ==
  pending' = IF Failed \in ps /\ mpc # "exited" THEN pending \cup {sig} ELSE pending

\* Mutant: the handler passes the signal on but does not set quit_.
SignalTerminateForgets ==
  /\ Installed /\ "INT" \in pending
  /\ pending' = pending \ {"INT"}
  /\ kid_int' = kid_int \cup KillChildren(children_, Failed)
  /\ told' = told \cup KillChildren(children_, Failed)
  /\ WakeUp
  /\ UNCHANGED <<left, child, children_, fork_count_, quit_, kid, kids_known, kid_usr,
                 kid_quit, deaths, reopens, stops>>

SignalTerminate ==
  /\ Installed /\ "INT" \in pending
  /\ pending' = pending \ {"INT"}
  /\ quit_' = 1
  /\ kid_int' = kid_int \cup KillChildren(children_, Failed)
  /\ told' = told \cup KillChildren(children_, Failed)
  /\ WakeUp
  /\ UNCHANGED <<left, child, children_, fork_count_, kid, kids_known, kid_usr, kid_quit,
                 deaths, reopens, stops>>

SignalReopen ==
  /\ Installed /\ "USR1" \in pending
  /\ pending' = pending \ {"USR1"}
  /\ kid_usr' = kid_usr \cup KillChildren(children_, Failed)
  /\ WakeUp
  /\ UNCHANGED <<left, child, children_, fork_count_, quit_, kid, kids_known, kid_int,
                 kid_quit, deaths, reopens, stops, told>>

\* SIGUSR2 is sent and handled: the handler is empty, but pause() returns.
SignalUpdate ==
  /\ Installed
  /\ WakeUp
  /\ UNCHANGED <<left, child, children_, fork_count_, quit_, pending, kidvars, deaths,
                 reopens, stops, told>>

\* SIGINT (or SIGTERM) or SIGUSR1 to the master from outside; before the
\* handlers are installed each of them is fatal.
Send(sig) ==
  /\ mpc # "exited" /\ sig \notin pending
  /\ IF sig = "USR1" THEN reopens < MaxReopens /\ reopens' = reopens + 1 ELSE UNCHANGED reopens
  /\ IF Installed THEN pending' = pending \cup {sig} /\ UNCHANGED mpc
                  ELSE mpc' = "exited" /\ UNCHANGED pending
  /\ UNCHANGED <<left, child, children_, fork_count_, quit_, kidvars, deaths, stops, told>>
-----------------------------------------------------------------------------
(***************************************************************************)
(* Children                                                                *)
(***************************************************************************)
\* The end of a child: SIGCHLD is ignored until its handler is installed.
Dies(k) ==
  /\ kid' = [kid EXCEPT ![k] = IF mpc = "exited" THEN "reaped" ELSE "zombie"]
  /\ kid_int' = kid_int \ {k} /\ kid_usr' = kid_usr \ {k} /\ kid_quit' = kid_quit \ {k}
  /\ pending' = IF Installed THEN pending \cup {"CHLD"} ELSE pending

Crash(k) ==
  /\ k \in Alive /\ deaths + stops < MaxMishaps
  /\ deaths' = deaths + 1
  /\ Dies(k)
  /\ UNCHANGED <<master, kids_known, reopens, stops, told>>

\* A child is stopped or continued: SIGCHLD is sent as for a death, since
\* signal() in InstallSignal does not set SA_NOCLDSTOP (one that is pending
\* already is not queued again).  In between the child is only slow.
StopOrContinue(k) ==
  /\ k \in Alive /\ Installed /\ "CHLD" \notin pending /\ deaths + stops < MaxMishaps
  /\ stops' = stops + 1
  /\ pending' = pending \cup {"CHLD"}
  /\ UNCHANGED <<master, kidvars, deaths, reopens, told>>

\* FastcgiMain installs SignalQuit.
FastcgiMain(k) ==
  /\ kid[k] \in {"forked", "starting"}
  /\ kid' = [kid EXCEPT ![k] = "serving"]
  /\ UNCHANGED <<master, pending, kids_known, kid_int, kid_usr, kid_quit, deaths, reopens, stops, told>>

(***************************************************************************)
(* SIGINT at a child: SignalQuit once it serves; before that, what fork    *)
(* left in place: the default action for the first children, for the later *)
(* ones the master's SignalTerminate, on the child's copy of children_.    *)
(***************************************************************************)
ChildInt(k) ==
  /\ k \in kid_int
  /\ \/ /\ kid[k] = "serving"
        /\ kid_quit' = kid_quit \cup {k} /\ kid_int' = kid_int \ {k}
        /\ UNCHANGED <<kid, kid_usr, pending, told>>
     \/ kid[k] = "forked" /\ Dies(k) /\ UNCHANGED told
     \/ /\ kid[k] = "starting"
        /\ kid_int' = (kid_int \ {k}) \cup KillChildren(kids_known[k], k)
        /\ told' = told \cup KillChildren(kids_known[k], k)
        /\ ReachesMaster(kids_known[k], "INT")
        /\ UNCHANGED <<kid, kid_usr, kid_quit>>
  /\ UNCHANGED <<master, kids_known, deaths, reopens, stops>>

(***************************************************************************)
(* SIGUSR1 at a child: SignalReopen, which is the master's and passes the  *)
(* signal on to the child's copy of children_; one of the first children   *)
(* that has yet to install it is killed.                                   *)
(***************************************************************************)
ChildUsr(k) ==
  /\ k \in kid_usr
  /\ \/ /\ kid_usr' = (kid_usr \ {k}) \cup KillChildren(kids_known[k], k)
        /\ ReachesMaster(kids_known[k], "USR1")
        /\ UNCHANGED <<kid, kid_int, kid_quit>>
     \/ kid[k] = "forked" /\ Dies(k)
  /\ UNCHANGED <<master, kids_known, deaths, reopens, stops, told>>

\* FastcgiProc: a request is served, and quit_ is looked at only then.
Serve(k) ==
  /\ kid[k] = "serving" /\ k \in kid_quit
  /\ Dies(k)
  /\ UNCHANGED <<master, kids_known, deaths, reopens, stops, told>>
-----------------------------------------------------------------------------
MasterStep ==
  \/ Spawn \/ Spawned \/ Install \/ Pause \/ CheckFork \/ Wait \/ Push \/ Reset \/ CheckQuit

Handler == SignalChildren \/ SignalTerminate \/ SignalReopen \/ SignalUpdate

Next ==
  \/ MasterStep \/ Handler \/ \E sig \in {"INT", "USR1"} : Send(sig)
  \/ \E k \in Pids :
       \/ Crash(k) \/ StopOrContinue(k) \/ FastcgiMain(k) \/ ChildInt(k) \/ ChildUsr(k)
       \/ Serve(k)

Spec == Init /\ [][Next]_vars

\* The kernel runs every process, delivers to the master every signal and lets
\* a child go on by one step or another; requests keep coming to a child that
\* serves.
FairSpec ==
  /\ Spec
  /\ WF_vars(MasterStep)
  /\ WF_vars(SignalChildren) /\ WF_vars(SignalTerminate) /\ WF_vars(SignalReopen)
  /\ \A k \in Pids : WF_vars(FastcgiMain(k) \/ ChildInt(k) \/ ChildUsr(k) \/ Serve(k))
-----------------------------------------------------------------------------
(***************************************************************************)
(* Respawning overshoots -F only by children that were stopped or          *)
(* continued, one for each time, since SignalChildren takes that for a     *)
(* death.  However deaths, handlers and the 100 ms wait in Fork            *)
(* interleave, any other fork follows a death of its own.                  *)
(***************************************************************************)
AtMostConfigured == Cardinality(Alive) <= Children + stops

(***************************************************************************)
(* When the master has quit on its own, at most one live child was never   *)
(* sent SIGINT: the one that was between fork() and push_back.             *)
(***************************************************************************)
AtMostOneEscapes ==
  mpc = "exited" /\ quit_ = 1 => Cardinality(Alive \ told) <= 1

(***************************************************************************)
(* A dead child that the master has been notified of is reaped, whatever   *)
(* other deaths SIGCHLD has merged with it, unless the master exits.       *)
(***************************************************************************)
ZombiesReaped ==
  \A k \in Pids :
    kid[k] = "zombie" /\ "CHLD" \in pending ~> kid[k] = "reaped" \/ mpc = "exited"

(***************************************************************************)
(* A master that is sent SIGINT again and again exits: one that is handled *)
(* just before pause() does not wake it, but the next one does.            *)
(***************************************************************************)
MasterQuits == []<>("INT" \in pending) => <>(mpc = "exited")

(***************************************************************************)
(* Children that were forked again pass SIGUSR1 on to the children they    *)
(* know of, which may pass it on in turn.  Yet a reopen comes to an end,   *)
(* as each knows only of older ones, unless a fork has failed: then        *)
(* kill(-1) sends it back to the master and round again.                   *)
(***************************************************************************)
ReopenEnds ==
  [](Failed \notin children_) => []<>("USR1" \notin pending /\ kid_usr = {})
=============================================================================
