----------------------------- MODULE RemoteCall ------------------------------
(***************************************************************************)
(* What a method of moose::MasterServer promises its caller: the command   *)
(* is carried out at most Attempts times, only while the call lasts, and   *)
(* the caller is told what the last of them came to or ERROR_IO.           *)
(***************************************************************************)
EXTENDS MooseCommands, Naturals

CONSTANTS Attempts

VARIABLES
  names,   \* names that exist at the master
  call,    \* the call in progress: its request, the times it was carried
           \* out and the status of the last time; NoCall between calls
  result   \* what the last call returned

NoCall == [req |-> NoMessage, runs |-> 0, st |-> "none"]

Init == names \in SUBSET Names /\ call = NoCall /\ result = "none"

Begin(r) ==
  /\ call = NoCall
  /\ call' = [req |-> r, runs |-> 0, st |-> "none"]
  /\ UNCHANGED <<names, result>>

\* Some attempt reaches the master.
Run ==
  /\ call # NoCall /\ call.runs < Attempts
  /\ call' = [call EXCEPT !.runs = @ + 1, !.st = StatusOf(names, call.req)]
  /\ names' = NamesAfter(names, call.req)
  /\ UNCHANGED result

Return ==
  /\ call # NoCall
  /\ \/ result' = "ERROR_IO"
     \/ call.runs > 0 /\ result' = Returned(call.req, call.st)
  /\ call' = NoCall
  /\ UNCHANGED names

Next ==
  \/ \E r \in Request : Begin(r)
  \/ Run
  \/ Return

Spec == Init /\ [][Next]_<<names, call, result>>
=============================================================================
