----------------------------- MODULE MooseMaster -----------------------------
(***************************************************************************)
(* moose::MasterServer (mooseclient/moose.cc): one client process and its  *)
(* connection to the MooseFS master.  A command is written and its answer  *)
(* read by SendAndReceive, which reconnects, registers again and repeats   *)
(* the command when the connection has been lost.  The release build is    *)
(* modelled: ASSERT is empty.                                              *)
(*                                                                         *)
(* The master is external.  It serves one request at a time, and nothing   *)
(* that reached a connection is carried out once that connection is down.  *)
(***************************************************************************)
EXTENDS MooseCommands, Naturals, Sequences, FiniteSets

CONSTANTS
  SendRetries,     \* retry of SendAndReceive, 3 in the code
  ConnectRetries,  \* retry of EnsureConnect, 10 in the code
  MaxCalls,        \* bound: commands
  MaxTroubles      \* bound: connections lost or refused, sessions forgotten, NOPs

VARIABLES
  master_socket,   \* master_socket_ is set
  session_id,      \* session_id_, 0 at first
  hostaddr,        \* hostaddr_ is set
  registered,      \* last_registered_ is set
  pc, back,        \* next step; where EnsureConnect or Connect returns to
  retry, tries,    \* the counters of SendAndReceive and of EnsureConnect
  req,             \* the command of the call
  buf,             \* "request", or "garbled" once an answer was read into it
  result,          \* what the last command returned
  fds,             \* sockets of this process that are open
  conn,            \* the connection made last, as the two ends see it
  names, sessions, \* the master's state
  runs, st,        \* history: times this command was carried out, last status
  lost,            \* history: new sessions whose answer was not received
  forgets,         \* history: sessions that the master forgot
  calls, troubles

client == <<master_socket, session_id, hostaddr, registered, pc, back, retry, tries,
            req, buf, result, fds>>
master == <<names, sessions, runs, st>>
bounds == <<calls, troubles>>
vars == <<client, conn, master, lost, forgets, bounds>>

\* in holds what the client wrote and the master has not served yet, out what
\* the master wrote; Cut is a part of a message after which all is lost.
NoConn == [up |-> FALSE, session |-> 0, in |-> NoMessage, out |-> <<>>]
Answer(c, s) == [cmd |-> c, value |-> s]
NOP == [cmd |-> "NOP"]
Cut == [cmd |-> "cut"]
Garbled == [cmd |-> "garbled"]

Init ==
  /\ master_socket = FALSE /\ session_id = 0 /\ hostaddr = FALSE /\ registered = FALSE
  /\ pc = "idle" /\ back = "idle" /\ retry = 0 /\ tries = 0
  /\ req = NoMessage /\ buf = "request" /\ result = "none" /\ fds = 0
  /\ conn = NoConn
  /\ names \in SUBSET Names /\ sessions = {} /\ runs = 0 /\ st = "none"
  /\ lost = 0 /\ forgets = 0
  /\ calls = 0 /\ troubles = 0

Trouble == troubles < MaxTroubles /\ troubles' = troubles + 1
-----------------------------------------------------------------------------
(***************************************************************************)
(* Connect and EnsureConnect                                               *)
(***************************************************************************)
\* Mutants: reconnecting asks for a new session; a failed Connect does not
\* close its socket.
BuildRegisterNew == [cmd |-> "NEWSESSION"]
CloseLeaks == UNCHANGED fds

\* A client that has had a session asks for that one.
BuildRegister ==
  IF session_id = 0 THEN [cmd |-> "NEWSESSION"]
  ELSE [cmd |-> "RECONNECT", session |-> session_id]

CloseSocket == fds' = fds - 1

\* The public Connect; in the code it is called while there is no socket.
Connect ==
  /\ pc = "idle" /\ ~master_socket
  /\ pc' = "connect" /\ back' = "idle"
  /\ UNCHANGED <<master_socket, session_id, hostaddr, registered, retry, tries,
                 req, buf, result, fds, conn, master, lost, forgets, bounds>>

\* EnsureConnect, called with l to come after it.
EnsureConnect(l) ==
  IF master_socket' \/ ~hostaddr
  THEN pc' = l /\ UNCHANGED <<back, tries>>
  ELSE pc' = "connect" /\ back' = l /\ tries' = ConnectRetries

\* Connect returns false: EnsureConnect sleeps and tries again.
ConnectFails ==
  IF back = "idle" THEN pc' = "idle" /\ UNCHANGED <<tries, registered>>
  ELSE IF tries > 0 THEN pc' = "connect" /\ tries' = tries - 1 /\ UNCHANGED registered
  ELSE pc' = back /\ registered' = TRUE /\ UNCHANGED tries

\* socket(), connect() and the write of the registration.
Dial ==
  /\ pc = "connect"
  /\ \/ /\ conn' = [NoConn EXCEPT !.up = TRUE, !.in = BuildRegister]
        /\ fds' = fds + 1 /\ pc' = "register"
        /\ UNCHANGED <<tries, registered, troubles>>
     \/ /\ Trouble /\ ConnectFails /\ UNCHANGED <<conn, fds>>
  /\ UNCHANGED <<master_socket, session_id, hostaddr, back, retry, req, buf, result,
                 master, lost, forgets, calls>>

\* ReadCommand: what comes of the connection, without the NOPs before it.
Skip == CHOOSE k \in 0 .. Len(conn.out) :
          /\ \A j \in 1 .. k : conn.out[j] = NOP
          /\ k < Len(conn.out) => conn.out[k + 1] # NOP
Arrived == Skip < Len(conn.out) /\ conn.out[Skip + 1] # Cut
Received == conn.out[Skip + 1]
Broken == ~conn.up /\ ~Arrived
Rest == SubSeq(conn.out, Skip + 2, Len(conn.out))

\* GotRegister keeps the session it has, whatever the answer says.
Register ==
  /\ pc = "register"
  /\ \/ /\ Arrived
        /\ session_id' = IF session_id = 0 THEN Received.value ELSE session_id
        /\ master_socket' = TRUE
        /\ hostaddr' = TRUE
        /\ registered' = (registered \/ (back # "idle" /\ tries # ConnectRetries))
        /\ conn' = [conn EXCEPT !.out = Rest]
        /\ pc' = back /\ tries' = 0
        /\ UNCHANGED <<fds, lost>>
     \/ /\ Broken
        /\ CloseSocket /\ ConnectFails
        /\ lost' = IF session_id = 0 /\ conn.session # 0 THEN lost + 1 ELSE lost
        /\ UNCHANGED <<session_id, master_socket, hostaddr, conn>>
  /\ UNCHANGED <<back, retry, req, buf, result, master, forgets, bounds>>
-----------------------------------------------------------------------------
(***************************************************************************)
(* SendAndReceive, and the commands that go through it                     *)
(***************************************************************************)
Call(r) ==
  /\ pc = "idle" /\ calls < MaxCalls
  /\ calls' = calls + 1
  /\ req' = r /\ buf' = "request" /\ retry' = SendRetries
  /\ UNCHANGED master_socket /\ EnsureConnect("send")
  /\ UNCHANGED <<session_id, hostaddr, registered, result, fds, conn, master,
                 lost, forgets, troubles>>

Lookup(n) == Call([cmd |-> "LOOKUP", name |-> n])
GetAttr(n) == Call([cmd |-> "GETATTR", name |-> n])
Truncate(n) == Call([cmd |-> "TRUNCATE", name |-> n])
Access(n) == Call([cmd |-> "ACCESS", name |-> n])
Open(n) == Call([cmd |-> "OPEN", name |-> n])
Mknod(n) == Call([cmd |-> "MKNOD", name |-> n])
Mkdir(n) == Call([cmd |-> "MKDIR", name |-> n])
Rmdir(n) == Call([cmd |-> "RMDIR", name |-> n])
Unlink(n) == Call([cmd |-> "UNLINK", name |-> n])
ReadChunk(n) == Call([cmd |-> "READ_CHUNK", name |-> n])
WriteChunk(n) == Call([cmd |-> "WRITE_CHUNK", name |-> n])
WriteChunkEnd(n) == Call([cmd |-> "WRITE_CHUNK_END", name |-> n])

Disconnect ==
  /\ master_socket' = FALSE
  /\ fds' = IF master_socket THEN fds - 1 ELSE fds

\* Mutant: the attempts are not counted.
AgainForever ==
  Disconnect /\ UNCHANGED <<retry, result>> /\ EnsureConnect("send")

\* The loop of SendAndReceive goes round, or gives up with NULL.
Again ==
  /\ Disconnect
  /\ IF retry > 0
     THEN retry' = retry - 1 /\ UNCHANGED result /\ EnsureConnect("send")
     ELSE UNCHANGED <<retry, result>> /\ EnsureConnect("give up")

\* write().  Access has left buf.used at 0, so that nothing is sent and 0 is
\* returned; a write to a connection that is down, or to descriptor 0 after
\* EnsureConnect has failed, goes on to the read.
Send ==
  /\ pc = "send"
  /\ \/ req.cmd = "ACCESS" /\ Again /\ UNCHANGED conn
     \/ /\ req.cmd # "ACCESS"
        /\ conn' = IF master_socket /\ conn.up
                   THEN [conn EXCEPT !.in = IF buf = "request" THEN req ELSE Garbled]
                   ELSE conn
        /\ pc' = "recv"
        /\ UNCHANGED <<master_socket, fds, retry, tries, back, result>>
  /\ UNCHANGED <<session_id, hostaddr, registered, req, buf, master, lost, forgets, bounds>>

\* The command returns ret: the locals die.
Return(ret) ==
  /\ result' = ret /\ pc' = "idle" /\ req' = NoMessage
  /\ buf' = "request" /\ retry' = 0 /\ tries' = 0 /\ back' = "idle"
  /\ runs' = 0 /\ st' = "none"

\* Mutant: an answer is taken for success.
OutcomeGood == "STATUS_OK"

\* What the method makes of an answer.
Outcome == IF Received.cmd = req.cmd THEN Returned(req, Received.value) ELSE "ERROR_IO"

\* ReadCommand reads into buf, the request that is sent again.
Recv ==
  /\ pc = "recv"
  /\ \/ /\ master_socket /\ Arrived
        /\ Return(Outcome)
        /\ conn' = [conn EXCEPT !.out = Rest]
        /\ UNCHANGED <<master_socket, fds>>
     \/ /\ ~master_socket \/ Broken
        /\ buf' \in IF ~master_socket \/ conn.out = <<>> THEN {buf}
                   ELSE IF conn.out = <<Cut>> THEN {buf, "garbled"} ELSE {"garbled"}
        /\ Again
        /\ UNCHANGED <<conn, req, runs, st>>
  /\ UNCHANGED <<session_id, hostaddr, registered, names, sessions, lost, forgets, bounds>>

GiveUp ==
  /\ pc = "give up" /\ Return("ERROR_IO")
  /\ UNCHANGED <<master_socket, session_id, hostaddr, registered, fds, conn,
                 names, sessions, lost, forgets, bounds>>
-----------------------------------------------------------------------------
(***************************************************************************)
(* The master                                                              *)
(***************************************************************************)
\* A client registers.  A session that the master does not know is refused.
ServeRegister ==
  /\ conn.up /\ conn.in.cmd \in {"NEWSESSION", "RECONNECT"}
  /\ LET s == IF conn.in.cmd = "NEWSESSION" THEN Cardinality(sessions) + forgets + 1
              ELSE IF conn.in.session \in sessions THEN conn.in.session ELSE 0
     IN /\ sessions' = IF conn.in.cmd = "NEWSESSION" THEN sessions \cup {s} ELSE sessions
        /\ conn' = [conn EXCEPT !.in = NoMessage, !.session = s,
                                !.out = Append(@, Answer("REGISTER", s))]
  /\ UNCHANGED <<client, names, runs, st, lost, forgets, bounds>>

\* A command is carried out for a client with a session; any other message
\* makes the master close the connection.
ServeCommand ==
  /\ conn.up /\ conn.in.cmd \in Cmds \cup {"garbled"}
  /\ IF conn.in # Garbled /\ conn.session \in sessions
     THEN /\ conn' = [conn EXCEPT !.in = NoMessage,
                        !.out = Append(@, Answer(conn.in.cmd, StatusOf(names, conn.in)))]
          /\ names' = NamesAfter(names, conn.in)
          /\ runs' = runs + 1 /\ st' = StatusOf(names, conn.in)
     ELSE conn' = [conn EXCEPT !.in = NoMessage, !.up = FALSE] /\ UNCHANGED <<names, runs, st>>
  /\ UNCHANGED <<client, sessions, lost, forgets, bounds>>

\* The connection goes down; a prefix of what was on its way still arrives.
Break ==
  /\ conn.up /\ Trouble
  /\ \E k \in 0 .. Len(conn.out), cut \in {<<>>, <<Cut>>} :
       /\ cut # <<>> => k < Len(conn.out)
       /\ conn' = [conn EXCEPT !.up = FALSE, !.in = NoMessage,
                               !.out = SubSeq(@, 1, k) \o cut]
  /\ UNCHANGED <<client, master, lost, forgets, calls>>

SendNop ==
  /\ conn.up /\ conn.session # 0 /\ Trouble
  /\ conn' = [conn EXCEPT !.out = Append(@, NOP)]
  /\ UNCHANGED <<client, master, lost, forgets, calls>>

\* A session expires while its client is away.
Forget ==
  /\ ~conn.up /\ Trouble /\ forgets' = forgets + 1
  /\ \E s \in sessions : sessions' = sessions \ {s}
  /\ UNCHANGED <<client, conn, names, runs, st, lost, calls>>
-----------------------------------------------------------------------------
Command(n) ==
  \/ Lookup(n) \/ GetAttr(n) \/ Truncate(n) \/ Access(n) \/ Open(n) \/ Mknod(n)
  \/ Mkdir(n) \/ Rmdir(n) \/ Unlink(n) \/ ReadChunk(n) \/ WriteChunk(n) \/ WriteChunkEnd(n)

ClientStep == Dial \/ Register \/ Send \/ Recv \/ GiveUp
Serve == ServeRegister \/ ServeCommand

Next ==
  \/ Connect \/ (\E n \in Names : Command(n)) \/ ClientStep
  \/ Serve \/ Break \/ SendNop \/ Forget

Spec == Init /\ [][Next]_vars

\* The process runs, and the master answers a connection that is up.
Fairness == WF_vars(ClientStep) /\ WF_vars(Serve)
FairSpec == Spec /\ Fairness
-----------------------------------------------------------------------------
(***************************************************************************)
(* SendAndReceive: however often the connection is lost, and whatever is   *)
(* left of an answer in the buffer, the command of a call is carried out   *)
(* at most once for each attempt and never after the call has returned,    *)
(* and the caller gets the outcome of its own last attempt, never the      *)
(* answer to an earlier one, or ERROR_IO.                                  *)
(***************************************************************************)
Promise == INSTANCE RemoteCall WITH
  Attempts <- SendRetries + 1,
  call <- IF req = NoMessage THEN [req |-> NoMessage, runs |-> 0, st |-> "none"]
          ELSE [req |-> req, runs |-> runs, st |-> st]

ImplementsRemoteCall == Promise!Spec

(***************************************************************************)
(* BuildRegister, GotRegister: a client makes one session for its life and *)
(* takes it up again at every reconnect; the master holds a second one     *)
(* only for a first registration whose answer was lost.                    *)
(***************************************************************************)
OneSession == Cardinality(sessions) + forgets <= lost + 1

(***************************************************************************)
(* Connect, Disconnect: through any row of failures the process keeps open *)
(* the socket in master_socket_, the one Connect is registering, no other. *)
(***************************************************************************)
SocketsAccountedFor ==
  fds = (IF master_socket THEN 1 ELSE 0) + (IF pc = "register" THEN 1 ELSE 0)

(***************************************************************************)
(* SendAndReceive, EnsureConnect: every command returns, as the retries    *)
(* are bounded, if the master answers what reaches it.                     *)
(***************************************************************************)
CommandsReturn == req # NoMessage ~> req = NoMessage
=============================================================================
