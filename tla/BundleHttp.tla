------------------------------ MODULE BundleHttp ------------------------------
(***************************************************************************)
(* bundled: the actions of bundleaction.cc in the accept loop of cwf       *)
(* (frame.cc), composed with the bundle store.  Each thread takes a        *)
(* request, finds the action for its url and runs it; the write actions    *)
(* drive the thread's Writer.  What a client sees is the sequence of       *)
(* chunks put into the response.                                           *)
(***************************************************************************)
EXTENDS BundleStore, Sequences

CONSTANTS
  Posts,        \* requests that are sent: see Request
  MainOf,       \* the thread of each process that FastcgiMain runs itself
  Kills,        \* the processes that may be killed from outside
  MaxRequests,  \* bound: requests accepted
  MaxQuits      \* bound: SIGINT or SIGTERM sent to a process

\* The actions in the order of registration (Init of bundleaction.cc).
host_action_ == <<"WriteAction", "ReadAction", "WriteRedirectAction">>

\* A request: the actions whose Match accepts its url, whether it is a POST,
\* the sizes of the files in it, and the url for Reader::Read.
Request == [matches : SUBSET {"WriteAction", "ReadAction", "WriteRedirectAction"},
            post : BOOLEAN, files : Seq(Sizes), url : Url]

ASSUME HttpAssumption ==
  /\ Posts \subseteq Request
  /\ MainOf \in [Procs -> Threads] /\ \A p \in Procs : ProcOf[MainOf[p]] = p
  /\ Kills \subseteq Procs /\ MaxRequests \in Nat /\ MaxQuits \in Nat

VARIABLES
  hpc,       \* per thread: where it is in FastcgiProc
  req,       \* per thread: the request it serves
  file,      \* per thread: index of the file of the request that is next
  out,       \* per thread: the response so far
  quit_,     \* per process: set by SignalQuit
  requests, quits,  \* counters for the bounds
  answered   \* history: request and response of every one that was finished

web == <<hpc, req, file, out, quit_, requests, quits, answered>>
hvars == <<vars, web>>

-----------------------------------------------------------------------------
\* The chunks of a response; nl says whether a chunk ends its line.  "failed"
\* and the error number do not: the next chunk goes on on the same line.
Header(code) == [kind |-> "header", code |-> code, nl |-> TRUE]
Location(url, d) == [kind |-> "location", url |-> url, data |-> d, nl |-> TRUE]
UrlLine(url, d) == [kind |-> "url", url |-> url, data |-> d, nl |-> TRUE]
Fail == [kind |-> "failed", nl |-> FALSE]
Content(url) == [kind |-> "content", url |-> url, nl |-> FALSE]

Busy(t) == hpc[t] \notin {"accept", "stopped"}
NoRequest == [matches |-> {}, post |-> FALSE, files |-> <<>>,
              url |-> CHOOSE u \in {[prefix |-> x, id |-> 0, off |-> 0, size |-> 0] :
                                    x \in Prefixes} : TRUE]

HttpInit ==
  /\ Init
  /\ hpc = [t \in Threads |-> "accept"] /\ req = [t \in Threads |-> NoRequest]
  /\ file = [t \in Threads |-> 1] /\ out = [t \in Threads |-> <<>>]
  /\ quit_ = [p \in Procs |-> FALSE]
  /\ requests = 0 /\ quits = 0 /\ answered = {}

At(t, l) == hpc' = [hpc EXCEPT ![t] = l]
Say(t, chunks) == out' = [out EXCEPT ![t] = @ \o chunks]

(***************************************************************************)
(* FastcgiProc: FCGX_Accept_r and Request::Init.  A GET asks for one of    *)
(* the urls handed out so far, or for one that was not.                    *)
(***************************************************************************)
Gets == {[NoRequest EXCEPT !.matches = {"ReadAction"}, !.url = u] :
           u \in {a[1] : a \in acked} \cup {NoRequest.url}}

Accept(t) ==
  /\ hpc[t] = "accept" /\ requests < MaxRequests
  /\ requests' = requests + 1
  /\ \E q \in Posts \cup Gets : req' = [req EXCEPT ![t] = q]
  /\ file' = [file EXCEPT ![t] = 1] /\ out' = [out EXCEPT ![t] = <<>>]
  /\ At(t, "process")
  /\ UNCHANGED <<vars, quit_, quits, answered>>

\* FrameWork::Find: the first action registered whose Match holds.
Find(q) ==
  LET I == {i \in DOMAIN host_action_ : host_action_[i] \in q.matches}
  IN IF I = {} THEN "none"
     ELSE host_action_[CHOOSE i \in I : \A j \in I : i <= j]

Action(t) == Find(req[t])

\* WriteAction and WriteRedirectAction up to the first file: the wrong
\* method goes to ResponseError, WriteAction sends its header ahead.
StartWrite(t) ==
  \/ ~req[t].post /\ Say(t, <<Header(405)>>) /\ At(t, "done")
  \/ /\ req[t].post /\ Action(t) = "WriteAction"
     /\ Say(t, <<Header(200)>>) /\ At(t, "file")
  \/ req[t].post /\ Action(t) = "WriteRedirectAction" /\ At(t, "file") /\ UNCHANGED out

\* ReadAction sends a header for a url it cannot read, and then ResponseError
\* sends another.
Read(t) ==
  LET found == \E d \in 1 .. writes : Reads(req[t].url, d) IN
  /\ Say(t, IF found THEN <<Header(200), Content(req[t].url)>>
                     ELSE <<Header(404), Header(404)>>)
  /\ At(t, "done")

\* FrameWork::Process.
Process(t) ==
  /\ hpc[t] = "process"
  /\ \/ Action(t) = "none" /\ Say(t, <<Header(404)>>) /\ At(t, "done")
     \/ Action(t) \in {"WriteAction", "WriteRedirectAction"} /\ StartWrite(t)
     \/ Action(t) = "ReadAction" /\ Read(t)
  /\ UNCHANGED <<vars, req, file, quit_, requests, quits, answered>>

(***************************************************************************)
(* The loop over the files of WriteAction and WriteRedirectAction.         *)
(***************************************************************************)
\* Writer::Allocate for the next file, under today's prefix.
AllocateFile(t) ==
  /\ hpc[t] = "file" /\ file[t] <= Len(req[t].files)
  /\ \E x \in Prefixes : Allocate(t, x, req[t].files[file[t]])
  /\ At(t, "allocate")
  /\ UNCHANGED <<req, file, out, quit_, requests, quits, answered>>

Allocating(t) == hpc[t] = "allocate" /\ AllocateStep(t) /\ UNCHANGED web

\* Mutant: the url goes out whatever Write returned.
ReportAlways(t, ret) ==
  LET u == UrlOf(t, call[t].want)
      d == writes + 1
  IN IF Action(t) = "WriteAction"
     THEN Say(t, <<UrlLine(u, d)>>) /\ At(t, "delete")
     ELSE Say(t, <<Header(302), Location(u, d)>>) /\ At(t, "lose")

\* Mutant: WriteRedirectAction goes on to the next file.
ReportGoesOn(t, ret) ==
  LET u == UrlOf(t, call[t].want)
      d == writes + 1
  IN /\ At(t, "delete")
     /\ Say(t, IF ret # 0 THEN <<Fail>>
               ELSE IF Action(t) = "WriteAction" THEN <<UrlLine(u, d)>>
               ELSE <<Header(302), Location(u, d)>>)

\* What Write returned decides what the client is told.
Report(t, ret) ==
  LET u == UrlOf(t, call[t].want)
      d == writes + 1
  IN \/ ret # 0 /\ Say(t, <<Fail>>) /\ At(t, "delete")
     \/ /\ ret = 0 /\ Action(t) = "WriteAction"
        /\ Say(t, <<UrlLine(u, d)>>) /\ At(t, "delete")
     \/ /\ ret = 0 /\ Action(t) = "WriteRedirectAction"
        /\ Say(t, <<Header(302), Location(u, d)>>) /\ At(t, "lose")

WriteFile(t) ==
  /\ hpc[t] = "allocate"
  /\ Write(t)
  /\ Report(t, IF acked' = acked THEN 1 ELSE 0)
  /\ UNCHANGED <<req, file, quit_, requests, quits, answered>>

\* Mutant: the Writer of a file is not deleted.
DeleteForgets(t) ==
  /\ hpc[t] = "delete"
  /\ Lose(t)
  /\ file' = [file EXCEPT ![t] = @ + 1] /\ At(t, "file")
  /\ UNCHANGED <<req, out, quit_, requests, quits, answered>>

\* delete aw
Delete(t) ==
  /\ hpc[t] = "delete"
  /\ Release(t)
  /\ file' = [file EXCEPT ![t] = @ + 1] /\ At(t, "file")
  /\ UNCHANGED <<req, out, quit_, requests, quits, answered>>

\* "process only first file": WriteRedirectAction returns and aw is lost.
Redirected(t) ==
  /\ hpc[t] = "lose"
  /\ Lose(t)
  /\ At(t, "done")
  /\ UNCHANGED <<req, file, out, quit_, requests, quits, answered>>

NoMoreFiles(t) ==
  /\ hpc[t] = "file" /\ file[t] > Len(req[t].files)
  /\ At(t, "done")
  /\ UNCHANGED <<vars, req, file, out, quit_, requests, quits, answered>>

(***************************************************************************)
(* The end of a process p, and the one the master forks in its place: all  *)
(* its requests are gone.                                                  *)
(***************************************************************************)
Replaced(p) ==
  /\ Crash(p)
  /\ hpc' = [t \in Threads |-> IF ProcOf[t] = p THEN "accept" ELSE hpc[t]]
  /\ req' = [t \in Threads |-> IF ProcOf[t] = p THEN NoRequest ELSE req[t]]
  /\ file' = [t \in Threads |-> IF ProcOf[t] = p THEN 1 ELSE file[t]]
  /\ out' = [t \in Threads |-> IF ProcOf[t] = p THEN <<>> ELSE out[t]]
  /\ quit_' = [quit_ EXCEPT ![p] = FALSE]

\* Allocate returned NULL and aw->Write dereferences it.
NullWriter(t) ==
  /\ hpc[t] = "allocate" /\ pc[t] = "idle"
  /\ Replaced(ProcOf[t])
  /\ UNCHANGED <<requests, quits, answered>>

Killed(p) == p \in Kills /\ Replaced(p) /\ UNCHANGED <<requests, quits, answered>>

(***************************************************************************)
(* The end of a round of FastcgiProc.  A thread that finds quit_ set       *)
(* leaves the loop; when it is the main one, FastcgiMain returns and takes *)
(* the process with it: nothing joins the other threads.                   *)
(***************************************************************************)
Finish(t) ==
  LET p == ProcOf[t] IN
  /\ hpc[t] = "done"
  /\ answered' = answered \cup {<<req[t], out[t]>>}
  /\ \/ quit_[p] /\ t = MainOf[p] /\ Replaced(p)
     \/ quit_[p] /\ t # MainOf[p] /\ At(t, "stopped") /\ UNCHANGED <<vars, req, file, out, quit_>>
     \/ ~quit_[p] /\ At(t, "accept") /\ UNCHANGED <<vars, req, file, out, quit_>>
  /\ UNCHANGED <<requests, quits>>

\* Mutant: the exit(0) in a comment of SignalQuit.
SignalQuitExits(p) ==
  /\ quits < MaxQuits /\ quits' = quits + 1
  /\ Replaced(p)
  /\ UNCHANGED <<requests, answered>>

SignalQuit(p) ==
  /\ quits < MaxQuits /\ quits' = quits + 1
  /\ quit_' = [quit_ EXCEPT ![p] = TRUE]
  /\ UNCHANGED <<vars, hpc, req, file, out, requests, answered>>

-----------------------------------------------------------------------------
Round(t) ==
  \/ Process(t) \/ AllocateFile(t) \/ Allocating(t) \/ WriteFile(t) \/ Delete(t)
  \/ Redirected(t) \/ NoMoreFiles(t) \/ NullWriter(t) \/ Finish(t)

HttpNext ==
  \/ \E t \in Threads : Accept(t) \/ Round(t)
  \/ \E p \in Procs : SignalQuit(p) \/ Killed(p)

HttpSpec == HttpInit /\ [][HttpNext]_hvars
-----------------------------------------------------------------------------
(***************************************************************************)
(* A url that a client was sent, in the body or as the Location of a       *)
(* redirect, reads back the file it was sent for, whatever other requests, *)
(* failures and deaths of processes follow.                                *)
(***************************************************************************)
Told(s) == {k \in DOMAIN s : s[k].kind \in {"url", "location"}}

Responses == {out[t] : t \in Threads} \cup {a[2] : a \in answered}

UrlsReadable ==
  \A s \in Responses : \A k \in Told(s) : Reads(s[k].url, s[k].data)

(***************************************************************************)
(* The response to an upload accounts for its files one by one and in      *)
(* order.  WriteAction sends, after its header, a url and the end of the   *)
(* line for a file that was stored, and "failed" for one that was not,     *)
(* which leaves the line open: a url has a line of its own only if it is   *)
(* the first or the file before it was stored, and else stands behind the  *)
(* failures of the files before it.  The redirect has such failures, then, *)
(* on their line, the header and the Location of the first file stored.    *)
(***************************************************************************)
Accounts(c, n) == c = Fail \/ (c.kind \in {"url", "location"} /\ c.url.size = n /\ c.nl)

\* The chunk at k is the first on its line.
OwnLine(s, k) == s[k - 1].nl

InOrder(q, s) ==
  \/ /\ Find(q) = "WriteAction" /\ q.post
     /\ Len(s) = Len(q.files) + 1 /\ s[1] = Header(200)
     /\ \A i \in DOMAIN q.files : Accounts(s[i + 1], q.files[i]) /\ s[i + 1].kind # "location"
     /\ \A i \in DOMAIN q.files :
          s[i + 1].kind = "url" => (OwnLine(s, i + 1) <=> i = 1 \/ s[i].kind = "url")
  \/ /\ Find(q) = "WriteRedirectAction" /\ q.post
     /\ \/ /\ Len(s) = Len(q.files) /\ \A i \in DOMAIN s : s[i] = Fail
        \/ /\ Len(s) \in 2 .. Len(q.files) + 1
           /\ \A i \in 1 .. Len(s) - 2 : s[i] = Fail
           /\ s[Len(s) - 1] = Header(302)
           /\ s[Len(s)].kind = "location" /\ Accounts(s[Len(s)], q.files[Len(s) - 1])
  \/ Find(q) \in {"ReadAction", "none"} \/ ~q.post

AnswersInOrder == \A a \in answered : InOrder(a[1], a[2])

(***************************************************************************)
(* "writer->Release(); // or delete writer" (the example in bundle.h):     *)
(* between requests no thread holds a bundle, so every lock file is gone.  *)
(***************************************************************************)
LocksReturned == (\A t \in Threads : ~Busy(t)) => locks = {}

(***************************************************************************)
(* SIGINT and SIGTERM lose no request: what a thread has taken it answers, *)
(* unless Allocate returned NULL and the process died of it.               *)
(***************************************************************************)
NoRequestLost ==
  [][\A t \in Threads :
       Busy(t) /\ ~Busy(t)' => \/ <<req[t], out[t]>> \in answered'
                               \/ hpc[t] = "allocate" /\ pc[t] = "idle"]_hvars
=============================================================================
