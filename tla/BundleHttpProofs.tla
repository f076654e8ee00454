--------------------------- MODULE BundleHttpProofs ---------------------------
(***************************************************************************)
(* bundled uses the store only through the operations of Writer, so what   *)
(* is proved of the store carries over to the composition, and from there  *)
(* to the responses: a url that a client was sent can be read.             *)
(***************************************************************************)
EXTENDS BundleHttp, BundleStoreProofs

\* The files of the requests being served, and the next one.
ReqInv ==
  /\ DOMAIN req = Threads /\ file \in [Threads -> Nat \ {0}]
  /\ \A t \in Threads : req[t].files \in Seq(Sizes)

\* Every url in a response is that of a write in A, acked in what follows.
Vouched(c, A) == c.kind \in {"url", "location"} => <<c.url, c.data>> \in A
Backed(s, A) == \A k \in Told(s) : Vouched(s[k], A)

IsSeq(s) == \E S : s \in Seq(S)

OutInv ==
  /\ DOMAIN out = Threads
  /\ \A t \in Threads : IsSeq(out[t]) /\ Backed(out[t], acked)
  /\ \A a \in answered : Backed(a[2], acked)

-----------------------------------------------------------------------------
(***************************************************************************)
(* Every step of bundled is a step of the store, or leaves it alone.       *)
(***************************************************************************)
LEMMA ReplacedIsCrash ==
  ASSUME NEW p \in Procs, Replaced(p)
  PROVE  Next
BY DEF Replaced, Next

LEMMA StepSimulates ==
  ASSUME ReqInv, [HttpNext]_hvars
  PROVE  [Next]_vars
<1>1. \A t \in Threads : ProcOf[t] \in Procs
  BY StoreAssumption
<1>2. ASSUME NEW t \in Threads, Accept(t) \/ Process(t) \/ NoMoreFiles(t)
      PROVE  UNCHANGED vars
  BY <1>2 DEF Accept, Process, NoMoreFiles
<1>3. ASSUME NEW t \in Threads, AllocateFile(t)
      PROVE  Next
  <2>1. req[t].files[file[t]] \in Sizes
    BY <1>3 DEF AllocateFile, ReqInv
  <2> QED BY <1>3, <2>1 DEF AllocateFile, Next
<1>4. ASSUME NEW t \in Threads, Allocating(t) \/ WriteFile(t) \/ Delete(t) \/ Redirected(t)
      PROVE  Next
  BY <1>4 DEF Allocating, WriteFile, Delete, Redirected, Next
<1>5. ASSUME NEW t \in Threads, NullWriter(t) \/ Finish(t)
      PROVE  [Next]_vars
  BY <1>1, <1>5, ReplacedIsCrash DEF NullWriter, Finish
<1>6. ASSUME NEW p \in Procs, SignalQuit(p) \/ Killed(p)
      PROVE  [Next]_vars
  BY <1>6, ReplacedIsCrash DEF SignalQuit, Killed
<1>7. CASE UNCHANGED hvars
  BY <1>7 DEF hvars
<1> QED BY <1>2, <1>3, <1>4, <1>5, <1>6, <1>7 DEF HttpNext, Round

LEMMA NoRequestFiles == NoRequest.files = <<>>
BY DEF NoRequest

LEMMA GetsFiles == \A q \in Gets : q.files = <<>>
BY DEF Gets, NoRequest

LEMMA NextReqInv ==
  ASSUME ReqInv, [HttpNext]_hvars
  PROVE  ReqInv'
<1> <<>> \in Seq(Sizes)
  OBVIOUS
<1>1. ASSUME NEW t \in Threads, Accept(t)
      PROVE  ReqInv'
  <2>1. PICK q \in Posts \cup Gets : req' = [req EXCEPT ![t] = q]
    BY <1>1 DEF Accept
  <2>2. q.files \in Seq(Sizes)
    BY GetsFiles, HttpAssumption DEF Request
  <2> QED BY <1>1, <2>1, <2>2 DEF Accept, ReqInv
<1>2. ASSUME NEW p \in Procs, Replaced(p)
      PROVE  ReqInv'
  <2>1. DOMAIN req' = Threads /\ file' \in [Threads -> Nat \ {0}]
    BY <1>2 DEF Replaced, ReqInv
  <2>2. ASSUME NEW u \in Threads PROVE req'[u].files \in Seq(Sizes)
    <3>1. req'[u] = IF ProcOf[u] = p THEN NoRequest ELSE req[u]
      BY <1>2 DEF Replaced
    <3>2. CASE ProcOf[u] = p
      BY <3>1, <3>2, NoRequestFiles
    <3>3. CASE ProcOf[u] # p
      BY <3>1, <3>3 DEF ReqInv
    <3> QED BY <3>2, <3>3
  <2> QED BY <2>1, <2>2 DEF ReqInv
<1>3. ASSUME NEW t \in Threads,
             \/ Process(t) \/ AllocateFile(t) \/ Allocating(t) \/ WriteFile(t)
             \/ Redirected(t) \/ NoMoreFiles(t)
      PROVE  UNCHANGED <<req, file>>
  BY <1>3 DEF Process, AllocateFile, Allocating, WriteFile, Redirected, NoMoreFiles, web
<1>4. ASSUME NEW t \in Threads, Delete(t)
      PROVE  ReqInv'
  BY <1>4 DEF Delete, ReqInv
<1>5. ASSUME NEW t \in Threads, NullWriter(t) \/ Finish(t)
      PROVE  ReqInv'
  <2>1. ProcOf[t] \in Procs
    BY StoreAssumption
  <2> QED BY <1>2, <1>5, <2>1 DEF NullWriter, Finish, ReqInv
<1>6. ASSUME NEW p \in Procs, SignalQuit(p) \/ Killed(p)
      PROVE  ReqInv'
  BY <1>2, <1>6 DEF SignalQuit, Killed, ReqInv
<1>7. CASE UNCHANGED <<req, file>>
  BY <1>7 DEF ReqInv
<1> QED BY <1>1, <1>3, <1>4, <1>5, <1>6, <1>7 DEF HttpNext, Round, hvars, web

LEMMA InitReqInv ==
  ASSUME HttpInit
  PROVE  ReqInv
<1>1. ASSUME NEW t \in Threads PROVE req[t].files \in Seq(Sizes)
  <2>1. req[t] = NoRequest
    BY DEF HttpInit
  <2> QED BY <2>1, NoRequestFiles
<1> QED BY <1>1 DEF HttpInit, ReqInv

(***************************************************************************)
(* bundled drives Writer as its interface allows: its behaviours, seen at  *)
(* the files and the locals of Writer, are behaviours of the store.        *)
(***************************************************************************)
THEOREM HttpUsesStore == HttpSpec => Spec
<1>1. HttpInit => Init /\ ReqInv
  BY InitReqInv DEF HttpInit
<1>2. ReqInv /\ [HttpNext]_hvars => ReqInv' /\ [Next]_vars
  BY NextReqInv, StepSimulates
<1> QED BY <1>1, <1>2, PTL DEF HttpSpec, Spec
-----------------------------------------------------------------------------
(***************************************************************************)
(* Responses                                                               *)
(***************************************************************************)
LEMMA ConcatIsSeq ==
  ASSUME NEW s, NEW c, IsSeq(s), IsSeq(c)
  PROVE  /\ IsSeq(s \o c)
         /\ \A k \in DOMAIN (s \o c) :
              \/ k \in DOMAIN s /\ (s \o c)[k] = s[k]
              \/ k - Len(s) \in DOMAIN c /\ (s \o c)[k] = c[k - Len(s)]
<1>1. PICK S : s \in Seq(S)
  BY DEF IsSeq
<1>2. PICK T : c \in Seq(T)
  BY DEF IsSeq
<1>3. s \in Seq(S \cup T) /\ c \in Seq(S \cup T)
  BY <1>1, <1>2
<1>4. s \o c \in Seq(S \cup T)
  BY <1>3
<1> QED BY <1>1, <1>2, <1>4 DEF IsSeq

\* Chunks that name only acknowledged writes may follow a response.
LEMMA SayBacked ==
  ASSUME OutInv, NEW t \in Threads, NEW c, IsSeq(c), Backed(c, acked'), Say(t, c),
         acked \subseteq acked', UNCHANGED answered
  PROVE  OutInv'
<1> DEFINE s == out[t]
<1>1. DOMAIN out' = Threads /\ out'[t] = s \o c /\ \A u \in Threads \ {t} : out'[u] = out[u]
  BY DEF Say, OutInv
<1>2. IsSeq(s) /\ Backed(s, acked)
  BY DEF OutInv
<1>3. IsSeq(out'[t]) /\ Backed(out'[t], acked')
  <2>1. IsSeq(s \o c)
    BY <1>2, ConcatIsSeq
  <2>2. ASSUME NEW k \in DOMAIN (s \o c), (s \o c)[k].kind \in {"url", "location"}
        PROVE  Vouched((s \o c)[k], acked')
    <3>1. CASE k \in DOMAIN s /\ (s \o c)[k] = s[k]
      BY <1>2, <2>2, <3>1 DEF Backed, Told, Vouched
    <3>2. CASE k - Len(s) \in DOMAIN c /\ (s \o c)[k] = c[k - Len(s)]
      BY <2>2, <3>2 DEF Backed, Told, Vouched
    <3> QED BY <1>2, <3>1, <3>2, ConcatIsSeq
  <2> QED BY <1>1, <2>1, <2>2 DEF Backed, Told, IsSeq, Vouched
<1>4. ASSUME NEW u \in Threads \ {t} PROVE IsSeq(out'[u]) /\ Backed(out'[u], acked')
  BY <1>1, <1>4 DEF OutInv, Backed, IsSeq, Told, Vouched
<1>5. \A a \in answered : Backed(a[2], acked')
  BY DEF OutInv, Backed, Told, Vouched
<1> QED BY <1>1, <1>3, <1>4, <1>5 DEF OutInv

LEMMA SingleBacked ==
  ASSUME NEW x, NEW A, Vouched(x, A)
  PROVE  IsSeq(<<x>>) /\ Backed(<<x>>, A)
<1>1. <<x>> \in Seq({x})
  OBVIOUS
<1>2. \A k \in DOMAIN <<x>> : <<x>>[k] = x
  OBVIOUS
<1>3. IsSeq(<<x>>)
  BY <1>1 DEF IsSeq
<1>4. Backed(<<x>>, A)
  BY <1>2 DEF Backed, Told
<1> QED BY <1>3, <1>4

LEMMA PairBacked ==
  ASSUME NEW x, NEW y, NEW A, Vouched(x, A), Vouched(y, A)
  PROVE  IsSeq(<<x, y>>) /\ Backed(<<x, y>>, A)
<1>1. <<x, y>> \in Seq({x, y})
  OBVIOUS
<1>2. \A k \in DOMAIN <<x, y>> : <<x, y>>[k] \in {x, y}
  OBVIOUS
<1>3. IsSeq(<<x, y>>)
  BY <1>1 DEF IsSeq
<1>4. Backed(<<x, y>>, A)
  BY <1>2 DEF Backed, Told
<1> QED BY <1>3, <1>4

LEMMA FailBacked == \A A : IsSeq(<<Fail>>) /\ Backed(<<Fail>>, A)
<1>1. \A A : Vouched(Fail, A)
  BY DEF Vouched, Fail
<1> QED BY <1>1, SingleBacked

LEMMA EmptyBacked == IsSeq(<<>>) /\ Told(<<>>) = {}
BY DEF IsSeq, Told

\* Responses that are dropped, and one that is finished.
LEMMA KeepBacked ==
  ASSUME OutInv, acked \subseteq acked', DOMAIN out' = Threads,
         \A u \in Threads : out'[u] = out[u] \/ out'[u] = <<>>,
         \/ UNCHANGED answered
         \/ \E t \in Threads : answered' = answered \cup {<<req[t], out[t]>>}
  PROVE  OutInv'
<1>1. ASSUME NEW u \in Threads PROVE IsSeq(out'[u]) /\ Backed(out'[u], acked')
  <2>1. CASE out'[u] = out[u]
    BY <2>1 DEF OutInv, Backed, IsSeq, Told, Vouched
  <2>2. CASE out'[u] = <<>>
    <3>1. IsSeq(out'[u]) /\ Told(out'[u]) = {}
      BY <2>2, EmptyBacked
    <3> QED BY <3>1 DEF Backed, IsSeq, Told
  <2> QED BY <2>1, <2>2
<1>2. ASSUME NEW a \in answered' PROVE Backed(a[2], acked')
  <2>1. CASE a \in answered
    BY <2>1 DEF OutInv, Backed, Told, Vouched
  <2>2. ASSUME NEW t \in Threads, a = <<req[t], out[t]>>
        PROVE  Backed(a[2], acked')
    BY <2>2 DEF OutInv, Backed, Told, Vouched
  <2> QED BY <1>2, <2>1, <2>2
<1> QED BY <1>1, <1>2 DEF OutInv

LEMMA AckedGrows ==
  ASSUME [Next]_vars
  PROVE  acked \subseteq acked'
<1>1. ASSUME NEW t \in Threads, NEW n, NEW b, NEW ret, WriteRecord(t, n, b, ret)
      PROVE  acked \subseteq acked'
  BY <1>1 DEF WriteRecord
<1>2. ASSUME NEW t \in Threads, Write(t) \/ \E n \in Sizes : BatchWrite(t, n)
      PROVE  acked \subseteq acked'
  BY <1>1, <1>2 DEF Write, BatchWrite
<1>3. ASSUME NEW t \in Threads,
             \/ \E x \in Prefixes, n \in Sizes : Allocate(t, x, n)
             \/ AllocateStep(t) \/ Release(t) \/ Lose(t)
      PROVE  UNCHANGED acked
  BY <1>3 DEF Allocate, AllocateStep, TryLock, CheckLockDir, TryLockAgain, Stat, MakeParent,
     CreateBundle, WriteBundleHeader, Release, Lose
<1>4. ASSUME NEW p \in Procs, Crash(p)
      PROVE  UNCHANGED acked
  BY <1>4 DEF Crash
<1> QED BY <1>2, <1>3, <1>4 DEF Next, vars

\* A url goes out only for the write that has just returned 0.
LEMMA WriteFileBacked ==
  ASSUME OutInv, NEW t \in Threads, WriteFile(t), acked \subseteq acked'
  PROVE  OutInv'
<1> DEFINE u == UrlOf(t, call[t].want)
           d == writes + 1
<1>1. UNCHANGED answered
  BY DEF WriteFile
<1>2. acked' # acked => acked' = acked \cup {<<u, d>>}
  BY DEF WriteFile, Write, WriteRecord
<1> HIDE DEF u, d
<1>3. CASE Say(t, <<Fail>>)
  BY <1>1, <1>3, FailBacked, SayBacked
<1>4. CASE acked' # acked /\ Say(t, <<UrlLine(u, d)>>)
  <2>1. Vouched(UrlLine(u, d), acked')
    BY <1>2, <1>4 DEF Vouched, UrlLine
  <2> QED BY <1>1, <1>4, <2>1, SingleBacked, SayBacked
<1>5. CASE acked' # acked /\ Say(t, <<Header(302), Location(u, d)>>)
  <2>1. Vouched(Location(u, d), acked') /\ Vouched(Header(302), acked')
    BY <1>2, <1>5 DEF Vouched, Header, Location
  <2> QED BY <1>1, <1>5, <2>1, PairBacked, SayBacked
<1> QED BY <1>3, <1>4, <1>5 DEF WriteFile, Report, u, d

LEMMA ProcessBacked ==
  ASSUME OutInv, NEW t \in Threads, Process(t)
  PROVE  OutInv'
<1>1. UNCHANGED <<acked, answered>>
  BY DEF Process, vars
<1>2. \A h : Vouched(Header(h), acked')
  BY DEF Vouched, Header
<1>3. \A v : Vouched(Content(v), acked')
  BY DEF Vouched, Content
<1>4. ASSUME NEW c, IsSeq(c), Backed(c, acked'), Say(t, c)
      PROVE  OutInv'
  BY <1>1, <1>4, SayBacked
<1>5. CASE UNCHANGED out
  BY <1>1, <1>5, KeepBacked DEF OutInv
<1>6. CASE \E h \in {404, 405} : Say(t, <<Header(h)>>)
  BY <1>2, <1>4, <1>6, SingleBacked
<1>7. CASE Say(t, <<Header(200)>>)
  BY <1>2, <1>4, <1>7, SingleBacked
<1>8. CASE Say(t, <<Header(404), Header(404)>>)
  BY <1>2, <1>4, <1>8, PairBacked
<1>9. CASE Say(t, <<Header(200), Content(req[t].url)>>)
  BY <1>2, <1>3, <1>4, <1>9, PairBacked
<1> QED BY <1>5, <1>6, <1>7, <1>8, <1>9 DEF Process, StartWrite, Read

LEMMA NextOutInv ==
  ASSUME OutInv, ReqInv, [HttpNext]_hvars
  PROVE  OutInv'
<1>1. acked \subseteq acked'
  BY StepSimulates, AckedGrows
<1>2. ASSUME NEW t \in Threads, Accept(t)
      PROVE  OutInv'
  BY <1>1, <1>2, KeepBacked DEF Accept, OutInv
<1>3. ASSUME NEW p \in Procs, Replaced(p)
      PROVE  DOMAIN out' = Threads /\ \A u \in Threads : out'[u] = out[u] \/ out'[u] = <<>>
  BY <1>3 DEF Replaced
<1>4. ASSUME NEW t \in Threads,
             \/ AllocateFile(t) \/ Allocating(t) \/ Delete(t)
             \/ Redirected(t) \/ NoMoreFiles(t)
      PROVE  UNCHANGED <<out, answered>>
  BY <1>4 DEF AllocateFile, Allocating, Delete, Redirected, NoMoreFiles, web
<1>5. ASSUME NEW t \in Threads, NullWriter(t) \/ Finish(t)
      PROVE  OutInv'
  <2>1. ProcOf[t] \in Procs
    BY StoreAssumption
  <2>2. DOMAIN out' = Threads /\ \A u \in Threads : out'[u] = out[u] \/ out'[u] = <<>>
    BY <1>3, <1>5, <2>1 DEF NullWriter, Finish, OutInv
  <2>3. UNCHANGED answered \/ answered' = answered \cup {<<req[t], out[t]>>}
    BY <1>5 DEF NullWriter, Finish
  <2> QED BY <1>1, <2>2, <2>3, KeepBacked
<1>6. ASSUME NEW p \in Procs, SignalQuit(p) \/ Killed(p)
      PROVE  OutInv'
  <2>1. DOMAIN out' = Threads /\ \A u \in Threads : out'[u] = out[u] \/ out'[u] = <<>>
    BY <1>3, <1>6 DEF SignalQuit, Killed, OutInv
  <2> QED BY <1>1, <1>6, <2>1, KeepBacked DEF SignalQuit, Killed
<1>7. CASE UNCHANGED <<out, answered>>
  BY <1>1, <1>7, KeepBacked DEF OutInv
<1> QED
  BY <1>1, <1>2, <1>4, <1>5, <1>6, <1>7, ProcessBacked, WriteFileBacked
  DEF HttpNext, Round, hvars, web

LEMMA InitOutInv ==
  ASSUME HttpInit
  PROVE  OutInv
BY EmptyBacked DEF HttpInit, OutInv, Backed

LEMMA BackedReadable ==
  ASSUME OutInv, AckedReadable
  PROVE  UrlsReadable
<1> SUFFICES ASSUME NEW s \in Responses, NEW k \in Told(s)
             PROVE  Reads(s[k].url, s[k].data)
  BY DEF UrlsReadable
<1>1. Vouched(s[k], acked)
  BY DEF OutInv, Backed, Responses
<1>2. <<s[k].url, s[k].data>> \in acked
  BY <1>1 DEF Vouched, Told
<1> QED BY <1>2 DEF AckedReadable

(***************************************************************************)
(* With one thread in each process (-t 1) and a write() that is all or     *)
(* nothing, a url that bundled ever sent to a client reads back its file:  *)
(* for any number of processes, requests, failures and restarts.           *)
(***************************************************************************)
THEOREM SentUrlsReadable ==
  ASSUME SingleThreaded, "short" \notin Faults
  PROVE  HttpSpec => []UrlsReadable
<1>1. HttpInit => ReqInv /\ OutInv
  BY InitReqInv, InitOutInv
<1>2. ReqInv /\ OutInv /\ [HttpNext]_hvars => ReqInv' /\ OutInv'
  BY NextReqInv, NextOutInv
<1>3. OutInv /\ AckedReadable => UrlsReadable
  BY BackedReadable
<1>4. Spec => []AckedReadable
  BY AcknowledgedIsDurable
<1> QED BY <1>1, <1>2, <1>3, <1>4, HttpUsesStore, PTL DEF HttpSpec
-----------------------------------------------------------------------------
(***************************************************************************)
(* Where a thread is in FastcgiProc, and what that says of its Writer.     *)
(***************************************************************************)
HttpPCs == {"accept", "process", "file", "allocate", "delete", "lose", "done", "stopped"}

PlaceInv ==
  /\ hpc \in [Threads -> HttpPCs]
  /\ \A t \in Threads :
       /\ hpc[t] \in {"delete", "lose"} => pc[t] = "written"
       /\ hpc[t] \notin {"allocate", "delete", "lose"} => pc[t] = "idle"

\* Another thread is where it was.
LEMMA PlaceKeep ==
  ASSUME TypeOK, PlaceInv, NEW t \in Threads, NEW l, NEW h \in HttpPCs,
         pc' = [pc EXCEPT ![t] = l], hpc' = [hpc EXCEPT ![t] = h],
         h \in {"delete", "lose"} => l = "written",
         h \notin {"allocate", "delete", "lose"} => l = "idle"
  PROVE  PlaceInv'
<1>1. /\ pc'[t] = l /\ hpc'[t] = h
      /\ \A u \in Threads \ {t} : pc'[u] = pc[u] /\ hpc'[u] = hpc[u]
  BY DEF TypeOK, PlaceInv
<1>2. hpc' \in [Threads -> HttpPCs]
  BY DEF PlaceInv
<1> QED BY <1>1, <1>2 DEF PlaceInv

LEMMA AllocateStepPlace ==
  ASSUME NEW t \in Threads, AllocateStep(t)
  PROVE  \E l \in PCs : pc' = [pc EXCEPT ![t] = l]
BY DEF AllocateStep, TryLock, CheckLockDir, TryLockAgain, Stat, MakeParent, CreateBundle,
       WriteBundleHeader, Goto, Return, PCs, InAllocate

LEMMA ReplacedPlace ==
  ASSUME PlaceInv, NEW p \in Procs, Replaced(p)
  PROVE  PlaceInv'
<1>1. /\ pc' = [t \in Threads |-> IF ProcOf[t] = p THEN "idle" ELSE pc[t]]
      /\ hpc' = [t \in Threads |-> IF ProcOf[t] = p THEN "accept" ELSE hpc[t]]
  BY DEF Replaced, Crash
<1>2. hpc' \in [Threads -> HttpPCs]
  BY <1>1 DEF PlaceInv, HttpPCs
<1>3. ASSUME NEW t \in Threads
      PROVE  \/ hpc'[t] = "accept" /\ pc'[t] = "idle"
             \/ hpc'[t] = hpc[t] /\ pc'[t] = pc[t]
  BY <1>1
<1> QED BY <1>2, <1>3 DEF PlaceInv

LEMMA NextPlace ==
  ASSUME TypeOK, PlaceInv, [HttpNext]_hvars
  PROVE  PlaceInv'
<1> USE DEF HttpPCs
<1>1. ASSUME NEW t \in Threads, NEW h \in HttpPCs, At(t, h), UNCHANGED vars,
             hpc[t] \notin {"allocate", "delete", "lose"},
             h \notin {"allocate", "delete", "lose"}
      PROVE  PlaceInv'
  <2>1. pc[t] = "idle" /\ pc' = [pc EXCEPT ![t] = "idle"]
    BY <1>1 DEF PlaceInv, TypeOK, vars, local
  <2> QED BY <1>1, <2>1, PlaceKeep DEF At
<1>2. ASSUME NEW t \in Threads, Accept(t) \/ NoMoreFiles(t) PROVE PlaceInv'
  BY <1>1, <1>2 DEF Accept, NoMoreFiles
<1>3. ASSUME NEW t \in Threads, Process(t) PROVE PlaceInv'
  <2>1. (At(t, "done") \/ At(t, "file")) /\ UNCHANGED vars /\ hpc[t] = "process"
    BY <1>3 DEF Process, StartWrite, Read
  <2> QED BY <1>1, <2>1
<1>4. ASSUME NEW t \in Threads, AllocateFile(t) PROVE PlaceInv'
  <2>1. pc' = [pc EXCEPT ![t] = "loop"] /\ hpc' = [hpc EXCEPT ![t] = "allocate"]
    BY <1>4 DEF AllocateFile, Allocate, Goto, At
  <2> QED BY <2>1, PlaceKeep
<1>5. ASSUME NEW t \in Threads, Allocating(t) PROVE PlaceInv'
  <2>1. PICK l \in PCs : pc' = [pc EXCEPT ![t] = l]
    BY <1>5, AllocateStepPlace DEF Allocating
  <2>2. hpc[t] = "allocate" /\ hpc' = [hpc EXCEPT ![t] = "allocate"]
    BY <1>5 DEF Allocating, web, PlaceInv
  <2> QED BY <2>1, <2>2, PlaceKeep
<1>6. ASSUME NEW t \in Threads, WriteFile(t) PROVE PlaceInv'
  <2>1. pc' = [pc EXCEPT ![t] = "written"] /\ (At(t, "delete") \/ At(t, "lose"))
    BY <1>6 DEF WriteFile, Write, Report, Goto
  <2> QED BY <2>1, PlaceKeep DEF At
<1>7. ASSUME NEW t \in Threads, Delete(t) \/ Redirected(t) PROVE PlaceInv'
  <2>1. pc' = [pc EXCEPT ![t] = "idle"] /\ (At(t, "file") \/ At(t, "done"))
    BY <1>7 DEF Delete, Redirected, Release, Lose, Return, Goto
  <2> QED BY <2>1, PlaceKeep DEF At
<1>8. ASSUME NEW t \in Threads, NullWriter(t) \/ Finish(t) PROVE PlaceInv'
  <2>1. ProcOf[t] \in Procs
    BY StoreAssumption
  <2>2. CASE Replaced(ProcOf[t])
    BY <2>1, <2>2, ReplacedPlace
  <2>3. CASE hpc[t] = "done" /\ (At(t, "stopped") \/ At(t, "accept")) /\ UNCHANGED vars
    BY <1>1, <2>3
  <2> QED BY <1>8, <2>2, <2>3 DEF NullWriter, Finish
<1>9. ASSUME NEW p \in Procs, SignalQuit(p) \/ Killed(p) PROVE PlaceInv'
  BY <1>9, ReplacedPlace DEF SignalQuit, Killed, PlaceInv, vars, local
<1>10. CASE UNCHANGED hvars
  BY <1>10 DEF hvars, vars, local, web, PlaceInv
<1> QED BY <1>2, <1>3, <1>4, <1>5, <1>6, <1>7, <1>8, <1>9, <1>10 DEF HttpNext, Round

LEMMA InitPlace == HttpInit => PlaceInv
BY DEF HttpInit, Init, PlaceInv, HttpPCs

\* What is known of the store and of the places, in every state.
LEMMA HttpPlaces == HttpSpec => [](TypeOK /\ PlaceInv)
<1>1. TypeOK /\ PlaceInv /\ [HttpNext]_hvars => PlaceInv'
  BY NextPlace
<1> QED BY <1>1, InitPlace, HttpUsesStore, TypeCorrect, PTL DEF HttpSpec

-----------------------------------------------------------------------------
(***************************************************************************)
(* SIGINT and SIGTERM: with one thread in each process a request that was  *)
(* accepted is answered, or Allocate returned NULL for it, as long as      *)
(* nobody kills the process from outside.                                  *)
(***************************************************************************)
THEOREM QuitLosesNoRequest ==
  ASSUME SingleThreaded, Kills = {}
  PROVE  HttpSpec => NoRequestLost
<1>1. ASSUME TypeOK, PlaceInv, [HttpNext]_hvars, NEW t \in Threads, Busy(t), ~Busy(t)'
      PROVE  \/ <<req[t], out[t]>> \in answered'
             \/ hpc[t] = "allocate" /\ pc[t] = "idle"
  <2>1. hpc'[t] # hpc[t] /\ hpc'[t] \in {"accept", "stopped"}
    BY <1>1 DEF Busy
  <2>2. ASSUME NEW u \in Threads,
               NEW h \in {"process", "file", "allocate", "delete", "lose", "done"},
               At(u, h)
        PROVE  FALSE
    BY <2>1, <2>2 DEF At, PlaceInv
  <2>3. ASSUME NEW u \in Threads, Replaced(ProcOf[u]) PROVE u = t
    <3>1. ProcOf[t] = ProcOf[u]
      BY <2>1, <2>3 DEF Replaced
    <3> QED BY <3>1 DEF SingleThreaded
  <2>4. CASE UNCHANGED hpc
    BY <2>1, <2>4
  <2>5. ASSUME NEW u \in Threads, NullWriter(u)
        PROVE  hpc[t] = "allocate" /\ pc[t] = "idle"
    BY <2>3, <2>5 DEF NullWriter
  <2>6. ASSUME NEW u \in Threads, Finish(u)
        PROVE  <<req[t], out[t]>> \in answered'
    <3>1. CASE Replaced(ProcOf[u])
      BY <2>3, <2>6, <3>1 DEF Finish
    <3>2. CASE At(u, "stopped") \/ At(u, "accept")
      <4>1. u = t
        BY <1>1, <2>1, <3>2 DEF At, PlaceInv
      <4> QED BY <2>6, <4>1 DEF Finish
    <3> QED BY <2>6, <3>1, <3>2 DEF Finish
  <2>7. ASSUME NEW u \in Threads,
               \/ Accept(u) \/ Process(u) \/ AllocateFile(u) \/ WriteFile(u)
               \/ Delete(u) \/ Redirected(u) \/ NoMoreFiles(u)
        PROVE  \E h \in {"process", "file", "allocate", "delete", "lose", "done"} : At(u, h)
    BY <2>7 DEF Accept, Process, StartWrite, Read, AllocateFile, WriteFile, Report, Delete,
                Redirected, NoMoreFiles
  <2>8. ASSUME NEW u \in Threads, Allocating(u) PROVE UNCHANGED hpc
    BY <2>8 DEF Allocating, web
  <2>9. ASSUME NEW p \in Procs, SignalQuit(p) \/ Killed(p) PROVE UNCHANGED hpc
    BY <2>9 DEF SignalQuit, Killed
  <2> QED BY <1>1, <2>2, <2>4, <2>5, <2>6, <2>7, <2>8, <2>9 DEF HttpNext, Round, hvars, web
<1>2. TypeOK /\ PlaceInv /\ [HttpNext]_hvars =>
        [\A t \in Threads :
           Busy(t) /\ ~Busy(t)' => \/ <<req[t], out[t]>> \in answered'
                                   \/ hpc[t] = "allocate" /\ pc[t] = "idle"]_hvars
  BY <1>1
<1> QED BY <1>2, HttpPlaces, PTL DEF HttpSpec, NoRequestLost
-----------------------------------------------------------------------------
(***************************************************************************)
(* Lock files                                                              *)
(***************************************************************************)
LEMMA FindMatches ==
  ASSUME NEW q
  PROVE  Find(q) = "none" \/ Find(q) \in q.matches
<1> DEFINE I == {i \in DOMAIN host_action_ : host_action_[i] \in q.matches}
           Least(i) == \A j \in I : i <= j
<1>1. CASE I = {}
  BY <1>1 DEF Find
<1>2. CASE I # {}
  <2>1. DOMAIN host_action_ = {1, 2, 3}
    BY DEF host_action_
  <2>2. \E i \in I : Least(i)
    <3>1. I \subseteq {1, 2, 3}
      BY <2>1
    <3> HIDE DEF I
    <3>2. CASE 1 \in I
      BY <3>1, <3>2
    <3>3. CASE 1 \notin I /\ 2 \in I
      BY <3>1, <3>3
    <3>4. CASE 1 \notin I /\ 2 \notin I
      <4>1. PICK k : k \in I
        BY <1>2
      <4>2. I = {3}
        BY <3>1, <3>4, <4>1
      <4> QED BY <4>2
    <3> QED BY <3>2, <3>3, <3>4
  <2>3. (CHOOSE i \in I : Least(i)) \in I
    <3> HIDE DEF I, Least
    <3> QED BY <2>2
  <2>4. Find(q) = host_action_[CHOOSE i \in I : Least(i)]
    BY <1>2 DEF Find
  <2> QED BY <2>3, <2>4
<1> QED BY <1>1, <1>2

LEMMA GetIsNoWrite ==
  \A q \in Gets \cup {NoRequest} :
    Find(q) \notin {"WriteAction", "WriteRedirectAction"} /\ ~q.post
<1>1. NoRequest.matches = {} /\ NoRequest.post = FALSE
  BY DEF NoRequest
<1>2. ASSUME NEW q \in Gets PROVE q.matches = {"ReadAction"} /\ q.post = FALSE
  <2>1. PICK u : q = [NoRequest EXCEPT !.matches = {"ReadAction"}, !.url = u]
    BY DEF Gets
  <2> QED BY <2>1 DEF NoRequest
<1>3. \A q \in Gets \cup {NoRequest} : q.matches \subseteq {"ReadAction"} /\ ~q.post
  BY <1>1, <1>2
<1> QED BY <1>3, FindMatches

\* No url that is posted is one of WriteRedirectAction.
NoRedirects == \A q \in Posts : q.post => Find(q) # "WriteRedirectAction"

OrphanInv ==
  /\ orphans = {}
  /\ DOMAIN req = Threads
  /\ \A t \in Threads :
       /\ hpc[t] # "lose"
       /\ req[t].post => Action(t) # "WriteRedirectAction"
       /\ hpc[t] \in {"file", "allocate", "delete"} => req[t].post

LEMMA AllocateOrphansNone ==
  ASSUME NEW t \in Threads, {"unlink", "stat"} \cap Faults = {}, AllocateStep(t)
  PROVE  UNCHANGED orphans
BY DEF AllocateStep, TryLock, CheckLockDir, TryLockAgain, Stat, MakeParent, CreateBundle,
       WriteBundleHeader, Unlock

\* A process that ends between its requests, or after Allocate returned NULL,
\* holds no lock file.
LEMMA ReplacedOrphansNone ==
  ASSUME SingleThreaded, PlaceInv, OrphanInv, NEW t \in Threads, pc[t] = "idle",
         Replaced(ProcOf[t])
  PROVE  OrphanInv'
<1>1. {u \in Threads : ProcOf[u] = ProcOf[t] /\ Locked(u)} = {}
  BY DEF SingleThreaded, Locked
<1>2. orphans' = {}
  BY <1>1 DEF Replaced, Crash, OrphanInv
<1>3. ASSUME NEW u \in Threads
      PROVE  \/ hpc'[u] = hpc[u] /\ req'[u] = req[u]
             \/ hpc'[u] = "accept" /\ req'[u] = NoRequest
  BY DEF Replaced
<1>4. DOMAIN req' = Threads
  BY DEF Replaced
<1>5. Action(t)' = Find(req'[t])
  BY DEF Action
<1> QED BY <1>2, <1>3, <1>4, GetIsNoWrite DEF OrphanInv, Action

LEMMA NextOrphanInv ==
  ASSUME SingleThreaded, Kills = {}, {"unlink", "stat"} \cap Faults = {}, NoRedirects,
         TypeOK, PlaceInv, OrphanInv, [HttpNext]_hvars
  PROVE  OrphanInv'
<1>1. ASSUME NEW t \in Threads, NEW h \in HttpPCs \ {"lose"}, At(t, h), UNCHANGED <<req, orphans>>,
             h \in {"file", "allocate", "delete"} => req[t].post
      PROVE  OrphanInv'
  <2>1. \A u \in Threads : hpc'[u] = IF u = t THEN h ELSE hpc[u]
    BY <1>1 DEF At, PlaceInv
  <2> QED BY <1>1, <2>1 DEF OrphanInv, Action
<1> HttpPCs = {"accept", "process", "file", "allocate", "delete", "lose", "done", "stopped"}
  BY DEF HttpPCs
<1>2. ASSUME NEW t \in Threads, Accept(t) PROVE OrphanInv'
  <2>1. PICK q \in Posts \cup Gets : req' = [req EXCEPT ![t] = q]
    BY <1>2 DEF Accept
  <2>2. q.post => Find(q) # "WriteRedirectAction"
    BY GetIsNoWrite DEF NoRedirects
  <2>3. /\ \A u \in Threads : hpc'[u] = IF u = t THEN "process" ELSE hpc[u]
        /\ \A u \in Threads : req'[u] = IF u = t THEN q ELSE req[u]
        /\ DOMAIN req' = Threads /\ UNCHANGED orphans
    BY <1>2, <2>1 DEF Accept, At, PlaceInv, OrphanInv, vars
  <2> QED BY <2>2, <2>3 DEF OrphanInv, Action
<1>3. ASSUME NEW t \in Threads, Process(t) PROVE OrphanInv'
  <2>1. UNCHANGED <<req, orphans>> /\ (At(t, "done") \/ (At(t, "file") /\ req[t].post))
    BY <1>3 DEF Process, StartWrite, Read, vars
  <2> QED BY <1>1, <2>1
<1>4. ASSUME NEW t \in Threads, AllocateFile(t) PROVE OrphanInv'
  <2>1. UNCHANGED <<req, orphans>> /\ At(t, "allocate") /\ req[t].post
    BY <1>4 DEF AllocateFile, Allocate, OrphanInv
  <2> QED BY <1>1, <2>1
<1>5. ASSUME NEW t \in Threads, Allocating(t) PROVE OrphanInv'
  <2>1. UNCHANGED <<req, hpc, orphans>>
    BY <1>5, AllocateOrphansNone DEF Allocating, web
  <2> QED BY <2>1 DEF OrphanInv, Action
<1>6. ASSUME NEW t \in Threads, WriteFile(t) PROVE OrphanInv'
  <2>1. req[t].post /\ Action(t) # "WriteRedirectAction"
    BY <1>6 DEF WriteFile, OrphanInv
  <2>2. UNCHANGED <<req, orphans>> /\ At(t, "delete")
    BY <1>6, <2>1 DEF WriteFile, Write, WriteRecord, Report
  <2> QED BY <1>1, <2>1, <2>2
<1>7. ASSUME NEW t \in Threads, Delete(t) PROVE OrphanInv'
  <2>1. UNCHANGED <<req, orphans>> /\ At(t, "file") /\ req[t].post
    BY <1>7 DEF Delete, Release, Unlock, OrphanInv
  <2> QED BY <1>1, <2>1
<1>8. ASSUME NEW t \in Threads, NoMoreFiles(t) PROVE OrphanInv'
  BY <1>1, <1>8 DEF NoMoreFiles, vars
<1>9. ASSUME NEW t \in Threads, NullWriter(t) \/ Finish(t) PROVE OrphanInv'
  <2>1. pc[t] = "idle"
    BY <1>9 DEF NullWriter, Finish, PlaceInv
  <2>2. CASE Replaced(ProcOf[t])
    BY <2>1, <2>2, ReplacedOrphansNone
  <2>3. CASE (At(t, "stopped") \/ At(t, "accept")) /\ UNCHANGED <<vars, req>>
    BY <1>1, <2>3 DEF vars
  <2> QED BY <1>9, <2>2, <2>3 DEF NullWriter, Finish
<1>10. ASSUME NEW p \in Procs, SignalQuit(p) \/ Killed(p) PROVE OrphanInv'
  <2>1. UNCHANGED <<req, hpc, orphans>>
    BY <1>10 DEF SignalQuit, Killed, vars
  <2> QED BY <2>1 DEF OrphanInv, Action
<1>11. ASSUME NEW t \in Threads, Redirected(t) PROVE FALSE
  BY <1>11 DEF Redirected, OrphanInv
<1>12. CASE UNCHANGED hvars
  BY <1>12 DEF hvars, vars, web, OrphanInv, Action
<1> QED BY <1>2, <1>3, <1>4, <1>5, <1>6, <1>7, <1>8, <1>9, <1>10, <1>11, <1>12
        DEF HttpNext, Round

LEMMA InitOrphanInv == HttpInit => OrphanInv
BY GetIsNoWrite DEF HttpInit, Init, OrphanInv, Action

LEMMA OrphanInvReturned ==
  ASSUME PlaceInv, OrphanInv, LocksAccountedFor
  PROVE  LocksReturned
<1> SUFFICES ASSUME \A t \in Threads : ~Busy(t) PROVE locks = {}
  BY DEF LocksReturned
<1>1. \A t \in Threads : ~Locked(t)
  BY DEF Busy, PlaceInv, Locked
<1> QED BY <1>1 DEF LocksAccountedFor, OrphanInv

(***************************************************************************)
(* Between requests no lock file is left, whatever Allocate, mkdirs, open  *)
(* and write did in them and whenever a process had to quit: with one      *)
(* thread in each process, as long as unlink and lstat work, nobody kills  *)
(* a process and nothing is posted to WriteRedirectAction, which loses its *)
(* Writer.                                                                 *)
(***************************************************************************)
THEOREM LocksReturnedTheorem ==
  ASSUME SingleThreaded, Kills = {}, {"unlink", "stat"} \cap Faults = {}, NoRedirects
  PROVE  HttpSpec => []LocksReturned
<1>1. TypeOK /\ PlaceInv /\ OrphanInv /\ [HttpNext]_hvars => OrphanInv'
  BY NextOrphanInv
<1>2. PlaceInv /\ OrphanInv /\ LocksAccountedFor => LocksReturned
  BY OrphanInvReturned
<1> QED BY <1>1, <1>2, InitOrphanInv, HttpPlaces, HttpUsesStore, LocksHaveOwners, PTL DEF HttpSpec
-----------------------------------------------------------------------------
(***************************************************************************)
(* The chunks of a response                                                *)
(***************************************************************************)
\* The response s accounts for the first k files of an upload q.
Served(q, s, k) ==
  /\ Find(q) = "WriteAction" =>
       /\ Len(s) = k + 1 /\ s[1] = Header(200)
       /\ \A i \in 1 .. k : Accounts(s[i + 1], q.files[i]) /\ s[i + 1].kind # "location"
  /\ Find(q) = "WriteRedirectAction" =>
       Len(s) = k /\ \A i \in 1 .. k : s[i] = Fail

\* What a thread has said of the files it has seen, at each place.
AnswerInv(t) ==
  /\ hpc[t] = "process" => out[t] = <<>> /\ file[t] = 1
  /\ hpc[t] \in {"file", "allocate", "delete"} =>
       req[t].post /\ Action(t) \in {"WriteAction", "WriteRedirectAction"}
  /\ hpc[t] \in {"allocate", "delete"} => file[t] <= Len(req[t].files)
  /\ hpc[t] = "file" => file[t] <= Len(req[t].files) + 1
  /\ hpc[t] \in {"file", "allocate"} => Served(req[t], out[t], file[t] - 1)
  /\ hpc[t] = "delete" => Served(req[t], out[t], file[t])
  /\ hpc[t] \in {"lose", "done"} => InOrder(req[t], out[t])
  /\ hpc[t] = "allocate" /\ pc[t] # "idle" => call[t].want = req[t].files[file[t]]

AnswersInv == (\A t \in Threads : AnswerInv(t)) /\ AnswersInOrder

LEMMA AppendOne ==
  ASSUME NEW s, NEW c, IsSeq(s)
  PROVE  /\ Len(s) \in Nat /\ Len(s \o <<c>>) = Len(s) + 1
         /\ \A i \in 1 .. Len(s) : (s \o <<c>>)[i] = s[i]
         /\ (s \o <<c>>)[Len(s) + 1] = c
<1>1. PICK S : s \in Seq(S)
  BY DEF IsSeq
<1>2. s \in Seq(S \cup {c}) /\ <<c>> \in Seq(S \cup {c})
  BY <1>1
<1> QED BY <1>2

LEMMA AppendTwo ==
  ASSUME NEW s, NEW c, NEW d, IsSeq(s)
  PROVE  /\ Len(s) \in Nat /\ Len(s \o <<c, d>>) = Len(s) + 2
         /\ \A i \in 1 .. Len(s) : (s \o <<c, d>>)[i] = s[i]
         /\ (s \o <<c, d>>)[Len(s) + 1] = c /\ (s \o <<c, d>>)[Len(s) + 2] = d
<1>1. PICK S : s \in Seq(S)
  BY DEF IsSeq
<1>2. s \in Seq(S \cup {c, d}) /\ <<c, d>> \in Seq(S \cup {c, d})
  BY <1>1
<1> QED BY <1>2

\* One more chunk of WriteAction.
LEMMA ServeLine ==
  ASSUME NEW q, NEW s, NEW k \in Nat, NEW c, IsSeq(s), Served(q, s, k),
         Find(q) = "WriteAction", Accounts(c, q.files[k + 1]), c.kind # "location"
  PROVE  Served(q, s \o <<c>>, k + 1)
<1> DEFINE r == s \o <<c>>
<1>1. /\ Len(s) = k + 1 /\ s[1] = Header(200)
      /\ \A i \in 1 .. k : Accounts(s[i + 1], q.files[i]) /\ s[i + 1].kind # "location"
  BY DEF Served
<1>2. /\ Len(r) = k + 2 /\ \A i \in 1 .. (k + 1) : r[i] = s[i]
      /\ r[k + 2] = c
  BY <1>1, AppendOne
<1> HIDE DEF r
<1>3. ASSUME NEW i \in 1 .. (k + 1)
      PROVE  Accounts(r[i + 1], q.files[i]) /\ r[i + 1].kind # "location"
  <2>1. CASE i = k + 1
    BY <1>2, <2>1
  <2>2. CASE i \in 1 .. k
    <3>1. i + 1 \in 1 .. (k + 1)
      BY <2>2
    <3>2. r[i + 1] = s[i + 1]
      BY <1>2, <3>1
    <3> QED BY <1>1, <2>2, <3>2
  <2> QED BY <2>1, <2>2
<1>4. r[1] = Header(200) /\ Len(r) = (k + 1) + 1
  BY <1>1, <1>2
<1> QED BY <1>3, <1>4 DEF Served, r

\* A failure, of either action.
LEMMA ServeFail ==
  ASSUME NEW q, NEW s, NEW k \in Nat, IsSeq(s), Served(q, s, k),
         Find(q) \in {"WriteAction", "WriteRedirectAction"}
  PROVE  Served(q, s \o <<Fail>>, k + 1)
<1>1. Accounts(Fail, q.files[k + 1]) /\ Fail.kind # "location"
  BY DEF Accounts, Fail
<1>2. CASE Find(q) = "WriteAction"
  BY <1>1, <1>2, ServeLine
<1>3. CASE Find(q) = "WriteRedirectAction"
  <2>1. Len(s) = k /\ \A i \in 1 .. k : s[i] = Fail
    BY <1>3 DEF Served
  <2>2. Len(s \o <<Fail>>) = k + 1 /\ \A i \in 1 .. (k + 1) : (s \o <<Fail>>)[i] = Fail
    BY <2>1, AppendOne
  <2> QED BY <1>3, <2>2 DEF Served
<1> QED BY <1>2, <1>3

\* The redirect to the first file that was stored.
LEMMA ServeRedirect ==
  ASSUME NEW q, NEW s, NEW k \in Nat, NEW u, NEW d, IsSeq(s), Served(q, s, k),
         Find(q) = "WriteRedirectAction", q.post, Len(q.files) \in Nat, k + 1 <= Len(q.files),
         u.size = q.files[k + 1]
  PROVE  InOrder(q, s \o <<Header(302), Location(u, d)>>)
<1> DEFINE r == s \o <<Header(302), Location(u, d)>>
<1>1. Len(s) = k /\ \A i \in 1 .. k : s[i] = Fail
  BY DEF Served
<1>2. /\ Len(r) = k + 2 /\ \A i \in 1 .. k : r[i] = Fail
      /\ r[k + 1] = Header(302) /\ r[k + 2] = Location(u, d)
  BY <1>1, AppendTwo
<1>3. Location(u, d).kind = "location" /\ Accounts(Location(u, d), q.files[k + 1])
  BY DEF Accounts, Location
<1> HIDE DEF r
<1>4. /\ Len(r) \in 2 .. Len(q.files) + 1
      /\ \A i \in 1 .. Len(r) - 2 : r[i] = Fail
      /\ r[Len(r) - 1] = Header(302)
      /\ r[Len(r)].kind = "location" /\ Accounts(r[Len(r)], q.files[Len(r) - 1])
  BY <1>2, <1>3
<1> QED BY <1>4 DEF InOrder, r

\* Every file has been seen to.
LEMMA ServedAll ==
  ASSUME NEW q, NEW s, IsSeq(s), q.files \in Seq(Sizes), Served(q, s, Len(q.files)), q.post,
         Find(q) \in {"WriteAction", "WriteRedirectAction"}
  PROVE  InOrder(q, s)
<1>1. DOMAIN q.files = 1 .. Len(q.files) /\ DOMAIN s = 1 .. Len(s) /\ Len(q.files) \in Nat
  BY DEF IsSeq
<1>2. ASSUME NEW i \in DOMAIN q.files, Find(q) = "WriteAction"
      PROVE  OwnLine(s, i + 1) <=> i = 1 \/ s[i].kind = "url"
  <2>0. s[1] = Header(200) /\ i \in 1 .. Len(q.files) /\ (i + 1) - 1 = i
    <3>1. s[1] = Header(200)
      BY <1>2, Zenon DEF Served
    <3>2. i \in 1 .. Len(q.files)
      BY <1>1
    <3> QED BY <1>1, <3>1, <3>2
  <2>1. OwnLine(s, i + 1) <=> s[i].nl
    BY <2>0, Zenon DEF OwnLine
  <2>2. CASE i = 1
    BY <2>0, <2>1, <2>2 DEF Header
  <2>3. CASE i > 1
    <3>1. i - 1 \in 1 .. Len(q.files) /\ (i - 1) + 1 = i
      BY <1>1, <2>0, <2>3
    <3>2. Accounts(s[i], q.files[i - 1]) /\ s[i].kind # "location"
      BY <1>2, <3>1 DEF Served
    <3>3. CASE s[i] = Fail
      <4>1. ~s[i].nl /\ s[i].kind # "url"
        BY <3>3 DEF Fail
      <4> QED BY <2>1, <2>3, <4>1
    <3>4. CASE s[i].kind = "url" /\ s[i].nl
      BY <2>1, <2>3, <3>4
    <3> QED BY <3>2, <3>3, <3>4, Zenon DEF Accounts
  <2> QED BY <2>0, <2>2, <2>3
<1> QED BY <1>1, <1>2 DEF InOrder, Served

-----------------------------------------------------------------------------
\* A thread whose part of the state is left alone.
LEMMA AnswerKeep ==
  ASSUME NEW u \in Threads, AnswerInv(u), hpc'[u] = hpc[u], req'[u] = req[u],
         file'[u] = file[u], out'[u] = out[u], pc'[u] = pc[u], call'[u] = call[u]
  PROVE  AnswerInv(u)'
BY DEF AnswerInv, Action

\* A step of one thread.
LEMMA AnswerStep ==
  ASSUME TypeOK, PlaceInv, ReqInv, OutInv, AnswersInv, NEW t \in Threads, AnswerInv(t)',
         UNCHANGED answered,
         \A u \in Threads \ {t} :
           /\ hpc'[u] = hpc[u] /\ req'[u] = req[u] /\ file'[u] = file[u] /\ out'[u] = out[u]
           /\ pc'[u] = pc[u] /\ call'[u] = call[u]
  PROVE  AnswersInv'
<1>1. \A u \in Threads : AnswerInv(u)'
  BY AnswerKeep DEF AnswersInv
<1> QED BY <1>1 DEF AnswersInv, AnswersInOrder

\* A thread's step changes its own locals.
LEMMA LocalStep ==
  ASSUME TypeOK, PlaceInv, ReqInv, OutInv, NEW t \in Threads,
         Accept(t) \/ Process(t) \/ AllocateFile(t) \/ Allocating(t) \/ WriteFile(t)
           \/ Delete(t) \/ Redirected(t) \/ NoMoreFiles(t)
  PROVE  /\ UNCHANGED answered
         /\ \A u \in Threads \ {t} :
              /\ hpc'[u] = hpc[u] /\ req'[u] = req[u] /\ file'[u] = file[u] /\ out'[u] = out[u]
              /\ pc'[u] = pc[u] /\ call'[u] = call[u]
<1>1. UNCHANGED answered
  BY DEF Accept, Process, AllocateFile, Allocating, WriteFile, Delete, Redirected, NoMoreFiles, web
<1>2. /\ UNCHANGED hpc \/ \E l : At(t, l)
      /\ UNCHANGED req \/ \E q : req' = [req EXCEPT ![t] = q]
      /\ UNCHANGED file \/ \E n : file' = [file EXCEPT ![t] = n]
      /\ UNCHANGED out \/ \E c : out' = [out EXCEPT ![t] = c]
  BY DEF Accept, Process, StartWrite, Read, Say, AllocateFile, Allocating, WriteFile, Report,
         Delete, Redirected, NoMoreFiles, web
<1>3. ASSUME AllocateStep(t)
      PROVE  /\ \E l : pc' = [pc EXCEPT ![t] = l]
             /\ UNCHANGED call \/ \E c : call' = [call EXCEPT ![t] = c]
  BY <1>3 DEF AllocateStep, TryLock, CheckLockDir, TryLockAgain, Stat, MakeParent, CreateBundle,
       WriteBundleHeader, Goto, Return
<1>4. /\ UNCHANGED pc \/ \E l : pc' = [pc EXCEPT ![t] = l]
      /\ UNCHANGED call \/ \E c : call' = [call EXCEPT ![t] = c]
  <2>1. CASE Accept(t) \/ Process(t) \/ NoMoreFiles(t)
    BY <2>1 DEF Accept, Process, NoMoreFiles, vars, local
  <2>2. CASE AllocateFile(t)
    BY <2>2 DEF AllocateFile, Allocate, Goto
  <2>3. CASE Allocating(t)
    BY <1>3, <2>3 DEF Allocating
  <2>4. CASE WriteFile(t)
    BY <2>4 DEF WriteFile, Write, Goto
  <2>5. CASE Delete(t) \/ Redirected(t)
    BY <2>5 DEF Delete, Redirected, Release, Lose, Return, Goto
  <2> QED BY <2>1, <2>2, <2>3, <2>4, <2>5
<1>5. /\ DOMAIN hpc = Threads /\ DOMAIN req = Threads /\ DOMAIN file = Threads
      /\ DOMAIN out = Threads /\ DOMAIN pc = Threads /\ DOMAIN call = Threads
  BY DEF TypeOK, PlaceInv, ReqInv, OutInv
<1> QED BY <1>1, <1>2, <1>4, <1>5 DEF At

\* Allocate keeps the size it was asked for.
LEMMA AllocateKeepsWant ==
  ASSUME TypeOK, NEW t \in Threads, AllocateStep(t)
  PROVE  pc'[t] = "idle" \/ call'[t].want = call[t].want
<1>1. call[t] \in Call /\ DOMAIN call = Threads /\ DOMAIN pc = Threads
  BY DEF TypeOK
<1>2. ASSUME NEW n, NEW i,
             call' = [call EXCEPT ![t] = [@ EXCEPT !.loop_count = n, !.lock = i]]
      PROVE  call'[t].want = call[t].want
  BY <1>1, <1>2 DEF Call
<1>3. ASSUME NEW i, NEW o, call' = [call EXCEPT ![t] = [@ EXCEPT !.bid = i, !.id = i, !.off = o]]
      PROVE  call'[t].want = call[t].want
  BY <1>1, <1>3 DEF Call
<1>4. ASSUME NEW i, call' = [call EXCEPT ![t] = [@ EXCEPT !.bid = i]]
      PROVE  call'[t].want = call[t].want
  BY <1>1, <1>4 DEF Call
<1>5. ASSUME NEW i, NEW o, call' = [call EXCEPT ![t] = [@ EXCEPT !.id = i, !.off = o]]
      PROVE  call'[t].want = call[t].want
  BY <1>1, <1>5 DEF Call
<1>6. CASE TryLock(t)
  BY <1>2, <1>6 DEF TryLock
<1>7. CASE Stat(t)
  BY <1>3, <1>4, <1>7 DEF Stat
<1>8. CASE WriteBundleHeader(t)
  BY <1>1, <1>5, <1>8 DEF WriteBundleHeader, Return, Goto
<1>9. CASE CheckLockDir(t) \/ TryLockAgain(t) \/ MakeParent(t) \/ CreateBundle(t)
  BY <1>1, <1>9 DEF CheckLockDir, TryLockAgain, MakeParent, CreateBundle, Return, Goto
<1> QED BY <1>6, <1>7, <1>8, <1>9 DEF AllocateStep

LEMMA ProcessAnswer ==
  ASSUME PlaceInv, ReqInv, OutInv, NEW t \in Threads, AnswerInv(t), Process(t)
  PROVE  AnswerInv(t)'
<1>1. /\ DOMAIN hpc = Threads /\ DOMAIN out = Threads /\ out[t] = <<>> /\ file[t] = 1
      /\ req' = req /\ file' = file
  BY DEF PlaceInv, OutInv, AnswerInv, Process
<1>2. ASSUME At(t, "done"), InOrder(req[t], out'[t])
      PROVE  AnswerInv(t)'
  <2>1. hpc'[t] = "done"
    BY <1>1, <1>2 DEF At
  <2> QED BY <1>1, <1>2, <2>1 DEF AnswerInv
<1>3. ASSUME At(t, "file"), req[t].post, Action(t) \in {"WriteAction", "WriteRedirectAction"},
             Served(req[t], out'[t], 0)
      PROVE  AnswerInv(t)'
  <2>1. hpc'[t] = "file" /\ Len(req[t].files) \in Nat
    BY <1>1, <1>3 DEF At, ReqInv
  <2>2. 1 <= Len(req[t].files) + 1 /\ 1 - 1 = 0
    BY <2>1
  <2> QED BY <1>1, <1>3, <2>1, <2>2 DEF AnswerInv, Action
<1>4. CASE Action(t) \in {"none", "ReadAction"} \/ ~req[t].post
  <2>1. InOrder(req[t], out'[t])
    BY <1>4 DEF InOrder, Action
  <2>2. At(t, "done")
    BY <1>4 DEF Process, StartWrite, Read
  <2> QED BY <1>2, <2>1, <2>2
<1>5. CASE req[t].post /\ Action(t) = "WriteAction"
  <2>1. At(t, "file") /\ out'[t] = <<>> \o <<Header(200)>>
    BY <1>1, <1>5 DEF Process, StartWrite, Say
  <2>2. out'[t] = <<Header(200)>>
    BY <2>1
  <2>3. Served(req[t], out'[t], 0)
    BY <1>5, <2>2 DEF Served, Action
  <2> QED BY <1>3, <1>5, <2>1, <2>3
<1>6. CASE req[t].post /\ Action(t) = "WriteRedirectAction"
  <2>1. At(t, "file") /\ out'[t] = <<>>
    BY <1>1, <1>6 DEF Process, StartWrite
  <2>2. Served(req[t], out'[t], 0)
    BY <1>6, <2>1 DEF Served, Action
  <2> QED BY <1>3, <1>6, <2>1, <2>2
<1> QED BY <1>4, <1>5, <1>6 DEF Process

LEMMA WriteFileAnswer ==
  ASSUME TypeOK, PlaceInv, ReqInv, OutInv, NEW t \in Threads, AnswerInv(t), WriteFile(t)
  PROVE  AnswerInv(t)'
<1> DEFINE q == req[t]
           s == out[t]
           k == file[t] - 1
           u == UrlOf(t, call[t].want)
           d == writes + 1
<1>1. /\ DOMAIN hpc = Threads /\ DOMAIN out = Threads /\ IsSeq(s)
      /\ file[t] \in Nat \ {0} /\ q.files \in Seq(Sizes)
      /\ req' = req /\ file' = file
  BY DEF PlaceInv, OutInv, ReqInv, WriteFile
<1>2. k \in Nat /\ file[t] = k + 1 /\ Len(q.files) \in Nat
  BY <1>1
<1>3. hpc[t] = "allocate" /\ pc[t] = "writer"
  BY DEF WriteFile, Write
<1>4. /\ q.post /\ Find(q) \in {"WriteAction", "WriteRedirectAction"}
      /\ file[t] <= Len(q.files) /\ Served(q, s, k) /\ call[t].want = q.files[file[t]]
  BY <1>3 DEF AnswerInv, Action
<1>5. u.size = q.files[k + 1]
  BY <1>2, <1>4 DEF UrlOf
<1> HIDE DEF u, d, k
<1>6. ASSUME At(t, "delete"), Served(q, out'[t], k + 1)
      PROVE  AnswerInv(t)'
  <2>1. hpc'[t] = "delete"
    BY <1>1, <1>6 DEF At
  <2> QED BY <1>1, <1>2, <1>4, <1>6, <2>1 DEF AnswerInv, Action
<1>7. CASE Say(t, <<Fail>>) /\ At(t, "delete")
  <2>1. out'[t] = s \o <<Fail>>
    BY <1>1, <1>7 DEF Say
  <2>2. Served(q, s \o <<Fail>>, k + 1)
    BY <1>1, <1>2, <1>4, ServeFail
  <2> QED BY <1>6, <1>7, <2>1, <2>2
<1>8. CASE Action(t) = "WriteAction" /\ Say(t, <<UrlLine(u, d)>>) /\ At(t, "delete")
  <2>1. out'[t] = s \o <<UrlLine(u, d)>>
    BY <1>1, <1>8 DEF Say
  <2>2. Accounts(UrlLine(u, d), q.files[k + 1]) /\ UrlLine(u, d).kind # "location"
    BY <1>5 DEF Accounts, UrlLine
  <2>3. Served(q, s \o <<UrlLine(u, d)>>, k + 1)
    BY <1>1, <1>2, <1>4, <1>8, <2>2, ServeLine DEF Action
  <2> QED BY <1>6, <1>8, <2>1, <2>3
<1>9. CASE /\ Action(t) = "WriteRedirectAction"
           /\ Say(t, <<Header(302), Location(u, d)>>) /\ At(t, "lose")
  <2>1. out'[t] = s \o <<Header(302), Location(u, d)>>
    BY <1>1, <1>9 DEF Say
  <2>2. InOrder(q, s \o <<Header(302), Location(u, d)>>)
    <3>1. Find(q) = "WriteRedirectAction" /\ k + 1 <= Len(q.files)
      BY <1>2, <1>4, <1>9 DEF Action
    <3> QED BY <1>1, <1>2, <1>4, <1>5, <3>1, ServeRedirect
  <2>3. hpc'[t] = "lose"
    BY <1>1, <1>9 DEF At
  <2> QED BY <1>1, <2>1, <2>2, <2>3 DEF AnswerInv
<1> QED BY <1>7, <1>8, <1>9 DEF WriteFile, Report, u, d

LEMMA ReplacedAnswers ==
  ASSUME NEW p \in Procs, Replaced(p), NEW u \in Threads, AnswerInv(u)
  PROVE  AnswerInv(u)'
<1>1. CASE ProcOf[u] = p
  <2>1. hpc'[u] = "accept"
    BY <1>1 DEF Replaced
  <2> QED BY <2>1 DEF AnswerInv
<1>2. CASE ProcOf[u] # p
  <2>1. /\ hpc'[u] = hpc[u] /\ req'[u] = req[u] /\ file'[u] = file[u] /\ out'[u] = out[u]
        /\ pc'[u] = pc[u] /\ call'[u] = call[u]
    BY <1>2 DEF Replaced, Crash
  <2> QED BY <2>1, AnswerKeep
<1> QED BY <1>1, <1>2

LEMMA NextAnswers ==
  ASSUME TypeOK, PlaceInv, ReqInv, OutInv, AnswersInv, [HttpNext]_hvars
  PROVE  AnswersInv'
<1>0. /\ DOMAIN hpc = Threads /\ DOMAIN req = Threads /\ DOMAIN file = Threads
      /\ DOMAIN out = Threads /\ DOMAIN pc = Threads /\ DOMAIN call = Threads
  BY DEF TypeOK, PlaceInv, ReqInv, OutInv
<1>1. ASSUME NEW t \in Threads, Accept(t) PROVE AnswersInv'
  <2>1. hpc'[t] = "process" /\ out'[t] = <<>> /\ file'[t] = 1
    BY <1>0, <1>1 DEF Accept, At
  <2>2. AnswerInv(t)'
    BY <2>1 DEF AnswerInv
  <2> QED BY <1>1, <2>2, LocalStep, AnswerStep
<1>2. ASSUME NEW t \in Threads, Process(t) PROVE AnswersInv'
  <2>1. AnswerInv(t)'
    BY <1>2, ProcessAnswer DEF AnswersInv
  <2> QED BY <1>2, <2>1, LocalStep, AnswerStep
<1>3. ASSUME NEW t \in Threads, AllocateFile(t) PROVE AnswersInv'
  <2>1. /\ hpc[t] = "file" /\ file[t] <= Len(req[t].files)
        /\ hpc'[t] = "allocate" /\ UNCHANGED <<req, file, out>>
    BY <1>0, <1>3 DEF AllocateFile, At
  <2>2. call'[t].want = req[t].files[file[t]]
    <3>1. PICK x \in Prefixes : Allocate(t, x, req[t].files[file[t]])
      BY <1>3 DEF AllocateFile
    <3>2. call'[t] = [NoCall EXCEPT !.prefix = x, !.want = req[t].files[file[t]]]
      BY <1>0, <3>1 DEF Allocate
    <3> QED BY <3>2 DEF NoCall
  <2>3. AnswerInv(t)
    BY DEF AnswersInv
  <2>4. AnswerInv(t)'
    BY <2>1, <2>2, <2>3 DEF AnswerInv, Action
  <2> QED BY <1>3, <2>4, LocalStep, AnswerStep
<1>4. ASSUME NEW t \in Threads, Allocating(t) PROVE AnswersInv'
  <2>1. AnswerInv(t) /\ hpc[t] = "allocate" /\ UNCHANGED <<hpc, req, file, out>>
    BY <1>4 DEF AnswersInv, Allocating, web
  <2>2. pc[t] # "idle"
    BY <1>4 DEF Allocating, AllocateStep, TryLock, CheckLockDir, TryLockAgain, Stat, MakeParent,
                CreateBundle, WriteBundleHeader
  <2>3. pc'[t] = "idle" \/ call'[t].want = call[t].want
    BY <1>4, AllocateKeepsWant DEF Allocating
  <2>4. AnswerInv(t)'
    BY <2>1, <2>2, <2>3 DEF AnswerInv, Action
  <2> QED BY <1>4, <2>4, LocalStep, AnswerStep
<1>5. ASSUME NEW t \in Threads, WriteFile(t) PROVE AnswersInv'
  <2>1. AnswerInv(t)'
    BY <1>5, WriteFileAnswer DEF AnswersInv
  <2> QED BY <1>5, <2>1, LocalStep, AnswerStep
<1>6. ASSUME NEW t \in Threads, Delete(t) PROVE AnswersInv'
  <2>1. /\ AnswerInv(t) /\ hpc[t] = "delete" /\ hpc'[t] = "file" /\ UNCHANGED <<req, out>>
        /\ file'[t] = file[t] + 1
    BY <1>0, <1>6 DEF AnswersInv, Delete, At
  <2>2. file[t] \in Nat /\ Len(req[t].files) \in Nat
    BY DEF ReqInv
  <2>3. (file[t] + 1) - 1 = file[t]
    BY <2>2
  <2>4. AnswerInv(t)'
    BY <2>1, <2>2, <2>3 DEF AnswerInv, Action
  <2> QED BY <1>6, <2>4, LocalStep, AnswerStep
<1>7. ASSUME NEW t \in Threads, Redirected(t) PROVE AnswersInv'
  <2>1. AnswerInv(t) /\ hpc[t] = "lose" /\ hpc'[t] = "done" /\ UNCHANGED <<req, out>>
    BY <1>0, <1>7 DEF AnswersInv, Redirected, At
  <2>2. AnswerInv(t)'
    BY <2>1 DEF AnswerInv
  <2> QED BY <1>7, <2>2, LocalStep, AnswerStep
<1>8. ASSUME NEW t \in Threads, NoMoreFiles(t) PROVE AnswersInv'
  <2>1. /\ AnswerInv(t) /\ hpc[t] = "file" /\ hpc'[t] = "done" /\ UNCHANGED <<req, out>>
        /\ file[t] > Len(req[t].files)
    BY <1>0, <1>8 DEF AnswersInv, NoMoreFiles, At
  <2>2. /\ file[t] \in Nat /\ Len(req[t].files) \in Nat /\ IsSeq(out[t])
        /\ req[t].files \in Seq(Sizes)
    BY DEF ReqInv, OutInv
  <2>3. file[t] - 1 = Len(req[t].files)
    BY <2>1, <2>2 DEF AnswerInv
  <2>4. /\ Served(req[t], out[t], Len(req[t].files)) /\ req[t].post
        /\ Find(req[t]) \in {"WriteAction", "WriteRedirectAction"}
    BY <2>1, <2>3 DEF AnswerInv, Action
  <2>5. InOrder(req[t], out[t])
    BY <2>2, <2>4, ServedAll
  <2>6. AnswerInv(t)'
    BY <2>1, <2>5 DEF AnswerInv
  <2> QED BY <1>8, <2>6, LocalStep, AnswerStep
<1>9. ASSUME NEW p \in Procs, Replaced(p) PROVE \A u \in Threads : AnswerInv(u)'
  BY <1>9, ReplacedAnswers DEF AnswersInv
<1>10. ASSUME NEW t \in Threads, NullWriter(t) PROVE AnswersInv'
  <2>1. ProcOf[t] \in Procs
    BY StoreAssumption
  <2> QED BY <1>9, <1>10, <2>1 DEF NullWriter, AnswersInv, AnswersInOrder
<1>11. ASSUME NEW t \in Threads, Finish(t) PROVE AnswersInv'
  <2>1. ProcOf[t] \in Procs
    BY StoreAssumption
  <2>2. ASSUME Replaced(ProcOf[t]) PROVE \A u \in Threads : AnswerInv(u)'
    BY <1>9, <2>1, <2>2
  <2>3. ASSUME NEW l \in {"stopped", "accept"}, At(t, l), UNCHANGED <<vars, req, file, out>>,
               NEW u \in Threads
        PROVE  AnswerInv(u)'
    <3>1. CASE u = t
      <4>1. hpc'[t] = l
        BY <1>0, <2>3 DEF At
      <4> QED BY <2>3, <3>1, <4>1 DEF AnswerInv
    <3>2. CASE u # t
      <4>1. hpc'[u] = hpc[u] /\ UNCHANGED <<req, file, out, pc, call>>
        BY <1>0, <2>3, <3>2 DEF At, vars, local
      <4> QED BY <4>1, AnswerKeep DEF AnswersInv
    <3> QED BY <3>1, <3>2
  <2>4. \A u \in Threads : AnswerInv(u)'
    BY <1>11, <2>2, <2>3 DEF Finish
  <2>5. InOrder(req[t], out[t])
    BY <1>11 DEF Finish, AnswersInv, AnswerInv
  <2>6. \A a \in answered' : InOrder(a[1], a[2])
    BY <1>11, <2>5 DEF Finish, AnswersInv, AnswersInOrder
  <2> QED BY <2>4, <2>6 DEF AnswersInv, AnswersInOrder
<1>12. ASSUME NEW p \in Procs, SignalQuit(p) \/ Killed(p) PROVE AnswersInv'
  <2>1. CASE Killed(p)
    BY <1>9, <2>1 DEF Killed, AnswersInv, AnswersInOrder
  <2>2. CASE SignalQuit(p)
    <3>1. UNCHANGED <<hpc, req, file, out, pc, call, answered>>
      BY <2>2 DEF SignalQuit, vars, local
    <3> QED BY <3>1, AnswerKeep DEF AnswersInv, AnswersInOrder
  <2> QED BY <1>12, <2>1, <2>2
<1>13. CASE UNCHANGED hvars
  <2>1. UNCHANGED <<hpc, req, file, out, pc, call, answered>>
    BY <1>13 DEF hvars, vars, local, web
  <2> QED BY <2>1, AnswerKeep DEF AnswersInv, AnswersInOrder
<1> QED BY <1>1, <1>2, <1>3, <1>4, <1>5, <1>6, <1>7, <1>8, <1>10, <1>11, <1>12, <1>13
        DEF HttpNext, Round

LEMMA InitAnswers == HttpInit => AnswersInv
BY DEF HttpInit, AnswersInv, AnswerInv, AnswersInOrder

(***************************************************************************)
(* Every finished upload was answered file by file and in order, for any   *)
(* number of threads and processes and whatever failed: the response never *)
(* skips a file, repeats one or gives it the place of another, and a url   *)
(* stands behind "failed" on one line just where the file before failed.   *)
(***************************************************************************)
THEOREM AnswersInOrderTheorem == HttpSpec => []AnswersInOrder
<1>1. HttpInit => ReqInv /\ OutInv /\ AnswersInv
  BY InitReqInv, InitOutInv, InitAnswers
<1>2. TypeOK /\ PlaceInv /\ ReqInv /\ OutInv /\ AnswersInv /\ [HttpNext]_hvars =>
        ReqInv' /\ OutInv' /\ AnswersInv'
  BY NextReqInv, NextOutInv, NextAnswers
<1>3. AnswersInv => AnswersInOrder
  BY DEF AnswersInv
<1> QED BY <1>1, <1>2, <1>3, HttpPlaces, PTL DEF HttpSpec
===============================================================================
