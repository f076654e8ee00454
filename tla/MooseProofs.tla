----------------------------- MODULE MooseProofs -----------------------------
(***************************************************************************)
(* The MooseFS client, for any number of processes, any path, any sizes of *)
(* blocks and chunks, any number of attempts: FileLock and mfs_mkdirs over *)
(* commands that are repeated and given up; File::Read and File::Write     *)
(* over connections that are lost; SendAndReceive and the master.          *)
(***************************************************************************)
EXTENDS MCMoose, FiniteSetTheorems, SequenceTheorems, NaturalsInduction,
        WellFoundedInduction, TLAPS

all == <<part, m_vars, n_vars, f_vars>>

\* A step is one of a part, or leaves that part alone.
LEMMA PartStep ==
  ASSUME [Next]_all
  PROVE  /\ M!Next \/ UNCHANGED m_vars
         /\ N!Next \/ UNCHANGED n_vars
         /\ F!Next \/ UNCHANGED f_vars
BY DEF Next, MasterNext, NamesNext, FileNext, all

\* The operator of FiniteSets, seen through the three modules.
LEMMA SameCardinality ==
  \A S : /\ M!Cardinality(S) = Cardinality(S) /\ N!Cardinality(S) = Cardinality(S)
         /\ F!Cardinality(S) = Cardinality(S)
BY DEF Cardinality, M!Cardinality, N!Cardinality, F!Cardinality
-----------------------------------------------------------------------------
(***************************************************************************)
(* Names: what a process is doing, the lock file, and the path.            *)
(***************************************************************************)
LockFile == n_tree[Depth]

Calls == {"none", "open", "create", "unlock", "mkdirs", "rmdir", "stat"}
Places == {"none", "lookup", "mknod", "open", "mkdir", "unlink", "rmdir"}

NamesTypes ==
  /\ n_tree \in [1 .. Depth -> Nat] /\ n_made \in Nat
  /\ n_op \in [Procs -> Calls] /\ n_pc \in [Procs -> Places]
  /\ n_at \in [Procs -> Nat] /\ n_goal \in [Procs -> Nat] /\ n_dir \in [Procs -> Nat]
  /\ n_inode \in [Procs -> Nat \ {0}] /\ n_locked \in [Procs -> BOOLEAN]
  /\ n_result \in [Procs -> {"none", "0", "-1"}] /\ n_gone \in [Procs -> BOOLEAN]

PlaceInv(p) ==
  /\ n_pc[p] = "none" <=> n_op[p] = "none"
  /\ n_pc[p] = "lookup" => n_at[p] \in 1 .. n_goal[p] /\ n_goal[p] <= Depth
  /\ n_pc[p] = "lookup" /\ n_op[p] \in {"create", "unlock"} => n_goal[p] = Depth - 1
  /\ n_pc[p] = "unlink" => n_op[p] = "unlock"
  /\ n_pc[p] = "mknod" => n_op[p] = "create"
  /\ n_pc[p] = "open" => n_op[p] = "open"
  /\ n_pc[p] = "mkdir" => n_op[p] = "mkdirs"
  /\ n_pc[p] = "rmdir" => n_op[p] = "rmdir"
  /\ n_op[p] = "rmdir" => Depth > 1
  /\ n_op[p] = "unlock" => n_locked[p]
  /\ n_op[p] \in {"open", "create"} => ~n_locked[p]
  /\ n_op[p] = "mkdirs" => n_dir[p] \in 1 .. Depth - 1 /\ n_result[p] = "none"

\* No Unlink was repeated, and no File::Open went on without an inode.
Sound == n_broken \cap {"unlink", "open"} = {}

\* As long as there is a lock file its directory stays, so the Unlink of its
\* owner finds it there.
LockInv ==
  /\ LockFile # 0 /\ Depth > 1 => n_tree[Depth - 1] # 0
  /\ Sound =>
       /\ \A p \in Procs : n_locked[p] => LockFile # 0
       /\ \A p, q \in Procs : n_locked[p] /\ n_locked[q] => p = q
       /\ \A p \in Procs : n_pc[p] = "unlink" => n_inode[p] = N!Parent(Depth)
  /\ LockFile # 0 => n_broken # {} \/ \E p \in Procs : n_locked[p]

\* mfs_mkdirs leaves the components it has passed behind it.
PathInv ==
  \A p \in Procs : n_op[p] = "mkdirs" /\ ~n_gone[p] => \A c \in 1 .. n_dir[p] - 1 : n_tree[c] # 0

NamesInv == NamesTypes /\ (\A p \in Procs : PlaceInv(p)) /\ LockInv /\ PathInv

-----------------------------------------------------------------------------
\* What every command leaves alone in the tree.
TreeStep ==
  /\ n_tree' \in [1 .. Depth -> Nat] /\ n_made' \in Nat /\ n_gone' \in [Procs -> BOOLEAN]
  /\ LockFile' # 0 /\ Depth > 1 => n_tree'[Depth - 1] # 0
  /\ LockFile # 0 => N!Parent(Depth)' = N!Parent(Depth)
  /\ \A q \in Procs : n_op[q] = "mkdirs" /\ ~n_gone'[q] =>
       ~n_gone[q] /\ \A c \in 1 .. Depth - 1 : n_tree[c] # 0 => n_tree'[c] # 0

\* A step that leaves the tree alone.
LEMMA TreeStays ==
  ASSUME NamesInv, UNCHANGED <<n_tree, n_made, n_gone>>
  PROVE  TreeStep /\ LockFile' = LockFile
BY DEF NamesInv, NamesTypes, LockInv, TreeStep, LockFile, N!Parent

\* A command that is carried out.
LEMMA TreeGoesOn ==
  ASSUME NamesInv, NEW p \in Procs, n_pc[p] # "none",
         N!CarryOut(n_pc[p], n_inode[p], N!Target(p))
  PROVE  /\ TreeStep
         /\ n_pc[p] \notin {"mknod", "unlink"} => LockFile' = LockFile
         /\ n_pc[p] \in {"mknod", "unlink"} =>
              IF N!Answer(n_pc[p], n_inode[p], N!Target(p)) # "OK" THEN LockFile' = LockFile
              ELSE IF n_pc[p] = "mknod" THEN LockFile = 0 /\ LockFile' # 0
              ELSE LockFile' = 0
<1> DEFINE cmd == n_pc[p]
           i == n_inode[p]
           c == N!Target(p)
<1>1. /\ n_tree \in [1 .. Depth -> Nat] /\ n_made \in Nat /\ n_gone \in [Procs -> BOOLEAN]
      /\ i \in Nat \ {0} /\ cmd \in Places /\ Depth \in Nat \ {0} /\ n_dir[p] \in Nat
      /\ n_tree[Depth] # 0 /\ Depth > 1 => n_tree[Depth - 1] # 0
      /\ PlaceInv(p)
  BY MooseAssumption DEF NamesInv, NamesTypes, LockInv, LockFile
<1>2. /\ cmd = "mkdir" => c = n_dir[p] /\ c \in 1 .. Depth - 1
      /\ cmd = "rmdir" => c = Depth - 1 /\ c \in 1 .. Depth - 1
      /\ cmd \in {"mknod", "unlink"} => c = Depth
  BY <1>1 DEF N!Target, PlaceInv
<1>3. CASE ~(N!Answer(cmd, i, c) = "OK" /\ (N!Creates(cmd) \/ N!Removes(cmd)))
  <2>1. UNCHANGED <<n_tree, n_made, n_gone>>
    BY <1>3 DEF N!CarryOut
  <2>2. cmd \in {"mknod", "unlink"} => N!Answer(cmd, i, c) # "OK"
    BY <1>3 DEF N!Creates, N!Removes
  <2> QED BY <2>1, <2>2, TreeStays
<1>4. CASE N!Answer(cmd, i, c) = "OK" /\ N!Creates(cmd)
  <2>1. /\ n_made' = n_made + 1 /\ n_tree' = [n_tree EXCEPT ![c] = n_made + 1]
        /\ n_gone' = n_gone
    BY <1>4 DEF N!CarryOut
  <2>2. cmd \in {"mknod", "mkdir"} /\ i = N!Parent(c) /\ n_tree[c] = 0
    BY <1>4 DEF N!Creates, N!Answer
  <2>3. c \in 1 .. Depth /\ n_made + 1 # 0 /\ n_made + 1 \in Nat
    BY <1>1, <1>2, <2>2
  <2>4. /\ n_tree' \in [1 .. Depth -> Nat] /\ n_made' \in Nat /\ n_gone' \in [Procs -> BOOLEAN]
        /\ n_tree'[c] # 0 /\ \A d \in 1 .. Depth : d # c => n_tree'[d] = n_tree[d]
    BY <1>1, <2>1, <2>3
  <2>5. CASE cmd = "mknod"
    <3>1. c = Depth /\ LockFile = 0 /\ LockFile' # 0
      BY <1>2, <2>2, <2>4, <2>5 DEF LockFile
    <3>2. Depth > 1 => n_tree'[Depth - 1] # 0
      <4> SUFFICES ASSUME Depth > 1 PROVE n_tree'[Depth - 1] # 0
        OBVIOUS
      <4>1. Depth - 1 \in 1 .. Depth /\ Depth - 1 # c /\ Depth # 1
        BY <1>1, <3>1
      <4>2. n_tree[Depth - 1] # 0
        BY <1>1, <2>2, <3>1, <4>1 DEF N!Parent
      <4> QED BY <2>4, <4>1, <4>2
    <3>3. \A d \in 1 .. Depth - 1 : n_tree'[d] = n_tree[d]
      BY <1>1, <2>4, <3>1
    <3> QED BY <2>1, <2>4, <2>5, <1>4, <3>1, <3>2, <3>3 DEF TreeStep
  <2>6. CASE cmd = "mkdir"
    <3>1. c # Depth /\ Depth \in 1 .. Depth
      BY <1>1, <1>2, <2>6
    <3>2. LockFile' = LockFile
      BY <2>4, <3>1 DEF LockFile
    <3>3. \A d \in 1 .. Depth - 1 : n_tree[d] # 0 => n_tree'[d] # 0 /\ n_tree'[d] = n_tree[d]
      BY <1>1, <2>2, <2>4
    <3>4. LockFile # 0 /\ Depth > 1 => n_tree[Depth - 1] # 0 /\ Depth - 1 \in 1 .. Depth - 1
      BY <1>1 DEF LockFile
    <3>5. LockFile # 0 => N!Parent(Depth)' = N!Parent(Depth)
      BY <1>1, <3>3, <3>4 DEF N!Parent
    <3> QED BY <2>1, <2>4, <2>6, <3>2, <3>3, <3>4, <3>5 DEF TreeStep
  <2> QED BY <2>2, <2>5, <2>6
<1>5. CASE N!Answer(cmd, i, c) = "OK" /\ N!Removes(cmd)
  <2>1. ~N!Creates(cmd) /\ cmd \in {"unlink", "rmdir"}
    BY <1>5 DEF N!Removes, N!Creates
  <2>2. /\ n_tree' = [n_tree EXCEPT ![c] = 0] /\ n_made' = n_made
        /\ n_gone' = IF cmd = "rmdir" THEN [q \in Procs |-> TRUE] ELSE n_gone
    BY <1>5, <2>1 DEF N!CarryOut
  <2>3. cmd = "rmdir" => N!Empty(c)
    BY <1>5, <2>1 DEF N!Answer
  <2>4. c \in 1 .. Depth
    BY <1>1, <1>2, <2>1
  <2>5. /\ n_tree' \in [1 .. Depth -> Nat] /\ n_made' \in Nat /\ n_gone' \in [Procs -> BOOLEAN]
        /\ n_tree'[c] = 0 /\ \A d \in 1 .. Depth : d # c => n_tree'[d] = n_tree[d]
    BY <1>1, <2>2, <2>4
  <2>6. CASE cmd = "unlink"
    <3>1. c = Depth /\ LockFile' = 0 /\ n_gone' = n_gone
      BY <1>2, <2>2, <2>5, <2>6 DEF LockFile
    <3>2. \A d \in 1 .. Depth - 1 : n_tree'[d] = n_tree[d]
      BY <1>1, <2>5, <3>1
    <3>3. N!Parent(Depth)' = N!Parent(Depth)
      BY <1>1, <3>2 DEF N!Parent
    <3> QED BY <1>5, <2>5, <2>6, <3>1, <3>2, <3>3 DEF TreeStep
  <2>7. CASE cmd = "rmdir"
    <3>1. c = Depth - 1 /\ Depth > 1 /\ n_tree[Depth] = 0 /\ Depth # c
      BY <1>1, <1>2, <2>3, <2>7 DEF N!Empty
    <3>2. LockFile' = 0 /\ LockFile = 0
      BY <1>1, <2>5, <3>1 DEF LockFile
    <3>3. \A q \in Procs : n_gone'[q]
      BY <2>2, <2>7
    <3> QED BY <2>5, <2>7, <3>2, <3>3 DEF TreeStep
  <2> QED BY <2>1, <2>6, <2>7
<1> QED BY <1>3, <1>4, <1>5
\* A step of process p: the others stay where they are.
Only(p) ==
  /\ n_op' = [n_op EXCEPT ![p] = n_op'[p]] /\ n_pc' = [n_pc EXCEPT ![p] = n_pc'[p]]
  /\ n_at' = [n_at EXCEPT ![p] = n_at'[p]] /\ n_goal' = [n_goal EXCEPT ![p] = n_goal'[p]]
  /\ n_dir' = [n_dir EXCEPT ![p] = n_dir'[p]] /\ n_inode' = [n_inode EXCEPT ![p] = n_inode'[p]]
  /\ n_locked' = [n_locked EXCEPT ![p] = n_locked'[p]]
  /\ n_result' = [n_result EXCEPT ![p] = n_result'[p]]

Typed(p) ==
  /\ n_op[p] \in Calls /\ n_pc[p] \in Places /\ n_at[p] \in Nat /\ n_goal[p] \in Nat
  /\ n_dir[p] \in Nat /\ n_inode[p] \in Nat \ {0} /\ n_locked[p] \in BOOLEAN
  /\ n_result[p] \in {"none", "0", "-1"}

PathOf(p) == n_op[p] = "mkdirs" /\ ~n_gone[p] => \A c \in 1 .. n_dir[p] - 1 : n_tree[c] # 0

Moved(p) ==
  /\ NamesTypes' /\ (\A q \in Procs : PlaceInv(q)') /\ PathInv'
  /\ \A q \in Procs \ {p} :
       n_pc'[q] = n_pc[q] /\ n_inode'[q] = n_inode[q] /\ n_locked'[q] = n_locked[q]

\* A step of one process, when what it changes of that process is in order.
LEMMA Moves ==
  ASSUME NamesInv, TreeStep, NEW p \in Procs, Only(p), Typed(p)', PlaceInv(p)', PathOf(p)'
  PROVE  Moved(p)
<1>1. NamesTypes'
  BY DEF NamesInv, NamesTypes, TreeStep, Only, Typed
<1>2. ASSUME NEW q \in Procs \ {p}
      PROVE  /\ n_op'[q] = n_op[q] /\ n_pc'[q] = n_pc[q] /\ n_at'[q] = n_at[q]
             /\ n_goal'[q] = n_goal[q] /\ n_dir'[q] = n_dir[q] /\ n_inode'[q] = n_inode[q]
             /\ n_locked'[q] = n_locked[q] /\ n_result'[q] = n_result[q]
  BY DEF NamesInv, NamesTypes, Only
<1>3. ASSUME NEW q \in Procs PROVE PlaceInv(q)'
  <2>1. CASE q = p
    BY <2>1
  <2>2. CASE q # p
    BY <1>2, <2>2 DEF NamesInv, PlaceInv
  <2> QED BY <2>1, <2>2
<1>4. ASSUME NEW q \in Procs PROVE PathOf(q)'
  <2>1. CASE q = p
    BY <2>1
  <2>2. CASE q # p
    <3> SUFFICES ASSUME n_op'[q] = "mkdirs", ~n_gone'[q], NEW c \in 1 .. n_dir'[q] - 1
                 PROVE  n_tree'[c] # 0
      BY DEF PathOf
    <3>1. /\ n_op[q] = "mkdirs" /\ n_dir'[q] = n_dir[q] /\ ~n_gone[q]
          /\ \A d \in 1 .. Depth - 1 : n_tree[d] # 0 => n_tree'[d] # 0
      BY <1>2, <2>2 DEF TreeStep
    <3>2. n_dir[q] \in 1 .. Depth - 1 /\ Depth \in Nat
      BY <3>1, MooseAssumption DEF NamesInv, PlaceInv
    <3>3. c \in 1 .. Depth - 1 /\ c \in 1 .. n_dir[q] - 1
      BY <3>1, <3>2
    <3> QED BY <3>1, <3>3 DEF NamesInv, PathInv
  <2> QED BY <2>1, <2>2
<1> QED BY <1>1, <1>2, <1>3, <1>4 DEF PathInv, PathOf, Moved

\* A step that has nothing to do with the lock, but for its Unlink to come.
LEMMA LockStays ==
  ASSUME NamesInv, TreeStep, NEW p \in Procs,
         \A q \in Procs \ {p} : n_pc'[q] = n_pc[q] /\ n_inode'[q] = n_inode[q],
         n_locked' = n_locked, LockFile' = LockFile, n_broken' = n_broken,
         n_pc'[p] = "unlink" /\ Sound => n_inode'[p] = N!Parent(Depth)'
  PROVE  LockInv'
<1>1. Sound' <=> Sound
  BY DEF Sound
<1>2. LockFile' # 0 /\ Depth > 1 => n_tree'[Depth - 1] # 0
  BY DEF TreeStep
<1>3. ASSUME Sound, NEW q \in Procs, n_pc'[q] = "unlink" PROVE n_inode'[q] = N!Parent(Depth)'
  <2>1. \A r \in Procs : n_locked[r] => LockFile # 0
    BY <1>3 DEF NamesInv, LockInv
  <2>2. CASE q = p
    BY <1>3, <2>1, <2>2
  <2>3. CASE q # p
    <3>1. n_pc[q] = "unlink" /\ n_inode'[q] = n_inode[q]
      BY <1>3, <2>3
    <3>2. n_locked[q]
      BY <3>1 DEF NamesInv, PlaceInv
    <3>3. N!Parent(Depth)' = N!Parent(Depth)
      BY <2>1, <3>2 DEF TreeStep
    <3> QED BY <1>3, <3>1, <3>3 DEF NamesInv, LockInv
  <2> QED BY <2>2, <2>3
<1> QED BY <1>1, <1>2, <1>3 DEF NamesInv, LockInv

\* The lock file is made by the process that has the lock from then on.
LEMMA LockTaken ==
  ASSUME NamesInv, TreeStep, NEW p \in Procs,
         \A q \in Procs \ {p} : n_pc'[q] = n_pc[q] /\ n_locked'[q] = n_locked[q],
         n_pc'[p] = "none", n_locked'[p], LockFile = 0, LockFile' # 0, n_broken' = n_broken
  PROVE  LockInv'
<1>1. Sound' <=> Sound
  BY DEF Sound
<1>2. ASSUME Sound, NEW q \in Procs \ {p} PROVE ~n_locked'[q] /\ n_pc'[q] # "unlink"
  BY <1>2 DEF NamesInv, LockInv, PlaceInv
<1>3. LockFile' # 0 /\ Depth > 1 => n_tree'[Depth - 1] # 0
  BY DEF TreeStep
<1> QED BY <1>1, <1>2, <1>3 DEF LockInv

\* The FileLock is gone, and its file too or an Unlink has failed.
LEMMA LockReleased ==
  ASSUME NamesInv, TreeStep, NEW p \in Procs, n_locked[p],
         \A q \in Procs \ {p} : n_pc'[q] = n_pc[q] /\ n_locked'[q] = n_locked[q],
         n_pc'[p] = "none", ~n_locked'[p], n_broken \subseteq n_broken',
         LockFile' # 0 => n_broken' # {}
  PROVE  LockInv'
<1>1. Sound' => Sound
  BY DEF Sound
<1>2. ASSUME Sound, NEW q \in Procs PROVE ~n_locked'[q] /\ n_pc'[q] # "unlink"
  BY <1>2 DEF NamesInv, LockInv, PlaceInv
<1>3. LockFile' # 0 /\ Depth > 1 => n_tree'[Depth - 1] # 0
  BY DEF TreeStep
<1> QED BY <1>1, <1>2, <1>3 DEF LockInv

\* The promise is broken.
LEMMA LockBroken ==
  ASSUME NamesInv, TreeStep, n_broken' # {},
         Sound' => /\ Sound /\ LockFile = 0
                   /\ n_locked' = n_locked /\ n_pc' = n_pc
  PROVE  LockInv'
<1>1. ASSUME Sound', NEW q \in Procs PROVE ~n_locked'[q] /\ n_pc'[q] # "unlink"
  BY <1>1 DEF NamesInv, LockInv, PlaceInv
<1>2. LockFile' # 0 /\ Depth > 1 => n_tree'[Depth - 1] # 0
  BY DEF TreeStep
<1> QED BY <1>1, <1>2 DEF LockInv
-----------------------------------------------------------------------------
\* The command of p comes to st.
LEMMA Answered ==
  ASSUME NamesInv, NEW p \in Procs, n_pc[p] # "none", NEW st, N!RPC(p, st)
  PROVE  /\ TreeStep
         /\ n_pc[p] \notin {"mknod", "unlink"} => LockFile' = LockFile
         /\ n_pc[p] = "mknod" => IF st = "OK" THEN LockFile = 0 /\ LockFile' # 0
                                 ELSE LockFile' = LockFile
         /\ n_pc[p] = "unlink" =>
              \/ st = "OK" /\ LockFile' = 0
              \/ LockFile' = LockFile /\
                   (st = "ERROR_IO" \/ n_inode[p] # N!Parent(Depth) \/ LockFile = 0)
         /\ n_pc[p] = "lookup" => /\ UNCHANGED <<n_tree, n_made, n_gone>>
                                  /\ st = "OK" => n_tree[n_at[p]] # 0
         /\ n_pc[p] = "mkdir" /\ st \in {"OK", "EEXIST"} => n_tree'[n_dir[p]] # 0
<1> DEFINE cmd == n_pc[p]
           i == n_inode[p]
           c == N!Target(p)
<1>1. CASE UNCHANGED <<n_tree, n_made, n_gone>> /\ st = "ERROR_IO"
  BY <1>1, TreeStays
<1>2. CASE st = N!Answer(cmd, i, c) /\ N!CarryOut(cmd, i, c)
  <2>1. /\ TreeStep
        /\ cmd \notin {"mknod", "unlink"} => LockFile' = LockFile
        /\ cmd \in {"mknod", "unlink"} =>
             IF st # "OK" THEN LockFile' = LockFile
             ELSE IF cmd = "mknod" THEN LockFile = 0 /\ LockFile' # 0 ELSE LockFile' = 0
    BY <1>2, TreeGoesOn
  <2>2. cmd = "unlink" /\ i = N!Parent(Depth) /\ LockFile # 0 => st = "OK"
    BY <1>2 DEF N!Answer, N!Creates, N!Exists, N!Target, LockFile
  <2>3. cmd = "lookup" /\ st = "OK" => n_tree[n_at[p]] # 0
    BY <1>2 DEF N!Answer, N!Creates, N!Exists, N!Target
  <2>4. cmd = "lookup" => UNCHANGED <<n_tree, n_made, n_gone>>
    BY <1>2 DEF N!CarryOut, N!Creates, N!Removes
  <2>5. ASSUME cmd = "mkdir", st \in {"OK", "EEXIST"} PROVE n_tree'[n_dir[p]] # 0
    <3>1. c = n_dir[p] /\ c \in 1 .. Depth /\ n_tree \in [1 .. Depth -> Nat] /\ n_made \in Nat
      BY <2>5, MooseAssumption DEF N!Target, NamesInv, NamesTypes, PlaceInv
    <3>2. CASE st = "OK"
      <4>1. n_tree' = [n_tree EXCEPT ![c] = n_made + 1]
        BY <1>2, <2>5, <3>2 DEF N!CarryOut, N!Creates
      <4> QED BY <3>1, <4>1
    <3>3. CASE st = "EEXIST"
      <4>1. n_tree[c] # 0 /\ n_tree' = n_tree
        BY <1>2, <2>5, <3>3 DEF N!Answer, N!Creates, N!Removes, N!CarryOut
      <4> QED BY <3>1, <4>1
    <3> QED BY <2>5, <3>2, <3>3
  <2> QED BY <2>1, <2>2, <2>3, <2>4, <2>5
<1> QED BY <1>1, <1>2 DEF N!RPC

\* A call returns.
LEMMA DoneMoves ==
  ASSUME NamesInv, TreeStep, NEW p \in Procs, N!Done(p),
         n_locked' = [n_locked EXCEPT ![p] = n_locked'[p]], n_locked'[p] \in BOOLEAN,
         n_result' = [n_result EXCEPT ![p] = n_result'[p]],
         n_result'[p] \in {"none", "0", "-1"}
  PROVE  Moved(p) /\ n_pc'[p] = "none"
<1>1. /\ n_op'[p] = "none" /\ n_pc'[p] = "none" /\ n_at'[p] = 1 /\ n_goal'[p] = 0
      /\ n_inode'[p] = 1 /\ n_dir'[p] = 0 /\ Only(p)
  BY DEF N!Done, N!Root, NamesInv, NamesTypes, Only
<1>2. Typed(p)'
  BY <1>1 DEF Typed, Calls, Places
<1>3. PlaceInv(p)'
  BY <1>1 DEF PlaceInv
<1>4. PathOf(p)'
  BY <1>1 DEF PathOf
<1> QED BY <1>1, <1>2, <1>3, <1>4, Moves

\* A command is sent again, or given up.
LEMMA RetryMoves ==
  ASSUME NamesInv, TreeStep, NEW p \in Procs, N!Retry(p), ~n_locked[p], n_result' = n_result
  PROVE  Moved(p) /\ n_pc'[p] \in {"none", "lookup"} /\ n_locked' = n_locked
<1>1. /\ n_locked' = n_locked /\ n_locked' = [n_locked EXCEPT ![p] = n_locked'[p]]
      /\ n_result' = [n_result EXCEPT ![p] = n_result'[p]]
      /\ n_locked'[p] \in BOOLEAN /\ n_result'[p] \in {"none", "0", "-1"} /\ ~n_locked'[p]
  BY DEF N!Retry, NamesInv, NamesTypes
<1>2. CASE N!Done(p)
  BY <1>1, <1>2, DoneMoves
<1>3. CASE n_op' = [n_op EXCEPT ![p] = "open"] /\ N!Lookup(p, Depth) /\ n_dir' = n_dir
  <2>1. /\ n_op'[p] = "open" /\ n_pc'[p] = "lookup" /\ n_at'[p] = 1 /\ n_goal'[p] = Depth
        /\ n_inode'[p] = 1 /\ n_dir'[p] \in Nat /\ Only(p)
    BY <1>1, <1>3 DEF N!Lookup, N!Root, NamesInv, NamesTypes, Only
  <2>2. Typed(p)'
    BY <1>1, <2>1, MooseAssumption DEF Typed, Calls, Places
  <2>3. PlaceInv(p)'
    BY <1>1, <2>1, MooseAssumption DEF PlaceInv
  <2>4. PathOf(p)'
    BY <2>1 DEF PathOf
  <2> QED BY <1>1, <2>1, <2>2, <2>3, <2>4, Moves
<1> QED BY <1>2, <1>3 DEF N!Retry

\* The command cmd on component c comes next, after the lookup of its parent.
LEMMA ParentMoves ==
  ASSUME NamesInv, TreeStep, NEW p \in Procs, NEW c \in 1 .. Depth, NEW cmd \in Places \ {"none"},
         N!InParent(p, c, cmd),
         n_op' = [n_op EXCEPT ![p] = n_op'[p]], n_op'[p] \in Calls \ {"none"},
         n_dir' = [n_dir EXCEPT ![p] = n_dir'[p]], n_dir'[p] \in Nat,
         n_locked' = n_locked, n_result' = [n_result EXCEPT ![p] = n_result'[p]],
         n_result'[p] \in {"none", "0", "-1"},
         <<cmd, n_op'[p]>> \in {<<"unlink", "unlock">>, <<"mknod", "create">>,
                                <<"mkdir", "mkdirs">>, <<"rmdir", "rmdir">>},
         n_op'[p] \in {"create", "unlock"} => c = Depth,
         n_op'[p] = "rmdir" => Depth > 1,
         n_op'[p] = "unlock" => n_locked[p],
         n_op'[p] = "create" => ~n_locked[p],
         n_op'[p] = "mkdirs" => n_dir'[p] \in 1 .. Depth - 1 /\ n_result'[p] = "none",
         PathOf(p)'
  PROVE  Moved(p) /\ (n_pc'[p] = "unlink" => n_inode'[p] = N!Parent(Depth)')
<1>1. /\ n_locked'[p] = n_locked[p] /\ n_locked[p] \in BOOLEAN /\ Depth \in Nat
      /\ n_locked' = [n_locked EXCEPT ![p] = n_locked'[p]]
  BY MooseAssumption DEF NamesInv, NamesTypes
<1>2. CASE c = 1
  <2>1. /\ n_pc'[p] = cmd /\ n_inode'[p] = 1 /\ n_at'[p] = n_at[p] /\ n_goal'[p] = n_goal[p]
        /\ n_at[p] \in Nat /\ n_goal[p] \in Nat /\ Only(p)
    BY <1>1, <1>2 DEF N!InParent, N!Root, NamesInv, NamesTypes, Only
  <2>2. Typed(p)'
    BY <1>1, <2>1 DEF Typed
  <2>3. PlaceInv(p)'
    BY <1>1, <2>1 DEF PlaceInv
  <2>4. Moved(p)
    BY <2>1, <2>2, <2>3, Moves
  <2>5. n_pc'[p] = "unlink" => n_inode'[p] = N!Parent(Depth)'
    BY <1>2, <2>1 DEF N!Parent, N!Root
  <2> QED BY <2>4, <2>5
<1>3. CASE c # 1
  <2>1. /\ n_pc'[p] = "lookup" /\ n_inode'[p] = 1 /\ n_at'[p] = 1 /\ n_goal'[p] = c - 1
        /\ Only(p)
    BY <1>1, <1>3 DEF N!InParent, N!Lookup, N!Root, NamesInv, NamesTypes, Only
  <2>2. c - 1 \in Nat /\ 1 \in 1 .. c - 1 /\ c - 1 <= Depth
    BY <1>1, <1>3
  <2>3. Typed(p)'
    BY <1>1, <2>1, <2>2 DEF Typed, Places
  <2>4. PlaceInv(p)'
    BY <1>1, <2>1, <2>2 DEF PlaceInv
  <2> QED BY <2>1, <2>3, <2>4, Moves
<1> QED BY <1>2, <1>3
-----------------------------------------------------------------------------
\* A call begins: the tree and the locks stay.
LEMMA BeginTree ==
  ASSUME NamesInv, NEW p \in Procs, NEW o, N!Begin(p, o)
  PROVE  /\ TreeStep /\ LockFile' = LockFile /\ n_locked' = n_locked /\ n_broken' = n_broken
         /\ n_op' = [n_op EXCEPT ![p] = o] /\ n_op'[p] = o
         /\ n_result' = [n_result EXCEPT ![p] = n_result'[p]] /\ n_result'[p] = "none"
<1>1. /\ n_op[p] = "none" /\ n_op' = [n_op EXCEPT ![p] = o]
      /\ n_result' = [n_result EXCEPT ![p] = "none"]
      /\ n_gone' = [n_gone EXCEPT ![p] = FALSE]
      /\ UNCHANGED <<n_tree, n_made, n_locked, n_broken>>
  BY DEF N!Begin
<1>2. n_op'[p] = o /\ n_result'[p] = "none" /\ n_gone' \in [Procs -> BOOLEAN]
  BY <1>1 DEF NamesInv, NamesTypes
<1>3. \A q \in Procs : n_op[q] = "mkdirs" => q # p /\ (n_gone'[q] <=> n_gone[q])
  BY <1>1 DEF NamesInv, NamesTypes
<1>4. LockFile' = LockFile /\ N!Parent(Depth)' = N!Parent(Depth)
  BY <1>1 DEF LockFile, N!Parent
<1>5. TreeStep
  BY <1>1, <1>2, <1>3, <1>4 DEF NamesInv, NamesTypes, LockInv, TreeStep
<1> QED BY <1>1, <1>2, <1>4, <1>5

\* FileLock::Lock and mfs_stat begin with the lookup of the lock file.
LEMMA LookupKeeps ==
  ASSUME NamesInv, NEW p \in Procs, NEW o \in {"open", "stat"}, N!Begin(p, o),
         N!Lookup(p, Depth), n_dir' = n_dir, o = "open" => ~n_locked[p]
  PROVE  NamesInv'
<1>1. /\ TreeStep /\ LockFile' = LockFile /\ n_locked' = n_locked /\ n_broken' = n_broken
      /\ n_op' = [n_op EXCEPT ![p] = o] /\ n_op'[p] = o
      /\ n_result' = [n_result EXCEPT ![p] = n_result'[p]] /\ n_result'[p] = "none"
  BY BeginTree
<1>2. /\ n_pc'[p] = "lookup" /\ n_at'[p] = 1 /\ n_goal'[p] = Depth /\ n_inode'[p] = 1
      /\ n_dir'[p] \in Nat /\ n_locked'[p] \in BOOLEAN /\ n_locked'[p] = n_locked[p] /\ Only(p)
  BY <1>1 DEF N!Lookup, N!Root, NamesInv, NamesTypes, Only
<1>3. Typed(p)'
  BY <1>1, <1>2, MooseAssumption DEF Typed, Calls, Places
<1>4. PlaceInv(p)'
  BY <1>1, <1>2, MooseAssumption DEF PlaceInv
<1>5. PathOf(p)'
  BY <1>1 DEF PathOf
<1>6. Moved(p)
  BY <1>1, <1>2, <1>3, <1>4, <1>5, Moves
<1>7. LockInv'
  BY <1>1, <1>2, <1>6, LockStays DEF Moved
<1> QED BY <1>6, <1>7 DEF Moved, NamesInv

\* FileLock::Unlock begins.
LEMMA UnlockKeeps ==
  ASSUME NamesInv, NEW p \in Procs, N!Unlock(p)
  PROVE  NamesInv'
<1>1. /\ n_locked[p] /\ N!Begin(p, "unlock") /\ N!InParent(p, Depth, "unlink") /\ n_dir' = n_dir
  BY DEF N!Unlock
<1>2. /\ TreeStep /\ LockFile' = LockFile /\ n_locked' = n_locked /\ n_broken' = n_broken
      /\ n_op' = [n_op EXCEPT ![p] = n_op'[p]] /\ n_op'[p] = "unlock"
      /\ n_result' = [n_result EXCEPT ![p] = n_result'[p]] /\ n_result'[p] = "none"
  BY <1>1, BeginTree
<1>3. n_dir' = [n_dir EXCEPT ![p] = n_dir'[p]] /\ n_dir'[p] \in Nat /\ Depth \in 1 .. Depth
  BY <1>1, MooseAssumption DEF NamesInv, NamesTypes
<1>4. PathOf(p)' /\ n_op'[p] \in Calls \ {"none"} /\ "unlink" \in Places \ {"none"}
  BY <1>2 DEF PathOf, Calls, Places
<1>5. Moved(p) /\ (n_pc'[p] = "unlink" => n_inode'[p] = N!Parent(Depth)')
  BY <1>1, <1>2, <1>3, <1>4, ParentMoves
<1>6. LockInv'
  BY <1>2, <1>5, LockStays DEF Moved
<1> QED BY <1>5, <1>6 DEF Moved, NamesInv

\* mfs_mkdirs begins.
LEMMA MkdirsKeeps ==
  ASSUME NamesInv, NEW p \in Procs, N!Mkdirs(p)
  PROVE  NamesInv'
<1>1. /\ Depth > 1 /\ N!Begin(p, "mkdirs") /\ N!InParent(p, 1, "mkdir")
      /\ n_dir' = [n_dir EXCEPT ![p] = 1]
  BY DEF N!Mkdirs
<1>2. /\ TreeStep /\ LockFile' = LockFile /\ n_locked' = n_locked /\ n_broken' = n_broken
      /\ n_op' = [n_op EXCEPT ![p] = n_op'[p]] /\ n_op'[p] = "mkdirs"
      /\ n_result' = [n_result EXCEPT ![p] = n_result'[p]] /\ n_result'[p] = "none"
  BY <1>1, BeginTree
<1>3. /\ n_dir'[p] = 1 /\ n_dir' = [n_dir EXCEPT ![p] = n_dir'[p]]
      /\ n_dir'[p] \in 1 .. Depth - 1 /\ n_dir'[p] \in Nat /\ 1 \in 1 .. Depth
  BY <1>1, MooseAssumption DEF NamesInv, NamesTypes
<1>4. PathOf(p)' /\ n_op'[p] \in Calls \ {"none"} /\ "mkdir" \in Places \ {"none"}
  <2>1. \A c \in 1 .. n_dir'[p] - 1 : FALSE
    BY <1>3
  <2> QED BY <1>2, <2>1 DEF PathOf, Calls, Places
<1>5. Moved(p) /\ (n_pc'[p] = "unlink" => n_inode'[p] = N!Parent(Depth)')
  BY <1>1, <1>2, <1>3, <1>4, ParentMoves
<1>6. LockInv'
  BY <1>2, <1>5, LockStays DEF Moved
<1> QED BY <1>5, <1>6 DEF Moved, NamesInv

\* Rmdir begins.
LEMMA RmdirKeeps ==
  ASSUME NamesInv, NEW p \in Procs, N!Rmdir(p)
  PROVE  NamesInv'
<1>1. /\ Depth > 1 /\ N!Begin(p, "rmdir") /\ N!InParent(p, Depth - 1, "rmdir") /\ n_dir' = n_dir
  BY DEF N!Rmdir
<1>2. /\ TreeStep /\ LockFile' = LockFile /\ n_locked' = n_locked /\ n_broken' = n_broken
      /\ n_op' = [n_op EXCEPT ![p] = n_op'[p]] /\ n_op'[p] = "rmdir"
      /\ n_result' = [n_result EXCEPT ![p] = n_result'[p]] /\ n_result'[p] = "none"
  BY <1>1, BeginTree
<1>3. n_dir' = [n_dir EXCEPT ![p] = n_dir'[p]] /\ n_dir'[p] \in Nat /\ Depth - 1 \in 1 .. Depth
  BY <1>1, MooseAssumption DEF NamesInv, NamesTypes
<1>4. PathOf(p)' /\ n_op'[p] \in Calls \ {"none"} /\ "rmdir" \in Places \ {"none"}
  BY <1>2 DEF PathOf, Calls, Places
<1>5. Moved(p) /\ (n_pc'[p] = "unlink" => n_inode'[p] = N!Parent(Depth)')
  BY <1>1, <1>2, <1>3, <1>4, ParentMoves
<1>6. LockInv'
  BY <1>2, <1>5, LockStays DEF Moved
<1> QED BY <1>5, <1>6 DEF Moved, NamesInv
\* What a command of p leaves when the call is over and it was not about the lock.
LEMMA DoneKeeps ==
  ASSUME NamesInv, TreeStep, NEW p \in Procs, N!Done(p), n_locked' = n_locked,
         n_result' = [n_result EXCEPT ![p] = n_result'[p]],
         n_result'[p] \in {"none", "0", "-1"}, LockFile' = LockFile, n_broken' = n_broken
  PROVE  NamesInv'
<1>1. n_locked' = [n_locked EXCEPT ![p] = n_locked'[p]] /\ n_locked'[p] \in BOOLEAN
  BY DEF NamesInv, NamesTypes
<1>2. Moved(p) /\ n_pc'[p] = "none"
  BY <1>1, DoneMoves
<1>3. LockInv'
  BY <1>2, LockStays DEF Moved
<1> QED BY <1>2, <1>3 DEF Moved, NamesInv

\* Sending a command again keeps the lock and the paths in order.
LEMMA RetryKeeps ==
  ASSUME NamesInv, TreeStep, NEW p \in Procs, N!Retry(p), ~n_locked[p], n_result' = n_result,
         LockFile' = LockFile, n_broken' = n_broken
  PROVE  NamesInv'
<1>1. Moved(p) /\ n_pc'[p] # "unlink" /\ n_locked' = n_locked
  BY RetryMoves
<1>2. LockInv'
  BY <1>1, LockStays DEF Moved
<1> QED BY <1>1, <1>2 DEF Moved, NamesInv

\* locked_ is set or reset at the end of a call.
LEMMA LockedMoves ==
  ASSUME NamesInv, TreeStep, NEW p \in Procs, N!Done(p), NEW k \in BOOLEAN,
         n_locked' = [n_locked EXCEPT ![p] = k], n_result' = n_result
  PROVE  Moved(p) /\ n_pc'[p] = "none" /\ n_locked'[p] = k
<1>1. /\ n_locked'[p] = k /\ n_locked' = [n_locked EXCEPT ![p] = n_locked'[p]]
      /\ n_result' = [n_result EXCEPT ![p] = n_result'[p]]
      /\ n_result'[p] \in {"none", "0", "-1"}
  BY DEF NamesInv, NamesTypes
<1> QED BY <1>1, DoneMoves

\* File::Open goes on without an inode: Sound no longer holds.
LEMMA OpenGarbageKeeps ==
  ASSUME NamesInv, NEW p \in Procs, N!OpenGarbage(p)
  PROVE  NamesInv'
<1>1. n_pc[p] = "open" /\ UNCHANGED <<n_tree, n_made, n_result, n_gone>>
  BY DEF N!OpenGarbage
<1>2. TreeStep /\ LockFile' = LockFile /\ ~n_locked[p]
  BY <1>1, TreeStays DEF NamesInv, PlaceInv
<1>3. CASE N!Locked(p) /\ n_broken' = n_broken \cup {"open"}
  <2>1. N!Done(p) /\ n_locked' = [n_locked EXCEPT ![p] = TRUE]
    BY <1>3 DEF N!Locked
  <2>2. Moved(p)
    BY <1>1, <1>2, <2>1, LockedMoves
  <2>3. n_broken' # {} /\ ~Sound'
    BY <1>3 DEF Sound
  <2>4. LockInv'
    BY <1>2, <2>3, LockBroken
  <2> QED BY <2>2, <2>4 DEF Moved, NamesInv
<1>4. CASE N!Retry(p) /\ n_broken' = n_broken
  BY <1>1, <1>2, <1>4, RetryKeeps
<1> QED BY <1>3, <1>4 DEF N!OpenGarbage

\* Mknod makes the lock file in a directory that is there, at most once.
LEMMA MknodKeeps ==
  ASSUME NamesInv, NEW p \in Procs, N!Mknod(p)
  PROVE  NamesInv'
<1>1. n_pc[p] = "mknod" /\ n_result' = n_result /\ n_broken' = n_broken
  BY DEF N!Mknod
<1>2. PICK st \in N!Statuses : N!RPC(p, st) /\ IF st = "OK" THEN N!Locked(p) ELSE N!Retry(p)
  BY DEF N!Mknod
<1>3. /\ TreeStep /\ ~n_locked[p]
      /\ IF st = "OK" THEN LockFile = 0 /\ LockFile' # 0 ELSE LockFile' = LockFile
  BY <1>1, <1>2, Answered DEF NamesInv, PlaceInv
<1>4. CASE st = "OK"
  <2>1. N!Done(p) /\ n_locked' = [n_locked EXCEPT ![p] = TRUE]
    BY <1>2, <1>4 DEF N!Locked
  <2>2. Moved(p) /\ n_pc'[p] = "none" /\ n_locked'[p] = TRUE
    BY <1>1, <1>3, <2>1, LockedMoves
  <2>3. LockInv'
    BY <1>1, <1>3, <1>4, <2>2, LockTaken DEF Moved
  <2> QED BY <2>2, <2>3 DEF Moved, NamesInv
<1>5. CASE st # "OK"
  BY <1>1, <1>2, <1>3, <1>5, RetryKeeps
<1> QED BY <1>4, <1>5

\* The FileLock is gone; an Unlink or a lookup that failed is on record.
LEMMA UnlockedKeeps ==
  ASSUME NamesInv, TreeStep, NEW p \in Procs, n_op[p] = "unlock", NEW st, N!Unlocked(p, st),
         n_result' = n_result,
         n_broken # {} \/ st = "ERROR_IO" \/ LockFile' = 0
  PROVE  NamesInv'
<1>1. /\ N!Done(p) /\ n_locked' = [n_locked EXCEPT ![p] = FALSE] /\ n_locked[p]
      /\ n_broken \subseteq n_broken' /\ (st = "ERROR_IO" => n_broken' # {})
  BY DEF N!Unlocked, NamesInv, PlaceInv
<1>2. Moved(p) /\ n_pc'[p] = "none" /\ n_locked'[p] = FALSE
  BY <1>1, LockedMoves
<1>3. LockInv'
  BY <1>1, <1>2, LockReleased DEF Moved
<1> QED BY <1>2, <1>3 DEF Moved, NamesInv

\* Unlink removes the lock file for the one that holds it.
LEMMA UnlinkKeeps ==
  ASSUME NamesInv, NEW p \in Procs, N!Unlink(p)
  PROVE  NamesInv'
<1>1. n_pc[p] = "unlink" /\ n_result' = n_result /\ n_op[p] = "unlock" /\ n_locked[p]
  BY DEF N!Unlink, NamesInv, PlaceInv
<1>2. PICK st \in N!Statuses : N!RPC(p, st) /\ N!Unlocked(p, st)
  BY DEF N!Unlink
<1>3. /\ TreeStep
      /\ \/ st = "OK" /\ LockFile' = 0
         \/ LockFile' = LockFile /\
              (st = "ERROR_IO" \/ n_inode[p] # N!Parent(Depth) \/ LockFile = 0)
  BY <1>1, <1>2, Answered
<1>4. n_broken = {} => n_inode[p] = N!Parent(Depth)
  BY <1>1 DEF NamesInv, LockInv, Sound
<1>5. n_broken # {} \/ st = "ERROR_IO" \/ LockFile' = 0
  BY <1>3, <1>4
<1> QED BY <1>1, <1>2, <1>3, <1>5, UnlockedKeeps

\* The master removes no directory that has something in it.
LEMMA RmdirAnswerKeeps ==
  ASSUME NamesInv, NEW p \in Procs, N!RmdirAnswer(p)
  PROVE  NamesInv'
<1>1. n_pc[p] = "rmdir" /\ UNCHANGED <<n_locked, n_result, n_broken>>
  BY DEF N!RmdirAnswer
<1>2. PICK st \in N!Statuses : N!RPC(p, st) /\ N!Done(p)
  BY DEF N!RmdirAnswer
<1>3. TreeStep /\ LockFile' = LockFile
  BY <1>1, <1>2, Answered
<1>4. n_result' = [n_result EXCEPT ![p] = n_result'[p]] /\ n_result'[p] \in {"none", "0", "-1"}
  BY <1>1 DEF NamesInv, NamesTypes
<1> QED BY <1>1, <1>2, <1>3, <1>4, DoneKeeps
\* A component was there or has been made: so have those before it.
LEMMA MkdirPath ==
  ASSUME NamesInv, NEW p \in Procs, n_pc[p] = "mkdir", NEW st \in {"OK", "EEXIST"}, N!RPC(p, st),
         ~n_gone'[p]
  PROVE  ~n_gone[p] /\ \A c \in 1 .. n_dir[p] : n_tree'[c] # 0
<1>1. n_op[p] = "mkdirs" /\ n_dir[p] \in 1 .. Depth - 1 /\ Depth \in Nat
  BY MooseAssumption DEF NamesInv, PlaceInv
<1>2. TreeStep /\ n_tree'[n_dir[p]] # 0
  BY Answered
<1>3. ~n_gone[p] /\ \A c \in 1 .. Depth - 1 : n_tree[c] # 0 => n_tree'[c] # 0
  BY <1>1, <1>2 DEF TreeStep
<1>4. \A c \in 1 .. n_dir[p] - 1 : n_tree[c] # 0
  BY <1>1, <1>3 DEF NamesInv, PathInv
<1>5. ASSUME NEW c \in 1 .. n_dir[p] PROVE n_tree'[c] # 0
  <2>1. CASE c = n_dir[p]
    BY <1>2, <2>1
  <2>2. CASE c # n_dir[p]
    <3>1. c \in 1 .. n_dir[p] - 1 /\ c \in 1 .. Depth - 1
      BY <1>1, <2>2
    <3> QED BY <1>3, <1>4, <3>1
  <2> QED BY <2>1, <2>2
<1> QED BY <1>3, <1>5

\* Mkdir makes the next directory, or finds it there.
LEMMA MkdirKeeps ==
  ASSUME NamesInv, NEW p \in Procs, N!Mkdir(p)
  PROVE  NamesInv'
<1>1. n_pc[p] = "mkdir" /\ UNCHANGED <<n_locked, n_broken>>
  BY DEF N!Mkdir
<1>2. PICK st \in N!Statuses : N!RPC(p, st) /\ N!MkdirNext(p, st)
  BY DEF N!Mkdir
<1>3. TreeStep /\ LockFile' = LockFile
  BY <1>1, <1>2, Answered
<1>4. n_op[p] = "mkdirs" /\ n_dir[p] \in 1 .. Depth - 1 /\ Depth \in Nat /\ n_result[p] = "none"
  BY <1>1, MooseAssumption DEF NamesInv, PlaceInv
<1>5. ASSUME NEW r \in {"0", "-1"}, N!Returns(p, r) PROVE NamesInv'
  <2>1. N!Done(p) /\ n_result' = [n_result EXCEPT ![p] = r]
    BY <1>5 DEF N!Returns
  <2>2. n_result' = [n_result EXCEPT ![p] = n_result'[p]] /\ n_result'[p] \in {"none", "0", "-1"}
    BY <2>1 DEF NamesInv, NamesTypes
  <2> QED BY <1>1, <1>3, <2>1, <2>2, DoneKeeps
<1>6. CASE /\ st \in {"OK", "EEXIST"} /\ n_dir[p] # Depth - 1
           /\ n_dir' = [n_dir EXCEPT ![p] = @ + 1] /\ N!InParent(p, n_dir[p] + 1, "mkdir")
           /\ UNCHANGED <<n_op, n_result>>
  <2>1. /\ n_dir'[p] = n_dir[p] + 1 /\ n_dir' = [n_dir EXCEPT ![p] = n_dir'[p]]
        /\ n_op'[p] = "mkdirs" /\ n_op' = [n_op EXCEPT ![p] = n_op'[p]]
        /\ n_result'[p] = "none" /\ n_result' = [n_result EXCEPT ![p] = n_result'[p]]
    BY <1>4, <1>6 DEF NamesInv, NamesTypes
  <2>2. /\ n_dir'[p] \in 1 .. Depth - 1 /\ n_dir'[p] \in Nat /\ n_dir[p] + 1 \in 1 .. Depth
        /\ n_dir'[p] - 1 = n_dir[p]
    BY <1>4, <1>6, <2>1
  <2>3. n_op'[p] \in Calls \ {"none"} /\ "mkdir" \in Places \ {"none"}
    BY <2>1 DEF Calls, Places
  <2>4. PathOf(p)'
    <3>1. ~n_gone'[p] => \A c \in 1 .. n_dir[p] : n_tree'[c] # 0
      BY <1>1, <1>2, <1>6, MkdirPath
    <3>2. ~n_gone'[p] => \A c \in 1 .. n_dir'[p] - 1 : n_tree'[c] # 0
      BY <2>2, <3>1
    <3> QED BY <3>2 DEF PathOf
  <2>5. Moved(p) /\ (n_pc'[p] = "unlink" => n_inode'[p] = N!Parent(Depth)')
    BY <1>1, <1>3, <1>6, <2>1, <2>2, <2>3, <2>4, ParentMoves
  <2>6. LockInv'
    BY <1>1, <1>3, <2>5, LockStays DEF Moved
  <2> QED BY <2>5, <2>6 DEF Moved, NamesInv
<1> QED BY <1>2, <1>5, <1>6 DEF N!MkdirNext

-----------------------------------------------------------------------------
\* The lookup of the parent is over, and the command itself comes next.
LEMMA GoKeeps ==
  ASSUME NamesInv, TreeStep, UNCHANGED n_tree, NEW p \in Procs, n_pc[p] = "lookup",
         n_tree[n_at[p]] # 0, n_at[p] = n_goal[p],
         NEW cmd, n_pc' = [n_pc EXCEPT ![p] = cmd],
         <<cmd, n_op[p]>> \in {<<"unlink", "unlock">>, <<"mknod", "create">>,
                               <<"mkdir", "mkdirs">>, <<"rmdir", "rmdir">>},
         n_inode' = [n_inode EXCEPT ![p] = n_tree[n_at[p]]],
         UNCHANGED <<n_op, n_at, n_goal, n_dir, n_locked, n_result, n_broken>>
  PROVE  NamesInv'
<1>1. /\ n_at[p] \in 1 .. Depth /\ Depth \in Nat \ {0} /\ n_tree \in [1 .. Depth -> Nat]
      /\ n_op[p] \in {"create", "unlock"} => n_at[p] = Depth - 1
  BY MooseAssumption DEF NamesInv, NamesTypes, PlaceInv
<1>2. n_tree[n_at[p]] \in Nat \ {0} /\ cmd \in Places
  BY <1>1 DEF Places
<1>3. /\ n_pc'[p] = cmd /\ n_inode'[p] = n_tree[n_at[p]] /\ n_op'[p] = n_op[p]
      /\ n_locked'[p] = n_locked[p] /\ n_dir'[p] = n_dir[p] /\ n_result'[p] = n_result[p]
      /\ n_at'[p] = n_at[p] /\ n_goal'[p] = n_goal[p] /\ Only(p)
  BY DEF NamesInv, NamesTypes, Only
<1>4. Typed(p)'
  BY <1>2, <1>3 DEF Typed, NamesInv, NamesTypes
<1>5. PlaceInv(p)'
  BY <1>3 DEF NamesInv, PlaceInv
<1>6. PathOf(p)'
  <2> SUFFICES ASSUME n_op[p] = "mkdirs", ~n_gone'[p], NEW c \in 1 .. n_dir[p] - 1
               PROVE  n_tree[c] # 0
    BY <1>3 DEF PathOf
  <2>1. ~n_gone[p]
    BY DEF TreeStep
  <2> QED BY <2>1 DEF NamesInv, PathInv
<1>7. Moved(p)
  BY <1>3, <1>4, <1>5, <1>6, Moves
<1>8. n_pc'[p] = "unlink" => n_inode'[p] = N!Parent(Depth)'
  <2> SUFFICES ASSUME cmd = "unlink" PROVE n_tree[n_at[p]] = N!Parent(Depth)
    BY <1>3 DEF N!Parent
  <2>1. n_at[p] = Depth - 1 /\ Depth # 1
    BY <1>1
  <2> QED BY <2>1 DEF N!Parent
<1>9. LockFile' = LockFile
  BY DEF LockFile
<1>10. LockInv'
  BY <1>7, <1>8, <1>9, LockStays DEF Moved
<1> QED BY <1>7, <1>10 DEF Moved, NamesInv

\* Where File::Open goes after a Lookup.
LEMMA OpenLookupKeeps ==
  ASSUME NamesInv, TreeStep, LockFile' = LockFile, NEW p \in Procs,
         n_pc[p] = "lookup", n_op[p] = "open", NEW st, N!OpenLookup(p, st), n_result' = n_result
  PROVE  NamesInv'
<1>1. ~n_locked[p] /\ n_locked[p] \in BOOLEAN /\ Depth \in 1 .. Depth /\ n_dir[p] \in Nat
  BY MooseAssumption DEF NamesInv, NamesTypes, PlaceInv
<1>2. CASE N!Create(p) /\ n_broken' = n_broken
  <2>1. /\ n_op' = [n_op EXCEPT ![p] = "create"] /\ N!InParent(p, Depth, "mknod")
        /\ n_dir' = n_dir /\ n_locked' = n_locked
    BY <1>2 DEF N!Create
  <2>2. /\ n_op'[p] = "create" /\ n_op' = [n_op EXCEPT ![p] = n_op'[p]]
        /\ n_dir'[p] \in Nat /\ n_dir' = [n_dir EXCEPT ![p] = n_dir'[p]]
        /\ n_result' = [n_result EXCEPT ![p] = n_result'[p]]
        /\ n_result'[p] \in {"none", "0", "-1"}
    BY <2>1 DEF NamesInv, NamesTypes
  <2>3. PathOf(p)' /\ n_op'[p] \in Calls \ {"none"} /\ "mknod" \in Places \ {"none"}
    BY <2>2 DEF PathOf, Calls, Places
  <2>4. Moved(p) /\ (n_pc'[p] = "unlink" => n_inode'[p] = N!Parent(Depth)')
    BY <1>1, <2>1, <2>2, <2>3, ParentMoves
  <2>5. LockInv'
    BY <1>2, <2>1, <2>4, LockStays DEF Moved
  <2> QED BY <2>4, <2>5 DEF Moved, NamesInv
<1>3. CASE N!Retry(p) /\ n_broken' = n_broken
  BY <1>1, <1>3, RetryKeeps
<1>4. CASE /\ n_pc' = [n_pc EXCEPT ![p] = "open"]
           /\ UNCHANGED <<n_op, n_at, n_goal, n_inode, n_dir, n_locked, n_broken>>
  <2>1. /\ n_pc'[p] = "open" /\ n_op'[p] = "open" /\ ~n_locked'[p] /\ Only(p)
    BY <1>1, <1>4 DEF NamesInv, NamesTypes, Only
  <2>2. Typed(p)'
    BY <1>4, <2>1 DEF Typed, NamesInv, NamesTypes, Places
  <2>3. PlaceInv(p)' /\ PathOf(p)'
    BY <2>1 DEF PlaceInv, PathOf
  <2>4. Moved(p)
    BY <2>1, <2>2, <2>3, Moves
  <2>5. LockInv'
    BY <1>4, <2>1, <2>4, LockStays DEF Moved
  <2> QED BY <2>4, <2>5 DEF Moved, NamesInv
<1> QED BY <1>2, <1>3, <1>4 DEF N!OpenLookup, N!Go

\* Where any call goes after the Lookup of a component.
LEMMA AfterLookupKeeps ==
  ASSUME NamesInv, UNCHANGED <<n_tree, n_made, n_gone>>, NEW p \in Procs,
         n_pc[p] = "lookup", NEW st, N!AfterLookup(p, st),
         st = "OK" => n_tree[n_at[p]] # 0 /\ n_at[p] = n_goal[p]
  PROVE  NamesInv'
<1>1. TreeStep /\ LockFile' = LockFile
  BY TreeStays
<1>2. /\ n_op[p] \in Calls \ {"none"}
      /\ n_op[p] \in {"open", "create"} => ~n_locked[p]
  BY DEF NamesInv, NamesTypes, PlaceInv
<1>3. n_result' = n_result =>
        /\ n_result' = [n_result EXCEPT ![p] = n_result'[p]]
        /\ n_result'[p] \in {"none", "0", "-1"}
  BY DEF NamesInv, NamesTypes
<1>4. CASE n_op[p] = "open"
  BY <1>1, <1>4, OpenLookupKeeps DEF N!AfterLookup
<1>5. CASE n_op[p] = "stat" \/ (n_op[p] = "rmdir" /\ st # "OK")
  <2>1. N!Done(p) /\ UNCHANGED <<n_locked, n_result, n_broken>>
    BY <1>5 DEF N!AfterLookup
  <2> QED BY <1>1, <1>3, <2>1, DoneKeeps
<1>6. CASE n_op[p] = "create" /\ st # "OK"
  <2>1. N!Retry(p) /\ UNCHANGED <<n_result, n_broken>>
    BY <1>6 DEF N!AfterLookup
  <2> QED BY <1>1, <1>2, <1>6, <2>1, RetryKeeps
<1>7. CASE n_op[p] = "unlock" /\ st # "OK"
  <2>1. N!Unlocked(p, "ERROR_IO") /\ n_result' = n_result
    BY <1>7 DEF N!AfterLookup
  <2> QED BY <1>1, <1>7, <2>1, UnlockedKeeps
<1>8. CASE n_op[p] = "mkdirs" /\ st # "OK"
  <2>1. N!Done(p) /\ n_result' = [n_result EXCEPT ![p] = "-1"] /\ UNCHANGED <<n_locked, n_broken>>
    BY <1>8 DEF N!AfterLookup, N!Returns
  <2>2. n_result' = [n_result EXCEPT ![p] = n_result'[p]] /\ n_result'[p] \in {"none", "0", "-1"}
    BY <2>1 DEF NamesInv, NamesTypes
  <2> QED BY <1>1, <2>1, <2>2, DoneKeeps
<1>9. CASE n_op[p] \in {"create", "unlock", "mkdirs", "rmdir"} /\ st = "OK"
  <2> DEFINE cmd == CASE n_op[p] = "create" -> "mknod" [] n_op[p] = "unlock" -> "unlink"
                      [] n_op[p] = "mkdirs" -> "mkdir" [] OTHER -> "rmdir"
  <2>1. /\ n_pc' = [n_pc EXCEPT ![p] = cmd]
        /\ n_inode' = [n_inode EXCEPT ![p] = n_tree[n_at[p]]]
        /\ UNCHANGED <<n_op, n_at, n_goal, n_dir, n_locked, n_result, n_broken>>
    BY <1>9 DEF N!AfterLookup, N!Go
  <2>2. <<cmd, n_op[p]>> \in {<<"unlink", "unlock">>, <<"mknod", "create">>,
                              <<"mkdir", "mkdirs">>, <<"rmdir", "rmdir">>}
    BY <1>9
  <2> HIDE DEF cmd
  <2> QED BY <1>1, <1>9, <2>1, <2>2, GoKeeps
<1> QED BY <1>2, <1>4, <1>5, <1>6, <1>7, <1>8, <1>9 DEF Calls

\* Lookup leaves the tree alone, and what it found is there.
LEMMA LookupNameKeeps ==
  ASSUME NamesInv, NEW p \in Procs, N!LookupName(p)
  PROVE  NamesInv'
<1>1. PICK st \in N!Statuses :
        /\ N!RPC(p, st)
        /\ IF st = "OK" /\ n_at[p] < n_goal[p]
           THEN /\ n_at' = [n_at EXCEPT ![p] = @ + 1]
                /\ n_inode' = [n_inode EXCEPT ![p] = n_tree[n_at[p]]]
                /\ UNCHANGED <<n_op, n_pc, n_goal, n_dir, n_delay, n_locked, n_result, n_broken>>
           ELSE N!AfterLookup(p, st)
  BY DEF N!LookupName
<1>2. n_pc[p] = "lookup" /\ n_at[p] \in 1 .. n_goal[p] /\ n_goal[p] <= Depth /\ n_goal[p] \in Nat
  BY DEF N!LookupName, NamesInv, NamesTypes, PlaceInv
<1>3. UNCHANGED <<n_tree, n_made, n_gone>> /\ (st = "OK" => n_tree[n_at[p]] # 0)
  BY <1>1, <1>2, Answered
<1>4. CASE ~(st = "OK" /\ n_at[p] < n_goal[p])
  <2>1. st = "OK" => n_at[p] = n_goal[p]
    BY <1>2, <1>4
  <2> QED BY <1>1, <1>2, <1>3, <1>4, <2>1, AfterLookupKeeps
<1>5. CASE st = "OK" /\ n_at[p] < n_goal[p]
  <2>1. TreeStep /\ LockFile' = LockFile
    BY <1>3, TreeStays
  <2>2. /\ n_at' = [n_at EXCEPT ![p] = n_at[p] + 1]
        /\ n_inode' = [n_inode EXCEPT ![p] = n_tree[n_at[p]]]
        /\ UNCHANGED <<n_op, n_pc, n_goal, n_dir, n_locked, n_result, n_broken>>
    BY <1>1, <1>5
  <2>3. /\ n_at'[p] = n_at[p] + 1 /\ n_inode'[p] = n_tree[n_at[p]] /\ n_op'[p] = n_op[p]
        /\ n_pc'[p] = "lookup" /\ n_goal'[p] = n_goal[p] /\ n_dir'[p] = n_dir[p]
        /\ n_locked'[p] = n_locked[p] /\ n_result'[p] = n_result[p] /\ Only(p)
    BY <1>2, <2>2 DEF NamesInv, NamesTypes, Only
  <2>4. n_at[p] \in 1 .. Depth /\ n_at[p] + 1 \in Nat /\ n_at[p] + 1 \in 1 .. n_goal[p]
    BY <1>2, <1>5, MooseAssumption
  <2>5. n_tree[n_at[p]] \in Nat \ {0}
    BY <1>3, <1>5, <2>4 DEF NamesInv, NamesTypes
  <2>6. Typed(p)'
    <3>1. Typed(p)
      BY DEF Typed, NamesInv, NamesTypes
    <3>2. n_pc[p] = "lookup" /\ n_at'[p] \in Nat /\ n_inode'[p] \in Nat \ {0}
      BY <1>2, <2>3, <2>4, <2>5
    <3> QED BY <2>3, <3>1, <3>2 DEF Typed
  <2>7. PlaceInv(p)'
    BY <1>2, <2>3, <2>4 DEF NamesInv, PlaceInv
  <2>8. PathOf(p)'
    BY <1>3, <2>3 DEF NamesInv, PathInv, PathOf
  <2>9. Moved(p)
    BY <2>1, <2>3, <2>6, <2>7, <2>8, Moves
  <2>10. LockInv'
    BY <2>1, <2>2, <2>3, <2>9, LockStays DEF Moved
  <2> QED BY <2>9, <2>10 DEF Moved, NamesInv
<1> QED BY <1>4, <1>5

\* The answer is lost: a Mknod or an Unlink that was carried out is on record.
LEMMA LostKeeps ==
  ASSUME NamesInv, NEW p \in Procs, N!Lost(p)
  PROVE  NamesInv'
<1>1. /\ n_pc[p] \in N!Commands \ {"open"} /\ N!CarryOut(n_pc[p], n_inode[p], N!Target(p))
      /\ n_broken' = IF /\ n_pc[p] \in {"mknod", "unlink"}
                        /\ N!Answer(n_pc[p], n_inode[p], N!Target(p)) = "OK"
                     THEN n_broken \cup {n_pc[p]} ELSE n_broken
      /\ UNCHANGED <<n_op, n_pc, n_at, n_goal, n_inode, n_dir, n_delay, n_locked, n_result>>
  BY DEF N!Lost, N!procs
<1>2. n_pc[p] # "none"
  BY <1>1 DEF N!Commands
<1>3. /\ TreeStep
      /\ n_pc[p] \notin {"mknod", "unlink"} => LockFile' = LockFile
      /\ n_pc[p] \in {"mknod", "unlink"} =>
           IF N!Answer(n_pc[p], n_inode[p], N!Target(p)) # "OK" THEN LockFile' = LockFile
           ELSE IF n_pc[p] = "mknod" THEN LockFile = 0 /\ LockFile' # 0
           ELSE LockFile' = 0
  BY <1>1, <1>2, TreeGoesOn
<1>4. Only(p) /\ Typed(p)' /\ PlaceInv(p)'
  BY <1>1 DEF Only, Typed, NamesInv, NamesTypes, PlaceInv
<1>5. PathOf(p)'
  <2> SUFFICES ASSUME n_op[p] = "mkdirs", ~n_gone'[p], NEW c \in 1 .. n_dir[p] - 1
               PROVE  n_tree'[c] # 0
    BY <1>1 DEF PathOf
  <2>1. ~n_gone[p] /\ \A d \in 1 .. Depth - 1 : n_tree[d] # 0 => n_tree'[d] # 0
    BY <1>3 DEF TreeStep
  <2>2. n_tree[c] # 0
    BY <2>1 DEF NamesInv, PathInv
  <2>3. n_dir[p] \in 1 .. Depth - 1 /\ Depth \in Nat
    BY MooseAssumption DEF NamesInv, PlaceInv
  <2>4. c \in 1 .. Depth - 1
    BY <2>3
  <2> QED BY <2>1, <2>2, <2>4
<1>6. Moved(p)
  BY <1>3, <1>4, <1>5, Moves
<1>7. LockInv'
  <2>1. CASE n_broken' = n_broken \cup {n_pc[p]} /\ n_pc[p] = "unlink"
    <3>1. n_broken' # {} /\ ~Sound'
      BY <2>1 DEF Sound
    <3> QED BY <1>3, <3>1, LockBroken
  <2>2. CASE n_broken' = n_broken \cup {n_pc[p]} /\ n_pc[p] = "mknod" /\ LockFile = 0
    <3>1. n_broken' # {} /\ (Sound' => Sound)
      BY <2>2 DEF Sound
    <3> QED BY <1>1, <1>3, <2>2, <3>1, LockBroken
  <2>3. CASE n_broken' = n_broken /\ LockFile' = LockFile
    <3>1. ASSUME n_pc'[p] = "unlink", Sound PROVE n_inode'[p] = N!Parent(Depth)'
      <4>1. n_pc[p] = "unlink" /\ n_inode'[p] = n_inode[p] /\ n_inode[p] = N!Parent(Depth)
        BY <1>1, <3>1 DEF NamesInv, LockInv
      <4>2. LockFile # 0
        BY <3>1, <4>1 DEF NamesInv, LockInv, PlaceInv
      <4> QED BY <1>3, <4>1, <4>2 DEF TreeStep
    <3> QED BY <1>1, <1>3, <1>6, <2>3, <3>1, LockStays DEF Moved
  <2> QED BY <1>1, <1>3, <2>1, <2>2, <2>3
<1> QED BY <1>6, <1>7 DEF Moved, NamesInv
-----------------------------------------------------------------------------
\* Every step keeps the invariant.
LEMMA NextNames ==
  ASSUME NamesInv, N!Next \/ UNCHANGED n_vars
  PROVE  NamesInv'
<1>1. CASE UNCHANGED n_vars
  BY <1>1 DEF n_vars, NamesInv, NamesTypes, PlaceInv, LockInv, PathInv, LockFile, Sound, N!Parent
<1>2. ASSUME NEW p \in Procs, NEW d, N!Lock(p, d) PROVE NamesInv'
  <2>1. /\ ~n_locked[p] /\ N!Begin(p, "open") /\ N!Lookup(p, Depth) /\ n_dir' = n_dir
    BY <1>2 DEF N!Lock
  <2> QED BY <2>1, LookupKeeps
<1>3. ASSUME NEW p \in Procs, N!Stat(p) PROVE NamesInv'
  <2>1. N!Begin(p, "stat") /\ N!Lookup(p, Depth) /\ n_dir' = n_dir
    BY <1>3 DEF N!Stat
  <2> QED BY <2>1, LookupKeeps
<1>4. ASSUME NEW p \in Procs, N!Step(p) PROVE NamesInv'
  BY <1>4, LookupNameKeeps, OpenGarbageKeeps, MknodKeeps, UnlinkKeeps, MkdirKeeps, RmdirAnswerKeeps
     DEF N!Step
<1>5. ASSUME NEW p \in Procs, N!Unlock(p) \/ N!Mkdirs(p) \/ N!Rmdir(p) \/ N!Lost(p)
      PROVE  NamesInv'
  BY <1>5, UnlockKeeps, MkdirsKeeps, RmdirKeeps, LostKeeps
<1> QED BY <1>1, <1>2, <1>3, <1>4, <1>5 DEF N!Next

\* It holds at first.
LEMMA InitNames == Init => NamesInv
<1> SUFFICES ASSUME N!Init PROVE NamesInv
  BY DEF Init
<1>1. /\ \/ n_tree = [c \in 1 .. Depth |-> 0] /\ n_made = 1
         \/ /\ n_tree = [c \in 1 .. Depth |-> IF c < Depth THEN 1 + c ELSE 0]
            /\ n_made = 1 + Depth - 1
      /\ n_op = [p \in Procs |-> "none"] /\ n_pc = [p \in Procs |-> "none"]
      /\ n_at = [p \in Procs |-> 1] /\ n_goal = [p \in Procs |-> 0]
      /\ n_inode = [p \in Procs |-> 1] /\ n_dir = [p \in Procs |-> 0]
      /\ n_locked = [p \in Procs |-> FALSE]
      /\ n_result = [p \in Procs |-> "none"] /\ n_gone = [p \in Procs |-> FALSE]
  BY DEF N!Init, N!Root, N!Components
<1>2. n_tree \in [1 .. Depth -> Nat] /\ n_made \in Nat /\ LockFile = 0
  BY <1>1, MooseAssumption DEF LockFile
<1>3. NamesTypes
  BY <1>1, <1>2 DEF NamesTypes, Calls, Places
<1>4. LockInv
  BY <1>1, <1>2 DEF LockInv
<1>5. PathInv /\ \A p \in Procs : PlaceInv(p)
  BY <1>1 DEF PathInv, PlaceInv
<1> QED BY <1>3, <1>4, <1>5 DEF NamesInv

\* The invariant of the names.
LEMMA NamesInvariant == Spec => []NamesInv
<1>1. NamesInv /\ [Next]_all => NamesInv'
  BY PartStep, NextNames
<1> QED BY <1>1, InitNames, PTL DEF Spec, all

(***************************************************************************)
(* FileLock over MooseFS, for any processes and any path: two of them hold *)
(* the lock only after an Unlink whose answer was lost, or after File::Open*)
(* went on with a Lookup that had failed.                                  *)
(***************************************************************************)
THEOREM OneHolderTheorem == Spec => []OneHolderUnlessRepeated
<1>1. ASSUME NamesInv PROVE OneHolderUnlessRepeated
  <2> SUFFICES ASSUME Sound PROVE ~(Cardinality(N!Holders) > 1)
    BY SameCardinality DEF OneHolderUnlessRepeated, N!OneHolderUnlessRepeated, Sound
  <2>1. \A p, q \in N!Holders : p = q
    BY <1>1 DEF N!Holders, NamesInv, LockInv
  <2>2. CASE N!Holders = {}
    BY <2>2, FS_EmptySet
  <2>3. CASE N!Holders # {}
    <3>1. PICK p : p \in N!Holders
      BY <2>3
    <3>2. N!Holders = {p}
      BY <2>1, <3>1
    <3> QED BY <3>2, FS_Singleton
  <2> QED BY <2>2, <2>3
<1> QED BY <1>1, NamesInvariant, PTL

(***************************************************************************)
(* FileLock over MooseFS: a lock file without an owner was left by a Mknod *)
(* whose answer was lost, by an Unlink that failed, or by a lock that was  *)
(* broken before.                                                          *)
(***************************************************************************)
THEOREM LockOwnedTheorem == Spec => []LockOwned
<1>1. NamesInv => LockOwned
  BY DEF NamesInv, LockInv, LockOwned, N!LockOwned, LockFile
<1> QED BY <1>1, NamesInvariant, PTL

\* A return value of 0 is that of the last component.
LEMMA ZeroReturned ==
  ASSUME NamesInv, N!Next \/ UNCHANGED n_vars, NEW p \in Procs, n_op[p] = "mkdirs",
         n_result'[p] = "0", ~n_gone[p]
  PROVE  \A c \in 1 .. Depth - 1 : n_tree'[c] # 0
<1>1. n_result[p] = "none" /\ n_pc[p] # "none" /\ n_pc[p] # "open" /\ n_pc[p] # "mknod"
        /\ n_pc[p] # "unlink" /\ n_pc[p] # "rmdir"
  BY DEF NamesInv, PlaceInv
<1>2. ASSUME NEW q \in Procs, NEW r,
             n_result' = [n_result EXCEPT ![q] = r], r # "0" \/ q # p
      PROVE  FALSE
  BY <1>1, <1>2 DEF NamesInv, NamesTypes
<1>3. ASSUME n_result' = n_result PROVE FALSE
  BY <1>1, <1>3
<1>4. PICK q \in Procs : N!Mkdir(q) \/ N!LookupName(q)
  <2>1. ASSUME NEW q \in Procs, NEW o, N!Begin(q, o) PROVE FALSE
    BY <1>2, <2>1 DEF N!Begin
  <2>2. ASSUME NEW q \in Procs,
               N!OpenGarbage(q) \/ N!Mknod(q) \/ N!Unlink(q) \/ N!RmdirAnswer(q)
        PROVE  FALSE
    BY <1>3, <2>2 DEF N!OpenGarbage, N!Mknod, N!Unlink, N!RmdirAnswer
  <2>3. ASSUME NEW q \in Procs, N!Lost(q) PROVE FALSE
    BY <1>3, <2>3 DEF N!Lost, N!procs
  <2>4. CASE UNCHANGED n_vars
    BY <1>3, <2>4 DEF n_vars
  <2> QED BY <2>1, <2>2, <2>3, <2>4 DEF N!Next, N!Step, N!Lock, N!Unlock, N!Mkdirs, N!Rmdir, N!Stat
<1>5. ~N!LookupName(q)
  <2> SUFFICES ASSUME N!LookupName(q) PROVE FALSE
    OBVIOUS
  <2>1. n_result' = n_result \/ n_result' = [n_result EXCEPT ![q] = "-1"]
    BY DEF N!LookupName, N!AfterLookup, N!Returns
  <2> QED BY <1>2, <1>3, <2>1
<1>6. PICK st \in N!Statuses : N!RPC(q, st) /\ N!MkdirNext(q, st)
  BY <1>4, <1>5 DEF N!Mkdir
<1>7. n_pc[q] = "mkdir"
  BY <1>4, <1>5 DEF N!Mkdir
<1>8. st \in {"OK", "EEXIST"} /\ n_dir[p] = Depth - 1 /\ q = p
  BY <1>2, <1>3, <1>6 DEF N!MkdirNext, N!Returns
<1>9. ~n_gone'[p]
  <2>1. ~N!Removes(n_pc[p])
    BY <1>7, <1>8 DEF N!Removes
  <2>2. n_gone' = n_gone
    BY <1>6, <1>8, <2>1 DEF N!RPC, N!CarryOut
  <2> QED BY <2>2
<1> QED BY <1>6, <1>7, <1>8, <1>9, MkdirPath

(***************************************************************************)
(* mfs_mkdirs, for any path and any number of processes: when it returns 0 *)
(* the directories are there, whatever answers were lost and whoever else  *)
(* was making them, unless one has been removed since it began.            *)
(***************************************************************************)
THEOREM MkdirsMakesTheorem == Spec => MkdirsMakes
<1>1. NamesInv /\ [Next]_all =>
        [\A p \in Procs : n_op[p] = "mkdirs" /\ n_result'[p] = "0" /\ ~n_gone[p]
           => \A c \in 1 .. Depth - 1 : n_tree'[c] # 0]_(N!vars)
  BY PartStep, ZeroReturned
<1> QED BY <1>1, NamesInvariant, PTL DEF Spec, all, MkdirsMakes, N!MkdirsMakes
-----------------------------------------------------------------------------
(***************************************************************************)
(* Files: the loops of Read and Write, the pool and the chunks' locks.     *)
(***************************************************************************)
IOs ==
  [op : {"close", "write", "read"}, inode : Inodes, start : Nat, count : Nat, call : Nat,
   end : Nat, write_position : Nat, chunk_index : Nat, chunk_pos : Int, blockno : Int,
   server : F!Servers, buf : Int, filled : SUBSET (Int \X Int), failed : BOOLEAN]
OpenFiles == [position : Nat, truncate_in_close : BOOLEAN]
Acks == [inode : Inodes, start : Nat, count : Nat, call : Nat]

ClosePcs == {"getattr", "truncate"}
WritePcs == {"write chunk", "write connect", "write block", "write chunk end"}
ReadPcs == {"read chunk", "read connect", "read block", "read freed", "dead"}
PcsOf(op) == CASE op = "close" -> ClosePcs [] op = "write" -> WritePcs
               [] op = "read" -> ReadPcs [] OTHER -> {"idle"}

Stores ==
  [length : Nat, data : [0 .. MaxSize - 1 -> Int \X Int], chunks : SUBSET Nat,
   locked : SUBSET Nat]
FilePcs == ClosePcs \cup WritePcs \cup ReadPcs \cup {"idle"}

FileTypes ==
  /\ f_file \in [Inodes -> Stores]
  /\ f_map \in [Procs -> [Inodes -> OpenFiles \cup {F!NoFile}]]
  /\ f_pool \in [Procs -> [F!Servers -> {"none", "alive", "freed"}]]
  /\ f_sockets \in [Procs -> Int] /\ f_leaked \in [Procs -> Int]
  /\ f_pc \in [Procs -> FilePcs]
  /\ f_io \in [Procs -> IOs \cup {F!NoIO}]
  /\ f_result \in [Procs -> Int]
  /\ f_acked \subseteq Acks /\ f_ops \in Nat /\ f_faults \in Nat

\* A call has its own places, and its File stays open.
CallInv(p) ==
  /\ f_pc[p] \in PcsOf(f_io[p].op)
  /\ f_io[p] # F!NoIO => f_map[p][f_io[p].inode] # F!NoFile

\* The buffer, the chunk and the block of a Write agree on its position.
WriteAt(x, l) ==
  /\ l.end = l.start + l.count /\ l.end <= MaxSize
  /\ l.start <= l.write_position /\ l.write_position <= l.end
  /\ x # "write chunk end" =>
       l.chunk_index * M64 <= l.write_position /\ l.write_position <= (l.chunk_index + 1) * M64
  /\ x \in {"write chunk", "write chunk end"} => l.buf = l.write_position - l.start
  /\ x \in {"write connect", "write block"} =>
       /\ l.buf = l.chunk_index * M64 + l.chunk_pos - l.start
       /\ l.write_position <= l.chunk_index * M64 + l.chunk_pos
       /\ l.chunk_index * M64 + l.chunk_pos <= l.end /\ l.chunk_pos <= M64
       /\ l.blockno * K64 <= l.chunk_pos /\ l.chunk_pos <= (l.blockno + 1) * K64
  /\ x = "write chunk end" =>
       /\ l.write_position <= l.chunk_index * M64
       /\ l.write_position = l.end \/ l.write_position = l.chunk_index * M64

\* The bytes before that position are stored.
WriteInv(p) ==
  LET l == f_io[p] IN
  l.op = "write" =>
    /\ WriteAt(f_pc[p], l)
    /\ ~l.failed =>
         \A j \in 0 .. l.buf - 1 : f_file[l.inode].data[l.start + j] = <<l.call, j>>

\* What a Read has counted is in the buffer, and the connection it uses is
\* not in the pool.
ReadInv(p) ==
  LET l == f_io[p] IN
  l.op = "read" =>
    /\ l.end <= l.start + l.count
    /\ f_pc[p] \in {"read block", "read freed"} => f_pool[p][l.server] = "none"
    /\ ~l.failed =>
         /\ l.buf = l.write_position - l.start
         /\ \A k \in 0 .. l.buf - 1 : <<k, l.start + k>> \in l.filled

\* One process writes a file at a time, away from what was acknowledged.
Writes(p, i) == f_io[p].op = "write" /\ f_io[p].inode = i

AckInv ==
  /\ \A i \in Inodes, p, q \in Procs : Writes(p, i) /\ Writes(q, i) => p = q
  /\ \A i \in Inodes, p \in Procs, a \in f_acked :
       Writes(p, i) => ~F!Overlaps(a, i, f_io[p].start, f_io[p].end)
  /\ \A a \in f_acked : a.start + a.count <= MaxSize
  /\ F!AckedStays

\* Without a failure a locked chunk is the one its writer is at.
Holds(p, i, c) ==
  /\ Writes(p, i)
  /\ \/ f_pc[p] \in {"write connect", "write block"} /\ c = f_io[p].chunk_index
     \/ f_pc[p] = "write chunk end" /\ c + 1 = f_io[p].chunk_index

ChunkInv ==
  f_faults = 0 =>
    \A i \in Inodes : \A c \in f_file[i].locked : \E p \in Procs : Holds(p, i, c)

Connected(p) ==
  f_sockets[p] = f_leaked[p] + Cardinality({s \in F!Servers : f_pool[p][s] = "alive"})
                 + (IF f_pc[p] \in {"write block", "read block"} THEN 1 ELSE 0)

FileInv ==
  /\ FileTypes /\ AckInv /\ ChunkInv
  /\ \A p \in Procs : CallInv(p) /\ WriteInv(p) /\ ReadInv(p) /\ Connected(p)
-----------------------------------------------------------------------------
\* The quotient of a position by the size of a chunk or of a block.
LEMMA Division ==
  ASSUME NEW x \in Nat, NEW m \in Nat \ {0}
  PROVE  x \div m \in Nat /\ (x \div m) * m <= x /\ x <= (x \div m + 1) * m
OBVIOUS

\* The fields of the locals of a call.
LEMMA IOTyped ==
  \A l \in IOs :
    /\ l.inode \in Inodes /\ l.start \in Nat /\ l.count \in Nat /\ l.call \in Nat
    /\ l.end \in Nat /\ l.write_position \in Nat /\ l.chunk_index \in Nat
    /\ l.chunk_pos \in Int /\ l.blockno \in Int /\ l.buf \in Int /\ l.server \in F!Servers
    /\ l.filled \subseteq Int \X Int /\ l.failed \in BOOLEAN
BY DEF IOs

\* Multiples, as facts about numbers alone.
LEMMA NextMultiple ==
  ASSUME NEW a \in Int, NEW m \in Int
  PROVE  a * m \in Int /\ (a + 1) * m = a * m + m
OBVIOUS

\* The chunk servers are those of Locations.
LEMMA ServersFacts ==
  /\ IsFiniteSet(F!Servers)
  /\ \A k \in 1 .. Len(Locations) : Locations[k] \in F!Servers
<1>1. Locations \in Seq({1, 2}) /\ Len(Locations) = 2 /\ DOMAIN Locations = 1 .. 2
  BY DEF Locations
<1>2. F!Servers \subseteq {1, 2}
  BY <1>1 DEF F!Servers
<1>3. IsFiniteSet({1, 2})
  <2>1. IsFiniteSet({1}) /\ {1, 2} = {1} \cup {2}
    BY FS_Singleton
  <2> QED BY <2>1, FS_AddElement
<1>4. \A k \in 1 .. Len(Locations) : Locations[k] \in F!Servers
  BY <1>1 DEF F!Servers
<1> QED BY <1>2, <1>3, <1>4, FS_Subset

\* The part of a chunk that one round of the loop is about.
LEMMA ChunkBytes ==
  ASSUME NEW l \in IOs, l.chunk_index * M64 <= l.write_position,
         l.write_position <= (l.chunk_index + 1) * M64, l.write_position <= l.end
  PROVE  /\ F!ChunkOffset(l) \in Nat /\ F!ChunkSize(l) \in Nat
         /\ l.write_position + F!ChunkSize(l) <= l.end
         /\ l.write_position + F!ChunkSize(l) <= (l.chunk_index + 1) * M64
         /\ \/ l.write_position + F!ChunkSize(l) = l.end
            \/ l.write_position + F!ChunkSize(l) = (l.chunk_index + 1) * M64
         /\ l.chunk_index * M64 + F!ChunkOffset(l) = l.write_position
<1> DEFINE a == l.chunk_index * M64
           b == (l.chunk_index + 1) * M64
           w == l.write_position
           e == l.end
<1>1. a \in Int /\ b \in Int /\ w \in Nat /\ e \in Nat
  BY MooseAssumption DEF IOs
<1>2. F!ChunkOffset(l) = w - a /\ F!ChunkSize(l) = (IF e < b THEN e ELSE b) - w
  BY DEF F!ChunkOffset, F!ChunkSize, F!Min2
<1>3. a <= w /\ w <= b /\ w <= e
  OBVIOUS
<1> HIDE DEF a, b, w, e
<1>4. /\ F!ChunkOffset(l) \in Nat /\ F!ChunkSize(l) \in Nat
      /\ w + F!ChunkSize(l) <= e /\ w + F!ChunkSize(l) <= b
      /\ w + F!ChunkSize(l) = e \/ w + F!ChunkSize(l) = b
      /\ a + F!ChunkOffset(l) = w
  BY <1>1, <1>2, <1>3
<1> QED BY <1>4 DEF a, b, w, e
-----------------------------------------------------------------------------
\* What a step of p leaves to the others.
Others(p) ==
  /\ \A q \in Procs \ {p} :
       /\ f_pc'[q] = f_pc[q] /\ f_io'[q] = f_io[q] /\ f_map'[q] = f_map[q]
       /\ f_pool'[q] = f_pool[q] /\ f_sockets'[q] = f_sockets[q] /\ f_leaked'[q] = f_leaked[q]
  /\ \A q \in Procs \ {p}, i \in Inodes : Writes(q, i) => f_file'[i].data = f_file[i].data

\* p changes its own open files, and its own connections, only.
MapOf(p) ==
  /\ f_map' \in [Procs -> [Inodes -> OpenFiles \cup {F!NoFile}]]
  /\ \A q \in Procs \ {p} : f_map'[q] = f_map[q]
ConnectionsOf(p) ==
  /\ f_pool' \in [Procs -> [F!Servers -> {"none", "alive", "freed"}]]
  /\ f_sockets' \in [Procs -> Int] /\ f_leaked' \in [Procs -> Int]
  /\ \A q \in Procs \ {p} :
       f_pool'[q] = f_pool[q] /\ f_sockets'[q] = f_sockets[q] /\ f_leaked'[q] = f_leaked[q]
\* p goes on at x with the locals l.
GoesTo(p, x, l) == f_pc' = [f_pc EXCEPT ![p] = x] /\ f_io' = [f_io EXCEPT ![p] = l]
\* The bounds go on.
Counted == f_ops' \in Nat /\ f_faults' \in Nat /\ (f_faults' = 0 => f_faults = 0)

\* A process that is in a call has its locals.
LEMMA CallTyped ==
  ASSUME FileTypes, NEW p \in Procs, f_io[p].op # "none" \/ f_io[p] # F!NoIO
  PROVE  f_io[p] \in IOs /\ f_io[p] # F!NoIO
BY DEF FileTypes, F!NoIO, IOs

\* What a step of p leaves alone of the others stays in order.
LEMMA OthersKeep ==
  ASSUME FileInv, NEW p \in Procs, Others(p), NEW q \in Procs \ {p}
  PROVE  CallInv(q)' /\ WriteInv(q)' /\ ReadInv(q)' /\ Connected(q)'
<1>1. /\ f_pc'[q] = f_pc[q] /\ f_io'[q] = f_io[q] /\ f_map'[q] = f_map[q]
      /\ f_pool'[q] = f_pool[q] /\ f_sockets'[q] = f_sockets[q] /\ f_leaked'[q] = f_leaked[q]
  BY DEF Others
<1>2. CallInv(q) /\ WriteInv(q) /\ ReadInv(q) /\ Connected(q)
  BY DEF FileInv
<1>3. CallInv(q)'
  BY <1>1, <1>2 DEF CallInv, PcsOf
<1>4. WriteInv(q)'
  <2>1. ASSUME f_io[q].op = "write"
        PROVE  f_file'[f_io[q].inode].data = f_file[f_io[q].inode].data
    <3>1. f_io[q].inode \in Inodes
      BY <2>1, CallTyped DEF FileInv, IOs
    <3> QED BY <2>1, <3>1 DEF Others, Writes
  <2> QED BY <1>1, <1>2, <2>1 DEF WriteInv
<1>5. ReadInv(q)'
  BY <1>1, <1>2 DEF ReadInv
<1>6. Connected(q)'
  BY <1>1, <1>2 DEF Connected
<1> QED BY <1>3, <1>4, <1>5, <1>6

\* A step of p keeps the invariant when what it touches is in order.
LEMMA StepKeeps ==
  ASSUME FileInv, NEW p \in Procs, FileTypes', Others(p), AckInv', ChunkInv',
         CallInv(p)', WriteInv(p)', ReadInv(p)', Connected(p)'
  PROVE  FileInv'
BY OthersKeep DEF FileInv

\* A step that acknowledges nothing and starts no write.
LEMMA AckKeeps ==
  ASSUME FileInv, FileTypes', f_acked' \subseteq f_acked,
         \A q \in Procs, i \in Inodes : Writes(q, i)' =>
           Writes(q, i) /\ f_io'[q].start = f_io[q].start /\ f_io'[q].end = f_io[q].end,
         \A a \in f_acked' :
           /\ f_file'[a.inode].length >= a.start + a.count
           /\ \A j \in 0 .. a.count - 1 :
                f_file'[a.inode].data[a.start + j] = f_file[a.inode].data[a.start + j]
  PROVE  AckInv'
<1>1. AckInv
  BY DEF FileInv
<1>2. (\A i \in Inodes, p, q \in Procs : Writes(p, i) /\ Writes(q, i) => p = q)'
  BY <1>1 DEF AckInv
<1>3. (\A i \in Inodes, p \in Procs, a \in f_acked :
         Writes(p, i) => ~F!Overlaps(a, i, f_io[p].start, f_io[p].end))'
  BY <1>1 DEF AckInv, F!Overlaps
<1>4. (F!AckedStays)'
  BY <1>1 DEF AckInv, F!AckedStays
<1>5. (\A a \in f_acked : a.start + a.count <= MaxSize)'
  BY <1>1 DEF AckInv
<1> QED BY <1>2, <1>3, <1>4, <1>5 DEF AckInv

\* A step that locks no chunk, and drops none that is held.
LEMMA ChunkKeeps ==
  ASSUME FileInv, NEW p \in Procs, Others(p), f_faults' = 0 => f_faults = 0,
         \A i \in Inodes : f_file'[i].locked \subseteq f_file[i].locked,
         \A i \in Inodes : \A c \in f_file'[i].locked :
           f_faults' = 0 /\ Holds(p, i, c) => Holds(p, i, c)'
  PROVE  ChunkInv'
<1> SUFFICES ASSUME f_faults' = 0, NEW i \in Inodes, NEW c \in f_file'[i].locked
             PROVE  (\E q \in Procs : Holds(q, i, c))'
  BY DEF ChunkInv
<1>1. PICK q \in Procs : Holds(q, i, c)
  BY DEF FileInv, ChunkInv
<1>2. CASE q = p
  BY <1>1, <1>2
<1>3. CASE q # p
  BY <1>1, <1>3 DEF Others, Holds, Writes
<1> QED BY <1>2, <1>3

\* A connection is put into the pool, taken out of it, or neither.
AliveIn(p) == {s \in F!Servers : f_pool[p][s] = "alive"}

\* One place of a pool changes: how many are alive.
LEMMA PoolCounts ==
  ASSUME FileTypes, NEW p \in Procs, NEW s \in F!Servers,
         f_pool'[p] = [f_pool[p] EXCEPT ![s] = f_pool'[p][s]]
  PROVE  /\ Cardinality(AliveIn(p)) \in Nat /\ Cardinality(AliveIn(p)') \in Nat
         /\ f_pool[p][s] # "alive" /\ f_pool'[p][s] = "alive" =>
              Cardinality(AliveIn(p)') = Cardinality(AliveIn(p)) + 1
         /\ f_pool[p][s] = "alive" /\ f_pool'[p][s] # "alive" =>
              Cardinality(AliveIn(p)') = Cardinality(AliveIn(p)) - 1
         /\ f_pool[p][s] # "alive" /\ f_pool'[p][s] # "alive" =>
              Cardinality(AliveIn(p)') = Cardinality(AliveIn(p))
<1>1. f_pool[p] \in [F!Servers -> {"none", "alive", "freed"}]
  BY DEF FileTypes
<1>2. AliveIn(p)' = {t \in F!Servers : f_pool'[p][t] = "alive"}
  BY DEF AliveIn
<1>3. \A t \in F!Servers : t # s => f_pool'[p][t] = f_pool[p][t]
  BY <1>1
<1>4. f_pool[p][s] # "alive" /\ f_pool'[p][s] = "alive" =>
        AliveIn(p)' = AliveIn(p) \cup {s} /\ s \notin AliveIn(p)
  BY <1>2, <1>3 DEF AliveIn
<1>5. f_pool[p][s] = "alive" /\ f_pool'[p][s] # "alive" =>
        AliveIn(p)' = AliveIn(p) \ {s} /\ s \in AliveIn(p)
  BY <1>2, <1>3 DEF AliveIn
<1>6. f_pool[p][s] # "alive" /\ f_pool'[p][s] # "alive" => AliveIn(p)' = AliveIn(p)
  BY <1>2, <1>3 DEF AliveIn
<1>7. IsFiniteSet(AliveIn(p)) /\ IsFiniteSet(AliveIn(p)')
  <2>1. AliveIn(p) \subseteq F!Servers /\ AliveIn(p)' \subseteq F!Servers
    BY <1>2 DEF AliveIn
  <2> QED BY <2>1, ServersFacts, FS_Subset
<1>8. Cardinality(AliveIn(p)) \in Nat /\ Cardinality(AliveIn(p)') \in Nat
  BY <1>7, FS_CardinalityType
<1> QED BY <1>4, <1>5, <1>6, <1>7, <1>8, FS_AddElement, FS_RemoveElement

\* The call ends.
LEMMA Returning ==
  ASSUME FileInv, NEW p \in Procs, f_io[p] # F!NoIO, NEW n \in Int, NEW position \in Nat,
         F!Return(p, n, position)
  PROVE  GoesTo(p, "idle", F!NoIO) /\ MapOf(p) /\ f_result' \in [Procs -> Int]
<1>1. FileTypes
  BY DEF FileInv
<1>2. f_io[p] \in IOs
  BY <1>1, CallTyped
<1>3. f_io[p].inode \in Inodes
  BY <1>2 DEF IOs
<1>4. f_map[p][f_io[p].inode] \in OpenFiles
  BY <1>1, <1>3 DEF FileInv, CallInv, FileTypes
<1>5. [f_map[p][f_io[p].inode] EXCEPT !.position = position] \in OpenFiles
  BY <1>4 DEF OpenFiles
<1>6. MapOf(p)
  BY <1>1, <1>3, <1>5 DEF F!Return, FileTypes, MapOf
<1>7. GoesTo(p, "idle", F!NoIO)
  BY DEF F!Return, F!Go, GoesTo
<1>8. f_result' \in [Procs -> Int]
  BY <1>1 DEF F!Return, FileTypes
<1> QED BY <1>6, <1>7, <1>8

\* A process outside every call.
LEMMA NothingDoing ==
  ASSUME NEW p \in Procs, f_pc'[p] = "idle", f_io'[p] = F!NoIO
  PROVE  CallInv(p)' /\ WriteInv(p)' /\ ReadInv(p)'
         /\ \A i \in Inodes : ~Writes(p, i)'
BY DEF CallInv, WriteInv, ReadInv, PcsOf, F!NoIO, Writes
-----------------------------------------------------------------------------
\* What the invariant says of a call in progress.
LEMMA AtCall ==
  ASSUME FileInv, NEW p \in Procs
  PROVE  /\ f_pc[p] = "idle" => f_io[p] = F!NoIO
         /\ f_pc[p] # "idle" => f_io[p] \in IOs /\ f_io[p] # F!NoIO /\ f_io[p].inode \in Inodes
         /\ f_pc[p] \in ClosePcs => f_io[p].op = "close"
         /\ f_pc[p] \in WritePcs => f_io[p].op = "write"
         /\ f_pc[p] \in ReadPcs => f_io[p].op = "read"
<1>1. FileTypes /\ CallInv(p)
  BY DEF FileInv
<1>2. f_io[p] \in IOs \cup {F!NoIO} /\ f_pc[p] \in PcsOf(f_io[p].op)
  BY <1>1 DEF FileTypes, CallInv
<1>3. CASE f_io[p] = F!NoIO
  <2>1. f_pc[p] = "idle"
    BY <1>2, <1>3 DEF F!NoIO, PcsOf
  <2> QED BY <1>3, <2>1 DEF ClosePcs, WritePcs, ReadPcs
<1>4. CASE f_io[p] \in IOs
  <2>1. f_io[p].op \in {"close", "write", "read"} /\ f_io[p].inode \in Inodes
    BY <1>4 DEF IOs
  <2>2. f_io[p] # F!NoIO
    BY <2>1 DEF F!NoIO
  <2>3. CASE f_io[p].op = "close"
    BY <1>2, <1>4, <2>1, <2>2, <2>3 DEF PcsOf, ClosePcs, WritePcs, ReadPcs
  <2>4. CASE f_io[p].op = "write"
    BY <1>2, <1>4, <2>1, <2>2, <2>4 DEF PcsOf, ClosePcs, WritePcs, ReadPcs
  <2>5. CASE f_io[p].op = "read"
    BY <1>2, <1>4, <2>1, <2>2, <2>5 DEF PcsOf, ClosePcs, WritePcs, ReadPcs
  <2> QED BY <2>1, <2>3, <2>4, <2>5
<1> QED BY <1>2, <1>3, <1>4

\* A process outside every call writes no file.
LEMMA IdleWrites ==
  ASSUME NEW p, f_io[p] = F!NoIO
  PROVE  \A i : ~Writes(p, i)
BY DEF Writes, F!NoIO

\* The files at the master stay, and so do the calls but for those that end.
LEMMA NoFileChange ==
  ASSUME FileInv, NEW p \in Procs, FileTypes', Others(p), f_file' = f_file,
         f_acked' = f_acked, f_faults' = 0 => f_faults = 0,
         CallInv(p)', WriteInv(p)', ReadInv(p)', Connected(p)',
         \A i \in Inodes : Writes(p, i)' =>
           /\ Writes(p, i) /\ f_io'[p].start = f_io[p].start /\ f_io'[p].end = f_io[p].end,
         \A i \in Inodes : \A c \in f_file[i].locked :
           f_faults' = 0 /\ Holds(p, i, c) => Holds(p, i, c)'
  PROVE  FileInv'
<1>1. AckInv'
  <2>1. ASSUME NEW q \in Procs, NEW i \in Inodes, Writes(q, i)'
        PROVE  Writes(q, i) /\ f_io'[q].start = f_io[q].start /\ f_io'[q].end = f_io[q].end
    BY <2>1 DEF Others, Writes
  <2>2. F!AckedStays
    BY DEF FileInv, AckInv
  <2>3. \A a \in f_acked' :
           /\ f_file'[a.inode].length >= a.start + a.count
           /\ \A j \in 0 .. a.count - 1 :
                f_file'[a.inode].data[a.start + j] = f_file[a.inode].data[a.start + j]
    BY <2>2 DEF F!AckedStays
  <2> QED BY <2>1, <2>3, AckKeeps
<1>2. ChunkInv'
  BY ChunkKeeps
<1> QED BY <1>1, <1>2, StepKeeps

\* Where p is and what it has after a step.
LEMMA StepTyped ==
  ASSUME FileInv, NEW p \in Procs, NEW x \in FilePcs, NEW l \in IOs \cup {F!NoIO},
         GoesTo(p, x, l), MapOf(p), ConnectionsOf(p), Counted, f_result' \in [Procs -> Int],
         f_file' \in [Inodes -> Stores], f_acked' \subseteq Acks
  PROVE  /\ FileTypes' /\ f_pc'[p] = x /\ f_io'[p] = l
         /\ (\A q \in Procs \ {p}, i \in Inodes :
               Writes(q, i) => f_file'[i].data = f_file[i].data) => Others(p)
<1>1. f_pc \in [Procs -> FilePcs] /\ f_io \in [Procs -> IOs \cup {F!NoIO}]
  BY DEF FileInv, FileTypes
<1>2. /\ f_pc' \in [Procs -> FilePcs] /\ f_pc'[p] = x
      /\ \A q \in Procs \ {p} : f_pc'[q] = f_pc[q]
  BY <1>1 DEF GoesTo
<1>3. /\ f_io' \in [Procs -> IOs \cup {F!NoIO}] /\ f_io'[p] = l
      /\ \A q \in Procs \ {p} : f_io'[q] = f_io[q]
  BY <1>1 DEF GoesTo
<1>4. FileTypes'
  BY <1>2, <1>3 DEF FileTypes, MapOf, ConnectionsOf, Counted
<1> QED BY <1>2, <1>3, <1>4 DEF Others, MapOf, ConnectionsOf

\* A step that touches no connection.
LEMMA SameConnections ==
  ASSUME FileInv, NEW p \in Procs, UNCHANGED <<f_pool, f_sockets, f_leaked>>
  PROVE  /\ ConnectionsOf(p)
         /\ (f_pc'[p] \in {"write block", "read block"} <=>
               f_pc[p] \in {"write block", "read block"})
              => Connected(p)'
<1>1. FileTypes /\ Connected(p)
  BY DEF FileInv
<1>2. ConnectionsOf(p)
  BY <1>1 DEF FileTypes, ConnectionsOf
<1> QED BY <1>1, <1>2 DEF Connected

\* A step that changes the open files of a process only.
LEMMA MapOnly ==
  ASSUME FileInv, NEW p \in Procs, f_pc[p] = "idle", MapOf(p), f_result' \in [Procs -> Int],
         Counted, UNCHANGED <<f_file, f_pool, f_sockets, f_pc, f_io, f_acked, f_leaked>>
  PROVE  FileInv'
<1>1. f_io[p] = F!NoIO
  BY AtCall
<1>2. FileTypes'
  BY DEF FileInv, FileTypes, MapOf, Counted
<1>3. Others(p)
  BY DEF Others, MapOf
<1>4. CallInv(p)' /\ WriteInv(p)' /\ ReadInv(p)' /\ \A i \in Inodes : ~Writes(p, i)'
  BY <1>1, NothingDoing
<1>5. Connected(p)'
  BY SameConnections
<1>6. \A i \in Inodes : ~Writes(p, i)
  BY <1>1 DEF Writes, F!NoIO
<1>7. f_faults' = 0 => f_faults = 0
  BY DEF Counted
<1> QED BY <1>2, <1>3, <1>4, <1>5, <1>6, <1>7, NoFileChange DEF Holds

\* The locals that Close, Read and Write begin with.
LEMMA LocalsTyped ==
  ASSUME FileInv, NEW op \in {"close", "write", "read"}, NEW i \in Inodes,
         NEW position \in Nat, NEW n \in Nat
  PROVE  /\ F!Locals(op, i, position, n) \in IOs
         /\ position \div M64 \in Nat /\ (position \div M64) * M64 <= position
         /\ position <= (position \div M64 + 1) * M64
<1>1. position \div M64 \in Nat /\ (position \div M64) * M64 <= position
         /\ position <= (position \div M64 + 1) * M64
  BY Division, MooseAssumption
<1>2. Locations[1] \in F!Servers
  <2>1. Len(Locations) = 2
    BY DEF Locations
  <2> QED BY <2>1, ServersFacts
<1>3. f_ops + 1 \in Nat /\ position + n \in Nat
  BY DEF FileInv, FileTypes
<1> HIDE DEF Locations
<1> QED BY <1>1, <1>2, <1>3 DEF F!Locals, IOs

\* File::Open.
LEMMA OpenKeeps ==
  ASSUME FileInv, NEW p \in Procs, NEW i \in Inodes, NEW m, NEW append \in BOOLEAN,
         F!Open(p, i, m, append)
  PROVE  FileInv'
<1>1. FileTypes
  BY DEF FileInv
<1>2. f_pc[p] = "idle" /\ Counted
  BY <1>1 DEF F!Open, F!Begin, F!Fault, FileTypes, Counted
<1>3. MapOf(p)
  <2>1. CASE f_map' = f_map
    BY <1>1, <2>1 DEF FileTypes, MapOf
  <2>2. CASE f_map' = [f_map EXCEPT ![p][i] =
                     [position |-> IF append THEN f_file[i].length ELSE 0,
                      truncate_in_close |-> m = "O_WRONLY" \/ append]]
    <3>1. f_file[i].length \in Nat
      BY <1>1 DEF FileTypes, Stores
    <3>2. [position |-> IF append THEN f_file[i].length ELSE 0,
           truncate_in_close |-> m = "O_WRONLY" \/ append] \in OpenFiles
      BY <3>1 DEF OpenFiles
    <3> QED BY <1>1, <2>2, <3>2 DEF FileTypes, MapOf
  <2> QED BY <2>1, <2>2 DEF F!Open
<1>4. UNCHANGED <<f_file, f_pool, f_sockets, f_pc, f_io, f_result, f_acked, f_leaked>>
  BY DEF F!Open
<1>5. f_result' \in [Procs -> Int]
  BY <1>1, <1>4 DEF FileTypes
<1> QED BY <1>2, <1>3, <1>4, <1>5, MapOnly

\* File::Seek.
LEMMA SeekKeeps ==
  ASSUME FileInv, NEW p \in Procs, NEW i \in Inodes, NEW o \in Offsets, NEW cur \in BOOLEAN,
         F!Seek(p, i, o, cur)
  PROVE  FileInv'
<1>1. FileTypes
  BY DEF FileInv
<1>2. f_pc[p] = "idle" /\ Counted
  BY <1>1 DEF F!Seek, F!Begin, F!Fault, FileTypes, Counted
<1>3. f_map[p][i] \in OpenFiles /\ f_map[p][i].position \in Nat
  BY <1>1 DEF F!Seek, FileTypes, OpenFiles
<1> DEFINE to == IF cur THEN f_map[p][i].position + o ELSE o
<1>4. to \in Nat
  BY <1>3, MooseAssumption
<1>5. f_map' = f_map \/ f_map' = [f_map EXCEPT ![p][i].position = to]
  BY DEF F!Seek
<1> HIDE DEF to
<1>6. [f_map[p][i] EXCEPT !.position = to] \in OpenFiles
  BY <1>3, <1>4 DEF OpenFiles
<1>7. MapOf(p)
  <2>1. CASE f_map' = f_map
    BY <1>1, <2>1 DEF FileTypes, MapOf
  <2>2. CASE f_map' = [f_map EXCEPT ![p][i].position = to]
    <3>1. [f_map[p] EXCEPT ![i] = [f_map[p][i] EXCEPT !.position = to]]
            \in [Inodes -> OpenFiles \cup {F!NoFile}]
      BY <1>1, <1>6 DEF FileTypes
    <3> QED BY <1>1, <2>2, <3>1 DEF FileTypes, MapOf
  <2> QED BY <1>5, <2>1, <2>2
<1>8. UNCHANGED <<f_file, f_pool, f_sockets, f_pc, f_io, f_result, f_acked, f_leaked>>
  BY DEF F!Seek
<1>9. f_result' \in [Procs -> Int]
  BY <1>1, <1>8 DEF FileTypes
<1> QED BY <1>2, <1>7, <1>8, <1>9, MapOnly
-----------------------------------------------------------------------------
Fresh(l) == l.end = l.start + l.count /\ l.buf = l.write_position - l.start /\ l.buf = 0

\* A call that begins has read nothing.
LEMMA FreshReads ==
  ASSUME NEW l \in IOs, Fresh(l)
  PROVE  l.end <= l.start + l.count /\ \A k \in 0 .. l.buf - 1 : FALSE
<1>1. l.end = l.start + l.count /\ l.end \in Nat /\ l.buf = 0
  BY DEF Fresh, IOs
<1> QED BY <1>1

\* A Close or a Read begins.
LEMMA IOBegins ==
  ASSUME FileInv, NEW p \in Procs, f_pc[p] = "idle", NEW l \in IOs, Fresh(l),
         NEW x \in {"getattr", "read chunk"}, GoesTo(p, x, l),
         l.op = IF x = "getattr" THEN "close" ELSE "read",
         MapOf(p), f_map'[p][l.inode] # F!NoFile, Counted,
         UNCHANGED <<f_file, f_pool, f_sockets, f_acked, f_leaked, f_result>>
  PROVE  FileInv'
<1>1. FileTypes /\ x \in FilePcs
  BY DEF FileInv, FilePcs, ClosePcs, ReadPcs
<1>2. ConnectionsOf(p)
  BY SameConnections
<1>3. f_result' \in [Procs -> Int] /\ f_file' \in [Inodes -> Stores] /\ f_acked' \subseteq Acks
  BY <1>1 DEF FileTypes
<1>4. FileTypes' /\ f_pc'[p] = x /\ f_io'[p] = l /\ Others(p)
  BY <1>1, <1>2, <1>3, StepTyped
<1>5. CallInv(p)'
  BY <1>4 DEF CallInv, PcsOf, ClosePcs, ReadPcs
<1>6. WriteInv(p)' /\ ReadInv(p)' /\ \A i \in Inodes : ~Writes(p, i)'
  BY <1>4, FreshReads DEF WriteInv, ReadInv, Writes, Fresh
<1>7. Connected(p)'
  BY <1>4, SameConnections
<1>8. \A i \in Inodes : ~Writes(p, i)
  BY AtCall, IdleWrites
<1>9. f_faults' = 0 => f_faults = 0
  BY DEF Counted
<1> QED BY <1>4, <1>5, <1>6, <1>7, <1>8, <1>9, NoFileChange DEF Holds

\* The entry of the open file is dropped.
LEMMA CloseFileTyped ==
  ASSUME FileTypes, NEW p \in Procs, NEW i \in Inodes, F!CloseFile(p, i)
  PROVE  MapOf(p)
BY DEF FileTypes, F!CloseFile, MapOf

\* File::Close begins, or ends at once.
LEMMA CloseKeeps ==
  ASSUME FileInv, NEW p \in Procs, NEW i \in Inodes, F!Close(p, i)
  PROVE  FileInv'
<1>1. FileTypes
  BY DEF FileInv
<1>2. f_pc[p] = "idle" /\ f_map[p][i] # F!NoFile
  BY DEF F!Close, F!Begin
<1>3. f_map[p][i].position \in Nat
  BY <1>1, <1>2 DEF FileTypes, OpenFiles
<1>4. UNCHANGED <<f_file, f_pool, f_sockets, f_result, f_acked, f_leaked, f_faults>> /\ Counted
  BY <1>1 DEF F!Close, F!Begin, FileTypes, Counted
<1>5. CASE f_map[p][i].truncate_in_close
  <2> DEFINE l == F!Locals("close", i, f_map[p][i].position, 0)
  <2>1. l \in IOs
    BY <1>3, LocalsTyped
  <2>2. l.op = "close" /\ l.inode = i /\ Fresh(l)
    BY <1>3 DEF F!Locals, Fresh
  <2>3. GoesTo(p, "getattr", l) /\ f_map' = f_map
    BY <1>5 DEF F!Close, F!Go, GoesTo
  <2> HIDE DEF l
  <2>4. MapOf(p) /\ f_map'[p][l.inode] # F!NoFile
    BY <1>1, <1>2, <2>2, <2>3 DEF FileTypes, MapOf
  <2> QED BY <1>2, <1>4, <2>1, <2>2, <2>3, <2>4, IOBegins
<1>6. CASE ~f_map[p][i].truncate_in_close
  <2>1. F!CloseFile(p, i) /\ UNCHANGED <<f_pc, f_io>>
    BY <1>6 DEF F!Close
  <2>2. f_result' \in [Procs -> Int] /\ MapOf(p)
    BY <1>1, <1>4, <2>1, CloseFileTyped DEF FileTypes
  <2> QED BY <1>2, <1>4, <2>1, <2>2, MapOnly
<1> QED BY <1>5, <1>6

\* A call ends, and the master has not changed.
LEMMA CallEnds ==
  ASSUME FileInv, NEW p \in Procs, GoesTo(p, "idle", F!NoIO), MapOf(p), ConnectionsOf(p),
         f_result' \in [Procs -> Int], Connected(p)', Counted,
         f_faults' = 0 => \A i \in Inodes : \A c \in f_file[i].locked : ~Holds(p, i, c),
         UNCHANGED <<f_file, f_acked>>
  PROVE  FileInv'
<1>1. f_file' \in [Inodes -> Stores] /\ f_acked' \subseteq Acks /\ "idle" \in FilePcs
  BY DEF FileInv, FileTypes, FilePcs
<1>2. FileTypes' /\ f_pc'[p] = "idle" /\ f_io'[p] = F!NoIO /\ Others(p)
  BY <1>1, StepTyped
<1>3. f_faults' = 0 => f_faults = 0
  BY DEF Counted
<1> QED BY <1>2, <1>3, NothingDoing, NoFileChange

\* File::Close asks for the length before it truncates.
LEMMA GetAttrKeeps ==
  ASSUME FileInv, NEW p \in Procs, F!GetAttr(p)
  PROVE  FileInv'
<1>1. FileTypes
  BY DEF FileInv
<1>2. f_pc[p] = "getattr" /\ f_io[p] \in IOs /\ f_io[p].op = "close" /\ f_io[p].inode \in Inodes
  BY AtCall DEF F!GetAttr, ClosePcs
<1>3. /\ Counted
      /\ UNCHANGED <<f_file, f_pool, f_sockets, f_result, f_acked, f_leaked, f_ops>>
  BY <1>1 DEF F!GetAttr, F!Fault, FileTypes, Counted
<1>4. /\ f_result' \in [Procs -> Int] /\ f_file' \in [Inodes -> Stores]
      /\ f_acked' \subseteq Acks /\ ConnectionsOf(p)
  BY <1>1, <1>3, SameConnections DEF FileTypes
<1>5. \A i \in Inodes : ~Writes(p, i) /\ \A c : ~Holds(p, i, c)
  BY <1>2 DEF Writes, Holds
<1>6. CASE F!Closed(p)
  <2>1. GoesTo(p, "idle", F!NoIO) /\ F!CloseFile(p, f_io[p].inode)
    BY <1>6 DEF F!Closed, F!Go, GoesTo
  <2>2. MapOf(p)
    BY <1>1, <1>2, <2>1, CloseFileTyped
  <2>3. f_pc'[p] = "idle"
    BY <1>1, <2>1 DEF FileTypes, GoesTo
  <2>4. Connected(p)'
    BY <1>2, <1>3, <2>3, SameConnections
  <2> QED BY <1>3, <1>4, <1>5, <2>1, <2>2, <2>4, CallEnds
<1>7. CASE F!Go(p, "truncate") /\ UNCHANGED <<f_io, f_map, f_faults>>
  <2>1. GoesTo(p, "truncate", f_io[p]) /\ UNCHANGED f_map
    BY <1>1, <1>7 DEF F!Go, GoesTo, FileTypes
  <2>2. MapOf(p) /\ "truncate" \in FilePcs
    BY <1>1, <2>1 DEF FileTypes, MapOf, FilePcs, ClosePcs
  <2>3. FileTypes' /\ Others(p) /\ f_pc'[p] = "truncate" /\ f_io'[p] = f_io[p]
    BY <1>2, <1>3, <1>4, <2>1, <2>2, StepTyped
  <2>4. CallInv(p)'
    <3>1. CallInv(p)
      BY DEF FileInv
    <3> QED BY <1>2, <2>1, <2>3, <3>1 DEF CallInv, PcsOf, ClosePcs
  <2>5. Connected(p)'
    BY <1>2, <1>3, <2>3, SameConnections
  <2>6. WriteInv(p)' /\ ReadInv(p)' /\ \A i \in Inodes : ~Writes(p, i)'
    BY <1>2, <2>3 DEF WriteInv, ReadInv, Writes
  <2>7. f_faults' = 0 => f_faults = 0
    BY <1>3 DEF Counted
  <2> QED BY <1>3, <1>5, <2>3, <2>4, <2>5, <2>6, <2>7, NoFileChange
<1> QED BY <1>6, <1>7 DEF F!GetAttr
-----------------------------------------------------------------------------
\* An open file is not NoFile.
LEMMA OpenIsFile == \A f \in OpenFiles : f # F!NoFile
<1> SUFFICES ASSUME NEW f \in OpenFiles, f = F!NoFile PROVE FALSE
  OBVIOUS
<1>1. DOMAIN f = {"position", "truncate_in_close"} /\ DOMAIN f = {"position"}
  BY DEF OpenFiles, F!NoFile
<1> QED BY <1>1

\* Read and Write set the position of the File.
LEMMA Positioned ==
  ASSUME FileInv, NEW p \in Procs, NEW i \in Inodes, f_map[p][i] # F!NoFile,
         NEW position \in Nat, f_map' = [f_map EXCEPT ![p][i].position = position]
  PROVE  MapOf(p) /\ f_map'[p][i] # F!NoFile
<1>1. f_map \in [Procs -> [Inodes -> OpenFiles \cup {F!NoFile}]]
  BY DEF FileInv, FileTypes
<1>2. [f_map[p][i] EXCEPT !.position = position] \in OpenFiles
  BY <1>1 DEF OpenFiles
<1>3. f_map'[p] = [f_map[p] EXCEPT ![i] = [f_map[p][i] EXCEPT !.position = position]]
  BY <1>1
<1>4. f_map'[p] \in [Inodes -> OpenFiles \cup {F!NoFile}] /\ f_map'[p][i] \in OpenFiles
  BY <1>1, <1>2, <1>3
<1> QED BY <1>1, <1>4, OpenIsFile DEF MapOf

\* The position of an open file.
LEMMA PositionTyped ==
  ASSUME FileInv, NEW p \in Procs, NEW i \in Inodes, f_map[p][i] # F!NoFile
  PROVE  f_map[p][i].position \in Nat
BY DEF FileInv, FileTypes, OpenFiles

\* File::Read begins.
LEMMA ReadKeeps ==
  ASSUME FileInv, NEW p \in Procs, NEW i \in Inodes, NEW n \in Counts,
         NEW o \in Offsets \cup {f_map[p][i].position}, F!Read(p, i, o, n)
  PROVE  FileInv'
<1>1. FileTypes
  BY DEF FileInv
<1>2. f_pc[p] = "idle" /\ f_map[p][i] # F!NoFile /\ Counted
  <2>1. f_ops \in Nat /\ f_faults \in Nat
    BY <1>1 DEF FileTypes
  <2>2. f_pc[p] = "idle" /\ f_map[p][i] # F!NoFile /\ f_ops' = f_ops + 1 /\ f_faults' = f_faults
    BY DEF F!Read, F!Begin
  <2> QED BY <2>1, <2>2 DEF Counted
<1>3. o \in Nat /\ n \in Nat
  BY <1>2, PositionTyped, MooseAssumption
<1>4. MapOf(p) /\ f_map'[p][i] # F!NoFile
  BY <1>2, <1>3, Positioned DEF F!Read
<1>5. UNCHANGED <<f_file, f_pool, f_sockets, f_acked, f_leaked, f_faults>>
  BY DEF F!Read
<1>6. CASE o >= MFS_MAX_FILE_SIZE
  <2>1. f_result' \in [Procs -> Int] /\ UNCHANGED <<f_pc, f_io>>
    BY <1>1, <1>6 DEF F!Read, F!EFBIG, FileTypes
  <2> QED BY <1>2, <1>4, <1>5, <2>1, MapOnly
<1>7. CASE ~(o >= MFS_MAX_FILE_SIZE)
  <2> DEFINE l == F!Locals("read", i, o, n)
  <2>1. l \in IOs
    BY <1>3, LocalsTyped
  <2>2. l.op = "read" /\ l.inode = i /\ Fresh(l)
    BY <1>3 DEF F!Locals, Fresh
  <2>3. GoesTo(p, "read chunk", l) /\ f_result' = f_result
    BY <1>7 DEF F!Read, F!Go, GoesTo
  <2> HIDE DEF l
  <2> QED BY <1>2, <1>4, <1>5, <2>1, <2>2, <2>3, IOBegins
<1> QED BY <1>6, <1>7

\* File::Write begins: what it will overwrite no longer counts as acknowledged.
LEMMA WriteKeeps ==
  ASSUME FileInv, NEW p \in Procs, NEW i \in Inodes, NEW n \in Counts,
         NEW o \in Offsets \cup {f_map[p][i].position}, F!Write(p, i, o, n)
  PROVE  FileInv'
<1>1. FileTypes /\ AckInv
  BY DEF FileInv
<1>2. f_pc[p] = "idle" /\ f_map[p][i] # F!NoFile /\ Counted /\ o + n <= MaxSize
  <2>1. f_ops \in Nat /\ f_faults \in Nat
    BY <1>1 DEF FileTypes
  <2>2. /\ f_pc[p] = "idle" /\ f_map[p][i] # F!NoFile /\ o + n <= MaxSize
        /\ f_ops' = f_ops + 1 /\ f_faults' = f_faults
    BY DEF F!Write, F!Begin
  <2> QED BY <2>1, <2>2 DEF Counted
<1>3. o \in Nat /\ n \in Nat
  BY <1>2, PositionTyped, MooseAssumption
<1>4. MapOf(p) /\ f_map'[p][i] # F!NoFile
  BY <1>2, <1>3, Positioned DEF F!Write
<1>5. /\ UNCHANGED <<f_file, f_pool, f_sockets, f_leaked, f_result, f_faults>>
      /\ f_acked' = {a \in f_acked : ~F!Overlaps(a, i, o, o + n)}
      /\ \A q \in Procs : f_io[q].op = "write" => f_io[q].inode # i
  BY DEF F!Write
<1> DEFINE l == F!Locals("write", i, o, n)
<1>6. l \in IOs
  BY <1>3, LocalsTyped
<1>7. /\ l.op = "write" /\ l.inode = i /\ Fresh(l) /\ l.start = o /\ l.count = n
      /\ l.end = o + n /\ l.write_position = o /\ l.chunk_index = o \div M64
  BY <1>3 DEF F!Locals, Fresh
<1>8. GoesTo(p, "write chunk", l)
  BY DEF F!Write, F!Go, GoesTo
<1> HIDE DEF l
<1>9. /\ ConnectionsOf(p) /\ f_result' \in [Procs -> Int] /\ f_file' \in [Inodes -> Stores]
      /\ f_acked' \subseteq Acks /\ "write chunk" \in FilePcs
  BY <1>1, <1>5, SameConnections DEF FileTypes, FilePcs, WritePcs
<1>10. FileTypes' /\ f_pc'[p] = "write chunk" /\ f_io'[p] = l /\ Others(p)
  BY <1>2, <1>4, <1>5, <1>6, <1>8, <1>9, StepTyped
<1>11. CallInv(p)'
  BY <1>4, <1>7, <1>10 DEF CallInv, PcsOf, WritePcs
<1>12. ReadInv(p)' /\ Connected(p)'
  <2>1. ReadInv(p)'
    BY <1>7, <1>10 DEF ReadInv
  <2> QED BY <1>2, <1>5, <1>10, <2>1, SameConnections
<1>13. WriteInv(p)'
  <2>1. l.chunk_index * M64 <= l.write_position /\ l.write_position <= (l.chunk_index + 1) * M64
    BY <1>3, <1>7, LocalsTyped
  <2>2. /\ l.end = l.start + l.count /\ l.end <= MaxSize
        /\ l.start <= l.write_position /\ l.write_position <= l.end
        /\ l.buf = l.write_position - l.start /\ \A k \in 0 .. l.buf - 1 : FALSE
    BY <1>2, <1>3, <1>6, <1>7, FreshReads DEF Fresh
  <2>3. WriteAt("write chunk", l)
    BY <2>1, <2>2 DEF WriteAt
  <2> QED BY <1>7, <1>10, <2>2, <2>3 DEF WriteInv
<1>14. f_io[p] = F!NoIO
  BY <1>2, AtCall
<1>15. ChunkInv'
  <2>1. \A k, c : ~Holds(p, k, c)
    BY <1>14, IdleWrites DEF Holds
  <2> QED BY <1>5, <1>10, <2>1, ChunkKeeps
<1>16. AckInv'
  <2>1. \A q \in Procs, k \in Inodes : Writes(q, k)' <=> IF q = p THEN k = i ELSE Writes(q, k)
    BY <1>7, <1>10 DEF Writes, Others
  <2>2. \A q \in Procs : ~Writes(q, i)
    BY <1>5 DEF Writes
  <2>3. (\A k \in Inodes, r, q \in Procs : Writes(r, k) /\ Writes(q, k) => r = q)'
    BY <1>1, <2>1, <2>2 DEF AckInv
  <2>4. (\A k \in Inodes, q \in Procs, a \in f_acked :
           Writes(q, k) => ~F!Overlaps(a, k, f_io[q].start, f_io[q].end))'
    <3> SUFFICES ASSUME NEW k \in Inodes, NEW q \in Procs, NEW a \in f_acked', Writes(q, k)'
                 PROVE  ~F!Overlaps(a, k, f_io'[q].start, f_io'[q].end)
      BY DEF F!Overlaps
    <3>1. CASE q = p
      BY <1>5, <1>7, <1>10, <2>1, <3>1
    <3>2. CASE q # p
      BY <1>1, <1>5, <1>10, <2>1, <3>2 DEF AckInv, Others
    <3> QED BY <3>1, <3>2
  <2>5. (F!AckedStays)'
    BY <1>1, <1>5 DEF AckInv, F!AckedStays
  <2>6. (\A a \in f_acked : a.start + a.count <= MaxSize)'
    BY <1>1, <1>5 DEF AckInv
  <2> QED BY <2>3, <2>4, <2>5, <2>6 DEF AckInv
<1> QED BY <1>10, <1>11, <1>12, <1>13, <1>15, <1>16, StepKeeps
-----------------------------------------------------------------------------
\* A Write whose file is truncated is not acknowledged; nothing else of it
\* changes.
LEMMA FailedIO ==
  ASSUME NEW l \in IOs, NEW m, m = [l EXCEPT !.failed = TRUE]
  PROVE  /\ m \in IOs /\ m.failed
         /\ m.op = l.op /\ m.inode = l.inode /\ m.start = l.start /\ m.count = l.count
         /\ m.call = l.call /\ m.end = l.end /\ m.write_position = l.write_position
         /\ m.chunk_index = l.chunk_index /\ m.chunk_pos = l.chunk_pos
         /\ m.blockno = l.blockno /\ m.buf = l.buf /\ m.server = l.server
         /\ m.filled = l.filled
BY DEF IOs

\* What is known of a write in progress does not depend on its result.
LEMMA FailedAt ==
  ASSUME NEW l, NEW m, NEW x, WriteAt(x, l),
         m.start = l.start, m.count = l.count, m.end = l.end,
         m.write_position = l.write_position, m.chunk_index = l.chunk_index,
         m.chunk_pos = l.chunk_pos, m.blockno = l.blockno, m.buf = l.buf
  PROVE  WriteAt(x, m)
BY DEF WriteAt

\* A truncated file: its length, its locks, the bytes before the cut.
LEMMA TruncatedTyped ==
  ASSUME NEW f \in Stores, NEW n \in Nat
  PROVE  /\ F!Truncated(f, n) \in Stores
         /\ F!Truncated(f, n).length = n /\ F!Truncated(f, n).locked = f.locked
         /\ \A o \in 0 .. MaxSize - 1 : o < n => F!Truncated(f, n).data[o] = f.data[o]
<1> DEFINE d == [o \in DOMAIN f.data |-> IF o < n THEN f.data[o] ELSE F!Hole]
<1>1. f.data \in [0 .. MaxSize - 1 -> Int \X Int] /\ F!Hole \in Int \X Int
  BY DEF Stores, F!Hole
<1>2. d \in [0 .. MaxSize - 1 -> Int \X Int]
  BY <1>1
<1>3. \A o \in 0 .. MaxSize - 1 : o < n => d[o] = f.data[o]
  BY <1>1
<1>4. F!Truncated(f, n) = [f EXCEPT !.length = n, !.data = d]
  BY DEF F!Truncated
<1> HIDE DEF d
<1>5. /\ F!Truncated(f, n) \in Stores /\ F!Truncated(f, n).data = d
      /\ F!Truncated(f, n).length = n /\ F!Truncated(f, n).locked = f.locked
  BY <1>2, <1>4 DEF Stores
<1> QED BY <1>3, <1>5

\* A file is cut: the writes that reached past the cut no longer count.
LEMMA CutKeeps ==
  ASSUME FileInv, NEW p \in Procs, f_pc[p] = "truncate", NEW i \in Inodes, NEW n \in Nat,
         i = f_io[p].inode, f_io[p].op = "close",
         f_file' = [f_file EXCEPT ![i] = F!Truncated(@, n)],
         f_acked' = {a \in f_acked : a.inode # i \/ a.start + a.count <= n},
         f_io' = [q \in Procs |-> IF q = p THEN F!NoIO
                                  ELSE IF f_io[q].op = "write" /\ f_io[q].inode = i
                                  THEN [f_io[q] EXCEPT !.failed = TRUE] ELSE f_io[q]],
         f_pc' = [f_pc EXCEPT ![p] = "idle"], F!CloseFile(p, i), Counted,
         UNCHANGED <<f_pool, f_sockets, f_result, f_leaked>>
  PROVE  FileInv'
<1>1. FileTypes /\ AckInv
  BY DEF FileInv
<1>2. f_file[i] \in Stores
  BY <1>1 DEF FileTypes
<1>3. /\ f_file' \in [Inodes -> Stores] /\ f_file'[i] = F!Truncated(f_file[i], n)
      /\ \A k \in Inodes : k # i => f_file'[k] = f_file[k]
  BY <1>1, <1>2, TruncatedTyped DEF FileTypes
<1>4. \A k \in Inodes : f_file'[k].locked = f_file[k].locked
  BY <1>2, <1>3, TruncatedTyped
<1>5. ASSUME NEW q \in Procs, q # p
      PROVE  /\ f_pc'[q] = f_pc[q] /\ f_map'[q] = f_map[q] /\ f_io'[q] \in IOs \cup {F!NoIO}
             /\ Writes(q, i) => f_io[q] \in IOs /\ f_io'[q] = [f_io[q] EXCEPT !.failed = TRUE]
             /\ ~Writes(q, i) => f_io'[q] = f_io[q]
  <2>1. f_pc'[q] = f_pc[q] /\ f_map'[q] = f_map[q]
    BY <1>1, <1>5, CloseFileTyped DEF FileTypes, MapOf
  <2>2. Writes(q, i) => f_io[q] \in IOs /\ f_io'[q] = [f_io[q] EXCEPT !.failed = TRUE]
    BY <1>1, <1>5, CallTyped DEF Writes
  <2>3. ~Writes(q, i) => f_io'[q] = f_io[q]
    BY <1>5 DEF Writes
  <2>4. f_io[q] \in IOs \cup {F!NoIO}
    BY <1>1 DEF FileTypes
  <2> QED BY <2>1, <2>2, <2>3, <2>4, FailedIO
<1>6. f_io'[p] = F!NoIO /\ f_pc'[p] = "idle"
  BY <1>1 DEF FileTypes
<1>7. FileTypes'
  <2>1. f_io' \in [Procs -> IOs \cup {F!NoIO}]
    <3>1. \A q \in Procs : f_io'[q] \in IOs \cup {F!NoIO}
      BY <1>5, <1>6
    <3>2. f_io' = [q \in Procs |-> f_io'[q]]
      OBVIOUS
    <3> QED BY <3>1, <3>2
  <2>2. f_pc' \in [Procs -> FilePcs]
    BY <1>1 DEF FileTypes, FilePcs
  <2>3. f_map' \in [Procs -> [Inodes -> OpenFiles \cup {F!NoFile}]]
    BY <1>1, CloseFileTyped DEF MapOf
  <2>4. f_acked' \subseteq Acks /\ f_ops' \in Nat /\ f_faults' \in Nat
    BY <1>1 DEF FileTypes, Counted
  <2> QED BY <1>1, <1>3, <2>1, <2>2, <2>3, <2>4 DEF FileTypes
<1>8. ASSUME NEW q \in Procs, q # p
      PROVE  /\ f_io'[q].op = f_io[q].op /\ f_io'[q].inode = f_io[q].inode
             /\ f_io'[q].start = f_io[q].start /\ f_io'[q].end = f_io[q].end
             /\ f_io'[q].chunk_index = f_io[q].chunk_index
  BY <1>5, <1>8, FailedIO
<1>9. ASSUME NEW q \in Procs, q # p
      PROVE  CallInv(q)' /\ WriteInv(q)' /\ ReadInv(q)' /\ Connected(q)'
  <2>1. CallInv(q) /\ WriteInv(q) /\ ReadInv(q) /\ Connected(q)
    BY DEF FileInv
  <2>2. f_pc'[q] = f_pc[q] /\ f_map'[q] = f_map[q]
    BY <1>5, <1>9
  <2>3. Connected(q)'
    BY <2>1, <2>2 DEF Connected
  <2>4. CASE ~Writes(q, i)
    <3>1. f_io'[q] = f_io[q]
      BY <1>5, <1>9, <2>4
    <3>2. f_io[q].op = "write" => f_file'[f_io[q].inode] = f_file[f_io[q].inode]
      <4> SUFFICES ASSUME f_io[q].op = "write"
                   PROVE  f_file'[f_io[q].inode] = f_file[f_io[q].inode]
        OBVIOUS
      <4>1. f_io[q] \in IOs
        BY <1>1, CallTyped
      <4>2. f_io[q].inode \in Inodes /\ f_io[q].inode # i
        BY <2>4, <4>1 DEF IOs, Writes
      <4> QED BY <1>3, <4>2
    <3>3. CallInv(q)' /\ ReadInv(q)'
      BY <2>1, <2>2, <3>1 DEF CallInv, ReadInv, PcsOf
    <3>4. WriteInv(q)'
      BY <2>1, <2>2, <3>1, <3>2 DEF WriteInv
    <3> QED BY <2>3, <3>3, <3>4
  <2>5. CASE Writes(q, i)
    <3>1. /\ f_io[q] \in IOs /\ f_io'[q] = [f_io[q] EXCEPT !.failed = TRUE]
          /\ f_io[q].op = "write" /\ f_io[q] # F!NoIO
      <4>1. f_io[q].op = "write"
        BY <2>5 DEF Writes
      <4>2. f_io[q] # F!NoIO
        BY ONLY <4>1 DEF F!NoIO
      <4>3. f_io[q] \in IOs /\ f_io'[q] = [f_io[q] EXCEPT !.failed = TRUE]
        BY <1>5, <1>9, <2>5, Zenon
      <4> QED BY ONLY <4>1, <4>2, <4>3
    <3>2. /\ f_io'[q].failed /\ f_io'[q].op = "write" /\ f_io'[q].inode = f_io[q].inode
          /\ f_io'[q].start = f_io[q].start /\ f_io'[q].count = f_io[q].count
          /\ f_io'[q].end = f_io[q].end /\ f_io'[q].write_position = f_io[q].write_position
          /\ f_io'[q].chunk_index = f_io[q].chunk_index
          /\ f_io'[q].chunk_pos = f_io[q].chunk_pos
          /\ f_io'[q].blockno = f_io[q].blockno /\ f_io'[q].buf = f_io[q].buf
      BY <3>1, FailedIO
    <3>3. CallInv(q)'
      BY <2>1, <2>2, <3>1, <3>2 DEF CallInv, PcsOf
    <3>4. WriteInv(q)'
      <4>1. WriteAt(f_pc[q], f_io[q])
        BY <2>1, <3>1 DEF WriteInv
      <4>2. WriteAt(f_pc'[q], f_io'[q])
        BY <2>2, <3>2, <4>1, FailedAt
      <4> QED BY <3>2, <4>2 DEF WriteInv, WriteAt
    <3>5. ReadInv(q)'
      BY <3>2 DEF ReadInv
    <3> QED BY <2>3, <3>3, <3>4, <3>5
  <2> QED BY <2>4, <2>5
<1>10. CallInv(p)' /\ WriteInv(p)' /\ ReadInv(p)' /\ Connected(p)'
  BY <1>6, NothingDoing, SameConnections
<1>11. AckInv'
  <2>1. ASSUME NEW q \in Procs, NEW k \in Inodes, Writes(q, k)'
        PROVE  Writes(q, k) /\ f_io'[q].start = f_io[q].start /\ f_io'[q].end = f_io[q].end
    <3>1. q # p
      BY <1>6, <2>1, NothingDoing
    <3> QED BY <1>8, <2>1, <3>1 DEF Writes
  <2>2. ASSUME NEW a \in f_acked'
        PROVE  /\ f_file'[a.inode].length >= a.start + a.count
               /\ \A j \in 0 .. a.count - 1 :
                    f_file'[a.inode].data[a.start + j] = f_file[a.inode].data[a.start + j]
    <3>1. a \in f_acked /\ a \in Acks /\ a.start + a.count <= MaxSize
      BY <1>1, <2>2 DEF FileTypes, AckInv
    <3>2. a.inode \in Inodes /\ a.start \in Nat /\ a.count \in Nat
      BY <3>1 DEF Acks
    <3>3. CASE a.inode # i
      BY <1>1, <1>3, <3>1, <3>2, <3>3 DEF AckInv, F!AckedStays
    <3>4. CASE a.inode = i
      <4>1. a.start + a.count <= n
        BY <3>4
      <4>2. \A j \in 0 .. a.count - 1 : a.start + j \in 0 .. MaxSize - 1 /\ a.start + j < n
        BY <3>1, <3>2, <4>1, MooseAssumption
      <4>3. f_file'[i].length = n
        BY <1>2, <1>3, TruncatedTyped
      <4>4. \A o \in 0 .. MaxSize - 1 : o < n => f_file'[i].data[o] = f_file[i].data[o]
        BY <1>2, <1>3, TruncatedTyped
      <4>5. f_file'[i].length >= a.start + a.count
        BY <3>2, <4>1, <4>3
      <4> QED BY <3>4, <4>2, <4>4, <4>5
    <3> QED BY <3>3, <3>4
  <2>3. f_acked' \subseteq f_acked
    OBVIOUS
  <2> QED BY <1>7, <2>1, <2>2, <2>3, AckKeeps
<1>12. ChunkInv'
  <2> SUFFICES ASSUME f_faults' = 0, NEW k \in Inodes, NEW c \in f_file'[k].locked
               PROVE  (\E q \in Procs : Holds(q, k, c))'
    BY DEF ChunkInv
  <2>1. PICK q \in Procs : Holds(q, k, c)
    BY <1>4 DEF FileInv, ChunkInv, Counted
  <2>2. q # p
    BY <2>1 DEF Holds, Writes
  <2>3. f_pc'[q] = f_pc[q] /\ f_io'[q].op = f_io[q].op /\ f_io'[q].inode = f_io[q].inode
        /\ f_io'[q].chunk_index = f_io[q].chunk_index
    BY <1>5, <1>8, <2>2
  <2> QED BY <2>1, <2>3 DEF Holds, Writes
<1> QED BY <1>7, <1>9, <1>10, <1>11, <1>12 DEF FileInv

\* The Truncate of File::Close.
LEMMA TruncateKeeps ==
  ASSUME FileInv, NEW p \in Procs, F!Truncate(p)
  PROVE  FileInv'
<1>1. FileTypes
  BY DEF FileInv
<1>2. /\ f_pc[p] = "truncate" /\ f_io[p] \in IOs /\ f_io[p].op = "close"
      /\ f_io[p].inode \in Inodes
  BY AtCall DEF F!Truncate, ClosePcs
<1>3. f_io[p].start \in Nat
  BY <1>2 DEF IOs
<1>4. Counted /\ UNCHANGED <<f_pool, f_sockets, f_result, f_leaked, f_ops>>
  BY <1>1 DEF F!Truncate, F!Fault, FileTypes, Counted
<1>5. CASE F!Closed(p) /\ UNCHANGED <<f_file, f_acked>>
  <2>1. GoesTo(p, "idle", F!NoIO) /\ F!CloseFile(p, f_io[p].inode)
    BY <1>5 DEF F!Closed, F!Go, GoesTo
  <2>2. MapOf(p)
    BY <1>1, <1>2, <2>1, CloseFileTyped
  <2>3. f_pc'[p] = "idle" /\ f_result' \in [Procs -> Int]
    BY <1>1, <1>4, <2>1 DEF FileTypes, GoesTo
  <2>4. Connected(p)' /\ ConnectionsOf(p)
    BY <1>2, <1>4, <2>3, SameConnections
  <2>5. \A i \in Inodes : \A c : ~Holds(p, i, c)
    BY <1>2 DEF Writes, Holds
  <2> QED BY <1>4, <1>5, <2>1, <2>2, <2>3, <2>4, <2>5, CallEnds
<1>6. CASE ~(F!Closed(p) /\ UNCHANGED <<f_file, f_acked>>)
  BY <1>2, <1>3, <1>4, <1>6, CutKeeps DEF F!Truncate, F!Go
<1> QED BY <1>5, <1>6
-----------------------------------------------------------------------------
\* A Write changes its own file only, and leaves what was acknowledged.
OwnFile(p) ==
  f_file' \in [Inodes -> Stores] /\ \A k \in Inodes : ~Writes(p, k) => f_file'[k] = f_file[k]
AcksKept ==
  \A a \in f_acked :
    /\ f_file'[a.inode].length >= a.start + a.count
    /\ \A j \in 0 .. a.count - 1 :
         f_file'[a.inode].data[a.start + j] = f_file[a.inode].data[a.start + j]

\* No two writes are on one file.
LEMMA OwnFileOthers ==
  ASSUME FileInv, NEW p \in Procs, OwnFile(p)
  PROVE  \A q \in Procs \ {p}, i \in Inodes : Writes(q, i) => f_file'[i].data = f_file[i].data
BY DEF FileInv, AckInv, OwnFile

\* A step that leaves the files alone.
LEMMA SameFile ==
  ASSUME FileInv, NEW p \in Procs, f_file' = f_file
  PROVE  OwnFile(p) /\ AcksKept
<1>1. FileTypes /\ F!AckedStays
  BY DEF FileInv, AckInv
<1>2. OwnFile(p)
  BY <1>1 DEF FileTypes, OwnFile
<1>3. AcksKept
  BY <1>1 DEF F!AckedStays, AcksKept
<1> QED BY <1>2, <1>3

\* A call ends after a failure, with whatever it has written.
LEMMA FailedCallEnds ==
  ASSUME FileInv, NEW p \in Procs, GoesTo(p, "idle", F!NoIO), MapOf(p), ConnectionsOf(p),
         f_result' \in [Procs -> Int], Connected(p)', Counted, OwnFile(p), AcksKept,
         f_acked' = f_acked, f_faults' # 0
  PROVE  FileInv'
<1>1. f_file' \in [Inodes -> Stores] /\ f_acked' \subseteq Acks /\ "idle" \in FilePcs
  BY DEF FileInv, FileTypes, FilePcs, OwnFile
<1>2. FileTypes' /\ f_pc'[p] = "idle" /\ f_io'[p] = F!NoIO /\ Others(p)
  BY <1>1, OwnFileOthers, StepTyped
<1>3. CallInv(p)' /\ WriteInv(p)' /\ ReadInv(p)' /\ \A i \in Inodes : ~Writes(p, i)'
  BY <1>2, NothingDoing
<1>4. AckInv'
  <2>1. ASSUME NEW q \in Procs, NEW i \in Inodes, Writes(q, i)'
        PROVE  Writes(q, i) /\ f_io'[q].start = f_io[q].start /\ f_io'[q].end = f_io[q].end
    BY <1>2, <1>3, <2>1 DEF Others, Writes
  <2> QED BY <1>2, <2>1, AckKeeps DEF AcksKept
<1>5. ChunkInv'
  BY DEF ChunkInv
<1> QED BY <1>2, <1>3, <1>4, <1>5, StepKeeps

\* A call returns 0.
LEMMA ReturnsZero ==
  ASSUME FileInv, NEW p \in Procs, f_pc[p] # "idle", F!ReturnZero(p)
  PROVE  GoesTo(p, "idle", F!NoIO) /\ MapOf(p) /\ f_result' \in [Procs -> Int] /\ f_pc'[p] = "idle"
<1>1. f_io[p] # F!NoIO /\ f_io[p].inode \in Inodes
  BY AtCall
<1>2. f_map[p][f_io[p].inode] # F!NoFile
  BY <1>1 DEF FileInv, CallInv
<1>3. f_map[p][f_io[p].inode].position \in Nat
  BY <1>1, <1>2, PositionTyped
<1>4. GoesTo(p, "idle", F!NoIO) /\ MapOf(p) /\ f_result' \in [Procs -> Int]
  BY <1>1, <1>3, Returning DEF F!ReturnZero
<1>5. f_pc'[p] = "idle"
  BY <1>4 DEF GoesTo, FileInv, FileTypes
<1> QED BY <1>4, <1>5

\* The first block of a chunk.
LEMMA FirstBlock ==
  ASSUME NEW l \in IOs, WriteAt("write chunk", l)
  PROVE  /\ F!ChunkOffset(l) \in Int /\ F!ChunkOffset(l) \div K64 \in Int
         /\ l.chunk_index * M64 + F!ChunkOffset(l) = l.write_position
         /\ (F!ChunkOffset(l) \div K64) * K64 <= F!ChunkOffset(l)
         /\ F!ChunkOffset(l) <= (F!ChunkOffset(l) \div K64 + 1) * K64
<1>1. /\ l.chunk_index * M64 <= l.write_position /\ l.write_position <= (l.chunk_index + 1) * M64
      /\ l.write_position <= l.end
  BY DEF WriteAt
<1>2. F!ChunkOffset(l) \in Nat /\ l.chunk_index * M64 + F!ChunkOffset(l) = l.write_position
  BY <1>1, ChunkBytes
<1>3. K64 \in Nat \ {0}
  BY MooseAssumption
<1> DEFINE c == F!ChunkOffset(l)
<1>4. c \in Nat
  BY <1>2
<1> HIDE DEF c
<1>5. c \div K64 \in Nat /\ (c \div K64) * K64 <= c /\ c <= (c \div K64 + 1) * K64
  BY ONLY <1>3, <1>4, Division
<1>6. c \in Int /\ c \div K64 \in Int
  BY ONLY <1>4, <1>5
<1> QED BY <1>2, <1>5, <1>6 DEF c

\* Where a write is once its chunk is locked: at a block of that chunk.
LEMMA ConnectAt ==
  ASSUME NEW l \in IOs, WriteAt("write chunk", l), NEW c \in Int, NEW b \in Int,
         l.chunk_index * M64 + c = l.write_position, b * K64 <= c, c <= (b + 1) * K64,
         NEW m \in IOs, m.start = l.start, m.count = l.count, m.end = l.end,
         m.write_position = l.write_position, m.chunk_index = l.chunk_index, m.buf = l.buf,
         m.chunk_pos = c, m.blockno = b
  PROVE  WriteAt("write connect", m)
<1> DEFINE x == l.chunk_index * M64
           y == (l.chunk_index + 1) * M64
           w == l.write_position
<1>1. /\ x <= w /\ w <= y /\ w <= l.end /\ l.buf = w - l.start
      /\ l.end = l.start + l.count /\ l.end <= MaxSize /\ l.start <= w
  BY DEF WriteAt
<1>2. x \in Int /\ y = x + M64 /\ M64 \in Int
  <2>1. l.chunk_index \in Int /\ M64 \in Int
    BY ONLY l \in IOs, IOTyped, MooseAssumption
  <2> QED BY <2>1, NextMultiple
<1>3. w \in Int /\ l.end \in Int /\ l.start \in Int
  BY ONLY l \in IOs, IOTyped
<1>4. x + c = w
  OBVIOUS
<1>5. x = m.chunk_index * M64 /\ y = (m.chunk_index + 1) * M64 /\ w = m.write_position
  OBVIOUS
<1> HIDE DEF x, y, w
<1>6. c <= M64 /\ l.buf = x + c - l.start /\ w <= x + c /\ x + c <= l.end
  BY ONLY <1>1, <1>2, <1>3, <1>4, c \in Int
<1> QED BY <1>1, <1>5, <1>6 DEF WriteAt

\* The chunk of a Write.
LEMMA WriteChunkKeeps ==
  ASSUME FileInv, NEW p \in Procs, F!WriteChunk(p)
  PROVE  FileInv'
<1> DEFINE l == f_io[p]
           i == f_io[p].inode
           f == f_file[i]
           made == [f_file EXCEPT ![i].chunks = @ \cup {l.chunk_index},
                                  ![i].locked = @ \cup {l.chunk_index}]
<1>1. FileTypes /\ AckInv /\ WriteInv(p)
  BY DEF FileInv
<1>2. /\ f_pc[p] = "write chunk" /\ l \in IOs /\ l.op = "write" /\ i \in Inodes
      /\ Writes(p, i) /\ f_io[p] # F!NoIO
  BY AtCall DEF F!WriteChunk, WritePcs, Writes
<1>3. Counted /\ UNCHANGED <<f_pool, f_sockets, f_acked, f_leaked, f_ops>>
  <2>1. f_ops \in Nat /\ f_faults \in Nat
    BY <1>1 DEF FileTypes
  <2>2. f_faults' = f_faults \/ f_faults' = f_faults + 1
    BY DEF F!WriteChunk, F!Fault
  <2>3. UNCHANGED <<f_pool, f_sockets, f_acked, f_leaked, f_ops>>
    BY DEF F!WriteChunk
  <2> QED BY <2>1, <2>2, <2>3 DEF Counted
<1>4. f \in Stores /\ l.chunk_index \in Nat
  BY <1>1, <1>2 DEF FileTypes, IOs
<1>5. ASSUME f_file' = made
      PROVE  /\ OwnFile(p) /\ AcksKept /\ f_file'[i].data = f.data
             /\ f_file'[i].locked = f.locked \cup {l.chunk_index}
             /\ \A k \in Inodes : k # i => f_file'[k] = f_file[k]
  <2>1. /\ f_file' \in [Inodes -> Stores] /\ f_file'[i].data = f.data
        /\ f_file'[i].length = f.length
        /\ f_file'[i].locked = f.locked \cup {l.chunk_index}
        /\ \A k \in Inodes : k # i => f_file'[k] = f_file[k]
    <3>1. f_file \in [Inodes -> Stores]
      BY <1>1 DEF FileTypes
    <3>2. f_file' = [f_file EXCEPT ![i] = [f EXCEPT !.chunks = @ \cup {l.chunk_index},
                                                    !.locked = @ \cup {l.chunk_index}]]
      BY <1>2, <1>5, <3>1
    <3>3. [f EXCEPT !.chunks = @ \cup {l.chunk_index}, !.locked = @ \cup {l.chunk_index}]
            \in Stores
      BY <1>4 DEF Stores
    <3>4. f_file'[i] = [f EXCEPT !.chunks = @ \cup {l.chunk_index},
                                 !.locked = @ \cup {l.chunk_index}]
      BY <1>2, <3>1, <3>2
    <3>5. /\ f_file'[i].data = f.data /\ f_file'[i].length = f.length
          /\ f_file'[i].locked = f.locked \cup {l.chunk_index}
      BY <1>4, <3>4 DEF Stores
    <3> QED BY <1>2, <3>1, <3>2, <3>3, <3>5
  <2>2. OwnFile(p)
    BY <1>2, <2>1 DEF OwnFile
  <2>3. AcksKept
    <3>1. \A k \in Inodes : f_file'[k].data = f_file[k].data /\ f_file'[k].length = f_file[k].length
      BY <2>1
    <3>2. \A a \in f_acked : a.inode \in Inodes
      BY <1>1 DEF FileTypes, Acks
    <3> QED BY <1>1, <3>1, <3>2 DEF AcksKept, AckInv, F!AckedStays
  <2> QED BY <2>1, <2>2, <2>3
<1>6. CASE F!ReturnZero(p)
  <2>1. /\ GoesTo(p, "idle", F!NoIO) /\ MapOf(p) /\ f_result' \in [Procs -> Int]
        /\ f_pc'[p] = "idle"
    BY <1>2, <1>6, ReturnsZero
  <2>2. Connected(p)' /\ ConnectionsOf(p)
    BY <1>2, <1>3, <2>1, SameConnections
  <2>3. OwnFile(p) /\ AcksKept
    <3>1. f_file' = made \/ f_file' = f_file
      BY DEF F!WriteChunk
    <3> QED BY <1>5, <3>1, SameFile
  <2>4. f_faults' # 0
    <3>1. ASSUME f_faults' = 0 PROVE FALSE
      <4>1. f_faults = 0 /\ f_faults' = f_faults
        BY <1>1, <1>3, <3>1 DEF FileTypes, Counted
      <4>2. ~F!Fault("master")
        BY <4>1 DEF F!Fault
      <4>3. l.chunk_index \in f.locked
        <5>1. f_pc'[p] # "write connect"
          BY <2>1
        <5>2. ~F!Go(p, "write connect")
          BY <1>1, <5>1 DEF F!Go, FileTypes
        <5> QED BY <4>2, <5>2 DEF F!WriteChunk
      <4>4. PICK q \in Procs : Holds(q, i, l.chunk_index)
        BY <1>2, <4>1, <4>3 DEF FileInv, ChunkInv
      <4>5. q = p
        BY <1>1, <1>2, <4>4 DEF AckInv, Holds
      <4> QED BY <1>2, <4>4, <4>5 DEF Holds
    <3> QED BY <3>1
  <2> QED BY <1>3, <2>1, <2>2, <2>3, <2>4, FailedCallEnds
<1>7. CASE ~F!ReturnZero(p)
  <2> DEFINE m == [l EXCEPT !.chunk_pos = F!ChunkOffset(l), !.blockno = F!ChunkOffset(l) \div K64]
  <2>1. /\ f_file' = made /\ F!Go(p, "write connect") /\ UNCHANGED <<f_map, f_result, f_faults>>
        /\ f_io' = [f_io EXCEPT ![p].chunk_pos = F!ChunkOffset(l),
                                ![p].blockno = F!ChunkOffset(l) \div K64]
    BY <1>7 DEF F!WriteChunk
  <2>2. WriteAt("write chunk", l)
    BY <1>1, <1>2 DEF WriteInv
  <2>6. GoesTo(p, "write connect", m)
    BY <1>1, <1>2, <2>1 DEF GoesTo, F!Go, FileTypes
  <2>7. m = [l EXCEPT !.chunk_pos = F!ChunkOffset(l), !.blockno = F!ChunkOffset(l) \div K64]
    OBVIOUS
  <2> DEFINE c == F!ChunkOffset(l)
             b == F!ChunkOffset(l) \div K64
  <2>3. /\ c \in Int /\ b \in Int /\ l.chunk_index * M64 + c = l.write_position
        /\ b * K64 <= c /\ c <= (b + 1) * K64
    BY <1>2, <2>2, FirstBlock
  <2> HIDE DEF m
  <2>4. /\ m \in IOs /\ m.op = l.op /\ m.inode = l.inode /\ m.start = l.start
        /\ m.count = l.count /\ m.call = l.call /\ m.end = l.end
        /\ m.write_position = l.write_position /\ m.chunk_index = l.chunk_index
        /\ m.chunk_pos = c /\ m.blockno = b /\ m.buf = l.buf /\ m.failed = l.failed
    <3>1. c \in Int /\ b \in Int /\ m = [l EXCEPT !.chunk_pos = c, !.blockno = b] /\ l \in IOs
      BY <1>2, <2>3, <2>7
    <3> HIDE DEF l, c, b
    <3> QED BY ONLY <3>1 DEF IOs
  <2>5. WriteAt("write connect", m)
    <3> HIDE DEF c, b
    <3> QED BY <1>2, <2>2, <2>3, <2>4, ConnectAt
  <2>8. /\ m \in IOs /\ m.op = "write" /\ m.inode = i /\ m.start = l.start /\ m.count = l.count
        /\ m.call = l.call /\ m.end = l.end /\ m.write_position = l.write_position
        /\ m.chunk_index = l.chunk_index /\ m.buf = l.buf /\ m.failed = l.failed
        /\ WriteAt("write connect", m)
    BY <1>2, <2>4, <2>5
  <2>9. OwnFile(p) /\ AcksKept /\ f_file'[i].data = f.data
          /\ f_file'[i].locked = f.locked \cup {l.chunk_index}
          /\ \A k \in Inodes : k # i => f_file'[k] = f_file[k]
    BY <1>5, <2>1
  <2>10. /\ MapOf(p) /\ f_result' \in [Procs -> Int] /\ f_file' \in [Inodes -> Stores]
         /\ f_acked' \subseteq Acks /\ ConnectionsOf(p) /\ "write connect" \in FilePcs
    BY <1>1, <1>3, <2>1, <2>9, SameConnections DEF MapOf, FileTypes, OwnFile, FilePcs, WritePcs
  <2>11. FileTypes' /\ f_pc'[p] = "write connect" /\ f_io'[p] = m /\ Others(p)
    BY <1>3, <2>6, <2>8, <2>9, <2>10, StepTyped, OwnFileOthers
  <2>12. CallInv(p)' /\ ReadInv(p)' /\ Connected(p)'
    <3>1. CallInv(p)
      BY DEF FileInv
    <3>2. CallInv(p)'
      BY <1>2, <2>1, <2>8, <2>11, <3>1 DEF CallInv, PcsOf, WritePcs
    <3>3. Connected(p)'
      BY <1>2, <1>3, <2>11, SameConnections
    <3> QED BY <2>8, <2>11, <3>2, <3>3 DEF ReadInv
  <2>14. WriteInv(p)'
    <3>1. ~l.failed => \A j \in 0 .. l.buf - 1 : f.data[l.start + j] = <<l.call, j>>
      BY <1>1, <1>2 DEF WriteInv
    <3>2. ~m.failed => \A j \in 0 .. m.buf - 1 : f_file'[m.inode].data[m.start + j] = <<m.call, j>>
      BY <2>8, <2>9, <3>1
    <3> QED BY <2>8, <2>11, <3>2 DEF WriteInv
  <2>15. AckInv'
    <3>1. ASSUME NEW q \in Procs, NEW k \in Inodes, Writes(q, k)'
          PROVE  Writes(q, k) /\ f_io'[q].start = f_io[q].start /\ f_io'[q].end = f_io[q].end
      BY <1>2, <2>8, <2>11, <3>1 DEF Others, Writes
    <3> QED BY <1>3, <2>9, <2>11, <3>1, AckKeeps DEF AcksKept
  <2>16. ChunkInv'
    <3> SUFFICES ASSUME f_faults' = 0, NEW k \in Inodes, NEW d \in f_file'[k].locked
                 PROVE  (\E q \in Procs : Holds(q, k, d))'
      BY DEF ChunkInv
    <3>1. CASE k = i /\ d = l.chunk_index
      <4>1. Holds(p, k, d)'
        BY <2>8, <2>11, <3>1 DEF Holds, Writes
      <4> QED BY <4>1
    <3>2. CASE ~(k = i /\ d = l.chunk_index)
      <4>1. d \in f_file[k].locked
        BY <2>9, <3>2
      <4>2. PICK q \in Procs : Holds(q, k, d)
        BY <1>3, <4>1 DEF FileInv, ChunkInv, Counted
      <4>3. q # p
        BY <1>2, <4>2 DEF Holds
      <4>4. Holds(q, k, d)'
        BY <2>11, <4>2, <4>3 DEF Others, Holds, Writes
      <4> QED BY <4>4
    <3> QED BY <3>1, <3>2
  <2> QED BY <2>11, <2>12, <2>14, <2>15, <2>16, StepKeeps
<1> QED BY <1>6, <1>7
-----------------------------------------------------------------------------
\* A connection for the chunk is made, or is lost before its first block.
LEMMA WriteConnectKeeps ==
  ASSUME FileInv, NEW p \in Procs, F!WriteConnect(p)
  PROVE  FileInv'
<1>1. FileTypes /\ CallInv(p) /\ WriteInv(p) /\ Connected(p)
  BY DEF FileInv
<1>2. /\ f_pc[p] = "write connect" /\ f_io[p] \in IOs /\ f_io[p].op = "write"
  BY AtCall DEF F!WriteConnect, WritePcs
<1>3. Counted /\ UNCHANGED <<f_file, f_pool, f_acked, f_ops>>
  <2>1. f_ops \in Nat /\ f_faults \in Nat
    BY <1>1 DEF FileTypes
  <2>2. f_faults' = f_faults \/ f_faults' = f_faults + 1
    BY DEF F!WriteConnect, F!Fault
  <2>3. UNCHANGED <<f_file, f_pool, f_acked, f_ops>>
    BY DEF F!WriteConnect
  <2> QED BY <2>1, <2>2, <2>3 DEF Counted
<1>4. f_sockets[p] \in Int /\ f_leaked[p] \in Int /\ Cardinality(AliveIn(p)) \in Nat
  <2>1. AliveIn(p) \subseteq F!Servers
    BY DEF AliveIn
  <2> QED BY <1>1, <2>1, ServersFacts, FS_Subset, FS_CardinalityType DEF FileTypes
<1>5. f_sockets[p] = f_leaked[p] + Cardinality(AliveIn(p))
  <2>1. f_sockets[p] = f_leaked[p] + Cardinality(AliveIn(p)) + 0
    BY <1>1, <1>2 DEF Connected, AliveIn
  <2> QED BY <1>4, <2>1
<1>6. /\ f_sockets' = [f_sockets EXCEPT ![p] = @ + 1] \/ f_sockets' = f_sockets
      /\ f_leaked' = [f_leaked EXCEPT ![p] = @ + 1] \/ f_leaked' = f_leaked
  BY DEF F!WriteConnect
<1>7. ConnectionsOf(p)
  BY <1>1, <1>3, <1>6 DEF FileTypes, ConnectionsOf
<1>8. CASE F!ReturnZero(p)
  <2>1. /\ GoesTo(p, "idle", F!NoIO) /\ MapOf(p) /\ f_result' \in [Procs -> Int]
        /\ f_pc'[p] = "idle"
    BY <1>2, <1>8, ReturnsZero
  <2>2. ~F!Go(p, "write block")
    BY <1>1, <2>1 DEF F!Go, FileTypes
  <2>3. f_sockets'[p] - f_leaked'[p] = f_sockets[p] - f_leaked[p] /\ f_faults' # 0
    <3>1. f_faults \in Nat
      BY <1>1 DEF FileTypes
    <3>2. f_faults' = f_faults + 1
      BY <2>2 DEF F!WriteConnect, F!Fault
    <3>3. \/ /\ f_sockets' = [f_sockets EXCEPT ![p] = @ + 1]
             /\ f_leaked' = [f_leaked EXCEPT ![p] = @ + 1]
          \/ UNCHANGED <<f_sockets, f_leaked>>
      BY <2>2 DEF F!WriteConnect
    <3> QED BY <1>1, <1>4, <3>1, <3>2, <3>3 DEF FileTypes
  <2>4. Connected(p)'
    <3>1. f_sockets'[p] \in Int /\ f_leaked'[p] \in Int
      BY <1>7 DEF ConnectionsOf
    <3>2. f_sockets'[p] = f_leaked'[p] + Cardinality(AliveIn(p)) + 0
      BY <1>4, <1>5, <2>3, <3>1
    <3> QED BY <1>3, <2>1, <3>2 DEF Connected, AliveIn
  <2> QED BY <1>3, <1>7, <2>1, <2>3, <2>4, SameFile, FailedCallEnds
<1>9. CASE ~F!ReturnZero(p)
  <2>1. /\ F!Go(p, "write block") /\ UNCHANGED <<f_io, f_map, f_result, f_leaked, f_faults>>
        /\ f_sockets' = [f_sockets EXCEPT ![p] = @ + 1]
    BY <1>9 DEF F!WriteConnect
  <2>2. GoesTo(p, "write block", f_io[p])
    BY <1>1, <2>1 DEF GoesTo, F!Go, FileTypes
  <2>3. /\ MapOf(p) /\ f_result' \in [Procs -> Int] /\ f_file' \in [Inodes -> Stores]
        /\ f_acked' \subseteq Acks /\ "write block" \in FilePcs
    BY <1>1, <1>3, <2>1 DEF MapOf, FileTypes, FilePcs, WritePcs
  <2>4. FileTypes' /\ f_pc'[p] = "write block" /\ f_io'[p] = f_io[p] /\ Others(p)
    BY <1>2, <1>3, <1>7, <2>2, <2>3, StepTyped
  <2>5. CallInv(p)' /\ ReadInv(p)'
    BY <1>1, <1>2, <2>1, <2>4 DEF CallInv, PcsOf, WritePcs, ReadInv
  <2>6. WriteInv(p)'
    <3>1. WriteAt("write connect", f_io[p])
      BY <1>1, <1>2 DEF WriteInv
    <3>2. WriteAt("write block", f_io[p])
      BY ONLY <3>1 DEF WriteAt
    <3> QED BY <1>1, <1>2, <1>3, <2>4, <3>2 DEF WriteInv
  <2>7. Connected(p)'
    <3>1. f_sockets'[p] = f_leaked'[p] + Cardinality(AliveIn(p)) + 1
      <4>1. f_sockets'[p] = f_sockets[p] + 1
        BY <1>1, <2>1 DEF FileTypes
      <4> QED BY <1>4, <1>5, <2>1, <4>1
    <3> QED BY <1>3, <2>4, <3>1 DEF Connected, AliveIn
  <2>8. \A i \in Inodes : Writes(p, i)' =>
           /\ Writes(p, i) /\ f_io'[p].start = f_io[p].start /\ f_io'[p].end = f_io[p].end
    BY <2>4 DEF Writes
  <2>9. \A i \in Inodes : \A c : Holds(p, i, c) => Holds(p, i, c)'
    BY <1>2, <2>4 DEF Holds, Writes
  <2> QED BY <1>3, <2>1, <2>4, <2>5, <2>6, <2>7, <2>8, <2>9, NoFileChange
<1> QED BY <1>8, <1>9

-----------------------------------------------------------------------------
\* The numbers of a block: x and y bound the chunk, from and to the block.
LEMMA BlockNumbers ==
  ASSUME NEW x \in Int, NEW y \in Int, NEW w \in Int, NEW e \in Int, NEW start \in Int,
         NEW pos \in Int, NEW from \in Int, NEW to \in Int, NEW buf \in Int,
         NEW top \in Int, NEW size \in Int, NEW chunk \in Int, M64 \in Int,
         y = x + M64, x <= w, w <= y, w <= e, start <= w, buf = x + pos - start,
         w <= x + pos, x + pos <= e, pos <= M64, from <= pos, pos <= to,
         chunk = (IF e < y THEN e ELSE y) - w, top = w - x + chunk,
         size = (IF top < to THEN top ELSE to) - pos
  PROVE  /\ size \in Nat /\ chunk \in Nat /\ buf \in Nat /\ start + buf = x + pos
         /\ x + pos + size <= e
         /\ pos + size >= top =>
              /\ buf + size = w + chunk - start /\ w + chunk <= y
              /\ w + chunk = e \/ w + chunk = y
              /\ start <= w + chunk /\ w + chunk <= e
         /\ ~(pos + size >= top) =>
              /\ pos + size = to /\ x + (pos + size) <= e /\ pos + size <= M64
              /\ w <= x + (pos + size) /\ buf + size = x + (pos + size) - start
OBVIOUS

\* What is known of a block that is about to be sent.
BlockAt(l) ==
  /\ F!BlockSize(l) \in Nat /\ F!ChunkSize(l) \in Nat /\ l.buf \in Nat
  /\ l.start + l.buf = l.chunk_index * M64 + l.chunk_pos
  /\ l.chunk_index * M64 + l.chunk_pos + F!BlockSize(l) <= l.end
ChunkDone(l) == l.chunk_pos + F!BlockSize(l) >= F!ChunkOffset(l) + F!ChunkSize(l)
ChunkEnd(l) == l.write_position + F!ChunkSize(l)
LastBlock(l) ==
  /\ l.buf + F!BlockSize(l) = ChunkEnd(l) - l.start
  /\ ChunkEnd(l) <= (l.chunk_index + 1) * M64
  /\ ChunkEnd(l) = l.end \/ ChunkEnd(l) = (l.chunk_index + 1) * M64
  /\ l.start <= ChunkEnd(l) /\ ChunkEnd(l) <= l.end
InnerBlock(l) ==
  LET to == l.chunk_pos + F!BlockSize(l) IN
  /\ to = (l.blockno + 1) * K64 /\ l.chunk_index * M64 + to <= l.end /\ to <= M64
  /\ l.write_position <= l.chunk_index * M64 + to
  /\ l.buf + F!BlockSize(l) = l.chunk_index * M64 + to - l.start

\* The block that is written next ends inside its chunk, or is its last.
LEMMA BlockKnown ==
  ASSUME NEW l \in IOs, WriteAt("write block", l)
  PROVE  BlockAt(l) /\ (ChunkDone(l) => LastBlock(l)) /\ (~ChunkDone(l) => InnerBlock(l))
<1> DEFINE x == l.chunk_index * M64
           y == (l.chunk_index + 1) * M64
           from == l.blockno * K64
           to == (l.blockno + 1) * K64
           w == l.write_position
           e == l.end
           start == l.start
           pos == l.chunk_pos
           buf == l.buf
           chunk == F!ChunkSize(l)
           top == F!ChunkOffset(l) + F!ChunkSize(l)
           size == F!BlockSize(l)
<1>1. /\ l.chunk_index \in Int /\ l.blockno \in Int /\ M64 \in Int /\ K64 \in Int
      /\ w \in Int /\ e \in Int /\ start \in Int /\ pos \in Int /\ buf \in Int
  BY ONLY l \in IOs, IOTyped, MooseAssumption
<1>2. x \in Int /\ from \in Int /\ y = x + M64 /\ to = from + K64
  BY <1>1, NextMultiple
<1>4. /\ x <= w /\ w <= y /\ w <= e /\ start <= w /\ buf = x + pos - start
      /\ w <= x + pos /\ x + pos <= e /\ pos <= M64 /\ from <= pos /\ pos <= to
  BY DEF WriteAt
<1>5. /\ chunk = (IF e < y THEN e ELSE y) - w /\ F!ChunkOffset(l) = w - x
      /\ size = (IF top < to THEN top ELSE to) - pos
  BY DEF F!ChunkSize, F!ChunkOffset, F!BlockSize, F!Min2
<1>6. top = w - x + chunk
  BY <1>5
<1> HIDE DEF x, y, from, to, w, e, start, pos, buf, chunk, top, size
<1>3. y \in Int /\ to \in Int
  BY ONLY <1>1, <1>2
<1>7. chunk \in Int
  BY ONLY <1>1, <1>3, <1>5
<1>8. top \in Int
  BY ONLY <1>1, <1>2, <1>6, <1>7
<1>9. size \in Int
  BY ONLY <1>1, <1>3, <1>5, <1>8
<1>10. /\ size \in Nat /\ chunk \in Nat /\ buf \in Nat /\ start + buf = x + pos
       /\ x + pos + size <= e
       /\ pos + size >= top =>
            /\ buf + size = w + chunk - start /\ w + chunk <= y
            /\ w + chunk = e \/ w + chunk = y
            /\ start <= w + chunk /\ w + chunk <= e
       /\ ~(pos + size >= top) =>
            /\ pos + size = to /\ x + (pos + size) <= e /\ pos + size <= M64
            /\ w <= x + (pos + size) /\ buf + size = x + (pos + size) - start
  BY ONLY <1>1, <1>2, <1>3, <1>4, <1>5, <1>6, <1>7, <1>8, <1>9, BlockNumbers
<1>11. BlockAt(l)
  BY ONLY <1>10 DEF BlockAt, x, e, start, pos, buf, chunk, size
<1>12. ChunkDone(l) <=> pos + size >= top
  BY ONLY TRUE DEF ChunkDone, pos, size, top
<1>13. pos + size >= top => LastBlock(l)
  <2>1. ChunkEnd(l) = w + chunk
    BY ONLY TRUE DEF ChunkEnd, w, chunk
  <2>2. pos + size >= top =>
          /\ buf + size = ChunkEnd(l) - start /\ ChunkEnd(l) <= y
          /\ ChunkEnd(l) = e \/ ChunkEnd(l) = y
          /\ start <= ChunkEnd(l) /\ ChunkEnd(l) <= e
    BY ONLY <1>1, <1>3, <1>7, <1>8, <1>9, <1>10, <2>1
  <2> QED BY ONLY <2>2 DEF LastBlock, y, e, start, buf, size
<1>14. ~(pos + size >= top) => InnerBlock(l)
  BY ONLY <1>10 DEF InnerBlock, x, to, w, e, start, pos, buf, size
<1> QED BY ONLY <1>11, <1>12, <1>13, <1>14

\* The bytes of the block, each at its own offset.
LEMMA StoredBlock ==
  ASSUME NEW f \in Stores, NEW l \in IOs, BlockAt(l)
  PROVE  /\ F!Stored(f, l) \in Stores /\ F!Stored(f, l).length = f.length
         /\ F!Stored(f, l).locked = f.locked
         /\ \A o \in 0 .. MaxSize - 1 :
              F!Stored(f, l).data[o] =
                IF o \in l.start + l.buf .. l.start + l.buf + F!BlockSize(l) - 1
                THEN <<l.call, o - l.start>> ELSE f.data[o]
<1> DEFINE from == l.chunk_index * M64 + l.blockno * K64 + (l.chunk_pos - l.blockno * K64)
           size == F!BlockSize(l)
           d == [o \in DOMAIN f.data |-> IF o \in from .. from + size - 1
                                         THEN <<l.call, l.buf + o - from>> ELSE f.data[o]]
<1>1. /\ l.chunk_index \in Int /\ l.blockno \in Int /\ M64 \in Int /\ K64 \in Int
      /\ l.start \in Nat /\ l.chunk_pos \in Int /\ l.call \in Int /\ l.buf \in Int
  BY IOTyped, MooseAssumption
<1>2. l.start + l.buf = l.chunk_index * M64 + l.chunk_pos /\ size \in Nat
  BY DEF BlockAt
<1>3. from = l.start + l.buf
  <2> DEFINE x == l.chunk_index * M64
             b == l.blockno * K64
  <2>1. x \in Int /\ b \in Int
    BY <1>1, NextMultiple
  <2>2. l.start + l.buf = x + l.chunk_pos /\ from = x + b + (l.chunk_pos - b)
    BY <1>2
  <2> HIDE DEF x, b, from
  <2> QED BY ONLY <1>1, <2>1, <2>2
<1>4. F!Stored(f, l) = [f EXCEPT !.data = d]
  BY DEF F!Stored
<1> HIDE DEF from, size
<1>5. f.data \in [0 .. MaxSize - 1 -> Int \X Int]
  BY DEF Stores
<1>6. from \in Int
  BY <1>1, <1>3
<1>7. d \in [0 .. MaxSize - 1 -> Int \X Int]
  <2>1. DOMAIN f.data = 0 .. MaxSize - 1 /\ \A o \in 0 .. MaxSize - 1 : f.data[o] \in Int \X Int
    BY ONLY <1>5
  <2>2. \A o \in 0 .. MaxSize - 1 : <<l.call, l.buf + o - from>> \in Int \X Int
    BY ONLY <1>1, <1>6
  <2> QED BY ONLY <2>1, <2>2
<1>8. \A o \in 0 .. MaxSize - 1 :
        d[o] = IF o \in l.start + l.buf .. l.start + l.buf + size - 1
               THEN <<l.call, o - l.start>> ELSE f.data[o]
  <2>1. DOMAIN f.data = 0 .. MaxSize - 1
    BY ONLY <1>5
  <2>2. \A o \in 0 .. MaxSize - 1 : l.buf + o - from = o - l.start
    BY ONLY <1>1, <1>3
  <2> QED BY ONLY <1>3, <2>1, <2>2
<1> HIDE DEF d
<1>9. /\ F!Stored(f, l) \in Stores /\ F!Stored(f, l).length = f.length
      /\ F!Stored(f, l).locked = f.locked /\ F!Stored(f, l).data = d
  BY ONLY f \in Stores, <1>4, <1>7 DEF Stores
<1> QED BY <1>8, <1>9 DEF size

\* The loop over the blocks goes on, or the chunk is complete.
LEMMA NextBlockAt ==
  ASSUME NEW l \in IOs, WriteAt("write block", l), NEW n, n = F!NextBlock(l)
  PROVE  /\ n \in IOs /\ n.op = l.op /\ n.inode = l.inode /\ n.start = l.start
         /\ n.count = l.count /\ n.call = l.call /\ n.end = l.end /\ n.failed = l.failed
         /\ n.write_position = l.write_position /\ n.chunk_index = l.chunk_index
         /\ n.chunk_pos = l.chunk_pos + F!BlockSize(l) /\ n.blockno = l.blockno + 1
         /\ n.buf = l.buf + F!BlockSize(l)
<1> DEFINE s == F!BlockSize(l)
           c == l.chunk_pos + s
           b == l.blockno + 1
           u == l.buf + s
<1>1. s \in Nat
  BY ONLY l \in IOs, WriteAt("write block", l), BlockKnown DEF BlockAt
<1>2. n = [l EXCEPT !.chunk_pos = c, !.blockno = b, !.buf = u]
  BY DEF F!NextBlock
<1> HIDE DEF s
<1>3. c \in Int /\ b \in Int /\ u \in Int
  BY ONLY l \in IOs, <1>1, IOTyped
<1> HIDE DEF c, b, u
<1>4. /\ n \in IOs /\ n.op = l.op /\ n.inode = l.inode /\ n.start = l.start
      /\ n.count = l.count /\ n.call = l.call /\ n.end = l.end /\ n.failed = l.failed
      /\ n.write_position = l.write_position /\ n.chunk_index = l.chunk_index
      /\ n.chunk_pos = c /\ n.blockno = b /\ n.buf = u
  BY ONLY <1>2, <1>3, l \in IOs DEF IOs
<1> QED BY ONLY <1>4 DEF s, c, b, u

\* Where a write is after a block inside a chunk.
LEMMA InnerAt ==
  ASSUME NEW l \in IOs, WriteAt("write block", l), InnerBlock(l), BlockAt(l),
         NEW n \in IOs, n.start = l.start, n.count = l.count, n.end = l.end,
         n.write_position = l.write_position, n.chunk_index = l.chunk_index,
         n.chunk_pos = l.chunk_pos + F!BlockSize(l), n.blockno = l.blockno + 1,
         n.buf = l.buf + F!BlockSize(l)
  PROVE  WriteAt("write block", n)
<1> DEFINE x == l.chunk_index * M64
           b == (l.blockno + 1) * K64
<1>1. /\ n.chunk_pos = b /\ x + n.chunk_pos <= n.end /\ n.chunk_pos <= M64
      /\ n.write_position <= x + n.chunk_pos /\ n.buf = x + n.chunk_pos - n.start
  BY DEF InnerBlock
<1>2. /\ n.end = n.start + n.count /\ n.end <= MaxSize
      /\ n.start <= n.write_position /\ n.write_position <= n.end
      /\ x <= n.write_position /\ n.write_position <= (l.chunk_index + 1) * M64
  BY DEF WriteAt
<1>3. n.blockno * K64 <= n.chunk_pos /\ n.chunk_pos <= (n.blockno + 1) * K64
  <2>1. n.blockno \in Int /\ K64 \in Nat /\ n.chunk_pos \in Int
    BY ONLY n \in IOs, IOTyped, MooseAssumption
  <2>2. n.blockno * K64 = b
    BY ONLY n.blockno = l.blockno + 1
  <2>3. n.blockno * K64 \in Int /\ (n.blockno + 1) * K64 = n.blockno * K64 + K64
    BY ONLY <2>1, NextMultiple
  <2> DEFINE y == n.blockno * K64
  <2>4. y \in Int /\ n.chunk_pos = y /\ (n.blockno + 1) * K64 = y + K64
    BY ONLY <1>1, <2>2, <2>3
  <2> HIDE DEF y
  <2>5. y <= n.chunk_pos /\ n.chunk_pos <= y + K64
    BY ONLY <2>1, <2>4
  <2> QED BY ONLY <2>4, <2>5 DEF y
<1>4. x = n.chunk_index * M64 /\ (l.chunk_index + 1) * M64 = (n.chunk_index + 1) * M64
  OBVIOUS
<1> HIDE DEF x, b
<1> QED BY ONLY <1>1, <1>2, <1>3, <1>4 DEF WriteAt

\* Where a write is after the last block of a chunk.
LEMMA LastAt ==
  ASSUME NEW l \in IOs, WriteAt("write block", l), LastBlock(l),
         NEW m \in IOs, m.start = l.start, m.count = l.count, m.end = l.end,
         m.write_position = ChunkEnd(l), m.chunk_index = l.chunk_index + 1,
         m.buf = l.buf + F!BlockSize(l)
  PROVE  WriteAt("write chunk end", m)
<1>1. /\ m.buf = m.write_position - m.start /\ m.write_position <= (l.chunk_index + 1) * M64
      /\ m.write_position = m.end \/ m.write_position = (l.chunk_index + 1) * M64
      /\ m.start <= m.write_position /\ m.write_position <= m.end
  BY DEF LastBlock
<1>2. m.end = m.start + m.count /\ m.end <= MaxSize
  BY DEF WriteAt
<1>3. (l.chunk_index + 1) * M64 = m.chunk_index * M64
  OBVIOUS
<1> QED BY ONLY <1>1, <1>2, <1>3 DEF WriteAt

\* Storing a block leaves what was acknowledged, and adds to what is stored.
LEMMA StoredKeeps ==
  ASSUME FileInv, NEW p \in Procs, f_pc[p] = "write block",
         f_file' = [f_file EXCEPT ![f_io[p].inode] = F!Stored(@, f_io[p])]
  PROVE  /\ OwnFile(p) /\ AcksKept
         /\ \A k \in Inodes : f_file'[k].locked = f_file[k].locked
         /\ ~f_io[p].failed =>
              \A j \in 0 .. f_io[p].buf + F!BlockSize(f_io[p]) - 1 :
                f_file'[f_io[p].inode].data[f_io[p].start + j] = <<f_io[p].call, j>>
<1> DEFINE l == f_io[p]
           i == f_io[p].inode
           s == F!BlockSize(l)
           from == l.start + l.buf
<1>1. l \in IOs /\ l.op = "write" /\ i \in Inodes /\ FileTypes /\ WriteInv(p) /\ AckInv
  BY AtCall DEF WritePcs, FileInv
<1>2. WriteAt("write block", l)
  BY <1>1 DEF WriteInv
<1>3. BlockAt(l)
  BY <1>1, <1>2, BlockKnown
<1>4. /\ s \in Nat /\ l.buf \in Nat /\ l.start \in Nat /\ l.end \in Nat /\ l.call \in Nat
      /\ from + s <= l.end /\ l.end <= MaxSize
  <2>1. /\ s \in Nat /\ l.buf \in Nat /\ from = l.chunk_index * M64 + l.chunk_pos
        /\ l.chunk_index * M64 + l.chunk_pos + s <= l.end
    BY ONLY <1>3 DEF BlockAt
  <2>2. l.start \in Nat /\ l.end \in Nat /\ l.call \in Nat
    BY ONLY <1>1, IOTyped
  <2>3. l.end <= MaxSize
    BY ONLY <1>2 DEF WriteAt
  <2> QED BY ONLY <2>1, <2>2, <2>3
<1>5. /\ f_file' \in [Inodes -> Stores] /\ f_file'[i] = F!Stored(f_file[i], l)
      /\ \A k \in Inodes : k # i => f_file'[k] = f_file[k]
  <2>1. f_file \in [Inodes -> Stores]
    BY <1>1 DEF FileTypes
  <2>2. F!Stored(f_file[i], l) \in Stores
    BY <1>1, <1>3, <2>1, StoredBlock
  <2> QED BY <1>1, <2>1, <2>2
<1>6. /\ f_file'[i].length = f_file[i].length /\ f_file'[i].locked = f_file[i].locked
      /\ \A o \in 0 .. MaxSize - 1 :
           f_file'[i].data[o] = IF o \in from .. from + s - 1
                                THEN <<l.call, o - l.start>> ELSE f_file[i].data[o]
  <2>1. f_file[i] \in Stores
    BY <1>1 DEF FileTypes
  <2> DEFINE g == F!Stored(f_file[i], l)
  <2>2. /\ g.length = f_file[i].length /\ g.locked = f_file[i].locked
        /\ \A o \in 0 .. MaxSize - 1 :
             g.data[o] = IF o \in l.start + l.buf .. l.start + l.buf + F!BlockSize(l) - 1
                         THEN <<l.call, o - l.start>> ELSE f_file[i].data[o]
    BY ONLY <1>1, <1>3, <2>1, StoredBlock
  <2>3. f_file'[i] = g
    BY <1>5
  <2> HIDE DEF g, l
  <2> QED BY ONLY <2>2, <2>3
<1>7. OwnFile(p)
  BY <1>1, <1>5 DEF OwnFile, Writes
<1>8. AcksKept
  <2> SUFFICES ASSUME NEW a \in f_acked
               PROVE  /\ f_file'[a.inode].length >= a.start + a.count
                      /\ \A j \in 0 .. a.count - 1 :
                           f_file'[a.inode].data[a.start + j] = f_file[a.inode].data[a.start + j]
    BY DEF AcksKept
  <2>1. a.inode \in Inodes /\ a.start \in Nat /\ a.count \in Nat /\ a.start + a.count <= MaxSize
    BY <1>1 DEF FileTypes, Acks, AckInv
  <2>2. f_file[a.inode].length >= a.start + a.count
    BY <1>1 DEF AckInv, F!AckedStays
  <2>3. CASE a.inode # i
    BY <1>5, <2>1, <2>2, <2>3
  <2>4. CASE a.inode = i
    <3>1. ~(a.start < l.end /\ l.start < a.start + a.count)
      BY <1>1, <2>4 DEF AckInv, Writes, F!Overlaps
    <3>2. ASSUME NEW j \in 0 .. a.count - 1
          PROVE  a.start + j \in 0 .. MaxSize - 1 /\ a.start + j \notin from .. from + s - 1
      <4>1. a.start + j \in 0 .. MaxSize - 1
        BY ONLY <2>1, <3>2, MooseAssumption
      <4>2. ASSUME a.start + j \in from .. from + s - 1 PROVE FALSE
        BY ONLY <1>4, <2>1, <3>1, <3>2, <4>2
      <4> QED BY <4>1, <4>2
    <3> HIDE DEF from, s
    <3>3. \A j \in 0 .. a.count - 1 :
            f_file'[i].data[a.start + j] = f_file[i].data[a.start + j]
      BY ONLY <1>6, <3>2
    <3> QED BY <1>6, <2>2, <2>4, <3>3
  <2> QED BY <2>3, <2>4
<1>9. \A k \in Inodes : f_file'[k].locked = f_file[k].locked
  BY <1>5, <1>6
<1>10. ASSUME ~l.failed, NEW j \in 0 .. l.buf + s - 1
       PROVE  f_file'[i].data[l.start + j] = <<l.call, j>>
  <2>1. l.start + j \in 0 .. MaxSize - 1
    BY ONLY <1>4, <1>10, MooseAssumption
  <2>2. CASE j >= l.buf
    <3>1. l.start + j \in from .. from + s - 1 /\ (l.start + j) - l.start = j
      BY ONLY <1>4, <1>10, <2>2
    <3> HIDE DEF from, s
    <3> QED BY ONLY <1>6, <2>1, <3>1
  <2>3. CASE ~(j >= l.buf)
    <3>1. l.start + j \notin from .. from + s - 1 /\ j \in 0 .. l.buf - 1
      BY ONLY <1>4, <1>10, <2>3
    <3>2. f_file[i].data[l.start + j] = <<l.call, j>>
      BY <1>1, <1>10, <3>1 DEF WriteInv
    <3> HIDE DEF from, s
    <3> QED BY ONLY <1>6, <2>1, <3>1, <3>2
  <2> QED BY <2>2, <2>3
<1> QED BY <1>7, <1>8, <1>9, <1>10

\* Counts of connections are numbers.
LEMMA ConnectionsTyped ==
  ASSUME FileTypes, NEW p \in Procs
  PROVE  f_sockets[p] \in Int /\ f_leaked[p] \in Int /\ Cardinality(AliveIn(p)) \in Nat
<1>1. AliveIn(p) \subseteq F!Servers
  BY DEF AliveIn
<1> QED BY <1>1, ServersFacts, FS_Subset, FS_CardinalityType DEF FileTypes

\* The connection in use is deleted.
LEMMA Deleted ==
  ASSUME FileInv, NEW p \in Procs, f_pc[p] \in {"write block", "read block"}, F!Delete(p),
         f_leaked' = f_leaked, f_pc'[p] \notin {"write block", "read block"},
         f_pool' \in [Procs -> [F!Servers -> {"none", "alive", "freed"}]],
         \A q \in Procs \ {p} : f_pool'[q] = f_pool[q],
         Cardinality(AliveIn(p)') = Cardinality(AliveIn(p))
  PROVE  ConnectionsOf(p) /\ Connected(p)'
<1>1. FileTypes /\ Connected(p)
  BY DEF FileInv
<1>2. f_sockets \in [Procs -> Int] /\ f_leaked \in [Procs -> Int]
  BY <1>1 DEF FileTypes
<1>3. f_sockets' = [f_sockets EXCEPT ![p] = @ - 1]
  BY DEF F!Delete
<1>4. ConnectionsOf(p)
  <2>1. f_sockets' \in [Procs -> Int] /\ \A q \in Procs \ {p} : f_sockets'[q] = f_sockets[q]
    BY ONLY <1>2, <1>3
  <2> QED BY <1>2, <2>1 DEF ConnectionsOf
<1>5. f_sockets[p] \in Int /\ f_leaked[p] \in Int /\ Cardinality(AliveIn(p)) \in Nat
  BY <1>1, ConnectionsTyped
<1>6. f_sockets[p] = f_leaked[p] + Cardinality(AliveIn(p)) + 1
  BY <1>1 DEF Connected, AliveIn
<1>7. f_sockets'[p] = f_sockets[p] - 1
  BY ONLY <1>2, <1>3, p \in Procs
<1>8. f_sockets'[p] = f_leaked'[p] + Cardinality(AliveIn(p)') + 0
  <2> DEFINE a == Cardinality(AliveIn(p))
  <2>1. a \in Nat /\ f_sockets[p] = f_leaked[p] + a + 1
    BY <1>5, <1>6
  <2> HIDE DEF a
  <2>2. f_sockets'[p] = f_leaked[p] + a + 0
    BY ONLY <1>5, <1>7, <2>1
  <2> QED BY <2>2 DEF a
<1> QED BY <1>4, <1>8 DEF Connected, AliveIn

\* Ranges with equal ends, as a fact about numbers alone.
LEMMA SameRange ==
  \A t, b, s : b \in Int /\ s \in Nat /\ t = b + s => 0 .. t - 1 = 0 .. b + s - 1
OBVIOUS

\* A block is stored, or its connection is lost.
LEMMA WriteBlockKeeps ==
  ASSUME FileInv, NEW p \in Procs, F!WriteBlock(p)
  PROVE  FileInv'
<1> DEFINE l == f_io[p]
           i == f_io[p].inode
           n == F!NextBlock(l)
           m == [n EXCEPT !.write_position = @ + F!ChunkSize(l), !.chunk_index = @ + 1]
           stored == [f_file EXCEPT ![i] = F!Stored(@, l)]
<1>1. FileTypes /\ CallInv(p) /\ WriteInv(p)
  BY DEF FileInv
<1>2. /\ f_pc[p] = "write block" /\ l \in IOs /\ l.op = "write" /\ i \in Inodes
      /\ Writes(p, i) /\ f_io[p] # F!NoIO
  BY AtCall DEF F!WriteBlock, WritePcs, Writes
<1>3. Counted /\ UNCHANGED <<f_pool, f_acked, f_leaked, f_ops>>
  <2>1. f_ops \in Nat /\ f_faults \in Nat
    BY <1>1 DEF FileTypes
  <2>2. f_faults' = f_faults \/ f_faults' = f_faults + 1
    BY DEF F!WriteBlock, F!Fault
  <2>3. UNCHANGED <<f_pool, f_acked, f_leaked, f_ops>>
    BY DEF F!WriteBlock
  <2> QED BY <2>1, <2>2, <2>3 DEF Counted
<1>4. WriteAt("write block", l)
  BY <1>1, <1>2 DEF WriteInv
<1>5. BlockAt(l) /\ (ChunkDone(l) => LastBlock(l)) /\ (~ChunkDone(l) => InnerBlock(l))
  BY <1>2, <1>4, BlockKnown
<1>6. /\ f_pool' \in [Procs -> [F!Servers -> {"none", "alive", "freed"}]]
      /\ Cardinality(AliveIn(p)') = Cardinality(AliveIn(p))
  BY <1>1, <1>3 DEF FileTypes, AliveIn
<1>7. CASE F!ReturnZero(p) /\ F!Fault("block") /\ F!Delete(p) /\ f_file' \in {f_file, stored}
  <2>1. /\ GoesTo(p, "idle", F!NoIO) /\ MapOf(p) /\ f_result' \in [Procs -> Int]
        /\ f_pc'[p] = "idle"
    BY <1>2, <1>7, ReturnsZero
  <2>2. Connected(p)' /\ ConnectionsOf(p)
    BY <1>2, <1>3, <1>6, <1>7, <2>1, Deleted
  <2>3. OwnFile(p) /\ AcksKept
    BY <1>2, <1>7, SameFile, StoredKeeps
  <2>4. f_faults' # 0
    BY <1>1, <1>7 DEF F!Fault, FileTypes
  <2> QED BY <1>3, <2>1, <2>2, <2>3, <2>4, FailedCallEnds
<1>8. CASE /\ f_file' = stored /\ UNCHANGED <<f_map, f_result, f_faults>>
           /\ IF n.chunk_pos >= F!ChunkOffset(l) + F!ChunkSize(l)
              THEN f_io' = [f_io EXCEPT ![p] = m] /\ F!Delete(p) /\ F!Go(p, "write chunk end")
              ELSE f_io' = [f_io EXCEPT ![p] = n] /\ UNCHANGED <<f_pc, f_sockets>>
  <2>1. /\ OwnFile(p) /\ AcksKept /\ \A k \in Inodes : f_file'[k].locked = f_file[k].locked
        /\ ~l.failed => \A j \in 0 .. l.buf + F!BlockSize(l) - 1 :
                          f_file'[i].data[l.start + j] = <<l.call, j>>
    BY <1>2, <1>8, StoredKeeps
  <2>2. /\ n \in IOs /\ n.op = l.op /\ n.inode = l.inode /\ n.start = l.start
        /\ n.count = l.count /\ n.call = l.call /\ n.end = l.end /\ n.failed = l.failed
        /\ n.write_position = l.write_position /\ n.chunk_index = l.chunk_index
        /\ n.chunk_pos = l.chunk_pos + F!BlockSize(l) /\ n.blockno = l.blockno + 1
        /\ n.buf = l.buf + F!BlockSize(l)
    BY ONLY <1>2, <1>4, NextBlockAt
  <2>3. /\ MapOf(p) /\ f_result' \in [Procs -> Int] /\ f_file' \in [Inodes -> Stores]
        /\ f_acked' \subseteq Acks
    BY <1>1, <1>3, <1>8, <2>1 DEF MapOf, FileTypes, OwnFile
  \* It suffices that the new locals r, at x, are sound.
  <2>4. ASSUME NEW r \in IOs, NEW x \in {"write block", "write chunk end"}, GoesTo(p, x, r),
               r.op = l.op, r.inode = l.inode, r.start = l.start, r.call = l.call,
               r.end = l.end, r.failed = l.failed, r.buf = l.buf + F!BlockSize(l),
               WriteAt(x, r), ConnectionsOf(p),
               f_pc'[p] = x => Connected(p)',
               r.chunk_index = IF x = "write block" THEN l.chunk_index ELSE l.chunk_index + 1
        PROVE  FileInv'
    <3>1. x \in FilePcs
      BY <2>4 DEF FilePcs, WritePcs
    <3>2. FileTypes' /\ f_pc'[p] = x /\ f_io'[p] = r /\ Others(p)
      BY <1>3, <2>1, <2>3, <2>4, <3>1, StepTyped, OwnFileOthers
    <3>3. CallInv(p)'
      BY <1>1, <1>2, <1>8, <2>4, <3>2 DEF CallInv, PcsOf, WritePcs
    <3>4. ReadInv(p)' /\ Connected(p)'
      BY <1>2, <2>4, <3>2 DEF ReadInv
    <3>5. WriteInv(p)'
      <4>1. ~r.failed => \A j \in 0 .. r.buf - 1 :
                           f_file'[r.inode].data[r.start + j] = <<r.call, j>>
        <5>1. /\ r.failed = l.failed /\ r.buf = l.buf + F!BlockSize(l) /\ r.inode = i
              /\ r.start = l.start /\ r.call = l.call
          BY <2>4
        <5>2. F!BlockSize(l) \in Nat
          BY ONLY <1>5, Zenon DEF BlockAt
        <5>3. l.buf \in Int
          BY ONLY <1>2, IOTyped
        <5> HIDE DEF l, i
        <5>4. 0 .. r.buf - 1 = 0 .. l.buf + F!BlockSize(l) - 1
          BY ONLY <5>1, <5>2, <5>3, SameRange
        <5>5. ~r.failed => \A j \in 0 .. r.buf - 1 :
                             f_file'[i].data[l.start + j] = <<l.call, j>>
          BY ONLY <2>1, <5>1, <5>4
        <5> QED BY ONLY <5>1, <5>5
      <4> QED BY <2>4, <3>2, <4>1 DEF WriteInv
    <3>6. AckInv'
      <4>1. ASSUME NEW q \in Procs, NEW k \in Inodes, Writes(q, k)'
            PROVE  Writes(q, k) /\ f_io'[q].start = f_io[q].start /\ f_io'[q].end = f_io[q].end
        BY <1>2, <2>4, <3>2, <4>1 DEF Others, Writes
      <4> QED BY <1>3, <2>1, <3>2, <4>1, AckKeeps DEF AcksKept
    <3>7. ChunkInv'
      <4>1. ASSUME NEW k \in Inodes, NEW c, Holds(p, k, c) PROVE Holds(p, k, c)'
        <5>1. c = l.chunk_index /\ k = i
          BY <1>2, <4>1 DEF Holds, Writes
        <5> QED BY <1>2, <2>4, <3>2, <5>1 DEF Holds, Writes
      <4> QED BY <1>3, <2>1, <3>2, <4>1, ChunkKeeps DEF Counted
    <3> QED BY <3>2, <3>3, <3>4, <3>5, <3>6, <3>7, StepKeeps
  <2>5. CASE n.chunk_pos >= F!ChunkOffset(l) + F!ChunkSize(l)
    <3>1. ChunkDone(l) /\ LastBlock(l)
      BY ONLY <1>5, <2>2, <2>5 DEF ChunkDone
    <3>2. F!ChunkSize(l) \in Nat
      BY ONLY <1>5 DEF BlockAt
    <3> HIDE DEF n, l
    <3> DEFINE w == n.write_position + F!ChunkSize(l)
               c == n.chunk_index + 1
    <3>9. w \in Nat /\ c \in Nat
      BY ONLY <2>2, <3>2, IOTyped
    <3>10. m = [n EXCEPT !.write_position = w, !.chunk_index = c]
      OBVIOUS
    <3> HIDE DEF w, c, m
    <3>3. /\ m \in IOs /\ m.op = n.op /\ m.inode = n.inode /\ m.start = n.start
          /\ m.count = n.count /\ m.call = n.call /\ m.end = n.end /\ m.failed = n.failed
          /\ m.write_position = n.write_position + F!ChunkSize(l)
          /\ m.chunk_index = n.chunk_index + 1 /\ m.buf = n.buf
      <4>1. /\ m \in IOs /\ m.op = n.op /\ m.inode = n.inode /\ m.start = n.start
            /\ m.count = n.count /\ m.call = n.call /\ m.end = n.end /\ m.failed = n.failed
            /\ m.write_position = w /\ m.chunk_index = c /\ m.buf = n.buf
        BY ONLY <2>2, <3>9, <3>10 DEF IOs
      <4> QED BY ONLY <4>1 DEF w, c
    <3>4. m.write_position = ChunkEnd(l)
      BY ONLY <2>2, <3>3 DEF ChunkEnd
    <3>5. WriteAt("write chunk end", m)
      BY ONLY <1>2, <1>4, <2>2, <3>1, <3>3, <3>4, LastAt
    <3>6. GoesTo(p, "write chunk end", m) /\ F!Delete(p)
      BY <1>8, <2>5 DEF GoesTo, F!Go
    <3>7. f_pc'[p] = "write chunk end"
      BY <1>1, <3>6 DEF GoesTo, FileTypes
    <3>8. Connected(p)' /\ ConnectionsOf(p)
      BY <1>2, <1>3, <1>6, <3>6, <3>7, Deleted
    <3> QED BY <2>2, <2>4, <3>3, <3>5, <3>6, <3>8
  <2>6. CASE ~(n.chunk_pos >= F!ChunkOffset(l) + F!ChunkSize(l))
    <3>1. InnerBlock(l)
      BY ONLY <1>5, <2>2, <2>6 DEF ChunkDone
    <3> HIDE DEF n, l
    <3>2. WriteAt("write block", n)
      BY ONLY <1>2, <1>4, <1>5, <2>2, <3>1, InnerAt
    <3>3. GoesTo(p, "write block", n) /\ f_sockets' = f_sockets /\ f_pc' = f_pc
      BY <1>1, <1>2, <1>8, <2>6 DEF GoesTo, FileTypes
    <3>4. ConnectionsOf(p) /\ Connected(p)'
      BY <1>3, <3>3, SameConnections
    <3> QED BY <2>2, <2>4, <3>2, <3>3, <3>4
  <2> QED BY <2>5, <2>6
<1> QED BY <1>7, <1>8 DEF F!WriteBlock
-----------------------------------------------------------------------------
\* WriteChunkEnd extends the file and gives a chunk back.
LEMMA EndedFile ==
  ASSUME FileInv, NEW p \in Procs, NEW i \in Inodes, Writes(p, i),
         f_file' = [f_file EXCEPT ![i] = F!Ended(@, f_io[p])]
  PROVE  /\ OwnFile(p) /\ AcksKept
         /\ f_file'[i].length \in Nat /\ f_file'[i].length >= f_io[p].write_position
         /\ \A k \in Inodes : f_file'[k].data = f_file[k].data
         /\ f_file'[i].locked = f_file[i].locked \ {f_io[p].chunk_index - 1}
         /\ \A k \in Inodes : k # i => f_file'[k] = f_file[k]
<1> DEFINE l == f_io[p]
           f == f_file[i]
           w == F!Max2(f.length, l.write_position)
           d == f.locked \ {l.chunk_index - 1}
           g == [f EXCEPT !.length = w, !.locked = d]
<1>1. f_file \in [Inodes -> Stores] /\ f_acked \subseteq Acks /\ F!AckedStays
  BY DEF FileInv, FileTypes, AckInv
<1>2. l \in IOs
  BY CallTyped DEF FileInv, Writes, F!NoIO
<1>3. l.write_position \in Nat /\ f \in Stores /\ f.length \in Nat
  BY <1>1, <1>2 DEF IOs, Stores
<1>4. w \in Nat /\ w >= f.length /\ w >= l.write_position
  BY <1>3 DEF F!Max2
<1>5. d \in SUBSET Nat
  BY <1>3 DEF Stores
<1>6. f_file' = [f_file EXCEPT ![i] = g]
  BY <1>1 DEF F!Ended
<1> HIDE DEF w, d
<1>7. g \in Stores /\ g.length = w /\ g.data = f.data /\ g.locked = d
  BY <1>3, <1>4, <1>5 DEF Stores
<1> HIDE DEF g
<1>8. /\ f_file' \in [Inodes -> Stores] /\ f_file'[i] = g
      /\ \A k \in Inodes : k # i => f_file'[k] = f_file[k]
  BY <1>1, <1>6, <1>7
<1>9. OwnFile(p)
  BY <1>8 DEF OwnFile
<1>10. \A k \in Inodes : f_file'[k].data = f_file[k].data
  BY <1>7, <1>8
<1>11. AcksKept
  <2> SUFFICES ASSUME NEW a \in f_acked
               PROVE  /\ f_file'[a.inode].length >= a.start + a.count
                      /\ \A j \in 0 .. a.count - 1 :
                           f_file'[a.inode].data[a.start + j] = f_file[a.inode].data[a.start + j]
    BY DEF AcksKept
  <2>1. a.inode \in Inodes /\ a.start \in Nat /\ a.count \in Nat
    BY <1>1 DEF Acks
  <2>2. f_file[a.inode].length >= a.start + a.count
    BY <1>1 DEF F!AckedStays
  <2>3. f_file'[a.inode].length >= a.start + a.count
    <3>1. CASE a.inode = i
      BY <1>3, <1>4, <1>7, <1>8, <2>1, <2>2, <3>1
    <3>2. CASE a.inode # i
      BY <1>8, <2>1, <2>2, <3>2
    <3> QED BY <3>1, <3>2
  <2> QED BY <1>10, <2>1, <2>3
<1> QED BY <1>4, <1>7, <1>8, <1>9, <1>10, <1>11 DEF d

\* Numbers, as a fact about them alone.
LEMMA NatIsInt == \A n : n \in Nat => n \in Int
OBVIOUS

\* The number before a positive one.
LEMMA Predecessor == \A c, d : d \in Nat /\ d + 1 = c => d = c - 1
OBVIOUS

\* The chunk that is given back was the one its writer held.
LEMMA ChunkReleased ==
  ASSUME FileInv, NEW p \in Procs, NEW i \in Inodes, Writes(p, i), Others(p),
         f_pc[p] = "write chunk end", f_io[p].chunk_index \in Nat, f_faults' = f_faults,
         f_file'[i].locked = f_file[i].locked \ {f_io[p].chunk_index - 1},
         \A k \in Inodes : k # i => f_file'[k] = f_file[k],
         f_file \in [Inodes -> Stores]
  PROVE  ChunkInv'
<1> SUFFICES ASSUME f_faults' = 0, NEW k \in Inodes, NEW d \in f_file'[k].locked
             PROVE  (\E q \in Procs : Holds(q, k, d))'
  BY DEF ChunkInv
<1>1. d \in f_file[k].locked
  BY DEF Stores
<1>2. d \in Nat
  BY <1>1 DEF Stores
<1>3. PICK q \in Procs : Holds(q, k, d)
  BY <1>1 DEF FileInv, ChunkInv
<1>4. q # p
  <2> SUFFICES ASSUME q = p PROVE FALSE
    OBVIOUS
  <2>1. k = i /\ d + 1 = f_io[p].chunk_index
    BY <1>3 DEF Holds, Writes
  <2>2. d = f_io[p].chunk_index - 1
    BY ONLY <1>2, <2>1, Predecessor
  <2> QED BY <2>1, <2>2
<1>5. Holds(q, k, d)'
  BY <1>3, <1>4 DEF Others, Holds, Writes
<1> QED BY <1>5

\* What is written when the loop of Write ends, and where it goes on.
LEMMA ChunkEnds ==
  ASSUME NEW l \in IOs, WriteAt("write chunk end", l)
  PROVE  /\ F!Written(l) => l.write_position = l.end /\ l.end = l.start + l.count
                            /\ l.buf = l.count /\ l.end <= MaxSize
         /\ ~F!Written(l) => WriteAt("write chunk", l)
<1> DEFINE a == l.chunk_index * M64
           b == (l.chunk_index + 1) * M64
<1>1. /\ l.start \in Nat /\ l.count \in Nat /\ l.end \in Nat /\ l.write_position \in Nat
      /\ l.chunk_index \in Nat /\ l.buf \in Int /\ M64 \in Nat
  BY ONLY l \in IOs, IOTyped, MooseAssumption
<1>2. a \in Int /\ b = a + M64
  BY ONLY <1>1, NextMultiple
<1>3. /\ l.end = l.start + l.count /\ l.end <= MaxSize
      /\ l.start <= l.write_position /\ l.write_position <= l.end
      /\ l.buf = l.write_position - l.start
      /\ l.write_position = l.end \/ l.write_position = a
  BY DEF WriteAt
<1>4. F!Written(l) <=> l.write_position >= l.end
  BY DEF F!Written
<1> HIDE DEF a, b
<1>5. F!Written(l) => l.write_position = l.end /\ l.buf = l.count
  BY ONLY <1>1, <1>3, <1>4
<1>6. ~F!Written(l) => a <= l.write_position /\ l.write_position <= b
  BY ONLY <1>1, <1>2, <1>3, <1>4
<1>7. ~F!Written(l) => WriteAt("write chunk", l)
  BY ONLY <1>3, <1>6 DEF WriteAt, a, b
<1> QED BY ONLY <1>3, <1>5, <1>7

\* The chunk is released, and the write goes on or is acknowledged.
LEMMA WriteChunkEndKeeps ==
  ASSUME FileInv, NEW p \in Procs, F!WriteChunkEnd(p)
  PROVE  FileInv'
<1> DEFINE l == f_io[p]
           i == f_io[p].inode
           ended == [f_file EXCEPT ![i] = F!Ended(@, l)]
           ack == [inode |-> i, start |-> l.start, count |-> l.count, call |-> l.call]
<1>1. FileTypes /\ AckInv /\ CallInv(p) /\ WriteInv(p)
  BY DEF FileInv
<1>2. /\ f_pc[p] = "write chunk end" /\ l \in IOs /\ l.op = "write" /\ i \in Inodes
      /\ Writes(p, i) /\ f_io[p] # F!NoIO
  BY AtCall DEF F!WriteChunkEnd, WritePcs, Writes
<1>3. Counted /\ UNCHANGED <<f_pool, f_sockets, f_leaked, f_ops>>
  <2>1. f_ops \in Nat /\ f_faults \in Nat
    BY <1>1 DEF FileTypes
  <2>2. f_faults' = f_faults \/ f_faults' = f_faults + 1
    BY DEF F!WriteChunkEnd, F!Fault
  <2>3. UNCHANGED <<f_pool, f_sockets, f_leaked, f_ops>>
    BY DEF F!WriteChunkEnd
  <2> QED BY <2>1, <2>2, <2>3 DEF Counted
<1>4. WriteAt("write chunk end", l)
  BY <1>1, <1>2 DEF WriteInv
<1>5. f_file \in [Inodes -> Stores] /\ l.chunk_index \in Nat
  BY <1>1, <1>2 DEF FileTypes, IOs
<1>6. CASE F!Fault("master") /\ F!ReturnZero(p) /\ f_acked' = f_acked /\ f_file' \in {f_file, ended}
  <2>1. /\ GoesTo(p, "idle", F!NoIO) /\ MapOf(p) /\ f_result' \in [Procs -> Int]
        /\ f_pc'[p] = "idle"
    BY <1>2, <1>6, ReturnsZero
  <2>2. Connected(p)' /\ ConnectionsOf(p)
    BY <1>2, <1>3, <2>1, SameConnections
  <2>3. OwnFile(p) /\ AcksKept
    BY <1>2, <1>6, SameFile, EndedFile
  <2>4. f_faults' # 0
    BY <1>1, <1>6 DEF F!Fault, FileTypes
  <2> QED BY <1>3, <1>6, <2>1, <2>2, <2>3, <2>4, FailedCallEnds
<1>7. CASE /\ f_file' = ended /\ f_faults' = f_faults /\ F!Written(l)
           /\ F!Return(p, l.count, l.write_position)
           /\ f_acked' = IF l.failed THEN f_acked ELSE f_acked \cup {ack}
  <2>1. /\ OwnFile(p) /\ AcksKept
        /\ f_file'[i].length \in Nat /\ f_file'[i].length >= l.write_position
        /\ \A k \in Inodes : f_file'[k].data = f_file[k].data
        /\ f_file'[i].locked = f_file[i].locked \ {l.chunk_index - 1}
        /\ \A k \in Inodes : k # i => f_file'[k] = f_file[k]
    BY <1>2, <1>7, EndedFile
  <2>2. /\ l.write_position = l.end /\ l.end = l.start + l.count /\ l.buf = l.count
        /\ l.end <= MaxSize
    BY ONLY <1>2, <1>4, <1>7, ChunkEnds
  <2>3. /\ l.count \in Nat /\ l.write_position \in Nat /\ l.start \in Nat
        /\ l.call \in Nat
    BY ONLY <1>2, IOTyped
  <2>4. GoesTo(p, "idle", F!NoIO) /\ MapOf(p) /\ f_result' \in [Procs -> Int]
    BY <1>2, <1>7, <2>3, NatIsInt, Returning
  <2>5. /\ f_file' \in [Inodes -> Stores] /\ f_acked' \subseteq Acks /\ ConnectionsOf(p)
        /\ "idle" \in FilePcs
    <3>1. ack \in Acks
      BY <1>2, <2>3 DEF Acks
    <3> QED BY <1>1, <1>3, <1>7, <2>1, <3>1, SameConnections DEF FileTypes, OwnFile, FilePcs
  <2>6. FileTypes' /\ f_pc'[p] = "idle" /\ f_io'[p] = F!NoIO /\ Others(p)
    BY <1>3, <2>1, <2>4, <2>5, StepTyped, OwnFileOthers
  <2>7. CallInv(p)' /\ WriteInv(p)' /\ ReadInv(p)' /\ \A k \in Inodes : ~Writes(p, k)'
    BY <2>6, NothingDoing
  <2>8. Connected(p)'
    BY <1>2, <1>3, <2>6, SameConnections
  <2>9. ChunkInv'
    BY <1>2, <1>5, <1>7, <2>1, <2>6, ChunkReleased
  <2>10. ASSUME NEW q \in Procs, NEW k \in Inodes, Writes(q, k)'
         PROVE  q # p /\ Writes(q, k) /\ k # i /\ f_io'[q] = f_io[q]
    <3>1. q # p
      BY <2>7, <2>10
    <3>2. f_io'[q] = f_io[q] /\ Writes(q, k)
      BY <2>6, <2>10, <3>1 DEF Others, Writes
    <3> QED BY <1>1, <1>2, <3>1, <3>2 DEF AckInv
  <2>11. AckInv'
    <3>1. (\A k \in Inodes, q, r \in Procs : Writes(q, k) /\ Writes(r, k) => q = r)'
      BY <1>1, <2>10 DEF AckInv
    <3>2. \A a \in f_acked' : a \in f_acked \/ (a = ack /\ ~l.failed)
      BY <1>7
    <3>3. (\A k \in Inodes, q \in Procs, a \in f_acked :
             Writes(q, k) => ~F!Overlaps(a, k, f_io[q].start, f_io[q].end))'
      <4> SUFFICES ASSUME NEW k \in Inodes, NEW q \in Procs, NEW a \in f_acked', Writes(q, k)'
                   PROVE  ~F!Overlaps(a, k, f_io'[q].start, f_io'[q].end)
        BY DEF F!Overlaps
      <4>1. Writes(q, k) /\ k # i /\ f_io'[q] = f_io[q]
        BY <2>10
      <4>2. CASE a \in f_acked
        BY <1>1, <4>1, <4>2 DEF AckInv
      <4>3. CASE a = ack
        <5>1. a.inode = i
          BY <4>3
        <5> QED BY <4>1, <5>1 DEF F!Overlaps
      <4> QED BY <3>2, <4>2, <4>3
    <3>4. (\A a \in f_acked : a.start + a.count <= MaxSize)'
      <4> SUFFICES ASSUME NEW a \in f_acked' PROVE a.start + a.count <= MaxSize
        OBVIOUS
      <4>1. CASE a \in f_acked
        BY <1>1, <4>1 DEF AckInv
      <4>2. CASE a = ack
        BY <2>2, <4>2
      <4> QED BY <3>2, <4>1, <4>2
    <3>5. (F!AckedStays)'
      <4> SUFFICES ASSUME NEW a \in f_acked'
                   PROVE  /\ f_file'[a.inode].length >= a.start + a.count
                          /\ \A j \in 0 .. a.count - 1 :
                               f_file'[a.inode].data[a.start + j] = <<a.call, j>>
        BY DEF F!AckedStays
      <4>1. CASE a \in f_acked
        <5>1. F!AckedStays
          BY <1>1 DEF AckInv
        <5> QED BY <2>1, <4>1, <5>1 DEF AcksKept, F!AckedStays
      <4>2. CASE a = ack /\ ~l.failed
        <5>1. a.inode = i /\ a.start = l.start /\ a.count = l.count /\ a.call = l.call
          BY <4>2
        <5>2. \A j \in 0 .. l.buf - 1 : f_file[i].data[l.start + j] = <<l.call, j>>
          BY <1>1, <1>2, <4>2 DEF WriteInv
        <5>3. \A j \in 0 .. l.count - 1 : f_file'[i].data[l.start + j] = <<l.call, j>>
          BY <1>2, <2>1, <2>2, <5>2
        <5>4. f_file'[i].length >= l.start + l.count
          BY <2>1, <2>2
        <5> QED BY <5>1, <5>3, <5>4
      <4> QED BY <3>2, <4>1, <4>2
    <3> QED BY <3>1, <3>3, <3>4, <3>5 DEF AckInv
  <2> QED BY <2>6, <2>7, <2>8, <2>9, <2>11, StepKeeps
<1>8. CASE /\ f_file' = ended /\ f_faults' = f_faults /\ ~F!Written(l)
           /\ F!Go(p, "write chunk") /\ UNCHANGED <<f_io, f_map, f_result, f_acked>>
  <2>1. /\ OwnFile(p) /\ AcksKept
        /\ \A k \in Inodes : f_file'[k].data = f_file[k].data
        /\ f_file'[i].locked = f_file[i].locked \ {l.chunk_index - 1}
        /\ \A k \in Inodes : k # i => f_file'[k] = f_file[k]
    BY <1>2, <1>8, EndedFile
  <2>2. WriteAt("write chunk", l)
    BY ONLY <1>2, <1>4, <1>8, ChunkEnds
  <2>3. GoesTo(p, "write chunk", l)
    BY <1>1, <1>8 DEF GoesTo, F!Go, FileTypes
  <2>4. /\ MapOf(p) /\ f_result' \in [Procs -> Int] /\ f_file' \in [Inodes -> Stores]
        /\ f_acked' \subseteq Acks /\ "write chunk" \in FilePcs /\ ConnectionsOf(p)
    BY <1>1, <1>3, <1>8, <2>1, SameConnections DEF MapOf, FileTypes, FilePcs, WritePcs, OwnFile
  <2>5. FileTypes' /\ f_pc'[p] = "write chunk" /\ f_io'[p] = l /\ Others(p)
    BY <1>2, <1>3, <2>1, <2>3, <2>4, StepTyped, OwnFileOthers
  <2>6. CallInv(p)' /\ ReadInv(p)' /\ Connected(p)'
    <3>1. CallInv(p)'
      BY <1>1, <1>2, <1>8, <2>5 DEF CallInv, PcsOf, WritePcs
    <3>2. Connected(p)'
      BY <1>2, <1>3, <2>5, SameConnections
    <3> QED BY <1>2, <2>5, <3>1, <3>2 DEF ReadInv
  <2>7. WriteInv(p)'
    <3>1. ~l.failed => \A j \in 0 .. l.buf - 1 : f_file'[i].data[l.start + j] = <<l.call, j>>
      BY <1>1, <1>2, <2>1 DEF WriteInv
    <3> QED BY <2>2, <2>5, <3>1 DEF WriteInv
  <2>8. AckInv'
    <3>1. \A q \in Procs, k \in Inodes : Writes(q, k)' =>
            Writes(q, k) /\ f_io'[q].start = f_io[q].start /\ f_io'[q].end = f_io[q].end
      BY <1>8 DEF Writes
    <3> QED BY <1>8, <2>1, <2>5, <3>1, AckKeeps DEF AcksKept
  <2>9. ChunkInv'
    BY <1>2, <1>5, <1>8, <2>1, <2>5, ChunkReleased
  <2> QED BY <2>5, <2>6, <2>7, <2>8, <2>9, StepKeeps
<1> QED BY <1>6, <1>7, <1>8 DEF F!WriteChunkEnd
-----------------------------------------------------------------------------
\* A Read holds no chunk, and its steps change no file.
LEMMA ReadEnds ==
  ASSUME FileInv, NEW p \in Procs, f_io[p].op = "read", GoesTo(p, "idle", F!NoIO), MapOf(p),
         ConnectionsOf(p), f_result' \in [Procs -> Int], Connected(p)', Counted,
         UNCHANGED <<f_file, f_acked>>
  PROVE  FileInv'
<1>1. \A i \in Inodes : \A c : ~Holds(p, i, c)
  BY DEF Holds, Writes
<1> QED BY <1>1, CallEnds

\* What ReadInv asks of the locals of a Read.
ReadAt(l) ==
  /\ l.end <= l.start + l.count
  /\ ~l.failed => /\ l.buf = l.write_position - l.start
                  /\ \A k \in 0 .. l.buf - 1 : <<k, l.start + k>> \in l.filled

\* A read that goes on from what it has.
LEMMA ReadGoesOn ==
  ASSUME FileInv, NEW p \in Procs, f_io[p].op = "read", NEW x \in ReadPcs, NEW l \in IOs,
         GoesTo(p, x, l), l.op = "read", l.inode = f_io[p].inode, ReadAt(l),
         ConnectionsOf(p), f_pc'[p] = x => Connected(p)', Counted,
         x \in {"read block", "read freed"} => f_pool'[p][l.server] = "none",
         UNCHANGED <<f_file, f_acked, f_map, f_result>>
  PROVE  FileInv'
<1>1. FileTypes /\ CallInv(p)
  BY DEF FileInv
<1>2. /\ MapOf(p) /\ f_result' \in [Procs -> Int] /\ f_file' \in [Inodes -> Stores]
      /\ f_acked' \subseteq Acks /\ x \in FilePcs
  BY <1>1 DEF MapOf, FileTypes, FilePcs
<1>3. FileTypes' /\ f_pc'[p] = x /\ f_io'[p] = l /\ Others(p)
  BY <1>2, StepTyped
<1>4. CallInv(p)'
  <2>1. f_io[p] # F!NoIO
    BY ONLY f_io[p].op = "read" DEF F!NoIO
  <2> QED BY <1>1, <1>3, <2>1 DEF CallInv, PcsOf
<1>5. WriteInv(p)' /\ \A i \in Inodes : ~Writes(p, i)' /\ \A c : ~Holds(p, i, c)
  BY <1>3 DEF WriteInv, Writes, Holds
<1>6. ReadInv(p)'
  BY <1>3 DEF ReadInv, ReadAt
<1>7. f_faults' = 0 => f_faults = 0
  BY DEF Counted
<1> QED BY <1>3, <1>4, <1>5, <1>6, <1>7, NoFileChange

\* What the invariant says of a read in progress.
LEMMA Reading ==
  ASSUME FileInv, NEW p \in Procs, f_pc[p] \in ReadPcs
  PROVE  f_io[p] \in IOs /\ f_io[p].op = "read" /\ f_pc[p] # "idle" /\ ReadAt(f_io[p])
<1>1. f_pc[p] # "idle"
  BY DEF ReadPcs
<1>2. f_io[p] \in IOs /\ f_io[p].op = "read"
  BY <1>1, AtCall
<1> QED BY <1>1, <1>2 DEF FileInv, ReadInv, ReadAt

\* Bounds, as a fact about numbers alone.
LEMMA EndsBefore ==
  \A e, end, start, count \in Nat : e <= end /\ end <= start + count => e <= start + count
OBVIOUS

\* The master tells where the chunk is and how long the file is.
LEMMA ReadChunkKeeps ==
  ASSUME FileInv, NEW p \in Procs, F!ReadChunk(p)
  PROVE  FileInv'
<1> DEFINE l == f_io[p]
           f == f_file[l.inode]
           e == F!EndOf(f, l)
           m == [l EXCEPT !.end = e]
<1>1. FileTypes
  BY DEF FileInv
<1>2. f_pc[p] = "read chunk" /\ f_pc[p] \in ReadPcs
  BY DEF F!ReadChunk, ReadPcs
<1>3. l \in IOs /\ l.op = "read" /\ ReadAt(l)
  BY <1>2, Reading
<1>4. Counted /\ UNCHANGED <<f_file, f_pool, f_sockets, f_acked, f_leaked, f_ops>>
  <2>1. f_ops \in Nat /\ f_faults \in Nat
    BY <1>1 DEF FileTypes
  <2>2. f_faults' = f_faults \/ f_faults' = f_faults + 1
    BY DEF F!ReadChunk, F!Fault
  <2>3. UNCHANGED <<f_file, f_pool, f_sockets, f_acked, f_leaked, f_ops>>
    BY DEF F!ReadChunk
  <2> QED BY <2>1, <2>2, <2>3 DEF Counted
<1>5. CASE F!ReturnZero(p)
  <2>1. /\ GoesTo(p, "idle", F!NoIO) /\ MapOf(p) /\ f_result' \in [Procs -> Int]
        /\ f_pc'[p] = "idle"
    BY <1>2, <1>5, ReturnsZero
  <2>2. Connected(p)' /\ ConnectionsOf(p)
    BY <1>2, <1>4, <2>1, SameConnections
  <2> QED BY <1>3, <1>4, <2>1, <2>2, ReadEnds
<1>6. CASE ~F!ReturnZero(p)
  <2>1. /\ f_io' = [f_io EXCEPT ![p].end = e] /\ UNCHANGED <<f_map, f_result>>
        /\ F!Go(p, "read connect") \/ f_pc' = f_pc
    BY <1>6 DEF F!ReadChunk
  <2>2. l.end \in Nat /\ l.start \in Nat /\ l.count \in Nat /\ f.length \in Nat
    <3>1. l.inode \in Inodes
      BY <1>3, IOTyped
    <3> QED BY <1>1, <1>3, <3>1, IOTyped DEF FileTypes, Stores
  <2>3. e \in Nat /\ e <= l.end
    BY <2>2 DEF F!EndOf, F!Min2
  <2>4. PICK x \in {"read chunk", "read connect"} : GoesTo(p, x, m)
    <3>1. f_io' = [f_io EXCEPT ![p] = m]
      BY <1>1, <2>1 DEF FileTypes
    <3>2. GoesTo(p, "read chunk", m) \/ GoesTo(p, "read connect", m)
      BY <1>1, <1>2, <2>1, <3>1 DEF GoesTo, F!Go, FileTypes
    <3> QED BY <3>2
  <2> HIDE DEF e
  <2>5. /\ m \in IOs /\ m.op = l.op /\ m.inode = l.inode /\ m.start = l.start
        /\ m.count = l.count /\ m.end = e /\ m.write_position = l.write_position
        /\ m.buf = l.buf /\ m.filled = l.filled /\ m.failed = l.failed
    <3> HIDE DEF l
    <3> QED BY ONLY <1>3, <2>3 DEF IOs
  <2> HIDE DEF m
  <2>6. ReadAt(m)
    <3>1. m.end <= m.start + m.count
      <4>1. l.end <= l.start + l.count
        BY <1>3 DEF ReadAt
      <4>2. e <= l.start + l.count
        BY ONLY <2>2, <2>3, <4>1, EndsBefore
      <4> HIDE DEF l, f
      <4> QED BY ONLY <2>5, <4>2
    <3> QED BY <1>3, <2>5, <3>1 DEF ReadAt
  <2>7. ConnectionsOf(p)
    BY <1>4, SameConnections
  <2>8. f_pc'[p] = x => Connected(p)'
    BY <1>2, <1>4, <2>4, SameConnections
  <2>9. x \in ReadPcs /\ x \notin {"read block", "read freed"}
    BY <2>4 DEF ReadPcs
  <2> QED BY <1>3, <1>4, <2>1, <2>4, <2>5, <2>6, <2>7, <2>8, <2>9, ReadGoesOn
<1> QED BY <1>5, <1>6

\* A connection is taken out of the pool, or made.
LEMMA ReadConnectKeeps ==
  ASSUME FileInv, NEW p \in Procs, F!ReadConnect(p)
  PROVE  FileInv'
<1> DEFINE l == f_io[p]
<1>1. FileTypes /\ Connected(p)
  BY DEF FileInv
<1>2. f_pc[p] = "read connect" /\ f_pc[p] \in ReadPcs
  BY DEF F!ReadConnect, ReadPcs
<1>3. l \in IOs /\ l.op = "read" /\ ReadAt(l)
  BY <1>2, Reading
<1>4. UNCHANGED <<f_file, f_acked, f_leaked, f_ops>>
  BY DEF F!ReadConnect
<1>5. CASE /\ F!Fault("connect") /\ F!ReturnZero(p) /\ UNCHANGED <<f_pool, f_sockets>>
  <2>1. /\ GoesTo(p, "idle", F!NoIO) /\ MapOf(p) /\ f_result' \in [Procs -> Int]
        /\ f_pc'[p] = "idle"
    BY <1>2, <1>5, ReturnsZero
  <2>2. Connected(p)' /\ ConnectionsOf(p)
    BY <1>2, <1>4, <1>5, <2>1, SameConnections
  <2>3. Counted
    BY <1>1, <1>4, <1>5 DEF F!Fault, FileTypes, Counted
  <2> QED BY <1>3, <1>4, <2>1, <2>2, <2>3, ReadEnds
<1>6. ASSUME NEW k \in 1 .. Len(Locations), f_faults' = f_faults \/ F!Fault("connect"),
             f_io' = [f_io EXCEPT ![p].server = Locations[k]],
             F!Go(p, IF f_pool[p][Locations[k]] = "freed" THEN "read freed" ELSE "read block"),
             f_pool' = [f_pool EXCEPT ![p][Locations[k]] = "none"],
             f_sockets' = [f_sockets EXCEPT ![p] = IF f_pool[p][Locations[k]] = "none"
                                                   THEN @ + 1 ELSE @],
             UNCHANGED <<f_map, f_result>>
      PROVE  FileInv'
  <2> DEFINE s == Locations[k]
             x == IF f_pool[p][s] = "freed" THEN "read freed" ELSE "read block"
             m == [l EXCEPT !.server = s]
  <2>1. s \in F!Servers
    BY ServersFacts
  <2>2. Counted
    <3>1. f_ops \in Nat /\ f_faults \in Nat
      BY <1>1 DEF FileTypes
    <3>2. f_faults' = f_faults \/ f_faults' = f_faults + 1
      BY <1>6 DEF F!Fault
    <3> QED BY <1>4, <3>1, <3>2 DEF Counted
  <2>3. GoesTo(p, x, m)
    <3>1. f_io' = [f_io EXCEPT ![p] = m]
      BY <1>1, <1>6 DEF FileTypes
    <3> QED BY <1>6, <3>1 DEF GoesTo, F!Go
  <2>4. f_pool \in [Procs -> [F!Servers -> {"none", "alive", "freed"}]]
    BY <1>1 DEF FileTypes
  <2>5. f_pool[p][s] \in {"none", "alive", "freed"}
    BY <2>1, <2>4
  <2>6. /\ f_pool' = [f_pool EXCEPT ![p][s] = "none"]
        /\ f_sockets' = [f_sockets EXCEPT ![p] = IF f_pool[p][s] = "none" THEN @ + 1 ELSE @]
    BY <1>6
  <2> HIDE DEF s
  <2>7. /\ m \in IOs /\ m.op = l.op /\ m.inode = l.inode /\ m.start = l.start
        /\ m.count = l.count /\ m.end = l.end /\ m.write_position = l.write_position
        /\ m.buf = l.buf /\ m.filled = l.filled /\ m.failed = l.failed /\ m.server = s
    <3> HIDE DEF l
    <3> QED BY ONLY <1>3, <2>1 DEF IOs
  <2> HIDE DEF m
  <2>8. ReadAt(m)
    BY <1>3, <2>7 DEF ReadAt
  <2>9. /\ f_pool' \in [Procs -> [F!Servers -> {"none", "alive", "freed"}]]
        /\ \A q \in Procs \ {p} : f_pool'[q] = f_pool[q]
        /\ f_pool'[p] = [f_pool[p] EXCEPT ![s] = f_pool'[p][s]] /\ f_pool'[p][s] = "none"
    BY ONLY <2>1, <2>4, <2>6, p \in Procs
  <2>10. ConnectionsOf(p)
    <3>1. f_sockets \in [Procs -> Int] /\ f_leaked \in [Procs -> Int]
      BY <1>1 DEF FileTypes
    <3>2. f_sockets' \in [Procs -> Int] /\ \A q \in Procs \ {p} : f_sockets'[q] = f_sockets[q]
      BY ONLY <2>6, <3>1
    <3> QED BY <1>4, <2>9, <3>1, <3>2 DEF ConnectionsOf
  <2>11. ASSUME f_pc'[p] = x PROVE Connected(p)'
    <3>1. /\ Cardinality(AliveIn(p)) \in Nat /\ Cardinality(AliveIn(p)') \in Nat
          /\ f_pool[p][s] = "alive" => Cardinality(AliveIn(p)') = Cardinality(AliveIn(p)) - 1
          /\ f_pool[p][s] # "alive" => Cardinality(AliveIn(p)') = Cardinality(AliveIn(p))
      BY <1>1, <2>1, <2>9, PoolCounts
    <3>2. f_sockets[p] \in Int /\ f_leaked[p] \in Int
      BY <1>1, ConnectionsTyped
    <3>3. f_sockets[p] = f_leaked[p] + Cardinality(AliveIn(p)) + 0
      BY <1>1, <1>2 DEF Connected, AliveIn
    <3>4. f_sockets'[p] = IF f_pool[p][s] = "none" THEN f_sockets[p] + 1 ELSE f_sockets[p]
      BY <1>1, <2>6 DEF FileTypes
    <3>5. f_leaked'[p] = f_leaked[p]
      BY <1>4
    <3>6. f_sockets'[p] = f_leaked'[p] + Cardinality(AliveIn(p)')
                          + (IF f_pool[p][s] = "freed" THEN 0 ELSE 1)
      <4> DEFINE a == Cardinality(AliveIn(p))
                 b == Cardinality(AliveIn(p)')
      <4>1. /\ a \in Nat /\ b \in Nat /\ f_sockets[p] = f_leaked[p] + a + 0
            /\ f_pool[p][s] = "alive" => b = a - 1
            /\ f_pool[p][s] # "alive" => b = a
        BY <3>1, <3>3
      <4> HIDE DEF a, b
      <4>2. f_sockets'[p] = f_leaked'[p] + b + (IF f_pool[p][s] = "freed" THEN 0 ELSE 1)
        BY ONLY <2>5, <3>2, <3>4, <3>5, <4>1
      <4> QED BY <4>2 DEF b
    <3> QED BY <2>11, <3>6 DEF Connected, AliveIn
  <2>12. x \in ReadPcs
    BY DEF ReadPcs
  <2>13. m.op = "read" /\ m.inode = f_io[p].inode /\ f_pool'[p][m.server] = "none"
    BY <1>3, <2>7, <2>9
  <2>14. UNCHANGED <<f_file, f_acked, f_map, f_result>>
    BY <1>4, <1>6
  <2> HIDE DEF x
  <2> QED BY <1>3, <2>2, <2>3, <2>7, <2>8, <2>10, <2>11, <2>12, <2>13, <2>14, ReadGoesOn
<1>7. CASE \E k \in 1 .. Len(Locations) :
             /\ k > 1 => F!Fault("connect")
             /\ k = 1 => UNCHANGED f_faults
             /\ f_io' = [f_io EXCEPT ![p].server = Locations[k]]
             /\ F!Go(p, IF f_pool[p][Locations[k]] = "freed" THEN "read freed" ELSE "read block")
             /\ f_pool' = [f_pool EXCEPT ![p][Locations[k]] = "none"]
             /\ f_sockets' = [f_sockets EXCEPT ![p] = IF f_pool[p][Locations[k]] = "none"
                                                      THEN @ + 1 ELSE @]
             /\ UNCHANGED <<f_map, f_result>>
  <2>1. PICK k \in 1 .. Len(Locations) :
             /\ k > 1 => F!Fault("connect")
             /\ k = 1 => UNCHANGED f_faults
             /\ f_io' = [f_io EXCEPT ![p].server = Locations[k]]
             /\ F!Go(p, IF f_pool[p][Locations[k]] = "freed" THEN "read freed" ELSE "read block")
             /\ f_pool' = [f_pool EXCEPT ![p][Locations[k]] = "none"]
             /\ f_sockets' = [f_sockets EXCEPT ![p] = IF f_pool[p][Locations[k]] = "none"
                                                      THEN @ + 1 ELSE @]
             /\ UNCHANGED <<f_map, f_result>>
    BY <1>7
  <2>2. k > 1 \/ k = 1
    BY DEF Locations
  <2>3. f_faults' = f_faults \/ F!Fault("connect")
    BY <2>1, <2>2
  <2> QED BY <1>6, <2>1, <2>3
<1> QED BY <1>5, <1>7 DEF F!ReadConnect
-----------------------------------------------------------------------------
\* The next chunk begins where this one, or the part that is read of it, ends.
LEMMA NextChunkAt ==
  ASSUME NEW l \in IOs
  PROVE  LET n == F!NextChunk(l) IN
         /\ n \in IOs /\ n.op = l.op /\ n.inode = l.inode /\ n.start = l.start
         /\ n.count = l.count /\ n.end = l.end /\ n.filled = l.filled /\ n.failed = l.failed
         /\ n.server = l.server
         /\ n.write_position = l.write_position + F!ChunkSize(l) /\ n.write_position <= l.end
         /\ n.buf = l.buf + F!ChunkSize(l) /\ F!ChunkSize(l) \in Int
<1> DEFINE b == (l.chunk_index + 1) * M64
           e == l.end
           t == l.write_position
           s == F!ChunkSize(l)
           w == l.write_position + F!ChunkSize(l)
           c == l.chunk_index + 1
           u == l.buf + F!ChunkSize(l)
           n == F!NextChunk(l)
<1>1. e \in Nat /\ t \in Nat /\ l.chunk_index \in Nat /\ l.buf \in Int /\ M64 \in Nat
  BY ONLY l \in IOs, IOTyped, MooseAssumption
<1>2. b \in Nat /\ c \in Nat
  BY ONLY <1>1
<1>3. s = (IF e < b THEN e ELSE b) - t
  BY DEF F!ChunkSize, F!Min2
<1>4. n = [l EXCEPT !.write_position = w, !.chunk_index = c, !.buf = u]
  BY DEF F!NextChunk
<1>5. w = t + s /\ u = l.buf + s
  OBVIOUS
<1> HIDE DEF b, e, t, s, w, c, u, n
<1>6. w \in Nat /\ w <= e /\ s \in Int /\ u \in Int
  BY ONLY <1>1, <1>2, <1>3, <1>5
<1>7. /\ n \in IOs /\ n.op = l.op /\ n.inode = l.inode /\ n.start = l.start
      /\ n.count = l.count /\ n.end = l.end /\ n.filled = l.filled /\ n.failed = l.failed
      /\ n.server = l.server /\ n.write_position = w /\ n.buf = u
  BY ONLY l \in IOs, <1>2, <1>4, <1>6 DEF IOs
<1> QED BY ONLY <1>6, <1>7 DEF w, u, s, e, n

\* The bytes of one more chunk are in the buffer.
LEMMA FilledBytes ==
  ASSUME NEW l \in IOs, ReadAt(l)
  PROVE  /\ F!Filled(l) \subseteq Int \X Int
         /\ ~l.failed => \A k \in 0 .. (l.buf + F!ChunkSize(l)) - 1 :
                           <<k, l.start + k>> \in F!Filled(l)
<1> DEFINE a == l.chunk_index * M64
           t == l.write_position
           s == F!ChunkSize(l)
           o == F!ChunkOffset(l)
<1>1. /\ t \in Nat /\ l.chunk_index \in Nat /\ l.buf \in Int /\ M64 \in Nat /\ l.start \in Nat
      /\ l.filled \subseteq Int \X Int
  BY ONLY l \in IOs, IOTyped, MooseAssumption
<1>2. a \in Nat
  BY ONLY <1>1
<1>3. o = t - a
  BY DEF F!ChunkOffset
<1>4. s \in Int
  BY NextChunkAt
<1>5. F!Filled(l) = l.filled \cup {<<l.buf + j, a + o + j>> : j \in 0 .. s - 1}
  BY DEF F!Filled
<1>6. ~l.failed => /\ l.buf = t - l.start
                   /\ \A k \in 0 .. l.buf - 1 : <<k, l.start + k>> \in l.filled
  BY DEF ReadAt
<1> HIDE DEF a, t, s, o
<1>7. F!Filled(l) \subseteq Int \X Int
  <2>1. \A j \in 0 .. s - 1 : <<l.buf + j, a + o + j>> \in Int \X Int
    BY ONLY <1>1, <1>2, <1>3, <1>4
  <2> QED BY ONLY <1>1, <1>5, <2>1
<1>8. ASSUME ~l.failed, NEW k \in 0 .. (l.buf + s) - 1
      PROVE  <<k, l.start + k>> \in F!Filled(l)
  <2>1. CASE k < l.buf
    <3>1. k \in 0 .. l.buf - 1
      BY ONLY <1>1, <1>4, <2>1, k \in 0 .. (l.buf + s) - 1
    <3> QED BY ONLY <1>5, <1>6, <1>8, <3>1
  <2>2. CASE ~(k < l.buf)
    <3> DEFINE j == k - l.buf
    <3>1. j \in 0 .. s - 1 /\ l.buf + j = k /\ a + o + j = l.start + k
      BY ONLY <1>1, <1>2, <1>3, <1>4, <1>6, <1>8, <2>2, k \in 0 .. (l.buf + s) - 1
    <3> HIDE DEF j
    <3>2. <<l.buf + j, a + o + j>> \in F!Filled(l)
      BY ONLY <1>5, <3>1
    <3> QED BY ONLY <3>1, <3>2
  <2> QED BY ONLY <2>1, <2>2
<1> QED BY ONLY <1>7, <1>8 DEF s

\* Subtraction, as a fact about numbers alone.
LEMMA Difference == \A a, b \in Nat : a - b \in Int
OBVIOUS

\* The loop of Read goes on with r.
LEMMA ReadNextKeeps ==
  ASSUME FileInv, NEW p \in Procs, f_io[p].op = "read", NEW r \in IOs, r.op = "read",
         r.inode = f_io[p].inode, ReadAt(F!NextChunk(r)), F!ReadNext(p, r),
         ConnectionsOf(p), Counted, UNCHANGED <<f_file, f_acked>>,
         f_pc'[p] \notin {"write block", "read block"} => Connected(p)'
  PROVE  FileInv'
<1> DEFINE n == F!NextChunk(r)
<1>1. /\ n \in IOs /\ n.op = r.op /\ n.inode = r.inode /\ n.write_position \in Nat
      /\ r.start \in Nat
  BY NextChunkAt, IOTyped
<1>2. FileTypes /\ f_io[p] # F!NoIO
  <2>1. f_io[p] # F!NoIO
    BY ONLY f_io[p].op = "read" DEF F!NoIO
  <2> QED BY <2>1 DEF FileInv
<1>3. ReadAt(n)
  OBVIOUS
<1>4. \/ F!Return(p, n.write_position - r.start, n.write_position)
      \/ /\ f_io' = [f_io EXCEPT ![p] = n] /\ F!Go(p, "read chunk")
         /\ UNCHANGED <<f_map, f_result>>
  BY DEF F!ReadNext
<1> HIDE DEF n
<1>5. CASE F!Return(p, n.write_position - r.start, n.write_position)
  <2>1. n.write_position - r.start \in Int
    BY ONLY <1>1, Difference
  <2>2. GoesTo(p, "idle", F!NoIO) /\ MapOf(p) /\ f_result' \in [Procs -> Int]
    BY <1>1, <1>2, <1>5, <2>1, Returning
  <2>3. f_pc'[p] = "idle"
    BY <1>2, <2>2 DEF FileTypes, GoesTo
  <2> QED BY <2>2, <2>3, ReadEnds
<1>6. CASE /\ f_io' = [f_io EXCEPT ![p] = n] /\ F!Go(p, "read chunk")
           /\ UNCHANGED <<f_map, f_result>>
  <2>1. GoesTo(p, "read chunk", n) /\ "read chunk" \in ReadPcs
    BY <1>6 DEF GoesTo, F!Go, ReadPcs
  <2>2. f_pc'[p] = "read chunk"
    BY <1>2, <2>1 DEF FileTypes, GoesTo
  <2>3. n.op = "read" /\ n.inode = f_io[p].inode
    BY <1>1
  <2> QED BY <1>1, <1>3, <1>6, <2>1, <2>2, <2>3, ReadGoesOn
<1> QED BY <1>4, <1>5, <1>6

\* The connection of a Read goes back into the pool.
LEMMA PooledTyped ==
  ASSUME FileInv, NEW p \in Procs, f_pc[p] \in {"read block", "read freed"},
         NEW state \in {"alive", "freed"}, F!Pooled(p, state)
  PROVE  /\ f_pool' \in [Procs -> [F!Servers -> {"none", "alive", "freed"}]]
         /\ \A q \in Procs \ {p} : f_pool'[q] = f_pool[q]
         /\ Cardinality(AliveIn(p)) \in Nat
         /\ state = "alive" => Cardinality(AliveIn(p)') = Cardinality(AliveIn(p)) + 1
         /\ state = "freed" => Cardinality(AliveIn(p)') = Cardinality(AliveIn(p))
<1> DEFINE s == f_io[p].server
<1>1. FileTypes /\ f_pc[p] \in ReadPcs
  BY DEF FileInv, ReadPcs
<1>2. f_io[p] \in IOs /\ f_io[p].op = "read"
  BY <1>1, Reading
<1>3. s \in F!Servers
  BY ONLY <1>2, IOTyped
<1>4. f_pool[p][s] = "none"
  BY <1>2 DEF FileInv, ReadInv
<1>5. f_pool \in [Procs -> [F!Servers -> {"none", "alive", "freed"}]]
  BY <1>1 DEF FileTypes
<1>6. f_pool' = [f_pool EXCEPT ![p][s] = state]
  BY DEF F!Pooled
<1> HIDE DEF s
<1>7. /\ f_pool' \in [Procs -> [F!Servers -> {"none", "alive", "freed"}]]
      /\ \A q \in Procs \ {p} : f_pool'[q] = f_pool[q]
      /\ f_pool'[p] = [f_pool[p] EXCEPT ![s] = f_pool'[p][s]] /\ f_pool'[p][s] = state
  BY ONLY <1>3, <1>5, <1>6, p \in Procs, state \in {"alive", "freed"}
<1> QED BY <1>1, <1>3, <1>4, <1>7, PoolCounts

\* A read goes on to the next chunk, or returns.
LEMMA ReadNextAt ==
  ASSUME FileTypes, NEW p \in Procs, NEW r, F!ReadNext(p, r)
  PROVE  f_pc'[p] \in {"idle", "read chunk"}
<1>1. F!Go(p, "idle") \/ F!Go(p, "read chunk")
  BY DEF F!ReadNext, F!Return
<1> QED BY <1>1 DEF F!Go, FileTypes

\* A block arrives and is put where the buffer has room for it.
LEMMA ReadBlockKeeps ==
  ASSUME FileInv, NEW p \in Procs, F!ReadBlock(p)
  PROVE  FileInv'
<1> DEFINE l == f_io[p]
           g == F!Filled(l)
           r == [l EXCEPT !.filled = g]
           n == F!NextChunk(r)
<1>1. FileTypes /\ Connected(p)
  BY DEF FileInv
<1>2. f_pc[p] = "read block" /\ f_pc[p] \in ReadPcs
  BY DEF F!ReadBlock, ReadPcs
<1>3. l \in IOs /\ l.op = "read" /\ ReadAt(l)
  BY <1>2, Reading
<1>4. UNCHANGED <<f_file, f_sockets, f_acked, f_leaked, f_ops, f_faults>> /\ Counted
  BY <1>1 DEF F!ReadBlock, FileTypes, Counted
<1>5. F!Pooled(p, "alive") /\ F!ReadNext(p, r)
  BY DEF F!ReadBlock
<1>6. g \subseteq Int \X Int
      /\ (~l.failed => \A k \in 0 .. (l.buf + F!ChunkSize(l)) - 1 : <<k, l.start + k>> \in g)
  BY <1>3, FilledBytes
<1>7. r = [l EXCEPT !.filled = g]
  OBVIOUS
<1> HIDE DEF g, r
<1>8. /\ r \in IOs /\ r.op = l.op /\ r.inode = l.inode /\ r.start = l.start
      /\ r.count = l.count /\ r.end = l.end /\ r.write_position = l.write_position
      /\ r.chunk_index = l.chunk_index /\ r.buf = l.buf /\ r.filled = g /\ r.failed = l.failed
  <2> HIDE DEF l
  <2> QED BY ONLY <1>3, <1>6, <1>7 DEF IOs
<1>9. F!ChunkSize(r) = F!ChunkSize(l)
  <2> HIDE DEF l
  <2> QED BY ONLY <1>8 DEF F!ChunkSize
<1>10. /\ n \in IOs /\ n.start = r.start /\ n.count = r.count /\ n.end = r.end
       /\ n.filled = r.filled /\ n.failed = r.failed
       /\ n.write_position = r.write_position + F!ChunkSize(r)
       /\ n.buf = r.buf + F!ChunkSize(r) /\ F!ChunkSize(r) \in Int
  BY ONLY <1>8, NextChunkAt
<1> HIDE DEF n
<1>11. ReadAt(n)
  <2>1. n.end <= n.start + n.count
    BY <1>3, <1>8, <1>10 DEF ReadAt
  <2>2. ASSUME ~n.failed
        PROVE  /\ n.buf = n.write_position - n.start
               /\ \A k \in 0 .. n.buf - 1 : <<k, n.start + k>> \in n.filled
    <3>1. l.buf = l.write_position - l.start
      BY <1>3, <1>8, <1>10, <2>2 DEF ReadAt
    <3>2. l.buf \in Int /\ l.write_position \in Nat /\ l.start \in Nat
      BY ONLY <1>3, IOTyped
    <3>3. n.buf = l.buf + F!ChunkSize(l) /\ n.start = l.start /\ n.filled = g
      BY <1>8, <1>9, <1>10
    <3>4. \A k \in 0 .. n.buf - 1 : <<k, n.start + k>> \in n.filled
      <4>1. ~l.failed
        BY <1>8, <1>10, <2>2
      <4> HIDE DEF l
      <4> QED BY ONLY <1>6, <3>3, <4>1
    <3>5. n.buf = n.write_position - n.start
      <4> DEFINE s == F!ChunkSize(l)
      <4>1. /\ s \in Int /\ n.buf = l.buf + s /\ n.write_position = l.write_position + s
            /\ n.start = l.start
        BY <1>8, <1>9, <1>10
      <4> HIDE DEF s, l
      <4> QED BY ONLY <3>1, <3>2, <4>1
    <3> QED BY <3>4, <3>5
  <2> QED BY <2>1, <2>2 DEF ReadAt
<1>12. /\ f_pool' \in [Procs -> [F!Servers -> {"none", "alive", "freed"}]]
       /\ \A q \in Procs \ {p} : f_pool'[q] = f_pool[q]
       /\ Cardinality(AliveIn(p)) \in Nat
       /\ Cardinality(AliveIn(p)') = Cardinality(AliveIn(p)) + 1
  BY <1>2, <1>5, PooledTyped
<1>13. ConnectionsOf(p)
  BY <1>1, <1>4, <1>12 DEF FileTypes, ConnectionsOf
<1>14. f_pc'[p] \in {"idle", "read chunk"}
  BY <1>1, <1>5, ReadNextAt
<1>15. Connected(p)'
  <2> DEFINE a == Cardinality(AliveIn(p))
  <2>1. f_sockets[p] = f_leaked[p] + a + 1
    BY <1>1, <1>2 DEF Connected, AliveIn
  <2>2. f_leaked[p] \in Int /\ a \in Nat
    BY <1>1, ConnectionsTyped
  <2> HIDE DEF a
  <2>3. f_sockets[p] = f_leaked[p] + (a + 1) + 0
    BY ONLY <2>1, <2>2
  <2>4. f_sockets'[p] = f_leaked'[p] + Cardinality(AliveIn(p)') + 0
    BY <1>4, <1>12, <2>3 DEF a
  <2> QED BY <1>14, <2>4 DEF Connected, AliveIn
<1> QED BY <1>3, <1>4, <1>5, <1>8, <1>11, <1>13, <1>15, ReadNextKeeps DEF n

\* ReadBlock has failed: the chunk is tried again, or counted as read.
LEMMA FailedKeeps ==
  ASSUME FileInv, NEW p \in Procs, f_pc[p] \in {"read block", "read freed"}, F!Failed(p),
         f_pc[p] = "read block" => F!Delete(p),
         f_pc[p] = "read freed" => f_sockets' = f_sockets,
         Counted, UNCHANGED <<f_file, f_acked, f_leaked>>
  PROVE  FileInv'
<1> DEFINE l == f_io[p]
           r == [l EXCEPT !.failed = TRUE]
           n == F!NextChunk(r)
<1>1. FileTypes /\ Connected(p) /\ f_pc[p] \in ReadPcs
  BY DEF FileInv, ReadPcs
<1>2. l \in IOs /\ l.op = "read" /\ ReadAt(l)
  BY <1>1, Reading
<1>3. ASSUME f_pc'[p] \in {"idle", "read chunk"},
             f_pool' \in [Procs -> [F!Servers -> {"none", "alive", "freed"}]],
             \A q \in Procs \ {p} : f_pool'[q] = f_pool[q],
             Cardinality(AliveIn(p)') = Cardinality(AliveIn(p))
      PROVE  ConnectionsOf(p) /\ Connected(p)'
  <2>1. CASE f_pc[p] = "read block"
    BY <1>3, <2>1, Deleted
  <2>2. CASE f_pc[p] = "read freed"
    <3>1. ConnectionsOf(p)
      BY <1>1, <1>3, <2>2 DEF FileTypes, ConnectionsOf
    <3>2. f_sockets[p] = f_leaked[p] + Cardinality(AliveIn(p)) + 0
      BY <1>1, <2>2 DEF Connected, AliveIn
    <3>3. f_sockets'[p] = f_leaked'[p] + Cardinality(AliveIn(p)') + 0
      BY <1>3, <2>2, <3>2
    <3> QED BY <1>3, <3>1, <3>3 DEF Connected, AliveIn
  <2> QED BY <2>1, <2>2
<1>4. CASE F!Go(p, "read chunk") /\ UNCHANGED <<f_pool, f_io, f_map, f_result>>
  <2>1. GoesTo(p, "read chunk", l) /\ "read chunk" \in ReadPcs
    BY <1>1, <1>4 DEF GoesTo, F!Go, FileTypes, ReadPcs
  <2>2. f_pc'[p] = "read chunk"
    BY <1>1, <2>1 DEF FileTypes, GoesTo
  <2>3. /\ f_pool' \in [Procs -> [F!Servers -> {"none", "alive", "freed"}]]
        /\ Cardinality(AliveIn(p)') = Cardinality(AliveIn(p))
    BY <1>1, <1>4 DEF FileTypes, AliveIn
  <2>4. ConnectionsOf(p) /\ Connected(p)'
    BY <1>3, <1>4, <2>2, <2>3
  <2> QED BY <1>2, <1>4, <2>1, <2>4, ReadGoesOn
<1>5. CASE F!Pooled(p, "freed") /\ F!ReadNext(p, r)
  <2>1. r = [l EXCEPT !.failed = TRUE]
    OBVIOUS
  <2> HIDE DEF r
  <2>2. /\ r \in IOs /\ r.op = l.op /\ r.inode = l.inode /\ r.start = l.start
        /\ r.count = l.count /\ r.end = l.end /\ r.failed = TRUE
    <3> HIDE DEF l
    <3> QED BY ONLY <1>2, <2>1 DEF IOs
  <2>3. n.start = r.start /\ n.count = r.count /\ n.end = r.end /\ n.failed = r.failed
    BY ONLY <2>2, NextChunkAt
  <2> HIDE DEF n
  <2>4. ReadAt(n)
    BY <1>2, <2>2, <2>3 DEF ReadAt
  <2>5. f_pc'[p] \in {"idle", "read chunk"}
    BY <1>1, <1>5, ReadNextAt
  <2>6. ConnectionsOf(p) /\ Connected(p)'
    BY <1>3, <1>5, <2>5, PooledTyped
  <2> QED BY <1>2, <1>5, <2>2, <2>4, <2>6, ReadNextKeeps DEF n
<1> QED BY <1>4, <1>5 DEF F!Failed

\* The connection of a read is lost.
LEMMA ReadBlockFailsKeeps ==
  ASSUME FileInv, NEW p \in Procs, F!ReadBlockFails(p)
  PROVE  FileInv'
<1>1. /\ f_pc[p] = "read block" /\ F!Delete(p) /\ F!Failed(p)
      /\ UNCHANGED <<f_file, f_acked, f_leaked>>
  BY DEF F!ReadBlockFails
<1>2. Counted
  <2>1. f_ops \in Nat /\ f_faults \in Nat
    BY DEF FileInv, FileTypes
  <2>2. (f_faults' = f_faults \/ f_faults' = f_faults + 1) /\ f_ops' = f_ops
    BY DEF F!ReadBlockFails, F!Fault
  <2> QED BY <2>1, <2>2 DEF Counted
<1> QED BY <1>1, <1>2, FailedKeeps

\* ReadBlock on a connection that has been deleted.
LEMMA ReadFreedKeeps ==
  ASSUME FileInv, NEW p \in Procs, F!ReadFreed(p)
  PROVE  FileInv'
<1>1. FileTypes /\ f_pc[p] = "read freed" /\ f_pc[p] \in ReadPcs
  BY DEF FileInv, F!ReadFreed, ReadPcs
<1>2. UNCHANGED <<f_file, f_sockets, f_acked, f_leaked>> /\ Counted
  BY <1>1 DEF F!ReadFreed, FileTypes, Counted
<1>3. CASE F!Failed(p)
  BY <1>1, <1>2, <1>3, FailedKeeps
<1>4. CASE F!Go(p, "dead") /\ UNCHANGED <<f_grace, f_pool, f_io, f_map, f_result>>
  <2>1. GoesTo(p, "dead", f_io[p]) /\ "dead" \in ReadPcs
    BY <1>1, <1>4 DEF GoesTo, F!Go, FileTypes, ReadPcs
  <2>2. f_pc'[p] = "dead"
    BY <1>1, <2>1 DEF FileTypes, GoesTo
  <2>3. ConnectionsOf(p) /\ Connected(p)'
    BY <1>1, <1>2, <1>4, <2>2, SameConnections
  <2>4. f_io[p] \in IOs /\ f_io[p].op = "read" /\ ReadAt(f_io[p])
    BY <1>1, Reading
  <2> QED BY <1>2, <1>4, <2>1, <2>3, <2>4, ReadGoesOn
<1> QED BY <1>3, <1>4 DEF F!ReadFreed
-----------------------------------------------------------------------------
\* It holds at first.
LEMMA FileStarts ==
  ASSUME F!Init
  PROVE  FileInv
<1>1. FileTypes
  <2>1. ASSUME NEW n \in Lengths PROVE F!Existing(n) \in Stores
    <3>1. n \in Nat
      BY MooseAssumption
    <3> QED BY <3>1 DEF Stores, F!Existing, F!Hole
  <2>2. f_file \in [Inodes -> Stores]
    BY <2>1 DEF F!Init
  <2>3. /\ f_map \in [Procs -> [Inodes -> OpenFiles \cup {F!NoFile}]]
        /\ f_pool \in [Procs -> [F!Servers -> {"none", "alive", "freed"}]]
        /\ f_sockets \in [Procs -> Int] /\ f_leaked \in [Procs -> Int]
    BY DEF F!Init
  <2>4. f_pc \in [Procs -> FilePcs] /\ f_io \in [Procs -> IOs \cup {F!NoIO}]
    BY DEF F!Init, FilePcs
  <2>5. /\ f_result \in [Procs -> Int] /\ f_acked \subseteq Acks /\ f_ops \in Nat
        /\ f_faults \in Nat
    BY DEF F!Init
  <2> QED BY <2>2, <2>3, <2>4, <2>5 DEF FileTypes
<1>2. \A p \in Procs : f_io[p] = F!NoIO /\ f_pc[p] = "idle"
  BY DEF F!Init
<1>3. AckInv
  BY <1>2 DEF AckInv, Writes, F!NoIO, F!AckedStays, F!Init
<1>4. ChunkInv
  <2>1. \A i \in Inodes : f_file[i].locked = {}
    BY DEF F!Init, F!Existing
  <2> QED BY <2>1 DEF ChunkInv
<1>5. ASSUME NEW p \in Procs PROVE CallInv(p) /\ WriteInv(p) /\ ReadInv(p)
  <2>1. f_io[p] = F!NoIO /\ f_pc[p] = "idle" /\ f_io[p].op = "none"
    BY <1>2 DEF F!NoIO
  <2>2. CallInv(p)
    BY <2>1 DEF CallInv, PcsOf
  <2> QED BY <2>1, <2>2 DEF WriteInv, ReadInv
<1>6. ASSUME NEW p \in Procs PROVE Connected(p)
  <2>1. {s \in F!Servers : f_pool[p][s] = "alive"} = {}
    BY DEF F!Init
  <2>2. Cardinality({}) = 0
    BY FS_EmptySet
  <2>3. f_sockets[p] = 0 /\ f_leaked[p] = 0
    BY DEF F!Init
  <2>4. f_sockets[p] = f_leaked[p] + Cardinality({s \in F!Servers : f_pool[p][s] = "alive"}) + 0
    <3>1. 0 = 0 + 0 + 0
      OBVIOUS
    <3> QED BY <2>1, <2>2, <2>3, <3>1
  <2> QED BY <1>2, <2>4 DEF Connected
<1> QED BY <1>1, <1>3, <1>4, <1>5, <1>6 DEF FileInv

\* So it does when nothing changes but the clock and the count of failures.
LEMMA ClockKeeps ==
  ASSUME FileInv, Counted,
         UNCHANGED <<f_file, f_map, f_pool, f_sockets, f_pc, f_io, f_result, f_acked, f_leaked>>
  PROVE  FileInv'
<1>1. /\ f_file' = f_file /\ f_map' = f_map /\ f_pool' = f_pool /\ f_sockets' = f_sockets
      /\ f_pc' = f_pc /\ f_io' = f_io /\ f_result' = f_result /\ f_acked' = f_acked
      /\ f_leaked' = f_leaked
  OBVIOUS
<1>2. FileTypes /\ AckInv /\ ChunkInv
  BY DEF FileInv
<1>3. FileTypes'
  BY <1>1, <1>2 DEF FileTypes, Counted
<1>4. AckInv'
  BY <1>1, <1>2 DEF AckInv, Writes, F!Overlaps, F!AckedStays
<1>5. ChunkInv'
  <2>1. \A p, i, c : Holds(p, i, c)' <=> Holds(p, i, c)
    BY <1>1 DEF Holds, Writes
  <2> QED BY <1>1, <1>2, <2>1 DEF ChunkInv, Counted
<1>6. ASSUME NEW p \in Procs PROVE (CallInv(p) /\ WriteInv(p) /\ ReadInv(p) /\ Connected(p))'
  <2>1. CallInv(p) /\ WriteInv(p) /\ ReadInv(p) /\ Connected(p)
    BY DEF FileInv
  <2>2. CallInv(p)' /\ WriteInv(p)'
    BY <1>1, <2>1 DEF CallInv, PcsOf, WriteInv
  <2>3. ReadInv(p)' /\ Connected(p)'
    BY <1>1, <2>1 DEF ReadInv, Connected
  <2> QED BY <2>2, <2>3
<1> QED BY <1>3, <1>4, <1>5, <1>6 DEF FileInv

\* Every step keeps the invariant.
LEMMA FileStep ==
  ASSUME FileInv, F!Next \/ UNCHANGED f_vars
  PROVE  FileInv'
<1>1. CASE UNCHANGED f_vars
  <2>1. Counted
    BY <1>1 DEF f_vars, Counted, FileInv, FileTypes
  <2> QED BY <1>1, <2>1, ClockKeeps DEF f_vars
<1>2. ASSUME NEW p \in Procs, NEW i \in Inodes,
             \/ \E m \in {"O_RDWR", "O_WRONLY"}, append \in BOOLEAN : F!Open(p, i, m, append)
             \/ F!Close(p, i)
             \/ \E o \in Offsets, cur \in BOOLEAN : F!Seek(p, i, o, cur)
             \/ \E n \in Counts, o \in Offsets \cup {f_map[p][i].position} :
                  F!Write(p, i, o, n) \/ F!Read(p, i, o, n)
      PROVE  FileInv'
  BY <1>2, OpenKeeps, CloseKeeps, SeekKeeps, WriteKeeps, ReadKeeps
<1>3. ASSUME NEW p \in Procs, F!Step(p)
      PROVE  FileInv'
  BY <1>3, GetAttrKeeps, TruncateKeeps, WriteChunkKeeps, WriteConnectKeeps, WriteBlockKeeps,
     WriteChunkEndKeeps, ReadChunkKeeps, ReadConnectKeeps, ReadBlockKeeps, ReadBlockFailsKeeps,
     ReadFreedKeeps DEF F!Step
<1>4. ASSUME NEW p \in Procs, F!Reconnected(p) \/ F!Tick(p)
      PROVE  FileInv'
  <2>1. Counted
    <3>1. f_ops \in Nat /\ f_faults \in Nat
      BY DEF FileInv, FileTypes
    <3>2. (f_faults' = f_faults \/ f_faults' = f_faults + 1) /\ f_ops' = f_ops
      BY <1>4 DEF F!Reconnected, F!Tick, F!Fault
    <3> QED BY <3>1, <3>2 DEF Counted
  <2> QED BY <1>4, <2>1, ClockKeeps DEF F!Reconnected, F!Tick
<1> QED BY <1>1, <1>2, <1>3, <1>4 DEF F!Next

\* The invariant of the files.
LEMMA FileInvariant == Spec => []FileInv
<1>1. Init => FileInv
  BY FileStarts DEF Init
<1>2. FileInv /\ [Next]_all => FileInv'
  BY FileStep, PartStep
<1> QED BY <1>1, <1>2, PTL DEF Spec, all

(***************************************************************************)
(* File::Write, for any sizes of blocks and chunks and any number of       *)
(* processes and files: what it acknowledged stays stored, each byte at    *)
(* its offset, until it is overwritten or cut off, whatever connections    *)
(* and commands failed.                                                    *)
(***************************************************************************)
THEOREM AckedStaysTheorem == Spec => []AckedStays
<1>1. FileInv => AckedStays
  BY DEF FileInv, AckInv, AckedStays
<1> QED BY <1>1, FileInvariant, PTL

\* A step moves one process, and one that reads a block ends its call in two ways.
LEMMA IOMoves ==
  ASSUME FileTypes, F!Next, NEW p \in Procs, f_pc[p] = "read block", f_pc'[p] = "idle"
  PROVE  F!ReadBlock(p) \/ F!ReadBlockFails(p)
<1>1. f_pc \in [Procs -> FilePcs]
  BY DEF FileTypes
<1>2. ASSUME NEW q \in Procs, f_pc' = f_pc \/ (\E x : F!Go(q, x))
      PROVE  q = p
  BY <1>1, <1>2 DEF F!Go
<1>3. ASSUME NEW q \in Procs, NEW i \in Inodes,
             \/ \E m \in {"O_RDWR", "O_WRONLY"}, append \in BOOLEAN : F!Open(q, i, m, append)
             \/ F!Close(q, i)
             \/ \E o \in Offsets, cur \in BOOLEAN : F!Seek(q, i, o, cur)
             \/ \E n \in Counts, o \in Offsets \cup {f_map[q][i].position} :
                  F!Write(q, i, o, n) \/ F!Read(q, i, o, n)
      PROVE  FALSE
  <2>1. f_pc[q] = "idle"
    BY <1>3 DEF F!Open, F!Close, F!Seek, F!Write, F!Read, F!Begin
  <2>2. f_pc' = f_pc \/ (\E x : F!Go(q, x))
    BY <1>3 DEF F!Open, F!Close, F!Seek, F!Write, F!Read
  <2> QED BY <1>2, <2>1, <2>2
<1>4. ASSUME NEW q \in Procs, F!Step(q)
      PROVE  F!ReadBlock(p) \/ F!ReadBlockFails(p)
  <2>1. CASE F!GetAttr(q) \/ F!Truncate(q)
    <3>1. f_pc' = f_pc \/ (\E x : F!Go(q, x))
      BY <2>1 DEF F!GetAttr, F!Truncate, F!Closed
    <3> QED BY <1>2, <2>1, <3>1 DEF F!GetAttr, F!Truncate
  <2>2. CASE F!WriteChunk(q) \/ F!WriteConnect(q) \/ F!WriteBlock(q) \/ F!WriteChunkEnd(q)
    <3>1. f_pc' = f_pc \/ (\E x : F!Go(q, x))
      BY <2>2 DEF F!WriteChunk, F!WriteConnect, F!WriteBlock, F!WriteChunkEnd, F!ReturnZero,
                  F!Return
    <3> QED BY <1>2, <2>2, <3>1 DEF F!WriteChunk, F!WriteConnect, F!WriteBlock, F!WriteChunkEnd
  <2>3. CASE F!ReadChunk(q) \/ F!ReadConnect(q) \/ F!ReadFreed(q)
    <3>1. f_pc' = f_pc \/ (\E x : F!Go(q, x))
      BY <2>3 DEF F!ReadChunk, F!ReadConnect, F!ReadFreed, F!Failed, F!ReadNext, F!ReturnZero,
                  F!Return
    <3> QED BY <1>2, <2>3, <3>1 DEF F!ReadChunk, F!ReadConnect, F!ReadFreed
  <2>4. CASE F!ReadBlock(q) \/ F!ReadBlockFails(q)
    <3>1. f_pc' = f_pc \/ (\E x : F!Go(q, x))
      BY <2>4 DEF F!ReadBlock, F!ReadBlockFails, F!Failed, F!ReadNext, F!Return
    <3> QED BY <1>2, <2>4, <3>1
  <2> QED BY <1>4, <2>1, <2>2, <2>3, <2>4 DEF F!Step
<1>5. ASSUME NEW q \in Procs, F!Reconnected(q) \/ F!Tick(q)
      PROVE  FALSE
  BY <1>5 DEF F!Reconnected, F!Tick
<1> QED BY <1>3, <1>4, <1>5 DEF F!Next

\* What a Read has counted when its last block was read.
LEMMA ReadReturns ==
  ASSUME FileInv, NEW p \in Procs, F!ReadBlock(p), f_pc'[p] = "idle", ~f_io[p].failed
  PROVE  /\ f_result'[p] <= f_io[p].count
         /\ f_io[p].start + f_result'[p] = f_io[p].end
         /\ \A k \in 0 .. f_result'[p] - 1 : <<k, f_io[p].start + k>> \in F!Filled(f_io[p])
<1> DEFINE l == f_io[p]
           g == F!Filled(l)
           r == [l EXCEPT !.filled = g]
           n == F!NextChunk(r)
<1>1. FileTypes /\ f_pc[p] = "read block" /\ f_pc[p] \in ReadPcs
  BY DEF FileInv, F!ReadBlock, ReadPcs
<1>2. l \in IOs /\ ReadAt(l)
  BY <1>1, Reading
<1>3. /\ g \subseteq Int \X Int
      /\ \A k \in 0 .. (l.buf + F!ChunkSize(l)) - 1 : <<k, l.start + k>> \in g
  BY <1>2, FilledBytes
<1>4. F!ReadNext(p, r)
  BY DEF F!ReadBlock
<1>5. r = [l EXCEPT !.filled = g]
  OBVIOUS
<1> HIDE DEF g, r
<1>6. /\ r \in IOs /\ r.start = l.start /\ r.end = l.end /\ r.write_position = l.write_position
      /\ r.chunk_index = l.chunk_index
  <2> HIDE DEF l
  <2> QED BY ONLY <1>2, <1>3, <1>5 DEF IOs
<1>7. F!ChunkSize(r) = F!ChunkSize(l)
  <2> HIDE DEF l
  <2> QED BY ONLY <1>6 DEF F!ChunkSize
<1>8. /\ n.write_position = r.write_position + F!ChunkSize(r) /\ n.write_position <= r.end
      /\ F!ChunkSize(r) \in Int
  BY ONLY <1>6, NextChunkAt
<1>9. ~F!Go(p, "read chunk")
  BY <1>1 DEF F!Go, FileTypes
<1>10. n.write_position >= r.end /\ F!Return(p, n.write_position - r.start, n.write_position)
  BY <1>4, <1>9 DEF F!ReadNext
<1>11. f_result'[p] = n.write_position - r.start
  BY <1>1, <1>10 DEF F!Return, FileTypes
<1>12. /\ l.end \in Nat /\ l.start \in Nat /\ l.count \in Nat /\ l.write_position \in Nat
       /\ l.buf \in Int
  BY ONLY <1>2, IOTyped
<1>13. l.end <= l.start + l.count /\ l.buf = l.write_position - l.start
  BY <1>2 DEF ReadAt
<1> DEFINE w == n.write_position
           s == F!ChunkSize(l)
           v == f_result'[p]
<1>14. /\ w = l.write_position + s /\ w <= l.end /\ w >= l.end /\ s \in Int
       /\ v = w - l.start
  BY <1>6, <1>7, <1>8, <1>10, <1>11
<1> HIDE DEF w, s, v, l
<1>15. v <= l.count /\ l.start + v = l.end /\ v = l.buf + s
  BY ONLY <1>12, <1>13, <1>14
<1>16. \A k \in 0 .. v - 1 : <<k, l.start + k>> \in g
  BY ONLY <1>3, <1>15 DEF s
<1> QED BY ONLY <1>15, <1>16 DEF v, l, g

(***************************************************************************)
(* File::Read, for any sizes of blocks and chunks and any offset: unless a *)
(* ReadBlock failed, every byte it reports was put at its place in the     *)
(* buffer in this call, and it reports fewer than asked for only at the    *)
(* end of the file.                                                        *)
(***************************************************************************)
THEOREM ReadHonestTheorem == Spec => ReadHonest
<1>1. ASSUME FileInv, [Next]_all, NEW p \in Procs, ~UNCHANGED f_vars,
             f_pc[p] = "read block", f_io[p].op = "read", f_pc'[p] = "idle",
             ~f_io[p].failed, f_pool'[p][f_io[p].server] = "alive"
      PROVE  F!ReadBlock(p)
  <2>1. F!Next /\ FileTypes
    BY <1>1, PartStep DEF FileInv
  <2>2. CASE F!ReadBlockFails(p)
    <3>1. f_pool' = f_pool \/ F!Pooled(p, "freed")
      BY <2>2 DEF F!ReadBlockFails, F!Failed
    <3>2. f_pool[p][f_io[p].server] = "none"
      BY <1>1 DEF FileInv, ReadInv
    <3>3. f_io[p].server \in F!Servers
      BY <1>1, Reading, IOTyped DEF ReadPcs
    <3>4. f_pool'[p][f_io[p].server] \in {"none", "freed"}
      BY <2>1, <3>1, <3>2, <3>3 DEF F!Pooled, FileTypes
    <3> QED BY <1>1, <3>4
  <2> QED BY <1>1, <2>1, <2>2, IOMoves
<1>2. FileInv /\ [Next]_all =>
        [\A p \in Procs :
           (f_pc[p] = "read block" /\ f_io[p].op = "read" /\ f_pc'[p] = "idle" /\ ~f_io[p].failed
              /\ f_pool'[p][f_io[p].server] = "alive")
             => LET n == f_result'[p] IN
                /\ n <= f_io[p].count /\ (n < f_io[p].count => f_io[p].start + n = f_io[p].end)
                /\ \A k \in 0 .. n - 1 : <<k, f_io[p].start + k>> \in F!Filled(f_io[p])]_(F!vars)
  <2>1. F!vars = f_vars /\ (UNCHANGED f_vars => UNCHANGED F!vars)
    BY DEF F!vars, f_vars
  <2> QED BY <1>1, <2>1, ReadReturns
<1> QED BY <1>2, FileInvariant, PTL DEF Spec, all, ReadHonest, F!ReadHonest
-----------------------------------------------------------------------------
(***************************************************************************)
(* The master connection: what is on its way, and what a call has done.    *)
(***************************************************************************)
Asked == M!Request \cup {M!NoMessage, M!Garbled, [cmd |-> "NEWSESSION"]}
           \cup [cmd : {"RECONNECT"}, session : Nat]
Statuses == {"STATUS_OK", "ERROR_EEXIST", "ERROR_ENOENT"}
Replies == [cmd : M!Cmds, value : Statuses] \cup [cmd : {"REGISTER"}, value : Nat]
Conns == [up : BOOLEAN, session : Nat, in : Asked, out : Seq(Replies \cup {M!NOP, M!Cut})]

MasterTypes ==
  /\ m_master_socket \in BOOLEAN /\ m_session_id \in Nat /\ m_fds \in Int
  /\ m_pc \in {"idle", "connect", "register", "send", "recv", "give up"}
  /\ m_back \in {"idle", "send", "give up"} /\ m_retry \in Nat
  /\ m_req \in M!Request \cup {M!NoMessage} /\ m_runs \in Nat
  /\ m_sessions \subseteq Nat /\ IsFiniteSet(m_sessions)
  /\ m_lost \in Nat /\ m_forgets \in Nat /\ m_conn \in Conns

\* A command is sent at most once for each attempt that retry counts.
CommandInv ==
  /\ m_req = M!NoMessage <=>
       m_pc = "idle" \/ (m_pc \in {"connect", "register"} /\ m_back = "idle")
  /\ m_req = M!NoMessage => m_runs = 0 /\ m_st = "none"
  /\ m_pc = "send" \/ (m_pc \in {"connect", "register"} /\ m_back = "send") =>
       m_runs + m_retry <= SendRetries
  /\ m_pc = "recv" => m_runs + m_retry <= SendRetries + 1

SocketInv ==
  M!SocketsAccountedFor /\ (m_pc \in {"connect", "register"} => ~m_master_socket)

\* What the client will read: at most one answer, to what it sent last.
IsAnswer(m) == m # M!NOP /\ m # M!Cut
AnswersAt == {k \in DOMAIN m_conn.out : IsAnswer(m_conn.out[k])}

ConnInv ==
  /\ ~m_conn.up => m_conn.in = M!NoMessage
  /\ m_conn.in # M!NoMessage =>
       \/ /\ m_pc = "register" /\ m_conn.in = M!BuildRegister
          /\ m_conn.out = <<>> /\ m_conn.session = 0
       \/ /\ m_pc = "recv" /\ m_master_socket /\ m_conn.in \in {m_req, M!Garbled}
          /\ m_runs + m_retry <= SendRetries /\ AnswersAt = {}
  /\ \A j, k \in AnswersAt : j = k
  /\ m_pc = "register" => \A k \in AnswersAt :
       m_conn.out[k].value \in Nat /\ (m_session_id = 0 => m_conn.out[k].value # 0)
  /\ m_pc = "recv" /\ m_master_socket =>
       \A k \in AnswersAt : m_conn.out[k] = M!Answer(m_req.cmd, m_st) /\ m_runs > 0
  /\ m_master_socket /\ m_pc # "recv" => AnswersAt = {}

\* The sessions made so far: one, or none, but for those that are lost.
SessionInv ==
  Cardinality(m_sessions) + m_forgets <=
    m_lost + (IF m_session_id # 0 \/ (m_pc = "register" /\ m_conn.session # 0) THEN 1 ELSE 0)

MasterInv == MasterTypes /\ CommandInv /\ SocketInv /\ ConnInv /\ SessionInv
-----------------------------------------------------------------------------
\* ReadCommand skips the NOPs, and nothing else.
LEMMA SkipFacts ==
  ASSUME NEW S, m_conn.out \in Seq(S)
  PROVE  /\ M!Skip \in 0 .. Len(m_conn.out)
         /\ M!Skip < Len(m_conn.out) => m_conn.out[M!Skip + 1] # M!NOP
<1> DEFINE out == m_conn.out
           T == {k \in 0 .. Len(out) : k = Len(out) \/ out[k + 1] # M!NOP}
           P(k) == /\ \A j \in 1 .. k : out[j] = M!NOP
                   /\ k < Len(out) => out[k + 1] # M!NOP
<1>1. Len(out) \in Nat
  OBVIOUS
<1>2. T \subseteq Nat /\ T # {}
  BY <1>1
<1>3. PICK x \in T : \A y \in T : ~ (<<y, x>> \in OpToRel(<, Nat))
  BY <1>2, NatLessThanWellFounded, WFMin
<1>4. \A y \in T : ~(y < x)
  BY <1>2, <1>3 DEF OpToRel
<1>5. x \in 0 .. Len(out) /\ (x < Len(out) => out[x + 1] # M!NOP)
  BY <1>1
<1>6. ASSUME NEW j \in 1 .. x PROVE out[j] = M!NOP
  <2>1. j - 1 \in 0 .. Len(out) /\ j - 1 < x /\ (j - 1) + 1 = j /\ j - 1 # Len(out)
    BY <1>1, <1>5
  <2>2. j - 1 \notin T
    BY <1>4, <2>1
  <2> QED BY <2>1, <2>2
<1>7. P(x)
  BY <1>5, <1>6
<1>8. \E k \in 0 .. Len(out) : P(k)
  BY <1>5, <1>7
<1>9. M!Skip = CHOOSE k \in 0 .. Len(out) : P(k)
  BY DEF M!Skip
<1> HIDE DEF P
<1>10. M!Skip \in 0 .. Len(out) /\ P(M!Skip)
  BY <1>8, <1>9
<1> QED BY <1>10 DEF P

\* What is read is an answer, and what is left has lost it.
LEMMA ReceivedFacts ==
  ASSUME MasterTypes, ConnInv, M!Arrived
  PROVE  /\ M!Skip + 1 \in AnswersAt /\ M!Received = m_conn.out[M!Skip + 1]
         /\ M!Rest \in Seq(Replies \cup {M!NOP, M!Cut})
         /\ \A k \in DOMAIN M!Rest : ~IsAnswer(M!Rest[k])
<1> DEFINE out == m_conn.out
           s == M!Skip
<1>1. out \in Seq(Replies \cup {M!NOP, M!Cut})
  BY DEF MasterTypes, Conns
<1>2. /\ s \in 0 .. Len(out) /\ (s < Len(out) => out[s + 1] # M!NOP)
      /\ s < Len(out) /\ out[s + 1] # M!Cut
  BY <1>1, SkipFacts DEF M!Arrived
<1> HIDE DEF s
<1>3. s + 1 \in DOMAIN out /\ IsAnswer(out[s + 1])
  BY <1>1, <1>2 DEF IsAnswer
<1>4. s + 1 \in AnswersAt
  BY <1>3 DEF AnswersAt
<1>5. M!Rest = SubSeq(out, s + 2, Len(out))
  BY DEF M!Rest, s
<1>6. M!Rest \in Seq(Replies \cup {M!NOP, M!Cut})
  BY <1>1, <1>2, <1>5
<1>7. ASSUME NEW k \in DOMAIN M!Rest PROVE ~IsAnswer(M!Rest[k])
  <2>1. /\ s + 1 + k \in DOMAIN out /\ M!Rest[k] = out[s + 1 + k] /\ s + 1 + k # s + 1
    BY <1>1, <1>2, <1>5
  <2>2. s + 1 + k \notin AnswersAt
    BY <1>4, <2>1 DEF ConnInv
  <2> QED BY <2>1, <2>2 DEF AnswersAt
<1> QED BY <1>4, <1>6, <1>7 DEF M!Received, s
-----------------------------------------------------------------------------
\* Messages differ.
LEMMA Messages ==
  /\ \A c, v : IsAnswer(M!Answer(c, v)) /\ M!Answer(c, v).cmd = c /\ M!Answer(c, v).value = v
  /\ \A r \in M!Request : r # M!NoMessage /\ r # M!Garbled /\ r.cmd \in M!Cmds
  /\ M!NoMessage.cmd = "none" /\ M!Garbled.cmd = "garbled"
  /\ M!BuildRegister # M!NoMessage
  /\ M!BuildRegister.cmd = IF m_session_id = 0 THEN "NEWSESSION" ELSE "RECONNECT"
<1>1. ASSUME NEW c, NEW v
      PROVE  IsAnswer(M!Answer(c, v)) /\ M!Answer(c, v).cmd = c /\ M!Answer(c, v).value = v
  <2>1. /\ "value" \in DOMAIN M!Answer(c, v) /\ "value" \notin DOMAIN M!NOP
        /\ "value" \notin DOMAIN M!Cut
    BY DEF M!Answer, M!NOP, M!Cut
  <2>2. M!Answer(c, v) # M!NOP /\ M!Answer(c, v) # M!Cut
    BY <2>1
  <2> QED BY <2>2 DEF IsAnswer, M!Answer
<1>2. M!NoMessage.cmd = "none" /\ M!Garbled.cmd = "garbled"
  BY DEF M!NoMessage, M!Garbled
<1>3. ASSUME NEW r \in M!Request PROVE r # M!NoMessage /\ r # M!Garbled /\ r.cmd \in M!Cmds
  <2>1. r.cmd \in M!Cmds
    BY DEF M!Request
  <2> QED BY <1>2, <2>1 DEF M!Cmds
<1>4. M!BuildRegister.cmd = IF m_session_id = 0 THEN "NEWSESSION" ELSE "RECONNECT"
  BY DEF M!BuildRegister
<1>5. M!BuildRegister # M!NoMessage
  BY <1>2, <1>4
<1> QED BY <1>1, <1>2, <1>3, <1>4, <1>5

\* The counters are numbers.
LEMMA MasterNumbers ==
  ASSUME MasterTypes
  PROVE  /\ m_fds \in Int /\ m_retry \in Nat /\ m_runs \in Nat /\ m_lost \in Nat
         /\ m_forgets \in Nat /\ Cardinality(m_sessions) \in Nat /\ SendRetries \in Nat
<1>1. IsFiniteSet(m_sessions)
  BY DEF MasterTypes
<1> QED BY <1>1, FS_CardinalityType, MooseAssumption DEF MasterTypes

\* The public Connect begins.
LEMMA ConnectStep ==
  ASSUME MasterInv, M!Connect
  PROVE  MasterInv'
<1>1. MasterTypes /\ CommandInv /\ SocketInv /\ ConnInv /\ SessionInv
  BY DEF MasterInv
<1>2. /\ m_pc = "idle" /\ ~m_master_socket /\ m_pc' = "connect" /\ m_back' = "idle"
      /\ UNCHANGED <<m_master_socket, m_session_id, m_retry, m_req, m_fds, m_conn, m_sessions,
                     m_runs, m_st, m_lost, m_forgets>>
  BY DEF M!Connect, M!master
<1>3. MasterTypes'
  BY <1>1, <1>2 DEF MasterTypes
<1>4. CommandInv'
  BY <1>1, <1>2 DEF CommandInv
<1>5. SocketInv'
  BY <1>1, <1>2 DEF SocketInv, M!SocketsAccountedFor
<1>6. ConnInv'
  BY <1>1, <1>2 DEF ConnInv, AnswersAt, IsAnswer, M!BuildRegister
<1>7. SessionInv'
  BY <1>1, <1>2 DEF SessionInv
<1> QED BY <1>3, <1>4, <1>5, <1>6, <1>7 DEF MasterInv

\* Where EnsureConnect goes.
LEMMA EnsureConnectAt ==
  ASSUME NEW l, M!EnsureConnect(l)
  PROVE  \/ m_pc' = l /\ m_back' = m_back
         \/ m_pc' = "connect" /\ m_back' = l /\ ~m_master_socket'
BY DEF M!EnsureConnect

\* SendAndReceive begins.
LEMMA CallStep ==
  ASSUME MasterInv, NEW r \in M!Request, M!Call(r)
  PROVE  MasterInv'
<1>1. MasterTypes /\ CommandInv /\ SocketInv /\ ConnInv /\ SessionInv
  BY DEF MasterInv
<1>2. /\ m_pc = "idle" /\ m_req' = r /\ m_retry' = SendRetries /\ M!EnsureConnect("send")
      /\ UNCHANGED <<m_master_socket, m_session_id, m_fds, m_conn, m_sessions, m_runs, m_st,
                     m_lost, m_forgets>>
  BY DEF M!Call, M!master
<1>3. \/ m_pc' = "send" /\ m_back' = m_back
      \/ m_pc' = "connect" /\ m_back' = "send" /\ ~m_master_socket'
  BY <1>2, EnsureConnectAt
<1>4. MasterTypes'
  BY <1>1, <1>2, <1>3, MooseAssumption DEF MasterTypes
<1>5. CommandInv'
  <2>1. m_req = M!NoMessage /\ m_runs = 0
    BY <1>1, <1>2 DEF CommandInv
  <2>2. m_req' # M!NoMessage /\ m_runs' + m_retry' <= SendRetries
    BY <1>2, <2>1, Messages, MooseAssumption
  <2> QED BY <1>3, <2>2 DEF CommandInv
<1>6. SocketInv'
  BY <1>1, <1>2, <1>3 DEF SocketInv, M!SocketsAccountedFor
<1>7. ConnInv'
  <2>1. m_conn.in = M!NoMessage /\ (m_master_socket => AnswersAt = {})
    BY <1>1, <1>2 DEF ConnInv
  <2>2. AnswersAt' = AnswersAt
    BY <1>2 DEF AnswersAt, IsAnswer
  <2> QED BY <1>1, <1>2, <1>3, <2>1, <2>2 DEF ConnInv
<1>8. SessionInv'
  BY <1>1, <1>2, <1>3 DEF SessionInv
<1> QED BY <1>4, <1>5, <1>6, <1>7, <1>8 DEF MasterInv

\* Where a failed Connect goes.
LEMMA ConnectFailsAt ==
  ASSUME MasterTypes, M!ConnectFails
  PROVE  m_pc' = m_back \/ (m_pc' = "connect" /\ m_back # "idle")
BY DEF M!ConnectFails

\* A connection is made, with nothing on its way but the registration.
LEMMA DialStep ==
  ASSUME MasterInv, M!Dial
  PROVE  MasterInv'
<1>1. MasterTypes /\ CommandInv /\ SocketInv /\ ConnInv /\ SessionInv
  BY DEF MasterInv
<1>2. /\ m_pc = "connect"
      /\ UNCHANGED <<m_master_socket, m_session_id, m_back, m_retry, m_req, m_sessions, m_runs,
                     m_st, m_lost, m_forgets>>
  BY DEF M!Dial, M!master
<1>3. CASE /\ m_conn' = [M!NoConn EXCEPT !.up = TRUE, !.in = M!BuildRegister]
           /\ m_fds' = m_fds + 1 /\ m_pc' = "register"
  <2>1. m_conn' = [up |-> TRUE, session |-> 0, in |-> M!BuildRegister, out |-> <<>>]
    BY <1>3 DEF M!NoConn
  <2>2. M!BuildRegister \in Asked
    BY <1>1 DEF M!BuildRegister, Asked, MasterTypes
  <2>3. /\ m_conn' \in Conns /\ m_conn'.up /\ m_conn'.session = 0
        /\ m_conn'.in = M!BuildRegister /\ m_conn'.out = <<>>
    BY <2>1, <2>2 DEF Conns
  <2>4. MasterTypes'
    <3>1. m_fds' \in Int
      BY ONLY <1>1, <1>3, MasterNumbers
    <3>2. m_pc' = "register"
      BY <1>3
    <3> QED BY <1>1, <1>2, <2>3, <3>1, <3>2 DEF MasterTypes
  <2>5. CommandInv'
    BY <1>1, <1>2, <1>3 DEF CommandInv
  <2>6. SocketInv'
    BY <1>1, <1>2, <1>3 DEF SocketInv, M!SocketsAccountedFor
  <2>7. ConnInv'
    <3>1. AnswersAt' = {}
      BY <2>3 DEF AnswersAt
    <3>2. M!BuildRegister' = M!BuildRegister
      BY <1>2 DEF M!BuildRegister
    <3>3. ~m_master_socket'
      BY <1>1, <1>2 DEF SocketInv
    <3> QED BY <1>3, <2>3, <3>1, <3>2, <3>3 DEF ConnInv
  <2>8. SessionInv'
    BY <1>1, <1>2, <1>3, <2>3 DEF SessionInv
  <2> QED BY <2>4, <2>5, <2>6, <2>7, <2>8 DEF MasterInv
<1>4. CASE M!ConnectFails /\ UNCHANGED <<m_conn, m_fds>>
  <2>1. m_pc' = m_back \/ (m_pc' = "connect" /\ m_back # "idle")
    BY <1>1, <1>4, ConnectFailsAt
  <2>2. MasterTypes'
    BY <1>1, <1>2, <1>4, <2>1 DEF MasterTypes
  <2>3. CommandInv'
    BY <1>1, <1>2, <1>4, <2>1 DEF CommandInv, MasterTypes
  <2>4. SocketInv'
    BY <1>1, <1>2, <1>4, <2>1 DEF SocketInv, M!SocketsAccountedFor, MasterTypes
  <2>5. ConnInv'
    <3>1. m_conn.in = M!NoMessage /\ ~m_master_socket
      BY <1>1, <1>2 DEF ConnInv, SocketInv
    <3>2. AnswersAt' = AnswersAt /\ m_pc' # "register"
      BY <1>1, <1>4, <2>1 DEF AnswersAt, IsAnswer, MasterTypes
    <3> QED BY <1>1, <1>2, <1>4, <3>1, <3>2 DEF ConnInv
  <2>6. SessionInv'
    BY <1>1, <1>2, <1>4, <2>1 DEF SessionInv, MasterTypes
  <2> QED BY <2>2, <2>3, <2>4, <2>5, <2>6 DEF MasterInv
<1> QED BY <1>3, <1>4 DEF M!Dial

\* The connection after what was read of it.
LEMMA ReadFrom ==
  ASSUME MasterTypes, ConnInv, M!Arrived, m_conn' = [m_conn EXCEPT !.out = M!Rest]
  PROVE  /\ m_conn' \in Conns /\ m_conn'.up = m_conn.up /\ m_conn'.session = m_conn.session
         /\ m_conn'.in = M!NoMessage /\ m_conn.in = M!NoMessage /\ AnswersAt' = {}
<1>1. /\ M!Skip + 1 \in AnswersAt /\ M!Rest \in Seq(Replies \cup {M!NOP, M!Cut})
      /\ \A k \in DOMAIN M!Rest : ~IsAnswer(M!Rest[k])
  BY ReceivedFacts
<1>2. m_conn \in Conns
  BY DEF MasterTypes
<1>3. /\ m_conn' \in Conns /\ m_conn'.up = m_conn.up /\ m_conn'.session = m_conn.session
      /\ m_conn'.in = m_conn.in /\ m_conn'.out = M!Rest
  BY <1>1, <1>2 DEF Conns
<1>4. m_conn.in = M!NoMessage
  <2>1. AnswersAt # {}
    BY <1>1
  <2>2. m_conn.out # <<>>
    BY <2>1 DEF AnswersAt
  <2> QED BY <2>1, <2>2 DEF ConnInv
<1>5. AnswersAt' = {}
  <2>1. AnswersAt' = {k \in DOMAIN m_conn'.out : IsAnswer(m_conn'.out[k])}
    BY DEF AnswersAt, IsAnswer
  <2> QED BY <1>1, <1>3, <2>1
<1> QED BY <1>3, <1>4, <1>5

\* The answer to a registration is read, or is lost.
LEMMA RegisterStep ==
  ASSUME MasterInv, M!Register
  PROVE  MasterInv'
<1>1. MasterTypes /\ CommandInv /\ SocketInv /\ ConnInv /\ SessionInv
  BY DEF MasterInv
<1>2. /\ m_pc = "register"
      /\ UNCHANGED <<m_back, m_retry, m_req, m_sessions, m_runs, m_st, m_forgets>>
  BY DEF M!Register, M!master
<1>3. CASE /\ M!Arrived /\ m_master_socket' = TRUE /\ UNCHANGED <<m_fds, m_lost>>
           /\ m_session_id' = IF m_session_id = 0 THEN M!Received.value ELSE m_session_id
           /\ m_conn' = [m_conn EXCEPT !.out = M!Rest] /\ m_pc' = m_back
  <2>1. /\ m_conn' \in Conns /\ m_conn'.in = M!NoMessage /\ AnswersAt' = {}
    BY <1>1, <1>3, ReadFrom
  <2>2. m_session_id' \in Nat /\ m_session_id' # 0
    <3>1. M!Skip + 1 \in AnswersAt /\ M!Received = m_conn.out[M!Skip + 1]
      BY <1>1, <1>3, ReceivedFacts
    <3>2. M!Received.value \in Nat /\ (m_session_id = 0 => M!Received.value # 0)
      BY <1>1, <1>2, <3>1 DEF ConnInv
    <3> QED BY <1>1, <1>3, <3>2 DEF MasterTypes
  <2>3. m_pc' \in {"idle", "send", "give up"}
    BY <1>1, <1>3 DEF MasterTypes
  <2>4. MasterTypes'
    BY <1>1, <1>2, <1>3, <2>1, <2>2, <2>3 DEF MasterTypes
  <2>5. CommandInv'
    BY <1>1, <1>2, <1>3, <2>3 DEF CommandInv
  <2>6. SocketInv'
    <3>1. ~m_master_socket /\ m_fds = 0 + 1
      BY <1>1, <1>2 DEF SocketInv, M!SocketsAccountedFor
    <3>2. m_fds' = 1 + 0
      BY ONLY <1>3, <3>1
    <3> QED BY <1>3, <2>3, <3>2 DEF SocketInv, M!SocketsAccountedFor
  <2>7. ConnInv'
    BY <2>1, <2>3 DEF ConnInv
  <2>8. SessionInv'
    <3>1. Cardinality(m_sessions) \in Nat
      BY <1>1, FS_CardinalityType DEF MasterTypes
    <3>2. Cardinality(m_sessions) + m_forgets <= m_lost + 1
      <4>1. m_lost \in Nat /\ m_forgets \in Nat
        BY ONLY <1>1, MasterNumbers
      <4> QED BY ONLY <1>1, <3>1, <4>1 DEF SessionInv
    <3> QED BY <1>2, <1>3, <2>2, <3>2 DEF SessionInv
  <2> QED BY <2>4, <2>5, <2>6, <2>7, <2>8 DEF MasterInv
<1>4. CASE /\ M!Broken /\ M!CloseSocket /\ M!ConnectFails
           /\ m_lost' = IF m_session_id = 0 /\ m_conn.session # 0 THEN m_lost + 1 ELSE m_lost
           /\ UNCHANGED <<m_session_id, m_master_socket, m_conn>>
  <2>1. m_pc' = m_back \/ (m_pc' = "connect" /\ m_back # "idle")
    BY <1>1, <1>4, ConnectFailsAt
  <2>2. m_fds' = m_fds - 1
    BY <1>4 DEF M!CloseSocket
  <2>3. MasterTypes'
    <3>1. m_fds' \in Int /\ m_lost' \in Nat
      BY ONLY <1>1, <1>4, <2>2, MasterNumbers
    <3> QED BY <1>1, <1>2, <1>4, <2>1, <3>1 DEF MasterTypes
  <2>4. CommandInv'
    BY <1>1, <1>2, <2>1 DEF CommandInv, MasterTypes
  <2>5. SocketInv'
    <3>1. ~m_master_socket /\ m_fds = 0 + 1
      BY <1>1, <1>2 DEF SocketInv, M!SocketsAccountedFor
    <3>2. m_fds' = 0 + 0
      BY ONLY <2>2, <3>1
    <3>3. ~m_master_socket' /\ m_pc' # "register"
      BY <1>1, <1>4, <2>1, <3>1 DEF MasterTypes
    <3> QED BY <3>2, <3>3 DEF SocketInv, M!SocketsAccountedFor
  <2>6. ConnInv'
    <3>1. m_conn.in = M!NoMessage /\ ~m_master_socket
      BY <1>1, <1>2, <1>4 DEF ConnInv, SocketInv, M!Broken
    <3>2. AnswersAt' = AnswersAt /\ m_pc' # "register"
      BY <1>1, <1>4, <2>1 DEF AnswersAt, IsAnswer, MasterTypes
    <3> QED BY <1>1, <1>2, <1>4, <3>1, <3>2 DEF ConnInv
  <2>7. SessionInv'
    <3>1. Cardinality(m_sessions) \in Nat /\ m_lost \in Nat /\ m_forgets \in Nat
      BY <1>1, FS_CardinalityType DEF MasterTypes
    <3>2. m_pc' # "register"
      BY <1>1, <2>1 DEF MasterTypes
    <3> QED BY <1>1, <1>2, <1>4, <3>1, <3>2 DEF SessionInv
  <2> QED BY <2>3, <2>4, <2>5, <2>6, <2>7 DEF MasterInv
<1> QED BY <1>3, <1>4 DEF M!Register

\* An attempt has failed: the next one, or the end of the call.
LEMMA AgainStep ==
  ASSUME MasterInv, m_pc \in {"send", "recv"}, m_conn.in = M!NoMessage, M!Again,
         UNCHANGED <<m_session_id, m_req, m_conn, m_sessions, m_runs, m_st, m_lost, m_forgets>>
  PROVE  MasterInv' /\ m_result' = m_result
<1>1. MasterTypes /\ CommandInv /\ SocketInv /\ ConnInv /\ SessionInv
  BY DEF MasterInv
<1>2. /\ m_master_socket' = FALSE /\ m_fds' = IF m_master_socket THEN m_fds - 1 ELSE m_fds
      /\ m_result' = m_result
      /\ \/ /\ m_retry > 0 /\ m_retry' = m_retry - 1
            /\ \/ m_pc' = "send" /\ m_back' = m_back
               \/ m_pc' = "connect" /\ m_back' = "send"
         \/ /\ m_retry' = m_retry
            /\ \/ m_pc' = "give up" /\ m_back' = m_back
               \/ m_pc' = "connect" /\ m_back' = "give up"
  BY EnsureConnectAt DEF M!Again, M!Disconnect
<1>3. m_retry \in Nat /\ m_runs \in Nat /\ SendRetries \in Nat
  BY <1>1, MooseAssumption DEF MasterTypes
<1>4. MasterTypes'
  <2>1. m_retry' \in Nat /\ m_fds' \in Int
    <3>1. m_fds \in Int
      BY ONLY <1>1, MasterNumbers
    <3>2. m_fds' = m_fds \/ m_fds' = m_fds - 1
      BY <1>2
    <3>3. m_retry' = m_retry \/ (m_retry > 0 /\ m_retry' = m_retry - 1)
      BY <1>2
    <3> QED BY ONLY <1>3, <3>1, <3>2, <3>3
  <2> QED BY <1>1, <1>2, <2>1 DEF MasterTypes
<1>5. CommandInv'
  <2>1. m_runs + m_retry <= SendRetries + 1 /\ m_req # M!NoMessage
    BY <1>1, <1>3 DEF CommandInv
  <2>2. m_retry > 0 /\ m_retry' = m_retry - 1 => m_runs + m_retry' <= SendRetries
    BY <1>3, <2>1
  <2> QED BY <1>2, <2>1, <2>2 DEF CommandInv
<1>6. SocketInv'
  <2>1. m_fds = (IF m_master_socket THEN 1 ELSE 0) + 0
    BY <1>1 DEF SocketInv, M!SocketsAccountedFor
  <2>2. m_fds' = 0 + 0
    <3>1. CASE m_master_socket
      <4>1. m_fds = 1 + 0 /\ m_fds' = m_fds - 1
        BY <1>2, <2>1, <3>1
      <4> QED BY ONLY <4>1
    <3>2. CASE ~m_master_socket
      BY <1>2, <2>1, <3>2
    <3> QED BY <3>1, <3>2
  <2> QED BY <1>2, <2>2 DEF SocketInv, M!SocketsAccountedFor
<1>7. ConnInv'
  <2>1. AnswersAt' = AnswersAt
    BY DEF AnswersAt, IsAnswer
  <2> QED BY <1>1, <1>2, <2>1 DEF ConnInv
<1>8. SessionInv'
  BY <1>1, <1>2 DEF SessionInv
<1> QED BY <1>2, <1>4, <1>5, <1>6, <1>7, <1>8 DEF MasterInv

\* The command is written, on a connection with no answer left in it.
LEMMA SendStep ==
  ASSUME MasterInv, M!Send
  PROVE  MasterInv'
<1>1. MasterTypes /\ CommandInv /\ SocketInv /\ ConnInv /\ SessionInv
  BY DEF MasterInv
<1>2. /\ m_pc = "send"
      /\ UNCHANGED <<m_session_id, m_req, m_sessions, m_runs, m_st, m_lost, m_forgets>>
  BY DEF M!Send, M!master
<1>3. m_conn.in = M!NoMessage /\ (m_master_socket => AnswersAt = {})
  BY <1>1, <1>2 DEF ConnInv
<1>4. CASE M!Again /\ m_conn' = m_conn
  BY <1>2, <1>3, <1>4, AgainStep
<1>5. CASE /\ m_conn' = IF m_master_socket /\ m_conn.up
                        THEN [m_conn EXCEPT !.in = IF m_buf = "request" THEN m_req ELSE M!Garbled]
                        ELSE m_conn
           /\ m_pc' = "recv" /\ UNCHANGED <<m_master_socket, m_fds, m_retry, m_back>>
  <2>1. m_req \in Asked /\ M!Garbled \in Asked /\ m_conn \in Conns
    BY <1>1 DEF MasterTypes, Asked
  <2>2. /\ m_conn' \in Conns /\ m_conn'.up = m_conn.up /\ m_conn'.out = m_conn.out
        /\ m_conn'.session = m_conn.session
        /\ \/ m_conn'.in = m_conn.in
           \/ m_master_socket /\ m_conn.up /\ m_conn'.in \in {m_req, M!Garbled}
    BY <1>5, <2>1 DEF Conns
  <2>3. AnswersAt' = AnswersAt
    BY <2>2 DEF AnswersAt, IsAnswer
  <2>4. MasterTypes'
    BY <1>1, <1>2, <1>5, <2>2 DEF MasterTypes
  <2>5. m_runs + m_retry <= SendRetries /\ m_req # M!NoMessage
    BY <1>1, <1>2 DEF CommandInv
  <2>6. CommandInv'
    <3>1. m_runs + m_retry <= SendRetries + 1
      BY ONLY <1>1, <2>5, MasterNumbers
    <3> QED BY <1>2, <1>5, <2>5, <3>1 DEF CommandInv
  <2>7. SocketInv'
    BY <1>1, <1>2, <1>5 DEF SocketInv, M!SocketsAccountedFor
  <2>8. ConnInv'
    <3>1. ~m_conn'.up => m_conn'.in = M!NoMessage
      BY <1>3, <2>2
    <3>2. m_conn'.in # M!NoMessage =>
            /\ m_pc' = "recv" /\ m_master_socket' /\ m_conn'.in \in {m_req', M!Garbled}
            /\ m_runs' + m_retry' <= SendRetries /\ AnswersAt' = {}
      BY <1>2, <1>3, <1>5, <2>2, <2>3, <2>5
    <3>3. m_master_socket' => AnswersAt' = {}
      BY <1>3, <1>5, <2>3
    <3>4. \A j, k \in AnswersAt' : j = k
      BY <1>1, <2>3 DEF ConnInv
    <3> QED BY <1>5, <3>1, <3>2, <3>3, <3>4 DEF ConnInv
  <2>9. SessionInv'
    BY <1>1, <1>2, <1>5 DEF SessionInv
  <2> QED BY <2>4, <2>6, <2>7, <2>8, <2>9 DEF MasterInv
<1> QED BY <1>4, <1>5 DEF M!Send

\* The command returns.
LEMMA ReturnStep ==
  ASSUME MasterInv, NEW ret, M!Return(ret), m_pc \in {"recv", "give up"},
         m_conn' \in Conns, m_conn'.in = M!NoMessage,
         m_master_socket => AnswersAt' = {}, \A j, k \in AnswersAt' : j = k,
         UNCHANGED <<m_master_socket, m_session_id, m_fds, m_sessions, m_lost, m_forgets>>
  PROVE  MasterInv'
<1>1. MasterTypes /\ SocketInv /\ SessionInv
  BY DEF MasterInv
<1>2. /\ m_pc' = "idle" /\ m_req' = M!NoMessage /\ m_retry' = 0 /\ m_back' = "idle"
      /\ m_runs' = 0 /\ m_st' = "none"
  BY DEF M!Return
<1>3. MasterTypes'
  BY <1>1, <1>2 DEF MasterTypes
<1>4. CommandInv'
  BY <1>2 DEF CommandInv
<1>5. SocketInv'
  BY <1>1, <1>2 DEF SocketInv, M!SocketsAccountedFor
<1>6. ConnInv'
  BY <1>2 DEF ConnInv
<1>7. SessionInv'
  BY <1>1, <1>2 DEF SessionInv
<1> QED BY <1>3, <1>4, <1>5, <1>6, <1>7 DEF MasterInv

\* The answer is read, or the attempt has failed.
LEMMA RecvStep ==
  ASSUME MasterInv, M!Recv
  PROVE  MasterInv'
<1>1. MasterTypes /\ ConnInv
  BY DEF MasterInv
<1>2. m_pc = "recv" /\ UNCHANGED <<m_session_id, m_sessions, m_lost, m_forgets>>
  BY DEF M!Recv
<1>3. CASE /\ m_master_socket /\ M!Arrived /\ M!Return(M!Outcome)
           /\ m_conn' = [m_conn EXCEPT !.out = M!Rest] /\ UNCHANGED <<m_master_socket, m_fds>>
  <2>1. m_conn' \in Conns /\ m_conn'.in = M!NoMessage /\ AnswersAt' = {}
    BY <1>1, <1>3, ReadFrom
  <2> QED BY <1>2, <1>3, <2>1, ReturnStep
<1>4. CASE /\ ~m_master_socket \/ M!Broken
           /\ M!Again /\ UNCHANGED <<m_conn, m_req, m_runs, m_st>>
  <2>1. m_conn.in = M!NoMessage
    BY <1>1, <1>2, <1>4 DEF ConnInv, M!Broken
  <2> QED BY <1>2, <1>4, <2>1, AgainStep
<1> QED BY <1>3, <1>4 DEF M!Recv

\* SendAndReceive returns NULL.
LEMMA GiveUpStep ==
  ASSUME MasterInv, M!GiveUp
  PROVE  MasterInv'
<1>1. MasterTypes /\ ConnInv
  BY DEF MasterInv
<1>2. /\ m_pc = "give up" /\ M!Return("ERROR_IO")
      /\ UNCHANGED <<m_master_socket, m_session_id, m_fds, m_conn, m_sessions, m_lost, m_forgets>>
  BY DEF M!GiveUp
<1>3. AnswersAt' = AnswersAt
  BY <1>2 DEF AnswersAt, IsAnswer
<1>4. /\ m_conn' \in Conns /\ m_conn'.in = M!NoMessage /\ (m_master_socket => AnswersAt' = {})
      /\ \A j, k \in AnswersAt' : j = k
  BY <1>1, <1>2, <1>3 DEF ConnInv, MasterTypes
<1> QED BY <1>2, <1>4, ReturnStep
-----------------------------------------------------------------------------
\* Where the client is when the master serves what it sent.
LEMMA Served ==
  ASSUME MasterInv, m_conn.in.cmd # "none"
  PROVE  \/ /\ m_conn.in.cmd \in {"NEWSESSION", "RECONNECT"} /\ m_pc = "register"
            /\ m_conn.in = M!BuildRegister /\ m_conn.out = <<>> /\ m_conn.session = 0
         \/ /\ m_conn.in.cmd \in M!Cmds \cup {"garbled"} /\ m_pc = "recv" /\ m_master_socket
            /\ m_conn.in = M!Garbled \/ (m_conn.in = m_req /\ m_req \in M!Request)
            /\ m_runs + m_retry <= SendRetries /\ AnswersAt = {}
<1>1. MasterTypes /\ ConnInv
  BY DEF MasterInv
<1>2. m_conn.in # M!NoMessage
  BY Messages
<1>3. CASE m_pc = "register" /\ m_conn.in = M!BuildRegister
  BY <1>1, <1>2, <1>3, Messages DEF ConnInv
<1>4. CASE m_pc = "recv" /\ m_conn.in \in {m_req, M!Garbled}
  <2>1. m_conn.in = M!Garbled \/ (m_conn.in = m_req /\ m_req \in M!Request)
    BY <1>1, <1>2, <1>4 DEF MasterTypes
  <2>2. m_conn.in.cmd \in M!Cmds \cup {"garbled"}
    BY <2>1, Messages
  <2> QED BY <1>1, <1>2, <1>4, <2>1, <2>2 DEF ConnInv
<1> QED BY <1>1, <1>2, <1>3, <1>4 DEF ConnInv

\* One more message is on its way to the client.
LEMMA Appended ==
  ASSUME MasterTypes, NEW m \in Replies \cup {M!NOP, M!Cut}, m_conn'.out = Append(m_conn.out, m)
  PROVE  /\ m_conn'.out \in Seq(Replies \cup {M!NOP, M!Cut})
         /\ AnswersAt' = AnswersAt \cup (IF IsAnswer(m) THEN {Len(m_conn.out) + 1} ELSE {})
         /\ \A k \in AnswersAt : m_conn'.out[k] = m_conn.out[k]
         /\ m_conn'.out[Len(m_conn.out) + 1] = m
<1> DEFINE out == m_conn.out
<1>1. out \in Seq(Replies \cup {M!NOP, M!Cut})
  BY DEF MasterTypes, Conns
<1>2. /\ m_conn'.out \in Seq(Replies \cup {M!NOP, M!Cut})
      /\ DOMAIN m_conn'.out = 1 .. Len(out) + 1 /\ DOMAIN out = 1 .. Len(out)
      /\ \A k \in 1 .. Len(out) : m_conn'.out[k] = out[k]
      /\ m_conn'.out[Len(out) + 1] = m /\ Len(out) \in Nat
  BY <1>1
<1>3. AnswersAt' = {k \in DOMAIN m_conn'.out : IsAnswer(m_conn'.out[k])}
  BY DEF AnswersAt, IsAnswer
<1>4. AnswersAt = {k \in DOMAIN out : IsAnswer(out[k])}
  BY DEF AnswersAt
<1> HIDE DEF out
<1>5. \A k : k \in AnswersAt' <=> k \in AnswersAt \/ (k = Len(out) + 1 /\ IsAnswer(m))
  BY ONLY <1>2, <1>3, <1>4
<1>6. \A k \in AnswersAt : m_conn'.out[k] = out[k]
  BY ONLY <1>2, <1>4
<1>7. AnswersAt' = AnswersAt \cup (IF IsAnswer(m) THEN {Len(out) + 1} ELSE {})
  BY ONLY <1>5
<1> QED BY ONLY <1>2, <1>6, <1>7 DEF out

\* A session is made for a client that has none.
LEMMA ServeRegisterStep ==
  ASSUME MasterInv, M!ServeRegister
  PROVE  MasterInv'
<1> DEFINE s == IF m_conn.in.cmd = "NEWSESSION" THEN M!Cardinality(m_sessions) + m_forgets + 1
                ELSE IF m_conn.in.session \in m_sessions THEN m_conn.in.session ELSE 0
           new == m_conn.in.cmd = "NEWSESSION"
           a == M!Answer("REGISTER", s)
<1>1. MasterTypes /\ CommandInv /\ SocketInv /\ ConnInv /\ SessionInv
  BY DEF MasterInv
<1>2. /\ m_sessions' = IF new THEN m_sessions \cup {s} ELSE m_sessions
      /\ m_conn' = [m_conn EXCEPT !.in = M!NoMessage, !.session = s, !.out = Append(@, a)]
      /\ UNCHANGED <<m_master_socket, m_session_id, m_pc, m_back, m_retry, m_req, m_fds, m_runs,
                     m_st, m_lost, m_forgets>>
  BY DEF M!ServeRegister, M!client
<1>3. /\ m_pc = "register" /\ m_conn.in = M!BuildRegister /\ m_conn.out = <<>>
      /\ m_conn.session = 0
  <2>1. m_conn.in.cmd \in {"NEWSESSION", "RECONNECT"}
    BY DEF M!ServeRegister
  <2>2. "NEWSESSION" \notin M!Cmds /\ "RECONNECT" \notin M!Cmds
    BY DEF M!Cmds
  <2> QED BY <2>1, <2>2, Served
<1>4. new <=> m_session_id = 0
  BY <1>3, Messages
<1>5. /\ m_forgets \in Nat /\ m_lost \in Nat /\ Cardinality(m_sessions) \in Nat
      /\ IsFiniteSet(m_sessions) /\ m_sessions \subseteq Nat
  BY <1>1, MasterNumbers DEF MasterTypes
<1>6. /\ s \in Nat /\ (new => s # 0)
  <2>1. CASE new
    <3>1. s = Cardinality(m_sessions) + m_forgets + 1
      BY <2>1, SameCardinality
    <3> HIDE DEF s
    <3> QED BY ONLY <1>5, <3>1
  <2>2. CASE ~new
    BY <1>5, <2>2
  <2> QED BY <2>1, <2>2
<1>7. m_sessions' \subseteq Nat /\ IsFiniteSet(m_sessions')
      /\ Cardinality(m_sessions') <= Cardinality(m_sessions) + (IF new THEN 1 ELSE 0)
      /\ Cardinality(m_sessions') \in Nat
  <2> HIDE DEF s, new
  <2>1. CASE new
    <3>1. m_sessions' = m_sessions \cup {s}
      BY <1>2, <2>1
    <3>2. /\ IsFiniteSet(m_sessions')
          /\ \/ Cardinality(m_sessions') = Cardinality(m_sessions)
             \/ Cardinality(m_sessions') = Cardinality(m_sessions) + 1
      BY <1>5, <3>1, FS_AddElement
    <3>3. m_sessions' \subseteq Nat
      BY <1>5, <1>6, <3>1
    <3> QED BY <1>5, <2>1, <3>2, <3>3
  <2>2. CASE ~new
    BY <1>2, <1>5, <2>2
  <2> QED BY <2>1, <2>2
<1>8. a \in Replies /\ IsAnswer(a) /\ a.value = s
  <2>1. a \in [cmd : {"REGISTER"}, value : Nat]
    BY <1>6 DEF M!Answer
  <2> QED BY <2>1, Messages DEF Replies
<1> HIDE DEF s, a, new
<1>9. m_conn \in Conns /\ M!NoMessage \in Asked
  BY <1>1 DEF MasterTypes, Asked
<1>10. m_conn'.out = Append(m_conn.out, a)
  BY <1>2, <1>9 DEF Conns
<1>11. /\ m_conn'.out \in Seq(Replies \cup {M!NOP, M!Cut}) /\ AnswersAt' = {1} /\ m_conn'.out[1] = a
  <2>1. AnswersAt = {} /\ Len(m_conn.out) + 1 = 1
    BY <1>3 DEF AnswersAt
  <2> QED BY <1>1, <1>8, <1>10, <2>1, Appended
<1>12. /\ m_conn' \in Conns /\ m_conn'.up = m_conn.up /\ m_conn'.session = s
       /\ m_conn'.in = M!NoMessage
  <2>1. Append(m_conn.out, a) \in Seq(Replies \cup {M!NOP, M!Cut})
    BY <1>10, <1>11
  <2> QED BY <1>2, <1>6, <1>9, <2>1 DEF Conns
<1>13. MasterTypes'
  BY <1>1, <1>2, <1>7, <1>12 DEF MasterTypes
<1>14. CommandInv' /\ SocketInv'
  BY <1>1, <1>2 DEF CommandInv, SocketInv, M!SocketsAccountedFor
<1>15. ConnInv'
  <2>1. m_pc' = "register" /\ ~m_master_socket'
    BY <1>1, <1>2, <1>3 DEF SocketInv
  <2>2. \A k \in AnswersAt' : m_conn'.out[k].value \in Nat
                              /\ (m_session_id' = 0 => m_conn'.out[k].value # 0)
    BY <1>2, <1>4, <1>6, <1>8, <1>11
  <2> QED BY <1>11, <1>12, <2>1, <2>2 DEF ConnInv
<1>16. SessionInv'
  <2> DEFINE c == Cardinality(m_sessions)
             d == Cardinality(m_sessions')
  <2>1. m_session_id = 0 => c + m_forgets <= m_lost
    <3>1. m_session_id = 0 => c + m_forgets <= m_lost + 0
      BY <1>1, <1>3 DEF SessionInv
    <3> HIDE DEF c
    <3> QED BY ONLY <1>5, <3>1
  <2>2. m_session_id # 0 => c + m_forgets <= m_lost + 1
    BY <1>1 DEF SessionInv
  <2>3. c \in Nat /\ d \in Nat /\ (new => d <= c + 1) /\ (~new => d <= c)
    BY <1>2, <1>5, <1>7
  <2> HIDE DEF c, d
  <2>4. d + m_forgets <= m_lost + 1
    BY ONLY <1>4, <1>5, <2>1, <2>2, <2>3
  <2>5. m_session_id' # 0 \/ (m_pc' = "register" /\ m_conn'.session # 0)
    BY <1>2, <1>3, <1>4, <1>6, <1>12
  <2> QED BY <1>2, <2>4, <2>5 DEF SessionInv, d
<1> QED BY <1>13, <1>14, <1>15, <1>16 DEF MasterInv

\* The command is carried out once for each time it was sent.
LEMMA ServeCommandStep ==
  ASSUME MasterInv, M!ServeCommand
  PROVE  MasterInv'
<1> DEFINE status == M!StatusOf(m_names, m_conn.in)
           a == M!Answer(m_conn.in.cmd, status)
<1>1. MasterTypes /\ CommandInv /\ SocketInv /\ ConnInv /\ SessionInv
  BY DEF MasterInv
<1>2. UNCHANGED <<m_master_socket, m_session_id, m_pc, m_back, m_retry, m_req, m_fds, m_sessions,
                  m_lost, m_forgets>>
  BY DEF M!ServeCommand, M!client
<1>3. /\ m_pc = "recv" /\ m_master_socket
      /\ m_conn.in = M!Garbled \/ (m_conn.in = m_req /\ m_req \in M!Request)
      /\ m_runs + m_retry <= SendRetries /\ AnswersAt = {}
  <2>1. m_conn.in.cmd \in M!Cmds \cup {"garbled"}
    BY DEF M!ServeCommand
  <2>2. m_conn.in.cmd \notin {"none", "NEWSESSION", "RECONNECT"}
    BY <2>1 DEF M!Cmds
  <2> QED BY <2>2, Served
<1>4. m_conn \in Conns /\ M!NoMessage \in Asked /\ m_req # M!NoMessage
  BY <1>1, <1>3 DEF MasterTypes, Asked, CommandInv
<1>5. SocketInv'
  BY <1>1, <1>2 DEF SocketInv, M!SocketsAccountedFor
<1>6. SessionInv'
  BY <1>1, <1>2, <1>3 DEF SessionInv
<1>7. CASE /\ m_conn' = [m_conn EXCEPT !.in = M!NoMessage, !.up = FALSE]
           /\ UNCHANGED <<m_runs, m_st>>
  <2>1. /\ m_conn' \in Conns /\ m_conn'.in = M!NoMessage /\ m_conn'.out = m_conn.out
        /\ m_conn'.session = m_conn.session
    BY <1>4, <1>7 DEF Conns
  <2>2. AnswersAt' = {}
    BY <1>3, <2>1 DEF AnswersAt, IsAnswer
  <2>3. MasterTypes' /\ CommandInv'
    BY <1>1, <1>2, <1>7, <2>1 DEF MasterTypes, CommandInv
  <2>4. ConnInv'
    BY <1>2, <1>3, <2>1, <2>2 DEF ConnInv
  <2> QED BY <1>5, <1>6, <2>3, <2>4 DEF MasterInv
<1>8. CASE /\ m_conn.in # M!Garbled
           /\ m_conn' = [m_conn EXCEPT !.in = M!NoMessage, !.out = Append(@, a)]
           /\ m_runs' = m_runs + 1 /\ m_st' = status
  <2>1. m_conn.in = m_req /\ m_req \in M!Request
    BY <1>3, <1>8
  <2>2. a \in Replies /\ IsAnswer(a) /\ a = M!Answer(m_req.cmd, m_st')
    <3>1. status \in Statuses
      BY DEF M!StatusOf, Statuses
    <3>2. m_conn.in.cmd \in M!Cmds
      BY <2>1, Messages
    <3>3. a \in [cmd : M!Cmds, value : Statuses]
      BY <3>1, <3>2 DEF M!Answer
    <3> QED BY <1>8, <2>1, <3>3, Messages DEF Replies
  <2> HIDE DEF a
  <2>3. m_conn'.out = Append(m_conn.out, a)
    BY <1>4, <1>8 DEF Conns
  <2> DEFINE k == Len(m_conn.out) + 1
  <2>4. /\ m_conn'.out \in Seq(Replies \cup {M!NOP, M!Cut})
        /\ AnswersAt' = {k} /\ m_conn'.out[k] = a
    BY <1>1, <1>3, <2>2, <2>3, Appended
  <2>5. m_conn' \in Conns /\ m_conn'.in = M!NoMessage
    <3>1. Append(m_conn.out, a) \in Seq(Replies \cup {M!NOP, M!Cut})
      BY <2>3, <2>4
    <3> QED BY <1>4, <1>8, <3>1 DEF Conns
  <2>6. m_runs \in Nat /\ m_retry \in Nat /\ SendRetries \in Nat
    BY ONLY <1>1, MasterNumbers
  <2>7. m_runs' \in Nat /\ m_runs' > 0 /\ m_runs' + m_retry <= SendRetries + 1
    <3>1. m_runs' = m_runs + 1 /\ m_runs + m_retry <= SendRetries
      BY <1>3, <1>8
    <3> QED BY ONLY <2>6, <3>1
  <2>8. MasterTypes'
    BY <1>1, <1>2, <2>5, <2>7 DEF MasterTypes
  <2>9. CommandInv'
    BY <1>1, <1>2, <1>3, <1>4, <2>7 DEF CommandInv
  <2> HIDE DEF k
  <2>10. ConnInv'
    BY <1>2, <1>3, <2>2, <2>4, <2>5, <2>7 DEF ConnInv
  <2> QED BY <1>5, <1>6, <2>8, <2>9, <2>10 DEF MasterInv
<1> QED BY <1>7, <1>8 DEF M!ServeCommand

\* The connection changes, and answers get lost at most.
LEMMA ConnOnly ==
  ASSUME MasterInv, m_conn' \in Conns, m_conn'.session = m_conn.session,
         m_conn'.in = M!NoMessage \/ (m_conn'.in = m_conn.in /\ m_pc # "register"),
         m_conn'.up \/ m_conn'.in = M!NoMessage,
         AnswersAt' \subseteq AnswersAt, \A k \in AnswersAt' : m_conn'.out[k] = m_conn.out[k],
         UNCHANGED <<m_master_socket, m_session_id, m_pc, m_back, m_retry, m_req, m_fds,
                     m_sessions, m_runs, m_st, m_lost, m_forgets>>
  PROVE  MasterInv'
<1>1. MasterTypes /\ CommandInv /\ SocketInv /\ ConnInv /\ SessionInv
  BY DEF MasterInv
<1>2. MasterTypes' /\ CommandInv'
  BY <1>1 DEF MasterTypes, CommandInv
<1>3. SocketInv' /\ SessionInv'
  BY <1>1 DEF SocketInv, M!SocketsAccountedFor, SessionInv
<1>4. ConnInv'
  <2>1. m_conn'.in # M!NoMessage =>
          /\ m_pc = "recv" /\ m_master_socket /\ m_conn'.in \in {m_req, M!Garbled}
          /\ m_runs + m_retry <= SendRetries /\ AnswersAt' = {}
    BY <1>1 DEF ConnInv
  <2>2. \A j, k \in AnswersAt' : j = k
    BY <1>1 DEF ConnInv
  <2>3. m_pc = "register" => \A k \in AnswersAt' :
          m_conn'.out[k].value \in Nat /\ (m_session_id = 0 => m_conn'.out[k].value # 0)
    BY <1>1 DEF ConnInv
  <2>4. m_pc = "recv" /\ m_master_socket =>
          \A k \in AnswersAt' : m_conn'.out[k] = M!Answer(m_req.cmd, m_st) /\ m_runs > 0
    BY <1>1 DEF ConnInv
  <2>5. m_master_socket /\ m_pc # "recv" => AnswersAt' = {}
    BY <1>1 DEF ConnInv
  <2> QED BY <2>1, <2>2, <2>3, <2>4, <2>5 DEF ConnInv
<1> QED BY <1>2, <1>3, <1>4 DEF MasterInv

\* The connection goes down: what was not read is cut off.
LEMMA BreakStep ==
  ASSUME MasterInv, M!Break
  PROVE  MasterInv'
<1>1. MasterTypes
  BY DEF MasterInv
<1>2. UNCHANGED <<m_master_socket, m_session_id, m_pc, m_back, m_retry, m_req, m_fds, m_sessions,
                  m_runs, m_st, m_lost, m_forgets>>
  BY DEF M!Break, M!client, M!master
<1>3. PICK n \in 0 .. Len(m_conn.out), cut \in {<<>>, <<M!Cut>>} :
        m_conn' = [m_conn EXCEPT !.up = FALSE, !.in = M!NoMessage,
                                 !.out = SubSeq(@, 1, n) \o cut]
  BY DEF M!Break
<1> DEFINE out == m_conn.out
           new == SubSeq(out, 1, n) \o cut
<1>4. /\ m_conn \in Conns /\ M!NoMessage \in Asked
      /\ out \in Seq(Replies \cup {M!NOP, M!Cut}) /\ Len(out) \in Nat
  <2>1. m_conn \in Conns
    BY <1>1 DEF MasterTypes
  <2>2. M!NoMessage \in Asked
    BY DEF Asked
  <2>3. out \in Seq(Replies \cup {M!NOP, M!Cut})
    BY <2>1 DEF Conns
  <2> QED BY <2>1, <2>2, <2>3
<1>5. /\ SubSeq(out, 1, n) \in Seq(Replies \cup {M!NOP, M!Cut}) /\ Len(SubSeq(out, 1, n)) = n
      /\ \A k \in 1 .. n : SubSeq(out, 1, n)[k] = out[k]
  BY <1>4
<1>6. cut \in Seq(Replies \cup {M!NOP, M!Cut}) /\ (\A k \in 1 .. Len(cut) : cut[k] = M!Cut)
  <2>1. CASE cut = <<>>
    BY <2>1
  <2>2. CASE cut = <<M!Cut>>
    <3>1. M!Cut \in Replies \cup {M!NOP, M!Cut}
      OBVIOUS
    <3>2. cut \in Seq(Replies \cup {M!NOP, M!Cut})
      BY <2>2, <3>1
    <3>3. Len(cut) = 1 /\ cut[1] = M!Cut
      BY <2>2
    <3> QED BY <3>2, <3>3
  <2> QED BY <2>1, <2>2
<1>7. /\ new \in Seq(Replies \cup {M!NOP, M!Cut}) /\ Len(new) = n + Len(cut)
      /\ \A k \in 1 .. n : new[k] = out[k]
      /\ \A k \in 1 .. Len(new) : k > n => new[k] = M!Cut
  <2> DEFINE first == SubSeq(out, 1, n)
  <2> HIDE DEF first, out
  <2>1. /\ first \o cut \in Seq(Replies \cup {M!NOP, M!Cut})
        /\ Len(first \o cut) = n + Len(cut)
        /\ \A k \in 1 .. n : (first \o cut)[k] = first[k]
        /\ \A k \in n + 1 .. n + Len(cut) : (first \o cut)[k] = cut[k - n]
    BY <1>5, <1>6 DEF first
  <2>2. Len(cut) \in Nat /\ n \in Nat
    BY <1>4, <1>6
  <2>3. \A k \in 1 .. n + Len(cut) : k > n => k - n \in 1 .. Len(cut) /\ k \in n + 1 .. n + Len(cut)
    BY ONLY <2>2
  <2>4. \A k \in 1 .. Len(first \o cut) : k > n => (first \o cut)[k] = M!Cut
    BY ONLY <1>6, <2>1, <2>3
  <2>5. \A k \in 1 .. n : (first \o cut)[k] = out[k]
    BY <1>5, <2>1 DEF first
  <2> QED BY <2>1, <2>4, <2>5 DEF first
<1> HIDE DEF new
<1>8. /\ m_conn' \in Conns /\ m_conn'.in = M!NoMessage /\ m_conn'.out = new
      /\ m_conn'.session = m_conn.session
  BY <1>3, <1>4, <1>7 DEF Conns, new
<1>9. ASSUME NEW k \in AnswersAt' PROVE k \in AnswersAt /\ m_conn'.out[k] = m_conn.out[k]
  <2>1. k \in 1 .. Len(new) /\ IsAnswer(new[k])
    BY <1>7, <1>8 DEF AnswersAt, IsAnswer
  <2>2. ~(k > n)
    BY <1>7, <2>1 DEF IsAnswer
  <2>3. k \in 1 .. n /\ k \in DOMAIN out
    BY <1>4, <1>7, <2>1, <2>2
  <2> QED BY <1>7, <1>8, <2>1, <2>3 DEF AnswersAt
<1> QED BY <1>2, <1>8, <1>9, ConnOnly

\* A NOP is no answer.
LEMMA SendNopStep ==
  ASSUME MasterInv, M!SendNop
  PROVE  MasterInv'
<1>1. MasterTypes /\ ConnInv
  BY DEF MasterInv
<1>2. /\ m_conn.up /\ m_conn.session # 0 /\ m_conn' = [m_conn EXCEPT !.out = Append(@, M!NOP)]
      /\ UNCHANGED <<m_master_socket, m_session_id, m_pc, m_back, m_retry, m_req, m_fds,
                     m_sessions, m_runs, m_st, m_lost, m_forgets>>
  BY DEF M!SendNop, M!client, M!master
<1>3. m_conn \in Conns
  BY <1>1 DEF MasterTypes
<1>4. m_conn'.out = Append(m_conn.out, M!NOP)
  BY <1>2, <1>3 DEF Conns
<1>5. /\ m_conn'.out \in Seq(Replies \cup {M!NOP, M!Cut})
      /\ AnswersAt' = AnswersAt /\ \A k \in AnswersAt : m_conn'.out[k] = m_conn.out[k]
  <2>1. ~IsAnswer(M!NOP)
    BY DEF IsAnswer
  <2> QED BY <1>1, <1>4, <2>1, Appended
<1>6. /\ m_conn' \in Conns /\ m_conn'.up = m_conn.up /\ m_conn'.in = m_conn.in
      /\ m_conn'.session = m_conn.session
  <2>1. Append(m_conn.out, M!NOP) \in Seq(Replies \cup {M!NOP, M!Cut})
    BY <1>4, <1>5
  <2> QED BY <1>2, <1>3, <2>1 DEF Conns
<1>7. m_conn'.in = M!NoMessage \/ (m_conn'.in = m_conn.in /\ m_pc # "register")
  BY <1>1, <1>2, <1>6 DEF ConnInv
<1> QED BY <1>2, <1>5, <1>6, <1>7, ConnOnly

\* A session expires.
LEMMA ForgetStep ==
  ASSUME MasterInv, M!Forget
  PROVE  MasterInv'
<1>1. MasterTypes /\ CommandInv /\ SocketInv /\ ConnInv /\ SessionInv
  BY DEF MasterInv
<1>2. /\ m_forgets' = m_forgets + 1
      /\ UNCHANGED <<m_master_socket, m_session_id, m_pc, m_back, m_retry, m_req, m_fds, m_conn,
                     m_runs, m_st, m_lost>>
  BY DEF M!Forget, M!client
<1>3. PICK s \in m_sessions : m_sessions' = m_sessions \ {s}
  BY DEF M!Forget
<1>4. IsFiniteSet(m_sessions) /\ m_sessions \subseteq Nat
  BY <1>1 DEF MasterTypes
<1>5. /\ IsFiniteSet(m_sessions') /\ m_sessions' \subseteq Nat
      /\ Cardinality(m_sessions') = Cardinality(m_sessions) - 1
  BY <1>3, <1>4, FS_RemoveElement
<1>6. Cardinality(m_sessions) \in Nat /\ m_forgets \in Nat /\ m_lost \in Nat
  BY ONLY <1>1, MasterNumbers
<1>7. /\ m_forgets' \in Nat
      /\ Cardinality(m_sessions') + m_forgets' = Cardinality(m_sessions) + m_forgets
  <2> DEFINE c == Cardinality(m_sessions)
             d == Cardinality(m_sessions')
  <2>1. c \in Nat /\ d = c - 1
    BY <1>5, <1>6
  <2> HIDE DEF c, d
  <2>2. m_forgets' \in Nat /\ d + m_forgets' = c + m_forgets
    BY ONLY <1>2, <1>6, <2>1
  <2> QED BY <2>2 DEF c, d
<1>8. MasterTypes' /\ CommandInv' /\ SocketInv'
  BY <1>1, <1>2, <1>5, <1>7 DEF MasterTypes, CommandInv, SocketInv, M!SocketsAccountedFor
<1>9. ConnInv'
  <2>1. AnswersAt' = AnswersAt /\ M!BuildRegister' = M!BuildRegister
    BY <1>2 DEF AnswersAt, IsAnswer, M!BuildRegister
  <2> QED BY <1>1, <1>2, <2>1 DEF ConnInv
<1>10. SessionInv'
  BY <1>1, <1>2, <1>7 DEF SessionInv
<1> QED BY <1>8, <1>9, <1>10 DEF MasterInv
-----------------------------------------------------------------------------
\* It holds at first.
LEMMA MasterStarts ==
  ASSUME M!Init
  PROVE  MasterInv
<1>1. m_conn = [up |-> FALSE, session |-> 0, in |-> M!NoMessage, out |-> <<>>]
  BY DEF M!Init, M!NoConn
<1>2. /\ m_conn \in Conns /\ m_conn.in = M!NoMessage /\ m_conn.out = <<>>
  BY <1>1 DEF Conns, Asked
<1>3. AnswersAt = {}
  BY <1>2 DEF AnswersAt
<1>4. m_sessions = {} /\ IsFiniteSet({}) /\ Cardinality({}) = 0
  BY FS_EmptySet DEF M!Init
<1>5. MasterTypes
  <2>1. /\ m_session_id = 0 /\ m_fds = 0 /\ m_retry = 0 /\ m_runs = 0 /\ m_lost = 0
        /\ m_forgets = 0 /\ m_master_socket = FALSE /\ m_req = M!NoMessage
        /\ m_pc = "idle" /\ m_back = "idle"
    BY DEF M!Init
  <2>2. /\ m_session_id \in Nat /\ m_fds \in Int /\ m_retry \in Nat /\ m_runs \in Nat
        /\ m_lost \in Nat /\ m_forgets \in Nat
    BY ONLY <2>1
  <2>3. /\ m_master_socket \in BOOLEAN /\ m_req \in M!Request \cup {M!NoMessage}
        /\ m_pc \in {"idle", "connect", "register", "send", "recv", "give up"}
        /\ m_back \in {"idle", "send", "give up"}
    BY <2>1
  <2> QED BY <1>2, <1>4, <2>2, <2>3 DEF MasterTypes
<1>6. CommandInv
  BY DEF M!Init, CommandInv
<1>7. SocketInv
  BY DEF M!Init, SocketInv, M!SocketsAccountedFor
<1>8. ConnInv
  BY <1>2, <1>3 DEF M!Init, ConnInv
<1>9. SessionInv
  BY <1>4 DEF M!Init, SessionInv
<1> QED BY <1>5, <1>6, <1>7, <1>8, <1>9 DEF MasterInv

\* Every command is a call of a request.
LEMMA CommandCalls ==
  ASSUME NEW n \in Names, M!Command(n)
  PROVE  \E r \in M!Request : M!Call(r)
<1>1. PICK c \in M!Cmds : M!Call([cmd |-> c, name |-> n])
  BY DEF M!Command, M!Lookup, M!GetAttr, M!Truncate, M!Access, M!Open, M!Mknod, M!Mkdir, M!Rmdir,
         M!Unlink, M!ReadChunk, M!WriteChunk, M!WriteChunkEnd, M!Cmds
<1>2. [cmd |-> c, name |-> n] \in M!Request
  BY DEF M!Request
<1> QED BY <1>1, <1>2

\* Every step keeps the invariant.
LEMMA MasterStep ==
  ASSUME MasterInv, M!Next \/ UNCHANGED m_vars
  PROVE  MasterInv'
<1>1. CASE UNCHANGED m_vars
  <2>1. /\ m_conn' = m_conn
        /\ UNCHANGED <<m_master_socket, m_session_id, m_pc, m_back, m_retry, m_req, m_fds,
                       m_sessions, m_runs, m_st, m_lost, m_forgets>>
    BY <1>1 DEF m_vars
  <2>2. MasterTypes /\ CommandInv /\ SocketInv /\ ConnInv /\ SessionInv
    BY DEF MasterInv
  <2>3. AnswersAt' = AnswersAt /\ M!BuildRegister' = M!BuildRegister
    BY <2>1 DEF AnswersAt, IsAnswer, M!BuildRegister
  <2>4. MasterTypes' /\ CommandInv' /\ SocketInv'
    BY <2>1, <2>2 DEF MasterTypes, CommandInv, SocketInv, M!SocketsAccountedFor
  <2>5. ConnInv' /\ SessionInv'
    BY <2>1, <2>2, <2>3 DEF ConnInv, SessionInv
  <2> QED BY <2>4, <2>5 DEF MasterInv
<1>2. CASE \E n \in Names : M!Command(n)
  BY <1>2, CommandCalls, CallStep
<1>3. CASE M!ClientStep
  BY <1>3, DialStep, RegisterStep, SendStep, RecvStep, GiveUpStep DEF M!ClientStep
<1>4. CASE M!Serve
  BY <1>4, ServeRegisterStep, ServeCommandStep DEF M!Serve
<1>5. CASE M!Connect \/ M!Break \/ M!SendNop \/ M!Forget
  BY <1>5, ConnectStep, BreakStep, SendNopStep, ForgetStep
<1> QED BY <1>1, <1>2, <1>3, <1>4, <1>5 DEF M!Next

\* The invariant of the master connection.
LEMMA MasterInvariant == Spec => []MasterInv
<1>1. Init => MasterInv
  BY MasterStarts DEF Init
<1>2. MasterInv /\ [Next]_all => MasterInv'
  BY MasterStep, PartStep
<1> QED BY <1>1, <1>2, PTL DEF Spec, all
-----------------------------------------------------------------------------
(***************************************************************************)
(* The refinement: the call of RemoteCall is the command in progress.      *)
(***************************************************************************)
InCall == IF m_req = M!NoMessage THEN [req |-> M!NoMessage, runs |-> 0, st |-> "none"]
          ELSE [req |-> m_req, runs |-> m_runs, st |-> m_st]
promise == <<m_names, InCall, m_result>>

\* The operators of MooseCommands are the same seen from either module.
LEMMA SameCommands ==
  /\ M!Promise!NoMessage = M!NoMessage /\ M!Promise!Request = M!Request
  /\ \A ns, r : /\ M!Promise!StatusOf(ns, r) = M!StatusOf(ns, r)
                /\ M!Promise!NamesAfter(ns, r) = M!NamesAfter(ns, r)
  /\ \A r, s : M!Promise!Returned(r, s) = M!Returned(r, s)
<1>1. M!Promise!NoMessage = M!NoMessage /\ M!Promise!Request = M!Request
  BY DEF M!Promise!NoMessage, M!NoMessage, M!Promise!Request, M!Request, M!Promise!Cmds, M!Cmds
<1>2. ASSUME NEW ns, NEW r
      PROVE  /\ M!Promise!StatusOf(ns, r) = M!StatusOf(ns, r)
             /\ M!Promise!NamesAfter(ns, r) = M!NamesAfter(ns, r)
  BY DEF M!Promise!StatusOf, M!StatusOf, M!Promise!NamesAfter, M!NamesAfter, M!Promise!Creates,
         M!Creates, M!Promise!Removes, M!Removes
<1>3. \A r, s : M!Promise!Returned(r, s) = M!Returned(r, s)
  BY DEF M!Promise!Returned, M!Returned
<1> QED BY <1>1, <1>2, <1>3

\* A command is in progress.
LEMMA CallFacts ==
  ASSUME m_req # M!NoMessage
  PROVE  /\ InCall = [req |-> m_req, runs |-> m_runs, st |-> m_st]
         /\ InCall.req = m_req /\ InCall.runs = m_runs /\ InCall.st = m_st
         /\ InCall # M!Promise!NoCall
BY SameCommands DEF InCall, M!Promise!NoCall

\* No command is in progress.
LEMMA NoCallFacts ==
  ASSUME m_req = M!NoMessage
  PROVE  InCall = M!Promise!NoCall
BY SameCommands DEF InCall, M!Promise!NoCall

\* SendAndReceive starts: the call begins.
LEMMA CallBegins ==
  ASSUME MasterInv, NEW r \in M!Request, M!Call(r)
  PROVE  M!Promise!Next
<1>1. m_pc = "idle" /\ m_req' = r /\ UNCHANGED <<m_result, m_names, m_runs, m_st>>
  BY DEF M!Call, M!master
<1>2. m_req = M!NoMessage /\ m_runs = 0 /\ m_st = "none"
  BY <1>1 DEF MasterInv, CommandInv
<1>3. r # M!NoMessage
  BY Messages
<1>4. InCall = M!Promise!NoCall /\ InCall' = [req |-> r, runs |-> 0, st |-> "none"]
  BY <1>1, <1>2, <1>3, NoCallFacts DEF InCall
<1>5. M!Promise!Begin(r)
  BY <1>1, <1>4 DEF M!Promise!Begin, InCall
<1>6. r \in M!Promise!Request
  BY SameCommands
<1> QED BY <1>5, <1>6 DEF M!Promise!Next

\* The record of a call that was carried out once more.
LEMMA RunOf ==
  ASSUME NEW t, m_req # M!NoMessage
  PROVE  [InCall EXCEPT !.runs = @ + 1, !.st = t]
           = [req |-> m_req, runs |-> m_runs + 1, st |-> t]
<1> DEFINE m == m_runs + 1
           R == [req : {m_req}, runs : {m_runs, m}, st : {m_st, t}]
<1>1. InCall.runs = m_runs
  BY CallFacts
<1> HIDE DEF m
<1>2. InCall \in R
  BY CallFacts
<1> DEFINE d == [InCall EXCEPT !.runs = m, !.st = t]
<1>3. d \in R /\ d.req = m_req /\ d.runs = m /\ d.st = t
  BY <1>2
<1> HIDE DEF d
<1>4. d = [req |-> m_req, runs |-> m, st |-> t]
  BY <1>3
<1> QED BY <1>1, <1>4 DEF m, d

\* The master carries out the command of the call, and attempts are left.
LEMMA ServeRuns ==
  ASSUME MasterInv, M!ServeCommand
  PROVE  M!Promise!Next \/ UNCHANGED promise
<1>1. MasterTypes
  BY DEF MasterInv
<1>2. m_req' = m_req /\ m_result' = m_result
  BY DEF M!ServeCommand, M!client
<1>3. CASE UNCHANGED <<m_names, m_runs, m_st>>
  BY <1>2, <1>3 DEF promise, InCall
<1>4. CASE /\ m_conn.in # M!Garbled /\ m_names' = M!NamesAfter(m_names, m_conn.in)
           /\ m_runs' = m_runs + 1 /\ m_st' = M!StatusOf(m_names, m_conn.in)
  <2>1. m_conn.in = m_req /\ m_req \in M!Request /\ m_runs + m_retry <= SendRetries
    <3>1. m_conn.in.cmd \notin {"none", "NEWSESSION", "RECONNECT"}
      BY DEF M!ServeCommand, M!Cmds
    <3> QED BY <1>4, <3>1, Served
  <2>2. m_runs < SendRetries + 1
    <3>1. m_runs \in Nat /\ m_retry \in Nat /\ SendRetries \in Nat
      BY ONLY <1>1, MasterNumbers
    <3> QED BY ONLY <2>1, <3>1
  <2>3. m_req # M!NoMessage /\ m_req' # M!NoMessage
    BY <1>2, <2>1, Messages
  <2>4. /\ InCall = [req |-> m_req, runs |-> m_runs, st |-> m_st]
        /\ InCall' = [req |-> m_req, runs |-> m_runs + 1, st |-> M!StatusOf(m_names, m_req)]
        /\ InCall.req = m_req /\ InCall.runs = m_runs /\ InCall # M!Promise!NoCall
    BY <1>2, <1>4, <2>1, <2>3, CallFacts DEF InCall
  <2>5. /\ InCall' = [InCall EXCEPT !.runs = @ + 1,
                                    !.st = M!Promise!StatusOf(m_names, InCall.req)]
        /\ m_names' = M!Promise!NamesAfter(m_names, InCall.req)
    <3>1. /\ M!Promise!StatusOf(m_names, InCall.req) = M!StatusOf(m_names, m_req)
          /\ M!Promise!NamesAfter(m_names, InCall.req) = M!NamesAfter(m_names, m_req)
      BY <2>4, SameCommands
    <3>2. [InCall EXCEPT !.runs = @ + 1, !.st = M!Promise!StatusOf(m_names, InCall.req)]
            = [req |-> m_req, runs |-> m_runs + 1, st |-> M!StatusOf(m_names, m_req)]
      BY <2>3, <3>1, RunOf
    <3> QED BY <1>4, <2>1, <2>4, <3>1, <3>2
  <2>6. M!Promise!Run
    BY <1>2, <2>2, <2>4, <2>5 DEF M!Promise!Run, InCall
  <2> QED BY <2>6 DEF M!Promise!Next
<1> QED BY <1>3, <1>4 DEF M!ServeCommand

\* What the method returns is what the last attempt came to, or ERROR_IO.
LEMMA CallReturns ==
  ASSUME MasterInv, m_pc \in {"recv", "give up"}, NEW ret, M!Return(ret), m_names' = m_names,
         ret = "ERROR_IO" \/ (m_runs > 0 /\ ret = M!Returned(m_req, m_st))
  PROVE  M!Promise!Next
<1>1. m_req # M!NoMessage
  BY DEF MasterInv, CommandInv
<1>2. InCall' = M!Promise!NoCall
  BY SameCommands DEF M!Return, InCall, M!Promise!NoCall
<1>3. \/ m_result' = "ERROR_IO"
      \/ InCall.runs > 0 /\ m_result' = M!Promise!Returned(InCall.req, InCall.st)
  BY <1>1, CallFacts, SameCommands DEF M!Return
<1>4. M!Promise!Return
  BY <1>1, <1>2, <1>3, CallFacts DEF M!Promise!Return, InCall
<1> QED BY <1>4 DEF M!Promise!Next

\* The answer that is read is the one to the last attempt.
LEMMA RecvReturns ==
  ASSUME MasterInv, M!Recv
  PROVE  M!Promise!Next \/ UNCHANGED promise
<1>1. MasterTypes /\ ConnInv
  BY DEF MasterInv
<1>2. m_pc = "recv" /\ m_names' = m_names
  BY DEF M!Recv
<1>3. CASE m_master_socket /\ M!Arrived /\ M!Return(M!Outcome)
  <2>1. M!Received = M!Answer(m_req.cmd, m_st) /\ m_runs > 0
    BY <1>1, <1>2, <1>3, ReceivedFacts DEF ConnInv
  <2>2. M!Outcome = M!Returned(m_req, m_st)
    BY <2>1, Messages DEF M!Outcome
  <2> QED BY <1>2, <1>3, <2>1, <2>2, CallReturns
<1>4. CASE M!Again /\ UNCHANGED <<m_req, m_runs, m_st>>
  BY <1>2, <1>4 DEF M!Again, promise, InCall
<1> QED BY <1>3, <1>4 DEF M!Recv

\* Every step is one of RemoteCall, or leaves the call as it is.
LEMMA PromiseStep ==
  ASSUME MasterInv, M!Next \/ UNCHANGED m_vars
  PROVE  [M!Promise!Next]_promise
<1>1. CASE \E n \in Names : M!Command(n)
  BY <1>1, CommandCalls, CallBegins
<1>2. CASE M!Recv
  BY <1>2, RecvReturns
<1>3. CASE M!GiveUp
  <2>1. m_pc = "give up" /\ M!Return("ERROR_IO") /\ m_names' = m_names
    BY <1>3 DEF M!GiveUp
  <2> QED BY <2>1, CallReturns
<1>4. CASE M!ServeCommand
  BY <1>4, ServeRuns
<1>5. CASE M!Connect \/ M!Dial \/ M!Register \/ M!Send \/ M!ServeRegister \/ M!Break
           \/ M!SendNop \/ M!Forget \/ UNCHANGED m_vars
  <2>1. UNCHANGED <<m_names, m_req, m_runs, m_st, m_result>>
    BY <1>5 DEF M!Connect, M!Dial, M!Register, M!Send, M!Again, M!ServeRegister, M!Break,
                M!SendNop, M!Forget, m_vars, M!client, M!master
  <2> QED BY <2>1 DEF promise, InCall
<1> QED BY <1>1, <1>2, <1>3, <1>4, <1>5 DEF M!Next, M!ClientStep, M!Serve

(***************************************************************************)
(* SendAndReceive keeps the promise of RemoteCall, for any number of       *)
(* attempts and whatever happens to the connections: a command is carried  *)
(* out at most once for each attempt and only while its call lasts, and    *)
(* the caller is told what the last attempt came to, or ERROR_IO.          *)
(***************************************************************************)
THEOREM RemoteCallTheorem == Spec => ImplementsRemoteCall
<1>1. Init => M!Promise!Init
  BY SameCommands, NoCallFacts DEF Init, M!Init, M!Promise!Init, InCall
<1>2. MasterInv /\ [Next]_all => [M!Promise!Next]_promise
  BY PromiseStep, PartStep
<1>3. ImplementsRemoteCall <=> M!Promise!Init /\ [][M!Promise!Next]_promise
  BY DEF ImplementsRemoteCall, M!ImplementsRemoteCall, M!Promise!Spec, promise, InCall
<1> QED BY <1>1, <1>2, <1>3, MasterInvariant, PTL DEF Spec, all
-----------------------------------------------------------------------------
(***************************************************************************)
(* Connect, Disconnect, Cached and File::Write leave nothing behind but    *)
(* what NothingLeaks names: through any row of failures, with any number   *)
(* of processes and servers, the client keeps one session at the master,   *)
(* the sockets in use or in a pool, and the locks of the chunks it writes. *)
(***************************************************************************)
THEOREM NothingLeaksTheorem == Spec => []NothingLeaks
<1>1. MasterInv => M!OneSession /\ M!SocketsAccountedFor
  <2> SUFFICES ASSUME MasterInv PROVE M!OneSession /\ M!SocketsAccountedFor
    OBVIOUS
  <2>1. MasterTypes /\ SocketInv /\ SessionInv
    BY DEF MasterInv
  <2>2. m_lost \in Nat /\ m_forgets \in Nat /\ Cardinality(m_sessions) \in Nat
    BY ONLY <2>1, MasterNumbers
  <2>3. \/ Cardinality(m_sessions) + m_forgets <= m_lost + 1
        \/ Cardinality(m_sessions) + m_forgets <= m_lost + 0
    BY <2>1 DEF SessionInv
  <2>4. Cardinality(m_sessions) + m_forgets <= m_lost + 1
    <3> DEFINE c == Cardinality(m_sessions)
    <3> HIDE DEF c
    <3>1. c \in Nat /\ (c + m_forgets <= m_lost + 1 \/ c + m_forgets <= m_lost + 0)
      BY <2>2, <2>3 DEF c
    <3>2. c + m_forgets <= m_lost + 1
      BY ONLY <2>2, <3>1
    <3> QED BY <3>2 DEF c
  <2> QED BY <2>1, <2>4, SameCardinality DEF M!OneSession, SocketInv
<1>2. FileInv => F!ConnectionsAccountedFor
  BY SameCardinality DEF FileInv, Connected, F!ConnectionsAccountedFor
<1>3. FileInv => F!ChunksReleased
  <2> SUFFICES ASSUME FileInv, f_faults = 0, NEW i \in Inodes, NEW c \in f_file[i].locked
               PROVE  \E p \in Procs : /\ f_io[p].op = "write" /\ f_io[p].inode = i
                                       /\ f_io[p].chunk_index \in {c, c + 1}
    BY DEF F!ChunksReleased
  <2>1. PICK p \in Procs : Holds(p, i, c)
    BY DEF FileInv, ChunkInv
  <2> QED BY <2>1 DEF Holds, Writes
<1>4. MasterInv /\ FileInv => NothingLeaks
  BY <1>1, <1>2, <1>3 DEF NothingLeaks
<1> QED BY <1>4, MasterInvariant, FileInvariant, PTL
=============================================================================
