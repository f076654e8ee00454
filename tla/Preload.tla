------------------------------- MODULE Preload -------------------------------
(***************************************************************************)
(* mooseclient/preload.cc: open, creat, read, write, pread, pwrite, close  *)
(* and lseek for a program under LD_PRELOAD.  Files below the mount point  *)
(* go to moose::File, with the inode as descriptor; all others, and the    *)
(* socket of the MooseFS client in the same process, go to the kernel.     *)
(*                                                                         *)
(* A path is the sequence of its names.  MooseFS and the kernel are        *)
(* external.                                                               *)
(***************************************************************************)
EXTENDS Naturals, Sequences, FiniteSets

CONSTANTS
  Pathnames,        \* what the program asks for: [absolute, names]
  cwd, mount_point, \* the path of the working directory, and mount_point_
  InitTree,         \* MooseFS at first: the inode of each path that is a file
  Dirs,             \* the paths in MooseFS that are directories
  Inodes,           \* the numbers that an inode may have
  Fds,              \* descriptors of the kernel that are free at first
  MaxOps            \* bound: calls

VARIABLES
  tree,             \* MooseFS: the inode of each path that is a file
  kernel,           \* the file of each kernel descriptor, None if it is free
  map,              \* map_: the inodes that have a File
  ready,            \* ConnectReady()
  held,             \* descriptors of the program and of the client: [fd, file, n],
                    \* the file meant and the number of opens that returned fd
  served,           \* what the last read or write was on, meant to reach and reached
  mixed,            \* history: the descriptors that have been mixed up
  ops

vars == <<tree, kernel, map, ready, held, served, mixed, ops>>

None == <<>>
Socket == <<"socket">>
OnKernel(path) == <<"kernel", path>>
OnMoose(i) == <<"moose", i>>
Descriptors == Fds \cup Inodes

Init ==
  /\ tree = InitTree /\ kernel = [d \in Fds |-> None] /\ map = {}
  /\ ready = FALSE /\ held = {} /\ served = [fd |-> 0, asked |-> None, got |-> None]
  /\ mixed = {} /\ ops = 0

Begin == ops < MaxOps /\ ops' = ops + 1
Free == {d \in Fds : kernel[d] = None}
Lowest == CHOOSE d \in Free : \A e \in Free : d <= e

\* One more descriptor d for file f, and one less.
Got(d, f) ==
  LET old == {h \in held : h.fd = d /\ h.file = f} IN
  IF old = {} THEN held \cup {[fd |-> d, file |-> f, n |-> 1]}
  ELSE {IF h \in old THEN [h EXCEPT !.n = @ + 1] ELSE h : h \in held}
GivenUp(h) == IF h.n = 1 THEN held \ {h} ELSE (held \ {h}) \cup {[h EXCEPT !.n = @ - 1]}
-----------------------------------------------------------------------------
(***************************************************************************)
(* Paths                                                                   *)
(***************************************************************************)
ToAbspath(pathname) == IF pathname.absolute THEN pathname.names ELSE cwd \o pathname.names

IsTrappedFile(abspath) ==
  /\ Len(mount_point) <= Len(abspath)
  /\ SubSeq(abspath, 1, Len(mount_point)) = mount_point

ToInterpath(abspath) == SubSeq(abspath, Len(mount_point) + 1, Len(abspath))

\* The file in MooseFS that the program means.
Meant(t, pathname) ==
  LET interpath == ToInterpath(ToAbspath(pathname)) IN
  IF interpath \in DOMAIN t THEN OnMoose(t[interpath]) ELSE None
-----------------------------------------------------------------------------
(***************************************************************************)
(* open and creat                                                          *)
(***************************************************************************)
InKernel(d) == d \in Fds /\ kernel[d] # None

\* real_open, real_creat and socket.
RealOpen(f) ==
  /\ Free # {} /\ kernel' = [kernel EXCEPT ![Lowest] = f] /\ held' = Got(Lowest, f)
  /\ mixed' = IF Lowest \in map THEN mixed \cup {Lowest} ELSE mixed

\* SetMaster: the client connects.
SetMaster ==
  /\ ~ready /\ Begin /\ RealOpen(Socket) /\ ready' = TRUE
  /\ UNCHANGED <<tree, map, served>>

\* File::Open and File::Create give the inode i.  They are passed the pathname
\* as it is, not the interpath.
OpenFound(pathname, i) ==
  pathname.names \in DOMAIN tree /\ i = tree[pathname.names] /\ UNCHANGED tree

Create(pathname, i) ==
  /\ pathname.names # <<>> /\ pathname.names \notin DOMAIN tree \cup Dirs
  /\ SubSeq(pathname.names, 1, Len(pathname.names) - 1) \in Dirs
  /\ \A path \in DOMAIN tree : tree[path] # i
  /\ tree' = [path \in DOMAIN tree \cup {pathname.names} |->
                IF path = pathname.names THEN i ELSE tree[path]]

\* The Lookup has failed: the inode is not set, and may be one that there is.
OpenUnset(i) == (\E path \in DOMAIN tree : tree[path] = i) /\ UNCHANGED tree

\* A second open of an inode takes the place of the first, in map_ and for the
\* program.
Trap(pathname, i) ==
  LET f == Meant(tree', pathname) IN
  /\ map' = map \cup {i} /\ held' = Got(i, f)
  /\ mixed' = IF i \in map \/ InKernel(i) \/ f # OnMoose(i) THEN mixed \cup {i} ELSE mixed

\* open or creat.  The last case is one that fails, and the File is deleted.
Open(pathname) ==
  /\ Begin
  /\ IF IsTrappedFile(ToAbspath(pathname)) /\ ready
     THEN /\ UNCHANGED kernel
          /\ \/ \E i \in Inodes :
                  /\ OpenFound(pathname, i) \/ Create(pathname, i) \/ OpenUnset(i)
                  /\ Trap(pathname, i)
             \/ UNCHANGED <<tree, map, held, mixed>>
     ELSE RealOpen(OnKernel(ToAbspath(pathname))) /\ UNCHANGED <<tree, map>>
  /\ UNCHANGED <<ready, served>>
-----------------------------------------------------------------------------
(***************************************************************************)
(* The calls with a descriptor                                             *)
(***************************************************************************)
\* Mutant: map_ is not asked.
ReachedKernel(d) == IF d \in Fds THEN kernel[d] ELSE None

\* The file that read, write, pread or pwrite on d reaches, by GetFile.
Reached(d) ==
  IF d \in map /\ ready THEN OnMoose(d) ELSE IF d \in Fds THEN kernel[d] ELSE None

\* read, write, pread or pwrite by a holder of d.
ReadWrite(h) ==
  /\ Begin /\ served' = [fd |-> h.fd, asked |-> h.file, got |-> Reached(h.fd)]
  /\ UNCHANGED <<tree, kernel, map, ready, held, mixed>>

RealClose(d) == kernel' = IF d \in Fds THEN [kernel EXCEPT ![d] = None] ELSE kernel

\* Mutant: the File is deleted and stays in the map.
CloseForgets(h) ==
  /\ Begin /\ held' = GivenUp(h)
  /\ IF h.fd \in map THEN UNCHANGED kernel ELSE RealClose(h.fd)
  /\ UNCHANGED <<tree, map, ready, served, mixed>>

Close(h) ==
  /\ Begin /\ held' = GivenUp(h)
  /\ IF h.fd \in map THEN map' = map \ {h.fd} /\ UNCHANGED kernel
     ELSE RealClose(h.fd) /\ UNCHANGED map
  /\ UNCHANGED <<tree, ready, served, mixed>>

\* lseek ends in real_close for a descriptor of the kernel.
Lseek(h) ==
  /\ Begin
  /\ IF h.fd \in map THEN UNCHANGED <<kernel, mixed>>
     ELSE RealClose(h.fd) /\ mixed' = mixed \cup {h.fd}
  /\ UNCHANGED <<tree, map, ready, held, served>>
-----------------------------------------------------------------------------
Next ==
  \/ SetMaster
  \/ \E pathname \in Pathnames : Open(pathname)
  \/ \E h \in held : ReadWrite(h) \/ Close(h) \/ Lseek(h)

Spec == Init /\ [][Next]_vars
-----------------------------------------------------------------------------
(***************************************************************************)
(* preload.cc: a read or write reaches the file that the path given to     *)
(* open means, in the program and on the client's own socket, whatever has *)
(* become of other descriptors, unless on this one of four things has      *)
(* happened: it is both an inode and a descriptor of the kernel, its file  *)
(* was opened twice, lseek was called on it in the kernel, or open had the *)
(* inode of another path (the mount point not taken off) or an unset one.  *)
(***************************************************************************)
RightFile == served.asked = served.got \/ served.fd \in mixed

(***************************************************************************)
(* preload.cc: nothing stays open that nobody holds, under the same        *)
(* conditions: no descriptor of the kernel, and no File in map_.           *)
(***************************************************************************)
NothingLeftOpen ==
  \A d \in Descriptors \ mixed :
    (d \in map \/ InKernel(d)) => \E h \in held : h.fd = d
=============================================================================
