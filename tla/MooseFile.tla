------------------------------- MODULE MooseFile -------------------------------
(***************************************************************************)
(* moose::File, the chunk server connections it uses and the pool Cached   *)
(* keeps of them (mooseclient/moose.cc), under the file descriptors of     *)
(* moose_c.cc.  A file is cut into chunks of M64 bytes, which live on      *)
(* chunk servers, and a chunk is written in blocks of K64 bytes.           *)
(*                                                                         *)
(* A step is one command to the master or one exchange with a chunk server *)
(* and the code up to the next.  Master and chunk servers are external.    *)
(***************************************************************************)
EXTENDS Integers, FiniteSets, Sequences

CONSTANTS
  Procs, Inodes,
  Locations,         \* the chunk servers of every chunk, in the order the master gives
  M64, K64,          \* bytes of a chunk and of a block, 2^26 and 2^16 in the code
  MFS_MAX_FILE_SIZE,
  Lengths,           \* the lengths of files there may be at the start
  Counts, Offsets,   \* the sizes and offsets that clients ask for
  Grace,             \* seconds after a registration in which Read retries, 10 in the code
  MaxSize,           \* bound: no client writes beyond it
  MaxOps, MaxFaults, \* bounds: calls, and failures of Faults
  Faults             \* what fails: "master", "reconnect", "connect", "init", "block",
                     \* "read", "location"

VARIABLES
  file,      \* the master and the chunk servers: length, data and chunks of a file
  map,       \* map_: the File of each descriptor, NoFile if there is none
  pool,      \* Cached::map_: "none", or a connection, "alive" or "freed"
  sockets,   \* ChunkServer connections open in a process
  grace,     \* seconds until last_registered_ of a process is Grace seconds ago
  pc, io,    \* next step of a process, and the locals of its call
  result,    \* bytes that the last Read or Write of a process returned
  acked,     \* history: writes that returned count and were not overwritten
  leaked,    \* history: connections lost by a failed WriteBlockInit
  ops, faults

vars == <<file, map, pool, sockets, grace, pc, io, result, acked, leaked, ops, faults>>

Hole == <<0, 0>>
NoFile == [position |-> -1]
NoIO == [op |-> "none"]
Servers == {Locations[k] : k \in DOMAIN Locations}
EFBIG == 27
Min2(a, b) == IF a < b THEN a ELSE b
Max2(a, b) == IF a < b THEN b ELSE a

\* A file of n bytes, which somebody has written before.
Existing(n) ==
  [length |-> n, data |-> [o \in 0 .. MaxSize - 1 |-> Hole],
   chunks |-> {c \in 0 .. n : c * M64 < n}, locked |-> {}]

\* last_registered_ is 0 at first, long ago.
Init ==
  /\ file \in [Inodes -> {Existing(n) : n \in Lengths}]
  /\ map = [p \in Procs |-> [i \in Inodes |-> NoFile]]
  /\ pool = [p \in Procs |-> [s \in Servers |-> "none"]]
  /\ sockets = [p \in Procs |-> 0] /\ grace = [p \in Procs |-> 0]
  /\ pc = [p \in Procs |-> "idle"] /\ io = [p \in Procs |-> NoIO]
  /\ result = [p \in Procs |-> 0]
  /\ acked = {} /\ leaked = [p \in Procs |-> 0] /\ ops = 0 /\ faults = 0

Fault(f) == f \in Faults /\ faults < MaxFaults /\ faults' = faults + 1
Begin(p) == pc[p] = "idle" /\ ops < MaxOps /\ ops' = ops + 1
Go(p, l) == pc' = [pc EXCEPT ![p] = l]
-----------------------------------------------------------------------------
(***************************************************************************)
(* The locals of Read and Write                                            *)
(***************************************************************************)
\* chunk_offset and chunk_size of both loops, block_size of the inner loop of
\* Write.  A negative chunk_size stands for the unsigned number it wraps to.
ChunkOffset(l) == l.write_position - l.chunk_index * M64
ChunkSize(l) == Min2(l.end, (l.chunk_index + 1) * M64) - l.write_position
BlockSize(l) == Min2(ChunkOffset(l) + ChunkSize(l), (l.blockno + 1) * K64) - l.chunk_pos

\* Read and Write begin at the position of the File.
Locals(op, i, position, n) ==
  [op |-> op, inode |-> i, start |-> position, count |-> n, call |-> ops + 1,
   end |-> position + n, write_position |-> position, chunk_index |-> position \div M64,
   chunk_pos |-> 0, blockno |-> 0, server |-> Locations[1], buf |-> 0,
   filled |-> {}, failed |-> FALSE]

\* The call returns n; a Read or Write that succeeds moves the File.
Return(p, n, position) ==
  /\ Go(p, "idle") /\ io' = [io EXCEPT ![p] = NoIO]
  /\ result' = [result EXCEPT ![p] = n]
  /\ map' = [map EXCEPT ![p][io[p].inode].position = position]
ReturnZero(p) == Return(p, 0, map[p][io[p].inode].position)

Overlaps(a, i, from, to) == a.inode = i /\ a.start < to /\ from < a.start + a.count
-----------------------------------------------------------------------------
(***************************************************************************)
(* Open, Create, Close and Seek                                            *)
(***************************************************************************)
\* mfs_open of a file that exists.  A descriptor is the inode, and a second
\* open of it takes the place of the first.
Open(p, i, accmode, append) ==
  /\ Begin(p)
  /\ \/ /\ map' = [map EXCEPT ![p][i] =
                     [position |-> IF append THEN file[i].length ELSE 0,
                      truncate_in_close |-> accmode = "O_WRONLY" \/ append]]
        /\ UNCHANGED faults
     \/ Fault("master") /\ UNCHANGED map
  /\ UNCHANGED <<grace, file, pool, sockets, pc, io, result, acked, leaked>>

\* mfs_close.  The result of File::Close is not looked at.
CloseFile(p, i) == map' = [map EXCEPT ![p][i] = NoFile]

Close(p, i) ==
  /\ map[p][i] # NoFile /\ Begin(p)
  /\ IF map[p][i].truncate_in_close
     THEN /\ Go(p, "getattr") /\ UNCHANGED map
          /\ io' = [io EXCEPT ![p] = Locals("close", i, map[p][i].position, 0)]
     ELSE CloseFile(p, i) /\ UNCHANGED <<pc, io>>
  /\ UNCHANGED <<grace, file, pool, sockets, result, acked, leaked, faults>>

Closed(p) == Go(p, "idle") /\ io' = [io EXCEPT ![p] = NoIO] /\ CloseFile(p, io[p].inode)

GetAttr(p) ==
  /\ pc[p] = "getattr"
  /\ \/ /\ file[io[p].inode].length > io[p].start
        /\ Go(p, "truncate") /\ UNCHANGED <<io, map, faults>>
     \/ file[io[p].inode].length <= io[p].start /\ Closed(p) /\ UNCHANGED faults
     \/ Fault("master") /\ Closed(p)
  /\ UNCHANGED <<grace, file, pool, sockets, result, acked, leaked, ops>>

Truncated(f, n) ==
  [f EXCEPT !.length = n, !.data = [o \in DOMAIN @ |-> IF o < n THEN @[o] ELSE Hole]]

\* What ends after the new length is no longer promised, nor what is being
\* written (failed, here, is history).
Truncate(p) ==
  /\ pc[p] = "truncate"
  /\ LET i == io[p].inode n == io[p].start IN
     \/ /\ file' = [file EXCEPT ![i] = Truncated(@, n)]
        /\ acked' = {a \in acked : a.inode # i \/ a.start + a.count <= n}
        /\ io' = [q \in Procs |-> IF q = p THEN NoIO
                                  ELSE IF io[q].op = "write" /\ io[q].inode = i
                                  THEN [io[q] EXCEPT !.failed = TRUE] ELSE io[q]]
        /\ Go(p, "idle") /\ CloseFile(p, i) /\ (UNCHANGED faults \/ Fault("master"))
     \/ Fault("master") /\ Closed(p) /\ UNCHANGED <<file, acked>>
  /\ UNCHANGED <<grace, pool, sockets, result, leaked, ops>>

\* File::Seek, with SEEK_SET or SEEK_CUR.
Seek(p, i, offset, cur) ==
  /\ map[p][i] # NoFile /\ Begin(p)
  /\ LET to == IF cur THEN map[p][i].position + offset ELSE offset IN
     \/ /\ map' = IF file[i].length >= to THEN [map EXCEPT ![p][i].position = to] ELSE map
        /\ UNCHANGED faults
     \/ Fault("master") /\ UNCHANGED map
  /\ UNCHANGED <<grace, file, pool, sockets, pc, io, result, acked, leaked>>
-----------------------------------------------------------------------------
(***************************************************************************)
(* Write                                                                   *)
(***************************************************************************)
\* File::Write at its position, or Pwrite.  Clients write a file one at a time.
Write(p, i, position, n) ==
  /\ map[p][i] # NoFile /\ position + n <= MaxSize /\ Begin(p)
  /\ \A q \in Procs : io[q].op = "write" => io[q].inode # i
  /\ map' = [map EXCEPT ![p][i].position = position]
  /\ io' = [io EXCEPT ![p] = Locals("write", i, position, n)]
  /\ Go(p, "write chunk")
  /\ acked' = {a \in acked : ~Overlaps(a, i, position, position + n)}
  /\ UNCHANGED <<grace, file, pool, sockets, result, leaked, faults>>

\* MasterServer::WriteChunk makes the chunk if need be and locks it.
WriteChunk(p) ==
  /\ pc[p] = "write chunk"
  /\ LET l == io[p] f == file[l.inode] IN
     \/ /\ l.chunk_index \notin f.locked
        /\ file' = [file EXCEPT ![l.inode].chunks = @ \cup {l.chunk_index},
                                ![l.inode].locked = @ \cup {l.chunk_index}]
        /\ \/ /\ io' = [io EXCEPT ![p].chunk_pos = ChunkOffset(l),
                                  ![p].blockno = ChunkOffset(l) \div K64]
              /\ Go(p, "write connect") /\ UNCHANGED <<map, result, faults>>
           \/ Fault("master") /\ ReturnZero(p)
     \/ /\ UNCHANGED file
        /\ (l.chunk_index \in f.locked /\ UNCHANGED faults) \/ Fault("master")
        /\ ReturnZero(p)
  /\ UNCHANGED <<grace, pool, sockets, acked, leaked, ops>>

\* Cached::Create(is_read = false), twice, and WriteBlockInit.  When that
\* fails the connection is not deleted.
WriteConnect(p) ==
  /\ pc[p] = "write connect"
  /\ \/ /\ sockets' = [sockets EXCEPT ![p] = @ + 1]
        /\ \/ Go(p, "write block") /\ UNCHANGED <<io, map, result, leaked, faults>>
           \/ /\ Fault("init") /\ ReturnZero(p)
              /\ leaked' = [leaked EXCEPT ![p] = @ + 1]
     \/ Fault("connect") /\ ReturnZero(p) /\ UNCHANGED <<sockets, leaked>>
  /\ UNCHANGED <<grace, file, pool, acked, ops>>

\* WriteBlock stores its bytes of the buffer in the chunk server.
Stored(f, l) ==
  LET from == l.chunk_index * M64 + l.blockno * K64 + (l.chunk_pos - l.blockno * K64)
  IN [f EXCEPT !.data = [o \in DOMAIN @ |->
        IF o \in from .. from + BlockSize(l) - 1
        THEN <<l.call, l.buf + o - from>> ELSE @[o]]]

\* Mutants: the buffer is not moved on to the next block; the loop does not
\* move at all; the connection is not deleted.
NextBlockSame(l) ==
  [l EXCEPT !.chunk_pos = @ + BlockSize(l), !.blockno = @ + 1]
NextBlockStuck(l) == l
DeleteLeaks(p) == UNCHANGED sockets

NextBlock(l) ==
  [l EXCEPT !.chunk_pos = @ + BlockSize(l), !.blockno = @ + 1, !.buf = @ + BlockSize(l)]

Delete(p) == sockets' = [sockets EXCEPT ![p] = @ - 1]

WriteBlock(p) ==
  /\ pc[p] = "write block"
  /\ LET l == io[p] n == NextBlock(l) IN
     \/ /\ file' = [file EXCEPT ![l.inode] = Stored(@, l)]
        /\ IF n.chunk_pos >= ChunkOffset(l) + ChunkSize(l)
           THEN /\ io' = [io EXCEPT ![p] = [n EXCEPT !.write_position = @ + ChunkSize(l),
                                                    !.chunk_index = @ + 1]]
                /\ Delete(p) /\ Go(p, "write chunk end")
           ELSE io' = [io EXCEPT ![p] = n] /\ UNCHANGED <<pc, sockets>>
        /\ UNCHANGED <<map, result, faults>>
     \/ /\ Fault("block") /\ Delete(p) /\ ReturnZero(p)
        /\ file' \in {file, [file EXCEPT ![l.inode] = Stored(@, l)]}
  /\ UNCHANGED <<grace, pool, acked, leaked, ops>>

\* Mutant: the chunk is not given back.
EndedKeeps(f, l) == [f EXCEPT !.length = Max2(@, l.write_position)]

Written(l) == l.write_position >= l.end

\* MasterServer::WriteChunkEnd unlocks the chunk and extends the file.
Ended(f, l) ==
  [f EXCEPT !.length = Max2(@, l.write_position), !.locked = @ \ {l.chunk_index - 1}]

WriteChunkEnd(p) ==
  /\ pc[p] = "write chunk end"
  /\ LET l == io[p] IN
     \/ /\ file' = [file EXCEPT ![l.inode] = Ended(@, l)]
        /\ UNCHANGED faults
        /\ IF Written(l)
           THEN /\ Return(p, l.count, l.write_position)
                /\ acked' = IF l.failed THEN acked
                            ELSE acked \cup {[inode |-> l.inode, start |-> l.start,
                                              count |-> l.count, call |-> l.call]}
           ELSE Go(p, "write chunk") /\ UNCHANGED <<io, map, result, acked>>
     \/ /\ Fault("master") /\ ReturnZero(p) /\ UNCHANGED acked
        /\ file' \in {file, [file EXCEPT ![l.inode] = Ended(@, l)]}
  /\ UNCHANGED <<grace, pool, sockets, leaked, ops>>
-----------------------------------------------------------------------------
(***************************************************************************)
(* Read                                                                    *)
(***************************************************************************)
\* File::Read at its position, or Pread.  A position that is too large is
\* answered by the number EFBIG.
Read(p, i, position, n) ==
  /\ map[p][i] # NoFile /\ Begin(p)
  /\ map' = [map EXCEPT ![p][i].position = position]
  /\ IF position >= MFS_MAX_FILE_SIZE
     THEN result' = [result EXCEPT ![p] = EFBIG] /\ UNCHANGED <<pc, io>>
     ELSE /\ io' = [io EXCEPT ![p] = Locals("read", i, position, n)]
          /\ Go(p, "read chunk") /\ UNCHANGED result
  /\ UNCHANGED <<grace, file, pool, sockets, acked, leaked, faults>>

\* Mutant: the time of the registration is not looked at.
TryAgainAlways(p) == UNCHANGED grace

\* "hack for reconnected": the chunk is tried again after a second of sleep,
\* until last_registered_ is Grace seconds ago.
TryAgain(p) == grace[p] > 0 /\ grace' = [grace EXCEPT ![p] = @ - 1]
TooLate(p) == grace[p] = 0 /\ UNCHANGED grace

\* Not beyond the end of the file.
EndOf(f, l) == Min2(l.end, f.length)

\* MasterServer::ReadChunk.  A chunk that nobody has written has no location,
\* nor has any in the seconds after the master lost its chunk servers.
ReadChunk(p) ==
  /\ pc[p] = "read chunk"
  /\ LET l == io[p] f == file[l.inode] IN
     \/ Fault("master") /\ ReturnZero(p) /\ UNCHANGED grace
     \/ f.length < l.start /\ ReturnZero(p) /\ UNCHANGED <<grace, faults>>
     \/ /\ f.length >= l.start
        /\ (l.chunk_index \notin f.chunks /\ UNCHANGED faults) \/ Fault("location")
        /\ \/ TooLate(p) /\ ReturnZero(p)
           \/ /\ TryAgain(p) /\ io' = [io EXCEPT ![p].end = EndOf(f, l)]
              /\ UNCHANGED <<pc, map, result>>
     \/ /\ f.length >= l.start /\ l.chunk_index \in f.chunks
        /\ io' = [io EXCEPT ![p].end = EndOf(f, l)]
        /\ Go(p, "read connect") /\ UNCHANGED <<grace, map, result, faults>>
  /\ UNCHANGED <<file, pool, sockets, acked, leaked, ops>>

\* Cached::Create(is_read = true) for each location until one gives a
\* connection: the one in the pool, which is taken out, or a new one.
ReadConnect(p) ==
  /\ pc[p] = "read connect"
  /\ \/ \E k \in 1 .. Len(Locations) :
          /\ \A j \in 1 .. k - 1 : pool[p][Locations[j]] = "none"
          /\ k > 1 => Fault("connect")
          /\ k = 1 => UNCHANGED faults
          /\ io' = [io EXCEPT ![p].server = Locations[k]]
          /\ Go(p, IF pool[p][Locations[k]] = "freed" THEN "read freed" ELSE "read block")
          /\ pool' = [pool EXCEPT ![p][Locations[k]] = "none"]
          /\ sockets' = [sockets EXCEPT ![p] = IF pool[p][Locations[k]] = "none"
                                               THEN @ + 1 ELSE @]
          /\ UNCHANGED <<map, result>>
     \/ /\ \A s \in Servers : pool[p][s] = "none"
        /\ Fault("connect") /\ ReturnZero(p) /\ UNCHANGED <<pool, sockets>>
  /\ UNCHANGED <<grace, file, acked, leaked, ops>>

\* What ReadBlock has put into the buffer: <<place in the buffer, offset in the file>>.
Filled(l) ==
  l.filled \cup {<<l.buf + j, l.chunk_index * M64 + ChunkOffset(l) + j>> :
                   j \in 0 .. ChunkSize(l) - 1}

\* Mutant: the next chunk is read over the first.
NextChunkSame(l) ==
  [l EXCEPT !.write_position = @ + ChunkSize(l), !.chunk_index = @ + 1]

NextChunk(l) ==
  [l EXCEPT !.write_position = @ + ChunkSize(l), !.chunk_index = @ + 1, !.buf = @ + ChunkSize(l)]

\* The loop of Read goes on with l, or ends.
ReadNext(p, l) ==
  IF NextChunk(l).write_position >= l.end
  THEN Return(p, NextChunk(l).write_position - l.start, NextChunk(l).write_position)
  ELSE io' = [io EXCEPT ![p] = NextChunk(l)] /\ Go(p, "read chunk") /\ UNCHANGED <<map, result>>

\* Cached::Return of a connection in the given state: the pool holds one for
\* each server, and this process has taken that one out.
Pooled(p, state) == pool' = [pool EXCEPT ![p][io[p].server] = state]

ReadBlock(p) ==
  /\ pc[p] = "read block" /\ ChunkSize(io[p]) >= 0
  /\ Pooled(p, "alive") /\ ReadNext(p, [io[p] EXCEPT !.filled = Filled(io[p])])
  /\ UNCHANGED <<grace, file, sockets, acked, leaked, ops, faults>>

\* ReadBlock has failed: the connection is deleted, and either the chunk is
\* tried again or, too late for that, the deleted connection is put into the
\* pool and the chunk is counted as read.
Failed(p) ==
  \/ /\ TryAgain(p) /\ Go(p, "read chunk") /\ UNCHANGED <<pool, io, map, result>>
  \/ /\ TooLate(p) /\ Pooled(p, "freed") /\ ReadNext(p, [io[p] EXCEPT !.failed = TRUE])

ReadBlockFails(p) ==
  /\ pc[p] = "read block"
  /\ IF ChunkSize(io[p]) < 0 THEN UNCHANGED faults ELSE Fault("read")
  /\ Delete(p) /\ Failed(p)
  /\ UNCHANGED <<file, acked, leaked, ops>>

\* ReadBlock of a connection that has been deleted fails, and it is deleted
\* again, which may end the process.
ReadFreed(p) ==
  /\ pc[p] = "read freed"
  /\ \/ Failed(p)
     \/ Go(p, "dead") /\ UNCHANGED <<grace, pool, io, map, result>>
  /\ UNCHANGED <<file, sockets, acked, leaked, ops, faults>>
-----------------------------------------------------------------------------
Step(p) ==
  \/ GetAttr(p) \/ Truncate(p)
  \/ WriteChunk(p) \/ WriteConnect(p) \/ WriteBlock(p) \/ WriteChunkEnd(p)
  \/ ReadChunk(p) \/ ReadConnect(p) \/ ReadBlock(p) \/ ReadBlockFails(p) \/ ReadFreed(p)

\* A command finds its connection to the master lost, and EnsureConnect has to
\* try more than once: last_registered_ is set.  Only Read looks at it, so that
\* the first command of a Read stands for the ones before it.
Reconnected(p) ==
  /\ pc[p] = "read chunk"
  /\ Fault("reconnect") /\ grace' = [grace EXCEPT ![p] = Grace]
  /\ UNCHANGED <<file, map, pool, sockets, pc, io, result, acked, leaked, ops>>

\* A second passes.
Tick(p) ==
  /\ io[p].op = "read" /\ grace[p] > 0
  /\ grace' = [grace EXCEPT ![p] = @ - 1]
  /\ UNCHANGED <<file, map, pool, sockets, pc, io, result, acked, leaked, ops, faults>>

Next == \E p \in Procs :
  \/ \E i \in Inodes :
       \/ \E m \in {"O_RDWR", "O_WRONLY"}, append \in BOOLEAN : Open(p, i, m, append)
       \/ Close(p, i)
       \/ \E o \in Offsets, cur \in BOOLEAN : Seek(p, i, o, cur)
       \/ \E n \in Counts, o \in Offsets \cup {map[p][i].position} :
            Write(p, i, o, n) \/ Read(p, i, o, n)
  \/ Step(p) \/ Reconnected(p) \/ Tick(p)

Spec == Init /\ [][Next]_vars

\* A process keeps running, and what it sends is answered or fails.
Fairness == \A p \in Procs : WF_vars(Step(p))
FairSpec == Spec /\ Fairness
-----------------------------------------------------------------------------
(***************************************************************************)
(* File::Write: what Write has acknowledged is stored, each byte of the    *)
(* buffer at its own offset through every chunk and block boundary, until  *)
(* it is overwritten or cut off by a Close: a failed Write, or a reader    *)
(* with failing connections, does no harm to it.                           *)
(***************************************************************************)
AckedStays ==
  \A a \in acked :
    /\ file[a.inode].length >= a.start + a.count
    /\ \A j \in 0 .. a.count - 1 : file[a.inode].data[a.start + j] = <<a.call, j>>

(***************************************************************************)
(* File::Read: unless a ReadBlock failed, every byte that is reported was  *)
(* put at its place in the buffer in this call, and fewer than asked for   *)
(* are reported only at the end of the file or with none at all.           *)
(***************************************************************************)
ReadHonest ==
  [][\A p \in Procs :
       (pc[p] = "read block" /\ io[p].op = "read" /\ pc'[p] = "idle" /\ ~io[p].failed
          /\ pool'[p][io[p].server] = "alive")
         => LET n == result'[p] IN
            /\ n <= io[p].count /\ (n < io[p].count => io[p].start + n = io[p].end)
            /\ \A k \in 0 .. n - 1 : <<k, io[p].start + k>> \in Filled(io[p])]_vars

(***************************************************************************)
(* File::Write: a chunk is locked at the master only during the Write that *)
(* locked it, or after a Write that failed.                                *)
(***************************************************************************)
ChunksReleased ==
  faults = 0 => \A i \in Inodes : \A c \in file[i].locked :
    \E p \in Procs : io[p].op = "write" /\ io[p].inode = i /\ io[p].chunk_index \in {c, c + 1}

(***************************************************************************)
(* Cached: the open connections of a process are the one in use, those in  *)
(* the pool, and those that failed WriteBlockInits have lost.              *)
(***************************************************************************)
ConnectionsAccountedFor ==
  \A p \in Procs :
    sockets[p] = leaked[p] + Cardinality({s \in Servers : pool[p][s] = "alive"})
                 + (IF pc[p] \in {"write block", "read block"} THEN 1 ELSE 0)

(***************************************************************************)
(* File::Read, File::Write: the loops over chunks and blocks end; Read's   *)
(* loop over a file that is cut off meanwhile by the clock.                *)
(***************************************************************************)
IOReturns == \A p \in Procs : pc[p] # "idle" ~> pc[p] \in {"idle", "dead"}
=============================================================================
