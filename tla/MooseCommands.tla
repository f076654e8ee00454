---------------------------- MODULE MooseCommands ----------------------------
(***************************************************************************)
(* The commands that moose::MasterServer (mooseclient/moose.cc) sends to a *)
(* MooseFS master, and what the master does with one.  A file, a directory *)
(* or a chunk is a name; a command creates it, removes it or works on it.  *)
(***************************************************************************)
CONSTANT Names

Cmds == {"LOOKUP", "GETATTR", "TRUNCATE", "ACCESS", "OPEN", "MKNOD", "MKDIR",
         "RMDIR", "UNLINK", "READ_CHUNK", "WRITE_CHUNK", "WRITE_CHUNK_END"}
Request == [cmd : Cmds, name : Names]
NoMessage == [cmd |-> "none"]

Creates(r) == r.cmd \in {"MKNOD", "MKDIR"}
Removes(r) == r.cmd \in {"RMDIR", "UNLINK"}

\* The master: the status of a command when the names in ns exist (an answer
\* with a body counts as STATUS_OK), and the names that exist once it has been
\* carried out.
StatusOf(ns, r) ==
  IF Creates(r) THEN IF r.name \in ns THEN "ERROR_EEXIST" ELSE "STATUS_OK"
  ELSE IF r.name \in ns THEN "STATUS_OK" ELSE "ERROR_ENOENT"

NamesAfter(ns, r) ==
  IF Creates(r) THEN ns \cup {r.name} ELSE IF Removes(r) THEN ns \ {r.name} ELSE ns

\* What the command's method returns for a status.  Truncate returns the
\* truth value of "the status is STATUS_OK", which is 1 or 0 = STATUS_OK; the
\* master sends a body and no status when it has truncated the file.
Returned(r, st) == IF r.cmd = "TRUNCATE" THEN "STATUS_OK" ELSE st
=============================================================================
