------------------------------- MODULE LastCwd -------------------------------
(***************************************************************************)
(* The file last_cwd, in which the daemon keeps the directory some session *)
(* was last seen in: each session's poller thread writes it by way of one  *)
(* temporary file, and a new session reads it (persist_last_cwd and the    *)
(* polling thread of haven-daemon/src/pty.rs, read_last_cwd of             *)
(* haven-daemon/src/session.rs).                                           *)
(*                                                                         *)
(* A directory is the sequence of its bytes.  A poller that has opened the *)
(* temporary file writes to that file wherever it is by then: still at its *)
(* name, at the name last_cwd after the rename of another, or unlinked.    *)
(***************************************************************************)
EXTENDS Naturals, Sequences, FiniteSetsExt

CONSTANTS Sessions,   \* those there are and those that may be created
          Bytes,      \* that paths are made of
          Blank,      \* a byte that trim() drops at either end
          Dirs,       \* directories that exist
          Home,       \* the user's home directory
          Budgets,    \* bound: how much users and shells do, in some combinations
          NoFile      \* no file at a name, and nothing in `latest`

ASSUME DirsAssumption ==
  /\ Dirs \subseteq Seq(Bytes) /\ Home \in Dirs /\ <<>> \notin Dirs
  /\ NoFile \notin Seq(Bytes) /\ NoFile \notin Sessions
  /\ Budgets \subseteq [{"users", "shells"} -> Nat]

VARIABLES
  shell,      \* the shell of each session: "none", "runs" or "gone"
  dir,        \* the directory it is in
  budget,     \* what users and shells may still do
  poller,     \* its polling thread
  last_cwd,   \* the directory the thread has seen last
  handle,     \* where the file is that it has opened
  tmp,        \* contents of last_cwd.tmp
  path,       \* contents of last_cwd
  latest,     \* ghost: the directory persisted last, write and rename both done
  mixed,      \* ghost: pollers wrote at the same time, and none alone since
  alone       \* ghost: the poller that writes while no other does

shells == <<shell, dir>>
files == <<tmp, path, handle, latest, mixed, alone>>
cwdVars == <<shells, poller, last_cwd, files>>

Places == {"none", "tmp", "path", "unlinked"}
Inside(s) == handle[s] # "none"

CwdTypeOK ==
  /\ shell \in [Sessions -> {"none", "runs", "gone"}]
  /\ dir \in [Sessions -> Dirs] /\ budget \in [{"users", "shells"} -> Nat]
  /\ poller \in [Sessions -> {"none", "sleeps", "opens", "writes", "renames", "done"}]
  /\ last_cwd \in [Sessions -> Dirs \cup {<<>>}]
  /\ handle \in [Sessions -> Places]
  /\ latest \in Dirs \cup {NoFile}
  /\ mixed \in BOOLEAN /\ alone \in Sessions \cup {NoFile}

(* A daemon that starts for the first time, with some sessions set up.     *)
CwdInit(old) ==
  /\ shell = [s \in Sessions |-> IF s \in old THEN "runs" ELSE "none"]
  /\ dir = [s \in Sessions |-> Home] /\ budget \in Budgets
  /\ poller = [s \in Sessions |-> IF s \in old THEN "sleeps" ELSE "none"]
  /\ last_cwd = [s \in Sessions |-> <<>>]
  /\ handle = [s \in Sessions |-> "none"]
  /\ tmp = NoFile /\ path = NoFile
  /\ latest = NoFile /\ mixed = FALSE /\ alone = NoFile

Does(who) == budget[who] > 0 /\ budget' = [budget EXCEPT ![who] = @ - 1]

-----------------------------------------------------------------------------
(* read_last_cwd, for a session created without a directory.  What it      *)
(* reads is trimmed: a directory whose name ends in a blank is not found,  *)
(* or taken for another.                                                   *)
Trimmed(p) ==
  LET solid == {i \in DOMAIN p : p[i] # Blank}
  IN IF solid = {} THEN <<>> ELSE SubSeq(p, Min(solid), Max(solid))

ReadUnchecked == IF path # NoFile THEN Trimmed(path) ELSE Home    \* Faulty: it need not exist
ReadLastCwd == IF path # NoFile /\ Trimmed(path) \in Dirs THEN Trimmed(path) ELSE Home

(* PtyHandle::spawn: the shell, in its directory, and the polling thread.  *)
Spawns(s, in) ==
  /\ shell' = [shell EXCEPT ![s] = "runs"] /\ dir' = [dir EXCEPT ![s] = in]
  /\ poller' = [poller EXCEPT ![s] = "sleeps"]
  /\ UNCHANGED <<last_cwd, files>>

(* kill, or the shell's own exit.                                          *)
ShellEnds(s) ==
  /\ shell[s] = "runs" /\ shell' = [shell EXCEPT ![s] = "gone"]
  /\ UNCHANGED <<dir, poller, last_cwd, files>>

Moves(s) ==
  /\ Does("shells") /\ shell[s] = "runs"
  /\ \E d \in Dirs \ {dir[s]} : dir' = [dir EXCEPT ![s] = d]
  /\ UNCHANGED <<shell, poller, last_cwd, files>>

-----------------------------------------------------------------------------
(* The polling thread, and persist_last_cwd within it.                     *)
At(s, from, to) == poller[s] = from /\ poller' = [poller EXCEPT ![s] = to]

Polls(s) ==
  /\ Does("shells") /\ At(s, "sleeps", "opens") /\ shell[s] = "runs" /\ dir[s] # last_cwd[s]
  /\ last_cwd' = [last_cwd EXCEPT ![s] = dir[s]]
  /\ UNCHANGED <<shells, files>>

PollEnds(s) ==
  /\ At(s, "sleeps", "done") /\ shell[s] = "gone"
  /\ UNCHANGED <<budget, shells, last_cwd, files>>

Enters(s) ==
  LET others == \E o \in Sessions : Inside(o)
  IN mixed' = (mixed \/ others) /\ alone' = IF others THEN NoFile ELSE s

(* fs::write: open with O_CREAT and O_TRUNC, then write from the start.    *)
OpensTmp(s) ==
  /\ At(s, "opens", "writes")
  /\ tmp' = <<>> /\ handle' = [handle EXCEPT ![s] = "tmp"]
  /\ Enters(s)
  /\ UNCHANGED <<budget, shells, last_cwd, path, latest>>
OpensPath(s) ==    \* Faulty: last_cwd itself is written
  /\ At(s, "opens", "writes")
  /\ path' = <<>> /\ handle' = [handle EXCEPT ![s] = "path"]
  /\ Enters(s)
  /\ UNCHANGED <<budget, shells, last_cwd, tmp, latest>>
Opens(s) == OpensTmp(s)

(* The bytes of new over those of old.                                     *)
Over(new, old) == new \o SubSeq(old, Len(new) + 1, Len(old))

Puts(s, bytes) ==
  /\ tmp' = IF handle[s] = "tmp" THEN Over(bytes, tmp) ELSE tmp
  /\ path' = IF handle[s] = "path" THEN Over(bytes, path) ELSE path

WritesFile(s) ==
  /\ At(s, "writes", "renames")
  /\ Puts(s, last_cwd[s])
  /\ UNCHANGED <<budget, shells, last_cwd, handle, latest, mixed, alone>>

(* The file cannot be opened, not be written to its end, or not be renamed *)
(* although it is there.  The poller has seen the directory by then and    *)
(* does not try again until it is in another.                              *)
LeavesOff(s, from) ==
  /\ At(s, from, "sleeps")
  /\ handle' = [handle EXCEPT ![s] = "none"]
  /\ alone' = IF alone = s THEN NoFile ELSE alone
  /\ UNCHANGED <<budget, shells, last_cwd, latest, mixed>>

OpenFails(s) == LeavesOff(s, "opens") /\ UNCHANGED <<tmp, path>>
WriteFails(s) ==
  /\ LeavesOff(s, "writes")
  /\ \E n \in 0..Len(last_cwd[s]) : Puts(s, SubSeq(last_cwd[s], 1, n))
RenameFails(s) == LeavesOff(s, "renames") /\ UNCHANGED <<tmp, path>>
Fails(s) == OpenFails(s) \/ WriteFails(s) \/ RenameFails(s)

(* rename takes whatever file is at the name by now, and fails if none is. *)
Moved(s, place) == IF place = "tmp" THEN "path"
                   ELSE IF place = "path" THEN "unlinked" ELSE place

Renames(s) ==
  /\ At(s, "renames", "sleeps")
  /\ IF tmp # NoFile
     THEN /\ path' = tmp /\ tmp' = NoFile /\ latest' = last_cwd[s]
          /\ handle' = [o \in Sessions |-> IF o = s THEN "none" ELSE Moved(o, handle[o])]
     ELSE handle' = [handle EXCEPT ![s] = "none"] /\ UNCHANGED <<tmp, path, latest>>
  /\ mixed' = (mixed /\ alone # s) /\ alone' = NoFile
  /\ UNCHANGED <<budget, shells, last_cwd>>

Poller(s) == Polls(s) \/ PollEnds(s) \/ Opens(s) \/ WritesFile(s) \/ Renames(s) \/ Fails(s)

(* persist_last_cwd replaces the file as a whole: it holds the directory   *)
(* that was persisted last, and a write or a rename that fails leaves it   *)
(* as it was.  The exception is when two pollers have written at the same  *)
(* time: from then on until one has written alone the file may hold parts  *)
(* of two directories, or of none.                                         *)
LastCwdKept == ~mixed => path = latest
=============================================================================
