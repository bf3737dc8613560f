---------------------------- MODULE ParentWatch ----------------------------
(***************************************************************************)
(* The parent-watch task of the daemon (haven-daemon/src/daemon.rs).       *)
(*                                                                         *)
(* The daemon may be told, on the command line or by a SetParentWatch      *)
(* request, to die with a parent process.  A polling task sleeps, reads    *)
(* the shared ParentWatchState under its mutex, RELEASES the mutex, probes *)
(* the pid it read with kill(pid, 0), and when the process is gone kills   *)
(* every session and exits.  Requests are served by other tasks, so they   *)
(* interleave between the read and the probe.                              *)
(*                                                                         *)
(* A deadline is represented by the time left until it, so that the clock  *)
(* itself needs no bound.                                                  *)
(***************************************************************************)
EXTENDS Naturals

CONSTANTS Pids,         \* process ids the app may announce
          NoPid,        \* Option<u32>::None
          NoGrace,      \* grace_until or grace_secs is None
          Forever,      \* ghost: a pause without a deadline
          MaxGrace,     \* longest grace period, in clock ticks
          MaxRequests   \* bound: SetParentWatch requests in a behaviour

ASSUME PidsAssumption  == NoPid \notin Pids
ASSUME GraceAssumption == /\ MaxGrace \in Nat
                          /\ MaxRequests \in Nat
                          /\ NoGrace \notin 0 .. MaxGrace
                          /\ Forever \notin 0 .. MaxGrace

VARIABLES
  pid,             \* ParentWatchState.pid
  last_known_pid,  \* ParentWatchState.last_known_pid
  grace_until,     \* ParentWatchState.grace_until: ticks left, or NoGrace
  pc,              \* where the polling task is
  pid_to_check,    \* its local copy of pid
  alive,           \* the processes of Pids that exist (the operating system's)
  requests,        \* SetParentWatch requests served so far
  promised,        \* ghost: quiet time the last SetParentWatch asked for
  raced            \* ghost: a request was served since the task's last read

state == <<pid, last_known_pid, grace_until>>
ghosts == <<promised, raced>>
watchVars == <<pid, last_known_pid, grace_until, pc, pid_to_check, alive,
               requests, promised, raced>>

Graces == 0 .. MaxGrace
PollerPc == {"sleeping", "probing", "killing", "settling", "exited"}

WatchTypeOK ==
  /\ pid \in Pids \cup {NoPid}
  /\ last_known_pid \in Pids \cup {NoPid}
  /\ grace_until \in Graces \cup {NoGrace}
  /\ pc \in PollerPc
  /\ pid_to_check \in Pids \cup {NoPid}
  /\ alive \subseteq Pids
  /\ requests \in 0 .. MaxRequests
  /\ promised \in Graces \cup {Forever}
  /\ raced \in BOOLEAN

-----------------------------------------------------------------------------
(* ParentWatchState::new with the --watch-parent argument.                 *)
WatchInit ==
  /\ pid \in Pids \cup {NoPid}
  /\ last_known_pid = pid
  /\ grace_until = NoGrace
  /\ pc = "sleeping"
  /\ pid_to_check = NoPid
  /\ alive = Pids
  /\ requests = 0
  /\ promised = IF pid = NoPid THEN Forever ELSE 0
  /\ raced = FALSE

(* Option<T>::or, for an absent value `none`.                              *)
OrElse(opt, none, default) == IF opt = none THEN default ELSE opt

(* The last announced pid after a request that announces new_pid.          *)
Remember(new_pid) == OrElse(new_pid, NoPid, last_known_pid)

(* The deadline of a pause has passed.                                     *)
GraceNeverExpires == FALSE                     \* Faulty
GraceIgnored == grace_until # NoGrace          \* Faulty
GraceExpired == grace_until # NoGrace /\ grace_until = 0

(* One wake-up of the task: the body of the locked block.                  *)
ReadState ==
  LET resumed == IF GraceExpired THEN OrElse(pid, NoPid, last_known_pid)
                                 ELSE pid
  IN /\ pc = "sleeping"
     /\ grace_until' = IF GraceExpired THEN NoGrace ELSE grace_until
     /\ pid' = resumed
     /\ pid_to_check' = resumed
     /\ pc' = IF resumed = NoPid THEN "sleeping" ELSE "probing"
     /\ raced' = FALSE
     /\ UNCHANGED <<last_known_pid, alive, requests, promised>>

(* pid_alive(pid): only ESRCH counts as gone.                              *)
PidAlive(p) == p \in alive

(* The probe, made after the lock was released.                            *)
Probe ==
  /\ pc = "probing"
  /\ pc' = IF PidAlive(pid_to_check) THEN "sleeping" ELSE "killing"
  /\ UNCHANGED <<state, pid_to_check, alive, requests, ghosts>>

(* kill_all returns, if it ever does: it waits for every session's mutex,  *)
(* and a connection may hold one across a write that blocks for ever       *)
(* (the run manager_stuck).  The task then sleeps 150 ms before            *)
(* process::exit.                                                          *)
KillAllDone ==
  /\ pc = "killing"
  /\ pc' = "settling"
  /\ UNCHANGED <<state, pid_to_check, alive, requests, ghosts>>

Exit ==
  /\ pc = "settling"
  /\ pc' = "exited"
  /\ UNCHANGED <<state, pid_to_check, alive, requests, ghosts>>

(* Request::SetParentWatch { pid, grace_secs }, served under the mutex.    *)
SetParentWatch(new_pid, grace_secs) ==
  /\ pc # "exited"
  /\ requests < MaxRequests
  /\ pid' = new_pid
  /\ last_known_pid' = Remember(new_pid)
  /\ grace_until' = grace_secs
  /\ requests' = requests + 1
  /\ promised' = IF new_pid # NoPid THEN 0
                 ELSE IF grace_secs = NoGrace THEN Forever ELSE grace_secs
  /\ raced' = (pc # "sleeping")
  /\ UNCHANGED <<pc, pid_to_check, alive>>

-----------------------------------------------------------------------------
(* The environment: time passes, processes die, and a pid is given again   *)
(* to a new process.                                                       *)
TimeUnderflows(t) ==                           \* Faulty
  IF t \in 0 .. MaxGrace THEN t - 1 ELSE t
LessTime(t) == IF t \in 1 .. MaxGrace THEN t - 1 ELSE t

Tick ==
  /\ grace_until \in 1 .. MaxGrace \/ promised \in 1 .. MaxGrace
  /\ grace_until' = LessTime(grace_until)
  /\ promised' = LessTime(promised)
  /\ UNCHANGED <<pid, last_known_pid, pc, pid_to_check, alive, requests, raced>>

ProcessDies(p) ==
  /\ p \in alive
  /\ alive' = alive \ {p}
  /\ UNCHANGED <<state, pc, pid_to_check, requests, ghosts>>

PidReused(p) ==
  /\ p \in Pids \ alive
  /\ alive' = alive \cup {p}
  /\ UNCHANGED <<state, pc, pid_to_check, requests, ghosts>>

Polling == ReadState \/ Probe \/ Exit
Poller == Polling \/ KillAllDone
Requests == \E p \in Pids \cup {NoPid}, g \in Graces \cup {NoGrace} :
              SetParentWatch(p, g)
System == \E p \in Pids : ProcessDies(p) \/ PidReused(p)

WatchNext == Poller \/ Requests \/ Tick \/ System

(* The runtime keeps polling the task and the clock advances; nothing is   *)
(* assumed of the app, of other processes, or of kill_all: it may hang.    *)
WatchSpec == /\ WatchInit /\ [][WatchNext]_watchVars
             /\ WF_watchVars(Polling) /\ WF_watchVars(Tick)

-----------------------------------------------------------------------------
(* Shutting down is the step that starts kill_all.                         *)
ShutsDown == pc = "probing" /\ pc' = "killing"

(* daemon.rs:160-162, the promise of a pause: as long as no request slips  *)
(* in between the task's read and its probe, the daemon never shuts down   *)
(* before the quiet time the app asked for is over, and only because the   *)
(* process it is watching right now is gone.                               *)
PauseHonoured ==
  [][ShutsDown /\ ~raced => /\ promised = 0
                            /\ pid = pid_to_check
                            /\ pid \notin alive]_watchVars

(* The process the daemon answers to: the watched one, or the last known   *)
(* one once the running grace period is over.                              *)
WatchTarget == IF pid = NoPid /\ grace_until # NoGrace THEN last_known_pid
                                                       ELSE pid

Orphaned == WatchTarget # NoPid /\ WatchTarget \notin alive

(* message.rs:122-123: neither a dead parent nor a crashed updater leaves  *)
(* the daemon orphaned for ever -- it exits unless a request or a reused   *)
(* pid gives it a living parent again, or the shutdown it began hangs in   *)
(* kill_all.                                                               *)
KillAllHangs == <>[](pc = "killing")
NeverOrphanedForever ==
  KillAllHangs \/ (Orphaned ~> (pc = "exited" \/ ~Orphaned))

(* Once a pid is known it is never forgotten, so an expired pause always   *)
(* has something to fall back to, and a live watch is on the last one.     *)
WatchesLastKnown ==
  /\ pid # NoPid => pid = last_known_pid
  /\ pc \in {"probing", "killing", "settling"} => pid_to_check # NoPid
=============================================================================
