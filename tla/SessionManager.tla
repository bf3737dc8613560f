-------------------------- MODULE SessionManager --------------------------
(***************************************************************************)
(* The registry of sessions (haven-daemon/src/session.rs) under concurrent *)
(* requests: a RwLock around the map, one Mutex per session, and the       *)
(* parent watch's kill_all followed by process::exit.                      *)
(*                                                                         *)
(* Both locks of tokio serve their waiters in order, a waiting writer of   *)
(* the RwLock included.  Most critical sections do not wait for anything   *)
(* and are one step here.  Two kinds do wait: list, and create without a   *)
(* name, hold the registry for reading while they lock every session, and  *)
(* write holds its session while the pty is full.                          *)
(***************************************************************************)
EXTENDS Naturals, Sequences

CONSTANTS Sessions,   \* session ids that create may draw
          Clients,    \* connections: each serves one request at a time
          Watcher,    \* the parent-watch task
          NoTask,     \* no owner of a session's mutex
          NoSession   \* a request that names no session

ASSUME NamesAssumption == /\ Watcher \notin Clients
                          /\ NoTask \notin Clients \cup {Watcher}
                          /\ NoSession \notin Sessions

VARIABLES
  sessions,   \* SessionManager.sessions: the ids in the map
  child,      \* the process of each session
  loose,      \* ghost: sessions whose child ran on when the daemon let go of it
  drained,    \* ghost: the sessions that kill_all took out of the registry
  op,         \* the request each task is serving
  at,         \* how far it has come
  target,     \* the session it is about
  todo,       \* sessions it has still to visit
  rqueue,     \* tasks waiting for the registry lock
  visitors,   \* tasks holding the registry lock for reading
  squeue,     \* tasks waiting for each session's mutex
  owner,      \* the task that waits inside a session's critical section
  exited      \* the daemon called process::exit

ghosts == <<loose, drained>>
locks == <<rqueue, visitors, squeue, owner>>
tasks == <<op, at, target, todo>>
vars == <<sessions, child, ghosts, tasks, locks, exited>>

Tasks == Clients \cup {Watcher}
Visits == {"list", "create"}                 \* hold the registry, lock each
Uses == {"use", "write"}                     \* get(id), then lock one
Changes == {"kill", "kill_all", "insert"}    \* take the registry for writing
Ops == Visits \cup Uses \cup Changes \cup {"none"}
Places == {"idle", "registry", "visit", "session", "writing", "spawn",
           "made", "drain", "settling"}

TypeOK ==
  /\ sessions \subseteq Sessions
  /\ loose \subseteq Sessions /\ drained \subseteq Sessions
  /\ child \in [Sessions -> {"unborn", "running", "dead"}]
  /\ op \in [Tasks -> Ops] /\ at \in [Tasks -> Places]
  /\ target \in [Tasks -> Sessions \cup {NoSession}]
  /\ todo \in [Tasks -> SUBSET Sessions]
  /\ rqueue \in Seq(Tasks) /\ visitors \subseteq Tasks
  /\ squeue \in [Sessions -> Seq(Tasks)]
  /\ owner \in [Sessions -> Tasks \cup {NoTask}]
  /\ exited \in BOOLEAN

Init ==
  /\ sessions = {} /\ loose = {} /\ drained = {}
  /\ child = [s \in Sessions |-> "unborn"]
  /\ op = [t \in Tasks |-> "none"] /\ at = [t \in Tasks |-> "idle"]
  /\ target = [t \in Tasks |-> NoSession]
  /\ todo = [t \in Tasks |-> {}]
  /\ rqueue = <<>> /\ visitors = {}
  /\ squeue = [s \in Sessions |-> <<>>]
  /\ owner = [s \in Sessions |-> NoTask]
  /\ exited = FALSE

-----------------------------------------------------------------------------
(* Where a task goes next; a task that is done waits for its next request. *)
Goes(t, place) == at' = [at EXCEPT ![t] = place]

Done(t) == /\ at' = [at EXCEPT ![t] = "idle"]
           /\ op' = [op EXCEPT ![t] = "none"]
           /\ target' = [target EXCEPT ![t] = NoSession]

WaitsFor(t, s) == /\ squeue' = [squeue EXCEPT ![s] = Append(@, t)]
                  /\ target' = [target EXCEPT ![t] = s]
                  /\ at' = [at EXCEPT ![t] = "session"]

(* A request arrives; the watcher's only one is kill_all, after the parent *)
(* has gone.  A create with a name need not look at the other sessions.    *)
Begin(t, request, s) ==
  /\ ~exited /\ at[t] = "idle"
  /\ op' = [op EXCEPT ![t] = request]
  /\ target' = [target EXCEPT ![t] = s]
  /\ Goes(t, "registry")
  /\ rqueue' = Append(rqueue, t)
  /\ UNCHANGED <<sessions, child, ghosts, todo, visitors, squeue, owner, exited>>

BeginNamedCreate(t) ==
  /\ ~exited /\ at[t] = "idle"
  /\ op' = [op EXCEPT ![t] = "create"]
  /\ Goes(t, "spawn")
  /\ UNCHANGED <<sessions, child, ghosts, target, todo, locks, exited>>

-----------------------------------------------------------------------------
(* The registry lock is granted to the task at the head of the queue; the  *)
(* section is over in the same step, except for the visiting requests.     *)
Granted(t, exclusive) ==
  /\ ~exited /\ at[t] = "registry"
  /\ rqueue # <<>> /\ Head(rqueue) = t
  /\ exclusive => visitors = {}
  /\ rqueue' = Tail(rqueue)

(* list, and the names in use for a create without a name.                 *)
StartVisit(t) ==
  /\ op[t] \in Visits
  /\ Granted(t, FALSE)
  /\ visitors' = visitors \cup {t}
  /\ todo' = [todo EXCEPT ![t] = sessions]
  /\ Goes(t, "visit")
  /\ UNCHANGED <<sessions, child, ghosts, op, target, squeue, owner, exited>>

(* get(id): write, resize, rename, subscribe, get_history, ...             *)
Lookup(t) ==
  /\ op[t] \in Uses
  /\ Granted(t, FALSE)
  /\ IF target[t] \in sessions THEN WaitsFor(t, target[t]) /\ op' = op
                               ELSE Done(t) /\ squeue' = squeue
  /\ UNCHANGED <<sessions, child, ghosts, todo, visitors, owner, exited>>

(* kill(id), first half.                                                   *)
Remove(t) ==
  /\ op[t] = "kill"
  /\ Granted(t, TRUE)
  /\ sessions' = sessions \ {target[t]}
  /\ IF target[t] \in sessions THEN WaitsFor(t, target[t]) /\ op' = op
                               ELSE Done(t) /\ squeue' = squeue
  /\ UNCHANGED <<child, ghosts, todo, visitors, owner, exited>>

(* kill_all(), first half.                                                 *)
Drain(t) ==
  /\ op[t] = "kill_all"
  /\ Granted(t, TRUE)
  /\ todo' = [todo EXCEPT ![t] = sessions]
  /\ sessions' = {} /\ drained' = sessions
  /\ Goes(t, "drain")
  /\ UNCHANGED <<child, loose, op, target, visitors, squeue, owner, exited>>

(* Faulty: the id is forgotten before it is used.                          *)
InsertForgotten(t) ==
  /\ op[t] = "insert"
  /\ Granted(t, TRUE)
  /\ Done(t)
  /\ sessions' = sessions \cup {target'[t]}
  /\ UNCHANGED <<child, ghosts, todo, visitors, squeue, owner, exited>>

(* create, last step.                                                      *)
Insert(t) ==
  /\ op[t] = "insert"
  /\ Granted(t, TRUE)
  /\ sessions' = sessions \cup {target[t]}
  /\ Done(t)
  /\ UNCHANGED <<child, ghosts, todo, visitors, squeue, owner, exited>>

-----------------------------------------------------------------------------
(* A visiting request or kill_all goes on to some session, in the order of *)
(* the hash map, and ends when none is left.                               *)
NextSession(t) ==
  /\ ~exited /\ at[t] \in {"visit", "drain"}
  /\ \E s \in todo[t] : WaitsFor(t, s)
  /\ UNCHANGED <<sessions, child, ghosts, op, todo, rqueue, visitors, owner, exited>>

EndVisitWith(t, released) ==
  /\ ~exited /\ at[t] = "visit" /\ todo[t] = {}
  /\ visitors' = visitors \ released
  /\ IF op[t] = "list" THEN Done(t)
                       ELSE Goes(t, "spawn") /\ UNCHANGED <<op, target>>
  /\ UNCHANGED <<sessions, child, ghosts, todo, rqueue, squeue, owner, exited>>

EndVisitLocked(t) == EndVisitWith(t, {})     \* Faulty
EndVisit(t) == EndVisitWith(t, {t})

EndDrain(t) ==
  /\ ~exited /\ at[t] = "drain" /\ todo[t] = {}
  /\ Goes(t, "settling")
  /\ UNCHANGED <<sessions, child, ghosts, op, target, todo, locks, exited>>

(* 150 ms later, the daemon exits.                                         *)
Exit(t) ==
  /\ ~exited /\ at[t] = "settling"
  /\ exited' = TRUE
  /\ UNCHANGED <<sessions, child, ghosts, tasks, locks>>

-----------------------------------------------------------------------------
(* A session's mutex is granted to the task at the head of its queue.      *)
Locks(t) ==
  LET s == target[t]
  IN /\ ~exited /\ at[t] = "session"
     /\ squeue[s] # <<>> /\ Head(squeue[s]) = t /\ owner[s] = NoTask
     /\ squeue' = [squeue EXCEPT ![s] = Tail(@)]

(* sess.info is copied; the next session's turn.                           *)
VisitSession(t) ==
  /\ op[t] \in Visits
  /\ Locks(t)
  /\ todo' = [todo EXCEPT ![t] = @ \ {target[t]}]
  /\ Goes(t, "visit")
  /\ UNCHANGED <<sessions, child, ghosts, op, target, rqueue, visitors, owner, exited>>

(* Requests that do not wait while they hold the session, among them a     *)
(* write the pty has room for or refuses.                                  *)
UseSession(t) ==
  /\ op[t] \in Uses
  /\ Locks(t)
  /\ Done(t)
  /\ UNCHANGED <<sessions, child, ghosts, todo, rqueue, visitors, owner, exited>>

(* PtyHandle::write blocks: the program does not read its input.           *)
WriteBlocks(t) ==
  /\ op[t] = "write" /\ child[target[t]] = "running"
  /\ Locks(t)
  /\ owner' = [owner EXCEPT ![target[t]] = t]
  /\ Goes(t, "writing")
  /\ UNCHANGED <<sessions, child, ghosts, op, target, todo, rqueue, visitors, exited>>

EndsWrite(t) ==
  /\ ~exited /\ at[t] = "writing"
  /\ owner' = [owner EXCEPT ![target[t]] = NoTask]
  /\ Done(t)
  /\ UNCHANGED <<sessions, child, ghosts, todo, rqueue, visitors, squeue, exited>>

WriteFails(t) == EndsWrite(t) /\ child[target[t]] = "dead"
WriteTaken(t) == EndsWrite(t) /\ child[target[t]] = "running"

(* PtyHandle::kill, which fails if the child may not be signalled.         *)
Signal(s) ==
  \/ child' = [child EXCEPT ![s] = "dead"] /\ loose' = loose
  \/ /\ child[s] = "running"
     /\ loose' = loose \cup {s} /\ child' = child

(* kill(id), second half.                                                  *)
KillSession(t) ==
  /\ op[t] = "kill"
  /\ Locks(t)
  /\ Signal(target[t])
  /\ Done(t)
  /\ UNCHANGED <<sessions, drained, todo, rqueue, visitors, owner, exited>>

(* kill_all(): a failure is logged and the next one is killed.             *)
KillDrainedThen(t, left) ==
  /\ op[t] = "kill_all"
  /\ Locks(t)
  /\ Signal(target[t])
  /\ todo' = [todo EXCEPT ![t] = left]
  /\ Goes(t, "drain")
  /\ UNCHANGED <<sessions, drained, op, target, rqueue, visitors, owner, exited>>

(* Faulty: a session that could not be killed is tried again.              *)
KillUntilDead(t) == KillDrainedThen(t, todo[t] \ ({target[t]} \ loose'))

(* Faulty: kill_all ends with the first failure.                           *)
KillAllGivesUp(t) ==
  KillDrainedThen(t, IF loose' = loose THEN todo[t] \ {target[t]} ELSE {})

KillDrained(t) == KillDrainedThen(t, todo[t] \ {target[t]})

-----------------------------------------------------------------------------
(* create: the pty and its child, then the transcript files; if these fail *)
(* the PtyHandle is dropped, which kills the child as well as it can.      *)
Spawn(t) ==
  /\ ~exited /\ at[t] = "spawn"
  /\ \E s \in Sessions : /\ child[s] = "unborn"
                         /\ child' = [child EXCEPT ![s] = "running"]
                         /\ target' = [target EXCEPT ![t] = s]
  /\ Goes(t, "made")
  /\ UNCHANGED <<sessions, ghosts, op, todo, locks, exited>>

(* PtyHandle::spawn fails before there is a child (or this model has run   *)
(* out of ids), or when the master's reader or writer cannot be had: the   *)
(* child that was spawned is then dropped, and not killed.                 *)
SpawnFails(t) ==
  /\ ~exited /\ at[t] = "spawn"
  /\ Done(t)
  /\ \/ UNCHANGED <<child, loose>>
     \/ \E s \in Sessions : /\ child[s] = "unborn"
                            /\ child' = [child EXCEPT ![s] = "running"]
                            /\ loose' = loose \cup {s}
  /\ UNCHANGED <<sessions, drained, todo, locks, exited>>

Abandon(t) ==
  /\ ~exited /\ at[t] = "made"
  /\ Signal(target[t])
  /\ Done(t)
  /\ UNCHANGED <<sessions, drained, todo, locks, exited>>

SetUp(t) ==
  /\ ~exited /\ at[t] = "made"
  /\ op' = [op EXCEPT ![t] = "insert"]
  /\ Goes(t, "registry")
  /\ rqueue' = Append(rqueue, t)
  /\ UNCHANGED <<sessions, child, ghosts, target, todo, visitors, squeue, owner, exited>>

ChildExits(s) ==
  /\ child[s] = "running"
  /\ child' = [child EXCEPT ![s] = "dead"]
  /\ UNCHANGED <<sessions, ghosts, tasks, locks, exited>>

-----------------------------------------------------------------------------
Requests(t) ==
  \/ BeginNamedCreate(t)
  \/ \E request \in Visits : Begin(t, request, NoSession)
  \/ \E request \in Uses \cup {"kill"}, s \in Sessions :
       child[s] # "unborn" /\ Begin(t, request, s)

(* What a task does by itself once its request has begun.                  *)
Proceeds(t) ==
  \/ StartVisit(t) \/ Lookup(t) \/ Remove(t) \/ Drain(t) \/ Insert(t)
  \/ NextSession(t) \/ EndVisit(t) \/ EndDrain(t) \/ Exit(t)
  \/ VisitSession(t) \/ UseSession(t) \/ WriteBlocks(t) \/ WriteFails(t)
  \/ KillSession(t) \/ KillDrained(t)
  \/ Spawn(t) \/ SpawnFails(t) \/ Abandon(t) \/ SetUp(t)

Next ==
  \/ \E t \in Clients : Requests(t)
  \/ op[Watcher] = "none" /\ Begin(Watcher, "kill_all", NoSession)
  \/ \E t \in Tasks : Proceeds(t) \/ WriteTaken(t)
  \/ \E s \in Sessions : ChildExits(s)

(* Tasks that can go on do; a write that is blocked may stay so as long as *)
(* the program runs.                                                       *)
Spec == Init /\ [][Next]_vars /\ \A t \in Tasks : WF_vars(Proceeds(t))

(* Programs read their input in the end.                                   *)
SpecReading == Spec /\ \A t \in Tasks : WF_vars(WriteTaken(t))

-----------------------------------------------------------------------------
(* session.rs:67-153 and 266-281: a running child is in the registry, or   *)
(* some task is about to put it there or to kill it; session.rs:338-341:   *)
(* nothing that kill_all found outlives the daemon.  No order of creates   *)
(* and kills loses another child than those the daemon had to let go: one  *)
(* that could not be signalled, or whose pty failed when it was spawned.   *)
(* (The comment there promises it of all children; one that a create or a  *)
(* kill in progress has outside of the registry is not found.)             *)
Holds(t, s) ==
  \/ target[t] = s /\ (at[t] = "made" \/ op[t] = "insert")
  \/ op[t] = "kill" /\ at[t] = "session" /\ target[t] = s
  \/ op[t] = "kill_all" /\ s \in todo[t]

InHand(s) == \E t \in Tasks : Holds(t, s)

NoLostChild ==
  \A s \in Sessions : child[s] = "running" /\ s \notin loose =>
    /\ ~exited => s \in sessions \/ InHand(s)
    /\ exited => s \notin drained

(* Every request is answered: whatever the requests, no task waits for a   *)
(* lock for ever.                                                          *)
RequestsFinish == \A t \in Clients : at[t] # "idle" ~> (at[t] = "idle" \/ exited)

(* daemon.rs:160-161: when the parent is gone, all sessions are killed and *)
(* the daemon exits.                                                       *)
ShutdownEnds == at[Watcher] # "idle" ~> exited
=============================================================================
