----------------------- MODULE SessionManager_proof -----------------------
(***************************************************************************)
(* For any sessions and any number of clients: the registry keeps its      *)
(* types, and no interleaving of create, kill and kill_all loses a running *)
(* child.                                                                  *)
(*                                                                         *)
(* The inductive invariant adds which requests can be at which place, and  *)
(* that only a visiting request or kill_all has sessions left to visit: a  *)
(* list of sessions left over from an earlier request would let kill_all   *)
(* seem to look after a session it never sees.                             *)
(* For what outlives the daemon it adds that only the watcher drains the   *)
(* registry, once, and that nothing is left to visit when it exits.        *)
(***************************************************************************)
EXTENDS SessionManager, TLAPS

USE DEF ghosts

Places1(t) ==
  /\ at[t] = "idle" => op[t] = "none"
  /\ at[t] = "visit" => op[t] \in Visits
  /\ at[t] \in {"spawn", "made"} => op[t] = "create"
  /\ at[t] \in {"drain", "settling"} => op[t] = "kill_all"
  /\ at[t] = "session" => op[t] \in Visits \cup Uses \cup {"kill", "kill_all"}
  /\ at[t] = "writing" => op[t] = "write"
  /\ op[t] = "insert" => at[t] = "registry"
  /\ at[t] \in {"made", "session"} \/ op[t] = "insert" => target[t] \in Sessions

LeftToDo(t) ==
  todo[t] # {} => /\ op[t] \in Visits \cup {"kill_all"}
                  /\ at[t] \in {"visit", "drain", "session"}

Stages == \A t \in Tasks : Places1(t) /\ LeftToDo(t)

(* A running child is known to the daemon, or was let go.                  *)
Tracked ==
  \A s \in Sessions :
    child[s] = "running" => s \in sessions \cup loose \/ InHand(s)

IInv == TypeOK /\ Stages /\ Tracked

LEMMA InitIInv == Init => IInv
<1> SUFFICES ASSUME Init PROVE IInv
  OBVIOUS
<1>1. rqueue \in Seq(Tasks) /\ squeue \in [Sessions -> Seq(Tasks)]
  BY DEF Init
<1>2. TypeOK
  BY <1>1 DEF Init, TypeOK, Ops, Places
<1>3. Stages /\ Tracked
  BY DEF Init, Stages, Places1, LeftToDo, Tracked
<1>4. QED
  BY <1>2, <1>3 DEF IInv

-----------------------------------------------------------------------------
(* A request begins.                                                       *)
LEMMA BeginStep ==
  ASSUME IInv, NEW t \in Tasks, NEW request \in Ops,
         NEW s \in Sessions \cup {NoSession},
         request \notin {"insert", "none"}, Begin(t, request, s)
  PROVE  IInv'
<1> USE DEF IInv, Begin, Goes
<1>1. TypeOK'
  BY DEF TypeOK, Places
<1>2. Stages'
  BY DEF TypeOK, Stages, Places1, LeftToDo
<1>3. Tracked'
  BY DEF TypeOK, Stages, Places1, LeftToDo, Tracked, InHand, Holds
<1>4. QED
  BY <1>1, <1>2, <1>3

LEMMA NamedStep ==
  ASSUME IInv, NEW t \in Tasks, BeginNamedCreate(t)
  PROVE  IInv'
<1> USE DEF IInv, BeginNamedCreate, Goes, locks
<1>1. TypeOK'
  BY DEF TypeOK, Places, Ops, Visits
<1>2. Stages'
  BY DEF TypeOK, Stages, Places1, LeftToDo
<1>3. Tracked'
  BY DEF TypeOK, Stages, Places1, LeftToDo, Tracked, InHand, Holds
<1>4. QED
  BY <1>1, <1>2, <1>3

-----------------------------------------------------------------------------
(* The queues keep their types when a lock is asked for and granted.       *)
LEMMA QueueTypes ==
  ASSUME TypeOK, NEW t \in Tasks
  PROVE  /\ Locks(t) => squeue' \in [Sessions -> Seq(Tasks)]
         /\ \A s \in Sessions : WaitsFor(t, s) =>
              /\ squeue' \in [Sessions -> Seq(Tasks)]
              /\ target' \in [Tasks -> Sessions \cup {NoSession}]
              /\ at' \in [Tasks -> Places]
         /\ \A x \in BOOLEAN : Granted(t, x) => rqueue' \in Seq(Tasks)
<1>1. ASSUME Locks(t) PROVE squeue' \in [Sessions -> Seq(Tasks)]
  <2> DEFINE s == target[t]
  <2>1. squeue[s] # <<>> /\ squeue' = [squeue EXCEPT ![s] = Tail(@)]
    BY <1>1 DEF Locks
  <2>2. CASE s \in Sessions
    <3>1. Tail(squeue[s]) \in Seq(Tasks)
      BY <2>1, <2>2 DEF TypeOK
    <3>2. QED
      BY <2>1, <3>1 DEF TypeOK
  <2>3. CASE s \notin Sessions
    BY <2>1, <2>3 DEF TypeOK
  <2>4. QED
    BY <2>2, <2>3
<1>2. ASSUME NEW s \in Sessions, WaitsFor(t, s)
      PROVE  /\ squeue' \in [Sessions -> Seq(Tasks)]
             /\ target' \in [Tasks -> Sessions \cup {NoSession}]
             /\ at' \in [Tasks -> Places]
  <2>1. Append(squeue[s], t) \in Seq(Tasks)
    BY DEF TypeOK
  <2>2. QED
    BY <1>2, <2>1 DEF TypeOK, WaitsFor, Places
<1>3. ASSUME NEW x \in BOOLEAN, Granted(t, x) PROVE rqueue' \in Seq(Tasks)
  BY <1>3 DEF TypeOK, Granted
<1>4. QED
  BY <1>1, <1>2, <1>3

(* A child that is running stays in hand if every step that could lose it  *)
(* is one of task t, and t does not.                                       *)
LEMMA KeepsChildren ==
  ASSUME Tracked, NEW t \in Tasks,
         \A u \in Tasks \ {t} : /\ op'[u] = op[u] /\ at'[u] = at[u]
                                /\ target'[u] = target[u] /\ todo'[u] = todo[u],
         \A s \in Sessions : child'[s] = "running" =>
           \/ s \in sessions' \cup loose'
           \/ Holds(t, s)'
           \/ /\ child[s] = "running" /\ s \notin sessions \cup loose
              /\ ~Holds(t, s)
  PROVE  Tracked'
<1> SUFFICES ASSUME NEW s \in Sessions, child'[s] = "running",
                    s \notin sessions' \cup loose', ~Holds(t, s)'
             PROVE  InHand(s)'
  BY DEF Tracked, InHand
<1>1. PICK u \in Tasks : Holds(u, s) /\ u # t
  BY DEF Tracked, InHand
<1>2. Holds(u, s)'
  BY <1>1 DEF Holds
<1>3. QED
  BY <1>2 DEF InHand

-----------------------------------------------------------------------------
(* A request goes on.                                                      *)
LEMMA ProceedsStep ==
  ASSUME IInv, NEW t \in Tasks, Proceeds(t)
  PROVE  IInv'
<1> USE DEF IInv
<1>1. CASE StartVisit(t)
  <2>1. TypeOK'
    BY <1>1
       DEF StartVisit, Granted, Goes, Done, TypeOK, Stages, Places1, Places,
           Ops, Visits, Uses, Changes
  <2>2. Stages'
    BY <1>1
       DEF StartVisit, Granted, Goes, Done, TypeOK, Stages, Places1, LeftToDo,
           Visits, Uses
  <2>3. \A u \in Tasks \ {t} : /\ op'[u] = op[u] /\ at'[u] = at[u]
                                 /\ target'[u] = target[u] /\ todo'[u] = todo[u]
    BY <1>1 DEF StartVisit, Granted, Goes, Done, TypeOK
  <2>4. Tracked'
    BY <2>3, <1>1, KeepsChildren
       DEF StartVisit, Granted, Goes, Done, TypeOK, Stages, Places1, LeftToDo,
           Holds, Visits, Uses
  <2>5. QED
    BY <2>1, <2>2, <2>4
<1>2. CASE Lookup(t)
  <2>1. CASE target[t] \in sessions
    <3>f. /\ at[t] = "registry" /\ op[t] \in Uses \cup {"kill"} /\ op' = op
          /\ UNCHANGED <<child, ghosts, todo, visitors, owner, exited>>
          /\ sessions' = sessions
      BY <1>2, <2>1 DEF Lookup, Granted, Uses
    <3>q. WaitsFor(t, target[t]) /\ target[t] \in Sessions
      BY <1>2, <2>1 DEF Lookup, TypeOK
    <3>r. rqueue' \in Seq(Tasks) /\ squeue' \in [Sessions -> Seq(Tasks)]
      BY <1>2, <3>q, QueueTypes DEF Lookup
    <3>1. TypeOK'
      BY <3>r, QueueTypes, <2>1, <3>f, <3>q
         DEF WaitsFor, TypeOK, Stages, Places1, Places, Ops, Visits, Uses,
             Changes
    <3>2. Stages'
      BY <2>1, <3>f, <3>q
         DEF WaitsFor, TypeOK, Stages, Places1, LeftToDo, Visits, Uses
    <3>3. \A u \in Tasks \ {t} : /\ op'[u] = op[u] /\ at'[u] = at[u]
                                   /\ target'[u] = target[u] /\ todo'[u] = todo[u]
      BY <2>1, <3>f, <3>q DEF WaitsFor, TypeOK
    <3>4. Tracked'
      BY <3>3, <2>1, <3>f, <3>q, KeepsChildren
         DEF WaitsFor, TypeOK, Stages, Places1, LeftToDo, Holds, Visits, Uses
    <3>5. QED
      BY <3>1, <3>2, <3>4
  <2>2. CASE target[t] \notin sessions
    <3>f. /\ at[t] = "registry" /\ op[t] \in Uses \cup {"kill"} /\ squeue' = squeue
          /\ UNCHANGED <<child, ghosts, todo, visitors, owner, exited>>
          /\ sessions' = sessions
      BY <1>2, <2>2 DEF Lookup, Granted, Uses
    <3>q. Done(t)
      BY <1>2, <2>2 DEF Lookup
    <3>r. rqueue' \in Seq(Tasks)
      BY <1>2, QueueTypes DEF Lookup
    <3>1. TypeOK'
      BY <3>r, <3>f, <3>q DEF Done, TypeOK, Places, Ops
    <3>2. Stages'
      BY <3>f, <3>q DEF Done, TypeOK, Stages, Places1, LeftToDo, Visits, Uses
    <3>3. \A u \in Tasks \ {t} : /\ op'[u] = op[u] /\ at'[u] = at[u]
                                   /\ target'[u] = target[u] /\ todo'[u] = todo[u]
      BY <3>f, <3>q DEF Done, TypeOK
    <3>4. Tracked'
      BY <3>3, <3>f, <3>q, KeepsChildren
         DEF Done, TypeOK, Stages, Places1, LeftToDo, Holds, Visits, Uses
    <3>5. QED
      BY <3>1, <3>2, <3>4
  <2>3. QED
    BY <2>1, <2>2
<1>3. CASE Remove(t)
  <2>1. CASE target[t] \in sessions
    <3>f. /\ at[t] = "registry" /\ op[t] \in Uses \cup {"kill"} /\ op' = op
          /\ UNCHANGED <<child, ghosts, todo, visitors, owner, exited>>
          /\ sessions' = sessions \ {target[t]} /\ op[t] = "kill"
      BY <1>3, <2>1 DEF Remove, Granted, Uses
    <3>q. WaitsFor(t, target[t]) /\ target[t] \in Sessions
      BY <1>3, <2>1 DEF Remove, TypeOK
    <3>r. rqueue' \in Seq(Tasks) /\ squeue' \in [Sessions -> Seq(Tasks)]
      BY <1>3, <3>q, QueueTypes DEF Remove
    <3>1. TypeOK'
      BY <3>r, QueueTypes, <2>1, <3>f, <3>q
         DEF WaitsFor, TypeOK, Stages, Places1, Places, Ops, Visits, Uses,
             Changes
    <3>2. Stages'
      BY <2>1, <3>f, <3>q
         DEF WaitsFor, TypeOK, Stages, Places1, LeftToDo, Visits, Uses
    <3>3. \A u \in Tasks \ {t} : /\ op'[u] = op[u] /\ at'[u] = at[u]
                                   /\ target'[u] = target[u] /\ todo'[u] = todo[u]
      BY <2>1, <3>f, <3>q DEF WaitsFor, TypeOK
    <3>4. Tracked'
      BY <3>3, <2>1, <3>f, <3>q, KeepsChildren
         DEF WaitsFor, TypeOK, Stages, Places1, LeftToDo, Holds, Visits, Uses
    <3>5. QED
      BY <3>1, <3>2, <3>4
  <2>2. CASE target[t] \notin sessions
    <3>f. /\ at[t] = "registry" /\ op[t] \in Uses \cup {"kill"} /\ squeue' = squeue
          /\ UNCHANGED <<child, ghosts, todo, visitors, owner, exited>>
          /\ sessions' = sessions
      BY <1>3, <2>2 DEF Remove, Granted, Uses, TypeOK
    <3>q. Done(t)
      BY <1>3, <2>2 DEF Remove
    <3>r. rqueue' \in Seq(Tasks)
      BY <1>3, QueueTypes DEF Remove
    <3>1. TypeOK'
      BY <3>r, <3>f, <3>q DEF Done, TypeOK, Places, Ops
    <3>2. Stages'
      BY <3>f, <3>q DEF Done, TypeOK, Stages, Places1, LeftToDo, Visits, Uses
    <3>3. \A u \in Tasks \ {t} : /\ op'[u] = op[u] /\ at'[u] = at[u]
                                   /\ target'[u] = target[u] /\ todo'[u] = todo[u]
      BY <3>f, <3>q DEF Done, TypeOK
    <3>4. Tracked'
      BY <3>3, <3>f, <3>q, KeepsChildren
         DEF Done, TypeOK, Stages, Places1, LeftToDo, Holds, Visits, Uses
    <3>5. QED
      BY <3>1, <3>2, <3>4
  <2>3. QED
    BY <2>1, <2>2
<1>4. CASE Drain(t)
  <2>1. TypeOK'
    BY <1>4
       DEF Drain, Granted, Goes, Done, TypeOK, Stages, Places1, Places, Ops,
           Visits, Uses, Changes
  <2>2. Stages'
    BY <1>4
       DEF Drain, Granted, Goes, Done, TypeOK, Stages, Places1, LeftToDo,
           Visits, Uses
  <2>3. \A u \in Tasks \ {t} : /\ op'[u] = op[u] /\ at'[u] = at[u]
                                 /\ target'[u] = target[u] /\ todo'[u] = todo[u]
    BY <1>4 DEF Drain, Granted, Goes, Done, TypeOK
  <2>4. Tracked'
    BY <2>3, <1>4, KeepsChildren
       DEF Drain, Granted, Goes, Done, TypeOK, Stages, Places1, LeftToDo, Holds,
           Visits, Uses
  <2>5. QED
    BY <2>1, <2>2, <2>4
<1>5. CASE Insert(t)
  <2>1. TypeOK'
    BY <1>5
       DEF Insert, Granted, Goes, Done, TypeOK, Stages, Places1, Places, Ops,
           Visits, Uses, Changes
  <2>2. Stages'
    BY <1>5
       DEF Insert, Granted, Goes, Done, TypeOK, Stages, Places1, LeftToDo,
           Visits, Uses
  <2>3. \A u \in Tasks \ {t} : /\ op'[u] = op[u] /\ at'[u] = at[u]
                                 /\ target'[u] = target[u] /\ todo'[u] = todo[u]
    BY <1>5 DEF Insert, Granted, Goes, Done, TypeOK
  <2>4. Tracked'
    BY <2>3, <1>5, KeepsChildren
       DEF Insert, Granted, Goes, Done, TypeOK, Stages, Places1, LeftToDo,
           Holds, Visits, Uses
  <2>5. QED
    BY <2>1, <2>2, <2>4
<1>6. CASE NextSession(t)
  <2>1. PICK s \in todo[t] : WaitsFor(t, s)
    BY <1>6 DEF NextSession
  <2>2. s \in Sessions
    BY <2>1 DEF TypeOK
  <2>3. squeue' \in [Sessions -> Seq(Tasks)]
    BY <2>1, <2>2, QueueTypes
  <2>4. TypeOK'
    BY <1>6, <2>1, <2>2, <2>3 DEF NextSession, WaitsFor, TypeOK, Places
  <2>5. Stages'
    BY <1>6, <2>1, <2>2
       DEF NextSession, WaitsFor, TypeOK, Stages, Places1, LeftToDo, Visits,
           Uses
  <2>6. Tracked'
    BY <1>6, <2>1, <2>2
       DEF NextSession, WaitsFor, TypeOK, Stages, Places1, LeftToDo,
           Tracked, InHand, Holds, Visits, Uses
  <2>7. QED
    BY <2>4, <2>5, <2>6
<1>7. CASE EndVisit(t)
  <2>f. /\ at[t] = "visit" /\ todo[t] = {} /\ visitors' = visitors \ {t}
        /\ UNCHANGED <<sessions, child, ghosts, todo, rqueue, squeue, owner, exited>>
    BY <1>7 DEF EndVisit, EndVisitWith
  <2>1. CASE op[t] = "list"
    <3>q. Done(t)
      BY <1>7, <2>1 DEF EndVisit, EndVisitWith
    <3>1. TypeOK'
      BY <2>f, <2>1, <3>q
         DEF Done, Goes, TypeOK, Stages, Places1, Places, Ops, Visits, Uses,
             Changes
    <3>2. Stages'
      BY <2>f, <2>1, <3>q
         DEF Done, Goes, TypeOK, Stages, Places1, LeftToDo, Visits, Uses
    <3>3. \A u \in Tasks \ {t} : /\ op'[u] = op[u] /\ at'[u] = at[u]
                                   /\ target'[u] = target[u] /\ todo'[u] = todo[u]
      BY <2>f, <2>1, <3>q DEF Done, Goes, TypeOK
    <3>4. Tracked'
      BY <3>3, <2>f, <2>1, <3>q, KeepsChildren
         DEF Done, Goes, TypeOK, Stages, Places1, LeftToDo, Holds, Visits, Uses
    <3>5. QED
      BY <3>1, <3>2, <3>4
  <2>2. CASE op[t] # "list"
    <3>q. Goes(t, "spawn") /\ UNCHANGED <<op, target>>
      BY <1>7, <2>2 DEF EndVisit, EndVisitWith
    <3>1. TypeOK'
      BY <2>f, <2>2, <3>q
         DEF Done, Goes, TypeOK, Stages, Places1, Places, Ops, Visits, Uses,
             Changes
    <3>2. Stages'
      BY <2>f, <2>2, <3>q
         DEF Done, Goes, TypeOK, Stages, Places1, LeftToDo, Visits, Uses
    <3>3. \A u \in Tasks \ {t} : /\ op'[u] = op[u] /\ at'[u] = at[u]
                                   /\ target'[u] = target[u] /\ todo'[u] = todo[u]
      BY <2>f, <2>2, <3>q DEF Done, Goes, TypeOK
    <3>4. Tracked'
      BY <3>3, <2>f, <2>2, <3>q, KeepsChildren
         DEF Done, Goes, TypeOK, Stages, Places1, LeftToDo, Holds, Visits, Uses
    <3>5. QED
      BY <3>1, <3>2, <3>4
  <2>3. QED
    BY <2>1, <2>2
<1>8. CASE EndDrain(t)
  <2>1. TypeOK'
    BY <1>8
       DEF EndDrain, locks, Goes, Done, TypeOK, Stages, Places1, Places, Ops,
           Visits, Uses, Changes
  <2>2. Stages'
    BY <1>8
       DEF EndDrain, locks, Goes, Done, TypeOK, Stages, Places1, LeftToDo,
           Visits, Uses
  <2>3. \A u \in Tasks \ {t} : /\ op'[u] = op[u] /\ at'[u] = at[u]
                                 /\ target'[u] = target[u] /\ todo'[u] = todo[u]
    BY <1>8 DEF EndDrain, locks, Goes, Done, TypeOK
  <2>4. Tracked'
    BY <2>3, <1>8, KeepsChildren
       DEF EndDrain, locks, Goes, Done, TypeOK, Stages, Places1, LeftToDo,
           Holds, Visits, Uses
  <2>5. QED
    BY <2>1, <2>2, <2>4
<1>9. CASE Exit(t)
  <2>1. TypeOK'
    BY <1>9
       DEF Exit, tasks, locks, Goes, Done, TypeOK, Stages, Places1, Places, Ops,
           Visits, Uses, Changes
  <2>2. Stages'
    BY <1>9
       DEF Exit, tasks, locks, Goes, Done, TypeOK, Stages, Places1, LeftToDo,
           Visits, Uses
  <2>3. \A u \in Tasks \ {t} : /\ op'[u] = op[u] /\ at'[u] = at[u]
                                 /\ target'[u] = target[u] /\ todo'[u] = todo[u]
    BY <1>9 DEF Exit, tasks, locks, Goes, Done, TypeOK
  <2>4. Tracked'
    BY <2>3, <1>9, KeepsChildren
       DEF Exit, tasks, locks, Goes, Done, TypeOK, Stages, Places1, LeftToDo,
           Holds, Visits, Uses
  <2>5. QED
    BY <2>1, <2>2, <2>4
<1>10. CASE VisitSession(t)
  <2>q. squeue' \in [Sessions -> Seq(Tasks)]
    BY <1>10, QueueTypes DEF VisitSession
  <2>1. TypeOK'
    BY <2>q, <1>10
       DEF VisitSession, Locks, Goes, Done, TypeOK, Stages, Places1, Places,
           Ops, Visits, Uses, Changes
  <2>2. Stages'
    BY <1>10
       DEF VisitSession, Locks, Goes, Done, TypeOK, Stages, Places1, LeftToDo,
           Visits, Uses
  <2>3. \A u \in Tasks \ {t} : /\ op'[u] = op[u] /\ at'[u] = at[u]
                                 /\ target'[u] = target[u] /\ todo'[u] = todo[u]
    BY <1>10 DEF VisitSession, Locks, Goes, Done, TypeOK
  <2>4. Tracked'
    BY <2>3, <1>10, KeepsChildren
       DEF VisitSession, Locks, Goes, Done, TypeOK, Stages, Places1, LeftToDo,
           Holds, Visits, Uses
  <2>5. QED
    BY <2>1, <2>2, <2>4
<1>11. CASE UseSession(t)
  <2>q. squeue' \in [Sessions -> Seq(Tasks)]
    BY <1>11, QueueTypes DEF UseSession
  <2>1. TypeOK'
    BY <2>q, <1>11
       DEF UseSession, Locks, Goes, Done, TypeOK, Stages, Places1, Places, Ops,
           Visits, Uses, Changes
  <2>2. Stages'
    BY <1>11
       DEF UseSession, Locks, Goes, Done, TypeOK, Stages, Places1, LeftToDo,
           Visits, Uses
  <2>3. \A u \in Tasks \ {t} : /\ op'[u] = op[u] /\ at'[u] = at[u]
                                 /\ target'[u] = target[u] /\ todo'[u] = todo[u]
    BY <1>11 DEF UseSession, Locks, Goes, Done, TypeOK
  <2>4. Tracked'
    BY <2>3, <1>11, KeepsChildren
       DEF UseSession, Locks, Goes, Done, TypeOK, Stages, Places1, LeftToDo,
           Holds, Visits, Uses
  <2>5. QED
    BY <2>1, <2>2, <2>4
<1>12. CASE WriteBlocks(t)
  <2>q. squeue' \in [Sessions -> Seq(Tasks)]
    BY <1>12, QueueTypes DEF WriteBlocks
  <2>1. TypeOK'
    BY <2>q, <1>12
       DEF WriteBlocks, Locks, Goes, Done, TypeOK, Stages, Places1, Places, Ops,
           Visits, Uses, Changes
  <2>2. Stages'
    BY <1>12
       DEF WriteBlocks, Locks, Goes, Done, TypeOK, Stages, Places1, LeftToDo,
           Visits, Uses
  <2>3. \A u \in Tasks \ {t} : /\ op'[u] = op[u] /\ at'[u] = at[u]
                                 /\ target'[u] = target[u] /\ todo'[u] = todo[u]
    BY <1>12 DEF WriteBlocks, Locks, Goes, Done, TypeOK
  <2>4. Tracked'
    BY <2>3, <1>12, KeepsChildren
       DEF WriteBlocks, Locks, Goes, Done, TypeOK, Stages, Places1, LeftToDo,
           Holds, Visits, Uses
  <2>5. QED
    BY <2>1, <2>2, <2>4
<1>13. CASE WriteFails(t)
  <2>1. TypeOK'
    BY <1>13
       DEF WriteFails, EndsWrite, Goes, Done, TypeOK, Stages, Places1, Places,
           Ops, Visits, Uses, Changes
  <2>2. Stages'
    BY <1>13
       DEF WriteFails, EndsWrite, Goes, Done, TypeOK, Stages, Places1, LeftToDo,
           Visits, Uses
  <2>3. \A u \in Tasks \ {t} : /\ op'[u] = op[u] /\ at'[u] = at[u]
                                 /\ target'[u] = target[u] /\ todo'[u] = todo[u]
    BY <1>13 DEF WriteFails, EndsWrite, Goes, Done, TypeOK
  <2>4. Tracked'
    BY <2>3, <1>13, KeepsChildren
       DEF WriteFails, EndsWrite, Goes, Done, TypeOK, Stages, Places1, LeftToDo,
           Holds, Visits, Uses
  <2>5. QED
    BY <2>1, <2>2, <2>4
<1>14. CASE KillSession(t)
  <2>q. squeue' \in [Sessions -> Seq(Tasks)] /\ target[t] \in Sessions
    BY <1>14, QueueTypes DEF KillSession, Stages, Places1, Locks
  <2>1. CASE child' = [child EXCEPT ![target[t]] = "dead"] /\ loose' = loose
    <3>1. TypeOK'
      BY <1>14, <2>1, <2>q
         DEF KillSession, Locks, Done, TypeOK, Stages, Places1, Places, Ops,
             Visits, Uses, Changes
    <3>2. Stages'
      BY <1>14, <2>1, <2>q
         DEF KillSession, Locks, Done, TypeOK, Stages, Places1, LeftToDo,
             Visits, Uses
    <3>3. \A u \in Tasks \ {t} : /\ op'[u] = op[u] /\ at'[u] = at[u]
                                   /\ target'[u] = target[u] /\ todo'[u] = todo[u]
      BY <1>14, <2>1, <2>q DEF KillSession, Locks, Done, TypeOK
    <3>4. Tracked'
      BY <3>3, <1>14, <2>1, <2>q, KeepsChildren
         DEF KillSession, Locks, Done, TypeOK, Stages, Places1, LeftToDo, Holds,
             Visits, Uses
    <3>5. QED
      BY <3>1, <3>2, <3>4
  <2>2. CASE loose' = loose \cup {target[t]} /\ child' = child
    <3>1. TypeOK'
      BY <1>14, <2>2, <2>q
         DEF KillSession, Locks, Done, TypeOK, Stages, Places1, Places, Ops,
             Visits, Uses, Changes
    <3>2. Stages'
      BY <1>14, <2>2, <2>q
         DEF KillSession, Locks, Done, TypeOK, Stages, Places1, LeftToDo,
             Visits, Uses
    <3>3. \A u \in Tasks \ {t} : /\ op'[u] = op[u] /\ at'[u] = at[u]
                                   /\ target'[u] = target[u] /\ todo'[u] = todo[u]
      BY <1>14, <2>2, <2>q DEF KillSession, Locks, Done, TypeOK
    <3>4. Tracked'
      BY <3>3, <1>14, <2>2, <2>q, KeepsChildren
         DEF KillSession, Locks, Done, TypeOK, Stages, Places1, LeftToDo, Holds,
             Visits, Uses
    <3>5. QED
      BY <3>1, <3>2, <3>4
  <2>3. QED
    BY <1>14, <2>1, <2>2 DEF KillSession, Signal
<1>15. CASE KillDrained(t)
  <2>q. squeue' \in [Sessions -> Seq(Tasks)] /\ target[t] \in Sessions
    BY <1>15, QueueTypes DEF KillDrained, KillDrainedThen, Stages, Places1, Locks
  <2>1. CASE child' = [child EXCEPT ![target[t]] = "dead"] /\ loose' = loose
    <3>1. TypeOK'
      BY <1>15, <2>1, <2>q
         DEF KillDrained, Locks, KillDrainedThen, Goes, TypeOK, Stages,
             Places1, Places, Ops, Visits, Uses, Changes
    <3>2. Stages'
      BY <1>15, <2>1, <2>q
         DEF KillDrained, Locks, KillDrainedThen, Goes, TypeOK, Stages,
             Places1, LeftToDo, Visits, Uses
    <3>3. \A u \in Tasks \ {t} : /\ op'[u] = op[u] /\ at'[u] = at[u]
                                   /\ target'[u] = target[u] /\ todo'[u] = todo[u]
      BY <1>15, <2>1, <2>q DEF KillDrained, Locks, KillDrainedThen, Goes, TypeOK
    <3>4. Tracked'
      BY <3>3, <1>15, <2>1, <2>q, KeepsChildren
         DEF KillDrained, Locks, KillDrainedThen, Goes, TypeOK, Stages,
             Places1, LeftToDo, Holds, Visits, Uses
    <3>5. QED
      BY <3>1, <3>2, <3>4
  <2>2. CASE loose' = loose \cup {target[t]} /\ child' = child
    <3>1. TypeOK'
      BY <1>15, <2>2, <2>q
         DEF KillDrained, Locks, KillDrainedThen, Goes, TypeOK, Stages,
             Places1, Places, Ops, Visits, Uses, Changes
    <3>2. Stages'
      BY <1>15, <2>2, <2>q
         DEF KillDrained, Locks, KillDrainedThen, Goes, TypeOK, Stages,
             Places1, LeftToDo, Visits, Uses
    <3>3. \A u \in Tasks \ {t} : /\ op'[u] = op[u] /\ at'[u] = at[u]
                                   /\ target'[u] = target[u] /\ todo'[u] = todo[u]
      BY <1>15, <2>2, <2>q DEF KillDrained, Locks, KillDrainedThen, Goes, TypeOK
    <3>4. Tracked'
      BY <3>3, <1>15, <2>2, <2>q, KeepsChildren
         DEF KillDrained, Locks, KillDrainedThen, Goes, TypeOK, Stages,
             Places1, LeftToDo, Holds, Visits, Uses
    <3>5. QED
      BY <3>1, <3>2, <3>4
  <2>3. QED
    BY <1>15, <2>1, <2>2 DEF KillDrained, KillDrainedThen, Signal
<1>16. CASE Spawn(t)
  <2>f. /\ at[t] = "spawn" /\ Goes(t, "made")
        /\ UNCHANGED <<sessions, ghosts, op, todo, locks, exited>>
    BY <1>16 DEF Spawn
  <2>q. PICK new \in Sessions : /\ child[new] = "unborn"
                                /\ child' = [child EXCEPT ![new] = "running"]
                                /\ target' = [target EXCEPT ![t] = new]
    BY <1>16 DEF Spawn
  <2>1. TypeOK'
    BY <2>f, <2>q DEF locks, Goes, TypeOK, Places
  <2>2. Stages'
    BY <2>f, <2>q DEF Goes, TypeOK, Stages, Places1, LeftToDo
  <2>3. \A u \in Tasks \ {t} : /\ op'[u] = op[u] /\ at'[u] = at[u]
                                 /\ target'[u] = target[u] /\ todo'[u] = todo[u]
    BY <2>f, <2>q DEF Goes, TypeOK
  <2>4. Holds(t, new)'
    BY <2>f, <2>q DEF Goes, TypeOK, Holds
  <2>5. op[t] = "create"
    BY <2>f DEF Stages, Places1
  <2>6. \A s \in Sessions : child'[s] = "running" /\ s # new =>
          child[s] = "running" /\ ~Holds(t, s)
    BY <2>f, <2>q, <2>5 DEF TypeOK, Holds
  <2>7. Tracked'
    <3>1. \A s \in Sessions : child'[s] = "running" =>
            \/ s \in sessions' \cup loose'
            \/ Holds(t, s)'
            \/ /\ child[s] = "running" /\ s \notin sessions \cup loose
               /\ ~Holds(t, s)
      BY <2>f, <2>4, <2>6
    <3>2. QED
      BY <2>3, <3>1, KeepsChildren
  <2>8. QED
    BY <2>1, <2>2, <2>7
<1>17. CASE SpawnFails(t)
  <2>f. /\ at[t] = "spawn" /\ op[t] = "create" /\ Done(t)
        /\ UNCHANGED <<sessions, drained, todo, locks, exited>>
    BY <1>17 DEF SpawnFails, Stages, Places1
  <2>q. \/ UNCHANGED <<child, loose>>
        \/ \E s \in Sessions : /\ child' = [child EXCEPT ![s] = "running"]
                               /\ loose' = loose \cup {s}
    BY <1>17 DEF SpawnFails
  <2>1. TypeOK'
    BY <2>f, <2>q DEF locks, Done, TypeOK, Places, Ops
  <2>2. Stages'
    BY <2>f DEF locks, Done, TypeOK, Stages, Places1, LeftToDo, Visits, Uses
  <2>3. \A u \in Tasks \ {t} : /\ op'[u] = op[u] /\ at'[u] = at[u]
                                 /\ target'[u] = target[u] /\ todo'[u] = todo[u]
    BY <2>f DEF Done, TypeOK
  <2>4. ~\E s \in Sessions : Holds(t, s)
    BY <2>f DEF Holds
  <2>5. \A s \in Sessions : child'[s] = "running" => child[s] = "running" \/ s \in loose'
    BY <2>q DEF TypeOK
  <2>6. loose \subseteq loose' /\ sessions' = sessions
    BY <2>f, <2>q
  <2>7. Tracked'
    <3>1. \A s \in Sessions : child'[s] = "running" =>
            \/ s \in sessions' \cup loose'
            \/ Holds(t, s)'
            \/ /\ child[s] = "running" /\ s \notin sessions \cup loose
               /\ ~Holds(t, s)
      BY <2>4, <2>5, <2>6
    <3>2. QED
      BY <2>3, <3>1, KeepsChildren
  <2>8. QED
    BY <2>1, <2>2, <2>7
<1>18. CASE Abandon(t)
  <2>f. /\ at[t] = "made" /\ op[t] = "create" /\ Done(t) /\ target[t] \in Sessions
        /\ UNCHANGED <<sessions, drained, todo, locks, exited>>
    BY <1>18 DEF Abandon, Stages, Places1
  <2>q. \/ child' = [child EXCEPT ![target[t]] = "dead"] /\ loose' = loose
        \/ loose' = loose \cup {target[t]} /\ child' = child
    BY <1>18 DEF Abandon, Signal
  <2>1. TypeOK'
    BY <2>f, <2>q DEF locks, Done, TypeOK, Places, Ops
  <2>2. Stages'
    BY <2>f DEF locks, Done, TypeOK, Stages, Places1, LeftToDo, Visits, Uses
  <2>3. \A u \in Tasks \ {t} : /\ op'[u] = op[u] /\ at'[u] = at[u]
                                 /\ target'[u] = target[u] /\ todo'[u] = todo[u]
    BY <2>f DEF Done, TypeOK
  <2>4. \A s \in Sessions : Holds(t, s) => s = target[t]
    BY <2>f DEF Holds
  <2>5. \A s \in Sessions : child'[s] = "running" =>
          child[s] = "running" /\ (s = target[t] => s \in loose')
    BY <2>f, <2>q DEF TypeOK
  <2>6. loose \subseteq loose' /\ sessions' = sessions
    BY <2>f, <2>q
  <2>7. Tracked'
    <3>1. \A s \in Sessions : child'[s] = "running" =>
            \/ s \in sessions' \cup loose'
            \/ Holds(t, s)'
            \/ /\ child[s] = "running" /\ s \notin sessions \cup loose
               /\ ~Holds(t, s)
      BY <2>4, <2>5, <2>6
    <3>2. QED
      BY <2>3, <3>1, KeepsChildren
  <2>8. QED
    BY <2>1, <2>2, <2>7
<1>19. CASE SetUp(t)
  <2>1. TypeOK'
    BY <1>19
       DEF SetUp, Goes, Done, TypeOK, Stages, Places1, Places, Ops, Visits,
           Uses, Changes
  <2>2. Stages'
    BY <1>19 DEF SetUp, Goes, Done, TypeOK, Stages, Places1, LeftToDo, Visits, Uses
  <2>3. \A u \in Tasks \ {t} : /\ op'[u] = op[u] /\ at'[u] = at[u]
                                 /\ target'[u] = target[u] /\ todo'[u] = todo[u]
    BY <1>19 DEF SetUp, Goes, Done, TypeOK
  <2>4. Tracked'
    BY <2>3, <1>19, KeepsChildren
       DEF SetUp, Goes, Done, TypeOK, Stages, Places1, LeftToDo, Holds, Visits,
           Uses
  <2>5. QED
    BY <2>1, <2>2, <2>4
<1>20. QED
  BY <1>1, <1>2, <1>3, <1>4, <1>5, <1>6, <1>7, <1>8, <1>9, <1>10, <1>11, <1>12, <1>13, <1>14, <1>15, <1>16, <1>17, <1>18, <1>19
     DEF Proceeds

LEMMA WriteTakenStep ==
  ASSUME IInv, NEW t \in Tasks, WriteTaken(t)
  PROVE  IInv'
<1> USE DEF IInv, WriteTaken, EndsWrite, Done
<1>1. TypeOK'
  BY DEF TypeOK, Places, Ops
<1>2. Stages'
  BY DEF TypeOK, Stages, Places1, LeftToDo, Visits
<1>3. Tracked'
  BY DEF TypeOK, Stages, Places1, LeftToDo, Tracked, InHand, Holds, Visits
<1>4. QED
  BY <1>1, <1>2, <1>3

LEMMA NextIInv == IInv /\ [Next]_vars => IInv'
<1> SUFFICES ASSUME IInv, [Next]_vars PROVE IInv'
  OBVIOUS
<1>1. ASSUME NEW t \in Clients, Requests(t) PROVE IInv'
  <2>1. t \in Tasks
    BY DEF Tasks
  <2>2. CASE BeginNamedCreate(t)
    BY <2>1, <2>2, NamedStep
  <2>3. ASSUME NEW request \in Visits, Begin(t, request, NoSession) PROVE IInv'
    BY <2>1, <2>3, BeginStep DEF Visits, Ops
  <2>4. ASSUME NEW request \in Uses \cup {"kill"}, NEW s \in Sessions,
               Begin(t, request, s)
        PROVE  IInv'
    BY <2>1, <2>4, BeginStep DEF Uses, Changes, Ops
  <2>5. QED
    BY <1>1, <2>2, <2>3, <2>4 DEF Requests
<1>2. CASE Begin(Watcher, "kill_all", NoSession)
  BY <1>2, BeginStep DEF Tasks, Ops, Changes
<1>3. ASSUME NEW t \in Tasks, Proceeds(t) \/ WriteTaken(t) PROVE IInv'
  BY <1>3, ProceedsStep, WriteTakenStep
<1>4. ASSUME NEW s \in Sessions, ChildExits(s) PROVE IInv'
  BY <1>4
     DEF ChildExits, IInv, TypeOK, Stages, Places1, LeftToDo, Tracked, InHand, Holds,
         tasks, locks
<1>5. CASE UNCHANGED vars
  BY <1>5
     DEF vars, tasks, locks, IInv, TypeOK, Stages, Places1, LeftToDo, Tracked, InHand, Holds
<1>6. QED
  BY <1>1, <1>2, <1>3, <1>4, <1>5 DEF Next

-----------------------------------------------------------------------------
(* What kill_all found: only the watcher runs it, a child it found is      *)
(* running only while it is still to be visited or was let go, and nothing *)
(* is left to visit when the daemon exits.  No child is found that is born *)
(* later.                                                                  *)
OneKillAll ==
  /\ op[Watcher] \in {"none", "kill_all"}
  /\ \A t \in Tasks : op[t] = "kill_all" => t = Watcher

Born ==
  /\ \A s \in sessions \cup drained : child[s] # "unborn"
  /\ \A t \in Tasks :
       at[t] = "made" \/ op[t] = "insert" => child[target[t]] # "unborn"

FoundIsKilled ==
  \A s \in drained : child[s] = "running" => s \in loose \cup todo[Watcher]

ExitedIsDone == exited => todo[Watcher] = {}

DInv == OneKillAll /\ Born /\ FoundIsKilled /\ ExitedIsDone

LEMMA InitDInv == Init => DInv
BY DEF Init, DInv, OneKillAll, Born, FoundIsKilled, ExitedIsDone, Tasks

(* Requests that begin, and steps that only move a task on: what it is     *)
(* serving, where it is, what it has still to visit.                       *)
LEMMA MovesKeepDInv ==
  ASSUME TypeOK, Stages, DInv, NEW t \in Tasks,
         UNCHANGED <<drained, loose, exited>>, sessions' \subseteq sessions,
         \A s \in Sessions : child'[s] = child[s] \/ child'[s] = "dead",
         \A u \in Tasks \ {t} : /\ op'[u] = op[u] /\ at'[u] = at[u]
                                /\ target'[u] = target[u] /\ todo'[u] = todo[u],
         todo'[t] = todo[t] \/ t # Watcher,
         op'[t] = "kill_all" => t = Watcher,
         t = Watcher => op'[t] \in {"none", "kill_all"},
         at'[t] = "made" \/ op'[t] = "insert" =>
           target'[t] = target[t] /\ (at[t] = "made" \/ op[t] = "insert")
  PROVE  DInv'
<1>1. Watcher \in Tasks
  BY DEF Tasks
<1>2. OneKillAll'
  BY <1>1 DEF DInv, OneKillAll
<1>3. \A s \in sessions' \cup drained' : child'[s] # "unborn"
  BY DEF DInv, Born, TypeOK
<1>4. ASSUME NEW u \in Tasks, (at[u] = "made" \/ op[u] = "insert")'
      PROVE  (child[target[u]] # "unborn")'
  <2>1. (at[u] = "made" \/ op[u] = "insert") /\ target'[u] = target[u]
    BY <1>4
  <2>2. target[u] \in Sessions /\ child[target[u]] # "unborn"
    BY <2>1 DEF DInv, Born, Stages, Places1
  <2>3. QED
    BY <2>1, <2>2
<1>5. FoundIsKilled'
  BY <1>1 DEF DInv, FoundIsKilled, TypeOK
<1>6. ExitedIsDone'
  BY <1>1 DEF DInv, ExitedIsDone
<1>7. QED
  BY <1>2, <1>3, <1>4, <1>5, <1>6 DEF DInv, Born

LEMMA ProceedsKeepsDInv == ASSUME IInv, DInv, NEW t \in Tasks, Proceeds(t) PROVE DInv'
<1> USE DEF IInv
<1>0. Watcher \in Tasks /\ (t # Watcher \/ op[t] \in {"none", "kill_all"})
  BY DEF Tasks, DInv, OneKillAll
<1>1. CASE StartVisit(t) \/ NextSession(t) \/ VisitSession(t) \/ UseSession(t)
           \/ WriteBlocks(t) \/ WriteFails(t) \/ EndDrain(t)
  <2>1. /\ UNCHANGED <<drained, loose, exited, child, sessions>>
        /\ \A u \in Tasks \ {t} : /\ op'[u] = op[u] /\ at'[u] = at[u]
                                  /\ target'[u] = target[u] /\ todo'[u] = todo[u]
    BY <1>1 DEF StartVisit, NextSession, VisitSession, UseSession, WriteBlocks, WriteFails,
       EndsWrite, EndDrain, Granted, Locks, WaitsFor, Goes, Done, TypeOK, locks
  <2>2. /\ todo'[t] = todo[t] \/ t # Watcher
        /\ op'[t] \in {op[t], "none"}
        /\ at'[t] # "made" /\ op'[t] # "insert"
    BY <1>0, <1>1 DEF StartVisit, NextSession, VisitSession, UseSession, WriteBlocks,
       WriteFails, EndsWrite, EndDrain, Granted, Locks, WaitsFor, Goes, Done, TypeOK, Stages,
       Places1, Visits, Uses
  <2>3. QED
    BY <1>0, <2>1, <2>2, MovesKeepDInv DEF DInv, OneKillAll
<1>2. CASE Lookup(t) \/ Remove(t)
  <2>1. /\ UNCHANGED <<drained, loose, exited, child, todo>> /\ sessions' \subseteq sessions
        /\ op'[t] \in {op[t], "none"} /\ op[t] # "insert" /\ at'[t] # "made"
        /\ \A u \in Tasks \ {t} : /\ op'[u] = op[u] /\ at'[u] = at[u]
                                  /\ target'[u] = target[u]
    <3>1. CASE target[t] \in sessions
      BY <1>2, <3>1 DEF Lookup, Remove, WaitsFor, TypeOK, Uses
    <3>2. CASE target[t] \notin sessions
      BY <1>2, <3>2 DEF Lookup, Remove, Done, TypeOK, Uses
    <3>3. QED
      BY <3>1, <3>2
  <2>2. QED
    BY <1>0, <2>1, MovesKeepDInv DEF DInv, OneKillAll
<1>3. CASE EndVisit(t)
  <2>1. /\ UNCHANGED <<drained, loose, exited, child, sessions, todo>>
        /\ op'[t] \in {op[t], "none"} /\ op[t] # "insert" /\ at'[t] # "made"
        /\ \A u \in Tasks \ {t} : /\ op'[u] = op[u] /\ at'[u] = at[u]
                                  /\ target'[u] = target[u]
    BY <1>3 DEF EndVisit, EndVisitWith, Goes, Done, TypeOK, Stages, Places1, Visits
  <2>2. QED
    BY <1>0, <2>1, MovesKeepDInv DEF DInv, OneKillAll
<1>4. CASE SetUp(t)
  <2>1. /\ UNCHANGED <<drained, loose, exited, child, sessions, todo, target>>
        /\ op'[t] = "insert" /\ at[t] = "made" /\ op[t] = "create"
        /\ \A u \in Tasks \ {t} : op'[u] = op[u] /\ at'[u] = at[u]
    BY <1>4 DEF SetUp, Goes, TypeOK, Stages, Places1
  <2>2. QED
    BY <1>0, <2>1, MovesKeepDInv DEF DInv, OneKillAll
<1>5. CASE Insert(t)
  <2>1. /\ UNCHANGED <<drained, loose, exited, child, todo>> /\ op[t] = "insert"
        /\ sessions' = sessions \cup {target[t]} /\ op'[t] = "none" /\ at'[t] = "idle"
        /\ \A u \in Tasks \ {t} : /\ op'[u] = op[u] /\ at'[u] = at[u]
                                  /\ target'[u] = target[u]
    BY <1>5 DEF Insert, Done, TypeOK
  <2>2. QED
    BY <1>0, <2>1 DEF DInv, OneKillAll, Born, FoundIsKilled, ExitedIsDone
<1>6. CASE Drain(t)
  <2>1. t = Watcher /\ ~exited
    BY <1>6 DEF Drain, Granted, DInv, OneKillAll
  <2>2. /\ UNCHANGED <<loose, exited, child, op, target>> /\ sessions' = {}
        /\ drained' = sessions /\ todo'[t] = sessions /\ op[t] # "insert" /\ at'[t] = "drain"
        /\ \A u \in Tasks \ {t} : at'[u] = at[u]
    BY <1>6 DEF Drain, Goes, TypeOK
  <2>3. QED
    BY <2>1, <2>2 DEF DInv, OneKillAll, Born, FoundIsKilled, ExitedIsDone
<1>7. CASE Exit(t)
  <2>1. at[t] = "settling" /\ UNCHANGED <<sessions, child, ghosts, tasks>>
    BY <1>7 DEF Exit
  <2>2. t = Watcher /\ todo[t] = {}
    BY <2>1 DEF Stages, Places1, LeftToDo, DInv, OneKillAll
  <2>3. QED
    BY <2>1, <2>2 DEF DInv, OneKillAll, Born, FoundIsKilled, ExitedIsDone, tasks
<1>8. CASE KillSession(t) \/ KillDrained(t)
  <2>1. /\ target[t] \in Sessions /\ ~exited /\ op[t] \in {"kill", "kill_all"}
        /\ Signal(target[t]) /\ UNCHANGED <<sessions, drained, exited>>
    BY <1>8 DEF KillSession, KillDrained, KillDrainedThen, Locks, Stages, Places1
  <2>2. /\ loose \subseteq loose' /\ child' \in [Sessions -> {"unborn", "running", "dead"}]
        /\ \A s \in Sessions : child'[s] = child[s] \/ (s = target[t] /\ child'[s] = "dead")
        /\ child'[target[t]] = "dead" \/ target[t] \in loose'
    BY <2>1 DEF Signal, TypeOK
  <2>3. /\ op'[t] \in {op[t], "none"} /\ at'[t] # "made"
        /\ todo'[t] = todo[t] \/ (t = Watcher /\ todo'[t] = todo[t] \ {target[t]})
        /\ \A u \in Tasks \ {t} : /\ op'[u] = op[u] /\ at'[u] = at[u]
                                  /\ target'[u] = target[u] /\ todo'[u] = todo[u]
    BY <1>8 DEF KillSession, KillDrained, KillDrainedThen, Goes, Done, TypeOK, DInv, OneKillAll
  <2>4. OneKillAll'
    BY <1>0, <2>1, <2>3 DEF DInv, OneKillAll
  <2>5. Born'
    <3>1. \A s \in sessions' \cup drained' : child'[s] # "unborn"
      BY <2>1, <2>2 DEF DInv, Born, TypeOK
    <3>2. ASSUME NEW u \in Tasks, (at[u] = "made" \/ op[u] = "insert")'
          PROVE  (child[target[u]] # "unborn")'
      <4>1. u # t /\ (at[u] = "made" \/ op[u] = "insert") /\ target'[u] = target[u]
        BY <2>1, <2>3, <3>2
      <4>2. target[u] \in Sessions /\ child[target[u]] # "unborn"
        BY <4>1 DEF DInv, Born, Stages, Places1
      <4>3. QED
        BY <2>2, <4>1, <4>2
    <3>3. QED
      BY <3>1, <3>2 DEF Born
  <2>6. FoundIsKilled'
    BY <1>0, <2>1, <2>2, <2>3 DEF DInv, FoundIsKilled, TypeOK
  <2>7. QED
    BY <2>1, <2>4, <2>5, <2>6 DEF DInv, ExitedIsDone
<1>9. CASE Spawn(t) \/ SpawnFails(t)
  <2>1. \/ child' = child
        \/ \E new \in Sessions : /\ child[new] = "unborn"
                                 /\ child' = [child EXCEPT ![new] = "running"]
    BY <1>9 DEF Spawn, SpawnFails
  <2>2. /\ UNCHANGED <<sessions, drained, exited, todo>> /\ loose \subseteq loose'
        /\ op[t] = "create" /\ at[t] = "spawn" /\ op'[t] \in {"create", "none"}
        /\ at'[t] = "made" => child'[target'[t]] = "running"
        /\ \A u \in Tasks \ {t} : /\ op'[u] = op[u] /\ at'[u] = at[u]
                                  /\ target'[u] = target[u]
    BY <1>9 DEF Spawn, SpawnFails, Goes, Done, TypeOK, Stages, Places1, locks
  <2>3. \A s \in Sessions : child[s] # "unborn" => child'[s] = child[s]
    BY <2>1 DEF TypeOK
  <2>4. OneKillAll' /\ ExitedIsDone'
    BY <1>0, <2>2 DEF DInv, OneKillAll, ExitedIsDone
  <2>5. Born'
    <3>1. \A s \in sessions' \cup drained' : child'[s] # "unborn"
      BY <2>2, <2>3 DEF DInv, Born, TypeOK
    <3>2. ASSUME NEW u \in Tasks, (at[u] = "made" \/ op[u] = "insert")'
          PROVE  (child[target[u]] # "unborn")'
      <4>1. CASE u = t
        BY <2>2, <3>2, <4>1
      <4>2. CASE u # t
        <5>1. (at[u] = "made" \/ op[u] = "insert") /\ target'[u] = target[u]
          BY <2>2, <3>2, <4>2
        <5>2. target[u] \in Sessions /\ child[target[u]] # "unborn"
          BY <5>1 DEF DInv, Born, Stages, Places1
        <5>3. QED
          BY <2>3, <5>1, <5>2
      <4>3. QED
        BY <4>1, <4>2
    <3>3. QED
      BY <3>1, <3>2 DEF Born
  <2>6. FoundIsKilled'
    BY <2>2, <2>3 DEF DInv, FoundIsKilled, Born, TypeOK
  <2>7. QED
    BY <2>4, <2>5, <2>6 DEF DInv
<1>10. CASE Abandon(t)
  <2>1. /\ target[t] \in Sessions /\ at[t] = "made" /\ op[t] = "create"
        /\ Signal(target[t]) /\ UNCHANGED <<sessions, drained, exited, todo>>
        /\ op'[t] = "none" /\ at'[t] = "idle"
        /\ \A u \in Tasks \ {t} : /\ op'[u] = op[u] /\ at'[u] = at[u]
                                  /\ target'[u] = target[u]
    BY <1>10 DEF Abandon, Done, TypeOK, Stages, Places1
  <2>2. /\ loose \subseteq loose'
        /\ \A s \in Sessions : child'[s] = child[s] \/ child'[s] = "dead"
    BY <2>1 DEF Signal, TypeOK
  <2>3. OneKillAll' /\ ExitedIsDone'
    BY <1>0, <2>1 DEF DInv, OneKillAll, ExitedIsDone
  <2>4. Born'
    <3>1. \A s \in sessions' \cup drained' : child'[s] # "unborn"
      BY <2>1, <2>2 DEF DInv, Born, TypeOK
    <3>2. ASSUME NEW u \in Tasks, (at[u] = "made" \/ op[u] = "insert")'
          PROVE  (child[target[u]] # "unborn")'
      <4>1. (at[u] = "made" \/ op[u] = "insert") /\ target'[u] = target[u]
        BY <2>1, <3>2
      <4>2. target[u] \in Sessions /\ child[target[u]] # "unborn"
        BY <4>1 DEF DInv, Born, Stages, Places1
      <4>3. QED
        BY <2>2, <4>1, <4>2
    <3>3. QED
      BY <3>1, <3>2 DEF Born
  <2>5. FoundIsKilled'
    BY <2>1, <2>2 DEF DInv, FoundIsKilled, TypeOK
  <2>6. QED
    BY <2>3, <2>4, <2>5 DEF DInv
<1>11. QED
  BY <1>1, <1>2, <1>3, <1>4, <1>5, <1>6, <1>7, <1>8, <1>9, <1>10 DEF Proceeds

LEMMA NextDInv == IInv /\ DInv /\ [Next]_vars => DInv'
<1> SUFFICES ASSUME IInv, DInv, [Next]_vars PROVE DInv'
  OBVIOUS
<1> USE DEF IInv
<1>1. ASSUME NEW t \in Tasks, NEW request \in Ops, NEW s,
             Begin(t, request, s), request # "insert",
             t = Watcher <=> request = "kill_all"
      PROVE  DInv'
  <2>1. /\ UNCHANGED <<sessions, child, drained, loose, exited, todo>>
        /\ op'[t] = request /\ at'[t] = "registry"
        /\ \A u \in Tasks \ {t} : /\ op'[u] = op[u] /\ at'[u] = at[u]
                                  /\ target'[u] = target[u]
    BY <1>1 DEF Begin, Goes, TypeOK
  <2>2. QED
    BY <1>1, <2>1, MovesKeepDInv
<1>2. ASSUME NEW t \in Tasks, t # Watcher, BeginNamedCreate(t) PROVE DInv'
  <2>1. /\ UNCHANGED <<sessions, child, drained, loose, exited, todo, target>>
        /\ op'[t] = "create" /\ at'[t] = "spawn"
        /\ \A u \in Tasks \ {t} : op'[u] = op[u] /\ at'[u] = at[u]
    BY <1>2 DEF BeginNamedCreate, Goes, TypeOK
  <2>2. QED
    BY <1>2, <2>1, MovesKeepDInv
<1>3. ASSUME NEW t \in Clients, Requests(t) PROVE DInv'
  <2>1. t \in Tasks /\ t # Watcher
    BY NamesAssumption DEF Tasks
  <2>2. QED
    <3>1. CASE BeginNamedCreate(t)
      BY <1>2, <2>1, <3>1
    <3>2. ASSUME NEW request \in Visits, Begin(t, request, NoSession) PROVE DInv'
      BY <1>1, <2>1, <3>2 DEF Visits, Ops
    <3>3. ASSUME NEW request \in Uses \cup {"kill"}, NEW s \in Sessions,
                 Begin(t, request, s)
          PROVE  DInv'
      BY <1>1, <2>1, <3>3 DEF Uses, Changes, Ops
    <3>4. QED
      BY <1>3, <3>1, <3>2, <3>3 DEF Requests
<1>4. CASE op[Watcher] = "none" /\ Begin(Watcher, "kill_all", NoSession)
  BY <1>1, <1>4 DEF Tasks, Ops, Changes
<1>5. ASSUME NEW t \in Tasks, Proceeds(t) PROVE DInv'
  BY <1>5, ProceedsKeepsDInv
<1>6. ASSUME NEW t \in Tasks, WriteTaken(t) PROVE DInv'
  <2>1. /\ UNCHANGED <<sessions, child, drained, loose, exited, todo>>
        /\ op'[t] = "none" /\ at'[t] = "idle"
        /\ \A u \in Tasks \ {t} : /\ op'[u] = op[u] /\ at'[u] = at[u]
                                  /\ target'[u] = target[u]
    BY <1>6 DEF WriteTaken, EndsWrite, Done, TypeOK
  <2>2. QED
    BY <2>1, MovesKeepDInv
<1>7. ASSUME NEW s \in Sessions, ChildExits(s) PROVE DInv'
  <2>1. Watcher \in Tasks /\ UNCHANGED <<sessions, drained, loose, exited, op, at, target, todo>>
    BY <1>7 DEF ChildExits, tasks, Tasks
  <2>2. \A u \in Sessions : child'[u] = child[u] \/ child'[u] = "dead"
    BY <1>7 DEF ChildExits, TypeOK
  <2>3. QED
    BY <2>1, <2>2, MovesKeepDInv DEF DInv, OneKillAll
<1>8. CASE UNCHANGED vars
  BY <1>8 DEF vars, tasks, DInv, OneKillAll, Born, FoundIsKilled, ExitedIsDone
<1>9. QED
  BY <1>3, <1>4, <1>5, <1>6, <1>7, <1>8 DEF Next

LEMMA IInvIsEnough == IInv /\ DInv => NoLostChild
BY DEF IInv, DInv, Tracked, FoundIsKilled, ExitedIsDone, NoLostChild

(* The registry, its locks and the requests in progress keep their types.  *)
THEOREM TypeCorrect == Spec => []TypeOK
<1>1. IInv => TypeOK
  BY DEF IInv
<1>2. QED
  BY InitIInv, NextIInv, <1>1, PTL DEF Spec

(* session.rs:67-153, 266-281 and 338-359: no order of creates, kills and  *)
(* kill_all loses track of a running child, and none that kill_all found   *)
(* outlives the daemon, unless the child had to be let go.                 *)
THEOREM NoLostChildHolds == Spec => []NoLostChild
<1>1. IInv /\ DInv /\ [Next]_vars => IInv' /\ DInv'
  BY NextIInv, NextDInv
<1>2. QED
  BY InitIInv, InitDInv, <1>1, IInvIsEnough, PTL DEF Spec
=============================================================================
