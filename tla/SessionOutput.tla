--------------------------- MODULE SessionOutput ---------------------------
(***************************************************************************)
(* The life of one session's output: from the pty of its child process,    *)
(* through the broadcast channel of its PtyHandle, to the transcript task  *)
(* and to one forwarder task per attachment, whose frames go through the   *)
(* connection's bounded channel and its writer task to the client.         *)
(*                                                                         *)
(* A chunk of output is its position in the broadcast channel: 1, 2, ...   *)
(* A receiver of the channel is the position it reads next; it has lagged  *)
(* when that position is no longer among the last Cap ones.                *)
(*                                                                         *)
(* JoinHandle::abort does not wait for the task.  An aborted task may be   *)
(* running on another worker thread and goes on until it next has to wait, *)
(* so an aborted task is "doomed": it may vanish at once or after steps.   *)
(***************************************************************************)
EXTENDS Naturals, Sequences, FiniteSets

CONSTANTS Conns,        \* client connections, authenticated
          MaxOut,       \* bound: chunks broadcast in a behaviour
          Cap,          \* capacity of the broadcast channel (512)
          QCap,         \* capacity of a connection's frame channel (256)
          HistWindow,   \* chunks that fit in history_bytes
          MaxRequests   \* bound: attach/detach requests per connection

ASSUME BoundsAssumption ==
  /\ MaxOut \in Nat /\ HistWindow \in Nat /\ MaxRequests \in Nat
  /\ Cap \in Nat \ {0} /\ QCap \in Nat \ {0}

VARIABLES
  child,       \* the shell process
  reader,      \* the blocking thread that reads the pty
  poller,      \* the thread that turns cwd changes into OSC 7 output
  handle,      \* the session's PtyHandle, until the last reference is dropped
  tail,        \* chunks broadcast so far
  registered,  \* the session is in SessionManager.sessions
  status,      \* SessionInfo.status
  killer,      \* SessionManager::kill or kill_all, once it removed the session
  ttask,       \* the transcript task
  tNext,       \* its receiver
  tHold,       \* the chunk it has received and not yet appended, or 0
  recorded,    \* chunks in the transcript
  hpc,         \* what each connection's handle_connection is doing
  served,      \* attach and detach requests it has begun to serve
  cur,         \* the forwarder in event_forwarders, or 0
  hist,        \* history read for the running attach request
  answer,      \* the response about to be sent
  fmode,       \* forwarder tasks, named by connection and request number
  fnext,       \* their receivers
  fhold,       \* the chunk received and not yet sent, or 0, or Closed
  log,         \* frames put in the connection's channel, oldest first
  pending,     \* how many of them the writer task has not written yet
  wtask,       \* the writer task
  peer,        \* the client's end of the socket
  snap,        \* ghost: tail when history was read and was complete, or 0
  seam         \* ghost: nothing was lost where replay and live stream meet

pty == <<child, reader, poller, handle>>
reg == <<registered, status, killer>>
trans == <<ttask, tNext, tHold, recorded>>
handler == <<hpc, served, cur, hist, answer, snap>>
fwd == <<fmode, fnext, fhold, seam>>
chan == <<log, pending, wtask, peer>>
vars == <<pty, tail, reg, trans, handler, fwd, chan>>

Chunks == 1 .. MaxOut
Closed == MaxOut + 1          \* in fhold: RecvError::Closed was received
Requests == 1 .. MaxRequests
Forwarders == Conns \X Requests

HandlerPc == {"idle", "read", "replay", "find_again", "subscribe", "reply",
              "ended", "failed"}
FrameKinds == {"history", "output", "exited", "attached", "detached",
               "not_found"}
Answers == {"none", "attached", "detached", "not_found"}
Frames == [kind : FrameKinds, chunks : SUBSET Chunks, req : 0 .. MaxRequests]

TypeOK ==
  /\ child \in {"running", "exited"}
  /\ reader \in {"reading", "done"} /\ poller \in {"polling", "done"}
  /\ handle \in {"up", "dropped"}
  /\ tail \in 0 .. MaxOut
  /\ registered \in BOOLEAN /\ status \in {"Running", "Exited"}
  /\ killer \in {"none", "removed", "done", "failed"}
  /\ ttask \in {"live", "doomed", "gone"}
  /\ tNext \in 1 .. MaxOut + 1 /\ tHold \in 0 .. MaxOut
  /\ recorded \subseteq Chunks
  /\ hpc \in [Conns -> HandlerPc] /\ served \in [Conns -> 0 .. MaxRequests]
  /\ cur \in [Conns -> 0 .. MaxRequests]
  /\ hist \in [Conns -> SUBSET Chunks] /\ answer \in [Conns -> Answers]
  /\ snap \in [Conns -> 0 .. MaxOut]
  /\ fmode \in [Forwarders -> {"unborn", "live", "doomed", "gone"}]
  /\ fnext \in [Forwarders -> 0 .. MaxOut + 1]
  /\ fhold \in [Forwarders -> 0 .. Closed]
  /\ seam \in [Forwarders -> BOOLEAN]
  /\ log \in [Conns -> Seq(Frames)] /\ pending \in [Conns -> Nat]
  /\ wtask \in [Conns -> {"up", "done"}]
  /\ peer \in [Conns -> {"up", "gone"}]

(* A session as SessionManager::create leaves it, and clients that have    *)
(* authenticated and asked for nothing yet.                                *)
Init ==
  /\ child = "running"
  /\ reader = "reading" /\ poller = "polling" /\ handle = "up"
  /\ tail = 0
  /\ registered = TRUE /\ status = "Running" /\ killer = "none"
  /\ ttask = "live" /\ tNext = 1 /\ tHold = 0 /\ recorded = {}
  /\ hpc = [c \in Conns |-> "idle"] /\ served = [c \in Conns |-> 0]
  /\ cur = [c \in Conns |-> 0]
  /\ hist = [c \in Conns |-> {}] /\ answer = [c \in Conns |-> "none"]
  /\ snap = [c \in Conns |-> 0]
  /\ fmode = [f \in Forwarders |-> "unborn"]
  /\ fnext = [f \in Forwarders |-> 0]
  /\ fhold = [f \in Forwarders |-> 0]
  /\ seam = [f \in Forwarders |-> FALSE]
  /\ log = [c \in Conns |-> <<>>] /\ pending = [c \in Conns |-> 0]
  /\ wtask = [c \in Conns |-> "up"] /\ peer = [c \in Conns |-> "up"]

-----------------------------------------------------------------------------
(* The broadcast channel.                                                  *)
Active == {"live", "doomed"}

(* Arc<Mutex<Session>>, and with it PtyHandle.output_tx: the registry, the *)
(* transcript task, a kill and requests in progress each hold one.         *)
HandleAlive ==
  \/ registered
  \/ killer = "removed"
  \/ ttask \in Active
  \/ \E c \in Conns : hpc[c] \in {"read", "subscribe"}

(* Faulty: as if the reader and the poller had no senders of their own.    *)
SendersForgotten == handle = "up"

(* Faulty: a forwarder keeps the session, and so a sender, as the          *)
(* transcript task does.                                                   *)
ForwardersKeepSession ==
  \/ handle = "up" \/ reader = "reading" \/ poller = "polling"
  \/ \E f \in Forwarders : fmode[f] \in Active

SendersAlive == handle = "up" \/ reader = "reading" \/ poller = "polling"
HasReceivers == ttask \in Active \/ \E f \in Forwarders : fmode[f] \in Active

(* broadcast::Sender::send: an error, and no new chunk, without receivers. *)
Broadcast == /\ tail < MaxOut
             /\ tail' = IF HasReceivers THEN tail + 1 ELSE tail

Oldest == IF tail > Cap THEN tail - Cap + 1 ELSE 1

-----------------------------------------------------------------------------
(* The pty.  The reader sees its end some time after the child has exited: *)
(* output is left in it, and background jobs keep its slave side open, for *)
(* ever if they like.                                                      *)
ChildExits ==
  /\ child = "running"
  /\ child' = "exited"
  /\ UNCHANGED <<reader, poller, handle, tail, reg, trans, handler, fwd, chan>>

(* The reader thread ignores the result of send.                           *)
ReaderReads ==
  /\ reader = "reading"
  /\ Broadcast
  /\ UNCHANGED <<pty, reg, trans, handler, fwd, chan>>

ReaderEnds ==
  /\ reader = "reading" /\ child = "exited"
  /\ reader' = "done"
  /\ UNCHANGED <<child, poller, handle, tail, reg, trans, handler, fwd, chan>>

(* The cwd of the shell changed: OSC 7 output; a failed send ends it.      *)
PollerReports ==
  /\ poller = "polling" /\ child = "running"
  /\ Broadcast
  /\ poller' = IF HasReceivers THEN "polling" ELSE "done"
  /\ UNCHANGED <<child, reader, handle, reg, trans, handler, fwd, chan>>

PollerEnds ==
  /\ poller = "polling" /\ child = "exited"
  /\ poller' = "done"
  /\ UNCHANGED <<child, reader, handle, tail, reg, trans, handler, fwd, chan>>

-----------------------------------------------------------------------------
(* The transcript task.  It holds the session itself, hence a sender, so   *)
(* RecvError::Closed can never reach it and its Closed arm never runs.     *)
TranscriptReceives ==
  /\ ttask \in Active /\ tHold = 0 /\ tNext <= tail
  /\ IF tNext < Oldest
       THEN tNext' = Oldest /\ tHold' = 0
       ELSE tNext' = tNext + 1 /\ tHold' = tNext
  /\ UNCHANGED <<pty, tail, reg, ttask, recorded, handler, fwd, chan>>

TranscriptAppends ==
  /\ ttask \in Active /\ tHold # 0
  /\ recorded' = recorded \cup {tHold}
  /\ tHold' = 0
  /\ UNCHANGED <<pty, tail, reg, ttask, tNext, handler, fwd, chan>>

TranscriptAborted ==
  /\ ttask = "doomed"
  /\ ttask' = "gone" /\ tHold' = 0
  /\ UNCHANGED <<pty, tail, reg, tNext, recorded, handler, fwd, chan>>

-----------------------------------------------------------------------------
(* SessionManager::kill, asked by any client, and kill_all, the shutdown.  *)
(* The session leaves the registry first.  When the child cannot be        *)
(* signalled, the `?` of kill skips the rest; kill_all goes on.            *)
KillRemoves ==
  /\ registered
  /\ registered' = FALSE /\ killer' = "removed"
  /\ UNCHANGED <<pty, tail, status, trans, handler, fwd, chan>>

KillWith(end, abort) ==
  /\ killer = "removed"
  /\ killer' = "done"
  /\ child' = end
  /\ status' = "Exited"
  /\ ttask' = IF ttask = "live" THEN abort ELSE ttask
  /\ UNCHANGED <<reader, poller, handle, tail, registered, tNext, tHold,
                 recorded, handler, fwd, chan>>

(* Faulty: the transcript task is left running.                            *)
KillOnlyChild == KillWith("exited", "live")

KillStops == KillWith("exited", "doomed")
KillAllGoesOn == KillWith(child, "doomed")

KillFails ==
  /\ killer = "removed" /\ child = "running"
  /\ killer' = "failed"
  /\ UNCHANGED <<pty, tail, registered, status, trans, handler, fwd, chan>>

(* The last reference goes.  Drop kills the child as well as it can, and   *)
(* its abort does nothing to a blocking thread: the reader reads on.       *)
HandleDrops ==
  /\ handle = "up" /\ ~HandleAlive
  /\ handle' = "dropped" /\ child' \in {child, "exited"}
  /\ UNCHANGED <<reader, poller, tail, reg, trans, handler, fwd, chan>>

-----------------------------------------------------------------------------
(* The connection's frame channel (mpsc) and its writer task.              *)
Frame(kind, chunks, req) == [kind |-> kind, chunks |-> chunks, req |-> req]

ChannelOpen(c) == wtask[c] = "up"

Enqueue(c, frame) ==
  /\ ChannelOpen(c) /\ pending[c] < QCap
  /\ log' = [log EXCEPT ![c] = Append(@, frame)]
  /\ pending' = [pending EXCEPT ![c] = @ + 1]

HandlerHolds(c) == hpc[c] \notin {"ended", "failed"}
FrameSenders(c) ==
  HandlerHolds(c) \/ \E n \in Requests : fmode[<<c, n>>] \in Active

(* Faulty: the writer takes a frame from an empty channel.                 *)
WriterOverruns(c) ==
  /\ ChannelOpen(c) /\ peer[c] = "up"
  /\ pending' = [pending EXCEPT ![c] = @ - 1]
  /\ UNCHANGED <<pty, tail, reg, trans, handler, fwd, log, wtask, peer>>

WriterSends(c) ==
  /\ ChannelOpen(c) /\ pending[c] > 0 /\ peer[c] = "up"
  /\ pending' = [pending EXCEPT ![c] = @ - 1]
  /\ UNCHANGED <<pty, tail, reg, trans, handler, fwd, log, wtask, peer>>

WriterEnds(c) ==
  /\ ChannelOpen(c)
  /\ \/ pending[c] > 0 /\ peer[c] # "up"
     \/ pending[c] = 0 /\ ~FrameSenders(c)
  /\ wtask' = [wtask EXCEPT ![c] = "done"]
  /\ UNCHANGED <<pty, tail, reg, trans, handler, fwd, log, pending, peer>>

-----------------------------------------------------------------------------
(* JoinHandle::abort on the forwarder in event_forwarders, if there is one.*)
AbortNothing(c) == fmode' = fmode    \* Faulty

AbortForwarder(c) ==
  fmode' = [f \in Forwarders |->
              IF f = <<c, cur[c]>> /\ fmode[f] = "live" THEN "doomed" ELSE fmode[f]]

(* Request::SessionAttach: abort the previous forwarder, look the session  *)
(* up, read history, replay it, look the session up again, subscribe,      *)
(* answer.  Between any two of these steps other tasks run; the abort and  *)
(* the first lookup are one step, because no task can tell them apart.     *)
AttachBegins(c) ==
  /\ hpc[c] = "idle" /\ peer[c] = "up" /\ served[c] < MaxRequests
  /\ AbortForwarder(c)
  /\ served' = [served EXCEPT ![c] = @ + 1]
  /\ cur' = [cur EXCEPT ![c] = 0]
  /\ hpc' = [hpc EXCEPT ![c] = IF registered THEN "read" ELSE "find_again"]
  /\ UNCHANGED <<pty, tail, reg, trans, hist, answer, snap, fnext, fhold, seam, chan>>

(* read_last: the end of the transcript, as much as was asked for.         *)
History == {n \in recorded : Cardinality({m \in recorded : m > n}) < HistWindow}

HistoryIsCurrent ==
  /\ tNext = tail + 1 /\ tHold = 0
  /\ \A n \in Chunks : (\E m \in History : m <= n) /\ n <= tail => n \in History
  /\ recorded # {}

AttachReads(c) ==
  /\ hpc[c] = "read"
  /\ hist' = [hist EXCEPT ![c] = History]
  /\ snap' = [snap EXCEPT ![c] = IF HistoryIsCurrent THEN tail ELSE 0]
  /\ hpc' = [hpc EXCEPT ![c] = IF History = {} THEN "find_again" ELSE "replay"]
  /\ UNCHANGED <<pty, tail, reg, trans, served, cur, answer, fwd, chan>>

(* The result of sending the replay is ignored.                            *)
AttachReplays(c) ==
  /\ hpc[c] = "replay"
  /\ \/ Enqueue(c, Frame("history", hist[c], served[c]))
     \/ ~ChannelOpen(c) /\ UNCHANGED <<log, pending>>
  /\ hist' = [hist EXCEPT ![c] = {}]
  /\ hpc' = [hpc EXCEPT ![c] = "find_again"]
  /\ UNCHANGED <<pty, tail, reg, trans, served, cur, answer, snap, fwd, wtask, peer>>

AttachFindsAgain(c) ==
  /\ hpc[c] = "find_again"
  /\ hpc' = [hpc EXCEPT ![c] = IF registered THEN "subscribe" ELSE "reply"]
  /\ answer' = [answer EXCEPT ![c] = "not_found"]
  /\ UNCHANGED <<pty, tail, reg, trans, served, cur, hist, snap, fwd, chan>>

(* The forwarder starts before the answer is sent.                         *)
SubscribeAt(c, position) ==
  LET f == <<c, served[c]>>
  IN /\ hpc[c] = "subscribe"
     /\ fmode' = [fmode EXCEPT ![f] = "live"]
     /\ fnext' = [fnext EXCEPT ![f] = position]
     /\ seam' = [seam EXCEPT ![f] = snap[c] = tail /\ tail > 0]
     /\ cur' = [cur EXCEPT ![c] = served[c]]
     /\ answer' = [answer EXCEPT ![c] = "attached"]
     /\ snap' = [snap EXCEPT ![c] = 0]
     /\ hpc' = [hpc EXCEPT ![c] = "reply"]
     /\ UNCHANGED <<pty, tail, reg, trans, served, hist, fhold, chan>>

SubscribeFromOldest(c) == SubscribeAt(c, Oldest)   \* Faulty
SubscribeLate(c) == SubscribeAt(c, tail + 2)       \* Faulty

AttachSubscribes(c) == SubscribeAt(c, tail + 1)

(* Request::SessionDetach.                                                 *)
Detach(c) ==
  /\ hpc[c] = "idle" /\ peer[c] = "up" /\ served[c] < MaxRequests
  /\ AbortForwarder(c)
  /\ served' = [served EXCEPT ![c] = @ + 1]
  /\ cur' = [cur EXCEPT ![c] = 0]
  /\ answer' = [answer EXCEPT ![c] = "detached"]
  /\ hpc' = [hpc EXCEPT ![c] = "reply"]
  /\ UNCHANGED <<pty, tail, reg, trans, hist, snap, fnext, fhold, seam, chan>>

Replies(c) ==
  /\ hpc[c] = "reply"
  /\ Enqueue(c, Frame(answer[c], {}, served[c]))
  /\ answer' = [answer EXCEPT ![c] = "none"]
  /\ snap' = [snap EXCEPT ![c] = 0]
  /\ hpc' = [hpc EXCEPT ![c] = "idle"]
  /\ UNCHANGED <<pty, tail, reg, trans, served, cur, hist, fwd, wtask, peer>>

(* The loop ends, by end of file or because the response cannot be sent:   *)
(* abort all forwarders, drop the sender, wait for the writer and return.  *)
HandlerEnds(c) ==
  /\ \/ hpc[c] = "idle" /\ peer[c] = "gone"
     \/ hpc[c] = "reply" /\ ~ChannelOpen(c)
  /\ AbortForwarder(c)
  /\ cur' = [cur EXCEPT ![c] = 0]
  /\ answer' = [answer EXCEPT ![c] = "none"]
  /\ snap' = [snap EXCEPT ![c] = 0]
  /\ hpc' = [hpc EXCEPT ![c] = "ended"]
  /\ UNCHANGED <<pty, tail, reg, trans, served, hist, fnext, fhold, seam, chan>>

(* read_frame fails: the client closed its socket with output unread (a    *)
(* reset), or it is there and sent a frame that cannot be read.  `?`       *)
(* returns from the handler past the cleanup, and a dropped JoinHandle     *)
(* detaches its task.                                                      *)
HandlerFails(c) ==
  /\ hpc[c] = "idle"
  /\ hpc' = [hpc EXCEPT ![c] = "failed"]
  /\ cur' = [cur EXCEPT ![c] = 0]
  /\ UNCHANGED <<pty, tail, reg, trans, served, hist, answer, snap, fwd, chan>>

ClientLeaves(c) ==
  /\ peer[c] = "up"
  /\ peer' = [peer EXCEPT ![c] = "gone"]
  /\ UNCHANGED <<pty, tail, reg, trans, handler, fwd, log, pending, wtask>>

-----------------------------------------------------------------------------
(* A forwarder task: receive, then send to the connection's channel.       *)
ForwarderReceives(f) ==
  /\ fmode[f] \in Active /\ fhold[f] = 0
  /\ \/ /\ fnext[f] <= tail /\ fnext[f] >= Oldest
        /\ fhold' = [fhold EXCEPT ![f] = fnext[f]]
        /\ fnext' = [fnext EXCEPT ![f] = @ + 1]
        /\ seam' = seam
     \/ /\ fnext[f] < Oldest
        /\ fnext' = [fnext EXCEPT ![f] = Oldest]
        /\ seam' = [seam EXCEPT ![f] = FALSE]
        /\ fhold' = fhold
     \/ /\ fnext[f] > tail /\ ~SendersAlive
        /\ fhold' = [fhold EXCEPT ![f] = Closed]
        /\ UNCHANGED <<fnext, seam>>
  /\ UNCHANGED <<pty, tail, reg, trans, handler, fmode, chan>>

ForwarderSends(f) ==
  LET c == f[1]
  IN /\ fmode[f] \in Active /\ fhold[f] # 0
     /\ Enqueue(c, IF fhold[f] = Closed THEN Frame("exited", {}, f[2])
                                        ELSE Frame("output", {fhold[f]}, f[2]))
     /\ fhold' = [fhold EXCEPT ![f] = 0]
     /\ fmode' = [fmode EXCEPT ![f] = IF fhold[f] = Closed THEN "gone" ELSE @]
     /\ UNCHANGED <<pty, tail, reg, trans, handler, fnext, seam, wtask, peer>>

(* The channel is closed, or the abort takes effect.                       *)
ForwarderEnds(f) ==
  /\ \/ fmode[f] = "doomed"
     \/ fmode[f] = "live" /\ fhold[f] # 0 /\ ~ChannelOpen(f[1])
  /\ fmode' = [fmode EXCEPT ![f] = "gone"]
  /\ fhold' = [fhold EXCEPT ![f] = 0]
  /\ UNCHANGED <<pty, tail, reg, trans, handler, fnext, seam, chan>>

-----------------------------------------------------------------------------
AttachStep(c) ==
  \/ AttachReads(c) \/ AttachReplays(c)
  \/ AttachFindsAgain(c) \/ AttachSubscribes(c)

HandlerStep(c) == AttachStep(c) \/ Replies(c) \/ HandlerEnds(c)

WriterStep(c) == WriterSends(c) \/ WriterEnds(c)
ClientStep(c) ==
  AttachBegins(c) \/ Detach(c) \/ HandlerFails(c) \/ ClientLeaves(c)
ForwarderStep(f) == ForwarderReceives(f) \/ ForwarderSends(f) \/ ForwarderEnds(f)
TranscriptStep == TranscriptReceives \/ TranscriptAppends \/ TranscriptAborted
KillStep == KillStops \/ KillAllGoesOn \/ KillFails
PtyStep == ChildExits \/ ReaderReads \/ PollerReports

Next ==
  \/ PtyStep \/ ReaderEnds \/ PollerEnds
  \/ TranscriptStep
  \/ KillRemoves \/ KillStep \/ HandleDrops
  \/ \E c \in Conns : HandlerStep(c) \/ WriterStep(c) \/ ClientStep(c)
  \/ \E f \in Forwarders : ForwarderStep(f)

(* Tasks that can take a step take one, the poller finds its process gone, *)
(* and a sender waiting for room in a channel is served in its turn        *)
(* (tokio's semaphore is a queue).  The reader's end of file is not fair:  *)
(* a background job may keep the pty open for ever.  Nor is the writer     *)
(* task, whose client may have stopped reading.  Input is left to          *)
(* SessionManager: what takes a session's mutex here is taken not to wait  *)
(* behind a write into its pty that blocks for ever (session.rs:181-182).  *)
Fairness ==
  /\ WF_vars(PollerEnds) /\ WF_vars(TranscriptStep)
  /\ WF_vars(KillStep) /\ WF_vars(HandleDrops)
  /\ \A c \in Conns : SF_vars(HandlerStep(c))
  /\ \A f \in Forwarders : SF_vars(ForwarderStep(f))

Spec == Init /\ [][Next]_vars /\ Fairness

(* Clients that are there read their sockets.                              *)
ReadingClients == \A c \in Conns : WF_vars(WriterStep(c))
SpecReading == Spec /\ ReadingClients

-----------------------------------------------------------------------------
(* What one attachment shows its client: the history replayed to it and    *)
(* then what its forwarder sends.                                          *)
Shown(f) == {i \in DOMAIN log[f[1]] : log[f[1]][i].req = f[2]}
Delivered(f) == UNION {log[f[1]][i].chunks : i \in Shown(f)}
Told(f) == \E i \in Shown(f) : log[f[1]][i].kind = "exited"

(* daemon.rs:391-438: replay and live stream together show every chunk at  *)
(* most once and in the order the child wrote them, although history is    *)
(* read before the subscription and frames come from two tasks.            *)
InOrder ==
  \A c \in Conns : \A i, j \in DOMAIN log[c] :
    i < j /\ log[c][i].req = log[c][j].req =>
      \A m \in log[c][i].chunks, n \in log[c][j].chunks : m < n

(* Nothing is missing in the middle of what an attachment shows, provided  *)
(* the transcript was up to date when history was read, nothing was        *)
(* broadcast until the subscription, and the receiver has not lagged.      *)
Gapless ==
  \A f \in Forwarders : seam[f] /\ fmode[f] \in Active =>
    LET got == Delivered(f) \cup ({fhold[f]} \cap Chunks)
    IN \A m \in got : m .. (fnext[f] - 1) \subseteq got

(* daemon.rs:386-388 and 448-452: a re-attach replaces the forwarder, it   *)
(* never leaves a second one feeding the same connection.                  *)
OneForwarder ==
  \A f \in Forwarders :
    fmode[f] = "live" /\ hpc[f[1]] # "failed" => cur[f[1]] = f[2]

(* event.rs:15: SessionExited is only told when the shell has exited and   *)
(* no task can broadcast for it again, not even the reader of a session    *)
(* that kill_all dropped with its child running; it comes last, and the    *)
(* attachment was sent all it had not lagged behind.                       *)
ExitedIsFinal ==
  \A f \in Forwarders : Told(f) =>
    /\ child = "exited" /\ ~SendersAlive /\ fnext[f] = tail + 1
    /\ \A i \in Shown(f) : log[f[1]][i].kind = "exited" =>
         \A j \in Shown(f) : j > i => log[f[1]][j].kind = "attached"

-----------------------------------------------------------------------------
(* session.rs:275-277: a session that was killed is freed, although its    *)
(* transcript task waits for a channel which it keeps open itself, and     *)
(* even when an attached client has stopped reading.                       *)
KilledIsFreed == killer = "done" ~> handle = "dropped"

(* daemon.rs:426: when the handle, the reader and the poller are gone, the *)
(* forwarders of every client end, except for one that stands for ever     *)
(* before the full channel of a client that does not read.                 *)
PtyIsGone == handle = "dropped" /\ reader = "done" /\ poller = "done"
ClosedEndsForwarders ==
  \A f \in Forwarders :
    \/ <>[](pending[f[1]] = QCap)
    \/ (PtyIsGone /\ fmode[f] \in Active) ~> fmode[f] = "gone"

-----------------------------------------------------------------------------
(* What the documentation says and the code does not do.                   *)

(* event.rs:15-16, daemon.rs:426-431: attached clients hear that the       *)
(* session's process has exited, at least once its output has ended.       *)
ExitIsTold ==
  \A f \in Forwarders :
    (fmode[f] = "live" /\ child = "exited" /\ reader = "done" /\ registered)
      ~> (Told(f) \/ fmode[f] # "live" \/ peer[f[1]] # "up" \/ ~registered)
=============================================================================
