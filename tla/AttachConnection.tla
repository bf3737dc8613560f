-------------------------- MODULE AttachConnection --------------------------
(***************************************************************************)
(* One attachment from end to end: run_attach and what it starts in the    *)
(* client (haven-client/src/attach.rs, client.rs), the two directions of   *)
(* the socket, and handle_connection with its writer task and forwarder in *)
(* the daemon (haven-daemon/src/daemon.rs).  Each of the four queues on    *)
(* the way is bounded, and a full one stops whoever writes to it.          *)
(*                                                                         *)
(* A chunk of output and an input (a SessionWrite or SessionResize) are    *)
(* numbered as they come.  What a writer task holds while it waits counts  *)
(* as one more place of the queue it takes from, and what the forwarder    *)
(* holds as one more of the queue it puts to.  An aborted task may take    *)
(* further steps before it vanishes.                                       *)
(***************************************************************************)
EXTENDS Naturals, Sequences

CONSTANTS MaxChunks,  \* bound: output of the session
          MaxInputs,  \* bound: inputs of the attachment
          SockCap,    \* frames a direction of the socket holds
          RingCap,    \* capacity of the session's broadcast channel (512)
          QueueCap,   \* capacity of the daemon's frame channel (256)
          FrameCap    \* capacity of the client's frame channel (64)

ASSUME BoundsAssumption ==
  /\ MaxChunks \in Nat \ {0} /\ MaxInputs \in Nat \ {0}
  /\ RingCap \in Nat \ {0} /\ SockCap \in Nat \ {0} /\ QueueCap \in Nat \ {0}
  /\ FrameCap \in Nat \ {0}

VARIABLES
  emitted,    \* chunks the session has put out
  listed,     \* the session is there: not killed
  senders,    \* of the broadcast channel: somebody holds one
  daemon,     \* the daemon's process runs
  hpc,        \* the handler of the connection
  reply,      \* the frame it is about to queue
  forwarder,  \* the forwarder task of the attachment
  position,   \* the last chunk the forwarder has queued or missed
  missed,     \* ghost: the chunks it lagged behind
  queue,      \* the daemon's frame channel
  dwriter,    \* the daemon's writer task
  down,       \* the socket, from daemon to client
  up,         \* the socket, from client to daemon
  main,       \* run_attach
  pipe,       \* pipe mode
  history,    \* Output collected before the response
  reader,     \* the socket reader task
  feeder,     \* the stdin and SIGWINCH tasks
  fed,        \* inputs they have queued
  frames,     \* the client's frame channel
  cwriter,    \* the client's writer task
  outcome,    \* the first outcome, or "none"
  shown,      \* what was written to the terminal
  handled,    \* inputs the handler has taken up
  seam,       \* ghost: where the forwarder subscribed
  exitUnseen  \* ghost: SessionExited came before the response

session == <<emitted, listed, senders, daemon>>
handler == <<hpc, reply, handled>>
forward == <<forwarder, position, missed, seam>>
sending == <<queue, dwriter>>
asking == <<history, exitUnseen>>
input == <<feeder, fed>>
output == <<frames, cwriter>>
vars == <<session, handler, forward, sending, down, up, main, pipe, asking,
          reader, input, output, outcome, shown>>

Chunks(from, to) == [i \in 1..to - from |-> from + i]

Ascending(s) == \A i, j \in DOMAIN s : i < j => s[i] < s[j]
Selections(n) == {s \in UNION {[1..l -> 1..n] : l \in 0..n} : Ascending(s)}

Frame(kind, data) == [kind |-> kind, data |-> data]
Kinds == {"history", "output", "exited", "attached", "refused", "reply"}
Frames == [kind : Kinds, data : Selections(MaxChunks)]
NoFrame == Frame("none", <<>>)
Attach == 0       \* the request that begins it all

TypeOK ==
  /\ emitted \in 0..MaxChunks /\ {listed, senders, daemon, pipe, exitUnseen} \subseteq BOOLEAN
  /\ hpc \in {"reading", "history", "subscribe", "serving", "reply", "ended"}
  /\ reply \in Frames \cup {NoFrame}
  /\ forwarder \in {"unborn", "live", "doomed", "gone"}
  /\ {position, seam} \subseteq 0..MaxChunks /\ missed \subseteq 1..MaxChunks
  /\ queue \in Seq(Frames) /\ Len(queue) <= QueueCap + 2
  /\ down \in Seq(Frames) /\ Len(down) <= SockCap
  /\ up \in Seq(Attach..MaxInputs) /\ Len(up) <= SockCap
  /\ frames \in Seq(1..MaxInputs) /\ Len(frames) <= FrameCap + 1
  /\ {dwriter, cwriter} \subseteq {"up", "broken"}
  /\ main \in {"asking", "resizing", "live", "teardown", "returned", "failed"}
  /\ reader \in {"unborn", "live", "doomed", "gone"}
  /\ feeder \in {"unborn", "live", "doomed", "gone"}
  /\ fed \in 0..MaxInputs
  /\ outcome \in {"none", "detached", "exited", "disconnected"}
  /\ shown \in Seq(1..MaxChunks) /\ history \in Seq(1..MaxChunks)
  /\ handled \in Seq(1..MaxInputs)

(* Authenticated, with the attach request on its way.                      *)
Init ==
  /\ emitted \in 0..1 /\ listed = TRUE /\ senders = TRUE /\ daemon = TRUE
  /\ hpc = "reading" /\ reply = NoFrame /\ handled = <<>>
  /\ forwarder = "unborn" /\ position = 0 /\ missed = {} /\ seam = 0
  /\ queue = <<>> /\ dwriter = "up" /\ down = <<>> /\ up = <<Attach>>
  /\ main = "asking" /\ pipe \in BOOLEAN /\ history = <<>> /\ exitUnseen = FALSE
  /\ reader = "unborn" /\ feeder = "unborn" /\ fed = 0
  /\ frames = <<>> /\ cwriter = "up" /\ outcome = "none" /\ shown = <<>>

Running == {"live", "doomed"}

(* The stream, or both its halves, dropped.                                *)
Closed == main = "failed" \/ (main = "returned" /\ reader \notin Running)

-----------------------------------------------------------------------------
(* The session and the world.                                              *)
Emits ==
  /\ daemon /\ senders /\ emitted < MaxChunks
  /\ emitted' = emitted + 1
  /\ UNCHANGED <<listed, senders, daemon, handler, forward, sending, down, up, main, pipe,
                 asking, reader, input, output, outcome, shown>>

(* kill takes the session from the map first; its signal may fail.         *)
Killed ==
  /\ daemon /\ listed /\ listed' = FALSE
  /\ UNCHANGED <<emitted, senders, daemon, handler, forward, sending, down, up, main, pipe,
                 asking, reader, input, output, outcome, shown>>

(* The last of them goes: the session, the thread that reads the pty for   *)
(* as long as any process has it open, the thread that polls the shell.    *)
SendersGo ==
  /\ daemon /\ ~listed /\ senders /\ senders' = FALSE
  /\ UNCHANGED <<emitted, listed, daemon, handler, forward, sending, down, up, main,
                 pipe, asking, reader, input, output, outcome, shown>>

DaemonDies ==
  /\ daemon /\ daemon' = FALSE
  /\ UNCHANGED <<emitted, listed, senders, handler, forward, sending, down, up, main, pipe,
                 asking, reader, input, output, outcome, shown>>

-----------------------------------------------------------------------------
(* handle_connection.                                                      *)
HandlerStep == daemon /\ UNCHANGED <<session, down, main, pipe, asking, reader,
                                     input, output, outcome, shown>>

ReadsInput ==
  /\ HandlerStep /\ hpc = "reading" /\ up # <<>> /\ Head(up) # Attach
  /\ up' = Tail(up) /\ handled' = Append(handled, Head(up))
  /\ hpc' = "serving" /\ reply' = Frame("reply", <<>>)
  /\ UNCHANGED <<forward, sending>>

(* A killed session answers too, with an error; one whose program does not *)
(* read its input may not answer at all, nor one that is being written to. *)
Serves ==
  /\ HandlerStep /\ hpc = "serving" /\ hpc' = "reply"
  /\ UNCHANGED <<up, reply, handled, forward, sending>>

(* get_history, which finds nothing once the session has been killed: the  *)
(* end of a file that is written behind the output, and with gaps, by a    *)
(* task that takes it from the same channel.                               *)
ReadsAttach ==
  /\ HandlerStep /\ hpc = "reading" /\ up # <<>> /\ Head(up) = Attach
  /\ up' = Tail(up)
  /\ \E data \in Selections(emitted) :
       IF listed /\ data # <<>>
       THEN hpc' = "history" /\ reply' = Frame("history", data)
       ELSE hpc' = "subscribe" /\ reply' = NoFrame
  /\ UNCHANGED <<handled, forward, sending>>

(* mpsc::Sender::send: it waits for room, and fails without a receiver.    *)
QueuesAtOnce(frame, places) ==    \* Faulty: as with an unbounded channel
  dwriter = "up" /\ queue' = Append(queue, frame) /\ dwriter' = dwriter
Queues(frame, places) ==
  /\ dwriter = "up" /\ Len(queue) < places
  /\ queue' = Append(queue, frame) /\ dwriter' = dwriter

QueueFails == dwriter = "broken" /\ UNCHANGED sending

SendsHistory ==
  /\ HandlerStep /\ hpc = "history"
  /\ Queues(reply, QueueCap + 1) \/ QueueFails
  /\ hpc' = "subscribe" /\ reply' = NoFrame
  /\ UNCHANGED <<up, handled, forward>>

SubscribesFrom(p) ==
  /\ HandlerStep /\ hpc = "subscribe"
  /\ hpc' = "reply"
  /\ IF listed
     THEN /\ forwarder' = "live" /\ position' = p /\ seam' = p /\ missed' = missed
          /\ reply' = Frame("attached", <<>>)
     ELSE reply' = Frame("refused", <<>>) /\ UNCHANGED forward
  /\ UNCHANGED <<up, handled, sending>>

SubscribesAnew == SubscribesFrom(0)    \* Faulty: the replay is repeated
Subscribes == SubscribesFrom(emitted)

(* The cleanup at the end of the loop.                                     *)
Ends == /\ hpc' = "ended"
        /\ forwarder' = IF forwarder = "live" THEN "doomed" ELSE forwarder
        /\ UNCHANGED <<position, missed, seam>>

Replies ==
  /\ HandlerStep /\ hpc = "reply" /\ reply' = NoFrame
  /\ \/ Queues(reply, QueueCap + 1) /\ hpc' = "reading" /\ UNCHANGED forward
     \/ QueueFails /\ Ends
  /\ UNCHANGED <<up, handled>>

(* read_exact fails once the client has closed and nothing is left: with   *)
(* the end of the stream, or, past the cleanup, with another error.        *)
EndOfStream ==
  /\ HandlerStep /\ hpc = "reading" /\ up = <<>> /\ Closed
  /\ Ends \/ (hpc' = "ended" /\ UNCHANGED forward)
  /\ UNCHANGED <<up, reply, handled, sending>>

-----------------------------------------------------------------------------
(* The forwarder: what is left in the channel, then RecvError::Closed.     *)
ForwarderStep == daemon /\ forwarder \in Running /\
                 UNCHANGED <<session, handler, down, up, main, pipe, asking, reader,
                             input, output, outcome, shown, seam>>

Overtaken(n) == n + RingCap <= emitted    \* no longer in the channel

Forwards ==
  /\ ForwarderStep /\ position < emitted /\ ~Overtaken(position + 1)
  /\ Queues(Frame("output", <<position + 1>>), QueueCap + 2)
  /\ position' = position + 1 /\ UNCHANGED <<forwarder, missed>>

(* RecvError::Lagged: on to the oldest chunk that is still there.          *)
LagsTo(next) ==
  /\ ForwarderStep /\ Overtaken(position + 1)
  /\ position' = next /\ missed' = missed \cup (position + 1..next)
  /\ UNCHANGED <<forwarder, sending>>

LagsToEnd == LagsTo(emitted)    \* Faulty: on to the newest
Lags == LagsTo(emitted - RingCap)

ClosesWith(drained, result) ==
  /\ ForwarderStep /\ ~senders /\ drained
  /\ result
  /\ forwarder' = "gone" /\ UNCHANGED <<position, missed>>

ForwardsNothing == ClosesWith(position = emitted, UNCHANGED sending)    \* Faulty: no SessionExited
ForwardsExitFirst ==    \* Faulty: output is left
  ClosesWith(TRUE, Queues(Frame("exited", <<>>), QueueCap + 2))
ForwardsExit == ClosesWith(position = emitted, Queues(Frame("exited", <<>>), QueueCap + 2))

ForwarderEnds ==
  /\ ForwarderStep /\ forwarder' = "gone" /\ UNCHANGED <<position, missed, sending>>
  /\ forwarder = "doomed" \/ (dwriter = "broken" /\ (position < emitted \/ ~senders))

(* The daemon's writer task; without a reader at the other end it breaks,  *)
(* and the channel's receiver goes with it.                                *)
DWriterStep == daemon /\ dwriter = "up" /\ queue # <<>> /\
               UNCHANGED <<session, handler, forward, up, main, pipe, asking, reader,
                           input, output, outcome, shown>>

Writes ==
  /\ DWriterStep /\ ~Closed /\ Len(down) < SockCap
  /\ down' = Append(down, Head(queue)) /\ queue' = Tail(queue) /\ UNCHANGED dwriter

WriteBreaks ==
  /\ DWriterStep /\ Closed
  /\ dwriter' = "broken" /\ queue' = <<>> /\ UNCHANGED down

-----------------------------------------------------------------------------
(* run_attach, up to the response: send_request_with_history.              *)
MainStep == UNCHANGED <<session, handler, forward, sending, pipe>>

Asked(kinds) ==
  /\ MainStep /\ main = "asking" /\ down # <<>> /\ Head(down).kind \in kinds
  /\ down' = Tail(down)
  /\ UNCHANGED <<up, output, outcome, fed>>

Collects ==
  /\ Asked({"history", "output"})
  /\ history' = history \o Head(down).data
  /\ UNCHANGED <<main, reader, feeder, shown, exitUnseen>>

OverlooksExit ==
  /\ Asked({"exited"}) /\ exitUnseen' = TRUE
  /\ UNCHANGED <<main, reader, feeder, shown, history>>

GoesLive == main' = "live" /\ reader' = "live" /\ feeder' = "live"

(* The history goes to the terminal before anything else does.             *)
Attached ==
  /\ Asked({"attached"})
  /\ shown' = history
  /\ IF pipe THEN GoesLive ELSE main' = "resizing" /\ UNCHANGED <<reader, feeder>>
  /\ UNCHANGED asking

Refused ==
  /\ Asked({"refused"}) /\ main' = "failed"
  /\ UNCHANGED <<reader, feeder, shown, asking>>

AttachFails ==
  /\ MainStep /\ main = "asking" /\ down = <<>> /\ ~daemon
  /\ main' = "failed"
  /\ UNCHANGED <<down, up, reader, input, output, outcome, shown, asking>>

(* The first resize is written to the stream itself; an error is ignored.  *)
Resizes ==
  /\ MainStep /\ main = "resizing" /\ (Len(up) < SockCap \/ ~daemon)
  /\ fed' = 1 /\ up' = IF daemon THEN Append(up, 1) ELSE up
  /\ GoesLive
  /\ UNCHANGED <<down, output, outcome, shown, asking>>

-----------------------------------------------------------------------------
(* The tasks of the live attachment.                                       *)
Reports(what) == outcome' = IF outcome = "none" THEN what ELSE outcome

ReaderStep == reader \in Running /\ MainStep /\ UNCHANGED <<up, main, asking, input, output>>

Reads ==
  /\ ReaderStep /\ down # <<>> /\ Head(down).kind # "exited"
  /\ down' = Tail(down) /\ shown' = shown \o Head(down).data
  /\ UNCHANGED <<reader, outcome>>

ReadsExit ==
  /\ ReaderStep /\ down # <<>> /\ Head(down).kind = "exited"
  /\ down' = Tail(down) /\ reader' = "gone" /\ Reports("exited")
  /\ UNCHANGED shown

ReadsEnd ==
  /\ ReaderStep /\ down = <<>> /\ ~daemon
  /\ reader' = "gone" /\ Reports("disconnected")
  /\ UNCHANGED <<down, shown>>

ReaderStops ==
  /\ ReaderStep /\ reader = "doomed" /\ reader' = "gone"
  /\ UNCHANGED <<down, shown, outcome>>

FeederStep == feeder \in Running /\ MainStep /\
              UNCHANGED <<down, up, main, asking, reader, cwriter, shown>>

Feeds ==
  /\ FeederStep /\ fed < MaxInputs /\ cwriter = "up" /\ Len(frames) <= FrameCap
  /\ fed' = fed + 1 /\ frames' = Append(frames, fed + 1)
  /\ UNCHANGED <<feeder, outcome>>

(* A chord that leaves; the SIGWINCH task goes on until it is aborted.     *)
Detaches ==
  /\ FeederStep /\ ~pipe /\ outcome = "none" /\ Reports("detached")
  /\ UNCHANGED <<feeder, fed, frames>>

EndOfInput ==
  /\ FeederStep /\ pipe /\ feeder' = "gone" /\ Reports("disconnected")
  /\ UNCHANGED <<fed, frames>>

FeederStops ==
  /\ FeederStep /\ feeder' = "gone"
  /\ feeder = "doomed" \/ (cwriter = "broken" /\ fed < MaxInputs)
  /\ UNCHANGED <<fed, frames, outcome>>

CWriterStep == cwriter = "up" /\ frames # <<>> /\ MainStep /\
               UNCHANGED <<down, main, asking, reader, input, outcome, shown>>

CWrites ==
  /\ CWriterStep /\ daemon /\ Len(up) < SockCap
  /\ up' = Append(up, Head(frames)) /\ frames' = Tail(frames)
  /\ UNCHANGED cwriter

CWriteBreaks ==
  /\ CWriterStep /\ ~daemon
  /\ cwriter' = "broken" /\ frames' = <<>> /\ UNCHANGED up

(* The teardown waits for the writer, which ends with its last sender.     *)
Aborted(task) == IF task = "live" THEN "doomed" ELSE task

TearsDownTo(last) ==
  /\ MainStep /\ main = "live" /\ outcome # "none"
  /\ main' = "teardown" /\ reader' = Aborted(reader) /\ feeder' = last
  /\ UNCHANGED <<down, up, asking, fed, output, outcome, shown>>

TearsDownHalf == TearsDownTo(feeder)    \* Faulty: a sender is not aborted
TearsDown == TearsDownTo(Aborted(feeder))

LeavesWhen(done) ==
  /\ MainStep /\ main = "teardown" /\ done
  /\ main' = "returned"
  /\ UNCHANGED <<down, up, asking, reader, input, output, outcome, shown>>

ReturnsAtOnce == LeavesWhen(TRUE)    \* Faulty: the writer is not awaited
Returns == LeavesWhen(feeder \notin Running /\ (frames = <<>> \/ cwriter = "broken"))

-----------------------------------------------------------------------------
Answers == ReadsInput \/ SendsHistory \/ Replies \/ EndOfStream
Handler == Answers \/ ReadsAttach \/ Subscribes \/ Serves
Forwarder == Forwards \/ Lags \/ ForwardsExit \/ ForwarderEnds
DWriter == Writes \/ WriteBreaks
Main == Collects \/ OverlooksExit \/ Attached \/ Refused \/ AttachFails \/ Resizes
        \/ TearsDown \/ Returns
Reader == Reads \/ ReadsExit \/ ReadsEnd \/ ReaderStops
CWriter == CWrites \/ CWriteBreaks
Stdin == Feeds \/ Detaches \/ EndOfInput

Next == Emits \/ Killed \/ SendersGo \/ DaemonDies \/ Handler \/ Forwarder \/ DWriter
        \/ Main \/ Reader \/ Stdin \/ FeederStops \/ CWriter

(* Threads and tasks that can go on do, and the terminal takes what it is  *)
(* given.  Nothing is assumed of the session, of a handler that waits for  *)
(* it, of the user, or of the daemon's life.                               *)
Spec == Init /\ [][Next]_vars
        /\ WF_vars(Answers) /\ WF_vars(Forwarder) /\ WF_vars(DWriter)
        /\ WF_vars(Main) /\ WF_vars(Reader) /\ WF_vars(FeederStops)
        /\ WF_vars(CWriter)

-----------------------------------------------------------------------------
(* The terminal shows what was replayed and the live output from where the *)
(* forwarder subscribed in the order it was put out, without a repeat, and *)
(* of the live output it leaves out only what RingCap newer chunks had     *)
(* overtaken (attach.rs, client.rs, daemon.rs:409-438).                    *)
ShownInOrder ==
  /\ Ascending(shown)
  /\ \A i \in DOMAIN shown : \A n \in seam + 1..shown[i] :
       n \in missed \/ \E j \in DOMAIN shown : shown[j] = n
  /\ \A n \in missed : seam < n /\ Overtaken(n)

(* Inputs are taken up in the order they were made.  One may be lost after *)
(* its attachment has ended, but only behind an answer that could not be   *)
(* written, or with the daemon (attach.rs:407-412, daemon.rs:605-609).     *)
InputsInOrder ==
  /\ handled = Chunks(0, Len(handled))
  /\ (main = "returned" /\ hpc = "ended" /\ Len(handled) < fed) =>
       dwriter = "broken" \/ ~daemon

(* Once nobody can put anything out any more, the attachment ends, unless  *)
(* that was so early that the client took SessionExited for a part of the  *)
(* replay.  It is not promised of every killed session: where the signal   *)
(* fails, or a background job keeps the pty open, a sender stays.          *)
ExitEndsAttachment ==
  (main = "live" /\ ~senders) ~> (main # "live" \/ exitUnseen)

(* run_attach returns, unless it waits for ever for its writer, which      *)
(* waits for a handler that waits: for the session, or, run_attach no      *)
(* longer reading, for room in queues that are all full.                   *)
AllFull == Len(down) = SockCap /\ Len(queue) > QueueCap /\ reader = "gone"

Stuck == /\ Len(up) = SockCap /\ frames # <<>>
         /\ hpc = "serving" \/ (hpc = "reply" /\ AllFull)

ReturnsUnlessStuck == <>[]Stuck \/ (main = "teardown" ~> main = "returned")

(* All of it keeps the promise of an attachment: what is shown grows in    *)
(* order, inputs are served in order, and SessionExited is reported only   *)
(* when all that the session put out from the seam on has been shown or    *)
(* overtaken (daemon.rs:409-438, attach.rs:172-222).                       *)
Phase == CASE main = "asking" -> "asked"
           [] main = "failed" -> "refused"
           [] main = "returned" -> "over"
           [] OTHER -> "open"
Joined == IF main \in {"asking", "failed"} THEN 0 ELSE seam
Lost == IF main \in {"asking", "failed"} THEN {} ELSE missed

Promise == INSTANCE Attachment WITH
  Slack <- RingCap, put <- emitted, alive <- senders, phase <- Phase,
  joined <- Joined, missed <- Lost, ending <- outcome, taken <- fed, served <- handled

AttachmentSpec == Promise!Spec
=============================================================================
