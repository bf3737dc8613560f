----------------------------- MODULE AttachKeys -----------------------------
(***************************************************************************)
(* From the keyboard to the session: the `haven` client's attach loop      *)
(* (haven-daemon/src/cli_haven.rs), the stdin thread, stdin task, writer   *)
(* task and teardown of run_attach (haven-client/src/attach.rs), and the   *)
(* chord parser (haven-client/src/keys.rs).                                *)
(*                                                                         *)
(* A key is its position in what the user types; typed[p] says which key   *)
(* it is.  What will be typed is fixed by Init, and when is left open: a   *)
(* read may find any part of it.  Every attachment starts a stdin thread,  *)
(* and nothing stops it when the attachment ends: it sits in a read, with  *)
(* stdin locked, and finds out only after the next key that nobody wants   *)
(* it.                                                                     *)
(***************************************************************************)
EXTENDS Naturals, Sequences, SequencesExt

CONSTANTS Keys,        \* keys the user has
          PrefixKeys,  \* Ctrl-\ and Ctrl-B
          InCap,       \* capacity of the stdin channel (64)
          FrameCap,    \* capacity of the frame channel (64)
          Scripts,     \* bound: what the user may type, from beginning to end
          MaxAttach    \* bound: attachments of one run of the client

ASSUME BoundsAssumption ==
  /\ PrefixKeys \subseteq Keys /\ "idle" \notin PrefixKeys
  /\ InCap \in Nat \ {0} /\ FrameCap \in Nat \ {0}
  /\ Scripts \subseteq Seq(Keys) /\ MaxAttach \in Nat \ {0}

VARIABLES
  typed,      \* what the user types, from beginning to end
  taken,      \* how many of them have been read from the terminal
  main,       \* attach_loop: "away" (connecting), "live", "teardown", ...
  n,          \* the attachment it is at
  thread,     \* the stdin thread of each attachment
  chunk,      \* the keys each has read and not yet handed on
  inCh,       \* the stdin channel of attachment n
  task,       \* the stdin task of attachment n
  parser,     \* ChordParser.state: "idle" or the prefix
  todo,       \* chord events the task has still to act on
  frames,     \* the frame channel: keys to write to the session
  up,         \* the connection of attachment n works
  outcome,    \* the outcome channel
  delivered,  \* keys attachment n has written to its session
  fed,        \* ghost: keys its parser was fed
  expired,    \* ghost: which of them, by number, the timeout has dropped
  lost        \* ghost: chunks that were read and then discarded

term == <<typed, taken>>
threads == <<thread, chunk>>
stdin == <<inCh, task, parser, todo, fed, expired>>
vars == <<term, main, n, threads, stdin, frames, up, outcome, delivered, lost>>

Attachments == 1 .. MaxAttach
Positions == DOMAIN typed
Ends == {"Detached", "Switch", "NewSession"}
Outcomes == Ends \cup {"Gone"}     \* Exited or Disconnected
Events == [do : {"write"}, keys : Seq(Positions)]
            \cup [do : Ends \cup {"Help"}, keys : {<<>>}]

TypeOK ==
  /\ typed \in Scripts /\ taken \in 0 .. Len(typed)
  /\ main \in {"away", "live", "teardown", "picker", "done"}
  /\ n \in 0 .. MaxAttach
  /\ thread \in [Attachments -> {"none", "waiting", "reading", "holding", "gone"}]
  /\ chunk \in [Attachments -> Seq(Positions)]
  /\ inCh \in Seq(Seq(Positions)) /\ Len(inCh) <= InCap
  /\ frames \in Seq(Seq(Positions)) /\ Len(frames) <= FrameCap
  /\ task \in {"none", "on", "doomed", "returned", "aborted"}
  /\ parser \in PrefixKeys \cup {"idle"} /\ todo \in Seq(Events)
  /\ fed \in Seq(Positions) /\ expired \subseteq DOMAIN fed
  /\ up \in BOOLEAN /\ outcome \in Seq(Outcomes)
  /\ delivered \in Seq(Positions) /\ lost \in Nat

Init ==
  /\ typed \in Scripts /\ taken = 0
  /\ main = "away" /\ n = 0
  /\ thread = [a \in Attachments |-> "none"]
  /\ chunk = [a \in Attachments |-> <<>>]
  /\ inCh = <<>> /\ task = "none" /\ parser = "idle" /\ todo = <<>>
  /\ fed = <<>> /\ expired = {}
  /\ frames = <<>> /\ up = FALSE /\ outcome = <<>> /\ delivered = <<>>
  /\ lost = 0

-----------------------------------------------------------------------------
(* keys.rs: the chords, for lower case keys.                               *)
ChordOf(key, prefix) ==
  CASE key = "d" -> "Detached"
    [] key = "s" -> "Switch"
    [] key = "n" -> "NewSession"
    [] key = "h" -> "Help"
    [] key = prefix -> "Literal"
    [] OTHER -> "None"

Passthrough(keys) == [do |-> "write", keys |-> keys]
Action(chord) == [do |-> chord, keys |-> <<>>]

Flush(p) == IF p.run = <<>> THEN p.events ELSE Append(p.events, Passthrough(p.run))

(* One key.  The keys of a run are forwarded in one event.                 *)
FeedKey(p, key) ==
  IF p.state = "idle"
  THEN IF typed[key] \in PrefixKeys
       THEN [state |-> typed[key], run |-> <<>>, events |-> Flush(p)]
       ELSE [p EXCEPT !.run = Append(@, key)]
  ELSE LET chord == ChordOf(typed[key], p.state)
       IN [p EXCEPT !.state = "idle",
                    !.events = CASE chord = "None" -> @
                                 [] chord = "Literal" -> Append(@, Passthrough(<<key>>))
                                 [] OTHER -> Append(@, Action(chord))]

FeedFrom(state, keys) ==
  LET after[i \in 0 .. Len(keys)] ==
        IF i = 0 THEN [state |-> state, run |-> <<>>, events |-> <<>>]
        ELSE FeedKey(after[i - 1], keys[i])
      p == after[Len(keys)]
  IN [state |-> p.state, events |-> Flush(p)]

FeedAfresh(keys) == FeedFrom("idle", keys)   \* Faulty: forgets between chunks
Feed(keys) == FeedFrom(parser, keys)

-----------------------------------------------------------------------------
(* run_attach has its response; the terminal is raw and the tasks start.   *)
Attach ==
  /\ main = "away" /\ n < MaxAttach
  /\ main' = "live" /\ n' = n + 1
  /\ thread' = [thread EXCEPT ![n'] = "waiting"]
  /\ inCh' = <<>> /\ task' = "on" /\ parser' = "idle" /\ todo' = <<>>
  /\ fed' = <<>> /\ expired' = {} /\ delivered' = <<>>
  /\ frames' = <<>> /\ up' = TRUE /\ outcome' = <<>>
  /\ UNCHANGED <<term, chunk, lost>>

(* Connecting fails or the daemon answers with an error.                   *)
AttachFails ==
  /\ main = "away"
  /\ main' = "done"
  /\ UNCHANGED <<term, n, threads, stdin, frames, up, outcome, delivered, lost>>

-----------------------------------------------------------------------------
(* A stdin thread locks stdin for as long as it lives.                     *)
ThreadLocks(a) ==
  /\ thread[a] = "waiting"
  /\ \A b \in Attachments : thread[b] \notin {"reading", "holding"}
  /\ thread' = [thread EXCEPT ![a] = "reading"]
  /\ UNCHANGED <<term, main, n, chunk, stdin, frames, up, outcome, delivered, lost>>

(* read returns what has been typed by now (while main is away, a line).   *)
ThreadReads(a) ==
  /\ thread[a] = "reading"
  /\ \E k \in 1 .. Len(typed) - taken :
       /\ taken' = taken + k
       /\ chunk' = [chunk EXCEPT ![a] = [i \in 1 .. k |-> taken + i]]
  /\ thread' = [thread EXCEPT ![a] = "holding"]
  /\ UNCHANGED <<typed, main, n, stdin, frames, up, outcome, delivered, lost>>

HasReceiver(a) == a = n /\ task \in {"on", "doomed"}

Unbounded == TRUE    \* Faulty: the channel never makes its sender wait
Room == Len(inCh) < InCap

ThreadSends(a) ==
  /\ thread[a] = "holding" /\ HasReceiver(a) /\ Room
  /\ inCh' = Append(inCh, chunk[a])
  /\ chunk' = [chunk EXCEPT ![a] = <<>>]
  /\ thread' = [thread EXCEPT ![a] = "reading"]
  /\ UNCHANGED <<term, main, n, task, parser, todo, fed, expired,
                 frames, up, outcome, delivered, lost>>

ThreadGivesUpTo(a, place) ==
  /\ thread[a] = "holding" /\ ~HasReceiver(a)
  /\ chunk' = [chunk EXCEPT ![a] = <<>>]
  /\ thread' = [thread EXCEPT ![a] = place]
  /\ lost' = lost + 1
  /\ UNCHANGED <<term, main, n, stdin, frames, up, outcome, delivered>>

ThreadGoesOn(a) == ThreadGivesUpTo(a, "reading")    \* Faulty: no break
ThreadGivesUp(a) == ThreadGivesUpTo(a, "gone")

-----------------------------------------------------------------------------
(* The stdin task.  An aborted task may go on until it next waits.         *)
TaskTakes ==
  /\ task \in {"on", "doomed"} /\ todo = <<>> /\ inCh # <<>>
  /\ LET p == Feed(Head(inCh))
     IN parser' = p.state /\ todo' = p.events
  /\ fed' = fed \o Head(inCh)
  /\ inCh' = Tail(inCh)
  /\ UNCHANGED <<term, main, n, threads, task, expired, frames, up, outcome,
                 delivered, lost>>

(* A second without a key: a pending prefix is dropped.                    *)
TaskTimesOut ==
  /\ task = "on" /\ todo = <<>> /\ inCh = <<>> /\ parser # "idle"
  /\ parser' = "idle"
  /\ expired' = expired \cup {Len(fed)}
  /\ UNCHANGED <<term, main, n, threads, inCh, task, todo, fed, frames, up,
                 outcome, delivered, lost>>

(* If a write has failed, the writer task goes, and the stdin task with it. *)
TaskWrites ==
  /\ task \in {"on", "doomed"} /\ todo # <<>> /\ Head(todo).do = "write"
  /\ \/ /\ Len(frames) < FrameCap
        /\ frames' = Append(frames, Head(todo).keys)
        /\ todo' = Tail(todo) /\ UNCHANGED task
     \/ /\ ~up
        /\ task' = "returned"
        /\ UNCHANGED <<frames, todo>>
  /\ UNCHANGED <<term, main, n, threads, inCh, parser, fed, expired, up, outcome,
                 delivered, lost>>

TaskHelps ==
  /\ task \in {"on", "doomed"} /\ todo # <<>> /\ Head(todo).do = "Help"
  /\ todo' = Tail(todo)
  /\ UNCHANGED <<term, main, n, threads, inCh, task, parser, fed, expired,
                 frames, up, outcome, delivered, lost>>

TaskEnds ==
  /\ task \in {"on", "doomed"} /\ todo # <<>> /\ Head(todo).do \in Ends
  /\ outcome' = Append(outcome, Head(todo).do)
  /\ task' = "returned" /\ todo' = <<>>
  /\ UNCHANGED <<term, main, n, threads, inCh, parser, fed, expired, frames,
                 up, delivered, lost>>

TaskVanishes ==
  /\ task = "doomed"
  /\ task' = "aborted"
  /\ UNCHANGED <<term, main, n, threads, inCh, parser, todo, fed, expired,
                 frames, up, outcome, delivered, lost>>

-----------------------------------------------------------------------------
WriterWrites ==
  /\ frames # <<>> /\ up
  /\ delivered' = delivered \o Head(frames)
  /\ frames' = Tail(frames)
  /\ UNCHANGED <<term, main, n, threads, stdin, up, outcome, lost>>

(* The socket breaks, or the session exits: the reader task says so.       *)
ConnectionEnds(broken) ==
  /\ main = "live" /\ "Gone" \notin {outcome[i] : i \in DOMAIN outcome}
  /\ up' = (up /\ ~broken)
  /\ outcome' = Append(outcome, "Gone")
  /\ UNCHANGED <<term, main, n, threads, stdin, frames, delivered, lost>>

-----------------------------------------------------------------------------
(* The first outcome wins; the tasks are aborted.                          *)
TakesOutcome ==
  /\ main = "live" /\ outcome # <<>>
  /\ main' = "teardown"
  /\ task' = IF task = "on" THEN "doomed" ELSE task
  /\ UNCHANGED <<term, n, threads, inCh, parser, todo, fed, expired, frames,
                 up, outcome, delivered, lost>>

(* The writer has drained the frame channel, or failed; raw mode ends.     *)
TearsDown ==
  /\ main = "teardown" /\ task \in {"returned", "aborted"}
  /\ frames = <<>> \/ ~up
  /\ main' = IF Head(outcome) = "Switch" THEN "picker" ELSE "done"
  /\ UNCHANGED <<term, n, threads, stdin, frames, up, outcome, delivered, lost>>

(* The picker takes a key: it attaches, quits, or moves its selection.     *)
PickerTakes ==
  /\ main = "picker" /\ taken < Len(typed)
  /\ taken' = taken + 1
  /\ main' \in {"away", "done", "picker"}
  /\ UNCHANGED <<typed, n, threads, stdin, frames, up, outcome, delivered, lost>>

(* No sessions to pick from, or they cannot be listed.                     *)
PickerFails ==
  /\ main = "picker"
  /\ main' = "done"
  /\ UNCHANGED <<term, n, threads, stdin, frames, up, outcome, delivered, lost>>

-----------------------------------------------------------------------------
ThreadStep(a) ==
  ThreadLocks(a) \/ ThreadReads(a) \/ ThreadSends(a) \/ ThreadGivesUp(a)

TaskStep ==
  TaskTakes \/ TaskTimesOut \/ TaskWrites \/ TaskHelps \/ TaskEnds \/ TaskVanishes

MainStep == TakesOutcome \/ TearsDown

Running ==
  \/ Attach \/ AttachFails \/ PickerTakes \/ PickerFails \/ MainStep
  \/ \E a \in Attachments : ThreadStep(a)
  \/ TaskStep \/ WriterWrites
  \/ \E broken \in BOOLEAN : ConnectionEnds(broken)

(* When attach_loop returns, the process ends.                             *)
Next == main # "done" /\ Running

Spec == /\ Init /\ [][Next]_vars
        /\ WF_vars(MainStep) /\ WF_vars(TaskStep) /\ WF_vars(WriterWrites)
        /\ \A a \in Attachments : WF_vars(ThreadStep(a))

-----------------------------------------------------------------------------
(* What the parser should make of the keys it was fed, one after another,  *)
(* however they came in chunks: the prefix that is pending after each of   *)
(* them, or "idle".                                                        *)
After ==
  LET state[i \in 0 .. Len(fed)] ==
        IF i = 0 THEN "idle"
        ELSE IF /\ state[i - 1] = "idle" /\ typed[fed[i]] \in PrefixKeys
                /\ i \notin expired
             THEN typed[fed[i]] ELSE "idle"
  IN state

(* A key on its own is for the session, unless it is a prefix; with a      *)
(* prefix before it, it is a chord.                                        *)
Meaning(i) ==
  LET key == typed[fed[i]]
      chord == IF After[i - 1] # "idle" THEN ChordOf(key, After[i - 1])
               ELSE IF key \in PrefixKeys THEN "None" ELSE "Literal"
  IN CASE chord = "None" -> Passthrough(<<>>)
       [] chord = "Literal" -> Passthrough(<<fed[i]>>)
       [] OTHER -> Action(chord)

(* What is to be written of some events, the first end being the last.     *)
KeysBeforeEnd(events) ==
  LET here(i) == \A j \in 1 .. i : events[j].do \notin Ends
  IN FlattenSeq([i \in DOMAIN events |->
                   IF here(i) THEN events[i].keys ELSE <<>>])

(* keys.rs:70-137, attach.rs:287-366: the session gets exactly the keys    *)
(* that are no part of a chord, in order, none of them twice, and none     *)
(* after the chord that ends the attachment, however typing, reading and   *)
(* the timeout divide them.                                                *)
ForwardsWhatWasTyped ==
  /\ \A i, j \in DOMAIN fed : i < j => fed[i] < fed[j]
  /\ delivered \o FlattenSeq(frames) \o KeysBeforeEnd(todo)
       = KeysBeforeEnd([i \in DOMAIN fed |-> Meaning(i)])

(* attach.rs:245-261: a thread whose attachment has ended takes one more   *)
(* read from the terminal at most.                                         *)
LostOncePerThread == lost <= n
=============================================================================
