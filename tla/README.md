# A TLA+ verification of haven-daemon

haven keeps terminal sessions alive in a daemon: each session is a shell on a
pty, its output is broadcast to attached clients and recorded in an encrypted
log, and clients attach, detach and re-attach over a Unix socket. This
directory holds TLA+ models of the parts of that system where something can
really go wrong, the TLC configurations that check them, and TLAPS proofs of
what matters most. Paths below are relative to `src/`.

Check a module with `tlc -workers 2 -config X.cfg M`, a proof with
`tlapm M_proof.tla`. `PROJECT.json` lists every run, the source lines each
definition translates, the mutants that show each property can fail, the
findings, the hazards and the theorems.

## 1. Inventory

| component | state | operations | talks to |
|---|---|---|---|
| parent watch (`haven-daemon/src/daemon.rs` 23-38, 163-223, 588-602) | watched pid, last known pid, grace deadline | poll every 2 s, `SetParentWatch` | registry (`kill_all`), the operating system |
| session output (`pty.rs` 279-330, `session.rs` 106-141, `daemon.rs` 314-453, 605-619) | broadcast channel, receivers, forwarder tasks, the connection's frame channel | reader and cwd threads, transcript task, attach, detach, kill, writer task, end of a connection | registry, transcript, clients |
| session registry (`session.rs` 31-359) | map of sessions behind a RwLock, one Mutex per session | create, list, get and use, write, kill, kill_all | pty, transcript, parent watch |
| encrypted log (`history.rs` 97-236, 390-509) | file, handle, `bytes_written`, key | append, truncate, read | file system |
| activity paging and search (`history.rs` 238-387) | none of its own | windows and matches over the log | connections, command line |
| connection authentication and framing (`daemon.rs` 226-312, `haven-protocol/src/lib.rs` 132-226) | token, frame lengths | first frame, length limits | clients |
| daemon start (`daemon.rs` 77-157, `haven-client/src/autostart.rs`, `haven-protocol/src/lib.rs` 19-127) | socket file, token file, pid | start, discover, autostart | every client |
| attach client (`haven-client/src/attach.rs`, `client.rs`) | raw mode, a stdin thread, four tasks, outcome | replay, forward input and output, resize, detach, exit, switch | daemon, terminal, picker |
| chord keys (`haven-client/src/keys.rs`) | pending prefix key | feed a chunk, time out | attach client |
| command line and picker (`cli_haven.rs`, `picker.rs`, `main.rs`) | none between commands | list, attach, kill, rename by index or name | daemon |
| last working directory (`pty.rs` 304-330, 408-482) | one file, one temporary file | written by each session's poller, read by create | registry |
| pty environment (`pty.rs` 31-260), protocol types (`haven-protocol/src/message.rs`, `session.rs`, `event.rs`, `host.rs`), pet names (`pet_name.rs`) | none | sequential set-up, type declarations, a random name | registry |

`haven-daemon/src/protocol.rs` is not used by the program.

What is hard here:

* *Concurrency.* Every connection is a handler task, a writer task and one
  forwarder task per attachment; every session adds two threads and a
  transcript task. Aborting a task does not wait for it.
* *Ordering.* An attach reads history and subscribes in two critical sections;
  replay and live output come from different tasks.
* *Bounded channels.* The broadcast channel drops what a slow receiver has not
  read (512 chunks), the frame channel blocks its senders (256 frames).
* *Locks held while waiting.* `list` holds the registry while it locks each
  session; `write` blocks in the kernel with its session locked.
* *Partial failure.* An append is three writes, a truncation a rewrite, a
  rename and a reopen; a kill removes the session before it signals it.
* *Files shared by processes.* A start is five steps on two files, without a
  lock; discovery looks at them one system call at a time.
* *Time.* The parent watch probes a pid it read earlier, and its grace period
  races the application's next announcement.

What makes each component correct: the parent watch shuts down only for the
process it watches and never inside a pause, and no daemon stays without a
parent for ever. Output reaches each attachment in order, without repeats,
and, unless a receiver lags, without a gap; one forwarder per attachment; an
exit is told once nothing more can follow. The registry loses no running
child that it can signal, every request is answered, a shutdown ends. The log is an ordered tail
of what was appended, within its limit. A session gets exactly the keys that
belong to it, in order, however they are read. A daemon can be reached with the
token beside its socket.

## 2. Modules

### ParentWatch

`state` is `ParentWatchState`; `pc` is where the polling task is. `ReadState`
is the locked block (grace expiry included), `Probe` the `kill(pid, 0)` after
the mutex is released, then `KillAllDone` and `Exit`. `SetParentWatch` is the
whole request handler. The clock ticks the deadline down, so it needs no
bound; `ProcessDies` and `PidReused` are the operating system. The pause that
was asked for is kept in the ghost `promised`, and `raced` says that a request
was served between read and probe.

Checked: `PauseHonoured`, and `NeverOrphanedForever` with weak fairness of the
clock and of the polling task, which is a loop around a sleep. `kill_all` is not
fair: it waits for every session's mutex, and the run `manager_stuck` shows that
it may wait for ever. `NeverOrphanedForever` exempts that by name
(`KillAllHangs`): an orphaned daemon exits, has a living parent again, or hangs
in `kill_all`.
`PauseHonoured` exempts a pause acknowledged between read and probe: see
section 5. Bounds: two pids (announced, reused), grace of up to 2 ticks, 3 requests:
announce, pause, announce again.

### SessionOutput

One session, its pty threads, its broadcast channel, its transcript task and
any number of connections. A chunk is its position in the broadcast channel; a
receiver is a position, lagging when it is no longer among the last `Cap`. The
handler of a connection (`hpc`) serves one request at a time: `AttachBegins`
aborts the old forwarder, `AttachReads`, `AttachReplays`, `AttachFindsAgain`
and `AttachSubscribes` are the critical sections of `SessionAttach`, `Replies`
sends the response. Forwarders receive, wait for room in the frame channel,
and end at `Closed` with `SessionExited`. An aborted task is *doomed*: it may
vanish at once or take further steps until it next waits. Ghosts: `log` keeps
every frame queued (the last `pending` of it are in the channel), `snap` and
`seam` say whether anything was lost where replay meets live output.

A kill removes the session and signals its child; when the signal fails, `kill`
stops there (`KillFails`: the child runs on, unlisted, and the transcript task
keeps the session, so `Drop` never runs), while `kill_all` goes on to abort the
transcript task (`KillAllGoesOn`). The last reference gone, `Drop` kills as well
as it can (`HandleDrops`). A connection's handler ends with the cleanup
(`HandlerEnds`) or past it (`HandlerFails`), the latter also for a client that is
there and has sent a frame that cannot be read. Input is not in this module.

Runs, all with one connection: `output` (safety: types; one forwarder, none
after a clean end of the connection; order and gaps; an exit is told only of a
shell that has exited and can no longer be heard), `output_live` (the handle of a
session whose kill got through is dropped, even when its client has stopped
reading; once it is, and both threads are done, every forwarder ends, except for
one that stands before the full channel of a client that does not read) and
`output_exit_told`, which shows that a shell that exits by itself
is not told to its clients (`ExitIsTold`): the session keeps a sender of the
broadcast channel, so no forwarder sees it close. Bounds: `Cap` and
`QCap` of 1 make lag and a full channel happen with 2 chunks and an exit; two
requests give every pair of attach and detach. Connections share only the
broadcast channel, in which a receiver does not affect another, and the
registry, which SessionManager models with several clients; so one connection
is enough here.

Fairness: weak, for the poller, the transcript task, a kill and the drop of the
handle: the threads are the operating system's and tokio's scheduler does not
starve a task that can run. Strong, for handlers and forwarders, which queue for
room in a channel and are served in their turn. The reader's end of file
(`ReaderEnds`) is not fair: a shell that runs, or a background job of one that has
exited, keeps the pty open for as long as it likes; `ClosedEndsForwarders` begins
where it has come. Fairness of a kill, of the drop and of an attach assumes that
no write into the session's pty blocks for ever with the mutex held; what happens
otherwise is SessionManager's (`manager_stuck`). Nothing is assumed of clients,
except in `SpecReading`, where the client reads its socket; only
`output_exit_told` uses it, so that the missing message cannot be blamed on the
client.

### SessionManager

The registry under concurrent requests: its RwLock and the Mutex of each
session, both with queues in order of arrival, as tokio's are. A critical
section that waits for nothing is one step; `list` and `create` without a name
hold the registry while they lock each session (`StartVisit`, `NextSession`,
`VisitSession`, `EndVisit`); `write` may hold its session for as long as the
program leaves its input unread (`WriteBlocks`). `create` is look up names,
`Spawn`, `SetUp` or `Abandon`, `Insert`, with anything in between. `op`, `at`
and `target` are the request a task serves and its place in it.

Two ghosts say what the daemon had to let go. `loose` are the sessions whose child
ran on when the last hold on it was dropped: a kill, a drained kill or a `Drop`
that could not signal it (`Signal`), or a `spawn` that failed after the child was
there (`SpawnFails`, second disjunct). `drained` are those that `kill_all` found.
`NoLostChild` says of every other running child that it is listed or that some
task is about to list or kill it, as long as the daemon runs, and that none that
`kill_all` found is running when the daemon has exited. It does not say that no
child outlives the daemon: one that a create or a kill in progress has outside of
the registry may (section 5).

Runs: `manager` (two sessions, two clients, the watch; safety and, with weak
fairness of every task that can go on and programs that read their input in
the end, that requests finish and a shutdown ends) and `manager_stuck`, which
shows that one write to a program that never reads its input stops the
shutdown. No symmetry is used, for the sake of the liveness properties. Two
sessions are needed for a list that waits in the middle; two clients and the
watch queue a reader, a writer and a reader at one lock.

### TailLog and Transcript

`TailLog` is what a log promises: entries in order, some of them missing,
only the oldest forgotten, and never more than half of the bytes at once.
`Transcript` is `TranscriptWriter` with each step of `append` and `truncate`
failing at any time; it implements `TailLog` (property `TailLogSpec`). The
state is what a reader gets (`chunks`), where the end of the file is for it
(`gap`: bytes a torn chunk still claims), the file's length, whether the open
handle still is the file, and `bytes_written`. Chunks of 1 and 3 bytes, an
overhead of 2, a limit of 14 and 7 appends give several truncations with
failures before, inside and after them. No fairness. Run: `transcript`
(`Whole` while nothing fails, `TailLogSpec` whatever fails).

### AttachKeys

The way of a key from the keyboard to the session, over several attachments of
one run of the `haven` client: the stdin threads (`ThreadLocks`, `ThreadReads`,
`ThreadSends`, `ThreadGivesUp`), the stdin channel, the stdin task with the
chord parser (`Feed` is a chunk of `ChordParser::feed`, folded over its keys;
`TaskTimesOut` the one second timeout), the frame channel and its writer task,
and the teardown. `main` is where `attach_loop` is: connecting (`away`),
`live`, `teardown`, in the picker, or done. An aborted stdin task is *doomed*,
as in SessionOutput. A key is its position in what the user types, so order
and repeats can be seen; what is typed is chosen by `Init`, and a read takes
any part of what is left, which leaves the times of typing open.
The reference is stated key by key, without chunks or events: `After` is the
prefix that is pending after each key the parser was fed (`expired` are the keys
whose prefix the timeout dropped), `Meaning` what that makes of the next key, and
`KeysBeforeEnd` the keys that are written of such meanings, or of the events of
the parser, up to the first that ends the attachment.

Run: `attach_keys` (`ForwardsWhatWasTyped`: what is written, in the frame channel
and still to be acted on is together what the reference makes of the keys fed,
which are fed in the order of typing; `LostOncePerThread`: a thread left over by
a switch takes one more read at most). Bounds: every text of three out of five keys
(both prefixes, an ending chord, a chord that does not end, a plain key), and
after a switch every text of three more, one of which goes to the thread that
was left over; two attachments; channels of one, which make every send wait.
Fairness: weak, for the threads, the tasks and the writer (so the daemon goes
on reading its socket), not for the picker, the connection or its end. Pipe
mode, window resizes and the output half of the client are in AttachConnection.

### DaemonStart

Daemons and clients that share nothing but files: the socket and the token at
each path (0 is `daemon.sock`, v is `daemon-{v}.sock`). `sock` and `token` name
the daemon whose listener or token a file leads to; removing, truncating,
writing, binding and `set_permissions` are steps of their own, as other
processes see them. A daemon may die anywhere and leaves its files. A client
probes (`ProbesPlain`, `Lists`, `Probes`, `FallsBack`), ensures a daemon
(`FindsSocket`, `Spawns`, `SocketAppears`, `GivesUp`), then connects, reads the
token and authenticates; its last `cpc` is what came of it. The daemon a client
spawns has the client's name and always listens at path 0, because it is
spawned without `--socket`.

Run: `daemon_start` (what a client is turned away for, when a daemon is cut off
from its socket, what discovery finds, and that every client is done in the
end). Bounds: one client with its daemon, one daemon of the
user at the same path, two with versions: every pair of starts at one path, a
newest version and an older one. Clients do not see each other except through
the daemons they spawn. Fairness: weak, for clients and for daemons that have
started; nothing is assumed of users and crashes. The five seconds of polling
and of waiting for a token may end at any time.

### LogReads

What is read from a log while it grows and forgets, one kind of client at a
time (`kind`): a *pager* asks `SessionActivityHistory` for page after page
(`PageBack`), a *follower* asks `SessionHistory` for range after range
(`Follow`), a *searcher* asks once (`SearchHistory`). `Appends` is the abstract
log `TailLog`, which Transcript implements; the session's mutex makes each
request one step. The plaintext is a sequence of places in entries, so a byte
read twice or missed can be seen; `Content` gives the bytes themselves, which
are a small alphabet: newline, letters, an escape sequence, a byte that is no
UTF-8, and the two bytes of a letter whose lower case has three. Half of a
letter may be at the end of an entry, as a read of the pty may end there.

Run `log_reads`: pages and ranges join without repeats or holes while the log
forgets nothing (`ReadsJoin`), a truncation between two requests makes a pager
read bytes again but miss none, and a follower miss bytes but read none again
(`ForgettingIsSafe`), a pager with a window longer than every record comes to
the start (`ReachesStart`, with weak fairness: the pager goes on asking), and
in a log without escapes a search returns and counts the leftmost matches, with
their lines (`SearchAgrees`, against a definition that quantifies over sets of
matches); in any log its previews are free of escapes and newlines, and one that
respects case panics only at an escape in front of a longer character. With
escapes in the log `SearchAgrees` says nothing of what is found: the code matches
the text unscrubbed, see section 5. Bounds: records of 1 to 3
bytes in a window of 4, five of them, so that pages end inside, before and
after newlines and the log forgets several times; three of six texts for the search,
two of which meet in the middle of a letter, and six patterns, one with a
newline and one that is that letter. Its limits and the number of matches reach
the bound on `total`.

### Attachment and AttachConnection

One attachment from end to end: `run_attach` with its reader, writer and stdin
tasks, both directions of the socket, and the daemon's handler, forwarder and
writer, over four bounded queues (`frames`, `up`, `queue`, `down`). The handler
is `ReadsInput`, `ReadsAttach`, `SendsHistory`, `Subscribes`, `Replies`,
`EndOfStream`; the client asks and collects (`Collects`, `OverlooksExit`), goes
live, and leaves by `TearsDown` and `Returns`. Output chunks and inputs are
numbered. An input is a `SessionWrite` or a `SessionResize`; in pipe mode the
end of stdin disconnects. The daemon may die, the session be killed at any time.

`Attachment` is what an attachment promises, with none of the tasks and queues:
it opens with some of the output, in order, and from a seam on shows one chunk after
the other, less what `Slack` newer chunks had overtaken before it came to them
(`missed`); it serves inputs in the order in which they were taken, and finishes
once, for one reason; when that is the exit of the session, all that the
session has put out from the seam on is on the terminal or was overtaken.
`AttachConnection` implements it (`AttachmentSpec`): `Phase`, `Joined` and `Lost`
are the refinement mapping for the phases of `run_attach` and for the seam and
what is missed behind it, which count once there is a response; `Slack` is the
capacity of the broadcast channel.
It promises safety only: a `SessionExited` that came before the response is
never told.

In `AttachConnection` the replay is any ascending selection of what was put out
(`Selections`): `get_history` reads the last `history_bytes` of a file that a task
which may lag, and may leave chunks out, writes behind the output. What the
transcript has of the output, and when, is SessionOutput's. A forwarder that is
overtaken goes on with the oldest chunk that is left (`Lags`). `Killed` is only
that the session is no longer found; the broadcast channel closes when its last
sender goes (`SendersGo`), which a failed signal or a background job that keeps
the pty open puts off for ever. A handler that serves an input may be in a pty
write, or wait for a session in which another is: `Serves` is not fair.

Run `attach_connection`: every step is one of `Attachment` or changes nothing
there (`AttachmentSpec`), so that what is shown is what was replayed and then the
live output, in order and without repeats, with gaps only where the forwarder
was overtaken, whether frames overtake the response or not
(`ShownInOrder`, which is proved too); inputs are served in order, and one is lost
only with the daemon or behind an answer that could not be written
(`InputsInOrder`); once no sender is left the attachment ends, unless its exit
came before the response (`ExitEndsAttachment`); and `run_attach` returns unless
it waits for ever for its writer task with the way to the daemon full (`Stuck`):
behind a handler that serves an input and does not come back, or behind one that
waits for room where, the client's reader gone, all queues are full
(`ReturnsUnlessStuck`). The exemptions are named in the properties and are
behaviours of the code, see section 5. Bounds: capacities of one, two chunks,
three inputs: they fill every queue at once and overtake a forwarder; the frame a
task holds while it waits counts as one more place of a queue. Fairness: weak,
for the forwarder, the writers, the client's tasks and terminal, and for those
steps of the handler that need no session (`Answers`); tokio is assumed to have a
worker left while a handler blocks in a pty write. Nothing is assumed of the
session, of the user, of kills or of the daemon's death.

### LastCwd and Commands

`LastCwd` is the file that remembers a directory: each session's poller
(`Polls`, `PollEnds`) and `persist_last_cwd` as the system calls it makes
(`Opens`, `WritesFile`, `Renames`), each of which may fail (`Fails`): a failed open
or write leaves out the rename, and the poller, which by then has noted the
directory as seen, does not try again. The reader trims what it finds
(`Trimmed`). A poller that has opened `last_cwd.tmp`
keeps writing to that file when another has renamed it (`handle` says where it
is by then). `Commands` extends it by the registry as users see it and by the
`haven` command line: creation in its three steps (`NamesSession`,
`SpawnsSession`, `Inserts`; one that fails goes no further), other clients'
kills and renames (`Others`), and the user's commands, each of which lists over
one connection and acts over another (`Begins`, `Default`, `Switches`, then
`Attaches`, `Kills`, `RenamesIt`). `order` is the iteration order of the
`HashMap`, which an insertion may change as it likes. A target is a value with
what it may mean (`AsIndex`, `Matching`, a name), not a string.

Run `commands`: no terminal is attached to the session it runs in
(`NotIntoItself`); two sessions share a generated name only if they were
created at the same time or `generate` gave up after its tries
(`TwinsOverlapped`); `last_cwd` is, as a whole, the directory that was written and
renamed last, and a failure leaves it as it was, unless pollers overlapped and
none wrote alone since (`LastCwdKept`); a
session starts in a directory that exists (`TypeOK`); and a command acts on
what its target meant in the last `haven ls`, as long as nothing changed since
(`SeenIsMeant`). Bounds: two sessions and two to be created; three acts of
users, or one with two of shells, or four of shells: enough for a list, a
change and a command, for two overlapping creations, and for two pollers that
overlap and one that heals the file. No fairness.

## 3. Proofs

All proofs hold for every value of the constants that satisfies the named
assumptions of the module; TLC evaluates these assumptions in every run. Every
safety property that a run checks is proved.

* `Daemon_proof`, of the parent watch: `WatchTypeCorrect`,
  `WatchesLastKnownHolds`, `PauseHonouredHolds`. The inductive invariant adds
  what the poller's copy of the pid has to do with the watch state at each place,
  and that no quiet time can be left when the grace deadline is gone.
* `SessionOutput_proof`: `TypeCorrect`, `OneForwarderHolds`, `InOrderHolds`,
  `GaplessHolds`, `ExitedIsFinalHolds`. The invariant has a
  part for each request of a connection: what the handler holds at each place
  (`HandlerInv`), that a reader that is done and a handle that was dropped stay so
  and what they imply of the child (`GoneForGood`), that a request has one forwarder, born after its replay, from
  which all its output and its exit come (`ControlInv`), and that what its
  attachment has been shown is a set of chunks behind the forwarder's position
  in the broadcast (`DataInv`). Order and gaps follow from the last; without
  the position, an append to the log could not be told from a repeat.
* `SessionManager_proof`: `TypeCorrect` and `NoLostChildHolds`. The invariant
  adds which request can be at which place (`Places1`) and that only visiting
  requests and `kill_all` have sessions left to visit (`LeftToDo`): with a
  list left over from an earlier request `kill_all` would seem to look after a
  session it never sees. `KeepsChildren` reduces a step to the task that makes
  it.
* `Transcript_proof`: `ImplementsTailLog` (each append is an `Add` of the
  abstract log), `InOrderHolds`, `TypeCorrect` and `WholeHolds`. The last two
  are about sizes, sums over a sequence. `WholeHolds` says that without a
  failure nothing is missing between the oldest entry and the newest, the file
  is within its limit and the count is the file's size. It has a hypothesis,
  `Ample`: a chunk is short against the limit. Without it the half that a
  truncation keeps may be longer than the limit, as every kept chunk gets its
  overhead anew. A chunk is one read of at most 8192 bytes (`pty.rs` 285), for
  which `Ample` asks for about a million of the 104 857 600 bytes of the limit.
* `Daemon_proof`, of the start: `TypeCorrect`, `TurnedAwayByRestartHolds`,
  `CutOffByRestartHolds`, `DiscoversBestHolds`. The invariant says what a
  daemon that is alone at its path finds in its files at each place, and what a
  client knows of the daemon it is connected to. Being alone ends and never
  begins (`StaysTouched`), so only steps that leave the daemon alone matter;
  `Unspawned` is needed because a client that could spawn its daemon twice
  would take it back to the start. For discovery the invariant (`Search`) says
  what a client that is still probing has ruled out.
* `LogReads_proof`: `TypeCorrect`, `ReadsJoinHolds`, `ForgettingIsSafeHolds`,
  `SearchAgreesHolds`, with `FoundIsLeftmost` for the loop of a search. The
  plaintext is a flattened sequence, so the lemmas are about `FlattenSeq` first:
  an append moves the plaintext or makes it longer (`PlainMoves`,
  `PlainExtends`). `JoinInv` ties what a client has put together to an interval
  of the plaintext; `SafeInv`, once offsets may have shifted, only to the order
  of bytes. A search is one step, so its theorem is about operators: stepping by
  the pattern's length finds the leftmost matches; the lossy and the lower-case
  text are spelt byte by byte (`Spell`), so it is known what they keep of the
  log (its lines, the boundaries of its characters); and a slice or a preview
  then cuts no character in two, unless an escape does (`Joined`).
* `AttachConnection_proof`: `TypeCorrect`, `ShownInOrderHolds`,
  `InputsInOrderHolds`, `ImplementsAttachment`. Of inputs the invariant says that those handled, those
  in the socket and those in the client's channel are numbered without a gap
  while the daemon lives (`Numbered`); of output, that what the client has, what
  is in the socket and what is in the daemon's channel are adjacent intervals,
  less what the forwarder has missed, with the history's frame in front. `ImplementsAttachment` maps each
  action to a step of `Attachment` or to a stutter. It needs three facts more:
  `SessionExited` is queued by a forwarder that has nothing left and no output
  is behind it (`Exiting`), the daemon's writer breaks only once nobody reads,
  and a teardown has an outcome (`Leaving`). So when the client reads the exit,
  the intervals in the socket and in the channel are empty, and what it has
  shown or the forwarder has missed reaches to the last chunk.
* `AttachKeys_proof`: `TypeCorrect`, `ForwardsWhatWasTypedHolds`,
  `LostOncePerThreadHolds`. The keys that were fed, those in the channel and
  those the thread of this attachment holds make up one `Line`, which rises
  with the typing (`InLine`): a thread left over can take keys out of the line
  but not put them elsewhere. The parser works run by run and the reference key
  by key, so `FeedFollows` says that a feed that begins where the reference is
  also ends there, with events worth what the reference makes of the chunk: by
  induction over its keys, with a case each for a plain key, a prefix and a chord
  (`PlainFollows`, `PrefixFollows`, `ChordFollows`). `Unended` is the
  strengthening: while the task takes keys, no end has been fed unless it is
  still to come in `todo`; without it, a chunk after a detach would add to one
  side only. A timeout changes the reference after the last key and nothing
  before (`MeaningsSame`), a chunk continues it (`MeaningsMore`). For
  `LostOncePerThread`, `lost` is the number of threads that have gone.
* `Commands_proof`: `TypeCorrect`, `LastCwdKeptHolds`, `NotIntoItselfHolds`,
  `TwinsOverlappedHolds`, `SeenIsMeantHolds`. The first needs to know that a
  poller alone between open and rename finds its own bytes in the temporary
  file, that whoever is there while nothing is mixed is alone, and that a
  session is spawned once. `NotIntoItself` keeps the own session out of the
  list of the picker and out of what is settled on. `TwinInv` says which
  sessions have been created and that each that is on its way has noted those
  that were on theirs. `Fresh` says that a table is what `haven ls` would print
  now until something changes, which makes the action property a matter of one
  step.

Induction over a sequence or a sum (`Transcript_proof`, `LogReads_proof`,
`AttachKeys_proof`) is by the set of the numbers for which a fact holds (`AllOfNat`): the library's
induction theorems take an operator as a parameter, and the provers cannot
instantiate those.

The proofs rest on these assumptions about constants, which the code justifies:
bounds are natural numbers; capacities are at least one, as tokio's channels ask
for; names, paths, versions and the values for "none" are told apart; in
LogReads an activity record ends in a newline, no append is empty, a pattern is
not empty (an empty one is answered without a search) and, being a `str`, cuts
no character in two. The entries of a log may.

Only model-checked: liveness under fairness, which is out of the prover's reach
as ENABLED is (`NeverOrphanedForever`, `KilledIsFreed`, `ClosedEndsForwarders`,
`RequestsFinish`, `ShutdownEnds`, `ClientsFinish`, `ReachesStart`,
`ExitEndsAttachment`, `ReturnsUnlessStuck`). No module with a theorem uses a RECURSIVE operator:
recursion is by functions (`FeedFrom`, `After`) and folds.

## 4. Plan

1. *Done*: every component of section 1 that is modelled, with the proofs above.
2. *Done*: what an attachment promises, as the abstract specification
   `Attachment`, which AttachConnection implements.
3. Open: that the history SessionOutput takes for granted is what a `TailLog`
   gives while nothing fails, which would join the two modules.

## 5. Where code and documentation part

Two runs show a violation; `PROJECT.json` lists them as findings with the lines
they contradict: `output_exit_told` (clients are not told that a shell has
exited by itself) and `manager_stuck` (one write to a program that never reads
its input stops the shutdown). Further differences were met while modelling
and have no run of their own.

Daemon and sessions:

* *A pause is not honoured in a window of the poll* (`daemon.rs` 163-223). The
  pid is read under the mutex and probed after it; a `SetParentWatch` served in
  between is acknowledged and the poll still shuts the daemon down.
  `PauseHonoured` exempts these cases by name (`raced`).
* *A shell that exits by itself stays listed as running*, for the reason its
  clients are not told.
* *Output can follow the answer to a detach*: the forwarder is aborted, and
  frames it has already queued are still written.
* *A read error skips the cleanup of a connection* (`daemon.rs` 235-241, 335):
  `read_exact` failing with anything but the end of the stream, and a frame that
  is too long or cannot be decoded, return before the forwarders are aborted,
  the latter with the client still there. `OneForwarder` exempts such ends by name (`failed`).
* *A create or a kill that overlaps `kill_all`* (`session.rs` 150, 272) has its
  child outside of the registry when `kill_all` drains it: nobody may signal that
  child before the process exits, 150 ms later, and the kernel only hangs up its
  terminal. `session.rs` 338-341 has `kill_all` keep children from outliving the
  daemon.
* *A kill whose signal fails* (`session.rs` 269-274) has removed the session
  already: the child runs on, unlisted, its transcript task keeps it from being
  dropped, and its attachments are not told.
* *A spawn that fails after its child is there* (`pty.rs` 269-277) drops the child,
  which does not kill it, and no session ever has it.
* *A background job keeps attachments open*: it holds the slave side of the pty,
  so the reader thread keeps its sender (`pty.rs` 281-299), and neither a kill nor
  the shell's exit reaches an attached client as long as the job lives.
* *A daemon that died is not started again*: its socket file stays, so
  `ensure_daemon_running` returns at once and every command fails to connect
  (the end `refused` in DaemonStart), until someone starts a daemon by hand.
  `autostart.rs` 1 promises to spawn the daemon if it is not running, and
  `lib.rs` 37-39 that autostart retries.
* *A daemon may have another's token beside its socket* (`daemon.rs` 116-118):
  the token is written before the bind, so of two daemons that start at once
  the one that fails to bind has overwritten the winner's, which then rejects
  every client; `TurnedAwayByRestart` names the case. `client.rs` 52-53 expects
  the token next to the socket.
* *Autostart with another path* (`--socket`, or a `.haven-dev` tree) spawns a
  daemon that listens at `~/.haven/daemon.sock` all the same, and removes the
  socket of a daemon that runs there.
* *The log's limit can be exceeded after a failure*: when the first chunk is
  torn, or a rename or reopen fails after `bytes_written` was set, the file
  grows past its limit until a later truncation succeeds.
* *A write that fails half way hides later ones* (`history.rs` 197-204): the
  torn chunk stays, `read_all_chunks` takes part of the next ones for it, and
  appends that returned Ok cannot be read until a truncation drops them.
  `history.rs` 94-95 calls chunks self-contained. Such chunks are entries that
  `TailLog` allows to be missing.
* *Two pollers may leave a half-written `last_cwd`* (`pty.rs` 474-482), by way
  of the one temporary name; the next poller that writes alone heals it. One
  whose write fails leaves it stale, and does not try again (`pty.rs` 315).
* *A directory whose name ends in a blank* is not found again, or another is
  taken for it, because `last_cwd` is trimmed (`session.rs` 364).
* *A generated name may be in use* although others are free (`pet_name.rs` 39-48):
  the tries are bounded.

Reading a log:

* *A pager does not get past a record as long as its window* (`history.rs`
  264-273, `message.rs` 88-92): the page is empty and `start_offset` is where it
  ended. `ReachesStart` asks for a longer window.
* *A search matches escape sequences* (`history.rs` 317): the text is matched as it
  was stored, and the pattern `m` finds the end of a color code. `history.rs`
  314-316 says escapes are scrubbed for matching, because such matches would be
  noise; only previews are.
* *Search offsets are offsets in the lossy, and with `case_insensitive` the
  lower-case text*, though `history.rs` 314-316 speaks of the raw stream: they
  are shifted, matches can be lost, and slicing there may panic.
* *`strip_ansi` panics* on an escape in front of a character of several bytes
  that is no sequence it knows (`history.rs` 44-88).
* *`HistoryChunk.total` is the size of the encrypted file*, not of what offsets
  count.

Client:

* *An exit that overtakes the response is dropped* (`client.rs` 127,
  `attach.rs` 91-92): the client looks for `Output` only and waits for ever.
* *A detach may hang* (`attach.rs` 408-412): the reader is aborted, the writer
  is awaited, and with every queue full neither side makes room. It also hangs
  with the socket full behind a handler that is in a pty write (`session.rs` 182).
* *Input typed just before a detach may be lost* (`daemon.rs` 605-609): the
  first answer that cannot be written ends the handler, with requests unread.
* *Pipe mode disconnects at the end of stdin at once*, though `attach.rs` 282
  leaves the shutdown to the daemon.
* *A thread left over by a switch takes keys of the next attachment*
  (`attach.rs` 253): it still sits in `read` with stdin locked, finds its
  channel closed and drops what it has read. `attach.rs` 3-4 promises to
  forward keystrokes. `LostOncePerThread` says that it is one read.
* *An index means a place in a new list* (`cli_haven.rs` 395-404): every command
  lists again, and a session created since `haven ls` may have changed the
  order, though `cli_haven.rs` 48 calls it the index from the last `haven ls`. A
  session named like a number cannot be addressed by name.
* `cmd_ls` suggests `haven new`, which does not exist, and
  `haven-session-daemon session attach` (`main.rs`) does not refuse the session
  it runs in.

## 6. Not modelled

Encryption and the key file (a chunk decrypts or it does not), the pty
environment, argument parsing, drawing and wording (no state), `host.rs` and
the other type declarations, the limits on the lengths of frames (a history
longer than 16 MiB is refused by the client), regular expressions and the OSC
sequences in search, offsets near 2^64 and pids that are no pids, the
hint about other daemons, and the management commands of `cli.rs`, each of which
sends one request. SessionOutput takes the transcript as a log that does not
fail; Transcript covers the failures. AttachKeys takes the daemon as a socket
that is read, and AttachConnection takes keys as inputs without chords. Commands
takes a list as one step; SessionManager has its locks.
