------------------------ MODULE SessionOutput_proof ------------------------
(***************************************************************************)
(* For any number of clients and any bounds: all that the safety run of    *)
(* SessionOutput checks.  The inductive invariant says, besides the types, *)
(*                                                                         *)
(*   - where a handler is with its request and what it holds by then;      *)
(*   - that all that was recorded, read or received was broadcast before;  *)
(*   - that a request has one forwarder, born after the replay, and that   *)
(*     output and SessionExited come from it;                              *)
(*   - what an attachment has been shown so far, as a set of chunks that   *)
(*     is behind the position of its forwarder.                            *)
(***************************************************************************)
EXTENDS SessionOutput, TLAPS

(* TypeOK, by who changes what.                                            *)
PtyTypes ==
  /\ child \in {"running", "exited"}
  /\ reader \in {"reading", "done"} /\ poller \in {"polling", "done"}
  /\ handle \in {"up", "dropped"}
  /\ tail \in 0 .. MaxOut
  /\ registered \in BOOLEAN /\ status \in {"Running", "Exited"}
  /\ killer \in {"none", "removed", "done", "failed"}

TranscriptTypes ==
  /\ ttask \in {"live", "doomed", "gone"}
  /\ tNext \in 1 .. MaxOut + 1 /\ tHold \in 0 .. MaxOut
  /\ recorded \subseteq Chunks

HandlerTypes ==
  /\ hpc \in [Conns -> HandlerPc] /\ served \in [Conns -> 0 .. MaxRequests]
  /\ cur \in [Conns -> 0 .. MaxRequests]
  /\ hist \in [Conns -> SUBSET Chunks] /\ answer \in [Conns -> Answers]
  /\ snap \in [Conns -> 0 .. MaxOut]

ForwarderTypes ==
  /\ fmode \in [Forwarders -> {"unborn", "live", "doomed", "gone"}]
  /\ fnext \in [Forwarders -> 0 .. MaxOut + 1]
  /\ fhold \in [Forwarders -> 0 .. Closed]
  /\ seam \in [Forwarders -> BOOLEAN]

ChannelTypes ==
  /\ log \in [Conns -> Seq(Frames)] /\ pending \in [Conns -> Nat]
  /\ wtask \in [Conns -> {"up", "done"}]
  /\ peer \in [Conns -> {"up", "gone"}]

Types ==
  PtyTypes /\ TranscriptTypes /\ HandlerTypes /\ ForwarderTypes /\ ChannelTypes

-----------------------------------------------------------------------------
Subscribing == {"read", "replay", "find_again", "subscribe"}

(* Where a handler is, and what it has by then.                            *)
Served(c) ==
  /\ hpc[c] \in Subscribing => cur[c] = 0 /\ served[c] > 0
  /\ hpc[c] = "reply" => answer[c] # "none" /\ served[c] > 0

(* A reader that is done has seen the end of an exited shell, and a handle *)
(* is only dropped when nothing that could bring it back refers to it.     *)
GoneForGood ==
  /\ reader = "done" => child = "exited"
  /\ handle = "dropped" => ~HandleAlive

(* Nothing is ahead of the channel.                                        *)
TranscriptBehind == recorded \subseteq 1 .. tail /\ tHold <= tail
HistoryBehind(c) == hist[c] \subseteq 1 .. tail /\ snap[c] <= tail
ForwarderBehind(f) ==
  /\ fnext[f] <= tail + 1
  /\ fhold[f] # Closed => fhold[f] <= tail
  /\ fhold[f] \in Chunks => fhold[f] < fnext[f]

(* The forwarder of a request is born once, by its last step.              *)
BornOnce(f) ==
  /\ fmode[f] \in {"unborn", "gone"} => fhold[f] = 0
  /\ f[2] > served[f[1]] => fmode[f] = "unborn"
  /\ f[2] = served[f[1]] /\ hpc[f[1]] \in Subscribing => fmode[f] = "unborn"
  /\ f[2] = served[f[1]] /\ hpc[f[1]] = "reply" /\ fmode[f] # "unborn" =>
       answer[f[1]] = "attached"

(* Nothing is shown for a request before its replay.                       *)
NotYetShown(f) ==
  \/ f[2] > served[f[1]]
  \/ f[2] = served[f[1]] /\ hpc[f[1]] \in {"read", "replay"}
  => Shown(f) = {}

(* What an attachment has been shown is behind its forwarder.              *)
ShownBehind(f) ==
  \A m \in Delivered(f) :
    /\ m \in 1 .. tail
    /\ fmode[f] # "unborn" => m < fnext[f]
    /\ fhold[f] \in Chunks => m < fhold[f]

(* SessionExited has been received, and later sent.                        *)
ClosedIsFinal(f) ==
  /\ fhold[f] = Closed => ~SendersAlive /\ fnext[f] = tail + 1
  /\ Told(f) => fmode[f] = "gone" /\ ~SendersAlive /\ fnext[f] = tail + 1

(* Only the answer of its own request follows SessionExited.               *)
ExitedIsLast(f) ==
  \A i \in Shown(f) : log[f[1]][i].kind = "exited" =>
    \A j \in Shown(f) : j > i => log[f[1]][j].kind = "attached"

(* No hole up to the end of the channel in what was read or replayed.      *)
UpTo(chunks, last) == \A m \in chunks : m .. last \subseteq chunks

ReplayIsWhole(c) ==
  snap[c] = tail /\ snap[c] > 0 =>
    /\ hpc[c] = "replay" => UpTo(hist[c], tail)
    /\ hpc[c] \in {"find_again", "subscribe"} =>
         UpTo(Delivered(<<c, served[c]>>), tail)

(* No hole up to its position in what a forwarder has received.            *)
Got(f) == Delivered(f) \cup ({fhold[f]} \cap Chunks)
GotIsWhole(f) == seam[f] /\ fmode[f] \in Active => UpTo(Got(f), fnext[f] - 1)

(* InOrder and OneForwarder, for one connection and one forwarder.         *)
InOrderAt(c) ==
  \A i, j \in DOMAIN log[c] :
    i < j /\ log[c][i].req = log[c][j].req =>
      \A m \in log[c][i].chunks, n \in log[c][j].chunks : m < n

OnlyCurrent(f) == fmode[f] = "live" /\ hpc[f[1]] # "failed" => cur[f[1]] = f[2]

HandlerInv(c) ==
  Served(c) /\ HistoryBehind(c) /\ ReplayIsWhole(c) /\ InOrderAt(c)

ControlInv(f) == BornOnce(f) /\ OnlyCurrent(f) /\ NotYetShown(f)

DataInv(f) ==
  /\ ForwarderBehind(f) /\ ShownBehind(f) /\ ClosedIsFinal(f)
  /\ ExitedIsLast(f) /\ GotIsWhole(f)

IInv ==
  /\ Types /\ GoneForGood /\ TranscriptBehind
  /\ \A c \in Conns : HandlerInv(c)
  /\ \A f \in Forwarders : ControlInv(f) /\ DataInv(f)

USE DEF pty, reg, trans, handler, fwd, chan

-----------------------------------------------------------------------------
LEMMA TypesAreTypeOK == Types => TypeOK
BY DEF TypeOK, Types, PtyTypes, TranscriptTypes, HandlerTypes, ForwarderTypes,
       ChannelTypes

LEMMA IInvIsEnough ==
  IInv => TypeOK /\ OneForwarder /\ InOrder /\ Gapless /\ ExitedIsFinal
<1> SUFFICES ASSUME IInv
             PROVE TypeOK /\ OneForwarder /\ InOrder /\ Gapless /\ ExitedIsFinal
  OBVIOUS
<1> USE DEF IInv
<1>1. TypeOK
  BY TypesAreTypeOK
<1>2. InOrder
  BY DEF HandlerInv, InOrderAt, InOrder
<1>3. OneForwarder
  BY DEF ControlInv, OnlyCurrent, OneForwarder
<1>4. Gapless
  BY DEF DataInv, GotIsWhole, Got, UpTo, Gapless
<1>5. ExitedIsFinal
  BY DEF DataInv, ClosedIsFinal, ExitedIsLast, ExitedIsFinal, GoneForGood, SendersAlive,
         Types, PtyTypes
<1>6. QED
  BY <1>1, <1>2, <1>3, <1>4, <1>5

LEMMA InitIInv == Init => IInv
<1> SUFFICES ASSUME Init PROVE IInv
  OBVIOUS
<1> USE BoundsAssumption DEF Init
<1>1. Types
  BY DEF Types, PtyTypes, TranscriptTypes, HandlerTypes, ForwarderTypes, ChannelTypes,
         HandlerPc, Answers, Closed, Forwarders, Requests
<1>2. GoneForGood /\ TranscriptBehind
  BY DEF GoneForGood, TranscriptBehind
<1>3. ASSUME NEW c \in Conns PROVE HandlerInv(c)
  BY DEF HandlerInv, Served, Subscribing, HistoryBehind, ReplayIsWhole, InOrderAt
<1>4. ASSUME NEW f \in Forwarders PROVE ControlInv(f) /\ DataInv(f)
  <2>1. f[1] \in Conns
    BY DEF Forwarders
  <2>2. Shown(f) = {} /\ Delivered(f) = {} /\ ~Told(f)
    BY <2>1 DEF Shown, Delivered, Told
  <2>3. ForwarderBehind(f) /\ BornOnce(f) /\ OnlyCurrent(f) /\ GotIsWhole(f)
    BY <2>1 DEF ForwarderBehind, BornOnce, OnlyCurrent, Subscribing, Closed, Chunks,
       GotIsWhole, Active
  <2>4. NotYetShown(f) /\ ShownBehind(f) /\ ClosedIsFinal(f) /\ ExitedIsLast(f)
    BY <2>2 DEF NotYetShown, ShownBehind, ClosedIsFinal, ExitedIsLast, Closed
  <2>5. QED
    BY <2>3, <2>4 DEF ControlInv, DataInv
<1>5. QED
  BY <1>1, <1>2, <1>3, <1>4 DEF IInv

-----------------------------------------------------------------------------
(* Which steps there are for handlers, forwarders and what they show.      *)
Elsewhere ==
  \/ PtyStep \/ ReaderEnds \/ PollerEnds \/ TranscriptStep \/ KillRemoves \/ KillStep
  \/ HandleDrops
  \/ \E c \in Conns : WriterStep(c) \/ ClientLeaves(c)

LEMMA StepCases ==
  ASSUME Next
  PROVE  \/ Elsewhere
         \/ \E c \in Conns :
              \/ AttachBegins(c) \/ Detach(c) \/ AttachReads(c) \/ AttachReplays(c)
              \/ AttachFindsAgain(c) \/ AttachSubscribes(c) \/ Replies(c)
              \/ HandlerEnds(c) \/ HandlerFails(c)
         \/ \E f \in Forwarders :
              ForwarderReceives(f) \/ ForwarderSends(f) \/ ForwarderEnds(f)
BY DEF Next, Elsewhere, HandlerStep, AttachStep, ClientStep, ForwarderStep

LEMMA ElsewhereIsQuiet == Elsewhere => UNCHANGED <<handler, fwd, log>>
BY DEF Elsewhere, PtyStep, ChildExits, ReaderReads, PollerReports, ReaderEnds, PollerEnds,
       TranscriptStep, TranscriptReceives, TranscriptAppends, TranscriptAborted,
       KillRemoves, KillStep, KillStops, KillWith, KillAllGoesOn, KillFails, HandleDrops,
       WriterStep, WriterSends, WriterEnds, ClientLeaves

(* The handlers and forwarders leave the pty, the registry and the         *)
(* transcript alone.                                                       *)
LEMMA OthersAreQuiet == Next => Elsewhere \/ UNCHANGED <<pty, tail, reg, trans>>
<1>1. ASSUME NEW c \in Conns,
             \/ AttachBegins(c) \/ Detach(c) \/ AttachReads(c) \/ AttachReplays(c)
             \/ AttachFindsAgain(c) \/ AttachSubscribes(c) \/ Replies(c)
             \/ HandlerEnds(c) \/ HandlerFails(c)
      PROVE  UNCHANGED <<pty, tail, reg, trans>>
  BY <1>1 DEF AttachBegins, Detach, AttachReads, AttachReplays, AttachFindsAgain,
       AttachSubscribes, SubscribeAt, Replies, HandlerEnds, HandlerFails
<1>2. ASSUME NEW f \in Forwarders,
             ForwarderReceives(f) \/ ForwarderSends(f) \/ ForwarderEnds(f)
      PROVE  UNCHANGED <<pty, tail, reg, trans>>
  BY <1>2 DEF ForwarderReceives, ForwarderSends, ForwarderEnds
<1>3. QED
  BY <1>1, <1>2, StepCases

LEMMA TailGrows == ASSUME PtyTypes, Next PROVE tail' \in {tail, tail + 1}
<1>1. CASE Elsewhere
  BY <1>1 DEF PtyTypes, Elsewhere, PtyStep, ChildExits, ReaderReads, PollerReports,
       ReaderEnds, PollerEnds, Broadcast,
       TranscriptStep, TranscriptReceives, TranscriptAppends, TranscriptAborted,
       KillRemoves, KillStep, KillStops, KillWith, KillAllGoesOn, KillFails, HandleDrops,
       WriterStep, WriterSends, WriterEnds, ClientLeaves
<1>2. QED
  BY <1>1, OthersAreQuiet

(* Once nobody can send to the broadcast channel, nobody ever will.        *)
LEMMA SendersStayDead ==
  ASSUME PtyTypes, Next, ~SendersAlive
  PROVE  ~SendersAlive' /\ tail' = tail
<1> USE DEF SendersAlive, PtyTypes
<1>1. CASE Elsewhere
  BY <1>1 DEF Elsewhere, PtyStep, ChildExits, ReaderReads, PollerReports,
       ReaderEnds, PollerEnds,
       TranscriptStep, TranscriptReceives, TranscriptAppends, TranscriptAborted,
       KillRemoves, KillStep, KillStops, KillWith, KillAllGoesOn, KillFails, HandleDrops,
       WriterStep, WriterSends, WriterEnds, ClientLeaves
<1>2. ASSUME NEW c \in Conns, UNCHANGED <<pty, tail, reg, trans>>,
             \/ AttachBegins(c) \/ Detach(c) \/ AttachReads(c) \/ AttachReplays(c)
             \/ AttachFindsAgain(c) \/ AttachSubscribes(c) \/ Replies(c)
             \/ HandlerEnds(c) \/ HandlerFails(c)
      PROVE  ~SendersAlive' /\ tail' = tail
  BY <1>2 DEF AttachBegins, Detach, AttachReads, AttachReplays, AttachFindsAgain,
       AttachSubscribes, SubscribeAt, Replies, HandlerEnds, HandlerFails
<1>3. ASSUME NEW f \in Forwarders, UNCHANGED <<pty, tail, reg, trans>>,
             ForwarderReceives(f) \/ ForwarderSends(f) \/ ForwarderEnds(f)
      PROVE  ~SendersAlive' /\ tail' = tail
  BY <1>3 DEF ForwarderReceives, ForwarderSends, ForwarderEnds
<1>4. QED
  BY <1>1, <1>2, <1>3, StepCases, OthersAreQuiet

LEMMA OldestIsNear ==
  ASSUME PtyTypes PROVE Oldest \in 1 .. MaxOut + 1 /\ Oldest <= tail + 1
BY BoundsAssumption DEF PtyTypes, Oldest

-----------------------------------------------------------------------------
(* Types.                                                                  *)
LEMMA EnqueueTypes ==
  ASSUME ChannelTypes, NEW c \in Conns, NEW frame \in Frames, Enqueue(c, frame)
  PROVE  log' \in [Conns -> Seq(Frames)] /\ pending' \in [Conns -> Nat]
<1>1. Append(log[c], frame) \in Seq(Frames)
  BY DEF ChannelTypes
<1>2. QED
  BY <1>1 DEF ChannelTypes, Enqueue

LEMMA HandlerFrames ==
  ASSUME HandlerTypes, NEW c \in Conns, Served(c)
  PROVE  /\ Frame("history", hist[c], served[c]) \in Frames
         /\ hpc[c] = "reply" => Frame(answer[c], {}, served[c]) \in Frames
BY DEF HandlerTypes, Served, Frame, Frames, FrameKinds, Answers

LEMMA ForwarderFrames ==
  ASSUME ForwarderTypes, NEW f \in Forwarders
  PROVE  /\ Frame("exited", {}, f[2]) \in Frames
         /\ fhold[f] # Closed /\ fhold[f] # 0 => Frame("output", {fhold[f]}, f[2]) \in Frames
<1>1. f[2] \in 0 .. MaxRequests
  BY BoundsAssumption DEF Forwarders, Requests
<1>2. fhold[f] # Closed /\ fhold[f] # 0 => fhold[f] \in Chunks
  BY BoundsAssumption DEF ForwarderTypes, Closed, Chunks
<1>3. QED
  BY <1>1, <1>2 DEF Frame, Frames, FrameKinds

(* An abort changes the mode of a forwarder that is live, and nothing else.*)
LEMMA Aborts ==
  ASSUME ForwarderTypes, NEW c \in Conns, AbortForwarder(c)
  PROVE  /\ fmode' \in [Forwarders -> {"unborn", "live", "doomed", "gone"}]
         /\ \A f \in Forwarders :
              /\ fmode'[f] = fmode[f] \/ (fmode[f] = "live" /\ fmode'[f] = "doomed")
              /\ f = <<c, cur[c]>> => fmode'[f] # "live"
              /\ f[1] # c => fmode'[f] = fmode[f]
BY DEF ForwarderTypes, AbortForwarder

LEMMA ElsewhereTypes == Types /\ Elsewhere => Types'
<1> SUFFICES ASSUME Types, Elsewhere PROVE Types'
  OBVIOUS
<1> USE BoundsAssumption DEF Types
<1>1. HandlerTypes' /\ ForwarderTypes'
  BY ElsewhereIsQuiet DEF HandlerTypes, ForwarderTypes
<1>2. CASE PtyStep \/ ReaderEnds \/ PollerEnds
  <2>1. PtyTypes'
    BY <1>2 DEF PtyTypes, PtyStep, ChildExits, ReaderReads, PollerReports, ReaderEnds,
       PollerEnds, Broadcast
  <2>2. TranscriptTypes' /\ ChannelTypes'
    BY <1>2 DEF TranscriptTypes, ChannelTypes, PtyStep, ChildExits, ReaderReads,
       PollerReports, ReaderEnds, PollerEnds
  <2>3. QED
    BY <1>1, <2>1, <2>2
<1>3. CASE KillRemoves \/ KillStep \/ HandleDrops
  <2>1. PtyTypes'
    BY <1>3 DEF PtyTypes, KillRemoves, KillStep, KillStops, KillWith, KillAllGoesOn,
       KillFails, HandleDrops
  <2>a. TranscriptTypes'
    BY <1>3 DEF TranscriptTypes, KillRemoves, KillStep, KillStops, KillWith,
       KillAllGoesOn, KillFails, HandleDrops
  <2>2. ChannelTypes'
    BY <1>3 DEF ChannelTypes, KillRemoves, KillStep, KillStops, KillWith, KillAllGoesOn,
       KillFails, HandleDrops
  <2>3. QED
    BY <1>1, <2>1, <2>a, <2>2
<1>4. CASE TranscriptStep
  <2>1. PtyTypes' /\ ChannelTypes'
    BY <1>4 DEF PtyTypes, ChannelTypes, TranscriptStep, TranscriptReceives,
       TranscriptAppends, TranscriptAborted
  <2>2. CASE TranscriptReceives
    <3>1. tNext <= tail => tNext \in 0 .. MaxOut /\ tNext + 1 \in 1 .. MaxOut + 1
      BY DEF PtyTypes, TranscriptTypes
    <3>2. QED
      BY <1>1, <2>1, <2>2, <3>1, OldestIsNear DEF TranscriptTypes, TranscriptReceives
  <2>3. CASE TranscriptAppends
    <3>1. tHold \in Chunks
      BY <2>3 DEF TranscriptTypes, TranscriptAppends, Chunks
    <3>2. QED
      BY <1>1, <2>1, <2>3, <3>1 DEF TranscriptTypes, TranscriptAppends
  <2>4. CASE TranscriptAborted
    BY <1>1, <2>1, <2>4 DEF TranscriptTypes, TranscriptAborted
  <2>5. QED
    BY <1>4, <2>2, <2>3, <2>4 DEF TranscriptStep
<1>5. ASSUME NEW c \in Conns, WriterStep(c) \/ ClientLeaves(c) PROVE Types'
  <2>1. PtyTypes' /\ TranscriptTypes'
    BY <1>5 DEF PtyTypes, TranscriptTypes, WriterStep, WriterSends, WriterEnds,
       ClientLeaves
  <2>2. CASE WriterSends(c)
    <3>1. pending[c] - 1 \in Nat
      BY <2>2 DEF ChannelTypes, WriterSends
    <3>2. QED
      BY <1>1, <2>1, <2>2, <3>1 DEF ChannelTypes, WriterSends
  <2>3. CASE WriterEnds(c) \/ ClientLeaves(c)
    BY <1>1, <2>1, <2>3 DEF ChannelTypes, WriterEnds, ClientLeaves
  <2>4. QED
    BY <1>5, <2>2, <2>3 DEF WriterStep
<1>6. QED
  BY <1>2, <1>3, <1>4, <1>5 DEF Elsewhere

LEMMA HandlerKeepsTypes ==
  ASSUME Types, NEW c \in Conns, Served(c), UNCHANGED <<pty, tail, reg, trans>>,
         \/ AttachBegins(c) \/ Detach(c) \/ AttachReads(c) \/ AttachReplays(c)
         \/ AttachFindsAgain(c) \/ AttachSubscribes(c) \/ Replies(c)
         \/ HandlerEnds(c) \/ HandlerFails(c)
  PROVE  Types'
<1> USE BoundsAssumption DEF Types
<1>1. PtyTypes' /\ TranscriptTypes'
  BY DEF PtyTypes, TranscriptTypes
<1>2. CASE AttachBegins(c) \/ Detach(c) \/ HandlerEnds(c)
  <2>1. HandlerTypes'
    BY <1>2 DEF HandlerTypes, HandlerPc, Answers, AttachBegins, Detach, HandlerEnds
  <2>2. ForwarderTypes' /\ ChannelTypes'
    BY <1>2, Aborts DEF ForwarderTypes, ChannelTypes, AttachBegins, Detach, HandlerEnds
  <2>3. QED
    BY <1>1, <2>1, <2>2
<1>3. CASE AttachReads(c)
  <2>1. HandlerTypes'
    BY <1>3 DEF HandlerTypes, PtyTypes, TranscriptTypes, HandlerPc, AttachReads, History
  <2>2. QED
    BY <1>1, <1>3, <2>1 DEF ForwarderTypes, ChannelTypes, AttachReads
<1>4. CASE AttachReplays(c)
  <2>1. HandlerTypes' /\ ForwarderTypes'
    BY <1>4 DEF HandlerTypes, HandlerPc, ForwarderTypes, AttachReplays
  <2>2. ChannelTypes'
    BY <1>4, EnqueueTypes, HandlerFrames DEF ChannelTypes, AttachReplays
  <2>3. QED
    BY <1>1, <2>1, <2>2
<1>5. CASE AttachFindsAgain(c) \/ HandlerFails(c)
  <2>1. HandlerTypes'
    BY <1>5 DEF HandlerTypes, HandlerPc, Answers, AttachFindsAgain, HandlerFails
  <2>2. ForwarderTypes' /\ ChannelTypes'
    BY <1>5 DEF ForwarderTypes, ChannelTypes, AttachFindsAgain, HandlerFails
  <2>3. QED
    BY <1>1, <2>1, <2>2
<1>6. CASE AttachSubscribes(c)
  <2>1. HandlerTypes' /\ ChannelTypes'
    BY <1>6 DEF HandlerTypes, HandlerPc, Answers, ChannelTypes, AttachSubscribes, SubscribeAt
  <2>2. tail + 1 \in 0 .. MaxOut + 1
    BY DEF PtyTypes
  <2>3. ForwarderTypes'
    BY <1>6, <2>2 DEF ForwarderTypes, AttachSubscribes, SubscribeAt
  <2>4. QED
    BY <1>1, <2>1, <2>3
<1>7. CASE Replies(c)
  <2>1. HandlerTypes' /\ ForwarderTypes'
    BY <1>7 DEF HandlerTypes, HandlerPc, Answers, ForwarderTypes, Replies
  <2>2. ChannelTypes'
    BY <1>7, EnqueueTypes, HandlerFrames DEF ChannelTypes, Replies
  <2>3. QED
    BY <1>1, <2>1, <2>2
<1>8. QED
  BY <1>2, <1>3, <1>4, <1>5, <1>6, <1>7

LEMMA ForwarderKeepsTypes ==
  ASSUME Types, NEW f \in Forwarders, UNCHANGED <<pty, tail, reg, trans>>,
         ForwarderReceives(f) \/ ForwarderSends(f) \/ ForwarderEnds(f)
  PROVE  Types'
<1> USE BoundsAssumption DEF Types
<1>1. PtyTypes' /\ TranscriptTypes' /\ HandlerTypes'
  BY DEF PtyTypes, TranscriptTypes, HandlerTypes, ForwarderReceives, ForwarderSends,
         ForwarderEnds
<1>2. CASE ForwarderReceives(f)
  <2> USE <1>2 DEF ForwarderReceives
  <2>1. ChannelTypes'
    BY DEF ChannelTypes
  <2>2. fnext[f] <= tail => fnext[f] \in 0 .. Closed /\ fnext[f] + 1 \in 0 .. MaxOut + 1
    BY DEF PtyTypes, ForwarderTypes, Closed
  <2>3. Closed \in 0 .. Closed /\ Oldest \in 0 .. MaxOut + 1
    BY OldestIsNear DEF Closed
  <2>4. ForwarderTypes'
    <3>1. fmode' = fmode /\ fnext' \in [Forwarders -> 0 .. MaxOut + 1]
      BY <2>2, <2>3 DEF ForwarderTypes
    <3>2. fhold' \in [Forwarders -> 0 .. Closed]
      BY <2>2, <2>3 DEF ForwarderTypes
    <3>3. seam' \in [Forwarders -> BOOLEAN]
      BY ZenonT(30) DEF ForwarderTypes
    <3>4. QED
      BY <3>1, <3>2, <3>3 DEF ForwarderTypes
  <2>5. QED
    BY <1>1, <2>1, <2>4
<1>3. CASE ForwarderSends(f)
  <2>1. ForwarderTypes'
    <3>1. 0 \in 0 .. Closed
      BY DEF Closed
    <3>2. QED
      BY <1>3, <3>1 DEF ForwarderTypes, ForwarderSends
  <2>2. ChannelTypes'
    BY <1>3, EnqueueTypes, ForwarderFrames DEF ChannelTypes, ForwarderSends, Forwarders
  <2>3. QED
    BY <1>1, <2>1, <2>2
<1>4. CASE ForwarderEnds(f)
  <2>1. 0 \in 0 .. Closed
    BY DEF Closed
  <2>2. QED
    BY <1>1, <1>4, <2>1 DEF ForwarderTypes, ChannelTypes, ForwarderEnds
<1>5. QED
  BY <1>2, <1>3, <1>4

LEMMA TypesKept == IInv /\ Next => Types'
BY StepCases, OthersAreQuiet, ElsewhereTypes, HandlerKeepsTypes, ForwarderKeepsTypes
   DEF IInv, HandlerInv

-----------------------------------------------------------------------------
(* The part of the state that a handler, or an attachment, is about.       *)
HandlerSame(c) ==
  /\ hpc'[c] = hpc[c] /\ served'[c] = served[c] /\ cur'[c] = cur[c]
  /\ hist'[c] = hist[c] /\ answer'[c] = answer[c] /\ snap'[c] = snap[c]

ForwarderSame(f) ==
  /\ fmode'[f] = fmode[f] /\ fnext'[f] = fnext[f]
  /\ fhold'[f] = fhold[f] /\ seam'[f] = seam[f]

ShownSame(f) ==
  /\ Shown(f)' = Shown(f)
  /\ \A i \in Shown(f) : log'[f[1]][i] = log[f[1]][i]

LEMMA LogStays == \A f \in Forwarders : log'[f[1]] = log[f[1]] => ShownSame(f)
BY DEF ShownSame, Shown

LEMMA ShownSameMeans ==
  ASSUME NEW f \in Forwarders, ShownSame(f)
  PROVE  /\ Delivered(f)' = Delivered(f)
         /\ Told(f)' <=> Told(f)
         /\ ExitedIsLast(f)' <=> ExitedIsLast(f)
<1>1. \A i : i \in Shown(f)' <=> i \in Shown(f)
  BY DEF ShownSame
<1>2. {log[f[1]][i].chunks : i \in Shown(f)}' = {log[f[1]][i].chunks : i \in Shown(f)}
  BY <1>1 DEF ShownSame
<1>3. QED
  BY <1>1, <1>2 DEF ShownSame, Delivered, Told, ExitedIsLast

(* One more frame in a connection's log.                                   *)
LEMMA LogGrows ==
  ASSUME ChannelTypes, NEW c \in Conns, NEW frame \in Frames, Enqueue(c, frame)
  PROVE  LET new == Len(log[c]) + 1
         IN /\ \A d \in Conns \ {c} : log'[d] = log[d]
            /\ new \in Nat \ {0} /\ DOMAIN log[c] = 1 .. new - 1
            /\ DOMAIN log'[c] = 1 .. new /\ log'[c][new] = frame
            /\ \A i \in DOMAIN log[c] : log'[c][i] = log[c][i]
BY DEF ChannelTypes, Enqueue

LEMMA ShownGrows ==
  ASSUME ChannelTypes, NEW c \in Conns, NEW frame \in Frames, Enqueue(c, frame),
         NEW f \in Forwarders
  PROVE  /\ f # <<c, frame.req>> => ShownSame(f)
         /\ f = <<c, frame.req>> =>
              /\ Delivered(f)' = Delivered(f) \cup frame.chunks
              /\ Told(f)' <=> Told(f) \/ frame.kind = "exited"
              /\ ExitedIsLast(f)' <=>
                   ExitedIsLast(f) /\ (Told(f) => frame.kind = "attached")
<1> DEFINE new == Len(log[c]) + 1
<1>1. f = <<f[1], f[2]>> /\ f[1] \in Conns
  BY DEF Forwarders
<1>2. /\ \A d \in Conns \ {c} : log'[d] = log[d]
      /\ new \in Nat \ {0} /\ DOMAIN log[c] = 1 .. new - 1
      /\ DOMAIN log'[c] = 1 .. new /\ log'[c][new] = frame
      /\ \A i \in DOMAIN log[c] : log'[c][i] = log[c][i]
  BY LogGrows
<1> HIDE DEF new
<1>3. CASE f # <<c, frame.req>>
  <2>1. CASE f[1] # c
    BY <1>1, <1>2, <1>3, <2>1, LogStays
  <2>2. CASE f[1] = c
    <3>1. frame.req # f[2]
      BY <1>1, <1>3, <2>2
    <3>2. Shown(f)' = Shown(f)
      BY <1>2, <2>2, <3>1 DEF Shown
    <3>3. QED
      BY <1>2, <1>3, <2>2, <3>2 DEF ShownSame, Shown
  <2>3. QED
    BY <2>1, <2>2
<1>4. CASE f = <<c, frame.req>>
  <2>1. f[1] = c /\ f[2] = frame.req
    BY <1>4
  <2>2. /\ Shown(f)' = Shown(f) \cup {new} /\ new \notin Shown(f)
        /\ \A i \in Shown(f) : i < new /\ log'[c][i] = log[c][i]
    <3>1. Shown(f) = {i \in 1 .. new - 1 : log[c][i].req = f[2]}
      BY <1>2, <2>1 DEF Shown
    <3>2. Shown(f)' = {i \in 1 .. new : log'[c][i].req = f[2]}
      BY <1>2, <2>1 DEF Shown
    <3>3. \A i \in 1 .. new : i = new \/ i \in 1 .. new - 1
      BY <1>2
    <3>4. \A i \in 1 .. new - 1 : i \in 1 .. new /\ i < new
      BY <1>2
    <3>5. new \in 1 .. new
      BY <1>2
    <3>6. ASSUME NEW i PROVE i \in Shown(f)' <=> i \in Shown(f) \cup {new}
      BY <1>2, <2>1, <3>1, <3>2, <3>3, <3>4, <3>5
    <3>7. QED
      BY <1>2, <3>1, <3>4, <3>6
  <2>3. {log'[c][i].chunks : i \in Shown(f)'}
          = {log[c][i].chunks : i \in Shown(f)} \cup {frame.chunks}
    BY <1>2, <2>2
  <2>4. Delivered(f)' = Delivered(f) \cup frame.chunks
    <3>1. Delivered(f) = UNION {log[c][i].chunks : i \in Shown(f)}
      BY <2>1 DEF Delivered
    <3>2. Delivered(f)' = UNION {log'[c][i].chunks : i \in Shown(f)'}
      BY <2>1 DEF Delivered
    <3>3. QED
      BY <2>3, <3>1, <3>2
  <2>5. Told(f)' <=> Told(f) \/ frame.kind = "exited"
    BY <1>2, <2>1, <2>2 DEF Told
  <2>6. ExitedIsLast(f)' <=>
          ExitedIsLast(f) /\ (Told(f) => frame.kind = "attached")
    <3>1. \A i \in Shown(f) : i \in Nat
      BY <1>2, <2>1 DEF Shown
    <3>2. QED
      BY <1>2, <2>1, <2>2, <3>1, SMTT(30) DEF ExitedIsLast, Told
  <2>7. QED
    BY <1>4, <2>4, <2>5, <2>6
<1>5. QED
  BY <1>3, <1>4

-----------------------------------------------------------------------------
LEMMA PairOf ==
  ASSUME NEW f \in Forwarders
  PROVE  f = <<f[1], f[2]>> /\ f[1] \in Conns /\ f[2] \in 1 .. MaxRequests
BY DEF Forwarders, Requests

LEMMA InOrderGrows ==
  ASSUME ChannelTypes, NEW c \in Conns, NEW frame \in Frames, Enqueue(c, frame),
         <<c, frame.req>> \in Forwarders, InOrderAt(c),
         \A m \in Delivered(<<c, frame.req>>), n \in frame.chunks : m < n
  PROVE  InOrderAt(c)'
<1> DEFINE new == Len(log[c]) + 1
<1>1. /\ new \in Nat \ {0} /\ DOMAIN log[c] = 1 .. new - 1
      /\ DOMAIN log'[c] = 1 .. new /\ log'[c][new] = frame
      /\ \A i \in DOMAIN log[c] : log'[c][i] = log[c][i]
  BY LogGrows
<1> HIDE DEF new
<1>2. SUFFICES ASSUME NEW i \in DOMAIN log'[c], NEW j \in DOMAIN log'[c], i < j,
                      log'[c][i].req = log'[c][j].req,
                      NEW m \in log'[c][i].chunks, NEW n \in log'[c][j].chunks
               PROVE  m < n
  BY DEF InOrderAt
<1>3. i \in DOMAIN log[c]
  BY <1>1, <1>2
<1>4. CASE j \in DOMAIN log[c]
  BY <1>1, <1>2, <1>3, <1>4 DEF InOrderAt
<1>5. CASE j = new
  <2>1. log[c][i].req = frame.req /\ m \in log[c][i].chunks
    BY <1>1, <1>2, <1>3, <1>5
  <2>2. i \in Shown(<<c, frame.req>>)
    BY <1>3, <2>1 DEF Shown
  <2>3. m \in Delivered(<<c, frame.req>>)
    BY <2>1, <2>2 DEF Delivered
  <2>4. QED
    BY <1>1, <1>2, <1>5, <2>3
<1>6. QED
  BY <1>1, <1>2, <1>4, <1>5

(* A step that leaves a forwarder where it is, or aborts it, and shows     *)
(* nothing more for it.                                                    *)
LEMMA DataKept ==
  ASSUME IInv, Next, NEW f \in Forwarders,
         fnext'[f] = fnext[f], fhold'[f] = fhold[f], seam'[f] = seam[f],
         fmode'[f] = fmode[f] \/ (fmode[f] = "live" /\ fmode'[f] = "doomed"),
         Delivered(f)' = Delivered(f), Told(f)' <=> Told(f), ExitedIsLast(f)'
  PROVE  DataInv(f)'
<1>1. tail' \in {tail, tail + 1} /\ tail \in Nat /\ (~SendersAlive => ~SendersAlive' /\ tail' = tail)
  BY TailGrows, SendersStayDead, BoundsAssumption DEF IInv, Types, PtyTypes
<1>2. DataInv(f)
  BY DEF IInv
<1>3. fnext[f] \in Nat /\ fhold[f] \in Nat
  BY BoundsAssumption DEF IInv, Types, ForwarderTypes, Closed
<1>4. ForwarderBehind(f)'
  BY <1>1, <1>2, <1>3 DEF DataInv, ForwarderBehind
<1>5. ShownBehind(f)'
  BY <1>1, <1>2 DEF DataInv, ShownBehind
<1>6. ClosedIsFinal(f)'
  BY <1>1, <1>2 DEF DataInv, ClosedIsFinal
<1>7. GotIsWhole(f)'
  BY <1>2 DEF DataInv, GotIsWhole, Got, Active
<1>8. QED
  BY <1>4, <1>5, <1>6, <1>7 DEF DataInv

LEMMA ForwarderKept ==
  ASSUME IInv, Next, NEW f \in Forwarders, ForwarderSame(f), ShownSame(f),
         HandlerSame(f[1])
  PROVE  ControlInv(f)' /\ DataInv(f)'
<1>1. ControlInv(f) /\ DataInv(f)
  BY DEF IInv
<1>2. ControlInv(f)'
  BY <1>1 DEF ControlInv, BornOnce, OnlyCurrent, NotYetShown, ForwarderSame, ShownSame,
     HandlerSame
<1>3. DataInv(f)'
  BY <1>1, ShownSameMeans, DataKept DEF ForwarderSame, DataInv
<1>4. QED
  BY <1>2, <1>3

LEMMA HandlerKept ==
  ASSUME IInv, Next, NEW c \in Conns, HandlerSame(c), log'[c] = log[c]
  PROVE  HandlerInv(c)'
<1>1. HandlerInv(c)
  BY DEF IInv
<1>2. tail' \in {tail, tail + 1} /\ tail \in Nat /\ snap[c] \in Nat
  BY TailGrows, BoundsAssumption DEF IInv, Types, PtyTypes, HandlerTypes
<1>3. Served(c)'
  BY <1>1 DEF HandlerInv, Served, HandlerSame
<1>4. HistoryBehind(c)'
  BY <1>1, <1>2 DEF HandlerInv, HistoryBehind, HandlerSame
<1>5. InOrderAt(c)'
  BY <1>1 DEF HandlerInv, InOrderAt
<1>6. ReplayIsWhole(c)'
  <2>1. Delivered(<<c, served[c]>>)' = Delivered(<<c, served[c]>>)
    BY DEF Delivered, Shown, HandlerSame
  <2>2. snap'[c] = tail' => tail' = tail
    BY <1>1, <1>2 DEF HandlerInv, HistoryBehind, HandlerSame
  <2>3. QED
    BY <1>1, <2>1, <2>2 DEF HandlerInv, ReplayIsWhole, HandlerSame, UpTo
<1>7. QED
  BY <1>3, <1>4, <1>5, <1>6 DEF HandlerInv

-----------------------------------------------------------------------------
(* Steps of the pty, the transcript, the registry, writers and clients.    *)
LEMMA ElsewhereStep == ASSUME IInv, Next, Elsewhere PROVE IInv'
<1>1. Types'
  BY TypesKept
<1>2. UNCHANGED <<handler, fwd, log>>
  BY ElsewhereIsQuiet
<1>3. GoneForGood'
  <2> USE DEF IInv, Types, GoneForGood, PtyTypes, TranscriptTypes, HandleAlive, Active
  <2>1. CASE KillRemoves \/ KillStep \/ HandleDrops
    BY <1>2, <2>1 DEF KillRemoves, KillStep, KillStops, KillWith, KillAllGoesOn, KillFails,
       HandleDrops
  <2>2. CASE TranscriptStep
    BY <1>2, <2>2 DEF TranscriptStep, TranscriptReceives, TranscriptAppends, TranscriptAborted
  <2>3. CASE PtyStep \/ ReaderEnds \/ PollerEnds
    BY <1>2, <2>3 DEF PtyStep, ChildExits, ReaderReads, PollerReports, ReaderEnds, PollerEnds
  <2>4. ASSUME NEW c \in Conns, WriterStep(c) \/ ClientLeaves(c) PROVE GoneForGood'
    BY <1>2, <2>4 DEF WriterStep, WriterSends, WriterEnds, ClientLeaves
  <2>5. QED
    BY <2>1, <2>2, <2>3, <2>4 DEF Elsewhere
<1>4. TranscriptBehind'
  <2>1. TranscriptBehind /\ tail \in Nat /\ tNext \in Nat /\ tHold \in Nat
    BY BoundsAssumption DEF IInv, Types, PtyTypes, TranscriptTypes
  <2>2. tail' \in {tail, tail + 1}
    BY TailGrows DEF IInv, Types
  <2>3. CASE UNCHANGED <<tHold, recorded>>
    BY <2>1, <2>2, <2>3 DEF TranscriptBehind
  <2>4. CASE TranscriptStep
    <3>1. CASE TranscriptReceives
      BY <2>1, <3>1 DEF TranscriptBehind, TranscriptReceives
    <3>2. CASE TranscriptAppends
      <4>1. tHold \in 1 .. tail
        BY <2>1, <3>2 DEF TranscriptBehind, TranscriptAppends
      <4>2. QED
        BY <2>1, <3>2, <4>1 DEF TranscriptBehind, TranscriptAppends
    <3>3. CASE TranscriptAborted
      BY <2>1, <3>3 DEF TranscriptBehind, TranscriptAborted
    <3>4. QED
      BY <2>4, <3>1, <3>2, <3>3 DEF TranscriptStep
  <2>5. QED
    BY <2>3, <2>4 DEF Elsewhere, PtyStep, ChildExits, ReaderReads, PollerReports,
       ReaderEnds, PollerEnds, KillRemoves, KillStep, KillStops, KillWith, KillAllGoesOn, KillFails, HandleDrops,
       WriterStep, WriterSends, WriterEnds, ClientLeaves
<1>5. ASSUME NEW c \in Conns PROVE HandlerInv(c)'
  BY <1>2, HandlerKept DEF HandlerSame
<1>6. ASSUME NEW f \in Forwarders PROVE ControlInv(f)' /\ DataInv(f)'
  BY <1>2, PairOf, LogStays, ForwarderKept DEF ForwarderSame, HandlerSame
<1>7. QED
  BY <1>1, <1>3, <1>4, <1>5, <1>6 DEF IInv

-----------------------------------------------------------------------------
(* Steps of a forwarder.                                                   *)
LEMMA ReceivesStep ==
  ASSUME IInv, Next, NEW f \in Forwarders, ForwarderReceives(f)
  PROVE  ControlInv(f)' /\ DataInv(f)'
<1> USE DEF ForwarderReceives
<1>1. /\ ControlInv(f) /\ DataInv(f) /\ f[1] \in Conns
      /\ tail \in Nat /\ tail <= MaxOut /\ fnext[f] \in Nat /\ fhold[f] = 0
  BY PairOf, BoundsAssumption DEF IInv, Types, PtyTypes, ForwarderTypes
<1>2. ShownSame(f) /\ HandlerSame(f[1]) /\ tail' = tail /\ fmode'[f] = fmode[f]
  BY <1>1, LogStays DEF HandlerSame
<1>3. Delivered(f)' = Delivered(f) /\ (Told(f)' <=> Told(f)) /\ ExitedIsLast(f)'
  BY <1>1, <1>2, ShownSameMeans DEF DataInv
<1>4. ControlInv(f)'
  BY <1>1, <1>2, BoundsAssumption
     DEF ControlInv, BornOnce, OnlyCurrent, NotYetShown, ShownSame, HandlerSame, Active
<1>5. ~SendersAlive' <=> ~SendersAlive
  BY <1>2 DEF SendersAlive, HandlerSame
<1>6. ~Told(f) /\ \A m \in Delivered(f) : m \in 1 .. tail /\ m < fnext[f]
  BY <1>1 DEF DataInv, ClosedIsFinal, ShownBehind, Active
<1>7. /\ f \in DOMAIN fnext /\ f \in DOMAIN fhold /\ f \in DOMAIN seam
      /\ Closed \notin Chunks /\ Closed # 0 /\ \A m \in 1 .. tail : m \in Chunks /\ m # Closed
  BY <1>1, BoundsAssumption DEF IInv, Types, ForwarderTypes, Closed, Chunks
<1>8. CASE /\ fnext[f] <= tail /\ fhold'[f] = fnext[f] /\ fnext'[f] = fnext[f] + 1
           /\ seam'[f] = seam[f] /\ fnext[f] # 0
  <2>1. fnext[f] \in 1 .. tail /\ fnext[f] \in Chunks /\ fnext[f] # Closed
    BY <1>1, <1>7, <1>8
  <2>2. ForwarderBehind(f)' /\ ShownBehind(f)' /\ ClosedIsFinal(f)'
    BY <1>1, <1>2, <1>3, <1>6, <1>7, <1>8, <2>1
       DEF ForwarderBehind, ShownBehind, ClosedIsFinal
  <2>3. Got(f)' = Got(f) \cup {fnext[f]}
    BY <1>1, <1>3, <1>8, <2>1 DEF Got, Chunks
  <2>4. GotIsWhole(f)'
    <3>1. SUFFICES ASSUME seam[f], UpTo(Got(f), fnext[f] - 1)
                   PROVE  UpTo(Got(f) \cup {fnext[f]}, fnext[f])
      BY <1>1, <1>2, <1>8, <2>3 DEF DataInv, GotIsWhole, UpTo
    <3>2. QED
      BY <1>1, <3>1, <1>3, <1>6 DEF UpTo, Got, Chunks
  <2>5. QED
    BY <1>3, <1>4, <2>2, <2>4 DEF DataInv
<1>9. CASE fnext[f] < Oldest /\ fnext'[f] = Oldest /\ seam'[f] = FALSE /\ fhold'[f] = fhold[f]
  <2>1. Oldest \in Nat /\ Oldest <= tail + 1
    BY OldestIsNear DEF IInv, Types
  <2>2. ForwarderBehind(f)' /\ ShownBehind(f)' /\ ClosedIsFinal(f)' /\ GotIsWhole(f)'
    BY <1>1, <1>2, <1>3, <1>6, <1>7, <1>9, <2>1
       DEF ForwarderBehind, ShownBehind, ClosedIsFinal, GotIsWhole, Chunks
  <2>3. QED
    BY <1>3, <1>4, <2>2 DEF DataInv
<1>10. CASE /\ fnext[f] > tail /\ ~SendersAlive /\ fhold'[f] = Closed
            /\ fnext'[f] = fnext[f] /\ seam'[f] = seam[f]
  <2>1. fnext[f] = tail + 1
    BY <1>1, <1>10 DEF DataInv, ForwarderBehind
  <2>2. ForwarderBehind(f)' /\ ShownBehind(f)' /\ ClosedIsFinal(f)'
    BY <1>1, <1>2, <1>3, <1>5, <1>6, <1>7, <1>10, <2>1
       DEF ForwarderBehind, ShownBehind, ClosedIsFinal
  <2>3. Got(f)' = Got(f)
    BY <1>1, <1>3, <1>7, <1>10 DEF Got, Chunks
  <2>4. GotIsWhole(f)'
    BY <1>1, <1>2, <1>10, <2>3 DEF DataInv, GotIsWhole
  <2>5. QED
    BY <1>3, <1>4, <2>2, <2>4 DEF DataInv
<1>11. fnext[f] >= Oldest => fnext[f] # 0
  BY OldestIsNear DEF IInv, Types
<1>12. QED
  BY <1>7, <1>8, <1>9, <1>10, <1>11

LEMMA SendsStep ==
  ASSUME IInv, Next, NEW f \in Forwarders, ForwarderSends(f)
  PROVE  /\ ControlInv(f)' /\ DataInv(f)' /\ InOrderAt(f[1])'
         /\ \A g \in Forwarders \ {f} : ShownSame(g)
         /\ \A d \in Conns \ {f[1]} : log'[d] = log[d]
<1> DEFINE c == f[1]
           frame == IF fhold[f] = Closed THEN Frame("exited", {}, f[2])
                                         ELSE Frame("output", {fhold[f]}, f[2])
<1>1. /\ ControlInv(f) /\ DataInv(f) /\ c \in Conns /\ f = <<c, f[2]>> /\ HandlerInv(c)
      /\ tail \in Nat /\ fnext[f] \in Nat /\ fhold[f] \in 0 .. Closed /\ fhold[f] # 0
      /\ fmode[f] \in Active
  BY PairOf, BoundsAssumption DEF IInv, Types, PtyTypes, ForwarderTypes, ForwarderSends
<1>2. frame \in Frames /\ Enqueue(c, frame) /\ frame.req = f[2]
  BY <1>1, ForwarderFrames DEF IInv, Types, ForwarderSends, Frame
<1>3. /\ fnext' = fnext /\ seam' = seam /\ fhold'[f] = 0 /\ HandlerSame(c) /\ tail' = tail
      /\ fmode'[f] = IF fhold[f] = Closed THEN "gone" ELSE fmode[f]
      /\ UNCHANGED <<pty, tail, reg, trans, handler>>
  BY <1>1 DEF ForwarderSends, HandlerSame, IInv, Types, ForwarderTypes
<1>4. ~SendersAlive' <=> ~SendersAlive
  BY <1>3 DEF SendersAlive, HandlerSame
<1>5. /\ Delivered(f)' = Delivered(f) \cup frame.chunks
      /\ Told(f)' <=> Told(f) \/ frame.kind = "exited"
      /\ ExitedIsLast(f)' <=> ExitedIsLast(f) /\ (Told(f) => frame.kind = "attached")
  BY <1>1, <1>2, ShownGrows DEF IInv, Types
<1>6. ~Told(f)
  BY <1>1 DEF DataInv, ClosedIsFinal, Active
<1>7. ControlInv(f)'
  <2>1. BornOnce(f)' /\ OnlyCurrent(f)'
    BY <1>1, <1>3 DEF ControlInv, BornOnce, OnlyCurrent, HandlerSame, Active
  <2>2. ~(f[2] > served[c]) /\ ~(f[2] = served[c] /\ hpc[c] \in {"read", "replay"})
    BY <1>1 DEF ControlInv, BornOnce, Active, Subscribing
  <2>3. QED
    BY <1>3, <2>1, <2>2 DEF ControlInv, NotYetShown, HandlerSame
<1>8. CASE fhold[f] = Closed
  <2>1. frame.chunks = {} /\ frame.kind = "exited"
    BY <1>8 DEF Frame
  <2>2. 0 \notin Chunks /\ 0 # Closed /\ Closed \notin Chunks
    BY BoundsAssumption DEF Chunks, Closed
  <2>3. DataInv(f)'
    BY <1>1, <1>3, <1>4, <1>5, <1>6, <1>8, <2>1, <2>2
       DEF DataInv, ForwarderBehind, ShownBehind, ClosedIsFinal, GotIsWhole, Active
  <2>4. InOrderAt(c)'
    BY <1>1, <1>2, <2>1, InOrderGrows DEF IInv, Types, HandlerInv
  <2>5. QED
    BY <1>1, <1>2, <1>7, <2>3, <2>4, ShownGrows, LogGrows DEF IInv, Types
<1>9. CASE fhold[f] # Closed
  <2>1. frame.chunks = {fhold[f]} /\ frame.kind = "output"
    BY <1>9 DEF Frame
  <2>2. 0 \notin Chunks /\ 0 # Closed /\ fhold[f] \in Chunks
    BY <1>1, <1>9, BoundsAssumption DEF Chunks, Closed
  <2>3. /\ fhold[f] \in 1 .. tail /\ fhold[f] < fnext[f]
        /\ \A m \in Delivered(f) : m \in 1 .. tail /\ m < fnext[f] /\ m < fhold[f]
    BY <1>1, <1>9, <2>2 DEF DataInv, ForwarderBehind, ShownBehind, Active, Chunks
  <2>4. ForwarderBehind(f)' /\ ClosedIsFinal(f)' /\ ExitedIsLast(f)'
    BY <1>1, <1>3, <1>5, <1>6, <2>1, <2>2 DEF DataInv, ForwarderBehind, ClosedIsFinal
  <2>9. ShownBehind(f)'
    BY <1>1, <1>3, <1>5, <2>1, <2>2, <2>3 DEF ShownBehind
  <2>5. Got(f)' = Got(f)
    BY <1>3, <1>5, <2>1, <2>2 DEF Got, Chunks
  <2>6. GotIsWhole(f)'
    BY <1>1, <1>3, <1>9, <2>5 DEF DataInv, GotIsWhole
  <2>7. InOrderAt(c)'
    BY <1>1, <1>2, <2>1, <2>3, InOrderGrows DEF IInv, Types, HandlerInv
  <2>8. QED
    BY <1>1, <1>2, <1>7, <2>4, <2>9, <2>6, <2>7, ShownGrows, LogGrows DEF IInv, Types, DataInv
<1>10. QED
  BY <1>8, <1>9

LEMMA EndsStep ==
  ASSUME IInv, Next, NEW f \in Forwarders, ForwarderEnds(f)
  PROVE  ControlInv(f)' /\ DataInv(f)'
<1> USE DEF ForwarderEnds
<1>1. ControlInv(f) /\ DataInv(f) /\ f[1] \in Conns
  BY PairOf DEF IInv
<1>2. /\ ShownSame(f) /\ HandlerSame(f[1]) /\ tail' = tail /\ fmode'[f] = "gone"
      /\ fhold'[f] = 0 /\ fnext'[f] = fnext[f] /\ fmode[f] # "unborn"
  BY <1>1, LogStays DEF HandlerSame, IInv, Types, ForwarderTypes
<1>3. Delivered(f)' = Delivered(f) /\ (Told(f)' <=> Told(f)) /\ ExitedIsLast(f)'
  BY <1>1, <1>2, ShownSameMeans DEF DataInv
<1>4. ~SendersAlive' <=> ~SendersAlive
  BY <1>2 DEF SendersAlive, HandlerSame
<1>5. ControlInv(f)'
  BY <1>1, <1>2 DEF ControlInv, BornOnce, OnlyCurrent, NotYetShown, ShownSame, HandlerSame
<1>6. 0 \notin Chunks /\ 0 # Closed /\ tail \in Nat
  BY BoundsAssumption DEF Chunks, Closed, IInv, Types, PtyTypes
<1>7. DataInv(f)'
  BY <1>1, <1>2, <1>3, <1>4, <1>6
     DEF DataInv, ForwarderBehind, ShownBehind, ClosedIsFinal, GotIsWhole, Active
<1>8. QED
  BY <1>5, <1>7

LEMMA ForwarderStepKeeps ==
  ASSUME IInv, Next, NEW f \in Forwarders,
         ForwarderReceives(f) \/ ForwarderSends(f) \/ ForwarderEnds(f)
  PROVE  IInv'
<1> DEFINE c == f[1]
<1>0. c \in Conns /\ f = <<c, f[2]>> /\ f[2] \in 1 .. MaxRequests
  BY PairOf
<1>1. Types'
  BY TypesKept
<1>2. UNCHANGED <<pty, tail, reg, trans, handler>>
  BY DEF ForwarderReceives, ForwarderSends, ForwarderEnds
<1>3. GoneForGood' /\ TranscriptBehind'
  BY <1>2 DEF IInv, GoneForGood, HandleAlive, TranscriptBehind
<1>4. ControlInv(f)' /\ DataInv(f)'
  BY ReceivesStep, SendsStep, EndsStep
<1>5. /\ \A g \in Forwarders \ {f} : ShownSame(g)
      /\ \A d \in Conns \ {c} : log'[d] = log[d]
  BY SendsStep, LogStays DEF ForwarderReceives, ForwarderEnds
<1>6. ASSUME NEW g \in Forwarders \ {f} PROVE ControlInv(g)' /\ DataInv(g)'
  <2>1. ForwarderSame(g)
    BY DEF ForwarderSame, ForwarderReceives, ForwarderSends, ForwarderEnds, IInv, Types, ForwarderTypes
  <2>2. QED
    BY <1>2, <1>5, <2>1, PairOf, ForwarderKept DEF HandlerSame
<1>7. ASSUME NEW d \in Conns \ {c} PROVE HandlerInv(d)'
  BY <1>2, <1>5, HandlerKept DEF HandlerSame
<1>8. HandlerInv(c)'
  <2>1. CASE ForwarderReceives(f) \/ ForwarderEnds(f)
    BY <1>0, <1>2, <2>1, HandlerKept DEF HandlerSame, ForwarderReceives, ForwarderEnds
  <2>2. CASE ForwarderSends(f)
    <3>1. HandlerInv(c) /\ HandlerSame(c) /\ tail' = tail /\ InOrderAt(c)'
      BY <1>0, <1>2, <2>2, SendsStep DEF IInv, HandlerSame
    <3>2. Served(c)' /\ HistoryBehind(c)'
      BY <3>1 DEF HandlerInv, HandlerSame, Served, HistoryBehind
    <3>3. ReplayIsWhole(c)'
      <4>1. SUFFICES ASSUME hpc[c] \in {"find_again", "subscribe"}
                     PROVE  Delivered(<<c, served[c]>>)' = Delivered(<<c, served[c]>>)
        BY <3>1 DEF HandlerInv, HandlerSame, ReplayIsWhole
      <4>2. PICK n \in Requests : n = served[c]
        <5>1. served[c] > 0 /\ served[c] \in 0 .. MaxRequests
          BY <1>0, <3>1, <4>1 DEF HandlerInv, Served, Subscribing, IInv, Types, HandlerTypes
        <5>2. QED
          BY <5>1, BoundsAssumption DEF Requests
      <4>3. <<c, n>> # f /\ <<c, n>> \in Forwarders
        <5>1. fmode[f] \in Active /\ ControlInv(f)
          BY <2>2 DEF ForwarderSends, IInv
        <5>2. QED
          BY <1>0, <4>1, <4>2, <5>1 DEF ControlInv, BornOnce, Subscribing, Active, Forwarders
      <4>4. Delivered(<<c, n>>)' = Delivered(<<c, n>>)
        BY <1>5, <4>3, ShownSameMeans
      <4>5. QED
        BY <3>1, <4>2, <4>4, SMTT(30) DEF Delivered, Shown, HandlerSame
    <3>4. QED
      BY <3>1, <3>2, <3>3 DEF HandlerInv
  <2>3. QED
    BY <2>1, <2>2
<1>9. QED
  BY <1>1, <1>3, <1>4, <1>6, <1>7, <1>8 DEF IInv

-----------------------------------------------------------------------------
(* Steps of a handler.                                                     *)
HandlerAction(c) ==
  \/ AttachBegins(c) \/ Detach(c) \/ AttachReads(c) \/ AttachReplays(c)
  \/ AttachFindsAgain(c) \/ AttachSubscribes(c) \/ Replies(c)
  \/ HandlerEnds(c) \/ HandlerFails(c)

LEMMA OtherConnections ==
  ASSUME IInv, Next, NEW c \in Conns, HandlerAction(c)
  PROVE  /\ Types' /\ GoneForGood' /\ TranscriptBehind' /\ tail' = tail
         /\ \A d \in Conns \ {c} : HandlerInv(d)'
         /\ \A f \in Forwarders : f[1] # c => ControlInv(f)' /\ DataInv(f)'
<1> USE DEF IInv, Types
<1>1. Types'
  BY TypesKept
<1>2. GoneForGood' /\ TranscriptBehind' /\ tail' = tail
  <2>1. UNCHANGED <<pty, tail, reg, trans>>
    BY DEF HandlerAction, AttachBegins, Detach, AttachReads, AttachReplays,
       AttachFindsAgain, AttachSubscribes, SubscribeAt, Replies, HandlerEnds, HandlerFails
  <2>2. ~HandleAlive => ~HandleAlive'
    BY <2>1 DEF HandleAlive, HandlerTypes, HandlerAction, AttachBegins, Detach, AttachReads,
       AttachReplays, AttachFindsAgain, AttachSubscribes, SubscribeAt, Replies, HandlerEnds,
       HandlerFails
  <2>3. QED
    BY <2>1, <2>2 DEF GoneForGood, TranscriptBehind
<1>3. \A d \in Conns \ {c} : HandlerSame(d)
  BY DEF HandlerSame, HandlerTypes, HandlerAction, AttachBegins, Detach, AttachReads,
     AttachReplays, AttachFindsAgain, AttachSubscribes, SubscribeAt, Replies, HandlerEnds,
     HandlerFails
<1>4. \A d \in Conns \ {c} : log'[d] = log[d]
  BY DEF ChannelTypes, HandlerAction, AttachBegins, Detach, AttachReads, AttachReplays,
     Enqueue, AttachFindsAgain, AttachSubscribes, SubscribeAt, Replies, HandlerEnds,
     HandlerFails
<1>5. ASSUME NEW f \in Forwarders, f[1] # c PROVE ForwarderSame(f)
  <2>1. CASE AttachBegins(c) \/ Detach(c) \/ HandlerEnds(c)
    BY <1>5, <2>1, Aborts DEF ForwarderSame, AttachBegins, Detach, HandlerEnds
  <2>2. CASE AttachReads(c) \/ AttachReplays(c) \/ AttachFindsAgain(c) \/ Replies(c)
             \/ HandlerFails(c)
    BY <2>2 DEF ForwarderSame, AttachReads, AttachReplays, AttachFindsAgain, Replies, HandlerFails
  <2>3. CASE AttachSubscribes(c)
    <3>1. f # <<c, served[c]>>
      BY <1>5
    <3>2. QED
      BY <2>3, <3>1 DEF ForwarderSame, ForwarderTypes, AttachSubscribes, SubscribeAt
  <2>4. QED
    BY <2>1, <2>2, <2>3 DEF HandlerAction
<1>6. \A d \in Conns \ {c} : HandlerInv(d)'
  BY <1>3, <1>4, HandlerKept
<1>7. \A f \in Forwarders : f[1] # c => ControlInv(f)' /\ DataInv(f)'
  BY <1>3, <1>4, <1>5, PairOf, LogStays, ForwarderKept
<1>8. QED
  BY <1>1, <1>2, <1>6, <1>7

(* So only the connection of the step is left to show.                     *)
LEMMA OwnConnection ==
  ASSUME IInv, Next, NEW c \in Conns, HandlerAction(c), HandlerInv(c)',
         \A f \in Forwarders : f[1] = c => ControlInv(f)' /\ DataInv(f)'
  PROVE  IInv'
BY OtherConnections DEF IInv

(* Requests that begin, and the end of the connection.                     *)
LEMMA AbortStep ==
  ASSUME IInv, Next, NEW c \in Conns, AttachBegins(c) \/ Detach(c) \/ HandlerEnds(c)
  PROVE  IInv'
<1> USE DEF AttachBegins, Detach, HandlerEnds
<1>1. HandlerInv(c) /\ HandlerAction(c) /\ log' = log /\ tail' = tail
  BY DEF IInv, HandlerAction
<1>2. served[c] \in Nat
  BY BoundsAssumption DEF IInv, Types, HandlerTypes
<1>3. HandlerInv(c)'
  <2>1. Served(c)' /\ HistoryBehind(c)'
    <3>1. hist'[c] = hist[c] /\ snap'[c] \in {snap[c], 0} /\ cur'[c] = 0
      BY DEF IInv, Types, HandlerTypes
    <3>2. HistoryBehind(c)'
      BY <1>1, <3>1, BoundsAssumption DEF HandlerInv, HistoryBehind, IInv, Types, PtyTypes
    <3>3. CASE AttachBegins(c) \/ Detach(c)
      <4>1. served'[c] = served[c] + 1 /\ (hpc'[c] = "reply" => answer'[c] = "detached")
        BY <3>3 DEF IInv, Types, HandlerTypes
      <4>2. QED
        BY <1>2, <3>1, <3>2, <4>1 DEF Served
    <3>4. CASE HandlerEnds(c)
      BY <3>2, <3>4 DEF Served, Subscribing, IInv, Types, HandlerTypes
    <3>5. QED
      BY <3>3, <3>4
  <2>2. InOrderAt(c)'
    BY <1>1 DEF HandlerInv, InOrderAt
  <2>3. ReplayIsWhole(c)'
    <3>1. CASE hpc'[c] = "find_again"
      <4>1. PICK n \in Requests : n = served'[c] /\ n > served[c]
        BY <1>2, <3>1, BoundsAssumption DEF Requests, IInv, Types, HandlerTypes
      <4>2. Shown(<<c, n>>) = {}
        BY <4>1 DEF IInv, ControlInv, NotYetShown, Forwarders
      <4>3. Delivered(<<c, n>>)' = {}
        BY <1>1, <4>2 DEF Delivered, Shown
      <4>4. Delivered(<<c, served[c]>>)' = {}
        BY <4>1, <4>3 DEF Delivered, Shown
      <4>5. QED
        BY <3>1, <4>4 DEF ReplayIsWhole, UpTo
    <3>2. CASE hpc'[c] # "find_again"
      BY <3>2 DEF ReplayIsWhole, IInv, Types, HandlerTypes
    <3>3. QED
      BY <3>1, <3>2
  <2>4. QED
    BY <2>1, <2>2, <2>3 DEF HandlerInv
<1>4. ASSUME NEW f \in Forwarders, f[1] = c PROVE ControlInv(f)' /\ DataInv(f)'
  <2>1. ControlInv(f) /\ DataInv(f) /\ f = <<c, f[2]>> /\ f[2] \in Nat /\ f[2] # 0
    BY <1>4, PairOf, BoundsAssumption DEF IInv
  <2>2. ShownSame(f)
    BY <1>1, LogStays
  <2>3. /\ fmode'[f] = fmode[f] \/ (fmode[f] = "live" /\ fmode'[f] = "doomed")
        /\ f = <<c, cur[c]>> => fmode'[f] # "live"
    BY <1>4, Aborts DEF IInv, Types
  <2>4. DataInv(f)'
    BY <2>1, <2>2, <2>3, DataKept, ShownSameMeans DEF DataInv
  <2>5. hpc[c] # "failed" /\ (hpc'[c] = "ended" => served' = served)
    BY DEF IInv, Types, HandlerTypes
  <2>6. OnlyCurrent(f)'
    BY <1>4, <2>1, <2>3, <2>5 DEF ControlInv, OnlyCurrent
  <2>7. served'[c] \in {served[c], served[c] + 1} /\ hpc'[c] \in {"read", "find_again", "reply", "ended"}
    BY DEF IInv, Types, HandlerTypes
  <2>8. served'[c] = served[c] => hpc'[c] = "ended"
    BY <1>2, <2>7 DEF IInv, Types, HandlerTypes
  <2>9. BornOnce(f)' /\ NotYetShown(f)'
    BY <1>2, <1>4, <2>1, <2>2, <2>3, <2>7, <2>8
       DEF ControlInv, BornOnce, NotYetShown, ShownSame, Subscribing
  <2>10. QED
    BY <2>4, <2>6, <2>9 DEF ControlInv
<1>5. QED
  BY <1>1, <1>3, <1>4, OwnConnection

(* Steps that leave the forwarders and the log alone.                      *)
LEMMA PlainStep ==
  ASSUME IInv, Next, NEW c \in Conns,
         AttachReads(c) \/ AttachFindsAgain(c) \/ HandlerFails(c)
  PROVE  IInv'
<1> USE DEF AttachReads, AttachFindsAgain, HandlerFails
<1>1. HandlerInv(c) /\ HandlerAction(c) /\ log' = log /\ tail' = tail /\ served' = served
  BY DEF IInv, HandlerAction
<1>2. tail \in Nat /\ TranscriptBehind
  BY BoundsAssumption DEF IInv, Types, PtyTypes
<1>3. HandlerInv(c)'
  <2>1. Served(c)'
    BY <1>1 DEF HandlerInv, Served, Subscribing, IInv, Types, HandlerTypes
  <2>2. HistoryBehind(c)'
    <3>1. CASE AttachReads(c)
      <4>1. hist'[c] = History /\ snap'[c] \in {tail, 0}
        BY <3>1 DEF IInv, Types, HandlerTypes
      <4>2. History \subseteq 1 .. tail
        BY <1>2 DEF TranscriptBehind, History
      <4>3. QED
        BY <1>1, <1>2, <4>1, <4>2 DEF HistoryBehind
    <3>2. CASE AttachFindsAgain(c) \/ HandlerFails(c)
      BY <1>1, <3>2 DEF HandlerInv, HistoryBehind
    <3>3. QED
      BY <3>1, <3>2
  <2>3. InOrderAt(c)'
    BY <1>1 DEF HandlerInv, InOrderAt
  <2>4. ReplayIsWhole(c)'
    <3>1. CASE AttachReads(c)
      <4>1. SUFFICES ASSUME snap'[c] = tail, tail > 0
                     PROVE  /\ UpTo(History, tail)
                            /\ hpc'[c] = "find_again" => History = {}
                            /\ hpc'[c] # "subscribe"
                            /\ hist'[c] = History
        <5>1. hpc'[c] = "find_again" => Shown(<<c, served[c]>>)' = {}
          <6>1. PICK n \in Requests : n = served[c]
            BY <1>1, <3>1, BoundsAssumption
               DEF Requests, HandlerInv, Served, Subscribing, IInv, Types, HandlerTypes
          <6>2. Shown(<<c, n>>) = {}
            BY <3>1, <6>1 DEF IInv, ControlInv, NotYetShown, Forwarders
          <6>3. QED
            BY <1>1, <6>1, <6>2 DEF Shown
        <5>2. QED
          BY <1>1, <4>1, <5>1 DEF ReplayIsWhole, Delivered, UpTo
      <4>2. hist'[c] = History /\ hpc'[c] # "subscribe"
            /\ (hpc'[c] = "find_again" => History = {}) /\ HistoryIsCurrent
        BY <3>1, <4>1 DEF IInv, Types, HandlerTypes
      <4>3. History \subseteq Chunks
        BY DEF History, IInv, Types, TranscriptTypes
      <4>4. UpTo(History, tail)
        BY <1>2, <4>2, <4>3, BoundsAssumption
           DEF UpTo, HistoryIsCurrent, Chunks, IInv, Types, PtyTypes
      <4>5. QED
        BY <4>2, <4>4
    <3>2. CASE AttachFindsAgain(c)
      <4>1. Delivered(<<c, served[c]>>)' = Delivered(<<c, served[c]>>)
        BY <1>1 DEF Delivered, Shown
      <4>2. QED
        BY <1>1, <3>2, <4>1 DEF HandlerInv, ReplayIsWhole, UpTo, IInv, Types, HandlerTypes
    <3>3. CASE HandlerFails(c)
      BY <3>3 DEF ReplayIsWhole, IInv, Types, HandlerTypes
    <3>4. QED
      BY <3>1, <3>2, <3>3
  <2>5. QED
    BY <2>1, <2>2, <2>3, <2>4 DEF HandlerInv
<1>4. ASSUME NEW f \in Forwarders, f[1] = c PROVE ControlInv(f)' /\ DataInv(f)'
  <2>1. ControlInv(f) /\ DataInv(f) /\ ShownSame(f) /\ fmode' = fmode /\ fhold' = fhold
    BY <1>1, LogStays DEF IInv
  <2>2. DataInv(f)'
    BY <2>1, DataKept, ShownSameMeans DEF DataInv
  <2>3. BornOnce(f)' /\ NotYetShown(f)'
    BY <1>1, <1>4, <2>1
       DEF ControlInv, BornOnce, NotYetShown, ShownSame, Subscribing, IInv, Types, HandlerTypes
  <2>4. OnlyCurrent(f)'
    BY <1>4, <2>1 DEF ControlInv, OnlyCurrent, IInv, Types, HandlerTypes
  <2>5. QED
    BY <2>2, <2>3, <2>4 DEF ControlInv
<1>5. QED
  BY <1>1, <1>3, <1>4, OwnConnection

(* The replay, and the answer.                                             *)
LEMMA ReplayStep ==
  ASSUME IInv, Next, NEW c \in Conns, AttachReplays(c)
  PROVE  IInv'
<1> USE DEF AttachReplays
<1>1. /\ HandlerInv(c) /\ HandlerAction(c) /\ tail' = tail /\ served' = served
      /\ hpc[c] = "replay" /\ hpc'[c] = "find_again" /\ hist'[c] = {} /\ snap' = snap
      /\ cur' = cur /\ answer' = answer
  BY DEF IInv, Types, HandlerTypes, HandlerAction
<1>2. PICK n \in Requests : n = served[c]
  BY <1>1, BoundsAssumption
     DEF Requests, HandlerInv, Served, Subscribing, IInv, Types, HandlerTypes
<1> DEFINE g == <<c, n>>
<1>3. /\ g \in Forwarders /\ ControlInv(g) /\ DataInv(g)
      /\ Shown(g) = {} /\ Delivered(g) = {} /\ ~Told(g)
  BY <1>1, <1>2 DEF IInv, ControlInv, NotYetShown, Forwarders, Delivered, Told
<1>4. /\ \A f \in Forwarders \ {g} : ShownSame(f)
      /\ Delivered(g)' = {} \/ Delivered(g)' = hist[c]
      /\ ~Told(g)' /\ ExitedIsLast(g)' /\ InOrderAt(c)'
  <2>1. CASE log' = log
    BY <1>1, <1>3, <2>1, LogStays, ShownSameMeans DEF HandlerInv, InOrderAt, DataInv
  <2>2. CASE Enqueue(c, Frame("history", hist[c], served[c]))
    <3> DEFINE frame == Frame("history", hist[c], n)
    <3>1. /\ frame \in Frames /\ Enqueue(c, frame) /\ frame.req = n
          /\ frame.chunks = hist[c] /\ frame.kind = "history"
      BY <1>1, <1>2, <2>2, HandlerFrames DEF IInv, Types, HandlerInv, Frame
    <3> HIDE DEF frame
    <3>2. \A f \in Forwarders \ {g} : ShownSame(f)
      BY <3>1, ShownGrows DEF IInv, Types
    <3>3. Delivered(g)' = hist[c] /\ ~Told(g)' /\ ExitedIsLast(g)'
      BY <1>3, <3>1, ShownGrows DEF IInv, Types, DataInv
    <3>4. InOrderAt(c)'
      BY <1>1, <1>3, <3>1, InOrderGrows DEF IInv, Types, HandlerInv
    <3>5. QED
      BY <3>2, <3>3, <3>4
  <2>3. QED
    BY <2>1, <2>2
<1>5. HandlerInv(c)'
  <2>1. Served(c)' /\ HistoryBehind(c)'
    BY <1>1 DEF HandlerInv, Served, HistoryBehind, Subscribing
  <2>2. Delivered(<<c, served[c]>>)' = Delivered(g)'
    BY <1>1, <1>2 DEF Delivered, Shown
  <2>3. ReplayIsWhole(c)'
    BY <1>1, <1>4, <2>2 DEF HandlerInv, ReplayIsWhole, UpTo
  <2>4. QED
    BY <1>4, <2>1, <2>3 DEF HandlerInv
<1>6. ASSUME NEW f \in Forwarders, f[1] = c PROVE ControlInv(f)' /\ DataInv(f)'
  <2>1. ControlInv(f) /\ DataInv(f) /\ fmode' = fmode /\ fhold' = fhold /\ fnext' = fnext
        /\ seam' = seam
    BY DEF IInv
  <2>2. OnlyCurrent(f)' /\ BornOnce(f)'
    BY <1>1, <1>6, <2>1 DEF ControlInv, OnlyCurrent, BornOnce, Subscribing
  <2>3. CASE f # g
    <3>1. ShownSame(f)
      BY <1>4, <2>3
    <3>2. NotYetShown(f)'
      BY <1>1, <1>6, <2>1, <3>1 DEF ControlInv, NotYetShown, ShownSame
    <3>3. QED
      BY <2>1, <2>2, <3>1, <3>2, DataKept, ShownSameMeans DEF ControlInv, DataInv
  <2>4. CASE f = g
    <3>1. f[2] = served[c] /\ served[c] \in Nat /\ fmode[f] = "unborn" /\ fhold[f] = 0
      BY <1>1, <1>2, <1>6, <2>1, <2>4 DEF ControlInv, BornOnce, Subscribing, Requests
    <3>2. NotYetShown(f)'
      BY <1>1, <1>6, <3>1 DEF NotYetShown
    <3>3. hist[c] \subseteq 1 .. tail /\ 0 \notin Chunks /\ 0 # Closed
      BY <1>1, BoundsAssumption DEF HandlerInv, HistoryBehind, Chunks, Closed
    <3>4. ForwarderBehind(f)' /\ ShownBehind(f)' /\ ClosedIsFinal(f)' /\ GotIsWhole(f)'
      BY <1>1, <1>4, <2>1, <2>4, <3>1, <3>3
         DEF DataInv, ForwarderBehind, ShownBehind, ClosedIsFinal, GotIsWhole, Active
    <3>5. QED
      BY <1>4, <2>2, <2>4, <3>2, <3>4 DEF ControlInv, DataInv
  <2>5. QED
    BY <2>3, <2>4
<1>7. QED
  BY <1>1, <1>5, <1>6, OwnConnection

LEMMA AnswerStep ==
  ASSUME IInv, Next, NEW c \in Conns, Replies(c)
  PROVE  IInv'
<1> USE DEF Replies
<1>1. /\ HandlerInv(c) /\ HandlerAction(c) /\ tail' = tail /\ served' = served
      /\ hpc[c] = "reply" /\ hpc'[c] = "idle" /\ hist' = hist /\ snap'[c] = 0
      /\ cur' = cur /\ UNCHANGED fwd
  BY DEF IInv, Types, HandlerTypes, HandlerAction
<1>2. PICK n \in Requests : n = served[c]
  BY <1>1, BoundsAssumption
     DEF Requests, HandlerInv, Served, Subscribing, IInv, Types, HandlerTypes
<1> DEFINE frame == Frame(answer[c], {}, n)
<1>3. /\ frame \in Frames /\ Enqueue(c, frame) /\ frame.req = n
      /\ frame.chunks = {} /\ frame.kind = answer[c] /\ answer[c] # "exited"
  BY <1>1, <1>2, HandlerFrames DEF IInv, Types, HandlerTypes, HandlerInv, Frame, Answers
<1> HIDE DEF frame
<1>4. HandlerInv(c)'
  <2>1. Served(c)' /\ HistoryBehind(c)' /\ ReplayIsWhole(c)'
    BY <1>1, BoundsAssumption DEF HandlerInv, Served, HistoryBehind, Subscribing, ReplayIsWhole,
       IInv, Types, PtyTypes
  <2>2. <<c, n>> \in Forwarders
    BY DEF Forwarders
  <2>3. InOrderAt(c)'
    BY <1>1, <1>3, <2>2, InOrderGrows DEF IInv, Types, HandlerInv
  <2>4. QED
    BY <2>1, <2>3 DEF HandlerInv
<1>5. ASSUME NEW f \in Forwarders, f[1] = c PROVE ControlInv(f)' /\ DataInv(f)'
  <2>1. ControlInv(f) /\ DataInv(f)
    BY DEF IInv
  <2>2. /\ Delivered(f)' = Delivered(f) /\ (Told(f)' <=> Told(f))
        /\ f # <<c, n>> => ShownSame(f)
        /\ f = <<c, n>> => (ExitedIsLast(f)' <=> ExitedIsLast(f)
                                               /\ (Told(f) => answer[c] = "attached"))
    BY <1>3, ShownGrows, ShownSameMeans, ZenonT(30) DEF IInv, Types
  <2>3. ExitedIsLast(f)'
    <3>1. CASE f # <<c, n>>
      BY <2>1, <2>2, <3>1, ShownSameMeans DEF DataInv
    <3>2. CASE f = <<c, n>>
      <4>1. Told(f) => answer[c] = "attached"
        BY <1>1, <1>2, <2>1, <3>2 DEF ControlInv, BornOnce, DataInv, ClosedIsFinal
      <4>2. QED
        BY <2>1, <2>2, <3>2, <4>1 DEF DataInv
    <3>3. QED
      BY <3>1, <3>2
  <2>4. DataInv(f)'
    BY <1>1, <2>2, <2>3, DataKept
  <2>5. OnlyCurrent(f)' /\ BornOnce(f)'
    BY <1>1, <1>5, <2>1 DEF ControlInv, OnlyCurrent, BornOnce, Subscribing
  <2>6. NotYetShown(f)'
    <3>1. CASE f = <<c, n>>
      BY <1>1, <1>2, <1>5, <3>1 DEF NotYetShown, Requests
    <3>2. CASE f # <<c, n>>
      BY <1>1, <1>5, <2>1, <2>2, <3>2 DEF ControlInv, NotYetShown, ShownSame
    <3>3. QED
      BY <3>1, <3>2
  <2>7. QED
    BY <2>4, <2>5, <2>6 DEF ControlInv
<1>6. QED
  BY <1>1, <1>4, <1>5, OwnConnection

(* The subscription, and the birth of the forwarder.                       *)
LEMMA SubscribeStep ==
  ASSUME IInv, Next, NEW c \in Conns, AttachSubscribes(c)
  PROVE  IInv'
<1> USE DEF AttachSubscribes, SubscribeAt
<1>1. /\ HandlerInv(c) /\ HandlerAction(c) /\ tail' = tail /\ served' = served
      /\ hpc[c] = "subscribe" /\ hpc'[c] = "reply" /\ hist' = hist /\ snap'[c] = 0
      /\ cur'[c] = served[c] /\ answer'[c] = "attached" /\ log' = log /\ fhold' = fhold
  BY DEF IInv, Types, HandlerTypes, HandlerAction
<1>2. PICK n \in Requests : n = served[c]
  BY <1>1, BoundsAssumption
     DEF Requests, HandlerInv, Served, Subscribing, IInv, Types, HandlerTypes
<1> DEFINE g == <<c, n>>
<1>3. g \in Forwarders
  BY DEF Forwarders
<1>4. /\ fmode'[g] = "live" /\ fnext'[g] = tail + 1
      /\ seam'[g] => snap[c] = tail /\ tail > 0
  BY <1>2, <1>3 DEF IInv, Types, ForwarderTypes
<1>5. HandlerInv(c)'
  <2>1. Served(c)' /\ HistoryBehind(c)' /\ ReplayIsWhole(c)' /\ InOrderAt(c)'
    BY <1>1, BoundsAssumption DEF HandlerInv, Served, HistoryBehind, Subscribing,
       ReplayIsWhole, InOrderAt, IInv, Types, PtyTypes
  <2>2. QED
    BY <2>1 DEF HandlerInv
<1>6. ASSUME NEW f \in Forwarders, f[1] = c PROVE ControlInv(f)' /\ DataInv(f)'
  <2>1. ControlInv(f) /\ DataInv(f) /\ ShownSame(f) /\ f = <<c, f[2]>> /\ f[2] # 0
    BY <1>1, <1>6, LogStays, PairOf DEF IInv
  <2>2. Delivered(f)' = Delivered(f) /\ (Told(f)' <=> Told(f)) /\ ExitedIsLast(f)'
    BY <2>1, ShownSameMeans DEF DataInv
  <2>3. CASE f # g
    <3>1. ForwarderSame(f) /\ f[2] # served[c]
      BY <1>2, <1>6, <2>1, <2>3 DEF ForwarderSame, IInv, Types, ForwarderTypes
    <3>2. fmode[f] # "live"
      BY <1>1, <1>6, <2>1 DEF ControlInv, OnlyCurrent, HandlerInv, Served, Subscribing
    <3>3. DataInv(f)'
      BY <2>2, <3>1, DataKept DEF ForwarderSame
    <3>4. QED
      BY <1>1, <1>6, <2>1, <3>1, <3>2, <3>3
         DEF ControlInv, BornOnce, OnlyCurrent, NotYetShown, ForwarderSame, ShownSame
  <2>4. CASE f = g
    <3>1. fmode[f] = "unborn" /\ fhold[f] = 0 /\ ~Told(f) /\ f[2] = served[c] /\ served[c] \in Nat
      BY <1>1, <1>2, <1>6, <2>1, <2>4
         DEF ControlInv, BornOnce, Subscribing, DataInv, ClosedIsFinal, Requests
    <3>2. ControlInv(f)'
      BY <1>1, <1>4, <1>6, <2>4, <3>1
         DEF ControlInv, BornOnce, OnlyCurrent, NotYetShown, Subscribing
    <3>3. \A m \in Delivered(f) : m \in 1 .. tail
      BY <2>1 DEF DataInv, ShownBehind
    <3>4. 0 \notin Chunks /\ 0 # Closed /\ tail \in Nat
      BY BoundsAssumption DEF Chunks, Closed, IInv, Types, PtyTypes
    <3>5. ForwarderBehind(f)' /\ ShownBehind(f)' /\ ClosedIsFinal(f)'
      BY <1>1, <1>4, <2>2, <2>4, <3>1, <3>3, <3>4
         DEF ForwarderBehind, ShownBehind, ClosedIsFinal
    <3>6. GotIsWhole(f)'
      <4>1. Got(f)' = Delivered(f)
        BY <1>1, <2>2, <3>1, <3>4 DEF Got
      <4>2. SUFFICES ASSUME seam'[g] PROVE UpTo(Delivered(f), tail)
        BY <1>4, <2>4, <3>4, <4>1 DEF GotIsWhole, UpTo
      <4>3. Delivered(f) = Delivered(<<c, served[c]>>)
        BY <1>2, <2>4
      <4>4. QED
        BY <1>1, <1>4, <4>2, <4>3 DEF HandlerInv, ReplayIsWhole
    <3>7. QED
      BY <2>2, <3>2, <3>5, <3>6 DEF DataInv
  <2>5. QED
    BY <2>3, <2>4
<1>7. QED
  BY <1>1, <1>5, <1>6, OwnConnection

-----------------------------------------------------------------------------
LEMMA Stutter == ASSUME IInv, UNCHANGED vars PROVE IInv'
<1> USE DEF vars, IInv
<1>1. Types'
  BY DEF Types, PtyTypes, TranscriptTypes, HandlerTypes, ForwarderTypes, ChannelTypes
<1>2. GoneForGood' /\ TranscriptBehind'
  BY DEF GoneForGood, HandleAlive, TranscriptBehind
<1>3. ASSUME NEW c \in Conns PROVE HandlerInv(c)'
  BY DEF HandlerInv, Served, HistoryBehind, ReplayIsWhole, UpTo, InOrderAt, Delivered, Shown
<1>4. ASSUME NEW f \in Forwarders PROVE ControlInv(f)' /\ DataInv(f)'
  <2>1. ControlInv(f)'
    BY DEF ControlInv, BornOnce, OnlyCurrent, NotYetShown, Shown
  <2>2. ForwarderBehind(f)' /\ ShownBehind(f)' /\ ExitedIsLast(f)'
    BY DEF DataInv, ForwarderBehind, ShownBehind, ExitedIsLast, Delivered, Shown
  <2>3. SendersAlive' = SendersAlive
    BY DEF SendersAlive
  <2>4. ClosedIsFinal(f)'
    BY <2>3 DEF DataInv, ClosedIsFinal, Told, Shown
  <2>5. GotIsWhole(f)'
    BY DEF DataInv, GotIsWhole, Got, UpTo, Delivered, Shown
  <2>6. QED
    BY <2>1, <2>2, <2>4, <2>5 DEF DataInv
<1>5. QED
  BY <1>1, <1>2, <1>3, <1>4

LEMMA NextIInv == IInv /\ [Next]_vars => IInv'
<1> SUFFICES ASSUME IInv, [Next]_vars PROVE IInv'
  OBVIOUS
<1>1. CASE Next
  <2>1. CASE Elsewhere
    BY <1>1, <2>1, ElsewhereStep
  <2>2. ASSUME NEW c \in Conns, AttachBegins(c) \/ Detach(c) \/ HandlerEnds(c)
        PROVE  IInv'
    BY <1>1, <2>2, AbortStep
  <2>3. ASSUME NEW c \in Conns, AttachReads(c) \/ AttachFindsAgain(c) \/ HandlerFails(c)
        PROVE  IInv'
    BY <1>1, <2>3, PlainStep
  <2>4. ASSUME NEW c \in Conns, AttachReplays(c) PROVE IInv'
    BY <1>1, <2>4, ReplayStep
  <2>5. ASSUME NEW c \in Conns, AttachSubscribes(c) PROVE IInv'
    BY <1>1, <2>5, SubscribeStep
  <2>6. ASSUME NEW c \in Conns, Replies(c) PROVE IInv'
    BY <1>1, <2>6, AnswerStep
  <2>7. ASSUME NEW f \in Forwarders,
               ForwarderReceives(f) \/ ForwarderSends(f) \/ ForwarderEnds(f)
        PROVE  IInv'
    BY <1>1, <2>7, ForwarderStepKeeps
  <2>8. QED
    BY <1>1, <2>1, <2>2, <2>3, <2>4, <2>5, <2>6, <2>7, StepCases
<1>2. CASE UNCHANGED vars
  BY <1>2, Stutter
<1>3. QED
  BY <1>1, <1>2

LEMMA Always == Spec => []IInv
BY InitIInv, NextIInv, PTL DEF Spec

(* The session, its tasks and its connections keep their types.            *)
THEOREM TypeCorrect == Spec => []TypeOK
BY Always, IInvIsEnough, PTL

(* daemon.rs:386-388 and 448-452: a re-attach replaces the forwarder, and  *)
(* never leaves a second one that feeds the same connection.               *)
THEOREM OneForwarderHolds == Spec => []OneForwarder
BY Always, IInvIsEnough, PTL

(* daemon.rs:391-438: the replay and the live stream show every chunk at   *)
(* most once, and in the order in which the child wrote them.              *)
THEOREM InOrderHolds == Spec => []InOrder
BY Always, IInvIsEnough, PTL

(* daemon.rs:391-438: nothing is missing between what was replayed from an *)
(* up-to-date transcript and what the forwarder has received, as long as   *)
(* it has not lagged.                                                      *)
THEOREM GaplessHolds == Spec => []Gapless
BY Always, IInvIsEnough, PTL

(* daemon.rs:426-431: when SessionExited is sent the session is gone, all  *)
(* it wrote has been sent, and no output follows.                          *)
THEOREM ExitedIsFinalHolds == Spec => []ExitedIsFinal
BY Always, IInvIsEnough, PTL
=============================================================================
