----------------------- MODULE AttachConnection_proof -----------------------
(***************************************************************************)
(* For any bounds and capacities: what the terminal is shown, which inputs *)
(* are served, and that both are as Attachment promises.                   *)
(*                                                                         *)
(* Of inputs the invariant says that those served, those in the socket and *)
(* those in the client's channel are numbered on without a gap while the   *)
(* daemon lives; of output, that what the client has got, what is in the   *)
(* socket and what is in the daemon's channel are adjacent intervals, less *)
(* what the forwarder has missed.                                          *)
(***************************************************************************)
EXTENDS AttachConnection, TLAPS

(* TypeOK, by where things are.                                            *)
SessionTypes ==
  /\ emitted \in 0..MaxChunks
  /\ listed \in BOOLEAN /\ senders \in BOOLEAN /\ daemon \in BOOLEAN

HandlerTypes ==
  /\ hpc \in {"reading", "history", "subscribe", "serving", "reply", "ended"}
  /\ reply \in Frames \cup {NoFrame}
  /\ hpc \in {"history", "serving", "reply"} => reply \in Frames
  /\ forwarder \in {"unborn", "live", "doomed", "gone"}
  /\ position \in 0..MaxChunks /\ seam \in 0..MaxChunks /\ missed \subseteq 1..MaxChunks

DownTypes ==
  /\ queue \in Seq(Frames) /\ Len(queue) <= QueueCap + 2
  /\ down \in Seq(Frames) /\ Len(down) <= SockCap
  /\ dwriter \in {"up", "broken"}

ClientTypes ==
  /\ main \in {"asking", "resizing", "live", "teardown", "returned", "failed"}
  /\ pipe \in BOOLEAN /\ exitUnseen \in BOOLEAN
  /\ reader \in {"unborn", "live", "doomed", "gone"}
  /\ outcome \in {"none", "detached", "exited", "disconnected"}
  /\ shown \in Seq(1..MaxChunks) /\ history \in Seq(1..MaxChunks)

UpTypes ==
  /\ up \in Seq(Attach..MaxInputs) /\ Len(up) <= SockCap
  /\ frames \in Seq(1..MaxInputs) /\ Len(frames) <= FrameCap + 1
  /\ cwriter \in {"up", "broken"}
  /\ feeder \in {"unborn", "live", "doomed", "gone"}
  /\ fed \in 0..MaxInputs
  /\ handled \in Seq(1..MaxInputs)

Types == SessionTypes /\ HandlerTypes /\ DownTypes /\ ClientTypes /\ UpTypes

-----------------------------------------------------------------------------
(* The inputs.  Unread is 1 as long as the attach request is in the socket.*)
Unread == IF up # <<>> /\ up[1] = Attach THEN 1 ELSE 0

Numbered ==
  /\ \A i \in DOMAIN handled : handled[i] = i
  /\ \A i \in DOMAIN up : up[i] + Unread = Len(handled) + i
  /\ \A i \in DOMAIN frames : frames[i] + Len(frames) = fed + i
  /\ daemon => Len(handled) + Len(up) + Len(frames) = fed + Unread

(* Who can still make inputs, and when the handler has ended.              *)
Ending ==
  /\ main \in {"asking", "resizing", "failed"} =>
       feeder = "unborn" /\ fed = 0 /\ frames = <<>>
  /\ main = "returned" => feeder \notin Running /\ frames = <<>>
  /\ cwriter = "broken" => frames = <<>> /\ ~daemon
  /\ hpc = "ended" => dwriter = "broken" \/ ~daemon \/ (up = <<>> /\ Closed)

InputInv == Numbered /\ Ending

-----------------------------------------------------------------------------
(* The output.                                                             *)
Waiting == {"asking", "failed"}    \* of main: there is no response yet

Born == forwarder # "unborn"

(* Where the replayed history may end: before the seam, once there is one. *)
Bound == IF Born THEN seam ELSE emitted

(* What a frame may hold.  What goes with the response needs a forwarder.  *)
Output(n) == Frame("output", <<n>>)

FrameOK(frame, bound, born) ==
  /\ frame.kind = "output" => \E n \in 1..MaxChunks : frame = Output(n)
  /\ frame.kind = "history" => /\ Ascending(frame.data)
                              /\ \A i \in DOMAIN frame.data : frame.data[i] \in 1..bound
  /\ frame.kind \notin {"output", "history"} => frame.data = <<>>
  /\ frame.kind \in {"output", "exited", "attached"} => born

(* History comes first, and when nothing has been got yet (early); output  *)
(* is in order.                                                            *)
QueueOK(s, bound, born, early) ==
  /\ \A i \in DOMAIN s : FrameOK(s[i], bound, born)
  /\ \A i \in DOMAIN s : s[i].kind = "history" => i = 1 /\ early
  /\ \A i, j \in DOMAIN s : \A k, l \in 1..MaxChunks :
       i < j /\ s[i] = Output(k) /\ s[j] = Output(l) => k < l

Carries(s, n) == \E i \in DOMAIN s : s[i] = Output(n)
Spans(s, from, to, lost) ==
  \A n \in 1..MaxChunks : Carries(s, n) <=> from < n /\ n <= to /\ n \notin lost

Early == main \in Waiting /\ history = <<>>

QueuesOK ==
  /\ QueueOK(down, Bound, Born, Early)
  /\ QueueOK(queue, Bound, Born, Early /\ down = <<>>)

(* Of the handler's frame and the order in which it serves the attachment. *)
Serving ==
  /\ hpc \in {"history", "serving", "reply"} => FrameOK(reply, Bound, Born)
  /\ hpc = "history" => reply.kind = "history"
  /\ hpc \in {"serving", "reply"} => reply.kind \notin {"history", "output"}
  /\ Unread = 1 => hpc = "reading"
  /\ hpc = "history" \/ Unread = 1 => queue = <<>> /\ down = <<>> /\ Early
  /\ hpc \in {"history", "subscribe"} \/ Unread = 1 => ~Born

Beginning ==
  /\ ~Born => position = 0 /\ seam = 0 /\ missed = {} /\ main \in Waiting
  /\ main \in Waiting => shown = <<>> /\ reader = "unborn"
  /\ seam <= position /\ position <= emitted
  /\ \A n \in missed : seam < n /\ n <= position /\ Overtaken(n)

(* The client has got the output up to r; the socket holds it up to q.     *)
Got == IF main \in Waiting THEN history ELSE shown

Holds(s, n) == \E i \in DOMAIN s : s[i] = n

InOrder(s, bound, r) == Ascending(s) /\ \A i \in DOMAIN s : s[i] <= bound \/ s[i] <= r

Adjacent(r, q) ==
  /\ InOrder(Got, Bound, r)
  /\ \A n \in 1..MaxChunks : seam < n /\ n <= r => (Holds(Got, n) <=> n \notin missed)
  /\ r <= q /\ q <= position
  /\ Spans(down, r, q, missed)
  /\ dwriter = "up" => Spans(queue, q, position, missed)

Stream == \E r, q \in seam..MaxChunks : Adjacent(r, q)

OutputInv == QueuesOK /\ Serving /\ Beginning /\ Stream

IInv == Types /\ InputInv /\ OutputInv

-----------------------------------------------------------------------------
(* Selections of chunks.                                                   *)
LEMMA SelectionIs ==
  ASSUME NEW n \in Nat, NEW s \in Selections(n)
  PROVE  /\ s \in Seq(1..n) /\ Ascending(s)
         /\ \A i \in DOMAIN s : s[i] \in Nat /\ s[i] <= n
<1>1. PICK l \in 0..n : s \in [1..l -> 1..n]
  BY DEF Selections
<1>2. s \in Seq(1..n)
  BY <1>1
<1>3. QED
  BY <1>2 DEF Selections

LEMMA SelectionGrows ==
  ASSUME NEW n \in 0..MaxChunks, NEW s \in Selections(n)
  PROVE  s \in Selections(MaxChunks)
<1>1. n \in Nat /\ MaxChunks \in Nat /\ n <= MaxChunks
  BY BoundsAssumption
<1>2. PICK l \in 0..n : s \in [1..l -> 1..n]
  BY DEF Selections
<1>3. l \in 0..MaxChunks /\ s \in [1..l -> 1..MaxChunks]
  BY <1>1, <1>2
<1>4. QED
  BY <1>3 DEF Selections

LEMMA NoSelection == ASSUME NEW n \in Nat PROVE <<>> \in Selections(n)
<1>1. <<>> \in [1..0 -> 1..n] /\ 0 \in 0..n
  OBVIOUS
<1>2. QED
  BY <1>1 DEF Selections, Ascending

LEMMA OneSelected == ASSUME NEW n \in 1..MaxChunks PROVE <<n>> \in Selections(MaxChunks)
<1>1. <<n>> \in [1..1 -> 1..MaxChunks] /\ 1 \in 0..MaxChunks
  BY BoundsAssumption
<1>2. Ascending(<<n>>)
  BY DEF Ascending
<1>3. QED
  BY <1>1, <1>2 DEF Selections

(* What the client has got grows by a later chunk.                         *)
LEMMA JoinOne ==
  ASSUME NEW T, NEW s \in Seq(T), NEW n \in T
  PROVE  /\ s \o <<n>> = Append(s, n)
         /\ \A k : Holds(s \o <<n>>, k) <=> Holds(s, k) \/ k = n
<1> DEFINE t == Append(s, n)  new == Len(s) + 1
<1>1. s \o <<n>> = t
  OBVIOUS
<1>2. /\ DOMAIN t = DOMAIN s \cup {new} /\ t[new] = n
      /\ \A i \in DOMAIN s : t[i] = s[i]
  OBVIOUS
<1> HIDE DEF t, new
<1>3. \A k : Holds(t, k) <=> Holds(s, k) \/ k = n
  BY <1>2 DEF Holds
<1>4. QED
  BY <1>1, <1>3 DEF t

LEMMA OrderGrows ==
  ASSUME NEW s \in Seq(Nat), NEW n \in Nat, NEW b \in Nat, NEW r \in Nat,
         InOrder(s, b, r), b <= r, r < n
  PROVE  InOrder(Append(s, n), b, n)
<1> DEFINE t == Append(s, n)  new == Len(s) + 1
<1>1. /\ DOMAIN t = DOMAIN s \cup {new} /\ t[new] = n
      /\ \A i \in DOMAIN s : t[i] = s[i] /\ i \in Nat /\ i < new /\ s[i] \in Nat
      /\ new \in Nat
  OBVIOUS
<1> HIDE DEF t, new
<1>2. \A i \in DOMAIN s : s[i] < n
  BY <1>1 DEF InOrder
<1>3. Ascending(t)
  BY <1>1, <1>2 DEF InOrder, Ascending
<1>4. \A i \in DOMAIN t : t[i] <= n
  BY <1>1, <1>2
<1>5. QED
  BY <1>3, <1>4 DEF InOrder, t

(* Frames.                                                                 *)
LEMMA OutputIs ==
  ASSUME NEW n \in 1..MaxChunks
  PROVE  /\ Output(n) \in Frames /\ Output(n).kind = "output" /\ Output(n).data = <<n>>
         /\ \A l \in 1..MaxChunks : Output(n) = Output(l) => n = l
<1>1. Output(n).kind = "output" /\ Output(n).data = <<n>>
  BY DEF Output, Frame
<1>2. Output(n) \in Frames
  BY OneSelected DEF Output, Frame, Frames, Kinds
<1>3. ASSUME NEW l \in 1..MaxChunks, Output(n) = Output(l) PROVE n = l
  <2>1. <<n>> = <<l>>
    BY <1>3 DEF Output, Frame
  <2>2. <<n>>[1] = n /\ <<l>>[1] = l
    OBVIOUS
  <2>3. QED
    BY <2>1, <2>2
<1>4. QED
  BY <1>1, <1>2, <1>3

LEMMA DataIsSeq == ASSUME NEW frame \in Frames PROVE frame.data \in Seq(1..MaxChunks)
BY SelectionIs, BoundsAssumption DEF Frames

LEMMA OtherFrames ==
  ASSUME NEW kind \in Kinds
  PROVE  Frame(kind, <<>>) \in Frames
BY NoSelection, BoundsAssumption DEF Frame, Frames

LEMMA HistoryIsFrame ==
  ASSUME NEW e \in 0..MaxChunks, NEW data \in Selections(e)
  PROVE  /\ Frame("history", data) \in Frames
         /\ \A born : FrameOK(Frame("history", data), e, born)
<1>1. data \in Selections(MaxChunks) /\ e \in Nat
  BY SelectionGrows, BoundsAssumption
<1>2. Frame("history", data) \in Frames
  BY <1>1 DEF Frame, Frames, Kinds
<1>3. Ascending(data) /\ data \in Seq(1..e)
  BY <1>1, SelectionIs
<1>4. \A i \in DOMAIN data : data[i] \in 1..e
  BY <1>3
<1>5. /\ Frame("history", data).kind = "history"
      /\ Frame("history", data).data = data
  BY DEF Frame
<1>6. QED
  BY <1>2, <1>3, <1>4, <1>5 DEF FrameOK

-----------------------------------------------------------------------------
(* Queues of frames.                                                       *)
LEMMA FrameGrows ==
  ASSUME NEW frame, NEW b \in Nat, NEW b2 \in Nat, NEW born, NEW born2,
         FrameOK(frame, b, born), b <= b2, born => born2
  PROVE  FrameOK(frame, b2, born2)
<1>1. \A x \in 1..b : x \in 1..b2
  OBVIOUS
<1>2. frame.kind = "history" => \A i \in DOMAIN frame.data : frame.data[i] \in 1..b2
  BY <1>1 DEF FrameOK
<1>3. QED
  BY <1>2 DEF FrameOK

LEMMA QueueGrows ==
  ASSUME NEW s \in Seq(Frames), NEW b \in Nat, NEW b2 \in Nat, NEW born, NEW born2,
         NEW early, NEW early2, QueueOK(s, b, born, early), b <= b2, born => born2,
         \A i \in DOMAIN s : s[i].kind = "history" /\ early => early2
  PROVE  QueueOK(s, b2, born2, early2)
<1>1. \A i \in DOMAIN s : FrameOK(s[i], b2, born2)
  BY FrameGrows DEF QueueOK
<1>2. QED
  BY <1>1 DEF QueueOK

LEMMA QueueHead ==
  ASSUME NEW s \in Seq(Frames), s # <<>>, NEW b, NEW born, NEW early,
         QueueOK(s, b, born, early)
  PROVE  /\ Head(s) \in Frames /\ FrameOK(Head(s), b, born)
         /\ Head(s).kind = "history" => early
<1>1. 1 \in DOMAIN s /\ Head(s) = s[1]
  OBVIOUS
<1>2. QED
  BY <1>1 DEF QueueOK

LEMMA TailIs ==
  ASSUME NEW T, NEW s \in Seq(T), s # <<>>
  PROVE  /\ Tail(s) \in Seq(T) /\ Len(Tail(s)) = Len(s) - 1 /\ Len(s) \in Nat \ {0}
         /\ DOMAIN Tail(s) = 1..Len(s) - 1 /\ DOMAIN s = 1..Len(s)
         /\ Head(s) = s[1] /\ Head(s) \in T
         /\ \A i \in DOMAIN Tail(s) : Tail(s)[i] = s[i + 1]
OBVIOUS

(* What follows the first frame is never history.                          *)
LEMMA QueueTail ==
  ASSUME NEW s \in Seq(Frames), s # <<>>, NEW b, NEW born, NEW early, NEW early2,
         QueueOK(s, b, born, early)
  PROVE  QueueOK(Tail(s), b, born, early2)
<1>1. \A i \in DOMAIN Tail(s) :
        i \in Nat \ {0} /\ i + 1 \in DOMAIN s /\ Tail(s)[i] = s[i + 1]
  BY TailIs
<1>2. \A i \in DOMAIN Tail(s) : FrameOK(Tail(s)[i], b, born)
  BY <1>1 DEF QueueOK
<1>3. \A i \in DOMAIN Tail(s) : Tail(s)[i].kind # "history"
  <2> TAKE i \in DOMAIN Tail(s)
  <2>1. s[i + 1].kind = "history" => i + 1 = 1
    BY <1>1 DEF QueueOK
  <2>2. QED
    BY <1>1, <2>1
<1>4. ASSUME NEW i \in DOMAIN Tail(s), NEW j \in DOMAIN Tail(s),
             NEW k \in 1..MaxChunks, NEW l \in 1..MaxChunks,
             i < j, Tail(s)[i] = Output(k), Tail(s)[j] = Output(l)
      PROVE  k < l
  <2>1. /\ i + 1 \in DOMAIN s /\ j + 1 \in DOMAIN s /\ i + 1 < j + 1
        /\ s[i + 1] = Output(k) /\ s[j + 1] = Output(l)
    BY <1>1, <1>4
  <2>2. QED
    BY <2>1 DEF QueueOK
<1>5. QED
  BY <1>2, <1>3, <1>4 DEF QueueOK

LEMMA ElementsAre == ASSUME NEW T, NEW s \in Seq(T) PROVE \A i \in DOMAIN s : s[i] \in T
OBVIOUS

LEMMA AppendIs ==
  ASSUME NEW T, NEW s \in Seq(T), NEW e \in T
  PROVE  /\ Append(s, e) \in Seq(T) /\ Len(Append(s, e)) = Len(s) + 1
         /\ Append(s, e) # <<>> /\ Len(s) \in Nat
         /\ DOMAIN s = 1..Len(s) /\ DOMAIN Append(s, e) = 1..Len(s) + 1
         /\ Append(s, e)[Len(s) + 1] = e
         /\ \A i \in DOMAIN s : Append(s, e)[i] = s[i]
         /\ Append(s, e)[1] = IF s = <<>> THEN e ELSE s[1]
<1>1. /\ Append(s, e) \in Seq(T) /\ Len(Append(s, e)) = Len(s) + 1
      /\ Append(s, e) # <<>> /\ Len(s) \in Nat
      /\ DOMAIN s = 1..Len(s) /\ DOMAIN Append(s, e) = 1..Len(s) + 1
      /\ Append(s, e)[Len(s) + 1] = e
      /\ \A i \in DOMAIN s : Append(s, e)[i] = s[i]
  OBVIOUS
<1>2. CASE s = <<>>
  BY <1>1, <1>2
<1>3. CASE s # <<>>
  <2>1. 1 \in DOMAIN s
    BY <1>3
  <2>2. QED
    BY <1>1, <1>3, <2>1
<1>4. QED
  BY <1>1, <1>2, <1>3

LEMMA QueueAppend ==
  ASSUME NEW s \in Seq(Frames), NEW frame \in Frames, NEW b, NEW born, NEW early,
         QueueOK(s, b, born, early), FrameOK(frame, b, born),
         frame.kind = "history" => s = <<>> /\ early,
         \A k, l \in 1..MaxChunks : frame = Output(k) /\ Carries(s, l) => l < k
  PROVE  QueueOK(Append(s, frame), b, born, early)
<1> DEFINE t == Append(s, frame)
           new == Len(s) + 1
<1>1. /\ new \in Nat /\ DOMAIN t = DOMAIN s \cup {new} /\ t[new] = frame
      /\ \A i \in DOMAIN s : i \in Nat /\ i < new /\ t[i] = s[i]
      /\ s = <<>> => new = 1
  BY AppendIs
<1> HIDE DEF t, new
<1>2. \A i \in DOMAIN t : FrameOK(t[i], b, born)
  BY <1>1 DEF QueueOK
<1>3. \A i \in DOMAIN t : t[i].kind = "history" => i = 1 /\ early
  BY <1>1 DEF QueueOK
<1>4. ASSUME NEW i \in DOMAIN t, NEW j \in DOMAIN t,
             NEW k \in 1..MaxChunks, NEW l \in 1..MaxChunks,
             i < j, t[i] = Output(k), t[j] = Output(l)
      PROVE  k < l
  <2>1. i \in DOMAIN s /\ s[i] = Output(k)
    BY <1>1, <1>4
  <2>2. CASE j \in DOMAIN s
    BY <1>1, <1>4, <2>1, <2>2 DEF QueueOK
  <2>3. CASE j = new
    BY <1>1, <1>4, <2>1, <2>3 DEF Carries
  <2>4. QED
    BY <1>1, <2>2, <2>3
<1>5. QED
  BY <1>2, <1>3, <1>4 DEF QueueOK, t

(* What a queue carries.                                                   *)
LEMMA CarriesAppend ==
  ASSUME NEW s \in Seq(Frames), NEW frame \in Frames, NEW k
  PROVE  Carries(Append(s, frame), k) <=> Carries(s, k) \/ frame = Output(k)
<1>1. DOMAIN Append(s, frame) = DOMAIN s \cup {Len(s) + 1}
  BY AppendIs
<1>2. QED
  BY <1>1, AppendIs DEF Carries

LEMMA CarriesTail ==
  ASSUME NEW s \in Seq(Frames), s # <<>>, NEW k
  PROVE  Carries(s, k) <=> Carries(Tail(s), k) \/ Head(s) = Output(k)
<1>1. ASSUME Carries(Tail(s), k) PROVE Carries(s, k)
  BY <1>1, TailIs DEF Carries
<1>2. ASSUME Head(s) = Output(k) PROVE Carries(s, k)
  BY <1>2, TailIs DEF Carries
<1>3. ASSUME Carries(s, k) PROVE Carries(Tail(s), k) \/ Head(s) = Output(k)
  <2>1. PICK i \in DOMAIN s : s[i] = Output(k)
    BY <1>3 DEF Carries
  <2>2. CASE i = 1
    BY <2>1, <2>2, TailIs
  <2>3. CASE i # 1
    <3>1. i - 1 \in DOMAIN Tail(s) /\ Tail(s)[i - 1] = s[i]
      BY <2>1, <2>3, TailIs
    <3>2. QED
      BY <2>1, <3>1 DEF Carries
  <2>4. QED
    BY <2>2, <2>3
<1>4. QED
  BY <1>1, <1>2, <1>3

LEMMA SpansOther ==
  ASSUME NEW s \in Seq(Frames), NEW frame \in Frames, frame.kind # "output",
         NEW from, NEW to, NEW lost, Spans(s, from, to, lost)
  PROVE  Spans(Append(s, frame), from, to, lost)
<1>1. \A k \in 1..MaxChunks : frame # Output(k)
  BY DEF Output, Frame
<1>2. QED
  BY <1>1, CarriesAppend DEF Spans

(* The next chunk that is carried comes after chunks that are lost.        *)
LEMMA SpansNext ==
  ASSUME NEW s \in Seq(Frames), NEW from \in Nat, NEW to \in Nat, NEW n \in 1..MaxChunks,
         NEW lost, from <= to, to < n, n \notin lost,
         \A k \in 1..MaxChunks : to < k /\ k < n => k \in lost,
         Spans(s, from, to, lost)
  PROVE  Spans(Append(s, Output(n)), from, n, lost)
<1>1. Output(n) \in Frames /\ \A k \in 1..MaxChunks : Output(n) = Output(k) => n = k
  BY OutputIs
<1>2. \A k \in 1..MaxChunks : Carries(Append(s, Output(n)), k) <=> Carries(s, k) \/ k = n
  BY <1>1, CarriesAppend
<1>3. \A k \in 1..MaxChunks : k \in Nat /\ n \in Nat
  BY BoundsAssumption
<1>4. QED
  BY <1>2, <1>3 DEF Spans

(* All that is added to the interval is lost.                              *)
LEMMA SpansLost ==
  ASSUME NEW s \in Seq(Frames), NEW from \in Nat, NEW to \in Nat, NEW to2 \in Nat,
         NEW lost, to <= to2, Spans(s, from, to, lost)
  PROVE  Spans(s, from, to2, lost \cup (to + 1..to2))
<1>1. \A k \in 1..MaxChunks : k \in Nat /\ (k \in to + 1..to2 <=> to < k /\ k <= to2)
  BY BoundsAssumption
<1>2. QED
  BY <1>1 DEF Spans

LEMMA SpansTailOther ==
  ASSUME NEW s \in Seq(Frames), s # <<>>, Head(s).kind # "output",
         NEW from, NEW to, NEW lost, Spans(s, from, to, lost)
  PROVE  Spans(Tail(s), from, to, lost)
<1>1. \A k \in 1..MaxChunks : Head(s) # Output(k)
  BY DEF Output, Frame
<1>2. QED
  BY <1>1, CarriesTail DEF Spans

(* The first output in a queue is the first of the interval that is not    *)
(* lost.                                                                   *)
Follows(n, from, to, lost) ==
  /\ from < n /\ n <= to /\ n \notin lost
  /\ \A k \in 1..MaxChunks : from < k /\ k < n => k \in lost

LEMMA SpansTailOutput ==
  ASSUME NEW s \in Seq(Frames), s # <<>>, Head(s).kind = "output",
         NEW b, NEW born, NEW early, QueueOK(s, b, born, early),
         NEW from \in Nat, NEW to \in Nat, NEW lost, Spans(s, from, to, lost)
  PROVE  \E n \in 1..MaxChunks :
           Head(s) = Output(n) /\ Follows(n, from, to, lost) /\ Spans(Tail(s), n, to, lost)
<1>1. PICK n \in 1..MaxChunks : Head(s) = Output(n)
  BY QueueHead DEF FrameOK
<1>2. Carries(s, n) /\ from < n /\ n <= to /\ n \notin lost
  BY <1>1, CarriesTail DEF Spans
<1>3. n \in Nat /\ \A k \in 1..MaxChunks : k \in Nat
  BY BoundsAssumption
<1>4. \A l \in 1..MaxChunks : Carries(Tail(s), l) => n < l
  <2> TAKE l \in 1..MaxChunks
  <2> HAVE Carries(Tail(s), l)
  <2>1. PICK i \in DOMAIN Tail(s) : Tail(s)[i] = Output(l)
    BY DEF Carries
  <2>2. /\ 1 \in DOMAIN s /\ i + 1 \in DOMAIN s /\ 1 < i + 1
        /\ s[1] = Output(n) /\ s[i + 1] = Output(l)
    BY <1>1, <2>1, TailIs
  <2>3. QED
    BY <2>2 DEF QueueOK
<1>5. \A l \in 1..MaxChunks : Carries(s, l) <=> Carries(Tail(s), l) \/ l = n
  BY <1>1, CarriesTail, OutputIs
<1>6. \A k \in 1..MaxChunks : from < k /\ k < n => k \in lost
  <2> TAKE k \in 1..MaxChunks
  <2> HAVE from < k /\ k < n
  <2>1. ~Carries(Tail(s), k) /\ k # n
    BY <1>3, <1>4
  <2>2. ~Carries(s, k) /\ k <= to
    BY <1>2, <1>3, <1>5, <2>1
  <2>3. QED
    BY <2>2 DEF Spans
<1>7. Spans(Tail(s), n, to, lost)
  <2>1. SUFFICES ASSUME NEW k \in 1..MaxChunks
                 PROVE  Carries(Tail(s), k) <=> n < k /\ k <= to /\ k \notin lost
    BY DEF Spans
  <2>2. Carries(s, k) <=> from < k /\ k <= to /\ k \notin lost
    BY DEF Spans
  <2>3. QED
    BY <1>2, <1>3, <1>4, <1>5, <2>2
<1>8. QED
  BY <1>1, <1>2, <1>6, <1>7 DEF Follows

LEMMA SpansNothing ==
  ASSUME NEW from \in Nat, NEW lost PROVE Spans(<<>>, from, from, lost)
BY BoundsAssumption DEF Spans, Carries

-----------------------------------------------------------------------------
(* Types.                                                                  *)
LEMMA TypesAreTypeOK == Types => TypeOK
BY DEF Types, SessionTypes, HandlerTypes, DownTypes, ClientTypes, UpTypes, TypeOK

LEMMA QueuesTypes ==
  ASSUME DownTypes, NEW frame \in Frames, NEW n \in Nat, n <= QueueCap + 2,
         Queues(frame, n)
  PROVE  queue' \in Seq(Frames) /\ Len(queue') <= QueueCap + 2 /\ dwriter' = dwriter
         /\ dwriter = "up" /\ queue' = Append(queue, frame)
<1>1. queue' = Append(queue, frame) /\ Len(queue) < n
  BY DEF Queues
<1>2. queue' \in Seq(Frames) /\ Len(queue') = Len(queue) + 1 /\ Len(queue) \in Nat
  BY <1>1, AppendIs DEF DownTypes
<1>3. QED
  BY <1>1, <1>2, BoundsAssumption DEF Queues

USE DEF session, handler, forward, sending, asking, input, output

LEMMA TailUp ==
  ASSUME UpTypes, up # <<>>
  PROVE  /\ Tail(up) \in Seq(Attach..MaxInputs) /\ Len(Tail(up)) <= SockCap
         /\ Head(up) \in Attach..MaxInputs
<1>1. /\ Tail(up) \in Seq(Attach..MaxInputs) /\ Len(Tail(up)) = Len(up) - 1
      /\ Len(up) \in Nat /\ Head(up) \in Attach..MaxInputs
  BY TailIs DEF UpTypes
<1>2. QED
  BY <1>1, BoundsAssumption DEF UpTypes

LEMMA HandlerTypesStay ==
  ASSUME HandlerTypes, UNCHANGED <<hpc, reply, forwarder, position, missed, seam>>
  PROVE  HandlerTypes'
BY DEF HandlerTypes

LEMMA HandlerTypesKept == Types /\ Handler => Types'
<1> SUFFICES ASSUME Types, Handler PROVE Types'
  OBVIOUS
<1> USE DEF Types, HandlerStep
<1>1. SessionTypes' /\ ClientTypes'
  BY DEF Handler, Answers, Serves, ReadsInput, ReadsAttach, SendsHistory, Subscribes, SubscribesFrom, Replies,
     EndOfStream, SessionTypes, ClientTypes
<1>2. CASE ReadsInput \/ ReadsAttach
  <2>1. up' \in Seq(Attach..MaxInputs) /\ Len(up') <= SockCap
        /\ Head(up) \in Attach..MaxInputs
    <3>1. up # <<>> /\ up' = Tail(up)
      BY <1>2 DEF ReadsInput, ReadsAttach
    <3>2. QED
      BY <3>1, TailUp
  <2>2. handled' \in Seq(1..MaxInputs)
    <3>1. Head(up) # Attach => Head(up) \in 1..MaxInputs
      BY <2>1, BoundsAssumption DEF Attach
    <3>2. Head(up) # Attach => Append(handled, Head(up)) \in Seq(1..MaxInputs)
      BY <3>1, AppendIs DEF UpTypes
    <3>3. QED
      BY <1>2, <3>2 DEF ReadsInput, ReadsAttach, UpTypes
  <2>3. UpTypes' /\ DownTypes'
    BY <1>2, <2>1, <2>2 DEF ReadsInput, ReadsAttach, UpTypes, DownTypes
  <2>4. HandlerTypes'
    <3>1. /\ Frame("reply", <<>>) \in Frames
          /\ \A data \in Selections(emitted) : Frame("history", data) \in Frames
      BY OtherFrames, HistoryIsFrame DEF Kinds, SessionTypes
    <3>2. CASE ReadsInput
      BY <3>1, <3>2 DEF ReadsInput, HandlerTypes
    <3>3. CASE ReadsAttach
      <4>1. \/ hpc' = "history" /\ reply' \in Frames
            \/ hpc' = "subscribe" /\ reply' = NoFrame
        BY <3>1, <3>3 DEF ReadsAttach
      <4>2. QED
        BY <3>3, <4>1 DEF ReadsAttach, HandlerTypes
    <3>4. QED
      BY <1>2, <3>2, <3>3
  <2>5. QED
    BY <1>1, <2>3, <2>4
<1>3. CASE SendsHistory \/ Replies
  <2>1. reply \in Frames
    BY <1>3 DEF SendsHistory, Replies, HandlerTypes
  <2>2. DownTypes'
    <3>1. Queues(reply, QueueCap + 1) \/ QueueFails
      BY <1>3 DEF SendsHistory, Replies
    <3>2. UNCHANGED down
      BY <1>3 DEF SendsHistory, Replies
    <3>3. CASE QueueFails
      BY <3>2, <3>3 DEF QueueFails, DownTypes
    <3>4. CASE Queues(reply, QueueCap + 1)
      BY <2>1, <3>2, <3>4, QueuesTypes, BoundsAssumption DEF DownTypes
    <3>5. QED
      BY <3>1, <3>3, <3>4
  <2>3. UpTypes' /\ HandlerTypes'
    BY <1>3 DEF SendsHistory, Replies, Ends, UpTypes, HandlerTypes
  <2>4. QED
    BY <1>1, <2>2, <2>3
<1>4. CASE Subscribes \/ EndOfStream
  <2>1. Frame("attached", <<>>) \in Frames /\ Frame("refused", <<>>) \in Frames
    BY OtherFrames DEF Kinds
  <2>2. HandlerTypes'
    BY <1>4, <2>1 DEF Subscribes, SubscribesFrom, EndOfStream, Ends, HandlerTypes, SessionTypes
  <2>3. UpTypes' /\ DownTypes'
    BY <1>4 DEF Subscribes, SubscribesFrom, EndOfStream, UpTypes, DownTypes
  <2>4. QED
    BY <1>1, <2>2, <2>3
<1>5. CASE Serves
  BY <1>1, <1>5 DEF Serves, HandlerTypes, DownTypes, UpTypes
<1>6. QED
  BY <1>2, <1>3, <1>4, <1>5 DEF Handler, Answers

(* What the forwarder skips lies between what it has queued and the end.   *)
LEMMA LagIs ==
  ASSUME Types, Lags
  PROVE  /\ position' \in 0..MaxChunks /\ position < position' /\ position' <= emitted
         /\ position' \in Nat /\ position \in Nat
         /\ position + 1..position' \subseteq 1..MaxChunks
         /\ \A n \in position + 1..position' : position < n /\ n <= position' /\ Overtaken(n)
         /\ missed' = missed \cup (position + 1..position')
<1>1. /\ position \in 0..MaxChunks /\ emitted \in 0..MaxChunks /\ MaxChunks \in Nat
      /\ RingCap \in Nat \ {0}
  BY BoundsAssumption DEF Types, HandlerTypes, SessionTypes
<1>2. /\ position' = emitted - RingCap /\ position + 1 + RingCap <= emitted
      /\ missed' = missed \cup (position + 1..position')
  BY DEF Lags, LagsTo, Overtaken
<1>3. /\ position' \in 0..MaxChunks /\ position < position' /\ position' <= emitted
      /\ position' \in Nat /\ position \in Nat
  BY <1>1, <1>2
<1>4. \A n \in position + 1..position' :
        position < n /\ n <= position' /\ n + RingCap <= emitted /\ n \in 1..MaxChunks
  BY <1>1, <1>2, <1>3
<1>5. QED
  BY <1>2, <1>3, <1>4 DEF Overtaken

LEMMA ForwarderTypesKept == Types /\ Forwarder => Types'
<1> SUFFICES ASSUME Types, Forwarder PROVE Types'
  OBVIOUS
<1> USE DEF Types, ForwarderStep
<1>1. SessionTypes' /\ ClientTypes' /\ UpTypes'
  BY DEF Forwarder, Forwards, Lags, LagsTo, ForwardsExit, ClosesWith, ForwarderEnds,
     SessionTypes, ClientTypes, UpTypes
<1>2. DownTypes'
  <2>1. UNCHANGED down
    BY DEF Forwarder, Forwards, Lags, LagsTo, ForwardsExit, ClosesWith, ForwarderEnds
  <2>2. CASE Forwards
    <3>1. position + 1 \in 1..MaxChunks
      BY <2>2, BoundsAssumption DEF Forwards, HandlerTypes, SessionTypes
    <3>2. Frame("output", <<position + 1>>) \in Frames
      BY <3>1, OutputIs DEF Output
    <3>3. QED
      BY <2>1, <2>2, <3>2, QueuesTypes, BoundsAssumption DEF Forwards, DownTypes
  <2>3. CASE ForwardsExit
    <3>1. Frame("exited", <<>>) \in Frames
      BY OtherFrames DEF Kinds
    <3>2. QED
      BY <2>1, <2>3, <3>1, QueuesTypes, BoundsAssumption DEF ForwardsExit, ClosesWith, DownTypes
  <2>4. CASE Lags \/ ForwarderEnds
    BY <2>1, <2>4 DEF Lags, LagsTo, ForwarderEnds, DownTypes
  <2>5. QED
    BY <2>2, <2>3, <2>4 DEF Forwarder
<1>3. HandlerTypes'
  <2>1. CASE Lags
    BY <2>1, LagIs DEF Lags, LagsTo, HandlerTypes
  <2>2. CASE Forwards \/ ForwardsExit \/ ForwarderEnds
    <3>1. /\ UNCHANGED <<hpc, reply, missed, seam>>
          /\ forwarder' \in {"unborn", "live", "doomed", "gone"}
          /\ position' = position \/ (position' = position + 1 /\ position < emitted)
      BY <2>2 DEF Forwards, ForwardsExit, ClosesWith, ForwarderEnds, HandlerTypes
    <3>2. position' \in 0..MaxChunks
      BY <3>1, BoundsAssumption DEF HandlerTypes, SessionTypes
    <3>3. QED
      BY <3>1, <3>2 DEF HandlerTypes
  <2>3. QED
    BY <2>1, <2>2 DEF Forwarder
<1>4. QED
  BY <1>1, <1>2, <1>3

LEMMA WriterTypesKept == Types /\ DWriter => Types'
<1> SUFFICES ASSUME Types, DWriter PROVE Types'
  OBVIOUS
<1> USE DEF Types, DWriterStep
<1>1. SessionTypes' /\ HandlerTypes' /\ ClientTypes' /\ UpTypes'
  BY HandlerTypesStay DEF DWriter, Writes, WriteBreaks, SessionTypes, ClientTypes, UpTypes
<1>2. DownTypes'
  <2>1. CASE WriteBreaks
    BY <2>1, BoundsAssumption DEF WriteBreaks, DownTypes
  <2>2. CASE Writes
    <3>1. /\ Head(queue) \in Frames /\ Tail(queue) \in Seq(Frames)
          /\ Len(Tail(queue)) = Len(queue) - 1 /\ Len(queue) \in Nat
      BY <2>2, TailIs DEF Writes, DownTypes
    <3>2. /\ Append(down, Head(queue)) \in Seq(Frames) /\ Len(down) \in Nat
          /\ Len(Append(down, Head(queue))) = Len(down) + 1
      BY <3>1, AppendIs DEF DownTypes
    <3>3. QED
      BY <2>2, <3>1, <3>2, BoundsAssumption DEF Writes, DownTypes
  <2>3. QED
    BY <2>1, <2>2 DEF DWriter
<1>3. QED
  BY <1>1, <1>2

LEMMA TailDown ==
  ASSUME DownTypes, down # <<>>, down' = Tail(down), UNCHANGED <<queue, dwriter>>
  PROVE  DownTypes' /\ Head(down) \in Frames
BY TailIs, BoundsAssumption DEF DownTypes

LEMMA MainTypesKept == Types /\ Main => Types'
<1> SUFFICES ASSUME Types, Main PROVE Types'
  OBVIOUS
<1> USE DEF Types, MainStep, GoesLive
<1>1. SessionTypes' /\ HandlerTypes'
  BY HandlerTypesStay
     DEF Main, Collects, OverlooksExit, Attached, Refused, Asked, AttachFails, Resizes,
         TearsDown, TearsDownTo, Returns, LeavesWhen, SessionTypes
<1>2. CASE Collects \/ OverlooksExit \/ Attached \/ Refused
  <2>1. DownTypes' /\ Head(down) \in Frames
    BY <1>2, TailDown DEF Collects, OverlooksExit, Attached, Refused, Asked
  <2>2. UpTypes'
    BY <1>2 DEF Collects, OverlooksExit, Attached, Refused, Asked, UpTypes
  <2>3. Head(down).data \in Seq(1..MaxChunks)
    BY <2>1, DataIsSeq
  <2>4. ClientTypes'
    <3>1. CASE Collects
      BY <3>1, <2>3 DEF Collects, Asked, ClientTypes
    <3>2. CASE OverlooksExit \/ Attached \/ Refused
      BY <3>2 DEF OverlooksExit, Attached, Refused, Asked, ClientTypes
    <3>3. QED
      BY <1>2, <3>1, <3>2
  <2>5. QED
    BY <1>1, <2>1, <2>2, <2>4
<1>3. CASE AttachFails \/ TearsDown \/ Returns
  BY <1>1, <1>3 DEF AttachFails, TearsDown, TearsDownTo, Aborted, Returns, LeavesWhen, DownTypes,
     ClientTypes, UpTypes
<1>4. CASE Resizes
  <2>1. 1 \in Attach..MaxInputs /\ 1 \in 0..MaxInputs
    BY BoundsAssumption DEF Attach
  <2>2. up' \in Seq(Attach..MaxInputs) /\ Len(up') <= SockCap
    <3>1. /\ Append(up, 1) \in Seq(Attach..MaxInputs) /\ Len(up) \in Nat
          /\ Len(Append(up, 1)) = Len(up) + 1
      BY <2>1, AppendIs DEF UpTypes
    <3>2. \/ up' = up
          \/ up' = Append(up, 1) /\ Len(up) < SockCap
      BY <1>4 DEF Resizes
    <3>3. CASE up' = up
      BY <3>3 DEF UpTypes
    <3>4. CASE up' = Append(up, 1) /\ Len(up) < SockCap
      BY <3>1, <3>4, BoundsAssumption
    <3>5. QED
      BY <3>2, <3>3, <3>4
  <2>3. DownTypes' /\ ClientTypes'
    BY <1>4 DEF Resizes, DownTypes, ClientTypes
  <2>4. UpTypes'
    BY <1>4, <2>1, <2>2 DEF Resizes, UpTypes
  <2>5. QED
    BY <1>1, <2>3, <2>4
<1>5. QED
  BY <1>2, <1>3, <1>4 DEF Main

LEMMA TasksTypesKept == Types /\ (Reader \/ Stdin \/ FeederStops \/ CWriter) => Types'
<1> SUFFICES ASSUME Types, Reader \/ Stdin \/ FeederStops \/ CWriter PROVE Types'
  OBVIOUS
<1> USE DEF Types, MainStep, ReaderStep, FeederStep, CWriterStep, Reports
<1>1. SessionTypes' /\ HandlerTypes'
  BY HandlerTypesStay
     DEF Reader, Reads, ReadsExit, ReadsEnd, ReaderStops, Stdin, Feeds, Detaches, EndOfInput,
         FeederStops, CWriter, CWrites, CWriteBreaks, SessionTypes
<1>2. CASE Reader
  <2>1. UpTypes'
    BY <1>2 DEF Reader, Reads, ReadsExit, ReadsEnd, ReaderStops, UpTypes
  <2>2. CASE Reads \/ ReadsExit
    <3>1. DownTypes' /\ Head(down).data \in Seq(1..MaxChunks)
      BY <2>2, TailDown, DataIsSeq DEF Reads, ReadsExit
    <3>2. shown \o Head(down).data \in Seq(1..MaxChunks)
      BY <3>1 DEF ClientTypes
    <3>3. ClientTypes'
      BY <2>2, <3>2 DEF Reads, ReadsExit, ClientTypes
    <3>4. QED
      BY <1>1, <2>1, <3>1, <3>3
  <2>3. CASE ReadsEnd \/ ReaderStops
    BY <1>1, <2>1, <2>3 DEF ReadsEnd, ReaderStops, DownTypes, ClientTypes
  <2>4. QED
    BY <1>2, <2>2, <2>3 DEF Reader
<1>3. CASE Stdin \/ FeederStops
  <2>1. ClientTypes' /\ DownTypes'
    BY <1>3 DEF Stdin, Feeds, Detaches, EndOfInput, FeederStops, ClientTypes, DownTypes
  <2>2. CASE Feeds
    <3>1. fed + 1 \in 1..MaxInputs /\ fed + 1 \in 0..MaxInputs
      BY <2>2, BoundsAssumption DEF Feeds, UpTypes
    <3>2. /\ Append(frames, fed + 1) \in Seq(1..MaxInputs) /\ Len(frames) \in Nat
          /\ Len(Append(frames, fed + 1)) = Len(frames) + 1
      BY <3>1, AppendIs DEF UpTypes
    <3>3. UpTypes'
      BY <2>2, <3>1, <3>2, BoundsAssumption DEF Feeds, UpTypes
    <3>4. QED
      BY <1>1, <2>1, <3>3
  <2>3. CASE Detaches \/ EndOfInput \/ FeederStops
    BY <1>1, <2>1, <2>3 DEF Detaches, EndOfInput, FeederStops, UpTypes
  <2>4. QED
    BY <1>3, <2>2, <2>3 DEF Stdin
<1>4. CASE CWriter
  <2>1. ClientTypes' /\ DownTypes'
    BY <1>4 DEF CWriter, CWrites, CWriteBreaks, ClientTypes, DownTypes
  <2>2. CASE CWriteBreaks
    BY <1>1, <2>1, <2>2, BoundsAssumption DEF CWriteBreaks, UpTypes
  <2>3. CASE CWrites
    <3>1. /\ Head(frames) \in 1..MaxInputs /\ Tail(frames) \in Seq(1..MaxInputs)
          /\ Len(Tail(frames)) = Len(frames) - 1 /\ Len(frames) \in Nat
      BY <2>3, TailIs DEF CWrites, UpTypes
    <3>2. Head(frames) \in Attach..MaxInputs
      BY <3>1, BoundsAssumption DEF Attach
    <3>3. /\ Append(up, Head(frames)) \in Seq(Attach..MaxInputs) /\ Len(up) \in Nat
          /\ Len(Append(up, Head(frames))) = Len(up) + 1
      BY <3>2, AppendIs DEF UpTypes
    <3>4. up' \in Seq(Attach..MaxInputs) /\ Len(up') <= SockCap
      BY <2>3, <3>3, BoundsAssumption DEF CWrites
    <3>5. frames' \in Seq(1..MaxInputs) /\ Len(frames') <= FrameCap + 1
      BY <2>3, <3>1, BoundsAssumption DEF CWrites, UpTypes
    <3>6. UpTypes'
      BY <2>3, <3>4, <3>5 DEF CWrites, UpTypes
    <3>7. QED
      BY <1>1, <2>1, <3>6
  <2>4. QED
    BY <1>4, <2>2, <2>3 DEF CWriter
<1>5. QED
  BY <1>2, <1>3, <1>4

LEMMA TypesKept == Types /\ [Next]_vars => Types'
<1> SUFFICES ASSUME Types, [Next]_vars PROVE Types'
  OBVIOUS
<1>1. CASE Emits \/ Killed \/ SendersGo \/ DaemonDies \/ UNCHANGED vars
  <2>1. SessionTypes'
    <3>1. CASE Emits
      BY <3>1, BoundsAssumption DEF Emits, Types, SessionTypes
    <3>2. CASE Killed \/ SendersGo \/ DaemonDies \/ UNCHANGED vars
      BY <3>2 DEF Killed, SendersGo, DaemonDies, vars, Types, SessionTypes
    <3>3. QED
      BY <1>1, <3>1, <3>2
  <2>2. HandlerTypes' /\ DownTypes' /\ ClientTypes' /\ UpTypes'
    BY <1>1, HandlerTypesStay
       DEF Emits, Killed, SendersGo, DaemonDies, vars, Types, DownTypes, ClientTypes, UpTypes
  <2>3. QED
    BY <2>1, <2>2 DEF Types
<1>2. QED
  BY <1>1, HandlerTypesKept, ForwarderTypesKept, WriterTypesKept, MainTypesKept, TasksTypesKept
     DEF Next

-----------------------------------------------------------------------------
(* The inputs.                                                             *)
LEMMA UnreadIs == Unread \in {0, 1}
BY DEF Unread

LEMMA ElementIs == ASSUME NEW T, NEW s \in Seq(T), NEW i \in DOMAIN s PROVE s[i] \in T
OBVIOUS

LEMMA UpIs ==
  ASSUME UpTypes, Numbered, up # <<>>
  PROVE  /\ Head(up) = up[1] /\ up[1] \in Nat /\ Len(handled) \in Nat /\ Len(up) \in Nat \ {0}
         /\ up[1] + Unread = Len(handled) + 1
         /\ up[1] = Attach => Unread = 1 /\ handled = <<>>
         /\ up[1] # Attach => Unread = 0
<1>1. /\ Head(up) = up[1] /\ up[1] \in Attach..MaxInputs /\ Len(handled) \in Nat
      /\ Len(up) \in Nat \ {0} /\ DOMAIN up = 1..Len(up)
  <2>1. Len(handled) \in Nat
    BY DEF UpTypes
  <2>2. QED
    BY <2>1, TailIs, ZenonT(30) DEF UpTypes
<1>2. up[1] + Unread = Len(handled) + 1
  BY <1>1 DEF Numbered
<1>3. Unread = IF up[1] = Attach THEN 1 ELSE 0
  BY DEF Unread
<1>4. up[1] \in Nat
  BY <1>1, BoundsAssumption DEF Attach
<1>5. up[1] = Attach => Len(handled) = 0
  BY <1>1, <1>2, <1>3 DEF Attach
<1>6. Len(handled) = 0 => handled = <<>>
  BY DEF UpTypes
<1>7. QED
  BY <1>1, <1>2, <1>3, <1>4, <1>5, <1>6

(* What is left in the socket after a request has been read.               *)
LEMMA UpAfter ==
  ASSUME UpTypes, Numbered, up # <<>>, up' = Tail(up)
  PROVE  /\ Unread' = 0 /\ Len(up') = Len(up) - 1
         /\ \A i \in DOMAIN up' : up'[i] + Unread = Len(handled) + 1 + i
<1>1. /\ Len(up') = Len(up) - 1 /\ Len(up) \in Nat \ {0} /\ DOMAIN up' = 1..Len(up) - 1
      /\ DOMAIN up = 1..Len(up) /\ \A i \in DOMAIN up' : up'[i] = up[i + 1]
  BY TailIs DEF UpTypes
<1>2. \A i \in DOMAIN up' : up'[i] + Unread = Len(handled) + (i + 1)
  BY <1>1 DEF Numbered
<1>3. Len(handled) \in Nat
  BY DEF UpTypes
<1>4. up' \in Seq(Attach..MaxInputs)
  BY TailUp
<1>5. \A i \in DOMAIN up' : up'[i] \in Nat /\ i \in Nat
  BY <1>1, <1>4, BoundsAssumption DEF Attach
<1>6. up' # <<>> => 1 \in DOMAIN up'
  BY <1>4
<1>7. up' # <<>> => up'[1] # Attach
  BY <1>2, <1>3, <1>5, <1>6, UnreadIs, SMTT(30) DEF Attach
<1>8. Unread' = 0
  BY <1>7 DEF Unread
<1>9. QED
  BY <1>1, <1>2, <1>3, <1>5, <1>8, UnreadIs

LEMMA UpGrows ==
  ASSUME UpTypes, NEW n \in 1..MaxInputs, up' = Append(up, n)
  PROVE  /\ Unread' = Unread /\ Len(up') = Len(up) + 1 /\ Len(up) \in Nat
         /\ DOMAIN up' = DOMAIN up \cup {Len(up) + 1} /\ up'[Len(up) + 1] = n
         /\ \A i \in DOMAIN up : up'[i] = up[i]
<1>1. n \in Attach..MaxInputs /\ n # Attach
  BY BoundsAssumption DEF Attach
<1>2. /\ Len(up') = Len(up) + 1 /\ Len(up) \in Nat /\ up' # <<>>
      /\ DOMAIN up' = DOMAIN up \cup {Len(up) + 1} /\ up'[Len(up) + 1] = n
      /\ \A i \in DOMAIN up : up'[i] = up[i]
      /\ up'[1] = IF up = <<>> THEN n ELSE up[1]
  BY <1>1, AppendIs DEF UpTypes
<1>3. Unread' = Unread
  BY <1>1, <1>2 DEF Unread
<1>4. QED
  BY <1>2, <1>3

LEMMA ReadsNumbered == Types /\ InputInv /\ (ReadsInput \/ ReadsAttach) => Numbered'
<1> SUFFICES ASSUME Types, InputInv, ReadsInput \/ ReadsAttach PROVE Numbered'
  OBVIOUS
<1> USE DEF Types, InputInv
<1>1. /\ up # <<>> /\ up' = Tail(up) /\ daemon /\ daemon' = daemon
      /\ UNCHANGED <<frames, fed>>
  BY DEF ReadsInput, ReadsAttach, HandlerStep
<1>2. /\ Unread' = 0 /\ Len(up') = Len(up) - 1
      /\ \A i \in DOMAIN up' : up'[i] + Unread = Len(handled) + 1 + i
  BY <1>1, UpAfter
<1>3. /\ Head(up) = up[1] /\ up[1] \in Nat /\ Len(handled) \in Nat /\ Len(up) \in Nat \ {0}
      /\ up[1] + Unread = Len(handled) + 1
  BY <1>1, UpIs
<1>4. /\ Len(frames) \in Nat /\ fed \in Nat
      /\ Len(handled) + Len(up) + Len(frames) = fed + Unread
  BY <1>1, BoundsAssumption DEF UpTypes, Numbered
<1>5. /\ Len(handled') = Len(handled) + 1 - Unread /\ Len(handled') \in Nat
      /\ \A i \in DOMAIN handled' : handled'[i] = i
  <2>1. CASE ReadsAttach
    <3>1. Unread = 1 /\ handled' = handled
      BY <1>1, <1>3, <2>1, UpIs DEF ReadsAttach
    <3>2. QED
      BY <1>3, <3>1 DEF Numbered
  <2>2. CASE ReadsInput
    <3>1. Unread = 0 /\ handled' = Append(handled, up[1]) /\ up[1] = Len(handled) + 1
      BY <1>1, <1>3, <2>2, UpIs DEF ReadsInput
    <3>2. handled \in Seq(1..MaxInputs) /\ up[1] \in 1..MaxInputs
      BY <1>1, <1>3, <3>1, TailUp DEF UpTypes
    <3>3. /\ DOMAIN handled' = 1..Len(handled) + 1 /\ Len(handled') = Len(handled) + 1
          /\ handled'[Len(handled) + 1] = Len(handled) + 1 /\ DOMAIN handled = 1..Len(handled)
          /\ \A i \in DOMAIN handled : handled'[i] = handled[i]
      BY <1>3, <3>1, <3>2, AppendIs
    <3>4. QED
      BY <1>3, <3>1, <3>3 DEF Numbered
  <2>3. QED
    BY <2>1, <2>2
<1>6. \A i \in DOMAIN up' : up'[i] + Unread' = Len(handled') + i
  <2> TAKE i \in DOMAIN up'
  <2>1. up'[i] \in Nat /\ i \in Nat
    <3>1. up' \in Seq(Nat)
      BY <1>1, TailUp, BoundsAssumption DEF Attach
    <3>2. QED
      BY <3>1
  <2>2. QED
    BY <1>2, <1>3, <1>5, <2>1, UnreadIs, SMTT(30)
<1>7. Len(handled') + Len(up') + Len(frames') = fed' + Unread'
  BY <1>1, <1>2, <1>3, <1>4, <1>5, UnreadIs
<1>8. QED
  BY <1>1, <1>5, <1>6, <1>7 DEF Numbered

LEMMA WritesNumbered == Types /\ InputInv /\ (Resizes \/ CWrites) => Numbered'
<1> SUFFICES ASSUME Types, InputInv, Resizes \/ CWrites PROVE Numbered'
  OBVIOUS
<1> USE DEF Types, InputInv
<1>1. UNCHANGED <<handled, daemon>>
  BY DEF Resizes, CWrites, CWriterStep, MainStep
<1>2. /\ Len(frames) \in Nat /\ fed \in Nat /\ Len(handled) \in Nat /\ Len(up) \in Nat
  BY BoundsAssumption DEF UpTypes
<1>3. CASE Resizes
  <2>1. fed = 0 /\ frames = <<>> /\ frames' = frames /\ fed' = 1
    BY <1>3 DEF Resizes, Ending
  <2>2. CASE ~daemon
    BY <1>1, <1>3, <2>1, <2>2 DEF Numbered, Resizes, Unread
  <2>3. CASE daemon
    <3>1. up' = Append(up, 1) /\ 1 \in 1..MaxInputs
      BY <1>3, <2>3, BoundsAssumption DEF Resizes
    <3>2. /\ Unread' = Unread /\ Len(up') = Len(up) + 1
          /\ DOMAIN up' = DOMAIN up \cup {Len(up) + 1} /\ up'[Len(up) + 1] = 1
          /\ \A i \in DOMAIN up : up'[i] = up[i]
      BY <3>1, UpGrows
    <3>3. Len(handled) + Len(up) = Unread
      BY <1>2, <2>1, <2>3, UnreadIs DEF Numbered
    <3>4. \A i \in DOMAIN up' : up'[i] + Unread' = Len(handled') + i
      BY <1>1, <1>2, <3>2, <3>3, UnreadIs DEF Numbered
    <3>5. QED
      BY <1>1, <1>2, <2>1, <3>2, <3>3, <3>4, UnreadIs DEF Numbered
  <2>4. QED
    BY <2>2, <2>3
<1>4. CASE CWrites
  <2> DEFINE n == Head(frames)
  <2>1. /\ daemon /\ frames # <<>> /\ up' = Append(up, n) /\ frames' = Tail(frames) /\ fed' = fed
    BY <1>4 DEF CWrites, CWriterStep
  <2>2. /\ n = frames[1] /\ n \in 1..MaxInputs /\ Len(frames') = Len(frames) - 1
        /\ Len(frames) \in Nat \ {0} /\ DOMAIN frames' = 1..Len(frames) - 1
        /\ DOMAIN frames = 1..Len(frames) /\ \A i \in DOMAIN frames' : frames'[i] = frames[i + 1]
    BY <2>1, TailIs DEF UpTypes
  <2> HIDE DEF n
  <2>3. n + Len(frames) = fed + 1 /\ n \in Nat
    BY <2>2, BoundsAssumption DEF Numbered
  <2>4. /\ Unread' = Unread /\ Len(up') = Len(up) + 1
        /\ DOMAIN up' = DOMAIN up \cup {Len(up) + 1} /\ up'[Len(up) + 1] = n
        /\ \A i \in DOMAIN up : up'[i] = up[i]
    BY <2>1, <2>2, UpGrows
  <2>5. Len(handled) + Len(up) + Len(frames) = fed + Unread
    BY <2>1 DEF Numbered
  <2>6. n + Unread = Len(handled) + Len(up) + 1
    BY <1>2, <2>3, <2>5, UnreadIs
  <2>7. \A i \in DOMAIN up' : up'[i] + Unread' = Len(handled') + i
    BY <1>1, <1>2, <2>4, <2>6, UnreadIs DEF Numbered
  <2>8. \A i \in DOMAIN frames' : frames'[i] + Len(frames') = fed' + i
    <3> TAKE i \in DOMAIN frames'
    <3>1. frames'[i] = frames[i + 1] /\ i \in Nat /\ i + 1 \in DOMAIN frames
      BY <2>2
    <3>2. frames[i + 1] \in Nat
      <4>1. frames[i + 1] \in 1..MaxInputs
        BY <3>1, ElementIs DEF UpTypes
      <4>2. QED
        BY <4>1, BoundsAssumption
    <3>3. frames[i + 1] + Len(frames) = fed + (i + 1)
      BY <3>1 DEF Numbered
    <3>4. /\ Len(frames') = Len(frames) - 1 /\ Len(frames) \in Nat \ {0}
          /\ fed' = fed /\ fed \in Nat
      BY <1>2, <2>1, <2>2
    <3>5. QED
      BY <3>1, <3>2, <3>3, <3>4, SMTT(30)
  <2>9. Len(handled') + Len(up') + Len(frames') = fed' + Unread'
    <3>1. Len(handled') = Len(handled)
      BY <1>1
    <3>2. QED
      BY <1>2, <2>1, <2>2, <2>4, <2>5, <3>1, UnreadIs, SMTT(30)
  <2>10. QED
    BY <1>1, <2>7, <2>8, <2>9 DEF Numbered
<1>5. QED
  BY <1>3, <1>4

LEMMA FeedsNumbered == Types /\ InputInv /\ Feeds => Numbered'
<1> SUFFICES ASSUME Types, InputInv, Feeds PROVE Numbered'
  OBVIOUS
<1> USE DEF Types, InputInv
<1>1. /\ UNCHANGED <<handled, up, daemon>> /\ fed' = fed + 1 /\ fed + 1 \in 1..MaxInputs
      /\ frames' = Append(frames, fed + 1) /\ fed \in Nat
  BY BoundsAssumption DEF Feeds, FeederStep, MainStep, UpTypes
<1>2. /\ DOMAIN frames = 1..Len(frames) /\ DOMAIN frames' = 1..Len(frames) + 1
      /\ Len(frames') = Len(frames) + 1 /\ Len(frames) \in Nat
      /\ frames'[Len(frames) + 1] = fed + 1 /\ \A i \in DOMAIN frames : frames'[i] = frames[i]
  BY <1>1, AppendIs DEF UpTypes
<1>3. \A i \in DOMAIN frames : frames[i] \in Nat /\ frames[i] + Len(frames) = fed + i
  BY BoundsAssumption DEF Numbered, UpTypes
<1>4. \A i \in DOMAIN frames' : frames'[i] + Len(frames') = fed' + i
  <2> TAKE i \in DOMAIN frames'
  <2>1. CASE i \in DOMAIN frames
    BY <1>1, <1>2, <1>3, <2>1
  <2>2. CASE i = Len(frames) + 1
    BY <1>1, <1>2, <2>2
  <2>3. QED
    BY <1>2, <2>1, <2>2
<1>5. Len(handled) \in Nat /\ Len(up) \in Nat
  BY DEF UpTypes
<1>6. Unread' = Unread
  BY <1>1 DEF Unread
<1>7. QED
  BY <1>1, <1>2, <1>4, <1>5, <1>6, UnreadIs, SMTT(30) DEF Numbered

LEMMA NumberedKept == Types /\ InputInv /\ [Next]_vars => Numbered'
<1> SUFFICES ASSUME Types, InputInv, [Next]_vars PROVE Numbered'
  OBVIOUS
<1>1. CASE UNCHANGED <<handled, up, frames, fed>> /\ (daemon' => daemon)
  BY <1>1 DEF InputInv, Numbered, Unread
<1>2. CASE CWriteBreaks
  <2>1. frames' = <<>> /\ UNCHANGED <<handled, up>> /\ ~daemon'
    BY <1>2 DEF CWriteBreaks, CWriterStep, MainStep
  <2>2. Unread' = Unread
    BY <2>1 DEF Unread
  <2>3. QED
    BY <2>1, <2>2 DEF InputInv, Numbered
<1>3. CASE Handler
  <2>1. ReadsInput \/ ReadsAttach \/ UNCHANGED <<handled, up, frames, fed, daemon>>
    BY <1>3 DEF Handler, Answers, Serves, SendsHistory, Subscribes, SubscribesFrom, Replies, EndOfStream,
       HandlerStep
  <2>2. QED
    BY <1>1, <2>1, ReadsNumbered
<1>4. CASE Main
  <2>1. Resizes \/ UNCHANGED <<handled, up, frames, fed, daemon>>
    BY <1>4 DEF Main, Collects, OverlooksExit, Attached, Refused, Asked, AttachFails,
       TearsDown, TearsDownTo, Returns, LeavesWhen, MainStep
  <2>2. QED
    BY <1>1, <2>1, WritesNumbered
<1>5. CASE Stdin \/ FeederStops \/ CWriter
  <2>1. \/ Feeds \/ CWrites \/ CWriteBreaks
        \/ UNCHANGED <<handled, up, frames, fed, daemon>>
    BY <1>5 DEF Stdin, Detaches, EndOfInput, FeederStops, CWriter, FeederStep, MainStep
  <2>2. QED
    BY <1>1, <1>2, <2>1, FeedsNumbered, WritesNumbered
<1>6. CASE Emits \/ Killed \/ SendersGo \/ DaemonDies \/ Forwarder \/ DWriter \/ Reader \/ UNCHANGED vars
  BY <1>1, <1>6
     DEF Emits, Killed, SendersGo, DaemonDies, Forwarder, Forwards, Lags, LagsTo, ForwardsExit, ClosesWith, ForwarderEnds,
         ForwarderStep, DWriter, Writes, WriteBreaks, DWriterStep, Reader, Reads, ReadsExit,
         ReadsEnd, ReaderStops, ReaderStep, MainStep, vars
<1>7. QED
  BY <1>3, <1>4, <1>5, <1>6 DEF Next

(* How an attachment and its connection end.                               *)
LEMMA EndingKept == Types /\ InputInv /\ [Next]_vars => Ending'
<1> SUFFICES ASSUME Types, InputInv, [Next]_vars PROVE Ending'
  OBVIOUS
<1> USE DEF Types, InputInv, Ending, Running, Closed
<1>1. CASE Emits \/ Killed \/ SendersGo \/ DaemonDies \/ UNCHANGED vars
  BY <1>1 DEF Emits, Killed, SendersGo, DaemonDies, vars
<1>2. CASE Handler
  <2>1. CASE ReadsInput \/ ReadsAttach
    BY <2>1 DEF ReadsInput, ReadsAttach, HandlerStep
  <2>2. CASE SendsHistory \/ Subscribes
    BY <2>2 DEF SendsHistory, Subscribes, SubscribesFrom, HandlerStep, QueueFails, Queues
  <2>3. CASE Replies \/ EndOfStream
    BY <2>3 DEF Replies, EndOfStream, HandlerStep, QueueFails, Queues, Ends
  <2>4. CASE Serves
    BY <2>4 DEF Serves, HandlerStep
  <2>5. QED
    BY <1>2, <2>1, <2>2, <2>3, <2>4 DEF Handler, Answers
<1>3. CASE Forwarder \/ DWriter
  BY <1>3 DEF Forwarder, Forwards, Lags, LagsTo, ForwardsExit, ClosesWith, ForwarderEnds, ForwarderStep,
     DWriter, Writes, WriteBreaks, DWriterStep, Queues
<1>4. CASE Main
  <2>1. CASE Collects \/ OverlooksExit \/ Attached \/ Refused \/ AttachFails
    BY <2>1 DEF Collects, OverlooksExit, Attached, Refused, Asked, AttachFails, GoesLive,
       MainStep
  <2>2. CASE Resizes \/ TearsDown \/ Returns
    BY <2>2 DEF Resizes, TearsDown, TearsDownTo, Aborted, Returns, LeavesWhen, GoesLive,
       MainStep
  <2>3. QED
    BY <1>4, <2>1, <2>2 DEF Main
<1>5. CASE Reader
  BY <1>5 DEF Reader, Reads, ReadsExit, ReadsEnd, ReaderStops, ReaderStep, MainStep
<1>6. CASE Stdin \/ FeederStops \/ CWriter
  BY <1>6 DEF Stdin, Feeds, Detaches, EndOfInput, FeederStops, FeederStep, CWriter, CWrites,
     CWriteBreaks, CWriterStep, MainStep
<1>7. QED
  BY <1>1, <1>2, <1>3, <1>4, <1>5, <1>6 DEF Next

LEMMA InputsServed == Types /\ InputInv => InputsInOrder
<1> SUFFICES ASSUME Types, InputInv PROVE InputsInOrder
  OBVIOUS
<1>1. Len(handled) \in Nat /\ handled = [i \in 1..Len(handled) |-> i]
  BY DEF InputInv, Numbered, Types, UpTypes
<1>2. handled = Chunks(0, Len(handled))
  BY <1>1 DEF Chunks
<1>3. ASSUME main = "returned", hpc = "ended", dwriter # "broken", daemon
      PROVE  ~ (Len(handled) < fed)
  <2>1. up = <<>> /\ frames = <<>>
    BY <1>3 DEF InputInv, Ending
  <2>2. Unread = 0 /\ Len(up) = 0 /\ Len(frames) = 0
    BY <2>1 DEF Unread
  <2>3. Len(handled) + Len(up) + Len(frames) = fed + Unread
    BY <1>3 DEF InputInv, Numbered
  <2>4. fed \in Nat
    BY BoundsAssumption DEF Types, UpTypes
  <2>5. QED
    BY <1>1, <2>2, <2>3, <2>4
<1>4. QED
  BY <1>2, <1>3 DEF InputsInOrder

-----------------------------------------------------------------------------
(* The output: what steps have in common.                                  *)
LEMMA BoundIs ==
  Types => Bound \in 0..MaxChunks /\ Bound \in Nat /\ position \in 0..MaxChunks
           /\ seam \in 0..MaxChunks /\ emitted \in 0..MaxChunks /\ MaxChunks \in Nat
<1> SUFFICES ASSUME Types
             PROVE  Bound \in 0..MaxChunks /\ Bound \in Nat /\ position \in 0..MaxChunks
                    /\ seam \in 0..MaxChunks /\ emitted \in 0..MaxChunks /\ MaxChunks \in Nat
  OBVIOUS
<1>1. /\ position \in 0..MaxChunks /\ seam \in 0..MaxChunks /\ emitted \in 0..MaxChunks
      /\ MaxChunks \in Nat
  BY BoundsAssumption DEF Types, SessionTypes, HandlerTypes
<1>2. QED
  BY <1>1 DEF Bound

LEMMA GotIs == Types => Got \in Seq(1..MaxChunks) /\ Got \in Seq(Nat) /\ Got \o <<>> = Got
<1> SUFFICES ASSUME Types
             PROVE  Got \in Seq(1..MaxChunks) /\ Got \in Seq(Nat) /\ Got \o <<>> = Got
  OBVIOUS
<1>1. Got \in Seq(1..MaxChunks)
  BY DEF Types, ClientTypes, Got
<1>2. QED
  BY <1>1, BoundsAssumption

LEMMA OrderStays ==
  ASSUME NEW s \in Seq(Nat), NEW b \in Nat, NEW b2 \in Nat, NEW r \in Nat, NEW r2 \in Nat,
         InOrder(s, b, r), b <= b2 \/ b <= r2, r <= r2 \/ r <= b2
  PROVE  InOrder(s, b2, r2)
<1>1. \A i \in DOMAIN s : s[i] \in Nat
  OBVIOUS
<1>2. QED
  BY <1>1 DEF InOrder

(* Nothing that the output depends on changes.                             *)
LEMMA OutputSame ==
  ASSUME OutputInv,
         UNCHANGED <<queue, dwriter, down, hpc, reply, forwarder, position, missed, seam,
                     emitted, history, shown>>,
         Unread' = Unread,
         main' = main \/ (main \notin Waiting /\ main' \notin Waiting),
         reader' = reader \/ main \notin Waiting
  PROVE  OutputInv'
<1> USE DEF OutputInv
<1>1. Bound' = Bound /\ Born' = Born /\ (main' \in Waiting <=> main \in Waiting)
      /\ Got' = Got
  BY DEF Bound, Born, Got, Waiting
<1>2. Early' = Early
  BY <1>1 DEF Early
<1>3. QueuesOK' /\ Serving' /\ Beginning'
  BY <1>1, <1>2 DEF QueuesOK, Serving, Beginning, Overtaken
<1>4. Stream'
  BY <1>1 DEF Stream, Adjacent
<1>5. QED
  BY <1>3, <1>4

LEMMA QueuesStay ==
  ASSUME Types, QueuesOK, UNCHANGED <<down, queue>>, Bound' \in Nat, Bound <= Bound',
         Born => Born', Early' = Early
  PROVE  QueuesOK'
<1>1. down \in Seq(Frames) /\ queue \in Seq(Frames) /\ Bound \in Nat
  BY BoundIs DEF Types, DownTypes
<1>2. QueueOK(down, Bound', Born', Early)
  BY <1>1, QueueGrows DEF QueuesOK
<1>3. QueueOK(queue, Bound', Born', Early /\ down = <<>>)
  BY <1>1, QueueGrows DEF QueuesOK
<1>4. QED
  BY <1>2, <1>3 DEF QueuesOK

(* The daemon puts a frame into its channel.                               *)
LEMMA QueuesPut ==
  ASSUME Types, QueuesOK, NEW frame \in Frames, NEW n, Queues(frame, n), UNCHANGED down,
         FrameOK(frame, Bound, Born), Bound' = Bound, Born' = Born, Early' = Early,
         frame.kind = "history" => queue = <<>> /\ down = <<>> /\ Early,
         \A k, l \in 1..MaxChunks : frame = Output(k) /\ Carries(queue, l) => l < k
  PROVE  QueuesOK'
<1>1. queue \in Seq(Frames) /\ queue' = Append(queue, frame)
  BY DEF Types, DownTypes, Queues
<1>2. QueueOK(queue', Bound, Born, Early /\ down = <<>>)
  BY <1>1, QueueAppend DEF QueuesOK
<1>3. QED
  BY <1>2 DEF QueuesOK

(* The client takes one from the socket.                                   *)
LEMMA QueuesTake ==
  ASSUME Types, QueuesOK, down # <<>>, down' = Tail(down), UNCHANGED queue,
         Bound' = Bound, Born' = Born
  PROVE  QueuesOK'
<1>1. down \in Seq(Frames) /\ queue \in Seq(Frames) /\ Bound \in Nat
  BY BoundIs DEF Types, DownTypes
<1>2. QueueOK(down', Bound, Born, Early')
  BY <1>1, QueueTail DEF QueuesOK
<1>3. QueueOK(queue, Bound, Born, Early' /\ down' = <<>>)
  BY DEF QueuesOK, QueueOK
<1>4. QED
  BY <1>2, <1>3 DEF QueuesOK

LEMMA ServingStays ==
  ASSUME Types, Serving, UNCHANGED <<hpc, reply, up>>, Bound' \in Nat, Bound <= Bound',
         Born' = Born,
         hpc = "history" \/ Unread = 1 => UNCHANGED <<queue, down>> /\ Early' = Early
  PROVE  Serving'
<1>1. Unread' = Unread
  BY DEF Unread
<1>2. Bound \in Nat
  BY BoundIs
<1>3. FrameOK(reply, Bound, Born) => FrameOK(reply, Bound', Born')
  BY <1>2, FrameGrows
<1>4. QED
  BY <1>1, <1>3 DEF Serving

(* A frame that is not output goes into the channel.                       *)
LEMMA StreamPut ==
  ASSUME Types, Stream, NEW frame \in Frames, frame.kind # "output", NEW n, Queues(frame, n),
         UNCHANGED <<down, position, missed, seam, main, history, shown>>, Bound' = Bound
  PROVE  Stream'
<1>1. queue \in Seq(Frames) /\ queue' = Append(queue, frame) /\ dwriter' = dwriter
  BY DEF Types, DownTypes, Queues
<1>2. Got' = Got
  BY DEF Got
<1>3. ASSUME NEW q, Spans(queue, q, position, missed)
      PROVE  Spans(queue', q, position, missed)
  BY <1>1, <1>3, SpansOther
<1>4. QED
  BY <1>1, <1>2, <1>3 DEF Stream, Adjacent

(* The channel, if it goes at all, goes for good.                          *)
LEMMA StreamStays ==
  ASSUME Types, Stream, UNCHANGED <<down, position, missed, seam, main, history, shown>>,
         Bound' \in Nat, Bound <= Bound', queue' = queue \/ dwriter' # "up",
         dwriter' = "up" => dwriter = "up"
  PROVE  Stream'
<1>1. Got' = Got /\ Bound \in Nat /\ Got \in Seq(Nat)
  BY BoundIs, GotIs DEF Got
<1>2. PICK r \in seam..MaxChunks, q \in seam..MaxChunks : Adjacent(r, q)
  BY DEF Stream
<1>3. r \in Nat
  BY BoundIs
<1>4. InOrder(Got, Bound', r)
  BY <1>1, <1>2, <1>3, OrderStays DEF Adjacent
<1>5. Adjacent(r, q)'
  BY <1>1, <1>2, <1>4 DEF Adjacent
<1>6. QED
  BY <1>5 DEF Stream

-----------------------------------------------------------------------------
(* The output: the session, the handler and the forwarder.                 *)
LEMMA EmitsOutput == IInv /\ Emits => OutputInv'
<1> SUFFICES ASSUME IInv, Emits PROVE OutputInv'
  OBVIOUS
<1> USE DEF IInv, OutputInv
<1>1. /\ UNCHANGED <<queue, dwriter, down, hpc, reply, forwarder, position, missed, seam,
                     main, history, shown, reader, up>>
      /\ emitted' = emitted + 1 /\ Born' = Born /\ Early' = Early
  BY DEF Emits, Born, Early
<1>2. Bound' \in Nat /\ Bound <= Bound'
  BY <1>1, BoundIs DEF Bound
<1>3. Beginning'
  <2>1. \A n \in missed : Overtaken(n)'
    <3>1. \A n \in missed : n \in Nat /\ Overtaken(n)
      BY DEF Beginning, Types, HandlerTypes
    <3>2. emitted \in Nat /\ RingCap \in Nat
      BY BoundIs, BoundsAssumption
    <3>3. QED
      BY <1>1, <3>1, <3>2 DEF Overtaken
  <2>2. position \in Nat /\ emitted \in Nat /\ position <= emitted
    BY BoundIs DEF Beginning
  <2>3. QED
    BY <1>1, <2>1, <2>2 DEF Beginning
<1>4. QED
  BY <1>1, <1>2, <1>3, QueuesStay, ServingStays, StreamStays

LEMMA ServesOutput == IInv /\ Serves => OutputInv'
<1> SUFFICES ASSUME IInv, Serves PROVE OutputInv'
  OBVIOUS
<1> USE DEF IInv, OutputInv
<1>1. /\ UNCHANGED <<queue, dwriter, down, reply, forwarder, position, missed, seam, emitted,
                     main, history, shown, reader, up>>
      /\ hpc = "serving" /\ hpc' = "reply"
  BY DEF Serves, HandlerStep
<1>2. /\ Bound' = Bound /\ Born' = Born /\ Early' = Early /\ Unread' = Unread /\ Bound \in Nat
  BY <1>1, BoundIs DEF Bound, Born, Early, Unread
<1>3. Serving' /\ Beginning'
  BY <1>1, <1>2 DEF Serving, Beginning, Overtaken
<1>4. QED
  BY <1>1, <1>2, <1>3, QueuesStay, StreamStays

LEMMA ReadsOutput == IInv /\ (ReadsInput \/ ReadsAttach) => OutputInv'
<1> SUFFICES ASSUME IInv, ReadsInput \/ ReadsAttach PROVE OutputInv'
  OBVIOUS
<1> USE DEF IInv, OutputInv
<1>1. /\ UNCHANGED <<queue, dwriter, down, forwarder, position, missed, seam, emitted, main,
                     history, shown, reader>>
      /\ up # <<>> /\ up' = Tail(up) /\ hpc = "reading"
  BY DEF ReadsInput, ReadsAttach, HandlerStep
<1>2. Bound' = Bound /\ Born' = Born /\ Early' = Early /\ Bound \in Nat
  BY <1>1, BoundIs DEF Bound, Born, Early
<1>3. Unread' = 0
  BY <1>1, UpAfter DEF InputInv, Types
<1>4. Serving'
  <2>1. CASE ReadsInput
    <3>1. hpc' = "serving" /\ reply' = Frame("reply", <<>>)
      BY <2>1 DEF ReadsInput
    <3>2. FrameOK(reply', Bound', Born')
      BY <3>1 DEF FrameOK, Frame
    <3>3. QED
      BY <1>3, <3>1, <3>2 DEF Serving, Frame
  <2>2. CASE ReadsAttach
    <3>1. Unread = 1
      BY <1>1, <2>2, UpIs DEF ReadsAttach, InputInv, Types
    <3>2. /\ queue' = <<>> /\ down' = <<>> /\ Early' /\ ~Born'
      BY <1>1, <1>2, <3>1 DEF Serving
    <3>3. CASE hpc' = "subscribe"
      BY <1>2, <1>3, <3>2, <3>3 DEF Serving
    <3>4. CASE hpc' # "subscribe"
      <4>1. PICK data \in Selections(emitted) :
              hpc' = "history" /\ reply' = Frame("history", data)
        BY <2>2, <3>4 DEF ReadsAttach
      <4>2. Bound' = emitted /\ emitted \in 0..MaxChunks
        BY <1>1, <1>2, <3>2, BoundIs DEF Bound
      <4>3. FrameOK(reply', Bound', Born')
        BY <4>1, <4>2, HistoryIsFrame
      <4>4. QED
        BY <1>3, <3>2, <4>1, <4>3 DEF Serving, Frame
    <3>5. QED
      BY <3>3, <3>4
  <2>3. QED
    BY <2>1, <2>2
<1>5. Beginning'
  BY <1>1, <1>2 DEF Beginning, Overtaken
<1>6. QED
  BY <1>1, <1>2, <1>4, <1>5, QueuesStay, StreamStays

LEMMA HistoryOutput == IInv /\ SendsHistory => OutputInv'
<1> SUFFICES ASSUME IInv, SendsHistory PROVE OutputInv'
  OBVIOUS
<1> USE DEF IInv, OutputInv
<1>1. /\ UNCHANGED <<down, forwarder, position, missed, seam, emitted, main, history, shown,
                     reader, up>>
      /\ hpc = "history" /\ hpc' = "subscribe" /\ reply' = NoFrame
      /\ Queues(reply, QueueCap + 1) \/ QueueFails
  BY DEF SendsHistory, HandlerStep
<1>2. /\ Bound' = Bound /\ Born' = Born /\ Early' = Early /\ Unread' = Unread /\ Bound \in Nat
  BY <1>1, BoundIs DEF Bound, Born, Early, Unread
<1>3. /\ reply \in Frames /\ reply.kind = "history" /\ FrameOK(reply, Bound, Born)
      /\ queue = <<>> /\ down = <<>> /\ Early /\ Unread # 1 /\ ~Born
  BY <1>1 DEF Serving, Types, HandlerTypes
<1>4. \A k \in 1..MaxChunks : reply # Output(k)
  BY <1>3 DEF Output, Frame
<1>5. Serving' /\ Beginning'
  BY <1>1, <1>2, <1>3 DEF Serving, Beginning, Overtaken
<1>6. CASE Queues(reply, QueueCap + 1)
  <2>1. QueuesOK'
    BY <1>1, <1>2, <1>3, <1>4, <1>6, QueuesPut
  <2>2. Stream'
    BY <1>1, <1>2, <1>3, <1>6, StreamPut
  <2>3. QED
    BY <1>5, <2>1, <2>2
<1>7. CASE QueueFails
  BY <1>1, <1>2, <1>5, <1>7, QueuesStay, StreamStays DEF QueueFails
<1>8. QED
  BY <1>1, <1>6, <1>7

LEMMA SubscribesOutput == IInv /\ Subscribes => OutputInv'
<1> SUFFICES ASSUME IInv, Subscribes PROVE OutputInv'
  OBVIOUS
<1> USE DEF IInv, OutputInv
<1>1. /\ UNCHANGED <<queue, dwriter, down, missed, emitted, main, history, shown, reader,
                     up>>
      /\ hpc = "subscribe" /\ hpc' = "reply"
      /\ \/ /\ forwarder' = "live" /\ position' = emitted /\ seam' = emitted
            /\ reply' = Frame("attached", <<>>)
         \/ /\ UNCHANGED <<forwarder, position, seam>> /\ reply' = Frame("refused", <<>>)
  BY DEF Subscribes, SubscribesFrom, HandlerStep
<1>2. ~Born /\ Unread # 1 /\ Unread' = Unread /\ Early' = Early /\ Bound = emitted
      /\ position = 0 /\ seam = 0 /\ missed = {} /\ main \in Waiting
  BY <1>1 DEF Serving, Beginning, Early, Unread, Bound
<1>3. Bound' = emitted /\ Bound' = Bound /\ emitted \in Nat
  BY <1>1, <1>2, BoundIs DEF Bound, Born
<1>4. Serving'
  <2>1. FrameOK(reply', Bound', Born')
    BY <1>1 DEF FrameOK, Frame, Born
  <2>2. QED
    BY <1>1, <1>2, <2>1 DEF Serving, Frame
<1>5. Beginning'
  BY <1>1, <1>2, <1>3 DEF Beginning, Born
<1>6. QueuesOK'
  BY <1>1, <1>2, <1>3, QueuesStay
<1>7. Stream'
  <2>1. CASE UNCHANGED <<forwarder, position, seam>>
    BY <1>1, <1>3, <2>1, StreamStays
  <2>2. CASE position' = emitted /\ seam' = emitted
    <3>1. PICK r \in seam..MaxChunks, q \in seam..MaxChunks : Adjacent(r, q)
      BY DEF Stream
    <3>2. r = 0 /\ q = 0 /\ emitted \in 0..MaxChunks /\ emitted \in Nat
      BY <1>2, <3>1, BoundIs DEF Adjacent
    <3>3. /\ Spans(down, 0, 0, missed) /\ InOrder(Got, emitted, 0)
          /\ dwriter = "up" => Spans(queue, 0, 0, missed)
      BY <1>2, <3>1, <3>2 DEF Adjacent
    <3>4. InOrder(Got, emitted, emitted)
      BY <3>2, <3>3, GotIs, OrderStays
    <3>5. \A n \in 1..MaxChunks : n \in Nat /\ ~(0 < n /\ n <= 0)
                                  /\ ~(emitted < n /\ n <= emitted)
      BY <3>2, BoundsAssumption
    <3>6. /\ Spans(down, emitted, emitted, missed)
          /\ dwriter = "up" => Spans(queue, emitted, emitted, missed)
      BY <3>3, <3>5 DEF Spans
    <3>7. Got' = Got
      BY <1>1 DEF Got
    <3>8. Adjacent(emitted, emitted)'
      <4>1. InOrder(Got', Bound', emitted)
        BY <1>3, <3>4, <3>7
      <4>2. \A n \in 1..MaxChunks :
              seam' < n /\ n <= emitted => (Holds(Got', n) <=> n \notin missed')
        BY <2>2, <3>5
      <4>3. emitted <= emitted /\ emitted <= position'
        BY <2>2, <3>2
      <4>4. /\ Spans(down', emitted, emitted, missed')
            /\ dwriter' = "up" => Spans(queue', emitted, position', missed')
        BY <1>1, <2>2, <3>6
      <4>5. emitted' = emitted
        BY <1>1
      <4>6. QED
        BY <4>1, <4>2, <4>3, <4>4, <4>5 DEF Adjacent
    <3>9. emitted \in seam'..MaxChunks
      BY <2>2, <3>2, BoundsAssumption
    <3>10. QED
      BY <1>1, <3>8, <3>9 DEF Stream
  <2>3. QED
    BY <1>1, <2>1, <2>2
<1>8. QED
  BY <1>4, <1>5, <1>6, <1>7

LEMMA RepliesOutput == IInv /\ (Replies \/ EndOfStream) => OutputInv'
<1> SUFFICES ASSUME IInv, Replies \/ EndOfStream PROVE OutputInv'
  OBVIOUS
<1> USE DEF IInv, OutputInv
<1>1. /\ UNCHANGED <<down, position, missed, seam, emitted, main, history, shown, reader, up>>
      /\ hpc' \in {"reading", "ended"} /\ (hpc' = "ended" \/ hpc # "reading")
      /\ forwarder' = forwarder \/ (forwarder = "live" /\ forwarder' = "doomed")
      /\ (queue' = queue /\ dwriter' = dwriter) \/ (hpc = "reply" /\ Queues(reply, QueueCap + 1))
  BY DEF Replies, EndOfStream, HandlerStep, Ends, QueueFails
<1>2. /\ Bound' = Bound /\ Born' = Born /\ Early' = Early /\ Unread' = Unread /\ Bound \in Nat
  BY <1>1, BoundIs DEF Bound, Born, Early, Unread
<1>3. Unread # 1
  <2>1. CASE Replies
    BY <2>1 DEF Replies, Serving
  <2>2. CASE EndOfStream
    BY <2>2 DEF EndOfStream, Unread
  <2>3. QED
    BY <2>1, <2>2
<1>4. Serving' /\ Beginning'
  BY <1>1, <1>2, <1>3 DEF Serving, Beginning, Overtaken
<1>5. CASE queue' = queue /\ dwriter' = dwriter
  BY <1>1, <1>2, <1>4, <1>5, QueuesStay, StreamStays
<1>6. CASE hpc = "reply" /\ Queues(reply, QueueCap + 1)
  <2>1. /\ reply \in Frames /\ FrameOK(reply, Bound, Born)
        /\ reply.kind \notin {"history", "output"}
    BY <1>6 DEF Serving, Types, HandlerTypes
  <2>2. \A k \in 1..MaxChunks : reply # Output(k)
    BY <2>1 DEF Output, Frame
  <2>3. QueuesOK'
    BY <1>1, <1>2, <1>6, <2>1, <2>2, QueuesPut
  <2>4. Stream'
    BY <1>1, <1>2, <1>6, <2>1, StreamPut
  <2>5. QED
    BY <1>4, <2>3, <2>4
<1>7. QED
  BY <1>1, <1>5, <1>6

(* The forwarder and the daemon's writer.                                  *)
LEMMA ForwardsOutput == IInv /\ Forwards => OutputInv'
<1> SUFFICES ASSUME IInv, Forwards PROVE OutputInv'
  OBVIOUS
<1> USE DEF IInv, OutputInv
<1> DEFINE n == position + 1
<1>1. /\ UNCHANGED <<down, hpc, reply, forwarder, missed, seam, emitted, main, history, shown,
                     reader, up>>
      /\ Born /\ position < emitted /\ position' = n
      /\ Queues(Output(n), QueueCap + 2)
  BY DEF Forwards, ForwarderStep, Running, Born, Output
<1>2. /\ Bound' = Bound /\ Born' = Born /\ Early' = Early /\ Bound \in Nat
  BY <1>1, BoundIs DEF Bound, Born, Early
<1>3. /\ n \in 1..MaxChunks /\ n \in Nat /\ position \in Nat /\ seam \in Nat /\ emitted \in Nat
      /\ position < n /\ n <= emitted /\ seam <= position
  BY <1>1, BoundIs DEF Beginning
<1>4. \A k \in missed : k \in Nat /\ k <= position
  BY DEF Beginning, Types, HandlerTypes
<1> HIDE DEF n
<1>5. /\ Output(n) \in Frames /\ Output(n).kind = "output"
      /\ \A l \in 1..MaxChunks : Output(n) = Output(l) => n = l
  BY <1>3, OutputIs
<1>6. FrameOK(Output(n), Bound, Born)
  BY <1>1, <1>3, <1>5 DEF FrameOK
<1>7. hpc # "history" /\ Unread # 1
  BY <1>1 DEF Serving
<1>8. Serving' /\ Beginning'
  <2>1. Serving'
    BY <1>1, <1>2, <1>7, ServingStays
  <2>2. \A k \in missed : k <= n
    BY <1>3, <1>4
  <2>3. Beginning'
    BY <1>1, <1>2, <1>3, <2>2 DEF Beginning, Overtaken
  <2>4. QED
    BY <2>1, <2>3
<1>9. dwriter = "up" /\ dwriter' = "up" /\ queue' = Append(queue, Output(n))
      /\ queue \in Seq(Frames)
  BY <1>1 DEF Queues, Types, DownTypes
<1>10. PICK r \in seam..MaxChunks, q \in seam..MaxChunks : Adjacent(r, q)
  BY DEF Stream
<1>11. q \in Nat /\ q <= position /\ q <= n /\ Spans(queue, q, position, missed)
  BY <1>3, <1>9, <1>10, BoundIs DEF Adjacent
<1>12. \A k \in 1..MaxChunks : k \in Nat /\ (k <= position => k < n)
  BY <1>3, BoundsAssumption
<1>13. \A k, l \in 1..MaxChunks : Output(n) = Output(k) /\ Carries(queue, l) => l < k
  BY <1>5, <1>11, <1>12 DEF Spans
<1>14. QueuesOK'
  BY <1>1, <1>2, <1>5, <1>6, <1>13, QueuesPut
<1>15. n \notin missed /\ \A k \in 1..MaxChunks : ~(position < k /\ k < n)
  <2>1. n \notin missed
    BY <1>3, <1>4
  <2>2. QED
    BY <1>3, <2>1, BoundsAssumption DEF n
<1>16. Spans(queue', q, n, missed)
  BY <1>3, <1>9, <1>11, <1>15, SpansNext
<1>17. Adjacent(r, q)'
  BY <1>1, <1>2, <1>10, <1>11, <1>16 DEF Adjacent, Got
<1>18. Stream'
  BY <1>1, <1>17 DEF Stream
<1>19. QED
  BY <1>8, <1>14, <1>18

(* What is missed was still to be queued.                                  *)
LEMMA LagsOutput == IInv /\ Lags => OutputInv'
<1> SUFFICES ASSUME IInv, Lags PROVE OutputInv'
  OBVIOUS
<1> USE DEF IInv, OutputInv
<1> DEFINE new == position + 1..position'
<1>1. /\ UNCHANGED <<queue, dwriter, down, hpc, reply, forwarder, seam, emitted, main, history,
                     shown, reader, up>>
      /\ Born
  BY DEF Lags, LagsTo, ForwarderStep, Running, Born
<1>2. /\ Bound' = Bound /\ Born' = Born /\ Early' = Early /\ Bound \in Nat /\ Got' = Got
  BY <1>1, BoundIs DEF Bound, Born, Early, Got
<1>3. /\ position < position' /\ position' <= emitted /\ position \in Nat /\ position' \in Nat
      /\ \A k \in new : k \in Nat /\ position < k /\ k <= position' /\ Overtaken(k)
      /\ missed' = missed \cup new
  BY LagIs
<1> HIDE DEF new
<1>4. Serving'
  <2>1. hpc # "history" /\ Unread # 1
    BY <1>1 DEF Serving
  <2>2. QED
    BY <1>1, <1>2, <2>1, ServingStays
<1>5. Beginning'
  <2>1. seam \in Nat /\ emitted \in Nat /\ seam <= position
    BY BoundIs DEF Beginning
  <2>2. \A k \in missed : k \in Nat /\ seam < k /\ k <= position /\ Overtaken(k)
    BY DEF Beginning, Types, HandlerTypes
  <2>3. \A k \in missed' : seam < k /\ k <= position' /\ Overtaken(k)
    BY <1>3, <2>1, <2>2
  <2>4. QED
    BY <1>1, <1>2, <1>3, <2>1, <2>3 DEF Beginning, Overtaken
<1>6. QueuesOK'
  BY <1>1, <1>2, QueuesStay
<1>7. PICK r \in seam..MaxChunks, q \in seam..MaxChunks : Adjacent(r, q)
  BY DEF Stream
<1>8. /\ r \in Nat /\ q \in Nat /\ r <= q /\ q <= position /\ queue \in Seq(Frames)
      /\ \A k \in 1..MaxChunks : k \in Nat
  BY <1>7, BoundIs DEF Adjacent, Types, DownTypes
<1>9. \A k \in 1..MaxChunks : k <= q => (k \in missed' <=> k \in missed)
  BY <1>3, <1>8
<1>10. Spans(down, r, q, missed')
  BY <1>7, <1>9 DEF Adjacent, Spans
<1>11. dwriter = "up" => Spans(queue, q, position', missed')
  BY <1>3, <1>7, <1>8, SpansLost DEF Adjacent, new
<1>12. \A k \in 1..MaxChunks : k <= r => k <= q
  BY <1>8
<1>13. \A k \in 1..MaxChunks : seam < k /\ k <= r => (Holds(Got, k) <=> k \notin missed')
  BY <1>7, <1>9, <1>12 DEF Adjacent
<1>14. q <= position'
  BY <1>3, <1>8
<1>15. Adjacent(r, q)'
  BY <1>1, <1>2, <1>7, <1>10, <1>11, <1>13, <1>14 DEF Adjacent
<1>16. Stream'
  BY <1>1, <1>15 DEF Stream
<1>17. QED
  BY <1>4, <1>5, <1>6, <1>16

LEMMA ExitOutput == IInv /\ (ForwardsExit \/ ForwarderEnds) => OutputInv'
<1> SUFFICES ASSUME IInv, ForwardsExit \/ ForwarderEnds PROVE OutputInv'
  OBVIOUS
<1> USE DEF IInv, OutputInv
<1> DEFINE frame == Frame("exited", <<>>)
<1>1. /\ UNCHANGED <<down, hpc, reply, position, missed, seam, emitted, main, history, shown,
                     reader, up>>
      /\ Born /\ Born'
      /\ (queue' = queue /\ dwriter' = dwriter) \/ Queues(frame, QueueCap + 2)
  BY DEF ForwardsExit, ClosesWith, ForwarderEnds, ForwarderStep, Running, Born
<1>2. Bound' = Bound /\ Born' = Born /\ Early' = Early /\ Bound \in Nat
  BY <1>1, BoundIs DEF Bound, Early
<1>3. hpc # "history" /\ Unread # 1
  BY <1>1 DEF Serving
<1>4. Serving' /\ Beginning'
  <2>1. Serving'
    BY <1>1, <1>2, <1>3, ServingStays
  <2>2. QED
    BY <1>1, <2>1 DEF Beginning, Overtaken
<1>5. CASE queue' = queue /\ dwriter' = dwriter
  BY <1>1, <1>2, <1>4, <1>5, QueuesStay, StreamStays
<1>6. CASE Queues(frame, QueueCap + 2)
  <2>1. /\ frame \in Frames /\ FrameOK(frame, Bound, Born)
        /\ frame.kind \notin {"history", "output"}
    BY <1>1, OtherFrames DEF FrameOK, Frame, Kinds
  <2>2. \A k \in 1..MaxChunks : frame # Output(k)
    BY DEF Output, Frame
  <2>3. QueuesOK'
    BY <1>1, <1>2, <1>6, <2>1, <2>2, QueuesPut
  <2>4. Stream'
    BY <1>1, <1>2, <1>6, <2>1, StreamPut
  <2>5. QED
    BY <1>4, <2>3, <2>4
<1>7. QED
  BY <1>1, <1>5, <1>6

LEMMA BreaksOutput == IInv /\ WriteBreaks => OutputInv'
<1> SUFFICES ASSUME IInv, WriteBreaks PROVE OutputInv'
  OBVIOUS
<1> USE DEF IInv, OutputInv
<1>1. /\ UNCHANGED <<down, hpc, reply, forwarder, position, missed, seam, emitted, main,
                     history, shown, reader, up>>
      /\ queue # <<>> /\ queue' = <<>> /\ dwriter' = "broken"
  BY DEF WriteBreaks, DWriterStep
<1>2. Bound' = Bound /\ Born' = Born /\ Early' = Early /\ Bound \in Nat
  BY <1>1, BoundIs DEF Bound, Born, Early
<1>3. Serving' /\ Beginning'
  <2>1. Serving'
    BY <1>1, <1>2, ServingStays DEF Serving
  <2>2. QED
    BY <1>1, <1>2, <2>1 DEF Beginning, Overtaken
<1>4. QueuesOK'
  <2>1. QueueOK(<<>>, Bound, Born, (Early /\ down = <<>>)')
    BY DEF QueueOK
  <2>2. QED
    BY <1>1, <1>2, <2>1 DEF QueuesOK
<1>5. Stream'
  BY <1>1, <1>2, StreamStays
<1>6. QED
  BY <1>3, <1>4, <1>5

(* A frame goes from the channel into the socket: its interval grows by    *)
(* what the other loses.                                                   *)
LEMMA WritesOutput == IInv /\ Writes => OutputInv'
<1> SUFFICES ASSUME IInv, Writes PROVE OutputInv'
  OBVIOUS
<1> USE DEF IInv, OutputInv
<1> DEFINE frame == Head(queue)
<1>1. /\ UNCHANGED <<dwriter, hpc, reply, forwarder, position, missed, seam, emitted, main,
                     history, shown, reader, up>>
      /\ queue # <<>> /\ queue' = Tail(queue) /\ down' = Append(down, frame)
      /\ dwriter = "up"
  BY DEF Writes, DWriterStep
<1>2. Bound' = Bound /\ Born' = Born /\ Early' = Early /\ Bound \in Nat
  BY <1>1, BoundIs DEF Bound, Born, Early
<1>3. queue \in Seq(Frames) /\ down \in Seq(Frames)
  BY DEF Types, DownTypes
<1>4. /\ frame \in Frames /\ FrameOK(frame, Bound, Born)
      /\ frame.kind = "history" => down = <<>> /\ Early
  BY <1>1, <1>3, QueueHead DEF QueuesOK
<1>5. Serving' /\ Beginning'
  <2>1. Serving'
    BY <1>1, <1>2, ServingStays DEF Serving
  <2>2. QED
    BY <1>1, <1>2, <2>1 DEF Beginning, Overtaken
<1>6. QueueOK(queue', Bound', Born', (Early /\ down = <<>>)')
  BY <1>1, <1>2, <1>3, QueueTail DEF QueuesOK
<1>7. SUFFICES QueueOK(down', Bound', Born', Early') /\ Stream'
  BY <1>5, <1>6 DEF QueuesOK
<1>8. CASE frame.kind # "output"
  <2>1. \A k \in 1..MaxChunks : frame # Output(k)
    BY <1>8 DEF Output, Frame
  <2>2. QueueOK(down', Bound', Born', Early')
    BY <1>1, <1>2, <1>3, <1>4, <2>1, QueueAppend DEF QueuesOK
  <2>3. ASSUME NEW r, NEW q, Spans(down, r, q, missed) PROVE Spans(down', r, q, missed)
    BY <1>1, <1>3, <1>4, <1>8, <2>3, SpansOther
  <2>4. ASSUME NEW q, Spans(queue, q, position, missed)
        PROVE  Spans(queue', q, position, missed)
    BY <1>1, <1>3, <1>8, <2>4, SpansTailOther
  <2>5. Stream'
    BY <1>1, <1>2, <2>3, <2>4 DEF Stream, Adjacent, Got
  <2>6. QED
    BY <2>2, <2>5
<1>9. CASE frame.kind = "output"
  <2>1. PICK r \in seam..MaxChunks, q \in seam..MaxChunks : Adjacent(r, q)
    BY DEF Stream
  <2>2. /\ q \in Nat /\ r \in Nat /\ position \in Nat /\ seam \in Nat /\ MaxChunks \in Nat
        /\ r <= q /\ seam <= q /\ Spans(down, r, q, missed) /\ Spans(queue, q, position, missed)
    BY <1>1, <2>1, BoundIs DEF Adjacent
  <2>3. PICK n \in 1..MaxChunks : /\ frame = Output(n) /\ Follows(n, q, position, missed)
                                  /\ Spans(queue', n, position, missed)
    <3>1. QueueOK(queue, Bound, Born, Early /\ down = <<>>)
      BY DEF QueuesOK
    <3>2. QED
      BY <1>1, <1>3, <1>9, <2>2, <3>1, SpansTailOutput
  <2>4. /\ n \in Nat /\ q < n /\ n <= position /\ n \in seam..MaxChunks /\ r <= n
        /\ n \notin missed /\ \A k \in 1..MaxChunks : q < k /\ k < n => k \in missed
    <3>1. /\ q < n /\ n <= position /\ n \notin missed
          /\ \A k \in 1..MaxChunks : q < k /\ k < n => k \in missed
      BY <2>3 DEF Follows
    <3>2. QED
      BY <2>2, <3>1
  <2>5. Spans(down', r, n, missed)
    BY <1>1, <1>3, <2>2, <2>3, <2>4, SpansNext
  <2>6. \A k, l \in 1..MaxChunks : frame = Output(k) /\ Carries(down, l) => l < k
    <3>1. \A k \in 1..MaxChunks : frame = Output(k) => n = k
      BY <2>3, OutputIs
    <3>2. \A l \in 1..MaxChunks : l <= q => l < n
      BY <2>2, <2>4
    <3>3. QED
      BY <2>2, <3>1, <3>2 DEF Spans
  <2>7. QueueOK(down', Bound', Born', Early')
    BY <1>1, <1>2, <1>3, <1>4, <1>9, <2>6, QueueAppend DEF QueuesOK
  <2>8. Adjacent(r, n)'
    BY <1>1, <1>2, <2>1, <2>3, <2>4, <2>5 DEF Adjacent, Got
  <2>9. Stream'
    BY <1>1, <2>4, <2>8 DEF Stream
  <2>10. QED
    BY <2>7, <2>9
<1>10. QED
  BY <1>8, <1>9

-----------------------------------------------------------------------------
(* The output: the client.                                                 *)
(* The client takes a frame from the socket: what is in it is the next to  *)
(* be got.                                                                 *)
LEMMA TakesOutput ==
  ASSUME IInv, down # <<>>, down' = Tail(down), Got' = Got \o Head(down).data, Beginning',
         UNCHANGED <<queue, dwriter, hpc, reply, forwarder, position, missed, seam, emitted, up>>
  PROVE  OutputInv'
<1> USE DEF IInv, OutputInv
<1> DEFINE frame == Head(down)
<1>1. Bound' = Bound /\ Born' = Born /\ Bound \in Nat
  BY BoundIs DEF Bound, Born
<1>2. QueuesOK'
  BY <1>1, QueuesTake
<1>3. Serving'
  BY <1>1, ServingStays DEF Serving
<1>4. down \in Seq(Frames) /\ QueueOK(down, Bound, Born, Early)
  BY DEF Types, DownTypes, QueuesOK
<1>5. frame \in Frames /\ FrameOK(frame, Bound, Born) /\ (frame.kind = "history" => Early)
  BY <1>4, QueueHead
<1>6. PICK r \in seam..MaxChunks, q \in seam..MaxChunks : Adjacent(r, q)
  BY DEF Stream
<1>7. /\ r \in Nat /\ q \in Nat /\ seam \in Nat /\ MaxChunks \in Nat /\ seam <= r
      /\ Spans(down, r, q, missed) /\ InOrder(Got, Bound, r) /\ Got \in Seq(Nat)
      /\ \A n \in 1..MaxChunks : n \in Nat
      /\ \A n \in 1..MaxChunks : seam < n /\ n <= r => (Holds(Got, n) <=> n \notin missed)
      /\ \A i \in DOMAIN Got : Got[i] \in Nat
  BY <1>6, BoundIs, GotIs DEF Adjacent
<1>8. CASE frame.kind = "output"
  <2>1. PICK n \in 1..MaxChunks : /\ frame = Output(n) /\ Follows(n, r, q, missed)
                                  /\ Spans(down', n, q, missed)
    BY <1>4, <1>7, <1>8, SpansTailOutput
  <2>2. /\ n \in Nat /\ r < n /\ n <= q /\ n \in seam..MaxChunks /\ n \notin missed
        /\ \A k \in 1..MaxChunks : r < k /\ k < n => k \in missed
    BY <1>7, <2>1 DEF Follows
  <2>3. Bound <= r /\ frame.data = <<n>>
    BY <1>5, <1>7, <1>8, <2>1, OutputIs DEF FrameOK, Bound
  <2>4. Got' = Append(Got, n) /\ \A k : Holds(Got', k) <=> Holds(Got, k) \/ k = n
    BY <1>7, <2>2, <2>3, JoinOne
  <2>5. InOrder(Got', Bound, n)
    BY <1>1, <1>7, <2>2, <2>3, <2>4, OrderGrows
  <2>6. ASSUME NEW k \in 1..MaxChunks, r < k PROVE ~Holds(Got, k)
    <3>1. \A i \in DOMAIN Got : Got[i] <= r
      BY <1>1, <1>7, <2>3 DEF InOrder
    <3>2. \A i \in DOMAIN Got : Got[i] # k
      BY <1>7, <2>6, <3>1
    <3>3. QED
      BY <3>2 DEF Holds
  <2>7. ASSUME NEW k \in 1..MaxChunks, seam < k, k <= n
        PROVE  Holds(Got', k) <=> k \notin missed
    <3>1. CASE k <= r
      BY <1>7, <2>2, <2>4, <2>7, <3>1
    <3>2. CASE k = n
      BY <2>2, <2>4, <3>2
    <3>3. CASE r < k /\ k < n
      BY <2>2, <2>4, <2>6, <3>3
    <3>4. QED
      BY <1>7, <2>2, <2>7, <3>1, <3>2, <3>3
  <2>8. Adjacent(n, q)'
    BY <1>1, <1>6, <2>1, <2>2, <2>5, <2>7 DEF Adjacent
  <2>9. Stream'
    BY <1>6, <2>2, <2>8 DEF Stream
  <2>10. QED
    BY <1>2, <1>3, <2>9
<1>9. CASE frame.kind = "history"
  <2>1. Got = <<>> /\ main \in Waiting
    BY <1>5, <1>9 DEF Early, Got
  <2>2. /\ Ascending(frame.data) /\ frame.data \in Seq(1..MaxChunks)
        /\ \A i \in DOMAIN frame.data : frame.data[i] \in 1..Bound
    BY <1>5, <1>9, DataIsSeq DEF FrameOK
  <2>3. Got' = frame.data
    BY <2>1, <2>2
  <2>4. InOrder(Got', Bound, r)
    <3>1. \A i \in DOMAIN frame.data : frame.data[i] <= Bound
      BY <1>1, <2>2
    <3>2. InOrder(frame.data, Bound, r)
      BY <2>2, <3>1 DEF InOrder
    <3>3. QED
      BY <2>3, <3>2
  <2>5. ASSUME NEW n \in 1..MaxChunks, seam < n, n <= r
        PROVE  Holds(Got', n) <=> n \notin missed
    <3>1. n \in missed
      BY <1>7, <2>1, <2>5 DEF Holds
    <3>2. Bound = seam
      BY <3>1 DEF Beginning, Bound
    <3>3. \A i \in DOMAIN frame.data : frame.data[i] # n
      BY <1>7, <2>2, <2>5, <3>2
    <3>4. ~Holds(Got', n)
      BY <2>3, <3>3 DEF Holds
    <3>5. QED
      BY <3>1, <3>4
  <2>6. Spans(down', r, q, missed)
    BY <1>4, <1>7, <1>9, SpansTailOther
  <2>7. Adjacent(r, q)'
    BY <1>1, <1>6, <2>4, <2>5, <2>6 DEF Adjacent
  <2>8. Stream'
    BY <1>6, <2>7 DEF Stream
  <2>9. QED
    BY <1>2, <1>3, <2>8
<1>10. CASE frame.kind \notin {"output", "history"}
  <2>1. frame.data = <<>>
    BY <1>5, <1>10 DEF FrameOK
  <2>2. Got' = Got
    BY <2>1, GotIs
  <2>3. Spans(down', r, q, missed)
    BY <1>4, <1>7, <1>10, SpansTailOther
  <2>4. Adjacent(r, q)'
    BY <1>1, <1>6, <2>2, <2>3 DEF Adjacent
  <2>5. Stream'
    BY <1>6, <2>4 DEF Stream
  <2>6. QED
    BY <1>2, <1>3, <2>5
<1>11. QED
  BY <1>8, <1>9, <1>10

LEMMA AsksOutput == IInv /\ (Collects \/ OverlooksExit \/ Attached \/ Refused) => OutputInv'
<1> SUFFICES ASSUME IInv, Collects \/ OverlooksExit \/ Attached \/ Refused PROVE OutputInv'
  OBVIOUS
<1> USE DEF IInv, OutputInv
<1>1. /\ UNCHANGED <<queue, dwriter, hpc, reply, forwarder, position, missed, seam, emitted, up>>
      /\ main = "asking" /\ down # <<>> /\ down' = Tail(down)
  BY DEF Collects, OverlooksExit, Attached, Refused, Asked, MainStep
<1>2. FrameOK(Head(down), Bound, Born)
  BY <1>1, QueueHead DEF QueuesOK, Types, DownTypes
<1>3. Got = history /\ Got \o <<>> = Got
  BY <1>1, GotIs DEF Got, Waiting
<1>4. CASE Collects
  <2>1. Got' = Got \o Head(down).data
    BY <1>1, <1>3, <1>4 DEF Collects, Got, Waiting
  <2>2. Beginning'
    BY <1>1, <1>4 DEF Collects, Asked, Beginning, Born, Waiting, Overtaken
  <2>3. QED
    BY <1>1, <2>1, <2>2, TakesOutput
<1>5. CASE OverlooksExit \/ Attached \/ Refused
  <2>1. Head(down).data = <<>>
    BY <1>2, <1>5 DEF OverlooksExit, Attached, Refused, Asked, FrameOK
  <2>2. Got' = Got
    BY <1>1, <1>3, <1>5 DEF OverlooksExit, Attached, Refused, GoesLive, Got, Waiting
  <2>3. Attached => Born
    BY <1>2 DEF Attached, Asked, FrameOK
  <2>4. Beginning'
    BY <1>1, <1>5, <2>3
       DEF OverlooksExit, Attached, Refused, GoesLive, Asked, Beginning, Born, Waiting,
           Overtaken
  <2>5. QED
    BY <1>1, <1>3, <2>1, <2>2, <2>4, TakesOutput
<1>6. QED
  BY <1>4, <1>5

LEMMA ReaderOutput == IInv /\ (Reads \/ ReadsExit) => OutputInv'
<1> SUFFICES ASSUME IInv, Reads \/ ReadsExit PROVE OutputInv'
  OBVIOUS
<1> USE DEF IInv, OutputInv
<1>1. /\ UNCHANGED <<queue, dwriter, hpc, reply, forwarder, position, missed, seam, emitted, up,
                     main>>
      /\ reader \in Running /\ down # <<>> /\ down' = Tail(down)
  BY DEF Reads, ReadsExit, ReaderStep, MainStep
<1>2. main \notin Waiting
  BY <1>1 DEF Beginning, Running
<1>3. Beginning' /\ Got = shown /\ Got' = shown'
  BY <1>1, <1>2 DEF Beginning, Born, Got, Overtaken
<1>4. CASE Reads
  BY <1>1, <1>3, <1>4, TakesOutput DEF Reads
<1>5. CASE ReadsExit
  <2>1. FrameOK(Head(down), Bound, Born)
    BY <1>1, QueueHead DEF QueuesOK, Types, DownTypes
  <2>2. Head(down).data = <<>>
    BY <1>5, <2>1 DEF ReadsExit, FrameOK
  <2>3. Got' = Got \o Head(down).data
    BY <1>3, <1>5, <2>2, GotIs DEF ReadsExit
  <2>4. QED
    BY <1>1, <1>3, <2>3, TakesOutput
<1>6. QED
  BY <1>4, <1>5

LEMMA FailsOutput == IInv /\ AttachFails => OutputInv'
<1> SUFFICES ASSUME IInv, AttachFails PROVE OutputInv'
  OBVIOUS
<1> USE DEF IInv, OutputInv
<1>1. /\ UNCHANGED <<queue, dwriter, down, hpc, reply, forwarder, position, missed, seam,
                     emitted, history, shown, up, reader>>
      /\ main \in Waiting /\ main' \in Waiting
  BY DEF AttachFails, MainStep, Waiting
<1>2. /\ Bound' = Bound /\ Born' = Born /\ Early' = Early /\ Unread' = Unread /\ Got' = Got
  BY <1>1 DEF Bound, Born, Early, Unread, Got
<1>3. QueuesOK' /\ Serving' /\ Beginning' /\ Stream'
  BY <1>1, <1>2 DEF QueuesOK, Serving, Beginning, Overtaken, Stream, Adjacent
<1>4. QED
  BY <1>3

(* The other steps of the client, the user and the world.                  *)
LEMMA RestOutput ==
  ASSUME IInv,
         \/ Killed \/ SendersGo \/ DaemonDies \/ Resizes \/ TearsDown \/ Returns \/ ReadsEnd
         \/ ReaderStops \/ Stdin \/ FeederStops \/ CWriter \/ UNCHANGED vars
  PROVE  OutputInv'
<1>1. CASE Killed \/ SendersGo \/ DaemonDies \/ UNCHANGED vars
  BY <1>1, OutputSame DEF Killed, SendersGo, DaemonDies, vars, Unread, IInv
<1>2. CASE TearsDown \/ Returns \/ Resizes
  <2>1. Unread' = Unread
    <3>1. up' = up \/ up' = Append(up, 1)
      BY <1>2 DEF TearsDown, TearsDownTo, Returns, LeavesWhen, Resizes
    <3>2. CASE up' = Append(up, 1)
      BY <3>2, UpGrows, BoundsAssumption DEF IInv, Types
    <3>3. QED
      BY <3>1, <3>2 DEF Unread
  <2>2. QED
    BY <1>2, <2>1, OutputSame
       DEF TearsDown, TearsDownTo, Returns, LeavesWhen, Resizes, GoesLive, MainStep, Waiting, IInv
<1>3. CASE ReadsEnd \/ ReaderStops
  <2>1. main \notin Waiting
    BY <1>3 DEF ReadsEnd, ReaderStops, ReaderStep, Running, IInv, OutputInv, Beginning
  <2>2. QED
    BY <1>3, <2>1, OutputSame
       DEF ReadsEnd, ReaderStops, ReaderStep, MainStep, Unread, IInv
<1>4. CASE Stdin \/ FeederStops \/ CWriteBreaks
  BY <1>4, OutputSame
     DEF Stdin, Feeds, Detaches, EndOfInput, FeederStops, FeederStep, CWriteBreaks, CWriterStep,
         MainStep, Unread, IInv
<1>5. CASE CWrites
  <2>1. Head(frames) \in 1..MaxInputs
    BY <1>5, TailIs DEF CWrites, CWriterStep, IInv, Types, UpTypes
  <2>2. Unread' = Unread
    BY <1>5, <2>1, UpGrows DEF CWrites, IInv, Types
  <2>3. QED
    BY <1>5, <2>2, OutputSame DEF CWrites, CWriterStep, MainStep, IInv
<1>6. QED
  BY <1>1, <1>2, <1>3, <1>4, <1>5 DEF CWriter

-----------------------------------------------------------------------------
LEMMA InitIInv == Init => IInv
<1> SUFFICES ASSUME Init PROVE IInv
  OBVIOUS
<1> USE BoundsAssumption DEF Init
<1>1. up \in Seq(Attach..MaxInputs) /\ Len(up) = 1 /\ up[1] = Attach
  BY DEF Attach
<1>2. Types
  <2>1. SessionTypes /\ HandlerTypes
    BY DEF SessionTypes, HandlerTypes
  <2>2. DownTypes /\ ClientTypes
    <3>1. Len(<<>>) = 0
      OBVIOUS
    <3>2. DownTypes
      BY <3>1 DEF DownTypes
    <3>3. ClientTypes
      <4>1. shown \in Seq(1..MaxChunks) /\ history \in Seq(1..MaxChunks)
        OBVIOUS
      <4>2. pipe \in BOOLEAN /\ exitUnseen \in BOOLEAN
        OBVIOUS
      <4>3. QED
        BY <4>1, <4>2 DEF ClientTypes
    <3>4. QED
      BY <3>2, <3>3
  <2>3. UpTypes
    BY <1>1 DEF UpTypes
  <2>4. QED
    BY <2>1, <2>2, <2>3 DEF Types
<1>3. InputInv
  BY <1>1 DEF InputInv, Numbered, Ending, Unread, Attach
<1>4. OutputInv
  <2>1. Unread = 1 /\ ~Born /\ Early /\ Got = <<>> /\ Bound = emitted
    BY <1>1 DEF Unread, Born, Early, Got, Waiting, Bound
  <2>2. QueuesOK /\ Serving /\ Beginning
    BY <2>1 DEF QueuesOK, QueueOK, Serving, Beginning, Waiting, NoFrame, Frame
  <2>3. 0 \in seam..MaxChunks /\ \A n \in 1..MaxChunks : ~(n <= 0)
    BY <2>1
  <2>4. Spans(<<>>, 0, 0, {}) /\ InOrder(<<>>, Bound, 0)
    BY SpansNothing DEF InOrder, Ascending
  <2>5. Adjacent(0, 0)
    BY <2>1, <2>3, <2>4 DEF Adjacent
  <2>6. Stream
    BY <2>3, <2>5 DEF Stream
  <2>7. QED
    BY <2>2, <2>6 DEF OutputInv
<1>5. QED
  BY <1>2, <1>3, <1>4 DEF IInv

LEMMA NextIInv == IInv /\ [Next]_vars => IInv'
<1> SUFFICES ASSUME IInv, [Next]_vars PROVE IInv'
  OBVIOUS
<1>1. Types' /\ InputInv'
  BY TypesKept, NumberedKept, EndingKept DEF IInv, InputInv
<1>2. OutputInv'
  <2>1. CASE Handler
    BY <2>1, ReadsOutput, HistoryOutput, SubscribesOutput, ServesOutput, RepliesOutput
       DEF Handler, Answers
  <2>2. CASE Forwarder \/ DWriter
    BY <2>2, ForwardsOutput, LagsOutput, ExitOutput, WritesOutput, BreaksOutput DEF Forwarder, DWriter
  <2>3. CASE Main
    BY <2>3, AsksOutput, FailsOutput, RestOutput DEF Main
  <2>4. CASE Reader
    BY <2>4, ReaderOutput, RestOutput DEF Reader
  <2>5. QED
    BY <2>1, <2>2, <2>3, <2>4, EmitsOutput, RestOutput DEF Next
<1>3. QED
  BY <1>1, <1>2 DEF IInv

LEMMA Always == Spec => []IInv
BY InitIInv, NextIInv, PTL DEF Spec

LEMMA OutputShown == IInv => ShownInOrder
<1> SUFFICES ASSUME IInv PROVE ShownInOrder
  OBVIOUS
<1> USE DEF IInv, OutputInv
<1>1. \A n \in missed : seam < n /\ Overtaken(n)
  BY DEF Beginning
<1>2. CASE main \in Waiting
  <2>1. shown = <<>>
    BY <1>2 DEF Beginning
  <2>2. QED
    BY <1>1, <2>1 DEF ShownInOrder, Ascending
<1>3. CASE main \notin Waiting
  <2>1. Bound = seam /\ Got = shown /\ shown \in Seq(1..MaxChunks)
    BY <1>3 DEF Beginning, Bound, Got, Types, ClientTypes
  <2>2. PICK r \in seam..MaxChunks, q \in seam..MaxChunks : Adjacent(r, q)
    BY DEF Stream
  <2>3. r \in Nat /\ seam \in Nat /\ MaxChunks \in Nat /\ seam <= r
    BY <2>2, BoundIs
  <2>4. \A i \in DOMAIN shown : shown[i] \in 1..MaxChunks /\ shown[i] <= r
    <3>1. \A i \in DOMAIN shown : shown[i] \in 1..MaxChunks
      BY <2>1, ElementsAre
    <3>2. QED
      BY <2>1, <2>2, <2>3, <3>1 DEF Adjacent, InOrder
  <2>5. ASSUME NEW i \in DOMAIN shown, NEW n \in seam + 1..shown[i]
        PROVE  n \in missed \/ \E j \in DOMAIN shown : shown[j] = n
    <3>1. n \in 1..MaxChunks /\ seam < n /\ n <= r
      BY <2>3, <2>4
    <3>2. QED
      BY <2>1, <2>2, <3>1 DEF Adjacent, Holds
  <2>6. QED
    BY <1>1, <2>1, <2>2, <2>5 DEF ShownInOrder, Adjacent, InOrder
<1>4. QED
  BY <1>2, <1>3

(* The attachment's tasks and queues keep their types, and no queue holds  *)
(* more than its capacity.                                                 *)
THEOREM TypeCorrect == Spec => []TypeOK
<1>1. IInv => TypeOK
  BY TypesAreTypeOK DEF IInv
<1>2. QED
  BY Always, <1>1, PTL

(* attach.rs, client.rs, daemon.rs:409-438: what the terminal shows, replay*)
(* and live output, is in order and without a repeat; what is left out of  *)
(* the live output was overtaken in the broadcast channel.                 *)
THEOREM ShownInOrderHolds == Spec => []ShownInOrder
BY Always, OutputShown, PTL

(* attach.rs:407-412 and daemon.rs:605-609: inputs are served in the order *)
(* they were made, and all of them unless an answer could not be written   *)
(* or the daemon died.                                                     *)
THEOREM InputsInOrderHolds == Spec => []InputsInOrder
<1>1. IInv => InputsInOrder
  BY InputsServed DEF IInv
<1>2. QED
  BY Always, <1>1, PTL

-----------------------------------------------------------------------------
(* The promise of Attachment.  It takes three facts more: SessionExited is *)
(* queued behind all of the output, a writer task breaks only once nobody  *)
(* reads, and run_attach is torn down only with an outcome.                *)
HasExit(s) == \E i \in DOMAIN s : s[i].kind = "exited"
HasOutput(s) == \E i \in DOMAIN s : s[i].kind = "output"
ExitLast(s) == \A i, j \in DOMAIN s : i <= j /\ s[i].kind = "exited" => s[j].kind # "output"

Drained == forwarder = "gone" /\ ~senders /\ position = emitted

Exiting ==
  /\ HasExit(queue) \/ HasExit(down) => Drained
  /\ ExitLast(queue) /\ ExitLast(down)
  /\ HasExit(down) => ~HasOutput(queue)
  /\ hpc \in {"history", "serving", "reply"} => reply.kind # "exited"

Leaving ==
  /\ dwriter = "broken" => Closed
  /\ main \in {"teardown", "returned"} => outcome # "none"

PInv == IInv /\ Exiting /\ Leaving

LEMMA ExitTail ==
  ASSUME NEW s \in Seq(Frames), s # <<>>
  PROVE  /\ HasExit(Tail(s)) => HasExit(s)
         /\ HasOutput(Tail(s)) => HasOutput(s)
         /\ ExitLast(s) => ExitLast(Tail(s))
         /\ Head(s).kind = "exited" => HasExit(s)
         /\ Head(s).kind = "output" => HasOutput(s)
         /\ ExitLast(s) /\ Head(s).kind = "exited" => ~HasOutput(s)
<1>1. \A i \in DOMAIN Tail(s) :
        i \in Nat /\ i + 1 \in DOMAIN s /\ Tail(s)[i] = s[i + 1]
  BY TailIs
<1>2. 1 \in DOMAIN s /\ Head(s) = s[1] /\ \A i \in DOMAIN s : i \in Nat /\ 1 <= i
  BY TailIs
<1>3. HasExit(Tail(s)) => HasExit(s)
  BY <1>1 DEF HasExit
<1>4. HasOutput(Tail(s)) => HasOutput(s)
  BY <1>1 DEF HasOutput
<1>5. ASSUME ExitLast(s) PROVE ExitLast(Tail(s))
  <2>1. SUFFICES ASSUME NEW i \in DOMAIN Tail(s), NEW j \in DOMAIN Tail(s), i <= j,
                        Tail(s)[i].kind = "exited"
                 PROVE  Tail(s)[j].kind # "output"
    BY DEF ExitLast
  <2>2. /\ i + 1 \in DOMAIN s /\ j + 1 \in DOMAIN s /\ i + 1 <= j + 1
        /\ s[i + 1].kind = "exited" /\ Tail(s)[j] = s[j + 1]
    BY <1>1, <2>1
  <2>3. QED
    BY <1>5, <2>2 DEF ExitLast
<1>6. /\ Head(s).kind = "exited" => HasExit(s)
      /\ Head(s).kind = "output" => HasOutput(s)
      /\ ExitLast(s) /\ Head(s).kind = "exited" => ~HasOutput(s)
  BY <1>2 DEF HasExit, HasOutput, ExitLast
<1>7. QED
  BY <1>3, <1>4, <1>5, <1>6

LEMMA ExitAppend ==
  ASSUME NEW s \in Seq(Frames), NEW frame \in Frames
  PROVE  /\ HasExit(Append(s, frame)) => HasExit(s) \/ frame.kind = "exited"
         /\ HasOutput(Append(s, frame)) => HasOutput(s) \/ frame.kind = "output"
         /\ ExitLast(s) /\ (frame.kind = "output" => ~HasExit(s))
              => ExitLast(Append(s, frame))
<1> DEFINE t == Append(s, frame)  n == Len(s) + 1
<1>1. /\ t[n] = frame /\ n \in DOMAIN t /\ n \in Nat
      /\ \A i \in DOMAIN t : i \in Nat /\ (i = n \/ (i \in DOMAIN s /\ i < n))
      /\ \A i \in DOMAIN s : t[i] = s[i]
  BY AppendIs
<1> HIDE DEF t, n
<1>2. HasExit(t) => HasExit(s) \/ frame.kind = "exited"
  BY <1>1 DEF HasExit
<1>3. HasOutput(t) => HasOutput(s) \/ frame.kind = "output"
  BY <1>1 DEF HasOutput
<1>4. ASSUME ExitLast(s), frame.kind = "output" => ~HasExit(s) PROVE ExitLast(t)
  <2>1. SUFFICES ASSUME NEW i \in DOMAIN t, NEW j \in DOMAIN t, i <= j,
                        t[i].kind = "exited"
                 PROVE  t[j].kind # "output"
    BY DEF ExitLast
  <2>2. CASE j = n
    <3>1. i = n \/ HasExit(s)
      BY <1>1, <2>1 DEF HasExit
    <3>2. QED
      BY <1>1, <1>4, <2>1, <2>2, <3>1
  <2>3. CASE j # n
    <3>1. i \in DOMAIN s /\ j \in DOMAIN s /\ t[i] = s[i] /\ t[j] = s[j]
      BY <1>1, <2>1, <2>3
    <3>2. QED
      BY <1>4, <2>1, <3>1 DEF ExitLast
  <2>4. QED
    BY <2>2, <2>3
<1>5. QED
  BY <1>2, <1>3, <1>4 DEF t

LEMMA NoExit == <<>> \in Seq(Frames) /\ ~HasExit(<<>>) /\ ~HasOutput(<<>>) /\ ExitLast(<<>>)
BY DEF HasExit, HasOutput, ExitLast

(* Nothing has been queued behind SessionExited.                           *)
LEMMA ExitHandler == PInv /\ Handler => Exiting'
<1> SUFFICES ASSUME PInv, Handler PROVE Exiting'
  OBVIOUS
<1> USE DEF PInv
<1>1. queue \in Seq(Frames) /\ (hpc \in {"history", "serving", "reply"} => reply \in Frames)
  BY DEF IInv, Types, DownTypes, HandlerTypes
<1>2. UNCHANGED <<senders, emitted, down>>
  BY DEF Handler, Answers, Serves, ReadsInput, ReadsAttach, SendsHistory, Subscribes, SubscribesFrom,
         Replies, EndOfStream, HandlerStep, session
<1>3. CASE ReadsInput \/ ReadsAttach \/ Serves
  <2>1. /\ UNCHANGED <<queue, forwarder, position>>
        /\ hpc' \in {"history", "serving", "reply"} => reply'.kind # "exited"
    BY <1>3 DEF ReadsInput, ReadsAttach, Serves, Exiting, Frame
  <2>2. QED
    BY <1>2, <2>1 DEF Exiting, Drained
<1>4. CASE SendsHistory \/ Replies
  <2>1. /\ hpc \in {"history", "reply"} /\ hpc' \notin {"history", "serving", "reply"}
        /\ UNCHANGED position /\ (forwarder = "gone" => forwarder' = "gone")
        /\ queue' = queue \/ queue' = Append(queue, reply)
    BY <1>4 DEF SendsHistory, Replies, Queues, QueueFails, Ends, forward, sending
  <2>2. reply \in Frames /\ reply.kind \notin {"exited", "output"}
    BY <1>1, <2>1 DEF Exiting, IInv, OutputInv, Serving
  <2>3. /\ HasExit(queue') => HasExit(queue)
        /\ HasOutput(queue') => HasOutput(queue)
        /\ ExitLast(queue')
    <3>1. CASE queue' = queue
      BY <3>1 DEF Exiting
    <3>2. CASE queue' = Append(queue, reply)
      BY <1>1, <2>2, <3>2, ExitAppend DEF Exiting
    <3>3. QED
      BY <2>1, <3>1, <3>2
  <2>4. QED
    BY <1>2, <2>1, <2>3 DEF Exiting, Drained
<1>5. CASE Subscribes
  <2>1. forwarder = "unborn"
    BY <1>5 DEF Subscribes, SubscribesFrom, IInv, OutputInv, Serving, Born
  <2>2. ~HasExit(queue) /\ ~HasExit(down)
    BY <2>1 DEF Exiting, Drained
  <2>3. UNCHANGED queue /\ reply'.kind # "exited"
    BY <1>5 DEF Subscribes, SubscribesFrom, sending, Frame
  <2>4. QED
    BY <1>2, <2>2, <2>3 DEF Exiting
<1>6. CASE EndOfStream
  <2>1. /\ UNCHANGED <<queue, position>> /\ hpc' = "ended"
        /\ forwarder = "gone" => forwarder' = "gone"
    BY <1>6 DEF EndOfStream, Ends, forward, sending
  <2>2. QED
    BY <1>2, <2>1 DEF Exiting, Drained
<1>7. QED
  BY <1>3, <1>4, <1>5, <1>6 DEF Handler, Answers

LEMMA ExitForwarder == PInv /\ Forwarder => Exiting'
<1> SUFFICES ASSUME PInv, Forwarder PROVE Exiting'
  OBVIOUS
<1> USE DEF PInv
<1>1. queue \in Seq(Frames) /\ position \in 0..MaxChunks /\ emitted \in 0..MaxChunks
  BY DEF IInv, Types, DownTypes, HandlerTypes, SessionTypes
<1>2. UNCHANGED <<senders, emitted, down, hpc, reply>> /\ forwarder \in Running
  BY DEF Forwarder, Lags, LagsTo, Forwards, ForwardsExit, ForwarderEnds, ClosesWith, ForwarderStep,
         session, handler
<1>3. ~HasExit(queue) /\ ~HasExit(down)
  BY <1>2 DEF Exiting, Drained, Running
<1>4. CASE Forwards
  <2> DEFINE frame == Output(position + 1)
  <2>1. position + 1 \in 1..MaxChunks /\ queue' = Append(queue, frame)
    <3>1. position < emitted /\ MaxChunks \in Nat
      BY <1>4, BoundsAssumption DEF Forwards
    <3>2. queue' = Append(queue, frame)
      BY <1>4 DEF Forwards, Queues, Output
    <3>3. QED
      BY <1>1, <3>1, <3>2
  <2>2. frame \in Frames /\ frame.kind = "output"
    BY <2>1, OutputIs
  <2>3. ~HasExit(queue') /\ ExitLast(queue')
    BY <1>1, <1>3, <2>1, <2>2, ExitAppend DEF Exiting
  <2>4. QED
    BY <1>2, <1>3, <2>3 DEF Exiting
<1>5. CASE ForwardsExit
  <2> DEFINE frame == Frame("exited", <<>>)
  <2>1. queue' = Append(queue, frame) /\ Drained'
    BY <1>2, <1>5 DEF ForwardsExit, ClosesWith, ForwarderStep, session, Queues, Drained
  <2>2. frame \in Frames /\ frame.kind = "exited"
    BY OtherFrames DEF Frame, Kinds
  <2>3. ExitLast(queue')
    BY <1>1, <2>1, <2>2, ExitAppend DEF Exiting
  <2>4. QED
    BY <1>2, <1>3, <2>1, <2>3 DEF Exiting
<1>6. CASE Lags \/ ForwarderEnds
  <2>1. UNCHANGED queue
    BY <1>6 DEF Lags, LagsTo, ForwarderEnds
  <2>2. QED
    BY <1>2, <1>3, <2>1 DEF Exiting
<1>7. QED
  BY <1>4, <1>5, <1>6 DEF Forwarder

LEMMA ExitDWriter == PInv /\ DWriter => Exiting'
<1> SUFFICES ASSUME PInv, DWriter PROVE Exiting'
  OBVIOUS
<1> USE DEF PInv
<1>1. queue \in Seq(Frames) /\ down \in Seq(Frames)
  BY DEF IInv, Types, DownTypes
<1>2. UNCHANGED <<senders, emitted, forwarder, position, hpc, reply>> /\ queue # <<>>
  BY DEF DWriter, Writes, WriteBreaks, DWriterStep, session, forward, handler
<1>3. CASE Writes
  <2> DEFINE frame == Head(queue)
  <2>1. down' = Append(down, frame) /\ queue' = Tail(queue)
    BY <1>3 DEF Writes
  <2>2. frame \in Frames
    BY <1>1, <1>2, TailIs
  <2>3. /\ HasExit(queue') => HasExit(queue)
        /\ HasOutput(queue') => HasOutput(queue)
        /\ ExitLast(queue')
        /\ frame.kind = "exited" => HasExit(queue) /\ ~HasOutput(queue)
        /\ frame.kind = "output" => HasOutput(queue)
    BY <1>1, <1>2, <2>1, ExitTail DEF Exiting
  <2> HIDE DEF frame
  <2>4. HasExit(down') => HasExit(down) \/ frame.kind = "exited"
    BY <1>1, <2>1, <2>2, ExitAppend
  <2>5. ExitLast(down')
    BY <1>1, <2>1, <2>2, <2>3, ExitAppend DEF Exiting
  <2>6. QED
    BY <1>2, <2>3, <2>4, <2>5 DEF Exiting, Drained
<1>4. CASE WriteBreaks
  <2>1. UNCHANGED down /\ queue' = <<>>
    BY <1>4 DEF WriteBreaks
  <2>2. QED
    BY <1>2, <2>1, NoExit DEF Exiting, Drained
<1>5. QED
  BY <1>3, <1>4 DEF DWriter

LEMMA ExitKept == PInv /\ [Next]_vars => Exiting'
<1> SUFFICES ASSUME PInv, [Next]_vars PROVE Exiting'
  OBVIOUS
<1> USE DEF PInv
<1>1. CASE Emits
  <2>1. UNCHANGED <<queue, down, hpc, reply>> /\ senders
    BY <1>1 DEF Emits, sending, handler
  <2>2. ~HasExit(queue) /\ ~HasExit(down)
    BY <2>1 DEF Exiting, Drained
  <2>3. QED
    BY <2>1, <2>2 DEF Exiting
<1>2. CASE Main \/ Reader
  <2>1. UNCHANGED <<queue, senders, emitted, forwarder, position, hpc, reply>>
    BY <1>2 DEF Main, Collects, OverlooksExit, Attached, Refused, Asked, AttachFails,
                Resizes, TearsDown, TearsDownTo, Returns, LeavesWhen, MainStep, Reader,
                Reads, ReadsExit, ReadsEnd, ReaderStops, ReaderStep, session, handler,
                forward, sending
  <2>2. down' = down \/ (down # <<>> /\ down' = Tail(down))
    BY <1>2 DEF Main, Collects, OverlooksExit, Attached, Refused, Asked, AttachFails,
                Resizes, TearsDown, TearsDownTo, Returns, LeavesWhen, Reader,
                Reads, ReadsExit, ReadsEnd, ReaderStops
  <2>3. down \in Seq(Frames)
    BY DEF IInv, Types, DownTypes
  <2>4. (HasExit(down') => HasExit(down)) /\ ExitLast(down')
    BY <2>2, <2>3, ExitTail DEF Exiting
  <2>5. QED
    BY <2>1, <2>4 DEF Exiting, Drained
<1>3. CASE Killed \/ SendersGo \/ DaemonDies \/ Stdin \/ FeederStops \/ CWriter \/ UNCHANGED vars
  <2>1. UNCHANGED <<queue, down, emitted, forwarder, position, hpc, reply>>
    BY <1>3 DEF Killed, SendersGo, DaemonDies, Stdin, Feeds, Detaches, EndOfInput, FeederStops,
                FeederStep, CWriter, CWrites, CWriteBreaks, CWriterStep, MainStep,
                session, handler, forward, sending, vars
  <2>2. senders' = senders \/ ~senders'
    BY <1>3 DEF Killed, SendersGo, DaemonDies, Stdin, Feeds, Detaches, EndOfInput, FeederStops,
                FeederStep, CWriter, CWrites, CWriteBreaks, CWriterStep, MainStep,
                session, vars
  <2>3. QED
    BY <2>1, <2>2 DEF Exiting, Drained
<1>4. QED
  BY <1>1, <1>2, <1>3, ExitHandler, ExitForwarder, ExitDWriter DEF Next

LEMMA LeavingKept == PInv /\ [Next]_vars => Leaving'
<1> SUFFICES ASSUME PInv, [Next]_vars PROVE Leaving'
  OBVIOUS
<1> USE DEF PInv, Leaving
<1>1. CASE Main
  <2>1. UNCHANGED dwriter
    BY <1>1 DEF Main, Collects, OverlooksExit, Attached, Refused, Asked, AttachFails,
                Resizes, TearsDown, TearsDownTo, Returns, LeavesWhen, MainStep, sending
  <2>2. Closed => Closed'
    BY <1>1 DEF Main, Collects, OverlooksExit, Attached, Refused, Asked, AttachFails,
                Resizes, TearsDown, TearsDownTo, Returns, LeavesWhen, Closed
  <2>3. main' \in {"teardown", "returned"} => outcome' # "none"
    BY <1>1 DEF Main, Collects, OverlooksExit, Attached, Refused, Asked, AttachFails,
                Resizes, GoesLive, TearsDown, TearsDownTo, Returns, LeavesWhen
  <2>4. QED
    BY <2>1, <2>2, <2>3
<1>2. CASE Reader
  <2>1. /\ UNCHANGED <<dwriter, main>> /\ reader \in Running
        /\ outcome # "none" => outcome' # "none"
    BY <1>2 DEF Reader, Reads, ReadsExit, ReadsEnd, ReaderStops, ReaderStep, MainStep,
                Reports, sending
  <2>2. main # "failed"
    BY <2>1 DEF IInv, OutputInv, Beginning, Waiting, Running
  <2>3. QED
    BY <2>1, <2>2 DEF Closed
<1>3. CASE Stdin \/ FeederStops \/ CWriter
  <2>1. UNCHANGED <<dwriter, main, reader>> /\ (outcome # "none" => outcome' # "none")
    BY <1>3 DEF Stdin, Feeds, Detaches, EndOfInput, FeederStops, FeederStep, CWriter,
                CWrites, CWriteBreaks, CWriterStep, MainStep, Reports, sending
  <2>2. QED
    BY <2>1 DEF Closed
<1>4. CASE DWriter
  <2>1. UNCHANGED <<main, reader, outcome>> /\ (dwriter' = dwriter \/ Closed)
    BY <1>4 DEF DWriter, Writes, WriteBreaks, DWriterStep
  <2>2. QED
    BY <2>1 DEF Closed
<1>5. CASE Emits \/ Killed \/ SendersGo \/ DaemonDies \/ UNCHANGED vars
  <2>1. UNCHANGED <<main, reader, outcome, dwriter>>
    BY <1>5 DEF Emits, Killed, SendersGo, DaemonDies, vars
  <2>2. QED
    BY <2>1 DEF Closed
<1>6. CASE Handler \/ Forwarder
  <2>1. UNCHANGED <<main, reader, outcome>>
    BY <1>6 DEF Handler, Answers, Serves, Lags, LagsTo, ReadsInput, ReadsAttach, SendsHistory, Subscribes, SubscribesFrom,
                Replies, EndOfStream, HandlerStep, Forwarder, Forwards, ForwardsExit,
                ForwarderEnds, ClosesWith, ForwarderStep
  <2>2. UNCHANGED dwriter
    BY <1>6 DEF Handler, Answers, Serves, Lags, LagsTo, ReadsInput, ReadsAttach, SendsHistory, Subscribes, SubscribesFrom,
                Replies, EndOfStream, Forwarder, Forwards, ForwardsExit, ForwarderEnds,
                ClosesWith, Queues, QueueFails, sending
  <2>3. QED
    BY <2>1, <2>2 DEF Closed
<1>7. QED
  BY <1>1, <1>2, <1>3, <1>4, <1>5, <1>6 DEF Next

LEMMA InitPInv == Init => PInv
<1> SUFFICES ASSUME Init PROVE PInv
  OBVIOUS
<1>1. Exiting
  BY NoExit DEF Init, Exiting
<1>2. QED
  BY <1>1, InitIInv DEF PInv, Leaving, Init

LEMMA PromiseKept == PInv /\ [Next]_vars => PInv'
BY NextIInv, ExitKept, LeavingKept DEF PInv

-----------------------------------------------------------------------------
(* Steps of the attachment as steps of its promise.                        *)
Unpromised == UNCHANGED <<emitted, senders, Phase, Joined, Lost, shown, outcome, fed, handled>>

LEMMA UnpromisedIs == Unpromised => UNCHANGED Promise!vars
BY DEF Unpromised, Promise!vars, Promise!session, Promise!screen, Promise!inputs

LEMMA PhaseIs ==
  ASSUME Types
  PROVE  /\ Phase \in {"asked", "refused"} <=> main \in Waiting
         /\ Phase = "asked" <=> main = "asking"
         /\ Phase = "refused" <=> main = "failed"
         /\ Phase = "over" <=> main = "returned"
         /\ Phase = "open" <=> main \in {"resizing", "live", "teardown"}
         /\ main \in Waiting => Joined = 0 /\ Lost = {}
         /\ main \notin Waiting => Joined = seam /\ Lost = missed
BY DEF Types, ClientTypes, Phase, Joined, Lost, Waiting

(* Main keeps its phase, and where the forwarder is matters only once      *)
(* there is a response.                                                    *)
LEMMA PhaseStays ==
  ASSUME UNCHANGED main, UNCHANGED <<seam, missed>> \/ main \in Waiting
  PROVE  Phase' = Phase /\ Joined' = Joined /\ Lost' = Lost
BY DEF Phase, Joined, Lost, Waiting

(* How far the client has got.                                             *)
GotTo(r, q) ==
  /\ Adjacent(r, q) /\ seam <= r /\ r <= q /\ q <= position /\ position <= emitted
  /\ emitted <= MaxChunks
  /\ {seam, r, q, position, emitted, MaxChunks} \subseteq Nat
  /\ Ascending(Got) /\ InOrder(Got, seam, r)
  /\ \A i \in DOMAIN Got : Got[i] \in 1..MaxChunks /\ Got[i] <= r
  /\ \A n \in 1..MaxChunks : seam < n /\ n <= r => (Holds(Got, n) <=> n \notin missed)

LEMMA GotIsTo ==
  ASSUME IInv, Born
  PROVE  \E r, q \in seam..MaxChunks : GotTo(r, q)
<1> USE DEF IInv, OutputInv
<1>1. PICK r \in seam..MaxChunks, q \in seam..MaxChunks : Adjacent(r, q)
  BY DEF Stream
<1>2. Bound = seam /\ Got \in Seq(1..MaxChunks)
  BY GotIs DEF Bound
<1>3. /\ {seam, r, q, position, emitted, MaxChunks} \subseteq Nat
      /\ seam <= r /\ emitted <= MaxChunks
  BY <1>1, BoundIs
<1>4. r <= q /\ q <= position /\ position <= emitted
  BY <1>1 DEF Adjacent, Beginning
<1>5. Ascending(Got) /\ InOrder(Got, seam, r)
  BY <1>1, <1>2 DEF Adjacent, InOrder
<1>6. \A i \in DOMAIN Got : Got[i] \in 1..MaxChunks
  BY <1>2, ElementsAre
<1>7. \A i \in DOMAIN Got : Got[i] <= r
  BY <1>3, <1>5, <1>6 DEF InOrder
<1>8. GotTo(r, q)
  BY <1>1, <1>3, <1>4, <1>5, <1>6, <1>7 DEF GotTo, Adjacent
<1>9. QED
  BY <1>1, <1>8

(* Once there is a response, there is a forwarder.                         *)
LEMMA BornIs ==
  ASSUME IInv, main \notin Waiting
  PROVE  Born /\ Got = shown
BY DEF IInv, OutputInv, Beginning, Got

LEMMA WorldPromised ==
  /\ Emits => Promise!PutsOut
  /\ SendersGo => Promise!Dies
  /\ Killed \/ DaemonDies => Unpromised
<1>1. ASSUME Emits \/ SendersGo \/ Killed \/ DaemonDies
      PROVE  Phase' = Phase /\ Joined' = Joined /\ Lost' = Lost
  BY <1>1, PhaseStays DEF Emits, SendersGo, Killed, DaemonDies
<1>2. Emits => Promise!PutsOut
  BY <1>1 DEF Emits, Promise!PutsOut, Promise!screen, Promise!inputs
<1>3. SendersGo => Promise!Dies
  BY <1>1 DEF SendersGo, Promise!Dies, Promise!screen, Promise!inputs
<1>4. Killed \/ DaemonDies => Unpromised
  BY <1>1 DEF Killed, DaemonDies, Unpromised
<1>5. QED
  BY <1>2, <1>3, <1>4

LEMMA HandlerPromised == IInv /\ Handler => Promise!Serves \/ Unpromised
<1> SUFFICES ASSUME IInv, Handler PROVE Promise!Serves \/ Unpromised
  OBVIOUS
<1> USE DEF IInv
<1>1. UNCHANGED <<emitted, senders, main, shown, outcome, fed>> /\ daemon
  BY DEF Handler, Answers, Serves, ReadsInput, ReadsAttach, SendsHistory, Subscribes, SubscribesFrom,
         Replies, EndOfStream, HandlerStep, session, input
<1>2. CASE ReadsInput
  <2>1. up # <<>> /\ Head(up) # Attach /\ handled' = Append(handled, Head(up))
        /\ UNCHANGED <<seam, missed>>
    BY <1>2 DEF ReadsInput
  <2>2. /\ Head(up) = up[1] /\ up[1] \in Nat /\ Len(handled) \in Nat /\ Len(up) \in Nat \ {0}
        /\ up[1] + Unread = Len(handled) + 1 /\ Unread = 0
    BY <2>1, UpIs DEF Types, InputInv
  <2>3. Len(frames) \in Nat /\ fed \in Nat
    BY BoundsAssumption DEF Types, UpTypes
  <2>4. Len(handled) < fed
    BY <1>1, <2>2, <2>3 DEF InputInv, Numbered
  <2>5. handled' = Append(handled, Len(handled) + 1)
    BY <2>1, <2>2
  <2>6. Phase' = Phase /\ Joined' = Joined /\ Lost' = Lost
    BY <1>1, <2>1, PhaseStays
  <2>7. QED
    BY <1>1, <2>4, <2>5, <2>6 DEF Promise!Serves, Promise!session, Promise!screen
<1>3. CASE ReadsAttach \/ Serves \/ SendsHistory \/ Subscribes \/ Replies \/ EndOfStream
  <2>1. UNCHANGED handled
    BY <1>3 DEF ReadsAttach, Serves, SendsHistory, Subscribes, SubscribesFrom, Replies,
                EndOfStream
  <2>2. UNCHANGED <<seam, missed>> \/ main \in Waiting
    <3>1. CASE Subscribes
      BY <3>1 DEF Subscribes, SubscribesFrom, OutputInv, Serving, Beginning
    <3>2. CASE ReadsAttach \/ Serves \/ SendsHistory \/ Replies \/ EndOfStream
      BY <3>2 DEF ReadsAttach, Serves, SendsHistory, Replies, EndOfStream, Ends
    <3>3. QED
      BY <1>3, <3>1, <3>2
  <2>3. QED
    BY <1>1, <2>1, <2>2, PhaseStays DEF Unpromised
<1>4. QED
  BY <1>2, <1>3 DEF Handler, Answers

LEMMA QueuesPromised ==
  Forwards \/ ForwardsExit \/ ForwarderEnds \/ DWriter \/ CWriter \/ FeederStops => Unpromised
<1> SUFFICES ASSUME Forwards \/ ForwardsExit \/ ForwarderEnds \/ DWriter \/ CWriter \/ FeederStops
             PROVE  Unpromised
  OBVIOUS
<1>1. UNCHANGED <<emitted, senders, main, seam, missed, shown, outcome, fed, handled>>
  BY DEF Forwards, ForwardsExit, ForwarderEnds, ClosesWith, ForwarderStep,
         DWriter, Writes, WriteBreaks, DWriterStep, CWriter, CWrites, CWriteBreaks,
         CWriterStep, FeederStops, FeederStep, MainStep
<1>2. QED
  BY <1>1, PhaseStays DEF Unpromised

(* What the forwarder skips comes after all that has been shown.           *)
LEMMA LagsPromised == IInv /\ Lags => Promise!Misses \/ Unpromised
<1> SUFFICES ASSUME IInv, Lags PROVE Promise!Misses \/ Unpromised
  OBVIOUS
<1>1. UNCHANGED <<emitted, senders, main, seam, shown, outcome, fed, handled>>
  BY DEF Lags, LagsTo, ForwarderStep
<1>2. CASE main \in Waiting
  BY <1>1, <1>2, PhaseStays DEF Unpromised
<1>3. CASE main \notin Waiting
  <2>1. Born /\ Got = shown
    BY <1>3, BornIs
  <2>2. PICK r \in seam..MaxChunks, q \in seam..MaxChunks : GotTo(r, q)
    BY <2>1, GotIsTo
  <2>3. /\ Phase \in {"open", "over"} /\ Phase' = Phase /\ Joined = seam /\ Joined' = Joined
        /\ Lost = missed /\ Lost' = missed'
    BY <1>1, <1>3 DEF Phase, Joined, Lost, Waiting, IInv, Types, ClientTypes
  <2>4. /\ missed' = missed \cup (position + 1..position')
        /\ \A n \in position + 1..position' : n \in Nat /\ position < n /\ Overtaken(n)
    BY LagIs DEF IInv
  <2>5. ASSUME NEW n \in missed', n \notin missed
        PROVE  seam < n /\ Overtaken(n) /\ \A i \in DOMAIN shown : shown[i] < n
    <3>1. n \in Nat /\ position < n /\ Overtaken(n)
      BY <2>4, <2>5
    <3>2. r < n /\ seam < n
      BY <2>2, <3>1 DEF GotTo
    <3>3. \A i \in DOMAIN shown : shown[i] < n
      BY <2>1, <2>2, <3>1, <3>2 DEF GotTo
    <3>4. QED
      BY <3>1, <3>2, <3>3
  <2>6. Promise!Misses
    BY <1>1, <2>3, <2>4, <2>5
       DEF Promise!Misses, Promise!session, Promise!inputs, Promise!Overtaken, Overtaken
  <2>7. QED
    BY <2>6
<1>4. QED
  BY <1>2, <1>3

(* The response finds in the replay, and in the output that has overtaken  *)
(* it, all there is up to the last chunk of them.                          *)
LEMMA SeqNarrows ==
  ASSUME NEW T, NEW S, NEW s \in Seq(T), \A i \in DOMAIN s : s[i] \in S
  PROVE  s \in Seq(S)
<1>1. Len(s) \in Nat /\ s \in [1..Len(s) -> S]
  OBVIOUS
<1>2. QED
  BY <1>1

LEMMA AttachedPromised == PInv /\ Attached => Promise!Opens
<1> SUFFICES ASSUME PInv, Attached PROVE Promise!Opens
  OBVIOUS
<1> USE DEF PInv, IInv, OutputInv
<1>1. /\ UNCHANGED <<emitted, senders, seam, missed, outcome, fed, handled>>
      /\ main = "asking" /\ main' \in {"live", "resizing"} /\ shown' = history
      /\ down # <<>> /\ Head(down).kind = "attached"
  BY DEF Attached, GoesLive, Asked, MainStep
<1>2. Born
  <2>1. FrameOK(Head(down), Bound, Born)
    BY <1>1, QueueHead DEF QueuesOK, Types, DownTypes
  <2>2. QED
    BY <1>1, <2>1 DEF FrameOK
<1>3. PICK r \in seam..MaxChunks, q \in seam..MaxChunks : GotTo(r, q)
  BY <1>2, GotIsTo
<1>4. /\ seam <= r /\ r <= emitted /\ emitted <= MaxChunks
      /\ seam \in Nat /\ r \in Nat /\ emitted \in Nat /\ MaxChunks \in Nat
      /\ Ascending(Got)
      /\ \A i \in DOMAIN Got : Got[i] \in 1..MaxChunks /\ Got[i] <= r
      /\ \A n \in 1..MaxChunks : seam < n /\ n <= r => (Holds(Got, n) <=> n \notin missed)
  BY <1>3 DEF GotTo
<1>5. shown' = Got /\ Got \in Seq(1..MaxChunks)
  BY <1>1, GotIs DEF Got, Waiting
<1>6. Phase = "asked" /\ Phase' = "open" /\ Joined' = seam /\ Lost' = missed
  BY <1>1 DEF Phase, Joined, Lost
<1>7. Joined' \in 0..emitted
  BY <1>4, <1>6
<1>8. shown' \in Seq(1..emitted) /\ Promise!Ascending(shown')
  <2>1. \A i \in DOMAIN Got : Got[i] \in 1..emitted
    BY <1>4
  <2>2. Got \in Seq(1..emitted)
    BY <1>5, <2>1, SeqNarrows
  <2>3. QED
    BY <1>4, <1>5, <2>2 DEF Ascending, Promise!Ascending
<1>9. ASSUME NEW n \in Lost'
      PROVE  Joined' < n /\ Promise!Overtaken(n) /\ ~Promise!Seen(n)'
  <2>1. n \in 1..MaxChunks /\ seam < n /\ Overtaken(n)
    BY <1>6, <1>9 DEF Beginning, Types, HandlerTypes
  <2>2. ~Holds(Got, n)
    <3>1. CASE n <= r
      BY <1>4, <1>6, <1>9, <2>1, <3>1
    <3>2. CASE ~(n <= r)
      BY <1>4, <3>2 DEF Holds
    <3>3. QED
      BY <3>1, <3>2
  <2>3. QED
    BY <1>5, <1>6, <2>1, <2>2 DEF Promise!Overtaken, Overtaken, Promise!Seen, Holds
<1>10. ASSUME NEW i \in DOMAIN shown' PROVE Promise!Whole(shown[i])'
  <2>1. \A l \in seam + 1..Got[i] : Holds(Got, l) \/ l \in missed
    BY <1>4, <1>5
  <2>2. \A l \in Joined' + 1..shown'[i] : Promise!Seen(l)' \/ l \in Lost'
    BY <1>5, <1>6, <2>1 DEF Holds, Promise!Seen
  <2>3. QED
    BY <2>2 DEF Promise!Whole
<1>11. QED
  BY <1>1, <1>6, <1>7, <1>8, <1>9, <1>10 DEF Promise!Opens, Promise!session, Promise!inputs

LEMMA MainPromised ==
  PInv /\ Main => Unpromised \/ Promise!Opens \/ Promise!Refuses \/ Promise!Takes \/ Promise!Closes
<1> SUFFICES ASSUME PInv, Main
             PROVE  Unpromised \/ Promise!Opens \/ Promise!Refuses \/ Promise!Takes \/ Promise!Closes
  OBVIOUS
<1> USE DEF PInv
<1>1. UNCHANGED <<emitted, senders, seam, missed, handled>>
  BY DEF Main, Collects, OverlooksExit, Attached, Refused, Asked, AttachFails, Resizes,
         TearsDown, TearsDownTo, Returns, LeavesWhen, MainStep, session, handler, forward
<1>2. CASE Collects \/ OverlooksExit
  <2>1. UNCHANGED <<main, shown, outcome, fed>>
    BY <1>2 DEF Collects, OverlooksExit, Asked
  <2>2. QED
    BY <1>1, <2>1, PhaseStays DEF Unpromised
<1>3. CASE Refused \/ AttachFails
  <2>1. UNCHANGED <<shown, outcome, fed>> /\ main = "asking" /\ main' = "failed"
    BY <1>3 DEF Refused, AttachFails, Asked, input
  <2>2. Phase = "asked" /\ Phase' = "refused" /\ UNCHANGED <<Joined, Lost>>
    BY <2>1 DEF Phase, Joined, Lost
  <2>3. QED
    BY <1>1, <2>1, <2>2
       DEF Promise!Refuses, Promise!session, Promise!screen, Promise!inputs
<1>4. CASE Resizes
  <2>1. /\ UNCHANGED <<shown, outcome>> /\ main = "resizing" /\ main' = "live" /\ fed' = 1
        /\ fed = 0
    BY <1>4 DEF Resizes, GoesLive, IInv, InputInv, Ending
  <2>2. Phase = "open" /\ Phase' = "open" /\ UNCHANGED <<Joined, Lost>>
    BY <1>1, <2>1 DEF Phase, Joined, Lost
  <2>3. fed' = fed + 1
    BY <2>1
  <2>4. QED
    BY <1>1, <2>1, <2>2, <2>3 DEF Promise!Takes, Promise!session, Promise!screen
<1>5. CASE TearsDown
  <2>1. UNCHANGED <<shown, outcome, fed>> /\ main = "live" /\ main' = "teardown"
    BY <1>5 DEF TearsDown, TearsDownTo
  <2>2. UNCHANGED <<Phase, Joined, Lost>>
    BY <1>1, <2>1 DEF Phase, Joined, Lost
  <2>3. QED
    BY <1>1, <2>1, <2>2 DEF Unpromised
<1>6. CASE Returns
  <2>1. /\ UNCHANGED <<shown, outcome, fed>> /\ main = "teardown" /\ main' = "returned"
        /\ outcome # "none"
    BY <1>6 DEF Returns, LeavesWhen, input, Leaving
  <2>2. Phase = "open" /\ Phase' = "over" /\ UNCHANGED <<Joined, Lost>>
    BY <1>1, <2>1 DEF Phase, Joined, Lost
  <2>3. QED
    BY <1>1, <2>1, <2>2
       DEF Promise!Closes, Promise!session, Promise!screen, Promise!inputs
<1>7. QED
  BY <1>2, <1>3, <1>4, <1>5, <1>6, AttachedPromised DEF Main

(* A frame is the next chunk, or nothing that is shown.                    *)
LEMMA ReadsPromised == PInv /\ Reads => Promise!Shows \/ Unpromised
<1> SUFFICES ASSUME PInv, Reads PROVE Promise!Shows \/ Unpromised
  OBVIOUS
<1> USE DEF PInv, IInv, OutputInv
<1> DEFINE frame == Head(down)
<1>1. /\ UNCHANGED <<emitted, senders, main, seam, missed, outcome, fed, handled>>
      /\ reader \in Running /\ down # <<>> /\ shown' = shown \o frame.data
  BY DEF Reads, ReaderStep, MainStep
<1>2. main \notin Waiting
  BY <1>1 DEF Beginning, Running
<1>3. /\ Phase \in {"open", "over"} /\ Joined = seam /\ Lost = missed
      /\ UNCHANGED <<Phase, Joined, Lost>>
  BY <1>1, <1>2, PhaseStays DEF Phase, Joined, Lost, Waiting, Types, ClientTypes
<1>4. down \in Seq(Frames) /\ QueueOK(down, Bound, Born, Early) /\ ~Early
  BY <1>2 DEF Types, DownTypes, QueuesOK, Early
<1>5. frame \in Frames /\ FrameOK(frame, Bound, Born) /\ frame.kind # "history"
  BY <1>1, <1>4, QueueHead
<1>6. Born /\ Got = shown
  BY <1>2, BornIs
<1>7. CASE frame.kind = "output"
  <2>1. PICK r \in seam..MaxChunks, q \in seam..MaxChunks : GotTo(r, q)
    BY <1>6, GotIsTo
  <2>2. /\ seam <= r /\ q <= emitted /\ seam \in Nat /\ r \in Nat /\ q \in Nat
        /\ emitted \in Nat /\ MaxChunks \in Nat /\ Spans(down, r, q, missed)
        /\ InOrder(shown, seam, r) /\ emitted <= MaxChunks
        /\ \A l \in 1..MaxChunks : seam < l /\ l <= r => (Holds(shown, l) <=> l \notin missed)
    BY <1>6, <2>1 DEF GotTo, Adjacent
  <2>3. PICK n \in 1..MaxChunks : frame = Output(n) /\ Follows(n, r, q, missed)
    BY <1>1, <1>4, <1>7, <2>2, SpansTailOutput
  <2>4. /\ n \in Nat /\ r < n /\ n <= q /\ n \notin missed
        /\ \A k \in 1..MaxChunks : r < k /\ k < n => k \in missed
    BY <2>3 DEF Follows
  <2>5. shown \in Seq(Nat) /\ frame.data = <<n>>
    BY <1>6, <2>3, GotIs, OutputIs
  <2>6. shown' = Append(shown, n)
    BY <1>1, <2>4, <2>5, JoinOne
  <2>7. Promise!Ascending(shown')
    <3>1. InOrder(Append(shown, n), seam, n)
      BY <2>2, <2>4, <2>5, OrderGrows
    <3>2. QED
      BY <2>6, <3>1 DEF InOrder, Ascending, Promise!Ascending
  <2>8. n \in seam + 1..emitted
    BY <2>2, <2>4
  <2>9. Promise!Whole(n - 1)
    <3>1. SUFFICES ASSUME NEW l \in seam + 1..n - 1 PROVE Holds(shown, l) \/ l \in missed
      BY <1>3 DEF Promise!Whole, Promise!Seen, Holds
    <3>2. l \in 1..MaxChunks /\ l \in Nat /\ seam < l /\ l < n
      BY <2>2, <2>4
    <3>3. QED
      BY <2>2, <2>4, <3>2
  <2>10. Promise!Shows
    BY <1>1, <1>3, <2>4, <2>6, <2>7, <2>8, <2>9
       DEF Promise!Shows, Promise!session, Promise!inputs
  <2>11. QED
    BY <2>10
<1>8. CASE frame.kind # "output"
  <2>1. frame.data = <<>>
    BY <1>5, <1>8 DEF FrameOK
  <2>2. shown \o <<>> = shown
    BY <1>6, GotIs
  <2>3. QED
    BY <1>1, <1>3, <2>1, <2>2 DEF Unpromised
<1>9. QED
  BY <1>7, <1>8

LEMMA FinishIs ==
  ASSUME PInv, main \notin Waiting, outcome = "none"
  PROVE  Phase = "open" /\ Joined = seam /\ Lost = missed
BY DEF PInv, IInv, Types, ClientTypes, Leaving, Phase, Joined, Lost, Waiting

(* Before SessionExited come all the chunks that the forwarder has queued, *)
(* and these are all that it has not missed.                               *)
LEMMA ReadsExitPromised == PInv /\ ReadsExit => Promise!Finishes \/ Unpromised
<1> SUFFICES ASSUME PInv, ReadsExit PROVE Promise!Finishes \/ Unpromised
  OBVIOUS
<1> USE DEF PInv
<1>1. /\ UNCHANGED <<emitted, senders, main, seam, missed, shown, fed, handled>>
      /\ reader \in Running /\ down # <<>> /\ Head(down).kind = "exited"
      /\ outcome' = IF outcome = "none" THEN "exited" ELSE outcome
  BY DEF ReadsExit, ReaderStep, MainStep, Reports
<1>2. main \notin Waiting
  BY <1>1 DEF IInv, OutputInv, Beginning, Running
<1>3. UNCHANGED <<Phase, Joined, Lost>>
  BY <1>1, PhaseStays
<1>4. CASE outcome # "none"
  BY <1>1, <1>3, <1>4 DEF Unpromised
<1>5. CASE outcome = "none"
  <2>1. Phase = "open" /\ Joined = seam /\ Lost = missed
    BY <1>2, <1>5, FinishIs
  <2>2. down \in Seq(Frames)
    BY DEF IInv, Types, DownTypes
  <2>3. ~senders /\ position = emitted /\ ~HasOutput(down) /\ ~HasOutput(queue)
    BY <1>1, <2>2, ExitTail DEF Exiting, Drained
  <2>4. dwriter = "up"
    BY <1>1, <1>2 DEF Leaving, Closed, Waiting, IInv, Types, DownTypes
  <2>5. Born /\ Got = shown
    BY <1>2, BornIs
  <2>6. PICK r \in seam..MaxChunks, q \in seam..MaxChunks : GotTo(r, q)
    BY <2>5, GotIsTo
  <2>7. /\ seam \in Nat /\ r \in Nat /\ q \in Nat /\ emitted \in Nat /\ emitted <= MaxChunks
        /\ MaxChunks \in Nat /\ Spans(down, r, q, missed) /\ Spans(queue, q, emitted, missed)
        /\ \A l \in 1..MaxChunks : seam < l /\ l <= r => (Holds(shown, l) <=> l \notin missed)
    BY <2>3, <2>4, <2>5, <2>6 DEF GotTo, Adjacent
  <2>8. \A k \in 1..MaxChunks : ~Carries(down, k) /\ ~Carries(queue, k)
    BY <2>3 DEF Carries, HasOutput, Output, Frame
  <2>9. Promise!Whole(emitted)
    <3>1. SUFFICES ASSUME NEW l \in seam + 1..emitted PROVE Holds(shown, l) \/ l \in missed
      BY <2>1 DEF Promise!Whole, Promise!Seen, Holds
    <3>2. l \in 1..MaxChunks /\ l \in Nat /\ seam < l /\ l <= emitted
      BY <2>7
    <3>3. CASE l <= r
      BY <2>7, <3>2, <3>3
    <3>4. CASE r < l /\ l <= q
      BY <2>7, <2>8, <3>2, <3>4 DEF Spans
    <3>5. CASE q < l
      BY <2>7, <2>8, <3>2, <3>5 DEF Spans
    <3>6. QED
      BY <2>7, <3>2, <3>3, <3>4, <3>5
  <2>10. Promise!Finishes
    BY <1>1, <1>3, <1>5, <2>1, <2>3, <2>9
       DEF Promise!Finishes, Promise!session, Promise!screen, Promise!inputs
  <2>11. QED
    BY <2>10
<1>6. QED
  BY <1>4, <1>5

LEMMA TasksPromised ==
  PInv /\ (ReadsEnd \/ ReaderStops \/ Stdin) => Promise!Finishes \/ Promise!Takes \/ Unpromised
<1> SUFFICES ASSUME PInv, ReadsEnd \/ ReaderStops \/ Stdin
             PROVE  Promise!Finishes \/ Promise!Takes \/ Unpromised
  OBVIOUS
<1> USE DEF PInv
<1>1. UNCHANGED <<emitted, senders, main, seam, missed, shown, handled>>
  BY DEF ReadsEnd, ReaderStops, ReaderStep, Stdin, Feeds, Detaches, EndOfInput, FeederStep,
         MainStep, session, handler, forward
<1>2. main \notin Waiting
  BY DEF ReadsEnd, ReaderStops, ReaderStep, Stdin, Feeds, Detaches, EndOfInput, FeederStep,
         IInv, InputInv, Ending, OutputInv, Beginning, Running, Waiting
<1>3. UNCHANGED <<Phase, Joined, Lost>>
  BY <1>1, PhaseStays
<1>4. CASE ReadsEnd \/ Detaches \/ EndOfInput
  <2>1. /\ UNCHANGED fed
        /\ \E what \in {"detached", "disconnected"} :
             outcome' = IF outcome = "none" THEN what ELSE outcome
    BY <1>4 DEF ReadsEnd, ReaderStep, Detaches, EndOfInput, Reports, input
  <2>2. CASE outcome = "none"
    <3>1. Phase = "open"
      BY <1>2, <2>2, FinishIs
    <3>2. QED
      BY <1>1, <1>3, <2>1, <2>2, <3>1
         DEF Promise!Finishes, Promise!session, Promise!screen, Promise!inputs
  <2>3. CASE outcome # "none"
    BY <1>1, <1>3, <2>1, <2>3 DEF Unpromised
  <2>4. QED
    BY <2>2, <2>3
<1>5. CASE ReaderStops
  BY <1>1, <1>3, <1>5 DEF ReaderStops, ReaderStep, input, Unpromised
<1>6. CASE Feeds
  <2>1. UNCHANGED outcome /\ fed' = fed + 1 /\ feeder \in Running
    BY <1>6 DEF Feeds, FeederStep
  <2>2. main # "returned"
    BY <2>1 DEF IInv, InputInv, Ending
  <2>3. Phase = "open"
    BY <1>2, <2>2 DEF Phase, Waiting
  <2>4. QED
    BY <1>1, <1>3, <2>1, <2>3 DEF Promise!Takes, Promise!session, Promise!screen
<1>7. QED
  BY <1>4, <1>5, <1>6 DEF Stdin

(* attach.rs and daemon.rs: over every queue, task and failure on the way, *)
(* an attachment shows, serves and ends as Attachment promises.            *)
THEOREM ImplementsAttachment == Spec => AttachmentSpec
<1>1. Init => Promise!Init
  <2>1. ASSUME Init PROVE emitted \in Nat /\ Phase = "asked" /\ Joined = 0 /\ Lost = {}
    BY <2>1 DEF Init, Phase, Joined, Lost
  <2>2. QED
    BY <2>1 DEF Init, Promise!Init
<1>2. PInv /\ [Next]_vars => [Promise!Next]_Promise!vars
  <2> SUFFICES ASSUME PInv, [Next]_vars PROVE Promise!Next \/ UNCHANGED Promise!vars
    OBVIOUS
  <2>1. CASE UNCHANGED vars
    <3>1. UNCHANGED <<emitted, senders, main, seam, missed, shown, outcome, fed, handled>>
      BY <2>1 DEF vars, session, handler, forward, input
    <3>2. Unpromised
      BY <3>1, PhaseStays DEF Unpromised
    <3>3. QED
      BY <3>2, UnpromisedIs
  <2>2. CASE Emits \/ Killed \/ SendersGo \/ DaemonDies
    BY <2>2, WorldPromised, UnpromisedIs DEF Promise!Next
  <2>3. CASE Handler \/ Forwarder \/ DWriter \/ CWriter \/ FeederStops
    BY <2>3, HandlerPromised, LagsPromised, QueuesPromised, UnpromisedIs
       DEF Promise!Next, PInv, Forwarder
  <2>4. CASE Main \/ Reader \/ Stdin
    BY <2>4, MainPromised, ReadsPromised, ReadsExitPromised, TasksPromised, UnpromisedIs
       DEF Promise!Next, Reader
  <2>5. QED
    BY <2>1, <2>2, <2>3, <2>4 DEF Next
<1>3. QED
  BY <1>1, <1>2, InitPInv, PromiseKept, PTL DEF Spec, AttachmentSpec, Promise!Spec

=============================================================================
