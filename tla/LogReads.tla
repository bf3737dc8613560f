------------------------------ MODULE LogReads ------------------------------
(***************************************************************************)
(* What is read from an encrypted log while it grows and forgets: the      *)
(* requests SessionActivityHistory (a client that pages backwards),        *)
(* SessionHistory (one that reads forwards) and SessionSearchHistory, as   *)
(* read_tail_before, read_range and search of haven-daemon/src/history.rs  *)
(* serve them.  The log itself is TailLog, which Transcript implements;    *)
(* the session's mutex makes each request one step.                        *)
(*                                                                         *)
(* Bytes are "n" (newline), "a", "A", "i" (ASCII), "e" (ESC), "[", "m"     *)
(* (the end of an escape sequence), "x" (no UTF-8: from_utf8_lossy makes   *)
(* the three bytes "r1", "r2", "r3" of it) and the two bytes "I1", "I2" of *)
(* one letter whose lower case is "i" and the two bytes "d1", "d2".        *)
(***************************************************************************)
EXTENDS Naturals, Sequences, SequencesExt, FiniteSetsExt

CONSTANTS Payloads,    \* for each kind of client, what is appended at a time
          Window,      \* tail_bytes of a page, length of a range
          Patterns,    \* what is searched for
          Limits,      \* how many matches are asked for
          MaxAppends,  \* bound: appends, for each kind of client
          Unknown,     \* no before_offset yet
          None         \* no search yet

Kinds == {"pager", "follower", "searcher"}
Letters == {"n", "a", "A", "i", "e", "[", "m", "x", "I1", "I2"}
Searches == [pattern : Patterns, insensitive : BOOLEAN, limit : Limits]
Controls == {"n", "e"}            \* the bytes below 0x20
Panic == [panicked |-> TRUE]      \* the handler of the search panics

(* A byte that is no UTF-8 where it is: so is half of a character alone.   *)
Invalid(s, i) ==
  \/ s[i] = "x"
  \/ s[i] = "I1" /\ (i = Len(s) \/ s[i + 1] # "I2")
  \/ s[i] = "I2" /\ (i = 1 \/ s[i - 1] # "I1")

ASSUME BoundsAssumption ==
  /\ DOMAIN Payloads = Kinds
  /\ \A k \in Kinds : /\ Payloads[k] \subseteq Seq(Letters) \ {<<>>} /\ Payloads[k] # {}
                      /\ IsFiniteSet({Len(p) : p \in Payloads[k]})
  /\ \A p \in Payloads["pager"] : Last(p) = "n"    \* an activity is a line
  /\ Window \in Nat \ {0} /\ MaxAppends \in [Kinds -> Nat]
  /\ Patterns \subseteq Seq(Letters) \ {<<>>} /\ Limits \subseteq Nat
  /\ \A p \in Patterns : \A i \in DOMAIN p : ~Invalid(p, i)    \* a str
  /\ Unknown \notin Nat /\ None \notin Searches

VARIABLES
  log,       \* the entries of the log, oldest first
  appended,  \* how many have been appended
  payload,   \* ghost: what each of them was
  kind,      \* the client
  cursor,    \* its next before_offset, or offset
  got,       \* the bytes it has put together
  first,     \* ghost: the plaintext when the pager began
  shifted,   \* ghost: the log has forgotten entries since the client began
  asked,     \* the search that was made
  answer     \* and what came of it

client == <<cursor, got, first>>
query == <<asked, answer>>
vars == <<log, appended, payload, kind, client, shifted, query>>

(* A byte of the plaintext is the place it has in an entry.                *)
Plain == FlattenSeq([i \in DOMAIN log |->
           [k \in 1..log[i].len |-> [id |-> log[i].id, at |-> k]]])
Content == [i \in DOMAIN Plain |-> payload[Plain[i].id][Plain[i].at]]

Longest == Max({Len(p) : p \in Payloads[kind]})

(* Types; a client's offset never passes the end of all that was appended. *)
TypeOK ==
  /\ appended \in 0..MaxAppends[kind] /\ Len(payload) = appended
  /\ Range(payload) \subseteq Payloads[kind]
  /\ \A i \in DOMAIN log : log[i].len = Len(payload[log[i].id])
  /\ kind \in Kinds /\ shifted \in BOOLEAN
  /\ cursor \in 0..(Longest * appended) \cup {Unknown}
  /\ \A i \in DOMAIN got : got[i].at \in DOMAIN payload[got[i].id]
  /\ asked = None => answer = None
  /\ asked # None => answer = Panic \/ answer.total >= Len(answer.matches)

Init ==
  /\ log = <<>> /\ appended = 0 /\ payload = <<>>
  /\ kind \in Kinds
  /\ cursor = IF kind = "pager" THEN Unknown ELSE 0
  /\ got = <<>> /\ first = <<>> /\ shifted = FALSE
  /\ asked = None /\ answer = None

-----------------------------------------------------------------------------
Log == INSTANCE TailLog WITH Lengths <- {Len(p) : p \in UNION Range(Payloads)},
                             kept <- log, added <- appended

Began == cursor # Unknown /\ (kind = "follower" => cursor > 0)

Forgot == log # <<>> /\ (log' = <<>> \/ log'[1] # log[1])

(* The transcript task or SessionAppendActivity appends; some payloads are *)
(* lost, and a truncation forgets the oldest entries.  Nothing is appended *)
(* once a search was made: it is compared with the log it was made in.     *)
Appends ==
  /\ appended < MaxAppends[kind] /\ asked = None
  /\ \E p \in Payloads[kind] : Log!Add(Len(p)) /\ payload' = Append(payload, p)
  /\ shifted' = (shifted \/ (Began /\ Forgot))
  /\ UNCHANGED <<kind, client, query>>

-----------------------------------------------------------------------------
(* read_tail_before.  A window that begins inside the log begins after its *)
(* first newline; without one it is empty, and ends where it begins.       *)
Page(start, end) == [data |-> SubSeq(Plain, start + 1, end), start |-> start]

WindowEnd(before) == IF before = Unknown \/ before > Len(Plain) THEN Len(Plain) ELSE before
WindowStart(end) == IF end > Window THEN end - Window ELSE 0

LineStart(start, end) ==
  IF start = 0 THEN 0 ELSE Min({i \in start + 1..end : Content[i] = "n"} \cup {end})

ReadRaw(before) ==           \* Faulty: the partial line is handed out
  LET end == WindowEnd(before) IN Page(WindowStart(end), end)
ReadUnadjusted(before) ==    \* Faulty: start_offset is not adjusted
  LET end == WindowEnd(before)
  IN [Page(LineStart(WindowStart(end), end), end) EXCEPT !.start = WindowStart(end)]
ReadNarrow(before) ==        \* Faulty: the window is one byte short
  LET end == WindowEnd(before)
  IN Page(LineStart(IF end > Window - 1 THEN end - Window + 1 ELSE 0, end), end)
ReadTailBefore(before) ==
  LET end == WindowEnd(before) IN Page(LineStart(WindowStart(end), end), end)

(* The client feeds the start back as before_offset, until it is 0.        *)
PageBack ==
  /\ kind = "pager" /\ cursor # 0
  /\ LET page == ReadTailBefore(cursor)
     IN /\ cursor' = page.start
        /\ got' = page.data \o got
  /\ first' = IF cursor = Unknown THEN Plain ELSE first
  /\ UNCHANGED <<log, appended, payload, kind, shifted, query>>

(* read_range; a client goes on after the bytes it was given.              *)
ReadRange(offset, length) ==
  SubSeq(Plain, offset + 1, Min({offset + length, Len(Plain)}))

FollowTo(next) ==
  /\ kind = "follower"
  /\ got' = got \o ReadRange(cursor, Window)
  /\ cursor' = next
  /\ UNCHANGED <<log, appended, payload, kind, first, shifted, query>>

FollowBlindly ==    \* Faulty
  kind = "follower" /\ cursor < Len(Plain) + Window /\ FollowTo(cursor + Window)
Follow == FollowTo(cursor + Len(ReadRange(cursor, Window)))

-----------------------------------------------------------------------------
(* search.  Offsets count bytes of what from_utf8_lossy returns.           *)
Lossy(s) == FlattenSeq([i \in DOMAIN s |->
              IF Invalid(s, i) THEN <<"r1", "r2", "r3">> ELSE <<s[i]>>])

Lower(s) == FlattenSeq([i \in DOMAIN s |->
              CASE s[i] = "A" -> <<"a">>
                [] s[i] = "I1" -> <<"i">>
                [] s[i] = "I2" -> <<"d1", "d2">>
                [] OTHER -> <<s[i]>>])

OccursAt(pattern, s, offset) ==
  /\ offset + Len(pattern) <= Len(s)
  /\ SubSeq(s, offset + 1, offset + Len(pattern)) = pattern

(* str::find again and again, each time behind the last match.             *)
FoundStepping(pattern, s, width) ==
  LET from[o \in 0..Len(s) + width] ==
        IF o >= Len(s) THEN <<>>
        ELSE IF OccursAt(pattern, s, o) THEN <<o>> \o from[o + width]
        ELSE from[o + 1]
  IN from[0]

FoundEverywhere(pattern, s) == FoundStepping(pattern, s, 1)    \* Faulty: overlaps
Found(pattern, s) == FoundStepping(pattern, s, Len(pattern))

(* Slicing a string anywhere but between two of its characters panics.     *)
Sliceable(s, offset) ==
  offset = Len(s) \/ (offset < Len(s) /\ s[offset + 1] \notin {"I2", "r2", "r3"})

NewlinesIn(s, from, to) == {o \in from..to - 1 : s[o + 1] = "n"}

LineAround(s, start, end) ==
  SubSeq(s, Max({0} \cup {o + 1 : o \in NewlinesIn(s, 0, start)}) + 1,
            Min({Len(s)} \cup NewlinesIn(s, end, Len(s))))

(* strip_ansi, for the sequences ESC [ ... and ESC with one more byte; of  *)
(* the other bytes it drops those below 0x20.  It skips bytes: where the   *)
(* one behind ESC begins a character of several, the rest of it is left,   *)
(* and pushing that panics.                                                *)
StripAnsi(line) ==
  LET final(i) == Min({Len(line)} \cup
                      {k \in i + 2..Len(line) : line[k] \in {"a", "A", "i", "m", "["}})
      from[i \in 1..Len(line) + 2] ==
        IF i > Len(line) THEN <<>>
        ELSE IF line[i] = "e" /\ i < Len(line)
             THEN from[IF line[i + 1] = "[" THEN final(i) + 1 ELSE i + 2]
        ELSE IF line[i] \in Controls THEN from[i + 1]
        ELSE <<line[i]>> \o from[i + 1]
  IN from[1]

Broken(s) ==
  \E i \in DOMAIN s : \/ s[i] = "I2" /\ (i = 1 \/ s[i - 1] # "I1")
                      \/ s[i] = "r2" /\ (i = 1 \/ s[i - 1] # "r1")

(* push_match.                                                             *)
MatchAt(s, start, width) ==
  [offset  |-> start,
   line    |-> Cardinality(NewlinesIn(s, 0, start)) + 1,
   preview |-> StripAnsi(LineAround(s, start, start + width))]

PanicsAt(s, start, width) ==
  \/ ~Sliceable(s, start) \/ ~Sliceable(s, start + width)
  \/ Broken(StripAnsi(LineAround(s, start, start + width)))

(* With case_insensitive the offsets are those in the lower-case text, and *)
(* are used in the text itself.  It stops counting at 4 * limit + 1.       *)
ResultsIn(found, width, limit) ==
  LET s == Lossy(Content)
      shown == SubSeq(found, 1, Min({Len(found), limit}))
      total == Min({Len(found), 4 * limit + 1})
  IN IF \E i \in DOMAIN shown : PanicsAt(s, shown[i], width) THEN Panic
     ELSE [matches |-> [i \in DOMAIN shown |-> MatchAt(s, shown[i], width)],
           total |-> total, truncated |-> total > Len(shown)]

Results(pattern, insensitive, limit) ==
  IF insensitive
  THEN ResultsIn(Found(Lower(pattern), Lower(Lossy(Content))), Len(Lower(pattern)), limit)
  ELSE ResultsIn(Found(pattern, Lossy(Content)), Len(pattern), limit)

SearchHistory ==
  /\ kind = "searcher" /\ asked = None
  /\ \E pattern \in Patterns, insensitive \in BOOLEAN, limit \in Limits :
       /\ asked' = [pattern |-> pattern, insensitive |-> insensitive, limit |-> limit]
       /\ answer' = Results(pattern, insensitive, limit)
  /\ UNCHANGED <<log, appended, payload, kind, client, shifted>>

-----------------------------------------------------------------------------
Next == Appends \/ PageBack \/ Follow \/ SearchHistory

(* A pager goes on asking for older pages.                                 *)
Spec == Init /\ [][Next]_vars /\ WF_vars(PageBack)

-----------------------------------------------------------------------------
(* As long as the log has forgotten nothing since the client began, what   *)
(* it has put together is one piece of the plaintext: for a pager from the *)
(* start of a line to the end it began at, for a follower from the start   *)
(* (read_tail_before, read_range).                                         *)
ReadsJoin ==
  ~shifted =>
    /\ (kind = "pager" /\ cursor # Unknown) =>
         /\ got = SubSeq(first, cursor + 1, Len(first))
         /\ cursor > 0 => Content[cursor] = "n"
    /\ kind = "follower" => got = SubSeq(Plain, 1, cursor)

(* A truncation between two requests shifts every offset.  A pager then    *)
(* reads some bytes again, but misses none that are still there; a         *)
(* follower misses some, but is never given one a second time.             *)
Before(b, c) == b.id < c.id \/ (b.id = c.id /\ b.at < c.at)

ForgettingIsSafe ==
  /\ (kind = "pager" /\ cursor # Unknown) =>
       \A b \in Range(first) \ Range(got) :
         \A o \in DOMAIN Plain : Plain[o] = b => o <= cursor
  /\ kind = "follower" =>
       \A i, j \in DOMAIN got : i < j => Before(got[i], got[j])

(* A pager whose window is longer than every record comes to the start of  *)
(* the log.  A window of a record's length is not enough: the first        *)
(* newline in it may be the last byte.                                     *)
ReachesStart == Longest < Window => (kind = "pager" ~> cursor = 0)

(* What search promises in a text s: the matches counted are the leftmost  *)
(* that do not overlap, the first `limit` of them are returned, `total`    *)
(* counts them up to a bound, and each comes with its line number.         *)
IsLeftmost(offsets, pattern, s) ==
  /\ \A o, m \in offsets : m < o => m + Len(pattern) <= o
  /\ \A o \in 0..Len(s) - 1 :
       OccursAt(pattern, s, o) => \E m \in offsets : m <= o /\ o < m + Len(pattern)

LineOf(s, offset) == Cardinality({o \in 1..offset : s[o] = "n"}) + 1

Describes(r, pattern, s, limit) ==
  LET shown == {r.matches[i].offset : i \in DOMAIN r.matches}
  IN /\ \E all \in SUBSET {o \in 0..Len(s) - 1 : OccursAt(pattern, s, o)} :
          /\ IsLeftmost(all, pattern, s)
          /\ r.total = Min({Cardinality(all), 4 * limit + 1})
          /\ shown \subseteq all
          /\ \A o \in shown, m \in all \ shown : o < m
          /\ Cardinality(shown) = Min({Cardinality(all), limit})
     /\ r.truncated <=> r.total > Cardinality(shown)
     /\ \A i \in DOMAIN r.matches : r.matches[i].line = LineOf(s, r.matches[i].offset)

Tame == \A i \in DOMAIN Content : Content[i] \notin {"x", "I1", "I2"}
Escapes == "e" \in Range(Content)

(* Where there are no escapes, so that nothing is to be scrubbed before it *)
(* is matched: a search that respects case describes the matches of the    *)
(* text, and one that ignores it is sure to do so in a text of ASCII       *)
(* bytes.  In every text a preview is free of escapes and newlines, and a  *)
(* search that respects case panics only at an escape in front of a longer *)
(* character.                                                              *)
SearchAgrees ==
  asked # None =>
    /\ answer = Panic => ~Tame /\ (asked.insensitive \/ Escapes)
    /\ answer # Panic =>
         \A i \in DOMAIN answer.matches : Range(answer.matches[i].preview) \cap Controls = {}
    /\ (~Escapes /\ ~asked.insensitive) =>
         Describes(answer, asked.pattern, Lossy(Content), asked.limit)
    /\ (~Escapes /\ asked.insensitive /\ Tame) =>
         Describes(answer, Lower(asked.pattern), Lower(Content), asked.limit)
=============================================================================
