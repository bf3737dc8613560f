----------------------------- MODULE Attachment -----------------------------
(***************************************************************************)
(* What an attachment promises its user, whatever lies between terminal    *)
(* and session (haven-client/src/attach.rs, lines 92-420): some of the     *)
(* output is replayed, and from one place on it is shown live, chunk by    *)
(* chunk, less what was overtaken by Slack newer chunks before the         *)
(* attachment came to it; all in order and nothing twice.  Inputs are      *)
(* served in the order in which they were taken.  It ends for one reason,  *)
(* and when that is the exit of the session, nothing the session put out   *)
(* remains to be shown.                                                    *)
(***************************************************************************)
EXTENDS Naturals, Sequences

CONSTANT Slack

VARIABLES put,      \* chunks the session has put out
          alive,    \* there may be more
          phase,    \* "asked", then "refused", or "open" and then "over"
          joined,   \* the live output begins behind this chunk
          shown,    \* the chunks on the terminal
          missed,   \* the live chunks that were overtaken
          ending,   \* why the attachment ends, or "none"
          taken,    \* inputs that were taken
          served    \* inputs the session has got

session == <<put, alive>>
screen == <<joined, shown, missed>>
inputs == <<taken, served>>
vars == <<session, phase, screen, ending, inputs>>

Init ==
  /\ put \in Nat /\ alive = TRUE /\ phase = "asked"
  /\ joined = 0 /\ shown = <<>> /\ missed = {}
  /\ ending = "none" /\ taken = 0 /\ served = <<>>

PutsOut == alive /\ put' = put + 1 /\ UNCHANGED <<alive, phase, screen, ending, inputs>>

Dies == alive /\ alive' = FALSE /\ UNCHANGED <<put, phase, screen, ending, inputs>>

Ascending(s) == \A i, j \in DOMAIN s : i < j => s[i] < s[j]
Seen(n) == \E i \in DOMAIN shown : shown[i] = n
Overtaken(n) == n + Slack <= put

(* Nothing that comes after the seam is unaccounted for, up to n.          *)
Whole(n) == \A l \in joined + 1..n : Seen(l) \/ l \in missed

(* Something may be missing in the replay, and between it and the seam.    *)
Opens ==
  /\ phase = "asked" /\ phase' = "open"
  /\ joined' \in 0..put
  /\ shown' \in Seq(1..put) /\ Ascending(shown')
  /\ \A n \in missed' : joined' < n /\ Overtaken(n) /\ ~Seen(n)'
  /\ \A i \in DOMAIN shown' : Whole(shown[i])'
  /\ UNCHANGED <<session, ending, inputs>>

Refuses == phase = "asked" /\ phase' = "refused" /\ UNCHANGED <<session, screen, ending, inputs>>

(* It may go on while the attachment is torn down.                         *)
Shows ==
  /\ phase \in {"open", "over"}
  /\ \E n \in joined + 1..put :
       /\ n \notin missed /\ Whole(n - 1)
       /\ shown' = Append(shown, n) /\ Ascending(shown')
  /\ UNCHANGED <<session, phase, joined, missed, ending, inputs>>

Misses ==
  /\ phase \in {"open", "over"}
  /\ missed \subseteq missed'
  /\ \A n \in missed' \ missed :
       joined < n /\ Overtaken(n) /\ \A i \in DOMAIN shown : shown[i] < n
  /\ UNCHANGED <<session, phase, joined, shown, ending, inputs>>

Takes ==
  /\ phase = "open" /\ taken' = taken + 1
  /\ UNCHANGED <<session, phase, screen, ending, served>>

(* Whatever became of the attachment, until the input is lost.             *)
Serves ==
  /\ Len(served) < taken /\ served' = Append(served, Len(served) + 1)
  /\ UNCHANGED <<session, phase, screen, ending, taken>>

Finishes ==
  /\ phase = "open" /\ ending = "none"
  /\ \/ ending' \in {"detached", "disconnected"}
     \/ ending' = "exited" /\ ~alive /\ Whole(put)
  /\ UNCHANGED <<session, phase, screen, inputs>>

Closes ==
  /\ phase = "open" /\ ending # "none" /\ phase' = "over"
  /\ UNCHANGED <<session, screen, ending, inputs>>

Next == PutsOut \/ Dies \/ Opens \/ Refuses \/ Shows \/ Misses \/ Takes \/ Serves
        \/ Finishes \/ Closes

Spec == Init /\ [][Next]_vars
=============================================================================
