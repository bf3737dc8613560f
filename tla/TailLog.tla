------------------------------ MODULE TailLog ------------------------------
(***************************************************************************)
(* What an encrypted log promises its readers (haven-daemon/src/history.rs,*)
(* lines 83-96 and 452): entries come out in the order they went in, an    *)
(* entry may be missing if writing it went wrong, and only the oldest ones *)
(* are ever forgotten, about half of the bytes at a time.                  *)
(***************************************************************************)
EXTENDS Naturals, Sequences, Functions

CONSTANT Lengths    \* plaintext lengths of entries

VARIABLES kept,     \* the entries that can be read, oldest first
          added     \* how many have been handed in

Bytes(s) == SumFunction([i \in DOMAIN s |-> s[i].len])

From(s, i) == SubSeq(s, i, Len(s))

Init == kept = <<>> /\ added = 0

(* Half the bytes, rounded down, or more stay.                             *)
Forgets(s) == \E i \in 1..Len(s) : /\ Bytes(From(s, i)) >= Bytes(s) \div 2
                                   /\ kept' = From(s, i)

Add(len) ==
  /\ added' = added + 1
  /\ \E s \in {kept, Append(kept, [id |-> added + 1, len |-> len])} :
       kept' = s \/ Forgets(s)

Next == \E len \in Lengths : Add(len)

Spec == Init /\ [][Next]_<<kept, added>>

InOrder ==
  /\ \A i \in DOMAIN kept : kept[i].id \in 1..added
  /\ \A i, j \in DOMAIN kept : i < j => kept[i].id < kept[j].id
=============================================================================
