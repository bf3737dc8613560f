--------------------------- MODULE AttachKeys_proof ---------------------------
(***************************************************************************)
(* For any keys, any texts, channels of any size and any number of         *)
(* attachments: the types; the session is written exactly what is typed    *)
(* for it; and a stdin thread that is left over takes one read at most.    *)
(*                                                                         *)
(* The keys that are fed, that wait in the channel and that the thread     *)
(* holds make up one Line, in the order of typing (InLine).  The parser is *)
(* where the reference is after the keys it was fed, and a feed adds to    *)
(* its events what the reference makes of the keys, run by run instead of  *)
(* key by key (FeedFollows).  Nothing follows an end (Unended): as long as *)
(* the task takes keys, either none has been fed, or it is still to come   *)
(* in todo.                                                                *)
(***************************************************************************)
EXTENDS AttachKeys, FiniteSetTheorems, SequenceTheorems, WellFoundedInduction,
        TLAPS

(* Induction: a set of numbers with 0 in it and the next of each is Nat.   *)
LEMMA LeastIn ==
  ASSUME NEW R, IsWellFoundedOn(R, Nat), \A x, y \in Nat : y < x => <<y, x>> \in R,
         NEW S \in SUBSET Nat, S # {}
  PROVE  \E len \in S : \A m \in S : len <= m
<1>1. PICK x \in S : \A y \in S : ~(<<y, x>> \in R)
  BY WFMin, S \subseteq Nat
<1>2. \A y \in S : ~(y < x)
  BY <1>1
<1>3. QED
  BY <1>2

LEMMA Least ==
  ASSUME NEW S \in SUBSET Nat, S # {}
  PROVE  \E len \in S : \A m \in S : len <= m
<1>1. \A x, y \in Nat : y < x => <<y, x>> \in OpToRel(<, Nat)
  BY DEF OpToRel
<1>2. \E R : IsWellFoundedOn(R, Nat) /\ \A x, y \in Nat : y < x => <<y, x>> \in R
  BY <1>1, NatLessThanWellFounded
<1>3. QED
  BY <1>2, LeastIn

LEMMA AllOfNat ==
  ASSUME NEW S \in SUBSET Nat, 0 \in S, \A len \in S : len + 1 \in S
  PROVE  Nat \subseteq S
<1> SUFFICES ASSUME Nat \ S # {} PROVE FALSE
  OBVIOUS
<1>1. PICK len \in Nat \ S : \A m \in Nat \ S : len <= m
  BY Least
<1>2. len - 1 \in S
  BY <1>1
<1>3. QED
  BY <1>1, <1>2

-----------------------------------------------------------------------------
(* FlattenSeq strings sequences together, one after the other.             *)
Strung(p, i, f) == IF i = 1 THEN p[i] ELSE f[i - 1] \o p[i]

IsFlat(p, len, f) == f = [i \in 1..len |-> Strung(p, i, f)]

LEMMA FlatExists == ASSUME NEW p, NEW len \in Nat PROVE \E f : IsFlat(p, len, f)
<1> DEFINE N == {m \in Nat : \E f : IsFlat(p, m, f)}
<1>1. 0 \in N
  <2>1. IsFlat(p, 0, <<>>)
    BY DEF IsFlat
  <2>2. QED
    BY <2>1
<1>2. ASSUME NEW m \in N PROVE m + 1 \in N
  <2>1. PICK g : IsFlat(p, m, g)
    OBVIOUS
  <2> DEFINE h == [i \in 1..m+1 |-> Strung(p, i, g)]
  <2>2. \A i \in 1..m : g[i] = Strung(p, i, g) /\ h[i] = Strung(p, i, g)
    BY <2>1 DEF IsFlat
  <2>3. ASSUME NEW i \in 1..m+1 PROVE h[i] = Strung(p, i, h)
    <3>1. h[i] = Strung(p, i, g)
      OBVIOUS
    <3>2. CASE i = 1
      BY <3>1, <3>2 DEF Strung
    <3>3. CASE i # 1
      <4>1. i - 1 \in 1..m
        BY <3>3
      <4>2. g[i - 1] = h[i - 1]
        BY <2>2, <4>1
      <4>3. QED
        BY <3>1, <3>3, <4>2 DEF Strung
    <3>4. QED
      BY <3>2, <3>3
  <2>4. h = [i \in 1..m+1 |-> Strung(p, i, h)]
    BY <2>3
  <2>5. IsFlat(p, m + 1, h)
    BY <2>4 DEF IsFlat
  <2>6. QED
    BY <2>5
<1>3. Nat \subseteq N
  BY <1>1, <1>2, AllOfNat
<1>4. QED
  BY <1>3

LEMMA FlatAgrees ==
  ASSUME NEW p, NEW len \in Nat, NEW f, IsFlat(p, len, f),
         NEW q, NEW m \in Nat, len <= m, NEW g, IsFlat(q, m, g),
         \A i \in 1..len : p[i] = q[i]
  PROVE  \A i \in 1..len : f[i] = g[i]
<1> DEFINE N == {j \in Nat : j \in 1..len => f[j] = g[j]}
<1>1. 0 \in N
  OBVIOUS
<1>2. ASSUME NEW j \in N PROVE j + 1 \in N
  <2> SUFFICES ASSUME j + 1 \in 1..len PROVE f[j + 1] = g[j + 1]
    OBVIOUS
  <2>1. j + 1 \in 1..len /\ j + 1 \in 1..m /\ (j + 1) - 1 = j
    OBVIOUS
  <2>2. f[j + 1] = Strung(p, j + 1, f) /\ g[j + 1] = Strung(q, j + 1, g)
    BY <2>1 DEF IsFlat
  <2>3. p[j + 1] = q[j + 1]
    OBVIOUS
  <2>4. CASE j = 0
    BY <2>2, <2>3, <2>4 DEF Strung
  <2>5. CASE j # 0
    <3>1. f[j] = g[j] /\ j + 1 # 1
      BY <2>5
    <3>2. QED
      BY <2>1, <2>2, <2>3, <3>1 DEF Strung
  <2>6. QED
    BY <2>4, <2>5
<1>3. Nat \subseteq N
  BY <1>1, <1>2, AllOfNat
<1>4. QED
  BY <1>3

LEMMA FlattenIs ==
  ASSUME NEW p, NEW len \in Nat \ {0}, Len(p) = len
  PROVE  \E f : IsFlat(p, len, f) /\ FlattenSeq(p) = f[len]
<1> DEFINE f == CHOOSE g : IsFlat(p, len, g)
<1>1. IsFlat(p, len, f)
  BY FlatExists
<1>2. FlattenSeq(p) = f[len]
  BY DEF FlattenSeq, IsFlat, Strung
<1>3. QED
  BY <1>1, <1>2

LEMMA FlattenEmpty == FlattenSeq(<<>>) = <<>>
BY DEF FlattenSeq

LEMMA FlattenAppend ==
  ASSUME NEW S, NEW p \in Seq(Seq(S)), NEW e \in Seq(S), FlattenSeq(p) \in Seq(S)
  PROVE  FlattenSeq(Append(p, e)) = FlattenSeq(p) \o e
<1> DEFINE q == Append(p, e)
           len == Len(p)
<1>1. /\ len \in Nat /\ Len(q) = len + 1 /\ q[len + 1] = e /\ \A i \in 1..len : q[i] = p[i]
      /\ len + 1 \in Nat \ {0} /\ len + 1 \in 1..len+1
  OBVIOUS
<1> HIDE DEF q, len
<1>2. PICK g : IsFlat(q, len + 1, g) /\ FlattenSeq(q) = g[len + 1]
  BY <1>1, FlattenIs
<1>3. g[len + 1] = Strung(q, len + 1, g)
  BY <1>1, <1>2 DEF IsFlat
<1>4. CASE len = 0
  <2>1. p = <<>>
    BY <1>4 DEF len
  <2>2. FlattenSeq(q) = e
    BY <1>1, <1>2, <1>3, <1>4 DEF Strung
  <2>3. QED
    BY <2>1, <2>2, FlattenEmpty, ConcatEmptySeq DEF q
<1>5. CASE len # 0
  <2>1. PICK f : IsFlat(p, len, f) /\ FlattenSeq(p) = f[len]
    BY <1>1, <1>5, FlattenIs DEF len
  <2>2. \A i \in 1..len : f[i] = g[i]
    <3>1. \A i \in 1..len : p[i] = q[i]
      BY <1>1
    <3>2. IsFlat(p, len, f) /\ IsFlat(q, len + 1, g)
      BY <1>2, <2>1
    <3>3. len \in Nat /\ len + 1 \in Nat /\ len <= len + 1
      BY <1>1
    <3>4. QED
      BY <3>1, <3>2, <3>3, FlatAgrees
  <2>3. g[len + 1] = g[len] \o e
    <3>1. len + 1 # 1 /\ (len + 1) - 1 = len
      BY <1>1, <1>5
    <3>2. Strung(q, len + 1, g) = g[len] \o q[len + 1]
      BY <3>1 DEF Strung
    <3>3. QED
      BY <1>1, <1>3, <3>2
  <2>4. QED
    <3>1. f[len] = g[len]
      BY <1>1, <1>5, <2>2
    <3>2. QED
      BY <1>2, <2>1, <2>3, <3>1 DEF q
<1>6. QED
  BY <1>4, <1>5

-----------------------------------------------------------------------------
LEMMA Regroup ==
  ASSUME NEW S, NEW a \in Seq(S), NEW b \in Seq(S), NEW c \in Seq(S)
  PROVE  (a \o b) \o c = a \o (b \o c)
BY ConcatAssociative

LEMMA RegroupNat == \A a, b, c \in Seq(Nat) : (a \o b) \o c = a \o (b \o c)
<1> SUFFICES ASSUME NEW a \in Seq(Nat), NEW b \in Seq(Nat), NEW c \in Seq(Nat)
             PROVE  (a \o b) \o c = a \o (b \o c)
  OBVIOUS
<1>1. QED
  BY ConcatAssociative

LEMMA FlattenIsSeq ==
  ASSUME NEW S
  PROVE  \A p \in Seq(Seq(S)) : FlattenSeq(p) \in Seq(S)
<1> DEFINE N == {len \in Nat : \A p \in Seq(Seq(S)) :
                   Len(p) = len => FlattenSeq(p) \in Seq(S)}
<1>1. 0 \in N
  <2>1. \A p \in Seq(Seq(S)) : Len(p) = 0 => p = <<>>
    OBVIOUS
  <2>2. QED
    BY <2>1, FlattenEmpty
<1>2. ASSUME NEW len \in N PROVE len + 1 \in N
  <2> SUFFICES ASSUME NEW p \in Seq(Seq(S)), Len(p) = len + 1
               PROVE  FlattenSeq(p) \in Seq(S)
    OBVIOUS
  <2>1. PICK t \in Seq(Seq(S)), e \in Seq(S) : p = Append(t, e)
    <3>1. p # <<>>
      OBVIOUS
    <3>2. QED
      BY <3>1, SequenceEmptyOrAppend
  <2>2. Len(t) = len
    BY <2>1
  <2>3. FlattenSeq(t) \in Seq(S)
    BY <2>2
  <2>4. FlattenSeq(p) = FlattenSeq(t) \o e
    BY <2>1, <2>3, FlattenAppend
  <2>5. QED
    BY <2>3, <2>4, ConcatProperties
<1>3. Nat \subseteq N
  BY <1>1, <1>2, AllOfNat
<1>4. QED
  BY <1>3

Joins(p, q) == FlattenSeq(p \o q) = FlattenSeq(p) \o FlattenSeq(q)

LEMMA JoinsNext ==
  ASSUME NEW S, NEW p \in Seq(Seq(S)), NEW v \in Seq(Seq(S)), NEW e \in Seq(S),
         Joins(p, v)
  PROVE  Joins(p, Append(v, e))
<1>1. p \o Append(v, e) = Append(p \o v, e) /\ p \o v \in Seq(Seq(S))
  <2>1. /\ Append(v, e) = v \o <<e>> /\ p \o v \in Seq(Seq(S))
        /\ <<e>> \in Seq(Seq(S))
    BY AppendIsConcat, ConcatProperties
  <2>2. p \o (v \o <<e>>) = (p \o v) \o <<e>>
    BY <2>1, ConcatAssociative
  <2>3. Append(p \o v, e) = (p \o v) \o <<e>>
    BY <2>1, AppendIsConcat
  <2>4. QED
    BY <2>1, <2>2, <2>3
<1>2. /\ FlattenSeq(p) \in Seq(S) /\ FlattenSeq(v) \in Seq(S)
      /\ FlattenSeq(p \o v) \in Seq(S)
  BY <1>1, FlattenIsSeq
<1>3. /\ FlattenSeq(Append(p \o v, e)) = FlattenSeq(p \o v) \o e
      /\ FlattenSeq(Append(v, e)) = FlattenSeq(v) \o e
  BY <1>1, <1>2, FlattenAppend
<1>4. (FlattenSeq(p) \o FlattenSeq(v)) \o e = FlattenSeq(p) \o (FlattenSeq(v) \o e)
  BY <1>2, Regroup, SMTT(30)
<1>5. QED
  BY <1>1, <1>3, <1>4 DEF Joins

LEMMA FlattenConcat ==
  ASSUME NEW S, NEW p \in Seq(Seq(S)), NEW q \in Seq(Seq(S))
  PROVE  FlattenSeq(p \o q) = FlattenSeq(p) \o FlattenSeq(q)
<1> DEFINE N == {len \in Nat : \A t \in Seq(Seq(S)) : Len(t) = len => Joins(p, t)}
<1>1. 0 \in N
  <2>1. \A t \in Seq(Seq(S)) : Len(t) = 0 => t = <<>>
    OBVIOUS
  <2>2. Joins(p, <<>>)
    <3>1. p \o <<>> = p /\ FlattenSeq(p) \in Seq(S)
      BY ConcatEmptySeq, FlattenIsSeq
    <3>2. QED
      BY <3>1, FlattenEmpty, ConcatEmptySeq DEF Joins
  <2>3. QED
    BY <2>1, <2>2
<1>2. ASSUME NEW len \in N PROVE len + 1 \in N
  <2> SUFFICES ASSUME NEW t \in Seq(Seq(S)), Len(t) = len + 1 PROVE Joins(p, t)
    OBVIOUS
  <2>1. PICK v \in Seq(Seq(S)), e \in Seq(S) : t = Append(v, e)
    <3>1. t # <<>>
      OBVIOUS
    <3>2. QED
      BY <3>1, SequenceEmptyOrAppend
  <2>2. Len(v) = len
    BY <2>1
  <2>3. Joins(p, v)
    BY <2>2
  <2>4. Joins(p, Append(v, e))
    BY <2>3, JoinsNext
  <2>5. QED
    BY <2>1, <2>4
<1>3. Nat \subseteq N
  BY <1>1, <1>2, AllOfNat
<1>4. Joins(p, q)
  BY <1>3
<1>5. QED
  BY <1>4 DEF Joins

LEMMA FlattenCons ==
  ASSUME NEW S, NEW p \in Seq(Seq(S)), p # <<>>
  PROVE  /\ Head(p) \in Seq(S) /\ Tail(p) \in Seq(Seq(S))
         /\ FlattenSeq(p) = Head(p) \o FlattenSeq(Tail(p))
<1>1. Head(p) \in Seq(S) /\ Tail(p) \in Seq(Seq(S)) /\ p = <<Head(p)>> \o Tail(p)
  BY HeadTailProperties
<1>2. <<Head(p)>> \in Seq(Seq(S)) /\ <<Head(p)>> = Append(<<>>, Head(p))
  BY <1>1
<1>3. FlattenSeq(<<Head(p)>>) = Head(p)
  <2>1. <<>> \in Seq(Seq(S)) /\ FlattenSeq(<<>>) = <<>> /\ <<>> \in Seq(S)
    BY FlattenEmpty
  <2>2. FlattenSeq(Append(<<>>, Head(p))) = FlattenSeq(<<>>) \o Head(p)
    BY <1>1, <2>1, FlattenAppend
  <2>3. QED
    BY <1>1, <1>2, <2>1, <2>2, ConcatEmptySeq
<1>4. FlattenSeq(<<Head(p)>> \o Tail(p)) = FlattenSeq(<<Head(p)>>) \o FlattenSeq(Tail(p))
  BY <1>1, <1>2, FlattenConcat
<1>5. QED
  BY <1>1, <1>3, <1>4

-----------------------------------------------------------------------------
(* What is written of some events, and whether they end the attachment.    *)
Event == [do : Ends \cup {"write", "Help"}, keys : Seq(Nat)]

HasEnd(ev) == \E i \in DOMAIN ev : ev[i].do \in Ends
EndsBy(ev, i) == \E j \in 1..i : ev[j].do \in Ends
Kept(ev) == [i \in DOMAIN ev |-> IF EndsBy(ev, i) THEN <<>> ELSE ev[i].keys]

LEMMA KeysAre == ASSUME NEW ev PROVE KeysBeforeEnd(ev) = FlattenSeq(Kept(ev))
<1>1. Kept(ev) = [i \in DOMAIN ev |-> IF \A j \in 1..i : ev[j].do \notin Ends
                                      THEN ev[i].keys ELSE <<>>]
  BY DEF Kept, EndsBy
<1>2. QED
  BY <1>1 DEF KeysBeforeEnd

LEMMA KeptIs ==
  ASSUME NEW ev \in Seq(Event)
  PROVE  /\ Kept(ev) \in Seq(Seq(Nat)) /\ Len(Kept(ev)) = Len(ev)
         /\ Len(ev) \in Nat
         /\ \A i \in 1..Len(ev) :
              Kept(ev)[i] = IF EndsBy(ev, i) THEN <<>> ELSE ev[i].keys
<1>1. DOMAIN ev = 1..Len(ev) /\ Len(ev) \in Nat
      /\ \A i \in 1..Len(ev) : ev[i] \in Event
  OBVIOUS
<1>2. \A i \in 1..Len(ev) : ev[i].keys \in Seq(Nat)
  BY <1>1 DEF Event
<1>3. Kept(ev) \in [1..Len(ev) -> Seq(Nat)]
  BY <1>1, <1>2 DEF Kept
<1>4. QED
  BY <1>1, <1>3 DEF Kept

LEMMA KeysTyped == ASSUME NEW ev \in Seq(Event) PROVE KeysBeforeEnd(ev) \in Seq(Nat)
BY KeysAre, KeptIs, FlattenIsSeq

LEMMA KeysOfNone == KeysBeforeEnd(<<>>) = <<>> /\ ~HasEnd(<<>>)
<1>1. Kept(<<>>) = <<>>
  BY DEF Kept
<1>2. QED
  BY <1>1, KeysAre, FlattenEmpty DEF HasEnd

(* One event more.                                                         *)
Following(keys, ended, e) ==
  IF ended \/ e.do \in Ends THEN keys ELSE keys \o e.keys

LEMMA KeysAppend ==
  ASSUME NEW ev \in Seq(Event), NEW e \in Event
  PROVE  /\ KeysBeforeEnd(Append(ev, e))
              = Following(KeysBeforeEnd(ev), HasEnd(ev), e)
         /\ HasEnd(Append(ev, e)) <=> HasEnd(ev) \/ e.do \in Ends
<1>1. PICK t \in Seq(Event) : t = Append(ev, e)
  BY AppendProperties
<1>2. /\ Len(t) = Len(ev) + 1 /\ Len(ev) \in Nat /\ t[Len(ev) + 1] = e
      /\ \A i \in 1..Len(ev) : t[i] = ev[i]
      /\ DOMAIN t = 1..Len(t) /\ DOMAIN ev = 1..Len(ev)
  BY <1>1
<1>3. HasEnd(t) <=> HasEnd(ev) \/ e.do \in Ends
  <2>1. 1..Len(t) = 1..Len(ev) \cup {Len(ev) + 1}
    BY <1>2
  <2>2. QED
    BY <1>2, <2>1 DEF HasEnd
<1>4. \A i \in 1..Len(ev) : EndsBy(t, i) <=> EndsBy(ev, i)
  <2> TAKE i \in 1..Len(ev)
  <2>1. \A j \in 1..i : j \in 1..Len(ev)
    BY <1>2
  <2>2. QED
    BY <1>2, <2>1 DEF EndsBy
<1>5. EndsBy(t, Len(ev) + 1) <=> HasEnd(t)
  BY <1>2 DEF EndsBy, HasEnd
<1> DEFINE x == IF HasEnd(t) THEN <<>> ELSE e.keys
<1>6. x \in Seq(Nat) /\ e.keys \in Seq(Nat)
  BY DEF Event
<1>7. Kept(t) = Append(Kept(ev), x)
  <2>1. PICK a \in Seq(Seq(Nat)) : a = Kept(t) /\ Len(a) = Len(ev) + 1
    BY <1>2, KeptIs
  <2>2. PICK b \in Seq(Seq(Nat)) : b = Append(Kept(ev), x) /\ Len(b) = Len(ev) + 1
    <3> HIDE DEF x
    <3>1. PICK k \in Seq(Seq(Nat)) : k = Kept(ev) /\ Len(k) = Len(ev)
      BY KeptIs
    <3>2. PICK y \in Seq(Nat) : y = x
      BY <1>6
    <3>3. Append(k, y) \in Seq(Seq(Nat)) /\ Len(Append(k, y)) = Len(k) + 1
      BY AppendProperties
    <3>4. QED
      BY <3>1, <3>2, <3>3
  <2>3. ASSUME NEW i \in 1..Len(a) PROVE a[i] = b[i]
    <3>1. CASE i = Len(ev) + 1
      <4>1. a[i] = x
        BY <1>2, <1>5, <2>1, <3>1, KeptIs
      <4>2. b[i] = x
        BY <1>6, <2>2, <3>1, KeptIs
      <4>3. QED
        BY <4>1, <4>2
    <3>2. CASE i # Len(ev) + 1
      <4>1. i \in 1..Len(ev)
        BY <1>2, <2>1, <3>2
      <4>2. a[i] = Kept(ev)[i]
        BY <1>2, <1>4, <2>1, <4>1, KeptIs
      <4>3. b[i] = Kept(ev)[i]
        BY <1>6, <2>2, <4>1, KeptIs
      <4>4. QED
        BY <4>2, <4>3
    <3>3. QED
      BY <3>1, <3>2
  <2>4. a = b
    BY <2>1, <2>2, <2>3, SeqEqual
  <2>5. QED
    BY <2>1, <2>2, <2>4
<1>8. KeysBeforeEnd(t) = KeysBeforeEnd(ev) \o x
  <2>1. Kept(ev) \in Seq(Seq(Nat)) /\ FlattenSeq(Kept(ev)) \in Seq(Nat)
    BY KeptIs, FlattenIsSeq
  <2> HIDE DEF x
  <2>2. FlattenSeq(Append(Kept(ev), x)) = FlattenSeq(Kept(ev)) \o x
    BY <1>6, <2>1, FlattenAppend
  <2>3. QED
    BY <1>7, <2>2, KeysAre
<1>9. KeysBeforeEnd(ev) \o <<>> = KeysBeforeEnd(ev)
  BY KeysTyped, ConcatEmptySeq
<1>10. KeysBeforeEnd(t) = Following(KeysBeforeEnd(ev), HasEnd(ev), e)
  BY <1>3, <1>8, <1>9 DEF Following
<1>11. QED
  BY <1>1, <1>3, <1>10

(* One list of events after another.                                       *)
Continues(a, b) ==
  /\ KeysBeforeEnd(a \o b) = IF HasEnd(a) THEN KeysBeforeEnd(a)
                             ELSE KeysBeforeEnd(a) \o KeysBeforeEnd(b)
  /\ HasEnd(a \o b) <=> HasEnd(a) \/ HasEnd(b)

LEMMA ContinuesNext ==
  ASSUME NEW a \in Seq(Event), NEW b \in Seq(Event), NEW e \in Event, Continues(a, b)
  PROVE  Continues(a, Append(b, e))
<1>1. PICK c \in Seq(Event) : c = a \o b
  BY ConcatProperties
<1>2. a \o Append(b, e) = Append(c, e)
  <2>1. Append(b, e) = b \o <<e>> /\ <<e>> \in Seq(Event)
    BY AppendIsConcat
  <2>2. a \o (b \o <<e>>) = (a \o b) \o <<e>>
    BY <2>1, ConcatAssociative
  <2>3. Append(c, e) = c \o <<e>>
    BY AppendIsConcat
  <2>4. QED
    BY <1>1, <2>1, <2>2, <2>3
<1>3. /\ KeysBeforeEnd(Append(c, e)) = Following(KeysBeforeEnd(c), HasEnd(c), e)
      /\ HasEnd(Append(c, e)) <=> HasEnd(c) \/ e.do \in Ends
      /\ KeysBeforeEnd(Append(b, e)) = Following(KeysBeforeEnd(b), HasEnd(b), e)
      /\ HasEnd(Append(b, e)) <=> HasEnd(b) \/ e.do \in Ends
  BY KeysAppend
<1>4. /\ KeysBeforeEnd(a) \in Seq(Nat) /\ KeysBeforeEnd(b) \in Seq(Nat)
      /\ e.keys \in Seq(Nat)
  BY KeysTyped DEF Event
<1>5. (KeysBeforeEnd(a) \o KeysBeforeEnd(b)) \o e.keys
        = KeysBeforeEnd(a) \o (KeysBeforeEnd(b) \o e.keys)
  BY <1>4, RegroupNat
<1>6. /\ KeysBeforeEnd(c) = IF HasEnd(a) THEN KeysBeforeEnd(a)
                            ELSE KeysBeforeEnd(a) \o KeysBeforeEnd(b)
      /\ HasEnd(c) <=> HasEnd(a) \/ HasEnd(b)
  BY <1>1 DEF Continues
<1>7. QED
  BY <1>2, <1>3, <1>5, <1>6 DEF Continues, Following

LEMMA KeysConcat ==
  ASSUME NEW a \in Seq(Event), NEW b \in Seq(Event)
  PROVE  Continues(a, b)
<1> DEFINE N == {len \in Nat : \A t \in Seq(Event) : Len(t) = len => Continues(a, t)}
<1>1. 0 \in N
  <2>1. \A t \in Seq(Event) : Len(t) = 0 => t = <<>>
    OBVIOUS
  <2>2. a \o <<>> = a /\ KeysBeforeEnd(a) \o <<>> = KeysBeforeEnd(a)
    BY KeysTyped, ConcatEmptySeq
  <2>3. Continues(a, <<>>)
    BY <2>2, KeysOfNone DEF Continues
  <2>4. QED
    BY <2>1, <2>3
<1>2. ASSUME NEW len \in N PROVE len + 1 \in N
  <2> SUFFICES ASSUME NEW t \in Seq(Event), Len(t) = len + 1 PROVE Continues(a, t)
    OBVIOUS
  <2>1. PICK v \in Seq(Event), e \in Event : t = Append(v, e)
    <3>1. t # <<>>
      OBVIOUS
    <3>2. QED
      BY <3>1, SequenceEmptyOrAppend
  <2>2. Len(v) = len
    BY <2>1
  <2>3. Continues(a, v)
    BY <2>2
  <2>4. Continues(a, Append(v, e))
    BY <2>3, ContinuesNext
  <2>5. QED
    BY <2>1, <2>4
<1>3. Nat \subseteq N
  BY <1>1, <1>2, AllOfNat
<1>4. QED
  BY <1>3

(* The first event of some is acted on.                                    *)
LEMMA KeysHead ==
  ASSUME NEW ev \in Seq(Event), ev # <<>>
  PROVE  /\ Head(ev) \in Event /\ Tail(ev) \in Seq(Event)
         /\ Head(ev).do \in Ends => KeysBeforeEnd(ev) = <<>>
         /\ Head(ev).do \notin Ends =>
              /\ KeysBeforeEnd(ev) = Head(ev).keys \o KeysBeforeEnd(Tail(ev))
              /\ HasEnd(ev) <=> HasEnd(Tail(ev))
<1>1. Head(ev) \in Event /\ Tail(ev) \in Seq(Event) /\ ev = <<Head(ev)>> \o Tail(ev)
  BY HeadTailProperties
<1>2. PICK h \in Event : h = Head(ev)
  BY <1>1
<1>3. <<>> \in Seq(Event) /\ <<h>> \in Seq(Event) /\ Append(<<>>, h) = <<h>>
  OBVIOUS
<1>4. /\ KeysBeforeEnd(<<h>>) = Following(<<>>, FALSE, h)
      /\ HasEnd(<<h>>) <=> h.do \in Ends
  <2>1. /\ KeysBeforeEnd(Append(<<>>, h))
              = Following(KeysBeforeEnd(<<>>), HasEnd(<<>>), h)
        /\ HasEnd(Append(<<>>, h)) <=> HasEnd(<<>>) \/ h.do \in Ends
    BY <1>3, KeysAppend
  <2>2. QED
    BY <1>3, <2>1, KeysOfNone DEF Following
<1>5. h.keys \in Seq(Nat) /\ <<>> \o h.keys = h.keys
  BY ConcatEmptySeq DEF Event
<1>6. Continues(<<h>>, Tail(ev))
  BY <1>1, <1>3, KeysConcat
<1>7. QED
  BY <1>1, <1>2, <1>3, <1>4, <1>5, <1>6 DEF Continues, Following

-----------------------------------------------------------------------------
(* The reference, for any keys and timeouts: the prefix that is pending    *)
(* after each key, and what each key means.                                *)
Prefixed == PrefixKeys \cup {"idle"}

Then(before, key, dropped) ==
  IF before = "idle" /\ key \in PrefixKeys /\ ~dropped THEN key ELSE "idle"

After1(text, keys, gone, f, i) ==
  IF i = 0 THEN "idle" ELSE Then(f[i - 1], text[keys[i]], i \in gone)

IsAfter(text, keys, gone, len, f) ==
  f = [i \in 0..len |-> After1(text, keys, gone, f, i)]

AfterOf(text, keys, gone) == CHOOSE f : IsAfter(text, keys, gone, Len(keys), f)

LEMMA AfterDef ==
  /\ After = AfterOf(typed, fed, expired)
  /\ After' = AfterOf(typed', fed', expired')
BY DEF After, AfterOf, IsAfter, After1, Then

LEMMA AfterExists ==
  ASSUME NEW text, NEW keys, NEW gone, NEW len \in Nat
  PROVE  \E f : IsAfter(text, keys, gone, len, f)
<1> DEFINE N == {m \in Nat : \E f : IsAfter(text, keys, gone, m, f)}
<1>1. 0 \in N
  <2> DEFINE f == [i \in 0..0 |-> "idle"]
  <2>1. \A i \in 0..0 : f[i] = After1(text, keys, gone, f, i)
    BY DEF After1
  <2>2. f = [i \in 0..0 |-> After1(text, keys, gone, f, i)]
    BY <2>1
  <2>3. IsAfter(text, keys, gone, 0, f)
    BY <2>2 DEF IsAfter
  <2>4. QED
    BY <2>3
<1>2. ASSUME NEW m \in N PROVE m + 1 \in N
  <2>1. PICK g : IsAfter(text, keys, gone, m, g)
    OBVIOUS
  <2> DEFINE h == [i \in 0..m+1 |-> After1(text, keys, gone, g, i)]
  <2>2. \A i \in 0..m : g[i] = After1(text, keys, gone, g, i)
    <3>1. PICK F : F = [i \in 0..m |-> After1(text, keys, gone, g, i)]
      OBVIOUS
    <3>2. \A i \in 0..m : F[i] = After1(text, keys, gone, g, i)
      BY <3>1
    <3>3. g = F
      BY <2>1, <3>1 DEF IsAfter
    <3>4. QED
      BY <3>2, <3>3
  <2>3. \A i \in 0..m : g[i] = h[i]
    BY <2>2
  <2>4. ASSUME NEW i \in 0..m+1 PROVE h[i] = After1(text, keys, gone, h, i)
    <3>1. h[i] = After1(text, keys, gone, g, i)
      OBVIOUS
    <3>2. CASE i = 0
      BY <3>1, <3>2 DEF After1
    <3>3. CASE i # 0
      <4>1. i - 1 \in 0..m
        BY <3>3
      <4>2. g[i - 1] = h[i - 1]
        BY <2>3, <4>1
      <4> HIDE DEF h
      <4>3. QED
        BY <3>1, <3>3, <4>2 DEF After1
    <3>4. QED
      BY <3>2, <3>3
  <2>5. h = [i \in 0..m+1 |-> After1(text, keys, gone, h, i)]
    BY <2>4
  <2>6. IsAfter(text, keys, gone, m + 1, h)
    BY <2>5 DEF IsAfter
  <2>7. QED
    BY <2>6
<1>3. Nat \subseteq N
  BY <1>1, <1>2, AllOfNat
<1>4. QED
  BY <1>3

LEMMA AfterIs ==
  ASSUME NEW text, NEW keys, NEW gone, Len(keys) \in Nat
  PROVE  LET f == AfterOf(text, keys, gone)
         IN /\ \A i \in 0..Len(keys) : f[i] = After1(text, keys, gone, f, i)
            /\ \A i \in 0..Len(keys) : f[i] \in Prefixed
<1> DEFINE f == AfterOf(text, keys, gone)
<1>1. IsAfter(text, keys, gone, Len(keys), f)
  BY AfterExists DEF AfterOf
<1> HIDE DEF f
<1>2. \A i \in 0..Len(keys) : f[i] = After1(text, keys, gone, f, i)
  <2>1. PICK F : F = [i \in 0..Len(keys) |-> After1(text, keys, gone, f, i)]
    OBVIOUS
  <2>2. \A i \in 0..Len(keys) : F[i] = After1(text, keys, gone, f, i)
    BY <2>1
  <2>3. f = F
    BY <1>1, <2>1 DEF IsAfter
  <2>4. QED
    BY <2>2, <2>3
<1>3. \A i \in 0..Len(keys) : f[i] \in Prefixed
  BY <1>2 DEF After1, Then, Prefixed
<1>4. QED
  BY <1>2, <1>3 DEF f

(* It does not depend on later keys and timeouts.                          *)
LEMMA AfterAgrees ==
  ASSUME NEW text, NEW keys, NEW gone, NEW more, NEW gone2, NEW len \in Nat,
         Len(keys) \in Nat, Len(more) \in Nat, len <= Len(keys), len <= Len(more),
         \A i \in 1..len : keys[i] = more[i] /\ (i \in gone <=> i \in gone2)
  PROVE  \A i \in 0..len :
           AfterOf(text, keys, gone)[i] = AfterOf(text, more, gone2)[i]
<1> DEFINE f == AfterOf(text, keys, gone)
           g == AfterOf(text, more, gone2)
<1>1. /\ \A i \in 0..Len(keys) : f[i] = After1(text, keys, gone, f, i)
      /\ \A i \in 0..Len(more) : g[i] = After1(text, more, gone2, g, i)
  BY AfterIs
<1> HIDE DEF f, g
<1> DEFINE N == {i \in Nat : i <= len => f[i] = g[i]}
<1>2. 0 \in N
  BY <1>1 DEF After1
<1>3. ASSUME NEW i \in N PROVE i + 1 \in N
  <2> SUFFICES ASSUME i + 1 <= len PROVE f[i + 1] = g[i + 1]
    OBVIOUS
  <2>1. PICK j \in 1..len : j = i + 1 /\ j # 0 /\ j - 1 = i
    OBVIOUS
  <2>2. f[j - 1] = g[j - 1] /\ keys[j] = more[j] /\ (j \in gone <=> j \in gone2)
    BY <2>1
  <2>3. f[j] = After1(text, keys, gone, f, j) /\ g[j] = After1(text, more, gone2, g, j)
    BY <1>1
  <2>4. f[j] = g[j]
    BY <2>1, <2>2, <2>3 DEF After1, Then
  <2>5. QED
    BY <2>1, <2>4
<1>4. Nat \subseteq N
  BY <1>2, <1>3, AllOfNat
<1>5. QED
  BY <1>4 DEF f, g

Meant(before, key, p) ==
  LET chord == IF before # "idle" THEN ChordOf(key, before)
               ELSE IF key \in PrefixKeys THEN "None" ELSE "Literal"
  IN CASE chord = "None" -> Passthrough(<<>>)
       [] chord = "Literal" -> Passthrough(<<p>>)
       [] OTHER -> Action(chord)

LEMMA MeaningDef ==
  /\ \A i : Meaning(i) = Meant(After[i - 1], typed[fed[i]], fed[i])
  /\ \A i : Meaning(i)' = Meant(After'[i - 1], typed'[fed'[i]], fed'[i])
BY DEF Meaning, Meant

LEMMA ChordTyped ==
  \A key, prefix : ChordOf(key, prefix) \in Ends \cup {"Help", "Literal", "None"}
BY DEF ChordOf, Ends

LEMMA PassIs ==
  ASSUME NEW keys \in Seq(Nat)
  PROVE  /\ Passthrough(keys) \in Event /\ Passthrough(keys).do \notin Ends
         /\ Passthrough(keys).do = "write" /\ Passthrough(keys).keys = keys
BY DEF Passthrough, Event, Ends

LEMMA ActionIs ==
  ASSUME NEW chord \in Ends \cup {"Help"}
  PROVE  /\ Action(chord) \in Event /\ Action(chord).keys = <<>>
         /\ Action(chord).do = chord
BY DEF Action, Event

LEMMA MeantIs ==
  ASSUME NEW before, NEW key, NEW p \in Nat
  PROVE  Meant(before, key, p) \in Event
<1>1. <<>> \in Seq(Nat) /\ <<p>> \in Seq(Nat)
  OBVIOUS
<1>2. \A chord \in Ends \cup {"Help", "Literal", "None"} :
        chord # "None" /\ chord # "Literal" => chord \in Ends \cup {"Help"}
  OBVIOUS
<1>3. QED
  BY <1>1, <1>2, PassIs, ActionIs, ChordTyped DEF Meant

-----------------------------------------------------------------------------
(* A parser that is being fed.                                             *)
Parser == [state : Prefixed, run : Seq(Nat), events : Seq(Event)]

LEMMA FlushIs ==
  ASSUME NEW p \in Parser
  PROVE  /\ Flush(p) \in Seq(Event)
         /\ HasEnd(Flush(p)) <=> HasEnd(p.events)
         /\ KeysBeforeEnd(Flush(p)) = IF HasEnd(p.events) THEN KeysBeforeEnd(p.events)
                                     ELSE KeysBeforeEnd(p.events) \o p.run
<1>1. p.events \in Seq(Event) /\ p.run \in Seq(Nat)
  BY DEF Parser
<1>2. CASE p.run = <<>>
  <2>1. KeysBeforeEnd(p.events) \o <<>> = KeysBeforeEnd(p.events)
    BY <1>1, KeysTyped, ConcatEmptySeq
  <2>2. QED
    BY <1>1, <1>2, <2>1 DEF Flush
<1>3. CASE p.run # <<>>
  <2>1. /\ Passthrough(p.run) \in Event /\ Passthrough(p.run).do \notin Ends
        /\ Passthrough(p.run).keys = p.run
    BY <1>1, PassIs
  <2>2. Flush(p) = Append(p.events, Passthrough(p.run))
    BY <1>3 DEF Flush
  <2>3. Append(p.events, Passthrough(p.run)) \in Seq(Event)
    BY <1>1, <2>1, AppendProperties
  <2>4. QED
    BY <1>1, <2>1, <2>2, <2>3, KeysAppend DEF Following
<1>4. QED
  BY <1>2, <1>3

(* The parser has come to `before`, and its events are worth `meant`.      *)
Follows(p, before, meant) ==
  /\ p \in Parser /\ p.state = before
  /\ p.state # "idle" => p.run = <<>>
  /\ KeysBeforeEnd(Flush(p)) = KeysBeforeEnd(meant)
  /\ HasEnd(Flush(p)) <=> HasEnd(meant)

(* One key on its own: it joins the run that is not yet flushed.           *)
LEMMA PlainFollows ==
  ASSUME NEW p \in Parser, NEW meant \in Seq(Event), NEW k \in Nat,
         Follows(p, "idle", meant)
  PROVE  Follows([p EXCEPT !.run = Append(@, k)], "idle",
                 Append(meant, Passthrough(<<k>>)))
<1>1. PICK q \in Parser : /\ q = [p EXCEPT !.run = Append(@, k)]
                          /\ q.run = p.run \o <<k>> /\ q.events = p.events
                          /\ q.state = p.state
  <2>1. p.run \in Seq(Nat)
    BY DEF Parser
  <2>2. Append(p.run, k) = p.run \o <<k>> /\ Append(p.run, k) \in Seq(Nat)
    BY <2>1, AppendIsConcat, AppendProperties
  <2>3. \A r \in Seq(Nat) : LET q == [p EXCEPT !.run = r]
                           IN /\ q \in Parser /\ q.run = r
                              /\ q.events = p.events /\ q.state = p.state
    BY DEF Parser
  <2>4. QED
    BY <2>2, <2>3
<1>2. <<k>> \in Seq(Nat) /\ p.run \in Seq(Nat) /\ KeysBeforeEnd(p.events) \in Seq(Nat)
  BY KeysTyped DEF Parser
<1>3. /\ KeysBeforeEnd(Append(meant, Passthrough(<<k>>)))
           = Following(KeysBeforeEnd(meant), HasEnd(meant), Passthrough(<<k>>))
      /\ HasEnd(Append(meant, Passthrough(<<k>>)))
           <=> HasEnd(meant) \/ Passthrough(<<k>>).do \in Ends
      /\ Passthrough(<<k>>).do \notin Ends /\ Passthrough(<<k>>).keys = <<k>>
  BY <1>2, PassIs, KeysAppend
<1>4. KeysBeforeEnd(p.events) \o (p.run \o <<k>>)
        = (KeysBeforeEnd(p.events) \o p.run) \o <<k>>
  BY <1>2, RegroupNat
<1>5. /\ HasEnd(Flush(q)) <=> HasEnd(q.events)
      /\ HasEnd(Flush(p)) <=> HasEnd(p.events)
      /\ KeysBeforeEnd(Flush(q)) = IF HasEnd(q.events) THEN KeysBeforeEnd(q.events)
                                  ELSE KeysBeforeEnd(q.events) \o q.run
      /\ KeysBeforeEnd(Flush(p)) = IF HasEnd(p.events) THEN KeysBeforeEnd(p.events)
                                  ELSE KeysBeforeEnd(p.events) \o p.run
  BY FlushIs
<1>6. QED
  BY <1>1, <1>3, <1>4, <1>5 DEF Follows, Following

(* A prefix: what came before it is flushed.                               *)
LEMMA PrefixFollows ==
  ASSUME NEW p \in Parser, NEW meant \in Seq(Event), NEW key \in PrefixKeys,
         Follows(p, "idle", meant)
  PROVE  Follows([state |-> key, run |-> <<>>, events |-> Flush(p)], key,
                 Append(meant, Passthrough(<<>>)))
<1>1. PICK q \in Parser : /\ q = [state |-> key, run |-> <<>>, events |-> Flush(p)]
                          /\ q.run = <<>> /\ q.events = Flush(p) /\ q.state = key
  <2>1. \A ev \in Seq(Event) : LET q == [state |-> key, run |-> <<>>, events |-> ev]
                              IN /\ q \in Parser /\ q.run = <<>>
                                 /\ q.events = ev /\ q.state = key
    BY DEF Parser, Prefixed
  <2>2. QED
    BY <2>1, FlushIs
<1>2. Flush(q) = Flush(p)
  BY <1>1 DEF Flush
<1>3. <<>> \in Seq(Nat) /\ KeysBeforeEnd(meant) \o <<>> = KeysBeforeEnd(meant)
  BY KeysTyped, ConcatEmptySeq
<1>4. /\ KeysBeforeEnd(Append(meant, Passthrough(<<>>))) = KeysBeforeEnd(meant)
      /\ HasEnd(Append(meant, Passthrough(<<>>))) <=> HasEnd(meant)
  BY <1>3, PassIs, KeysAppend DEF Following
<1>5. QED
  BY <1>1, <1>2, <1>4 DEF Follows

(* A chord: it is an event of its own, or none.                            *)
LEMMA ChordFollows ==
  ASSUME NEW p \in Parser, NEW meant \in Seq(Event), p.state # "idle",
         Follows(p, p.state, meant), NEW events \in Seq(Event), NEW e \in Event,
         \/ events = Append(p.events, e)
         \/ events = p.events /\ e = Passthrough(<<>>)
  PROVE  Follows([p EXCEPT !.state = "idle", !.events = events], "idle",
                 Append(meant, e))
<1>1. p.run = <<>> /\ p.events \in Seq(Event) /\ Flush(p) = p.events
  BY DEF Follows, Flush, Parser
<1>2. PICK q \in Parser :
        /\ q = [p EXCEPT !.state = "idle", !.events = events]
        /\ q.run = <<>> /\ q.events = events /\ q.state = "idle"
  <2>1. LET q == [p EXCEPT !.state = "idle", !.events = events]
        IN /\ q \in Parser /\ q.run = p.run
           /\ q.events = events /\ q.state = "idle"
    BY DEF Parser, Prefixed
  <2>2. QED
    BY <1>1, <2>1
<1>3. Flush(q) = events
  BY <1>2 DEF Flush
<1>4. /\ KeysBeforeEnd(Append(p.events, e))
           = Following(KeysBeforeEnd(p.events), HasEnd(p.events), e)
      /\ HasEnd(Append(p.events, e)) <=> HasEnd(p.events) \/ e.do \in Ends
      /\ KeysBeforeEnd(Append(meant, e))
           = Following(KeysBeforeEnd(meant), HasEnd(meant), e)
      /\ HasEnd(Append(meant, e)) <=> HasEnd(meant) \/ e.do \in Ends
  BY <1>1, KeysAppend
<1>5. /\ KeysBeforeEnd(p.events) = KeysBeforeEnd(meant)
      /\ HasEnd(p.events) <=> HasEnd(meant)
  BY <1>1 DEF Follows
<1>6. CASE events = Append(p.events, e)
  <2>1. Follows(q, "idle", Append(meant, e))
    BY <1>2, <1>3, <1>4, <1>5, <1>6 DEF Follows, Following
  <2>2. QED
    BY <1>2, <2>1
<1>7. CASE events = p.events /\ e = Passthrough(<<>>)
  <2>1. <<>> \in Seq(Nat) /\ KeysBeforeEnd(meant) \o <<>> = KeysBeforeEnd(meant)
    BY KeysTyped, ConcatEmptySeq
  <2>2. e.do \notin Ends /\ e.keys = <<>>
    BY <1>7, <2>1, PassIs
  <2>3. Follows(q, "idle", Append(meant, e))
    BY <1>2, <1>3, <1>4, <1>5, <1>7, <2>1, <2>2 DEF Follows, Following
  <2>4. QED
    BY <1>2, <2>3
<1>8. QED
  BY <1>6, <1>7

LEMMA FeedKeyFollows ==
  ASSUME NEW p \in Parser, NEW meant \in Seq(Event), NEW k \in Nat,
         Follows(p, p.state, meant)
  PROVE  Follows(FeedKey(p, k), Then(p.state, typed[k], FALSE),
                 Append(meant, Meant(p.state, typed[k], k)))
<1> DEFINE key == typed[k]
<1>1. CASE p.state = "idle" /\ key \in PrefixKeys
  <2>1. FeedKey(p, k) = [state |-> key, run |-> <<>>, events |-> Flush(p)]
    BY <1>1 DEF FeedKey
  <2>2. Meant(p.state, key, k) = Passthrough(<<>>) /\ Then(p.state, key, FALSE) = key
    BY <1>1 DEF Meant, Then
  <2>3. Follows([state |-> key, run |-> <<>>, events |-> Flush(p)], key,
                Append(meant, Passthrough(<<>>)))
    BY <1>1, PrefixFollows
  <2>4. QED
    BY <2>1, <2>2, <2>3
<1>2. CASE p.state = "idle" /\ key \notin PrefixKeys
  <2>1. FeedKey(p, k) = [p EXCEPT !.run = Append(@, k)]
    BY <1>2 DEF FeedKey
  <2>2. Meant(p.state, key, k) = Passthrough(<<k>>) /\ Then(p.state, key, FALSE) = "idle"
    BY <1>2 DEF Meant, Then
  <2>3. Follows([p EXCEPT !.run = Append(@, k)], "idle",
                Append(meant, Passthrough(<<k>>)))
    BY <1>2, PlainFollows
  <2>4. QED
    BY <2>1, <2>2, <2>3
<1>3. CASE p.state # "idle"
  <2> DEFINE chord == ChordOf(key, p.state)
             events == CASE chord = "None" -> p.events
                         [] chord = "Literal" -> Append(p.events, Passthrough(<<k>>))
                         [] OTHER -> Append(p.events, Action(chord))
             e == Meant(p.state, key, k)
  <2>1. FeedKey(p, k) = [p EXCEPT !.state = "idle", !.events = events]
    BY <1>3 DEF FeedKey
  <2>2. Then(p.state, key, FALSE) = "idle"
    BY <1>3 DEF Then
  <2>3. e \in Event /\ e = CASE chord = "None" -> Passthrough(<<>>)
                             [] chord = "Literal" -> Passthrough(<<k>>)
                             [] OTHER -> Action(chord)
    BY <1>3, MeantIs DEF Meant
  <2>4. \/ events = Append(p.events, e)
        \/ events = p.events /\ e = Passthrough(<<>>)
    BY <2>3
  <2>5. events \in Seq(Event)
    <3>1. p.events \in Seq(Event)
      BY DEF Parser
    <3>2. Append(p.events, e) \in Seq(Event)
      BY <2>3, <3>1, AppendProperties
    <3> HIDE DEF events, e
    <3>3. QED
      BY <2>4, <3>1, <3>2
  <2> HIDE DEF events, e, chord
  <2>6. Follows([p EXCEPT !.state = "idle", !.events = events], "idle",
                Append(meant, e))
    BY <1>3, <2>3, <2>4, <2>5, ChordFollows
  <2>7. QED
    BY <2>1, <2>2, <2>6 DEF e
<1>4. QED
  BY <1>1, <1>2, <1>3

-----------------------------------------------------------------------------
(* A chunk: the parser after each of its keys.                             *)
Feed1(start, keys, f, i) ==
  IF i = 0 THEN [state |-> start, run |-> <<>>, events |-> <<>>]
  ELSE FeedKey(f[i - 1], keys[i])

IsFed(start, keys, len, f) == f = [i \in 0..len |-> Feed1(start, keys, f, i)]

LEMMA FedExists ==
  ASSUME NEW start, NEW keys, NEW len \in Nat
  PROVE  \E f : IsFed(start, keys, len, f)
<1> DEFINE N == {m \in Nat : \E f : IsFed(start, keys, m, f)}
<1>1. 0 \in N
  <2> DEFINE f == [i \in 0..0 |-> [state |-> start, run |-> <<>>, events |-> <<>>]]
  <2>1. \A i \in 0..0 : f[i] = Feed1(start, keys, f, i)
    BY DEF Feed1
  <2>2. f = [i \in 0..0 |-> Feed1(start, keys, f, i)]
    BY <2>1
  <2>3. IsFed(start, keys, 0, f)
    BY <2>2 DEF IsFed
  <2>4. QED
    BY <2>3
<1>2. ASSUME NEW m \in N PROVE m + 1 \in N
  <2>1. PICK g : IsFed(start, keys, m, g)
    OBVIOUS
  <2> DEFINE h == [i \in 0..m+1 |-> Feed1(start, keys, g, i)]
  <2>2. \A i \in 0..m : g[i] = Feed1(start, keys, g, i)
    <3>1. PICK F : F = [i \in 0..m |-> Feed1(start, keys, g, i)]
      OBVIOUS
    <3>2. \A i \in 0..m : F[i] = Feed1(start, keys, g, i)
      BY <3>1
    <3>3. g = F
      BY <2>1, <3>1 DEF IsFed
    <3>4. QED
      BY <3>2, <3>3
  <2>3. \A i \in 0..m : g[i] = h[i]
    BY <2>2
  <2>4. ASSUME NEW i \in 0..m+1 PROVE h[i] = Feed1(start, keys, h, i)
    <3>1. h[i] = Feed1(start, keys, g, i)
      OBVIOUS
    <3>2. CASE i = 0
      BY <3>1, <3>2 DEF Feed1
    <3>3. CASE i # 0
      <4>1. i - 1 \in 0..m
        BY <3>3
      <4>2. g[i - 1] = h[i - 1]
        BY <2>3, <4>1
      <4> HIDE DEF h
      <4>3. QED
        BY <3>1, <3>3, <4>2 DEF Feed1
    <3>4. QED
      BY <3>2, <3>3
  <2>5. h = [i \in 0..m+1 |-> Feed1(start, keys, h, i)]
    BY <2>4
  <2>6. IsFed(start, keys, m + 1, h)
    BY <2>5 DEF IsFed
  <2>7. QED
    BY <2>6
<1>3. Nat \subseteq N
  BY <1>1, <1>2, AllOfNat
<1>4. QED
  BY <1>3

LEMMA FeedIs ==
  ASSUME NEW start, NEW keys, Len(keys) \in Nat
  PROVE  \E f : /\ \A i \in 0..Len(keys) : f[i] = Feed1(start, keys, f, i)
                /\ FeedFrom(start, keys).state = f[Len(keys)].state
                /\ FeedFrom(start, keys).events = Flush(f[Len(keys)])
<1> DEFINE f == CHOOSE g : IsFed(start, keys, Len(keys), g)
<1>1. IsFed(start, keys, Len(keys), f)
  BY FedExists
<1>2. FeedFrom(start, keys) = [state |-> f[Len(keys)].state,
                               events |-> Flush(f[Len(keys)])]
  BY DEF FeedFrom, IsFed, Feed1
<1> HIDE DEF f
<1>3. \A i \in 0..Len(keys) : f[i] = Feed1(start, keys, f, i)
  <2>1. PICK F : F = [i \in 0..Len(keys) |-> Feed1(start, keys, f, i)]
    OBVIOUS
  <2>2. \A i \in 0..Len(keys) : F[i] = Feed1(start, keys, f, i)
    BY <2>1
  <2>3. f = F
    BY <1>1, <2>1 DEF IsFed
  <2>4. QED
    BY <2>2, <2>3
<1>4. QED
  BY <1>2, <1>3

(* A feed makes of the keys what the reference makes of them.              *)
Traced(text, start, keys, st, meant) ==
  /\ meant \in Seq(Event) /\ Len(meant) = Len(keys) /\ st[0] = start
  /\ \A i \in 1..Len(keys) : /\ st[i] = Then(st[i - 1], text[keys[i]], FALSE)
                              /\ meant[i] = Meant(st[i - 1], text[keys[i]], keys[i])

LEMMA FeedFollows ==
  ASSUME NEW start \in Prefixed, NEW keys \in Seq(Nat), NEW st, NEW meant,
         Traced(typed, start, keys, st, meant)
  PROVE  LET p == FeedFrom(start, keys)
         IN /\ p.state = st[Len(keys)] /\ p.events \in Seq(Event)
            /\ p.state \in Prefixed
            /\ KeysBeforeEnd(p.events) = KeysBeforeEnd(meant)
            /\ HasEnd(p.events) <=> HasEnd(meant)
<1>0. /\ meant \in Seq(Event) /\ Len(meant) = Len(keys) /\ st[0] = start
      /\ \A i \in 1..Len(keys) : /\ st[i] = Then(st[i - 1], typed[keys[i]], FALSE)
                                  /\ meant[i] = Meant(st[i - 1], typed[keys[i]], keys[i])
  BY DEF Traced
<1> USE <1>0
<1>1. Len(keys) \in Nat
  OBVIOUS
<1>2. PICK f : /\ \A i \in 0..Len(keys) : f[i] = Feed1(start, keys, f, i)
               /\ FeedFrom(start, keys).state = f[Len(keys)].state
               /\ FeedFrom(start, keys).events = Flush(f[Len(keys)])
  BY <1>1, FeedIs
<1> DEFINE N == {i \in Nat : i <= Len(keys) =>
                   Follows(f[i], st[i], SubSeq(meant, 1, i))}
<1>3. 0 \in N
  <2>1. SubSeq(meant, 1, 0) = <<>> /\ <<>> \in Seq(Event) /\ <<>> \in Seq(Nat)
    BY SubSeqEmpty
  <2>2. f[0] = [state |-> start, run |-> <<>>, events |-> <<>>]
    BY <1>1, <1>2 DEF Feed1
  <2>3. f[0] \in Parser /\ f[0].state = start /\ f[0].run = <<>> /\ f[0].events = <<>>
    BY <2>1, <2>2 DEF Parser
  <2>4. Flush(f[0]) = <<>>
    BY <2>3 DEF Flush
  <2>5. Follows(f[0], st[0], <<>>)
    BY <2>3, <2>4 DEF Follows
  <2>6. QED
    BY <2>1, <2>5
<1>4. ASSUME NEW i \in N PROVE i + 1 \in N
  <2> SUFFICES ASSUME i + 1 <= Len(keys)
               PROVE  Follows(f[i + 1], st[i + 1], SubSeq(meant, 1, i + 1))
    OBVIOUS
  <2>1. PICK j \in 1..Len(keys) : j = i + 1 /\ j # 0 /\ j - 1 = i
    BY <1>1
  <2>2. PICK w \in Seq(Event) : w = SubSeq(meant, 1, i)
    <3>1. \A q \in 1..i : q \in 1..Len(meant)
      BY <1>1
    <3>2. \A q \in 1..i : meant[q] \in Event
      BY <3>1, ElementOfSeq
    <3>3. SubSeq(meant, 1, i) \in Seq(Event)
      BY <3>2, SubSeqProperties
    <3>4. QED
      BY <3>3
  <2>3. Follows(f[i], st[i], w) /\ f[i] \in Parser /\ f[i].state = st[i]
    BY <2>1, <2>2 DEF Follows
  <2>4. keys[j] \in Nat /\ f[j] = FeedKey(f[i], keys[j])
    BY <1>1, <1>2, <2>1 DEF Feed1
  <2>5. /\ st[j] = Then(st[i], typed[keys[j]], FALSE)
        /\ meant[j] = Meant(st[i], typed[keys[j]], keys[j])
    BY <2>1
  <2>6. Follows(FeedKey(f[i], keys[j]), Then(st[i], typed[keys[j]], FALSE),
                Append(w, Meant(st[i], typed[keys[j]], keys[j])))
    BY <2>3, <2>4, FeedKeyFollows
  <2>7. SubSeq(meant, 1, j) = Append(w, meant[j])
    <3>1. 1 \in 1..Len(meant) + 1 /\ j \in 1..Len(meant) /\ i = j - 1 /\ j \in Nat
      BY <1>1, <2>1
    <3>2. QED
      BY <2>2, <3>1, SubSeqRecursiveSecond, SMTT(30)
  <2>8. Follows(f[j], st[j], SubSeq(meant, 1, j))
    BY <2>4, <2>5, <2>6, <2>7
  <2>9. QED
    BY <2>1, <2>8
<1>5. Nat \subseteq N
  BY <1>3, <1>4, AllOfNat
<1>6. Follows(f[Len(keys)], st[Len(keys)], meant)
  <2>1. SubSeq(meant, 1, Len(meant)) = meant
    BY SubSeqFull
  <2>2. Follows(f[Len(keys)], st[Len(keys)], SubSeq(meant, 1, Len(keys)))
    BY <1>1, <1>5
  <2>3. QED
    BY <2>1, <2>2
<1>7. PICK p \in Parser : p = f[Len(keys)]
  BY <1>6 DEF Follows
<1>8. Flush(p) \in Seq(Event) /\ p.state \in Prefixed
  BY FlushIs DEF Parser
<1>9. QED
  BY <1>2, <1>6, <1>7, <1>8 DEF Follows

(* ... and the keys of its events are keys of the chunk.                   *)
EventOf(S) == [do : {"write"}, keys : Seq(S)]
                \cup [do : Ends \cup {"Help"}, keys : {<<>>}]
ParserOf(S) == [state : Prefixed, run : Seq(S), events : Seq(EventOf(S))]

LEMMA FlushTyped ==
  ASSUME NEW S, NEW p \in ParserOf(S)
  PROVE  Flush(p) \in Seq(EventOf(S))
<1>1. p.run \in Seq(S) /\ p.events \in Seq(EventOf(S))
  BY DEF ParserOf
<1>2. Passthrough(p.run) \in EventOf(S)
  BY <1>1 DEF Passthrough, EventOf
<1>3. Append(p.events, Passthrough(p.run)) \in Seq(EventOf(S))
  BY <1>1, <1>2, AppendProperties
<1>4. QED
  BY <1>1, <1>3 DEF Flush

LEMMA FeedKeyTyped ==
  ASSUME NEW S, NEW p \in ParserOf(S), NEW k \in S
  PROVE  FeedKey(p, k) \in ParserOf(S)
<1>1. p.run \in Seq(S) /\ p.events \in Seq(EventOf(S))
  BY DEF ParserOf
<1>2. CASE p.state = "idle" /\ typed[k] \in PrefixKeys
  <2>1. FeedKey(p, k) = [state |-> typed[k], run |-> <<>>, events |-> Flush(p)]
    BY <1>2 DEF FeedKey
  <2>2. \A ev \in Seq(EventOf(S)) :
          [state |-> typed[k], run |-> <<>>, events |-> ev] \in ParserOf(S)
    BY <1>2 DEF ParserOf, Prefixed
  <2>3. QED
    BY <2>1, <2>2, FlushTyped
<1>3. CASE p.state = "idle" /\ typed[k] \notin PrefixKeys
  <2>1. FeedKey(p, k) = [p EXCEPT !.run = Append(@, k)]
    BY <1>3 DEF FeedKey
  <2>2. \A r \in Seq(S) : [p EXCEPT !.run = r] \in ParserOf(S)
    BY DEF ParserOf
  <2>3. Append(p.run, k) \in Seq(S)
    BY <1>1, AppendProperties
  <2>4. QED
    BY <2>1, <2>2, <2>3
<1>4. CASE p.state # "idle"
  <2> DEFINE chord == ChordOf(typed[k], p.state)
             events == CASE chord = "None" -> p.events
                         [] chord = "Literal" -> Append(p.events, Passthrough(<<k>>))
                         [] OTHER -> Append(p.events, Action(chord))
  <2>1. FeedKey(p, k) = [p EXCEPT !.state = "idle", !.events = events]
    BY <1>4 DEF FeedKey
  <2>2. Passthrough(<<k>>) \in EventOf(S)
    BY DEF Passthrough, EventOf
  <2>3. \A c \in Ends \cup {"Help"} : Action(c) \in EventOf(S)
    BY DEF Action, EventOf
  <2>4. \A e \in EventOf(S) : Append(p.events, e) \in Seq(EventOf(S))
    BY <1>1, AppendProperties
  <2>5. chord \in Ends \cup {"Help", "Literal", "None"}
    BY ChordTyped
  <2>6. events \in Seq(EventOf(S))
    <3> HIDE DEF chord
    <3>1. CASE chord = "None"
      BY <1>1, <3>1
    <3>2. CASE chord = "Literal"
      BY <2>2, <2>4, <3>2
    <3>3. CASE chord \in Ends \cup {"Help"}
      <4>1. Append(p.events, Action(chord)) \in Seq(EventOf(S))
        BY <2>3, <2>4, <3>3
      <4>2. chord # "None" /\ chord # "Literal"
        BY <3>3 DEF Ends
      <4>3. QED
        BY <4>1, <4>2
    <3>4. QED
      BY <2>5, <3>1, <3>2, <3>3
  <2>7. \A ev \in Seq(EventOf(S)) :
          [p EXCEPT !.state = "idle", !.events = ev] \in ParserOf(S)
    BY DEF ParserOf, Prefixed
  <2> HIDE DEF events
  <2>8. QED
    BY <2>1, <2>6, <2>7
<1>5. QED
  BY <1>2, <1>3, <1>4

LEMMA FeedTyped ==
  ASSUME NEW S, NEW start \in Prefixed, NEW keys \in Seq(S)
  PROVE  /\ FeedFrom(start, keys).state \in Prefixed
         /\ FeedFrom(start, keys).events \in Seq(EventOf(S))
<1>1. Len(keys) \in Nat /\ \A i \in 1..Len(keys) : keys[i] \in S
  OBVIOUS
<1>2. PICK f : /\ \A i \in 0..Len(keys) : f[i] = Feed1(start, keys, f, i)
               /\ FeedFrom(start, keys).state = f[Len(keys)].state
               /\ FeedFrom(start, keys).events = Flush(f[Len(keys)])
  BY <1>1, FeedIs
<1> DEFINE N == {i \in Nat : i <= Len(keys) => f[i] \in ParserOf(S)}
<1>3. 0 \in N
  <2>1. f[0] = [state |-> start, run |-> <<>>, events |-> <<>>]
    BY <1>1, <1>2 DEF Feed1
  <2>2. \A r \in Seq(S), ev \in Seq(EventOf(S)) :
          [state |-> start, run |-> r, events |-> ev] \in ParserOf(S)
    BY DEF ParserOf
  <2>3. <<>> \in Seq(S) /\ <<>> \in Seq(EventOf(S))
    OBVIOUS
  <2>4. f[0] \in ParserOf(S)
    BY <2>1, <2>2, <2>3
  <2>5. QED
    BY <2>4
<1>4. ASSUME NEW i \in N PROVE i + 1 \in N
  <2> SUFFICES ASSUME i + 1 <= Len(keys) PROVE f[i + 1] \in ParserOf(S)
    OBVIOUS
  <2>1. PICK j \in 1..Len(keys) : j = i + 1 /\ j # 0 /\ j - 1 = i
    BY <1>1
  <2>2. f[i] \in ParserOf(S) /\ keys[j] \in S /\ f[j] = FeedKey(f[i], keys[j])
    BY <1>1, <1>2, <2>1 DEF Feed1
  <2>3. f[j] \in ParserOf(S)
    BY <2>2, FeedKeyTyped
  <2>4. QED
    BY <2>1, <2>3
<1>5. Nat \subseteq N
  BY <1>3, <1>4, AllOfNat
<1>6. f[Len(keys)] \in ParserOf(S)
  BY <1>1, <1>5
<1>7. QED
  BY <1>2, <1>6, FlushTyped DEF ParserOf

-----------------------------------------------------------------------------
(* The keys on their way to the parser, and those it has had.              *)
Mine == IF n = 0 THEN <<>> ELSE chunk[n]
Line == fed \o (FlattenSeq(inCh) \o Mine)

Rising(s, top) ==
  /\ \A i, j \in DOMAIN s : i < j => s[i] < s[j]
  /\ \A i \in DOMAIN s : s[i] <= top
InLine == Rising(Line, taken)

Threads ==
  \A a \in Attachments : /\ a > n => thread[a] = "none"
                         /\ thread[a] # "holding" => chunk[a] = <<>>

Gone == {a \in Attachments : thread[a] = "gone"}
LostByGone == lost = Cardinality(Gone)

Pends == parser = After[Len(fed)]
Meanings == [i \in DOMAIN fed |-> Meaning(i)]
Written ==
  delivered \o FlattenSeq(frames) \o KeysBeforeEnd(todo) = KeysBeforeEnd(Meanings)
Unended == task \in {"on", "doomed"} /\ HasEnd(Meanings) => HasEnd(todo)

Right == Pends /\ Written /\ Unended

IInv == TypeOK /\ Threads /\ InLine /\ LostByGone /\ Right

-----------------------------------------------------------------------------
LEMMA PositionsAre ==
  ASSUME TypeOK
  PROVE  /\ Len(typed) \in Nat /\ Positions = 1..Len(typed) /\ taken \in Nat
         /\ Positions \subseteq Nat
<1>1. typed \in Seq(Keys)
  BY BoundsAssumption DEF TypeOK
<1>2. QED
  BY <1>1 DEF TypeOK, Positions

LEMMA EventsAre == Events = EventOf(Positions)
BY DEF Events, EventOf

LEMMA TypedStays ==
  ASSUME Next
  PROVE  typed' = typed /\ Positions' = Positions /\ Events' = Events
<1>1. typed' = typed
  BY DEF Next, Running, Attach, AttachFails, PickerTakes, PickerFails, MainStep,
         TakesOutcome, TearsDown, ThreadStep, ThreadLocks, ThreadReads, ThreadSends,
         ThreadGivesUp, ThreadGivesUpTo, TaskStep, TaskTakes, TaskTimesOut,
         TaskWrites, TaskHelps, TaskEnds, TaskVanishes, WriterWrites,
         ConnectionEnds, term
<1>2. QED
  BY <1>1 DEF Positions, Events

LEMMA ThreadTyped ==
  ASSUME TypeOK, NEW a \in Attachments, ThreadStep(a),
         typed' = typed, Positions' = Positions, Events' = Events
  PROVE  TypeOK'
<1> USE DEF TypeOK
<1>1. CASE ThreadLocks(a)
  BY <1>1 DEF ThreadLocks, term, stdin
<1>2. CASE ThreadReads(a)
  <2>1. PICK k \in 1 .. Len(typed) - taken :
          /\ taken' = taken + k
          /\ chunk' = [chunk EXCEPT ![a] = [i \in 1 .. k |-> taken + i]]
    BY <1>2 DEF ThreadReads
  <2>2. k \in Nat /\ taken + k \in 0 .. Len(typed)
        /\ \A i \in 1 .. k : taken + i \in Positions
    BY PositionsAre, SMTT(30)
  <2>3. [i \in 1 .. k |-> taken + i] \in [1 .. k -> Positions]
    BY <2>2
  <2>4. [i \in 1 .. k |-> taken + i] \in Seq(Positions)
    BY <2>2, <2>3
  <2> DEFINE c == [i \in 1 .. k |-> taken + i]
  <2> HIDE DEF c
  <2>5. chunk' \in [Attachments -> Seq(Positions)]
    BY <2>1, <2>4 DEF c
  <2>6. thread' \in [Attachments -> {"none", "waiting", "reading", "holding", "gone"}]
    BY <1>2 DEF ThreadReads
  <2>7. taken' \in 0 .. Len(typed)
    BY <2>1, <2>2
  <2>8. UNCHANGED <<main, n, inCh, task, parser, todo, fed, expired, frames, up,
                    outcome, delivered, lost>>
    BY <1>2 DEF ThreadReads, stdin
  <2>9. QED
    BY <2>5, <2>6, <2>7, <2>8
<1>3. CASE ThreadSends(a)
  <2>1. /\ inCh' = Append(inCh, chunk[a]) /\ Len(inCh) < InCap
        /\ chunk[a] \in Seq(Positions)
    BY <1>3 DEF ThreadSends, Room
  <2>2. inCh' \in Seq(Seq(Positions)) /\ Len(inCh') <= InCap
    BY <2>1, BoundsAssumption, AppendProperties
  <2>3. chunk' \in [Attachments -> Seq(Positions)]
    BY <1>3 DEF ThreadSends
  <2>4. QED
    BY <1>3, <2>2, <2>3 DEF ThreadSends, term
<1>4. CASE ThreadGivesUp(a)
  <2>1. chunk' \in [Attachments -> Seq(Positions)]
    BY <1>4 DEF ThreadGivesUp, ThreadGivesUpTo
  <2>2. QED
    BY <1>4, <2>1 DEF ThreadGivesUp, ThreadGivesUpTo, term, stdin
<1>5. QED
  BY <1>1, <1>2, <1>3, <1>4 DEF ThreadStep

LEMMA TaskTyped ==
  ASSUME TypeOK, Pends, TaskStep,
         typed' = typed, Positions' = Positions, Events' = Events
  PROVE  TypeOK'
<1> USE DEF TypeOK
<1>1. CASE TaskTakes
  <2>1. Head(inCh) \in Seq(Positions) /\ Tail(inCh) \in Seq(Seq(Positions))
        /\ Len(Tail(inCh)) <= Len(inCh) /\ Len(inCh) \in Nat
        /\ Len(Tail(inCh)) \in Nat
    BY <1>1 DEF TaskTakes
  <2>2. /\ Feed(Head(inCh)).state \in PrefixKeys \cup {"idle"}
        /\ Feed(Head(inCh)).events \in Seq(Events)
    BY <2>1, FeedTyped, EventsAre DEF Feed, Prefixed
  <2>3. parser' \in PrefixKeys \cup {"idle"} /\ todo' \in Seq(Events)
    BY <1>1, <2>2 DEF TaskTakes
  <2>4. fed' \in Seq(Positions) /\ DOMAIN fed \subseteq DOMAIN fed'
    BY <1>1, <2>1, SMTT(30) DEF TaskTakes
  <2>5. inCh' \in Seq(Seq(Positions)) /\ Len(inCh') <= InCap
    BY <1>1, <2>1, BoundsAssumption DEF TaskTakes
  <2>6. UNCHANGED <<taken, main, n, thread, chunk, task, expired, frames, up,
                    outcome, delivered, lost>>
    BY <1>1 DEF TaskTakes, term, threads
  <2>7. QED
    BY <2>3, <2>4, <2>5, <2>6
<1>2. CASE TaskTimesOut
  <2>1. Len(fed) \in DOMAIN fed
    <3>1. Len(fed) \in Nat /\ DOMAIN fed = 1 .. Len(fed)
      OBVIOUS
    <3>2. Len(fed) # 0
      <4>1. SUFFICES ASSUME Len(fed) = 0 PROVE FALSE
        OBVIOUS
      <4>2. After[0] = "idle"
        BY <3>1, AfterDef, AfterIs DEF After1
      <4>3. QED
        BY <1>2, <4>1, <4>2 DEF TaskTimesOut, Pends
    <3>3. QED
      BY <3>1, <3>2
  <2>2. QED
    BY <1>2, <2>1 DEF TaskTimesOut, term, threads
<1>3. CASE TaskWrites
  <2>1. Head(todo) \in Events /\ Tail(todo) \in Seq(Events)
    BY <1>3 DEF TaskWrites
  <2>2. Head(todo).keys \in Seq(Positions)
    <3>1. \A e \in [do : {"write"}, keys : Seq(Positions)] : e.keys \in Seq(Positions)
      OBVIOUS
    <3>2. \A e \in [do : Ends \cup {"Help"}, keys : {<<>>}] : e.keys = <<>>
      OBVIOUS
    <3>3. <<>> \in Seq(Positions)
      OBVIOUS
    <3>4. QED
      BY <2>1, <3>1, <3>2, <3>3 DEF Events
  <2>3. todo' \in Seq(Events) /\ task' \in {"none", "on", "doomed", "returned", "aborted"}
    BY <1>3, <2>1 DEF TaskWrites
  <2>4. frames' \in Seq(Seq(Positions)) /\ Len(frames') <= FrameCap
    <3>1. CASE Len(frames) < FrameCap /\ frames' = Append(frames, Head(todo).keys)
      BY <2>2, <3>1, BoundsAssumption, AppendProperties
    <3>2. CASE frames' = frames
      BY <3>2
    <3>3. QED
      BY <1>3, <3>1, <3>2 DEF TaskWrites
  <2>5. UNCHANGED <<taken, main, n, thread, chunk, inCh, parser, fed, expired, up,
                    outcome, delivered, lost>>
    BY <1>3 DEF TaskWrites, term, threads
  <2>6. QED
    BY <2>3, <2>4, <2>5
<1>4. CASE TaskHelps
  <2>1. todo' \in Seq(Events)
    BY <1>4 DEF TaskHelps
  <2>2. QED
    BY <1>4, <2>1 DEF TaskHelps, term, threads
<1>5. CASE TaskEnds
  <2>1. Head(todo).do \in Outcomes
    BY <1>5 DEF TaskEnds, Outcomes
  <2>2. outcome' \in Seq(Outcomes) /\ todo' \in Seq(Events)
    BY <1>5, <2>1, AppendProperties DEF TaskEnds
  <2>3. QED
    BY <1>5, <2>2 DEF TaskEnds, term, threads
<1>6. CASE TaskVanishes
  BY <1>6 DEF TaskVanishes, term, threads
<1>7. QED
  BY <1>1, <1>2, <1>3, <1>4, <1>5, <1>6 DEF TaskStep

LEMMA OthersTyped ==
  ASSUME TypeOK, typed' = typed, Positions' = Positions, Events' = Events,
         \/ Attach \/ AttachFails \/ PickerTakes \/ PickerFails \/ MainStep
         \/ WriterWrites \/ \E broken \in BOOLEAN : ConnectionEnds(broken)
  PROVE  TypeOK'
<1> USE DEF TypeOK
<1>1. CASE Attach
  <2>1. n' \in 0 .. MaxAttach /\ n' \in Attachments
    BY <1>1, BoundsAssumption DEF Attach, Attachments
  <2>2. thread' \in [Attachments -> {"none", "waiting", "reading", "holding", "gone"}]
    BY <1>1 DEF Attach
  <2>3. /\ <<>> \in Seq(Seq(Positions)) /\ <<>> \in Seq(Events)
        /\ <<>> \in Seq(Positions) /\ <<>> \in Seq(Outcomes) /\ Len(<<>>) = 0
    OBVIOUS
  <2>4. QED
    BY <1>1, <2>1, <2>2, <2>3, BoundsAssumption DEF Attach, term
<1>2. CASE AttachFails \/ PickerFails
  BY <1>2 DEF AttachFails, PickerFails, term, threads, stdin
<1>3. CASE PickerTakes
  <2>1. taken' \in 0 .. Len(typed)
    BY <1>3, PositionsAre DEF PickerTakes
  <2>2. QED
    BY <1>3, <2>1 DEF PickerTakes, threads, stdin
<1>4. CASE MainStep
  BY <1>4 DEF MainStep, TakesOutcome, TearsDown, term, threads, stdin
<1>5. CASE WriterWrites
  <2>1. Head(frames) \in Seq(Positions) /\ Tail(frames) \in Seq(Seq(Positions))
        /\ Len(Tail(frames)) <= Len(frames) /\ Len(frames) \in Nat
        /\ Len(Tail(frames)) \in Nat
    BY <1>5 DEF WriterWrites
  <2>2. /\ frames' \in Seq(Seq(Positions)) /\ Len(frames') <= FrameCap
        /\ delivered' \in Seq(Positions)
    BY <1>5, <2>1, BoundsAssumption DEF WriterWrites
  <2>3. QED
    BY <1>5, <2>2 DEF WriterWrites, term, threads, stdin
<1>6. ASSUME NEW broken \in BOOLEAN, ConnectionEnds(broken)
      PROVE  TypeOK'
  <2>1. outcome' \in Seq(Outcomes)
    BY <1>6, AppendProperties DEF ConnectionEnds, Outcomes
  <2>2. up' \in BOOLEAN
    BY <1>6 DEF ConnectionEnds
  <2>3. QED
    BY <1>6, <2>1, <2>2 DEF ConnectionEnds, term, threads, stdin
<1>7. QED
  BY <1>1, <1>2, <1>3, <1>4, <1>5, <1>6

LEMMA StepTyped == ASSUME TypeOK, Pends, [Next]_vars PROVE TypeOK'
<1>1. CASE UNCHANGED vars
  BY <1>1 DEF vars, term, threads, stdin, TypeOK, Positions, Events
<1>2. CASE Next
  BY <1>2, TypedStays, ThreadTyped, TaskTyped, OthersTyped DEF Next, Running
<1>3. QED
  BY <1>1, <1>2

-----------------------------------------------------------------------------
LEMMA SeqGrows == ASSUME NEW S, NEW T, S \subseteq T PROVE Seq(S) \subseteq Seq(T)
<1> SUFFICES ASSUME NEW s \in Seq(S) PROVE s \in Seq(T)
  OBVIOUS
<1>1. Len(s) \in Nat /\ s \in [1..Len(s) -> T]
  OBVIOUS
<1>2. QED
  BY <1>1

(* The sequences of the model are sequences of numbers.                    *)
Numbers == /\ fed \in Seq(Nat) /\ delivered \in Seq(Nat)
           /\ inCh \in Seq(Seq(Nat)) /\ frames \in Seq(Seq(Nat))
           /\ chunk \in [Attachments -> Seq(Nat)] /\ todo \in Seq(Event)

LEMMA NumbersAre == ASSUME TypeOK PROVE Numbers
<1>1. Seq(Positions) \subseteq Seq(Nat)
  BY PositionsAre, SeqGrows
<1>2. Seq(Seq(Positions)) \subseteq Seq(Seq(Nat))
  BY <1>1, SeqGrows
<1>3. Events \subseteq Event
  <2>1. [do : {"write"}, keys : Seq(Positions)] \subseteq Event
    BY <1>1 DEF Event
  <2>2. [do : Ends \cup {"Help"}, keys : {<<>>}] \subseteq Event
    <3>1. \A e \in [do : Ends \cup {"Help"}, keys : {<<>>}] :
            /\ e = [do |-> e.do, keys |-> <<>>]
            /\ e.do \in Ends \cup {"write", "Help"}
      OBVIOUS
    <3>2. <<>> \in Seq(Nat)
      OBVIOUS
    <3>3. \A x \in Ends \cup {"write", "Help"}, k \in Seq(Nat) :
            [do |-> x, keys |-> k] \in Event
      BY DEF Event
    <3>4. QED
      BY <3>1, <3>2, <3>3, ZenonT(30)
  <2>3. QED
    BY <2>1, <2>2 DEF Events
<1>4. Seq(Events) \subseteq Seq(Event)
  BY <1>3, SeqGrows
<1>5. chunk \in [Attachments -> Seq(Nat)]
  BY <1>1 DEF TypeOK
<1>6. QED
  BY <1>1, <1>2, <1>4, <1>5 DEF TypeOK, Numbers

LEMMA LineTyped ==
  ASSUME TypeOK
  PROVE  /\ FlattenSeq(inCh) \in Seq(Nat) /\ Mine \in Seq(Nat)
         /\ FlattenSeq(inCh) \o Mine \in Seq(Nat) /\ Line \in Seq(Nat)
<1>1. FlattenSeq(inCh) \in Seq(Nat)
  BY NumbersAre, FlattenIsSeq DEF Numbers
<1>2. Mine \in Seq(Nat)
  <2>1. n # 0 => n \in Attachments
    BY BoundsAssumption DEF TypeOK, Attachments
  <2>2. QED
    BY <2>1, NumbersAre DEF Mine, Numbers
<1>3. FlattenSeq(inCh) \o Mine \in Seq(Nat)
  BY <1>1, <1>2, ConcatProperties
<1>4. QED
  BY <1>1, <1>2, <1>3, NumbersAre, ConcatProperties DEF Line, Numbers

-----------------------------------------------------------------------------
LEMMA NextThread ==
  ASSUME TypeOK, Threads, Attach
  PROVE  /\ n \in Nat /\ n + 1 \in Attachments /\ n' = n + 1
         /\ thread[n + 1] = "none" /\ chunk[n + 1] = <<>>
<1>1. n \in Nat /\ n' = n + 1
  BY DEF Attach, TypeOK
<1>2. PICK a \in Attachments : a = n + 1 /\ a > n
  BY BoundsAssumption, <1>1 DEF Attach, Attachments
<1>3. thread[a] = "none" /\ chunk[a] = <<>>
  BY <1>1, <1>2, BoundsAssumption DEF Threads, Attachments
<1>4. n + 1 \in Attachments /\ thread[n + 1] = "none" /\ chunk[n + 1] = <<>>
  <2>1. \A b : b = a => b \in Attachments /\ thread[b] = "none" /\ chunk[b] = <<>>
    BY <1>3
  <2>2. QED
    BY <1>2, <2>1
<1>5. QED
  BY <1>1, <1>4

LEMMA ThreadsStay == ASSUME TypeOK, Threads, Next PROVE Threads'
<1>1. CASE UNCHANGED <<n, thread, chunk>>
  BY <1>1 DEF Threads
<1>2. CASE Attach
  <2>1. thread' = [thread EXCEPT ![n + 1] = "waiting"] /\ chunk' = chunk
    BY <1>2, NextThread DEF Attach
  <2>2. /\ n' = n + 1 /\ n + 1 \in Attachments /\ chunk[n + 1] = <<>>
        /\ \A a \in Attachments : a > n + 1 => a > n /\ a # n + 1
    BY <1>2, NextThread DEF Attachments
  <2>3. ASSUME NEW a \in Attachments
        PROVE  /\ a > n' => thread'[a] = "none"
               /\ thread'[a] # "holding" => chunk'[a] = <<>>
    <3>0. thread'[a] = IF a = n + 1 THEN "waiting" ELSE thread[a]
      BY <2>1 DEF TypeOK
    <3>1. CASE a = n + 1
      <4>1. ~(a > n')
        BY <1>2, <2>2, <3>1, NextThread DEF Attachments
      <4>2. chunk'[a] = <<>>
        BY <2>1, <2>2, <3>1
      <4>3. QED
        BY <4>1, <4>2
    <3>2. CASE a # n + 1
      <4>1. thread'[a] = thread[a]
        BY <3>0, <3>2
      <4>2. QED
        BY <2>1, <2>2, <4>1 DEF Threads
    <3>3. QED
      BY <3>1, <3>2
  <2>4. QED
    BY <2>3 DEF Threads, Attachments
<1>3. ASSUME NEW a \in Attachments, ThreadStep(a)
      PROVE  Threads'
  BY <1>3 DEF Threads, TypeOK, ThreadStep, ThreadLocks, ThreadReads, ThreadSends,
              ThreadGivesUp, ThreadGivesUpTo, Attachments
<1>4. QED
  BY <1>1, <1>2, <1>3
     DEF Next, Running, AttachFails, PickerTakes, PickerFails, MainStep, TakesOutcome,
         TearsDown, TaskStep, TaskTakes, TaskTimesOut, TaskWrites, TaskHelps,
         TaskEnds, TaskVanishes, WriterWrites, ConnectionEnds, threads

LEMMA GoneStays == ASSUME TypeOK, Threads, LostByGone, Next PROVE LostByGone'
<1>1. Gone \subseteq Attachments /\ IsFiniteSet(Gone)
  <2>1. IsFiniteSet(Attachments)
    BY BoundsAssumption, FS_Interval DEF Attachments
  <2>2. QED
    BY <2>1, FS_Subset DEF Gone
<1>2. CASE UNCHANGED <<thread, lost>>
  BY <1>2 DEF LostByGone, Gone
<1>3. CASE Attach
  <2>1. thread' = [thread EXCEPT ![n + 1] = "waiting"] /\ lost' = lost
    BY <1>3, NextThread DEF Attach
  <2>2. thread[n + 1] # "gone"
    BY <1>3, NextThread
  <2>3. Gone' = Gone
    BY <2>1, <2>2 DEF Gone, TypeOK
  <2>4. QED
    BY <2>1, <2>3 DEF LostByGone
<1>4. ASSUME NEW a \in Attachments, ThreadStep(a)
      PROVE  LostByGone'
  <2>1. CASE ThreadGivesUp(a)
    <3>1. Gone' = Gone \cup {a} /\ a \notin Gone /\ lost' = lost + 1
      BY <2>1 DEF ThreadGivesUp, ThreadGivesUpTo, Gone, TypeOK
    <3>2. Cardinality(Gone \cup {a}) = Cardinality(Gone) + 1
      BY <1>1, <3>1, FS_AddElement
    <3>3. QED
      BY <3>1, <3>2 DEF LostByGone
  <2>2. CASE ThreadLocks(a) \/ ThreadReads(a) \/ ThreadSends(a)
    <3>1. Gone' = Gone /\ lost' = lost
      BY <2>2 DEF ThreadLocks, ThreadReads, ThreadSends, Gone, TypeOK
    <3>2. QED
      BY <3>1 DEF LostByGone
  <2>3. QED
    BY <1>4, <2>1, <2>2 DEF ThreadStep
<1>5. QED
  BY <1>2, <1>3, <1>4
     DEF Next, Running, AttachFails, PickerTakes, PickerFails, MainStep, TakesOutcome,
         TearsDown, TaskStep, TaskTakes, TaskTimesOut, TaskWrites, TaskHelps,
         TaskEnds, TaskVanishes, WriterWrites, ConnectionEnds, threads

-----------------------------------------------------------------------------
LEMMA RisingLess ==
  ASSUME NEW s \in Seq(Nat), NEW t \in Seq(Nat), NEW top, Rising(s \o t, top)
  PROVE  Rising(s, top)
<1>1. PICK c \in Seq(Nat) : c = s \o t
  BY ConcatProperties
<1>2. /\ Len(c) = Len(s) + Len(t) /\ Len(s) \in Nat /\ Len(t) \in Nat
      /\ \A i \in 1..Len(s) : c[i] = s[i]
  BY <1>1
<1>3. DOMAIN s = 1..Len(s) /\ DOMAIN c = 1..Len(c)
  OBVIOUS
<1>4. DOMAIN s \subseteq DOMAIN c /\ \A i \in DOMAIN s : c[i] = s[i]
  BY <1>2, <1>3
<1>5. QED
  BY <1>1, <1>4 DEF Rising

LEMMA RisingHigher ==
  ASSUME NEW s \in Seq(Nat), NEW top \in Nat, NEW higher \in Nat, top <= higher,
         Rising(s, top)
  PROVE  Rising(s, higher)
<1>1. \A i \in DOMAIN s : s[i] \in Nat
  OBVIOUS
<1>2. QED
  BY <1>1 DEF Rising

LEMMA RisingMore ==
  ASSUME NEW s \in Seq(Nat), NEW top \in Nat, NEW k \in Nat, Rising(s, top)
  PROVE  Rising(s \o [i \in 1..k |-> top + i], top + k)
<1>1. PICK t \in Seq(Nat) : /\ t = [i \in 1..k |-> top + i] /\ Len(t) = k
                            /\ \A i \in 1..k : t[i] = top + i
  <2>1. [i \in 1..k |-> top + i] \in [1..k -> Nat]
    OBVIOUS
  <2>2. PICK t : t = [i \in 1..k |-> top + i]
    OBVIOUS
  <2>3. t \in Seq(Nat) /\ Len(t) = k /\ \A i \in 1..k : t[i] = top + i
    BY <2>1, <2>2
  <2>4. QED
    BY <2>2, <2>3
<1>2. PICK len \in Nat : len = Len(s)
  OBVIOUS
<1>3. PICK c \in Seq(Nat) : c = s \o t
  BY <1>1, ConcatProperties
<1>4. DOMAIN s = 1..len /\ DOMAIN c = 1..len + k
  <2>1. DOMAIN s = 1..Len(s) /\ DOMAIN c = 1..Len(c)
    OBVIOUS
  <2>2. Len(c) = len + k
    BY <1>1, <1>2, <1>3, ConcatProperties
  <2>3. QED
    BY <1>2, <2>1, <2>2
<1>5. ASSUME NEW i \in 1..len + k, i > len
      PROVE  c[i] = top + (i - len)
  <2>1. PICK m \in 1..k : m = i - len
    BY <1>5
  <2>2. t[m] = top + m
    BY <1>1
  <2>3. c[i] = t[i - len]
    BY <1>1, <1>2, <1>3, <1>5
  <2>4. QED
    BY <2>1, <2>2, <2>3
<1>6. ASSUME NEW i \in 1..len PROVE c[i] = s[i] /\ c[i] <= top /\ c[i] \in Nat
  <2>1. i \in 1..len + k /\ i <= len
    OBVIOUS
  <2>2. c[i] = s[i]
    BY <1>1, <1>2, <1>3, <2>1
  <2>3. s[i] <= top
    BY <1>4 DEF Rising
  <2>4. s[i] \in Nat
    BY <1>2, ElementOfSeq
  <2>5. QED
    BY <2>2, <2>3, <2>4
<1>7. ASSUME NEW i \in 1..len + k, NEW j \in 1..len + k, i < j PROVE c[i] < c[j]
  <2>1. CASE j <= len
    <3>1. i \in 1..len /\ j \in 1..len
      BY <1>7, <2>1
    <3>2. s[i] < s[j]
      BY <1>4, <1>7, <3>1 DEF Rising
    <3>3. QED
      BY <1>6, <3>1, <3>2
  <2>2. CASE i <= len /\ j > len
    <3>1. i \in 1..len
      BY <2>2
    <3>2. c[i] <= top /\ c[i] \in Nat /\ c[j] = top + (j - len)
      BY <1>5, <1>6, <2>2, <3>1
    <3>3. QED
      BY <2>2, <3>2
  <2>3. CASE i > len
    <3>1. c[i] = top + (i - len)
      BY <1>5, <2>3
    <3>2. c[j] = top + (j - len)
      BY <1>5, <1>7, <2>3
    <3>3. QED
      BY <1>7, <3>1, <3>2
  <2>4. QED
    BY <2>1, <2>2, <2>3
<1>8. ASSUME NEW i \in 1..len + k PROVE c[i] <= top + k
  <2>1. CASE i <= len
    <3>1. i \in 1..len
      BY <2>1
    <3>2. QED
      BY <1>6, <3>1
  <2>2. CASE i > len
    <3>1. c[i] = top + (i - len)
      BY <1>5, <2>2
    <3>2. QED
      BY <2>2, <3>1
  <2>3. QED
    BY <2>1, <2>2
<1>9. Rising(c, top + k)
  BY <1>4, <1>7, <1>8 DEF Rising
<1>10. QED
  BY <1>1, <1>3, <1>9

(* The one thread that counts is the one of the attachment.                *)
LEMMA MineIs ==
  ASSUME TypeOK, NEW a \in Attachments, Threads, thread[a] # "none"
  PROVE  n # 0 /\ n \in Attachments /\ Mine = chunk[n]
<1>1. ~(a > n)
  BY DEF Threads
<1>2. n # 0 /\ n \in Attachments
  BY <1>1, BoundsAssumption DEF TypeOK, Attachments
<1>3. QED
  BY <1>2 DEF Mine

LEMMA ThreadInLine ==
  ASSUME TypeOK, Threads, InLine, NEW a \in Attachments, ThreadStep(a)
  PROVE  InLine'
<1>1. /\ n # 0 /\ n \in Attachments /\ Mine = chunk[n]
      /\ n' = n /\ Mine' = chunk'[n] /\ fed' = fed /\ chunk[a] \in Seq(Nat)
  <2>1. thread[a] # "none"
    BY DEF ThreadStep, ThreadLocks, ThreadReads, ThreadSends, ThreadGivesUp,
           ThreadGivesUpTo
  <2>2. n' = n /\ fed' = fed
    BY DEF ThreadStep, ThreadLocks, ThreadReads, ThreadSends, ThreadGivesUp,
           ThreadGivesUpTo, stdin
  <2>3. QED
    BY <2>1, <2>2, MineIs, NumbersAre DEF Mine, Numbers
<1>2. /\ FlattenSeq(inCh) \in Seq(Nat) /\ Mine \in Seq(Nat) /\ Line \in Seq(Nat)
      /\ fed \in Seq(Nat) /\ fed \o FlattenSeq(inCh) \in Seq(Nat)
      /\ taken \in Nat /\ inCh \in Seq(Seq(Nat))
  BY LineTyped, NumbersAre, PositionsAre, ConcatProperties DEF Numbers
<1>3. Line = (fed \o FlattenSeq(inCh)) \o Mine
  BY <1>2, RegroupNat DEF Line
<1>4. \A s \in Seq(Nat) : s \o <<>> = s
  BY ConcatEmptySeq
<1>5. CASE inCh' = inCh /\ chunk'[n] = chunk[n] /\ taken' \in Nat /\ taken' >= taken
  <2>1. Line' = Line
    BY <1>1, <1>5 DEF Line
  <2>2. QED
    BY <1>2, <1>5, <2>1, RisingHigher DEF InLine
<1>6. CASE ThreadLocks(a)
  BY <1>2, <1>5, <1>6 DEF ThreadLocks, term, stdin
<1>7. CASE ThreadReads(a)
  <2>1. PICK k \in 1 .. Len(typed) - taken :
          /\ taken' = taken + k
          /\ chunk' = [chunk EXCEPT ![a] = [i \in 1 .. k |-> taken + i]]
    BY <1>7 DEF ThreadReads
  <2>2. k \in Nat /\ inCh' = inCh
    BY <1>7, PositionsAre DEF ThreadReads, stdin
  <2>3. CASE a # n
    <3>1. chunk'[n] = chunk[n]
      BY <1>1, <2>1, <2>3 DEF TypeOK
    <3>2. taken' \in Nat /\ taken' >= taken
      BY <1>2, <2>1, <2>2
    <3>3. QED
      BY <1>5, <2>2, <3>1, <3>2
  <2>4. CASE a = n
    <3>1. Mine' = [i \in 1 .. k |-> taken + i]
      BY <1>1, <2>1, <2>4 DEF TypeOK
    <3>2. Mine = <<>>
      BY <1>1, <1>7, <2>4 DEF ThreadReads, Threads
    <3>3. Line = fed \o FlattenSeq(inCh)
      BY <1>2, <1>3, <1>4, <3>2
    <3>4. [i \in 1 .. k |-> taken + i] \in Seq(Nat)
      <4>1. [i \in 1 .. k |-> taken + i] \in [1 .. k -> Nat]
        BY <1>2, <2>2
      <4>2. QED
        BY <2>2, <4>1
    <3>5. Line' = Line \o [i \in 1 .. k |-> taken + i]
      <4>1. Line' = fed \o (FlattenSeq(inCh) \o [i \in 1 .. k |-> taken + i])
        BY <1>1, <2>2, <3>1 DEF Line
      <4>2. PICK a1 \in Seq(Nat), a2 \in Seq(Nat), a3 \in Seq(Nat) :
              /\ a1 = fed /\ a2 = FlattenSeq(inCh)
              /\ a3 = [i \in 1 .. k |-> taken + i]
        BY <1>2, <3>4, ZenonT(30)
      <4>3. (a1 \o a2) \o a3 = a1 \o (a2 \o a3)
        BY RegroupNat, ZenonT(30)
      <4>4. QED
        BY <3>3, <4>1, <4>2, <4>3, ZenonT(30)
    <3>6. Rising(Line \o [i \in 1 .. k |-> taken + i], taken + k)
      BY <1>2, <2>2, RisingMore DEF InLine
    <3>7. QED
      BY <2>1, <3>5, <3>6 DEF InLine
  <2>5. QED
    BY <2>3, <2>4
<1>8. CASE ThreadSends(a)
  <2>1. a = n /\ taken' = taken /\ inCh' = Append(inCh, Mine) /\ Mine' = <<>>
    BY <1>1, <1>8 DEF ThreadSends, HasReceiver, term, TypeOK
  <2>2. FlattenSeq(Append(inCh, Mine)) = FlattenSeq(inCh) \o Mine
    BY <1>2, FlattenAppend
  <2>3. (FlattenSeq(inCh) \o Mine) \o <<>> = FlattenSeq(inCh) \o Mine
    BY <1>4, LineTyped
  <2>4. Line' = Line
    BY <1>1, <2>1, <2>2, <2>3 DEF Line
  <2>5. QED
    BY <2>1, <2>4 DEF InLine
<1>9. CASE ThreadGivesUp(a)
  <2>1. taken' = taken /\ inCh' = inCh /\ chunk' = [chunk EXCEPT ![a] = <<>>]
    BY <1>9 DEF ThreadGivesUp, ThreadGivesUpTo, term, stdin
  <2>2. CASE a # n
    BY <1>1, <1>2, <1>5, <2>1, <2>2 DEF TypeOK
  <2>3. CASE a = n
    <3>1. Mine' = <<>>
      BY <1>1, <2>1, <2>3 DEF TypeOK
    <3>2. Line' = fed \o FlattenSeq(inCh)
      BY <1>1, <1>2, <1>4, <2>1, <3>1 DEF Line
    <3>3. Rising(fed \o FlattenSeq(inCh), taken)
      BY <1>2, <1>3, RisingLess DEF InLine
    <3>4. QED
      BY <2>1, <3>2, <3>3 DEF InLine
  <2>4. QED
    BY <2>2, <2>3
<1>10. QED
  BY <1>6, <1>7, <1>8, <1>9 DEF ThreadStep

LEMMA InLineStays == ASSUME TypeOK, Threads, InLine, Next PROVE InLine'
<1>1. Line \in Seq(Nat) /\ taken \in Nat
  BY LineTyped, PositionsAre
<1>2. CASE UNCHANGED <<n, chunk, fed, inCh>> /\ taken' \in Nat /\ taken' >= taken
  <2>1. Line' = Line
    BY <1>2 DEF Line, Mine
  <2>2. QED
    BY <1>1, <1>2, <2>1, RisingHigher DEF InLine
<1>3. CASE Attach
  <2>1. /\ n' = n + 1 /\ n + 1 # 0 /\ chunk'[n + 1] = <<>>
        /\ fed' = <<>> /\ inCh' = <<>>
    BY <1>3, NextThread DEF Attach
  <2>2. Line' = <<>>
    <3>1. FlattenSeq(inCh') = <<>> /\ Mine' = <<>>
      BY <2>1, FlattenEmpty DEF Mine
    <3>2. QED
      BY <2>1, <3>1 DEF Line
  <2>3. \A top : Rising(<<>>, top)
    <3>1. DOMAIN <<>> = {}
      OBVIOUS
    <3>2. QED
      BY <3>1 DEF Rising
  <2>4. QED
    BY <2>2, <2>3 DEF InLine
<1>4. CASE TaskTakes
  <2>1. /\ Head(inCh) \in Seq(Nat) /\ fed \in Seq(Nat) /\ Mine \in Seq(Nat)
        /\ FlattenSeq(Tail(inCh)) \in Seq(Nat)
        /\ FlattenSeq(inCh) = Head(inCh) \o FlattenSeq(Tail(inCh))
    BY <1>4, NumbersAre, LineTyped, FlattenCons, FlattenIsSeq DEF TaskTakes, Numbers
  <2>2. /\ fed' = fed \o Head(inCh) /\ inCh' = Tail(inCh) /\ Mine' = Mine
        /\ taken' = taken
    BY <1>4 DEF TaskTakes, Mine, threads, term
  <2>3. FlattenSeq(Tail(inCh)) \o Mine \in Seq(Nat)
    BY <2>1, ConcatProperties
  <2>4. /\ FlattenSeq(inCh) \o Mine
             = Head(inCh) \o (FlattenSeq(Tail(inCh)) \o Mine)
        /\ fed \o (Head(inCh) \o (FlattenSeq(Tail(inCh)) \o Mine))
             = (fed \o Head(inCh)) \o (FlattenSeq(Tail(inCh)) \o Mine)
    <3>1. PICK h \in Seq(Nat), t \in Seq(Nat), u \in Seq(Nat) :
            /\ h = Head(inCh) /\ t = FlattenSeq(Tail(inCh))
            /\ u = FlattenSeq(Tail(inCh)) \o Mine
      BY <2>1, <2>3
    <3>2. PICK a \in Seq(Nat), c \in Seq(Nat) : a = fed /\ c = Mine
      BY <2>1
    <3>3. (h \o t) \o c = h \o (t \o c)
      BY RegroupNat, ZenonT(30)
    <3>4. (a \o h) \o u = a \o (h \o u)
      BY RegroupNat, ZenonT(30)
    <3>5. QED
      BY <2>1, <3>1, <3>2, <3>3, <3>4
  <2>5. Line' = Line
    BY <2>2, <2>4 DEF Line
  <2>6. QED
    BY <2>2, <2>5 DEF InLine
<1>5. CASE TaskTimesOut \/ TaskWrites \/ TaskHelps \/ TaskEnds \/ TaskVanishes
  BY <1>1, <1>2, <1>5
     DEF TaskTimesOut, TaskWrites, TaskHelps, TaskEnds, TaskVanishes, threads, term
<1>6. CASE PickerTakes
  BY <1>1, <1>2, <1>6 DEF PickerTakes, threads, stdin
<1>7. CASE \/ AttachFails \/ PickerFails \/ MainStep \/ WriterWrites
           \/ \E broken \in BOOLEAN : ConnectionEnds(broken)
  BY <1>1, <1>2, <1>7
     DEF AttachFails, PickerFails, MainStep, TakesOutcome, TearsDown, WriterWrites,
         ConnectionEnds, threads, stdin, term
<1>8. QED
  BY <1>3, <1>4, <1>5, <1>6, <1>7, ThreadInLine DEF Next, Running, TaskStep

-----------------------------------------------------------------------------
(* The reference, as keys are fed and timeouts come.                       *)
MeaningsOf(text, keys, gone) ==
  [i \in DOMAIN keys |-> Meant(AfterOf(text, keys, gone)[i - 1], text[keys[i]], keys[i])]

LEMMA MeaningsDef ==
  /\ Meanings = MeaningsOf(typed, fed, expired)
  /\ Meanings' = MeaningsOf(typed', fed', expired')
<1>1. \A i : Meaning(i) = Meant(AfterOf(typed, fed, expired)[i - 1], typed[fed[i]], fed[i])
  BY MeaningDef, AfterDef
<1>2. \A i : Meaning(i)' = Meant(AfterOf(typed', fed', expired')[i - 1],
                                typed'[fed'[i]], fed'[i])
  BY MeaningDef, AfterDef
<1>3. QED
  BY <1>1, <1>2 DEF Meanings, MeaningsOf

LEMMA MeaningsAre ==
  ASSUME NEW text, NEW keys \in Seq(Nat), NEW gone
  PROVE  /\ MeaningsOf(text, keys, gone) \in Seq(Event)
         /\ Len(MeaningsOf(text, keys, gone)) = Len(keys)
         /\ \A i \in 1..Len(keys) :
              MeaningsOf(text, keys, gone)[i]
                = Meant(AfterOf(text, keys, gone)[i - 1], text[keys[i]], keys[i])
<1> DEFINE e(i) == Meant(AfterOf(text, keys, gone)[i - 1], text[keys[i]], keys[i])
<1>1. DOMAIN keys = 1..Len(keys) /\ Len(keys) \in Nat
  OBVIOUS
<1>2. \A i \in 1..Len(keys) : e(i) \in Event
  <2>1. \A i \in 1..Len(keys) : keys[i] \in Nat
    OBVIOUS
  <2>2. QED
    BY <2>1, MeantIs
<1> HIDE DEF e
<1>3. PICK m : m = [i \in 1..Len(keys) |-> e(i)]
  OBVIOUS
<1>4. m \in Seq(Event) /\ Len(m) = Len(keys) /\ \A i \in 1..Len(keys) : m[i] = e(i)
  <2>1. m \in [1..Len(keys) -> Event]
    BY <1>2, <1>3
  <2>2. QED
    BY <1>1, <1>3, <2>1
<1>5. MeaningsOf(text, keys, gone) = m
  BY <1>1, <1>3 DEF MeaningsOf, e
<1>6. QED
  BY <1>4, <1>5 DEF e

(* A timeout after the last key changes nothing of what it meant.          *)
LEMMA MeaningsSame ==
  ASSUME NEW text, NEW keys \in Seq(Nat), NEW gone
  PROVE  MeaningsOf(text, keys, gone \cup {Len(keys)}) = MeaningsOf(text, keys, gone)
<1> DEFINE more == gone \cup {Len(keys)}
<1>1. DOMAIN keys = 1..Len(keys) /\ Len(keys) \in Nat
  OBVIOUS
<1>2. ASSUME NEW i \in 1..Len(keys)
      PROVE  AfterOf(text, keys, more)[i - 1] = AfterOf(text, keys, gone)[i - 1]
  <2>1. PICK len \in Nat : len = Len(keys) - 1
    <3>1. Len(keys) - 1 \in Nat
      BY <1>1
    <3>2. QED
      BY <3>1
  <2>2. \A j \in 1..len : j \in more <=> j \in gone
    <3>1. PICK top \in Nat : top = Len(keys) /\ len = top - 1
      BY <1>1, <2>1
    <3>2. \A j \in 1..len : j # top
      BY <3>1
    <3>3. QED
      BY <3>1, <3>2
  <2> HIDE DEF more
  <2>3. \A j \in 0..len : AfterOf(text, keys, more)[j] = AfterOf(text, keys, gone)[j]
    <3>1. len <= Len(keys)
      BY <1>1, <2>1
    <3>2. QED
      BY <1>1, <2>2, <3>1, AfterAgrees
  <2>4. i - 1 \in 0..len
    BY <1>1, <2>1
  <2>5. QED
    BY <2>3, <2>4
<1>3. QED
  BY <1>1, <1>2 DEF MeaningsOf

(* Keys that are fed: the reference goes on from where it was.             *)
GoesOn(text, keys, more, gone, st, meant) ==
  /\ Traced(text, AfterOf(text, keys, gone)[Len(keys)], more, st, meant)
  /\ MeaningsOf(text, keys \o more, gone) = MeaningsOf(text, keys, gone) \o meant
  /\ st[Len(more)] = AfterOf(text, keys \o more, gone)[Len(keys \o more)]

LEMMA MeaningsMore ==
  ASSUME NEW text, NEW keys \in Seq(Nat), NEW more \in Seq(Nat),
         NEW gone \in SUBSET (1..Len(keys))
  PROVE  \E st, meant : GoesOn(text, keys, more, gone, st, meant)
<1>1. PICK all \in Seq(Nat) : all = keys \o more
  BY ConcatProperties
<1>2. PICK len \in Nat, k \in Nat : len = Len(keys) /\ k = Len(more)
  OBVIOUS
<1>3. /\ DOMAIN keys = 1..len /\ DOMAIN more = 1..k /\ DOMAIN all = 1..len + k
      /\ Len(all) = len + k /\ Len(all) \in Nat /\ len <= len + k
  <2>1. /\ DOMAIN keys = 1..Len(keys) /\ DOMAIN more = 1..Len(more)
        /\ DOMAIN all = 1..Len(all)
    OBVIOUS
  <2>2. Len(all) = len + k
    BY <1>1, <1>2, ConcatProperties
  <2>3. QED
    BY <1>2, <2>1, <2>2
<1>4. \A i \in 1..len : all[i] = keys[i]
  BY <1>1, <1>2, <1>3
<1>5. ASSUME NEW i \in 1..k PROVE all[len + i] = more[i]
  <2>1. len + i \in 1..len + k /\ ~(len + i <= len) /\ (len + i) - len = i
    BY <1>2
  <2>2. all[len + i] = more[(len + i) - len]
    BY <1>1, <1>2, <2>1
  <2>3. QED
    BY <2>1, <2>2
<1> DEFINE f == AfterOf(text, all, gone)
           st == [i \in 0..k |-> f[len + i]]
           m == MeaningsOf(text, all, gone)
           meant == [i \in 1..k |-> m[len + i]]
<1>6. \A i \in 0..len : f[i] = AfterOf(text, keys, gone)[i]
  <2>1. /\ Len(keys) \in Nat /\ len <= Len(keys)
        /\ Len(all) \in Nat /\ len <= Len(all)
    BY <1>2, <1>3
  <2> DEFINE same == gone
  <2>2. \A i \in 1..len : all[i] = keys[i] /\ (i \in gone <=> i \in same)
    BY <1>4
  <2> HIDE DEF same
  <2>3. \A i \in 0..len : AfterOf(text, all, gone)[i] = AfterOf(text, keys, same)[i]
    BY <2>1, <2>2, AfterAgrees
  <2>4. QED
    BY <2>3 DEF same
<1>7. \A i \in 0..len + k : f[i] = After1(text, all, gone, f, i)
  BY <1>3, AfterIs
<1>8. /\ m \in Seq(Event) /\ Len(m) = len + k
      /\ \A i \in 1..len + k : m[i] = Meant(f[i - 1], text[all[i]], all[i])
  <2>1. /\ m \in Seq(Event) /\ Len(m) = Len(all)
        /\ \A i \in 1..Len(all) : m[i] = Meant(f[i - 1], text[all[i]], all[i])
    BY MeaningsAre
  <2>2. QED
    BY <1>3, <2>1
<1>9. /\ MeaningsOf(text, keys, gone) \in Seq(Event)
      /\ Len(MeaningsOf(text, keys, gone)) = len
      /\ \A i \in 1..len : MeaningsOf(text, keys, gone)[i]
           = Meant(AfterOf(text, keys, gone)[i - 1], text[keys[i]], keys[i])
  BY <1>2, MeaningsAre
<1> HIDE DEF f, m
<1>10. /\ st[0] = f[len] /\ st[k] = f[len + k]
       /\ \A i \in 0..k, j \in Nat : j = len + i => st[i] = f[j]
  BY <1>2
<1>11. /\ meant \in Seq(Event) /\ Len(meant) = k
       /\ \A i \in 1..k, j \in Nat : j = len + i => meant[i] = m[j]
  <2>1. \A i \in 1..k : len + i \in 1..len + k
    BY <1>2
  <2>2. \A i \in 1..len + k : m[i] \in Event
    BY <1>8
  <2>3. meant \in [1..k -> Event]
    BY <2>1, <2>2
  <2>4. \A v \in [1..k -> Event] : v \in Seq(Event) /\ Len(v) = k
    OBVIOUS
  <2>5. meant \in Seq(Event) /\ Len(meant) = k
    <3> HIDE DEF meant
    <3>1. QED
      BY <2>3, <2>4
  <2>6. QED
    BY <2>5
<1> HIDE DEF st, meant
<1>12. ASSUME NEW i \in 1..k
       PROVE  /\ st[i] = Then(st[i - 1], text[more[i]], FALSE)
              /\ meant[i] = Meant(st[i - 1], text[more[i]], more[i])
  <2>1. PICK j \in 1..len + k, q \in 0..k :
          j = len + i /\ q = i - 1 /\ j - 1 = len + q /\ j # 0 /\ j \notin 1..len
    <3>1. /\ len + i \in 1..len + k /\ i - 1 \in 0..k /\ (len + i) - 1 = len + (i - 1)
          /\ len + i # 0 /\ len + i \notin 1..len
      BY <1>2
    <3>2. QED
      BY <3>1
  <2>2. all[j] = more[i] /\ j \notin gone
    BY <1>2, <1>5, <2>1
  <2>3. st[i] = f[j] /\ st[q] = f[j - 1] /\ meant[i] = m[j]
    <3>1. j \in Nat /\ i \in 0..k /\ j = len + i
      BY <1>2, <2>1
    <3>2. PICK h \in Nat : h = j - 1 /\ h = len + q
      <4>1. j - 1 \in Nat /\ j - 1 = len + q
        BY <1>2, <2>1
      <4>2. QED
        BY <4>1
    <3>3. st[i] = f[j] /\ meant[i] = m[j]
      BY <1>10, <1>11, <3>1
    <3>4. st[q] = f[h]
      BY <1>10, <3>2
    <3>5. QED
      BY <3>2, <3>3, <3>4
  <2>4. f[j] = Then(f[j - 1], text[all[j]], FALSE)
    <3>1. f[j] = After1(text, all, gone, f, j)
      BY <1>7
    <3>2. QED
      BY <2>1, <2>2, <3>1 DEF After1, Then
  <2>5. m[j] = Meant(f[j - 1], text[all[j]], all[j])
    BY <1>8
  <2>6. QED
    BY <2>1, <2>2, <2>3, <2>4, <2>5
<1>13. m = MeaningsOf(text, keys, gone) \o meant
  <2>1. PICK u \in Seq(Event) : u = MeaningsOf(text, keys, gone)
    BY <1>9
  <2>2. PICK v \in Seq(Event) : v = meant
    BY <1>11
  <2>3. PICK w \in Seq(Event) : w = u \o v
    BY ConcatProperties
  <2>4. Len(u) = len /\ Len(v) = k /\ Len(w) = len + k
    BY <1>9, <1>11, <2>1, <2>2, <2>3, ConcatProperties
  <2>5. ASSUME NEW i \in 1..len + k PROVE m[i] = w[i]
    <3>1. CASE i <= len
      <4>1. i \in 1..len /\ i - 1 \in 0..len
        BY <3>1
      <4>2. m[i] = u[i]
        BY <1>4, <1>6, <1>8, <1>9, <2>1, <4>1
      <4>3. w[i] = u[i]
        BY <2>3, <2>4, <3>1
      <4>4. QED
        BY <4>2, <4>3
    <3>2. CASE i > len
      <4>1. PICK q \in 1..k : q = i - len /\ len + q = i
        <5>1. i - len \in 1..k /\ len + (i - len) = i
          BY <3>2
        <5>2. QED
          BY <5>1
      <4>2. m[i] = v[q]
        BY <1>11, <2>2, <4>1
      <4>3. w[i] = v[i - len]
        BY <2>3, <2>4, <3>2
      <4>4. QED
        BY <4>1, <4>2, <4>3
    <3>3. QED
      BY <3>1, <3>2
  <2>6. m = w
    BY <1>8, <2>4, <2>5, SeqEqual
  <2>7. QED
    BY <2>1, <2>2, <2>3, <2>6
<1>14. QED
  <2>1. /\ meant \in Seq(Event) /\ Len(meant) = Len(more)
        /\ MeaningsOf(text, keys \o more, gone) = MeaningsOf(text, keys, gone) \o meant
        /\ st[0] = AfterOf(text, keys, gone)[Len(keys)]
        /\ st[Len(more)] = AfterOf(text, keys \o more, gone)[Len(keys \o more)]
    <3>1. f[len] = AfterOf(text, keys, gone)[len]
      BY <1>2, <1>6
    <3>2. QED
      BY <1>1, <1>2, <1>3, <1>10, <1>11, <1>13, <3>1 DEF f, m
  <2>2. \A i \in 1..Len(more) :
          /\ st[i] = Then(st[i - 1], text[more[i]], FALSE)
          /\ meant[i] = Meant(st[i - 1], text[more[i]], more[i])
    BY <1>2, <1>12
  <2>3. Traced(text, AfterOf(text, keys, gone)[Len(keys)], more, st, meant)
    BY <2>1, <2>2 DEF Traced
  <2>4. QED
    BY <2>1, <2>3 DEF GoesOn

-----------------------------------------------------------------------------
(* The parser, the task and the writer, step by step.                      *)
LEMMA WrittenTyped ==
  ASSUME TypeOK
  PROVE  /\ fed \in Seq(Nat) /\ delivered \in Seq(Nat) /\ todo \in Seq(Event)
         /\ frames \in Seq(Seq(Nat)) /\ FlattenSeq(frames) \in Seq(Nat)
         /\ KeysBeforeEnd(todo) \in Seq(Nat)
         /\ Meanings \in Seq(Event) /\ KeysBeforeEnd(Meanings) \in Seq(Nat)
<1>1. /\ fed \in Seq(Nat) /\ delivered \in Seq(Nat) /\ todo \in Seq(Event)
      /\ frames \in Seq(Seq(Nat))
  BY NumbersAre DEF Numbers
<1>2. Meanings \in Seq(Event)
  BY <1>1, MeaningsAre, MeaningsDef
<1>3. QED
  BY <1>1, <1>2, FlattenIsSeq, KeysTyped

LEMMA SameReference ==
  ASSUME typed' = typed, fed' = fed, expired' = expired
  PROVE  After' = After /\ Meanings' = Meanings
BY AfterDef, MeaningsDef

LEMMA TakesRight ==
  ASSUME TypeOK, Right, TaskTakes
  PROVE  Right'
<1>1. /\ Head(inCh) \in Seq(Nat) /\ fed \in Seq(Nat) /\ parser \in Prefixed
      /\ expired \in SUBSET (1..Len(fed)) /\ Len(fed) \in Nat
  <2>1. inCh \in Seq(Seq(Nat)) /\ fed \in Seq(Nat) /\ inCh # <<>>
    BY NumbersAre DEF Numbers, TaskTakes
  <2>2. DOMAIN fed = 1..Len(fed) /\ Len(fed) \in Nat
    BY <2>1
  <2>3. QED
    BY <2>1, <2>2, FlattenCons DEF TypeOK, Prefixed
<1>2. PICK more \in Seq(Nat) : more = Head(inCh)
  BY <1>1
<1>3. PICK st, meant : GoesOn(typed, fed, more, expired, st, meant)
  BY <1>1, MeaningsMore
<1>4. /\ typed' = typed /\ fed' = fed \o more /\ expired' = expired
      /\ UNCHANGED <<frames, delivered, task>> /\ task \in {"on", "doomed"}
      /\ parser' = FeedFrom(parser, more).state /\ todo' = FeedFrom(parser, more).events
      /\ todo = <<>>
  BY <1>2 DEF TaskTakes, Feed, term
<1>5. /\ Meanings' = Meanings \o meant /\ After'[Len(fed')] = st[Len(more)]
      /\ parser = AfterOf(typed, fed, expired)[Len(fed)]
  BY <1>3, <1>4, MeaningsDef, AfterDef DEF Right, Pends, GoesOn
<1>6. /\ FeedFrom(parser, more).state = st[Len(more)]
      /\ KeysBeforeEnd(FeedFrom(parser, more).events) = KeysBeforeEnd(meant)
      /\ HasEnd(FeedFrom(parser, more).events) <=> HasEnd(meant)
  <2>1. Traced(typed, parser, more, st, meant)
    BY <1>3, <1>5 DEF GoesOn
  <2>2. QED
    BY <1>1, <2>1, FeedFollows
<1>7. ~HasEnd(Meanings)
  BY <1>4, KeysOfNone DEF Right, Unended
<1>8. /\ KeysBeforeEnd(Meanings \o meant)
           = KeysBeforeEnd(Meanings) \o KeysBeforeEnd(meant)
      /\ HasEnd(Meanings \o meant) <=> HasEnd(meant)
  <2>1. meant \in Seq(Event)
    BY <1>3 DEF GoesOn, Traced
  <2>2. Continues(Meanings, meant)
    BY <2>1, WrittenTyped, KeysConcat
  <2>3. QED
    BY <1>7, <2>2 DEF Continues
<1>9. delivered \o FlattenSeq(frames) = KeysBeforeEnd(Meanings)
  <2>1. delivered \o FlattenSeq(frames) \in Seq(Nat)
    BY WrittenTyped, ConcatProperties
  <2>2. (delivered \o FlattenSeq(frames)) \o <<>> = delivered \o FlattenSeq(frames)
    BY <2>1, ConcatEmptySeq
  <2>3. QED
    BY <1>4, <2>2, KeysOfNone DEF Right, Written
<1>10. Pends'
  BY <1>4, <1>5, <1>6 DEF Pends
<1>11. Written'
  BY <1>4, <1>5, <1>6, <1>8, <1>9 DEF Written
<1>12. Unended'
  BY <1>4, <1>5, <1>6, <1>8 DEF Unended
<1>13. QED
  BY <1>10, <1>11, <1>12 DEF Right

LEMMA TimesOutRight ==
  ASSUME TypeOK, Right, TaskTimesOut
  PROVE  Right'
<1>1. /\ typed' = typed /\ fed' = fed /\ expired' = expired \cup {Len(fed)}
      /\ parser' = "idle" /\ UNCHANGED <<frames, delivered, task, todo>>
  BY DEF TaskTimesOut, term
<1>2. Meanings' = Meanings
  BY <1>1, WrittenTyped, MeaningsSame, MeaningsDef
<1>3. After'[Len(fed)] = "idle"
  <2>1. Len(fed) \in Nat /\ Len(fed) \in 0..Len(fed)
    BY WrittenTyped
  <2>2. PICK f : f = AfterOf(typed, fed, expired \cup {Len(fed)})
    OBVIOUS
  <2>3. f[Len(fed)] = After1(typed, fed, expired \cup {Len(fed)}, f, Len(fed))
    BY <2>1, <2>2, AfterIs
  <2>4. f[Len(fed)] = "idle"
    BY <2>3 DEF After1, Then
  <2>5. QED
    BY <1>1, <2>2, <2>4, AfterDef
<1>4. QED
  BY <1>1, <1>2, <1>3 DEF Right, Pends, Written, Unended

LEMMA ActsRight ==
  ASSUME TypeOK, Right, TaskWrites \/ TaskHelps \/ TaskEnds \/ TaskVanishes
  PROVE  Right'
<1>1. /\ typed' = typed /\ fed' = fed /\ expired' = expired
      /\ parser' = parser /\ delivered' = delivered
  BY DEF TaskWrites, TaskHelps, TaskEnds, TaskVanishes, term
<1>2. Pends' /\ Meanings' = Meanings
  BY <1>1, SameReference DEF Right, Pends
<1>3. CASE frames' = frames /\ todo' = todo /\ task' \notin {"on", "doomed"}
  BY <1>1, <1>2, <1>3 DEF Right, Written, Unended
<1>4. CASE TaskWrites
  <2>1. CASE ~up /\ task' = "returned" /\ UNCHANGED <<frames, todo>>
    BY <1>3, <2>1
  <2>2. CASE frames' = Append(frames, Head(todo).keys) /\ todo' = Tail(todo) /\ task' = task
    <3>1. /\ todo # <<>> /\ Head(todo).do \notin Ends
      BY <1>4 DEF TaskWrites, Ends
    <3>2. /\ Head(todo).keys \in Seq(Nat) /\ KeysBeforeEnd(Tail(todo)) \in Seq(Nat)
          /\ KeysBeforeEnd(todo) = Head(todo).keys \o KeysBeforeEnd(Tail(todo))
          /\ HasEnd(todo) <=> HasEnd(Tail(todo))
      BY <3>1, WrittenTyped, KeysHead, KeysTyped DEF Event
    <3>3. FlattenSeq(Append(frames, Head(todo).keys))
            = FlattenSeq(frames) \o Head(todo).keys
      BY <3>2, WrittenTyped, FlattenAppend
    <3>4. (delivered \o (FlattenSeq(frames) \o Head(todo).keys)) \o KeysBeforeEnd(Tail(todo))
            = (delivered \o FlattenSeq(frames))
                \o (Head(todo).keys \o KeysBeforeEnd(Tail(todo)))
      <4>1. PICK d \in Seq(Nat), f \in Seq(Nat), h \in Seq(Nat), t \in Seq(Nat) :
              /\ d = delivered /\ f = FlattenSeq(frames)
              /\ h = Head(todo).keys /\ t = KeysBeforeEnd(Tail(todo))
        BY <3>2, WrittenTyped
      <4>2. PICK df \in Seq(Nat) : df = d \o f
        BY ConcatProperties
      <4>3. (d \o f) \o h = d \o (f \o h)
        BY RegroupNat, ZenonT(30)
      <4>4. (df \o h) \o t = df \o (h \o t)
        BY RegroupNat, ZenonT(30)
      <4>5. QED
        BY <4>1, <4>2, <4>3, <4>4
    <3>5. Written'
      BY <1>1, <1>2, <2>2, <3>2, <3>3, <3>4 DEF Right, Written
    <3>6. Unended'
      BY <1>2, <2>2, <3>2 DEF Right, Unended
    <3>7. QED
      BY <1>2, <3>5, <3>6 DEF Right
  <2>3. QED
    BY <1>4, <2>1, <2>2 DEF TaskWrites
<1>5. CASE TaskHelps
  <2>1. /\ todo # <<>> /\ Head(todo).do \notin Ends /\ Head(todo).do = "Help"
        /\ frames' = frames /\ todo' = Tail(todo) /\ task' = task
    BY <1>5 DEF TaskHelps, Ends
  <2>2. Head(todo).keys = <<>>
    <3>1. Head(todo) \in Events
      BY <2>1 DEF TypeOK
    <3>2. \A e \in [do : {"write"}, keys : Seq(Positions)] : e.do = "write"
      OBVIOUS
    <3>3. \A e \in [do : Ends \cup {"Help"}, keys : {<<>>}] : e.keys = <<>>
      OBVIOUS
    <3>4. QED
      BY <2>1, <3>1, <3>2, <3>3 DEF Events
  <2>3. /\ KeysBeforeEnd(Tail(todo)) \in Seq(Nat)
        /\ KeysBeforeEnd(todo) = <<>> \o KeysBeforeEnd(Tail(todo))
        /\ HasEnd(todo) <=> HasEnd(Tail(todo))
    BY <2>1, <2>2, WrittenTyped, KeysHead, KeysTyped
  <2>4. KeysBeforeEnd(todo) = KeysBeforeEnd(Tail(todo))
    BY <2>3, ConcatEmptySeq
  <2>5. Written' /\ Unended'
    BY <1>1, <1>2, <2>1, <2>3, <2>4 DEF Right, Written, Unended
  <2>6. QED
    BY <1>2, <2>5 DEF Right
<1>6. CASE TaskEnds
  <2>1. /\ todo # <<>> /\ Head(todo).do \in Ends
        /\ frames' = frames /\ todo' = <<>> /\ task' = "returned"
    BY <1>6 DEF TaskEnds
  <2>2. KeysBeforeEnd(todo) = <<>> /\ KeysBeforeEnd(<<>>) = <<>>
    BY <2>1, WrittenTyped, KeysHead, KeysOfNone
  <2>3. Written' /\ Unended'
    BY <1>1, <1>2, <2>1, <2>2 DEF Right, Written, Unended
  <2>4. QED
    BY <1>2, <2>3 DEF Right
<1>7. CASE TaskVanishes
  BY <1>3, <1>7 DEF TaskVanishes
<1>8. QED
  BY <1>4, <1>5, <1>6, <1>7

LEMMA OthersRight ==
  ASSUME TypeOK, Right, typed' = typed,
         \/ Attach \/ WriterWrites \/ AttachFails \/ PickerTakes \/ PickerFails \/ MainStep
         \/ \E a \in Attachments : ThreadStep(a)
         \/ \E broken \in BOOLEAN : ConnectionEnds(broken)
  PROVE  Right'
<1>1. CASE /\ UNCHANGED <<parser, todo, fed, expired, frames, delivered>>
           /\ task' \in {"on", "doomed"} => task \in {"on", "doomed"}
  <2>1. After' = After /\ Meanings' = Meanings
    BY <1>1, SameReference
  <2>2. QED
    BY <1>1, <2>1 DEF Right, Pends, Written, Unended
<1>2. CASE Attach
  <2>1. /\ parser' = "idle" /\ todo' = <<>> /\ fed' = <<>> /\ expired' = {}
        /\ frames' = <<>> /\ delivered' = <<>>
    BY <1>2 DEF Attach
  <2>2. Meanings' = <<>>
    BY <2>1, MeaningsDef DEF MeaningsOf
  <2>3. After'[0] = "idle"
    <3>1. Len(<<>>) = 0
      OBVIOUS
    <3>2. AfterOf(typed, <<>>, {})[0] = "idle"
      BY <3>1, AfterIs DEF After1
    <3>3. QED
      BY <2>1, <3>2, AfterDef
  <2>4. Pends'
    BY <2>1, <2>3 DEF Pends
  <2>5. Written' /\ Unended'
    <3>1. <<>> \o <<>> = <<>>
      BY ConcatEmptySeq, EmptySeq
    <3>2. QED
      BY <2>1, <2>2, <3>1, KeysOfNone, FlattenEmpty DEF Written, Unended
  <2>6. QED
    BY <2>4, <2>5 DEF Right
<1>3. CASE WriterWrites
  <2>1. /\ frames # <<>> /\ delivered' = delivered \o Head(frames) /\ frames' = Tail(frames)
        /\ UNCHANGED <<task, parser, todo, fed, expired>>
    BY <1>3 DEF WriterWrites, stdin
  <2>2. After' = After /\ Meanings' = Meanings
    BY <2>1, SameReference
  <2>3. /\ Head(frames) \in Seq(Nat) /\ FlattenSeq(Tail(frames)) \in Seq(Nat)
        /\ FlattenSeq(frames) = Head(frames) \o FlattenSeq(Tail(frames))
    BY <2>1, WrittenTyped, FlattenCons, FlattenIsSeq
  <2>4. (delivered \o Head(frames)) \o FlattenSeq(Tail(frames))
          = delivered \o FlattenSeq(frames)
    <3>1. PICK d \in Seq(Nat), h \in Seq(Nat), t \in Seq(Nat) :
            d = delivered /\ h = Head(frames) /\ t = FlattenSeq(Tail(frames))
      BY <2>3, WrittenTyped
    <3>2. (d \o h) \o t = d \o (h \o t)
      BY RegroupNat, ZenonT(30)
    <3>3. QED
      BY <2>3, <3>1, <3>2
  <2>5. Written'
    BY <2>1, <2>2, <2>4 DEF Right, Written
  <2>6. QED
    BY <2>1, <2>2, <2>5 DEF Right, Pends, Unended
<1>4. CASE AttachFails \/ PickerTakes \/ PickerFails \/ MainStep
  BY <1>1, <1>4 DEF AttachFails, PickerTakes, PickerFails, MainStep, TakesOutcome,
                    TearsDown, stdin
<1>5. CASE \E a \in Attachments : ThreadStep(a)
  BY <1>1, <1>5 DEF ThreadStep, ThreadLocks, ThreadReads, ThreadSends, ThreadGivesUp,
                    ThreadGivesUpTo, stdin
<1>6. CASE \E broken \in BOOLEAN : ConnectionEnds(broken)
  BY <1>1, <1>6 DEF ConnectionEnds, stdin
<1>7. QED
  BY <1>2, <1>3, <1>4, <1>5, <1>6

-----------------------------------------------------------------------------
LEMMA InitHolds == Init => IInv
<1> SUFFICES ASSUME Init PROVE IInv
  OBVIOUS
<1>1. /\ <<>> \in Seq(Positions) /\ <<>> \in Seq(Seq(Positions))
      /\ <<>> \in Seq(Events) /\ <<>> \in Seq(Outcomes) /\ Len(<<>>) = 0
      /\ DOMAIN <<>> = {} /\ <<>> \o <<>> = <<>>
  BY ConcatEmptySeq, EmptySeq
<1>2. TypeOK
  <2>1. taken \in 0 .. Len(typed)
    <3>1. typed \in Seq(Keys)
      BY BoundsAssumption DEF Init
    <3>2. QED
      BY <3>1 DEF Init
  <2>2. /\ InCap \in Nat /\ FrameCap \in Nat /\ n \in 0 .. MaxAttach
        /\ 0 <= InCap /\ 0 <= FrameCap
    BY BoundsAssumption DEF Init
  <2>3. QED
    BY <1>1, <2>1, <2>2 DEF Init, TypeOK
<1>3. Threads
  BY DEF Init, Threads
<1>4. InLine
  <2>1. Line = <<>>
    BY <1>1, FlattenEmpty DEF Init, Line, Mine
  <2>2. QED
    BY <1>1, <2>1 DEF InLine, Rising
<1>5. LostByGone
  <2>1. Gone = {}
    BY DEF Init, Gone
  <2>2. QED
    BY <2>1, FS_EmptySet DEF Init, LostByGone
<1>6. Right
  <2>1. After[0] = "idle"
    <3>1. AfterOf(typed, <<>>, {})[0] = "idle"
      BY <1>1, AfterIs DEF After1
    <3>2. QED
      BY <3>1, AfterDef DEF Init
  <2>2. Meanings = <<>>
    BY <1>1 DEF Init, Meanings
  <2>3. Pends
    BY <1>1, <2>1 DEF Init, Pends
  <2>4. Written /\ Unended
    BY <1>1, <2>2, FlattenEmpty, KeysOfNone DEF Init, Written, Unended
  <2>5. QED
    BY <2>3, <2>4 DEF Right
<1>7. QED
  BY <1>2, <1>3, <1>4, <1>5, <1>6 DEF IInv

LEMMA StepHolds == IInv /\ [Next]_vars => IInv'
<1> SUFFICES ASSUME IInv, [Next]_vars PROVE IInv'
  OBVIOUS
<1>1. TypeOK /\ Threads /\ InLine /\ LostByGone /\ Right
  BY DEF IInv
<1>2. TypeOK'
  BY <1>1, StepTyped DEF Right
<1>3. CASE UNCHANGED vars
  <2>1. UNCHANGED <<typed, taken, n, thread, chunk, inCh, task, parser, todo,
                    frames, delivered, fed, expired, lost>>
    BY <1>3 DEF vars, term, threads, stdin
  <2>2. Threads' /\ InLine' /\ LostByGone'
    BY <1>1, <2>1 DEF Threads, InLine, Line, Mine, LostByGone, Gone
  <2>3. Right'
    BY <1>1, <2>1, SameReference DEF Right, Pends, Written, Unended
  <2>4. QED
    BY <1>2, <2>2, <2>3 DEF IInv
<1>4. CASE Next
  <2>1. Threads' /\ InLine' /\ LostByGone'
    BY <1>1, <1>4, ThreadsStay, InLineStays, GoneStays
  <2>2. typed' = typed
    BY <1>4, TypedStays
  <2>3. Right'
    BY <1>1, <1>4, <2>2, TakesRight, TimesOutRight, ActsRight, OthersRight
       DEF Next, Running, TaskStep
  <2>4. QED
    BY <1>2, <2>1, <2>3 DEF IInv
<1>5. QED
  BY <1>3, <1>4

THEOREM InvHolds == Spec => []IInv
BY InitHolds, StepHolds, PTL DEF Spec

(* cli_haven.rs:305-358, attach.rs:93-420, keys.rs:73-123: every step of   *)
(* the attach loop, of its threads and tasks and of the parser keeps the   *)
(* types; neither channel ever holds more than its capacity.               *)
THEOREM TypeCorrect == Spec => []TypeOK
<1>1. IInv => TypeOK
  BY DEF IInv
<1>2. QED
  BY <1>1, InvHolds, PTL

(* keys.rs:70-137, attach.rs:245-366: whatever is typed, and however it is *)
(* divided by reads, chunks and timeouts, the session is written the keys  *)
(* that are no part of a chord, in order, once, up to the chord that ends  *)
(* the attachment; and the keys are fed in the order of typing.            *)
THEOREM ForwardsWhatWasTypedHolds == Spec => []ForwardsWhatWasTyped
<1>1. IInv => ForwardsWhatWasTyped
  <2> SUFFICES ASSUME IInv PROVE ForwardsWhatWasTyped
    OBVIOUS
  <2>1. Rising(fed, taken)
    <3>1. PICK rest \in Seq(Nat) : rest = FlattenSeq(inCh) \o Mine
      BY LineTyped DEF IInv
    <3>2. fed \in Seq(Nat) /\ Rising(fed \o rest, taken)
      BY <3>1, NumbersAre DEF IInv, InLine, Line, Numbers
    <3>3. QED
      BY <3>2, RisingLess
  <2>2. QED
    BY <2>1 DEF IInv, Right, Written, Meanings, Rising, ForwardsWhatWasTyped
<1>2. QED
  BY <1>1, InvHolds, PTL

(* attach.rs:245-261: of all the threads that were ever started, each      *)
(* discards what it has read once at most, for it ends then.               *)
THEOREM LostOncePerThreadHolds == Spec => []LostOncePerThread
<1>1. IInv => LostOncePerThread
  <2> SUFFICES ASSUME IInv PROVE LostOncePerThread
    OBVIOUS
  <2>1. n \in Nat /\ lost = Cardinality(Gone)
    BY DEF IInv, TypeOK, LostByGone
  <2>2. Gone \subseteq 1..n
    <3>1. \A a \in Gone : a \in 1..MaxAttach /\ ~(a > n)
      BY DEF IInv, Threads, Gone, Attachments
    <3>2. QED
      BY <2>1, <3>1, BoundsAssumption
  <2>3. IsFiniteSet(1..n) /\ Cardinality(1..n) = n
    BY <2>1, FS_Interval
  <2>4. Cardinality(Gone) <= n
    BY <2>2, <2>3, FS_Subset
  <2>5. QED
    BY <2>1, <2>4 DEF LostOncePerThread
<1>2. QED
  BY <1>1, InvHolds, PTL
=============================================================================
