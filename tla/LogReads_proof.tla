---------------------------- MODULE LogReads_proof ----------------------------
(***************************************************************************)
(* For any payloads (a pager's end in a newline), any window and any       *)
(* patterns: what a client of read_tail_before or read_range puts together *)
(* is one piece of the plaintext until the log forgets something, and      *)
(* loses no byte that is still there, or repeats none, when it does; the   *)
(* types; and a search reports the leftmost matches that do not overlap.   *)
(*                                                                         *)
(* The plaintext is a flattened sequence, so the first half is about that: *)
(* what FlattenSeq does at the end, at the front (FlatOfConcat), how long  *)
(* the result is, where each byte of it is from and in which order.  An    *)
(* append then moves the plaintext (PlainMoves), or only makes it longer   *)
(* (PlainExtends).  The induction is over sets of numbers (AllOfNat).      *)
(*                                                                         *)
(* The second half is the search: its loop (FoundIsLeftmost), what the     *)
(* lossy and the lower-case text keep of the log (Spell), the line around  *)
(* a match (AroundIs), and that no slice of it cuts a character (Joined).  *)
(***************************************************************************)
EXTENDS LogReads, FiniteSetTheorems, SequenceTheorems, WellFoundedInduction, TLAPS

(* Induction: a set of numbers with 0 in it and the next of each is Nat.   *)
LEMMA LeastIn ==
  ASSUME NEW R, IsWellFoundedOn(R, Nat), \A x, y \in Nat : y < x => <<y, x>> \in R,
         NEW S \in SUBSET Nat, S # {}
  PROVE  \E n \in S : \A m \in S : n <= m
<1>1. PICK x \in S : \A y \in S : ~(<<y, x>> \in R)
  BY WFMin, S \subseteq Nat
<1>2. \A y \in S : ~(y < x)
  BY <1>1
<1>3. QED
  BY <1>2

LEMMA Least ==
  ASSUME NEW S \in SUBSET Nat, S # {}
  PROVE  \E n \in S : \A m \in S : n <= m
<1>1. \A x, y \in Nat : y < x => <<y, x>> \in OpToRel(<, Nat)
  BY DEF OpToRel
<1>2. \E R : IsWellFoundedOn(R, Nat) /\ \A x, y \in Nat : y < x => <<y, x>> \in R
  BY <1>1, NatLessThanWellFounded
<1>3. QED
  BY <1>2, LeastIn

LEMMA AllOfNat ==
  ASSUME NEW S \in SUBSET Nat, 0 \in S, \A n \in S : n + 1 \in S
  PROVE  Nat \subseteq S
<1> SUFFICES ASSUME Nat \ S # {} PROVE FALSE
  OBVIOUS
<1>1. PICK n \in Nat \ S : \A m \in Nat \ S : n <= m
  BY Least
<1>2. n - 1 \in S
  BY <1>1
<1>3. QED
  BY <1>1, <1>2

-----------------------------------------------------------------------------
(* FlattenSeq strings sequences together, one after the other.             *)
Strung(p, i, f) == IF i = 1 THEN p[i] ELSE f[i - 1] \o p[i]

IsFlat(p, n, f) == f = [i \in 1..n |-> Strung(p, i, f)]

LEMMA FlatExists == ASSUME NEW p, NEW n \in Nat PROVE \E f : IsFlat(p, n, f)
<1> DEFINE N == {m \in Nat : \E f : IsFlat(p, m, f)}
<1>1. 0 \in N
  <2>1. IsFlat(p, 0, <<>>)
    BY DEF IsFlat
  <2>2. QED
    BY <2>1
<1>2. ASSUME NEW m \in N PROVE m + 1 \in N
  <2>1. PICK g : IsFlat(p, m, g)
    OBVIOUS
  <2> DEFINE h == [i \in 1..m+1 |-> Strung(p, i, g)]
  <2>2. \A i \in 1..m : g[i] = Strung(p, i, g) /\ h[i] = Strung(p, i, g)
    BY <2>1 DEF IsFlat
  <2>3. ASSUME NEW i \in 1..m+1 PROVE h[i] = Strung(p, i, h)
    <3>1. h[i] = Strung(p, i, g)
      OBVIOUS
    <3>2. CASE i = 1
      BY <3>1, <3>2 DEF Strung
    <3>3. CASE i # 1
      <4>1. i - 1 \in 1..m
        BY <3>3
      <4>2. g[i - 1] = h[i - 1]
        BY <2>2, <4>1
      <4>3. QED
        BY <3>1, <3>3, <4>2 DEF Strung
    <3>4. QED
      BY <3>2, <3>3
  <2>4. h = [i \in 1..m+1 |-> Strung(p, i, h)]
    BY <2>3
  <2>5. IsFlat(p, m + 1, h)
    BY <2>4 DEF IsFlat
  <2>6. QED
    BY <2>5
<1>3. Nat \subseteq N
  BY <1>1, <1>2, AllOfNat
<1>4. QED
  BY <1>3

LEMMA FlatAgrees ==
  ASSUME NEW p, NEW n \in Nat, NEW f, IsFlat(p, n, f),
         NEW q, NEW g, IsFlat(q, n + 1, g), \A i \in 1..n : p[i] = q[i]
  PROVE  \A i \in 1..n : f[i] = g[i]
<1> DEFINE N == {j \in Nat : j \in 1..n => f[j] = g[j]}
<1>1. 0 \in N
  OBVIOUS
<1>2. ASSUME NEW j \in N PROVE j + 1 \in N
  <2> SUFFICES ASSUME j + 1 \in 1..n PROVE f[j + 1] = g[j + 1]
    OBVIOUS
  <2>1. j + 1 \in 1..n /\ j + 1 \in 1..n+1 /\ (j + 1) - 1 = j
    OBVIOUS
  <2>2. f[j + 1] = Strung(p, j + 1, f) /\ g[j + 1] = Strung(q, j + 1, g)
    BY <2>1 DEF IsFlat
  <2>3. p[j + 1] = q[j + 1]
    OBVIOUS
  <2>4. CASE j = 0
    BY <2>2, <2>3, <2>4 DEF Strung
  <2>5. CASE j # 0
    <3>1. f[j] = g[j] /\ j + 1 # 1
      BY <2>5
    <3>2. QED
      BY <2>1, <2>2, <2>3, <3>1 DEF Strung
  <2>6. QED
    BY <2>4, <2>5
<1>3. Nat \subseteq N
  BY <1>1, <1>2, AllOfNat
<1>4. QED
  BY <1>3

LEMMA FlattenIs ==
  ASSUME NEW p, NEW n \in Nat \ {0}, Len(p) = n
  PROVE  \E f : IsFlat(p, n, f) /\ FlattenSeq(p) = f[n]
<1> DEFINE f == CHOOSE g : IsFlat(p, n, g)
<1>1. IsFlat(p, n, f)
  BY FlatExists
<1>2. FlattenSeq(p) = f[n]
  BY DEF FlattenSeq, IsFlat, Strung
<1>3. QED
  BY <1>1, <1>2

LEMMA FlattenEmpty == FlattenSeq(<<>>) = <<>>
BY DEF FlattenSeq

LEMMA FlattenAppend ==
  ASSUME NEW S, NEW p \in Seq(Seq(S)), NEW e \in Seq(S), FlattenSeq(p) \in Seq(S)
  PROVE  FlattenSeq(Append(p, e)) = FlattenSeq(p) \o e
<1> DEFINE q == Append(p, e)
           n == Len(p)
<1>1. /\ n \in Nat /\ Len(q) = n + 1 /\ q[n + 1] = e /\ \A i \in 1..n : q[i] = p[i]
      /\ n + 1 \in Nat \ {0} /\ n + 1 \in 1..n+1
  OBVIOUS
<1> HIDE DEF q, n
<1>2. PICK g : IsFlat(q, n + 1, g) /\ FlattenSeq(q) = g[n + 1]
  BY <1>1, FlattenIs
<1>3. g[n + 1] = Strung(q, n + 1, g)
  BY <1>1, <1>2 DEF IsFlat
<1>4. CASE n = 0
  <2>1. p = <<>>
    BY <1>4 DEF n
  <2>2. FlattenSeq(q) = e
    BY <1>1, <1>2, <1>3, <1>4 DEF Strung
  <2>3. QED
    BY <2>1, <2>2, FlattenEmpty, ConcatEmptySeq DEF q
<1>5. CASE n # 0
  <2>1. PICK f : IsFlat(p, n, f) /\ FlattenSeq(p) = f[n]
    BY <1>1, <1>5, FlattenIs DEF n
  <2>2. \A i \in 1..n : f[i] = g[i]
    <3>1. \A i \in 1..n : p[i] = q[i]
      BY <1>1
    <3>2. IsFlat(p, n, f) /\ IsFlat(q, n + 1, g)
      BY <1>2, <2>1
    <3>3. QED
      BY <1>1, <3>1, <3>2, FlatAgrees
  <2>3. g[n + 1] = g[n] \o e
    BY <1>1, <1>3, <1>5 DEF Strung
  <2>4. QED
    <3>1. f[n] = g[n]
      BY <1>1, <1>5, <2>2
    <3>2. QED
      BY <1>2, <2>1, <2>3, <3>1 DEF q
<1>6. QED
  BY <1>4, <1>5


-----------------------------------------------------------------------------
(* The bytes of a log, for any log.                                        *)
Entry == [id : Nat, len : Nat]
Place == [id : Nat, at : Nat]

Piece(e) == [k \in 1..e.len |-> [id |-> e.id, at |-> k]]
Pieces(s) == [i \in DOMAIN s |-> Piece(s[i])]
Flat(s) == FlattenSeq(Pieces(s))

LEMMA PlainIs == Plain = Flat(log) /\ Plain' = Flat(log')
BY DEF Plain, Flat, Pieces, Piece

LEMMA PieceIs ==
  ASSUME NEW e \in Entry
  PROVE  /\ Piece(e) \in Seq(Place) /\ Len(Piece(e)) = e.len
         /\ e.id \in Nat /\ e.len \in Nat
         /\ \A k \in 1..e.len : Piece(e)[k].id = e.id /\ Piece(e)[k].at = k
<1>1. e.id \in Nat /\ e.len \in Nat
  BY DEF Entry
<1>2. \A k \in 1..e.len : [id |-> e.id, at |-> k] \in Place
  BY <1>1 DEF Place
<1>3. Piece(e) \in [1..e.len -> Place]
  BY <1>2 DEF Piece
<1>4. Piece(e) \in Seq(Place) /\ Len(Piece(e)) = e.len
  BY <1>1, <1>3
<1>5. QED
  BY <1>1, <1>4 DEF Piece

LEMMA PiecesAre ==
  ASSUME NEW s \in Seq(Entry)
  PROVE  /\ Pieces(s) \in Seq(Seq(Place)) /\ Len(Pieces(s)) = Len(s)
         /\ \A i \in 1..Len(s) : Pieces(s)[i] = Piece(s[i])
<1>1. DOMAIN s = 1..Len(s) /\ Len(s) \in Nat /\ \A i \in 1..Len(s) : s[i] \in Entry
  OBVIOUS
<1>2. \A i \in 1..Len(s) : Pieces(s)[i] = Piece(s[i])
  BY <1>1 DEF Pieces
<1>3. Pieces(s) \in [1..Len(s) -> Seq(Place)]
  BY <1>1, PieceIs DEF Pieces
<1>4. QED
  BY <1>1, <1>2, <1>3

LEMMA PiecesOfAppend ==
  ASSUME NEW s \in Seq(Entry), NEW e \in Entry
  PROVE  Pieces(Append(s, e)) = Append(Pieces(s), Piece(e))
<1> DEFINE t == Append(s, e)
           p == Append(Pieces(s), Piece(e))
<1>1. /\ t \in Seq(Entry) /\ Len(t) = Len(s) + 1 /\ t[Len(s) + 1] = e
      /\ Len(s) \in Nat /\ \A i \in 1..Len(s) : t[i] = s[i]
  OBVIOUS
<1>2. Pieces(t) \in Seq(Seq(Place)) /\ Len(Pieces(t)) = Len(s) + 1
      /\ \A i \in 1..Len(s)+1 : Pieces(t)[i] = Piece(t[i])
  BY <1>1, PiecesAre
<1>3. /\ Pieces(s) \in Seq(Seq(Place)) /\ Len(Pieces(s)) = Len(s)
      /\ \A i \in 1..Len(s) : Pieces(s)[i] = Piece(s[i])
  BY PiecesAre
<1>4. Piece(e) \in Seq(Place)
  BY PieceIs
<1>5. p \in Seq(Seq(Place)) /\ Len(p) = Len(s) + 1 /\ p[Len(s) + 1] = Piece(e)
      /\ \A i \in 1..Len(s) : p[i] = Pieces(s)[i]
  BY <1>3, <1>4, AppendProperties
<1>6. \A i \in 1..Len(Pieces(t)) : Pieces(t)[i] = p[i]
  <2> TAKE i \in 1..Len(Pieces(t))
  <2>1. CASE i = Len(s) + 1
    BY <1>1, <1>2, <1>5, <2>1
  <2>2. CASE i # Len(s) + 1
    <3>1. i \in 1..Len(s)
      BY <1>1, <1>2, <2>2
    <3>2. QED
      BY <1>1, <1>2, <1>3, <1>5, <3>1
  <2>3. QED
    BY <2>1, <2>2
<1> HIDE DEF p, t
<1>7. Pieces(t) = p
  BY <1>2, <1>5, <1>6, SeqEqual
<1>8. QED
  BY <1>7 DEF p, t

LEMMA FlatEmpty == Flat(<<>>) = <<>>
<1>1. Pieces(<<>>) = <<>>
  BY DEF Pieces
<1>2. QED
  BY <1>1, FlattenEmpty DEF Flat

LEMMA FlatStep ==
  ASSUME NEW s \in Seq(Entry), NEW e \in Entry, Flat(s) \in Seq(Place)
  PROVE  Flat(Append(s, e)) = Flat(s) \o Piece(e)
<1>1. Pieces(s) \in Seq(Seq(Place)) /\ Piece(e) \in Seq(Place)
  BY PiecesAre, PieceIs
<1>2. QED
  BY <1>1, PiecesOfAppend, FlattenAppend DEF Flat

LEMMA FlatIsSeq == \A s \in Seq(Entry) : Flat(s) \in Seq(Place)
<1> DEFINE N == {n \in Nat : \A s \in Seq(Entry) : Len(s) = n => Flat(s) \in Seq(Place)}
<1>1. 0 \in N
  <2>1. \A s \in Seq(Entry) : Len(s) = 0 => s = <<>>
    OBVIOUS
  <2>2. QED
    BY <2>1, FlatEmpty
<1>2. ASSUME NEW n \in N PROVE n + 1 \in N
  <2> SUFFICES ASSUME NEW s \in Seq(Entry), Len(s) = n + 1 PROVE Flat(s) \in Seq(Place)
    OBVIOUS
  <2>1. PICK t \in Seq(Entry), e \in Entry : s = Append(t, e)
    <3>1. s # <<>>
      OBVIOUS
    <3>2. QED
      BY <3>1, SequenceEmptyOrAppend
  <2>2. Len(t) = n
    BY <2>1
  <2>3. Flat(t) \in Seq(Place) /\ Piece(e) \in Seq(Place)
    BY <2>2, PieceIs
  <2>4. Flat(s) = Flat(t) \o Piece(e)
    BY <2>1, <2>3, FlatStep
  <2>5. QED
    BY <2>3, <2>4, ConcatProperties
<1>3. Nat \subseteq N
  BY <1>1, <1>2, AllOfNat
<1>4. QED
  BY <1>3

LEMMA FlatOfAppend ==
  ASSUME NEW s \in Seq(Entry), NEW e \in Entry
  PROVE  Flat(Append(s, e)) = Flat(s) \o Piece(e)
BY FlatIsSeq, FlatStep

LEMMA Regroup ==
  \A a, b, c \in Seq(Place) : (a \o b) \o c = a \o (b \o c)
<1> SUFFICES ASSUME NEW a \in Seq(Place), NEW b \in Seq(Place), NEW c \in Seq(Place)
             PROVE  (a \o b) \o c = a \o (b \o c)
  OBVIOUS
<1>1. QED
  BY ConcatAssociative

LEMMA FlatOfConcat ==
  ASSUME NEW s \in Seq(Entry), NEW u \in Seq(Entry)
  PROVE  Flat(s \o u) = Flat(s) \o Flat(u)
<1> DEFINE Good(t) == Flat(s \o t) = Flat(s) \o Flat(t)
           N == {n \in Nat : \A t \in Seq(Entry) : Len(t) = n => Good(t)}
<1>1. 0 \in N
  <2>1. \A t \in Seq(Entry) : Len(t) = 0 => t = <<>>
    OBVIOUS
  <2>2. Good(<<>>)
    <3>1. s \o <<>> = s /\ Flat(s) \in Seq(Place)
      BY ConcatEmptySeq, FlatIsSeq
    <3>2. QED
      BY <3>1, FlatEmpty, ConcatEmptySeq
  <2>3. QED
    BY <2>1, <2>2
<1>2. ASSUME NEW n \in N PROVE n + 1 \in N
  <2> SUFFICES ASSUME NEW t \in Seq(Entry), Len(t) = n + 1 PROVE Good(t)
    OBVIOUS
  <2>1. PICK v \in Seq(Entry), e \in Entry : t = Append(v, e)
    <3>1. t # <<>>
      OBVIOUS
    <3>2. QED
      BY <3>1, SequenceEmptyOrAppend
  <2>2. Len(v) = n
    BY <2>1
  <2>3. Flat(s \o v) = Flat(s) \o Flat(v)
    BY <2>2
  <2>4. s \o t = Append(s \o v, e) /\ s \o v \in Seq(Entry)
    <3>1. t = v \o <<e>> /\ s \o v \in Seq(Entry) /\ <<e>> \in Seq(Entry)
      BY <2>1, AppendIsConcat, ConcatProperties
    <3>2. s \o (v \o <<e>>) = (s \o v) \o <<e>>
      BY <3>1, ConcatAssociative
    <3>3. Append(s \o v, e) = (s \o v) \o <<e>>
      BY <3>1, AppendIsConcat
    <3>4. QED
      BY <3>1, <3>2, <3>3
  <2>5. Flat(s \o t) = Flat(s \o v) \o Piece(e) /\ Flat(t) = Flat(v) \o Piece(e)
    BY <2>1, <2>4, FlatOfAppend
  <2>6. Flat(s) \in Seq(Place) /\ Flat(v) \in Seq(Place) /\ Piece(e) \in Seq(Place)
    BY FlatIsSeq, PieceIs
  <2>7. (Flat(s) \o Flat(v)) \o Piece(e) = Flat(s) \o (Flat(v) \o Piece(e))
    BY <2>6, Regroup
  <2>8. Flat(s \o t) = (Flat(s) \o Flat(v)) \o Piece(e)
    BY <2>3, <2>5
  <2>9. Flat(s \o t) = Flat(s) \o Flat(t)
    BY <2>5, <2>7, <2>8
  <2>10. QED
    BY <2>9
<1>3. Nat \subseteq N
  BY <1>1, <1>2, AllOfNat
<1>4. Good(u)
  BY <1>3
<1>5. QED
  BY <1>4

LEMMA FlatGrows ==
  ASSUME NEW s \in Seq(Entry), NEW e \in Entry
  PROVE  LET q == Flat(s)
             r == Flat(Append(s, e))
         IN /\ Len(r) = Len(q) + e.len /\ Len(q) \in Nat /\ e.len \in Nat
            /\ \A i \in 1..Len(r) :
                 r[i] = IF i <= Len(q) THEN q[i] ELSE Piece(e)[i - Len(q)]
<1>1. Flat(s) \in Seq(Place) /\ Piece(e) \in Seq(Place) /\ Len(Piece(e)) = e.len
      /\ e.len \in Nat
  BY FlatIsSeq, PieceIs
<1>2. PICK q \in Seq(Place) : q = Flat(s)
  BY <1>1
<1>3. PICK p \in Seq(Place) : p = Piece(e)
  BY <1>1
<1>4. /\ Len(q \o p) = Len(q) + Len(p) /\ Len(q) \in Nat
      /\ \A i \in 1..Len(q) + Len(p) : (q \o p)[i] = IF i <= Len(q) THEN q[i] ELSE p[i - Len(q)]
  BY ConcatProperties
<1>5. Flat(Append(s, e)) = q \o p /\ Len(p) = e.len
  BY <1>1, <1>2, <1>3, FlatOfAppend
<1>6. QED
  BY <1>1, <1>2, <1>3, <1>4, <1>5

-----------------------------------------------------------------------------
(* What a log shows byte by byte: where each is from, their order, how     *)
(* many they are, and the last of them.                                    *)
Ordered(s) == \A i, j \in DOMAIN s : i < j => s[i].id < s[j].id

Rising(q) == \A i, j \in DOMAIN q : i < j => Before(q[i], q[j])

Within(q, s) == \A o \in DOMAIN q : \E i \in DOMAIN s :
                  q[o].id = s[i].id /\ q[o].at \in 1..s[i].len

LEMMA PieceRises == ASSUME NEW e \in Entry PROVE Rising(Piece(e))
<1>1. DOMAIN Piece(e) = 1..e.len /\ e.len \in Nat
  BY PieceIs
<1>2. QED
  BY <1>1, PieceIs DEF Rising, Before

LEMMA JoinRises ==
  ASSUME NEW q \in Seq(Place), NEW r \in Seq(Place), Rising(q), Rising(r),
         \A i \in DOMAIN q : \A j \in DOMAIN r : Before(q[i], r[j])
  PROVE  Rising(q \o r)
<1> DEFINE n == Len(q)
<1>1. /\ q \o r \in Seq(Place) /\ Len(q \o r) = n + Len(r) /\ n \in Nat /\ Len(r) \in Nat
      /\ \A i \in 1..n + Len(r) : (q \o r)[i] = IF i <= n THEN q[i] ELSE r[i - n]
  BY ConcatProperties
<1>2. DOMAIN (q \o r) = 1..n + Len(r) /\ DOMAIN q = 1..n /\ DOMAIN r = 1..Len(r)
  BY <1>1
<1>3. ASSUME NEW i \in 1..n + Len(r), NEW j \in 1..n + Len(r), i < j
      PROVE  Before((q \o r)[i], (q \o r)[j])
  <2>1. CASE j <= n
    <3>1. i \in DOMAIN q /\ j \in DOMAIN q /\ (q \o r)[i] = q[i] /\ (q \o r)[j] = q[j]
      BY <1>1, <1>2, <1>3, <2>1
    <3>2. QED
      BY <1>3, <3>1 DEF Rising
  <2>2. CASE n < i
    <3>1. /\ i - n \in DOMAIN r /\ j - n \in DOMAIN r /\ i - n < j - n
          /\ (q \o r)[i] = r[i - n] /\ (q \o r)[j] = r[j - n]
      BY <1>1, <1>2, <1>3, <2>2
    <3>2. QED
      BY <3>1 DEF Rising
  <2>3. CASE i <= n /\ n < j
    <3>1. i \in DOMAIN q /\ j - n \in DOMAIN r /\ (q \o r)[i] = q[i] /\ (q \o r)[j] = r[j - n]
      BY <1>1, <1>2, <1>3, <2>3
    <3>2. QED
      BY <3>1
  <2>4. QED
    BY <1>1, <1>3, <2>1, <2>2, <2>3
<1>4. QED
  BY <1>2, <1>3 DEF Rising

LEMMA WithinAppend ==
  ASSUME NEW s \in Seq(Entry), NEW e \in Entry, NEW q \in Seq(Place), Within(q, s)
  PROVE  Within(q \o Piece(e), Append(s, e))
<1> DEFINE t == Append(s, e)
           r == Piece(e)
           n == Len(q)
<1>1. /\ t \in Seq(Entry) /\ Len(t) = Len(s) + 1 /\ t[Len(s) + 1] = e
      /\ Len(s) \in Nat /\ \A i \in 1..Len(s) : t[i] = s[i]
  OBVIOUS
<1>2. /\ r \in Seq(Place) /\ Len(r) = e.len /\ e.len \in Nat
      /\ \A k \in 1..e.len : r[k].id = e.id /\ r[k].at = k
  BY PieceIs
<1> HIDE DEF t, r
<1>3. /\ q \o r \in Seq(Place) /\ Len(q \o r) = n + Len(r) /\ n \in Nat /\ Len(r) \in Nat
      /\ \A i \in 1..n + Len(r) : (q \o r)[i] = IF i <= n THEN q[i] ELSE r[i - n]
  BY <1>2, ConcatProperties, SMTT(30)
<1>4. DOMAIN (q \o r) = 1..n + Len(r) /\ DOMAIN t = 1..Len(s)+1 /\ DOMAIN s = 1..Len(s)
      /\ DOMAIN q = 1..n
  BY <1>1, <1>3
<1>5. ASSUME NEW o \in 1..n + Len(r)
      PROVE  \E i \in DOMAIN t : (q \o r)[o].id = t[i].id /\ (q \o r)[o].at \in 1..t[i].len
  <2>1. CASE o <= n
    <3>1. (q \o r)[o] = q[o] /\ o \in DOMAIN q
      BY <1>3, <1>4, <2>1
    <3>2. PICK i \in DOMAIN s : q[o].id = s[i].id /\ q[o].at \in 1..s[i].len
      BY <3>1 DEF Within
    <3>3. i \in DOMAIN t /\ t[i] = s[i]
      BY <1>1, <1>4
    <3>4. QED
      BY <3>1, <3>2, <3>3
  <2>2. CASE n < o
    <3>1. (q \o r)[o] = r[o - n] /\ o - n \in 1..e.len
      BY <1>2, <1>3, <2>2
    <3>2. Len(s) + 1 \in DOMAIN t
      BY <1>1, <1>4
    <3>3. QED
      BY <1>1, <1>2, <3>1, <3>2, ZenonT(30)
  <2>3. QED
    BY <1>3, <2>1, <2>2, SMTT(30)
<1>6. Within(q \o r, t)
  BY <1>4, <1>5 DEF Within
<1>7. QED
  BY <1>6 DEF t, r

Shows(q, s) == Within(q, s) /\ (Ordered(s) => Rising(q))

LEMMA FlatShows == ASSUME NEW u \in Seq(Entry) PROVE Shows(Flat(u), u)
<1> DEFINE N == {n \in Nat : \A s \in Seq(Entry) : Len(s) = n => Shows(Flat(s), s)}
<1>1. 0 \in N
  <2>1. \A s \in Seq(Entry) : Len(s) = 0 => s = <<>>
    OBVIOUS
  <2>2. Shows(Flat(<<>>), <<>>)
    BY FlatEmpty DEF Shows, Within, Rising
  <2>3. QED
    BY <2>1, <2>2
<1>2. ASSUME NEW n \in N PROVE n + 1 \in N
  <2> SUFFICES ASSUME NEW s \in Seq(Entry), Len(s) = n + 1 PROVE Shows(Flat(s), s)
    OBVIOUS
  <2>1. PICK t \in Seq(Entry), e \in Entry : s = Append(t, e)
    <3>1. s # <<>>
      OBVIOUS
    <3>2. QED
      BY <3>1, SequenceEmptyOrAppend
  <2>2. Len(t) = n /\ s[n + 1] = e /\ \A i \in 1..n : s[i] = t[i]
    BY <2>1
  <2>3. Shows(Flat(t), t)
    BY <2>2
  <2>4. Flat(s) = Flat(t) \o Piece(e) /\ Flat(t) \in Seq(Place) /\ Piece(e) \in Seq(Place)
    BY <2>1, FlatOfAppend, FlatIsSeq, PieceIs
  <2>5. Within(Flat(s), s)
    BY <2>1, <2>3, <2>4, WithinAppend DEF Shows
  <2>6. ASSUME Ordered(s) PROVE Rising(Flat(s))
    <3>1. /\ DOMAIN t = 1..n /\ DOMAIN s = 1..n+1 /\ n \in Nat
      BY <2>2
    <3>2. Ordered(t) /\ \A i \in DOMAIN t : t[i].id < e.id
      BY <2>2, <2>6, <3>1, SMTT(30) DEF Ordered
    <3>3. Rising(Flat(t)) /\ Rising(Piece(e))
      BY <2>3, <3>2, PieceRises DEF Shows
    <3>4. \A i \in DOMAIN Flat(t) : Flat(t)[i].id < e.id
      BY <2>3, <3>2 DEF Shows, Within
    <3>5. \A j \in DOMAIN Piece(e) : Piece(e)[j].id = e.id
      BY DEF Piece
    <3>6. \A i \in DOMAIN Flat(t) : \A j \in DOMAIN Piece(e) : Before(Flat(t)[i], Piece(e)[j])
      BY <3>4, <3>5 DEF Before
    <3>7. QED
      BY <2>4, <3>3, <3>6, JoinRises
  <2>7. QED
    BY <2>5, <2>6 DEF Shows
<1>3. Nat \subseteq N
  BY <1>1, <1>2, AllOfNat
<1>4. QED
  BY <1>3

(* A log of n entries of m bytes at most has n * m bytes at most.          *)
LEMMA FlatLen ==
  ASSUME NEW m \in Nat, NEW u \in Seq(Entry), \A i \in DOMAIN u : u[i].len <= m
  PROVE  Len(Flat(u)) <= m * Len(u)
<1> DEFINE Short(s) == \A i \in DOMAIN s : s[i].len <= m
           Good(s) == Short(s) => Len(Flat(s)) <= m * Len(s)
           N == {n \in Nat : \A s \in Seq(Entry) : Len(s) = n => Good(s)}
<1>1. 0 \in N
  <2>1. \A s \in Seq(Entry) : Len(s) = 0 => s = <<>>
    OBVIOUS
  <2>2. Good(<<>>)
    BY FlatEmpty
  <2>3. QED
    BY <2>1, <2>2
<1>2. ASSUME NEW n \in N PROVE n + 1 \in N
  <2> SUFFICES ASSUME NEW s \in Seq(Entry), Len(s) = n + 1, Short(s)
               PROVE  Len(Flat(s)) <= m * Len(s)
    OBVIOUS
  <2>1. PICK t \in Seq(Entry), e \in Entry : s = Append(t, e)
    <3>1. s # <<>>
      OBVIOUS
    <3>2. QED
      BY <3>1, SequenceEmptyOrAppend
  <2>2. Len(t) = n /\ s[n + 1] = e /\ \A i \in 1..n : s[i] = t[i]
    BY <2>1
  <2>3. /\ DOMAIN t = 1..n /\ DOMAIN s = 1..n+1 /\ n \in Nat /\ n + 1 \in 1..n+1
    BY <2>2
  <2>4. Short(t)
    BY <2>2, <2>3
  <2>5. s[n + 1].len <= m
    BY <2>3
  <2>6. e.len <= m /\ e.len \in Nat
    BY <2>2, <2>5 DEF Entry
  <2>7. Len(Flat(t)) <= m * n
    BY <2>2, <2>4
  <2>8. Len(Flat(s)) = Len(Flat(t)) + e.len /\ Len(Flat(t)) \in Nat
    BY <2>1, FlatGrows
  <2>9. m * (n + 1) = m * n + m /\ m * n \in Nat
    BY <2>3
  <2>10. QED
    BY <2>6, <2>7, <2>8, <2>9
<1>3. Nat \subseteq N
  BY <1>1, <1>2, AllOfNat
<1>4. Good(u)
  BY <1>3
<1>5. QED
  BY <1>4

LEMMA FlatLast ==
  ASSUME NEW u \in Seq(Entry), u # <<>>, u[Len(u)].len # 0
  PROVE  LET q == Flat(u) IN
         /\ q \in Seq(Place) /\ Len(q) \in Nat \ {0}
         /\ q[Len(q)] = [id |-> u[Len(u)].id, at |-> u[Len(u)].len]
<1>1. PICK t \in Seq(Entry), e \in Entry : u = Append(t, e)
  BY SequenceEmptyOrAppend
<1>2. u[Len(u)] = e
  BY <1>1
<1>3. /\ e.len \in Nat \ {0} /\ Piece(e)[e.len] = [id |-> e.id, at |-> e.len]
  BY <1>2, PieceIs DEF Piece
<1>4. PICK n \in Nat : n = Len(Flat(t))
  BY FlatGrows
<1>5. /\ Len(Flat(u)) = n + e.len
      /\ \A i \in 1..n + e.len :
           Flat(u)[i] = IF i <= n THEN Flat(t)[i] ELSE Piece(e)[i - n]
  BY <1>1, <1>4, FlatGrows, SMTT(30)
<1>6. n + e.len \in 1..n + e.len /\ ~(n + e.len <= n) /\ (n + e.len) - n = e.len
  BY <1>3
<1>7. Flat(u)[n + e.len] = Piece(e)[e.len]
  BY <1>5, <1>6
<1>8. QED
  BY <1>2, <1>3, <1>5, <1>7, FlatIsSeq

-----------------------------------------------------------------------------
(* The log: entries of what was appended, in order.                        *)
Kept(s, n, pay) ==
  /\ s \in Seq(Entry) /\ Ordered(s)
  /\ \A i \in DOMAIN s : s[i].id \in 1..n /\ s[i].len = Len(pay[s[i].id])

Held ==
  /\ kind \in Kinds /\ appended \in Nat
  /\ payload \in Seq(Payloads[kind]) /\ Len(payload) = appended
  /\ Kept(log, appended, payload)

LEMMA PayloadIs ==
  ASSUME NEW k \in Kinds, NEW p \in Payloads[k]
  PROVE  /\ p \in Seq(Letters) /\ Len(p) \in Nat \ {0}
         /\ Len(p) \in DOMAIN p /\ (k = "pager" => p[Len(p)] = "n")
<1>1. p \in Seq(Letters) /\ p # <<>> /\ (k = "pager" => Last(p) = "n")
  BY BoundsAssumption
<1>2. Len(p) \in Nat \ {0}
  BY <1>1
<1>3. QED
  BY <1>1, <1>2 DEF Last

New(p) == [id |-> appended + 1, len |-> Len(p)]

LEMMA AppendsIs ==
  ASSUME Appends
  PROVE  \E p \in Payloads[kind] :
           /\ appended' = appended + 1 /\ payload' = Append(payload, p)
           /\ \E s \in {log, Append(log, New(p))} :
                \/ log' = s
                \/ \E k \in 1..Len(s) : log' = SubSeq(s, k, Len(s))
BY DEF Appends, Log!Add, Log!Forgets, Log!From, New

LEMMA KeptMore ==
  ASSUME NEW S, NEW n \in Nat, NEW pay \in Seq(S), Len(pay) = n, NEW p \in S,
         NEW s, Kept(s, n, pay)
  PROVE  Kept(s, n + 1, Append(pay, p))
<1>1. \A j \in 1..n : Append(pay, p)[j] = pay[j]
  OBVIOUS
<1>2. \A i \in DOMAIN s : s[i].id \in 1..n /\ s[i].id \in 1..n+1
  BY DEF Kept
<1>3. QED
  BY <1>1, <1>2 DEF Kept

LEMMA KeptNew ==
  ASSUME NEW S, NEW n \in Nat, NEW pay \in Seq(S), Len(pay) = n, NEW p \in S,
         NEW s, Kept(s, n, pay), NEW e \in Entry, e.id = n + 1, e.len = Len(p)
  PROVE  Kept(Append(s, e), n + 1, Append(pay, p))
<1> DEFINE t == Append(s, e)
           all == Append(pay, p)
<1>1. Kept(s, n + 1, all)
  BY KeptMore
<1>2. s \in Seq(Entry)
  BY DEF Kept
<1>3. /\ t \in Seq(Entry) /\ DOMAIN t = DOMAIN s \cup {Len(s) + 1} /\ DOMAIN s = 1..Len(s)
      /\ t[Len(s) + 1] = e /\ \A i \in DOMAIN s : t[i] = s[i]
  BY <1>2
<1>4. all[n + 1] = p
  OBVIOUS
<1> HIDE DEF t, all
<1>5. \A i \in DOMAIN t : t[i].id \in 1..n+1 /\ t[i].len = Len(all[t[i].id])
  <2>1. \A i \in DOMAIN s : t[i].id \in 1..n+1 /\ t[i].len = Len(all[t[i].id])
    BY <1>1, <1>3 DEF Kept
  <2>2. n + 1 \in 1..n+1
    OBVIOUS
  <2>3. QED
    BY <1>3, <1>4, <2>1, <2>2
<1>6. Ordered(t)
  <2>1. \A i \in DOMAIN s : s[i].id \in 1..n
    BY DEF Kept
  <2>2. Ordered(s)
    BY DEF Kept
  <2>3. ASSUME NEW i \in DOMAIN t, NEW j \in DOMAIN t, i < j PROVE t[i].id < t[j].id
    <3>1. i \in DOMAIN s /\ t[i].id = s[i].id /\ t[i].id \in 1..n
      BY <1>2, <1>3, <2>1, <2>3
    <3>2. CASE j \in DOMAIN s
      BY <1>3, <2>2, <2>3, <3>1, <3>2 DEF Ordered
    <3>3. CASE j = Len(s) + 1
      BY <1>3, <3>1, <3>3
    <3>4. QED
      BY <1>3, <3>2, <3>3
  <2>4. QED
    BY <2>3 DEF Ordered
<1>7. QED
  BY <1>3, <1>5, <1>6 DEF Kept, t, all

LEMMA SuffixIs ==
  ASSUME NEW s \in Seq(Entry), NEW k \in 1..Len(s)
  PROVE  LET r == SubSeq(s, k, Len(s))
         IN /\ r \in Seq(Entry) /\ Len(r) = Len(s) - k + 1
            /\ \A i \in DOMAIN r : k + i - 1 \in DOMAIN s /\ r[i] = s[k + i - 1]
            /\ \E u \in Seq(Entry) : s = u \o r
<1> DEFINE r == SubSeq(s, k, Len(s))
           u == SubSeq(s, 1, k - 1)
<1>1. r \in Seq(Entry) /\ Len(r) = Len(s) - k + 1 /\ \A i \in 1..Len(r) : r[i] = s[k + i - 1]
  OBVIOUS
<1>2. \A i \in DOMAIN r : k + i - 1 \in DOMAIN s /\ r[i] = s[k + i - 1]
  <2>1. DOMAIN r = 1..Len(r) /\ DOMAIN s = 1..Len(s)
    BY <1>1
  <2>2. QED
    BY <1>1, <2>1
<1>3. u \in Seq(Entry)
  OBVIOUS
<1>4. SubSeq(s, 1, k - 1) \o SubSeq(s, (k - 1) + 1, Len(s)) = SubSeq(s, 1, Len(s))
  <2>1. 1 \in 1..Len(s)+1 /\ k - 1 \in 1-1..Len(s) /\ Len(s) \in k-1..Len(s)
    OBVIOUS
  <2>2. QED
    BY <2>1, ConcatAdjacentSubSeq
<1>5. SubSeq(s, 1, Len(s)) = s /\ (k - 1) + 1 = k
  BY SubSeqFull
<1>6. s = u \o r
  BY <1>4, <1>5
<1>7. QED
  BY <1>1, <1>2, <1>3, <1>6

LEMMA KeptSuffix ==
  ASSUME NEW n, NEW pay, NEW s, Kept(s, n, pay), NEW k \in 1..Len(s)
  PROVE  Kept(SubSeq(s, k, Len(s)), n, pay)
<1>1. PICK r : r = SubSeq(s, k, Len(s))
  OBVIOUS
<1>2. s \in Seq(Entry) /\ Ordered(s)
      /\ \A i \in DOMAIN s : s[i].id \in 1..n /\ s[i].len = Len(pay[s[i].id])
  BY DEF Kept
<1>3. /\ r \in Seq(Entry)
      /\ \A i \in DOMAIN r : k + i - 1 \in DOMAIN s /\ r[i] = s[k + i - 1]
  BY <1>1, <1>2, SuffixIs
<1>4. \A i, j \in DOMAIN r : i < j => k + i - 1 < k + j - 1
  BY <1>3
<1>5. Ordered(r)
  BY <1>2, <1>3, <1>4 DEF Ordered
<1>6. QED
  BY <1>1, <1>2, <1>3, <1>5 DEF Kept

LEMMA HeldStep == ASSUME Held, Appends PROVE Held'
<1>1. PICK p \in Payloads[kind] :
        /\ appended' = appended + 1 /\ payload' = Append(payload, p)
        /\ \E s \in {log, Append(log, New(p))} :
             \/ log' = s
             \/ \E k \in 1..Len(s) : log' = SubSeq(s, k, Len(s))
  BY AppendsIs
<1>2. kind' = kind
  BY DEF Appends
<1>3. /\ New(p) \in Entry /\ New(p).id = appended + 1 /\ New(p).len = Len(p)
      /\ kind \in Kinds /\ appended \in Nat
      /\ payload \in Seq(Payloads[kind]) /\ Len(payload) = appended
      /\ Kept(log, appended, payload)
  BY PayloadIs DEF Held, New, Entry
<1>4. Kept(log, appended + 1, payload') /\ Kept(Append(log, New(p)), appended + 1, payload')
  BY <1>1, <1>3, KeptMore, KeptNew
<1>5. Kept(log', appended', payload')
  BY <1>1, <1>4, KeptSuffix
<1>6. payload' \in Seq(Payloads[kind]) /\ Len(payload') = appended'
  BY <1>1, <1>3
<1>7. QED
  BY <1>1, <1>2, <1>3, <1>5, <1>6 DEF Held

-----------------------------------------------------------------------------
(* What an append does to the plaintext: d bytes are gone from its front,  *)
(* and all that is new at its end is from the entry that was appended.     *)
Moves(P, Q, d, n) ==
  \A o \in DOMAIN Q : \/ o + d \in DOMAIN P /\ Q[o] = P[o + d]
                      \/ o + d > Len(P) /\ Q[o].id = n

Extends(P, Q) == Len(P) <= Len(Q) /\ \A o \in DOMAIN P : o \in DOMAIN Q /\ Q[o] = P[o]

LEMMA FlatDrops ==
  ASSUME NEW s \in Seq(Entry), NEW k \in 1..Len(s)
  PROVE  LET P == Flat(s)
             Q == Flat(SubSeq(s, k, Len(s)))
         IN /\ P \in Seq(Place) /\ Q \in Seq(Place)
            /\ \E d \in Nat : \A o \in DOMAIN Q : o + d \in DOMAIN P /\ Q[o] = P[o + d]
<1>1. PICK r \in Seq(Entry), u \in Seq(Entry) : r = SubSeq(s, k, Len(s)) /\ s = u \o r
  BY SuffixIs
<1>2. PICK a \in Seq(Place), b \in Seq(Place) : a = Flat(u) /\ b = Flat(r)
  BY FlatIsSeq
<1>3. Flat(s) = a \o b
  BY <1>1, <1>2, FlatOfConcat
<1>4. /\ a \o b \in Seq(Place) /\ Len(a \o b) = Len(a) + Len(b) /\ Len(a) \in Nat /\ Len(b) \in Nat
      /\ \A i \in 1..Len(a) + Len(b) : (a \o b)[i] = IF i <= Len(a) THEN a[i] ELSE b[i - Len(a)]
  BY ConcatProperties
<1>5. PICK P \in Seq(Place) : P = a \o b
  BY <1>4
<1>6. \A o \in DOMAIN b : o + Len(a) \in DOMAIN P /\ b[o] = P[o + Len(a)]
  <2>1. DOMAIN b = 1..Len(b) /\ DOMAIN P = 1..Len(a) + Len(b)
    BY <1>4, <1>5
  <2>2. ASSUME NEW o \in 1..Len(b) PROVE o + Len(a) \in DOMAIN P /\ b[o] = P[o + Len(a)]
    <3>1. /\ o + Len(a) \in 1..Len(a) + Len(b) /\ ~(o + Len(a) <= Len(a))
          /\ (o + Len(a)) - Len(a) = o
      BY <1>4
    <3>2. QED
      BY <1>4, <1>5, <2>1, <3>1
  <2>3. QED
    BY <2>1, <2>2
<1>7. QED
  BY <1>1, <1>2, <1>3, <1>4, <1>5, <1>6, ZenonT(90)

LEMMA FlatExtends ==
  ASSUME NEW s \in Seq(Entry), NEW e \in Entry
  PROVE  LET P == Flat(s)
             Q == Flat(Append(s, e))
         IN /\ P \in Seq(Place) /\ Q \in Seq(Place)
            /\ Extends(P, Q) /\ Moves(P, Q, 0, e.id)
<1>1. PICK P \in Seq(Place), Q \in Seq(Place) : P = Flat(s) /\ Q = Flat(Append(s, e))
  <2>1. Append(s, e) \in Seq(Entry)
    OBVIOUS
  <2>2. QED
    BY <2>1, FlatIsSeq
<1>2. /\ Len(Q) = Len(P) + e.len /\ Len(P) \in Nat /\ e.len \in Nat
      /\ \A i \in 1..Len(Q) : Q[i] = IF i <= Len(P) THEN P[i] ELSE Piece(e)[i - Len(P)]
  BY <1>1, FlatGrows
<1>3. DOMAIN P = 1..Len(P) /\ DOMAIN Q = 1..Len(Q)
  OBVIOUS
<1>4. Extends(P, Q)
  BY <1>2, <1>3 DEF Extends
<1>5. ASSUME NEW o \in 1..Len(Q)
      PROVE  \/ o + 0 \in DOMAIN P /\ Q[o] = P[o + 0]
             \/ o + 0 > Len(P) /\ Q[o].id = e.id
  <2>1. CASE o <= Len(P)
    BY <1>2, <1>3, <2>1
  <2>2. CASE o > Len(P)
    <3>1. o - Len(P) \in 1..e.len /\ Q[o] = Piece(e)[o - Len(P)]
      BY <1>2, <2>2
    <3>2. QED
      BY <2>2, <3>1, PieceIs
  <2>3. QED
    BY <1>2, <2>1, <2>2
<1>6. Moves(P, Q, 0, e.id)
  BY <1>3, <1>5 DEF Moves
<1>7. QED
  BY <1>1, <1>4, <1>6

LEMMA MovesOn ==
  ASSUME NEW P \in Seq(Place), NEW Q \in Seq(Place), NEW R \in Seq(Place), NEW n,
         Extends(P, Q), Moves(P, Q, 0, n), NEW d \in Nat,
         \A o \in DOMAIN R : o + d \in DOMAIN Q /\ R[o] = Q[o + d]
  PROVE  Moves(P, R, d, n)
<1>1. ASSUME NEW o \in DOMAIN R
      PROVE  \/ o + d \in DOMAIN P /\ R[o] = P[o + d]
             \/ o + d > Len(P) /\ R[o].id = n
  <2>1. o \in Nat /\ o + d \in DOMAIN Q /\ R[o] = Q[o + d] /\ (o + d) + 0 = o + d
    OBVIOUS
  <2>2. QED
    BY <2>1 DEF Moves
<1>2. QED
  BY <1>1 DEF Moves

LEMMA PlainMoves ==
  ASSUME Held, Appends
  PROVE  /\ Plain \in Seq(Place) /\ Plain' \in Seq(Place)
         /\ \E d \in Nat : Moves(Plain, Plain', d, appended + 1)
<1>1. PICK p \in Payloads[kind] :
        \E s \in {log, Append(log, New(p))} :
             \/ log' = s
             \/ \E k \in 1..Len(s) : log' = SubSeq(s, k, Len(s))
  BY AppendsIs
<1>2. PICK s \in {log, Append(log, New(p))} :
        log' = s \/ \E k \in 1..Len(s) : log' = SubSeq(s, k, Len(s))
  BY <1>1
<1>3. New(p) \in Entry /\ New(p).id = appended + 1 /\ log \in Seq(Entry)
  BY PayloadIs DEF Held, Kept, New, Entry
<1>4. s \in Seq(Entry)
  <2>1. Append(log, New(p)) \in Seq(Entry)
    BY <1>3
  <2>2. QED
    BY <1>2, <1>3, <2>1
<1>5. PICK P \in Seq(Place), Q \in Seq(Place) : P = Flat(log) /\ Q = Flat(s)
  BY <1>4, <1>3, FlatIsSeq
<1>6. Extends(P, Q) /\ Moves(P, Q, 0, appended + 1)
  <2>1. CASE s = log
    BY <1>5, <2>1 DEF Extends, Moves
  <2>2. CASE s = Append(log, New(p))
    BY <1>3, <1>5, <2>2, FlatExtends
  <2>3. QED
    BY <1>2, <2>1, <2>2
<1>7. CASE log' = s
  BY <1>5, <1>6, <1>7, PlainIs
<1>8. CASE \E k \in 1..Len(s) : log' = SubSeq(s, k, Len(s))
  <2>1. PICK k \in 1..Len(s) : log' = SubSeq(s, k, Len(s))
    BY <1>8
  <2>2. PICK R \in Seq(Place) : R = Flat(log')
    BY <1>4, <2>1, FlatDrops
  <2>3. PICK d \in Nat : \A o \in DOMAIN R : o + d \in DOMAIN Q /\ R[o] = Q[o + d]
    BY <1>4, <1>5, <2>1, <2>2, FlatDrops
  <2>4. Moves(P, R, d, appended + 1)
    BY <1>6, <2>3, MovesOn
  <2>5. QED
    BY <1>5, <2>2, <2>4, PlainIs
<1>9. QED
  BY <1>2, <1>7, <1>8

(* Only if the oldest entry stays, everything stays.                       *)
LEMMA PlainExtends == ASSUME Held, Appends, ~Forgot PROVE Extends(Plain, Plain')
<1>1. PICK p \in Payloads[kind] :
        \E s \in {log, Append(log, New(p))} :
             \/ log' = s
             \/ \E k \in 1..Len(s) : log' = SubSeq(s, k, Len(s))
  BY AppendsIs
<1>2. PICK s \in {log, Append(log, New(p))} :
        log' = s \/ \E k \in 1..Len(s) : log' = SubSeq(s, k, Len(s))
  BY <1>1
<1>3. /\ New(p) \in Entry /\ New(p).id = appended + 1 /\ log \in Seq(Entry)
      /\ appended \in Nat /\ payload \in Seq(Payloads[kind]) /\ Len(payload) = appended
      /\ Kept(log, appended, payload)
  BY PayloadIs DEF Held, Kept, New, Entry
<1>4. CASE log = <<>>
  <2>1. Flat(log) = <<>> /\ Plain' \in Seq(Place)
    BY <1>4, FlatEmpty, PlainMoves
  <2>2. QED
    BY <2>1, PlainIs DEF Extends
<1>5. CASE log # <<>>
  <2>1. log' # <<>> /\ log'[1] = log[1]
    BY <1>5 DEF Forgot
  <2>2. Len(log) \in Nat \ {0}
    BY <1>3, <1>5
  <2>3. s \in Seq(Entry) /\ Ordered(s) /\ Len(s) \in Nat \ {0} /\ s[1] = log[1]
    <3>1. CASE s = log
      BY <1>3, <2>2, <3>1 DEF Kept
    <3>2. CASE s = Append(log, New(p))
      <4>1. Kept(s, appended + 1, Append(payload, p))
        BY <1>3, <3>2, KeptNew DEF New
      <4>2. QED
        BY <1>3, <2>2, <3>2, <4>1 DEF Kept
    <3>3. QED
      BY <1>2, <3>1, <3>2
  <2>4. log' = s
    <3>1. CASE \E k \in 1..Len(s) : log' = SubSeq(s, k, Len(s))
      <4>1. PICK k \in 1..Len(s) : log' = SubSeq(s, k, Len(s))
        BY <3>1
      <4>2. log'[1] = s[k]
        BY <2>3, <4>1
      <4>3. k = 1
        <5>1. 1 \in DOMAIN s /\ k \in DOMAIN s /\ s[1].id \in Nat /\ s[k].id \in Nat
          <6>1. 1 \in 1..Len(s) /\ DOMAIN s = 1..Len(s)
            BY <2>3
          <6>2. s[1] \in Entry /\ s[k] \in Entry
            BY <2>3, <6>1, ElementOfSeq
          <6>3. QED
            BY <6>1, <6>2 DEF Entry
        <5>2. ~(s[1].id < s[k].id)
          BY <2>1, <2>3, <4>2, <5>1
        <5>3. ~(1 < k)
          BY <2>3, <5>1, <5>2 DEF Ordered
        <5>4. QED
          BY <5>3
      <4>4. QED
        BY <2>3, <4>1, <4>3, SubSeqFull
    <3>2. QED
      BY <1>2, <3>1
  <2>5. CASE s = log
    BY <2>4, <2>5, PlainIs, PlainMoves DEF Extends
  <2>6. CASE s = Append(log, New(p))
    BY <1>3, <2>4, <2>6, PlainIs, FlatExtends
  <2>7. QED
    BY <1>2, <2>5, <2>6
<1>6. QED
  BY <1>4, <1>5

-----------------------------------------------------------------------------
(* Pieces of a sequence.                                                   *)
Part(q, a, b) == SubSeq(q, a + 1, b)

LEMMA CutOf ==
  ASSUME NEW S, NEW q \in Seq(S), NEW a \in Nat, NEW b \in Nat, a <= b, b <= Len(q)
  PROVE  /\ Part(q, a, b) \in Seq(S) /\ Len(Part(q, a, b)) = b - a
         /\ DOMAIN Part(q, a, b) = 1..b - a
         /\ \A i \in 1..b - a : Part(q, a, b)[i] = q[a + i] /\ a + i \in DOMAIN q
<1>1. \A i \in a+1..b : q[i] \in S
  OBVIOUS
<1>2. /\ SubSeq(q, a + 1, b) \in Seq(S)
      /\ Len(SubSeq(q, a + 1, b)) = IF a + 1 <= b THEN b - (a + 1) + 1 ELSE 0
      /\ \A i \in 1..b - (a + 1) + 1 : SubSeq(q, a + 1, b)[i] = q[(a + 1) + i - 1]
  BY <1>1, SubSeqProperties
<1>3. /\ b - (a + 1) + 1 = b - a /\ \A i \in 1..b - a : (a + 1) + i - 1 = a + i
      /\ Len(SubSeq(q, a + 1, b)) = b - a
  BY <1>2
<1>4. DOMAIN SubSeq(q, a + 1, b) = 1..b - a
  BY <1>2, <1>3
<1>5. \A i \in 1..b - a : SubSeq(q, a + 1, b)[i] = q[a + i] /\ a + i \in DOMAIN q
  BY <1>2, <1>3
<1>6. QED
  BY <1>2, <1>3, <1>4, <1>5 DEF Part

LEMMA Cut ==
  ASSUME NEW q \in Seq(Place), NEW a \in Nat, NEW b \in Nat, a <= b, b <= Len(q)
  PROVE  /\ Part(q, a, b) \in Seq(Place) /\ Len(Part(q, a, b)) = b - a
         /\ DOMAIN Part(q, a, b) = 1..b - a
         /\ \A i \in 1..b - a : Part(q, a, b)[i] = q[a + i] /\ a + i \in DOMAIN q
BY CutOf

LEMMA CutSame ==
  ASSUME NEW q \in Seq(Place), NEW r \in Seq(Place), Extends(q, r),
         NEW a \in Nat, NEW b \in Nat, a <= b, b <= Len(q)
  PROVE  Part(q, a, b) = Part(r, a, b)
<1>1. b <= Len(r)
  BY DEF Extends
<1>2. PICK u \in Seq(Place), v \in Seq(Place) : u = Part(q, a, b) /\ v = Part(r, a, b)
  BY <1>1, Cut
<1>3. /\ Len(u) = b - a /\ Len(v) = b - a
      /\ \A i \in 1..b - a : u[i] = q[a + i] /\ v[i] = r[a + i] /\ a + i \in DOMAIN q
  BY <1>1, <1>2, Cut, ZenonT(30)
<1>4. \A i \in 1..b - a : u[i] = v[i]
  BY <1>3 DEF Extends
<1>5. u = v
  BY <1>3, <1>4, SeqEqual
<1>6. QED
  BY <1>2, <1>5

LEMMA CutJoin ==
  ASSUME NEW q \in Seq(Place), NEW a \in Nat, NEW b \in Nat, NEW c \in Nat,
         a <= b, b <= c, c <= Len(q)
  PROVE  Part(q, a, b) \o Part(q, b, c) = Part(q, a, c)
<1>1. a + 1 \in 1..Len(q)+1 /\ b \in (a + 1)-1..Len(q) /\ c \in b..Len(q)
  OBVIOUS
<1>2. QED
  BY <1>1, ConcatAdjacentSubSeq DEF Part

LEMMA FromStart == ASSUME NEW q, NEW b PROVE Part(q, 0, b) = SubSeq(q, 1, b)
BY DEF Part

LEMMA NothingCut ==
  ASSUME NEW q, NEW a \in Nat PROVE Part(q, a, a) = <<>>
BY SubSeqEmpty DEF Part


-----------------------------------------------------------------------------
(* What can be said of the plaintext and its bytes at any time.            *)
LEMMA PlainShows ==
  ASSUME Held
  PROVE  /\ Plain \in Seq(Place) /\ Rising(Plain)
         /\ \A o \in DOMAIN Plain : /\ Plain[o].id \in 1..appended
                                    /\ Plain[o].at \in DOMAIN payload[Plain[o].id]
<1>1. /\ log \in Seq(Entry) /\ Ordered(log)
      /\ \A i \in DOMAIN log : log[i].id \in 1..appended
                               /\ log[i].len = Len(payload[log[i].id])
  BY DEF Held, Kept
<1>2. Plain \in Seq(Place) /\ Shows(Plain, log)
  BY <1>1, FlatIsSeq, FlatShows, PlainIs
<1>3. \A n \in 1..appended : payload[n] \in Seq(Letters)
  <2>1. DOMAIN payload = 1..appended /\ kind \in Kinds /\ payload \in Seq(Payloads[kind])
    BY DEF Held
  <2>2. \A n \in 1..appended : payload[n] \in Payloads[kind]
    BY <2>1, ElementOfSeq DEF Held
  <2>3. QED
    BY <2>1, <2>2, PayloadIs
<1>4. ASSUME NEW o \in DOMAIN Plain
      PROVE  Plain[o].id \in 1..appended /\ Plain[o].at \in DOMAIN payload[Plain[o].id]
  <2>1. PICK i \in DOMAIN log : Plain[o].id = log[i].id /\ Plain[o].at \in 1..log[i].len
    BY <1>2 DEF Shows, Within
  <2>2. payload[log[i].id] \in Seq(Letters)
    BY <1>1, <1>3
  <2>3. QED
    BY <1>1, <2>1, <2>2
<1>5. QED
  BY <1>1, <1>2, <1>4 DEF Shows

LEMMA ContentIs ==
  /\ DOMAIN Content = DOMAIN Plain
  /\ \A o \in DOMAIN Plain : Content[o] = payload[Plain[o].id][Plain[o].at]
BY DEF Content

LEMMA ContentNext ==
  /\ DOMAIN Content' = DOMAIN Plain'
  /\ \A o \in DOMAIN Plain' : Content'[o] = payload'[Plain'[o].id][Plain'[o].at]
BY DEF Content

LEMMA ContentEnds ==
  ASSUME Held, kind = "pager", Plain # <<>> PROVE Content[Len(Plain)] = "n"
<1>1. /\ log \in Seq(Entry) /\ kind \in Kinds /\ appended \in Nat
      /\ payload \in Seq(Payloads[kind]) /\ Len(payload) = appended
      /\ \A i \in DOMAIN log : log[i].id \in 1..appended
                               /\ log[i].len = Len(payload[log[i].id])
  BY DEF Held, Kept
<1>2. log # <<>>
  BY PlainIs, FlatEmpty
<1>3. Len(log) \in DOMAIN log
  BY <1>1, <1>2
<1>4. PICK e : e = log[Len(log)]
  OBVIOUS
<1>5. e.id \in 1..appended /\ e.len = Len(payload[e.id])
  BY <1>1, <1>3, <1>4
<1>6. payload[e.id] \in Payloads[kind]
  BY <1>1, <1>5
<1>7. e.len # 0 /\ payload[e.id][e.len] = "n"
  BY <1>1, <1>5, <1>6, PayloadIs
<1>8. Len(Plain) \in DOMAIN Plain /\ Plain[Len(Plain)] = [id |-> e.id, at |-> e.len]
  <2>1. Plain \in Seq(Place) /\ Len(Plain) \in Nat \ {0}
        /\ Plain[Len(Plain)] = [id |-> e.id, at |-> e.len]
    BY <1>1, <1>2, <1>4, <1>7, FlatLast, PlainIs
  <2>2. QED
    BY <2>1
<1>9. QED
  BY <1>7, <1>8, ContentIs

LEMMA ContentStays ==
  ASSUME Held, Appends, NEW o \in DOMAIN Plain, o \in DOMAIN Plain', Plain'[o] = Plain[o]
  PROVE  Content'[o] = Content[o]
<1>1. PICK p \in Payloads[kind] : payload' = Append(payload, p)
  BY AppendsIs
<1>2. Plain[o].id \in 1..appended
  BY PlainShows
<1>3. payload'[Plain[o].id] = payload[Plain[o].id]
  BY <1>1, <1>2 DEF Held
<1>4. QED
  BY <1>3, ContentIs, ContentNext

LEMMA MinIs ==
  ASSUME NEW S \in SUBSET Nat, S # {}
  PROVE  Min(S) \in S /\ \A m \in S : Min(S) <= m
BY Least DEF Min

-----------------------------------------------------------------------------
(* A page ends where the window does, and begins at its start, or behind   *)
(* the end of a line, or is empty.                                         *)
LEMMA WindowIs ==
  ASSUME Held, cursor \in Nat \cup {Unknown}
  PROVE  LET end == WindowEnd(cursor)
         IN /\ end \in 0..Len(Plain) /\ WindowStart(end) \in 0..end
            /\ (cursor = Unknown \/ cursor > Len(Plain)) => end = Len(Plain)
            /\ (cursor # Unknown /\ cursor <= Len(Plain)) => end = cursor
<1>1. Len(Plain) \in Nat
  BY PlainShows
<1>2. /\ WindowEnd(cursor) \in 0..Len(Plain)
      /\ (cursor = Unknown \/ cursor > Len(Plain)) => WindowEnd(cursor) = Len(Plain)
      /\ (cursor # Unknown /\ cursor <= Len(Plain)) => WindowEnd(cursor) = cursor
  BY <1>1 DEF WindowEnd
<1>3. ASSUME NEW end \in 0..Len(Plain) PROVE WindowStart(end) \in 0..end
  BY <1>1, BoundsAssumption DEF WindowStart
<1>4. QED
  BY <1>2, <1>3

LEMMA LineStartIs ==
  ASSUME Held, NEW end \in 0..Len(Plain), NEW start \in 0..end
  PROVE  LET l == LineStart(start, end)
         IN l \in 0..end /\ (l = 0 \/ l = end \/ Content[l] = "n")
<1>1. Len(Plain) \in Nat
  BY PlainShows
<1>2. CASE start = 0
  BY <1>1, <1>2 DEF LineStart
<1>3. CASE start # 0
  <2> DEFINE S == {i \in start + 1..end : Content[i] = "n"} \cup {end}
  <2>1. S \in SUBSET Nat /\ S # {} /\ end \in S /\ S \subseteq 0..end
    BY <1>1
  <2>2. Min(S) \in S
    BY <2>1, MinIs
  <2>3. LineStart(start, end) = Min(S)
    BY <1>3 DEF LineStart
  <2>4. Min(S) \in 0..end /\ (Min(S) = end \/ Content[Min(S)] = "n")
    BY <2>1, <2>2
  <2>5. QED
    BY <2>3, <2>4
<1>4. QED
  BY <1>2, <1>3

LEMMA PageIs ==
  ASSUME Held, cursor \in Nat \cup {Unknown}
  PROVE  LET page == ReadTailBefore(cursor)
             end == WindowEnd(cursor)
         IN /\ page.start \in 0..end
            /\ page.data = Part(Plain, page.start, end)
            /\ page.start = 0 \/ page.start = end \/ Content[page.start] = "n"
<1> DEFINE end == WindowEnd(cursor)
           start == LineStart(WindowStart(end), end)
<1>1. end \in 0..Len(Plain) /\ WindowStart(end) \in 0..end
  BY WindowIs
<1>2. start \in 0..end /\ (start = 0 \/ start = end \/ Content[start] = "n")
  BY <1>1, LineStartIs
<1>3. ReadTailBefore(cursor) = [data |-> SubSeq(Plain, start + 1, end), start |-> start]
  BY DEF ReadTailBefore, Page
<1>4. PICK data : data = SubSeq(Plain, start + 1, end)
  OBVIOUS
<1>5. ReadTailBefore(cursor) = [data |-> data, start |-> start]
  BY <1>3, <1>4
<1> HIDE DEF end, start
<1>6. ReadTailBefore(cursor).start = start /\ ReadTailBefore(cursor).data = data
  BY <1>5
<1>7. data = Part(Plain, start, end)
  BY <1>4 DEF Part
<1>8. QED
  BY <1>2, <1>6, <1>7 DEF end

(* A range ends where it was asked to, or where the plaintext does.        *)
LEMMA RangeIs ==
  ASSUME Held, cursor \in Nat
  PROVE  LET next == cursor + Len(ReadRange(cursor, Window))
         IN /\ ReadRange(cursor, Window) = Part(Plain, cursor, next)
            /\ next \in Nat /\ next >= cursor
            /\ next <= Len(Plain) \/ next = cursor
<1> DEFINE end == Min({cursor + Window, Len(Plain)})
<1>1. Plain \in Seq(Place) /\ Len(Plain) \in Nat /\ Window \in Nat \ {0}
  BY PlainShows, BoundsAssumption
<1>2. /\ end \in Nat /\ end <= Len(Plain) /\ (end = cursor + Window \/ end = Len(Plain))
  <2>1. {cursor + Window, Len(Plain)} \in SUBSET Nat /\ {cursor + Window, Len(Plain)} # {}
    BY <1>1
  <2>2. QED
    BY <2>1, MinIs
<1>3. ReadRange(cursor, Window) = SubSeq(Plain, cursor + 1, end)
  BY DEF ReadRange
<1> HIDE DEF end
<1>4. CASE cursor <= end
  <2>1. Len(SubSeq(Plain, cursor + 1, end)) = end - cursor
    BY <1>1, <1>2, <1>4
  <2>2. QED
    BY <1>1, <1>2, <1>3, <1>4, <2>1 DEF Part
<1>5. CASE cursor > end
  <2>1. SubSeq(Plain, cursor + 1, end) = <<>> /\ SubSeq(Plain, cursor + 1, cursor) = <<>>
    BY <1>1, <1>2, <1>5, SubSeqEmpty
  <2>2. QED
    BY <1>1, <1>2, <1>3, <1>5, <2>1 DEF Part
<1>6. QED
  BY <1>1, <1>2, <1>4, <1>5

-----------------------------------------------------------------------------
(* What a client has put together joins up, as long as nothing shifts.     *)
Cursors ==
  /\ cursor \in Nat \cup {Unknown} /\ (kind # "pager" => cursor \in Nat)
  /\ got \in Seq(Place) /\ first \in Seq(Place)
  /\ (kind = "pager" /\ cursor = Unknown) => got = <<>> /\ first = <<>>

PagerJoins ==
  kind = "pager" /\ cursor # Unknown =>
    /\ cursor \in 0..Len(first) /\ Extends(first, Plain)
    /\ got = Part(first, cursor, Len(first))
    /\ cursor > 0 => Content[cursor] = "n"

FollowerJoins ==
  kind = "follower" => cursor \in 0..Len(Plain) /\ got = Part(Plain, 0, cursor)

Joins == ~shifted => PagerJoins /\ FollowerJoins

LEMMA StillPlain ==
  ASSUME UNCHANGED <<log, payload>> PROVE Plain' = Plain /\ Content' = Content
<1>1. Plain' = Plain
  BY PlainIs
<1>2. QED
  BY <1>1 DEF Content

LEMMA HeldStays ==
  ASSUME Held, UNCHANGED <<kind, appended, payload, log>>
  PROVE  Held'
BY DEF Held

LEMMA AppendsCursors == ASSUME Cursors, Appends PROVE Cursors'
BY DEF Appends, client, Cursors

LEMMA AppendsJoins == ASSUME Held, Cursors, Joins, Appends PROVE Joins'
<1> SUFFICES ASSUME ~shifted' PROVE PagerJoins' /\ FollowerJoins'
  BY DEF Joins
<1>1. /\ kind' = kind /\ cursor' = cursor /\ got' = got /\ first' = first
      /\ ~shifted /\ ~(Began /\ Forgot)
  BY DEF Appends, client
<1>2. /\ Plain \in Seq(Place) /\ Plain' \in Seq(Place) /\ first \in Seq(Place)
      /\ Len(Plain) \in Nat /\ Len(Plain') \in Nat
      /\ DOMAIN Plain = 1..Len(Plain)
  BY PlainMoves DEF Cursors
<1>3. ASSUME kind = "pager", cursor # Unknown PROVE PagerJoins'
  <2>1. Extends(Plain, Plain')
    BY <1>1, <1>3, PlainExtends DEF Began
  <2>2. /\ cursor \in 0..Len(first) /\ Extends(first, Plain)
        /\ got = Part(first, cursor, Len(first)) /\ (cursor > 0 => Content[cursor] = "n")
    BY <1>1, <1>3 DEF Joins, PagerJoins
  <2>3. Extends(first, Plain')
    BY <1>2, <2>1, <2>2 DEF Extends
  <2>4. ASSUME cursor > 0 PROVE Content'[cursor] = "n"
    <3>1. cursor \in DOMAIN Plain /\ cursor \in DOMAIN Plain' /\ Plain'[cursor] = Plain[cursor]
      BY <1>2, <2>1, <2>2, <2>4 DEF Extends
    <3>2. QED
      BY <2>2, <2>4, <3>1, ContentStays
  <2>5. QED
    BY <1>1, <2>2, <2>3, <2>4 DEF PagerJoins
<1>4. ASSUME kind = "follower" PROVE FollowerJoins'
  <2>1. cursor \in 0..Len(Plain) /\ got = Part(Plain, 0, cursor)
    BY <1>1, <1>4 DEF Joins, FollowerJoins
  <2>2. CASE cursor = 0
    <3>1. got = <<>> /\ Part(Plain', 0, 0) = <<>>
      BY <2>1, <2>2, NothingCut
    <3>2. QED
      BY <1>1, <1>2, <2>2, <3>1 DEF FollowerJoins
  <2>3. CASE cursor # 0
    <3>1. cursor # Unknown /\ cursor > 0
      BY <1>2, <2>1, <2>3, BoundsAssumption
    <3>2. Extends(Plain, Plain')
      BY <1>1, <3>1, PlainExtends DEF Began
    <3>3. 0 <= cursor /\ cursor <= Len(Plain) /\ cursor \in Nat
      BY <1>2, <2>1
    <3>4. Part(Plain, 0, cursor) = Part(Plain', 0, cursor)
      BY <1>2, <3>2, <3>3, CutSame
    <3>5. cursor <= Len(Plain')
      BY <1>2, <3>2, <3>3 DEF Extends
    <3>6. QED
      BY <1>1, <1>2, <2>1, <3>3, <3>4, <3>5 DEF FollowerJoins
  <2>4. QED
    BY <2>2, <2>3
<1>5. QED
  BY <1>1, <1>3, <1>4 DEF PagerJoins, FollowerJoins

LEMMA PageBackJoins ==
  ASSUME Held, Cursors, Joins, PageBack
  PROVE  Cursors' /\ Joins'
<1> DEFINE page == ReadTailBefore(cursor)
           end == WindowEnd(cursor)
<1>1. /\ kind = "pager" /\ kind' = kind /\ shifted' = shifted
      /\ cursor' = page.start /\ got' = page.data \o got
      /\ first' = (IF cursor = Unknown THEN Plain ELSE first)
      /\ UNCHANGED <<log, payload>>
  BY DEF PageBack
<1>2. /\ Plain \in Seq(Place) /\ Len(Plain) \in Nat
      /\ got \in Seq(Place) /\ first \in Seq(Place) /\ cursor \in Nat \cup {Unknown}
  BY PlainShows DEF Cursors
<1>3. /\ page.start \in 0..end /\ page.data = Part(Plain, page.start, end)
      /\ page.start = 0 \/ page.start = end \/ Content[page.start] = "n"
  BY <1>2, PageIs
<1>4. /\ end \in 0..Len(Plain)
      /\ (cursor = Unknown \/ cursor > Len(Plain)) => end = Len(Plain)
      /\ (cursor # Unknown /\ cursor <= Len(Plain)) => end = cursor
  BY <1>2, WindowIs
<1> HIDE DEF page, end
<1>5. PICK start \in Nat, data \in Seq(Place) :
        /\ start = page.start /\ data = page.data
        /\ start <= end /\ end \in Nat /\ end <= Len(Plain)
        /\ data = Part(Plain, start, end)
        /\ start = 0 \/ start = end \/ Content[start] = "n"
  <2>1. page.start \in Nat /\ page.start <= end /\ end \in Nat /\ end <= Len(Plain)
    BY <1>2, <1>3, <1>4
  <2>2. Part(Plain, page.start, end) \in Seq(Place)
    BY <1>2, <2>1, Cut
  <2>3. QED
    BY <1>3, <2>1, <2>2
<1>6. Plain' = Plain /\ Content' = Content
  BY <1>1, StillPlain
<1>7. Cursors'
  <2>1. data \o got \in Seq(Place)
    BY <1>2, <1>5, ConcatProperties
  <2>2. start # Unknown
    BY <1>5, BoundsAssumption
  <2>3. first' \in Seq(Place)
    BY <1>1, <1>2
  <2>4. cursor' = start /\ got' = data \o got /\ kind' = "pager"
    BY <1>1, <1>5
  <2>5. QED
    BY <1>5, <2>1, <2>2, <2>3, <2>4 DEF Cursors
<1>8. ASSUME ~shifted, cursor = Unknown PROVE PagerJoins'
  <2>1. end = Len(Plain) /\ first' = Plain
    BY <1>1, <1>4, <1>8
  <2>2. got' = Part(Plain, start, Len(Plain))
    <3>1. got = <<>>
      BY <1>1, <1>8 DEF Cursors
    <3>2. data \o <<>> = data
      BY <1>5, ConcatEmptySeq
    <3>3. QED
      BY <1>1, <1>5, <2>1, <3>1, <3>2
  <2>3. ASSUME start > 0 PROVE Content[start] = "n"
    <3>1. Plain # <<>>
      BY <1>2, <1>5, <2>3
    <3>2. QED
      BY <1>1, <1>5, <2>1, <2>3, <3>1, ContentEnds
  <2>4. cursor' = start /\ Extends(Plain, Plain)
    BY <1>1, <1>2, <1>5 DEF Extends
  <2>5. start \in 0..Len(Plain)
    BY <1>2, <1>5
  <2>6. QED
    BY <1>6, <2>1, <2>2, <2>3, <2>4, <2>5 DEF PagerJoins
<1>9. ASSUME ~shifted, cursor # Unknown PROVE PagerJoins'
  <2>1. /\ cursor \in 0..Len(first) /\ Extends(first, Plain)
        /\ got = Part(first, cursor, Len(first)) /\ (cursor > 0 => Content[cursor] = "n")
    BY <1>1, <1>9 DEF Joins, PagerJoins
  <2>2. cursor <= Len(Plain) /\ cursor <= Len(first) /\ cursor \in Nat /\ Len(first) \in Nat
    BY <1>2, <2>1 DEF Extends
  <2>3. end = cursor /\ first' = first /\ cursor' = start /\ got' = data \o got
    BY <1>1, <1>4, <1>5, <1>9, <2>2
  <2>4. data = Part(first, start, cursor)
    <3>1. start <= cursor /\ data = Part(Plain, start, cursor)
      BY <1>5, <2>3
    <3>2. Part(first, start, cursor) = Part(Plain, start, cursor)
      BY <1>2, <1>5, <2>1, <2>2, <3>1, CutSame
    <3>3. QED
      BY <3>1, <3>2
  <2>5. got' = Part(first, start, Len(first))
    <3>1. start <= cursor
      BY <1>5, <2>3
    <3>2. Part(first, start, cursor) \o Part(first, cursor, Len(first))
            = Part(first, start, Len(first))
      <4>1. PICK c \in Nat : c = Len(first) /\ cursor <= c /\ c <= Len(first)
        BY <2>2
      <4>2. Part(first, start, cursor) \o Part(first, cursor, c) = Part(first, start, c)
        <5>1. first \in Seq(Place) /\ cursor \in Nat /\ start \in Nat
          BY <1>2, <2>2
        <5>2. QED
          BY <3>1, <4>1, <5>1, CutJoin, ZenonT(30)
      <4>3. QED
        BY <4>1, <4>2
    <3>3. QED
      BY <2>1, <2>3, <2>4, <3>2
  <2>6. start > 0 => Content[start] = "n"
    BY <1>5, <2>1, <2>3
  <2>7. start \in 0..Len(first)
    BY <1>5, <2>2, <2>3
  <2>8. QED
    BY <1>6, <2>1, <2>3, <2>5, <2>6, <2>7 DEF PagerJoins
<1>10. QED
  BY <1>1, <1>7, <1>8, <1>9 DEF Joins, FollowerJoins

LEMMA FollowJoins ==
  ASSUME Held, Cursors, Joins, Follow
  PROVE  Cursors' /\ Joins'
<1> DEFINE next == cursor + Len(ReadRange(cursor, Window))
<1>1. /\ kind = "follower" /\ kind' = kind /\ shifted' = shifted /\ first' = first
      /\ got' = got \o ReadRange(cursor, Window) /\ cursor' = next
      /\ UNCHANGED <<log, payload>>
  BY DEF Follow, FollowTo
<1>2. /\ Plain \in Seq(Place) /\ Len(Plain) \in Nat /\ got \in Seq(Place) /\ cursor \in Nat
      /\ first \in Seq(Place)
  BY <1>1, PlainShows DEF Cursors
<1>3. PICK to \in Nat :
        /\ to = next /\ ReadRange(cursor, Window) = Part(Plain, cursor, to)
        /\ to >= cursor /\ (to <= Len(Plain) \/ to = cursor)
  BY <1>2, RangeIs
<1> HIDE DEF next
<1>4. Part(Plain, cursor, to) \in Seq(Place)
  <2>1. CASE to = cursor
    <3>1. Part(Plain, cursor, to) = <<>>
      BY <1>2, <2>1, NothingCut
    <3>2. QED
      BY <3>1, EmptySeq
  <2>2. CASE to <= Len(Plain)
    BY <1>2, <1>3, <2>2, Cut
  <2>3. QED
    BY <1>3, <2>1, <2>2
<1>5. got' = got \o Part(Plain, cursor, to) /\ cursor' = to
  BY <1>1, <1>3
<1>6. Cursors'
  <2>1. got' \in Seq(Place)
    BY <1>2, <1>4, <1>5, ConcatProperties
  <2>2. QED
    BY <1>1, <1>2, <1>3, <1>5, <2>1 DEF Cursors
<1>7. ASSUME ~shifted PROVE FollowerJoins'
  <2>1. cursor \in 0..Len(Plain) /\ got = Part(Plain, 0, cursor)
    BY <1>1, <1>7 DEF Joins, FollowerJoins
  <2>2. to <= Len(Plain) /\ 0 <= cursor /\ cursor <= to
    BY <1>2, <1>3, <2>1
  <2>3. Part(Plain, 0, cursor) \o Part(Plain, cursor, to) = Part(Plain, 0, to)
    BY <1>2, <1>3, <2>2, CutJoin
  <2>4. got' = Part(Plain, 0, to)
    BY <1>5, <2>1, <2>3
  <2>5. Plain' = Plain /\ to \in 0..Len(Plain)
    BY <1>1, <1>2, <2>2, StillPlain
  <2>6. QED
    BY <1>5, <2>4, <2>5 DEF FollowerJoins
<1>8. QED
  BY <1>1, <1>6, <1>7 DEF Joins, PagerJoins

LEMMA SearchStays ==
  ASSUME SearchHistory \/ UNCHANGED vars
  PROVE  /\ UNCHANGED <<log, appended, payload, kind, cursor, got, first, shifted>>
         /\ Plain' = Plain /\ Content' = Content
<1>1. UNCHANGED <<log, appended, payload, kind, cursor, got, first, shifted>>
  BY DEF SearchHistory, client, vars
<1>2. QED
  BY <1>1, StillPlain

LEMMA InitHeld == ASSUME Init PROVE Held /\ Cursors
<1>1. <<>> \in Seq(Entry) /\ <<>> \in Seq(Place) /\ <<>> \in Seq(Payloads[kind])
      /\ Len(<<>>) = 0
  BY EmptySeq
<1>2. Held
  BY <1>1 DEF Init, Held, Kept, Ordered
<1>3. Cursors
  BY <1>1, BoundsAssumption DEF Init, Cursors
<1>4. QED
  BY <1>2, <1>3

LEMMA InitJoins == ASSUME Init PROVE Joins
<1>1. kind = "pager" => cursor = Unknown
  BY DEF Init
<1>2. ASSUME kind = "follower" PROVE FollowerJoins
  <2>1. cursor = 0 /\ got = <<>>
    BY <1>2 DEF Init
  <2>2. Part(Plain, 0, 0) = <<>>
    BY NothingCut
  <2>3. Plain \in Seq(Place)
    BY InitHeld, PlainShows
  <2>4. 0 \in 0..Len(Plain)
    BY <2>3
  <2>5. QED
    BY <2>1, <2>2, <2>4 DEF FollowerJoins
<1>3. QED
  BY <1>1, <1>2 DEF Joins, PagerJoins, FollowerJoins

JoinInv == Held /\ Cursors /\ Joins

LEMMA JoinStep == ASSUME JoinInv, [Next]_vars PROVE JoinInv'
<1>1. Held /\ Cursors /\ Joins
  BY DEF JoinInv
<1>2. CASE Appends
  BY <1>1, <1>2, HeldStep, AppendsCursors, AppendsJoins DEF JoinInv
<1>3. CASE PageBack
  <2>1. Held'
    BY <1>1, <1>3, HeldStays DEF PageBack
  <2>2. QED
    BY <1>1, <1>3, <2>1, PageBackJoins DEF JoinInv
<1>4. CASE Follow
  <2>1. Held'
    BY <1>1, <1>4, HeldStays DEF Follow, FollowTo
  <2>2. QED
    BY <1>1, <1>4, <2>1, FollowJoins DEF JoinInv
<1>5. CASE SearchHistory \/ UNCHANGED vars
  <2>1. /\ UNCHANGED <<log, appended, payload, kind, cursor, got, first, shifted>>
        /\ Plain' = Plain /\ Content' = Content
    BY <1>5, SearchStays
  <2>2. Held'
    BY <1>1, <2>1, HeldStays
  <2>3. Cursors'
    BY <1>1, <2>1 DEF Cursors
  <2>4. Joins'
    BY <1>1, <2>1 DEF Joins, PagerJoins, FollowerJoins
  <2>5. QED
    BY <2>2, <2>3, <2>4 DEF JoinInv
<1>6. QED
  BY <1>2, <1>3, <1>4, <1>5 DEF Next

(* read_tail_before and read_range: until the log forgets something, what  *)
(* a client has put together is one piece of the plaintext, and a pager's  *)
(* begins with a line.                                                     *)
THEOREM ReadsJoinHolds == Spec => []ReadsJoin
<1>1. Init => JoinInv
  BY InitHeld, InitJoins DEF JoinInv
<1>2. JoinInv /\ [Next]_vars => JoinInv'
  BY JoinStep
<1>3. JoinInv => ReadsJoin
  <2> SUFFICES ASSUME JoinInv, ~shifted PROVE
        /\ (kind = "pager" /\ cursor # Unknown) =>
             /\ got = SubSeq(first, cursor + 1, Len(first))
             /\ cursor > 0 => Content[cursor] = "n"
        /\ kind = "follower" => got = SubSeq(Plain, 1, cursor)
    BY DEF ReadsJoin
  <2>1. PagerJoins /\ FollowerJoins
    BY DEF JoinInv, Joins
  <2>2. Part(first, cursor, Len(first)) = SubSeq(first, cursor + 1, Len(first))
    BY DEF Part
  <2>3. QED
    BY <2>1, <2>2, FromStart DEF PagerJoins, FollowerJoins
<1>4. QED
  BY <1>1, <1>2, <1>3, PTL DEF Spec

-----------------------------------------------------------------------------
(* What a truncation does to a client that has begun.                      *)
Ids(q, n) == \A i \in DOMAIN q : q[i].id <= n

AllBefore(q, P, c) == \A i \in DOMAIN q, o \in DOMAIN P : o > c => Before(q[i], P[o])

Missing(o) == Plain[o] \in Range(first) \ Range(got)

PagerMisses ==
  kind = "pager" /\ cursor # Unknown => \A o \in DOMAIN Plain : Missing(o) => o <= cursor

FollowerRises ==
  kind = "follower" => Rising(got) /\ AllBefore(got, Plain, cursor)

Seen == Ids(got, appended) /\ Ids(first, appended)

SafeInv == Held /\ Cursors /\ Seen /\ PagerMisses /\ FollowerRises

LEMMA InRange ==
  ASSUME NEW q, NEW x
  PROVE  x \in Range(q) <=> \E i \in DOMAIN q : x = q[i]
BY DEF Range

LEMMA PlacesAre ==
  ASSUME NEW q \in Seq(Place), NEW i \in DOMAIN q PROVE q[i].id \in Nat /\ q[i].at \in Nat
<1>1. q[i] \in Place
  OBVIOUS
<1>2. QED
  BY <1>1 DEF Place

LEMMA AppendsSafe == ASSUME SafeInv, Appends PROVE SafeInv'
<1>1. Held' /\ Cursors'
  BY HeldStep, AppendsCursors DEF SafeInv
<1>2. kind' = kind /\ cursor' = cursor /\ got' = got /\ first' = first
      /\ appended' = appended + 1 /\ appended \in Nat
  BY AppendsIs DEF Appends, client, SafeInv, Held
<1>3. /\ got \in Seq(Place) /\ first \in Seq(Place)
      /\ Ids(got, appended) /\ Ids(first, appended)
  BY DEF SafeInv, Cursors, Seen
<1>4. PICK d \in Nat : Moves(Plain, Plain', d, appended + 1)
  BY PlainMoves DEF SafeInv
<1>5. Plain \in Seq(Place) /\ Plain' \in Seq(Place)
  BY PlainMoves DEF SafeInv
<1>6. \A o \in DOMAIN Plain' : o \in Nat /\ o + d \in Nat /\ o <= o + d
  BY <1>4, <1>5
<1>7. Seen'
  <2>1. \A i \in DOMAIN got : got[i].id \in Nat
    BY <1>3, PlacesAre
  <2>2. \A i \in DOMAIN first : first[i].id \in Nat
    BY <1>3, PlacesAre
  <2>3. QED
    BY <1>2, <1>3, <2>1, <2>2 DEF Seen, Ids
<1>8. ASSUME kind = "pager", cursor # Unknown, NEW o \in DOMAIN Plain', Missing(o)'
      PROVE  o <= cursor
  <2>1. Plain'[o] \in Range(first) \ Range(got)
    BY <1>2, <1>8 DEF Missing
  <2>2. Plain'[o].id <= appended /\ Plain'[o].id \in Nat
    <3>1. PICK i \in DOMAIN first : Plain'[o] = first[i]
      BY <2>1, InRange
    <3>2. first[i] \in Place
      BY <1>3
    <3>3. QED
      BY <1>3, <3>1, <3>2 DEF Ids, Place
  <2>3. o + d \in DOMAIN Plain /\ Plain'[o] = Plain[o + d]
    BY <1>2, <1>4, <2>2 DEF Moves
  <2>4. o + d <= cursor
    BY <1>8, <2>1, <2>3 DEF SafeInv, PagerMisses, Missing
  <2>5. cursor \in Nat
    BY <1>8 DEF SafeInv, Cursors
  <2>6. QED
    BY <1>6, <2>4, <2>5
<1>9. PagerMisses'
  BY <1>2, <1>8 DEF PagerMisses
<1>10. ASSUME kind = "follower", NEW i \in DOMAIN got, NEW o \in DOMAIN Plain', o > cursor
       PROVE  Before(got[i], Plain'[o])
  <2>1. cursor \in Nat /\ o + d > cursor
    BY <1>6, <1>10 DEF SafeInv, Cursors
  <2>2. CASE o + d \in DOMAIN Plain /\ Plain'[o] = Plain[o + d]
    BY <1>10, <2>1, <2>2 DEF SafeInv, FollowerRises, AllBefore
  <2>3. CASE Plain'[o].id = appended + 1
    <3>1. got[i].id <= appended /\ got[i].id \in Nat
      BY <1>3, PlacesAre DEF Ids
    <3>2. QED
      BY <1>2, <2>3, <3>1 DEF Before
  <2>4. QED
    BY <1>4, <2>2, <2>3 DEF Moves
<1>11. FollowerRises'
  BY <1>2, <1>10 DEF FollowerRises, AllBefore, SafeInv
<1>12. QED
  BY <1>1, <1>7, <1>9, <1>11 DEF SafeInv

LEMMA RangeOfConcat ==
  ASSUME NEW q \in Seq(Place), NEW r \in Seq(Place)
  PROVE  /\ q \o r \in Seq(Place)
         /\ \A x : x \in Range(q \o r) <=> x \in Range(q) \/ x \in Range(r)
<1>1. /\ q \o r \in Seq(Place) /\ Len(q \o r) = Len(q) + Len(r) /\ Len(q) \in Nat /\ Len(r) \in Nat
      /\ \A i \in 1..Len(q) + Len(r) : (q \o r)[i] = IF i <= Len(q) THEN q[i] ELSE r[i - Len(q)]
  BY ConcatProperties
<1>2. PICK p \in Seq(Place) : p = q \o r
  BY <1>1
<1>3. DOMAIN p = 1..Len(q) + Len(r) /\ DOMAIN q = 1..Len(q) /\ DOMAIN r = 1..Len(r)
  BY <1>1, <1>2
<1>4. ASSUME NEW i \in DOMAIN p PROVE (\E j \in DOMAIN q : p[i] = q[j]) \/ (\E j \in DOMAIN r : p[i] = r[j])
  <2>1. CASE i <= Len(q)
    BY <1>1, <1>2, <1>3, <2>1
  <2>2. CASE i > Len(q)
    <3>1. i - Len(q) \in DOMAIN r /\ p[i] = r[i - Len(q)]
      BY <1>1, <1>2, <1>3, <2>2
    <3>2. QED
      BY <3>1
  <2>3. QED
    BY <1>1, <1>3, <2>1, <2>2
<1>5. ASSUME NEW j \in DOMAIN q PROVE \E i \in DOMAIN p : q[j] = p[i]
  <2>1. j \in DOMAIN p /\ p[j] = q[j]
    BY <1>1, <1>2, <1>3
  <2>2. QED
    BY <2>1
<1>6. ASSUME NEW j \in DOMAIN r PROVE \E i \in DOMAIN p : r[j] = p[i]
  <2>1. j + Len(q) \in DOMAIN p /\ ~(j + Len(q) <= Len(q)) /\ (j + Len(q)) - Len(q) = j
    BY <1>1, <1>3
  <2>2. p[j + Len(q)] = r[j]
    BY <1>1, <1>2, <1>3, <2>1
  <2>3. QED
    BY <2>1, <2>2
<1>7. \A x : x \in Range(p) <=> x \in Range(q) \/ x \in Range(r)
  BY <1>4, <1>5, <1>6 DEF Range
<1>8. QED
  BY <1>1, <1>2, <1>7

LEMMA PageBackSafe == ASSUME SafeInv, PageBack, Cursors' PROVE SafeInv'
<1> DEFINE page == ReadTailBefore(cursor)
           end == WindowEnd(cursor)
<1>1. /\ kind = "pager" /\ kind' = kind
      /\ cursor' = page.start /\ got' = page.data \o got
      /\ first' = (IF cursor = Unknown THEN Plain ELSE first)
      /\ UNCHANGED <<log, payload, appended>>
  BY DEF PageBack
<1>2. /\ Plain \in Seq(Place) /\ Len(Plain) \in Nat /\ Rising(Plain)
      /\ \A o \in DOMAIN Plain : Plain[o].id <= appended
      /\ got \in Seq(Place) /\ first \in Seq(Place) /\ cursor \in Nat \cup {Unknown}
      /\ Held
  BY PlainShows DEF SafeInv, Cursors, Held
<1>3. /\ page.start \in 0..end /\ page.data = Part(Plain, page.start, end)
  BY <1>2, PageIs
<1>4. /\ end \in 0..Len(Plain)
      /\ (cursor = Unknown \/ cursor > Len(Plain)) => end = Len(Plain)
      /\ (cursor # Unknown /\ cursor <= Len(Plain)) => end = cursor
  BY <1>2, WindowIs
<1> HIDE DEF page, end
<1>5. PICK start \in Nat : start = page.start /\ start <= end /\ end \in Nat /\ end <= Len(Plain)
  BY <1>2, <1>3, <1>4
<1>6. PICK data \in Seq(Place) :
        /\ data = page.data /\ DOMAIN data = 1..end - start
        /\ \A i \in 1..end - start : data[i] = Plain[start + i] /\ start + i \in DOMAIN Plain
  <2>1. /\ Plain \in Seq(Place) /\ start \in Nat /\ end \in Nat
        /\ start <= end /\ end <= Len(Plain)
    BY <1>2, <1>5
  <2>2. /\ Part(Plain, start, end) \in Seq(Place)
        /\ DOMAIN Part(Plain, start, end) = 1..end - start
        /\ \A i \in 1..end - start : /\ Part(Plain, start, end)[i] = Plain[start + i]
                                     /\ start + i \in DOMAIN Plain
    BY <2>1, Cut
  <2>3. page.data = Part(Plain, start, end)
    BY <1>3, <1>5
  <2>4. QED
    BY <2>2, <2>3
<1>7. /\ Plain' = Plain /\ Held' /\ kind' = "pager" /\ cursor' = start /\ got' = data \o got
      /\ appended' = appended
  BY <1>1, <1>2, <1>5, <1>6, StillPlain, HeldStays
<1>8. \A x : x \in Range(got') <=> x \in Range(data) \/ x \in Range(got)
  BY <1>2, <1>6, <1>7, RangeOfConcat
<1>9. got' \in Seq(Place) /\ first' \in Seq(Place)
  BY DEF Cursors
<1>10. Seen'
  <2>1. \A x \in Range(data) : x.id <= appended
    BY <1>2, <1>6 DEF Range
  <2>2. \A x \in Range(got) : x.id <= appended
    BY DEF Range, SafeInv, Seen, Ids
  <2>3. Ids(got', appended)
    BY <1>8, <2>1, <2>2 DEF Range, Ids
  <2>4. Ids(first', appended)
    BY <1>1, <1>2 DEF Ids, SafeInv, Seen
  <2>5. QED
    BY <1>7, <2>3, <2>4 DEF Seen
<1>11. ASSUME NEW o \in DOMAIN Plain, Plain[o] \in Range(first') \ Range(got')
       PROVE  o <= start
  <2>1. Plain[o] \notin Range(data) /\ Plain[o] \notin Range(got)
    BY <1>8, <1>11
  <2>2. o \in Nat /\ o <= Len(Plain) /\ 1 <= o
    BY <1>2
  <2>3. o <= end
    <3>1. CASE cursor = Unknown \/ cursor > Len(Plain)
      BY <1>4, <2>2, <3>1
    <3>2. CASE cursor # Unknown /\ ~(cursor > Len(Plain))
      <4>1. cursor \in Nat /\ end = cursor
        BY <1>2, <1>4, <3>2
      <4>2. Plain[o] \in Range(first)
        BY <1>1, <1>11, <3>2
      <4>3. o <= cursor
        BY <1>1, <2>1, <3>2, <4>2 DEF SafeInv, PagerMisses, Missing
      <4>4. QED
        BY <4>1, <4>3
    <3>3. QED
      BY <3>1, <3>2
  <2>4. ASSUME o > start PROVE FALSE
    <3>1. o - start \in 1..end - start /\ start + (o - start) = o
      BY <1>5, <2>2, <2>3, <2>4
    <3>2. data[o - start] = Plain[o] /\ o - start \in DOMAIN data
      BY <1>6, <3>1
    <3>3. Plain[o] \in Range(data)
      BY <3>2 DEF Range
    <3>4. QED
      BY <2>1, <3>3
  <2>5. QED
    BY <1>5, <2>2, <2>4
<1>12. PagerMisses'
  BY <1>7, <1>11 DEF PagerMisses, Missing
<1>13. QED
  BY <1>7, <1>10, <1>12 DEF SafeInv, FollowerRises

LEMMA CutRises ==
  ASSUME NEW P \in Seq(Place), Rising(P), NEW a \in Nat, NEW b \in Nat, a <= b, b <= Len(P)
  PROVE  Rising(Part(P, a, b)) /\ AllBefore(Part(P, a, b), P, b)
<1>1. PICK q \in Seq(Place) :
        /\ q = Part(P, a, b) /\ DOMAIN q = 1..b - a
        /\ \A i \in 1..b - a : q[i] = P[a + i] /\ a + i \in DOMAIN P
  BY Cut
<1>2. \A i, j \in 1..b - a : i < j => a + i < a + j
  OBVIOUS
<1>3. Rising(q)
  BY <1>1, <1>2 DEF Rising
<1>4. ASSUME NEW i \in 1..b - a, NEW o \in DOMAIN P, o > b PROVE Before(q[i], P[o])
  <2>1. a + i < o
    BY <1>4
  <2>2. QED
    BY <1>1, <2>1 DEF Rising
<1>5. AllBefore(q, P, b)
  BY <1>1, <1>4 DEF AllBefore
<1>6. QED
  BY <1>1, <1>3, <1>5

LEMMA FollowsOn ==
  ASSUME NEW P \in Seq(Place), Rising(P), NEW q \in Seq(Place), Rising(q),
         NEW c \in Nat, AllBefore(q, P, c), NEW n \in Nat, c <= n, n <= Len(P)
  PROVE  Rising(q \o Part(P, c, n)) /\ AllBefore(q \o Part(P, c, n), P, n)
<1>1. PICK r \in Seq(Place) :
        /\ r = Part(P, c, n) /\ DOMAIN r = 1..n - c /\ Rising(r) /\ AllBefore(r, P, n)
        /\ \A i \in 1..n - c : r[i] = P[c + i] /\ c + i \in DOMAIN P
  BY Cut, CutRises, ZenonT(30)
<1>2. \A j \in DOMAIN r : c + j > c
  BY <1>1
<1>3. \A i \in DOMAIN q : \A j \in DOMAIN r : Before(q[i], r[j])
  BY <1>1, <1>2 DEF AllBefore
<1>4. Rising(q \o r)
  BY <1>1, <1>3, JoinRises
<1>5. ASSUME NEW i \in DOMAIN (q \o r), NEW o \in DOMAIN P, o > n PROVE Before((q \o r)[i], P[o])
  <2>1. (q \o r)[i] \in Range(q) \/ (q \o r)[i] \in Range(r)
    <3>1. (q \o r)[i] \in Range(q \o r)
      BY DEF Range
    <3>2. QED
      BY <3>1, RangeOfConcat
  <2>2. o > c
    BY <1>5
  <2>3. \A j \in DOMAIN q : Before(q[j], P[o])
    BY <2>2 DEF AllBefore
  <2>4. \A j \in DOMAIN r : Before(r[j], P[o])
    BY <1>1, <1>5 DEF AllBefore
  <2>5. QED
    BY <2>1, <2>3, <2>4 DEF Range
<1>6. AllBefore(q \o r, P, n)
  BY <1>5 DEF AllBefore
<1>7. QED
  BY <1>1, <1>4, <1>6

LEMMA FollowSafe == ASSUME SafeInv, Follow, Cursors' PROVE SafeInv'
<1> DEFINE next == cursor + Len(ReadRange(cursor, Window))
<1>1. /\ kind = "follower" /\ kind' = kind /\ first' = first
      /\ got' = got \o ReadRange(cursor, Window) /\ cursor' = next
      /\ UNCHANGED <<log, payload, appended>>
  BY DEF Follow, FollowTo
<1>2. /\ Plain \in Seq(Place) /\ Len(Plain) \in Nat /\ Rising(Plain)
      /\ \A o \in DOMAIN Plain : Plain[o].id <= appended
      /\ got \in Seq(Place) /\ cursor \in Nat
      /\ Held /\ Rising(got) /\ AllBefore(got, Plain, cursor)
      /\ Ids(got, appended) /\ Ids(first, appended)
  BY <1>1, PlainShows DEF SafeInv, Cursors, Held, FollowerRises, Seen
<1>3. PICK to \in Nat :
        /\ to = next /\ ReadRange(cursor, Window) = Part(Plain, cursor, to)
        /\ to >= cursor /\ (to <= Len(Plain) \/ to = cursor)
  BY <1>2, RangeIs
<1> HIDE DEF next
<1>4. /\ Plain' = Plain /\ Held' /\ kind' = "follower" /\ appended' = appended
      /\ cursor' = to /\ got' = got \o Part(Plain, cursor, to) /\ first' = first
  BY <1>1, <1>2, <1>3, StillPlain, HeldStays
<1>5. CASE to = cursor
  <2>1. got' = got
    <3>1. Part(Plain, cursor, to) = <<>>
      BY <1>2, <1>5, NothingCut
    <3>2. got \o <<>> = got
      BY <1>2, ConcatEmptySeq
    <3>3. QED
      BY <1>4, <3>1, <3>2
  <2>2. QED
    BY <1>2, <1>4, <1>5, <2>1 DEF SafeInv, Seen, FollowerRises, PagerMisses
<1>6. CASE to <= Len(Plain)
  <2>1. Rising(got') /\ AllBefore(got', Plain, to)
    <3>1. cursor <= to
      BY <1>2, <1>3
    <3>2. QED
      BY <1>2, <1>4, <1>6, <3>1, FollowsOn
  <2>2. Ids(got', appended)
    <3>1. PICK r \in Seq(Place) :
            /\ r = Part(Plain, cursor, to) /\ DOMAIN r = 1..to - cursor
            /\ \A i \in 1..to - cursor : r[i] = Plain[cursor + i] /\ cursor + i \in DOMAIN Plain
      <4>1. /\ Plain \in Seq(Place) /\ cursor \in Nat /\ to \in Nat
            /\ cursor <= to /\ to <= Len(Plain)
        BY <1>2, <1>3, <1>6
      <4>2. QED
        BY <4>1, Cut
    <3>2. \A x \in Range(r) : x.id <= appended
      BY <1>2, <3>1 DEF Range
    <3>3. \A x \in Range(got) : x.id <= appended
      BY <1>2 DEF Range, Ids
    <3>4. \A x \in Range(got \o r) : x.id <= appended
      BY <1>2, <3>2, <3>3, RangeOfConcat
    <3>5. QED
      BY <1>4, <3>1, <3>4 DEF Range, Ids
  <2>3. QED
    BY <1>2, <1>4, <2>1, <2>2 DEF SafeInv, Seen, FollowerRises, PagerMisses
<1>7. QED
  BY <1>3, <1>5, <1>6

LEMMA SafeStep ==
  ASSUME SafeInv, Cursors', [Next]_vars PROVE SafeInv'
<1>1. CASE Appends
  BY <1>1, AppendsSafe
<1>2. CASE PageBack
  BY <1>2, PageBackSafe
<1>3. CASE Follow
  BY <1>3, FollowSafe
<1>4. CASE SearchHistory \/ UNCHANGED vars
  <2>1. /\ UNCHANGED <<log, appended, payload, kind, cursor, got, first, shifted>>
        /\ Plain' = Plain
    BY <1>4, SearchStays
  <2>2. Held'
    BY <2>1, HeldStays DEF SafeInv
  <2>3. Seen' /\ PagerMisses' /\ FollowerRises'
    BY <2>1 DEF SafeInv, Seen, PagerMisses, Missing, FollowerRises
  <2>4. QED
    BY <2>2, <2>3 DEF SafeInv
<1>5. QED
  BY <1>1, <1>2, <1>3, <1>4 DEF Next

(* read_tail_before and read_range while the log is cut: a pager misses no *)
(* byte that is still there, a follower is never given one twice or late.  *)
THEOREM ForgettingIsSafeHolds == Spec => []ForgettingIsSafe
<1>1. Init => JoinInv /\ SafeInv
  <2> SUFFICES ASSUME Init PROVE JoinInv /\ SafeInv
    OBVIOUS
  <2>1. JoinInv
    BY InitHeld, InitJoins DEF JoinInv
  <2>2. got = <<>> /\ first = <<>> /\ (kind = "pager" => cursor = Unknown)
    BY DEF Init
  <2>3. Seen /\ PagerMisses /\ FollowerRises
    BY <2>2 DEF Seen, Ids, PagerMisses, FollowerRises, Rising, AllBefore
  <2>4. QED
    BY <2>1, <2>3 DEF JoinInv, SafeInv
<1>2. JoinInv /\ SafeInv /\ [Next]_vars => JoinInv' /\ SafeInv'
  <2> SUFFICES ASSUME JoinInv, SafeInv, [Next]_vars PROVE JoinInv' /\ SafeInv'
    OBVIOUS
  <2>1. JoinInv'
    BY JoinStep
  <2>2. Cursors'
    BY <2>1 DEF JoinInv
  <2>3. QED
    BY <2>1, <2>2, SafeStep
<1>3. SafeInv => ForgettingIsSafe
  <2> SUFFICES ASSUME SafeInv PROVE ForgettingIsSafe
    OBVIOUS
  <2>1. ASSUME kind = "pager", cursor # Unknown, NEW b \in Range(first) \ Range(got),
               NEW o \in DOMAIN Plain, Plain[o] = b
        PROVE  o <= cursor
    BY <2>1 DEF SafeInv, PagerMisses, Missing
  <2>2. kind = "follower" => \A i, j \in DOMAIN got : i < j => Before(got[i], got[j])
    BY DEF SafeInv, FollowerRises, Rising
  <2>3. QED
    BY <2>1, <2>2 DEF ForgettingIsSafe
<1>4. QED
  BY <1>1, <1>2, <1>3, PTL DEF Spec

-----------------------------------------------------------------------------
(* Searching: the loop of Found, for every text and pattern.               *)
Found1(pattern, s, width, f, o) ==
  IF o >= Len(s) THEN <<>>
  ELSE IF OccursAt(pattern, s, o) THEN <<o>> \o f[o + width]
  ELSE f[o + 1]

IsFound(pattern, s, width, low, f) ==
  f = [o \in low..Len(s) + width |-> Found1(pattern, s, width, f, o)]

LEMMA FoundGrows ==
  ASSUME NEW pattern, NEW s, NEW width \in Nat \ {0}, Len(s) \in Nat,
         NEW low \in Nat, low + 1 <= Len(s) + width,
         NEW g, IsFound(pattern, s, width, low + 1, g)
  PROVE  \E h : IsFound(pattern, s, width, low, h)
<1> DEFINE top == Len(s) + width
           h == [o \in low..top |-> Found1(pattern, s, width, g, o)]
<1>1. top \in Nat
  OBVIOUS
<1>2. ASSUME NEW o \in low+1..top PROVE h[o] = g[o]
  <2>1. o \in low..top
    BY <1>1
  <2>2. h[o] = Found1(pattern, s, width, g, o)
    BY <2>1
  <2>3. g = [p \in low+1..top |-> Found1(pattern, s, width, g, p)]
    BY DEF IsFound
  <2>4. g[o] = Found1(pattern, s, width, g, o)
    <3> HIDE DEF h
    <3>1. PICK F : F = [p \in low+1..top |-> Found1(pattern, s, width, g, p)]
      OBVIOUS
    <3>2. F[o] = Found1(pattern, s, width, g, o)
      BY <3>1
    <3>3. g = F
      BY <2>3, <3>1
    <3>4. QED
      BY <3>2, <3>3
  <2>5. QED
    BY <2>2, <2>4
<1>3. ASSUME NEW o \in low..top PROVE h[o] = Found1(pattern, s, width, h, o)
  <2>1. h[o] = Found1(pattern, s, width, g, o)
    OBVIOUS
  <2>2. CASE o >= Len(s)
    BY <2>1, <2>2 DEF Found1
  <2>3. CASE ~(o >= Len(s))
    <3>1. o + width \in low+1..top /\ o + 1 \in low+1..top
      BY <1>1, <2>3
    <3>2. h[o + width] = g[o + width] /\ h[o + 1] = g[o + 1]
      BY <1>2, <3>1
    <3> HIDE DEF h
    <3>3. QED
      BY <2>1, <3>2 DEF Found1
  <2>4. QED
    BY <2>2, <2>3
<1>4. h = [o \in low..top |-> Found1(pattern, s, width, h, o)]
  BY <1>3
<1>5. IsFound(pattern, s, width, low, h)
  BY <1>4 DEF IsFound
<1>6. QED
  BY <1>5

LEMMA FoundExists ==
  ASSUME NEW pattern, NEW s, NEW width \in Nat \ {0}, Len(s) \in Nat
  PROVE  \E f : IsFound(pattern, s, width, 0, f)
<1>1. PICK top \in Nat : top = Len(s) + width
  OBVIOUS
<1> DEFINE N == {k \in Nat : k <= top => \E f : IsFound(pattern, s, width, top - k, f)}
<1>2. 0 \in N
  <2> DEFINE f == [o \in top..top |-> <<>>]
  <2>1. top - 0 = top /\ top >= Len(s) /\ \A o \in top..top : o = top
    BY <1>1
  <2>2. \A o \in top..top : f[o] = Found1(pattern, s, width, f, o)
    BY <2>1 DEF Found1
  <2>3. f = [o \in top..top |-> Found1(pattern, s, width, f, o)]
    BY <2>2
  <2>4. IsFound(pattern, s, width, top, f)
    BY <1>1, <2>3 DEF IsFound
  <2>5. \E g : IsFound(pattern, s, width, top - 0, g)
    BY <2>1, <2>4
  <2>6. QED
    BY <2>5
<1>3. ASSUME NEW k \in N PROVE k + 1 \in N
  <2> SUFFICES ASSUME k + 1 <= top PROVE \E f : IsFound(pattern, s, width, top - (k + 1), f)
    OBVIOUS
  <2>1. PICK g : IsFound(pattern, s, width, top - k, g)
    BY <1>1
  <2>2. PICK low \in Nat : low = top - (k + 1) /\ low + 1 = top - k /\ low + 1 <= top
    BY <1>1
  <2>3. IsFound(pattern, s, width, low + 1, g)
    BY <2>1, <2>2
  <2>4. \E f : IsFound(pattern, s, width, low, f)
    BY <1>1, <2>2, <2>3, FoundGrows
  <2>5. QED
    BY <2>2, <2>4
<1>4. Nat \subseteq N
  BY <1>2, <1>3, AllOfNat
<1>5. top \in N /\ top - top = 0
  BY <1>4
<1>6. QED
  BY <1>5

(* What is found from an offset on.                                        *)
FoundFrom(pattern, s, width, o, q) ==
  /\ q \in Seq(Nat)
  /\ \A i \in DOMAIN q : q[i] >= o /\ q[i] < Len(s) /\ OccursAt(pattern, s, q[i])
  /\ \A i, j \in DOMAIN q : i < j => q[i] + width <= q[j]
  /\ \A x \in 0..Len(s) - 1 : x >= o /\ OccursAt(pattern, s, x) =>
       \E i \in DOMAIN q : q[i] <= x /\ x < q[i] + width

Conses(S) ==
  \A x \in S, t \in Seq(S) :
    LET r == <<x>> \o t
    IN /\ r \in Seq(S) /\ r[1] = x /\ 1 \in DOMAIN r
       /\ \A i \in DOMAIN r : i = 1 \/ (i - 1 \in DOMAIN t /\ r[i] = t[i - 1])
       /\ \A i \in DOMAIN t : i + 1 \in DOMAIN r /\ r[i + 1] = t[i]

LEMMA ConsOf == ASSUME NEW S PROVE Conses(S)
<1> SUFFICES ASSUME NEW o \in S, NEW q \in Seq(S)
             PROVE  LET r == <<o>> \o q
                    IN /\ r \in Seq(S) /\ r[1] = o /\ 1 \in DOMAIN r
                       /\ \A i \in DOMAIN r : i = 1 \/ (i - 1 \in DOMAIN q /\ r[i] = q[i - 1])
                       /\ \A i \in DOMAIN q : i + 1 \in DOMAIN r /\ r[i + 1] = q[i]
  BY DEF Conses
<1>1. <<o>> \in Seq(S)
  OBVIOUS
<1>2. PICK u \in Seq(S) : u = <<o>>
  BY <1>1
<1>3. Len(u) = 1 /\ u[1] = o
  BY <1>2
<1>4. PICK r : r = u \o q
  OBVIOUS
<1>5. /\ r \in Seq(S) /\ Len(r) = 1 + Len(q) /\ Len(q) \in Nat
      /\ \A i \in 1..1 + Len(q) : r[i] = IF i <= 1 THEN u[i] ELSE q[i - 1]
  <2>1. /\ u \o q \in Seq(S) /\ Len(u \o q) = Len(u) + Len(q)
        /\ \A i \in 1..Len(u) + Len(q) :
             (u \o q)[i] = IF i <= Len(u) THEN u[i] ELSE q[i - Len(u)]
    BY ConcatProperties
  <2>2. Len(q) \in Nat
    OBVIOUS
  <2>3. QED
    BY <1>3, <1>4, <2>1, <2>2
<1>6. DOMAIN r = 1..1 + Len(q) /\ DOMAIN q = 1..Len(q)
  BY <1>5
<1>7. r[1] = o /\ 1 \in DOMAIN r
  BY <1>3, <1>5, <1>6
<1>8. \A i \in DOMAIN r : i = 1 \/ (i - 1 \in DOMAIN q /\ r[i] = q[i - 1])
  BY <1>5, <1>6, SMTT(30)
<1>9. \A i \in DOMAIN q : i + 1 \in DOMAIN r /\ r[i + 1] = q[i]
  <2> TAKE i \in DOMAIN q
  <2>1. i + 1 \in DOMAIN r /\ ~(i + 1 <= 1) /\ (i + 1) - 1 = i
    BY <1>5, <1>6
  <2>2. QED
    BY <1>5, <1>6, <2>1
<1>10. QED
  BY <1>2, <1>4, <1>5, <1>7, <1>8, <1>9

LEMMA ConsIs ==
  ASSUME NEW o \in Nat, NEW q \in Seq(Nat)
  PROVE  LET r == <<o>> \o q
         IN /\ r \in Seq(Nat) /\ r[1] = o /\ 1 \in DOMAIN r
            /\ \A i \in DOMAIN r : i = 1 \/ (i - 1 \in DOMAIN q /\ r[i] = q[i - 1])
            /\ \A i \in DOMAIN q : i + 1 \in DOMAIN r /\ r[i + 1] = q[i]
<1>1. Conses(Nat)
  BY ConsOf
<1>2. QED
  BY <1>1, ZenonT(30) DEF Conses

LEMMA FoundMatch ==
  ASSUME NEW pattern, NEW s, NEW width \in Nat \ {0}, Len(s) \in Nat,
         NEW o \in Nat, o < Len(s), OccursAt(pattern, s, o),
         NEW q, FoundFrom(pattern, s, width, o + width, q)
  PROVE  FoundFrom(pattern, s, width, o, <<o>> \o q)
<1>1. /\ q \in Seq(Nat)
      /\ \A i \in DOMAIN q : q[i] >= o + width /\ q[i] < Len(s) /\ OccursAt(pattern, s, q[i])
      /\ \A i, j \in DOMAIN q : i < j => q[i] + width <= q[j]
      /\ \A x \in 0..Len(s) - 1 : x >= o + width /\ OccursAt(pattern, s, x) =>
           \E i \in DOMAIN q : q[i] <= x /\ x < q[i] + width
  BY DEF FoundFrom
<1>2. PICK r \in Seq(Nat) :
        /\ r = <<o>> \o q /\ r[1] = o /\ 1 \in DOMAIN r
        /\ \A i \in DOMAIN r : i = 1 \/ (i - 1 \in DOMAIN q /\ r[i] = q[i - 1])
        /\ \A i \in DOMAIN q : i + 1 \in DOMAIN r /\ r[i + 1] = q[i]
  BY <1>1, ConsIs, ZenonT(90)
<1>3. \A i \in DOMAIN q : q[i] \in Nat
  BY <1>1
<1>4. \A i \in DOMAIN r : r[i] >= o /\ r[i] < Len(s) /\ OccursAt(pattern, s, r[i])
  BY <1>1, <1>2, <1>3
<1>5. ASSUME NEW i \in DOMAIN r, NEW j \in DOMAIN r, i < j PROVE r[i] + width <= r[j]
  <2>1. i \in Nat /\ j \in Nat /\ i >= 1 /\ j # 1
    BY <1>2, <1>5
  <2>2. j - 1 \in DOMAIN q /\ r[j] = q[j - 1]
    BY <1>2, <2>1
  <2>3. CASE i = 1
    BY <1>1, <1>2, <1>3, <2>2, <2>3
  <2>4. CASE i # 1
    <3>1. i - 1 \in DOMAIN q /\ r[i] = q[i - 1] /\ i - 1 < j - 1
      BY <1>2, <1>5, <2>1, <2>4, SMTT(30)
    <3>2. QED
      BY <1>1, <2>2, <3>1
  <2>5. QED
    BY <2>3, <2>4
<1>6. ASSUME NEW x \in 0..Len(s) - 1, x >= o, OccursAt(pattern, s, x)
      PROVE  \E i \in DOMAIN r : r[i] <= x /\ x < r[i] + width
  <2>1. CASE x < o + width
    BY <1>2, <1>6, <2>1
  <2>2. CASE x >= o + width
    <3>1. PICK i \in DOMAIN q : q[i] <= x /\ x < q[i] + width
      BY <1>1, <1>6, <2>2
    <3>2. QED
      BY <1>2, <3>1
  <2>3. QED
    BY <2>1, <2>2
<1>7. QED
  BY <1>2, <1>4, <1>5, <1>6 DEF FoundFrom

LEMMA FoundNoMatch ==
  ASSUME NEW pattern, NEW s, NEW width \in Nat \ {0}, Len(s) \in Nat,
         NEW o \in Nat, ~OccursAt(pattern, s, o),
         NEW q, FoundFrom(pattern, s, width, o + 1, q)
  PROVE  FoundFrom(pattern, s, width, o, q)
<1>1. /\ q \in Seq(Nat)
      /\ \A i \in DOMAIN q : q[i] >= o + 1 /\ q[i] < Len(s) /\ OccursAt(pattern, s, q[i])
      /\ \A i, j \in DOMAIN q : i < j => q[i] + width <= q[j]
      /\ \A x \in 0..Len(s) - 1 : x >= o + 1 /\ OccursAt(pattern, s, x) =>
           \E i \in DOMAIN q : q[i] <= x /\ x < q[i] + width
  BY DEF FoundFrom
<1>2. \A i \in DOMAIN q : q[i] \in Nat
  BY <1>1
<1>3. \A i \in DOMAIN q : q[i] >= o
  BY <1>1, <1>2
<1>4. ASSUME NEW x \in 0..Len(s) - 1, x >= o, OccursAt(pattern, s, x)
      PROVE  \E i \in DOMAIN q : q[i] <= x /\ x < q[i] + width
  <2>1. x # o
    BY <1>4
  <2>2. x >= o + 1
    BY <1>4, <2>1
  <2>3. QED
    BY <1>1, <1>4, <2>2
<1>5. QED
  BY <1>1, <1>3, <1>4 DEF FoundFrom

(* str::find again and again, each time behind the last match: a place is  *)
(* found if and only if the pattern is there and no earlier match covers it*)
THEOREM FoundIsLeftmost ==
  ASSUME NEW pattern, NEW s, NEW width \in Nat \ {0}, Len(s) \in Nat
  PROVE  FoundFrom(pattern, s, width, 0, FoundStepping(pattern, s, width))
<1> DEFINE f == CHOOSE g : IsFound(pattern, s, width, 0, g)
<1>1. IsFound(pattern, s, width, 0, f)
  BY FoundExists
<1>2. FoundStepping(pattern, s, width) = f[0]
  BY DEF FoundStepping, IsFound, Found1
<1> HIDE DEF f
<1>3. PICK top \in Nat : top = Len(s) + width
  OBVIOUS
<1>4. \A o \in 0..top : f[o] = Found1(pattern, s, width, f, o)
  BY <1>1, <1>3 DEF IsFound
<1> DEFINE Good(o) == FoundFrom(pattern, s, width, o, f[o])
           N == {k \in Nat : \A o \in 0..top : o + k >= top => Good(o)}
<1>5. ASSUME NEW o \in 0..top, o >= Len(s) PROVE Good(o)
  <2>1. f[o] = <<>>
    BY <1>4, <1>5 DEF Found1
  <2>2. FoundFrom(pattern, s, width, o, <<>>)
    BY <1>5 DEF FoundFrom
  <2>3. QED
    BY <2>1, <2>2
<1>6. 0 \in N
  <2>1. \A o \in 0..top : o + 0 >= top => o >= Len(s)
    BY <1>3
  <2>2. QED
    BY <1>5, <2>1
<1>7. ASSUME NEW k \in N PROVE k + 1 \in N
  <2> SUFFICES ASSUME NEW o \in 0..top, o + (k + 1) >= top PROVE Good(o)
    OBVIOUS
  <2>1. \A x \in 0..top : x + k >= top => Good(x)
    OBVIOUS
  <2>2. CASE o < Len(s) /\ OccursAt(pattern, s, o)
    <3>1. o + width \in 0..top /\ (o + width) + k >= top /\ o \in Nat
      BY <1>3, <2>2
    <3>2. Good(o + width)
      BY <2>1, <3>1
    <3>3. f[o] = <<o>> \o f[o + width]
      <4>1. f[o] = Found1(pattern, s, width, f, o)
        BY <1>4
      <4>2. ~(o >= Len(s))
        BY <3>1, <2>2
      <4>3. QED
        BY <4>1, <4>2, <2>2 DEF Found1
    <3>4. FoundFrom(pattern, s, width, o, <<o>> \o f[o + width])
      BY <2>2, <3>1, <3>2, FoundMatch
    <3>5. QED
      BY <3>3, <3>4
  <2>3. CASE o < Len(s) /\ ~OccursAt(pattern, s, o)
    <3>1. o + 1 \in 0..top /\ (o + 1) + k >= top /\ o \in Nat
      BY <1>3, <2>3
    <3>2. Good(o + 1)
      BY <2>1, <3>1
    <3>3. f[o] = f[o + 1]
      <4>1. f[o] = Found1(pattern, s, width, f, o)
        BY <1>4
      <4>2. ~(o >= Len(s))
        BY <3>1, <2>3
      <4>3. QED
        BY <4>1, <4>2, <2>3 DEF Found1
    <3>4. FoundFrom(pattern, s, width, o, f[o + 1])
      BY <2>3, <3>1, <3>2, FoundNoMatch
    <3>5. QED
      BY <3>3, <3>4
  <2>4. CASE o >= Len(s)
    BY <1>5, <2>4
  <2>5. QED
    BY <2>2, <2>3, <2>4
<1>8. Nat \subseteq N
  BY <1>6, <1>7, AllOfNat
<1>9. top \in N /\ 0 \in 0..top
  BY <1>8
<1>10. Good(0)
  BY <1>9
<1>11. QED
  BY <1>2, <1>10

-----------------------------------------------------------------------------
(* Bounds: the longest payload, the entries of a log, the bytes of it.     *)
LEMMA GreatestIn ==
  ASSUME NEW S \in SUBSET Nat, IsFiniteSet(S), S # {}
  PROVE  \E x \in S : \A y \in S : x >= y
<1> DEFINE N == {n \in Nat : \A T \in SUBSET Nat : IsFiniteSet(T) /\ Cardinality(T) = n + 1 =>
                   \E x \in T : \A y \in T : x >= y}
<1>1. 0 \in N
  <2> SUFFICES ASSUME NEW T \in SUBSET Nat, IsFiniteSet(T), Cardinality(T) = 1
               PROVE  \E x \in T : \A y \in T : x >= y
    OBVIOUS
  <2>1. PICK x : T = {x}
    BY FS_Singleton
  <2>2. x \in T /\ x \in Nat /\ \A y \in T : y = x
    BY <2>1
  <2>3. QED
    BY <2>2
<1>2. ASSUME NEW n \in N PROVE n + 1 \in N
  <2> SUFFICES ASSUME NEW T \in SUBSET Nat, IsFiniteSet(T), Cardinality(T) = (n + 1) + 1
               PROVE  \E x \in T : \A y \in T : x >= y
    OBVIOUS
  <2>1. PICK z : z \in T
    BY FS_EmptySet
  <2>2. PICK U \in SUBSET Nat : U = T \ {z} /\ IsFiniteSet(U) /\ Cardinality(U) = n + 1
    <3>1. IsFiniteSet(T \ {z}) /\ Cardinality(T \ {z}) = Cardinality(T) - 1
      BY <2>1, FS_RemoveElement
    <3>2. QED
      BY <3>1
  <2>3. PICK x \in U : \A y \in U : x >= y
    BY <2>2
  <2>4. CASE x >= z
    BY <2>2, <2>3, <2>4
  <2>5. CASE ~(x >= z)
    <3>1. \A y \in U : z >= y
      BY <2>1, <2>2, <2>3, <2>5
    <3>2. z \in Nat /\ \A y \in T : y = z \/ y \in U
      BY <2>1, <2>2
    <3>3. QED
      BY <2>1, <3>1, <3>2
  <2>6. QED
    BY <2>4, <2>5
<1>3. Nat \subseteq N
  BY <1>1, <1>2, AllOfNat
<1>4. Cardinality(S) \in Nat /\ Cardinality(S) # 0
  BY FS_CardinalityType, FS_EmptySet
<1>5. Cardinality(S) - 1 \in N /\ (Cardinality(S) - 1) + 1 = Cardinality(S)
  BY <1>3, <1>4
<1>6. QED
  BY <1>5

LEMMA LongestIs ==
  ASSUME kind \in Kinds
  PROVE  Longest \in Nat /\ \A p \in Payloads[kind] : Len(p) <= Longest
<1> DEFINE S == {Len(p) : p \in Payloads[kind]}
<1>1. S \in SUBSET Nat
  BY PayloadIs
<1>2. IsFiniteSet(S) /\ S # {}
  <2>1. PICK R : R = S
    OBVIOUS
  <2>2. IsFiniteSet(R)
    BY <2>1, BoundsAssumption, Zenon
  <2>3. PICK p : p \in Payloads[kind]
    BY BoundsAssumption
  <2>4. Len(p) \in S
    BY <2>3
  <2>5. QED
    BY <2>1, <2>2, <2>4
<1>3. Longest = Max(S)
  BY DEF Longest
<1>4. \A p \in Payloads[kind] : Len(p) \in S
  OBVIOUS
<1> HIDE DEF S
<1>5. \E x \in S : \A y \in S : x >= y
  BY <1>1, <1>2, GreatestIn
<1>6. Max(S) \in S /\ \A y \in S : Max(S) >= y
  BY <1>5 DEF Max
<1>7. QED
  BY <1>1, <1>3, <1>4, <1>6

(* Every entry of the log has a number of its own.                         *)
LEMMA LogLen ==
  ASSUME NEW n \in Nat, NEW pay, NEW s, Kept(s, n, pay) PROVE Len(s) \in Nat /\ Len(s) <= n
<1>1. /\ s \in Seq(Entry) /\ DOMAIN s = 1..Len(s) /\ Len(s) \in Nat
      /\ \A i \in DOMAIN s : s[i].id \in 1..n
      /\ \A i, j \in DOMAIN s : i < j => s[i].id < s[j].id
  BY DEF Kept, Ordered
<1> DEFINE N == {i \in Nat : i \in DOMAIN s => i <= s[i].id}
<1>2. 0 \in N
  BY <1>1
<1>3. ASSUME NEW i \in N PROVE i + 1 \in N
  <2> SUFFICES ASSUME i + 1 \in DOMAIN s PROVE i + 1 <= s[i + 1].id
    OBVIOUS
  <2>1. s[i + 1].id \in 1..n
    BY <1>1
  <2>2. CASE i = 0
    BY <2>1, <2>2
  <2>3. CASE i # 0
    <3>1. i \in DOMAIN s /\ i < i + 1
      BY <1>1, <2>3
    <3>2. i <= s[i].id /\ s[i].id < s[i + 1].id /\ s[i].id \in 1..n
      BY <1>1, <3>1
    <3>3. QED
      BY <2>1, <3>2
  <2>4. QED
    BY <2>2, <2>3
<1>4. Nat \subseteq N
  BY <1>2, <1>3, AllOfNat
<1>5. CASE Len(s) = 0
  BY <1>5
<1>6. CASE Len(s) # 0
  <2>1. Len(s) \in DOMAIN s /\ Len(s) \in N
    BY <1>1, <1>4, <1>6
  <2>2. Len(s) <= s[Len(s)].id /\ s[Len(s)].id \in 1..n
    BY <1>1, <2>1
  <2>3. QED
    BY <1>1, <2>2
<1>7. QED
  BY <1>1, <1>5, <1>6

LEMMA TimesGrows ==
  ASSUME NEW m \in Nat, NEW a \in Nat, NEW b \in Nat, a <= b
  PROVE  m * a <= m * b /\ m * a \in Nat /\ m * b \in Nat
<1>1. PICK d \in Nat : b = a + d
  <2>1. b - a \in Nat /\ b = a + (b - a)
    OBVIOUS
  <2>2. QED
    BY <2>1
<1>2. m * (a + d) = m * a + m * d /\ m * a \in Nat /\ m * d \in Nat
  OBVIOUS
<1>3. QED
  BY <1>1, <1>2

LEMMA PlainLen ==
  ASSUME Held
  PROVE  Len(Plain) \in Nat /\ Len(Plain) <= Longest * appended
<1>1. /\ kind \in Kinds /\ appended \in Nat /\ payload \in Seq(Payloads[kind])
      /\ Len(payload) = appended /\ Kept(log, appended, payload) /\ log \in Seq(Entry)
      /\ \A i \in DOMAIN log : log[i].id \in 1..appended /\ log[i].len = Len(payload[log[i].id])
  BY DEF Held, Kept
<1>2. PICK m \in Nat : m = Longest /\ \A p \in Payloads[kind] : Len(p) <= m
  BY <1>1, LongestIs
<1>3. ASSUME NEW i \in DOMAIN log PROVE log[i].len <= m
  <2>1. log[i].id \in 1..appended /\ log[i].len = Len(payload[log[i].id])
    BY <1>1
  <2>2. payload[log[i].id] \in Payloads[kind]
    BY <1>1, <2>1
  <2>3. QED
    BY <1>2, <2>1, <2>2
<1>4. Len(Flat(log)) <= m * Len(log)
  BY <1>1, <1>3, FlatLen
<1>5. Len(log) \in Nat /\ Len(log) <= appended
  BY <1>1, LogLen
<1>6. m * Len(log) <= m * appended /\ m * Len(log) \in Nat /\ m * appended \in Nat
  BY <1>1, <1>5, TimesGrows
<1>7. Len(Plain) \in Nat /\ Plain = Flat(log)
  BY PlainShows, PlainIs
<1>8. QED
  BY <1>2, <1>4, <1>6, <1>7

-----------------------------------------------------------------------------
(* Sequences of sequences, flattened.                                      *)
LEMMA FlattenIsSeq ==
  ASSUME NEW S, NEW p \in Seq(Seq(S)) PROVE FlattenSeq(p) \in Seq(S)
<1> DEFINE N == {n \in Nat : \A q \in Seq(Seq(S)) : Len(q) = n => FlattenSeq(q) \in Seq(S)}
<1>1. 0 \in N
  <2>1. \A q \in Seq(Seq(S)) : Len(q) = 0 => q = <<>>
    OBVIOUS
  <2>2. FlattenSeq(<<>>) \in Seq(S)
    BY FlattenEmpty, EmptySeq
  <2>3. QED
    BY <2>1, <2>2
<1>2. ASSUME NEW n \in N PROVE n + 1 \in N
  <2> SUFFICES ASSUME NEW q \in Seq(Seq(S)), Len(q) = n + 1 PROVE FlattenSeq(q) \in Seq(S)
    OBVIOUS
  <2>1. PICK t \in Seq(Seq(S)), e \in Seq(S) : q = Append(t, e)
    <3>1. q # <<>>
      OBVIOUS
    <3>2. QED
      BY <3>1, SequenceEmptyOrAppend
  <2>2. Len(t) = n
    BY <2>1
  <2>3. FlattenSeq(t) \in Seq(S)
    BY <2>2
  <2>4. FlattenSeq(q) = FlattenSeq(t) \o e
    BY <2>1, <2>3, FlattenAppend
  <2>5. QED
    BY <2>3, <2>4, ConcatProperties
<1>3. Nat \subseteq N
  BY <1>1, <1>2, AllOfNat
<1>4. QED
  BY <1>3

LEMMA FlattenIsLong ==
  ASSUME NEW S, NEW p \in Seq(Seq(S)), p # <<>>, \A i \in DOMAIN p : p[i] # <<>>
  PROVE  FlattenSeq(p) # <<>>
<1>1. PICK t \in Seq(Seq(S)), e \in Seq(S) : p = Append(t, e)
  BY SequenceEmptyOrAppend
<1>2. e # <<>>
  <2>1. Len(t) + 1 \in DOMAIN p /\ p[Len(t) + 1] = e
    BY <1>1
  <2>2. QED
    BY <2>1
<1>3. FlattenSeq(t) \in Seq(S)
  BY FlattenIsSeq
<1>4. FlattenSeq(p) = FlattenSeq(t) \o e
  BY <1>1, <1>3, FlattenAppend
<1>5. Len(FlattenSeq(p)) = Len(FlattenSeq(t)) + Len(e) /\ Len(FlattenSeq(t)) \in Nat
      /\ Len(e) \in Nat \ {0}
  BY <1>2, <1>3, <1>4, ConcatProperties
<1>6. Len(<<>>) = 0
  OBVIOUS
<1>7. QED
  BY <1>5, <1>6


-----------------------------------------------------------------------------
(* What a text becomes when each of its bytes is spelt anew.               *)
Spelt(W, s) == [i \in DOMAIN s |-> W[s[i]]]
Spell(W, s) == FlattenSeq(Spelt(W, s))

Spells(W, S, T) == W \in [S -> Seq(T)]

LEMMA SpeltIs ==
  ASSUME NEW S, NEW T, NEW W, Spells(W, S, T), NEW s \in Seq(S)
  PROVE  /\ Spelt(W, s) \in Seq(Seq(T)) /\ Len(Spelt(W, s)) = Len(s)
         /\ \A i \in DOMAIN s : Spelt(W, s)[i] = W[s[i]]
<1>1. DOMAIN s = 1..Len(s) /\ Len(s) \in Nat /\ \A i \in DOMAIN s : s[i] \in S
  OBVIOUS
<1>2. \A i \in DOMAIN s : W[s[i]] \in Seq(T)
  BY <1>1 DEF Spells
<1>3. Spelt(W, s) \in [1..Len(s) -> Seq(T)] /\ \A i \in DOMAIN s : Spelt(W, s)[i] = W[s[i]]
  BY <1>1, <1>2 DEF Spelt
<1>4. PICK p : p = Spelt(W, s)
  OBVIOUS
<1> DEFINE n == Len(s)
<1> HIDE DEF n
<1>5. p \in [1..n -> Seq(T)]
  BY <1>3, <1>4 DEF n
<1>6. p \in Seq(Seq(T)) /\ Len(p) = n
  BY <1>1, <1>5 DEF n
<1>7. QED
  BY <1>3, <1>4, <1>6 DEF n

LEMMA SpeltAppend ==
  ASSUME NEW S, NEW T, NEW W, Spells(W, S, T), NEW s \in Seq(S), NEW c \in S
  PROVE  Spelt(W, Append(s, c)) = Append(Spelt(W, s), W[c])
<1>1. PICK t \in Seq(S) : /\ t = Append(s, c) /\ Len(t) = Len(s) + 1 /\ t[Len(s) + 1] = c
                          /\ \A i \in 1..Len(s) : t[i] = s[i]
  <2>1. /\ Append(s, c) \in Seq(S) /\ Len(Append(s, c)) = Len(s) + 1
        /\ Append(s, c)[Len(s) + 1] = c /\ \A i \in 1..Len(s) : Append(s, c)[i] = s[i]
    BY AppendProperties
  <2>2. QED
    BY <2>1
<1>2. PICK p \in Seq(Seq(T)) : p = Spelt(W, s) /\ Len(p) = Len(s)
                               /\ \A i \in 1..Len(s) : p[i] = W[s[i]]
  <2>1. DOMAIN s = 1..Len(s)
    OBVIOUS
  <2>2. QED
    BY <2>1, SpeltIs
<1>3. PICK q \in Seq(Seq(T)) : q = Spelt(W, t) /\ Len(q) = Len(t)
                               /\ \A i \in 1..Len(t) : q[i] = W[t[i]]
  <2>1. DOMAIN t = 1..Len(t)
    OBVIOUS
  <2>2. QED
    BY <2>1, SpeltIs
<1>4. PICK w \in Seq(T) : w = W[c]
  BY DEF Spells
<1>5. PICK r \in Seq(Seq(T)) : r = Append(p, w) /\ Len(r) = Len(p) + 1
                               /\ r[Len(p) + 1] = w /\ \A i \in 1..Len(p) : r[i] = p[i]
  <2>1. /\ Append(p, w) \in Seq(Seq(T)) /\ Len(Append(p, w)) = Len(p) + 1
        /\ Append(p, w)[Len(p) + 1] = w /\ \A i \in 1..Len(p) : Append(p, w)[i] = p[i]
    BY AppendProperties
  <2>2. QED
    BY <2>1
<1>6. Len(s) \in Nat
  OBVIOUS
<1>7. \A i \in 1..Len(q) : q[i] = r[i]
  <2> TAKE i \in 1..Len(q)
  <2>1. CASE i = Len(s) + 1
    BY <1>1, <1>2, <1>3, <1>4, <1>5, <2>1, SMTT(30)
  <2>2. CASE i # Len(s) + 1
    <3>1. i \in 1..Len(s) /\ i \in 1..Len(t)
      BY <1>1, <1>3, <1>6, <2>2
    <3>2. q[i] = W[t[i]] /\ t[i] = s[i] /\ p[i] = W[s[i]] /\ r[i] = p[i]
      BY <1>1, <1>2, <1>3, <1>5, <3>1
    <3>3. QED
      BY <3>2
  <2>3. QED
    BY <2>1, <2>2
<1>8. q = r
  <2>1. Len(q) = Len(r)
    BY <1>1, <1>2, <1>3, <1>5
  <2>2. QED
    BY <1>7, <2>1, SeqEqual
<1>9. QED
  BY <1>1, <1>2, <1>3, <1>4, <1>5, <1>8

LEMMA SpellStep ==
  ASSUME NEW S, NEW T, NEW W, Spells(W, S, T), NEW s \in Seq(S), NEW c \in S
  PROVE  /\ Spell(W, s) \in Seq(T) /\ W[c] \in Seq(T)
         /\ Spell(W, Append(s, c)) = Spell(W, s) \o W[c]
<1>1. Spelt(W, s) \in Seq(Seq(T)) /\ W[c] \in Seq(T)
  BY SpeltIs DEF Spells
<1>2. Spell(W, s) \in Seq(T)
  BY <1>1, FlattenIsSeq DEF Spell
<1>3. FlattenSeq(Append(Spelt(W, s), W[c])) = FlattenSeq(Spelt(W, s)) \o W[c]
  BY <1>1, <1>2, FlattenAppend DEF Spell
<1>4. Spelt(W, Append(s, c)) = Append(Spelt(W, s), W[c])
  BY SpeltAppend
<1>5. QED
  BY <1>1, <1>2, <1>3, <1>4 DEF Spell

LEMMA SpellEmpty == ASSUME NEW W PROVE Spell(W, <<>>) = <<>>
<1>1. Spelt(W, <<>>) = <<>>
  BY DEF Spelt
<1>2. QED
  BY <1>1, FlattenEmpty DEF Spell

(* One byte for each: the text keeps its length and its places.            *)
Same(W, g, s) == \A i \in DOMAIN s : W[s[i]] = <<g[s[i]]>>
Renamed(g, s, r) ==
  /\ Len(r) = Len(s) /\ \A i \in DOMAIN s : r[i] = g[s[i]]

LEMMA SpellRenames ==
  ASSUME NEW S, NEW T, NEW W, Spells(W, S, T), NEW g
  PROVE  \A s \in Seq(S) : Same(W, g, s) => Renamed(g, s, Spell(W, s))
<1> DEFINE Good(s) == Same(W, g, s) => Renamed(g, s, Spell(W, s))
           N == {n \in Nat : \A s \in Seq(S) : Len(s) = n => Good(s)}
<1>1. 0 \in N
  <2>1. \A s \in Seq(S) : Len(s) = 0 => s = <<>>
    OBVIOUS
  <2>2. Good(<<>>)
    BY SpellEmpty DEF Renamed
  <2>3. QED
    BY <2>1, <2>2
<1>2. ASSUME NEW n \in N PROVE n + 1 \in N
  <2> SUFFICES ASSUME NEW s \in Seq(S), Len(s) = n + 1, Same(W, g, s)
               PROVE  Renamed(g, s, Spell(W, s))
    OBVIOUS
  <2>1. PICK t \in Seq(S), c \in S : s = Append(t, c)
    <3>1. s # <<>>
      OBVIOUS
    <3>2. QED
      BY <3>1, SequenceEmptyOrAppend
  <2>2. /\ Len(t) = n /\ DOMAIN t = 1..n /\ DOMAIN s = 1..n+1 /\ s[n + 1] = c
        /\ \A i \in 1..n : s[i] = t[i] /\ i \in 1..n+1
    BY <2>1
  <2>3. Same(W, g, t) /\ W[c] = <<g[c]>>
    <3>1. \A i \in 1..n : W[s[i]] = <<g[s[i]]>>
      BY <2>2 DEF Same
    <3>2. n + 1 \in 1..n+1
      OBVIOUS
    <3>3. QED
      BY <2>2, <3>1, <3>2 DEF Same
  <2>4. PICK q \in Seq(T) : q = Spell(W, t)
    BY SpellStep
  <2>5. PICK u \in Seq(T) : u = W[c]
    BY DEF Spells
  <2>6. Len(u) = 1 /\ u[1] = g[c]
    BY <2>3, <2>5
  <2>7. Renamed(g, t, q)
    BY <2>2, <2>3, <2>4
  <2>8. PICK r \in Seq(T) : r = Spell(W, s) /\ r = q \o u
    <3>1. Spell(W, Append(t, c)) = Spell(W, t) \o W[c]
      BY SpellStep
    <3>2. q \o u \in Seq(T)
      BY ConcatProperties
    <3>3. QED
      BY <2>1, <2>4, <2>5, <3>1, <3>2
  <2>9. /\ Len(r) = Len(q) + Len(u)
        /\ \A i \in 1..Len(q) + Len(u) : r[i] = IF i <= Len(q) THEN q[i] ELSE u[i - Len(q)]
    BY <2>8, ConcatProperties
  <2>10. Len(q) = n /\ \A i \in 1..n : q[i] = g[t[i]]
    BY <2>2, <2>7 DEF Renamed
  <2>11. Len(r) = n + 1 /\ \A i \in 1..n : r[i] = g[s[i]]
    BY <2>2, <2>6, <2>9, <2>10
  <2>12. r[n + 1] = g[c]
    <3>1. n + 1 \in 1..n+1 /\ ~(n + 1 <= n) /\ (n + 1) - n = 1
      OBVIOUS
    <3>2. QED
      BY <2>6, <2>9, <2>10, <3>1
  <2>13. \A i \in 1..n+1 : i = n + 1 \/ i \in 1..n
    OBVIOUS
  <2>14. \A i \in 1..n+1 : r[i] = g[s[i]]
    BY <2>2, <2>11, <2>12, <2>13
  <2>15. QED
    BY <2>2, <2>8, <2>11, <2>14 DEF Renamed
<1>3. Nat \subseteq N
  BY <1>1, <1>2, AllOfNat
<1>4. QED
  BY <1>3

(* from_utf8_lossy and to_lowercase make bytes of bytes.                   *)
Bytes == Letters \cup {"r1", "r2", "r3", "d1", "d2"}

LossyW == [c \in Bytes |-> IF c = "x" THEN <<"r1", "r2", "r3">> ELSE <<c>>]
LowerW == [c \in Bytes |-> CASE c = "A" -> <<"a">>
                             [] c = "I1" -> <<"i">>
                             [] c = "I2" -> <<"d1", "d2">>
                             [] OTHER -> <<c>>]

LEMMA LossySpells == Spells(LossyW, Bytes, Bytes)
<1>1. <<"r1", "r2", "r3">> \in Seq(Bytes)
  BY DEF Bytes
<1>2. \A c \in Bytes : <<c>> \in Seq(Bytes)
  OBVIOUS
<1>3. QED
  BY <1>1, <1>2 DEF Spells, LossyW

LEMMA LowerSpells ==
  /\ Spells(LowerW, Bytes, Bytes)
  /\ \A c \in Bytes : LowerW[c] \in {<<"a">>, <<"i">>, <<"d1", "d2">>, <<c>>}
<1>1. \A c \in Bytes : LowerW[c] \in {<<"a">>, <<"i">>, <<"d1", "d2">>, <<c>>}
  BY DEF LowerW
<1>2. /\ <<"a">> \in Seq(Bytes) /\ <<"i">> \in Seq(Bytes) /\ <<"d1", "d2">> \in Seq(Bytes)
  BY DEF Bytes, Letters
<1>3. \A c \in Bytes : <<c>> \in Seq(Bytes)
  OBVIOUS
<1>4. \A c \in Bytes : LowerW[c] \in Seq(Bytes)
  BY <1>1, <1>2, <1>3
<1>5. LowerW = [c \in Bytes |-> LowerW[c]]
  BY DEF LowerW
<1>6. QED
  BY <1>1, <1>4, <1>5 DEF Spells

(* from_utf8_lossy: bytes that are invalid where they are first become     *)
(* "x", then each byte is spelt by itself.                                 *)
Valid(s) == [i \in DOMAIN s |-> IF Invalid(s, i) THEN "x" ELSE s[i]]
Replaced(s) == Spell(LossyW, s)

LEMMA ReplacedIs == ASSUME NEW s \in Seq(Bytes) PROVE Replaced(s) \in Seq(Bytes)
<1>1. Spelt(LossyW, s) \in Seq(Seq(Bytes))
  BY LossySpells, SpeltIs
<1>2. QED
  BY <1>1, FlattenIsSeq DEF Replaced, Spell

LEMMA ValidIs ==
  ASSUME NEW S, "x" \in S, NEW s \in Seq(S)
  PROVE  /\ Valid(s) \in Seq(S) /\ DOMAIN Valid(s) = DOMAIN s
         /\ \A i \in DOMAIN s : Valid(s)[i] = IF Invalid(s, i) THEN "x" ELSE s[i]
<1>1. DOMAIN s = 1..Len(s) /\ Len(s) \in Nat /\ \A i \in DOMAIN s : s[i] \in S
  OBVIOUS
<1>2. \A i \in DOMAIN s : (IF Invalid(s, i) THEN "x" ELSE s[i]) \in S
  BY <1>1
<1>3. QED
  BY <1>1, <1>2 DEF Valid

LEMMA LossyIs ==
  ASSUME NEW s \in Seq(Bytes)
  PROVE  Lossy(s) = Replaced(Valid(s)) /\ Lossy(s) \in Seq(Bytes)
<1>1. "x" \in Bytes
  BY DEF Bytes, Letters
<1>2. PICK t \in Seq(Bytes) :
        /\ t = Valid(s) /\ DOMAIN t = DOMAIN s
        /\ \A i \in DOMAIN s : t[i] = IF Invalid(s, i) THEN "x" ELSE s[i]
  BY <1>1, ValidIs
<1>3. \A i \in DOMAIN s : LossyW[t[i]] = IF Invalid(s, i) THEN <<"r1", "r2", "r3">>
                                          ELSE <<s[i]>>
  <2>1. ASSUME NEW i \in DOMAIN s PROVE t[i] \in Bytes /\ (s[i] = "x" => Invalid(s, i))
    BY <1>2 DEF Invalid
  <2>2. QED
    BY <1>2, <2>1 DEF LossyW
<1>4. Lossy(s) = Replaced(t)
  BY <1>2, <1>3 DEF Lossy, Replaced, Spell, Spelt
<1>5. QED
  BY <1>2, <1>4, ReplacedIs

LEMMA LowerIs ==
  ASSUME NEW s \in Seq(Bytes)
  PROVE  /\ Lower(s) = Spell(LowerW, s)
         /\ Lower(s) \in Seq(Bytes) /\ (s # <<>> => Lower(s) # <<>>)
<1>1. \A i \in DOMAIN s : LowerW[s[i]] = CASE s[i] = "A" -> <<"a">>
                                           [] s[i] = "I1" -> <<"i">>
                                           [] s[i] = "I2" -> <<"d1", "d2">>
                                           [] OTHER -> <<s[i]>>
  BY DEF LowerW
<1>2. Lower(s) = Spell(LowerW, s)
  BY <1>1 DEF Lower, Spell, Spelt
<1>3. PICK p \in Seq(Seq(Bytes)) : p = Spelt(LowerW, s) /\ Len(p) = Len(s)
                                  /\ \A i \in DOMAIN s : p[i] = LowerW[s[i]]
  BY LowerSpells, SpeltIs
<1>4. Lower(s) = FlattenSeq(p) /\ FlattenSeq(p) \in Seq(Bytes)
  BY <1>2, <1>3, FlattenIsSeq DEF Spell
<1>5. ASSUME s # <<>> PROVE FlattenSeq(p) # <<>>
  <2>1. \A x : <<x>> # <<>>
    OBVIOUS
  <2>2. <<"d1", "d2">> # <<>>
    OBVIOUS
  <2>3. \A c \in Bytes : LowerW[c] # <<>>
    <3> HIDE DEF Bytes, LowerW
    <3>1. QED
      BY <2>1, <2>2, LowerSpells, ZenonT(30)
  <2>4. p # <<>> /\ DOMAIN p = DOMAIN s
    BY <1>3, <1>5
  <2>5. QED
    <3>1. \A i \in DOMAIN s : s[i] \in Bytes
      OBVIOUS
    <3>2. \A i \in DOMAIN p : p[i] # <<>>
      BY <1>3, <2>3, <2>4, <3>1
    <3>3. QED
      BY <2>4, <3>2, FlattenIsLong
<1>6. QED
  BY <1>2, <1>4, <1>5

LEMMA ContentLetters == ASSUME Held PROVE Content \in Seq(Letters)
<1>1. /\ kind \in Kinds /\ payload \in Seq(Payloads[kind]) /\ DOMAIN payload = 1..appended
  BY DEF Held
<1>2. Plain \in Seq(Place)
      /\ \A o \in DOMAIN Plain : /\ Plain[o].id \in 1..appended
                                 /\ Plain[o].at \in DOMAIN payload[Plain[o].id]
  BY PlainShows
<1>3. ASSUME NEW o \in DOMAIN Plain PROVE payload[Plain[o].id][Plain[o].at] \in Letters
  <2>1. PICK n \in 1..appended : n = Plain[o].id
    BY <1>2
  <2>2. payload[n] \in Payloads[kind]
    <3>1. n \in DOMAIN payload /\ payload \in Seq(Payloads[kind])
      BY <1>1
    <3>2. QED
      BY <3>1, ElementOfSeq
  <2>3. payload[n] \in Seq(Letters)
    BY <1>1, <2>2, PayloadIs
  <2>4. payload[n][Plain[o].at] \in Letters
    BY <1>2, <2>1, <2>3
  <2>5. QED
    BY <2>1, <2>4
<1>4. DOMAIN Plain = 1..Len(Plain) /\ Len(Plain) \in Nat
  BY <1>2
<1>5. Content \in [1..Len(Plain) -> Letters]
  BY <1>3, <1>4 DEF Content
<1>6. QED
  BY <1>4, <1>5

LEMMA ContentBytes == ASSUME Held PROVE Content \in Seq(Bytes)
BY ContentLetters DEF Bytes

-----------------------------------------------------------------------------
(* The types.                                                              *)
Near == cursor # Unknown => cursor <= Longest * appended

Shown(q, n, pay) == \A i \in DOMAIN q : q[i].id \in 1..n /\ q[i].at \in DOMAIN pay[q[i].id]

Answered ==
  /\ asked = None => answer = None
  /\ asked # None => answer = Panic \/ answer.total >= Len(answer.matches)

TypeInv ==
  /\ Held /\ Cursors /\ Near /\ Shown(got, appended, payload) /\ Answered
  /\ appended <= MaxAppends[kind] /\ shifted \in BOOLEAN

LEMMA LongestStays == ASSUME UNCHANGED kind PROVE Longest' = Longest
BY DEF Longest

LEMMA AppendsTypes == ASSUME TypeInv, Appends PROVE TypeInv'
<1>1. Held' /\ Cursors'
  BY HeldStep, AppendsCursors DEF TypeInv
<1>2. /\ kind' = kind /\ cursor' = cursor /\ got' = got /\ asked' = asked /\ answer' = answer
      /\ appended' = appended + 1 /\ appended < MaxAppends[kind]
      /\ shifted' = (shifted \/ (Began /\ Forgot))
  BY DEF Appends, client, query, Log!Add
<1>3. PICK p \in Payloads[kind] : payload' = Append(payload, p)
  BY AppendsIs
<1>4. /\ kind \in Kinds /\ appended \in Nat /\ payload \in Seq(Payloads[kind])
      /\ Len(payload) = appended /\ cursor \in Nat \cup {Unknown}
  BY DEF TypeInv, Held, Cursors
<1>5. Near'
  <2>1. PICK m \in Nat : m = Longest /\ Longest' = m
    BY <1>2, <1>4, LongestIs, LongestStays
  <2>2. m * appended <= m * (appended + 1) /\ m * appended \in Nat /\ m * (appended + 1) \in Nat
    BY <1>4, TimesGrows
  <2>3. cursor # Unknown => cursor <= m * appended
    BY <2>1 DEF TypeInv, Near
  <2>4. QED
    BY <1>2, <1>4, <2>1, <2>2, <2>3 DEF Near
<1>6. Shown(got', appended', payload')
  <2>1. \A n \in 1..appended : n \in 1..appended + 1 /\ payload'[n] = payload[n]
    BY <1>3, <1>4
  <2>2. QED
    BY <1>2, <2>1 DEF TypeInv, Shown
<1>7. appended' <= MaxAppends[kind] /\ shifted' \in BOOLEAN
  <2>1. MaxAppends[kind] \in Nat
    BY <1>4, BoundsAssumption
  <2>2. shifted' \in BOOLEAN
    BY <1>2
  <2>3. QED
    BY <1>2, <1>4, <2>1, <2>2
<1>8. Answered'
  BY <1>2 DEF TypeInv, Answered
<1>9. QED
  BY <1>1, <1>2, <1>5, <1>6, <1>7, <1>8 DEF TypeInv

LEMMA PartShown ==
  ASSUME Held, NEW a \in Nat, NEW b \in Nat, a <= b, b <= Len(Plain)
  PROVE  Part(Plain, a, b) \in Seq(Place) /\ Shown(Part(Plain, a, b), appended, payload)
<1>1. /\ Plain \in Seq(Place)
      /\ \A o \in DOMAIN Plain : /\ Plain[o].id \in 1..appended
                                 /\ Plain[o].at \in DOMAIN payload[Plain[o].id]
  BY PlainShows
<1>2. PICK r \in Seq(Place) :
        /\ r = Part(Plain, a, b) /\ DOMAIN r = 1..b - a
        /\ \A i \in 1..b - a : r[i] = Plain[a + i] /\ a + i \in DOMAIN Plain
  BY <1>1, Cut
<1>3. Shown(r, appended, payload)
  BY <1>1, <1>2 DEF Shown
<1>4. QED
  BY <1>2, <1>3

LEMMA ShownJoins ==
  ASSUME NEW q \in Seq(Place), NEW r \in Seq(Place), NEW n, NEW pay,
         Shown(q, n, pay), Shown(r, n, pay)
  PROVE  Shown(q \o r, n, pay)
<1>1. \A x \in Range(q) : x.id \in 1..n /\ x.at \in DOMAIN pay[x.id]
  BY DEF Shown, Range
<1>2. \A x \in Range(r) : x.id \in 1..n /\ x.at \in DOMAIN pay[x.id]
  BY DEF Shown, Range
<1>3. \A x \in Range(q \o r) : x.id \in 1..n /\ x.at \in DOMAIN pay[x.id]
  BY <1>1, <1>2, RangeOfConcat
<1>4. \A i \in DOMAIN (q \o r) : (q \o r)[i] \in Range(q \o r)
  BY DEF Range
<1>5. QED
  BY <1>3, <1>4 DEF Shown

LEMMA PageBackTypes == ASSUME TypeInv, PageBack, Cursors' PROVE TypeInv'
<1> DEFINE page == ReadTailBefore(cursor)
           end == WindowEnd(cursor)
<1>1. /\ kind' = kind /\ cursor' = page.start /\ got' = page.data \o got
      /\ shifted' = shifted /\ asked' = asked /\ answer' = answer
      /\ UNCHANGED <<log, payload, appended>>
  BY DEF PageBack, query
<1>2. /\ Held /\ Len(Plain) \in Nat /\ Len(Plain) <= Longest * appended
      /\ got \in Seq(Place) /\ cursor \in Nat \cup {Unknown} /\ kind \in Kinds
      /\ appended \in Nat /\ Shown(got, appended, payload)
  BY PlainLen DEF TypeInv, Cursors, Held
<1>3. page.start \in 0..end /\ page.data = Part(Plain, page.start, end)
  BY <1>2, PageIs
<1>4. end \in 0..Len(Plain)
  BY <1>2, WindowIs
<1> HIDE DEF page, end
<1>5. PICK start \in Nat : start = page.start /\ start <= end /\ end \in Nat /\ end <= Len(Plain)
  BY <1>2, <1>3, <1>4
<1>6. PICK data \in Seq(Place) : data = page.data /\ Shown(data, appended, payload)
  <2>1. Part(Plain, start, end) \in Seq(Place) /\ Shown(Part(Plain, start, end), appended, payload)
    BY <1>2, <1>5, PartShown
  <2>2. QED
    BY <1>3, <1>5, <2>1
<1>7. Near'
  <2>1. PICK m \in Nat : m = Longest /\ Longest' = m
    BY <1>1, <1>2, LongestIs, LongestStays
  <2>2. m * appended \in Nat
    BY <1>2
  <2>3. start <= m * appended
    BY <1>2, <1>5, <2>1, <2>2
  <2>4. QED
    BY <1>1, <1>5, <2>1, <2>3 DEF Near
<1>8. Shown(got', appended', payload')
  <2>1. Shown(data \o got, appended, payload)
    BY <1>2, <1>6, ShownJoins
  <2>2. QED
    BY <1>1, <1>6, <2>1
<1>9. Held'
  BY <1>1, <1>2, HeldStays
<1>10. Answered' /\ appended' <= MaxAppends[kind'] /\ shifted' \in BOOLEAN
  BY <1>1 DEF TypeInv, Answered
<1>11. QED
  BY <1>7, <1>8, <1>9, <1>10 DEF TypeInv

LEMMA FollowTypes == ASSUME TypeInv, Follow, Cursors' PROVE TypeInv'
<1> DEFINE next == cursor + Len(ReadRange(cursor, Window))
<1>1. /\ kind' = kind /\ cursor' = next /\ got' = got \o ReadRange(cursor, Window)
      /\ shifted' = shifted /\ asked' = asked /\ answer' = answer /\ kind = "follower"
      /\ UNCHANGED <<log, payload, appended>>
  BY DEF Follow, FollowTo, query
<1>2. /\ Held /\ Len(Plain) \in Nat /\ Len(Plain) <= Longest * appended
      /\ got \in Seq(Place) /\ cursor \in Nat /\ kind \in Kinds
      /\ appended \in Nat /\ Shown(got, appended, payload)
  BY <1>1, PlainLen DEF TypeInv, Cursors, Held
<1>3. PICK to \in Nat :
        /\ to = next /\ ReadRange(cursor, Window) = Part(Plain, cursor, to)
        /\ to >= cursor /\ (to <= Len(Plain) \/ to = cursor)
  BY <1>2, RangeIs
<1> HIDE DEF next
<1>4. Part(Plain, cursor, to) \in Seq(Place) /\ Shown(Part(Plain, cursor, to), appended, payload)
  <2>1. CASE to = cursor
    <3>1. Part(Plain, cursor, to) = <<>>
      BY <1>2, <2>1, NothingCut
    <3>2. QED
      BY <3>1, EmptySeq DEF Shown
  <2>2. CASE to <= Len(Plain)
    <3>1. cursor <= to
      BY <1>2, <1>3
    <3>2. QED
      BY <1>2, <2>2, <3>1, PartShown
  <2>3. QED
    BY <1>3, <2>1, <2>2
<1>5. Near'
  <2>1. PICK m \in Nat : m = Longest /\ Longest' = m
    BY <1>1, <1>2, LongestIs, LongestStays
  <2>2. m * appended \in Nat
    BY <1>2
  <2>3. cursor <= m * appended
    <3>1. cursor # Unknown
      BY <1>2, BoundsAssumption
    <3>2. QED
      BY <2>1, <3>1 DEF TypeInv, Near
  <2>4. to <= m * appended
    BY <1>2, <1>3, <2>1, <2>2, <2>3
  <2>5. QED
    BY <1>1, <1>3, <2>1, <2>4 DEF Near
<1>6. Shown(got', appended', payload')
  <2>1. Shown(got \o Part(Plain, cursor, to), appended, payload)
    BY <1>2, <1>4, ShownJoins
  <2>2. QED
    BY <1>1, <1>3, <2>1
<1>7. Held'
  BY <1>1, <1>2, HeldStays
<1>8. Answered' /\ appended' <= MaxAppends[kind'] /\ shifted' \in BOOLEAN
  BY <1>1 DEF TypeInv, Answered
<1>9. QED
  BY <1>5, <1>6, <1>7, <1>8 DEF TypeInv

(* What a search counts is at least what it shows.                         *)
LEMMA ResultsCount ==
  ASSUME NEW found \in Seq(Nat), NEW width, NEW limit \in Nat
  PROVE  LET r == ResultsIn(found, width, limit)
         IN r = Panic \/ r.total >= Len(r.matches)
<1> DEFINE s == Lossy(Content)
           few == Min({Len(found), limit})
           many == Min({Len(found), 4 * limit + 1})
           shown == SubSeq(found, 1, few)
           list == [i \in DOMAIN shown |-> MatchAt(s, shown[i], width)]
           r == ResultsIn(found, width, limit)
<1>1. few \in Nat /\ few <= Len(found) /\ few <= limit /\ Len(found) \in Nat
  <2>1. {Len(found), limit} \in SUBSET Nat /\ {Len(found), limit} # {}
    OBVIOUS
  <2>2. QED
    BY <2>1, MinIs
<1>2. many \in {Len(found), 4 * limit + 1}
  <2>1. {Len(found), 4 * limit + 1} \in SUBSET Nat /\ {Len(found), 4 * limit + 1} # {}
    OBVIOUS
  <2>2. QED
    BY <2>1, MinIs
<1>3. many >= few
  BY <1>1, <1>2
<1>4. Len(shown) = few /\ DOMAIN shown = 1..few
  <2> HIDE DEF few
  <2>1. QED
    BY <1>1
<1>5. Len(list) = few
  <2> HIDE DEF few, shown, s
  <2>1. DOMAIN list = 1..few
    BY <1>4
  <2>2. QED
    BY <1>1, <2>1
<1>6. r = Panic \/ r = [matches |-> list, total |-> many, truncated |-> many > Len(shown)]
  BY DEF ResultsIn
<1> HIDE DEF r, list, many, shown, few, s
<1>7. r = Panic \/ r.total >= Len(r.matches)
  BY <1>3, <1>5, <1>6
<1>8. QED
  BY <1>7 DEF r

LEMMA FoundNumbers ==
  ASSUME NEW S, NEW pattern \in Seq(S), pattern # <<>>, NEW T, NEW s \in Seq(T)
  PROVE  Found(pattern, s) \in Seq(Nat)
<1>1. Len(pattern) \in Nat \ {0} /\ Len(s) \in Nat
  OBVIOUS
<1>2. FoundFrom(pattern, s, Len(pattern), 0, FoundStepping(pattern, s, Len(pattern)))
  BY <1>1, FoundIsLeftmost
<1>3. QED
  BY <1>2 DEF Found, FoundFrom

LEMMA SearchTypes == ASSUME TypeInv, SearchHistory PROVE Answered'
<1>1. PICK pattern \in Patterns, insensitive \in BOOLEAN, limit \in Limits :
        /\ asked' = [pattern |-> pattern, insensitive |-> insensitive, limit |-> limit]
        /\ answer' = Results(pattern, insensitive, limit)
  BY DEF SearchHistory
<1>2. limit \in Nat /\ pattern \in Seq(Letters) /\ pattern # <<>> /\ None \notin Searches
  BY BoundsAssumption
<1>3. asked' # None
  BY <1>1, <1>2 DEF Searches
<1>4. pattern \in Seq(Bytes)
  BY <1>2 DEF Bytes, Letters
<1>5. Lossy(Content) \in Seq(Bytes) /\ Lower(Lossy(Content)) \in Seq(Bytes)
      /\ Lower(pattern) \in Seq(Bytes) /\ Lower(pattern) # <<>>
  BY <1>2, <1>4, ContentBytes, LossyIs, LowerIs DEF TypeInv
<1>6. /\ Found(pattern, Lossy(Content)) \in Seq(Nat)
      /\ Found(Lower(pattern), Lower(Lossy(Content))) \in Seq(Nat)
  BY <1>2, <1>4, <1>5, FoundNumbers
<1>7. CASE insensitive
  <2>1. answer' = ResultsIn(Found(Lower(pattern), Lower(Lossy(Content))),
                            Len(Lower(pattern)), limit)
    BY <1>1, <1>7 DEF Results
  <2>2. answer' = Panic \/ answer'.total >= Len(answer'.matches)
    BY <1>2, <1>6, <2>1, ResultsCount
  <2>3. QED
    BY <1>3, <2>2 DEF Answered
<1>8. CASE ~insensitive
  <2>1. answer' = ResultsIn(Found(pattern, Lossy(Content)), Len(pattern), limit)
    BY <1>1, <1>8 DEF Results
  <2>2. answer' = Panic \/ answer'.total >= Len(answer'.matches)
    BY <1>2, <1>6, <2>1, ResultsCount
  <2>3. QED
    BY <1>3, <2>2 DEF Answered
<1>9. QED
  BY <1>7, <1>8

LEMMA TypeStep == ASSUME TypeInv, Cursors', [Next]_vars PROVE TypeInv'
<1>1. CASE Appends
  BY <1>1, AppendsTypes
<1>2. CASE PageBack
  BY <1>2, PageBackTypes
<1>3. CASE Follow
  BY <1>3, FollowTypes
<1>4. CASE SearchHistory \/ UNCHANGED vars
  <2>1. UNCHANGED <<log, appended, payload, kind, cursor, got, first, shifted>>
    BY <1>4, SearchStays
  <2>2. Held'
    BY <2>1, HeldStays DEF TypeInv
  <2>3. Near' /\ Shown(got', appended', payload') /\ appended' <= MaxAppends[kind'] /\ shifted' \in BOOLEAN
    BY <2>1, LongestStays DEF TypeInv, Near
  <2>4. Answered'
    <3>1. CASE SearchHistory
      BY <3>1, SearchTypes
    <3>2. CASE UNCHANGED vars
      BY <3>2 DEF vars, query, TypeInv, Answered
    <3>3. QED
      BY <1>4, <3>1, <3>2
  <2>5. QED
    BY <2>2, <2>3, <2>4 DEF TypeInv
<1>5. QED
  BY <1>1, <1>2, <1>3, <1>4 DEF Next

(* The types of what a client and a search are given: no client's offset   *)
(* passes the end of all that was appended (read_tail_before, read_range), *)
(* and a search never shows more matches than it counts.                   *)
THEOREM TypeCorrect == Spec => []TypeOK
<1>1. Init => JoinInv /\ TypeInv
  <2> SUFFICES ASSUME Init PROVE JoinInv /\ TypeInv
    OBVIOUS
  <2>1. JoinInv
    BY InitHeld, InitJoins DEF JoinInv
  <2>2. kind \in Kinds /\ appended = 0 /\ got = <<>> /\ shifted = FALSE /\ asked = None /\ answer = None
        /\ (cursor = Unknown \/ cursor = 0)
    BY DEF Init
  <2>3. Shown(got, appended, payload) /\ Answered
    BY <2>2 DEF Shown, Answered
  <2>4. Near
    <3>1. PICK m \in Nat : m = Longest
      BY <2>2, LongestIs
    <3>2. QED
      BY <2>2, <3>1 DEF Near
  <2>5. appended <= MaxAppends[kind]
    <3>1. MaxAppends[kind] \in Nat
      BY <2>2, BoundsAssumption
    <3>2. QED
      BY <2>2, <3>1
  <2>6. QED
    BY <2>1, <2>2, <2>3, <2>4, <2>5 DEF JoinInv, TypeInv
<1>2. JoinInv /\ TypeInv /\ [Next]_vars => JoinInv' /\ TypeInv'
  <2> SUFFICES ASSUME JoinInv, TypeInv, [Next]_vars PROVE JoinInv' /\ TypeInv'
    OBVIOUS
  <2>1. JoinInv'
    BY JoinStep
  <2>2. Cursors'
    BY <2>1 DEF JoinInv
  <2>3. QED
    BY <2>1, <2>2, TypeStep
<1>3. TypeInv => TypeOK
  <2> SUFFICES ASSUME TypeInv PROVE TypeOK
    OBVIOUS
  <2>1. /\ kind \in Kinds /\ appended \in Nat /\ payload \in Seq(Payloads[kind])
        /\ Len(payload) = appended /\ appended <= MaxAppends[kind]
        /\ \A i \in DOMAIN log : log[i].len = Len(payload[log[i].id])
    BY DEF TypeInv, Held, Kept
  <2>2. Range(payload) \subseteq Payloads[kind]
    <3>1. \A i \in DOMAIN payload : payload[i] \in Payloads[kind]
      BY <2>1
    <3>2. QED
      BY <3>1 DEF Range
  <2>3. appended \in 0..MaxAppends[kind]
    <3>1. MaxAppends[kind] \in Nat
      BY <2>1, BoundsAssumption
    <3>2. QED
      BY <2>1, <3>1
  <2>4. cursor \in 0..(Longest * appended) \cup {Unknown}
    <3>1. PICK m \in Nat : m = Longest
      BY <2>1, LongestIs
    <3>2. m * appended \in Nat
      BY <2>1
    <3>3. cursor \in Nat \cup {Unknown} /\ (cursor # Unknown => cursor <= m * appended)
      BY <3>1 DEF TypeInv, Cursors, Near
    <3>4. QED
      BY <3>1, <3>2, <3>3
  <2>5. \A i \in DOMAIN got : got[i].at \in DOMAIN payload[got[i].id]
    BY DEF TypeInv, Shown
  <2>6. QED
    BY <2>1, <2>2, <2>3, <2>4, <2>5 DEF TypeOK, TypeInv, Answered
<1>4. QED
  BY <1>1, <1>2, <1>3, PTL DEF Spec

-----------------------------------------------------------------------------
(* What search counts and shows, for the offsets that it finds.            *)
LEMMA Bijects ==
  ASSUME NEW S, NEW T, NEW f \in [S -> T], \A x, y \in S : f[x] = f[y] => x = y,
         \A t \in T : \E x \in S : f[x] = t
  PROVE  ExistsBijection(S, T)
<1>1. f \in Injection(S, T)
  BY DEF Injection, IsInjective
<1>2. f \in Surjection(S, T)
  BY DEF Surjection
<1>3. QED
  BY <1>1, <1>2 DEF ExistsBijection, Bijection

LEMMA CountRising ==
  ASSUME NEW q \in Seq(Nat), \A i, j \in DOMAIN q : i < j => q[i] < q[j],
         NEW n \in Nat, n <= Len(q)
  PROVE  IsFiniteSet({q[i] : i \in 1..n}) /\ Cardinality({q[i] : i \in 1..n}) = n
<1> DEFINE S == {q[i] : i \in 1..n}
           f == [i \in 1..n |-> q[i]]
<1>1. \A i \in 1..n : i \in DOMAIN q /\ q[i] \in Nat
  OBVIOUS
<1>2. \A x, y \in 1..n : f[x] = f[y] => x = y
  <2> SUFFICES ASSUME NEW x \in 1..n, NEW y \in 1..n, q[x] = q[y] PROVE x = y
    OBVIOUS
  <2>1. q[x] \in Nat /\ ~(q[x] < q[y]) /\ ~(q[y] < q[x])
    BY <1>1
  <2>2. ~(x < y) /\ ~(y < x)
    BY <1>1, <2>1
  <2>3. QED
    BY <2>2
<1>3. f \in [1..n -> S] /\ \A t \in S : \E x \in 1..n : f[x] = t
  OBVIOUS
<1> HIDE DEF f, S
<1>4. ExistsBijection(1..n, S)
  BY <1>2, <1>3, Bijects
<1>5. IsFiniteSet(S) /\ Cardinality(S) = n
  BY <1>4, FS_NatBijection, FS_CountingElements
<1>6. QED
  BY <1>5 DEF S

(* Describes, but for the lines and the previews.                          *)
Counts(r, pattern, s, limit) ==
  LET shown == {r.matches[i].offset : i \in DOMAIN r.matches}
  IN /\ \E all \in SUBSET {o \in 0..Len(s) - 1 : OccursAt(pattern, s, o)} :
          /\ IsLeftmost(all, pattern, s)
          /\ r.total = Min({Cardinality(all), 4 * limit + 1})
          /\ shown \subseteq all
          /\ \A o \in shown, m \in all \ shown : o < m
          /\ Cardinality(shown) = Min({Cardinality(all), limit})
     /\ r.truncated <=> r.total > Cardinality(shown)

Reports(r, found, limit) ==
  LET few == Min({Len(found), limit})
  IN /\ r.total = Min({Len(found), 4 * limit + 1})
     /\ r.truncated <=> r.total > few
     /\ DOMAIN r.matches = 1..few
     /\ \A i \in 1..few : r.matches[i].offset = found[i]

LEMMA ReportsCount ==
  ASSUME NEW pattern, NEW s, NEW limit \in Nat, Len(pattern) \in Nat \ {0}, Len(s) \in Nat,
         NEW r, Reports(r, Found(pattern, s), limit)
  PROVE  Counts(r, pattern, s, limit)
<1> DEFINE width == Len(pattern)
           found == Found(pattern, s)
           few == Min({Len(found), limit})
           all == {found[i] : i \in DOMAIN found}
           shown == {r.matches[i].offset : i \in DOMAIN r.matches}
<1>1. FoundFrom(pattern, s, width, 0, found)
  BY FoundIsLeftmost DEF Found
<1> HIDE DEF found
<1>2. /\ found \in Seq(Nat) /\ DOMAIN found = 1..Len(found) /\ Len(found) \in Nat
      /\ \A i \in DOMAIN found : /\ found[i] \in Nat /\ found[i] < Len(s)
                                 /\ OccursAt(pattern, s, found[i])
      /\ \A i, j \in DOMAIN found : i < j => found[i] + width <= found[j]
      /\ \A x \in 0..Len(s) - 1 : OccursAt(pattern, s, x) =>
           \E i \in DOMAIN found : found[i] <= x /\ x < found[i] + width
  BY <1>1 DEF FoundFrom
<1>3. \A i, j \in DOMAIN found : i < j => found[i] < found[j]
  BY <1>2
<1>4. few \in Nat /\ few <= Len(found) /\ few \in {Len(found), limit} /\ few <= limit
  <2>1. {Len(found), limit} \in SUBSET Nat /\ {Len(found), limit} # {}
    BY <1>2
  <2>2. QED
    BY <2>1, MinIs
<1> HIDE DEF few
<1>5. Cardinality(all) = Len(found)
  <2>1. Len(found) <= Len(found)
    BY <1>2
  <2>2. Cardinality({found[i] : i \in 1..Len(found)}) = Len(found)
    BY <1>2, <1>3, <2>1, CountRising
  <2>3. QED
    BY <1>2, <2>2
<1>6. /\ r.total = Min({Len(found), 4 * limit + 1})
      /\ r.truncated <=> r.total > few
      /\ DOMAIN r.matches = 1..few
      /\ \A i \in 1..few : r.matches[i].offset = found[i]
  BY DEF Reports, few, found
<1>7. shown = {found[i] : i \in 1..few}
  BY <1>6
<1>8. Cardinality(shown) = few
  BY <1>2, <1>3, <1>4, <1>7, CountRising
<1> HIDE DEF shown
<1>9. all \in SUBSET {o \in 0..Len(s) - 1 : OccursAt(pattern, s, o)}
  <2>1. \A o \in Nat : o < Len(s) => o \in 0..Len(s) - 1
    OBVIOUS
  <2>2. QED
    BY <1>2, <2>1
<1>10. IsLeftmost(all, pattern, s)
  <2>1. ASSUME NEW o \in all, NEW m \in all, m < o PROVE m + width <= o
    <3>1. PICK i \in DOMAIN found : o = found[i]
      OBVIOUS
    <3>2. PICK j \in DOMAIN found : m = found[j]
      OBVIOUS
    <3>3. j < i
      <4>1. ~(i < j) /\ i # j
        <5>1. i < j => o < m
          BY <1>3, <3>1, <3>2
        <5>2. o \in Nat /\ m \in Nat
          BY <1>2, <3>1, <3>2
        <5>3. QED
          BY <2>1, <3>1, <3>2, <5>1, <5>2
      <4>2. i \in Nat /\ j \in Nat
        BY <1>2, SMTT(30)
      <4>3. QED
        BY <4>1, <4>2
    <3>4. QED
      BY <1>2, <3>1, <3>2, <3>3
  <2>2. ASSUME NEW o \in 0..Len(s) - 1, OccursAt(pattern, s, o)
        PROVE  \E m \in all : m <= o /\ o < m + width
    <3>1. PICK i \in DOMAIN found : found[i] <= o /\ o < found[i] + width
      BY <1>2, <2>2
    <3>2. found[i] \in all
      OBVIOUS
    <3>3. QED
      BY <3>1, <3>2
  <2>3. QED
    BY <2>1, <2>2 DEF IsLeftmost
<1>11. shown \subseteq all
  <2>1. \A i \in 1..few : i \in DOMAIN found
    <3>1. \A n \in Nat : few <= n => \A i \in 1..few : i \in 1..n
      BY <1>4
    <3>2. QED
      BY <1>2, <1>4, <3>1
  <2>2. QED
    BY <1>7, <2>1
<1>12. ASSUME NEW o \in shown, NEW m \in all \ shown PROVE o < m
  <2>1. PICK i \in 1..few : o = found[i]
    BY <1>7
  <2>2. PICK j \in DOMAIN found : m = found[j]
    OBVIOUS
  <2>3. j \notin 1..few /\ j \in 1..Len(found)
    BY <1>2, <1>7, <2>2
  <2>4. i < j /\ i \in DOMAIN found
    <3>1. \A n \in Nat : few <= n =>
            \A k \in 1..few, l \in 1..n : l \notin 1..few => k < l /\ k \in 1..n
      BY <1>4
    <3>2. QED
      BY <1>2, <1>4, <2>3, <3>1
  <2>5. QED
    BY <1>3, <2>1, <2>2, <2>4
<1> HIDE DEF all
<1>13. /\ r.total = Min({Cardinality(all), 4 * limit + 1})
       /\ Cardinality(shown) = Min({Cardinality(all), limit})
       /\ r.truncated <=> r.total > Cardinality(shown)
  BY <1>5, <1>6, <1>8 DEF few
<1>14. QED
  BY <1>9, <1>10, <1>11, <1>12, <1>13 DEF Counts, shown

(* push_match, if nothing panics, is what search reports.                  *)
ReportOf(r, s, found, width, few, limit) ==
  /\ few \in Nat /\ few <= Len(found)
  /\ \/ /\ r = Panic
        /\ \E i \in 1..few : PanicsAt(s, found[i], width)
     \/ /\ r # Panic /\ Reports(r, found, limit)
        /\ \A i \in 1..few : r.matches[i] = MatchAt(s, found[i], width)
        /\ \A i \in 1..few : ~PanicsAt(s, found[i], width)

LEMMA ResultsReport ==
  ASSUME NEW found \in Seq(Nat), NEW width, NEW limit \in Nat
  PROVE  ReportOf(ResultsIn(found, width, limit), Lossy(Content), found, width,
                  Min({Len(found), limit}), limit)
<1> DEFINE s == Lossy(Content)
           few == Min({Len(found), limit})
           many == Min({Len(found), 4 * limit + 1})
           shown == SubSeq(found, 1, few)
           list == [i \in DOMAIN shown |-> MatchAt(s, shown[i], width)]
           panics == \E i \in DOMAIN shown : PanicsAt(s, shown[i], width)
           r == ResultsIn(found, width, limit)
           report == [matches |-> list, total |-> many, truncated |-> many > Len(shown)]
<1>1. few \in Nat /\ few <= Len(found) /\ Len(found) \in Nat
  <2>1. {Len(found), limit} \in SUBSET Nat /\ {Len(found), limit} # {}
    OBVIOUS
  <2>2. QED
    BY <2>1, MinIs
<1>2. r = IF panics THEN Panic ELSE report
  BY DEF ResultsIn
<1>3. Len(shown) = few /\ DOMAIN shown = 1..few /\ \A i \in 1..few : shown[i] = found[i]
  <2> HIDE DEF few
  <2>1. QED
    BY <1>1
<1>4. DOMAIN list = 1..few /\ \A i \in 1..few : list[i] = MatchAt(s, found[i], width)
  <2> HIDE DEF few, shown, s
  <2>1. QED
    BY <1>3
<1>5. panics <=> \E i \in 1..few : PanicsAt(s, found[i], width)
  <2> HIDE DEF few, shown, s
  <2>1. QED
    BY <1>3
<1>6. \A i \in 1..few : list[i].offset = found[i]
  <2> HIDE DEF few, shown, list, s
  <2>1. QED
    BY <1>4 DEF MatchAt
<1> HIDE DEF shown, list, panics, few, many
<1>7. report.matches = list /\ report.total = many /\ (report.truncated <=> many > few)
  BY <1>3
<1>8. report # Panic
  <2>1. DOMAIN report = {"matches", "total", "truncated"}
    OBVIOUS
  <2>2. DOMAIN Panic = {"panicked"}
    BY DEF Panic
  <2>3. "matches" # "panicked"
    OBVIOUS
  <2>4. QED
    BY <2>1, <2>2, <2>3
<1>9. Reports(report, found, limit)
  BY <1>4, <1>6, <1>7 DEF Reports, few, many
<1> HIDE DEF report, s, r
<1>10. CASE panics
  BY <1>1, <1>2, <1>5, <1>10 DEF few, s, r, ReportOf
<1>11. CASE ~panics
  <2>1. r = report
    BY <1>2, <1>11
  <2>2. \A i \in 1..few : r.matches[i] = MatchAt(s, found[i], width)
    BY <1>4, <1>7, <2>1 DEF report
  <2>3. \A i \in 1..few : ~PanicsAt(s, found[i], width)
    BY <1>5, <1>11
  <2>4. QED
    BY <1>1, <1>8, <1>9, <2>1, <2>2, <2>3 DEF few, s, r, ReportOf
<1>12. QED
  BY <1>10, <1>11 DEF r

LEMMA LinesAre ==
  ASSUME NEW s, Len(s) \in Nat, NEW t, NEW start \in Nat, start <= Len(s),
         \A o \in 1..Len(s) : t[o] = "n" <=> s[o] = "n"
  PROVE  Cardinality(NewlinesIn(s, 0, start)) + 1 = LineOf(t, start)
<1> DEFINE S == NewlinesIn(s, 0, start)
           T == {o \in 1..start : t[o] = "n"}
           f == [o \in S |-> o + 1]
<1>1. S = {o \in 0..start - 1 : s[o + 1] = "n"}
  BY DEF NewlinesIn
<1>2. \A o \in S : o \in 0..start - 1 /\ o + 1 \in 1..start /\ s[o + 1] = "n"
  BY <1>1
<1>3. \A o \in 1..start : o \in 1..Len(s)
  OBVIOUS
<1>4. \A o \in S : o + 1 \in T
  BY <1>2, <1>3
<1>5. ASSUME NEW o \in T PROVE o - 1 \in S /\ (o - 1) + 1 = o
  <2>1. o \in 1..start /\ s[o] = "n" /\ o - 1 \in 0..start - 1 /\ (o - 1) + 1 = o
    BY <1>3
  <2>2. QED
    BY <1>1, <2>1
<1>6. IsFiniteSet(S)
  <2>1. IsFiniteSet(0..start - 1)
    BY FS_Interval
  <2>2. S \in SUBSET (0..start - 1)
    BY <1>2
  <2>3. QED
    BY <2>1, <2>2, FS_Subset
<1> HIDE DEF S, T
<1>7. f \in [S -> T] /\ \A o \in S : f[o] = o + 1
  BY <1>4
<1>8. \A x, y \in S : f[x] = f[y] => x = y
  <2>1. \A x \in S : x \in Nat
    BY <1>2
  <2>2. QED
    BY <1>7, <2>1
<1>9. \A o \in T : \E x \in S : f[x] = o
  BY <1>5, <1>7
<1>10. ExistsBijection(S, T)
  <2>1. PICK g : g = f
    OBVIOUS
  <2> HIDE DEF f
  <2>2. g \in [S -> T] /\ (\A x, y \in S : g[x] = g[y] => x = y) /\ \A m \in T : \E x \in S : g[x] = m
    BY <1>7, <1>8, <1>9, <2>1
  <2>3. QED
    BY <2>2, Bijects
<1>11. Cardinality(T) = Cardinality(S)
  BY <1>6, <1>10, FS_Bijection
<1>12. QED
  BY <1>11 DEF LineOf, S, T

(* The line around a match begins behind a newline, or with the text.      *)
Around(s, start, end, a, b) ==
  /\ LineAround(s, start, end) = Part(s, a, b)
  /\ a <= start /\ end <= b /\ b <= Len(s)
  /\ a = 0 \/ s[a] = "n"

LEMMA AroundIs ==
  ASSUME NEW s, Len(s) \in Nat, NEW start \in Nat, NEW end \in Nat,
         start <= end, end <= Len(s)
  PROVE  \E a, b \in Nat : Around(s, start, end, a, b)
<1> DEFINE S == {0} \cup {o + 1 : o \in NewlinesIn(s, 0, start)}
           T == {Len(s)} \cup NewlinesIn(s, end, Len(s))
           a == Max(S)
           b == Min(T)
<1>1. \A x \in S : x = 0 \/ (x \in 1..start /\ s[x] = "n")
  <2>1. \A o \in NewlinesIn(s, 0, start) : o + 1 \in 1..start /\ s[o + 1] = "n"
    BY DEF NewlinesIn
  <2>2. QED
    BY <2>1
<1>2. \A x \in T : x = Len(s) \/ (x \in end..Len(s) - 1 /\ s[x + 1] = "n")
  BY DEF NewlinesIn
<1>3. 0 \in S /\ Len(s) \in T
  OBVIOUS
<1> HIDE DEF S, T
<1>4. a \in S
  <2>1. \A x \in S : x \in Nat /\ x <= start
    BY <1>1
  <2>2. S \in SUBSET Nat /\ IsFiniteSet(S)
    BY <2>1, FS_BoundedSetOfNaturals
  <2>3. \E x \in S : \A y \in S : x >= y
    BY <1>3, <2>2, GreatestIn
  <2>4. QED
    BY <2>3 DEF Max
<1>5. b \in T
  <2>1. T \in SUBSET Nat
    BY <1>2
  <2>2. QED
    BY <1>3, <2>1, MinIs
<1>6. LineAround(s, start, end) = Part(s, a, b)
  BY DEF LineAround, Part, S, T
<1> HIDE DEF a, b
<1>7. a \in Nat /\ a <= start /\ (a = 0 \/ s[a] = "n")
  BY <1>1, <1>4
<1>8. b \in Nat /\ end <= b /\ b <= Len(s)
  BY <1>2, <1>5
<1>9. Around(s, start, end, a, b)
  BY <1>6, <1>7, <1>8 DEF Around
<1>10. QED
  BY <1>7, <1>8, <1>9

-----------------------------------------------------------------------------
(* The text of a search: what it is in a tame log, and that no character   *)
(* of it is cut in two, so that it can be sliced where a match is.         *)
LEMMA ReplacedKeeps ==
  ASSUME NEW s \in Seq(Bytes), \A i \in DOMAIN s : s[i] # "x" PROVE Replaced(s) = s
<1> DEFINE g == [c \in Bytes |-> c]
<1>1. \A i \in DOMAIN s : s[i] \in Bytes /\ g[s[i]] = s[i] /\ LossyW[s[i]] = <<s[i]>>
  BY DEF LossyW
<1> HIDE DEF g
<1>2. Same(LossyW, g, s)
  BY <1>1 DEF Same
<1>3. PICK r \in Seq(Bytes) : r = Replaced(s) /\ r = Spell(LossyW, s)
  BY ReplacedIs DEF Replaced
<1>4. Renamed(g, s, r)
  BY <1>2, <1>3, LossySpells, SpellRenames
<1>5. Len(r) = Len(s) /\ \A i \in 1..Len(r) : r[i] = s[i]
  BY <1>1, <1>4 DEF Renamed
<1>6. r = s
  BY <1>5, SeqEqual
<1>7. QED
  BY <1>3, <1>6

LEMMA LossyKeeps ==
  ASSUME NEW s \in Seq(Bytes), \A i \in DOMAIN s : ~Invalid(s, i) PROVE Lossy(s) = s
<1>1. PICK t \in Seq(Bytes) :
        /\ t = Valid(s) /\ DOMAIN t = DOMAIN s /\ \A i \in DOMAIN s : t[i] = s[i]
  <2>1. "x" \in Bytes
    BY DEF Bytes, Letters
  <2>2. QED
    BY <2>1, ValidIs
<1>2. t = s
  <2>1. Len(t) = Len(s) /\ \A i \in 1..Len(t) : t[i] = s[i]
    BY <1>1
  <2>2. QED
    BY <2>1, SeqEqual
<1>3. \A i \in DOMAIN s : s[i] # "x"
  BY DEF Invalid
<1>4. QED
  BY <1>1, <1>2, <1>3, LossyIs, ReplacedKeeps

SameLines(s, t) == Len(t) = Len(s) /\ \A i \in DOMAIN s : t[i] = "n" <=> s[i] = "n"

LEMMA LowerKeeps ==
  ASSUME NEW s \in Seq(Bytes), \A i \in DOMAIN s : s[i] \notin {"I1", "I2"}
  PROVE  SameLines(s, Lower(s))
<1> DEFINE g == [c \in Bytes |-> IF c = "A" THEN "a" ELSE c]
<1>1. /\ \A i \in DOMAIN s : s[i] \in Bytes /\ LowerW[s[i]] = <<g[s[i]]>>
      /\ \A i \in DOMAIN s : g[s[i]] = "n" <=> s[i] = "n"
  BY DEF LowerW
<1> HIDE DEF g
<1>2. Same(LowerW, g, s)
  BY <1>1 DEF Same
<1>3. PICK r \in Seq(Bytes) : r = Lower(s) /\ r = Spell(LowerW, s)
  BY LowerIs
<1>4. Renamed(g, s, r)
  BY <1>2, <1>3, LowerSpells, SpellRenames
<1>5. QED
  BY <1>1, <1>3, <1>4 DEF Renamed, SameLines

(* Every byte that goes on with a character is behind the one before it.   *)
Follows(a, b) == /\ b = "I2" => a = "I1"
                 /\ b = "r2" => a = "r1"
                 /\ b = "r3" => a = "r2"
Goes == {"I2", "r2", "r3"}
Joined(s) == /\ s # <<>> => s[1] \notin Goes
             /\ \A i, j \in DOMAIN s : j = i + 1 => Follows(s[i], s[j])

LEMMA JoinedConcat ==
  ASSUME NEW s \in Seq(Bytes), NEW u \in Seq(Bytes), Joined(s), u # <<>>,
         \A i, j \in DOMAIN u : j = i + 1 => Follows(u[i], u[j]),
         s = <<>> => u[1] \notin Goes,
         s # <<>> => Follows(s[Len(s)], u[1])
  PROVE  /\ Joined(s \o u) /\ s \o u # <<>>
         /\ (s \o u)[Len(s \o u)] = u[Len(u)]
<1> DEFINE n == Len(s)
           m == Len(u)
<1>1. /\ n \in Nat /\ m \in Nat \ {0} /\ DOMAIN s = 1..n /\ DOMAIN u = 1..m
      /\ (s = <<>> <=> n = 0)
  OBVIOUS
<1>2. PICK r \in Seq(Bytes) :
        /\ r = s \o u /\ Len(r) = n + m
        /\ \A i \in 1..n+m : r[i] = IF i <= n THEN s[i] ELSE u[i - n]
  <2>1. /\ s \o u \in Seq(Bytes) /\ Len(s \o u) = n + m
        /\ \A i \in 1..n+m : (s \o u)[i] = IF i <= n THEN s[i] ELSE u[i - n]
    BY ConcatProperties
  <2>2. QED
    BY <2>1
<1> HIDE DEF n, m
<1>3. DOMAIN r = 1..n+m /\ r # <<>>
  BY <1>1, <1>2
<1>4. r[n + m] = u[m]
  <2>1. n + m \in 1..n+m /\ ~(n + m <= n) /\ (n + m) - n = m
    BY <1>1
  <2>2. QED
    BY <1>2, <2>1
<1>5. r[1] \notin Goes
  <2>1. CASE n = 0
    <3>1. 1 \in 1..n+m /\ ~(1 <= n) /\ 1 - n = 1
      BY <1>1, <2>1
    <3>2. QED
      BY <1>1, <1>2, <2>1, <3>1
  <2>2. CASE n # 0
    <3>1. 1 \in 1..n+m /\ 1 <= n
      BY <1>1, <2>2
    <3>2. QED
      BY <1>1, <1>2, <2>2, <3>1 DEF Joined
  <2>3. QED
    BY <2>1, <2>2
<1>6. ASSUME NEW i \in 1..n+m, NEW j \in 1..n+m, j = i + 1 PROVE Follows(r[i], r[j])
  <2>1. CASE j <= n
    <3>1. i <= n /\ i \in 1..n /\ j \in 1..n
      BY <1>1, <1>6, <2>1
    <3>2. r[i] = s[i] /\ r[j] = s[j]
      BY <1>2, <2>1, <3>1
    <3>3. Follows(s[i], s[j])
      BY <1>1, <1>6, <3>1 DEF Joined
    <3>4. QED
      BY <3>2, <3>3
  <2>2. CASE i = n
    <3>1. ~(j <= n) /\ j - n = 1 /\ i <= n /\ n # 0
      BY <1>1, <1>6, <2>2
    <3>2. r[i] = s[n] /\ r[j] = u[1]
      BY <1>2, <2>2, <3>1
    <3>3. Follows(s[n], u[1])
      BY <1>1, <3>1 DEF n
    <3>4. QED
      BY <3>2, <3>3
  <2>3. CASE i > n
    <3>1. ~(i <= n) /\ ~(j <= n) /\ i - n \in 1..m /\ j - n \in 1..m /\ j - n = (i - n) + 1
      BY <1>1, <1>6, <2>3
    <3>2. r[i] = u[i - n] /\ r[j] = u[j - n]
      BY <1>2, <3>1
    <3>3. PICK x \in 1..m, y \in 1..m : x = i - n /\ y = j - n /\ y = x + 1
      BY <3>1
    <3>4. Follows(u[x], u[y])
      BY <1>1, <3>3
    <3>5. QED
      BY <3>2, <3>3, <3>4
  <2>4. QED
    BY <1>1, <1>6, <2>1, <2>2, <2>3
<1>7. Joined(r)
  BY <1>3, <1>5, <1>6 DEF Joined
<1>8. QED
  BY <1>2, <1>3, <1>4, <1>7 DEF m, n

Ends(s, r) ==
  /\ Joined(r) /\ (s = <<>> <=> r = <<>>)
  /\ (s # <<>> /\ s[Len(s)] = "I1") => r[Len(r)] = "I1"

LEMMA ReplacedStep ==
  ASSUME NEW t \in Seq(Letters), NEW c \in Letters, Joined(Append(t, c)), Ends(t, Replaced(t))
  PROVE  Ends(Append(t, c), Replaced(Append(t, c)))
<1>1. PICK s : s = Append(t, c)
  OBVIOUS
<1>2. /\ s \in Seq(Letters) /\ Len(s) = Len(t) + 1 /\ s[Len(t) + 1] = c /\ s # <<>>
      /\ DOMAIN s = 1..Len(t) + 1 /\ Len(t) \in Nat /\ \A i \in 1..Len(t) : s[i] = t[i]
      /\ (t = <<>> <=> Len(t) = 0)
  BY <1>1
<1>3. t \in Seq(Bytes) /\ s \in Seq(Bytes) /\ c \in Bytes
  BY <1>2 DEF Bytes
<1>4. PICK q \in Seq(Bytes) : q = Replaced(t) /\ q = Spell(LossyW, t)
  BY <1>3, ReplacedIs DEF Replaced
<1>5. PICK u \in Seq(Bytes) : u = LossyW[c]
  BY <1>3, LossySpells DEF Spells
<1>6. Replaced(s) = q \o u
  <2>1. Spell(LossyW, Append(t, c)) = Spell(LossyW, t) \o LossyW[c]
    BY <1>3, LossySpells, SpellStep, SMTT(30)
  <2>2. Replaced(s) = Spell(LossyW, s)
    BY DEF Replaced
  <2>3. QED
    BY <1>1, <1>4, <1>5, <2>1, <2>2
<1>7. t = <<>> => c \notin Goes
  BY <1>1, <1>2 DEF Joined
<1>8. t # <<>> => Follows(t[Len(t)], c)
  <2> SUFFICES ASSUME t # <<>> PROVE Follows(t[Len(t)], c)
    OBVIOUS
  <2>1. Len(t) \in 1..Len(t) /\ Len(t) \in DOMAIN s /\ Len(t) + 1 \in DOMAIN s
    BY <1>2
  <2>2. \A i, j \in DOMAIN s : j = i + 1 => Follows(s[i], s[j])
    BY <1>1 DEF Joined
  <2>3. Follows(s[Len(t)], s[Len(t) + 1])
    BY <2>1, <2>2
  <2>4. QED
    BY <1>2, <2>1, <2>3
<1>9. /\ Joined(q) /\ (t = <<>> <=> q = <<>>)
      /\ (t # <<>> /\ t[Len(t)] = "I1") => q[Len(q)] = "I1"
  BY <1>4 DEF Ends
<1>10. CASE c = "x"
  <2>1. u = <<"r1", "r2", "r3">>
    BY <1>3, <1>5, <1>10 DEF LossyW
  <2>2. /\ DOMAIN u = 1..3 /\ u[1] = "r1" /\ u[2] = "r2" /\ u[3] = "r3" /\ u # <<>>
    BY <2>1
  <2>3. \A i, j \in DOMAIN u : j = i + 1 => Follows(u[i], u[j])
    BY <2>2 DEF Follows
  <2>4. u[1] \notin Goes /\ \A a : Follows(a, u[1])
    BY <2>2 DEF Goes, Follows
  <2>5. Joined(q \o u) /\ q \o u # <<>>
    BY <1>9, <2>2, <2>3, <2>4, JoinedConcat
  <2>6. QED
    BY <1>1, <1>2, <1>6, <1>10, <2>5 DEF Ends
<1>11. CASE c # "x"
  <2>1. u = <<c>>
    BY <1>3, <1>5, <1>11 DEF LossyW
  <2>2. DOMAIN u = 1..1 /\ u[1] = c /\ Len(u) = 1 /\ u # <<>>
    BY <2>1
  <2>3. \A i, j \in DOMAIN u : j = i + 1 => Follows(u[i], u[j])
    BY <2>2
  <2>4. q = <<>> => u[1] \notin Goes
    BY <1>7, <1>9, <2>2
  <2>5. q # <<>> => Follows(q[Len(q)], u[1])
    <3>1. c \notin {"r2", "r3"}
      BY DEF Letters
    <3>2. QED
      BY <1>8, <1>9, <2>2, <3>1 DEF Follows
  <2>6. Joined(q \o u) /\ q \o u # <<>> /\ (q \o u)[Len(q \o u)] = c
    BY <1>9, <2>2, <2>3, <2>4, <2>5, JoinedConcat
  <2>7. QED
    BY <1>1, <1>2, <1>6, <2>6 DEF Ends
<1>12. QED
  BY <1>10, <1>11

LEMMA ReplacedJoins == \A s \in Seq(Letters) : Joined(s) => Joined(Replaced(s))
<1> DEFINE Good(s) == Joined(s) => Ends(s, Replaced(s))
           N == {n \in Nat : \A s \in Seq(Letters) : Len(s) = n => Good(s)}
<1>1. 0 \in N
  <2>1. \A s \in Seq(Letters) : Len(s) = 0 => s = <<>>
    OBVIOUS
  <2>2. Good(<<>>)
    <3>1. <<>> \in Seq(Bytes)
      OBVIOUS
    <3>2. Replaced(<<>>) = <<>>
      BY <3>1, SpellEmpty DEF Replaced
    <3>3. QED
      BY <3>2 DEF Ends
  <2>3. QED
    BY <2>1, <2>2
<1>2. ASSUME NEW n \in N PROVE n + 1 \in N
  <2> SUFFICES ASSUME NEW s \in Seq(Letters), Len(s) = n + 1, Joined(s)
               PROVE  Ends(s, Replaced(s))
    OBVIOUS
  <2>1. PICK t \in Seq(Letters), c \in Letters : s = Append(t, c)
    <3>1. s # <<>>
      OBVIOUS
    <3>2. QED
      BY <3>1, SequenceEmptyOrAppend
  <2>2. /\ Len(t) = n /\ DOMAIN t = 1..n /\ DOMAIN s = 1..n+1
        /\ \A i \in 1..n : s[i] = t[i] /\ i \in 1..n+1
    BY <2>1
  <2>3. Joined(t)
    <3>1. \A i, j \in DOMAIN t : j = i + 1 => Follows(t[i], t[j])
      BY <2>2 DEF Joined
    <3>2. t # <<>> => t[1] \notin Goes
      <4>1. s # <<>> /\ (t # <<>> => 1 \in 1..n)
        BY <2>1, <2>2
      <4>2. QED
        BY <2>2, <4>1 DEF Joined
    <3>3. QED
      BY <3>1, <3>2 DEF Joined
  <2>4. Ends(t, Replaced(t))
    BY <2>2, <2>3
  <2>5. QED
    BY <2>1, <2>4, ReplacedStep
<1>3. Nat \subseteq N
  BY <1>1, <1>2, AllOfNat
<1>4. QED
  BY <1>3 DEF Ends

(* No character of the text of a search is cut in two.                     *)
LEMMA LossyJoins == ASSUME NEW s \in Seq(Letters) PROVE Joined(Lossy(s))
<1>1. PICK t \in Seq(Letters) :
        /\ t = Valid(s) /\ DOMAIN t = DOMAIN s
        /\ \A i \in DOMAIN s : t[i] = IF Invalid(s, i) THEN "x" ELSE s[i]
  <2>1. "x" \in Letters
    BY DEF Letters
  <2>2. QED
    BY <2>1, ValidIs
<1>2. DOMAIN s = 1..Len(s) /\ Len(s) \in Nat
  OBVIOUS
<1>3. \A i \in DOMAIN t : t[i] \notin {"r2", "r3"}
  <2>1. \A i \in DOMAIN t : t[i] \in Letters
    OBVIOUS
  <2>2. QED
    BY <2>1 DEF Letters
<1>4. ASSUME NEW j \in DOMAIN s, t[j] = "I2" PROVE s[j] = "I2" /\ j # 1 /\ s[j - 1] = "I1"
  BY <1>1, <1>4 DEF Invalid
<1>5. t # <<>> => t[1] \notin Goes
  <2>1. t # <<>> => 1 \in DOMAIN t
    OBVIOUS
  <2>2. QED
    BY <1>1, <1>3, <1>4, <2>1 DEF Goes
<1>6. ASSUME NEW i \in DOMAIN s, NEW j \in DOMAIN s, j = i + 1, t[j] = "I2"
      PROVE  t[i] = "I1"
  <2>1. j - 1 = i /\ i # Len(s) /\ i + 1 = j
    BY <1>2, <1>6
  <2>2. s[i] = "I1" /\ s[i + 1] = "I2"
    BY <1>4, <1>6, <2>1
  <2>3. ~Invalid(s, i)
    BY <2>1, <2>2 DEF Invalid
  <2>4. QED
    BY <1>1, <2>2, <2>3
<1>7. Joined(t)
  BY <1>1, <1>3, <1>5, <1>6 DEF Joined, Follows
<1>8. s \in Seq(Bytes)
  BY DEF Bytes
<1>9. QED
  BY <1>1, <1>7, <1>8, LossyIs, ReplacedJoins

-----------------------------------------------------------------------------
(* strip_ansi: the loop, for every line.                                   *)
Final(line, i) ==
  Min({Len(line)} \cup {k \in i + 2..Len(line) : line[k] \in {"a", "A", "i", "m", "["}})

Strip1(line, f, i) ==
  IF i > Len(line) THEN <<>>
  ELSE IF line[i] = "e" /\ i < Len(line)
       THEN f[IF line[i + 1] = "[" THEN Final(line, i) + 1 ELSE i + 2]
  ELSE IF line[i] \in Controls THEN f[i + 1]
  ELSE <<line[i]>> \o f[i + 1]

IsStrip(line, low, f) == f = [i \in low..Len(line) + 2 |-> Strip1(line, f, i)]

LEMMA FinalIs ==
  ASSUME NEW line, Len(line) \in Nat, NEW i \in Nat, i < Len(line)
  PROVE  Final(line, i) \in i + 1..Len(line)
<1> DEFINE S == {Len(line)} \cup {k \in i + 2..Len(line) : line[k] \in {"a", "A", "i", "m", "["}}
<1>1. S \in SUBSET Nat /\ S # {} /\ \A k \in S : k \in i + 1..Len(line)
  OBVIOUS
<1>2. Min(S) \in S
  BY <1>1, MinIs
<1>3. Final(line, i) = Min(S)
  BY DEF Final
<1>4. QED
  BY <1>1, <1>2, <1>3

(* Where the loop goes on from a place: at a later one.                    *)
After(line, i) ==
  IF line[i] = "e" /\ i < Len(line)
  THEN IF line[i + 1] = "[" THEN Final(line, i) + 1 ELSE i + 2
  ELSE i + 1

LEMMA AfterIs ==
  ASSUME NEW line, Len(line) \in Nat, NEW i \in Nat, i <= Len(line)
  PROVE  After(line, i) \in i + 1..Len(line) + 1
<1>1. i < Len(line) => Final(line, i) + 1 \in i + 1..Len(line) + 1
  BY FinalIs
<1>2. QED
  BY <1>1 DEF After

LEMMA Strip1Is ==
  ASSUME NEW line, NEW f, NEW i
  PROVE  Strip1(line, f, i) = IF i > Len(line) THEN <<>>
                              ELSE IF line[i] \in Controls THEN f[After(line, i)]
                              ELSE <<line[i]>> \o f[After(line, i)]
BY DEF Strip1, After, Controls

LEMMA StripGrows ==
  ASSUME NEW line, Len(line) \in Nat, NEW low \in Nat, low + 1 <= Len(line) + 2,
         NEW g, IsStrip(line, low + 1, g)
  PROVE  \E h : IsStrip(line, low, h)
<1> DEFINE top == Len(line) + 2
           h == [i \in low..top |-> Strip1(line, g, i)]
<1>1. top \in Nat /\ \A i \in low+1..top : i \in low..top
  OBVIOUS
<1>2. ASSUME NEW i \in low+1..top PROVE h[i] = g[i]
  <2>1. h[i] = Strip1(line, g, i)
    BY <1>1
  <2>2. g[i] = Strip1(line, g, i)
    <3> HIDE DEF h
    <3>1. PICK F : F = [p \in low+1..top |-> Strip1(line, g, p)]
      OBVIOUS
    <3>2. F[i] = Strip1(line, g, i)
      BY <3>1
    <3>3. g = F
      BY <3>1 DEF IsStrip
    <3>4. QED
      BY <3>2, <3>3
  <2>3. QED
    BY <2>1, <2>2
<1>3. ASSUME NEW i \in low..top PROVE h[i] = Strip1(line, h, i)
  <2>1. h[i] = Strip1(line, g, i)
    OBVIOUS
  <2>2. CASE i > Len(line)
    BY <2>1, <2>2, Strip1Is
  <2>3. CASE ~(i > Len(line))
    <3>1. i \in Nat /\ i <= Len(line)
      BY <1>1, <2>3
    <3>2. After(line, i) \in i + 1..Len(line) + 1
      BY <3>1, AfterIs
    <3>3. After(line, i) \in low+1..top
      BY <1>1, <3>1, <3>2
    <3>4. h[After(line, i)] = g[After(line, i)]
      BY <1>2, <3>3
    <3> HIDE DEF h
    <3>5. QED
      BY <2>1, <3>4, Strip1Is
  <2>4. QED
    BY <2>2, <2>3
<1>4. h = [i \in low..top |-> Strip1(line, h, i)]
  BY <1>3
<1>5. IsStrip(line, low, h)
  BY <1>4 DEF IsStrip
<1>6. QED
  BY <1>5

LEMMA StripExists ==
  ASSUME NEW line, Len(line) \in Nat
  PROVE  \E f : IsStrip(line, 1, f)
<1>1. PICK top \in Nat : top = Len(line) + 2
  OBVIOUS
<1> DEFINE N == {k \in Nat : k <= top => \E f : IsStrip(line, top - k, f)}
<1>2. 0 \in N
  <2> DEFINE f == [i \in top..top |-> <<>>]
  <2>1. top - 0 = top /\ top > Len(line) /\ \A i \in top..top : i = top
    BY <1>1
  <2>2. \A i \in top..top : f[i] = Strip1(line, f, i)
    BY <2>1 DEF Strip1
  <2>3. f = [i \in top..top |-> Strip1(line, f, i)]
    BY <2>2
  <2>4. IsStrip(line, top, f)
    BY <1>1, <2>3 DEF IsStrip
  <2>5. \E g : IsStrip(line, top - 0, g)
    BY <2>1, <2>4
  <2>6. QED
    BY <2>5
<1>3. ASSUME NEW k \in N PROVE k + 1 \in N
  <2> SUFFICES ASSUME k + 1 <= top PROVE \E f : IsStrip(line, top - (k + 1), f)
    OBVIOUS
  <2>1. PICK g : IsStrip(line, top - k, g)
    BY <1>1
  <2>2. PICK low \in Nat : low = top - (k + 1) /\ low + 1 = top - k /\ low + 1 <= top
    BY <1>1, SMTT(30)
  <2>3. IsStrip(line, low + 1, g)
    BY <2>1, <2>2
  <2>4. \E f : IsStrip(line, low, f)
    BY <1>1, <2>2, <2>3, StripGrows
  <2>5. QED
    BY <2>2, <2>4
<1>4. Nat \subseteq N
  BY <1>2, <1>3, AllOfNat
<1>5. top - 1 \in N /\ top - (top - 1) = 1 /\ top - 1 <= top
  BY <1>1, <1>4
<1>6. QED
  BY <1>5

LEMMA StripLoop ==
  ASSUME NEW line, Len(line) \in Nat
  PROVE  \E f : /\ StripAnsi(line) = f[1]
                /\ \A i \in 1..Len(line) + 2 : f[i] = Strip1(line, f, i)
<1> DEFINE f == CHOOSE g : IsStrip(line, 1, g)
<1>1. IsStrip(line, 1, f)
  BY StripExists
<1>2. StripAnsi(line) = f[1]
  BY DEF StripAnsi, IsStrip, Strip1, Final
<1> HIDE DEF f
<1>3. \A i \in 1..Len(line) + 2 : f[i] = Strip1(line, f, i)
  <2>1. PICK F : F = [i \in 1..Len(line) + 2 |-> Strip1(line, f, i)]
    OBVIOUS
  <2>2. \A i \in 1..Len(line) + 2 : F[i] = Strip1(line, f, i)
    BY <2>1
  <2>3. f = F
    BY <1>1, <2>1 DEF IsStrip
  <2>4. QED
    BY <2>2, <2>3
<1>4. QED
  BY <1>2, <1>3

(* No control byte is left and nothing is made up; and where there is no   *)
(* escape, what goes on with a character stays behind its beginning.       *)
LEMMA StripDrops ==
  ASSUME NEW line \in Seq(Bytes), NEW B, \A i \in DOMAIN line : line[i] \notin Controls => line[i] \in B
  PROVE  StripAnsi(line) \in Seq(B)
<1>1. PICK len \in Nat, top \in Nat : len = Len(line) /\ top = len + 2
  OBVIOUS
<1>2. PICK f : /\ StripAnsi(line) = f[1]
               /\ \A i \in 1..top : f[i] = Strip1(line, f, i)
  BY <1>1, StripLoop
<1>3. \A i \in 1..top : i > len => f[i] \in Seq(B)
  <2>1. <<>> \in Seq(B)
    OBVIOUS
  <2>2. QED
    BY <1>1, <1>2, <2>1, Strip1Is
<1> DEFINE N == {k \in Nat : \A i \in 1..top : i + k >= top => f[i] \in Seq(B)}
<1>4. 0 \in N
  <2>1. \A i \in 1..top : i + 0 >= top => i > len
    BY <1>1
  <2>2. QED
    BY <1>3, <2>1
<1>5. ASSUME NEW k \in N PROVE k + 1 \in N
  <2> SUFFICES ASSUME NEW i \in 1..top, i + (k + 1) >= top PROVE f[i] \in Seq(B)
    OBVIOUS
  <2>1. CASE i > len
    BY <1>3, <2>1
  <2>2. CASE ~(i > len)
    <3>1. PICK j \in i + 1..len + 1 : j = After(line, i)
      BY <1>1, <2>2, AfterIs
    <3>2. j \in 1..top /\ j + k >= top
      BY <1>1, <3>1
    <3>3. PICK q \in Seq(B) : q = f[j]
      BY <3>2
    <3>4. f[i] = IF line[i] \in Controls THEN q ELSE <<line[i]>> \o q
      BY <1>1, <1>2, <2>2, <3>1, <3>3, Strip1Is
    <3>5. line[i] \notin Controls => line[i] \in B
      BY <1>1, <2>2
    <3>6. CASE line[i] \notin Controls
      <4>1. <<line[i]>> \in Seq(B)
        BY <3>5, <3>6
      <4>2. <<line[i]>> \o q \in Seq(B)
        BY <4>1, ConcatProperties
      <4>3. QED
        BY <3>4, <3>6, <4>2
    <3>7. QED
      BY <3>4, <3>6
  <2>3. QED
    BY <2>1, <2>2
<1>6. Nat \subseteq N
  BY <1>4, <1>5, AllOfNat
<1>7. 1 \in 1..top /\ 1 + top >= top
  BY <1>1
<1>8. f[1] \in Seq(B)
  BY <1>6, <1>7
<1>9. QED
  BY <1>2, <1>8

Linked(s) == \A i, j \in DOMAIN s : j = i + 1 => Follows(s[i], s[j])
Trail(line, i, q) ==
  /\ q \in Seq(Bytes) /\ Linked(q)
  /\ (q # <<>> /\ q[1] \in Goes) => i \in DOMAIN line /\ q[1] = line[i]

LEMMA TrailGrows ==
  ASSUME NEW line \in Seq(Bytes), Joined(line), NEW i \in 1..Len(line), NEW q,
         Trail(line, i + 1, q), line[i] \notin Controls
  PROVE  Trail(line, i, <<line[i]>> \o q)
<1>1. PICK c \in Bytes, p \in Seq(Bytes), n \in Nat : c = line[i] /\ p = q /\ n = Len(p)
  BY DEF Trail
<1>2. PICK u \in Seq(Bytes) : u = <<c>> /\ Len(u) = 1 /\ u[1] = c
  <2>1. <<c>> \in Seq(Bytes) /\ Len(<<c>>) = 1 /\ <<c>>[1] = c
    OBVIOUS
  <2>2. QED
    BY <2>1
<1>3. PICK w \in Seq(Bytes) : /\ w = u \o p /\ Len(w) = 1 + n
                              /\ \A j \in 1..1+n : w[j] = IF j <= 1 THEN u[j] ELSE p[j - 1]
  <2>1. /\ u \o p \in Seq(Bytes) /\ Len(u \o p) = Len(u) + Len(p)
        /\ \A j \in 1..Len(u) + Len(p) :
             (u \o p)[j] = IF j <= Len(u) THEN u[j] ELSE p[j - Len(u)]
    BY ConcatProperties
  <2>2. QED
    BY <1>1, <1>2, <2>1
<1>4. DOMAIN w = 1..1+n /\ DOMAIN p = 1..n /\ w[1] = c
  BY <1>1, <1>2, <1>3
<1>5. n # 0 => Follows(c, p[1])
  <2>1. CASE n # 0 /\ p[1] \in Goes
    <3>1. p # <<>> /\ i + 1 \in DOMAIN line /\ p[1] = line[i + 1]
      BY <1>1, <2>1 DEF Trail
    <3>2. i \in DOMAIN line
      OBVIOUS
    <3>3. Follows(line[i], line[i + 1])
      BY <3>1, <3>2 DEF Joined
    <3>4. QED
      BY <1>1, <3>1, <3>3
  <2>2. CASE p[1] \notin Goes
    BY <2>2 DEF Follows, Goes
  <2>3. QED
    BY <2>1, <2>2
<1>6. ASSUME NEW j \in DOMAIN w, NEW k \in DOMAIN w, k = j + 1
      PROVE  Follows(w[j], w[k])
  <2>1. CASE j = 1
    <3>1. k = 2 /\ n # 0 /\ w[k] = p[1]
      BY <1>3, <1>4, <1>6, <2>1
    <3>2. QED
      BY <1>4, <1>5, <2>1, <3>1
  <2>2. CASE j # 1
    <3>1. j \in 2..1+n /\ k \in 2..1+n
      BY <1>4, <1>6, <2>2
    <3>2. j - 1 \in 1..n /\ k - 1 \in 1..n /\ k - 1 = (j - 1) + 1
      BY <1>6, <3>1
    <3>3. w[j] = p[j - 1] /\ w[k] = p[k - 1]
      <4>1. ASSUME NEW a \in 2..1+n PROVE w[a] = p[a - 1]
        <5>1. a \in 1..1+n /\ ~(a <= 1)
          OBVIOUS
        <5>2. QED
          BY <1>3, <5>1
      <4>2. QED
        BY <3>1, <4>1
    <3>4. j - 1 \in DOMAIN p /\ k - 1 \in DOMAIN p
      BY <1>4, <3>2
    <3>5. Linked(p)
      BY <1>1 DEF Trail
    <3>6. Follows(p[j - 1], p[k - 1])
      BY <3>2, <3>4, <3>5 DEF Linked
    <3>7. QED
      BY <3>3, <3>6
  <2>3. QED
    BY <2>1, <2>2
<1>7. Trail(line, i, w)
  BY <1>1, <1>4, <1>6 DEF Trail, Linked
<1>8. QED
  BY <1>1, <1>2, <1>3, <1>7

LEMMA StripKeeps ==
  ASSUME NEW line \in Seq(Bytes), Joined(line), \A i \in DOMAIN line : line[i] # "e"
  PROVE  StripAnsi(line) \in Seq(Bytes) /\ Joined(StripAnsi(line))
<1>1. PICK len \in Nat : len = Len(line) /\ DOMAIN line = 1..len
  OBVIOUS
<1>2. PICK f : /\ StripAnsi(line) = f[1]
               /\ \A i \in 1..len + 2 : f[i] = Strip1(line, f, i)
  BY <1>1, StripLoop
<1> DEFINE N == {k \in Nat : \A i \in 1..len + 1 : i + k >= len + 1 => Trail(line, i, f[i])}
<1>3. ASSUME NEW i \in 1..len + 1, i > len PROVE Trail(line, i, f[i])
  <2>1. i \in 1..len + 2
    OBVIOUS
  <2>2. f[i] = <<>>
    BY <1>1, <1>2, <1>3, <2>1, Strip1Is
  <2>3. <<>> \in Seq(Bytes) /\ DOMAIN <<>> = {}
    OBVIOUS
  <2>4. QED
    BY <2>2, <2>3 DEF Trail, Linked
<1>4. 0 \in N
  <2>1. \A i \in 1..len + 1 : i + 0 >= len + 1 => i > len
    OBVIOUS
  <2>2. QED
    BY <1>3, <2>1
<1>5. ASSUME NEW k \in N PROVE k + 1 \in N
  <2> SUFFICES ASSUME NEW i \in 1..len + 1, i + (k + 1) >= len + 1 PROVE Trail(line, i, f[i])
    OBVIOUS
  <2>1. CASE i > len
    BY <1>3, <2>1
  <2>2. CASE ~(i > len)
    <3>1. i \in 1..len /\ i + 1 \in 1..len + 1 /\ (i + 1) + k >= len + 1
      BY <2>2
    <3>2. Trail(line, i + 1, f[i + 1])
      BY <3>1
    <3>3. line[i] # "e" /\ After(line, i) = i + 1
      BY <1>1, <3>1 DEF After
    <3>4. f[i] = IF line[i] \in Controls THEN f[i + 1] ELSE <<line[i]>> \o f[i + 1]
      <4>1. i \in 1..len + 2 /\ ~(i > Len(line))
        BY <1>1, <3>1
      <4>2. QED
        BY <1>2, <3>3, <4>1, Strip1Is
    <3>5. CASE line[i] \in Controls
      <4>1. PICK q \in Seq(Bytes) : q = f[i + 1] /\ q = f[i]
        BY <3>2, <3>4, <3>5 DEF Trail
      <4>2. q # <<>> => q[1] \notin Goes
        <5>1. ASSUME q # <<>>, q[1] \in Goes PROVE FALSE
          <6>1. i + 1 \in DOMAIN line /\ i \in DOMAIN line /\ q[1] = line[i + 1]
            BY <1>1, <3>1, <3>2, <4>1, <5>1 DEF Trail
          <6>2. Follows(line[i], line[i + 1])
            BY <6>1 DEF Joined
          <6>3. QED
            BY <3>5, <5>1, <6>1, <6>2 DEF Follows, Goes, Controls
        <5>2. QED
          BY <5>1
      <4>3. QED
        BY <3>2, <4>1, <4>2 DEF Trail
    <3>6. CASE line[i] \notin Controls
      BY <1>1, <3>1, <3>2, <3>4, <3>6, TrailGrows
    <3>7. QED
      BY <3>5, <3>6
  <2>3. QED
    BY <2>1, <2>2
<1>6. Nat \subseteq N
  BY <1>4, <1>5, AllOfNat
<1>7. Trail(line, 1, f[1])
  <2>1. \A i \in 1..len + 1 : i + len >= len + 1 => Trail(line, i, f[i])
    BY <1>6
  <2>2. 1 \in 1..len + 1 /\ 1 + len >= len + 1
    OBVIOUS
  <2>3. QED
    BY <2>1, <2>2
<1>8. ASSUME f[1] # <<>> PROVE f[1][1] \notin Goes
  <2>1. 1 \in DOMAIN line => line # <<>>
    BY <1>1
  <2>2. QED
    BY <1>7, <1>8, <2>1 DEF Trail, Joined
<1>9. QED
  BY <1>2, <1>7, <1>8 DEF Trail, Linked, Joined

-----------------------------------------------------------------------------
(* A match, the line around it, and where the text can be sliced.          *)
LEMMA TextCut ==
  ASSUME NEW s \in Seq(Bytes), NEW a \in Nat, NEW b \in Nat, a <= b, b <= Len(s)
  PROVE  \E t \in Seq(Bytes) :
           /\ t = Part(s, a, b) /\ Len(t) = b - a /\ DOMAIN t = 1..b - a
           /\ \A i \in 1..b - a : t[i] = s[a + i] /\ a + i \in DOMAIN s
<1>1. /\ Part(s, a, b) \in Seq(Bytes) /\ Len(Part(s, a, b)) = b - a
      /\ DOMAIN Part(s, a, b) = 1..b - a
      /\ \A i \in 1..b - a : Part(s, a, b)[i] = s[a + i] /\ a + i \in DOMAIN s
  BY CutOf
<1>2. QED
  BY <1>1

LEMMA MatchIs ==
  ASSUME NEW pattern \in Seq(Bytes), NEW s \in Seq(Bytes), NEW o \in Nat,
         OccursAt(pattern, s, o)
  PROVE  /\ o + Len(pattern) <= Len(s)
         /\ \A k \in 1..Len(pattern) : s[o + k] = pattern[k] /\ o + k \in DOMAIN s
<1>1. PICK w \in Nat, b \in Nat : w = Len(pattern) /\ b = o + w
  OBVIOUS
<1>2. b <= Len(s) /\ o <= b /\ Part(s, o, b) = pattern
  BY <1>1 DEF OccursAt, Part
<1>3. \A k \in 1..b - o : pattern[k] = s[o + k] /\ o + k \in DOMAIN s
  <2>1. PICK t \in Seq(Bytes) :
          /\ t = Part(s, o, b) /\ Len(t) = b - o /\ DOMAIN t = 1..b - o
          /\ \A i \in 1..b - o : t[i] = s[o + i] /\ o + i \in DOMAIN s
    BY <1>2, TextCut
  <2>2. QED
    BY <1>2, <2>1
<1>4. b - o = w
  BY <1>1
<1>5. QED
  BY <1>1, <1>2, <1>3, <1>4

LEMMA PreviewIs ==
  ASSUME NEW s \in Seq(Bytes), NEW start \in Nat, NEW end \in Nat, start <= end,
         end <= Len(s)
  PROVE  Range(StripAnsi(LineAround(s, start, end))) \cap Controls = {}
<1>1. PICK a \in Nat, b \in Nat : Around(s, start, end, a, b)
  <2>1. Len(s) \in Nat
    OBVIOUS
  <2>2. QED
    BY <2>1, AroundIs
<1>2. PICK t \in Seq(Bytes) : t = LineAround(s, start, end)
  <2>1. a <= b /\ b <= Len(s) /\ LineAround(s, start, end) = Part(s, a, b)
    BY <1>1 DEF Around
  <2>2. QED
    BY <2>1, TextCut
<1> DEFINE B == Bytes \ Controls
<1>3. \A i \in DOMAIN t : t[i] \notin Controls => t[i] \in B
  OBVIOUS
<1> HIDE DEF B
<1>4. StripAnsi(t) \in Seq(B)
  BY <1>3, StripDrops
<1>5. \A d \in Range(StripAnsi(t)) : d \in B
  BY <1>4 DEF Range
<1>6. QED
  BY <1>2, <1>5 DEF B

LEMMA TameLine ==
  ASSUME NEW s \in Seq(Bytes), \A i \in DOMAIN s : s[i] \notin Goes,
         NEW start \in Nat, NEW end \in Nat, start <= end, end <= Len(s)
  PROVE  ~Broken(StripAnsi(LineAround(s, start, end)))
<1>1. PICK a \in Nat, b \in Nat : Around(s, start, end, a, b)
  <2>1. Len(s) \in Nat
    OBVIOUS
  <2>2. QED
    BY <2>1, AroundIs
<1>2. PICK t \in Seq(Bytes) :
        /\ t = Part(s, a, b) /\ Len(t) = b - a /\ DOMAIN t = 1..b - a
        /\ \A i \in 1..b - a : t[i] = s[a + i] /\ a + i \in DOMAIN s
  <2>1. a <= b
    BY <1>1 DEF Around
  <2>2. QED
    BY <1>1, <2>1, TextCut DEF Around
<1> DEFINE B == Bytes \ Goes
<1>3. \A i \in DOMAIN t : t[i] \notin Controls => t[i] \in B
  <2>1. \A i \in DOMAIN t : t[i] \in Bytes
    OBVIOUS
  <2>2. QED
    BY <1>2, <2>1
<1> HIDE DEF B
<1>4. PICK u \in Seq(B) : u = StripAnsi(t)
  BY <1>3, StripDrops
<1>5. \A i \in DOMAIN u : u[i] \in B
  OBVIOUS
<1>6. QED
  BY <1>1, <1>2, <1>4, <1>5 DEF Around, B, Broken, Goes

LEMMA WholeLine ==
  ASSUME NEW s \in Seq(Bytes), Joined(s), \A i \in DOMAIN s : s[i] # "e",
         NEW start \in Nat, NEW end \in Nat, start <= end, end <= Len(s)
  PROVE  ~Broken(StripAnsi(LineAround(s, start, end)))
<1>1. PICK a \in Nat, b \in Nat : Around(s, start, end, a, b)
  <2>1. Len(s) \in Nat
    OBVIOUS
  <2>2. QED
    BY <2>1, AroundIs
<1>2. PICK t \in Seq(Bytes) :
        /\ t = Part(s, a, b) /\ Len(t) = b - a /\ DOMAIN t = 1..b - a
        /\ \A i \in 1..b - a : t[i] = s[a + i] /\ a + i \in DOMAIN s
  <2>1. a <= b
    BY <1>1 DEF Around
  <2>2. QED
    BY <1>1, <2>1, TextCut DEF Around
<1>3. \A i \in DOMAIN t : t[i] # "e"
  BY <1>2
<1>4. ASSUME NEW i \in DOMAIN t, t[i] \in Goes
      PROVE  i # 1 /\ Follows(t[i - 1], t[i])
  <2>1. PICK k \in DOMAIN s : k = a + i /\ t[i] = s[k]
    BY <1>2
  <2>2. i \in Nat /\ k \in Nat /\ Len(s) \in Nat /\ DOMAIN s = 1..Len(s) /\ s # <<>>
    BY <1>2
  <2>3. i # 1
    <3>1. CASE i = 1 /\ a = 0
      <4>1. k = 1
        BY <2>1, <3>1
      <4>2. QED
        BY <1>4, <2>1, <2>2, <4>1 DEF Joined
    <3>2. CASE i = 1 /\ a # 0
      <4>1. a \in DOMAIN s /\ k = a + 1
        BY <2>1, <2>2, <3>2
      <4>2. Follows(s[a], s[k])
        BY <4>1 DEF Joined
      <4>3. QED
        BY <1>1, <1>4, <2>1, <3>2, <4>2 DEF Around, Follows, Goes
    <3>3. QED
      BY <3>1, <3>2
  <2>4. PICK j \in 1..b - a : j = i - 1 /\ a + j \in DOMAIN s /\ k = (a + j) + 1
    <3>1. i - 1 \in 1..b - a /\ k = (a + (i - 1)) + 1 /\ a + (i - 1) \in DOMAIN s
      BY <1>2, <2>1, <2>2, <2>3, SMTT(30)
    <3>2. QED
      BY <3>1
  <2>5. Follows(s[a + j], s[k])
    BY <2>4 DEF Joined
  <2>6. t[j] = s[a + j]
    BY <1>2, <2>4
  <2>7. QED
    BY <2>1, <2>3, <2>4, <2>5, <2>6
<1>5. Joined(t)
  <2>1. ASSUME NEW i \in DOMAIN t, NEW j \in DOMAIN t, j = i + 1 PROVE Follows(t[i], t[j])
    <3>1. j - 1 = i
      BY <1>2, <2>1
    <3>2. CASE t[j] \in Goes
      BY <1>4, <3>1, <3>2
    <3>3. CASE t[j] \notin Goes
      BY <3>3 DEF Follows, Goes
    <3>4. QED
      BY <3>2, <3>3
  <2>2. t # <<>> => t[1] \notin Goes
    <3>1. t # <<>> => 1 \in DOMAIN t
      OBVIOUS
    <3>2. QED
      BY <1>4, <3>1
  <2>3. QED
    BY <2>1, <2>2 DEF Joined
<1>6. PICK u \in Seq(Bytes) : u = StripAnsi(t) /\ Joined(u)
  BY <1>3, <1>5, StripKeeps
<1>7. ~Broken(u)
  <2>1. ASSUME NEW i \in DOMAIN u, u[i] \in Goes, i = 1 \/ ~Follows(u[i - 1], u[i])
        PROVE  FALSE
    <3>1. u # <<>> /\ i \in 1..Len(u) /\ Len(u) \in Nat
      BY <2>1
    <3>2. i # 1
      BY <1>6, <2>1, <3>1 DEF Joined
    <3>3. i - 1 \in DOMAIN u /\ i = (i - 1) + 1
      BY <3>1, <3>2
    <3>4. QED
      BY <1>6, <2>1, <3>2, <3>3 DEF Joined
  <2>2. QED
    BY <2>1 DEF Broken, Goes, Follows
<1>8. QED
  BY <1>1, <1>2, <1>6, <1>7 DEF Around

(* A pattern begins and ends with a whole character.                       *)
Entire(p) == p[1] \notin Goes /\ p[Len(p)] \notin {"I1", "r1", "r2"}

LEMMA SlicesAt ==
  ASSUME NEW pattern \in Seq(Bytes), pattern # <<>>, Entire(pattern),
         NEW s \in Seq(Bytes), Joined(s), NEW o \in Nat, OccursAt(pattern, s, o)
  PROVE  Sliceable(s, o) /\ Sliceable(s, o + Len(pattern))
<1>1. PICK w \in Nat \ {0} : w = Len(pattern)
  OBVIOUS
<1>2. /\ o + w <= Len(s) /\ Len(s) \in Nat /\ DOMAIN s = 1..Len(s)
      /\ \A k \in 1..w : s[o + k] = pattern[k] /\ o + k \in DOMAIN s
  BY <1>1, MatchIs
<1>3. s[o + 1] = pattern[1] /\ o < Len(s) /\ s[o + w] = pattern[w] /\ o + w \in DOMAIN s
  BY <1>1, <1>2
<1>4. Sliceable(s, o)
  BY <1>3 DEF Sliceable, Entire, Goes
<1>5. ASSUME o + w < Len(s) PROVE s[(o + w) + 1] \notin Goes
  <2>1. (o + w) + 1 \in DOMAIN s
    BY <1>1, <1>2, <1>5
  <2>2. Follows(s[o + w], s[(o + w) + 1])
    BY <1>3, <2>1 DEF Joined
  <2>3. pattern[w] \notin {"I1", "r1", "r2"}
    BY <1>1 DEF Entire
  <2>4. QED
    BY <1>3, <2>2, <2>3 DEF Follows, Goes
<1>6. o + w = Len(s) \/ o + w < Len(s)
  <2>1. o + w <= Len(s) /\ Len(s) \in Nat /\ o + w \in Nat
    BY <1>2
  <2>2. QED
    BY <2>1
<1>7. Sliceable(s, o + w)
  BY <1>5, <1>6 DEF Sliceable, Goes
<1>8. QED
  BY <1>1, <1>4, <1>7

LEMMA NoPanicWhole ==
  ASSUME NEW pattern \in Seq(Bytes), pattern # <<>>, Entire(pattern),
         NEW s \in Seq(Bytes), Joined(s), \A i \in DOMAIN s : s[i] # "e",
         NEW o \in Nat, OccursAt(pattern, s, o)
  PROVE  ~PanicsAt(s, o, Len(pattern))
<1>1. PICK w \in Nat \ {0}, end \in Nat : w = Len(pattern) /\ end = o + w
  OBVIOUS
<1>2. o <= end /\ end <= Len(s)
  BY <1>1, MatchIs
<1>3. ~Broken(StripAnsi(LineAround(s, o, end)))
  BY <1>2, WholeLine
<1>4. QED
  BY <1>1, <1>3, SlicesAt DEF PanicsAt

LEMMA NoPanicTame ==
  ASSUME NEW s \in Seq(Bytes), \A i \in DOMAIN s : s[i] \notin Goes,
         NEW o \in Nat, NEW w \in Nat, o + w <= Len(s)
  PROVE  ~PanicsAt(s, o, w)
<1>1. PICK end \in Nat : end = o + w
  OBVIOUS
<1>2. ~Broken(StripAnsi(LineAround(s, o, end)))
  <2>1. o <= end /\ end <= Len(s)
    BY <1>1
  <2>2. QED
    BY <2>1, TameLine
<1>3. ASSUME NEW k \in Nat, k <= Len(s) PROVE Sliceable(s, k)
  <2>1. k < Len(s) => k + 1 \in DOMAIN s
    OBVIOUS
  <2>2. k = Len(s) \/ k < Len(s)
    BY <1>3
  <2>3. QED
    BY <2>1, <2>2 DEF Sliceable, Goes
<1>4. Sliceable(s, o) /\ Sliceable(s, end)
  BY <1>1, <1>3
<1>5. QED
  BY <1>1, <1>2, <1>4 DEF PanicsAt

-----------------------------------------------------------------------------
(* What a search promises, of what it is given.                            *)
LEMMA FoundAre ==
  ASSUME NEW pattern \in Seq(Bytes), pattern # <<>>, NEW s \in Seq(Bytes)
  PROVE  LET found == Found(pattern, s)
         IN /\ found \in Seq(Nat)
            /\ \A i \in DOMAIN found : found[i] \in Nat /\ OccursAt(pattern, s, found[i])
<1>1. Len(pattern) \in Nat \ {0} /\ Len(s) \in Nat
  OBVIOUS
<1>2. PICK found : found = Found(pattern, s)
  OBVIOUS
<1>3. FoundFrom(pattern, s, Len(pattern), 0, found)
  BY <1>1, <1>2, FoundIsLeftmost DEF Found
<1>4. found \in Seq(Nat) /\ \A i \in DOMAIN found : OccursAt(pattern, s, found[i])
  BY <1>3 DEF FoundFrom
<1>5. \A i \in DOMAIN found : found[i] \in Nat
  BY <1>4
<1>6. QED
  BY <1>2, <1>4, <1>5

Placed(m, t, o) == m.offset = o /\ m.line = LineOf(t, o)

LEMMA MatchShows ==
  ASSUME NEW s \in Seq(Bytes), NEW t \in Seq(Bytes), SameLines(s, t),
         NEW p \in Seq(Bytes), p # <<>>,
         NEW o \in Nat, OccursAt(p, t, o)
  PROVE  Placed(MatchAt(s, o, Len(p)), t, o)
<1>1. PICK w \in Nat, end \in Nat : w = Len(p) /\ end = o + w
  OBVIOUS
<1>2. /\ end <= Len(s) /\ o <= end /\ Len(s) \in Nat /\ o <= Len(s) /\ DOMAIN s = 1..Len(s)
      /\ DOMAIN t = DOMAIN s
  BY <1>1, MatchIs DEF SameLines
<1>3. Cardinality(NewlinesIn(s, 0, o)) + 1 = LineOf(t, o)
  <2>1. \A k \in 1..Len(s) : t[k] = "n" <=> s[k] = "n"
    BY <1>2 DEF SameLines
  <2>2. QED
    BY <1>2, <2>1, LinesAre
<1>4. QED
  BY <1>1, <1>3 DEF MatchAt, Placed

LEMMA Describing ==
  ASSUME NEW s \in Seq(Bytes), NEW t \in Seq(Bytes), SameLines(s, t),
         NEW p \in Seq(Bytes), p # <<>>, NEW limit \in Nat,
         NEW r, Reports(r, Found(p, t), limit),
         NEW few \in Nat, few = Min({Len(Found(p, t)), limit}), few <= Len(Found(p, t)),
         \A i \in 1..few : r.matches[i] = MatchAt(s, Found(p, t)[i], Len(p))
  PROVE  Describes(r, p, t, limit)
<1>1. Counts(r, p, t, limit)
  <2>1. Len(p) \in Nat \ {0} /\ Len(t) \in Nat
    OBVIOUS
  <2>2. QED
    BY <2>1, ReportsCount
<1>2. PICK found \in Seq(Nat) : /\ found = Found(p, t)
                                /\ \A i \in DOMAIN found : OccursAt(p, t, found[i])
  BY FoundAre
<1>3. DOMAIN r.matches = 1..few
  BY DEF Reports
<1>4. ASSUME NEW i \in DOMAIN r.matches
      PROVE  r.matches[i].line = LineOf(t, r.matches[i].offset)
  <2>1. i \in DOMAIN found
    <3>1. \A m \in Nat : few <= m => \A k \in 1..few : k \in 1..m
      OBVIOUS
    <3>2. DOMAIN found = 1..Len(found) /\ Len(found) \in Nat /\ few <= Len(found)
      BY <1>2
    <3>3. QED
      BY <1>3, <3>1, <3>2
  <2>2. PICK o \in Nat : o = found[i] /\ OccursAt(p, t, o)
    BY <1>2, <2>1
  <2>3. PICK m : m = MatchAt(s, o, Len(p)) /\ m = r.matches[i]
    BY <1>2, <1>3, <2>2
  <2>4. Placed(m, t, o)
    BY <2>2, <2>3, MatchShows
  <2>5. QED
    BY <2>3, <2>4 DEF Placed
<1>5. QED
  BY <1>1, <1>4 DEF Counts, Describes

(* The text of a search has an escape only if the log has one.             *)
LEMMA ReplacedEscapes ==
  ASSUME NEW s \in Seq(Bytes), \A i \in DOMAIN s : s[i] # "e"
  PROVE  \A i \in DOMAIN Replaced(s) : Replaced(s)[i] # "e"
<1> DEFINE B == Bytes \ {"e"}
<1>1. <<"r1", "r2", "r3">> \in Seq(B)
  BY DEF Bytes
<1>2. \A c \in B : <<c>> \in Seq(B)
  OBVIOUS
<1>3. \A i \in DOMAIN s : s[i] \in B /\ s[i] \in Bytes
  OBVIOUS
<1> HIDE DEF B
<1>4. \A i \in DOMAIN s : LossyW[s[i]] \in Seq(B)
  BY <1>1, <1>2, <1>3 DEF LossyW
<1>5. PICK p \in Seq(Seq(Bytes)) : p = Spelt(LossyW, s) /\ Len(p) = Len(s)
                                  /\ \A i \in DOMAIN s : p[i] = LossyW[s[i]]
  BY LossySpells, SpeltIs
<1>6. p \in Seq(Seq(B))
  <2>1. DOMAIN p = 1..Len(p) /\ DOMAIN s = 1..Len(s)
    BY <1>5
  <2>2. \A i \in 1..Len(p) : p[i] \in Seq(B)
    BY <1>4, <1>5, <2>1
  <2>3. QED
    BY <2>2
<1>7. Replaced(s) \in Seq(B)
  BY <1>5, <1>6, FlattenIsSeq DEF Replaced, Spell
<1>8. \A c \in B : c # "e"
  BY DEF B
<1>9. QED
  BY <1>7, <1>8

LEMMA LossyEscapes ==
  ASSUME NEW s \in Seq(Bytes), \A i \in DOMAIN s : s[i] # "e"
  PROVE  \A i \in DOMAIN Lossy(s) : Lossy(s)[i] # "e"
<1>1. PICK t \in Seq(Bytes) :
        /\ t = Valid(s) /\ DOMAIN t = DOMAIN s
        /\ \A i \in DOMAIN s : t[i] = IF Invalid(s, i) THEN "x" ELSE s[i]
  <2>1. "x" \in Bytes
    BY DEF Bytes, Letters
  <2>2. QED
    BY <2>1, ValidIs
<1>2. \A i \in DOMAIN t : t[i] # "e"
  BY <1>1
<1>3. QED
  BY <1>1, <1>2, LossyIs, ReplacedEscapes

LEMMA PatternIs ==
  ASSUME NEW p \in Patterns
  PROVE  p \in Seq(Bytes) /\ p # <<>> /\ Entire(p)
<1>1. p \in Seq(Letters) /\ p # <<>> /\ \A i \in DOMAIN p : ~Invalid(p, i)
  BY BoundsAssumption
<1>2. p \in Seq(Bytes)
  BY <1>1 DEF Bytes
<1>3. PICK n \in Nat \ {0} : n = Len(p) /\ DOMAIN p = 1..n
  BY <1>1
<1>4. 1 \in DOMAIN p /\ n \in DOMAIN p /\ p[1] \in Letters /\ p[n] \in Letters
  BY <1>1, <1>3
<1>5. p[1] # "I2" /\ p[n] # "I1"
  <2>1. ~Invalid(p, 1) /\ ~Invalid(p, n)
    BY <1>1, <1>4
  <2>2. QED
    BY <1>3, <2>1 DEF Invalid
<1>6. QED
  BY <1>1, <1>2, <1>3, <1>4, <1>5 DEF Entire, Goes, Letters

(* SearchAgrees, of a request, its answer and a content.                   *)
TameIn(c) == \A i \in DOMAIN c : c[i] \notin {"x", "I1", "I2"}

Previewed(r) == \A i \in DOMAIN r.matches : Range(r.matches[i].preview) \cap Controls = {}

AgreesOf(a, r, c) ==
  a # None =>
    /\ r = Panic => ~TameIn(c) /\ (a.insensitive \/ "e" \in Range(c))
    /\ r # Panic => Previewed(r)
    /\ ("e" \notin Range(c) /\ ~a.insensitive) => Describes(r, a.pattern, Lossy(c), a.limit)
    /\ ("e" \notin Range(c) /\ a.insensitive /\ TameIn(c)) =>
         Describes(r, Lower(a.pattern), Lower(c), a.limit)

LEMMA AgreesIs ==
  /\ SearchAgrees <=> AgreesOf(asked, answer, Content)
  /\ SearchAgrees' <=> AgreesOf(asked', answer', Content')
BY DEF SearchAgrees, AgreesOf, Previewed, Escapes, Tame, TameIn

(* A match that does not panic lies within the text, and so does the line  *)
(* around it: its preview has no control bytes.                            *)
LEMMA PreviewsAre ==
  ASSUME NEW s \in Seq(Bytes), s = Lossy(Content), NEW found \in Seq(Nat),
         NEW w \in Nat, NEW limit \in Nat,
         NEW r, r = ResultsIn(found, w, limit), r # Panic
  PROVE  Previewed(r)
<1>1. PICK few : few = Min({Len(found), limit})
  OBVIOUS
<1>2. ReportOf(r, s, found, w, few, limit)
  BY <1>1, ResultsReport
<1>3. /\ few \in Nat /\ few <= Len(found) /\ DOMAIN r.matches = 1..few
      /\ \A i \in 1..few : r.matches[i] = MatchAt(s, found[i], w)
      /\ \A i \in 1..few : ~PanicsAt(s, found[i], w)
  BY <1>1, <1>2 DEF ReportOf, Reports
<1>4. ASSUME NEW i \in 1..few PROVE Range(r.matches[i].preview) \cap Controls = {}
  <2>1. PICK o \in Nat, end \in Nat : o = found[i] /\ end = o + w
    <3>1. i \in 1..Len(found)
      BY <1>3
    <3>2. found[i] \in Nat
      BY <3>1
    <3>3. QED
      BY <3>2
  <2>2. Sliceable(s, end)
    BY <1>3, <2>1 DEF PanicsAt
  <2>3. o <= end /\ end <= Len(s)
    BY <2>1, <2>2 DEF Sliceable
  <2>4. r.matches[i].preview = StripAnsi(LineAround(s, o, end))
    <3>1. r.matches[i] = MatchAt(s, o, w)
      <4>1. r.matches[i] = MatchAt(s, found[i], w)
        BY <1>3, Zenon
      <4>2. QED
        BY <2>1, <4>1, Zenon
    <3>2. MatchAt(s, o, w).preview = StripAnsi(LineAround(s, o, o + w))
      BY DEF MatchAt
    <3>3. QED
      BY <2>1, <3>1, <3>2
  <2>5. QED
    BY <2>3, <2>4, PreviewIs
<1>5. QED
  BY <1>3, <1>4 DEF Previewed

LEMMA TameText ==
  ASSUME NEW c \in Seq(Letters), TameIn(c)
  PROVE  /\ c \in Seq(Bytes) /\ Lossy(c) = c /\ SameLines(c, Lower(c))
         /\ Lower(c) \in Seq(Bytes)
         /\ \A i \in DOMAIN c : c[i] \notin Goes
<1>1. c \in Seq(Bytes)
  BY DEF Bytes
<1>2. \A i \in DOMAIN c : c[i] \in Letters /\ c[i] \notin {"x", "I1", "I2"}
  BY DEF TameIn
<1>3. Lossy(c) = c
  <2>1. \A i \in DOMAIN c : ~Invalid(c, i)
    BY <1>2 DEF Invalid
  <2>2. QED
    BY <1>1, <2>1, LossyKeeps
<1>4. SameLines(c, Lower(c)) /\ Lower(c) \in Seq(Bytes)
  BY <1>1, <1>2, LowerKeeps, LowerIs
<1>5. \A i \in DOMAIN c : c[i] \notin Goes
  BY <1>2 DEF Goes, Letters
<1>6. QED
  BY <1>1, <1>3, <1>4, <1>5

(* What a search for p in t answers, which points into a text s of the     *)
(* same lines: the matches, or a panic at one of them.                     *)
LEMMA SearchIs ==
  ASSUME Held, NEW s \in Seq(Bytes), s = Lossy(Content),
         NEW t \in Seq(Bytes), SameLines(s, t),
         NEW p \in Seq(Bytes), p # <<>>, NEW limit \in Nat,
         NEW r, r = ResultsIn(Found(p, t), Len(p), limit)
  PROVE  /\ r # Panic => Describes(r, p, t, limit) /\ Previewed(r)
         /\ r = Panic => \E o \in Nat : OccursAt(p, t, o) /\ PanicsAt(s, o, Len(p))
<1>1. PICK found \in Seq(Nat) :
        /\ found = Found(p, t)
        /\ \A i \in DOMAIN found : found[i] \in Nat /\ OccursAt(p, t, found[i])
  BY FoundAre
<1>2. PICK w, few : w \in Nat /\ w = Len(p) /\ few = Min({Len(found), limit})
  OBVIOUS
<1>3. ReportOf(r, s, found, w, few, limit)
  BY <1>1, <1>2, ResultsReport
<1>4. few \in Nat /\ few <= Len(found)
  BY <1>3 DEF ReportOf
<1>5. \A i \in 1..few : i \in DOMAIN found
  <2>1. \A m \in Nat : few <= m => \A k \in 1..few : k \in 1..m
    BY <1>4
  <2>2. DOMAIN found = 1..Len(found) /\ Len(found) \in Nat
    OBVIOUS
  <2>3. QED
    BY <1>4, <2>1, <2>2
<1>6. ASSUME r # Panic PROVE Describes(r, p, t, limit) /\ Previewed(r)
  <2>1. Reports(r, found, limit) /\ \A i \in 1..few : r.matches[i] = MatchAt(s, found[i], w)
    BY <1>3, <1>6 DEF ReportOf
  <2>2. /\ Reports(r, Found(p, t), limit)
        /\ few = Min({Len(Found(p, t)), limit}) /\ few <= Len(Found(p, t))
        /\ \A i \in 1..few : r.matches[i] = MatchAt(s, Found(p, t)[i], Len(p))
    BY <1>1, <1>2, <1>4, <2>1
  <2>3. Previewed(r)
    BY <1>1, <1>2, <1>6, PreviewsAre
  <2>4. QED
    BY <1>4, <2>2, <2>3, Describing
<1>7. ASSUME r = Panic
      PROVE  \E o \in Nat : OccursAt(p, t, o) /\ PanicsAt(s, o, Len(p))
  <2>1. PICK i \in 1..few : PanicsAt(s, found[i], w)
    BY <1>3, <1>7 DEF ReportOf
  <2>2. PICK o \in Nat : o = found[i] /\ OccursAt(p, t, o)
    BY <1>1, <1>5
  <2>3. QED
    BY <1>2, <2>1, <2>2
<1>8. QED
  BY <1>6, <1>7


(* One search that respects case, and one that does not in a tame log.     *)
LEMMA PlainSearch ==
  ASSUME Held, NEW p \in Patterns, NEW limit \in Nat,
         NEW r, r = ResultsIn(Found(p, Lossy(Content)), Len(p), limit)
  PROVE  /\ r = Panic => ~TameIn(Content)
         /\ r = Panic => "e" \in Range(Content)
         /\ r # Panic => Describes(r, p, Lossy(Content), limit) /\ Previewed(r)
<1>1. PICK s \in Seq(Bytes) : s = Lossy(Content)
  BY ContentBytes, LossyIs
<1>2. p \in Seq(Bytes) /\ p # <<>> /\ Entire(p)
  BY PatternIs
<1>3. Content \in Seq(Letters) /\ Content \in Seq(Bytes)
  BY ContentLetters, ContentBytes
<1>4. SameLines(s, s)
  BY DEF SameLines
<1>5. r = ResultsIn(Found(p, s), Len(p), limit)
  BY <1>1
<1>6. /\ r # Panic => Describes(r, p, s, limit) /\ Previewed(r)
      /\ r = Panic => \E o \in Nat : OccursAt(p, s, o) /\ PanicsAt(s, o, Len(p))
  BY <1>1, <1>2, <1>4, <1>5, SearchIs
<1>7. ASSUME r = Panic, TameIn(Content) PROVE FALSE
  <2>1. PICK o \in Nat : OccursAt(p, s, o) /\ PanicsAt(s, o, Len(p))
    BY <1>6, <1>7
  <2>2. PICK w \in Nat : w = Len(p)
    BY <1>2
  <2>3. o + w <= Len(s)
    BY <2>1, <2>2 DEF OccursAt
  <2>4. \A j \in DOMAIN s : s[j] \notin Goes
    BY <1>1, <1>3, <1>7, TameText
  <2>5. QED
    BY <2>1, <2>2, <2>3, <2>4, NoPanicTame
<1>8. ASSUME r = Panic, "e" \notin Range(Content) PROVE FALSE
  <2>1. PICK o \in Nat : OccursAt(p, s, o) /\ PanicsAt(s, o, Len(p))
    BY <1>6, <1>8
  <2>2. \A j \in DOMAIN Content : Content[j] # "e"
    BY <1>8 DEF Range
  <2>3. \A j \in DOMAIN s : s[j] # "e"
    BY <1>1, <1>3, <2>2, LossyEscapes
  <2>4. Joined(s)
    BY <1>1, <1>3, LossyJoins
  <2>5. QED
    BY <1>2, <2>1, <2>3, <2>4, NoPanicWhole
<1>9. QED
  BY <1>1, <1>6, <1>7, <1>8

LEMMA TameSearch ==
  ASSUME Held, TameIn(Content), NEW pattern \in Patterns, NEW limit \in Nat,
         NEW r, r = ResultsIn(Found(Lower(pattern), Lower(Lossy(Content))),
                              Len(Lower(pattern)), limit)
  PROVE  r # Panic /\ Describes(r, Lower(pattern), Lower(Content), limit)
<1>1. Content \in Seq(Letters)
  BY ContentLetters
<1>2. PICK s \in Seq(Bytes), t \in Seq(Bytes) :
        /\ s = Content /\ s = Lossy(Content) /\ t = Lower(s) /\ SameLines(s, t)
        /\ \A i \in DOMAIN s : s[i] \notin Goes
  BY <1>1, TameText
<1>3. PICK p \in Seq(Bytes) : p = Lower(pattern) /\ p # <<>>
  <2>1. pattern \in Seq(Bytes) /\ pattern # <<>>
    BY PatternIs
  <2>2. QED
    BY <2>1, LowerIs
<1>4. r = ResultsIn(Found(p, t), Len(p), limit)
  BY <1>2, <1>3
<1>5. /\ r # Panic => Describes(r, p, t, limit) /\ Previewed(r)
      /\ r = Panic => \E o \in Nat : OccursAt(p, t, o) /\ PanicsAt(s, o, Len(p))
  BY <1>2, <1>3, <1>4, SearchIs
<1>6. ASSUME r = Panic PROVE FALSE
  <2>1. PICK o \in Nat : OccursAt(p, t, o) /\ PanicsAt(s, o, Len(p))
    BY <1>5, <1>6
  <2>2. PICK w \in Nat : w = Len(p)
    BY <1>3
  <2>3. o + w <= Len(t) /\ Len(t) = Len(s)
    BY <1>2, <2>1, <2>2 DEF OccursAt, SameLines
  <2>4. QED
    BY <1>2, <2>1, <2>2, <2>3, NoPanicTame
<1>7. QED
  BY <1>2, <1>3, <1>5, <1>6

LEMMA AnyPreviews ==
  ASSUME Held, NEW pattern \in Patterns, NEW limit \in Nat,
         NEW r, r = ResultsIn(Found(Lower(pattern), Lower(Lossy(Content))),
                              Len(Lower(pattern)), limit),
         r # Panic
  PROVE  Previewed(r)
<1>1. PICK s \in Seq(Bytes) : s = Lossy(Content)
  BY ContentBytes, LossyIs
<1>2. PICK t \in Seq(Bytes), p \in Seq(Bytes) : t = Lower(s) /\ p = Lower(pattern) /\ p # <<>>
  BY PatternIs, LowerIs
<1>3. PICK found \in Seq(Nat), w \in Nat : found = Found(p, t) /\ w = Len(p)
  BY <1>2, FoundAre
<1>4. r = ResultsIn(found, w, limit)
  BY <1>1, <1>2, <1>3
<1>5. QED
  BY <1>1, <1>4, PreviewsAre

LEMMA SearchStep == ASSUME Held, Content' = Content, SearchHistory
                    PROVE  AgreesOf(asked', answer', Content')
<1>1. PICK pattern \in Patterns, insensitive \in BOOLEAN, limit \in Limits :
        /\ asked' = [pattern |-> pattern, insensitive |-> insensitive, limit |-> limit]
        /\ answer' = Results(pattern, insensitive, limit)
  BY DEF SearchHistory
<1>2. asked'.pattern = pattern /\ asked'.insensitive = insensitive /\ asked'.limit = limit
  BY <1>1
<1>3. limit \in Nat
  BY BoundsAssumption
<1>4. CASE insensitive
  <2>1. answer' = ResultsIn(Found(Lower(pattern), Lower(Lossy(Content))),
                            Len(Lower(pattern)), limit)
    BY <1>1, <1>4 DEF Results
  <2>2. TameIn(Content) => /\ answer' # Panic
                           /\ Describes(answer', Lower(pattern), Lower(Content), limit)
    BY <1>3, <2>1, TameSearch
  <2>3. answer' # Panic => Previewed(answer')
    BY <1>3, <2>1, AnyPreviews
  <2>4. QED
    BY <1>2, <1>4, <2>2, <2>3 DEF AgreesOf
<1>5. CASE ~insensitive
  <2>1. answer' = ResultsIn(Found(pattern, Lossy(Content)), Len(pattern), limit)
    BY <1>1, <1>5 DEF Results
  <2>2. /\ answer' = Panic => ~TameIn(Content)
        /\ answer' = Panic => "e" \in Range(Content)
        /\ answer' # Panic =>
             Describes(answer', pattern, Lossy(Content), limit) /\ Previewed(answer')
    BY <1>3, <2>1, PlainSearch
  <2>3. QED
    BY <1>2, <1>5, <2>2 DEF AgreesOf
<1>6. QED
  BY <1>1, <1>4, <1>5

(* search: in every log, whatever is asked, no preview has an escape or a  *)
(* newline, and a search panics only at an escape in front of a longer     *)
(* character or, if it ignores case, in a text that is not ASCII.  In a    *)
(* log without escapes the matches counted are the leftmost that do not    *)
(* overlap, and those shown are the first of them, each with its line.     *)
THEOREM SearchAgreesHolds == Spec => []SearchAgrees
<1>1. Init => JoinInv /\ AgreesOf(asked, answer, Content)
  <2> SUFFICES ASSUME Init PROVE JoinInv /\ AgreesOf(asked, answer, Content)
    OBVIOUS
  <2>1. JoinInv
    BY InitHeld, InitJoins DEF JoinInv
  <2>2. asked = None
    BY DEF Init
  <2>3. QED
    BY <2>1, <2>2 DEF AgreesOf
<1>2. /\ JoinInv /\ AgreesOf(asked, answer, Content)
      /\ [Next]_vars
      => JoinInv' /\ AgreesOf(asked', answer', Content')
  <2> SUFFICES ASSUME JoinInv, AgreesOf(asked, answer, Content), [Next]_vars
               PROVE  JoinInv' /\ AgreesOf(asked', answer', Content')
    OBVIOUS
  <2>1. JoinInv'
    BY JoinStep
  <2>2. CASE Appends
    <3>1. asked' = None
      BY <2>2 DEF Appends, query
    <3>2. QED
      BY <2>1, <3>1 DEF AgreesOf
  <2>3. CASE PageBack \/ Follow
    <3>1. UNCHANGED <<log, payload, asked, answer>>
      BY <2>3 DEF PageBack, Follow, FollowTo, query
    <3>2. Content' = Content
      BY <3>1 DEF Content, Plain
    <3>3. QED
      BY <2>1, <3>1, <3>2
  <2>4. CASE SearchHistory
    <3>1. Content' = Content
      BY <2>4, SearchStays
    <3>2. Held
      BY DEF JoinInv
    <3>3. QED
      BY <2>1, <2>4, <3>1, <3>2, SearchStep
  <2>5. CASE UNCHANGED vars
    <3>1. Content' = Content
      BY <2>5, SearchStays
    <3>2. QED
      BY <2>1, <2>5, <3>1 DEF vars, query
  <2>6. QED
    BY <2>2, <2>3, <2>4, <2>5 DEF Next
<1>3. QED
  BY <1>1, <1>2, AgreesIs, PTL DEF Spec

=============================================================================
