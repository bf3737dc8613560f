--------------------------- MODULE Transcript_proof ---------------------------
(***************************************************************************)
(* For any lengths, limit and number of appends, and whatever fails: the   *)
(* log of a session implements TailLog, what is read from it is in the     *)
(* order of the appends, without repeats, and the typing invariant holds.  *)
(* While nothing fails, and if the limit leaves room for the largest       *)
(* chunks, the newest chunks are there and the file is within its limit.   *)
(*                                                                         *)
(* The last two rest on what Bytes returns, a fold over a log of any       *)
(* length: lemmas up to BytesCoverLen, by induction over sets of numbers.  *)
(***************************************************************************)
EXTENDS Transcript, Functions, FiniteSetTheorems, SequenceTheorems,
        WellFoundedInduction, TLAPS

Entries == chunks \in Seq(Chunk) /\ appended \in Nat

IInv == Entries /\ InOrder

(* Any append ends with the chunks there were, perhaps with the new one,   *)
(* or with the half of these that is kept.                                 *)
LEMMA EveryAppend ==
  ASSUME NEW len \in Lengths, AppendChunk(len)
  PROVE  /\ appended' = appended + 1
         /\ \/ chunks' \in {chunks, Recorded(len)}
            \/ \E i \in Starts(Recorded(len)) : chunks' = From(Recorded(len), i)
<1>1. CASE WriteFails(len)
  BY <1>1 DEF WriteFails, WriteFailsCounting, Takes
<1>2. CASE AppendFits(len) \/ TruncateFindsNothing(len) \/ RewriteFails(len)
           \/ RenameFails(len)
  BY <1>2
     DEF AppendFits, TruncateFindsNothing, RewriteFails, RenameFails, Untouched, Takes
<1>3. CASE ReopenFails(len) \/ Truncates(len)
  BY <1>3 DEF ReopenFails, Truncates, Replaces, Takes
<1>4. QED
  BY <1>1, <1>2, <1>3 DEF AppendChunk

LEMMA RecordedIs ==
  ASSUME NEW len \in Lengths
  PROVE  Recorded(len) \in
           {chunks, Append(chunks, [id |-> appended + 1, len |-> len])}
BY DEF Recorded

-----------------------------------------------------------------------------
(* Each append is an Add of the abstract log.                              *)
LEMMA StepIsAdd ==
  ASSUME NEW len \in Lengths, AppendChunk(len)
  PROVE  Log!Add(len)
<1> DEFINE s == Recorded(len)
           news == {chunks, Append(chunks, [id |-> appended + 1, len |-> len])}
<1>1. appended' = appended + 1
  BY EveryAppend
<1>2. s \in news /\ chunks \in news
  BY RecordedIs
<1>3. CASE chunks' \in {chunks, s}
  <2>1. \E r \in news : chunks' = r \/ Log!Forgets(r)
    BY <1>2, <1>3
  <2>2. QED
    BY <1>1, <2>1 DEF Log!Add
<1>4. CASE \E i \in Starts(s) : chunks' = From(s, i)
  <2>1. PICK i \in Starts(s) : chunks' = From(s, i)
    BY <1>4
  <2>2. i \in 1..Len(s) /\ Bytes(From(s, i)) >= Bytes(s) \div 2
    BY <2>1 DEF Starts
  <2>3. Log!Bytes(Log!From(s, i)) >= Log!Bytes(s) \div 2 /\ chunks' = Log!From(s, i)
    BY <2>1, <2>2 DEF Bytes, From
  <2>4. Log!Forgets(s)
    BY <2>2, <2>3 DEF Log!Forgets, Log!From
  <2>5. \E r \in news : chunks' = r \/ Log!Forgets(r)
    BY <1>2, <2>4
  <2>6. QED
    BY <1>1, <2>5 DEF Log!Add
<1>5. QED
  BY EveryAppend, <1>3, <1>4

(* history.rs:94-96 and 453: whatever fails, the log forgets only its      *)
(* oldest chunks, and at least half of its bytes stay.                     *)
THEOREM ImplementsTailLog == Spec => TailLogSpec
<1>1. Init => Log!Init
  BY DEF Init, Log!Init
<1>2. [Next]_vars => [Log!Next]_<<chunks, appended>>
  <2>1. ASSUME Next PROVE Log!Next
    BY <2>1, StepIsAdd DEF Next, Log!Next
  <2>2. CASE UNCHANGED vars
    BY <2>2 DEF vars
  <2>3. QED
    BY <2>1, <2>2
<1>3. QED
  BY <1>1, <1>2, PTL DEF Spec, TailLogSpec, Log!Spec

-----------------------------------------------------------------------------
(* What may be in the file after the write is in order ...                 *)
LEMMA RecordedInOrder ==
  ASSUME IInv, NEW len \in Lengths
  PROVE  LET s == Recorded(len)
         IN /\ s \in Seq(Chunk)
            /\ \A i \in DOMAIN s : s[i].id \in 1..(appended + 1)
            /\ \A i, j \in DOMAIN s : i < j => s[i].id < s[j].id
<1> DEFINE new == [id |-> appended + 1, len |-> len]
<1>1. CASE Recorded(len) = chunks
  BY <1>1 DEF IInv, Entries, InOrder
<1>2. CASE Recorded(len) = Append(chunks, new)
  <2>1. new \in Chunk /\ new.id = appended + 1
    BY DEF IInv, Entries, Chunk
  <2>2. Append(chunks, new) \in Seq(Chunk)
    BY <2>1 DEF IInv, Entries
  <2>3. \A i \in DOMAIN Append(chunks, new) :
          \/ i \in DOMAIN chunks /\ Append(chunks, new)[i] = chunks[i]
          \/ i = Len(chunks) + 1 /\ Append(chunks, new)[i] = new
    BY <2>1 DEF IInv, Entries
  <2>4. \A i \in DOMAIN chunks : chunks[i].id \in 1..appended /\ i <= Len(chunks)
    BY DEF IInv, Entries, InOrder
  <2>5. QED
    BY <1>2, <2>1, <2>2, <2>3, <2>4 DEF IInv, Entries, InOrder
<1>3. QED
  BY <1>1, <1>2, RecordedIs

(* ... and so is the end of it that is kept.                               *)
LEMMA SuffixInOrder ==
  ASSUME NEW s \in Seq(Chunk), NEW n \in Nat, NEW k \in 1..Len(s),
         \A i \in DOMAIN s : s[i].id \in 1..n,
         \A i, j \in DOMAIN s : i < j => s[i].id < s[j].id
  PROVE  LET r == From(s, k)
         IN /\ r \in Seq(Chunk)
            /\ \A i \in DOMAIN r : r[i].id \in 1..n
            /\ \A i, j \in DOMAIN r : i < j => r[i].id < r[j].id
<1> DEFINE r == From(s, k)
<1>1. /\ r \in Seq(Chunk)
      /\ Len(r) = Len(s) - k + 1
      /\ \A i \in 1..Len(r) : r[i] = s[k + i - 1]
  BY DEF From, Log!From
<1>2. \A i \in DOMAIN r : i \in Nat /\ k + i - 1 \in DOMAIN s /\ r[i] = s[k + i - 1]
  BY <1>1
<1>3. \A i \in DOMAIN r : r[i].id \in 1..n
  BY <1>2
<1>4. ASSUME NEW i \in DOMAIN r, NEW j \in DOMAIN r, i < j PROVE r[i].id < r[j].id
  <2>1. k + i - 1 < k + j - 1
    BY <1>1, <1>2, <1>4
  <2>2. QED
    BY <1>2, <2>1
<1>5. QED
  BY <1>1, <1>3, <1>4

LEMMA NextIInv == IInv /\ [Next]_vars => IInv'
<1> SUFFICES ASSUME IInv, [Next]_vars PROVE IInv'
  OBVIOUS
<1>1. ASSUME NEW len \in Lengths, AppendChunk(len) PROVE IInv'
  <2> DEFINE s == Recorded(len)
  <2>1. appended' = appended + 1 /\ appended' \in Nat
    BY <1>1, EveryAppend DEF IInv, Entries
  <2>2. CASE chunks' = chunks
    BY <2>1, <2>2 DEF IInv, Entries, InOrder
  <2>3. CASE chunks' = s
    BY <2>1, <2>3, RecordedInOrder DEF IInv, Entries, InOrder
  <2>4. CASE \E i \in Starts(s) : chunks' = From(s, i)
    <3>1. PICK k \in Starts(s) : chunks' = From(s, k)
      BY <2>4
    <3>2. k \in 1..Len(s)
      BY DEF Starts
    <3>3. /\ chunks' \in Seq(Chunk)
          /\ \A i \in DOMAIN chunks' : chunks'[i].id \in 1..(appended + 1)
          /\ \A i, j \in DOMAIN chunks' : i < j => chunks'[i].id < chunks'[j].id
      BY <2>1, <3>1, <3>2, RecordedInOrder, SuffixInOrder
    <3>4. QED
      BY <2>1, <3>3 DEF IInv, Entries, InOrder
  <2>5. QED
    BY <1>1, <2>2, <2>3, <2>4, EveryAppend
<1>2. CASE UNCHANGED vars
  BY <1>2 DEF vars, IInv, Entries, InOrder
<1>3. QED
  BY <1>1, <1>2 DEF Next

(* history.rs:185-236: the bytes of a session are read in the order they   *)
(* were appended, none of them twice, whatever has failed.                 *)
THEOREM InOrderHolds == Spec => []InOrder
<1>1. Init => IInv
  BY DEF Init, IInv, Entries, InOrder
<1>2. IInv => InOrder
  BY DEF IInv
<1>3. QED
  BY <1>1, NextIInv, <1>2, PTL DEF Spec

-----------------------------------------------------------------------------
(* Induction: a set of numbers with 0 in it and the next of each is Nat.   *)
LEMMA LeastIn ==
  ASSUME NEW R, IsWellFoundedOn(R, Nat), \A x, y \in Nat : y < x => <<y, x>> \in R,
         NEW S \in SUBSET Nat, S # {}
  PROVE  \E n \in S : \A m \in S : n <= m
<1>1. PICK x \in S : \A y \in S : ~(<<y, x>> \in R)
  BY WFMin, S \subseteq Nat
<1>2. \A y \in S : ~(y < x)
  BY <1>1
<1>3. QED
  BY <1>2

LEMMA Least == ASSUME NEW S \in SUBSET Nat, S # {} PROVE \E n \in S : \A m \in S : n <= m
<1>1. \A x, y \in Nat : y < x => <<y, x>> \in OpToRel(<, Nat)
  BY DEF OpToRel
<1>2. \E R : IsWellFoundedOn(R, Nat) /\ \A x, y \in Nat : y < x => <<y, x>> \in R
  BY <1>1, NatLessThanWellFounded
<1>3. QED
  BY <1>2, LeastIn

LEMMA AllOfNat ==
  ASSUME NEW S \in SUBSET Nat, 0 \in S, \A n \in S : n + 1 \in S
  PROVE  Nat \subseteq S
<1> SUFFICES ASSUME Nat \ S # {} PROVE FALSE
  OBVIOUS
<1>1. PICK n \in Nat \ S : \A m \in Nat \ S : n <= m
  BY Least
<1>2. n - 1 \in S
  BY <1>1
<1>3. QED
  BY <1>1, <1>2

-----------------------------------------------------------------------------
(* SumFunction, which takes the elements of a set one by one as CHOOSE     *)
(* will have it, adds up the values whatever the order.                    *)
Picked(S) == CHOOSE x \in S : TRUE

Summed(f, it, S) == IF S = {} THEN 0 ELSE f[Picked(S)] + it[S \ {Picked(S)}]

IsSum(f, D, it) == it = [S \in SUBSET D |-> Summed(f, it, S)]

LEMMA SumIsFold ==
  ASSUME NEW f, NEW D
  PROVE  SumFunctionOnSet(f, D) = (CHOOSE it : IsSum(f, D, it))[D]
BY DEF SumFunctionOnSet, FoldFunctionOnSet, MapThenFoldSet, IsSum, Summed, Picked

LEMMA PickedIn == ASSUME NEW S, S # {} PROVE Picked(S) \in S
BY DEF Picked

LEMMA Smaller ==
  ASSUME NEW D, IsFiniteSet(D), NEW S \in SUBSET D, NEW x \in S
  PROVE  /\ Cardinality(S) \in Nat \ {0} /\ Cardinality(S \ {x}) = Cardinality(S) - 1
         /\ S \ {x} \in SUBSET D
<1>1. IsFiniteSet(S)
  BY FS_Subset
<1>2. Cardinality(S) \in Nat /\ Cardinality(S) # 0
  BY <1>1, FS_CardinalityType, FS_EmptySet
<1>3. QED
  BY <1>1, <1>2, FS_RemoveElement

(* The fold is defined: it can be built up by the size of the sets.        *)
UpTo(D, n) == {S \in SUBSET D : Cardinality(S) <= n}
IsSumUpTo(f, D, n, it) == it = [S \in UpTo(D, n) |-> Summed(f, it, S)]

LEMMA SumGrows ==
  ASSUME NEW f, NEW D, IsFiniteSet(D), NEW n \in Nat, NEW g, IsSumUpTo(f, D, n, g)
  PROVE  \E h : IsSumUpTo(f, D, n + 1, h)
<1> DEFINE h == [S \in UpTo(D, n + 1) |-> Summed(f, g, S)]
<1>1. ASSUME NEW S \in UpTo(D, n + 1) PROVE h[S] = Summed(f, h, S)
  <2>1. CASE S = {}
    BY <2>1 DEF Summed
  <2>2. CASE S # {}
    <3> DEFINE T == S \ {Picked(S)}
    <3>1. Picked(S) \in S /\ S \in SUBSET D
      BY <2>2, PickedIn DEF UpTo
    <3>2. T \in SUBSET D /\ Cardinality(T) = Cardinality(S) - 1 /\ Cardinality(S) \in Nat
      BY <3>1, Smaller
    <3>3. T \in UpTo(D, n) /\ T \in UpTo(D, n + 1)
      BY <3>2 DEF UpTo
    <3>4. h[T] = Summed(f, g, T)
      BY <3>3
    <3>5. g[T] = Summed(f, g, T)
      BY <3>3 DEF IsSumUpTo
    <3>6. h[S] = f[Picked(S)] + g[T]
      BY <2>2 DEF Summed
    <3>7. Summed(f, h, S) = f[Picked(S)] + h[T]
      BY <2>2 DEF Summed
    <3>8. QED
      BY <3>4, <3>5, <3>6, <3>7
  <2>3. QED
    BY <2>1, <2>2
<1>2. h = [S \in UpTo(D, n + 1) |-> Summed(f, h, S)]
  BY <1>1
<1>3. QED
  BY <1>2 DEF IsSumUpTo

LEMMA SumExists ==
  ASSUME NEW f, NEW D, IsFiniteSet(D)
  PROVE  \E it : IsSum(f, D, it)
<1> DEFINE N == {n \in Nat : \E it : IsSumUpTo(f, D, n, it)}
<1>1. 0 \in N
  <2> DEFINE g == [S \in UpTo(D, 0) |-> 0]
  <2>1. \A S \in UpTo(D, 0) : S = {}
    BY FS_Subset, FS_CardinalityType, FS_EmptySet DEF UpTo
  <2>2. \A S \in UpTo(D, 0) : g[S] = Summed(f, g, S)
    BY <2>1 DEF Summed
  <2>3. IsSumUpTo(f, D, 0, g)
    BY <2>2 DEF IsSumUpTo
  <2>4. QED
    BY <2>3
<1>2. \A n \in N : n + 1 \in N
  BY SumGrows
<1>3. Nat \subseteq N
  BY <1>1, <1>2, AllOfNat
<1>4. Cardinality(D) \in N
  BY <1>3, FS_CardinalityType
<1>5. PICK it : IsSumUpTo(f, D, Cardinality(D), it)
  BY <1>4
<1>6. UpTo(D, Cardinality(D)) = SUBSET D
  BY FS_Subset, FS_CardinalityType DEF UpTo
<1>7. QED
  BY <1>5, <1>6 DEF IsSum, IsSumUpTo

LEMMA SumUnfolds ==
  ASSUME NEW f, NEW D, NEW it, IsSum(f, D, it), NEW S \in SUBSET D
  PROVE  /\ S = {} => it[S] = 0
         /\ S # {} => it[S] = f[Picked(S)] + it[S \ {Picked(S)}]
BY DEF IsSum, Summed

(* It depends on nothing but the values in the set.                        *)
LEMMA SumAgrees ==
  ASSUME NEW f, NEW D, NEW it, IsSum(f, D, it), IsFiniteSet(D),
         NEW g, NEW E, NEW jt, IsSum(g, E, jt)
  PROVE  \A S \in SUBSET (D \cap E) : (\A x \in S : f[x] = g[x]) => it[S] = jt[S]
<1> DEFINE N == {n \in Nat : \A S \in SUBSET (D \cap E) :
                   Cardinality(S) = n /\ (\A x \in S : f[x] = g[x]) => it[S] = jt[S]}
<1>1. \A S \in SUBSET (D \cap E) : IsFiniteSet(S) /\ Cardinality(S) \in Nat
  BY FS_Subset, FS_CardinalityType
<1>2. 0 \in N
  <2>1. \A S \in SUBSET (D \cap E) : Cardinality(S) = 0 => S = {}
    BY <1>1, FS_EmptySet
  <2>2. \A S \in SUBSET (D \cap E) : S = {} => it[S] = jt[S]
    BY SumUnfolds
  <2>3. QED
    BY <2>1, <2>2
<1>3. ASSUME NEW n \in N PROVE n + 1 \in N
  <2> SUFFICES ASSUME NEW S \in SUBSET (D \cap E), Cardinality(S) = n + 1,
                      \A x \in S : f[x] = g[x]
               PROVE  it[S] = jt[S]
    OBVIOUS
  <2> DEFINE T == S \ {Picked(S)}
  <2>1. S # {} /\ Picked(S) \in S
    <3>1. S # {}
      BY FS_EmptySet
    <3>2. QED
      BY <3>1, PickedIn
  <2>2. T \in SUBSET (D \cap E) /\ Cardinality(T) = n
    BY <2>1, Smaller
  <2>3. it[T] = jt[T]
    BY <2>2
  <2>4. it[S] = f[Picked(S)] + it[T]
    BY <2>1, SumUnfolds
  <2>5. jt[S] = g[Picked(S)] + jt[T]
    BY <2>1, SumUnfolds
  <2>6. QED
    BY <2>1, <2>3, <2>4, <2>5
<1>4. Nat \subseteq N
  BY <1>2, <1>3, AllOfNat
<1>5. QED
  BY <1>1, <1>4

Total(f, S) == SumFunctionOnSet(f, S)

LEMMA TotalIs ==
  ASSUME NEW f, NEW D, IsFiniteSet(D), NEW it, IsSum(f, D, it), NEW S \in SUBSET D
  PROVE  Total(f, S) = it[S]
<1> DEFINE jt == CHOOSE t : IsSum(f, S, t)
<1>1. IsFiniteSet(S)
  BY FS_Subset
<1>2. IsSum(f, S, jt)
  BY <1>1, SumExists
<1>3. it[S] = jt[S]
  BY <1>2, SumAgrees
<1>4. QED
  BY <1>3, SumIsFold DEF Total

LEMMA TotalAgrees ==
  ASSUME NEW S, IsFiniteSet(S), NEW f, NEW g, \A x \in S : f[x] = g[x]
  PROVE  Total(f, S) = Total(g, S)
<1>1. PICK it : IsSum(f, S, it)
  BY SumExists
<1>2. PICK jt : IsSum(g, S, jt)
  BY SumExists
<1>3. it[S] = jt[S]
  BY <1>1, <1>2, SumAgrees
<1>4. QED
  BY <1>1, <1>2, <1>3, TotalIs

LEMMA TotalUnfolds ==
  ASSUME NEW f, NEW S, IsFiniteSet(S)
  PROVE  /\ S = {} => Total(f, S) = 0
         /\ S # {} => Total(f, S) = f[Picked(S)] + Total(f, S \ {Picked(S)})
<1>1. PICK it : IsSum(f, S, it)
  BY SumExists
<1>2. \A T \in SUBSET S : Total(f, T) = it[T]
  BY <1>1, TotalIs
<1>3. QED
  BY <1>1, <1>2, SumUnfolds, SMTT(30)

LEMMA TotalIsNat ==
  ASSUME NEW D, IsFiniteSet(D), NEW f, \A x \in D : f[x] \in Nat
  PROVE  \A S \in SUBSET D : Total(f, S) \in Nat
<1> DEFINE N == {n \in Nat : \A S \in SUBSET D : Cardinality(S) = n => Total(f, S) \in Nat}
<1>1. \A S \in SUBSET D : IsFiniteSet(S) /\ Cardinality(S) \in Nat
  BY FS_Subset, FS_CardinalityType
<1>2. 0 \in N
  BY <1>1, FS_EmptySet, TotalUnfolds
<1>3. ASSUME NEW n \in N PROVE n + 1 \in N
  <2> SUFFICES ASSUME NEW S \in SUBSET D, Cardinality(S) = n + 1 PROVE Total(f, S) \in Nat
    OBVIOUS
  <2>1. S # {} /\ IsFiniteSet(S)
    BY <1>1, FS_EmptySet
  <2>2. Picked(S) \in S
    BY <2>1, PickedIn
  <2>3. S \ {Picked(S)} \in SUBSET D /\ Cardinality(S \ {Picked(S)}) = n
    BY <2>2, Smaller
  <2>4. f[Picked(S)] \in Nat /\ Total(f, S \ {Picked(S)}) \in Nat
    BY <2>2, <2>3
  <2>5. QED
    BY <2>1, <2>4, TotalUnfolds
<1>4. Nat \subseteq N
  BY <1>2, <1>3, AllOfNat
<1>5. QED
  BY <1>1, <1>4

(* Any element may be the last that is added.                              *)
LEMMA TotalOfNats ==
  ASSUME NEW D, IsFiniteSet(D), NEW f, \A x \in D : f[x] \in Nat
  PROVE  \A x \in D : Total(f, D) = f[x] + Total(f, D \ {x})
<1> DEFINE Good(S) == \A x \in S : Total(f, S) = f[x] + Total(f, S \ {x})
           N == {n \in Nat : \A S \in SUBSET D : Cardinality(S) = n => Good(S)}
<1>1. \A S \in SUBSET D : IsFiniteSet(S) /\ Cardinality(S) \in Nat
  BY FS_Subset, FS_CardinalityType
<1>2. 0 \in N
  <2>1. \A S \in SUBSET D : Cardinality(S) = 0 => S = {}
    BY <1>1, FS_EmptySet
  <2>2. \A S \in SUBSET D : S = {} => Good(S)
    OBVIOUS
  <2>3. QED
    BY <2>1, <2>2
<1>3. ASSUME NEW n \in N PROVE n + 1 \in N
  <2> SUFFICES ASSUME NEW S \in SUBSET D, Cardinality(S) = n + 1 PROVE Good(S)
    OBVIOUS
  <2> DEFINE y == Picked(S)
  <2>1. S # {} /\ y \in S /\ IsFiniteSet(S)
    BY <1>1, FS_EmptySet, PickedIn
  <2>2. \A x \in S : S \ {x} \in SUBSET D /\ Cardinality(S \ {x}) = n
    BY Smaller
  <2>3. \A x \in S : Good(S \ {x})
    BY <2>2
  <2>4. Total(f, S) = f[y] + Total(f, S \ {y})
    BY <2>1, TotalUnfolds
  <2>5. f[y] \in Nat
    BY <2>1
  <2>6. ASSUME NEW x \in S PROVE Total(f, S) = f[x] + Total(f, S \ {x})
    <3>1. CASE x = y
      BY <2>4, <3>1
    <3>2. CASE x # y
      <4>1. PICK rest \in Nat : rest = Total(f, (S \ {x}) \ {y})
        BY TotalIsNat
      <4>2. (S \ {y}) \ {x} = (S \ {x}) \ {y}
        OBVIOUS
      <4>3. Total(f, S \ {y}) = f[x] + rest
        <5>1. Total(f, S \ {y}) = f[x] + Total(f, (S \ {y}) \ {x})
          BY <2>1, <2>3, <3>2
        <5>2. QED
          BY <4>1, <4>2, <5>1
      <4>4. Total(f, S \ {x}) = f[y] + rest
        BY <2>1, <2>3, <3>2, <4>1
      <4>5. f[x] \in Nat
        OBVIOUS
      <4>6. QED
        BY <2>4, <2>5, <4>3, <4>4, <4>5
    <3>3. QED
      BY <3>1, <3>2
  <2>7. QED
    BY <2>6
<1>4. Nat \subseteq N
  BY <1>2, <1>3, AllOfNat
<1>5. D \in SUBSET D /\ Cardinality(D) \in N
  BY <1>1, <1>4
<1>6. Good(D)
  BY <1>5
<1>7. QED
  BY <1>6

-----------------------------------------------------------------------------
(* Bytes of a chunk more, and of the end of a log.                         *)
Lens(s) == [i \in DOMAIN s |-> s[i].len]

LEMMA BytesIsTotal == ASSUME NEW s PROVE Bytes(s) = Total(Lens(s), DOMAIN s)
<1>1. DOMAIN Lens(s) = DOMAIN s
  BY DEF Lens
<1>2. Bytes(s) = SumFunctionOnSet(Lens(s), DOMAIN Lens(s))
  BY DEF Bytes, Log!Bytes, Lens, Log!SumFunction, Log!SumFunctionOnSet,
         Log!FoldFunctionOnSet, Log!MapThenFoldSet, SumFunctionOnSet, FoldFunctionOnSet,
         MapThenFoldSet
<1>3. QED
  BY <1>1, <1>2 DEF Total

LEMMA LensAre ==
  ASSUME NEW s \in Seq(Chunk)
  PROVE  /\ IsFiniteSet(DOMAIN s) /\ DOMAIN Lens(s) = DOMAIN s
         /\ \A i \in DOMAIN s : Lens(s)[i] = s[i].len /\ s[i].len \in Nat \ {0}
<1>1. IsFiniteSet(1..Len(s))
  BY FS_Interval
<1>2. DOMAIN s = 1..Len(s) /\ \A i \in DOMAIN s : s[i] \in Chunk
  OBVIOUS
<1>3. \A e \in Chunk : e.len \in Nat \ {0}
  BY BoundsAssumption DEF Chunk
<1>4. DOMAIN Lens(s) = DOMAIN s /\ \A i \in DOMAIN s : Lens(s)[i] = s[i].len
  BY DEF Lens
<1>5. QED
  BY <1>1, <1>2, <1>3, <1>4

LEMMA BytesIsNat == ASSUME NEW s \in Seq(Chunk) PROVE Bytes(s) \in Nat
<1>1. \A i \in DOMAIN s : Lens(s)[i] \in Nat
  BY LensAre
<1>2. Total(Lens(s), DOMAIN s) \in Nat
  BY <1>1, LensAre, TotalIsNat
<1>3. QED
  BY <1>2, BytesIsTotal

LEMMA NoBytes == Bytes(<<>>) = 0
<1>1. DOMAIN <<>> = {} /\ IsFiniteSet({})
  BY FS_EmptySet
<1>2. QED
  BY <1>1, BytesIsTotal, TotalUnfolds

LEMMA BytesOfAppend ==
  ASSUME NEW s \in Seq(Chunk), NEW e \in Chunk
  PROVE  Bytes(Append(s, e)) = Bytes(s) + e.len
<1> DEFINE t == Append(s, e)
           n == Len(s) + 1
<1>1. /\ t \in Seq(Chunk) /\ DOMAIN t = DOMAIN s \cup {n} /\ n \notin DOMAIN s
      /\ t[n] = e /\ \A i \in DOMAIN s : t[i] = s[i]
  OBVIOUS
<1>2. \A i \in DOMAIN t : Lens(t)[i] \in Nat
  BY <1>1, LensAre
<1>3. IsFiniteSet(DOMAIN t) /\ IsFiniteSet(DOMAIN s)
  BY <1>1, LensAre
<1>4. n \in DOMAIN t /\ DOMAIN t \ {n} = DOMAIN s /\ DOMAIN t \in SUBSET DOMAIN t
  BY <1>1
<1>5. Total(Lens(t), DOMAIN t) = Lens(t)[n] + Total(Lens(t), DOMAIN t \ {n})
  <2>1. PICK f, D : f = Lens(t) /\ D = DOMAIN t
    OBVIOUS
  <2>2. IsFiniteSet(D)
    BY <1>3, <2>1
  <2>3. \A x \in D : f[x] \in Nat
    BY <1>2, <2>1
  <2>4. \A x \in D : Total(f, D) = f[x] + Total(f, D \ {x})
    BY <2>2, <2>3, TotalOfNats
  <2>5. n \in D
    BY <1>4, <2>1
  <2>6. QED
    BY <2>1, <2>4, <2>5
<1>6. Lens(t)[n] = e.len
  BY <1>1, <1>4 DEF Lens
<1>7. \A i \in DOMAIN s : Lens(t)[i] = Lens(s)[i]
  BY <1>1, LensAre
<1>8. Total(Lens(t), DOMAIN s) = Total(Lens(s), DOMAIN s)
  BY <1>3, <1>7, TotalAgrees
<1>9. e.len \in Nat
  BY BoundsAssumption DEF Chunk
<1>10. Bytes(t) = e.len + Bytes(s)
  BY <1>4, <1>5, <1>6, <1>8, BytesIsTotal
<1>11. QED
  BY <1>9, <1>10, BytesIsNat

-----------------------------------------------------------------------------
LEMMA ChunkLen == \A e \in Chunk : e.len \in Nat \ {0}
BY BoundsAssumption DEF Chunk

(* Bytes of the first chunk and of the rest, for logs of any length.       *)
LEMMA BytesOfOne ==
  ASSUME NEW s \in Seq(Chunk), Len(s) = 1
  PROVE  Bytes(s) = s[1].len /\ Tail(s) = <<>>
<1>1. PICK u \in Seq(Chunk), e \in Chunk : s = Append(u, e)
  BY SequenceEmptyOrAppend
<1>2. u = <<>> /\ s[1] = e
  BY <1>1
<1>3. Bytes(s) = Bytes(<<>>) + e.len /\ e.len \in Nat
  BY <1>1, <1>2, BytesOfAppend, ChunkLen
<1>4. Tail(s) = <<>>
  BY <1>1, <1>2, HeadTailAppend
<1>5. QED
  BY <1>2, <1>3, <1>4, NoBytes

LEMMA BytesOfTail ==
  ASSUME NEW s \in Seq(Chunk), s # <<>>
  PROVE  Bytes(s) = s[1].len + Bytes(Tail(s))
<1> DEFINE Good(t) == Bytes(t) = t[1].len + Bytes(Tail(t))
           N == {n \in Nat : \A t \in Seq(Chunk) : Len(t) = n + 1 => Good(t)}
<1>1. 0 \in N
  <2> SUFFICES ASSUME NEW t \in Seq(Chunk), Len(t) = 1 PROVE Good(t)
    OBVIOUS
  <2>1. t[1] \in Chunk
    BY 1 \in 1..Len(t), ElementOfSeq
  <2>2. t[1].len \in Nat
    BY <2>1, ChunkLen
  <2>3. Bytes(t) = t[1].len /\ Bytes(Tail(t)) = 0
    BY BytesOfOne, NoBytes
  <2>4. QED
    BY <2>2, <2>3
<1>2. ASSUME NEW n \in N PROVE n + 1 \in N
  <2> SUFFICES ASSUME NEW t \in Seq(Chunk), Len(t) = n + 2 PROVE Good(t)
    OBVIOUS
  <2>1. PICK u \in Seq(Chunk), e \in Chunk : t = Append(u, e)
    <3>1. t # <<>>
      OBVIOUS
    <3>2. QED
      BY <3>1, SequenceEmptyOrAppend
  <2>2. Len(u) = n + 1 /\ u # <<>> /\ t[1] = u[1] /\ u[1] \in Chunk
    BY <2>1
  <2>3. Good(u)
    BY <2>2
  <2>4. Tail(t) = Append(Tail(u), e) /\ Tail(u) \in Seq(Chunk)
    BY <2>1, <2>2, HeadTailAppend
  <2>5. Bytes(t) = Bytes(u) + e.len /\ Bytes(Tail(t)) = Bytes(Tail(u)) + e.len
    BY <2>1, <2>4, BytesOfAppend
  <2>6. Bytes(Tail(u)) \in Nat /\ e.len \in Nat /\ u[1].len \in Nat
    BY <2>2, <2>4, BytesIsNat, ChunkLen
  <2>7. QED
    BY <2>2, <2>3, <2>5, <2>6
<1>3. Nat \subseteq N
  BY <1>1, <1>2, AllOfNat
<1>4. Len(s) - 1 \in Nat
  OBVIOUS
<1>5. QED
  BY <1>3, <1>4

LEMMA BytesCoverLen == ASSUME NEW s \in Seq(Chunk) PROVE Len(s) <= Bytes(s)
<1> DEFINE N == {n \in Nat : \A t \in Seq(Chunk) : Len(t) = n => Len(t) <= Bytes(t)}
<1>1. 0 \in N
  <2>1. \A t \in Seq(Chunk) : Len(t) = 0 => t = <<>>
    OBVIOUS
  <2>2. QED
    BY <2>1, NoBytes
<1>2. ASSUME NEW n \in N PROVE n + 1 \in N
  <2> SUFFICES ASSUME NEW t \in Seq(Chunk), Len(t) = n + 1 PROVE Len(t) <= Bytes(t)
    OBVIOUS
  <2>1. PICK u \in Seq(Chunk), e \in Chunk : t = Append(u, e)
    <3>1. t # <<>>
      OBVIOUS
    <3>2. QED
      BY <3>1, SequenceEmptyOrAppend
  <2>2. Len(u) = n
    BY <2>1
  <2>3. Len(u) <= Bytes(u) /\ Bytes(u) \in Nat
    BY <2>2, BytesIsNat
  <2>4. e.len \in Nat \ {0} /\ Bytes(t) = Bytes(u) + e.len
    BY <2>1, BytesOfAppend, ChunkLen
  <2>5. QED
    BY <2>2, <2>3, <2>4
<1>3. Nat \subseteq N
  BY <1>1, <1>2, AllOfNat
<1>4. QED
  BY <1>3

LEMMA FileSizeIsNat == ASSUME NEW s \in Seq(Chunk) PROVE FileSize(s) \in Nat
BY BytesIsNat, BoundsAssumption DEF FileSize

LEMMA FromIs ==
  ASSUME NEW s \in Seq(Chunk), NEW k \in 1..Len(s)
  PROVE  /\ From(s, k) \in Seq(Chunk) /\ Len(From(s, k)) = Len(s) - k + 1
         /\ \A i \in 1..Len(From(s, k)) : From(s, k)[i] = s[k + i - 1]
BY DEF From, Log!From

LEMMA FromNext ==
  ASSUME NEW s \in Seq(Chunk), NEW k \in 1..Len(s)
  PROVE  /\ From(s, k + 1) \in Seq(Chunk)
         /\ Bytes(From(s, k)) = s[k].len + Bytes(From(s, k + 1))
<1>1. From(s, k) \in Seq(Chunk) /\ From(s, k) # <<>> /\ From(s, k)[1] = s[k]
  BY FromIs
<1>2. Tail(From(s, k)) = From(s, k + 1)
  <2>1. Len(s) \in k..Len(s)
    OBVIOUS
  <2>2. QED
    BY <2>1, HeadTailOfSubSeq DEF From, Log!From
<1>3. From(s, k + 1) \in Seq(Chunk)
  BY <1>1, <1>2, HeadTailProperties
<1>4. Bytes(From(s, k)) = From(s, k)[1].len + Bytes(Tail(From(s, k)))
  BY <1>1, BytesOfTail
<1>5. QED
  BY <1>1, <1>2, <1>3, <1>4

-----------------------------------------------------------------------------
(* The typing invariant.                                                   *)
LEMMA RecordedTyped ==
  ASSUME TypeOK, NEW len \in Lengths
  PROVE  Recorded(len) \in Seq(Chunk)
<1>1. [id |-> appended + 1, len |-> len] \in Chunk
  BY DEF TypeOK, Chunk
<1>2. QED
  BY <1>1 DEF TypeOK, Recorded

LEMMA GapTyped ==
  ASSUME TypeOK, NEW bytes \in Nat
  PROVE  GapAfter(bytes) \in Nat \cup {OutOfStep}
BY DEF TypeOK, GapAfter

LEMMA TornTyped ==
  ASSUME TypeOK, NEW len \in Lengths, NEW part \in 0..(Overhead + len - 1)
  PROVE  TornGap(len, part) \in Nat \cup {OutOfStep}
<1>1. part \in Nat /\ Overhead + len - part \in Nat
  BY BoundsAssumption
<1>2. QED
  BY <1>1, GapTyped DEF TornGap

LEMMA TakesTyped ==
  ASSUME TypeOK, NEW len \in Lengths, Takes(len)
  PROVE  appended' \in 0..MaxAppends
BY BoundsAssumption DEF TypeOK, Takes

LEMMA UntouchedTyped ==
  ASSUME TypeOK, NEW len \in Lengths, Untouched(len)
  PROVE  /\ chunks' \in Seq(Chunk) /\ size' \in Nat /\ gap' \in Nat \cup {OutOfStep}
         /\ orphaned' \in BOOLEAN
<1>1. len \in Nat /\ Overhead + len \in Nat /\ size \in Nat
  BY BoundsAssumption DEF TypeOK
<1>2. gap' \in Nat \cup {OutOfStep}
  BY <1>1, GapTyped DEF Untouched
<1>3. size' \in Nat
  BY <1>1, BoundsAssumption DEF Untouched, RecordedSize
<1>4. chunks' \in Seq(Chunk) /\ orphaned' \in BOOLEAN
  BY RecordedTyped DEF Untouched, TypeOK
<1>5. QED
  BY <1>2, <1>3, <1>4

LEMMA CountedTyped == ASSUME TypeOK, NEW len \in Lengths PROVE Counted(len) \in Nat
BY BoundsAssumption DEF TypeOK, Counted

LEMMA KeptTyped ==
  ASSUME TypeOK, NEW len \in Lengths, NEW k \in Starts(Recorded(len))
  PROVE  /\ From(Recorded(len), k) \in Seq(Chunk)
         /\ FileSize(From(Recorded(len), k)) \in Nat
<1>1. k \in 1..Len(Recorded(len))
  BY DEF Starts
<1>2. QED
  BY <1>1, RecordedTyped, FromIs, FileSizeIsNat

LEMMA ReplacesTyped ==
  ASSUME TypeOK, NEW len \in Lengths, Replaces(len)
  PROVE  /\ chunks' \in Seq(Chunk) /\ size' \in Nat /\ bytes_written' \in Nat
         /\ gap' \in Nat \cup {OutOfStep} /\ appended' \in 0..MaxAppends
<1>1. PICK k \in Starts(Recorded(len)) : chunks' = From(Recorded(len), k)
  BY DEF Replaces
<1>2. size' = FileSize(chunks') /\ bytes_written' = FileSize(chunks') /\ gap' = 0
  BY DEF Replaces
<1>3. chunks' \in Seq(Chunk) /\ FileSize(chunks') \in Nat
  BY <1>1, KeptTyped
<1>4. QED
  BY <1>2, <1>3, TakesTyped DEF Replaces

LEMMA AppendTyped ==
  ASSUME TypeOK, NEW len \in Lengths, AppendChunk(len)
  PROVE  TypeOK'
<1>1. CASE WriteFails(len)
  <2>1. PICK part \in 0..(Overhead + len - 1) :
          gap' = TornGap(len, part) /\ size' = IF orphaned THEN size ELSE size + part
    BY <1>1 DEF WriteFails, WriteFailsCounting
  <2>2. gap' \in Nat \cup {OutOfStep}
    BY <2>1, TornTyped
  <2>3. size' \in Nat
    BY <2>1 DEF TypeOK
  <2>4. /\ appended' \in 0..MaxAppends
        /\ chunks' = chunks /\ bytes_written' = bytes_written /\ orphaned' = orphaned
        /\ Returns("failed")
    BY <1>1, TakesTyped DEF WriteFails, WriteFailsCounting
  <2>5. QED
    BY <2>2, <2>3, <2>4 DEF TypeOK, Returns
<1>2. CASE AppendFits(len) \/ TruncateFindsNothing(len) \/ RewriteFails(len)
           \/ RenameFails(len)
  <2>1. Untouched(len) /\ appended' \in 0..MaxAppends
    BY <1>2, TakesTyped
       DEF AppendFits, TruncateFindsNothing, RewriteFails, RenameFails
  <2>2. bytes_written' \in Nat
    BY <1>2, CountedTyped, KeptTyped
       DEF AppendFits, TruncateFindsNothing, RewriteFails, RenameFails
  <2>3. faulty' \in BOOLEAN /\ result' \in {"none", "ok", "failed"}
    BY <1>2 DEF AppendFits, TruncateFindsNothing, RewriteFails, RenameFails, Returns,
                TypeOK
  <2>4. QED
    BY <2>1, <2>2, <2>3, UntouchedTyped DEF TypeOK
<1>3. CASE ReopenFails(len) \/ Truncates(len)
  <2>1. Replaces(len) /\ orphaned' \in BOOLEAN
    BY <1>3 DEF ReopenFails, Truncates
  <2>2. faulty' \in BOOLEAN /\ result' \in {"none", "ok", "failed"}
    BY <1>3 DEF ReopenFails, Truncates, Returns, TypeOK
  <2>3. QED
    BY <2>1, <2>2, ReplacesTyped DEF TypeOK
<1>4. QED
  BY <1>1, <1>2, <1>3 DEF AppendChunk

LEMMA InitTyped == Init => TypeOK
<1>1. <<>> \in Seq(Chunk) /\ 0 \in 0..MaxAppends
  BY BoundsAssumption
<1>2. 0 \in Nat /\ FALSE \in BOOLEAN
  OBVIOUS
<1>3. QED
  BY <1>1, <1>2, Zenon DEF Init, TypeOK

(* history.rs:83-96: the sizes that are counted are numbers of bytes, and  *)
(* what a torn chunk claims is one, or the reader is out of step.          *)
THEOREM TypeCorrect == Spec => []TypeOK
<1>1. Init => TypeOK
  BY InitTyped
<1>2. TypeOK /\ [Next]_vars => TypeOK'
  <2>1. ASSUME TypeOK, Next PROVE TypeOK'
    BY <2>1, AppendTyped DEF Next
  <2>2. ASSUME TypeOK, UNCHANGED vars PROVE TypeOK'
    BY <2>2 DEF vars, TypeOK
  <2>3. QED
    BY <2>1, <2>2
<1>3. QED
  BY <1>1, <1>2, PTL DEF Spec

-----------------------------------------------------------------------------
(* A limit that leaves room: a log over it has so many bytes that half of  *)
(* them is more than the largest chunk that tips it over and the largest   *)
(* one that is kept whole.  For reads of 8192 bytes (pty.rs:285) 32 bytes  *)
(* of overhead ask for about a hundredth of MAX_TRANSCRIPT_SIZE.           *)
Ample(M) ==
  /\ M \in Nat /\ \A len \in Lengths : len <= M
  /\ 2 * ((Overhead + 1) * (2 * M + Overhead)) <= MaxSize

Numbered(s, n) == \A i \in DOMAIN s : s[i].id = n - Len(s) + i

Sound ==
  /\ gap = 0 /\ ~orphaned
  /\ Numbered(chunks, appended) /\ (appended > 0 => chunks # <<>>)
  /\ bytes_written = size /\ size = FileSize(chunks) /\ size <= MaxSize

WholeInv == TypeOK /\ (~faulty => Sound)

LEMMA Product ==
  ASSUME NEW a \in Nat, NEW b \in Nat, NEW c \in Nat, b <= c
  PROVE  a * b \in Nat /\ a * b <= a * c
OBVIOUS

LEMMA Spread ==
  ASSUME NEW a \in Nat, NEW b \in Nat
  PROVE  a * (b + 1) = a * b + a /\ (a + 1) * b = a * b + b
OBVIOUS

LEMMA Doubled ==
  ASSUME NEW a \in Nat, NEW b \in Nat
  PROVE  2 * (a * b) = a * (2 * b)
OBVIOUS

(* Too large a log has many bytes in its chunks.                           *)
LEMMA ManyBytes ==
  ASSUME NEW M, Ample(M), NEW s \in Seq(Chunk), FileSize(s) > MaxSize
  PROVE  2 * (2 * M + Overhead) < Bytes(s)
<1> DEFINE b == Bytes(s)
           d == 2 * M + Overhead
<1>1. /\ b \in Nat /\ Len(s) \in Nat /\ Len(s) <= b
      /\ M \in Nat /\ Overhead \in Nat /\ MaxSize \in Nat
      /\ d \in Nat /\ 2 * d \in Nat /\ Overhead + 1 \in Nat
  BY BytesIsNat, BytesCoverLen, BoundsAssumption DEF Ample
<1>2. FileSize(s) = b + Overhead * Len(s)
  BY DEF FileSize
<1>3. Overhead * Len(s) <= Overhead * b /\ Overhead * Len(s) \in Nat /\ Overhead * b \in Nat
  BY <1>1, Product
<1>4. (Overhead + 1) * b = Overhead * b + b
  BY <1>1, Spread
<1>5. MaxSize < (Overhead + 1) * b
  BY <1>1, <1>2, <1>3, <1>4
<1>6. (Overhead + 1) * (2 * d) <= MaxSize
  <2>1. 2 * ((Overhead + 1) * d) <= MaxSize
    BY DEF Ample
  <2>2. 2 * ((Overhead + 1) * d) = (Overhead + 1) * (2 * d)
    BY <1>1, Doubled
  <2>3. QED
    BY <2>1, <2>2
<1>7. ASSUME b <= 2 * d PROVE FALSE
  <2>1. (Overhead + 1) * b <= (Overhead + 1) * (2 * d)
    BY <1>1, <1>7, Product
  <2>2. (Overhead + 1) * b \in Nat /\ (Overhead + 1) * (2 * d) \in Nat
    BY <1>1, Product
  <2>3. QED
    BY <1>1, <1>5, <1>6, <2>1, <2>2
<1>8. QED
  BY <1>1, <1>7

(* What is kept is half of the bytes and one chunk at most.                *)
LEMMA KeptBytes ==
  ASSUME NEW M, Ample(M), NEW s \in Seq(Chunk), NEW k \in Starts(s)
  PROVE  Bytes(From(s, k)) <= M + Bytes(s) \div 2
<1> DEFINE half == Bytes(s) \div 2
<1>1. k \in 1..Len(s) /\ \A j \in k+1..Len(s) : ~(Bytes(From(s, j)) >= half)
  BY DEF Starts
<1>2. half \in Nat
  BY BytesIsNat
<1>3. s[k] \in Chunk
  BY <1>1
<1>4. s[k].len \in Nat /\ s[k].len <= M /\ M \in Nat
  BY <1>3, ChunkLen DEF Ample, Chunk
<1>5. Bytes(From(s, k + 1)) \in Nat
  BY <1>1, FromNext, BytesIsNat
<1>6. Bytes(From(s, k + 1)) <= half
  <2>1. CASE k = Len(s)
    <3>1. From(s, k + 1) = <<>>
      BY <1>1, <2>1, SubSeqEmpty DEF From, Log!From
    <3>2. QED
      BY <1>2, <3>1, NoBytes
  <2>2. CASE k # Len(s)
    <3>1. k + 1 \in k+1..Len(s)
      BY <1>1, <2>2
    <3>2. QED
      BY <1>1, <1>2, <1>5, <3>1
  <2>3. QED
    BY <2>1, <2>2
<1>7. Bytes(From(s, k)) = s[k].len + Bytes(From(s, k + 1))
  BY <1>1, FromNext
<1>8. QED
  BY <1>2, <1>4, <1>5, <1>6, <1>7

LEMMA Room ==
  ASSUME NEW o \in Nat, NEW m \in Nat, NEW limit \in Nat, NEW b \in Nat, NEW h \in Nat,
         NEW b2 \in Nat, NEW p \in Nat, NEW p2 \in Nat,
         b + p <= limit + o + m, b2 <= m + h, 2 * m + o <= b - h, p2 <= p
  PROVE  b2 + p2 <= limit
OBVIOUS

LEMMA KeptFits ==
  ASSUME NEW M, Ample(M), NEW s \in Seq(Chunk), NEW k \in Starts(s),
         FileSize(s) > MaxSize, FileSize(s) <= MaxSize + Overhead + M
  PROVE  FileSize(From(s, k)) <= MaxSize
<1> DEFINE b == Bytes(s)
           half == b \div 2
           r == From(s, k)
<1>1. k \in 1..Len(s)
  BY DEF Starts
<1>2. r \in Seq(Chunk) /\ Len(r) \in Nat /\ Len(r) <= Len(s)
  BY <1>1, FromIs
<1>3. Overhead \in Nat /\ M \in Nat /\ MaxSize \in Nat /\ b \in Nat /\ Bytes(r) \in Nat
  BY <1>2, BytesIsNat, BoundsAssumption, SMTT(30) DEF Ample
<1>4. Overhead * Len(r) <= Overhead * Len(s) /\ Overhead * Len(r) \in Nat
      /\ Overhead * Len(s) \in Nat
  BY <1>2, <1>3, Product
<1>5. FileSize(r) = Bytes(r) + Overhead * Len(r) /\ FileSize(s) = b + Overhead * Len(s)
  BY DEF FileSize
<1>6. half \in Nat /\ 2 * half <= b
  BY <1>3
<1>7. Bytes(r) <= M + half /\ 2 * (2 * M + Overhead) < b
  BY KeptBytes, ManyBytes
<1>8. 2 * M + Overhead <= b - half
  BY <1>3, <1>6, <1>7, SMTT(30)
<1>9. b + Overhead * Len(s) <= MaxSize + Overhead + M
  BY <1>5
<1>10. Bytes(r) + Overhead * Len(r) <= MaxSize
  <2> HIDE DEF half, b, r
  <2>1. QED
    BY <1>3, <1>4, <1>6, <1>7, <1>8, <1>9, Room
<1>11. QED
  BY <1>5, <1>10

-----------------------------------------------------------------------------
(* An append that goes well, and the truncation it may need, keep the log  *)
(* sound.                                                                  *)
LEMMA RecordedSound ==
  ASSUME TypeOK, Sound, NEW len \in Lengths
  PROVE  /\ Recorded(len) \in Seq(Chunk) /\ Recorded(len) # <<>>
         /\ Numbered(Recorded(len), appended + 1)
         /\ FileSize(Recorded(len)) = Counted(len) /\ RecordedSize(len) = Counted(len)
<1> DEFINE new == [id |-> appended + 1, len |-> len]
           s == Append(chunks, new)
<1>1. /\ Recorded(len) = s /\ new \in Chunk /\ new.id = appended + 1 /\ new.len = len
      /\ chunks \in Seq(Chunk) /\ appended \in Nat /\ len \in Nat
  BY BoundsAssumption DEF TypeOK, Sound, Recorded, Chunk
<1>2. /\ s \in Seq(Chunk) /\ s # <<>> /\ Len(s) = Len(chunks) + 1
      /\ \A i \in DOMAIN s : \/ i \in DOMAIN chunks /\ s[i] = chunks[i]
                             \/ i = Len(s) /\ s[i] = new
  BY <1>1
<1>3. Numbered(s, appended + 1)
  BY <1>1, <1>2 DEF Sound, Numbered
<1>4. Bytes(s) = Bytes(chunks) + len /\ Bytes(chunks) \in Nat
  BY <1>1, BytesOfAppend, BytesIsNat
<1>5. Overhead * Len(s) = Overhead * Len(chunks) + Overhead /\ Overhead * Len(chunks) \in Nat
  BY <1>1, <1>2, Spread, Product, BoundsAssumption
<1>6. FileSize(s) = FileSize(chunks) + Overhead + len
  BY <1>1, <1>4, <1>5, BoundsAssumption DEF FileSize
<1>7. QED
  BY <1>1, <1>2, <1>3, <1>6 DEF Sound, Counted, RecordedSize

LEMMA SuffixNumbered ==
  ASSUME NEW s \in Seq(Chunk), NEW n \in Nat, Numbered(s, n), NEW k \in 1..Len(s)
  PROVE  Numbered(From(s, k), n) /\ From(s, k) # <<>>
<1> DEFINE r == From(s, k)
<1>1. r \in Seq(Chunk) /\ Len(r) = Len(s) - k + 1 /\ \A i \in 1..Len(r) : r[i] = s[k + i - 1]
  BY FromIs
<1>2. \A i \in DOMAIN r : i \in Nat /\ k + i - 1 \in DOMAIN s /\ r[i] = s[k + i - 1]
  <2>1. DOMAIN r = 1..Len(r) /\ DOMAIN s = 1..Len(s)
    BY <1>1
  <2>2. QED
    BY <1>1, <2>1
<1>3. \A i \in DOMAIN r : r[i].id = n - Len(s) + (k + i - 1)
  BY <1>2 DEF Numbered
<1>4. Numbered(r, n)
  BY <1>1, <1>2, <1>3 DEF Numbered
<1>5. QED
  BY <1>1, <1>4

LEMMA FaultlessAppend ==
  ASSUME TypeOK, Sound, NEW len \in Lengths, AppendChunk(len), ~faulty'
  PROVE  AppendFits(len) \/ Truncates(len)
<1>1. Recorded(len) # <<>>
  BY RecordedSound
<1>2. QED
  BY <1>1 DEF AppendChunk, WriteFails, WriteFailsCounting, TruncateFindsNothing,
              RewriteFails, RenameFails, ReopenFails, Returns

LEMMA AppendSound ==
  ASSUME NEW M, Ample(M), TypeOK, Sound, NEW len \in Lengths, AppendChunk(len), ~faulty'
  PROVE  Sound'
<1> DEFINE s == Recorded(len)
<1>1. /\ s \in Seq(Chunk) /\ s # <<>> /\ Numbered(s, appended + 1)
      /\ FileSize(s) = Counted(len) /\ RecordedSize(len) = Counted(len)
  BY RecordedSound
<1>2. appended' = appended + 1 /\ appended' \in Nat
  BY EveryAppend DEF TypeOK
<1>3. CASE AppendFits(len)
  <2>1. /\ chunks' = s /\ size' = RecordedSize(len) /\ gap' = 0 /\ orphaned' = orphaned
        /\ bytes_written' = Counted(len) /\ Counted(len) <= MaxSize
    BY <1>3 DEF AppendFits, Untouched, Sound
  <2>2. QED
    BY <1>1, <1>2, <2>1 DEF Sound
<1>4. CASE Truncates(len)
  <2>1. PICK k \in Starts(s) : chunks' = From(s, k)
    BY <1>4 DEF Truncates, Replaces
  <2>2. /\ size' = FileSize(chunks') /\ bytes_written' = FileSize(chunks')
        /\ gap' = 0 /\ ~orphaned' /\ Counted(len) > MaxSize
    BY <1>4 DEF Truncates, Replaces
  <2>3. k \in 1..Len(s)
    BY DEF Starts
  <2>4. Numbered(chunks', appended') /\ chunks' # <<>>
    BY <1>1, <1>2, <2>1, <2>3, SuffixNumbered
  <2>5. Counted(len) <= MaxSize + Overhead + M
    <3>1. bytes_written \in Nat /\ bytes_written <= MaxSize
      BY DEF Sound, TypeOK
    <3>2. len \in Nat /\ len <= M /\ M \in Nat /\ MaxSize \in Nat /\ Overhead \in Nat
      BY BoundsAssumption DEF Ample
    <3>3. QED
      BY <3>1, <3>2 DEF Counted
  <2>6. FileSize(chunks') <= MaxSize
    BY <1>1, <2>1, <2>2, <2>5, KeptFits
  <2>7. QED
    BY <2>2, <2>4, <2>6 DEF Sound
<1>5. QED
  BY <1>3, <1>4, FaultlessAppend

(* history.rs:205-212: for a limit that leaves room for the largest        *)
(* chunks, as long as no operation fails the newest chunks are there       *)
(* without a gap, bytes_written is the size of the file, and a truncation  *)
(* brings it back within its limit.                                        *)
THEOREM WholeHolds == ASSUME NEW CONSTANT M, Ample(M) PROVE Spec => []Whole
<1>1. Init => WholeInv
  <2>1. ASSUME Init PROVE Sound
    <3>1. FileSize(<<>>) = 0
      BY NoBytes, BoundsAssumption DEF FileSize
    <3>2. QED
      BY <2>1, <3>1, BoundsAssumption DEF Init, Sound, Numbered
  <2>2. QED
    BY <2>1, InitTyped DEF WholeInv
<1>2. WholeInv /\ [Next]_vars => WholeInv'
  <2>1. ASSUME WholeInv, NEW len \in Lengths, AppendChunk(len) PROVE WholeInv'
    <3>1. TypeOK'
      BY <2>1, AppendTyped DEF WholeInv
    <3>2. faulty => faulty'
      BY <2>1 DEF AppendChunk, WriteFails, WriteFailsCounting, AppendFits,
                  TruncateFindsNothing, RewriteFails, RenameFails, ReopenFails, Truncates,
                  Returns
    <3>3. ~faulty' => Sound'
      BY <2>1, <3>2, AppendSound DEF WholeInv
    <3>4. QED
      BY <3>1, <3>3 DEF WholeInv
  <2>2. ASSUME WholeInv, UNCHANGED vars PROVE WholeInv'
    BY <2>2 DEF vars, WholeInv, TypeOK, Sound
  <2>3. QED
    BY <2>1, <2>2 DEF Next
<1>3. WholeInv => Whole
  BY DEF WholeInv, Sound, Whole, Numbered
<1>4. QED
  BY <1>1, <1>2, <1>3, PTL DEF Spec
=============================================================================
