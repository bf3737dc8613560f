--------------------------- MODULE Commands_proof ---------------------------
(***************************************************************************)
(* For any sessions, directories and commands, however many pollers write  *)
(* at once, and whichever of their writes and renames fail: last_cwd holds *)
(* the directory that was persisted last, unless pollers have overlapped   *)
(* and none has written alone since then;                                  *)
(* a terminal is not attached to the session it runs in; sessions share a  *)
(* generated name only if they were created at once; and a command acts on *)
(* what its target denotes in the table the user has seen.                 *)
(*                                                                         *)
(* A poller that is alone finds its own bytes in the temporary file when   *)
(* it renames it; as long as nothing is mixed, whoever is between open and *)
(* rename is alone.  A session has no poller before it is spawned, so a    *)
(* spawn never takes a poller away in the middle of a write.               *)
(***************************************************************************)
EXTENDS Commands, FiniteSetTheorems, TLAPS

PollerPc == {"none", "sleeps", "opens", "writes", "renames", "done"}

Types ==
  /\ dir \in [Sessions -> Dirs]
  /\ poller \in [Sessions -> PollerPc]
  /\ last_cwd \in [Sessions -> Dirs \cup {<<>>}]
  /\ handle \in [Sessions -> Places]

OpenIsInside == \A s \in Sessions : Inside(s) <=> poller[s] \in {"writes", "renames"}

HasTmp(s) ==
  /\ Inside(s) /\ handle[s] = "tmp"
  /\ \A o \in Sessions \ {s} : ~Inside(o)
  /\ poller[s] = "writes" => tmp = <<>>
  /\ poller[s] = "renames" => tmp = last_cwd[s]

AloneHasTmp == \A s \in Sessions : alone = s => HasTmp(s)

UnmixedIsAlone == ~mixed => \A s \in Sessions : Inside(s) => alone = s

(* What pollers and files have to do with each other.                      *)
CwdInv == Types /\ OpenIsInside /\ AloneHasTmp /\ UnmixedIsAlone /\ LastCwdKept

Unspawned ==
  /\ creating \in [Sessions -> {"no", "named", "spawned", "done"}]
  /\ \A s \in Sessions : creating[s] \in {"no", "named"} => poller[s] = "none"

IInv == CwdInv /\ Unspawned

cwd == <<dir, poller, last_cwd, files>>

-----------------------------------------------------------------------------
(* Writing over an empty file leaves what is written.                      *)
LEMMA OverNothing == ASSUME NEW new \in Seq(Bytes) PROVE Over(new, <<>>) = new
<1>1. SubSeq(<<>>, Len(new) + 1, Len(<<>>)) = <<>>
  OBVIOUS
<1>2. QED
  BY <1>1 DEF Over

LEMMA LastCwdIsPath == ASSUME NEW s \in Sessions, Types PROVE last_cwd[s] \in Seq(Bytes)
<1>1. last_cwd[s] \in Dirs \cup {<<>>}
  BY DEF Types
<1>2. <<>> \in Seq(Bytes)
  OBVIOUS
<1>3. QED
  BY <1>1, <1>2, DirsAssumption

LEMMA InitIInv == Init => IInv
BY DirsAssumption, TargetsAssumption
   DEF Init, CwdInit, IInv, CwdInv, Types, PollerPc, Places, OpenIsInside, Inside,
       AloneHasTmp, UnmixedIsAlone, LastCwdKept, Unspawned

LEMMA CwdUnchanged == CwdInv /\ UNCHANGED cwd => CwdInv'
BY DEF CwdInv, cwd, files, Types, OpenIsInside, Inside, AloneHasTmp, HasTmp,
       UnmixedIsAlone, LastCwdKept

(* Each step of a poller.                                                  *)
LEMMA PollerKeeps == ASSUME NEW s \in Sessions, CwdInv, Poller(s) PROVE CwdInv'
<1> USE DEF CwdInv, Types, PollerPc, Places, OpenIsInside, Inside, AloneHasTmp,
            UnmixedIsAlone, LastCwdKept, HasTmp
<1>1. CASE Polls(s)
  BY <1>1 DEF Polls, At, shells, files
<1>2. CASE PollEnds(s)
  BY <1>2 DEF PollEnds, At, shells, files
<1>3. CASE Opens(s)
  <2> USE <1>3 DEF Opens, OpensTmp, At, Enters, shells
  <2>1. Types' /\ OpenIsInside' /\ LastCwdKept'
    OBVIOUS
  <2>2. AloneHasTmp'
    BY DirsAssumption
  <2>3. UnmixedIsAlone'
    OBVIOUS
  <2>4. QED
    BY <2>1, <2>2, <2>3
<1>4. CASE WritesFile(s)
  <2> USE <1>4 DEF WritesFile, Puts, At, shells
  <2>1. Types' /\ OpenIsInside' /\ UnmixedIsAlone'
    OBVIOUS
  <2>2. last_cwd[s] \in Seq(Bytes)
    BY LastCwdIsPath
  <2>3. AloneHasTmp'
    BY <2>2, OverNothing
  <2>4. LastCwdKept'
    OBVIOUS
  <2>5. QED
    BY <2>1, <2>3, <2>4
<1>5. CASE Renames(s)
  <2> USE <1>5 DEF Renames, At, shells, Moved
  <2>1. Types' /\ OpenIsInside'
    OBVIOUS
  <2>2. AloneHasTmp'
    BY DirsAssumption
  <2>3. ~mixed' => alone = s
    OBVIOUS
  <2>4. UnmixedIsAlone'
    BY <2>3
  <2>5. ~mixed' => tmp = last_cwd[s]
    BY <2>3
  <2>6. ~mixed' => tmp # NoFile
    <3>1. last_cwd[s] # NoFile
      <4>1. last_cwd[s] \in Seq(Bytes)
        BY LastCwdIsPath
      <4>2. NoFile \notin Seq(Bytes)
        BY DirsAssumption
      <4>3. QED
        BY <4>1, <4>2
    <3>2. QED
      BY <2>5, <3>1
  <2>7. LastCwdKept'
    BY <2>5, <2>6
  <2>8. QED
    BY <2>1, <2>2, <2>4, <2>7
<1>6. CASE Fails(s)
  <2>1. /\ alone' = IF alone = s THEN NoFile ELSE alone
        /\ handle' = [handle EXCEPT ![s] = "none"]
        /\ poller' = [poller EXCEPT ![s] = "sleeps"]
        /\ UNCHANGED <<dir, last_cwd, latest, mixed>>
    BY <1>6 DEF Fails, OpenFails, WriteFails, RenameFails, LeavesOff, At, shells
  <2>2. \A o \in Sessions \ {s} : handle'[o] = handle[o] /\ poller'[o] = poller[o]
    BY <2>1
  <2>3. ~Inside(s)' /\ poller'[s] = "sleeps"
    BY <2>1
  <2>4. Types' /\ OpenIsInside'
    BY <2>1, <2>2, <2>3
  <2>5. AloneHasTmp'
    <3>1. CASE Inside(s)
      <4>1. \A o \in Sessions : alone = o => o = s
        BY <3>1
      <4>2. QED
        BY <2>1, <4>1, DirsAssumption
    <3>2. CASE ~Inside(s)
      <4>1. UNCHANGED <<tmp, path>>
        BY <1>6, <3>2 DEF Fails, OpenFails, WriteFails, RenameFails, LeavesOff, At
      <4>2. QED
        BY <2>1, <2>2, <2>3, <4>1, DirsAssumption
    <3>3. QED
      BY <3>1, <3>2
  <2>6. UnmixedIsAlone'
    BY <2>1, <2>2, <2>3
  <2>7. LastCwdKept'
    <3>1. ~mixed => path' = path
      BY <1>6 DEF Fails, OpenFails, WriteFails, RenameFails, LeavesOff, At, Puts
    <3>2. QED
      BY <2>1, <3>1
  <2>8. QED
    BY <2>4, <2>5, <2>6, <2>7
<1>7. QED
  BY <1>1, <1>2, <1>3, <1>4, <1>5, <1>6 DEF Poller

(* A session that is spawned, and a shell that changes its directory.      *)
LEMMA SpawnKeeps ==
  ASSUME NEW s \in Sessions, NEW in \in Dirs, CwdInv, poller[s] = "none", Spawns(s, in)
  PROVE  CwdInv'
BY DEF Spawns, files, CwdInv, Types, PollerPc, OpenIsInside, Inside, AloneHasTmp, HasTmp,
       UnmixedIsAlone, LastCwdKept

LEMMA MoveKeeps == ASSUME NEW s \in Sessions, CwdInv, Moves(s) PROVE CwdInv'
BY DEF Moves, files, CwdInv, Types, OpenIsInside, Inside, AloneHasTmp, HasTmp,
       UnmixedIsAlone, LastCwdKept

-----------------------------------------------------------------------------
(* Commands leave the pollers and their files alone.                       *)
LEMMA CommandsKeep ==
  ASSUME IInv, \/ Others \/ Ls \/ Default \/ Switches \/ Picks \/ Attaches
               \/ Kills \/ RenamesIt \/ Leaves
               \/ \E what \in Commands, t \in Targets : Begins(what, t)
  PROVE  IInv'
<1>1. UNCHANGED <<creating, cwd>>
  BY DEF Others, Ls, Default, Switches, SwitchesTo, Picks, Attaches, Kills, RenamesIt,
         Leaves, Begins, Finds, Drops, NewName, World, creation, cwdVars, shells, cwd, files
<1>2. QED
  BY <1>1, CwdUnchanged DEF IInv, Unspawned, cwd

LEMMA CreateKeeps == ASSUME IInv, Create PROVE IInv'
<1>1. PICK s \in Sessions : NamesSession(s) \/ SpawnsSession(s) \/ Inserts(s)
  BY DEF Create
<1> USE DEF IInv, Unspawned, Creates
<1>2. CASE NamesSession(s)
  <2>1. UNCHANGED cwd
    BY <1>2 DEF NamesSession, NamesWith, cwdVars, cwd, shells
  <2>2. QED
    BY <1>2, <2>1, CwdUnchanged DEF NamesSession, NamesWith, cwd
<1>3. CASE SpawnsSession(s)
  <2>1. PICK in \in {ReadLastCwd, Home} : Spawns(s, in)
    BY <1>3 DEF SpawnsSession
  <2>2. in \in Dirs
    BY <2>1, DirsAssumption DEF ReadLastCwd
  <2>3. poller[s] = "none"
    BY <1>3 DEF SpawnsSession
  <2>4. CwdInv'
    BY <2>1, <2>2, <2>3, SpawnKeeps
  <2>5. Unspawned'
    BY <1>3, <2>1 DEF SpawnsSession, Spawns, CwdInv, Types
  <2>6. QED
    BY <2>4, <2>5
<1>4. CASE Inserts(s)
  <2>1. UNCHANGED cwd
    BY <1>4 DEF Inserts, cwdVars, cwd, shells
  <2>2. QED
    BY <1>4, <2>1, CwdUnchanged DEF Inserts, cwd
<1>5. QED
  BY <1>1, <1>2, <1>3, <1>4

LEMMA ShellsKeep == ASSUME IInv, ShellOrPoller PROVE IInv'
<1>1. PICK s \in Sessions : Moves(s) \/ Poller(s) \/ (Does("shells") /\ ShellEnds(s))
  BY DEF ShellOrPoller
<1>2. creating' = creating
  BY DEF ShellOrPoller, creation
<1>3. CwdInv'
  BY <1>1, MoveKeeps, PollerKeeps, CwdUnchanged DEF IInv, ShellEnds, cwd
<1>4. Unspawned'
  BY <1>1, <1>2
     DEF IInv, Unspawned, CwdInv, Types, Moves, ShellEnds, Poller, Polls, PollEnds, Opens,
         OpensTmp, WritesFile, Renames, Fails, OpenFails, WriteFails, RenameFails, LeavesOff, At
<1>5. QED
  BY <1>3, <1>4 DEF IInv

LEMMA NextIInv == IInv /\ [Next]_vars => IInv'
<1> SUFFICES ASSUME IInv, [Next]_vars PROVE IInv'
  OBVIOUS
<1>1. CASE UNCHANGED vars
  BY <1>1, CwdUnchanged DEF IInv, Unspawned, vars, creation, cwdVars, shells, cwd
<1>2. CASE Next
  BY <1>2, CommandsKeep, CreateKeeps, ShellsKeep DEF Next
<1>3. QED
  BY <1>1, <1>2

(* pty.rs:474-482: last_cwd holds what was persisted last, for any number  *)
(* of sessions and whatever users do, until two pollers overlap, and again *)
(* once one has written alone; also when the disk is full, or a file       *)
(* cannot be opened or renamed.                                            *)
THEOREM LastCwdKeptHolds == Spec => []LastCwdKept
<1>1. IInv => LastCwdKept
  BY DEF IInv, CwdInv
<1>2. QED
  BY <1>1, InitIInv, NextIInv, PTL DEF Spec

-----------------------------------------------------------------------------
(* Whatever way leads to an attachment, its session was not the terminal's *)
(* own when it was chosen.                                                 *)
NotChosen ==
  /\ Self \notin listing
  /\ cpc \in {"acts", "attached"} /\ command = "attach" => id # Self
  /\ cpc = "attached" => command = "attach"

LEMMA ChoosesAnother ==
  ASSUME NotChosen, \/ Default \/ Switches \/ Picks
                    \/ \E what \in Commands, t \in Targets : Begins(what, t)
  PROVE  NotChosen'
<1> USE DEF NotChosen, Becomes, Stops, Offers, Pickable
<1>1. CASE Default
  BY <1>1 DEF Default
<1>2. CASE Switches
  BY <1>2 DEF Switches, SwitchesTo
<1>3. CASE Picks
  BY <1>3 DEF Picks
<1>4. ASSUME NEW what \in Commands, NEW t \in Targets, Begins(what, t)
      PROVE  NotChosen'
  BY <1>4 DEF Begins, cli
<1>5. QED
  BY <1>1, <1>2, <1>3, <1>4

LEMMA NextNotChosen == NotChosen /\ [Next]_vars => NotChosen'
<1> SUFFICES ASSUME NotChosen, [Next]_vars PROVE NotChosen'
  OBVIOUS
<1>1. CASE UNCHANGED cli
  BY <1>1 DEF NotChosen, cli
<1>2. CASE Attaches \/ Kills \/ RenamesIt \/ Leaves
  BY <1>2 DEF NotChosen, Attaches, Kills, RenamesIt, Leaves, Finds, Becomes, Stops
<1>3. CASE Default \/ Switches \/ Picks \/ \E what \in Commands, t \in Targets : Begins(what, t)
  BY <1>3, ChoosesAnother
<1>4. Create \/ Others \/ ShellOrPoller \/ Ls => UNCHANGED cli
  BY DEF Create, NamesSession, NamesWith, SpawnsSession, Inserts, Others, ShellOrPoller, Ls
<1>5. QED
  BY <1>1, <1>2, <1>3, <1>4 DEF Next, vars

(* cli_haven.rs:92-94: by target, by default, from the picker or by a      *)
(* switch, however sessions come and go meanwhile, no terminal is attached *)
(* to the session it runs in.                                              *)
THEOREM NotIntoItselfHolds == Spec => []NotIntoItself
<1>1. Init => NotChosen
  BY DEF Init, NotChosen
<1>2. NotChosen => NotIntoItself
  BY DEF NotChosen, NotIntoItself
<1>3. QED
  BY <1>1, <1>2, NextNotChosen, PTL DEF Spec

-----------------------------------------------------------------------------
(* The order of the registry: what removing and inserting a session leave. *)
Join(S, a, b, c) ==
  /\ c \in Seq(S) /\ Len(c) = Len(a) + Len(b)
  /\ \A j \in 1..Len(a) : c[j] = a[j]
  /\ \A j \in 1..Len(b) : c[Len(a) + j] = b[j]

Piece(S, s, from, len, c) ==
  c \in Seq(S) /\ Len(c) = len /\ \A j \in 1..len : c[j] = s[from + j]

LacksOne(S, s, i, r) ==
  /\ r \in Seq(S) /\ Len(r) = Len(s) - 1
  /\ \A j \in 1..(Len(s) - 1) : r[j] = IF j < i THEN s[j] ELSE s[j + 1]

LEMMA Joined == ASSUME NEW S, NEW a \in Seq(S), NEW b \in Seq(S) PROVE Join(S, a, b, a \o b)
BY DEF Join

LEMMA Pieces ==
  ASSUME NEW S, NEW s \in Seq(S), NEW i \in 1..Len(s)
  PROVE  /\ Piece(S, s, 0, i - 1, SubSeq(s, 1, i - 1))
         /\ Piece(S, s, i, Len(s) - i, SubSeq(s, i + 1, Len(s)))
<1>1. Piece(S, s, 0, i - 1, SubSeq(s, 1, i - 1))
  BY DEF Piece
<1>2. Piece(S, s, i, Len(s) - i, SubSeq(s, i + 1, Len(s)))
  BY DEF Piece
<1>3. QED
  BY <1>1, <1>2

LEMMA Spliced ==
  ASSUME NEW S, NEW s \in Seq(S), NEW i \in 1..Len(s), NEW a, NEW b, NEW c,
         Piece(S, s, 0, i - 1, a), Piece(S, s, i, Len(s) - i, b), Join(S, a, b, c)
  PROVE  LacksOne(S, s, i, c)
<1> USE DEF Piece, Join
<1>1. ASSUME NEW j \in 1..(Len(s) - 1)
      PROVE  c[j] = IF j < i THEN s[j] ELSE s[j + 1]
  <2>1. CASE j < i
    BY <2>1
  <2>2. CASE ~(j < i)
    <3>1. j - (i - 1) \in 1..Len(b) /\ Len(a) + (j - (i - 1)) = j
      BY <2>2
    <3>2. c[j] = b[j - (i - 1)]
      BY <3>1
    <3>3. b[j - (i - 1)] = s[j + 1]
      BY <3>1
    <3>4. QED
      BY <2>2, <3>2, <3>3
  <2>3. QED
    BY <2>1, <2>2
<1>2. QED
  BY <1>1 DEF LacksOne

LEMMA WithoutOne ==
  ASSUME NEW S, NEW s \in Seq(S), NEW i \in 1..Len(s)
  PROVE  LacksOne(S, s, i, RemoveAt(s, i))
<1> DEFINE a == SubSeq(s, 1, i - 1)
           b == SubSeq(s, i + 1, Len(s))
<1>1. Piece(S, s, 0, i - 1, a) /\ Piece(S, s, i, Len(s) - i, b)
  BY Pieces
<1>2. a \in Seq(S) /\ b \in Seq(S)
  BY <1>1 DEF Piece
<1>3. Join(S, a, b, RemoveAt(s, i))
  BY <1>2, Joined DEF RemoveAt
<1>4. QED
  BY <1>1, <1>3, Spliced

LEMMA Removed ==
  ASSUME NEW S, NEW s \in Seq(S), NEW i \in DOMAIN s
  PROVE  LET r == RemoveAt(s, i)
         IN /\ r \in Seq(S) /\ Range(r) \subseteq Range(s)
            /\ IsInjective(s) => IsInjective(r)
<1> DEFINE r == RemoveAt(s, i)
           at(j) == IF j < i THEN j ELSE j + 1
<1>1. /\ r \in Seq(S) /\ DOMAIN r = 1..(Len(s) - 1)
      /\ \A j \in 1..(Len(s) - 1) : r[j] = s[at(j)] /\ at(j) \in DOMAIN s
  <2>1. LacksOne(S, s, i, r)
    BY WithoutOne
  <2>2. QED
    BY <2>1 DEF LacksOne
<1>2. \A j, k \in 1..(Len(s) - 1) : j # k => at(j) # at(k)
  OBVIOUS
<1>3. QED
  BY <1>1, <1>2 DEF Range, IsInjective

LEMMA RangeIsFinite == ASSUME NEW S, NEW s \in Seq(S) PROVE IsFiniteSet(Range(s))
<1>1. s \in Surjection(1..Len(s), Range(s)) /\ Len(s) \in Int
  BY DEF Surjection, Range
<1>2. IsFiniteSet(1..Len(s))
  BY <1>1, FS_Interval
<1>3. QED
  BY <1>1, <1>2, FS_Surjection

LEMMA Shuffled ==
  ASSUME NEW S, NEW T \in SUBSET S, IsFiniteSet(T), NEW o \in SetToSeqs(T)
  PROVE  o \in Seq(S) /\ Range(o) \subseteq T /\ IsInjective(o)
<1>1. Cardinality(T) \in Nat
  BY FS_CardinalityType
<1>2. /\ o \in [1..Cardinality(T) -> T]
      /\ \A i, j \in 1..Cardinality(T) : i # j => o[i] # o[j]
  BY DEF SetToSeqs
<1>3. o \in Seq(S)
  BY <1>1, <1>2
<1>4. QED
  BY <1>2, <1>3 DEF Range, IsInjective

-----------------------------------------------------------------------------
(* Types, part by part: the registry, ...                                  *)
RegistryTypes ==
  /\ order \in Seq(Sessions) /\ IsInjective(order)
  /\ name \in [Sessions -> Names]
  /\ creating \in [Sessions -> {"no", "named", "spawned", "done"}]
  /\ named \subseteq Sessions /\ overlaps \in [Sessions -> SUBSET Sessions]

LEMMA DropTyped ==
  ASSUME RegistryTypes, NEW s \in Sessions, Drops(s)
  PROVE  RegistryTypes' /\ Listed' \subseteq Listed
<1>1. PICK i \in DOMAIN order : order' = RemoveAt(order, i)
  BY DEF Drops
<1>2. order' \in Seq(Sessions) /\ IsInjective(order') /\ Range(order') \subseteq Range(order)
  BY <1>1, Removed DEF RegistryTypes
<1>3. QED
  BY <1>2 DEF Drops, RegistryTypes, creation, Listed

LEMMA NewNameTyped ==
  ASSUME RegistryTypes, NEW s \in Sessions, NewName(s)
  PROVE  RegistryTypes'
BY DEF NewName, RegistryTypes

LEMMA CreateTyped ==
  ASSUME RegistryTypes, NEW s \in Sessions,
         NamesSession(s) \/ SpawnsSession(s) \/ Inserts(s)
  PROVE  /\ RegistryTypes'
         /\ Listed' \subseteq Listed \cup {s}
<1> USE DEF RegistryTypes, Creates
<1>1. CASE NamesSession(s)
  <2>1. UnderWay \subseteq Sessions
    BY DEF UnderWay
  <2>2. PetNames \subseteq Names
    BY TargetsAssumption
  <2>3. name' \in [Sessions -> Names] /\ named' \subseteq Sessions
    BY <1>1, <2>2 DEF NamesSession, NamesWith, NameGiven, Generated
  <2>4. /\ order' = order /\ creating' \in [Sessions -> {"no", "named", "spawned", "done"}]
        /\ overlaps' \in [Sessions -> SUBSET Sessions]
    BY <1>1, <2>1 DEF NamesSession, NamesWith
  <2>5. QED
    BY <2>3, <2>4 DEF Listed
<1>2. CASE SpawnsSession(s)
  BY <1>2 DEF SpawnsSession, registry, Listed
<1>3. CASE Inserts(s)
  <2>1. IsFiniteSet(Listed \cup {s}) /\ Listed \cup {s} \subseteq Sessions
    <3>1. IsFiniteSet(Listed)
      BY RangeIsFinite DEF Listed
    <3>2. Listed \subseteq Sessions
      BY DEF Listed, Range
    <3>3. QED
      BY <3>1, <3>2, FS_AddElement
  <2>2. order' \in SetToSeqs(Listed \cup {s})
    BY <1>3 DEF Inserts
  <2>3. order' \in Seq(Sessions) /\ Range(order') \subseteq Listed \cup {s} /\ IsInjective(order')
    BY <2>1, <2>2, Shuffled
  <2>4. QED
    BY <1>3, <2>3 DEF Inserts, Listed
<1>4. QED
  BY <1>1, <1>2, <1>3

LEMMA ListedAreSessions == ASSUME RegistryTypes PROVE Listed \subseteq Sessions
BY DEF RegistryTypes, Listed, Range

(* A user who has a session removed or renamed.                            *)
RegistryKept == UNCHANGED <<registry, creation>>

LEMMA RegistryMoves ==
  ASSUME [Next]_vars
  PROVE  \/ RegistryKept
         \/ \E s \in Sessions : NamesSession(s) \/ SpawnsSession(s) \/ Inserts(s)
         \/ \E s \in Listed : Drops(s) \/ NewName(s)
<1> USE DEF RegistryKept
<1>1. CASE Create
  BY <1>1 DEF Create
<1>2. CASE Others
  BY <1>2 DEF Others
<1>3. CASE Kills \/ RenamesIt
  BY <1>3 DEF Kills, RenamesIt, Finds, World
<1>4. CASE ShellOrPoller \/ Ls \/ Default \/ Switches \/ Picks \/ Attaches \/ Leaves
  BY <1>4 DEF ShellOrPoller, Ls, Default, Switches, SwitchesTo, Picks, Attaches, Leaves, World
<1>5. CASE \E what \in Commands, t \in Targets : Begins(what, t)
  BY <1>5 DEF Begins, World
<1>6. CASE UNCHANGED vars
  BY <1>6 DEF vars
<1>7. QED
  BY <1>1, <1>2, <1>3, <1>4, <1>5, <1>6 DEF Next

LEMMA RegistryTyped == RegistryTypes /\ [Next]_vars => RegistryTypes'
<1> SUFFICES ASSUME RegistryTypes, [Next]_vars PROVE RegistryTypes'
  OBVIOUS
<1>1. RegistryKept => RegistryTypes'
  BY DEF RegistryKept, registry, creation, RegistryTypes
<1>2. QED
  BY <1>1, RegistryMoves, ListedAreSessions, DropTyped, NewNameTyped, CreateTyped

LEMMA InitRegistryTyped == Init => RegistryTypes
<1> SUFFICES ASSUME Init PROVE RegistryTypes
  OBVIOUS
<1>1. order \in Seq(Sessions) /\ IsInjective(order)
  BY TargetsAssumption, Shuffled DEF Init
<1>2. (CHOOSE p \in PetNames : TRUE) \in Names
  BY TargetsAssumption
<1>3. name \in [Sessions -> Names]
  BY <1>2 DEF Init
<1>4. QED
  BY <1>1, <1>3 DEF Init, RegistryTypes

-----------------------------------------------------------------------------
(* Two sessions that were named while the other was on its way know of it. *)
Present(s) == s \in Listed \/ creating[s] \in {"named", "spawned"}

Twins ==
  \A s, t \in named :
    (s # t /\ name[s] = name[t] /\ Present(s) /\ Present(t))
       => s \in overlaps[t] \/ t \in overlaps[s]

Created ==
  /\ \A s \in Listed : creating[s] = "done"
  /\ \A s \in named : creating[s] # "no"

TwinInv == RegistryTypes /\ Created /\ Twins

(* A name that is generated differs from those of the sessions listed, and *)
(* the sessions on their way are noted.                                    *)
LEMMA NamesKeepsTwins ==
  ASSUME TwinInv, NEW s \in Sessions, NamesSession(s)
  PROVE  Created' /\ Twins'
<1>1. /\ creating[s] = "no" /\ creating' = [creating EXCEPT ![s] = "named"]
      /\ overlaps' = [overlaps EXCEPT ![s] = UnderWay] /\ Listed' = Listed
  BY DEF NamesSession, NamesWith, Creates, Listed
<1>2. s \notin Listed /\ s \notin named /\ s \notin UnderWay
  BY <1>1 DEF TwinInv, Created, UnderWay
<1>3. /\ \A t \in Sessions \ {s} : name'[t] = name[t] /\ creating'[t] = creating[t]
                                   /\ overlaps'[t] = overlaps[t]
      /\ creating'[s] = "named" /\ overlaps'[s] = UnderWay
  BY <1>1 DEF NamesSession, NamesWith, NameGiven, Generated, TwinInv, RegistryTypes
<1>4. \/ named' = named
      \/ named' = named \cup {s} /\ name'[s] \notin {name[t] : t \in Listed}
  BY DEF NamesSession, NamesWith, NameGiven, Generated, TwinInv, RegistryTypes
<1>5. Listed \subseteq Sessions /\ named \subseteq Sessions
  BY ListedAreSessions DEF TwinInv, RegistryTypes
<1>6. Created'
  BY <1>1, <1>2, <1>3, <1>4, <1>5 DEF TwinInv, Created
<1>7. \A t \in Sessions \ {s} : Present(t)' <=> Present(t)
  BY <1>1, <1>3 DEF Present
<1>8. ASSUME NEW t \in named, t # s, name'[s] = name'[t], Present(t), s \in named'
      PROVE  t \in overlaps'[s]
  <2>1. t \notin Listed
    BY <1>2, <1>3, <1>4, <1>5, <1>8
  <2>2. t \in UnderWay
    BY <1>5, <1>8, <2>1 DEF Present, UnderWay
  <2>3. QED
    BY <1>3, <2>2
<1>9. ASSUME NEW t \in named, NEW u \in named, t # u, name'[t] = name'[u],
             Present(t)', Present(u)'
      PROVE  t \in overlaps'[u] \/ u \in overlaps'[t]
  BY <1>2, <1>3, <1>5, <1>7, <1>9 DEF TwinInv, Twins
<1>10. Twins'
  BY <1>2, <1>4, <1>5, <1>7, <1>8, <1>9 DEF Twins
<1>11. QED
  BY <1>6, <1>10

LEMMA OthersKeepTwins ==
  ASSUME TwinInv,
         \/ RegistryKept
         \/ \E s \in Sessions : SpawnsSession(s) \/ Inserts(s)
         \/ \E s \in Listed : Drops(s) \/ NewName(s)
  PROVE  Created' /\ Twins'
<1>1. Listed \subseteq Sessions
  BY ListedAreSessions DEF TwinInv
<1> USE DEF TwinInv, Created, Twins, Present
<1>2. CASE RegistryKept
  BY <1>2 DEF RegistryKept, registry, creation, Listed
<1>3. ASSUME NEW s \in Sessions, SpawnsSession(s) PROVE Created' /\ Twins'
  BY <1>3 DEF SpawnsSession, Creates, registry, Listed, RegistryTypes
<1>4. ASSUME NEW s \in Sessions, Inserts(s) PROVE Created' /\ Twins'
  <2>1. Listed' \subseteq Listed \cup {s}
    BY <1>4, CreateTyped
  <2>2. /\ creating[s] = "spawned" /\ creating'[s] = "done"
        /\ \A t \in Sessions \ {s} : creating'[t] = creating[t]
        /\ UNCHANGED <<name, named, overlaps>>
    BY <1>4 DEF Inserts, Creates, RegistryTypes
  <2>3. named \subseteq Sessions
    BY DEF RegistryTypes
  <2>4. \A t \in Sessions : Present(t)' => Present(t)
    BY <2>1, <2>2
  <2>5. Created'
    BY <1>1, <2>1, <2>2, <2>3
  <2>6. Twins'
    BY <2>2, <2>3, <2>4
  <2>7. QED
    BY <2>5, <2>6
<1>5. ASSUME NEW s \in Listed, Drops(s) PROVE Created' /\ Twins'
  <2>1. Listed' \subseteq Listed /\ UNCHANGED <<name, creating, named, overlaps>>
    BY <1>1, <1>5, DropTyped DEF Drops, creation
  <2>2. QED
    BY <2>1
<1>6. ASSUME NEW s \in Listed, NewName(s) PROVE Created' /\ Twins'
  <2>1. /\ named' = named \ {s} /\ Listed' = Listed /\ UNCHANGED <<creating, overlaps>>
        /\ \A t \in Sessions \ {s} : name'[t] = name[t]
    BY <1>1, <1>6 DEF NewName, Listed, RegistryTypes
  <2>2. named \subseteq Sessions
    BY DEF RegistryTypes
  <2>3. QED
    BY <2>1, <2>2
<1>7. QED
  BY <1>2, <1>3, <1>4, <1>5, <1>6

LEMMA NextTwins == TwinInv /\ [Next]_vars => TwinInv'
<1> SUFFICES ASSUME TwinInv, [Next]_vars PROVE TwinInv'
  OBVIOUS
<1>1. RegistryTypes'
  BY RegistryTyped DEF TwinInv
<1>2. Created' /\ Twins'
  BY RegistryMoves, NamesKeepsTwins, OthersKeepTwins
<1>3. QED
  BY <1>1, <1>2 DEF TwinInv

LEMMA InitTwins == Init => TwinInv
<1> SUFFICES ASSUME Init PROVE TwinInv
  OBVIOUS
<1>1. Listed \subseteq Old
  BY TargetsAssumption, Shuffled DEF Init, Listed
<1>2. QED
  BY <1>1, InitRegistryTyped, TargetsAssumption DEF Init, TwinInv, Created, Twins

(* session.rs:51-60: for any names and any number of requests, two         *)
(* sessions have the same generated name only if they were created at the  *)
(* same time.                                                              *)
THEOREM TwinsOverlappedHolds == Spec => []TwinsOverlapped
<1>1. Init => TwinInv
  BY InitTwins
<1>2. TwinInv => TwinsOverlapped
  BY DEF TwinInv, Twins, Present, TwinsOverlapped
<1>3. QED
  BY <1>1, <1>2, NextTwins, PTL DEF Spec

-----------------------------------------------------------------------------
(* What a target resolves to is what it denotes.                           *)
LEMMA ListingIs ==
  ASSUME RegistryTypes
  PROVE  /\ DOMAIN Listing = DOMAIN order
         /\ \A i \in DOMAIN order : /\ Listing[i].id = order[i] /\ order[i] \in Listed
                                    /\ Listing[i].name = name[order[i]]
         /\ {e.id : e \in Range(Listing)} = Listed
<1>1. /\ DOMAIN Listing = DOMAIN order
      /\ \A i \in DOMAIN order : /\ Listing[i].id = order[i]
                                 /\ Listing[i].name = name[order[i]]
  BY DEF Listing, Entry
<1>2. \A i \in DOMAIN order : order[i] \in Listed
  BY DEF Listed, Range
<1>3. {e.id : e \in Range(Listing)} = Listed
  BY <1>1 DEF Listed, Range
<1>4. QED
  BY <1>1, <1>2, <1>3

LEMMA TheOnlyOne ==
  ASSUME NEW S, IsFiniteSet(S), Only(S) # Nobody
  PROVE  S = {Only(S)}
<1>1. Cardinality(S) = 1
  BY DEF Only
<1>2. PICK x : S = {x}
  BY <1>1, FS_Singleton
<1>3. QED
  BY <1>1, <1>2 DEF Only

LEMMA SomeOfListed ==
  ASSUME RegistryTypes, NEW S \in SUBSET Listed
  PROVE  IsFiniteSet(S) /\ Only(S) \in Sessions \cup {Nobody}
<1>1. IsFiniteSet(Listed)
  BY RangeIsFinite DEF Listed, RegistryTypes
<1>2. IsFiniteSet(S)
  BY <1>1, FS_Subset
<1>3. Only(S) # Nobody => Only(S) \in S
  BY <1>2, TheOnlyOne
<1>4. QED
  BY <1>2, <1>3, ListedAreSessions

LEMMA NamedAreListed ==
  ASSUME RegistryTypes, NEW t \in Targets
  PROVE  ByName(Listing, t) \subseteq Listed /\ ById(Listing, t) \subseteq Listed
<1>1. ByName(Listing, t) \subseteq {e.id : e \in Range(Listing)}
  BY DEF ByName
<1>2. QED
  BY <1>1, ListingIs DEF ById

LEMMA ResolvesToSession ==
  ASSUME RegistryTypes, NEW t \in Targets
  PROVE  ResolveTarget(Listing, t) \in Sessions \cup {Nobody}
<1>1. AsIndex[t] \in DOMAIN Listing => Listing[AsIndex[t]].id \in Sessions
  BY ListingIs, ListedAreSessions
<1>2. /\ Only(ByName(Listing, t)) \in Sessions \cup {Nobody}
      /\ Only(ById(Listing, t)) \in Sessions \cup {Nobody}
  BY NamedAreListed, SomeOfListed
<1>3. CASE AsIndex[t] \in DOMAIN Listing
  BY <1>1, <1>3 DEF ResolveTarget
<1>4. CASE AsIndex[t] \notin DOMAIN Listing /\ ByName(Listing, t) # {}
  BY <1>2, <1>4 DEF ResolveTarget
<1>5. CASE AsIndex[t] \notin DOMAIN Listing /\ ByName(Listing, t) = {}
  BY <1>2, <1>5 DEF ResolveTarget
<1>6. QED
  BY <1>3, <1>4, <1>5

LEMMA ResolvesAsSeen ==
  ASSUME RegistryTypes, NEW t \in Targets, table = Listing,
         ResolveTarget(Listing, t) # Nobody
  PROVE  Denotes(t) = {ResolveTarget(Listing, t)}
<1> DEFINE numbered == {i \in DOMAIN table : i = AsIndex[t]}
           called == {i \in DOMAIN table : table[i].name = t}
           begins == {i \in DOMAIN table : table[i].id \in Matching[t]}
<1>1. /\ numbered # {} <=> AsIndex[t] \in DOMAIN Listing
      /\ numbered # {} => numbered = {AsIndex[t]}
  OBVIOUS
<1>2. ByName(Listing, t) = {table[i].id : i \in called}
  BY DEF ByName, Range
<1>3. ById(Listing, t) = {table[i].id : i \in begins}
  BY DEF ById, Range
<1>4. CASE numbered # {}
  <2>1. Denotes(t) = {table[i].id : i \in numbered}
    BY <1>4 DEF Denotes
  <2>2. ResolveTarget(Listing, t) = Listing[AsIndex[t]].id
    BY <1>1, <1>4 DEF ResolveTarget
  <2>3. QED
    BY <1>1, <1>4, <2>1, <2>2
<1>5. CASE numbered = {} /\ called # {}
  <2>1. Denotes(t) = {table[i].id : i \in called}
    BY <1>5 DEF Denotes
  <2>2. ByName(Listing, t) # {}
    BY <1>2, <1>5
  <2>3. ResolveTarget(Listing, t) = Only(ByName(Listing, t))
    BY <1>1, <1>5, <2>2 DEF ResolveTarget
  <2>4. ByName(Listing, t) = {Only(ByName(Listing, t))}
    BY <2>3, NamedAreListed, SomeOfListed, TheOnlyOne
  <2>5. QED
    BY <1>2, <2>1, <2>3, <2>4
<1>6. CASE numbered = {} /\ called = {}
  <2>1. Denotes(t) = {table[i].id : i \in begins}
    BY <1>6 DEF Denotes
  <2>2. ByName(Listing, t) = {}
    BY <1>2, <1>6
  <2>3. ResolveTarget(Listing, t) = Only(ById(Listing, t))
    BY <1>1, <1>6, <2>2 DEF ResolveTarget
  <2>4. ById(Listing, t) = {Only(ById(Listing, t))}
    BY <2>3, NamedAreListed, SomeOfListed, TheOnlyOne
  <2>5. QED
    BY <1>3, <2>1, <2>3, <2>4
<1>7. QED
  BY <1>4, <1>5, <1>6

-----------------------------------------------------------------------------
(* The table of the last `haven ls` is what a new list would show, until a *)
(* session comes, goes or gets a new name.                                 *)
Fresh == ~stale => table = Listing

LEMMA NextFresh ==
  ASSUME TwinInv, Fresh, [Next]_vars
  PROVE  Fresh'
<1> USE DEF Fresh
<1>1. RegistryKept /\ (UNCHANGED seen \/ Ls) => Fresh'
  BY DEF RegistryKept, registry, seen, Ls, Listing, Entry
<1>2. ASSUME NEW s \in Sessions, NamesSession(s) PROVE Fresh'
  <2>1. s \notin Listed /\ order' = order /\ UNCHANGED seen
    BY <1>2 DEF NamesSession, NamesWith, Creates, TwinInv, Created
  <2>2. \A i \in DOMAIN order : order[i] \in Sessions /\ order[i] # s
    BY <2>1 DEF Listed, Range, TwinInv, RegistryTypes
  <2>3. \A t \in Sessions \ {s} : name'[t] = name[t]
    BY <1>2 DEF NamesSession, NamesWith, NameGiven, Generated, TwinInv, RegistryTypes
  <2>4. Listing' = Listing
    BY <2>1, <2>2, <2>3 DEF Listing, Entry
  <2>5. QED
    BY <2>1, <2>4 DEF seen
<1>3. ASSUME NEW s \in Sessions, SpawnsSession(s) PROVE Fresh'
  BY <1>3 DEF SpawnsSession, registry, seen, Listing, Entry
<1>4. CASE Create
  BY <1>2, <1>3, <1>4 DEF Create, Inserts
<1>5. CASE Others
  BY <1>5 DEF Others, Drops, NewName
<1>6. CASE Kills \/ RenamesIt
  <2>1. stale' \/ (RegistryKept /\ UNCHANGED seen)
    BY <1>6 DEF Kills, RenamesIt, Finds, Drops, NewName, World, RegistryKept
  <2>2. QED
    BY <1>1, <2>1
<1>7. CASE ShellOrPoller \/ Ls \/ Default \/ Switches \/ Picks \/ Attaches \/ Leaves
  <2>1. RegistryKept /\ (UNCHANGED seen \/ Ls)
    BY <1>7 DEF ShellOrPoller, Ls, Default, Switches, SwitchesTo, Picks, Attaches, Leaves,
                World, RegistryKept
  <2>2. QED
    BY <1>1, <2>1
<1>8. CASE \E what \in Commands, t \in Targets : Begins(what, t)
  <2>1. RegistryKept /\ UNCHANGED seen
    BY <1>8 DEF Begins, World, RegistryKept
  <2>2. QED
    BY <1>1, <2>1
<1>9. CASE UNCHANGED vars
  BY <1>1, <1>9 DEF vars, RegistryKept
<1>10. QED
  BY <1>4, <1>5, <1>6, <1>7, <1>8, <1>9 DEF Next

(* Only a command with a target goes on to act with one.                   *)
LEMMA ActsOnTarget ==
  ASSUME Next, cpc = "idle", cpc' = "acts", target' # Nobody
  PROVE  \E what \in Commands, t \in Targets : Begins(what, t)
<1>1. ~Create /\ ~Others /\ ~ShellOrPoller /\ ~Ls
  BY DEF Create, NamesSession, NamesWith, SpawnsSession, Inserts, Others, ShellOrPoller, Ls, cli
<1>2. ~Default /\ ~Switches /\ ~Picks
  BY DEF Default, Becomes, Offers, Stops, Switches, SwitchesTo, Picks
<1>3. ~Attaches /\ ~Kills /\ ~RenamesIt /\ ~Leaves
  BY DEF Attaches, Kills, RenamesIt, Leaves
<1>4. QED
  BY <1>1, <1>2, <1>3 DEF Next

(* cli_haven.rs:389-444: for any names, ids and lists, a command acts on   *)
(* what its target denotes in the table the user has seen, as long as      *)
(* that is up to date.                                                     *)
THEOREM SeenIsMeantHolds == Spec => SeenIsMeant
<1> DEFINE Inv == TwinInv /\ Fresh
           Meant == (cpc = "idle" /\ cpc' = "acts" /\ target' # Nobody /\ ~stale)
                      => Denotes(target') = {id'}
<1>1. Init => Inv
  BY InitTwins DEF Init, Fresh
<1>2. Inv /\ [Next]_vars => Inv'
  BY NextTwins, NextFresh
<1>3. Inv /\ [Next]_vars => [Meant]_vars
  <2> SUFFICES ASSUME Inv, Next, cpc = "idle", cpc' = "acts", target' # Nobody, ~stale
               PROVE  Denotes(target') = {id'}
    OBVIOUS
  <2>1. PICK what \in Commands, t \in Targets : Begins(what, t)
    BY ActsOnTarget
  <2>2. /\ target' = t /\ id' = ResolveTarget(Listing, t)
        /\ ResolveTarget(Listing, t) # Nobody
    BY <2>1 DEF Begins, Becomes, cli
  <2>3. RegistryTypes /\ table = Listing
    BY DEF TwinInv, Fresh
  <2>4. QED
    BY <2>2, <2>3, ResolvesAsSeen
<1>4. QED
  BY <1>1, <1>2, <1>3, PTL DEF Spec, SeenIsMeant

-----------------------------------------------------------------------------
(* The rest of the types: shells, what pollers persist, ...                *)
Persisting == {"opens", "writes", "renames"}

ShellTypes ==
  /\ shell \in [Sessions -> {"none", "runs", "gone"}]
  /\ latest \in Dirs \cup {NoFile}
  /\ mixed \in BOOLEAN /\ alone \in Sessions \cup {NoFile}
  /\ \A s \in Sessions : poller[s] \in Persisting => last_cwd[s] \in Dirs

LEMMA ShellsTyped ==
  ASSUME IInv, RegistryTypes, ShellTypes, [Next]_vars
  PROVE  ShellTypes'
<1> USE DEF ShellTypes, Persisting
<1>1. UNCHANGED cwdVars => ShellTypes'
  BY DEF cwdVars, shells, files
<1>2. ASSUME NEW s \in Sessions, SpawnsSession(s) PROVE ShellTypes'
  BY <1>2 DEF SpawnsSession, Spawns, files, IInv, CwdInv, Types
<1>3. ASSUME NEW s \in Sessions, Drops(s) PROVE ShellTypes'
  BY <1>3 DEF Drops, files
<1>4. ASSUME NEW s \in Sessions, Moves(s) \/ ShellEnds(s) PROVE ShellTypes'
  BY <1>4 DEF Moves, ShellEnds, files
<1>5. ASSUME NEW s \in Sessions, Poller(s) PROVE ShellTypes'
  <2> USE DEF IInv, CwdInv, Types, PollerPc, At, shells, files
  <2>1. CASE Polls(s) \/ PollEnds(s)
    BY <2>1 DEF Polls, PollEnds
  <2>2. CASE Opens(s)
    BY <2>2 DEF Opens, OpensTmp, Enters
  <2>3. CASE WritesFile(s)
    BY <2>3 DEF WritesFile
  <2>4. CASE Renames(s)
    BY <2>4 DEF Renames
  <2>5. CASE Fails(s)
    BY <2>5 DEF Fails, OpenFails, WriteFails, RenameFails, LeavesOff
  <2>6. QED
    BY <1>5, <2>1, <2>2, <2>3, <2>4, <2>5 DEF Poller
<1>6. CASE Create
  BY <1>1, <1>2, <1>6 DEF Create, NamesSession, NamesWith, Inserts
<1>7. CASE Others \/ Kills \/ RenamesIt
  <2>1. UNCHANGED cwdVars \/ \E s \in Listed : Drops(s)
    BY <1>7 DEF Others, Kills, RenamesIt, Finds, NewName, World
  <2>2. QED
    BY <1>1, <1>3, <2>1, ListedAreSessions
<1>8. CASE ShellOrPoller
  BY <1>4, <1>5, <1>8 DEF ShellOrPoller
<1>9. CASE Ls \/ Default \/ Switches \/ Picks \/ Attaches \/ Leaves
  BY <1>1, <1>9 DEF Ls, Default, Switches, SwitchesTo, Picks, Attaches, Leaves, World
<1>10. CASE \E what \in Commands, t \in Targets : Begins(what, t)
  BY <1>1, <1>10 DEF Begins, World
<1>11. CASE UNCHANGED vars
  BY <1>1, <1>11 DEF vars
<1>12. QED
  BY <1>6, <1>7, <1>8, <1>9, <1>10, <1>11 DEF Next

(* ... what users and shells may still do, ...                             *)
BudgetType == budget \in [{"users", "shells"} -> Nat]

LEMMA BudgetTyped == BudgetType /\ [Next]_vars => BudgetType'
<1> SUFFICES ASSUME BudgetType, [Next]_vars PROVE BudgetType'
  OBVIOUS
<1>1. ASSUME NEW who \in {"users", "shells"}, Does(who) PROVE BudgetType'
  BY <1>1 DEF Does, BudgetType
<1>2. UNCHANGED budget => BudgetType'
  BY DEF BudgetType
<1>3. Does("users") \/ Does("shells") \/ UNCHANGED budget
  <2>1. CASE Create
    BY <2>1 DEF Create, NamesSession, NamesWith, SpawnsSession, Inserts
  <2>2. CASE ShellOrPoller
    BY <2>2 DEF ShellOrPoller, Moves, Poller, Polls, PollEnds, Opens, OpensTmp, WritesFile,
                Renames, Fails, OpenFails, WriteFails, RenameFails, LeavesOff
  <2>3. CASE Others \/ Ls \/ Default \/ Switches \/ Picks \/ Attaches \/ Kills \/ RenamesIt
             \/ Leaves
    BY <2>3 DEF Others, Ls, Default, Switches, SwitchesTo, Picks, Attaches, Kills, RenamesIt,
                Finds, Leaves
  <2>4. CASE UNCHANGED vars \/ \E what \in Commands, t \in Targets : Begins(what, t)
    BY <2>4 DEF Begins, vars
  <2>5. QED
    BY <2>1, <2>2, <2>3, <2>4 DEF Next
<1>4. QED
  BY <1>1, <1>2, <1>3

(* ... and what the user's command knows and has shown.                    *)
CliTypes ==
  /\ cpc \in {"idle", "acts", "picks", "attached"}
  /\ command \in Commands \cup {"none"} /\ target \in Targets \cup {Nobody}
  /\ listing \subseteq Sessions /\ id \in Sessions \cup {Nobody}

LEMMA CliTyped ==
  ASSUME RegistryTypes, CliTypes, [Next]_vars
  PROVE  CliTypes'
<1> USE DEF CliTypes, Becomes, Stops, Commands
<1>1. UNCHANGED cli => CliTypes'
  BY DEF cli
<1>2. Pickable \subseteq Sessions
  BY ListedAreSessions DEF Pickable
<1>3. CASE Default
  BY <1>2, <1>3 DEF Default, Offers
<1>4. CASE Switches
  BY <1>2, <1>4 DEF Switches, SwitchesTo, Offers
<1>5. CASE Picks \/ Attaches \/ Kills \/ RenamesIt \/ Leaves
  BY <1>5 DEF Picks, Attaches, Kills, RenamesIt, Finds, Leaves
<1>6. ASSUME NEW what \in Commands, NEW t \in Targets, Begins(what, t)
      PROVE  CliTypes'
  <2>1. ResolveTarget(Listing, t) \in Sessions \cup {Nobody}
    BY ResolvesToSession
  <2>2. \/ UNCHANGED cli
        \/ Becomes("acts", what, t, ResolveTarget(Listing, t)) /\ UNCHANGED listing
    BY <1>6 DEF Begins
  <2>3. QED
    BY <1>1, <2>1, <2>2
<1>7. Create \/ Others \/ ShellOrPoller \/ Ls => UNCHANGED cli
  BY DEF Create, NamesSession, NamesWith, SpawnsSession, Inserts, Others, ShellOrPoller, Ls
<1>8. QED
  BY <1>1, <1>3, <1>4, <1>5, <1>6, <1>7 DEF Next, vars

SeenTypes == Range(table) \subseteq Entries /\ stale \in BOOLEAN

LEMMA SeenTyped ==
  ASSUME RegistryTypes, SeenTypes, [Next]_vars
  PROVE  SeenTypes'
<1> USE DEF SeenTypes
<1>1. table' = table /\ (stale' = TRUE \/ stale' = stale) => SeenTypes'
  BY DEF Range
<1>2. CASE Ls
  <2>1. \A i \in DOMAIN order : order[i] \in Sessions /\ name[order[i]] \in Names
    BY DEF RegistryTypes
  <2>2. Range(Listing) \subseteq Entries
    BY <2>1 DEF Listing, Entry, Entries, Range
  <2>3. QED
    BY <1>2, <2>2 DEF Ls, Range
<1>3. \/ Ls
      \/ table' = table /\ (stale' = TRUE \/ stale' = stale)
  <2>1. CASE Create
    BY <2>1 DEF Create, NamesSession, NamesWith, SpawnsSession, Inserts, seen
  <2>2. CASE Others \/ Kills \/ RenamesIt
    BY <2>2 DEF Others, Kills, RenamesIt, Finds, Drops, NewName, seen
  <2>3. CASE ShellOrPoller \/ Default \/ Switches \/ Picks \/ Attaches \/ Leaves
    BY <2>3 DEF ShellOrPoller, Default, Switches, SwitchesTo, Picks, Attaches, Leaves, seen
  <2>4. CASE UNCHANGED vars \/ \E what \in Commands, t \in Targets : Begins(what, t)
    BY <2>4 DEF Begins, vars, seen
  <2>5. QED
    BY <2>1, <2>2, <2>3, <2>4 DEF Next
<1>4. QED
  BY <1>1, <1>2, <1>3

(* Types, of pollers and files, the registry and the commands.             *)
THEOREM TypeCorrect == Spec => []TypeOK
<1> DEFINE Inv == IInv /\ RegistryTypes /\ ShellTypes /\ BudgetType /\ CliTypes /\ SeenTypes
<1>1. Init => Inv
  <2> SUFFICES ASSUME Init PROVE Inv
    OBVIOUS
  <2>1. ShellTypes /\ BudgetType
    BY DirsAssumption DEF Init, CwdInit, ShellTypes, Persisting, BudgetType
  <2>2. CliTypes /\ SeenTypes
    BY DEF Init, CliTypes, SeenTypes, Range
  <2>3. QED
    BY <2>1, <2>2, InitIInv, InitRegistryTyped
<1>2. Inv /\ [Next]_vars => Inv'
  BY NextIInv, RegistryTyped, ShellsTyped, BudgetTyped, CliTyped, SeenTyped
<1>3. Inv => TypeOK
  BY DEF TypeOK, CwdTypeOK, IInv, CwdInv, Types, PollerPc, RegistryTypes, ShellTypes,
         BudgetType, CliTypes, SeenTypes
<1>4. QED
  BY <1>1, <1>2, <1>3, PTL DEF Spec
=============================================================================
