------------------------------ MODULE Commands ------------------------------
(***************************************************************************)
(* What a user of the `haven` command line does to sessions, while others  *)
(* create, rename and kill them: the commands of                           *)
(* haven-daemon/src/cli_haven.rs, the picker (picker.rs), and the parts of *)
(* SessionManager (session.rs) they see: names, order, existence.          *)
(*                                                                         *)
(* A command lists the sessions over one connection and acts over another. *)
(* A list comes in the order of a HashMap, which an insertion may change   *)
(* as it likes.  list is one step here; SessionManager has its locks.      *)
(***************************************************************************)
EXTENDS LastCwd, SequencesExt, FiniteSets

CONSTANTS Old,          \* sessions there are at first
          Self,         \* the session the user's shell runs in
          PetNames,     \* what pet_name::generate may choose
          Names,        \* these, and names users give
          Targets,      \* what a user may write for a session
          AsIndex,      \* the number that is, or 0
          Matching,     \* the ids it is, or is a prefix of four letters or more of
          Nobody        \* no session

ASSUME TargetsAssumption ==
  /\ PetNames \subseteq Names /\ PetNames # {}
  /\ Self \in Old /\ Old \subseteq Sessions /\ IsFiniteSet(Old)
  /\ AsIndex \in [Targets -> Nat] /\ Matching \in [Targets -> SUBSET Sessions]
  /\ Nobody \notin Sessions \cup Targets

VARIABLES
  order,     \* SessionManager.sessions, in the order of iteration
  name,      \* SessionInfo.name
  creating,  \* where each create request is
  cpc,       \* what the user's command is about to do
  command,   \* the command
  target,    \* what was written for the session
  listing,   \* the sessions the picker shows
  id,        \* the session it has settled on
  table,     \* ghost: what the last `haven ls` showed
  stale,     \* ghost: sessions have come, gone or got new names since
  named,     \* ghost: sessions that still have a name generated as one not in use
  overlaps   \* ghost: creations that were under way with each one's

registry == <<order, name>>
creation == <<creating, named, overlaps>>
cli == <<cpc, command, target, listing, id>>
seen == <<table, stale>>
vars == <<registry, creation, cli, seen, cwdVars, budget>>

Entry(s) == [id |-> s, name |-> name[s]]
Listing == [i \in DOMAIN order |-> Entry(order[i])]
Listed == Range(order)
Entries == [id : Sessions, name : Names]
Commands == {"attach", "kill", "rename"}

TypeOK ==
  /\ CwdTypeOK
  /\ order \in Seq(Sessions) /\ IsInjective(order)
  /\ name \in [Sessions -> Names]
  /\ creating \in [Sessions -> {"no", "named", "spawned", "done"}]
  /\ cpc \in {"idle", "acts", "picks", "attached"}
  /\ command \in Commands \cup {"none"} /\ target \in Targets \cup {Nobody}
  /\ listing \subseteq Sessions /\ Range(table) \subseteq Entries
  /\ id \in Sessions \cup {Nobody}
  /\ stale \in BOOLEAN
  /\ named \subseteq Sessions /\ overlaps \in [Sessions -> SUBSET Sessions]

(* Sessions made with names of their users, and nothing under way.         *)
Init ==
  /\ CwdInit(Old)
  /\ order \in SetToSeqs(Old)
  /\ \E n \in [Old -> Names] :
       name = [s \in Sessions |-> IF s \in Old THEN n[s] ELSE CHOOSE p \in PetNames : TRUE]
  /\ creating = [s \in Sessions |-> IF s \in Old THEN "done" ELSE "no"]
  /\ cpc = "idle" /\ command = "none" /\ target = Nobody
  /\ listing = {} /\ id = Nobody /\ table = <<>> /\ stale = TRUE
  /\ named = {} /\ overlaps = [s \in Sessions |-> {}]

-----------------------------------------------------------------------------
(* SessionManager::create: a name, a shell, and the registry, with other   *)
(* requests in between; one that fails goes no further.  generate gives a  *)
(* name in use when it has tried as often as it may, though some are free. *)
UnderWay == {s \in Sessions : creating[s] \in {"named", "spawned"}}

Creates(s, from, to) == creating[s] = from /\ creating' = [creating EXCEPT ![s] = to]

NameGiven(s) ==
  /\ name' \in {[name EXCEPT ![s] = n] : n \in Names}
  /\ UNCHANGED named

Generated(s, used) ==
  \E n \in PetNames :
    /\ name' = [name EXCEPT ![s] = n]
    /\ named' = IF n \in used THEN named ELSE named \cup {s}

NamesWith(s, choice) ==
  /\ Does("users") /\ Creates(s, "no", "named")
  /\ choice
  /\ overlaps' = [overlaps EXCEPT ![s] = UnderWay]
  /\ UNCHANGED <<order, cli, seen, cwdVars>>

NamesFreely(s) == NamesWith(s, NameGiven(s) \/ Generated(s, {}))   \* Faulty: used is ignored
NamesSession(s) == NamesWith(s, NameGiven(s) \/ Generated(s, {name[t] : t \in Listed}))

SpawnsSession(s) ==
  /\ Creates(s, "named", "spawned")
  /\ \E in \in {ReadLastCwd, Home} : Spawns(s, in)
  /\ UNCHANGED <<registry, named, overlaps, cli, seen, budget>>

(* A HashMap may put everything elsewhere.                                 *)
Inserts(s) ==
  /\ Creates(s, "spawned", "done")
  /\ order' \in SetToSeqs(Listed \cup {s})
  /\ stale' = TRUE
  /\ UNCHANGED <<name, named, overlaps, cli, table, cwdVars, budget>>

(* Requests that name a session by its id.                                 *)
Drops(s) ==
  /\ \E i \in DOMAIN order : order[i] = s /\ order' = RemoveAt(order, i)
  /\ stale' = TRUE
  /\ shell' = [shell EXCEPT ![s] = "gone"]
  /\ UNCHANGED <<name, table, creation, dir, poller, last_cwd, files>>

NewName(s) ==
  /\ name' \in {[name EXCEPT ![s] = n] : n \in Names}
  /\ named' = named \ {s} /\ stale' = TRUE
  /\ UNCHANGED <<order, table, creating, overlaps, cwdVars>>

Others == /\ Does("users") /\ \E s \in Listed : Drops(s) \/ NewName(s)
          /\ UNCHANGED cli

-----------------------------------------------------------------------------
(* The user's commands.                                                    *)
Becomes(pc, what, t, s) == cpc' = pc /\ command' = what /\ target' = t /\ id' = s
Stops == Becomes("idle", "none", Nobody, Nobody) /\ listing' = {}
World == UNCHANGED <<registry, creation, cwdVars>>

Ls ==
  /\ Does("users") /\ cpc = "idle"
  /\ table' = Listing /\ stale' = FALSE
  /\ UNCHANGED cli /\ World

(* resolve_target: an index, else the only one of that name, else the only *)
(* id that begins so.                                                      *)
Only(S) == IF Cardinality(S) = 1 THEN CHOOSE s \in S : TRUE ELSE Nobody

ByName(list, t) == {e.id : e \in {f \in Range(list) : f.name = t}}
ById(list, t) == {e.id : e \in Range(list)} \cap Matching[t]

ResolveNameFirst(list, t) ==    \* Faulty: an index is the last resort
  CASE ByName(list, t) # {} -> Only(ByName(list, t))
    [] ByName(list, t) = {} /\ AsIndex[t] \in DOMAIN list -> list[AsIndex[t]].id
    [] OTHER -> Only(ById(list, t))
ResolveTarget(list, t) ==
  CASE AsIndex[t] \in DOMAIN list -> list[AsIndex[t]].id
    [] AsIndex[t] \notin DOMAIN list /\ ByName(list, t) # {} -> Only(ByName(list, t))
    [] OTHER -> Only(ById(list, t))

(* cmd_attach, cmd_kill and cmd_rename, up to the second connection.       *)
Begins(what, t) ==
  LET s == ResolveTarget(Listing, t)
  IN /\ Does("users") /\ cpc = "idle"
     /\ IF s = Nobody \/ (what = "attach" /\ s = Self) THEN UNCHANGED cli
        ELSE Becomes("acts", what, t, s) /\ UNCHANGED listing
     /\ UNCHANGED seen /\ World

(* interactive_default, and the picker after a switch: any session in the  *)
(* list can be picked, whatever its place.                                 *)
Pickable == Listed \ {Self}

Offers(list) ==
  IF list = {} THEN Stops
  ELSE Becomes("picks", "attach", Nobody, Nobody) /\ listing' = list

Default ==
  /\ Does("users") /\ cpc = "idle"
  /\ IF Cardinality(Pickable) = 1
     THEN \E s \in Pickable : Becomes("acts", "attach", Nobody, s) /\ UNCHANGED listing
     ELSE Offers(Pickable)
  /\ UNCHANGED seen /\ World

SwitchesTo(list) ==
  /\ Does("users") /\ cpc = "attached" /\ Offers(list)
  /\ UNCHANGED seen /\ World
SwitchesAnywhere == SwitchesTo(Listed)    \* Faulty: the list is not filtered
Switches == SwitchesTo(Pickable)

Picks ==
  /\ cpc = "picks"
  /\ \/ Stops
     \/ /\ \E s \in listing : Becomes("acts", "attach", Nobody, s)
        /\ listing' = {}
  /\ UNCHANGED <<seen, budget>> /\ World

(* The second connection: the session may have gone since.                 *)
Attaches ==
  /\ cpc = "acts" /\ command = "attach"
  /\ IF id \in Listed
     THEN cpc' = "attached" /\ UNCHANGED <<command, target, listing, id>>
     ELSE Stops
  /\ UNCHANGED <<seen, budget>> /\ World

Finds(action) ==
  /\ IF id \in Listed THEN action ELSE UNCHANGED seen /\ World
  /\ Stops /\ UNCHANGED budget

Kills == cpc = "acts" /\ command = "kill" /\ Finds(Drops(id))
RenamesIt == cpc = "acts" /\ command = "rename" /\ Finds(NewName(id))

Leaves == cpc = "attached" /\ Stops /\ UNCHANGED <<seen, budget>> /\ World

-----------------------------------------------------------------------------
(* Shells move and end, and their pollers see it.                          *)
ShellOrPoller ==
  /\ \E s \in Sessions : Moves(s) \/ Poller(s) \/ (Does("shells") /\ ShellEnds(s))
  /\ UNCHANGED <<registry, creation, cli, seen>>

Create == \E s \in Sessions : NamesSession(s) \/ SpawnsSession(s) \/ Inserts(s)

Next ==
  \/ Create \/ Others \/ ShellOrPoller
  \/ Ls \/ Default \/ Switches \/ Picks \/ Attaches \/ Kills \/ RenamesIt \/ Leaves
  \/ \E what \in Commands, t \in Targets : Begins(what, t)

Spec == Init /\ [][Next]_vars

-----------------------------------------------------------------------------
(* cli_haven.rs:92-94: on no way, by target, default, picker or switch, is *)
(* a terminal attached to the session it runs in.                          *)
NotIntoItself == cpc = "attached" => id # Self

(* What a target denotes in the table the user has seen: an index before a *)
(* name, a name before an id.                                              *)
Denotes(t) ==
  LET numbered == {i \in DOMAIN table : i = AsIndex[t]}
      called == {i \in DOMAIN table : table[i].name = t}
      begins == {i \in DOMAIN table : table[i].id \in Matching[t]}
      best == IF numbered # {} THEN numbered ELSE IF called # {} THEN called ELSE begins
  IN {table[i].id : i \in best}

(* As long as no session has come, gone or changed its name since the last *)
(* `haven ls`, a command acts on the session its target denotes in what    *)
(* that showed, and on none if it denotes several (cli_haven.rs:389-444,   *)
(* over the two lists and the order of a HashMap).                         *)
SeenIsMeant ==
  [][(cpc = "idle" /\ cpc' = "acts" /\ target' # Nobody /\ ~stale)
       => Denotes(target') = {id'}]_vars

(* session.rs:51-60: two sessions have the same generated name only if     *)
(* they were created at the same time, or generate gave up on finding a    *)
(* name that is free.                                                      *)
TwinsOverlapped ==
  \A s, t \in Listed \cap named :
    (s # t /\ name[s] = name[t]) => s \in overlaps[t] \/ t \in overlaps[s]
=============================================================================
