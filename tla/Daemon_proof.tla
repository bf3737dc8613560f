----------------------------- MODULE Daemon_proof -----------------------------
(***************************************************************************)
(* A daemon from its start to its end.                                     *)
(*                                                                         *)
(* DaemonStart: for any daemons, paths and clients, started, dying and     *)
(* connecting in any order, only a second start at its path can make a     *)
(* daemon turn a client away, or cut it off from its socket.  The          *)
(* inductive invariant says what a daemon that is alone finds in its files *)
(* at each place, and what a client knows of the daemon it has connected   *)
(* to.  That somebody else is there never ceases to be true                *)
(* (StaysTouched), so it suffices to look at steps that leave the daemon   *)
(* alone.                                                                  *)
(*                                                                         *)
(* ParentWatch: for any set of processes, any grace periods and any number *)
(* of requests, what is watched is the last announced pid, and a pause is  *)
(* honoured unless a request came between the polling task's read and its  *)
(* probe.  The last needs to know how the deadline follows the promise: a  *)
(* watched pid means that no quiet time is left, and while nothing is      *)
(* watched a deadline is exactly the quiet time that is left.              *)
(***************************************************************************)
EXTENDS DaemonStart, ParentWatch, TLAPS

(* A socket leads to a daemon of that path which has bound it.             *)
SocketsBound ==
  \A p \in Paths : sock[p] # None =>
    Home(sock[p]) = p /\ dpc[sock[p]] \in {"bound", "listens", "serves", "dead"}

TokenInPlace ==
  \A d \in Daemons :
    dpc[d] \in {"binds", "bound", "listens", "serves"} /\ Alone(d)
    => token[Home(d)] = d

SocketInPlace ==
  \A d \in Daemons :
    dpc[d] \in {"bound", "listens", "serves"} /\ Alone(d) => sock[Home(d)] = d

Connected ==
  \A c \in Clients : cpc[c] \in {"reads", "auths", "unreadable", "rejected"} =>
    /\ peer[c] \in Daemons /\ Home(peer[c]) = chosen[c]
    /\ dpc[peer[c]] \in {"listens", "serves", "dead"}

TokenToRead ==
  \A c \in Clients : cpc[c] = "reads" /\ Alone(peer[c]) => token[chosen[c]] = peer[c]

TokenSent ==
  \A c \in Clients : cpc[c] = "auths" /\ Alone(peer[c]) => sent[c] = peer[c]

(* The daemon of a client that has not come to spawn it.                   *)
Unspawned ==
  \A c \in Clients :
    cpc[c] \in {"idle", "lists", "probes", "ensures"} => dpc[c] = "off"

FilesInv == SocketsBound /\ TokenInPlace /\ SocketInPlace
ClientInv == Connected /\ TokenToRead /\ TokenSent /\ TurnedAwayByRestart
IInv == TypeOK /\ Unspawned /\ FilesInv /\ ClientInv

-----------------------------------------------------------------------------
LEMMA HomeIsPath == \A d \in Daemons : Home(d) \in Paths
BY NamesAssumption DEF Home, Paths, Daemons

LEMMA InitTyped == Init => TypeOK
BY DEF Init, TypeOK, Paths

LEMMA DaemonTyped ==
  ASSUME TypeOK, NEW d \in Daemons, DaemonStep(d) \/ Starts(d) \/ Dies(d)
  PROVE  TypeOK'
<1> USE HomeIsPath DEF TypeOK, DaemonGoes, client, files, Starting
<1>1. CASE Starts(d) \/ Looks(d) \/ Listens(d) \/ Protects(d) \/ BindFails(d)
  BY <1>1 DEF Starts, Looks, Listens, Protects, BindFails
<1>2. CASE Removes(d)
  BY <1>2 DEF Removes
<1>3. CASE TruncatesToken(d)
  BY <1>3 DEF TruncatesToken
<1>4. CASE WritesToken(d)
  BY <1>4 DEF WritesToken
<1>5. CASE Binds(d)
  BY <1>5 DEF Binds, BindsFrom
<1>6. CASE Dies(d)
  BY <1>6 DEF Dies
<1>7. QED
  BY <1>1, <1>2, <1>3, <1>4, <1>5, <1>6 DEF DaemonStep

LEMMA ClientTyped ==
  ASSUME TypeOK, NEW c \in Clients, ClientStep(c)
  PROVE  TypeOK'
<1> USE DEF TypeOK, ClientGoes, files, Starting, Found, Ends
<1>1. CASE ProbesPlain(c)
  BY <1>1 DEF ProbesPlain, Settles, Paths
<1>2. CASE Lists(c)
  BY <1>2 DEF Lists
<1>3. CASE Probes(c)
  BY <1>3 DEF Probes, ProbeTaking, Settles, Paths, IsNewest
<1>4. CASE FallsBack(c)
  BY <1>4 DEF FallsBack, FallsBackTo, Settles, Paths, IsNewest
<1>5. CASE FindsSocket(c) \/ SpawnFails(c) \/ SocketAppears(c) \/ GivesUp(c)
  BY <1>5 DEF FindsSocket, SpawnFails, SocketAppears, GivesUp
<1>6. CASE Spawns(c)
  BY <1>6 DEF Spawns, Daemons
<1>7. CASE Connects(c)
  BY <1>7 DEF Connects, Live
<1>8. CASE ReadsToken(c)
  BY <1>8 DEF ReadsToken
<1>9. CASE Authenticates(c) \/ LosesConnection(c)
  BY <1>9 DEF Authenticates, LosesConnection
<1>10. QED
  BY <1>1, <1>2, <1>3, <1>4, <1>5, <1>6, <1>7, <1>8, <1>9 DEF ClientStep

LEMMA StepTyped == TypeOK /\ [Next]_vars => TypeOK'
<1>1. TypeOK /\ UNCHANGED vars => TypeOK'
  BY DEF TypeOK, vars, files, client
<1>2. QED
  BY <1>1, DaemonTyped, ClientTyped DEF Next

(* Types.                                                                  *)
THEOREM TypeCorrect == Spec => []TypeOK
BY InitTyped, StepTyped, PTL DEF Spec

-----------------------------------------------------------------------------
(* A daemon that has got past the cleanup stays past it.                   *)
LEMMA DaemonTouches ==
  ASSUME TypeOK, NEW d \in Daemons, DaemonStep(d) \/ Starts(d) \/ Dies(d)
  PROVE  /\ \A e \in Daemons \ {d} : dpc'[e] = dpc[e]
         /\ dpc'[d] \in Harmless => dpc[d] \in Harmless
         /\ UNCHANGED client
<1> USE DEF TypeOK, DaemonGoes, Harmless, Starting
<1>1. CASE Starts(d) \/ Looks(d) \/ Removes(d) \/ Listens(d) \/ Protects(d)
  BY <1>1 DEF Starts, Looks, Removes, Listens, Protects
<1>2. CASE TruncatesToken(d) \/ WritesToken(d) \/ Binds(d) \/ BindFails(d)
  BY <1>2 DEF TruncatesToken, WritesToken, Binds, BindsFrom, BindFails
<1>3. CASE Dies(d)
  BY <1>3 DEF Dies
<1>4. QED
  BY <1>1, <1>2, <1>3 DEF DaemonStep

(* A client moves no daemon but the one it spawns, and no file.            *)
LEMMA ClientTouches ==
  ASSUME TypeOK, NEW c \in Clients, ClientStep(c)
  PROVE  /\ UNCHANGED files
         /\ \/ UNCHANGED dpc
            \/ dpc' = [dpc EXCEPT ![c] = "looks"]
         /\ \A b \in Clients \ {c} :
              cpc'[b] = cpc[b] /\ chosen'[b] = chosen[b] /\ peer'[b] = peer[b]
              /\ sent'[b] = sent[b]
<1> USE DEF TypeOK, ClientGoes
<1>1. CASE ProbesPlain(c) \/ Lists(c) \/ FindsSocket(c) \/ SpawnFails(c)
  BY <1>1 DEF ProbesPlain, Settles, Lists, FindsSocket, SpawnFails
<1>2. CASE Probes(c) \/ FallsBack(c)
  BY <1>2 DEF Probes, ProbeTaking, FallsBack, FallsBackTo, Settles
<1>3. CASE Spawns(c) \/ SocketAppears(c) \/ GivesUp(c)
  BY <1>3 DEF Spawns, SocketAppears, GivesUp
<1>4. CASE Connects(c) \/ ReadsToken(c) \/ Authenticates(c) \/ LosesConnection(c)
  BY <1>4 DEF Connects, ReadsToken, Authenticates, LosesConnection
<1>5. QED
  BY <1>1, <1>2, <1>3, <1>4 DEF ClientStep

LEMMA StaysTouched ==
  ASSUME TypeOK, NEW d \in Daemons, DaemonStep(d) \/ Starts(d) \/ Dies(d)
  PROVE  \A e : Alone(e)' => Alone(e)
BY DaemonTouches DEF Alone

-----------------------------------------------------------------------------
(* What a daemon does to the files of its path.                            *)
LEMMA DaemonKeepsFiles ==
  ASSUME TypeOK, FilesInv, NEW d \in Daemons, DaemonStep(d) \/ Starts(d) \/ Dies(d)
  PROVE  FilesInv'
<1> USE HomeIsPath, NamesAssumption DEF TypeOK, DaemonGoes, Starting, FilesInv
<1>1. SocketsBound'
  <2> USE DEF SocketsBound
  <2>1. CASE Starts(d) \/ Looks(d) \/ Listens(d) \/ Protects(d) \/ BindFails(d)
    BY <2>1 DEF Starts, Looks, Listens, Protects, BindFails, files
  <2>2. CASE Removes(d)
    BY <2>2 DEF Removes
  <2>3. CASE TruncatesToken(d) \/ WritesToken(d)
    BY <2>3 DEF TruncatesToken, WritesToken
  <2>4. CASE Binds(d)
    BY <2>4 DEF Binds, BindsFrom
  <2>5. CASE Dies(d)
    BY <2>5 DEF Dies, files
  <2>6. QED
    BY <2>1, <2>2, <2>3, <2>4, <2>5 DEF DaemonStep
<1>2. SUFFICES ASSUME NEW e \in Daemons, Alone(e)'
               PROVE  /\ dpc'[e] \in {"binds", "bound", "listens", "serves"}
                           => token'[Home(e)] = e
                      /\ dpc'[e] \in {"bound", "listens", "serves"}
                           => sock'[Home(e)] = e
  BY <1>1 DEF TokenInPlace, SocketInPlace
<1>3. Alone(e)
  BY <1>2, StaysTouched
<1>4. d # e /\ Home(d) = Home(e) => dpc[d] \in Harmless /\ dpc'[d] \in Harmless
  BY <1>2, <1>3 DEF Alone
<1>5. /\ dpc[e] \in {"binds", "bound", "listens", "serves"} => token[Home(e)] = e
      /\ dpc[e] \in {"bound", "listens", "serves"} => sock[Home(e)] = e
  BY <1>3 DEF TokenInPlace, SocketInPlace
<1> USE <1>4, <1>5 DEF Harmless
<1>6. CASE Starts(d) \/ Looks(d) \/ Listens(d) \/ Protects(d) \/ BindFails(d)
  BY <1>6 DEF Starts, Looks, Listens, Protects, BindFails, files
<1>7. CASE Removes(d)
  BY <1>7 DEF Removes
<1>8. CASE TruncatesToken(d)
  BY <1>8 DEF TruncatesToken
<1>9. CASE WritesToken(d)
  BY <1>9 DEF WritesToken
<1>10. CASE Binds(d)
  BY <1>10 DEF Binds, BindsFrom
<1>11. CASE Dies(d)
  BY <1>11 DEF Dies, files
<1>12. QED
  BY <1>6, <1>7, <1>8, <1>9, <1>10, <1>11 DEF DaemonStep

(* A client moves a daemon only from "off" to "looks", which is harmless.  *)
LEMMA SpawnIsHarmless ==
  ASSUME TypeOK, Unspawned, NEW c \in Clients, ClientStep(c)
  PROVE  /\ \A d \in Daemons :
              dpc'[d] # dpc[d] => dpc[d] = "off" /\ dpc'[d] = "looks"
         /\ \A e : Alone(e)' <=> Alone(e)
<1>1. Spawns(c) => dpc[c] = "off"
  BY DEF Spawns, ClientGoes, Unspawned
<1>2. \/ UNCHANGED dpc
      \/ dpc[c] = "off" /\ dpc' = [dpc EXCEPT ![c] = "looks"]
  <2>1. CASE Spawns(c)
    BY <1>1, <2>1 DEF Spawns
  <2>2. CASE ~Spawns(c)
    BY <2>2 DEF ClientStep, ProbesPlain, Lists, Probes, ProbeTaking, FallsBack,
                FallsBackTo, FindsSocket, SpawnFails, SocketAppears, GivesUp,
                Connects, ReadsToken, Authenticates, LosesConnection
  <2>3. QED
    BY <2>1, <2>2
<1>3. \A d \in Daemons :
        dpc'[d] # dpc[d] => dpc[d] = "off" /\ dpc'[d] = "looks"
  BY <1>2 DEF TypeOK
<1>4. \A d \in Daemons : dpc'[d] \in Harmless <=> dpc[d] \in Harmless
  BY <1>3 DEF Harmless
<1>5. QED
  BY <1>3, <1>4 DEF Alone

LEMMA ClientKeepsFiles ==
  ASSUME TypeOK, Unspawned, FilesInv, NEW c \in Clients, ClientStep(c)
  PROVE  FilesInv'
<1>1. UNCHANGED files
  BY ClientTouches
<1>2. SocketsBound'
  BY <1>1, SpawnIsHarmless DEF SocketsBound, FilesInv, files, TypeOK
<1>3. TokenInPlace' /\ SocketInPlace'
  BY <1>1, SpawnIsHarmless DEF TokenInPlace, SocketInPlace, FilesInv, files
<1>4. QED
  BY <1>2, <1>3 DEF FilesInv

LEMMA KeepsUnspawned ==
  ASSUME TypeOK, Unspawned, Next
  PROVE  Unspawned'
<1>1. ASSUME NEW d \in Daemons, DaemonStep(d) \/ Starts(d) \/ Dies(d)
      PROVE  Unspawned'
  <2>1. dpc[d] = "off" => d \in Started
    BY <1>1 DEF DaemonStep, Looks, Removes, TruncatesToken, WritesToken, Binds,
                BindsFrom, BindFails, Listens, Protects, Starts, Dies, DaemonGoes,
                Starting
  <2>2. QED
    BY <1>1, <2>1, DaemonTouches, NamesAssumption DEF Unspawned, client, Daemons
<1>2. ASSUME NEW c \in Clients, ClientStep(c)
      PROVE  Unspawned'
  <2>1. ASSUME NEW b \in Clients \ {c}
        PROVE  cpc'[b] = cpc[b] /\ dpc'[b] = dpc[b]
    BY <1>2, ClientTouches DEF TypeOK, Daemons
  <2>2. \/ cpc'[c] \notin {"idle", "lists", "probes", "ensures"}
        \/ UNCHANGED dpc /\ cpc[c] \in {"idle", "lists", "probes", "ensures"}
    BY <1>2 DEF TypeOK, ClientStep, ClientGoes, ProbesPlain, Lists, Probes,
                ProbeTaking, FallsBack, FallsBackTo, FindsSocket, SpawnFails, Spawns,
                SocketAppears, GivesUp, Connects, ReadsToken, Authenticates,
                LosesConnection
  <2>3. QED
    BY <2>1, <2>2 DEF Unspawned
<1>3. QED
  BY <1>1, <1>2 DEF Next

-----------------------------------------------------------------------------
(* What a client knows of the daemon it is connected to.                   *)
LEMMA DaemonKeepsClients ==
  ASSUME TypeOK, FilesInv, ClientInv, NEW d \in Daemons,
         DaemonStep(d) \/ Starts(d) \/ Dies(d)
  PROVE  ClientInv'
<1>1. UNCHANGED client
  BY DaemonTouches
<1>2. ASSUME NEW e \in Daemons, dpc[e] \in {"listens", "serves", "dead"}
      PROVE  /\ dpc'[e] \in {"listens", "serves", "dead"}
             /\ Alone(e)' => token'[Home(e)] = token[Home(e)]
  <2>1. dpc'[e] \in {"listens", "serves", "dead"}
    BY <1>2 DEF TypeOK, DaemonGoes, DaemonStep, Looks, Removes, TruncatesToken,
                WritesToken, Binds, BindsFrom, BindFails, Listens, Protects, Starts,
                Dies, Starting
  <2>2. \/ UNCHANGED token
        \/ dpc[d] \in {"truncates", "writes"}
           /\ \E t : token' = [token EXCEPT ![Home(d)] = t]
    BY DEF DaemonGoes, DaemonStep, Looks, Removes, TruncatesToken, WritesToken,
           Binds, BindsFrom, BindFails, Listens, Protects, Starts, Dies, files
  <2>3. Alone(e)' /\ dpc[d] \in {"truncates", "writes"} => Home(d) # Home(e)
    BY <1>2, StaysTouched DEF Alone, Harmless
  <2>4. QED
    BY <2>1, <2>2, <2>3, HomeIsPath DEF TypeOK
<1>3. Connected'
  BY <1>1, <1>2 DEF Connected, ClientInv, client
<1>4. TokenToRead'
  BY <1>1, <1>2, StaysTouched DEF TokenToRead, Connected, ClientInv, client
<1>5. TokenSent' /\ TurnedAwayByRestart'
  BY <1>1, StaysTouched DEF TokenSent, TurnedAwayByRestart, ClientInv, client
<1>6. QED
  BY <1>3, <1>4, <1>5 DEF ClientInv

LEMMA ClientKeepsClients ==
  ASSUME TypeOK, Unspawned, FilesInv, ClientInv, NEW c \in Clients, ClientStep(c)
  PROVE  ClientInv'
<1>1. UNCHANGED files
  BY ClientTouches
<1>2. ASSUME NEW b \in Clients \ {c}
      PROVE  cpc'[b] = cpc[b] /\ chosen'[b] = chosen[b] /\ peer'[b] = peer[b]
             /\ sent'[b] = sent[b]
  BY ClientTouches
<1>3. ASSUME NEW e \in Daemons, dpc[e] \in {"listens", "serves", "dead"}
      PROVE  dpc'[e] \in {"listens", "serves", "dead"}
  BY <1>3, SpawnIsHarmless
<1>4. CASE Connects(c)
  <2>1. CASE cpc'[c] = "refused"
    BY <1>1, <1>2, <1>3, <2>1, SpawnIsHarmless
       DEF ClientInv, Connected, TokenToRead, TokenSent, TurnedAwayByRestart, files
  <2>2. CASE cpc'[c] # "refused"
    <3>1. /\ cpc'[c] = "reads" /\ peer'[c] = sock[chosen[c]] /\ chosen' = chosen
          /\ Live(chosen[c])
      BY <1>4, <2>2 DEF Connects, ClientGoes, TypeOK
    <3>2. /\ peer'[c] \in Daemons /\ Home(peer'[c]) = chosen[c]
          /\ dpc[peer'[c]] \in {"listens", "serves"}
      BY <3>1 DEF Live, Listening, FilesInv, SocketsBound, TypeOK
    <3>3. Alone(peer'[c]) => token[chosen[c]] = peer'[c]
      BY <3>2 DEF FilesInv, TokenInPlace
    <3>4. Connected'
      BY <1>2, <1>3, <3>1, <3>2 DEF Connected, ClientInv
    <3>5. TokenToRead'
      BY <1>1, <1>2, <3>1, <3>3, SpawnIsHarmless DEF TokenToRead, ClientInv, files
    <3>6. TokenSent' /\ TurnedAwayByRestart'
      BY <1>2, <3>1, SpawnIsHarmless DEF TokenSent, TurnedAwayByRestart, ClientInv
    <3>7. QED
      BY <3>4, <3>5, <3>6 DEF ClientInv
  <2>3. QED
    BY <2>1, <2>2
<1>5. CASE ReadsToken(c)
  <2>1. /\ cpc[c] = "reads" /\ cpc'[c] \in {"unreadable", "auths"}
        /\ cpc'[c] = "unreadable" => token[chosen[c]] = None
        /\ sent'[c] = token[chosen[c]]
        /\ peer' = peer /\ chosen' = chosen
    BY <1>5 DEF ReadsToken, ClientGoes, TypeOK
  <2>2. peer[c] \in Daemons
    BY <2>1 DEF ClientInv, Connected
  <2>3. Alone(peer[c]) => token[chosen[c]] = peer[c] /\ peer[c] # None
    BY <2>1, <2>2, NamesAssumption DEF ClientInv, TokenToRead
  <2>4. Connected'
    BY <1>2, <1>3, <2>1 DEF Connected, ClientInv
  <2>5. TokenToRead'
    BY <1>1, <1>2, <2>1, SpawnIsHarmless DEF TokenToRead, ClientInv, files
  <2>6. TokenSent' /\ TurnedAwayByRestart'
    BY <1>2, <2>1, <2>3, SpawnIsHarmless DEF TokenSent, TurnedAwayByRestart, ClientInv
  <2>7. QED
    BY <2>4, <2>5, <2>6 DEF ClientInv
<1>6. CASE Authenticates(c)
  <2>1. /\ cpc[c] = "auths" /\ cpc'[c] \in {"ok", "rejected"}
        /\ cpc'[c] = "rejected" => sent[c] # peer[c]
        /\ peer' = peer /\ chosen' = chosen
    BY <1>6 DEF Authenticates, ClientGoes, TypeOK
  <2>2. Connected'
    BY <1>2, <1>3, <2>1 DEF Connected, ClientInv
  <2>3. TokenToRead'
    BY <1>1, <1>2, <2>1, SpawnIsHarmless DEF TokenToRead, ClientInv, files
  <2>4. TokenSent' /\ TurnedAwayByRestart'
    BY <1>2, <2>1, SpawnIsHarmless DEF TokenSent, TurnedAwayByRestart, ClientInv
  <2>5. QED
    BY <2>2, <2>3, <2>4 DEF ClientInv
<1>7. CASE ~Connects(c) /\ ~ReadsToken(c) /\ ~Authenticates(c)
  <2>1. cpc'[c] \notin {"reads", "auths", "unreadable", "rejected"}
    BY <1>7 DEF TypeOK, ClientStep, ClientGoes, ProbesPlain, Lists, Probes,
                ProbeTaking, FallsBack, FallsBackTo, FindsSocket, SpawnFails, Spawns,
                SocketAppears, GivesUp, LosesConnection
  <2>2. QED
    BY <1>1, <1>2, <1>3, <2>1, SpawnIsHarmless
       DEF ClientInv, Connected, TokenToRead, TokenSent, TurnedAwayByRestart, files
<1>8. QED
  BY <1>4, <1>5, <1>6, <1>7

-----------------------------------------------------------------------------
LEMMA InitInv == Init => IInv
BY InitTyped, NamesAssumption
   DEF Init, IInv, Unspawned, FilesInv, SocketsBound, TokenInPlace, SocketInPlace,
       ClientInv, Connected, TokenToRead, TokenSent, TurnedAwayByRestart, Daemons

LEMMA StepInv == IInv /\ [Next]_vars => IInv'
<1>1. IInv /\ UNCHANGED vars => IInv'
  BY StepTyped
     DEF IInv, vars, files, client, Unspawned, FilesInv, SocketsBound, TokenInPlace,
         SocketInPlace, ClientInv, Connected, TokenToRead, TokenSent,
         TurnedAwayByRestart, Alone
<1>2. IInv /\ Next => IInv'
  <2> SUFFICES ASSUME IInv, Next PROVE IInv'
    OBVIOUS
  <2>1. TypeOK' /\ Unspawned'
    BY StepTyped, KeepsUnspawned DEF IInv
  <2>2. FilesInv' /\ ClientInv'
    BY DaemonKeepsFiles, DaemonKeepsClients, ClientKeepsFiles, ClientKeepsClients
       DEF IInv, Next
  <2>3. QED
    BY <2>1, <2>2 DEF IInv
<1>3. QED
  BY <1>1, <1>2

LEMMA Invariance == Spec => []IInv
BY InitInv, StepInv, PTL DEF Spec

(* daemon.rs:99-118: a client that connects to the only daemon that ever   *)
(* got past the cleanup at its path is not turned away.                    *)
THEOREM TurnedAwayByRestartHolds == Spec => []TurnedAwayByRestart
<1>1. IInv => TurnedAwayByRestart
  BY DEF IInv, ClientInv
<1>2. QED
  BY <1>1, Invariance, PTL

(* daemon.rs:99-157: a daemon that serves and cannot be reached has had    *)
(* its socket taken by another that got past the cleanup.                  *)
THEOREM CutOffByRestartHolds == Spec => []CutOffByRestart
<1>1. IInv => CutOffByRestart
  BY DEF IInv, FilesInv, SocketInPlace, CutOffByRestart
<1>2. QED
  BY <1>1, Invariance, PTL

-----------------------------------------------------------------------------
(* What a client has found out by the time it lists, probes and settles,   *)
(* if no daemon has moved since it began.                                  *)
NoneLive(vs) == \A v \in vs : ~Live(v)
There == {v \in Versions : sock[v] # None}

Searched(c) ==
  /\ cpc[c] \in {"lists", "probes"} => ~Live(0)
  /\ cpc[c] = "probes" => /\ listed[c] = There /\ left[c] \subseteq listed[c]
                          /\ NoneLive(listed[c] \ left[c])
  /\ cpc[c] \in Found => Best(chosen[c])

Search == \A c \in Clients : quiet[c] => Searched(c)

LEMMA LiveIsThere == \A v \in Versions : Live(v) => v \in There
BY DEF Live, There

(* A socket that is probed with success is the newest one with a listener. *)
LEMMA NewestLeftIsBest ==
  ASSUME NEW c \in Clients, Searched(c), cpc[c] = "probes",
         NEW v \in left[c], IsNewest(v, left[c]), Live(v)
  PROVE  Best(v)
<1> DEFINE live == {w \in Versions : Live(w)}
<1>1. ~Live(0) /\ left[c] \subseteq There /\ NoneLive(There \ left[c])
  BY DEF Searched
<1>2. live \subseteq left[c] /\ v \in live
  BY <1>1, LiveIsThere DEF NoneLive, There
<1>3. IsNewest(v, live)
  BY <1>2 DEF IsNewest
<1>4. QED
  BY <1>1, <1>2, <1>3 DEF Best

(* Where none is left, the newest file is the best there is.               *)
LEMMA FallbackIsBest ==
  ASSUME NEW c \in Clients, Searched(c), cpc[c] = "probes", left[c] = {}
  PROVE  /\ \A v \in listed[c] : IsNewest(v, listed[c]) => Best(v)
         /\ listed[c] = {} => Best(0)
<1>1. ~Live(0) /\ listed[c] = There /\ NoneLive(There)
  BY DEF Searched
<1>2. {w \in Versions : Live(w)} = {}
  BY <1>1, LiveIsThere DEF NoneLive
<1>3. QED
  BY <1>1, <1>2 DEF Best, There

(* The steps of a client that leave all daemons where they are.            *)
LEMMA ClientSearches ==
  ASSUME TypeOK, Search, NEW c \in Clients, ClientStep(c), ~Spawns(c)
  PROVE  Search'
<1>1. UNCHANGED <<sock, dpc>>
  BY DEF files, ClientStep, ClientGoes, ProbesPlain, Lists, Probes, ProbeTaking, FallsBack,
         FallsBackTo, FindsSocket, SpawnFails, SocketAppears, GivesUp, Connects,
         ReadsToken, Authenticates, LosesConnection
<1>2. /\ \A p : Live(p)' <=> Live(p)
      /\ \A p : Best(p)' <=> Best(p)
      /\ There' = There
      /\ \A vs : NoneLive(vs)' <=> NoneLive(vs)
  BY <1>1 DEF Live, Best, There, NoneLive
<1>3. ASSUME NEW b \in Clients \ {c}
      PROVE  /\ cpc'[b] = cpc[b] /\ chosen'[b] = chosen[b] /\ left'[b] = left[b]
             /\ listed'[b] = listed[b] /\ quiet'[b] = quiet[b]
  BY <1>3 DEF TypeOK, ClientStep, ClientGoes, ProbesPlain, Lists, Probes, ProbeTaking,
         FallsBack, FallsBackTo, FindsSocket, SpawnFails, SocketAppears, GivesUp, Connects,
         ReadsToken, Authenticates, LosesConnection, Settles
<1>4. \A b \in Clients \ {c} : quiet'[b] => Searched(b)'
  BY <1>2, <1>3 DEF Search, Searched
<1>5. ASSUME quiet'[c] PROVE Searched(c)'
  <2>1. CASE ProbesPlain(c)
    <3>1. chosen'[c] = 0 /\ cpc'[c] = (IF Live(0) THEN "ensures" ELSE "lists")
      BY <2>1 DEF ProbesPlain, ClientGoes, Settles, TypeOK
    <3>2. Live(0) => Best(0)
      BY DEF Best
    <3>3. QED
      BY <1>2, <3>1, <3>2 DEF Searched, Found
  <2>2. CASE Lists(c)
    <3>1. /\ cpc[c] = "lists" /\ cpc'[c] = "probes" /\ quiet[c]
          /\ listed'[c] = There /\ left'[c] = There
      BY <1>5, <2>2 DEF Lists, ClientGoes, TypeOK, There
    <3>2. QED
      BY <1>2, <3>1 DEF Search, Searched, Found, NoneLive
  <2>3. CASE Probes(c)
    <3>1. cpc[c] = "probes" /\ quiet[c] /\ Searched(c)
      BY <1>5, <2>3 DEF Probes, ProbeTaking, ClientGoes, Search
    <3>2. PICK v \in left[c] :
            /\ IsNewest(v, left[c])
            /\ \/ Live(v) /\ cpc'[c] = "ensures" /\ chosen'[c] = v
               \/ /\ ~Live(v) /\ cpc'[c] = "probes" /\ listed'[c] = listed[c]
                  /\ left'[c] = left[c] \ {v}
      BY <2>3 DEF Probes, ProbeTaking, ClientGoes, Settles, TypeOK
    <3>3. CASE Live(v) /\ cpc'[c] = "ensures" /\ chosen'[c] = v
      BY <1>2, <3>1, <3>2, <3>3, NewestLeftIsBest DEF Searched
    <3>4. CASE /\ ~Live(v) /\ cpc'[c] = "probes" /\ listed'[c] = listed[c]
               /\ left'[c] = left[c] \ {v}
      BY <1>2, <3>1, <3>4 DEF Searched, NoneLive, Found
    <3>5. QED
      BY <3>2, <3>3, <3>4
  <2>4. CASE FallsBack(c)
    <3>1. cpc[c] = "probes" /\ quiet[c] /\ left[c] = {} /\ cpc'[c] = "ensures" /\ Searched(c)
      BY <1>5, <2>4 DEF FallsBack, FallsBackTo, ClientGoes, Search, TypeOK
    <3>2. \/ \E v \in listed[c] : IsNewest(v, listed[c]) /\ chosen'[c] = v
          \/ listed[c] = {} /\ chosen'[c] = 0
      BY <2>4 DEF FallsBack, FallsBackTo, Settles, TypeOK
    <3>3. QED
      BY <1>2, <3>1, <3>2, FallbackIsBest DEF Searched
  <2>5. CASE ~ProbesPlain(c) /\ ~Lists(c) /\ ~Probes(c) /\ ~FallsBack(c)
    <3>1. /\ cpc[c] \in Found /\ cpc'[c] \in Found \cup Ends
          /\ chosen'[c] = chosen[c] /\ quiet'[c] = quiet[c]
      BY <2>5 DEF TypeOK, ClientStep, ClientGoes, FindsSocket, SpawnFails, SocketAppears,
                  GivesUp, Connects, ReadsToken, Authenticates, LosesConnection, Found, Ends
    <3>2. cpc'[c] \notin {"lists", "probes"}
      BY <3>1 DEF Found, Ends
    <3>3. QED
      BY <1>2, <1>5, <3>1, <3>2 DEF Search, Searched
  <2>6. QED
    BY <2>1, <2>2, <2>3, <2>4, <2>5
<1>6. QED
  BY <1>4, <1>5 DEF Search

LEMMA NextSearch == TypeOK /\ Search /\ [Next]_vars => Search'
<1> SUFFICES ASSUME TypeOK, Search, [Next]_vars PROVE Search'
  OBVIOUS
<1>1. CASE UNCHANGED vars
  BY <1>1 DEF vars, files, client, Search, Searched, Live, Best, There, NoneLive
<1>2. ASSUME NEW d \in Daemons, DaemonStep(d) \/ Starts(d) \/ Dies(d) PROVE Search'
  <2>1. quiet' = [c \in Clients |-> FALSE]
    BY <1>2 DEF DaemonStep, Starts, Looks, Removes, TruncatesToken, WritesToken, Binds,
                BindsFrom, BindFails, Listens, Protects, Dies, DaemonGoes
  <2>2. QED
    BY <2>1 DEF Search
<1>3. ASSUME NEW c \in Clients, Spawns(c) PROVE Search'
  BY <1>3 DEF Spawns, Search
<1>4. QED
  BY <1>1, <1>2, <1>3, ClientSearches DEF Next

(* lib.rs:55-99: for any versions and however many daemons there are, a    *)
(* client that looks for a socket while no daemon moves finds the best.    *)
THEOREM DiscoversBestHolds == Spec => []DiscoversBest
<1>1. Init => Search
  BY DEF Init, Search, Searched, Found
<1>2. Search => DiscoversBest
  BY DEF Search, Searched, DiscoversBest
<1>3. QED
  BY <1>1, <1>2, NextSearch, InitTyped, StepTyped, PTL DEF Spec

-----------------------------------------------------------------------------
(* The parent watch.                                                       *)
DeadlineIsPromise ==
  /\ pid # NoPid => promised = 0
  /\ pid = NoPid /\ grace_until # NoGrace => promised = grace_until

ProbeIsCurrent == pc = "probing" /\ ~raced => pid = pid_to_check

WatchIInv ==
  WatchTypeOK /\ WatchesLastKnown /\ DeadlineIsPromise /\ ProbeIsCurrent

LEMMA WatchInitIInv == WatchInit => WatchIInv
<1> SUFFICES ASSUME WatchInit PROVE WatchIInv
  OBVIOUS
<1>1. promised \in Graces \cup {Forever} /\ (pid # NoPid => promised = 0)
  BY GraceAssumption DEF WatchInit, Graces
<1>2. pid \in Pids \cup {NoPid} /\ last_known_pid \in Pids \cup {NoPid}
  BY DEF WatchInit
<1>3. requests \in 0 .. MaxRequests
  BY GraceAssumption DEF WatchInit
<1>4. WatchTypeOK
  BY <1>1, <1>2, <1>3 DEF WatchInit, WatchTypeOK, PollerPc
<1>5. QED
  BY <1>1, <1>4
     DEF WatchInit, WatchIInv, WatchesLastKnown, DeadlineIsPromise,
         ProbeIsCurrent

LEMMA WatchNextIInv == WatchIInv /\ [WatchNext]_watchVars => WatchIInv'
<1> SUFFICES ASSUME WatchIInv, [WatchNext]_watchVars PROVE WatchIInv'
  OBVIOUS
<1> USE PidsAssumption, GraceAssumption
    DEF WatchIInv, WatchTypeOK, WatchesLastKnown, DeadlineIsPromise,
        ProbeIsCurrent,
        Graces, PollerPc, state, ghosts
<1>1. CASE ReadState
  BY <1>1 DEF ReadState, GraceExpired, OrElse
<1>2. CASE Probe
  BY <1>2 DEF Probe, PidAlive
<1>3. CASE KillAllDone
  BY <1>3 DEF KillAllDone
<1>4. CASE Exit
  BY <1>4 DEF Exit
<1>5. ASSUME NEW p \in Pids \cup {NoPid}, NEW g \in Graces \cup {NoGrace},
             SetParentWatch(p, g)
      PROVE  WatchIInv'
  <2>1. promised' \in Graces \cup {Forever}
    BY <1>5 DEF SetParentWatch
  <2>2. last_known_pid' \in Pids \cup {NoPid} /\ requests' \in 0 .. MaxRequests
    BY <1>5 DEF SetParentWatch, Remember, OrElse
  <2>3. WatchTypeOK'
    BY <1>5, <2>1, <2>2 DEF SetParentWatch
  <2>4. WatchesLastKnown'
    BY <1>5 DEF SetParentWatch, Remember, OrElse
  <2>5. DeadlineIsPromise'
    BY <1>5 DEF SetParentWatch
  <2>6. ProbeIsCurrent'
    BY <1>5 DEF SetParentWatch
  <2>7. QED
    BY <2>3, <2>4, <2>5, <2>6
<1>6. CASE Tick
  <2>1. WatchTypeOK'
    BY <1>6 DEF Tick, LessTime
  <2>2. DeadlineIsPromise'
    BY <1>6 DEF Tick, LessTime
  <2>3. QED
    BY <1>6, <2>1, <2>2 DEF Tick
<1>7. ASSUME NEW p \in Pids, ProcessDies(p) \/ PidReused(p)
      PROVE  WatchIInv'
  BY <1>7 DEF ProcessDies, PidReused
<1>8. CASE UNCHANGED watchVars
  BY <1>8 DEF watchVars
<1>9. QED
  BY <1>1, <1>2, <1>3, <1>4, <1>5, <1>6, <1>7, <1>8
     DEF WatchNext, Poller, Polling, Requests, System

(* The state of the watch and of its polling task keeps its types.         *)
THEOREM WatchTypeCorrect == WatchSpec => []WatchTypeOK
<1>1. WatchIInv => WatchTypeOK
  BY DEF WatchIInv
<1>2. QED
  BY WatchInitIInv, WatchNextIInv, <1>1, PTL DEF WatchSpec

(* daemon.rs:167-188 and 588-594: whatever is watched is the pid announced *)
(* last, and the probe never runs without a pid.                           *)
THEOREM WatchesLastKnownHolds == WatchSpec => []WatchesLastKnown
<1>1. WatchIInv => WatchesLastKnown
  BY DEF WatchIInv
<1>2. QED
  BY WatchInitIInv, WatchNextIInv, <1>1, PTL DEF WatchSpec

(* daemon.rs:160-162: the daemon shuts down only for the process it is     *)
(* watching, when that is gone and no quiet time is left -- unless a       *)
(* request came between the read and the probe.                            *)
THEOREM PauseHonouredHolds == WatchSpec => PauseHonoured
<1> DEFINE Honoured == ShutsDown /\ ~raced => /\ promised = 0
                                              /\ pid = pid_to_check
                                              /\ pid \notin alive
<1>1. ASSUME WatchIInv, [WatchNext]_watchVars PROVE [Honoured]_watchVars
  <2>1. SUFFICES ASSUME ShutsDown, ~raced, WatchNext
                 PROVE  promised = 0 /\ pid = pid_to_check /\ pid \notin alive
    BY <1>1
  <2>2. Probe
    BY <2>1 DEF ShutsDown, WatchNext, Poller, Polling, Requests, System, ReadState, KillAllDone,
                Exit, SetParentWatch, Tick, ProcessDies, PidReused
  <2>3. pid = pid_to_check /\ pid # NoPid
    BY <1>1, <2>1, <2>2 DEF WatchIInv, ProbeIsCurrent, WatchesLastKnown, Probe
  <2>4. promised = 0
    BY <1>1, <2>3 DEF WatchIInv, DeadlineIsPromise
  <2>5. pid \notin alive
    BY <2>1, <2>2, <2>3 DEF Probe, PidAlive, ShutsDown
  <2>6. QED
    BY <2>3, <2>4, <2>5
<1>2. QED
  BY WatchInitIInv, WatchNextIInv, <1>1, PTL DEF WatchSpec, PauseHonoured
=============================================================================
