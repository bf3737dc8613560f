----------------------------- MODULE DaemonStart -----------------------------
(***************************************************************************)
(* Starting daemons and finding them: Daemon::run and its token            *)
(* (haven-daemon/src/daemon.rs), discover_socket_path_in                   *)
(* (haven-protocol/src/lib.rs), ensure_daemon_running                      *)
(* (haven-client/src/autostart.rs) and connect_daemon                      *)
(* (haven-client/src/client.rs).                                           *)
(*                                                                         *)
(* Daemons and clients share nothing but files: a socket and a token at    *)
(* each path.  Path 0 is daemon.sock; path v is daemon-{v}.sock.  A daemon *)
(* stands for its listener and for the token it has drawn, and a client    *)
(* for the daemon it may spawn as well.                                    *)
(***************************************************************************)
EXTENDS Naturals

CONSTANTS Clients,   \* runs of the haven command
          Started,   \* daemons started by users and by the application
          Versions,  \* versions that have a path
          PathOf,    \* the path of each started daemon
          None,      \* no file, nobody
          Empty      \* the content of a token file that has been truncated

Paths == Versions \cup {0}
Daemons == Started \cup Clients

ASSUME NamesAssumption ==
  /\ Versions \subseteq Nat \ {0}
  /\ PathOf \in [Started -> Paths]
  /\ Started \cap Clients = {}
  /\ None \notin Daemons /\ Empty \notin Daemons /\ None # Empty

VARIABLES
  sock,     \* the daemon whose listener a socket file leads to
  token,    \* the daemon whose token a token file holds
  dpc,      \* where each daemon is in run
  cpc,      \* where each client is; at the end, what came of it
  left,     \* versioned sockets the client has still to probe
  listed,   \* versioned sockets it has listed
  chosen,   \* the path it has settled on
  peer,     \* the daemon it is connected to
  sent,     \* the token it has sent
  quiet     \* ghost: no daemon has taken a step since the client began

files == <<sock, token>>
client == <<cpc, left, listed, chosen, peer, sent>>
vars == <<files, dpc, client, quiet>>

Starting == {"looks", "removes", "truncates", "writes", "binds", "bound", "listens"}
Listening == {"listens", "serves"}
Found == {"ensures", "polls", "connects", "reads", "auths"}
Ends == {"ok", "unstarted", "refused", "unreadable", "rejected", "lost"}

TypeOK ==
  /\ sock \in [Paths -> Daemons \cup {None}]
  /\ token \in [Paths -> Daemons \cup {None, Empty}]
  /\ dpc \in [Daemons -> Starting \cup {"off", "serves", "dead"}]
  /\ cpc \in [Clients -> {"idle", "lists", "probes"} \cup Found \cup Ends]
  /\ left \in [Clients -> SUBSET Versions]
  /\ listed \in [Clients -> SUBSET Versions]
  /\ chosen \in [Clients -> Paths]
  /\ peer \in [Clients -> Daemons \cup {None}]
  /\ sent \in [Clients -> Daemons \cup {None, Empty}]
  /\ quiet \in [Clients -> BOOLEAN]

Init ==
  /\ sock = [p \in Paths |-> None] /\ token = [p \in Paths |-> None]
  /\ dpc = [d \in Daemons |-> "off"]
  /\ cpc = [c \in Clients |-> "idle"]
  /\ left = [c \in Clients |-> {}] /\ listed = [c \in Clients |-> {}]
  /\ chosen = [c \in Clients |-> 0]
  /\ peer = [c \in Clients |-> None] /\ sent = [c \in Clients |-> None]
  /\ quiet = [c \in Clients |-> TRUE]

-----------------------------------------------------------------------------
(* A spawned daemon gets no --socket: it listens at path 0.                *)
Home(d) == IF d \in Started THEN PathOf[d] ELSE 0

DaemonGoes(d, from, to) ==
  /\ dpc[d] = from
  /\ dpc' = [dpc EXCEPT ![d] = to]
  /\ quiet' = [c \in Clients |-> FALSE]
  /\ UNCHANGED client

Starts(d) ==
  /\ d \in Started
  /\ DaemonGoes(d, "off", "looks")
  /\ UNCHANGED files

Looks(d) ==
  /\ DaemonGoes(d, "looks", IF sock[Home(d)] = None THEN "truncates" ELSE "removes")
  /\ UNCHANGED files

RemovesLast(d) ==    \* Faulty: the cleanup comes last
  /\ DaemonGoes(d, "listens", "serves")
  /\ sock' = [sock EXCEPT ![Home(d)] = None]
  /\ UNCHANGED token

Removes(d) ==
  /\ DaemonGoes(d, "removes", "truncates")
  /\ sock' = [sock EXCEPT ![Home(d)] = None]
  /\ UNCHANGED token

TruncatesToken(d) ==
  /\ DaemonGoes(d, "truncates", "writes")
  /\ token' = [token EXCEPT ![Home(d)] = Empty]
  /\ UNCHANGED sock

WritesToken(d) ==
  /\ DaemonGoes(d, "writes", "binds")
  /\ token' = [token EXCEPT ![Home(d)] = d]
  /\ UNCHANGED sock

BindsFrom(d, place) ==
  /\ sock[Home(d)] = None
  /\ DaemonGoes(d, place, "bound")
  /\ sock' = [sock EXCEPT ![Home(d)] = d]
  /\ UNCHANGED token

BindsWithoutToken(d) == BindsFrom(d, "writes")   \* Faulty: not yet written
Binds(d) == BindsFrom(d, "binds")

(* The address is in use: run fails, and the process exits.                *)
BindFails(d) ==
  /\ sock[Home(d)] # None
  /\ DaemonGoes(d, "binds", "dead")
  /\ UNCHANGED files

Listens(d) ==
  /\ DaemonGoes(d, "bound", "listens")
  /\ UNCHANGED files

(* set_permissions fails if the socket has been removed.                   *)
Protects(d) ==
  /\ DaemonGoes(d, "listens", IF sock[Home(d)] = None THEN "dead" ELSE "serves")
  /\ UNCHANGED files

(* A crash, a signal, the parent watch: the files stay.                    *)
Dies(d) ==
  /\ dpc[d] \in Starting \cup {"serves"}
  /\ DaemonGoes(d, dpc[d], "dead")
  /\ UNCHANGED files

-----------------------------------------------------------------------------
Live(p) == sock[p] # None /\ dpc[sock[p]] \in Listening

ClientGoes(c, from, to) ==
  /\ cpc[c] = from
  /\ cpc' = [cpc EXCEPT ![c] = to]
  /\ UNCHANGED files

Settles(c, p) == chosen' = [chosen EXCEPT ![c] = p]

ProbesPlain(c) ==
  /\ ClientGoes(c, "idle", IF Live(0) THEN "ensures" ELSE "lists")
  /\ Settles(c, 0)
  /\ quiet' = [quiet EXCEPT ![c] = TRUE]
  /\ UNCHANGED <<dpc, left, listed, peer, sent>>

Lists(c) ==
  /\ ClientGoes(c, "lists", "probes")
  /\ listed' = [listed EXCEPT ![c] = {v \in Versions : sock[v] # None}]
  /\ left' = [left EXCEPT ![c] = listed'[c]]
  /\ UNCHANGED <<dpc, chosen, peer, sent, quiet>>

IsNewest(v, vs) == v \in vs /\ \A w \in vs : w <= v

(* The newest socket that is left is tried.                                *)
ProbeTaking(c, good) ==
  \E v \in left[c] :
    /\ IsNewest(v, left[c])
    /\ \/ /\ good[v]
          /\ ClientGoes(c, "probes", "ensures")
          /\ Settles(c, v) /\ UNCHANGED left
       \/ /\ ~good[v]
          /\ ClientGoes(c, "probes", "probes")
          /\ left' = [left EXCEPT ![c] = @ \ {v}]
          /\ UNCHANGED chosen
    /\ UNCHANGED <<dpc, listed, peer, sent, quiet>>

ProbesExistence(c) == ProbeTaking(c, [v \in Versions |-> TRUE])  \* Faulty
Probes(c) == ProbeTaking(c, [v \in Versions |-> Live(v)])

(* Nobody listens: the newest socket file, or else daemon.sock.            *)
FallsBackTo(c, default) ==
  /\ left[c] = {}
  /\ ClientGoes(c, "probes", "ensures")
  /\ \/ \E v \in listed[c] : IsNewest(v, listed[c]) /\ Settles(c, v)
     \/ listed[c] = {} /\ Settles(c, default)
  /\ UNCHANGED <<dpc, left, listed, peer, sent, quiet>>

FallsBackToNone(c) == FallsBackTo(c, None)   \* Faulty: without a default
FallsBack(c) == FallsBackTo(c, 0)

FindsSocket(c) ==
  /\ sock[chosen[c]] # None
  /\ ClientGoes(c, "ensures", "connects")
  /\ UNCHANGED <<dpc, left, listed, chosen, peer, sent, quiet>>

Spawns(c) ==
  /\ sock[chosen[c]] = None
  /\ ClientGoes(c, "ensures", "polls")
  /\ dpc' = [dpc EXCEPT ![c] = "looks"]
  /\ quiet' = [b \in Clients |-> FALSE]
  /\ UNCHANGED <<left, listed, chosen, peer, sent>>

(* No binary, no log file, no process.                                     *)
SpawnFails(c) ==
  /\ sock[chosen[c]] = None
  /\ ClientGoes(c, "ensures", "unstarted")
  /\ UNCHANGED <<dpc, left, listed, chosen, peer, sent, quiet>>

SocketAppears(c) ==
  /\ sock[chosen[c]] # None
  /\ ClientGoes(c, "polls", "connects")
  /\ UNCHANGED <<dpc, left, listed, chosen, peer, sent, quiet>>

WaitsOn(c) == FALSE   \* Faulty: the polling has no end
GivesUp(c) ==
  /\ sock[chosen[c]] = None
  /\ ClientGoes(c, "polls", "unstarted")
  /\ UNCHANGED <<dpc, left, listed, chosen, peer, sent, quiet>>

Connects(c) ==
  /\ \/ /\ Live(chosen[c])
        /\ ClientGoes(c, "connects", "reads")
        /\ peer' = [peer EXCEPT ![c] = sock[chosen[c]]]
     \/ /\ ~Live(chosen[c])
        /\ ClientGoes(c, "connects", "refused")
        /\ UNCHANGED peer
  /\ UNCHANGED <<dpc, left, listed, chosen, sent, quiet>>

ReadsToken(c) ==
  /\ ClientGoes(c, "reads", IF token[chosen[c]] = None THEN "unreadable" ELSE "auths")
  /\ sent' = [sent EXCEPT ![c] = token[chosen[c]]]
  /\ UNCHANGED <<dpc, left, listed, chosen, peer, quiet>>

(* The daemon answers once it serves.                                      *)
Authenticates(c) ==
  /\ ClientGoes(c, "auths", IF sent[c] = peer[c] THEN "ok" ELSE "rejected")
  /\ dpc[peer[c]] = "serves"
  /\ UNCHANGED <<dpc, left, listed, chosen, peer, sent, quiet>>

(* The daemon has died, or has waited five seconds for the token.          *)
LosesConnection(c) ==
  /\ ClientGoes(c, "auths", "lost")
  /\ dpc[peer[c]] \in {"dead", "serves"}
  /\ UNCHANGED <<dpc, left, listed, chosen, peer, sent, quiet>>

-----------------------------------------------------------------------------
DaemonStep(d) ==
  \/ Looks(d) \/ Removes(d) \/ TruncatesToken(d) \/ WritesToken(d)
  \/ Binds(d) \/ BindFails(d) \/ Listens(d) \/ Protects(d)

ClientStep(c) ==
  \/ ProbesPlain(c) \/ Lists(c) \/ Probes(c) \/ FallsBack(c)
  \/ FindsSocket(c) \/ Spawns(c) \/ SpawnFails(c) \/ SocketAppears(c) \/ GivesUp(c)
  \/ Connects(c) \/ ReadsToken(c) \/ Authenticates(c) \/ LosesConnection(c)

Next ==
  \/ \E d \in Daemons : DaemonStep(d) \/ Starts(d) \/ Dies(d)
  \/ \E c \in Clients : ClientStep(c)

Spec == /\ Init /\ [][Next]_vars
        /\ \A d \in Daemons : WF_vars(DaemonStep(d))
        /\ \A c \in Clients : WF_vars(ClientStep(c))

-----------------------------------------------------------------------------
(* Daemons that have not reached the files yet.                            *)
Harmless == {"off", "looks", "removes"}

(* Nobody but d has ever got past the cleanup at its path.                 *)
Alone(d) == \A e \in Daemons \ {d} : Home(e) = Home(d) => dpc[e] \in Harmless

(* daemon.rs:99-118: the token is written before the socket can be         *)
(* reached, so a client that connects to the only daemon that ever got    *)
(* past the cleanup at its path is not turned away.                        *)
TurnedAwayByRestart ==
  \A c \in Clients : cpc[c] \in {"unreadable", "rejected"} => ~Alone(peer[c])

(* daemon.rs:99-157: a daemon that serves and cannot be reached has had    *)
(* its socket taken by another that got past the cleanup.                  *)
CutOffByRestart ==
  \A d \in Daemons : dpc[d] = "serves" /\ sock[Home(d)] # d => ~Alone(d)

(* What discovery should find, if nothing changes: daemon.sock if a daemon *)
(* listens, or the newest version with a listener, or the newest file.     *)
Best(p) ==
  LET live == {v \in Versions : Live(v)}
      there == {v \in Versions : sock[v] # None}
  IN CASE Live(0) -> p = 0
       [] ~Live(0) /\ live # {} -> IsNewest(p, live)
       [] ~Live(0) /\ live = {} /\ there # {} -> IsNewest(p, there)
       [] OTHER -> p = 0

(* lib.rs:55-99: probe by probe, a client finds the best socket, unless a  *)
(* daemon moves meanwhile.                                                 *)
DiscoversBest == \A c \in Clients : cpc[c] \in Found /\ quiet[c] => Best(chosen[c])

(* autostart.rs:33-89, client.rs:54-81: every client is done in the end,   *)
(* whatever daemons do.                                                    *)
ClientsFinish == \A c \in Clients : <>(cpc[c] \in Ends)
=============================================================================
