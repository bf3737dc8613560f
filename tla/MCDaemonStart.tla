--------------------------- MODULE MCDaemonStart ---------------------------
(* A client that may spawn a daemon, one that the user starts at the same  *)
(* path, and one or two of the application, at paths with versions.        *)
EXTENDS DaemonStart

CONSTANTS cli, user, app1, app2

MCClients == {cli}
MCStarted == {user, app1, app2}
MCVersions == {1, 2}
MCPathOf == [d \in MCStarted |-> CASE d = user -> 0
                                  [] d = app1 -> 1
                                  [] d = app2 -> 2]
=============================================================================
