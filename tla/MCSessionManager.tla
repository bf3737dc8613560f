------------------------- MODULE MCSessionManager -------------------------
(* Two sessions, two clients and the parent watch; one of each to show     *)
(* that a blocked write stops the shutdown.                                *)
EXTENDS SessionManager
=============================================================================
