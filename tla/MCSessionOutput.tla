-------------------------- MODULE MCSessionOutput --------------------------
(* Small instances of SessionOutput, with one client: safety, liveness,    *)
(* and a shell that exits by itself.                                       *)
EXTENDS SessionOutput
=============================================================================
