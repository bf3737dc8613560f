--------------------------- MODULE MCParentWatch ---------------------------
(* Two processes (the app before and after its update), one-tick and       *)
(* two-tick grace periods, three requests.                                 *)
EXTENDS ParentWatch

CONSTANTS oldApp, newApp

MCPids == {oldApp, newApp}
=============================================================================
