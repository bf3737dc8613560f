------------------------- MODULE MCAttachConnection -------------------------
(* One attachment with queues of one frame each.                           *)
EXTENDS AttachConnection
=============================================================================
