---------------------------- MODULE MCAttachKeys ----------------------------
(* Both prefixes, a chord that ends the attachment, one that does not, and *)
(* a plain key; two attachments, so that a thread is left over; channels   *)
(* of one.  Every text of three keys, and after a switch every text of     *)
(* three more (one of them goes to the thread that was left over).         *)
EXTENDS AttachKeys

MCKeys == {"P", "B", "s", "h", "x"}
MCPrefixKeys == {"P", "B"}
MCScripts ==
  SeqOf(MCKeys, 3) \cup {<<"P", "s">> \o t : t \in SeqOf({"P", "s", "x"}, 3)}
=============================================================================
