---------------------------- MODULE MCTranscript ----------------------------
(* Chunks of one and of three bytes, a file of a few of them.              *)
EXTENDS Transcript
=============================================================================
