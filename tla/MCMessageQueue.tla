--------------------------- MODULE MCMessageQueue ---------------------------
(* A small instance of the inboxes. *)
EXTENDS MessageQueue, TLC
=============================================================================
