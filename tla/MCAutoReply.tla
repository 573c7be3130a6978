---------------------------- MODULE MCAutoReply ----------------------------
(* Instances of AutoReply for TLC. *)
EXTENDS AutoReply
=============================================================================
