---------------------------- MODULE MCBroadcasts ----------------------------
(* Instances of Broadcasts for TLC. *)
EXTENDS Broadcasts
=============================================================================
