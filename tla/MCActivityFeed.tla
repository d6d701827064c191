---------------------------- MODULE MCActivityFeed ----------------------------
(* A small instance of ActivityFeed for TLC. *)
EXTENDS ActivityFeed
=============================================================================
