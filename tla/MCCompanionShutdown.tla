-------------------------- MODULE MCCompanionShutdown --------------------------
(* A small instance of CompanionShutdown for TLC. *)
EXTENDS CompanionShutdown
=============================================================================
