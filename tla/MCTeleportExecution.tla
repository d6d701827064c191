-------------------------- MODULE MCTeleportExecution --------------------------
(* A small instance of TeleportExecution for TLC. *)
EXTENDS TeleportExecution
=============================================================================
