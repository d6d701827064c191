--------------------------- MODULE MCCapabilityProbe ---------------------------
(* A small instance of CapabilityProbe for TLC. *)
EXTENDS CapabilityProbe
=============================================================================
