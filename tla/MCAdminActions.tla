--------------------------- MODULE MCAdminActions ---------------------------
(* Small instances of AdminActions for TLC. *)
EXTENDS AdminActions, TLC

Symmetry == Permutations(Calls) \cup Permutations(RequestIds)
=============================================================================
