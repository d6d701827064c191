------------------------ MODULE MCAdminActionsRestart ------------------------
(* Small instances of AdminActionsRestart for TLC. *)
EXTENDS AdminActionsRestart, TLC

Symmetry == Permutations(Calls) \cup Permutations(RequestIds)
=============================================================================
