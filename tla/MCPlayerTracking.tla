--------------------------- MODULE MCPlayerTracking ---------------------------
(* Small instances of PlayerTracking for TLC. *)
EXTENDS PlayerTracking, TLC

\* Players and controllers are interchangeable (safety runs only).
Symmetry == Permutations(Players) \cup Permutations(Controllers)
=============================================================================
