------------------------------- MODULE MCViews -------------------------------
(* Small instances of Views for TLC. *)
EXTENDS Views, MCSupersession, TLC

Symmetry == Permutations(Namespaces) \cup Permutations(Sessions) \cup Permutations(Subjects) \cup Permutations(Vals)
=============================================================================
