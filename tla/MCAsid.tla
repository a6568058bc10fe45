------------------------------- MODULE MCAsid -------------------------------
(* Asid on a small machine. *)
EXTENDS Asid, TLC

Symmetry == Permutations(Cores) \cup Permutations(Roots \ {Init1})
=============================================================================
