---------------------------- MODULE MCCopyOnWrite ----------------------------
(* CopyOnWrite on a few pages. *)
EXTENDS CopyOnWrite, TLC

Symmetry == Permutations(Roots) \cup Permutations(Pages) \cup Permutations(Vas)
=============================================================================
