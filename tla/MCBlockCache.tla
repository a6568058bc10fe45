---------------------------- MODULE MCBlockCache ----------------------------
(* Two slots that share one block, and two buckets to forget. *)
EXTENDS BlockCache, TLC

CONSTANTS s1, s2

MCSlot == {s1, s2}
Slots == Permutations(MCSlot)
=============================================================================
