-------------------------- MODULE MCExt2MutationLock --------------------------
(* Three cores: two readers and a mutator, or two mutators and a reader.   *)
EXTENDS Ext2MutationLock, TLC

CONSTANTS c0, c1, c2

MCCPU == {c0, c1, c2}
=============================================================================
