------------------------------ MODULE SlotPool ------------------------------
(***************************************************************************)
(* What kernel/lib/freelist.tkb promises its callers: a pool of numbered   *)
(* slots.  A slot is free, owned under a generation, or set aside; taking  *)
(* one gives a generation that was never given before, until the last one  *)
(* has been.                                                               *)
(***************************************************************************)
EXTENDS Naturals

CONSTANTS Slot, LastGeneration

VARIABLES free, owned, aside, given

poolVars == <<free, owned, aside, given>>

PoolInit ==
    /\ owned = {} /\ given = 0
    /\ \/ free = Slot /\ aside = {}
       \/ free = {} /\ aside = Slot

Take ==
    /\ given < LastGeneration
    /\ given' = given + 1
    /\ \E i \in free :
          /\ free' = free \ {i}
          /\ owned' = owned \cup {[index |-> i, generation |-> given']}
    /\ UNCHANGED aside

GiveBack ==
    /\ \E o \in owned :
          /\ owned' = owned \ {o}
          /\ free' = free \cup {o.index}
    /\ UNCHANGED <<aside, given>>

SetAside ==
    /\ \E S \in SUBSET free : free' = free \ S /\ aside' = aside \cup S
    /\ UNCHANGED <<owned, given>>

Supply ==
    /\ \E i \in aside : aside' = aside \ {i} /\ free' = free \cup {i}
    /\ UNCHANGED <<owned, given>>

PoolNext == Take \/ GiveBack \/ SetAside \/ Supply

PoolSpec == PoolInit /\ [][PoolNext]_poolVars
=============================================================================
