------------------------------ MODULE Freelist ------------------------------
(***************************************************************************)
(* FreelistCore(N) of kernel/lib/freelist.tkb: the free slots are linked   *)
(* through next_free from free_head, N ends the chain, and every slot      *)
(* taken gets the next number of one counter, which stops at its last      *)
(* value instead of wrapping.                                              *)
(*                                                                         *)
(* The core has no lock of its own: its caller holds one across each call  *)
(* (kernel/mm/page.tkb's boot page pool), so a call is one step.           *)
(***************************************************************************)
EXTENDS Naturals, FiniteSets

CONSTANTS N,                \* the capacity
          LastGeneration    \* FREELIST_LAST_GENERATION, 2^64 - 1 in the code

ASSUME FreelistAssumption == N \in Nat \ {0} /\ LastGeneration \in Nat \ {0}

VARIABLES
    next_free, free_head, next_generation,
    owners,      \* the FreelistOwner values in callers' hands
    aside,       \* slots in the hands of a caller that unlinked them by number
    unlinked     \* what the last freelist_core_unlink_range returned

core == <<next_free, free_head, next_generation>>
listVars == <<core, owners, aside, unlinked>>

Slot == 0 .. N - 1
Owner(i, g) == [index |-> i, generation |-> g]

\* freelist_generation_after: 0 once the last number is given.
GenerationAfter(g) == IF g = LastGeneration THEN 0 ELSE g + 1

\* freelist_core_init publishes every slot, freelist_core_init_empty none.
ListInit ==
    /\ next_free = [i \in Slot |-> i + 1]
    /\ next_generation = 1
    /\ owners = {} /\ unlinked = 0
    /\ \/ free_head = 0 /\ aside = {}
       \/ free_head = N /\ aside = Slot

\* freelist_core_insert; an empty chain and an exhausted counter change
\* nothing.
Insert ==
    /\ free_head < N /\ next_generation # 0
    /\ owners' = owners \cup {Owner(free_head, next_generation)}
    /\ free_head' = next_free[free_head]
    /\ next_generation' = GenerationAfter(next_generation)
    /\ UNCHANGED <<next_free, aside, unlinked>>

\* A mutant of Push: the old head is not linked behind the new one.
PushHeadOnly(i) ==
    /\ free_head' = i
    /\ UNCHANGED <<next_free, next_generation, unlinked>>

\* The push of freelist_core_remove and freelist_core_add_index.
Push(i) ==
    /\ next_free' = [next_free EXCEPT ![i] = free_head]
    /\ free_head' = i
    /\ UNCHANGED <<next_generation, unlinked>>

Remove(o) ==
    /\ o \in owners
    /\ Push(o.index)
    /\ owners' = owners \ {o}
    /\ UNCHANGED aside

AddIndex(i) ==
    /\ i \in aside
    /\ Push(i)
    /\ aside' = aside \ {i}
    /\ UNCHANGED owners

(***************************************************************************)
(* freelist_core_unlink_range: pop the head while it is in the range, then *)
(* walk the rest with a predecessor; both loops give up after N + 1 steps. *)
(***************************************************************************)
InRange(i, first, count) == i < N /\ i >= first /\ i - first < count

HeadLoop(first, count) ==
    LET go[k \in 0 .. N + 1] ==
            IF k = 0 THEN [head |-> free_head, n |-> 0]
            ELSE IF InRange(go[k - 1].head, first, count)
                 THEN [head |-> next_free[go[k - 1].head], n |-> go[k - 1].n + 1]
                 ELSE go[k - 1]
    IN  go[N + 1]

WalkLoop(first, count, head) ==
    LET go[k \in 0 .. N + 1] ==
            IF k = 0 THEN [prev |-> head, next |-> next_free, n |-> 0]
            ELSE LET w == go[k - 1]
                     n == w.next[w.prev]
                 IN  IF w.prev = N THEN w
                     ELSE IF InRange(n, first, count)
                          THEN [w EXCEPT !.next[w.prev] = w.next[n], !.n = @ + 1]
                          ELSE [w EXCEPT !.prev = n]
    IN  go[N + 1]

\* A mutant of UnlinkRange: entries at the head are left to the walk, which
\* cannot see them.
UnlinkRangeHeadless(first, count) ==
    LET walk == WalkLoop(first, count, free_head)
    IN  /\ next_free' = walk.next
        /\ unlinked' = walk.n
        /\ aside' = aside \cup
              {i \in Slot : InRange(i, first, count) /\
                            \A o \in owners : o.index # i}
        /\ UNCHANGED <<free_head, next_generation, owners>>

UnlinkRange(first, count) ==
    LET heads == HeadLoop(first, count)
        walk == WalkLoop(first, count, heads.head)
    IN  /\ free_head' = heads.head
        /\ next_free' = walk.next
        /\ unlinked' = heads.n + walk.n
        /\ aside' = aside \cup
              {i \in Slot : InRange(i, first, count) /\
                            \A o \in owners : o.index # i}
        /\ UNCHANGED <<next_generation, owners>>

ListNext ==
    \/ Insert
    \/ \E o \in owners : Remove(o)
    \/ \E i \in aside : AddIndex(i)
    \/ \E first \in Slot, count \in 1 .. N : UnlinkRange(first, count)

ListSpec == ListInit /\ [][ListNext]_listVars

-----------------------------------------------------------------------------
\* The links stay inside the array and a generation never passes the last.
TypeOK ==
    /\ next_free \in [Slot -> 0 .. N]
    /\ free_head \in 0 .. N
    /\ next_generation \in 0 .. LastGeneration
    /\ owners \subseteq [index : Slot, generation : 1 .. LastGeneration]
    /\ aside \subseteq Slot
    /\ unlinked \in 0 .. N

\* The slots met by following the chain for at most N links.
Chain ==
    LET at[k \in 0 .. N] ==
            IF k = 0 THEN free_head
            ELSE IF at[k - 1] = N THEN N ELSE next_free[at[k - 1]]
    IN  at

FreeSlots == {Chain[k] : k \in 0 .. N} \ {N}

\* The chain ends, and the slots on it are exactly those nobody holds: no
\* sequence of pushes, pops and range unlinks loses a slot, links one twice
\* or closes a cycle.
ChainExact ==
    /\ Chain[N] = N
    /\ FreeSlots = Slot \ ({o.index : o \in owners} \cup aside)

\* A slot has one owner and a generation is given to one owner.
OneOwner ==
    \A o, p \in owners :
        o.index = p.index \/ o.generation = p.generation => o = p

\* freelist_core_unlink_range counts what it takes off: "so the caller can
\* check its own arithmetic against the list's answer".
UnlinkCounted ==
    [][aside \subseteq aside' /\ aside # aside' =>
          unlinked' = Cardinality(aside' \ aside)]_listVars

Pool == INSTANCE SlotPool WITH
          free <- FreeSlots, owned <- owners,
          given <- IF next_generation = 0 THEN LastGeneration
                                          ELSE next_generation - 1

\* The chain of insert, remove, add_index and unlink_range implements the pool
\* its callers reckon with: a slot is free, held under one owner, or set aside.
PoolSpec == Pool!PoolSpec
=============================================================================
