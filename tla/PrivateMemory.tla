---------------------------- MODULE PrivateMemory ----------------------------
(***************************************************************************)
(* What fork and private mappings promise a process, whatever pages and    *)
(* tables stand behind them: its memory is its own, a fork gives the child *)
(* a copy of the parent's as it is then, and nothing another process does  *)
(* changes it.  CopyOnWrite implements it.                                 *)
(***************************************************************************)
CONSTANTS
    Roots,       \* the slots a process lives in
    Vas,         \* the pages of a process's address space
    Values,      \* what a page can hold
    Zero,        \* a page never written
    Unmapped,    \* a page not there
    Gone         \* the memory of no process

VARIABLE memory  \* of each slot: Gone, or what each of its pages holds

Held(r) == memory[r] # Gone

Init ==
    \E r \in Roots :
       memory = [s \in Roots |->
                   IF s = r THEN [v \in Vas |-> Unmapped] ELSE Gone]

\* A page first touched, discarded or unmapped, and a store.
Change(r, v, x) ==
    /\ Held(r)
    /\ memory' = [memory EXCEPT ![r][v] = x]

Fork(r, q) ==
    /\ Held(r) /\ ~Held(q)
    /\ memory' = [memory EXCEPT ![q] = memory[r]]

Exit(r) ==
    /\ Held(r)
    /\ memory' = [memory EXCEPT ![r] = Gone]

Next ==
    \E r \in Roots :
       \/ \E v \in Vas :
             \/ Change(r, v, Zero) \/ Change(r, v, Unmapped)
             \/ memory[r] # Gone /\ memory[r][v] # Unmapped
                /\ \E x \in Values : Change(r, v, x)
       \/ \E q \in Roots : Fork(r, q)
       \/ Exit(r)

Spec == Init /\ [][Next]_memory
=============================================================================
