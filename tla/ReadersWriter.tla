---------------------------- MODULE ReadersWriter ----------------------------
(***************************************************************************)
(* What kernel/fs/ext2/mutation_lock.tkb promises its callers: any number  *)
(* of CPUs read the ext2 tree together, or exactly one mutates it.         *)
(***************************************************************************)
CONSTANTS
    CPU,       \* the cores of the machine
    NoCPU      \* not a core: nobody is mutating

VARIABLES
    reading,   \* the cores whose system call is reading the tree
    mutating   \* the core rewriting the tree, or NoCPU

rwVars == <<reading, mutating>>

RWInit ==
    /\ reading = {}
    /\ mutating = NoCPU

\* A read may begin only while nobody rewrites the tree.
BeginRead(c) ==
    /\ mutating = NoCPU
    /\ reading' = reading \cup {c}
    /\ UNCHANGED mutating

EndRead(c) ==
    /\ c \in reading
    /\ reading' = reading \ {c}
    /\ UNCHANGED mutating

\* A mutation may begin only on a tree nobody reads or rewrites.
BeginMutation(c) ==
    /\ reading = {}
    /\ mutating = NoCPU
    /\ mutating' = c
    /\ UNCHANGED reading

EndMutation(c) ==
    /\ mutating = c
    /\ mutating' = NoCPU
    /\ UNCHANGED reading

RWNext ==
    \E c \in CPU :
        BeginRead(c) \/ EndRead(c) \/ BeginMutation(c) \/ EndMutation(c)

RWSpec == RWInit /\ [][RWNext]_rwVars
=============================================================================
