--------------------------- MODULE Ext2MutationLock ---------------------------
(***************************************************************************)
(* The ext2 mutation lock, kernel/fs/ext2/mutation_lock.tkb, and the       *)
(* system-call gate that uses it (kernel/kernel/syscall.tkb).              *)
(*                                                                         *)
(* Readers never take the lock.  A reader adds itself to a count and then  *)
(* looks at the lock word; a mutator takes the lock word and then looks at *)
(* the count.  Each side publishes before it looks (the dsb_ish between    *)
(* the two accesses makes the order one the other core observes), so the   *)
(* two accesses of each side are two steps here and every step is          *)
(* sequentially consistent.                                                *)
(*                                                                         *)
(* A core is inside at most one system call, because the kernel is not     *)
(* preemptible (KERNEL_PREEMPTIBLE = 0), so one program counter per core   *)
(* is the whole control state.                                             *)
(***************************************************************************)
EXTENDS Naturals, FiniteSets

CONSTANTS
    CPU,       \* the cores of the machine
    NoCPU      \* not a core

ASSUME CPUAssumption == IsFiniteSet(CPU) /\ NoCPU \notin CPU

VARIABLES
    held,      \* ext2_mutation_lock's word is SPIN_LOCK_HELD
    readers,   \* ext2_readers
    pc         \* where each core is in its system call

vars == <<held, readers, pc>>

\* outside   not in a file-system call, or waiting to rerun one
\* arrived   ext2_read_enter has counted the reader, not yet looked
\* refused   ext2_read_enter found the lock held, count not yet undone
\* reading   admitted; ext2_read_leave is owed
\* wanting   spinning in task_mutex_acquire
\* draining  holds the lock, spinning on the count
\* mutating  ext2_mutation_take has returned its guard
PC == {"outside", "arrived", "refused", "reading",
       "wanting", "draining", "mutating"}

Counted == {c \in CPU : pc[c] \in {"arrived", "refused", "reading"}}
Holders == {c \in CPU : pc[c] \in {"draining", "mutating"}}

Init ==
    /\ held = FALSE
    /\ readers = 0
    /\ pc = [c \in CPU |-> "outside"]

Goto(c, from, to) ==
    /\ pc[c] = from
    /\ pc' = [pc EXCEPT ![c] = to]

(***************************************************************************)
(* ext2_read_enter: the fetch_add, the look at the lock word, and, when a  *)
(* mutation is in flight, the fetch_add of -1.  A refused call waits for   *)
(* an interrupt and reruns from the start.                                 *)
(***************************************************************************)
ReadArrive(c) ==
    /\ Goto(c, "outside", "arrived")
    /\ readers' = readers + 1
    /\ UNCHANGED held

\* A mutant of ReadLook: the reader trusts its count and never asks.
ReadLookUnasked(c) ==
    /\ Goto(c, "arrived", "reading")
    /\ UNCHANGED <<held, readers>>

\* A mutant of ReadLook: the reader waits for the lock with its count taken.
ReadLookSpinning(c) ==
    /\ Goto(c, "arrived", IF held THEN "arrived" ELSE "reading")
    /\ UNCHANGED <<held, readers>>

ReadLook(c) ==
    /\ Goto(c, "arrived", IF held THEN "refused" ELSE "reading")
    /\ UNCHANGED <<held, readers>>

\* A mutant of ReadUndo: the refused reader forgets its count.
ReadUndoForgotten(c) ==
    /\ Goto(c, "refused", "outside")
    /\ UNCHANGED <<held, readers>>

ReadUndo(c) ==
    /\ Goto(c, "refused", "outside")
    /\ readers' = readers - 1
    /\ UNCHANGED held

\* ext2_read_leave, run by kernel_syscall_dispatch when the call is done.
ReadLeave(c) ==
    /\ Goto(c, "reading", "outside")
    /\ readers' = readers - 1
    /\ UNCHANGED held

(***************************************************************************)
(* ext2_mutation_take: task_mutex_acquire spins on the word, then the      *)
(* holder spins until it reads a count of zero.                            *)
(***************************************************************************)
MutationCall(c) ==
    /\ Goto(c, "outside", "wanting")
    /\ UNCHANGED <<held, readers>>

MutationAcquire(c) ==
    /\ ~held
    /\ Goto(c, "wanting", "draining")
    /\ held' = TRUE
    /\ UNCHANGED readers

\* A mutant of MutationDrained: ext2_mutation_take_without_readers_unchecked.
MutationUndrained(c) ==
    /\ Goto(c, "draining", "mutating")
    /\ UNCHANGED <<held, readers>>

MutationDrained(c) ==
    /\ readers = 0
    /\ Goto(c, "draining", "mutating")
    /\ UNCHANGED <<held, readers>>

MutationGive(c) ==
    /\ Goto(c, "mutating", "outside")
    /\ held' = FALSE
    /\ UNCHANGED readers

Step(c) ==
    \/ ReadArrive(c) \/ ReadLook(c) \/ ReadUndo(c) \/ ReadLeave(c)
    \/ MutationCall(c) \/ MutationAcquire(c) \/ MutationDrained(c)
    \/ MutationGive(c)

Next == \E c \in CPU : Step(c)

(***************************************************************************)
(* A core inside the gate keeps running (it cannot be preempted), so its   *)
(* own steps are weakly fair; nothing makes a core start a call.           *)
(* task_mutex_acquire is an unfair compare-and-swap: nothing is assumed.   *)
(***************************************************************************)
Fairness ==
    \A c \in CPU :
        WF_vars(\/ ReadLook(c) \/ ReadUndo(c) \/ ReadLeave(c)
                \/ MutationDrained(c) \/ MutationGive(c))

Spec == Init /\ [][Next]_vars /\ Fairness

-----------------------------------------------------------------------------
(* Every variable keeps its type: the lock word, ext2_readers and the      *)
(* place of each core in ext2_read_enter and ext2_mutation_take.           *)
TypeOK ==
    /\ held \in BOOLEAN
    /\ readers \in Nat
    /\ pc \in [CPU -> PC]

(* ext2_readers is exactly the number of cores that owe it a decrement: no *)
(* path of ext2_read_enter or ext2_read_leave loses or repeats one.        *)
CountExact == readers = Cardinality(Counted)

(* The lock word is held exactly while one core is between                 *)
(* task_mutex_acquire and ext2_mutation_give, and never two.               *)
OneHolder ==
    /\ held <=> Holders # {}
    /\ \A c, d \in Holders : c = d

(* No admitted reader and mutator are inside ext2 together: the mutator    *)
(* saw a count of zero after it published the lock, so every reader it did *)
(* not wait for sees the lock.                                             *)
ReadersExcluded ==
    \A c, d \in CPU : ~(pc[c] = "reading" /\ pc[d] = "mutating")

(* A mutator that holds the lock is let in, unless refused readers come    *)
(* back for ever (each waits for an interrupt first, which keeps them      *)
(* apart in time but is no guarantee): no reader waits for the mutator     *)
(* with its count still taken.                                             *)
MutatorAdmitted ==
    \/ []<>(\E d \in CPU : pc[d] = "refused")
    \/ \A c \in CPU : pc[c] = "draining" ~> pc[c] = "mutating"

RW == INSTANCE ReadersWriter WITH
        reading <- {c \in CPU : pc[c] = "reading"},
        mutating <- IF \E c \in CPU : pc[c] = "mutating"
                    THEN CHOOSE c \in CPU : pc[c] = "mutating" ELSE NoCPU

(* The lock implements readers-writer exclusion: ext2_read_enter's true    *)
(* answer is the moment a read begins, the guard of ext2_mutation_take the *)
(* moment a mutation does.                                                 *)
RWSpec == RW!RWSpec
=============================================================================
