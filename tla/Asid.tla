-------------------------------- MODULE Asid --------------------------------
(***************************************************************************)
(* Which address space each core runs on, and under which ASID:            *)
(* kernel/arch/arm64/mm/asid.tkb (the numbers), kernel/mm/address_space    *)
(* .tkb (a root's number and its activation) and the callers of            *)
(* kernel/kernel/process.tkb and syscall.tkb (the hand-offs, fork, exec,   *)
(* exit and reap).                                                         *)
(*                                                                         *)
(* A number is taken when a root is about to run and is given back by      *)
(* nobody: when the counter passes the last one, a core stops the machine, *)
(* starts a new generation, invalidates every translation and counts again *)
(* from 2.  A root whose stamp is not the generation in force has lost its *)
(* number.                                                                 *)
(*                                                                         *)
(* A core's TLB holds what it may have cached.  The walker loads a         *)
(* translation of the active root whenever it likes, so the set contains   *)
(* one as soon as it may: fewer entries break no property stated here.     *)
(***************************************************************************)
EXTENDS Naturals

CONSTANTS
    Cores,           \* the cores of the machine
    Roots,           \* the slots a process and its root live in
    Init1,           \* the slot of PID 1, which never exits
    Boot,            \* root 0, the kernel's own
    Dead,            \* what is left of a released root
    None,            \* no process
    AsidLast,        \* asid_last, the highest assignable number
    MaxGeneration    \* a bound on the generations explored

ASSUME AsidAssumption ==
    /\ Init1 \in Roots
    /\ Boot \notin Roots /\ Dead \notin Roots /\ None \notin Roots
    /\ Boot # Dead /\ None \notin {Boot, Dead}
    /\ AsidLast \in Nat /\ AsidLast >= 2
    /\ MaxGeneration \in Nat \ {0}

VARIABLES
    next,            \* AsidState.next
    generation,      \* AsidState.generation
    number,          \* AddressSpaceBacking.asid of each root
    stamp,           \* AddressSpaceBacking.asid_generation of each root
    state,           \* the process in each slot
    source,          \* clone_vm_source_root, None from the exec on
    current,         \* the process each core runs
    active,          \* the root in each core's TTBR0
    tag,             \* the ASID in each core's TTBR0
    op,              \* the operation each core is in
    tlb,             \* the translations each core may have cached
    stopped          \* the kernel has stopped itself

cell == <<next, generation>>
backing == <<number, stamp>>
procs == <<state, source, current>>
mmu == <<active, tag, tlb>>
vars == <<next, generation, number, stamp, state, source, current,
          active, tag, op, tlb, stopped>>

BootAsid == 1        \* root 0's number, taken with the MMU off and kept

\* A running process may be one a core has only reserved; an exited one is a
\* zombie nobody stands on; a reaped one has been taken by its reaper.
States == {"free", "constructing", "ready", "running", "exited", "reaped"}

\* switch, start, exit      a hand-off to a reserved process
\* fork, undo               kernel_process_activate_current_root
\* clone, exec, unclone     kernel_process_activate_stable_root, called by
\*                          process_image_clone_vm_reap
\* image                    the same, once exec has loaded the new image
\* reap, resume             the same, called by kernel_process_reap_zombie
\* return                   the same, called by process_image_exec_resume_root
Handoffs == {"switch", "start", "exit"}
Currents == {"fork", "undo"}
Stables ==
    {"clone", "exec", "unclone", "image", "reap", "resume", "return"}
Kinds == {"none"} \cup Handoffs \cup Currents \cup Stables
Steps == {"user", "copy", "prepare", "record", "rollover", "commit",
          "install", "teardown", "release", "load", "leave"}

\* An activation of a target, on behalf of which a victim is to be released;
\* value and gen are the number it was given and has not recorded yet.
Op(kind, step, target, victim, value, gen) ==
    [kind |-> kind, step |-> step, target |-> target, victim |-> victim,
     value |-> value, gen |-> gen]
User == Op("none", "user", None, None, 0, 0)
Activate(kind, target, victim) == Op(kind, "prepare", target, victim, 0, 0)
Leaving == Op("exit", "leave", None, None, 0, 0)

At(c, step) == ~stopped /\ op[c].step = step
Become(c, o) == op' = [op EXCEPT ![c] = o]
Go(c, step) ==
    Become(c, Op(op[c].kind, step, op[c].target, op[c].victim, 0, 0))
Runs(c) == At(c, "user") /\ current[c] # None

\* asid_generation_is_current of the backing, and the number it holds.
Fresh(r) == stamp[r] = generation
Live(r) == r \in Roots /\ state[r] # "free"

\* Does the root core c runs on still own the number it runs under?
OwnsTag(c) ==
    active[c] \in Roots /\ Fresh(active[c]) /\ number[active[c]] = tag[c]

\* A translation of a root, cached under a number the root owned or not.
Cached(k, r, o) == [asid |-> k, root |-> r, owned |-> o]

\* What core c leaves in its TLB when it moves to another root.  The walker
\* loads a translation of the active root whenever it likes, so one is there
\* however lately its number was invalidated.  Root 0 maps the kernel alone.
Loaded(c) ==
    IF active[c] = Boot THEN {}
    ELSE {Cached(tag[c], active[c], OwnsTag(c))}

\* The only write of TTBR0 (address_space_install_here).
Install(c, r, k) ==
    /\ active' = [active EXCEPT ![c] = r]
    /\ tag' = [tag EXCEPT ![c] = k]
    /\ tlb' = [tlb EXCEPT ![c] = @ \cup Loaded(c)]

\* mmu_tlb_invalidate_asid, on every core.
Without(k) == [c \in Cores |-> {e \in tlb[c] : e.asid # k}]

Init ==
    /\ next = 2
    /\ generation = 1
    /\ number = [r \in Roots |-> 0]
    /\ stamp = [r \in Roots |-> 0]
    /\ state = [r \in Roots |-> IF r = Init1 THEN "ready" ELSE "free"]
    /\ source = [r \in Roots |-> None]
    /\ current = [c \in Cores |-> None]
    /\ active = [c \in Cores |-> Boot]
    /\ tag = [c \in Cores |-> BootAsid]
    /\ op = [c \in Cores |-> User]
    /\ tlb = [c \in Cores |-> {}]
    /\ stopped = FALSE

-----------------------------------------------------------------------------
(* The hand-offs a core begins: the target is reserved under the run lock,  *)
(* and the lock is released before its root is prepared.                    *)

Reserve(c, kind, t) ==
    /\ state[t] = "ready"
    /\ state' = [state EXCEPT ![t] = "running"]
    /\ Become(c, Activate(kind, t, None))
    /\ UNCHANGED <<cell, backing, source, current, mmu, stopped>>

\* kernel_process_schedule, kernel_process_block: from another process.
Switch(c, t) == Runs(c) /\ Reserve(c, "switch", t)

\* kernel_process_secondary_start: from the idle loop.
Start(c, t) ==
    At(c, "user") /\ current[c] = None /\ Reserve(c, "start", t)

\* The idle entries of a process that yields, blocks or may not run here:
\* the core leaves its root in the hold that lets it run elsewhere.
GoIdle(c) ==
    /\ Runs(c)
    /\ state' = [state EXCEPT ![current[c]] = "ready"]
    /\ current' = [current EXCEPT ![c] = None]
    /\ Install(c, Boot, BootAsid)
    /\ UNCHANGED <<cell, backing, source, op, stopped>>

-----------------------------------------------------------------------------
(* address_space_prepare_activation, in which the number is taken under the *)
(* ASID lock and recorded in the backing after it.                          *)

Prepare(c) ==
    /\ At(c, "prepare")
    /\ UNCHANGED <<backing, procs, mmu>>

\* The root is not there: a stable activation stops the kernel.
PrepareInvalid(c) ==
    /\ Prepare(c)
    /\ ~Live(op[c].target)
    /\ stopped' = TRUE
    /\ UNCHANGED <<cell, op>>

PrepareKept(c) ==
    /\ Prepare(c)
    /\ Live(op[c].target) /\ Fresh(op[c].target)
    /\ Go(c, "commit")
    /\ UNCHANGED <<cell, stopped>>

\* asid_assign_attempt.
AssignAttempt(c) ==
    /\ Prepare(c)
    /\ Live(op[c].target) /\ ~Fresh(op[c].target)
    /\ IF next > AsidLast
       THEN Go(c, "rollover") /\ UNCHANGED next
       ELSE /\ Become(c, Op(op[c].kind, "record", op[c].target,
                            op[c].victim, next, generation))
            /\ next' = next + 1
    /\ UNCHANGED <<generation, stopped>>

\* address_space_backing_write, which a root released meanwhile refuses.
Record(c) ==
    /\ At(c, "record")
    /\ IF Live(op[c].target)
       THEN /\ number' = [number EXCEPT ![op[c].target] = op[c].value]
            /\ stamp' = [stamp EXCEPT ![op[c].target] = op[c].gen]
       ELSE UNCHANGED <<backing>>
    /\ Go(c, "commit")
    /\ UNCHANGED <<cell, procs, mmu, stopped>>

-----------------------------------------------------------------------------
(* The rollover, under a complete machine stop, and what a hand-off does    *)
(* when it gives its target back.                                           *)

\* A mutant of RolloverStopped: the numbers start again in the generation
\* that handed them out.
RolloverSameGeneration(c) ==
    /\ At(c, "rollover")
    /\ IF next > AsidLast
       THEN next' = 2 /\ tlb' = [d \in Cores |-> {}] /\ UNCHANGED generation
       ELSE UNCHANGED <<cell, tlb>>
    /\ Go(c, "prepare")
    /\ UNCHANGED <<backing, procs, active, tag, stopped>>

\* A mutant of RolloverStopped: only this core's TLB is invalidated.
RolloverLocalFlush(c) ==
    /\ At(c, "rollover")
    /\ IF next > AsidLast
       THEN /\ generation < MaxGeneration
            /\ generation' = generation + 1
            /\ next' = 2
            /\ tlb' = [tlb EXCEPT ![c] = {}]
       ELSE UNCHANGED <<cell, tlb>>
    /\ Go(c, "prepare")
    /\ UNCHANGED <<backing, procs, active, tag, stopped>>

\* asid_rollover_stopped: the counter is read again, since another core may
\* have rolled it over while this one waited for its stop.  Every other core
\* is held between two of its steps, and resumes on the TTBR0 it had.
RolloverStopped(c) ==
    /\ At(c, "rollover")
    /\ IF next > AsidLast
       THEN /\ generation < MaxGeneration
            /\ generation' = generation + 1
            /\ next' = 2
            /\ tlb' = [d \in Cores |-> {}]
       ELSE UNCHANGED <<cell, tlb>>
    /\ Go(c, "prepare")
    /\ UNCHANGED <<backing, procs, active, tag, stopped>>

\* kernel_process_schedule_cancel_reserved and its two siblings.  An exit has
\* nothing to go back to: its idle entry finds a process still current and
\* stops the kernel.
CancelReserved(c) ==
    /\ op[c].kind \in Handoffs
    /\ state' = [state EXCEPT ![op[c].target] = "ready"]
    /\ Become(c, IF op[c].kind = "exit" THEN Leaving ELSE User)
    /\ stopped' = (op[c].kind = "exit")
    /\ UNCHANGED <<cell, backing, source, current, mmu>>

\* MachineStopResult Busy or Partial: a hand-off gives up, the others retry.
RolloverRefused(c) ==
    /\ At(c, "rollover")
    /\ \/ CancelReserved(c)
       \/ /\ op[c].kind \notin Handoffs
          /\ Go(c, "prepare")
          /\ UNCHANGED <<cell, backing, procs, mmu, stopped>>

-----------------------------------------------------------------------------
(* address_space_commit_activation.                                         *)

Committable(c) == Live(op[c].target) /\ Fresh(op[c].target)

\* kernel_process_block_would_miss: the process that was to block has what it
\* waits for, and goes on running.
BlockMissed(c) == At(c, "commit") /\ op[c].kind = "switch" /\ CancelReserved(c)

\* Does core c leave a process that has called exec, so that
\* kernel_process_child_exec_reap activates the successor's root once more
\* before it steps off the zombie's stack?
LeavesExeced(c) == op[c].kind = "exit" /\ source[current[c]] = None

\* A hand-off commits in the run lock's hold, so no stop comes between the
\* look at the generation and the write of TTBR0.
CommitHandoff(c) ==
    /\ At(c, "commit") /\ op[c].kind \in Handoffs
    /\ IF Committable(c)
       THEN /\ Install(c, op[c].target, number[op[c].target])
            /\ state' = [r \in Roots |->
                           IF current[c] # r \/ LeavesExeced(c) THEN state[r]
                           ELSE IF op[c].kind = "exit" THEN "exited"
                           ELSE "ready"]
            /\ current' = [current EXCEPT ![c] = op[c].target]
            /\ Become(c, IF LeavesExeced(c)
                         THEN Activate("return", op[c].target, current[c])
                         ELSE User)
            /\ UNCHANGED <<cell, backing, source, stopped>>
       ELSE CancelReserved(c)

\* kernel_process_activate_current_root, also in the run lock's hold: of a
\* fork's child, whose parent is then left, or of the parent of a failed one.
CommitCurrent(c) ==
    /\ At(c, "commit") /\ op[c].kind \in Currents
    /\ IF Committable(c)
       THEN /\ Install(c, op[c].target, number[op[c].target])
            /\ state' = IF op[c].kind = "fork"
                        THEN [state EXCEPT ![op[c].target] = "running",
                                           ![op[c].victim] = "ready"]
                        ELSE state
            /\ Become(c, User)
            /\ UNCHANGED stopped
       ELSE /\ stopped' = TRUE
            /\ UNCHANGED <<state, mmu, op>>
    /\ UNCHANGED <<cell, backing, source, current>>

\* kernel_process_activate_stable_root holds no lock: its look ...
CommitStable(c) ==
    /\ At(c, "commit") /\ op[c].kind \in Stables
    /\ IF Committable(c)
       THEN /\ Become(c, Op(op[c].kind, "install", op[c].target,
                            op[c].victim, number[op[c].target], 0))
            /\ UNCHANGED stopped
       ELSE stopped' = TRUE /\ UNCHANGED op
    /\ UNCHANGED <<cell, backing, procs, mmu>>

\* ... and its write of TTBR0 are two steps.  After an exit's, the core steps
\* off the zombie's stack, which may be reaped from then on.
InstallStable(c) ==
    /\ At(c, "install")
    /\ Install(c, op[c].target, op[c].value)
    /\ state' = IF op[c].kind = "return"
                THEN [state EXCEPT ![op[c].victim] = "exited"] ELSE state
    /\ \/ op[c].kind \in {"image", "resume", "return"} /\ Become(c, User)
       \/ op[c].kind \in {"clone", "exec"} /\ Go(c, "release")
       \/ op[c].kind \in {"unclone", "reap"} /\ Go(c, "teardown")
    /\ UNCHANGED <<cell, backing, source, current, stopped>>

-----------------------------------------------------------------------------
(* Fork, exec, exit and reap.                                               *)

\* kernel_process_clone_begin: the child is current at once, with a root that
\* has no number.
Fork(c, q) ==
    /\ Runs(c)
    /\ state[q] = "free"
    /\ state' = [state EXCEPT ![q] = "constructing"]
    /\ number' = [number EXCEPT ![q] = 0]
    /\ stamp' = [stamp EXCEPT ![q] = 0]
    /\ source' = [source EXCEPT ![q] = None]
    /\ current' = [current EXCEPT ![c] = q]
    /\ Become(c, Op("fork", "copy", q, current[c], 0, 0))
    /\ UNCHANGED <<cell, mmu, stopped>>

\* process_image_clone_vm_begin and the descriptors succeed, and
\* kernel_syscall_clone_child_return activates the child's root.
Copied(c) ==
    /\ At(c, "copy")
    /\ source' = [source EXCEPT ![op[c].target] = op[c].victim]
    /\ Become(c, Activate("fork", op[c].target, op[c].victim))
    /\ UNCHANGED <<cell, backing, state, current, mmu, stopped>>

\* The copy of the mappings fails, and kernel_process_clone_rollback tears
\* the child down; or it succeeds and the descriptors fail, and the parent's
\* root is activated first (process_image_clone_vm_reap).
CopyFailed(c) ==
    /\ At(c, "copy")
    /\ current' = [current EXCEPT ![c] = op[c].victim]
    /\ \/ Become(c, Op("undo", "teardown", op[c].victim, op[c].target, 0, 0))
       \/ Become(c, Activate("unclone", op[c].victim, op[c].target))
    /\ UNCHANGED <<cell, backing, state, source, mmu, stopped>>

\* The root a clone was made from, by its slot, looked up again: whoever
\* lives there now, or nobody.
SourceRoot(p) == IF Live(source[p]) THEN source[p] ELSE Dead

\* execve past its reservation.  A clone gives its mappings back, standing on
\* the root it was cloned from; a process that has called exec before tears
\* its image down under its own.
Exec(c) ==
    LET p == current[c] IN
    /\ Runs(c)
    /\ IF source[p] = None
       THEN /\ tlb' = Without(number[p])
            /\ Become(c, Op("exec", "load", None, None, 0, 0))
       ELSE /\ Become(c, Activate("exec", SourceRoot(p), None))
            /\ UNCHANGED tlb
    /\ UNCHANGED <<cell, backing, procs, active, tag, stopped>>

\* A process that has not called exec gives its clone back, and runs its exit
\* on the root it was cloned from.
Exit(c) ==
    LET p == current[c] IN
    /\ Runs(c)
    /\ p # Init1
    /\ Become(c, IF source[p] = None THEN Leaving
                 ELSE Activate("clone", SourceRoot(p), None))
    /\ UNCHANGED <<cell, backing, procs, mmu, stopped>>

\* process_clone_vm_rollback: the clone's own mappings are released, under
\* the number its root records.
CloneRollback(c) ==
    /\ At(c, "release")
    /\ tlb' = Without(number[current[c]])
    /\ IF op[c].kind = "exec"
       THEN /\ source' = [source EXCEPT ![current[c]] = None]
            /\ Become(c, Op("exec", "load", None, None, 0, 0))
       ELSE Go(c, "leave") /\ UNCHANGED source
    /\ UNCHANGED <<cell, backing, state, current, active, tag, stopped>>

\* A mutant of ExecLoaded: the process enters its image on the root it loaded
\* it on.
ExecLoadedHere(c) ==
    /\ At(c, "load")
    /\ Become(c, User)
    /\ UNCHANGED <<cell, backing, procs, mmu, stopped>>

\* The image is mapped, and the process's own root is activated to enter it.
ExecLoaded(c) ==
    /\ At(c, "load")
    /\ Become(c, Activate("image", current[c], None))
    /\ UNCHANGED <<cell, backing, procs, mmu, stopped>>

\* kernel_process_child_exec_lost: there is no image to return to, and the
\* process ends where it stands.  The end of PID 1 stops the machine.
ExecLost(c) ==
    /\ At(c, "load")
    /\ Become(c, Leaving)
    /\ stopped' = (current[c] = Init1)
    /\ UNCHANGED <<cell, backing, procs, mmu>>

\* kernel_process_child_exit: to a successor it reserves ...
LeaveTo(c, t) == At(c, "leave") /\ Reserve(c, "exit", t)

\* A mutant of LeaveIdle: the idle loop keeps the root that was running.
LeaveIdleOnRoot(c) ==
    /\ At(c, "leave")
    /\ state' = [state EXCEPT ![current[c]] = "exited"]
    /\ current' = [current EXCEPT ![c] = None]
    /\ Become(c, User)
    /\ UNCHANGED <<cell, backing, source, mmu, stopped>>

\* ... or to the idle loop, whose entry activates root 0 before the process
\* can be reaped (kernel_process_stack_idle_complete); after an exec,
\* kernel_process_child_exec_reap has activated it already.
LeaveIdle(c) ==
    /\ At(c, "leave")
    /\ state' = [state EXCEPT ![current[c]] = "exited"]
    /\ current' = [current EXCEPT ![c] = None]
    /\ Install(c, Boot, BootAsid)
    /\ Become(c, User)
    /\ UNCHANGED <<cell, backing, source, stopped>>

\* kernel_process_reap_zombie: by its parent in wait4 or, for an orphan, by
\* any core on its way out of the kernel.
Reap(c, z) ==
    /\ At(c, "user")
    /\ state[z] = "exited"
    /\ state' = [state EXCEPT ![z] = "reaped"]
    /\ Become(c, IF current[c] = None
                 THEN Op("reap", "teardown", None, z, 0, 0)
                 ELSE Activate("reap", current[c], z))
    /\ UNCHANGED <<cell, backing, source, current, mmu, stopped>>

\* scheduled_process_reap_teardown: address_space_release_root moves this
\* core, and no other, off the root it frees; the translations go under the
\* number the root records.  A handle taken of the root names nothing now.
ReleaseRoot(c) ==
    LET z == op[c].victim
        Named(r) == IF r = z THEN Dead ELSE r
        left == IF active[c] = z THEN [tlb EXCEPT ![c] = @ \cup Loaded(c)]
                ELSE tlb
    IN
    /\ At(c, "teardown")
    /\ state' = [state EXCEPT ![z] = "free"]
    /\ number' = [number EXCEPT ![z] = 0]
    /\ active' = [d \in Cores |->
                    IF d = c /\ active[d] = z THEN Boot ELSE Named(active[d])]
    /\ tag' = [tag EXCEPT ![c] = IF active[c] = z THEN BootAsid ELSE tag[c]]
    /\ op' = [d \in Cores |->
                IF d = c
                THEN IF op[c].target = None THEN User
                     ELSE Activate(IF op[c].kind = "reap" THEN "resume"
                                   ELSE "undo", op[c].target, None)
                ELSE Op(op[d].kind, op[d].step, Named(op[d].target),
                        op[d].victim, op[d].value, op[d].gen)]
    /\ tlb' = [d \in Cores |->
                 {Cached(e.asid, Named(e.root), e.owned) :
                    e \in {f \in left[d] : f.asid # number[z]}}]
    /\ UNCHANGED <<cell, stamp, source, current, stopped>>

Next ==
    \E c \in Cores :
       \/ \E r \in Roots :
             \/ Switch(c, r) \/ Start(c, r) \/ Fork(c, r)
             \/ LeaveTo(c, r) \/ Reap(c, r)
       \/ GoIdle(c)
       \/ PrepareInvalid(c) \/ PrepareKept(c) \/ AssignAttempt(c)
       \/ Record(c)
       \/ RolloverStopped(c) \/ RolloverRefused(c)
       \/ BlockMissed(c)
       \/ CommitHandoff(c) \/ CommitCurrent(c)
       \/ CommitStable(c) \/ InstallStable(c)
       \/ Copied(c) \/ CopyFailed(c)
       \/ Exec(c) \/ ExecLoaded(c) \/ ExecLost(c)
       \/ Exit(c) \/ CloneRollback(c) \/ LeaveIdle(c)
       \/ ReleaseRoot(c)

Spec == Init /\ [][Next]_vars

-----------------------------------------------------------------------------
(* Properties.                                                              *)

Tags == 1 .. AsidLast
Entries == [asid : Tags, root : Roots \cup {Boot, Dead}, owned : BOOLEAN]
Ops == [kind : Kinds, step : Steps, target : Roots \cup {Dead, None},
        victim : Roots \cup {None}, value : 0 .. AsidLast,
        gen : 0 .. MaxGeneration]

\* The type invariant.
TypeOK ==
    /\ next \in 2 .. AsidLast + 1
    /\ generation \in 1 .. MaxGeneration
    /\ number \in [Roots -> 0 .. AsidLast]
    /\ stamp \in [Roots -> 0 .. MaxGeneration]
    /\ state \in [Roots -> States]
    /\ source \in [Roots -> Roots \cup {None}]
    /\ current \in [Cores -> Roots \cup {None}]
    /\ active \in [Cores -> Roots \cup {Boot, Dead}]
    /\ tag \in [Cores -> Tags]
    /\ op \in [Cores -> Ops]
    /\ tlb \in [Cores -> SUBSET Entries]
    /\ stopped \in BOOLEAN

\* asid.tkb's promise to the TLB: no two roots that hold a number of the
\* generation in force hold the same one, and none holds root 0's.
NumbersUnique ==
    \A r, s \in Roots :
       Live(r) /\ Live(s) /\ Fresh(r) /\ Fresh(s) =>
          /\ number[r] > BootAsid
          /\ number[r] = number[s] => r = s

\* A translation cached while its root owned the number is never used by
\* another root that owns it, whatever cores each has run on, however many
\* generations have passed and whichever roots were released in between.
OwnedTranslations ==
    \A c \in Cores : \A e \in tlb[c] :
       e.owned /\ OwnsTag(c) /\ e.asid = tag[c] => e.root = active[c]

\* The same with no condition on who owned what: a translation a core can use
\* is one of the root it runs on.
NoAlias ==
    \A c \in Cores : \A e \in tlb[c] :
       e.asid = tag[c] => e.root = active[c]

\* No core runs on the tables of a root that has been released: "No other
\* core can hold the root by then" (address_space.tkb:140).
ActiveRootLive == \A c \in Cores : active[c] = Boot \/ Live(active[c])

\* The same of every core but one in the exec or the exit of a process, which
\* may run on the root it was cloned from until it enters its image or leaves
\* for a successor or the idle loop: kernel_process_reap_zombie moves off
\* "any root the reap may release" (process.tkb:13416) on its own core only.
RunningRootLive ==
    \A c \in Cores :
       op[c].kind \notin {"clone", "exec", "image", "exit"}
       => active[c] = Boot \/ Live(active[c])

\* Whatever roots fork, exec, exit and reap have activated on the way, a core
\* that is back in user mode stands on the root of the process it runs, and
\* an idle one on root 0.
UserOnOwnRoot ==
    \A c \in Cores :
       op[c].step = "user"
       => active[c] = IF current[c] = None THEN Boot ELSE current[c]
=============================================================================
