------------------------------- MODULE Process -------------------------------
(***************************************************************************)
(* Processes on several cores: clone, scheduling, wait4, exit and reaping, *)
(* and the kernel stack each of them stands on (kernel/kernel/process.tkb, *)
(* process_wait.tkb, and the system-call tails of syscall.tkb).            *)
(*                                                                         *)
(* One critical section of the run lock is one action.  Between two of     *)
(* them other cores run: a successor is reserved (Running) while its       *)
(* address space is prepared, a core keeps standing on a stack after the   *)
(* process has been published Blocked or Exited, a zombie is Reaping       *)
(* while its resources are torn down.                                      *)
(*                                                                         *)
(* A member of Proc is a record handle: a pool slot with one generation.   *)
(* A handle is never issued twice, so scheduled_process_handle_matches is  *)
(* "the record is not Free".  Child lists are sets (parent), the rotation  *)
(* and the zombie search pick any member the code's walk could reach.      *)
(***************************************************************************)
EXTENDS Naturals, FiniteSets

CONSTANTS CPU, Boot,        \* the cores; core 0
          Proc, Root,       \* the record handles; PID 1, which never exits
          NoCPU, NoProc, AnyChild,
          Ignoring,         \* the processes whose SIGCHLD is ignored
          Masks,            \* the affinity masks sched_setaffinity may be given
          Targets,          \* the processes it may be given them for
          PeerUnsafe,       \* whether some call may only run on core 0
          Rollover          \* the handoffs whose preparation may go stale

Handoffs == {"tick", "return", "exit"}

ASSUME ProcessAssumption ==
    /\ Boot \in CPU /\ NoCPU \notin CPU
    /\ Root \in Proc /\ NoProc \notin Proc /\ AnyChild \notin Proc
    /\ AnyChild # NoProc
    /\ IsFiniteSet(Proc)
    /\ Ignoring \subseteq Proc
    /\ Masks \subseteq (SUBSET CPU) \ {{}} /\ Targets \subseteq Proc
    /\ PeerUnsafe \in BOOLEAN
    /\ Rollover \subseteq Handoffs

VARIABLES
    \* one per process record, guarded by the run lock
    st,          \* ProcessRecordState, without the payloads
    wokenBy,     \* the child named by ReadyWait4 and Resuming
    waitFor,     \* wait4_pid
    lastReaped,  \* last_reaped_pid
    parent,      \* the parent whose child list links the process
    owner,       \* stack_owner_cpu
    mask,        \* the affinity mask
    core0,       \* the processes pinned to core 0 for one call
    \* one per core
    pc,          \* where its code stands
    cur,         \* current_handle, NoProc when current_live is false
    stk,         \* stack_handle, NoProc when stack_live is false
    res,         \* the successor it has reserved
    deferred,    \* deferred_reap_handle
    victim,      \* the process it is reaping
    noteFor,     \* the parent that will remember the reaped pid
    after,       \* where its code goes on after the reap
    halted       \* why the kernel stopped itself, "no" while it runs

waits == <<wokenBy, waitFor, lastReaped>>
places == <<mask, core0>>
reaps == <<deferred, victim, noteFor, after>>
vars == <<st, waits, parent, owner, places, pc, cur, stk, res, reaps, halted>>

States == {"Free", "Constructing", "Ready", "Running", "Blocked", "Exited",
           "ReadyWait4", "Resuming", "Reaping", "Gone"}

PCs == {"idle", "claimed", "user", "irq", "irqReserved", "irqStay", "syscall",
        "return", "returnReserved", "returnStay", "look", "block",
        "blockReserved", "clone", "exit", "exitReserved", "exitReservedReap",
        "resume", "leaveBlocked", "leaveYield", "leaveExit", "reap", "remove"}

\* The kernel runs, or has stopped itself where.
Halts == {"no", "resume", "leaveExit", "leaveYield", "leaveBlocked", "deferredTwice", "reap"}

-----------------------------------------------------------------------------
(* The record state: process_wait.tkb. *)

IsReady(p) == st[p] \in {"Ready", "ReadyWait4"}
IsRunning(p) == st[p] \in {"Running", "Resuming"}

StateStart(s) == IF s = "ReadyWait4" THEN "Resuming" ELSE "Running"
StateYield(s) == IF s = "Resuming" THEN "ReadyWait4" ELSE "Ready"
StateSettle(s) == IF s = "Resuming" THEN "Running" ELSE s

-----------------------------------------------------------------------------
(* What the walks over the process tree find. *)

Children(p) == {q \in Proc : parent[q] = p}
Orphaned(p) == parent[p] = NoProc /\ p # Root
Wanted(w, q) == w \in {AnyChild, q}

Exits(p, w) == {q \in Children(p) : st[q] = "Exited" /\ Wanted(w, q)}
Zombies(p, w) == {q \in Exits(p, w) : owner[q] = NoCPU}
StackHeld(p, w) == Exits(p, w) \ Zombies(p, w) # {}

\* A mutant of WouldMiss: a zombie still on its stack is not looked for.
WouldMissStackHeld(p) == Zombies(p, waitFor[p]) # {}

\* The last look before Blocked is published.
WouldMiss(p) == StackHeld(p, waitFor[p]) \/ Zombies(p, waitFor[p]) # {}

ParentCannotWait(p) ==
    \/ Orphaned(p)
    \/ parent[p] # NoProc /\ st[parent[p]] \in {"Exited", "Reaping"}

ChainRoot(p) ==
    LET up[n \in Nat] ==
            IF n = 0 THEN p
            ELSE IF parent[up[n - 1]] = NoProc THEN up[n - 1]
                 ELSE parent[up[n - 1]]
    IN  up[Cardinality(Proc)]

\* A mutant of CpuAllows: the pin to core 0 is not asked.
CpuAllowsUnpinned(c, p) == c \in mask[p]

CpuAllows(c, p) == IF p \in core0 THEN c = Boot ELSE c \in mask[p]

NextReady(c, from) ==
    {q \in Proc \ {from} : /\ IsReady(q) /\ CpuAllows(c, q)
                           /\ ChainRoot(q) = ChainRoot(from)}

\* A mutant of ReadyTake: the stack's owner is not asked.
ReadyTakeStoodOn(p) == IsReady(p)

\* scheduled_process_ready_take: a Ready process on a stack nobody owns, and
\* if it carries a wait4, one whose child has left its stack as well.
ReadyTake(p) ==
    /\ IsReady(p) /\ owner[p] = NoCPU
    /\ st[p] = "ReadyWait4" =>
          /\ wokenBy[p] \in Exits(p, wokenBy[p])
          /\ owner[wokenBy[p]] = NoCPU

-----------------------------------------------------------------------------
Init ==
    /\ st = [p \in Proc |-> IF p = Root THEN "Running" ELSE "Free"]
    /\ wokenBy = [p \in Proc |-> NoProc]
    /\ waitFor = [p \in Proc |-> NoProc]
    /\ lastReaped = [p \in Proc |-> NoProc]
    /\ parent = [p \in Proc |-> NoProc]
    /\ owner = [p \in Proc |-> IF p = Root THEN Boot ELSE NoCPU]
    /\ mask = [p \in Proc |-> CPU]
    /\ core0 = {}
    /\ pc = [c \in CPU |-> IF c = Boot THEN "user" ELSE "idle"]
    /\ cur = [c \in CPU |-> IF c = Boot THEN Root ELSE NoProc]
    /\ stk = cur
    /\ res = [c \in CPU |-> NoProc]
    /\ deferred = [c \in CPU |-> NoProc]
    /\ victim = [c \in CPU |-> NoProc]
    /\ noteFor = [c \in CPU |-> NoProc]
    /\ after = [c \in CPU |-> "idle"]
    /\ halted = "no"

\* Where core c's code stands, on a kernel that has not stopped itself.
At(c, place) == halted = "no" /\ pc[c] = place

Goto(c, from, to) == At(c, from) /\ pc' = [pc EXCEPT ![c] = to]

Halt(why) ==
    /\ halted' = why
    /\ UNCHANGED <<st, waits, parent, owner, places, pc, cur, stk, res, reaps>>

\* A start under the run lock: q is this core's until it commits or cancels.
Reserve(c, q) ==
    /\ st' = [st EXCEPT ![q] = StateStart(@)]
    /\ res' = [res EXCEPT ![c] = q]

\* kernel_process_schedule_cancel_reserved
Cancel(c) ==
    /\ st' = [st EXCEPT ![res[c]] = StateYield(@)]
    /\ res' = [res EXCEPT ![c] = NoProc]

-----------------------------------------------------------------------------
(* An idle core: kernel_process_secondary_start. *)

SecondaryStart(c) ==
    /\ Goto(c, "idle", "claimed")
    /\ \E q \in Proc : CpuAllows(c, q) /\ ReadyTake(q) /\ Reserve(c, q)
    /\ UNCHANGED <<waits, parent, owner, places, cur, stk, reaps, halted>>

SecondaryCancel(c) ==
    /\ Goto(c, "claimed", "idle") /\ Cancel(c)
    /\ UNCHANGED <<waits, parent, owner, places, cur, stk, reaps, halted>>

SecondaryCommit(c) ==
    /\ Goto(c, "claimed", "resume")
    /\ st' = [st EXCEPT ![res[c]] = StateSettle(@)]
    /\ cur' = [cur EXCEPT ![c] = res[c]]
    /\ res' = [res EXCEPT ![c] = NoProc]
    /\ UNCHANGED <<waits, parent, owner, places, stk, reaps, halted>>

-----------------------------------------------------------------------------
(* Leaving a kernel stack.  SP has already moved when these run. *)

\* A mutant of OrphanDefer: an exited parent's child is left to its parent.
OrphanDeferUnlinked(c, out) ==
    IF out # NoProc /\ st[out] = "Exited" /\ Orphaned(out)
    THEN out ELSE deferred[c]

\* The exited process this core just left, if its parent will not wait for it.
OrphanDefer(c, out) ==
    IF out # NoProc /\ st[out] = "Exited" /\ deferred[c] = NoProc
          /\ ParentCannotWait(out)
    THEN out ELSE deferred[c]

\* The deferred reap the core goes on with, or straight on to pc `next`.
ThenReap(c, zombie, next) ==
    /\ deferred' = [deferred EXCEPT ![c] = NoProc]
    /\ victim' = [victim EXCEPT ![c] = zombie]
    /\ after' = [after EXCEPT ![c] = IF zombie = NoProc THEN @ ELSE next]
    /\ pc' = [pc EXCEPT ![c] = IF zombie = NoProc THEN next ELSE "reap"]
    /\ UNCHANGED noteFor

\* kernel_process_stack_switch_take, on the incoming stack: the outgoing one
\* is released, then the incoming one is owned.
StackSwitchTake(c) ==
    LET out == stk[c]  in == cur[c]
        left == IF out = NoProc THEN owner ELSE [owner EXCEPT ![out] = NoCPU]
    IN  /\ At(c, "resume")
        /\ IF /\ out # NoProc => owner[out] = c
              /\ in # NoProc /\ IsRunning(in) /\ left[in] = NoCPU
           THEN /\ owner' = [left EXCEPT ![in] = c]
                /\ stk' = [stk EXCEPT ![c] = in]
                /\ ThenReap(c, OrphanDefer(c, out), "user")
                /\ UNCHANGED <<st, waits, parent, places, cur, res, halted>>
           ELSE Halt("resume")

\* The idle stack's reenters: a CPU that still has a current process, or
\* finds its outgoing one in another state, stops the kernel.
MayLeave(c, expected) ==
    /\ cur[c] = NoProc /\ stk[c] # NoProc
    /\ st[stk[c]] \in expected /\ owner[stk[c]] = c

Leave(c) ==
    /\ owner' = [owner EXCEPT ![stk[c]] = NoCPU]
    /\ stk' = [stk EXCEPT ![c] = NoProc]
    /\ UNCHANGED <<waits, parent, places, cur, res, halted>>

StackIdleComplete(c) ==
    /\ At(c, "leaveExit")
    /\ IF MayLeave(c, {"Exited"})
       THEN Leave(c) /\ ThenReap(c, OrphanDefer(c, stk[c]), "idle")
                     /\ UNCHANGED st
       ELSE Halt("leaveExit")

StackIdleYield(c) ==
    /\ At(c, "leaveYield")
    /\ IF MayLeave(c, {"Running", "Resuming"})
       THEN /\ Leave(c)
            /\ st' = [st EXCEPT ![stk[c]] = StateYield(@)]
            /\ pc' = [pc EXCEPT ![c] = "idle"]
            /\ UNCHANGED reaps
       ELSE Halt("leaveYield")

StackIdleBlocked(c) ==
    /\ At(c, "leaveBlocked")
    /\ IF MayLeave(c, {"Blocked", "Ready", "ReadyWait4"})
       THEN /\ Leave(c)
            /\ pc' = [pc EXCEPT ![c] = "idle"]
            /\ UNCHANGED <<st, reaps>>
       ELSE Halt("leaveBlocked")

-----------------------------------------------------------------------------
(* An interrupt at EL0.  Its entry gives the process's stack up, the        *)
(* handler runs on the core's IRQ stack, and the return takes a stack.      *)

StackInterruptDepart(c) ==
    /\ Goto(c, "user", "irq")
    /\ stk[c] # NoProc /\ owner[stk[c]] = c
    /\ owner' = [owner EXCEPT ![stk[c]] = NoCPU]
    /\ stk' = [stk EXCEPT ![c] = NoProc]
    /\ UNCHANGED <<st, waits, parent, places, cur, res, reaps, halted>>

\* An interrupt that schedules nothing, or a tick that found no successor.
\* A core the process may no longer use lets it go (tick_leave_excluded).
IrqReturn(c) ==
    /\ Goto(c, "irq", "resume") \/ Goto(c, "irqStay", "resume")
    /\ UNCHANGED <<st, waits, parent, owner, places, cur, stk, res, reaps,
                   halted>>

TickLeaveExcluded(c) ==
    /\ Goto(c, "irq", "idle") \/ Goto(c, "irqStay", "idle")
    /\ stk[c] = NoProc /\ ~ CpuAllows(c, cur[c])
    /\ st' = [st EXCEPT ![cur[c]] = StateYield(@)]
    /\ cur' = [cur EXCEPT ![c] = NoProc]
    /\ UNCHANGED <<waits, parent, owner, places, stk, res, reaps, halted>>

\* kernel_process_schedule, from a tick or from a system call's return.
Schedule(c, from, to) ==
    /\ Goto(c, from, to)
    /\ \E q \in NextReady(c, cur[c]) : ReadyTake(q) /\ Reserve(c, q)
    /\ UNCHANGED <<waits, parent, owner, places, cur, stk, reaps, halted>>

ScheduleCancel(c, from, to) ==
    /\ Goto(c, from, to) /\ Cancel(c)
    /\ UNCHANGED <<waits, parent, owner, places, cur, stk, reaps, halted>>

ScheduleCommit(c, from) ==
    /\ Goto(c, from, "resume")
    /\ st' = [st EXCEPT ![cur[c]] = StateYield(@), ![res[c]] = StateSettle(@)]
    /\ cur' = [cur EXCEPT ![c] = res[c]]
    /\ res' = [res EXCEPT ![c] = NoProc]
    /\ UNCHANGED <<waits, parent, owner, places, stk, reaps, halted>>

\* A rollover made the prepared ASID stale: the outgoing process, already
\* yielded, is started again through ready_take, which refuses a stack that
\* some core owns, this core included.
ScheduleRollover(c, from, to) ==
    LET p == cur[c]  restarted == owner[p] = NoCPU
    IN  /\ Goto(c, from, to)
        /\ st' = [st EXCEPT ![p] = IF restarted THEN "Running" ELSE "Ready",
                            ![res[c]] = StateYield(@)]
        /\ res' = [res EXCEPT ![c] = NoProc]
        /\ owner' = [owner EXCEPT ![p] = IF restarted THEN c ELSE @]
        /\ stk' = [stk EXCEPT ![c] = IF restarted THEN p ELSE @]
        /\ UNCHANGED <<waits, parent, places, cur, reaps, halted>>

Tick(c) ==
    \/ Schedule(c, "irq", "irqReserved")
    \/ ScheduleCancel(c, "irqReserved", "irqStay")
    \/ ScheduleCommit(c, "irqReserved")
    \/ "tick" \in Rollover /\ ScheduleRollover(c, "irqReserved", "irqStay")

-----------------------------------------------------------------------------
(* System calls. *)

\* A peer whose core the mask excludes, or that may not run this call, hands
\* the process to a core that may (kernel_process_migrate_current).
Syscall(c) ==
    /\ Goto(c, "user", "syscall")
    /\ c = Boot \/ CpuAllows(c, cur[c])
    /\ UNCHANGED <<st, waits, parent, owner, places, cur, stk, res, reaps,
                   halted>>

Migrate(c) ==
    /\ Goto(c, "user", "leaveYield")
    /\ c # Boot
    /\ \/ ~ CpuAllows(c, cur[c]) /\ UNCHANGED core0
       \/ PeerUnsafe /\ CpuAllows(c, cur[c]) /\ core0' = core0 \cup {cur[c]}
    /\ cur' = [cur EXCEPT ![c] = NoProc]
    /\ UNCHANGED <<st, waits, parent, owner, mask, stk, res, reaps, halted>>

\* The end of a call gives up its pin to core 0.
Unpin(c) == core0' = core0 \ {cur[c]}

\* A call that changes nothing modelled here, the wait4 answers EINVAL,
\* ECHILD and WNOHANG's 0 among them.
SyscallDone(c) ==
    /\ Goto(c, "syscall", "return") /\ Unpin(c)
    /\ UNCHANGED <<st, waits, parent, owner, mask, cur, stk, res, reaps,
                   halted>>

AffinitySet(c) ==
    /\ Goto(c, "syscall", "return") /\ Unpin(c)
    /\ \E q \in Targets, m \in Masks :
          /\ st[q] \notin {"Free", "Gone"}
          /\ mask' = [mask EXCEPT ![q] = m]
    /\ UNCHANGED <<st, waits, parent, owner, cur, stk, res, reaps, halted>>

\* kernel_process_core0_leave_excluded
Core0LeaveExcluded(c) ==
    /\ Goto(c, "return", "leaveYield") \/ Goto(c, "returnStay", "leaveYield")
    /\ c = Boot /\ ~ CpuAllows(c, cur[c]) /\ stk[c] = cur[c]
    /\ cur' = [cur EXCEPT ![c] = NoProc]
    /\ UNCHANGED <<st, waits, parent, owner, places, stk, res, reaps, halted>>

\* kernel_syscall_resume_tail: the reschedule a tick in the kernel asked
\* for, then core 0 leaving a process its mask excludes.
SyscallReturn(c) ==
    \/ Schedule(c, "return", "returnReserved")
    \/ ScheduleCancel(c, "returnReserved", "returnStay")
    \/ ScheduleCommit(c, "returnReserved")
    \/ /\ "return" \in Rollover
       /\ ScheduleRollover(c, "returnReserved", "returnStay")
    \/ Core0LeaveExcluded(c)
    \/ /\ Goto(c, "return", "resume") \/ Goto(c, "returnStay", "resume")
       /\ UNCHANGED <<st, waits, parent, owner, places, cur, stk, res, reaps,
                      halted>>

\* clone: the child is this core's current process while it is built; at the
\* end the parent is yielded and the child runs first.
CloneBegin(c) ==
    /\ Goto(c, "syscall", "clone")
    /\ \E q \in Proc :
          /\ st[q] = "Free"
          /\ st' = [st EXCEPT ![q] = "Constructing"]
          /\ parent' = [parent EXCEPT ![q] = cur[c]]
          /\ mask' = [mask EXCEPT ![q] = mask[cur[c]]]
          /\ cur' = [cur EXCEPT ![c] = q]
    /\ Unpin(c)
    /\ UNCHANGED <<waits, owner, stk, res, reaps, halted>>

\* A mutant of CloneInstall: the parent is not yielded.
CloneInstallUnyielded(c) ==
    /\ Goto(c, "clone", "return")
    /\ st' = [st EXCEPT ![cur[c]] = "Running"]
    /\ UNCHANGED <<waits, parent, owner, places, cur, stk, res, reaps, halted>>

CloneInstall(c) ==
    /\ Goto(c, "clone", "return")
    /\ st' = [st EXCEPT ![parent[cur[c]]] = StateYield(@), ![cur[c]] = "Running"]
    /\ UNCHANGED <<waits, parent, owner, places, cur, stk, res, reaps, halted>>

CloneRollback(c) ==
    LET q == cur[c]
    IN  /\ Goto(c, "clone", "remove")
        /\ st' = [st EXCEPT ![q] = "Reaping"]
        /\ cur' = [cur EXCEPT ![c] = parent[q]]
        /\ parent' = [parent EXCEPT ![q] = NoProc]
        /\ victim' = [victim EXCEPT ![c] = q]
        /\ noteFor' = [noteFor EXCEPT ![c] = NoProc]
        /\ after' = [after EXCEPT ![c] = "return"]
        /\ UNCHANGED <<waits, owner, places, stk, res, deferred, halted>>

-----------------------------------------------------------------------------
(* wait4.  An exited child whose core still stands on its stack is neither  *)
(* collected nor slept for: the call is run again, which is no step here.   *)

ReapNext(c, from, z, next) ==
    /\ Goto(c, from, "reap")
    /\ victim' = [victim EXCEPT ![c] = z]
    /\ after' = [after EXCEPT ![c] = next]
    /\ UNCHANGED <<st, waits, parent, owner, mask, cur, stk, res, deferred,
                   noteFor, halted>>

Wait4Collect(c) ==
    \E w \in Proc \cup {AnyChild} : \E z \in Zombies(cur[c], w) :
        ReapNext(c, "syscall", z, "return") /\ Unpin(c)

Wait4Sleep(c) ==
    LET p == cur[c]
    IN  /\ Goto(c, "syscall", "look")
        /\ \E w \in {AnyChild, lastReaped[p]} \cup Children(p) :
              /\ w # NoProc
              /\ Exits(p, w) = {}
              /\ waitFor' = [waitFor EXCEPT ![p] = w]
        /\ \E q \in Children(p) : st[q] # "Exited"
        /\ UNCHANGED <<st, wokenBy, lastReaped, parent, owner, places, cur,
                       stk, res, reaps, halted>>

\* kernel_process_block_wait4 looks at the child list without the lock.
BlockWait4(c) ==
    /\ IF Children(cur[c]) = {} THEN Goto(c, "look", "resume")
                                ELSE Goto(c, "look", "block")
    /\ UNCHANGED <<st, waits, parent, owner, places, cur, stk, res, reaps,
                   halted>>

\* kernel_process_block_current: a successor is reserved; a rotation whose
\* pick cannot start, or an event already here, runs the call again.
BlockCurrent(c) ==
    LET p == cur[c]
    IN  /\ At(c, "block")
        /\ \/ /\ \E q \in NextReady(c, p) : ReadyTake(q) /\ Reserve(c, q)
              /\ Goto(c, "block", "blockReserved")
              /\ UNCHANGED cur
           \/ /\ \/ \E q \in NextReady(c, p) : ~ ReadyTake(q)
                 \/ NextReady(c, p) = {} /\ (WouldMiss(p) \/ stk[c] # p)
              /\ Goto(c, "block", "resume")
              /\ UNCHANGED <<st, cur, res>>
           \/ /\ NextReady(c, p) = {} /\ ~ WouldMiss(p) /\ stk[c] = p
              /\ Goto(c, "block", "leaveBlocked")
              /\ st' = [st EXCEPT ![p] = "Blocked"]
              /\ cur' = [cur EXCEPT ![c] = NoProc]
              /\ UNCHANGED res
        /\ UNCHANGED <<waits, parent, owner, places, stk, reaps, halted>>

BlockCommit(c) ==
    /\ Goto(c, "blockReserved", "resume")
    /\ ~ WouldMiss(cur[c])
    /\ st' = [st EXCEPT ![cur[c]] = "Blocked", ![res[c]] = StateSettle(@)]
    /\ cur' = [cur EXCEPT ![c] = res[c]]
    /\ res' = [res EXCEPT ![c] = NoProc]
    /\ UNCHANGED <<waits, parent, owner, places, stk, reaps, halted>>

\* A preparation that failed, an event already here, or a rollover that
\* overtook the commit: the process runs on and the call is run again.
BlockCancel(c) ==
    /\ Goto(c, "blockReserved", "resume") /\ Cancel(c)
    /\ UNCHANGED <<waits, parent, owner, places, cur, stk, reaps, halted>>

-----------------------------------------------------------------------------
(* exit *)

\* PID 1's exit stops the kernel and is no step here.
Exit(c) ==
    /\ Goto(c, "syscall", "exit")
    /\ cur[c] # Root
    /\ UNCHANGED <<st, waits, parent, owner, places, cur, stk, res, reaps,
                   halted>>

ExitDrain(c) ==
    /\ \E z \in Zombies(cur[c], AnyChild) : ReapNext(c, "exit", z, "exit")
    /\ UNCHANGED core0

\* A parent asleep in wait4 for this child is started here if this core may
\* run it and nobody stands on its stack, else left Ready with its call
\* rewound.
Woken(p) ==
    /\ parent[p] # NoProc
    /\ st[parent[p]] = "Blocked" /\ Wanted(waitFor[parent[p]], p)

\* A mutant of StartsParent: a parent whose core has not left is started.
StartsParentStoodOn(c, p) == Woken(p) /\ CpuAllows(c, parent[p])

StartsParent(c, p) ==
    Woken(p) /\ CpuAllows(c, parent[p]) /\ owner[parent[p]] = NoCPU

ExitStates(c, p) ==
    [q \in Proc |-> IF q = p THEN "Exited"
                    ELSE IF ~ (Woken(p) /\ q = parent[p]) THEN st[q]
                    ELSE IF StartsParent(c, p) THEN "Running"
                    ELSE "ReadyWait4"]

\* The parent first, then the rotation, which may pick a process it cannot
\* start (the parent just left Ready waits for this very stack).
ParentNext(c, p) ==
    \/ StartsParent(c, p)
    \/ parent[p] # NoProc /\ CpuAllows(c, parent[p]) /\ ReadyTake(parent[p])

Rotation(c, p) ==
    NextReady(c, p) \cup
        {f \in {parent[p]} : Woken(p) /\ CpuAllows(c, f)}

Successors(c, p) ==
    IF ParentNext(c, p) THEN {parent[p]}
                        ELSE {q \in Rotation(c, p) : ReadyTake(q)}

NoSuccessor(c, p) ==
    ~ ParentNext(c, p) /\ (Rotation(c, p) # {} =>
                              \E q \in Rotation(c, p) : ~ ReadyTake(q))

\* A mutant of AutoReap: the SIGCHLD disposition is not asked.
AutoReapAlways(p) == parent[p] # NoProc

AutoReap(p) == parent[p] # NoProc /\ parent[p] \in Ignoring

\* kernel_process_child_exit.  An ignored SIGCHLD leaves the zombie to the
\* deferred reap, of which a core has room for one.
ChildExit(c) ==
    LET p == cur[c]
    IN  /\ At(c, "exit") /\ Zombies(p, AnyChild) = {}
        /\ wokenBy' = [q \in Proc |->
              IF Woken(p) /\ ~ StartsParent(c, p) /\ q = parent[p] THEN p
                                                         ELSE wokenBy[q]]
        /\ \/ \E q \in Successors(c, p) :
                 /\ st' = [ExitStates(c, p) EXCEPT ![q] = StateStart(@)]
                 /\ res' = [res EXCEPT ![c] = q]
                 /\ pc' = [pc EXCEPT ![c] =
                              IF StartsParent(c, p) \/ AutoReap(p)
                              THEN "exitReservedReap" ELSE "exitReserved"]
                 /\ UNCHANGED <<cur, deferred, halted>>
           \/ /\ NoSuccessor(c, p)
              /\ st' = ExitStates(c, p)
              /\ cur' = [cur EXCEPT ![c] = NoProc]
              /\ pc' = [pc EXCEPT ![c] = "leaveExit"]
              /\ deferred' = [deferred EXCEPT ![c] =
                                 IF AutoReap(p) THEN p ELSE @]
              /\ halted' = IF AutoReap(p) /\ deferred[c] # NoProc
                           THEN "deferredTwice" ELSE halted
              /\ UNCHANGED res
        /\ UNCHANGED <<waitFor, lastReaped, parent, owner, places, stk,
                       victim, noteFor, after>>

\* kernel_process_exit_reserved
ExitCommit(c) ==
    /\ \/ Goto(c, "exitReserved", "resume") /\ UNCHANGED <<deferred, halted>>
       \/ /\ Goto(c, "exitReservedReap", "resume")
          /\ deferred' = [deferred EXCEPT ![c] = cur[c]]
          /\ halted' = IF deferred[c] = NoProc THEN halted ELSE "deferredTwice"
    /\ st' = [st EXCEPT ![res[c]] = StateSettle(@)]
    /\ cur' = [cur EXCEPT ![c] = res[c]]
    /\ res' = [res EXCEPT ![c] = NoProc]
    /\ UNCHANGED <<waits, parent, owner, places, stk, victim, noteFor, after>>

\* An exit cannot be retried: the idle stack's reenter finds a current
\* process and stops the kernel.
ExitCancel(c) ==
    /\ \/ Goto(c, "exitReserved", "leaveExit")
       \/ Goto(c, "exitReservedReap", "leaveExit")
    /\ "exit" \in Rollover
    /\ Cancel(c)
    /\ UNCHANGED <<waits, parent, owner, places, cur, stk, reaps, halted>>

-----------------------------------------------------------------------------
(* kernel_process_reap_zombie: take and unlink, then tear down and remove. *)

\* The locals of a reap, done with.
EndReap(c) ==
    /\ pc' = [pc EXCEPT ![c] = after[c]]
    /\ victim' = [victim EXCEPT ![c] = NoProc]
    /\ noteFor' = [noteFor EXCEPT ![c] = NoProc]
    /\ after' = [after EXCEPT ![c] = "idle"]
    /\ UNCHANGED deferred

ReapTake(c) ==
    LET v == victim[c]
    IN  /\ At(c, "reap")
        /\ \/ /\ st[v] # "Exited"
              /\ EndReap(c)
              /\ UNCHANGED <<st, waits, parent, owner, places, cur, stk, res,
                             halted>>
           \/ /\ st[v] = "Exited"
              /\ st' = [st EXCEPT ![v] = "Reaping"]
              /\ pc' = [pc EXCEPT ![c] = "remove"]
              /\ noteFor' = [noteFor EXCEPT ![c] =
                              IF ParentCannotWait(v) THEN NoProc ELSE parent[v]]
              /\ parent' = [q \in Proc |->
                              IF v \in {q, parent[q]} THEN NoProc ELSE parent[q]]
              /\ halted' = IF owner[v] = NoCPU THEN halted ELSE "reap"
              /\ UNCHANGED <<waits, owner, places, cur, stk, res, deferred,
                             victim, after>>

ReapRemove(c) ==
    /\ At(c, "remove")
    /\ st' = [st EXCEPT ![victim[c]] = "Gone"]
    /\ lastReaped' = [p \in Proc |->
          IF p = noteFor[c] /\ st[p] # "Gone" THEN victim[c] ELSE lastReaped[p]]
    /\ EndReap(c)
    /\ UNCHANGED <<wokenBy, waitFor, parent, owner, places, cur, stk, res,
                   halted>>

-----------------------------------------------------------------------------
\* What a core does of its own accord: user code may run for ever, an idle
\* core may find nothing to start, and interrupts come from outside.
KernelStep(c) ==
    \/ SecondaryCancel(c) \/ SecondaryCommit(c)
    \/ StackSwitchTake(c) \/ StackIdleComplete(c) \/ StackIdleYield(c)
    \/ StackIdleBlocked(c)
    \/ IrqReturn(c) \/ TickLeaveExcluded(c) \/ Tick(c)
    \/ SyscallDone(c) \/ SyscallReturn(c) \/ AffinitySet(c)
    \/ CloneBegin(c) \/ CloneInstall(c) \/ CloneRollback(c)
    \/ Wait4Collect(c) \/ Wait4Sleep(c) \/ BlockWait4(c) \/ BlockCurrent(c)
    \/ BlockCommit(c) \/ BlockCancel(c)
    \/ Exit(c) \/ ExitDrain(c) \/ ChildExit(c) \/ ExitCommit(c)
    \/ ExitCancel(c)
    \/ ReapTake(c) \/ ReapRemove(c)

Next ==
    \E c \in CPU : \/ KernelStep(c) \/ SecondaryStart(c)
                   \/ StackInterruptDepart(c) \/ Syscall(c) \/ Migrate(c)

Fairness == \A c \in CPU : WF_vars(KernelStep(c))

Spec == Init /\ [][Next]_vars /\ Fairness

-----------------------------------------------------------------------------
\* Every record and every core keeps its type; in particular no process is
\* left with an affinity mask that names no core.
TypeOK ==
    /\ st \in [Proc -> States]
    /\ wokenBy \in [Proc -> Proc \cup {NoProc}]
    /\ waitFor \in [Proc -> Proc \cup {NoProc, AnyChild}]
    /\ lastReaped \in [Proc -> Proc \cup {NoProc}]
    /\ parent \in [Proc -> Proc \cup {NoProc}]
    /\ owner \in [Proc -> CPU \cup {NoCPU}]
    /\ mask \in [Proc -> (SUBSET CPU) \ {{}}]
    /\ core0 \in SUBSET Proc
    /\ pc \in [CPU -> PCs]
    /\ cur \in [CPU -> Proc \cup {NoProc}]
    /\ stk \in [CPU -> Proc \cup {NoProc}]
    /\ res \in [CPU -> Proc \cup {NoProc}]
    /\ deferred \in [CPU -> Proc \cup {NoProc}]
    /\ victim \in [CPU -> Proc \cup {NoProc}]
    /\ noteFor \in [CPU -> Proc \cup {NoProc}]
    /\ after \in [CPU -> {"idle", "user", "return", "exit"}]
    /\ halted \in Halts

\* The kernel stacks core c's code or its saved frames stand on: the one it
\* owns; and its current process's, while the interrupt frame lies there or
\* SP has moved to it before the switch is recorded.
StandsOn(c) ==
    {p \in Proc : p = stk[c] \/ (p = cur[c] /\ pc[c] \in
                            {"irq", "irqReserved", "irqStay", "resume"})}

\* No two cores stand on one kernel stack, and none stands on the stack of a
\* record that is being torn down or has been given back: exit, block and
\* yield release the stack only after SP has left it, and start and reap ask
\* for a released one.
StackExclusive ==
    \A c \in CPU : \A p \in StandsOn(c) :
        /\ st[p] \notin {"Free", "Reaping", "Gone"}
        /\ \A d \in CPU \ {c} : p \notin StandsOn(d)

\* The fail-stops of the stack switch, the idle reenters and the deferred
\* reap (kernel_invariant_stop_with_frame) are never reached.  The one stop
\* that remains is the documented one of an exit whose handoff fails.
NoFailStop == halted \in {"no", "leaveExit"}

\* The cores that hold p as a running process.
Runners(p) ==
    {c \in CPU : \/ p \in {cur[c], res[c]}
                 \/ pc[c] = "leaveYield" /\ stk[c] = p
                 \/ pc[c] = "clone" /\ parent[cur[c]] = p}

\* A Running process is held by exactly one core, as its current process or
\* as its reservation (it is neither lost nor run twice), and a reservation
\* is always of a Running process.
OneRunner ==
    /\ \A p \in Proc : IsRunning(p) => Cardinality(Runners(p)) = 1
    /\ \A c \in CPU : res[c] # NoProc => IsRunning(res[c])

\* kernel_process_block_would_miss: a parent never sleeps in wait4 beside a
\* child it waits for that has already exited.
NoLostWait == \A p \in Proc : st[p] = "Blocked" => Exits(p, waitFor[p]) = {}

\* kernel_process_orphan_defer: an exited process whose parent cannot wait
\* for it is always some core's to reap once its own core has left its stack.
NoZombieForgotten ==
    \A p \in Proc :
        st[p] = "Exited" /\ owner[p] = NoCPU /\ ParentCannotWait(p) =>
            \E c \in CPU : p \in {deferred[c], victim[c]}

\* kernel_process_leave_parent_ready: a parent left Ready with its wait4
\* rewound still has the exited child its wake names; ready_take starts it on
\* no other terms.
WakeHasChild ==
    \A p \in Proc : st[p] \in {"ReadyWait4", "Resuming"} =>
                        wokenBy[p] \in Exits(p, wokenBy[p])

\* A call handed to core 0 by a peer (kernel_process_migrate_current) is not
\* taken up by a peer again before core 0 has finished it.
PinHonoured ==
    \A c \in CPU \ {Boot} : {cur[c], res[c]} \cap core0 = {}

\* No core takes a process whose mask excludes it, by whichever of the four
\* paths it looks for a successor.
PlacedWhereAllowed ==
    [][\A c \in CPU : res'[c] \notin {res[c], NoProc} =>
                          CpuAllows(c, res'[c])]_vars

\* wait4 blocks "only ... when the scheduler preempted the child": a process
\* asleep in wait4 has a child whose exit will wake it.
SleeperHasChild ==
    \A p \in Proc : st[p] = "Blocked" =>
        \E q \in Children(p) : Wanted(waitFor[p], q)

\* An exited process whose parent cannot wait is reaped in the end, unless
\* the kernel stops.
OrphansReaped ==
    \A p \in Proc \ {Root} : (st[p] = "Exited" /\ ParentCannotWait(p)) ~>
                        (st[p] = "Gone" \/ halted # "no")
=============================================================================
