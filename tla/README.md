# TLA+ specifications of the Takibi kernel

Takibi is a systems language (an OCaml compiler in `lib/` and `bin/`) and, written
in it, an AArch64 kernel with the Linux system-call ABI (`kernel/`), tested by
lanes whose host side is Python (`scripts/`). These modules specify the parts
whose correctness depends on the order in which cores, interrupts, processes or
host programs act. Every definition is written from the source; `PROJECT.json`
maps each to its lines.

## The system

The kernel runs on up to four cores and is not preemptible
(`KERNEL_PREEMPTIBLE = 0`): a core inside the kernel leaves it only at a tail
that returns, blocks, migrates or exits. So concurrency is between cores, and
between a core and the interrupts it has open. Shared state is guarded in five ways:

* masking spin locks (`lib/mutex.tkb`); the most important is the run lock over
  all process records;
* TaskMutexes (`lib/task_mutex.tkb`), held across longer work with interrupts open;
* atomic words with explicit barriers (the ext2 readers' count, the world stop);
* per-core or per-slot ownership (block slots, each core's execution state);
* the world stop, which brings every other core into a pen.

The lock order is ext2 mutation, block slots, TaskMutex, then the masking locks;
the compiler enforces it as an effect.

### Parts, state and operations

| Part | State | Operations | What makes it correct |
|---|---|---|---|
| Processes and scheduler (`kernel/process.tkb`, `process_wait.tkb`, tails of `syscall.tkb`) | record state, wait4 continuation, parent links, stack owner, mask and pin; per core: current, stack, reservation, deferred reap | clone, tick, return, block, migrate, exit, wait4, reap, affinity, idle start | one core per stack, no lost wait, no forgotten zombie, no fail-stop |
| World stop (`lib/occupancy.tkb`, `gicv2.tkb`) | gate, owner, generation, request, acknowledgements, participants | stop, debug stop, partial, release, keep, CPU start | Complete means every core is held |
| ext2 mutation lock (`fs/ext2/mutation_lock.tkb`) | lock word, readers' count | take, give, enter, leave | readers and a mutation exclude each other |
| Pipes (`kernel/pipe.tkb`, pipe parts of `fd_table.tkb`, `syscall.tkb`, `process.tkb`) | ring, open ends, waiting flag, waiters | pipe2, read, write, ppoll, close, fork, exit | no lost wake, bytes in order, an end lives while held |
| Block layer (`drivers/block/memory.tkb`, `block_cache.tkb`) | device, per-slot cache and run, write counts | read, write, forget all | no read older than a write that returned |
| Free list (`lib/freelist.tkb`) | chain, head, counter | insert, remove, add, unlink range | a slot is in one hand |
| ASIDs and activation (`arch/arm64/mm/asid.tkb`, `mm/address_space.tkb`, its callers in `process.tkb`) | counter and generation; each root's number and stamp; each core's root, tag and TLB | prepare, assign, roll over, commit, cancel, around switch, fork, exec, exit and reap | numbers in force are unique, a cached translation serves its own root |
| User pages (`mm/page.tkb`, `mm/address_space.tkb`, `mm/process_image.tkb`, `mmu.tkb`) | mapping counts, last-level entries, what is cached of them, contents | touch, write, fault, unmap, fork and its undo, exec, exit | a process sees a private memory, a count is exact |
| A test lane on the host (`run_kernel_uart_driver.py`, `kernel_net_test.py`) | capture, deadline, guard and request files, marks, walk | read, extend, break in, walk the debugger, act on a mark, wait, guard | a stall is asked about, a slow guest is not failed, the lane ends |
| Descriptor tables, page allocator, log ring, terminal, TCP, virtio, USB, ext2 itself, procfs, boot, profilers, compiler | see `PROJECT.json` | | not modelled, or only where a part above uses them |

### How they interact

A system call enters through `syscall.tkb`. A file-system call passes the ext2
gate, then reads or writes blocks through a block slot. A pipe call holds the
pipe, and afterwards wakes or blocks through the process records. A handoff
between processes prepares an address space, which can need an ASID rollover,
which is one of the three users of the world stop; the crash report and the
debugger are the others. Fork copies the page tables, and what a write fault
finds in a TLB is right only if a number names one root. The free list serves
the page pool. On the host, the console driver and the network peer of a lane
meet in a guard file, a request file and ready files.

### What is hard to test

The decide-then-sleep window; a process published Blocked, Ready or Exited while
its core still stands on its stack; the wake walk that runs after a pipe was put
back, when its address may have been reused; a late acknowledgement or a late
SGI; a cache fill behind another core's write; counters at their last value;
a number taken away between its preparation and its use; the last sharer of a
page leaving while another decides on the count; a host deadline renewed by the
output it waits for.
`PROJECT.json` lists each hazard at its line, with the properties that would
catch it or the reason none does yet.

## Modules

| Module | Models | Granularity |
|---|---|---|
| `Process` | process records and the four handoffs | one critical section of the run lock is one action |
| `WorldStop` | the machine stop and CPU start | every access to an atomic word is an action |
| `Ext2MutationLock` | the ext2 gate | every access to the lock word or the count |
| `ReadersWriter` | abstract: what a readers-writer lock promises | |
| `Pipe` | pipes, their ends and their waiters | take to put is one action; the wake walk and the publication of Blocked are their own |
| `ByteStreams` | abstract: bounded byte queues | |
| `BlockCache` | the block layer's read path, write path and forgetting | every shared access, with a sum of counts any value it could have seen |
| `Freelist` | the free list, a call a step | |
| `SlotPool` | abstract: slots that are free, owned or set aside | |
| `Asid` | ASID assignment, rollover and activation | every hold of the ASID cell, a root's record or the run lock, and the write of TTBR0 |
| `CopyOnWrite` | mapping counts, entries, fork and faults | at most one hold of the page lock; an entry and its invalidation are one step |
| `PrivateMemory` | abstract: each process has its own memory | |
| `UartLane` | the console driver and the network peer of a lane | a pass of a loop, split where the driver waits; time in ticks |
| `MC*` | constants and symmetry for TLC | |
| `*Proofs` | theorems | |

**Process.** `st` is `ProcessRecordState` with the child it carries in `wokenBy`;
`owner` is `stack_owner_cpu`. Per core, `pc` says where its kernel code stands,
`cur` and `stk` are `current_handle` and `stack_handle`, `res` the successor it has
reserved. A handle is used once, so a stale handle is one whose record is `Gone`.
The rotation's order is left open: any process the walk could reach may be
chosen. Whether a prepared address space is still good at the commit is an open
outcome, allowed per handoff by `Rollover`; `Asid` shows when it is not. Init is the state after the boot
handoff; PID 1 does not exit. Signals, timed waits and the other wait reasons are
not here.

**WorldStop.** `claimed`, `owner`, `generation`, `requested`, `ack` and
`participants` are the fields of `WorldStop`; `pen` holds one frame of
`world_stop_hold` for each interrupt level, since the debug SGI nests; `irqs` and
`nmis` are the controller's pending bits by sender. A masked section stands for
any code under a masking lock.

**Ext2MutationLock.** One program counter per core; the Dekker exchange's store
and look are two actions on each side. The `dsb_ish` between them is why steps
may be taken as sequentially consistent. A refused read reruns its call after an
interrupt.

**Pipe.** A handle is a record's address, generation and end. `waiting` is the
flag that tells a change to walk the waiters; `pipe_wait` is the address a sleeper
waits for, so a walk for a freed pipe reaches the sleepers of its successor. A
signal may end any wait. `moved` records the bytes of the last step for the
refinement. The region pool is modelled from its use: an address is live or not
and carries a generation. `dup`, `CLONE_FILES` and vectors are left out.

**BlockCache.** A block slot is a sequential actor. A block's contents are a
version, its place in the device's order of writes. `done` and `floor` are history.
Which entry makes room in a full cache is left open, and a refused write may or
may not have reached the device.

**Freelist.** The two loops of `unlink_range` are recursive functions over the
links. `aside` are slots a caller unlinked by number and may add again.

**Asid.** `next` and `generation` are `AsidState`; `number` and `stamp` are a root's
`asid` and `asid_generation`; `active` and `tag` are each core's TTBR0. `op` says which
operation a core is in and how far: a handoff, the current root's activation
(fork), or a stable one (a clone's rollback, exec, exit, a reap). An exec is five
steps or more: a clone activates the root it was cloned from, by its slot, gives
its own mappings back, loads the image there, and activates its own root to enter
it, each activation with its preparation and perhaps a rollover; a second exec
tears the old image down under its own root. An exec that is lost past the point
of no return ends its process. The exit of a process that has called exec stays on
its root until it hands the core on, and the successor's root is then activated
once more before the core steps off the zombie's stack. `tlb` holds what a core may
have cached, with whether the root owned the number then; an entry is added as
soon as it may be. The machine stop is one step here, since `WorldStop` shows what
a complete stop means; a refused stop is the action `RolloverRefused`. `stopped`
is `kernel_invariant_stop`, or the end of PID 1. Init is PID 1 running on one core, the others idle on
root 0. The generation is bounded by `MaxGeneration`.

**CopyOnWrite.** `refs` and `occupied` are `PageMeta`; `pte` is the last-level entry with
its page and whether it is writable or copy-on-write; `tlb` what any core may have
cached of it. A write fault that sees a count of one gives the permission back in
place, otherwise it copies. Any allocation may be refused. A page that was never
written holds `Zero`. Fork takes a page's count in two holds: `limit` is the number of
roots it read in the first and compares with in the second. An ASID names one root here, which is what `Asid` is about.
Read-only text and `MAP_SHARED` pages, which fork leaves as they are, are left out.

**UartLane.** The driver's variables keep their names in the comments of the module.
`heard` are the marks in the capture, `acted` those the scenario has answered. A
tick passes only when driver and peer have each been round their loops. The
guest is external: it speaks in its programs' order, or stops, dies or enters the
debugger at any moment. A chunk carries any of the marks whose turn it is, and the
debugger's first prompt may come in one chunk with the guest's last words. A line
typed at a guest that has stopped is read by the debugger (`stray`), which
prompts once more for it. The peer's four waits have one form and are one wait.

## Runs

| Run | Bounds | States | Properties |
|---|---|---|---|
| `ext2_mutation_lock` | 3 cores | 247 | `CountExact`, `ReadersExcluded`, `MutatorAdmitted`, refines `ReadersWriter` |
| `world_stop` | 2 cores and 1 refused, 2 rounds, 2 requests | 33 thousand | `OneClaimant`, `MachineStopped`, `HeldReleased` |
| `process` | 2 cores, 3 processes, PID 1 (and what it clones later) moved to the second core at any moment, calls that only core 0 may run | 0.6 million | `StackExclusive`, `NoFailStop`, `OneRunner`, `NoLostWait`, `NoZombieForgotten`, `WakeHasChild`, `PinHonoured` |
| `process_orphans` | 2 cores, 3 processes, PID 1 ignores SIGCHLD, stale handoffs | 171 thousand | `OrphansReaped` |
| `process_ignored` | 2 cores, 3 processes | stops at the violation | see Findings |
| `freelist` | 4 slots, 2 generations | 37 thousand | `ChainExact`, refines `SlotPool` |
| `pipe` | 2 processes, 2 byte values, buffer 3, counts to 2, 2 generations, faults | 0.9 million | `NoLostWake`, `EndOpenWhileHeld`, refines `ByteStreams` |
| `block_cache` | 2 slots, 1 block, 2 buckets, 2 writes | 1 million | `FreshRead`, `CopyCurrent` |
| `asid` | 2 cores, 3 roots, 2 assignable numbers, 2 generations | 0.3 million | `NumbersUnique`, `OwnedTranslations`, `RunningRootLive`, `UserOnOwnRoot` |
| `asid_alias` | the same | stops at the violation | see Findings |
| `cow` | 3 processes, 2 user pages, 3 pages, 2 values | 0.1 million | `CountExact`, `WriterAlone`, `TranslationsHeld`, `RetainWithinBound`, refines `PrivateMemory` |
| `uart_lane` | timeout 4, ceiling 5, budget 2 ticks | 4 million | `StallBroken`, `SlowKept`, `WalkBudgeted`, `Bounded`, `WaitExpires`, `RequestServed`, `StopReported` |

`world_stop` and `pipe` also check `TypeOK`, which bounds the request number and the
ring's words. Every module has a `TypeOK`, and some have an invariant that a
stronger property of their run implies or that restates a guard (`OneHolder`,
`OneOwner`, `UnlinkCounted`, `PlacedWhereAllowed`, `Coherent`). They hold on the same instances and
are checked by adding `INVARIANT TypeOK` (or `PROPERTY` for `UnlinkCounted` and `PlacedWhereAllowed`) to the
configuration; those of `Ext2MutationLock`, `Asid`, `CopyOnWrite` and `Process` are proved.

More configurations are kept beside them and are run by hand, for example with
`tlc -workers 2 -config PipeThree.cfg MCPipe`:

| Configuration | Module | Result |
|---|---|---|
| `PipeThree.cfg` | `MCPipe` | 3 processes, buffer 1: passes, 0.5 million states |
| `WorldStopLate.cfg` | `MCWorldStop` | violates `QuietStopHoldsNoLock` |
| `ProcessReaped.cfg` | `MCProcess` | violates `SleeperHasChild` |
| `ProcessRollover.cfg` | `MCProcess` | violates `NoFailStop` |
| `AsidClone.cfg` | `MCAsid` | violates `ActiveRootLive` |
| `UartLanePass.cfg` | `MCUartLane` | violates `PassComplete` |
| `UartLaneSpoiled.cfg` | `MCUartLane` | violates `NothingSpoiled` |
| `UartLaneGuard.cfg` | `MCUartLane` | violates `GuardHonoured` |
| `UartLaneStray.cfg` | `MCUartLane` | violates `LastAnswered` |
| `CopyOnWriteStale.cfg` | `MCCopyOnWrite` | 5 roots, one page: violates `RetainNeverRefused` |

`asid` has also been run with three generations (3.3 million states) and with
three assignable numbers (5.2 million); both pass.

Why the bounds suffice: two cores are the least that interleave, and every
property of `Process` relates at most two cores and a parent with a child; the
third process gives a parent a second child, or an orphan a grandparent. Three
cores let two readers or two mutators meet in the ext2 gate. A pipe buffer of
three lets the tail pass the end by more than the start; `PipeThree.cfg` lets two
sleep on a pipe while the third wakes them, and the theorems cover any number.
Two requests let an acknowledgement of the first meet the second; two generations
let a counter end, an address be reused or a number change hands; two writes let
two writers of a block finish in either order. Three roots over two numbers force
a rollover while two of them run. Three processes let a page have two sharers
left when one goes. The lane's ticks keep the order of the code's constants (the
last seconds of a guard, the budget, the stopped fraction, the timeout, the
ceiling), which the module assumes by name, and not their proportions: the code
takes a quarter of the timeout for the budget and the stopped fraction and three
timeouts for the ceiling, the run two, two and five ticks with a timeout of four. The
block cache's run has one block, so that its read-ahead never spans two buckets;
the theorem `ReadsFresh` covers that. A stop on one
secondary while core 0 starts another needs a third core that comes alive, which
`world_stop` does not have; the theorem `CompleteStops` covers it.

`CHECK_DEADLOCK FALSE` is set where the system may stop: a machine kept stopped
for good or at its last request number, processes that have all ended or
sleep for ever, a fail-stop, a pool whose addresses are used up, the last
generation explored.

## Fairness

* `Ext2MutationLock`: a core inside the gate cannot be preempted, so its look,
  undo, leave, drain and give are weakly fair. Taking the lock word is an unfair
  compare-and-swap and nothing is assumed of it; `MutatorAdmitted` therefore speaks
  of the holder, and excepts readers that come back for ever.
* `WorldStop`: the claimant and a core in a pen run with interrupts masked to the
  end of what they do. Nothing makes a masked section end.
* `Process`: each core's kernel code runs on; user code may run for ever, an idle
  core may find nothing, and no interrupt is assumed.

`Pipe`, `BlockCache`, `Freelist`, `Asid` and `CopyOnWrite` are checked for safety only.
`UartLane` states that a lane ends as a bound on its clock (`Bounded`), which needs no
fairness: time does not pass unless the loops do.

## Findings

Two runs show the code doing something a comment excludes. `PROJECT.json` quotes
the lines.

* `process_ignored`: a parent that ignores SIGCHLD is left Ready for a child that
  the deferred reap removes; nothing starts it then.
* `asid_alias`: a rollover gives a new number only to the root that is about to
  run. A root already running on another core keeps its old number, caches
  translations under it after the flush, and the number is handed to a second
  root, which can hit them. `OwnedTranslations` says what does hold: translations
  cached while the number was owned never serve another owner.

The configurations that are run by hand show nine more:

* `WorldStopLate.cfg`: a debug SGI delivered after its stop was withdrawn
  acknowledges a later quiescent stop from inside a masked section, so a core in a
  quiescent pen may hold a masking lock. With `Kinds = {"quiet"}` in
  the same configuration TLC finds no violation.
* `ProcessReaped.cfg`: `wait4` of the pid it reaped last, beside another live child,
  sleeps for a child that no longer exists.
* `ProcessRollover.cfg`: a return handoff whose preparation is stale at the commit
  leaves the outgoing process Ready while it is current, and the next stack switch
  fail-stops. The current and the stable activation (`CommitCurrent` and
  `CommitStable` of `Asid`) reach `kernel_invariant_stop` when a peer rolls
  over between their preparation and their commit.
* `AsidClone.cfg`: the exec and the exit of a clone activate the root it was cloned
  from by its slot (`process_image_clone_vm_reap`). If that process was reaped
  meanwhile the preparation finds nothing and stops the kernel, or finds the slot's
  next process; until the core enters the new image or leaves, it may stand on
  released tables. `RunningRootLive` therefore excepts both, and `UserOnOwnRoot` says
  that none of it reaches user mode.
* `CopyOnWriteStale.cfg`: fork reads the number of roots under one lock and compares
  the page's count with it under another. Two forks of the page in between make
  the comparison refuse a count that is in order, which a comment takes for proof
  that it is not (`process_image.tkb:1178`). `RetainWithinBound` says what does hold: the
  count is below the number of roots at that very moment.
* `UartLanePass.cfg`: the driver can return 0 at its deadline without every mark, when
  a BREAK failed or was not answered or the budget after a request ran out.
* `UartLaneSpoiled.cfg`: a BREAK for silence can be asked for while a complete capture
  is in its last half second, where a comment says "there is no passing run left
  to spoil" (`run_kernel_uart_driver.py:250`).
* `UartLaneGuard.cfg`: a BREAK for silence goes out after the console snapshot, during
  which the peer may publish a guard, where a comment says that the guard's
  "expiry keeps a BREAK from interrupting that work" (`run_kernel_uart_driver.py:699`).
* `UartLaneStray.cfg`: a line typed after the guest stopped and before its prompt was
  read is one more line for the debugger, and one more prompt; the walk then ends
  at its count with the last command unanswered, where a comment says "the last
  command has been answered" (`run_kernel_uart_driver.py:785`).

`process` therefore runs without ignored SIGCHLD and without stale handoffs,
which `process_orphans` has;
`NoFailStop` allows the one stop the code documents, of an exit whose handoff
fails.

## Proofs

For every set of cores, `Ext2MutationLockProofs` proves the type invariant,
`HolderUnique`, `ExactCount`, `Exclusion` and the refinement of `ReadersWriter`. The inductive
invariant is `TypeOK`, `CountExact`, `OneHolder` and `ReadersExcluded` together. Exclusion is not
inductive alone: a mutator enters when the count is zero, and only `CountExact`
turns zero into nobody reading.

For every number of cores, round budget and last request number,
`WorldStopProofs` proves the type invariant, `GateExclusive` and `CompleteStops`.
`MachineStopped` needs a strengthening: request numbers are fresh (`Fresh`), so an
acknowledgement of the one in force comes from a frame still spinning on it
(`AckHeld`); a nested frame is never older than the one below it (`Nested`), so it
cannot overwrite that acknowledgement; the scan asks every core there is
(`Members`).

For every number of cores, roots, numbers and generations, `AsidProofs` proves the
type invariant, `Uniqueness`, `Translations`, `RootsLive` and `OwnRoots`.
Uniqueness is not inductive: a number is drawn in one hold and recorded in
another. `HoldsOK` says that two cores never have one root in hand, because each is
taken from a free, ready or exited state under the run lock; `NumbersOK` that
the numbers recorded, the numbers drawn and not yet recorded, and the numbers of
owned translations all lie below the counter and apart from each other. A
rollover makes every stamp stale at once and empties every TLB, so nothing is
left of the old generation but what is not owned. `RootsLive` and `OwnRoots` add `RootsOK`, which says
for each place in a core's code whose tables it stands on: outside an exec and an exit
they are those of a root that `HoldsOK` keeps from being released, and in user mode
those of the process the core runs.

For every number of processes, pages and user pages, `CopyOnWriteProofs` proves
`CountsExact`, `WritersAlone`, `PagesHeld`, `RetainsGranted`, the type invariant and the refinement of
`PrivateMemory` (`MemoryPrivate`). They rest on `CInv`, whose parts need each other:

* A count is exact only with the references on their way in or out (`Counts`); the
  bookkeeping of each step is one lemma on cardinalities, `Recount`.
* A write fault reads a count of one and makes the entry writable in a later
  step, so `LoneWriter` covers the time between: the page has no other entry and
  nobody else owes a reference to it.
* A page is at one user address only, in whatever roots (`Aligned`), because fork
  copies an entry to the same place. So a page is in a root at most once, and
  mapping its entries and references one-to-one into the roots in use bounds the
  count (`CountBounded`): a limit that is still true refuses no fork.
* A page picked for a copy is nobody else's until it is mapped (`Tied`).
* What a core has cached is what the table says (`Coherence`). It needs to know that
  a root under construction has one builder and no core, so that what fork writes
  into it is cached by nobody. `PagesHeld` follows with the counts and `LoneWriter`.

The refinement adds `Faithful`: a copy on its way holds what it will replace, and a
child under construction has the parent's pages. A step changes what its own
process sees and nobody else's view (`Foreign`), because what it writes to is its
alone. The lemmas on steps assume the few facts on finite sets they use
(`Cardinalities`), and `Counted` proves these from the library.

For every set of processes, pool and bound, `PipeProofs` proves `EndsKept` and
`WakesKept`. An end lives while held because whoever closes it is the only one left
with it (`Alone`); a wake is not lost because a sleeper that would not sleep now
is covered by a walk that is still due, and the flag that asks for walks is
never cleared in front of one. For every capacity it also proves the type
invariant and `StreamRefinement`: the words of a live pipe, read from its start and
around the end, are the abstract queue; a write in one or two pieces appends to
it and a read takes its front, also when a piece faults.

For every number of slots, blocks, buckets, cache entries and run blocks,
`BlockCacheProofs` proves `ReadsFresh` and `CopiesCurrent`. The inductive invariant says that a
copy, a run and a block on its way into either are `Good` while their epoch is the
one in force: no older than any write that has returned, and equal to the device
unless some slot has changed the block and not counted it yet. Counting makes
every copy of the bucket stale in the same step, so the exception ends exactly
when the copies it excuses stop being used.

For every set of cores and of processes, masks and pinned calls, `ProcessStepProofs`
(the inductive invariant, action by action) and `ProcessProofs` prove `TypeCorrect`,
`StacksExclusive`, `FailStopsUnreached`, `OneRunnerEach`, `NoWaitLost`, `ZombiesRemembered`,
`PinsHonoured`, `WakesHaveChild` and `PlacedAllowed`. None of the invariants is inductive
alone. `Cores` says, for each place in a core's code, which records it names, in
which state they are and whose their stacks are; `Owners` that a stack's owner
stands on it; `Alone` and `Kept` that a record is in the hands of one core at most
and a running one of exactly one. Exclusive stacks and unreached fail-stops follow,
because each switch finds the owner field as it expects it. Two hypotheses are
stated in the theorems and are needed: all but `PlacedAllowed` assume that a
return handoff's preparation is not stale at its commit (`"return" \notin Rollover`),
without which `ProcessRollover.cfg` reaches a fail-stop; `WakesHaveChild` also assumes that
nobody ignores SIGCHLD (`Ignoring = {}`), without which `process_ignored` violates it.

The assumptions are the named ASSUMEs of the component modules. Liveness
(`MutatorAdmitted`, `HeldReleased`, `OrphansReaped`) is out of the prover's reach and
only model-checked. So is `Freelist`, whose chains are defined by recursion over the
links: what they contain is an induction over data. `UartLane` has no proof
yet: its invariants are known for the timeout, ceiling and budget of its run only.

## Not modelled

`PROJECT.json` gives the reason for each part. In short:

* Timed waits and the tick wake lists, signals, the log ring and TCP's accept: the
  repository keeps models of its own for them (`kernel/models/`), and these modules
  neither use nor repeat those.
* The terminal's rings, TCP's retransmission and the virtio queue: worth a
  module, and none is written. The virtio buffers are guarded by linear tokens that
  the compiler checks.
* `fd_table.tkb`'s undo of a failed clone: the forking process holds every object
  throughout, so the undo never releases a last reference.
* The occupancy drain: only the contention probes call it.
* Most of `scripts/`: of some 440 Python files nearly all read sources, disassembly or
  logs once and print what they did not find. They keep no state between steps
  and nothing runs beside them, so a model would restate their patterns. The other
  console drivers are loops of the same form as the one in `UartLane`. As these
  scripts are most of the repository's Python, the modules cover little of it.
* The compiler, the file formats, the drivers' register work and the pure
  algorithms.

What would come next: the clock bounds of `UartLane` for every timeout and budget;
`QuietStopHoldsNoLock` when no debug stop is made.
