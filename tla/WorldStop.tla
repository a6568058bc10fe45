------------------------------ MODULE WorldStop ------------------------------
(***************************************************************************)
(* The machine-wide stop of kernel/lib/occupancy.tkb: one core claims the  *)
(* gate, publishes a numbered request, interrupts every participant and    *)
(* waits, for a bounded number of rounds, until each has acknowledged that *)
(* number from its holding pen.  CPU bring-up takes the same gate, so that *)
(* no core can come alive unseen by a stop.                                *)
(*                                                                         *)
(* Two interrupts drive the pen (arch/arm64/kernel/gicv2.tkb): the stop    *)
(* SGI, which a core with interrupts masked does not take, and the debug   *)
(* SGI, which passes the mask and may nest inside the pen of the first.    *)
(* GICv2 keeps one pending bit for each sender.  Every AtomicWord access   *)
(* is a step of its own; steps are sequentially consistent.                *)
(***************************************************************************)
EXTENDS Naturals, FiniteSets

CONSTANTS
    CPU,              \* the cores storage is reserved for
    Boot,             \* core 0, which starts the others
    Present,          \* the cores that exist; CPU_ON of another is refused
    NoCPU,            \* not a core: the owner word before the first stop
    Kinds,            \* the stops callers begin: "quiet" and/or "debug"
    Spins,            \* rounds of the acknowledgement scan
    LastGeneration    \* the largest request number (2^64 - 1 in the code)

ASSUME WorldStopAssumption ==
    /\ Boot \in Present /\ Present \subseteq CPU
    /\ NoCPU \notin CPU
    /\ Kinds \subseteq {"quiet", "debug"}
    /\ Spins \in Nat \ {0}
    /\ LastGeneration \in Nat \ {0}

VARIABLES
    claimed,       \* the gate: "free", "stop" or "start"
    owner,         \* the core that published the last stop
    generation,    \* the number of the last request, under the gate
    requested,     \* the request in force, or 0
    ack,           \* per core, the request its pen has acknowledged
    participants,  \* cores CPU_ON was ever attempted for and not refused
    at,            \* per core, its place in a stop or a CPU start
    masked,        \* per core, inside some other interrupt-masked section
    pen,           \* per core and SGI, the world_stop_hold frame on it
    irqs, nmis,    \* per core, the senders of its pending SGIs
    live,          \* the cores running kernel code
    stop           \* the claimant's locals: kind, mask, todo, seen, remaining;
                   \* a CPU start's: core and, if it is new, joined

vars == <<claimed, owner, generation, requested, ack, participants, at,
          masked, pen, irqs, nmis, live, stop>>

shared == <<claimed, owner, generation, requested, participants>>
env == <<irqs, nmis, live>>

Gen == 0..LastGeneration
Level == {"irq", "nmi"}
Place == {"run", "claiming", "claimed", "owned", "notify", "scan", "stopped",
          "partial", "resuming", "kept", "starting"}
PenPlace == {"none", "enter", "look", "ack", "spin", "clear"}

NoFrame == [pc |-> "none", gen |-> 0]
Idle == [kind |-> "quiet", mask |-> {}, todo |-> {}, seen |-> {},
         remaining |-> 0, core |-> NoCPU, joined |-> {}]

StopLocals ==
    [kind : {"quiet", "debug"}, mask : SUBSET CPU, todo : SUBSET CPU,
     seen : SUBSET CPU, remaining : Nat, core : CPU \cup {NoCPU}, joined : SUBSET CPU]

Init ==
    /\ claimed = "free" /\ owner = NoCPU
    /\ generation = 0 /\ requested = 0
    /\ ack = [c \in CPU |-> 0]
    /\ participants = {}
    /\ at = [c \in CPU |-> "run"]
    /\ masked = [c \in CPU |-> FALSE]
    /\ pen = [c \in CPU |-> [l \in Level |-> NoFrame]]
    /\ irqs = [c \in CPU |-> {}] /\ nmis = [c \in CPU |-> {}]
    /\ live = {Boot}
    /\ stop = Idle

\* Core c runs its own code: it exists, and no pen frame is on top of it.
Main(c) == c \in live /\ \A l \in Level : pen[c][l].pc = "none"

Goto(c, from, to) ==
    /\ Main(c)
    /\ at[c] = from
    /\ at' = [at EXCEPT ![c] = to]
    /\ UNCHANGED <<ack, masked, pen>>

(***************************************************************************)
(* world_stop_machine_begin_kind: mask interrupts, take the gate.  A gate  *)
(* another stop holds is Busy at once; one a CPU start holds is waited for *)
(* until a deadline, so a claim on a taken gate may be given up.           *)
(***************************************************************************)
BeginCall(c) ==
    /\ ~masked[c]
    /\ Goto(c, "run", "claiming")
    /\ UNCHANGED <<shared, env, stop>>

\* A fault reaches the debug stop from inside a masked section as well.
BeginMaskedCall(c) ==
    /\ masked[c] /\ "debug" \in Kinds
    /\ Goto(c, "run", "claiming")
    /\ UNCHANGED <<shared, env, stop>>

ClaimBusy(c) ==
    /\ claimed # "free"
    /\ Goto(c, "claiming", "run")
    /\ UNCHANGED <<shared, env, stop>>

\* A mutant of Claim: the gate is read and then stored, not swapped.
ClaimUnchecked(c) ==
    /\ Goto(c, "claiming", "claimed")
    /\ claimed' = "stop"
    /\ \E k \in Kinds :
        /\ masked[c] => k = "debug"
        /\ stop' = [Idle EXCEPT !.kind = k]
    /\ UNCHANGED <<owner, generation, requested, participants, env>>

Claim(c) ==
    /\ claimed = "free"
    /\ Goto(c, "claiming", "claimed")
    /\ claimed' = "stop"
    /\ \E k \in Kinds :
        /\ masked[c] => k = "debug"
        /\ stop' = [Idle EXCEPT !.kind = k]
    /\ UNCHANGED <<owner, generation, requested, participants, env>>

(***************************************************************************)
(* world_stop_begin_claimed: number the request, then owner, then request, *)
(* then the interrupts.  An exhausted number gives the gate back.          *)
(***************************************************************************)
Exhausted(c) ==
    /\ generation = LastGeneration
    /\ Goto(c, "claimed", "run")
    /\ claimed' = "free"
    /\ stop' = Idle
    /\ UNCHANGED <<owner, generation, requested, participants, env>>

\* A mutant of PublishOwner: the largest number is not refused.
PublishOwnerUnbounded(c) ==
    /\ Goto(c, "claimed", "owned")
    /\ generation' = generation + 1
    /\ owner' = c
    /\ stop' = [stop EXCEPT !.mask = participants \cup {Boot}]
    /\ UNCHANGED <<claimed, requested, participants, env>>

PublishOwner(c) ==
    /\ generation # LastGeneration
    /\ Goto(c, "claimed", "owned")
    /\ generation' = generation + 1
    /\ owner' = c
    /\ stop' = [stop EXCEPT !.mask = participants \cup {Boot}]
    /\ UNCHANGED <<claimed, requested, participants, env>>

PublishRequest(c) ==
    /\ Goto(c, "owned", "notify")
    /\ requested' = generation
    /\ UNCHANGED <<claimed, owner, generation, participants, env, stop>>

Others(c) == stop.mask \ {c}

Notify(c) ==
    /\ Goto(c, "notify", "scan")
    /\ irqs' = [d \in CPU |-> IF d \in Others(c) THEN irqs[d] \cup {c} ELSE irqs[d]]
    /\ stop' = [stop EXCEPT !.todo = Others(c), !.seen = {}, !.remaining = Spins - 1]
    /\ UNCHANGED <<shared, nmis, live>>

\* One read of one acknowledgement word.
Scan(c) ==
    /\ Goto(c, "scan", "scan")
    /\ \E d \in stop.todo :
        stop' = [stop EXCEPT !.todo = @ \ {d},
                             !.seen = IF ack[d] = generation THEN @ \cup {d} ELSE @]
    /\ UNCHANGED <<shared, env>>

Complete(c) ==
    /\ stop.todo = {} /\ stop.seen = Others(c)
    /\ Goto(c, "scan", "stopped")
    /\ UNCHANGED <<shared, env, stop>>

\* A mutant of Partial: running out of rounds is reported as a full stop.
PartialAsComplete(c) ==
    /\ stop.todo = {} /\ stop.seen # Others(c) /\ stop.remaining = 0
    /\ Goto(c, "scan", "stopped")
    /\ UNCHANGED <<shared, env, stop>>

Partial(c) ==
    /\ stop.todo = {} /\ stop.seen # Others(c) /\ stop.remaining = 0
    /\ Goto(c, "scan", "partial")
    /\ UNCHANGED <<shared, env, stop>>

\* The next round; at half the budget a debug stop sends its debug SGI to
\* every core the last round did not see.
NextRound(c) ==
    /\ stop.todo = {} /\ stop.seen # Others(c) /\ stop.remaining # 0
    /\ Goto(c, "scan", "scan")
    /\ nmis' = [d \in CPU |->
                  IF stop.kind = "debug" /\ stop.remaining = Spins \div 2
                     /\ d \in Others(c) \ stop.seen
                  THEN nmis[d] \cup {c} ELSE nmis[d]]
    /\ stop' = [stop EXCEPT !.todo = Others(c), !.seen = {}, !.remaining = @ - 1]
    /\ UNCHANGED <<shared, irqs, live>>

(***************************************************************************)
(* world_stop_resume, from a full or a partial stop: withdraw the request, *)
(* then give the gate.  The crash path keeps a full stop for ever.         *)
(***************************************************************************)
Withdraw(c) ==
    /\ at[c] \in {"stopped", "partial"}
    /\ Goto(c, at[c], "resuming")
    /\ requested' = 0
    /\ UNCHANGED <<claimed, owner, generation, participants, env, stop>>

GiveGate(c) ==
    /\ Goto(c, "resuming", "run")
    /\ claimed' = "free"
    /\ stop' = Idle
    /\ UNCHANGED <<owner, generation, requested, participants, env>>

KeepForever(c) ==
    /\ stop.kind = "debug"
    /\ Goto(c, "stopped", "kept")
    /\ UNCHANGED <<shared, env, stop>>

(***************************************************************************)
(* CPU bring-up, from core 0 alone: cpu_start_reserve takes the gate and   *)
(* joins the target to the participants, PSCI CPU_ON runs, and             *)
(* cpu_start_finish takes a target out again only when the firmware said   *)
(* it does not exist.  A started core comes alive whenever it does.        *)
(***************************************************************************)
StartReserve(core) ==
    /\ claimed = "free" /\ core # Boot /\ ~masked[Boot]
    /\ Goto(Boot, "run", "starting")
    /\ claimed' = "start"
    /\ participants' = participants \cup {Boot, core}
    /\ stop' = [Idle EXCEPT !.core = core, !.joined = {core} \ participants]
    /\ UNCHANGED <<owner, generation, requested, env>>

StartFinish ==
    /\ Goto(Boot, "starting", "run")
    /\ claimed' = "free"
    /\ participants' = IF stop.core \in Present
                       THEN participants ELSE participants \ stop.joined
    /\ stop' = Idle
    /\ UNCHANGED <<owner, generation, requested, env>>

\* The firmware has been asked for core: by the start in flight or an
\* earlier one, whatever status it reported.
Asked(core) == core \in participants \/ stop.core = core

ComeAlive(core) ==
    /\ core \in Present \ live /\ Asked(core)
    /\ live' = live \cup {core}
    /\ UNCHANGED <<shared, at, ack, masked, pen, irqs, nmis, stop>>

\* Any other interrupt-masked section of the kernel, for instance one that
\* holds a lock.
Mask(c) ==
    /\ Main(c) /\ at[c] = "run"
    /\ masked' = [masked EXCEPT ![c] = ~@]
    /\ UNCHANGED <<shared, at, ack, pen, env, stop>>

(***************************************************************************)
(* The pen.  The stop SGI is taken where interrupts are open, the debug    *)
(* SGI anywhere outside its own handler.                                   *)
(***************************************************************************)
Enter(c, l) == pen' = [pen EXCEPT ![c][l] = [pc |-> "enter", gen |-> 0]]

IrqTake(c) ==
    /\ Main(c) /\ at[c] = "run" /\ ~masked[c]
    /\ \E s \in irqs[c] : irqs' = [irqs EXCEPT ![c] = @ \ {s}]
    /\ Enter(c, "irq")
    /\ UNCHANGED <<shared, at, ack, masked, nmis, live, stop>>

NmiTake(c) ==
    /\ c \in live /\ pen[c]["nmi"].pc = "none"
    /\ \E s \in nmis[c] : nmis' = [nmis EXCEPT ![c] = @ \ {s}]
    /\ Enter(c, "nmi")
    /\ UNCHANGED <<shared, at, ack, masked, irqs, live, stop>>

\* world_stop_hold, one shared access a step, on the innermost frame.
Frame(c, l, from, to, gen) ==
    /\ l = "irq" => pen[c]["nmi"].pc = "none"
    /\ pen[c][l].pc = from
    /\ pen' = [pen EXCEPT ![c][l] =
                 IF to = "none" THEN NoFrame ELSE [pc |-> to, gen |-> gen]]
    /\ UNCHANGED <<shared, at, masked, env, stop>>

HoldRead(c, l) ==
    /\ Frame(c, l, "enter", IF requested = 0 THEN "none" ELSE "look", requested)
    /\ UNCHANGED ack

\* A mutant of HoldLook: the pen does not ask who owns the stop.
HoldLookUnasked(c, l) ==
    /\ Frame(c, l, "look", "ack", pen[c][l].gen)
    /\ UNCHANGED ack

HoldLook(c, l) ==
    /\ Frame(c, l, "look", IF owner = c THEN "none" ELSE "ack", pen[c][l].gen)
    /\ UNCHANGED ack

HoldAck(c, l) ==
    /\ Frame(c, l, "ack", "spin", pen[c][l].gen)
    /\ ack' = [ack EXCEPT ![c] = pen[c][l].gen]

HoldSpin(c, l) ==
    /\ requested # pen[c][l].gen
    /\ Frame(c, l, "spin", "clear", pen[c][l].gen)
    /\ UNCHANGED ack

HoldClear(c, l) ==
    /\ Frame(c, l, "clear", "none", 0)
    /\ ack' = [ack EXCEPT ![c] = 0]

StopStep(c) ==
    \/ ClaimBusy(c) \/ Claim(c) \/ Exhausted(c) \/ PublishOwner(c)
    \/ PublishRequest(c) \/ Notify(c) \/ Scan(c) \/ Complete(c)
    \/ Partial(c) \/ NextRound(c) \/ Withdraw(c) \/ GiveGate(c)

PenStep(c) ==
    \/ IrqTake(c) \/ NmiTake(c)
    \/ \E l \in Level :
        \/ HoldRead(c, l) \/ HoldLook(c, l) \/ HoldAck(c, l)
        \/ HoldSpin(c, l) \/ HoldClear(c, l)

Next ==
    \/ \E c \in CPU :
        \/ BeginCall(c) \/ BeginMaskedCall(c) \/ StopStep(c) \/ KeepForever(c)
        \/ StartReserve(c) \/ ComeAlive(c) \/ Mask(c) \/ PenStep(c)
    \/ StartFinish

(***************************************************************************)
(* The initiator and the pens run with interrupts masked and without       *)
(* preemption to the end of what they do: their steps are weakly fair.     *)
(* Nothing makes a caller begin a stop, a core come alive or a masked      *)
(* section end.                                                            *)
(***************************************************************************)
Fairness ==
    /\ \A c \in CPU : WF_vars(StopStep(c)) /\ WF_vars(PenStep(c))
    /\ WF_vars(StartFinish)

Spec == Init /\ [][Next]_vars /\ Fairness

-----------------------------------------------------------------------------
(* The gate, the published words, the pens and the claimant's locals keep  *)
(* their types; a request number never passes the largest word.            *)
TypeOK ==
    /\ claimed \in {"free", "stop", "start"}
    /\ owner \in CPU \cup {NoCPU}
    /\ generation \in Gen /\ requested \in Gen
    /\ ack \in [CPU -> Gen]
    /\ participants \in SUBSET CPU
    /\ at \in [CPU -> Place]
    /\ masked \in [CPU -> BOOLEAN]
    /\ pen \in [CPU -> [Level -> [pc : PenPlace, gen : Gen]]]
    /\ irqs \in [CPU -> SUBSET CPU] /\ nmis \in [CPU -> SUBSET CPU]
    /\ live \in SUBSET CPU
    /\ stop \in StopLocals

\* Core d waits in its pen for the request in force to be withdrawn.
Held(d) == \E l \in Level : pen[d][l] = [pc |-> "spin", gen |-> requested]

Claimant(c) == at[c] \notin {"run", "claiming"}

(* The gate has one holder: two cores never own a stop, or a stop and a    *)
(* CPU start, at the same time.                                            *)
OneClaimant ==
    /\ claimed = "free" <=> \A c \in CPU : ~Claimant(c)
    /\ \A c, d \in CPU : Claimant(c) /\ Claimant(d) => c = d

(* A MachineStopped token means what its readers take it for: every other  *)
(* core that runs kernel code at all, including one that came alive after  *)
(* the stop began, waits in its pen and cannot leave it.                   *)
MachineStopped ==
    \A c \in CPU : at[c] \in {"stopped", "kept"} =>
        \A d \in live \ {c} : Held(d)

(* A core a quiet stop holds was not inside an interrupt-masked section,   *)
(* so it holds no masking lock: "taken only where ordinary IRQs were open, *)
(* so this core holds no masking lock while it waits in the pen".          *)
QuietStopHoldsNoLock ==
    \A c \in CPU : at[c] = "stopped" /\ stop.kind = "quiet" =>
        \A d \in live \ {c} : ~masked[d]

(* A core in its pen gets out, unless the crash path keeps the machine     *)
(* stopped: the initiator's rounds are bounded, it withdraws a full and a  *)
(* partial stop alike, and it never waits in a pen for itself.             *)
HeldReleased ==
    \A c \in CPU : \A l \in Level :
        pen[c][l].pc = "spin" ~>
            (pen[c][l].pc = "none" \/ \E d \in CPU : at[d] = "kept")
=============================================================================
