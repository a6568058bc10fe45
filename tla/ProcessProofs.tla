---------------------------- MODULE ProcessProofs ----------------------------
(***************************************************************************)
(* The theorems about Process, for any number of cores and of records.     *)
(*                                                                         *)
(* StackSteps, CallSteps, WaitSteps and ChildExitKept show of each action  *)
(* which kind of step it is, and so that it keeps the invariant of         *)
(* ProcessStepProofs; the theorems follow.  A second invariant, on top of  *)
(* the first, is about the children that sleeping parents are woken for.   *)
(*                                                                         *)
(* The assumption "return" \notin Rollover leaves out the one handoff that *)
(* does break the invariant; TLC shows it in a run of its own.             *)
(***************************************************************************)
EXTENDS ProcessStepProofs

\* What is known of a core by the place of its code.
LEMMA Known ==
  ASSUME IInv, NEW c \in CPU
  PROVE  /\ pc[c] \in {"user", "irq", "irqStay", "irqReserved", "syscall", "look", "block", "blockReserved",
                       "return", "returnStay", "returnReserved", "exit", "resume"} =>
              cur[c] # NoProc /\ cur[c] \in Proc /\ st[cur[c]] = "Running"
         /\ pc[c] \in {"user", "syscall", "look", "block", "blockReserved", "exit", "exitReserved",
                       "exitReservedReap"} => stk[c] = cur[c]
         /\ pc[c] \in {"irq", "irqReserved"} => stk[c] = NoProc
         /\ pc[c] \in {"claimed", "leaveYield", "leaveBlocked"} => cur[c] = NoProc
         /\ pc[c] \in {"leaveYield", "leaveBlocked", "leaveExit"} =>
              stk[c] # NoProc /\ stk[c] \in Proc /\ owner[stk[c]] = c
         /\ pc[c] \in {"exitReserved", "exitReservedReap"} =>
              cur[c] # NoProc /\ cur[c] \in Proc /\ st[cur[c]] = "Exited" /\ deferred[c] = NoProc
         /\ pc[c] \in Reserving =>
              res[c] # NoProc /\ res[c] \in Proc /\ res[c] # cur[c] /\ IsRunning(res[c])
         /\ pc[c] = "exit" => deferred[c] = NoProc
<1>   PlaceAt(c) /\ HeldAt(c) /\ OwnsAt(c)
  BY ZenonT(60) DEF IInv, Cores
<1>2. pc[c] \notin {"reap", "remove"} => Where(c) = pc[c]
  BY ZenonT(60) DEF Where
<1>3. pc[c] \in {"user", "irq", "irqStay", "irqReserved", "syscall", "look", "block", "blockReserved",
                 "return", "returnStay", "returnReserved", "exit", "resume"} =>
        cur[c] # NoProc /\ cur[c] \in Proc /\ st[cur[c]] = "Running"
  BY ZenonT(60), <1>2, Names DEF PlaceAt, HeldAt, Bare, Done
<1>4. pc[c] \in {"user", "syscall", "look", "block", "blockReserved", "exit", "exitReserved",
                 "exitReservedReap"} => stk[c] = cur[c]
  BY ZenonT(60), <1>2 DEF PlaceAt, OnOwn
<1>5. /\ pc[c] \in {"irq", "irqReserved"} => stk[c] = NoProc
      /\ pc[c] \in {"claimed", "leaveYield", "leaveBlocked"} => cur[c] = NoProc
  BY ZenonT(60), <1>2 DEF PlaceAt, Bare
<1>6. pc[c] \in {"leaveYield", "leaveBlocked", "leaveExit"} =>
        stk[c] # NoProc /\ stk[c] \in Proc /\ owner[stk[c]] = c
  BY ZenonT(60), <1>2, Names DEF PlaceAt, OwnsAt
<1>7. pc[c] \in {"exitReserved", "exitReservedReap"} =>
        cur[c] # NoProc /\ cur[c] \in Proc /\ st[cur[c]] = "Exited" /\ deferred[c] = NoProc
  BY ZenonT(60), <1>2, Names DEF PlaceAt, HeldAt, Bare, Done
<1>8. pc[c] \in Reserving =>
        res[c] # NoProc /\ res[c] \in Proc /\ res[c] # cur[c] /\ IsRunning(res[c])
  BY ZenonT(60), Names DEF PlaceAt, HeldAt
<1>9. pc[c] = "exit" => deferred[c] = NoProc
  BY ZenonT(60) DEF PlaceAt
<1> QED
  BY ZenonT(60), <1>3, <1>4, <1>5, <1>6, <1>7, <1>8, <1>9

\* A reservation taken by kernel_process_schedule or one of its callers.
LEMMA Scheduled ==
  ASSUME IInv, TypeOK', NEW c \in CPU, NEW a, NEW b, <<a, b>> \in Takes, Schedule(c, a, b)
  PROVE  IInv'
<1>1. PICK q \in Proc : Take(c, a, b, q)
  BY ZenonT(60) DEF Schedule, NextReady, ReadyTake, Take, Goto, At
<1> QED
  BY ZenonT(60), <1>1, TakeFromTo

\* kernel_process_schedule_cancel_reserved gives the reservation back.
LEMMA Cancelled ==
  ASSUME IInv, TypeOK', NEW c \in CPU, NEW a, NEW b, <<a, b>> \in Cancels, ScheduleCancel(c, a, b)
  PROVE  IInv'
BY ZenonT(60), DropFromTo DEF ScheduleCancel, Drop, Goto, At

\* kernel_process_schedule commits: the outgoing process is ready, the reserved
\* one current.
LEMMA Committed ==
  ASSUME IInv, TypeOK', NEW c \in CPU, NEW a \in {"irqReserved", "returnReserved"}, ScheduleCommit(c, a)
  PROVE  IInv'
<1>1. pc[c] = a /\ a \in Reserving \ Done
  BY ZenonT(60) DEF ScheduleCommit, Goto, At, Reserving, Done
<1>2. /\ cur[c] \in Proc /\ st[cur[c]] = "Running" /\ res[c] \in Proc /\ res[c] # cur[c]
      /\ IsRunning(res[c]) /\ st \in [Proc -> States]
  BY ZenonT(60), <1>1, Known DEF IInv, TypeOK
<1>3. /\ st'[res[c]] = "Running" /\ st'[cur[c]] = "Ready"
      /\ \A p \in Proc \ {cur[c], res[c]} : st'[p] = st[p]
  BY ZenonT(60), <1>2 DEF ScheduleCommit, StateYield, StateSettle, IsRunning
<1>4. Hand(c, a)
  BY ZenonT(60), <1>1, <1>3 DEF Hand, ScheduleCommit, Goto, At, reaps
<1> QED
  BY ZenonT(60), <1>4, HandKept

\* Idle cores, and the stacks left behind.
LEMMA StackSteps ==
  ASSUME IInv, TypeOK', NEW c \in CPU,
         \/ SecondaryStart(c) \/ SecondaryCancel(c) \/ SecondaryCommit(c)
         \/ StackSwitchTake(c) \/ StackIdleComplete(c) \/ StackIdleYield(c) \/ StackIdleBlocked(c)
         \/ StackInterruptDepart(c)
  PROVE  IInv'
<1>t. /\ st \in [Proc -> States] /\ owner \in [Proc -> CPU \cup {NoCPU}] /\ NoProc \notin Proc
      /\ stk \in [CPU -> Proc \cup {NoProc}]
  BY ZenonT(60), Names DEF IInv, TypeOK
<1>1. CASE SecondaryStart(c)
  <2>1. PICK q \in Proc : Take(c, "idle", "claimed", q)
    BY ZenonT(60), <1>1 DEF SecondaryStart, ReadyTake, Take, Goto, At
  <2> QED
    BY SMTT(60), <2>1, TakeFromTo DEF Takes
<1>2. CASE SecondaryCancel(c)
  <2>1. Drop(c, "claimed", "idle")
    BY ZenonT(60), <1>2 DEF SecondaryCancel, Drop, Goto, At
  <2> QED
    BY SMTT(60), <2>1, DropFromTo DEF Cancels
<1>3. CASE SecondaryCommit(c)
  <2>1. pc[c] = "claimed" /\ "claimed" \in Reserving
    BY ZenonT(60), <1>3 DEF SecondaryCommit, Goto, At, Reserving
  <2>2. cur[c] = NoProc /\ res[c] \in Proc /\ IsRunning(res[c])
    BY ZenonT(60), <2>1, Known
  <2>3. st'[res[c]] = "Running" /\ \A p \in Proc \ {cur[c], res[c]} : st'[p] = st[p]
    BY ZenonT(60), <1>t, <1>3, <2>2 DEF SecondaryCommit, StateSettle, IsRunning
  <2>4. Hand(c, "claimed")
    BY ZenonT(60), <1>3, <2>1, <2>2, <2>3 DEF Hand, SecondaryCommit, Goto, At, reaps
  <2> QED
    BY ZenonT(60), <2>4, HandKept
<1>4. CASE StackSwitchTake(c)
  <2> DEFINE out == stk[c]
             in == cur[c]
             left == IF out = NoProc THEN owner ELSE [owner EXCEPT ![out] = NoCPU]
  <2>1. /\ pc[c] = "resume" /\ in # NoProc /\ in \in Proc /\ IsRunning(in)
        /\ out # NoProc => out \in Proc /\ owner[out] = c
    BY ZenonT(60), <1>4, Known, Names DEF StackSwitchTake, At, IsRunning, IInv, Cores, OwnsAt
  <2>2. left[in] = NoCPU
    <3>1. owner[in] = NoCPU \/ (owner[in] = c /\ out = in)
      BY ZenonT(60), <2>1, Names DEF IInv, Cores, OwnsAt, Owners
    <3> QED
      BY ZenonT(60), <1>t, <2>1, <3>1
  <2>3. /\ owner' = [left EXCEPT ![in] = c]
        /\ stk' = [stk EXCEPT ![c] = in] /\ ThenReap(c, OrphanDefer(c, out), "user")
        /\ UNCHANGED <<st, waits, parent, places, cur, res, halted>>
    BY ZenonT(60), <1>4, <2>1, <2>2 DEF StackSwitchTake
  <2>4. \A p \in Proc : owner'[p] = IF p = in THEN c ELSE IF p = out THEN NoCPU ELSE owner[p]
    BY ZenonT(60), <1>t, <2>1, <2>3
  <2>5. Settle(c, OrphanDefer(c, out), "user")
    BY ZenonT(60), <2>1, <2>3, <2>4 DEF Settle
  <2> QED
    BY ZenonT(60), <2>5, SettleKept
<1>5. CASE StackIdleComplete(c)
  <2>1. CASE MayLeave(c, {"Exited"})
    <3>1. /\ pc[c] = "leaveExit" /\ cur[c] = NoProc /\ stk[c] \in Proc
          /\ Leave(c) /\ ThenReap(c, OrphanDefer(c, stk[c]), "idle") /\ UNCHANGED st
      BY ZenonT(60), <1>5, <1>t, <2>1 DEF StackIdleComplete, At, MayLeave
    <3>2. \A p \in Proc : owner'[p] = IF p = cur[c] THEN c ELSE IF p = stk[c] THEN NoCPU ELSE owner[p]
      BY ZenonT(60), <1>t, <3>1 DEF Leave
    <3>3. Settle(c, OrphanDefer(c, stk[c]), "idle")
      BY ZenonT(60), <3>1, <3>2 DEF Settle, Leave
    <3> QED
      BY ZenonT(60), <3>3, SettleKept
  <2>2. CASE ~MayLeave(c, {"Exited"})
    BY ZenonT(60), <1>5, <2>2, StopKept DEF StackIdleComplete
  <2> QED
    BY ZenonT(60), <2>1, <2>2
<1>6. CASE StackIdleYield(c)
  <2>1. pc[c] = "leaveYield" /\ cur[c] = NoProc /\ stk[c] \in Proc /\ stk[c] # NoProc /\ owner[stk[c]] = c
    BY ZenonT(60), <1>6, Known DEF StackIdleYield, At
  <2>2. st[stk[c]] = "Running"
    BY ZenonT(60), <2>1 DEF IInv, Cores, HeldAt
  <2>3. MayLeave(c, {"Running", "Resuming"})
    BY ZenonT(60), <2>1, <2>2 DEF MayLeave
  <2>4. Leave(c) /\ st' = [st EXCEPT ![stk[c]] = "Ready"] /\ pc' = [pc EXCEPT ![c] = "idle"] /\ UNCHANGED reaps
    BY ZenonT(60), <1>6, <2>2, <2>3 DEF StackIdleYield, StateYield
  <2>5. StepDown(c, "leaveYield", "idle")
    BY ZenonT(60), <1>t, <2>1, <2>4 DEF StepDown, Leave
  <2> QED
    BY SMTT(60), <2>5, StepDownFromTo DEF StepsDown
<1>7. CASE StackIdleBlocked(c)
  <2>1. pc[c] = "leaveBlocked" /\ cur[c] = NoProc /\ stk[c] \in Proc /\ stk[c] # NoProc /\ owner[stk[c]] = c
    BY ZenonT(60), <1>7, Known DEF StackIdleBlocked, At
  <2>2. MayLeave(c, {"Blocked", "Ready", "ReadyWait4"})
    BY ZenonT(60), <2>1 DEF MayLeave, IInv, Cores, HeldAt
  <2>3. StepDown(c, "leaveBlocked", "idle")
    BY ZenonT(60), <1>7, <2>1, <2>2 DEF StepDown, Leave, StackIdleBlocked
  <2> QED
    BY SMTT(60), <2>3, StepDownFromTo DEF StepsDown
<1>8. CASE StackInterruptDepart(c)
  <2>1. StepDown(c, "user", "irq")
    BY ZenonT(60), <1>8 DEF StackInterruptDepart, StepDown, Goto, At
  <2> QED
    BY SMTT(60), <2>1, StepDownFromTo DEF StepsDown
<1> QED
  BY ZenonT(60), <1>1, <1>2, <1>3, <1>4, <1>5, <1>6, <1>7, <1>8

\* Interrupts, and the calls that neither sleep nor end.
LEMMA CallSteps ==
  ASSUME IInv, TypeOK', NEW c \in CPU, "return" \notin Rollover,
         \/ IrqReturn(c) \/ TickLeaveExcluded(c) \/ Tick(c)
         \/ Syscall(c) \/ Migrate(c) \/ SyscallDone(c) \/ SyscallReturn(c) \/ AffinitySet(c)
         \/ CloneBegin(c) \/ CloneInstall(c) \/ CloneRollback(c)
  PROVE  IInv'
<1>t. /\ st \in [Proc -> States] /\ owner \in [Proc -> CPU \cup {NoCPU}] /\ NoProc \notin Proc
      /\ res \in [CPU -> Proc \cup {NoProc}]
  BY ZenonT(60), Names DEF IInv, TypeOK
<1>1. CASE IrqReturn(c)
  <2>1. PICK a \in {"irq", "irqStay"} : Go(c, a, "resume")
    BY ZenonT(60), <1>1 DEF IrqReturn, Go, Goto, At, waits, places
  <2> QED
    BY SMTT(60), <2>1, GoFromTo DEF Goes
<1>2. CASE TickLeaveExcluded(c)
  <2>1. PICK a \in {"irq", "irqStay"} : Goto(c, a, "idle")
    BY ZenonT(60), <1>2 DEF TickLeaveExcluded
  <2>2. cur[c] \in Proc /\ st[cur[c]] = "Running"
    BY ZenonT(60), <2>1, Known DEF Goto, At
  <2>3. st' = [st EXCEPT ![cur[c]] = "Ready"]
    BY ZenonT(60), <1>2, <2>2 DEF TickLeaveExcluded, StateYield
  <2>4. Release(c, a, "idle")
    BY ZenonT(60), <1>t, <1>2, <2>1, <2>2, <2>3 DEF TickLeaveExcluded, Release, Goto, At, places
  <2> QED
    BY SMTT(60), <2>1, <2>4, ReleaseFromTo DEF Releases
<1>3. CASE Tick(c)
  <2>1. CASE Schedule(c, "irq", "irqReserved")
    BY SMTT(60), <2>1, Scheduled DEF Takes
  <2>2. CASE ScheduleCancel(c, "irqReserved", "irqStay")
    BY SMTT(60), <2>2, Cancelled DEF Cancels
  <2>3. CASE ScheduleCommit(c, "irqReserved")
    BY ZenonT(60), <2>3, Committed
  <2>4. CASE ScheduleRollover(c, "irqReserved", "irqStay")
    <3>1. pc[c] = "irqReserved" /\ pc[c] \in Reserving
      BY ZenonT(60), <2>4 DEF ScheduleRollover, Goto, At, Reserving
    <3>2. /\ cur[c] \in Proc /\ st[cur[c]] = "Running" /\ stk[c] = NoProc
          /\ res[c] \in Proc /\ res[c] # cur[c] /\ IsRunning(res[c])
      BY ZenonT(60), <3>1, Known
    <3>3. owner[cur[c]] = NoCPU
      BY ZenonT(60), <3>2, Names DEF IInv, Cores, OwnsAt, Owners
    <3>4. st' = [st EXCEPT ![cur[c]] = "Running", ![res[c]] = StateYield(@)]
      BY ZenonT(60), <2>4, <3>3 DEF ScheduleRollover
    <3>5. st'[res[c]] \in {"Ready", "ReadyWait4"} /\ \A p \in Proc \ {res[c]} : st'[p] = st[p]
      BY ZenonT(60), <1>t, <3>2, <3>4 DEF StateYield
    <3>6. owner' = [owner EXCEPT ![cur[c]] = c] /\ stk' = [stk EXCEPT ![c] = cur[c]]
      BY ZenonT(60), <2>4, <3>3 DEF ScheduleRollover
    <3>7. Restart(c)
      BY ZenonT(60), <2>4, <3>5, <3>6 DEF ScheduleRollover, Restart, Goto, At
    <3> QED
      BY ZenonT(60), <3>7, RestartKept
  <2> QED
    BY ZenonT(60), <1>3, <2>1, <2>2, <2>3, <2>4 DEF Tick
<1>4. CASE Syscall(c)
  <2>1. Go(c, "user", "syscall")
    BY ZenonT(60), <1>4 DEF Syscall, Go, Goto, At, waits, places
  <2> QED
    BY SMTT(60), <2>1, GoFromTo DEF Goes
<1>5. CASE Migrate(c)
  <2>1. pc[c] = "user" /\ cur[c] \in Proc /\ st[cur[c]] = "Running" /\ stk[c] = cur[c]
    BY ZenonT(60), <1>5, Known DEF Migrate, Goto, At
  <2>2. Release(c, "user", "leaveYield")
    BY ZenonT(60), <1>5, <2>1 DEF Migrate, Release, Goto, At
  <2> QED
    BY SMTT(60), <2>2, ReleaseFromTo DEF Releases
<1>6. CASE SyscallDone(c) \/ AffinitySet(c)
  <2>1. Go(c, "syscall", "return")
    BY ZenonT(60), <1>6 DEF SyscallDone, AffinitySet, Go, Goto, At, Unpin, waits
  <2> QED
    BY SMTT(60), <2>1, GoFromTo DEF Goes
<1>7. CASE SyscallReturn(c)
  <2>1. CASE Schedule(c, "return", "returnReserved")
    BY SMTT(60), <2>1, Scheduled DEF Takes
  <2>2. CASE ScheduleCancel(c, "returnReserved", "returnStay")
    BY SMTT(60), <2>2, Cancelled DEF Cancels
  <2>3. CASE ScheduleCommit(c, "returnReserved")
    BY ZenonT(60), <2>3, Committed
  <2>4. CASE Core0LeaveExcluded(c)
    <3>1. PICK a \in {"return", "returnStay"} : Goto(c, a, "leaveYield")
      BY ZenonT(60), <2>4 DEF Core0LeaveExcluded
    <3>2. cur[c] \in Proc /\ st[cur[c]] = "Running"
      BY ZenonT(60), <3>1, Known DEF Goto, At
    <3>3. Release(c, a, "leaveYield")
      BY ZenonT(60), <2>4, <3>1, <3>2 DEF Core0LeaveExcluded, Release, Goto, At, places
    <3> QED
      BY SMTT(60), <3>1, <3>3, ReleaseFromTo DEF Releases
  <2>5. CASE /\ Goto(c, "return", "resume") \/ Goto(c, "returnStay", "resume")
             /\ UNCHANGED <<st, waits, parent, owner, places, cur, stk, res, reaps, halted>>
    <3>1. PICK a \in {"return", "returnStay"} : Go(c, a, "resume")
      BY ZenonT(60), <2>5 DEF Go, Goto, At, waits, places
    <3> QED
      BY SMTT(60), <3>1, GoFromTo DEF Goes
  <2> QED
    BY ZenonT(60), <1>7, <2>1, <2>2, <2>3, <2>4, <2>5 DEF SyscallReturn
<1>8. CASE CloneBegin(c)
  BY ZenonT(60), <1>8, CloneBeginKept
<1>9. CASE CloneInstall(c)
  BY ZenonT(60), <1>9, CloneInstallKept
<1>10. CASE CloneRollback(c)
  BY ZenonT(60), <1>10, CloneRollbackKept
<1> QED
  BY ZenonT(60), <1>1, <1>2, <1>3, <1>4, <1>5, <1>6, <1>7, <1>8, <1>9, <1>10

\* wait4, exit and the reap.
LEMMA WaitSteps ==
  ASSUME IInv, TypeOK', NEW c \in CPU,
         \/ Wait4Collect(c) \/ Wait4Sleep(c) \/ BlockWait4(c) \/ BlockCurrent(c)
         \/ BlockCommit(c) \/ BlockCancel(c) \/ Exit(c) \/ ExitDrain(c)
         \/ ExitCommit(c) \/ ExitCancel(c) \/ ReapTake(c) \/ ReapRemove(c)
  PROVE  IInv'
<1>t. /\ st \in [Proc -> States] /\ NoProc \notin Proc
      /\ waitFor \in [Proc -> Proc \cup {NoProc, AnyChild}]
  BY ZenonT(60), Names DEF IInv, TypeOK
<1>1. CASE Wait4Collect(c)
  <2>0. PICK w \in Proc \cup {AnyChild} :
           \E z \in Zombies(cur[c], w) : ReapNext(c, "syscall", z, "return") /\ Unpin(c)
    BY ZenonT(60), <1>1 DEF Wait4Collect
  <2>1. PICK z \in Zombies(cur[c], w) : ReapNext(c, "syscall", z, "return") /\ Unpin(c)
    BY ZenonT(60), <2>0
  <2>2. z \in Proc /\ st[z] = "Exited" /\ owner[z] = NoCPU
    BY ZenonT(60), <2>1 DEF Zombies, Exits, Children
  <2>3. Turn(c, "syscall", "return", z)
    BY ZenonT(60), <2>1, <2>2 DEF Turn, ReapNext, Goto, At, Unpin
  <2> QED
    BY ZenonT(60), <2>3, TurnKept
<1>2. CASE ExitDrain(c)
  <2>1. PICK z \in Zombies(cur[c], AnyChild) : ReapNext(c, "exit", z, "exit")
    BY ZenonT(60), <1>2 DEF ExitDrain
  <2>2. z \in Proc /\ st[z] = "Exited" /\ owner[z] = NoCPU
    BY ZenonT(60), <2>1 DEF Zombies, Exits, Children
  <2>3. Turn(c, "exit", "exit", z)
    BY ZenonT(60), <1>2, <2>1, <2>2 DEF ExitDrain, Turn, ReapNext, Goto, At
  <2> QED
    BY ZenonT(60), <2>3, TurnKept
<1>3. CASE Wait4Sleep(c)
  <2>1. \A p \in Proc \ {cur[c]} : waitFor'[p] = waitFor[p]
    BY ZenonT(60), <1>t, <1>3 DEF Wait4Sleep
  <2>2. Go(c, "syscall", "look")
    BY ZenonT(60), <1>3, <2>1 DEF Wait4Sleep, Go, Goto, At, places
  <2> QED
    BY SMTT(60), <2>2, GoFromTo DEF Goes
<1>4. CASE BlockWait4(c)
  <2>1. PICK b \in {"resume", "block"} : Go(c, "look", b)
    BY ZenonT(60), <1>4 DEF BlockWait4, Go, Goto, At, waits, places
  <2> QED
    BY SMTT(60), <2>1, GoFromTo DEF Goes
<1>5. CASE BlockCurrent(c)
  <2>0. pc[c] = "block" /\ cur[c] \in Proc /\ stk[c] = cur[c]
    BY ZenonT(60), <1>5, Known DEF BlockCurrent, At
  <2>1. CASE pc' = [pc EXCEPT ![c] = "blockReserved"] /\ \E q \in NextReady(c, cur[c]) : ReadyTake(q) /\ Reserve(c, q)
    <3>1. UNCHANGED cur
      <4>1. pc'[c] = "blockReserved"
        BY ZenonT(60), <2>1 DEF IInv, TypeOK
      <4>2. ~Goto(c, "block", "resume") /\ ~Goto(c, "block", "leaveBlocked")
        BY ZenonT(60), <4>1 DEF Goto, IInv, TypeOK
      <4> QED
        BY ZenonT(60), <1>5, <4>2 DEF BlockCurrent
    <3>2. PICK q \in Proc : Take(c, "block", "blockReserved", q)
      BY ZenonT(60), <1>5, <2>0, <2>1, <3>1 DEF BlockCurrent, NextReady, ReadyTake, Take
    <3> QED
      BY SMTT(60), <3>2, TakeFromTo DEF Takes
  <2>2. CASE Goto(c, "block", "resume") /\ UNCHANGED <<st, cur, res>>
    <3>1. Go(c, "block", "resume")
      BY ZenonT(60), <1>5, <2>2 DEF BlockCurrent, Go, Goto, At, waits, places
    <3> QED
      BY SMTT(60), <3>1, GoFromTo DEF Goes
  <2>3. CASE /\ ~WouldMiss(cur[c]) /\ Goto(c, "block", "leaveBlocked")
             /\ st' = [st EXCEPT ![cur[c]] = "Blocked"]
             /\ cur' = [cur EXCEPT ![c] = NoProc] /\ UNCHANGED res
    <3>1. Exits(cur[c], waitFor[cur[c]]) = {}
      BY ZenonT(60), <2>3 DEF WouldMiss, StackHeld
    <3>2. Release(c, "block", "leaveBlocked")
      BY ZenonT(60), <1>t, <1>5, <2>0, <2>3, <3>1 DEF BlockCurrent, Release, Goto, At, places
    <3> QED
      BY SMTT(60), <3>2, ReleaseFromTo DEF Releases
  <2> QED
    BY ZenonT(60), <1>5, <2>1, <2>2, <2>3 DEF BlockCurrent, Goto
<1>6. CASE BlockCommit(c)
  <2>1. pc[c] = "blockReserved" /\ "blockReserved" \in Reserving \ Done
    BY ZenonT(60), <1>6 DEF BlockCommit, Goto, At, Reserving, Done
  <2>2. cur[c] \in Proc /\ res[c] \in Proc /\ res[c] # cur[c] /\ IsRunning(res[c])
    BY ZenonT(60), <2>1, Known
  <2>3. /\ st'[res[c]] = "Running" /\ st'[cur[c]] = "Blocked"
        /\ \A p \in Proc \ {cur[c], res[c]} : st'[p] = st[p]
    BY ZenonT(60), <1>t, <1>6, <2>2 DEF BlockCommit, StateSettle, IsRunning
  <2>4. Exits(cur[c], waitFor[cur[c]]) = {}
    BY ZenonT(60), <1>6 DEF BlockCommit, WouldMiss, StackHeld
  <2>5. Hand(c, "blockReserved")
    BY ZenonT(60), <1>6, <2>1, <2>3, <2>4 DEF Hand, BlockCommit, Goto, At, reaps
  <2> QED
    BY ZenonT(60), <2>5, HandKept
<1>7. CASE BlockCancel(c)
  <2>1. Drop(c, "blockReserved", "resume")
    BY ZenonT(60), <1>7 DEF BlockCancel, Drop, Goto, At
  <2> QED
    BY SMTT(60), <2>1, DropFromTo DEF Cancels
<1>8. CASE Exit(c)
  <2>1. Go(c, "syscall", "exit")
    BY ZenonT(60), <1>8 DEF Exit, Go, Goto, At, waits, places
  <2> QED
    BY SMTT(60), <2>1, GoFromTo DEF Goes
<1>9. CASE ExitCommit(c)
  <2>1. PICK a \in {"exitReserved", "exitReservedReap"} :
           /\ Goto(c, a, "resume")
           /\ IF a = "exitReserved" THEN UNCHANGED <<deferred, halted>>
              ELSE /\ deferred' = [deferred EXCEPT ![c] = cur[c]]
                   /\ halted' = IF deferred[c] = NoProc THEN halted ELSE "deferredTwice"
    BY ZenonT(60), <1>9 DEF ExitCommit
  <2>2. pc[c] = a /\ a \in Reserving \cap Done
    BY ZenonT(60), <2>1 DEF Goto, At, Reserving, Done
  <2>3. /\ cur[c] \in Proc /\ st[cur[c]] = "Exited" /\ deferred[c] = NoProc
        /\ res[c] \in Proc /\ res[c] # cur[c] /\ IsRunning(res[c])
    BY ZenonT(60), <2>2, Known
  <2>4. /\ st'[res[c]] = "Running" /\ st'[cur[c]] = "Exited"
        /\ \A p \in Proc \ {cur[c], res[c]} : st'[p] = st[p]
    BY ZenonT(60), <1>t, <1>9, <2>3 DEF ExitCommit, StateSettle, IsRunning
  <2>5. UNCHANGED halted /\ deferred' \in {deferred, [deferred EXCEPT ![c] = cur[c]]}
        /\ (deferred' = deferred \/ a = "exitReservedReap")
    BY ZenonT(60), <2>1, <2>3
  <2>6. Hand(c, a)
    BY ZenonT(60), <1>9, <2>1, <2>2, <2>4, <2>5 DEF Hand, ExitCommit, Goto
  <2> QED
    BY ZenonT(60), <2>6, HandKept
<1>10. CASE ExitCancel(c)
  <2>1. PICK a \in {"exitReserved", "exitReservedReap"} : Drop(c, a, "leaveExit")
    BY ZenonT(60), <1>10 DEF ExitCancel, Drop, Goto, At
  <2> QED
    BY SMTT(60), <2>1, DropFromTo DEF Cancels
<1>11. CASE ReapTake(c)
  <2>1. CASE st[victim[c]] # "Exited"
    <3>1. Finish(c)
      BY ZenonT(60), <1>11, <2>1 DEF ReapTake, At, Finish, waits
    <3> QED
      BY ZenonT(60), <3>1, FinishKept
  <2>2. CASE st[victim[c]] = "Exited"
    <3>1. pc[c] = "reap" /\ owner[victim[c]] = NoCPU
      BY ZenonT(60), <1>11 DEF ReapTake, At, IInv, Cores, PlaceAt, OwnsAt
    <3>2. Unlink(c)
      BY ZenonT(60), <1>11, <2>2, <3>1 DEF ReapTake, Unlink
    <3> QED
      BY ZenonT(60), <3>2, UnlinkKept
  <2> QED
    BY ZenonT(60), <2>1, <2>2
<1>12. CASE ReapRemove(c)
  <2>1. pc[c] = "remove" /\ victim[c] \in Proc /\ st[victim[c]] # "Exited"
    BY ZenonT(60), <1>12, Names DEF ReapRemove, At, IInv, Cores, PlaceAt, HeldAt
  <2>2. Finish(c)
    BY ZenonT(60), <1>t, <1>12, <2>1 DEF ReapRemove, Finish
  <2> QED
    BY ZenonT(60), <2>2, FinishKept
<1> QED
  BY ZenonT(60), <1>1, <1>2, <1>3, <1>4, <1>5, <1>6, <1>7, <1>8, <1>9, <1>10, <1>11, <1>12

\* kernel_process_child_exit is an exit as LeavingKept has it: whoever it
\* reserves is the sleeping parent it starts, or ready on a released stack.
LEMMA ChildExitKept ==
  ASSUME IInv, TypeOK', NEW c \in CPU, ChildExit(c)
  PROVE  IInv'
<1> DEFINE p == cur[c]
           f == IF Woken(p) THEN parent[p] ELSE NoProc
<1>t. /\ st \in [Proc -> States] /\ parent \in [Proc -> Proc \cup {NoProc}] /\ NoProc \notin Proc
  BY ZenonT(60), Names DEF IInv, TypeOK
<1>0. /\ pc[c] = "exit" /\ p # NoProc /\ p \in Proc /\ st[p] = "Running" /\ deferred[c] = NoProc
      /\ Zombies(p, AnyChild) = {}
  BY ZenonT(60), Known DEF ChildExit, At
<1>1. /\ f # NoProc => f \in Proc \ {p} /\ f = parent[p] /\ Woken(p) /\ st[f] = "Blocked"
      /\ Woken(p) => f = parent[p] /\ f # NoProc
  BY ZenonT(60), <1>t, <1>0 DEF Woken
<1>2. /\ ExitStates(c, p)[p] = "Exited"
      /\ \A r \in Proc \ {p, f} : ExitStates(c, p)[r] = st[r]
      /\ f # NoProc => ExitStates(c, p)[f] = IF StartsParent(c, p) THEN "Running" ELSE "ReadyWait4"
      /\ DOMAIN ExitStates(c, p) = Proc
  BY ZenonT(60), <1>0, <1>1 DEF ExitStates
<1>3. CASE \E q \in Successors(c, p) :
              /\ st' = [ExitStates(c, p) EXCEPT ![q] = StateStart(@)]
              /\ res' = [res EXCEPT ![c] = q]
              /\ pc' = [pc EXCEPT ![c] = IF StartsParent(c, p) \/ AutoReap(p)
                                         THEN "exitReservedReap" ELSE "exitReserved"]
              /\ UNCHANGED <<cur, deferred, halted>>
  <2>1. PICK q \in Successors(c, p) :
              /\ st' = [ExitStates(c, p) EXCEPT ![q] = StateStart(@)]
              /\ res' = [res EXCEPT ![c] = q]
              /\ pc' = [pc EXCEPT ![c] = IF StartsParent(c, p) \/ AutoReap(p)
                                         THEN "exitReservedReap" ELSE "exitReserved"]
              /\ UNCHANGED <<cur, deferred, halted>>
    BY ZenonT(60), <1>3
  <2>2. /\ q \in Proc /\ owner[q] = NoCPU /\ CpuAllows(c, q)
        /\ (q = f /\ StartsParent(c, p)) \/ IsReady(q)
    <3>1. CASE StartsParent(c, p)
      BY ZenonT(60), <1>1, <2>1, <3>1 DEF Successors, ParentNext, StartsParent
    <3>2. CASE ~StartsParent(c, p) /\ ParentNext(c, p)
      BY ZenonT(60), <1>t, <1>0, <2>1, <3>2 DEF Successors, ParentNext, ReadyTake
    <3>3. CASE ~ParentNext(c, p)
      <4>1. q \in Rotation(c, p) /\ ReadyTake(q)
        BY ZenonT(60), <2>1, <3>3 DEF Successors
      <4>2. q \in Proc /\ CpuAllows(c, q)
        BY ZenonT(60), <1>1, <4>1 DEF Rotation, NextReady
      <4> QED
        BY ZenonT(60), <4>1, <4>2 DEF ReadyTake
    <3> QED
      BY ZenonT(60), <3>1, <3>2, <3>3
  <2>3. q # p /\ q # NoProc /\ (IsReady(q) => q # f)
    BY ZenonT(60), <1>t, <1>0, <1>1, <2>2 DEF IsReady
  <2>4. /\ st'[q] \in {"Running", "Resuming"} /\ st'[p] = "Exited"
        /\ \A r \in Proc \ {p, f, q} : st'[r] = st[r]
        /\ f # NoProc /\ f # q => st'[f] = "ReadyWait4"
    <3>1. st'[q] = StateStart(ExitStates(c, p)[q]) /\ \A r \in Proc \ {q} : st'[r] = ExitStates(c, p)[r]
      BY ZenonT(60), <1>2, <2>1, <2>2
    <3>2. st'[q] \in {"Running", "Resuming"}
      BY ZenonT(60), <3>1 DEF StateStart
    <3>3. f # NoProc /\ f # q => ~StartsParent(c, p)
      BY ZenonT(60), <1>1, <2>1 DEF Successors, ParentNext
    <3>4. st'[p] = "Exited"
      BY ZenonT(60), <1>0, <1>2, <2>3, <3>1
    <3>5. \A r \in Proc \ {p, f, q} : st'[r] = st[r]
      BY ZenonT(60), <1>2, <3>1
    <3>6. f # NoProc /\ f # q => st'[f] = "ReadyWait4"
      BY ZenonT(60), <1>1, <1>2, <3>1, <3>3
    <3> QED
      BY ZenonT(60), <3>2, <3>4, <3>5, <3>6
  <2>5. pc' \in {[pc EXCEPT ![c] = "exitReserved"], [pc EXCEPT ![c] = "exitReservedReap"]}
    BY ZenonT(60), <2>1
  <2>6. Leaving(c, f, q)
    BY ZenonT(60), <1>0, <2>1, <2>2, <2>3, <2>4, <2>5 DEF Leaving, ChildExit
  <2> QED
    BY ZenonT(60), <2>6, LeavingKept
<1>4. CASE /\ NoSuccessor(c, p)
           /\ st' = ExitStates(c, p)
           /\ cur' = [cur EXCEPT ![c] = NoProc]
           /\ pc' = [pc EXCEPT ![c] = "leaveExit"]
           /\ deferred' = [deferred EXCEPT ![c] = IF AutoReap(p) THEN p ELSE @]
           /\ halted' = IF AutoReap(p) /\ deferred[c] # NoProc THEN "deferredTwice" ELSE halted
           /\ UNCHANGED res
  <2>1. UNCHANGED halted /\ deferred' \in {deferred, [deferred EXCEPT ![c] = p]}
    <3>1. deferred \in [CPU -> Proc \cup {NoProc}]
      BY ZenonT(60) DEF IInv, TypeOK
    <3> QED
      BY ZenonT(60), <1>0, <1>4, <3>1
  <2>2. f # NoProc => st'[f] = "ReadyWait4"
    BY ZenonT(60), <1>2, <1>4 DEF NoSuccessor, ParentNext
  <2>3. Leaving(c, f, NoProc)
    BY ZenonT(60), <1>0, <1>2, <1>4, <2>1, <2>2 DEF Leaving, ChildExit
  <2> QED
    BY ZenonT(60), <2>3, LeavingKept
<1> QED
  BY ZenonT(60), <1>3, <1>4 DEF ChildExit

-----------------------------------------------------------------------------
(* The theorems. *)

\* Core 0 runs PID 1, every other core is idle.
LEMMA InitInv == Init => IInv
<1> SUFFICES ASSUME Init PROVE IInv
  BY ZenonT(60)
<1>a. Boot \in CPU /\ NoCPU \notin CPU /\ Root \in Proc /\ NoProc \notin Proc
  BY ZenonT(60), ProcessAssumption
<1>1. TypeOK
  <2>1. [p \in Proc |-> CPU] \in [Proc -> (SUBSET CPU) \ {{}}]
    BY ZenonT(60), <1>a
  <2> QED
    BY ZenonT(60), <1>a, <2>1 DEF Init, TypeOK, States, PCs, Halts
<1>2. \A c \in CPU : /\ pc[c] \in {"user", "idle"} /\ stk[c] = cur[c] /\ res[c] = NoProc
                     /\ deferred[c] = NoProc /\ victim[c] = NoProc
                     /\ IF c = Boot THEN pc[c] = "user" /\ cur[c] = Root ELSE pc[c] = "idle" /\ cur[c] = NoProc
  BY ZenonT(60) DEF Init
<1>3. \A p \in Proc : /\ parent[p] = NoProc
                      /\ IF p = Root THEN st[p] = "Running" /\ owner[p] = Boot
                         ELSE st[p] = "Free" /\ owner[p] = NoCPU
  BY ZenonT(60) DEF Init
<1>4. Cores
  <2> SUFFICES ASSUME NEW c \in CPU PROVE PlaceAt(c) /\ HeldAt(c) /\ OwnsAt(c)
    BY ZenonT(60) DEF Cores
  <2>1. PlaceAt(c)
    BY SMTT(60), <1>a, <1>2 DEF PlaceAt, Where, Bare, OnOwn, Reserving
  <2>2. HeldAt(c) /\ OwnsAt(c)
    BY SMTT(60), <1>a, <1>2, <1>3 DEF HeldAt, OwnsAt, Done
  <2> QED
    BY ZenonT(60), <2>1, <2>2
<1>5. Owners
  BY ZenonT(60), <1>a, <1>2, <1>3 DEF Owners
<1>6. Alone /\ Kept
  BY SMTT(60), <1>a, <1>2, <1>3 DEF Alone, Kept, Holds, IsRunning
<1>7. Pinned /\ NoFailStop
  BY ZenonT(60) DEF Init, Pinned, NoFailStop
<1>8. NoLostWait /\ NoZombieForgotten
  BY ZenonT(60), <1>3 DEF NoLostWait, NoZombieForgotten
<1> QED
  BY ZenonT(60), <1>1, <1>4, <1>5, <1>6, <1>7, <1>8 DEF IInv

\* Every step keeps the invariant, when no rollover overtakes a reschedule on
\* a system call's return.
LEMMA StepKept ==
  ASSUME IInv, [Next]_vars, "return" \notin Rollover
  PROVE  IInv'
<1>1. CASE UNCHANGED vars
  <2>1. UNCHANGED <<st, wokenBy, waitFor, lastReaped, parent, owner, mask, core0, pc, cur, stk, res,
                    deferred, victim, noteFor, after, halted>>
    BY ZenonT(60), <1>1 DEF vars, waits, places, reaps
  <2>2. TypeOK'
    BY ZenonT(60), <2>1 DEF IInv, TypeOK
  <2>3. Cores'
    BY SMTT(60), <2>1 DEF IInv, Cores, PlaceAt, HeldAt, OwnsAt, Where, IsRunning
  <2>4. Owners' /\ Alone' /\ Kept' /\ Pinned'
    BY SMTT(60), <2>1 DEF IInv, Owners, Alone, Kept, Pinned, Holds, IsRunning
  <2>5. NoLostWait' /\ NoZombieForgotten' /\ NoFailStop'
    BY ZenonT(60), <2>1 DEF IInv, NoLostWait, Exits, Children, Wanted, NoZombieForgotten,
       ParentCannotWait, Orphaned,
                NoFailStop
  <2> QED
    BY ZenonT(60), <2>2, <2>3, <2>4, <2>5 DEF IInv
<1>2. CASE Next
  <2>1. PICK c \in CPU : \/ KernelStep(c) \/ SecondaryStart(c)
                         \/ StackInterruptDepart(c) \/ Syscall(c) \/ Migrate(c)
    BY ZenonT(60), <1>2 DEF Next
  <2>2. TypeOK'
    BY ZenonT(60), <2>1, TypeKept
  <2> QED
    BY ZenonT(60), <2>1, <2>2, StackSteps, CallSteps, WaitSteps, ChildExitKept DEF KernelStep
<1> QED
  BY ZenonT(60), <1>1, <1>2

\* The records, the stacks and the cores fit together in every state, provided
\* no rollover overtakes a reschedule on a system call's return (there the
\* outgoing process cannot be started again).
THEOREM Invariance ==
  ASSUME "return" \notin Rollover
  PROVE  Spec => []IInv
<1>1. Init => IInv
  BY ZenonT(60), InitInv
<1>2. IInv /\ [Next]_vars => IInv'
  BY ZenonT(60), StepKept
<1> QED
  BY <1>1, <1>2, PTL DEF Spec

\* Records and cores keep their types; no process is left without a core.
THEOREM TypeCorrect ==
  ASSUME "return" \notin Rollover
  PROVE  Spec => []TypeOK
<1>1. IInv => TypeOK
  BY ZenonT(60) DEF IInv
<1> QED
  BY <1>1, Invariance, PTL

\* kernel_process_stack_switch_take, the idle reenters, ready_take and the
\* reap: no two cores stand on one kernel stack, none on a freed one.
THEOREM StacksExclusive ==
  ASSUME "return" \notin Rollover
  PROVE  Spec => []StackExclusive
<1>1. IInv => StackExclusive
  <2> SUFFICES ASSUME IInv, NEW c \in CPU, NEW p \in StandsOn(c)
               PROVE  /\ st[p] \notin {"Free", "Reaping", "Gone"}
                      /\ \A d \in CPU \ {c} : p \notin StandsOn(d)
    BY ZenonT(60) DEF StackExclusive
  <2>n. \A d \in CPU : PlaceAt(d) /\ HeldAt(d) /\ OwnsAt(d) /\ NoCPU # d
    BY ZenonT(60), Names DEF IInv, Cores
  <2>1. p \in Proc /\ p # NoProc
    BY ZenonT(60), Names DEF StandsOn
  <2>2. CASE p = stk[c]
    <3>1. owner[p] = c
      BY ZenonT(60), <2>n, <2>1, <2>2 DEF OwnsAt
    <3>2. st[p] \notin {"Free", "Reaping", "Gone"}
      BY ZenonT(60), <2>n, <2>1, <3>1 DEF IInv, Owners
    <3>3. ASSUME NEW d \in CPU \ {c}, p \in StandsOn(d) PROVE FALSE
      BY SMTT(60), <2>n, <2>1, <3>1, <3>3 DEF OwnsAt, StandsOn
    <3> QED
      BY ZenonT(60), <3>2, <3>3
  <2>3. CASE p = cur[c] /\ pc[c] \in {"irq", "irqReserved", "irqStay", "resume"}
    <3>1. st[p] = "Running" /\ owner[p] \in {NoCPU, c}
      BY ZenonT(60), <2>n, <2>1, <2>3 DEF HeldAt, OwnsAt, Done
    <3>2. ASSUME NEW d \in CPU \ {c}, p \in StandsOn(d) PROVE FALSE
      <4>1. CASE p = stk[d]
        BY ZenonT(60), <2>n, <2>1, <3>1, <4>1 DEF OwnsAt
      <4>2. CASE p = cur[d]
        BY ZenonT(60), <2>1, <2>3, <4>2 DEF IInv, Alone, Holds
      <4> QED
        BY ZenonT(60), <3>2, <4>1, <4>2 DEF StandsOn
    <3> QED
      BY ZenonT(60), <3>1, <3>2
  <2> QED
    BY ZenonT(60), <2>2, <2>3 DEF StandsOn
<1> QED
  BY <1>1, Invariance, PTL

\* The fail-stops of the stack switch, the idle reenters, the deferred reap and
\* the reap are never reached, but for the one of an exit whose handoff fails.
THEOREM FailStopsUnreached ==
  ASSUME "return" \notin Rollover
  PROVE  Spec => []NoFailStop
<1>1. IInv => NoFailStop
  BY ZenonT(60) DEF IInv
<1> QED
  BY <1>1, Invariance, PTL

\* kernel_process_block_would_miss: nobody sleeps beside a child that has
\* exited and that it waits for.
THEOREM NoWaitLost ==
  ASSUME "return" \notin Rollover
  PROVE  Spec => []NoLostWait
<1>1. IInv => NoLostWait
  BY ZenonT(60) DEF IInv
<1> QED
  BY <1>1, Invariance, PTL

\* kernel_process_orphan_defer: a zombie whose parent cannot wait is some
\* core's to reap.
THEOREM ZombiesRemembered ==
  ASSUME "return" \notin Rollover
  PROVE  Spec => []NoZombieForgotten
<1>1. IInv => NoZombieForgotten
  BY ZenonT(60) DEF IInv
<1> QED
  BY <1>1, Invariance, PTL

\* kernel_process_migrate_current: a call handed to core 0 is held by no peer.
THEOREM PinsHonoured ==
  ASSUME "return" \notin Rollover
  PROVE  Spec => []PinHonoured
<1>1. IInv => PinHonoured
  BY ZenonT(60) DEF IInv, Pinned, PinHonoured
<1> QED
  BY <1>1, Invariance, PTL

\* A step changes one core's reservation at most, to a process that may run
\* there or to none.
LEMMA Reservations ==
  ASSUME NEW c \in CPU,
         \/ KernelStep(c) \/ SecondaryStart(c)
         \/ StackInterruptDepart(c) \/ Syscall(c) \/ Migrate(c)
  PROVE  res' = res \/ \E q : res' = [res EXCEPT ![c] = q] /\ (q = NoProc \/ CpuAllows(c, q))
<1> DEFINE Goal == res' = res \/ \E q : res' = [res EXCEPT ![c] = q] /\ (q = NoProc \/ CpuAllows(c, q))
<1>1. CASE SecondaryStart(c)
  BY ZenonT(60), <1>1 DEF SecondaryStart, Reserve
<1>2. CASE SecondaryCancel(c) \/ BlockCancel(c) \/ ExitCancel(c)
  BY ZenonT(60), <1>2 DEF SecondaryCancel, BlockCancel, ExitCancel, Cancel
<1>3. CASE SecondaryCommit(c) \/ BlockCommit(c) \/ ExitCommit(c)
  BY ZenonT(60), <1>3 DEF SecondaryCommit, BlockCommit, ExitCommit
<1>4. CASE \/ StackSwitchTake(c) \/ StackIdleComplete(c) \/ StackIdleYield(c) \/ StackIdleBlocked(c)
           \/ StackInterruptDepart(c)
  BY ZenonT(60), <1>4 DEF StackSwitchTake, StackIdleComplete, StackIdleYield, StackIdleBlocked,
     StackInterruptDepart,
              Halt, Leave
<1>5. CASE \/ IrqReturn(c) \/ TickLeaveExcluded(c) \/ Syscall(c) \/ Migrate(c) \/ SyscallDone(c)
           \/ AffinitySet(c) \/ CloneBegin(c) \/ CloneInstall(c) \/ CloneRollback(c)
  BY ZenonT(60), <1>5 DEF IrqReturn, TickLeaveExcluded, Syscall, Migrate, SyscallDone, AffinitySet,
     CloneBegin,
              CloneInstall, CloneRollback
<1>6. CASE \/ Wait4Collect(c) \/ Wait4Sleep(c) \/ BlockWait4(c) \/ Exit(c) \/ ExitDrain(c)
           \/ ReapTake(c) \/ ReapRemove(c)
  BY ZenonT(60), <1>6 DEF Wait4Collect, Wait4Sleep, BlockWait4, Exit, ExitDrain, ReapNext, ReapTake,
     ReapRemove
<1>7. ASSUME NEW a, NEW b, \/ Schedule(c, a, b) \/ ScheduleCancel(c, a, b) \/ ScheduleCommit(c, a)
                           \/ ScheduleRollover(c, a, b)
      PROVE  Goal
  BY ZenonT(60), <1>7 DEF Schedule, ScheduleCancel, ScheduleCommit, ScheduleRollover, NextReady,
     Reserve, Cancel
<1>8. CASE Tick(c)
  BY ZenonT(60), <1>7, <1>8 DEF Tick
<1>9. CASE SyscallReturn(c)
  BY ZenonT(60), <1>7, <1>9 DEF SyscallReturn, Core0LeaveExcluded
<1>10. CASE BlockCurrent(c)
  BY ZenonT(60), <1>10 DEF BlockCurrent, NextReady, Reserve
<1>11. CASE ChildExit(c)
  <2>1. \A q \in Successors(c, cur[c]) : CpuAllows(c, q)
    BY ZenonT(60) DEF Successors, ParentNext, StartsParent, Rotation, NextReady
  <2> QED
    BY ZenonT(60), <1>11, <2>1 DEF ChildExit
<1> QED
  BY ZenonT(60), <1>1, <1>2, <1>3, <1>4, <1>5, <1>6, <1>8, <1>9, <1>10, <1>11 DEF KernelStep

ResFunction == res = [d \in CPU |-> res[d]]

\* The four paths to a successor (the idle core, the tick and the call's
\* return, the blocking call, the exit) ask cpu_allows: this holds whatever the
\* rollovers do.
THEOREM PlacedAllowed == Spec => PlacedWhereAllowed
<1>1. Init => ResFunction
  BY ZenonT(60) DEF Init, ResFunction
<1>2. ResFunction /\ [Next]_vars => ResFunction'
  <2> SUFFICES ASSUME ResFunction, [Next]_vars PROVE ResFunction'
    BY ZenonT(60)
  <2>1. CASE UNCHANGED vars
    BY ZenonT(60), <2>1 DEF vars, ResFunction
  <2>2. CASE Next
    <3>1. PICK c \in CPU : \/ KernelStep(c) \/ SecondaryStart(c)
                           \/ StackInterruptDepart(c) \/ Syscall(c) \/ Migrate(c)
      BY ZenonT(60), <2>2 DEF Next
    <3>2. res' = res \/ \E q : res' = [res EXCEPT ![c] = q]
      BY ZenonT(60), <3>1, Reservations
    <3> QED
      BY ZenonT(60), <3>2 DEF ResFunction
  <2> QED
    BY ZenonT(60), <2>1, <2>2
<1>3. ResFunction /\ [Next]_vars =>
        [\A c \in CPU : res'[c] \notin {res[c], NoProc} => CpuAllows(c, res'[c])]_vars
  <2> SUFFICES ASSUME ResFunction, Next, NEW d \in CPU, res'[d] \notin {res[d], NoProc}
               PROVE  CpuAllows(d, res'[d])
    BY ZenonT(60)
  <2>1. PICK c \in CPU : \/ KernelStep(c) \/ SecondaryStart(c)
                         \/ StackInterruptDepart(c) \/ Syscall(c) \/ Migrate(c)
    BY ZenonT(60) DEF Next
  <2>2. PICK q : res' = [res EXCEPT ![c] = q] /\ (q = NoProc \/ CpuAllows(c, q))
    BY ZenonT(60), <2>1, Reservations
  <2>3. d = c /\ res'[d] = q
    BY ZenonT(60), <2>2 DEF ResFunction
  <2> QED
    BY ZenonT(60), <2>2, <2>3
<1> QED
  BY <1>1, <1>2, <1>3, PTL DEF Spec, PlacedWhereAllowed

-----------------------------------------------------------------------------
(* Whoever reaps a zombie is its parent, or the parent cannot wait for it.  *)
(* This needs that no process ignores SIGCHLD.                              *)

Mine(c, z) == parent[z] \in {NoProc, cur[c]} \/ st[parent[z]] \in {"Exited", "Reaping", "Gone"}

ReapsAt(c) ==
    /\ deferred[c] # NoProc => Mine(c, deferred[c])
    /\ pc[c] = "reap" /\ st[victim[c]] = "Exited" => Mine(c, victim[c])
    /\ pc[c] = "exitReservedReap" => res[c] = parent[cur[c]]

WInv == IInv /\ (\A c \in CPU : ReapsAt(c)) /\ WakeHasChild

Wakes == {"ReadyWait4", "Resuming"}

\* Nobody exits, is taken for reaping or is woken with a child.
Calm ==
    /\ \A p \in Proc : st'[p] \in Wakes => st[p] \in Wakes /\ wokenBy'[p] = wokenBy[p]
    /\ \A p \in Proc : st[p] = "Exited" => st'[p] = "Exited" /\ parent'[p] = parent[p]
    /\ \A p \in Proc : st'[p] = "Exited" => st[p] = "Exited"
    /\ \A p \in Proc : st[p] \in {"Reaping", "Gone"} => st'[p] \in {"Reaping", "Gone"}

\* What the reaper's claim on a zombie rests on, in every step.
Fixed ==
    /\ \A p \in Proc : st[p] \in {"Exited", "Reaping", "Gone"} => st'[p] \in {"Exited", "Reaping", "Gone"}
    /\ \A p \in Proc : st'[p] = "Exited" /\ st[p] # "Running" => st[p] = "Exited"
    /\ \A p \in Proc : st[p] = "Exited" /\ st'[p] = "Exited" =>
          \/ parent'[p] = parent[p]
          \/ parent'[p] = NoProc /\ st[parent[p]] = "Exited"

\* A calm step leaves the zombies as they are.
LEMMA CalmFixed ==
  ASSUME Calm PROVE Fixed
BY ZenonT(60) DEF Calm, Fixed

\* A calm step leaves the wakes as they are.
LEMMA CalmWakes ==
  ASSUME Calm, WakeHasChild PROVE WakeHasChild'
<1> SUFFICES ASSUME NEW p \in Proc, st'[p] \in Wakes PROVE wokenBy'[p] \in Exits(p, wokenBy[p])'
  BY ZenonT(60) DEF WakeHasChild, Wakes
<1>1. st[p] \in Wakes /\ wokenBy'[p] = wokenBy[p]
  BY ZenonT(60) DEF Calm
<1>2. wokenBy[p] \in Exits(p, wokenBy[p])
  BY ZenonT(60), <1>1 DEF WakeHasChild, Wakes
<1>3. wokenBy[p] \in Proc /\ st[wokenBy[p]] = "Exited" /\ parent[wokenBy[p]] = p
  BY ZenonT(60), <1>2 DEF Exits, Children
<1>4. st'[wokenBy[p]] = "Exited" /\ parent'[wokenBy[p]] = p
  BY ZenonT(60), <1>3 DEF Calm
<1> QED
  BY ZenonT(60), <1>1, <1>3, <1>4 DEF Exits, Children, Wanted

\* A claim lasts while the core keeps its current process.
LEMMA MineKept ==
  ASSUME Fixed, NEW c \in CPU, cur'[c] = cur[c], NEW z \in Proc, Mine(c, z),
         st[z] = "Exited", st'[z] = "Exited", parent \in [Proc -> Proc \cup {NoProc}]
  PROVE  Mine(c, z)'
<1>1. CASE parent'[z] = NoProc
  BY ZenonT(60), <1>1 DEF Mine
<1>2. CASE parent'[z] = parent[z] /\ parent[z] # NoProc
  BY ZenonT(60), <1>2 DEF Mine, Fixed
<1> QED
  BY ZenonT(60), <1>1, <1>2 DEF Fixed

\* The other cores' claims last through a step of core c.
LEMMA OtherClaims ==
  ASSUME IInv, IInv', Fixed, NEW c \in CPU, Others(c), NEW d \in CPU \ {c}, ReapsAt(d),
         parent \in [Proc -> Proc \cup {NoProc}]
  PROVE  ReapsAt(d)'
<1>0. /\ pc'[d] = pc[d] /\ cur'[d] = cur[d] /\ res'[d] = res[d] /\ deferred'[d] = deferred[d]
      /\ victim'[d] = victim[d]
  BY ZenonT(60) DEF Others
<1>1. PlaceAt(d) /\ HeldAt(d) /\ HeldAt(d)'
  BY ZenonT(60) DEF IInv, Cores
<1>2. deferred[d] # NoProc => Mine(d, deferred[d])'
  <2> SUFFICES ASSUME deferred[d] # NoProc PROVE Mine(d, deferred[d])'
    BY ZenonT(60)
  <2>1. deferred[d] \in Proc /\ st[deferred[d]] = "Exited" /\ st'[deferred[d]] = "Exited"
    BY ZenonT(60), <1>0, <1>1, Names DEF HeldAt
  <2>2. Mine(d, deferred[d])
    BY ZenonT(60) DEF ReapsAt
  <2>3. PICK z \in Proc : z = deferred[d]
    BY ZenonT(60), <2>1
  <2>4. Mine(d, z)'
    BY ZenonT(60), <1>0, <2>1, <2>2, <2>3, MineKept
  <2> QED
    BY ZenonT(60), <1>0, <2>3, <2>4 DEF Mine
<1>3. pc[d] = "reap" /\ st'[victim[d]] = "Exited" => Mine(d, victim[d])'
  <2> SUFFICES ASSUME pc[d] = "reap", st'[victim[d]] = "Exited" PROVE Mine(d, victim[d])'
    BY ZenonT(60)
  <2>1. victim[d] \in Proc /\ st[victim[d]] = "Exited"
    BY ZenonT(60), <1>1, Names DEF PlaceAt, HeldAt, Fixed
  <2>2. Mine(d, victim[d])
    BY ZenonT(60), <2>1 DEF ReapsAt
  <2>3. PICK z \in Proc : z = victim[d]
    BY ZenonT(60), <2>1
  <2>4. Mine(d, z)'
    BY ZenonT(60), <1>0, <2>1, <2>2, <2>3, MineKept
  <2> QED
    BY ZenonT(60), <1>0, <2>3, <2>4 DEF Mine
<1>4. pc[d] = "exitReservedReap" => res[d] = parent'[cur[d]]
  <2> SUFFICES ASSUME pc[d] = "exitReservedReap" PROVE res[d] = parent'[cur[d]]
    BY ZenonT(60)
  <2>1. /\ cur[d] \in Proc /\ cur[d] # NoProc /\ st[cur[d]] = "Exited" /\ IsRunning(res[d])
        /\ res[d] = parent[cur[d]]
    BY ZenonT(60), Known DEF ReapsAt, Reserving
  <2>2. st'[cur[d]] = "Exited"
    BY ZenonT(60), <1>0, <1>1, <2>1 DEF HeldAt, Done
  <2> QED
    BY ZenonT(60), <2>1, <2>2 DEF Fixed, IsRunning
<1> QED
  BY ZenonT(60), <1>0, <1>2, <1>3, <1>4 DEF ReapsAt

\* A core's step leaves the other cores' places alone.
LEMMA OthersAlone ==
  ASSUME TypeOK, NEW c \in CPU,
         \/ KernelStep(c) \/ SecondaryStart(c)
         \/ StackInterruptDepart(c) \/ Syscall(c) \/ Migrate(c)
  PROVE  Others(c)
<1>   /\ DOMAIN pc = CPU /\ DOMAIN cur = CPU /\ DOMAIN stk = CPU /\ DOMAIN res = CPU
      /\ DOMAIN deferred = CPU /\ DOMAIN victim = CPU /\ DOMAIN after = CPU
  BY ZenonT(60) DEF TypeOK
<1>1. CASE SecondaryStart(c) \/ SecondaryCancel(c) \/ SecondaryCommit(c)
  BY ZenonT(60), <1>1 DEF SecondaryStart, SecondaryCancel, SecondaryCommit, Cancel, Reserve, Goto,
     Others, reaps
<1>2. CASE StackSwitchTake(c)
  BY ZenonT(60), <1>2 DEF StackSwitchTake, Halt, ThenReap, Goto, Others, reaps
<1>3. CASE StackIdleComplete(c)
  BY ZenonT(60), <1>3 DEF StackIdleComplete, Halt, Leave, ThenReap, Goto, Others, reaps
<1>4. CASE StackIdleYield(c) \/ StackIdleBlocked(c) \/ StackInterruptDepart(c)
  BY ZenonT(60), <1>4 DEF StackIdleYield, StackIdleBlocked, StackInterruptDepart, Halt, Leave, Goto,
     Others, reaps
<1>5. CASE IrqReturn(c) \/ TickLeaveExcluded(c) \/ Syscall(c) \/ Migrate(c) \/ SyscallDone(c) \/ AffinitySet(c)
  BY ZenonT(60), <1>5 DEF IrqReturn, TickLeaveExcluded, Syscall, Migrate, SyscallDone, AffinitySet,
     Goto, Others, reaps
<1>6. CASE CloneBegin(c) \/ CloneInstall(c)
  BY ZenonT(60), <1>6 DEF CloneBegin, CloneInstall, Goto, Others, reaps
<1>7. CASE CloneRollback(c)
  BY ZenonT(60), <1>7 DEF CloneRollback, Goto, Others, reaps
<1>8. CASE Wait4Collect(c) \/ ExitDrain(c)
  BY ZenonT(60), <1>8 DEF Wait4Collect, ExitDrain, ReapNext, Goto, Others, reaps
<1>9. CASE Wait4Sleep(c) \/ BlockWait4(c) \/ Exit(c)
  BY ZenonT(60), <1>9 DEF Wait4Sleep, BlockWait4, Exit, Goto, Others, reaps
<1>10. CASE BlockCurrent(c)
  BY ZenonT(60), <1>10 DEF BlockCurrent, Reserve, Goto, Others, reaps
<1>11. CASE BlockCommit(c) \/ BlockCancel(c) \/ ExitCancel(c)
  BY ZenonT(60), <1>11 DEF BlockCommit, BlockCancel, ExitCancel, Cancel, Goto, Others, reaps
<1>12. CASE ExitCommit(c)
  BY ZenonT(60), <1>12 DEF ExitCommit, Goto, Others, reaps
<1>13. CASE ChildExit(c)
  BY ZenonT(60), <1>13 DEF ChildExit, Goto, Others, reaps
<1>14. CASE ReapTake(c)
  BY ZenonT(60), <1>14 DEF ReapTake, EndReap, Goto, Others, reaps
<1>15. CASE ReapRemove(c)
  BY ZenonT(60), <1>15 DEF ReapRemove, EndReap, Goto, Others, reaps
<1>16. ASSUME NEW a, NEW b, \/ Schedule(c, a, b) \/ ScheduleCancel(c, a, b) \/ ScheduleCommit(c, a)
                            \/ ScheduleRollover(c, a, b)
       PROVE  Others(c)
  BY ZenonT(60), <1>16 DEF Schedule, ScheduleCancel, ScheduleCommit, ScheduleRollover, Reserve,
     Cancel,
     Goto, Others, reaps
<1>17. CASE Tick(c)
  BY ZenonT(60), <1>16, <1>17 DEF Tick
<1>18. CASE SyscallReturn(c)
  <2>1. CASE \/ Core0LeaveExcluded(c)
             \/ /\ Goto(c, "return", "resume") \/ Goto(c, "returnStay", "resume")
                /\ UNCHANGED <<st, waits, parent, owner, places, cur, stk, res, reaps, halted>>
    BY ZenonT(60), <2>1 DEF Core0LeaveExcluded, Goto, Others, reaps
  <2> QED
    BY ZenonT(60), <1>16, <1>18, <2>1 DEF SyscallReturn
<1> QED
  BY ZenonT(60), <1>1, <1>2, <1>3, <1>4, <1>5, <1>6, <1>7, <1>8, <1>9, <1>10, <1>11, <1>12, <1>13,
     <1>14, <1>15, <1>17, <1>18 DEF KernelStep

\* The core claims nothing new.
Plain(c) == deferred'[c] = NoProc /\ pc'[c] \notin {"reap", "exitReservedReap"}

\* A reservation taken or given back carries its wake along.
LEMMA CalmRecords ==
  ASSUME IInv, NEW c \in CPU,
         \/ KernelStep(c) \/ SecondaryStart(c)
         \/ StackInterruptDepart(c) \/ Syscall(c) \/ Migrate(c),
         ~ChildExit(c), ~(ReapTake(c) /\ st[victim[c]] = "Exited")
  PROVE  Calm
<1>t. /\ st \in [Proc -> States] /\ parent \in [Proc -> Proc \cup {NoProc}] /\ NoProc \notin Proc
  BY ZenonT(60), Names DEF IInv, TypeOK
<1>y. /\ \A x : StateStart(x) \in {"Running", "Resuming"} /\ (StateStart(x) = "Resuming" => x = "ReadyWait4")
      /\ \A x : StateYield(x) \in {"Ready", "ReadyWait4"} /\ (StateYield(x) = "ReadyWait4" => x = "Resuming")
      /\ \A x \in {"Running", "Resuming"} : StateSettle(x) = "Running"
  BY ZenonT(60) DEF StateStart, StateYield, StateSettle
<1>k. ASSUME UNCHANGED <<st, parent, wokenBy>> PROVE Calm
  BY ZenonT(60), <1>k DEF Calm
\* A ready process is started.
<1>a. ASSUME NEW q, IsReady(q), Reserve(c, q), UNCHANGED <<parent, wokenBy>> PROVE Calm
  BY SMTT(60), <1>t, <1>y, <1>a DEF IsReady, Reserve, Calm, Wakes
\* A reserved process is given back.
<1>b. ASSUME pc[c] \in Reserving, Cancel(c), UNCHANGED <<parent, wokenBy>> PROVE Calm
  <2>1. IsRunning(res[c])
    BY ZenonT(60), <1>b, Known
  <2> QED
    BY SMTT(60), <1>t, <1>y, <1>b, <2>1 DEF IsRunning, Cancel, Calm, Wakes
\* One or two running processes change state.
<1>d. ASSUME NEW s \in {"Ready", "Blocked"}, pc[c] \in Reserving \ Done, cur[c] # NoProc => st[cur[c]] = "Running",
             st' = [st EXCEPT ![cur[c]] = s, ![res[c]] = StateSettle(@)], UNCHANGED <<parent, wokenBy>>
      PROVE  Calm
  <2>1. res[c] \in Proc /\ IsRunning(res[c]) /\ res[c] # cur[c]
    BY ZenonT(60), <1>d, Known
  <2>2. st'[res[c]] = "Running" /\ \A p \in Proc \ {res[c]} : st'[p] = IF p = cur[c] THEN s ELSE st[p]
    BY SMTT(60), <1>t, <1>y, <1>d, <2>1 DEF IsRunning
  <2> QED
    BY ZenonT(60), <1>t, <1>d, <2>1, <2>2 DEF IsRunning, Calm, Wakes
<1>1. CASE SecondaryStart(c)
  BY ZenonT(60), <1>a, <1>1 DEF SecondaryStart, ReadyTake, waits
<1>2. CASE SecondaryCancel(c) \/ BlockCancel(c) \/ ExitCancel(c)
  BY ZenonT(60), <1>b, <1>2 DEF SecondaryCancel, BlockCancel, ExitCancel, Goto, At, Reserving, waits
<1>3. CASE SecondaryCommit(c) \/ ExitCommit(c)
  <2>1. pc[c] \in Reserving /\ st' = [st EXCEPT ![res[c]] = StateSettle(@)] /\ UNCHANGED <<parent, wokenBy>>
    BY ZenonT(60), <1>3 DEF SecondaryCommit, ExitCommit, Goto, At, Reserving, waits
  <2>2. res[c] \in Proc /\ IsRunning(res[c])
    BY ZenonT(60), <2>1, Known
  <2> QED
    BY SMTT(60), <1>t, <1>y, <2>1, <2>2 DEF IsRunning, Calm, Wakes
<1>4. CASE StackSwitchTake(c) \/ StackIdleComplete(c) \/ StackIdleBlocked(c) \/ StackInterruptDepart(c)
  BY ZenonT(60), <1>k, <1>4 DEF StackSwitchTake, StackIdleComplete, StackIdleBlocked,
     StackInterruptDepart, Halt, Leave, waits
<1>5. CASE StackIdleYield(c)
  <2>1. stk[c] \in Proc /\ st[stk[c]] = "Running"
    BY ZenonT(60), <1>5, Known DEF StackIdleYield, At, IInv, Cores, HeldAt
  <2>2. UNCHANGED <<parent, wokenBy>> /\ (st' = st \/ st' = [st EXCEPT ![stk[c]] = "Ready"])
    BY ZenonT(60), <1>5, <2>1 DEF StackIdleYield, Halt, Leave, StateYield, waits
  <2> QED
    BY ZenonT(60), <1>t, <2>1, <2>2 DEF Calm, Wakes
<1>6. CASE IrqReturn(c) \/ Syscall(c) \/ Migrate(c) \/ SyscallDone(c) \/ AffinitySet(c)
  BY ZenonT(60), <1>k, <1>6 DEF IrqReturn, Syscall, Migrate, SyscallDone, AffinitySet, waits
<1>7. CASE TickLeaveExcluded(c)
  <2>1. cur[c] \in Proc /\ st[cur[c]] = "Running"
    BY ZenonT(60), <1>7, Known DEF TickLeaveExcluded, Goto, At
  <2>2. UNCHANGED <<parent, wokenBy>> /\ st' = [st EXCEPT ![cur[c]] = "Ready"]
    BY ZenonT(60), <1>7, <2>1 DEF TickLeaveExcluded, StateYield, waits
  <2> QED
    BY ZenonT(60), <1>t, <2>1, <2>2 DEF Calm, Wakes
<1>8. CASE CloneBegin(c)
  <2>1. PICK q \in Proc : /\ st[q] = "Free" /\ st' = [st EXCEPT ![q] = "Constructing"]
                          /\ parent' = [parent EXCEPT ![q] = cur[c]]
    BY ZenonT(60), <1>8 DEF CloneBegin
  <2>2. UNCHANGED wokenBy
    BY ZenonT(60), <1>8 DEF CloneBegin, waits
  <2> QED
    BY ZenonT(60), <1>t, <2>1, <2>2 DEF Calm, Wakes
<1>9. CASE CloneInstall(c) \/ CloneRollback(c)
  <2>1. /\ pc[c] = "clone" /\ cur[c] \in Proc /\ st[cur[c]] = "Constructing"
        /\ parent[cur[c]] \in Proc /\ st[parent[cur[c]]] = "Running"
    <3>1. pc[c] = "clone" /\ PlaceAt(c) /\ HeldAt(c)
      BY ZenonT(60), <1>9 DEF CloneInstall, CloneRollback, Goto, At, IInv, Cores
    <3> QED
      BY ZenonT(60), <3>1, Names DEF PlaceAt, HeldAt, Where, Bare
  <2>2. CASE CloneInstall(c)
    <3>1. st' = [st EXCEPT ![parent[cur[c]]] = "Ready", ![cur[c]] = "Running"] /\ UNCHANGED <<parent, wokenBy>>
      BY ZenonT(60), <2>1, <2>2 DEF CloneInstall, StateYield, waits
    <3> QED
      BY ZenonT(60), <1>t, <2>1, <3>1 DEF Calm, Wakes
  <2>3. CASE CloneRollback(c)
    <3>1. /\ st' = [st EXCEPT ![cur[c]] = "Reaping"] /\ parent' = [parent EXCEPT ![cur[c]] = NoProc]
          /\ UNCHANGED wokenBy
      BY ZenonT(60), <2>3 DEF CloneRollback, waits
    <3> QED
      BY ZenonT(60), <1>t, <2>1, <3>1 DEF Calm, Wakes
  <2> QED
    BY ZenonT(60), <1>9, <2>2, <2>3
<1>10. CASE Wait4Collect(c) \/ ExitDrain(c) \/ Wait4Sleep(c) \/ BlockWait4(c) \/ Exit(c)
  BY ZenonT(60), <1>k, <1>10 DEF Wait4Collect, ExitDrain, ReapNext, Wait4Sleep, BlockWait4, Exit,
     waits
<1>11. CASE BlockCurrent(c)
  <2>0. cur[c] \in Proc /\ st[cur[c]] = "Running" /\ UNCHANGED <<parent, wokenBy>>
    BY ZenonT(60), <1>11, Known DEF BlockCurrent, At, waits
  <2>1. ASSUME NEW q \in NextReady(c, cur[c]), ReadyTake(q), Reserve(c, q) PROVE Calm
    BY ZenonT(60), <1>a, <2>0, <2>1 DEF ReadyTake
  <2>2. ASSUME UNCHANGED st PROVE Calm
    BY ZenonT(60), <1>k, <2>0, <2>2
  <2>3. ASSUME st' = [st EXCEPT ![cur[c]] = "Blocked"] PROVE Calm
    BY ZenonT(60), <1>t, <2>0, <2>3 DEF Calm, Wakes
  <2> QED
    BY ZenonT(60), <1>11, <2>1, <2>2, <2>3 DEF BlockCurrent
<1>12. CASE BlockCommit(c)
  <2>1. pc[c] = "blockReserved" /\ UNCHANGED <<parent, wokenBy>>
        /\ st' = [st EXCEPT ![cur[c]] = "Blocked", ![res[c]] = StateSettle(@)]
    BY ZenonT(60), <1>12 DEF BlockCommit, Goto, At, waits
  <2> QED
    BY ZenonT(60), <1>d, <2>1, Known DEF Reserving, Done
<1>13. ASSUME NEW a \in {"irqReserved", "returnReserved"}, ScheduleCommit(c, a) PROVE Calm
  <2>1. pc[c] = a /\ UNCHANGED <<parent, wokenBy>> /\ a \in Reserving \ Done
    BY ZenonT(60), <1>13 DEF ScheduleCommit, Goto, At, Reserving, Done, waits
  <2>2. st[cur[c]] = "Running"
    BY ZenonT(60), <2>1, Known
  <2>3. st' = [st EXCEPT ![cur[c]] = "Ready", ![res[c]] = StateSettle(@)]
    BY ZenonT(60), <1>13, <2>2 DEF ScheduleCommit, StateYield
  <2> QED
    BY ZenonT(60), <1>d, <2>1, <2>2, <2>3
<1>14. ASSUME NEW a, NEW b, Schedule(c, a, b) PROVE Calm
  BY ZenonT(60), <1>a, <1>14 DEF Schedule, ReadyTake, waits
<1>15. ASSUME NEW a \in {"irqReserved", "returnReserved"}, NEW b, ScheduleCancel(c, a, b) PROVE Calm
  BY ZenonT(60), <1>b, <1>15 DEF ScheduleCancel, Goto, At, Reserving, waits
<1>16. ASSUME NEW a \in {"irqReserved", "returnReserved"}, NEW b, ScheduleRollover(c, a, b) PROVE Calm
  <2>1. pc[c] = a /\ a \in Reserving /\ UNCHANGED <<parent, wokenBy>>
    BY ZenonT(60), <1>16 DEF ScheduleRollover, Goto, At, Reserving, waits
  <2>2. /\ cur[c] \in Proc /\ st[cur[c]] = "Running" /\ res[c] \in Proc /\ res[c] # cur[c]
        /\ IsRunning(res[c])
    BY ZenonT(60), <2>1, Known
  <2>3. /\ st'[cur[c]] \in {"Running", "Ready"} /\ st'[res[c]] = StateYield(st[res[c]])
        /\ \A p \in Proc \ {cur[c], res[c]} : st'[p] = st[p]
    BY ZenonT(60), <1>t, <1>16, <2>2 DEF ScheduleRollover
  <2> QED
    BY SMTT(60), <1>y, <2>1, <2>2, <2>3 DEF Calm, Wakes, IsRunning
<1>17. CASE Tick(c)
  BY ZenonT(60), <1>13, <1>14, <1>15, <1>16, <1>17 DEF Tick
<1>18. CASE SyscallReturn(c)
  <2>1. ASSUME \/ Core0LeaveExcluded(c)
               \/ UNCHANGED <<st, waits, parent, owner, places, cur, stk, res, reaps, halted>>
        PROVE  Calm
    BY ZenonT(60), <1>k, <2>1 DEF Core0LeaveExcluded, waits
  <2> QED
    BY ZenonT(60), <1>13, <1>14, <1>15, <1>16, <1>18, <2>1 DEF SyscallReturn
<1>19. CASE ReapTake(c)
  BY ZenonT(60), <1>k, <1>19 DEF ReapTake, waits
<1>20. CASE ReapRemove(c)
  <2>1. victim[c] \in Proc /\ st[victim[c]] \in {"Reaping", "Gone"}
    BY ZenonT(150), <1>20, Names DEF ReapRemove, At, IInv, Cores, PlaceAt, HeldAt
  <2> QED
    BY ZenonT(60), <1>t, <1>20, <2>1 DEF ReapRemove, Calm, Wakes
<1> QED
  BY ZenonT(60), <1>1, <1>2, <1>3, <1>4, <1>5, <1>6, <1>7, <1>8, <1>9, <1>10, <1>11, <1>12, <1>17,
     <1>18, <1>19, <1>20
  DEF KernelStep

\* A core claims a zombie only where it leaves a stack, waits or exits.
LEMMA PlainSteps ==
  ASSUME IInv, NEW c \in CPU,
         \/ KernelStep(c) \/ SecondaryStart(c)
         \/ StackInterruptDepart(c) \/ Syscall(c) \/ Migrate(c),
         ~ChildExit(c), ~(ReapTake(c) /\ st[victim[c]] = "Exited"),
         ~StackSwitchTake(c), ~StackIdleComplete(c), ~Wait4Collect(c), ~ExitDrain(c), ~ExitCommit(c)
  PROVE  Plain(c)
<1>t. pc \in [CPU -> PCs] /\ after \in [CPU -> {"idle", "user", "return", "exit"}]
  BY ZenonT(60) DEF IInv, TypeOK
<1>p. deferred[c] # NoProc => pc[c] \in {"resume", "leaveExit"}
  BY ZenonT(60) DEF IInv, Cores, PlaceAt
<1>k. ASSUME NEW a, NEW b, pc[c] = a, a \notin {"resume", "leaveExit"}, b \notin {"reap", "exitReservedReap"},
             pc' = [pc EXCEPT ![c] = b], UNCHANGED deferred
      PROVE  Plain(c)
  BY ZenonT(60), <1>t, <1>p, <1>k DEF Plain
<1>1. CASE SecondaryStart(c) \/ SecondaryCancel(c) \/ SecondaryCommit(c)
  BY ZenonT(60), <1>k, <1>1 DEF SecondaryStart, SecondaryCancel, SecondaryCommit, Goto, At, reaps
<1>2. CASE BlockCancel(c) \/ BlockCommit(c)
  BY ZenonT(60), <1>k, <1>2 DEF BlockCancel, BlockCommit, Goto, At, reaps
<1>3. CASE ExitCancel(c)
  <2>1. deferred' = deferred /\ pc' = [pc EXCEPT ![c] = "leaveExit"] /\ pc[c] \in {"exitReserved", "exitReservedReap"}
    BY ZenonT(60), <1>3 DEF ExitCancel, Goto, At, reaps
  <2> QED
    BY ZenonT(60), <1>k, <2>1
<1>4. CASE StackIdleBlocked(c)
  BY ZenonT(60), <1>t, <1>p, <1>4 DEF StackIdleBlocked, At, Halt, Leave, reaps, Plain
<1>5. CASE StackIdleYield(c)
  BY ZenonT(60), <1>t, <1>p, <1>5 DEF StackIdleYield, At, Halt, Leave, reaps, Plain
<1>6. CASE IrqReturn(c) \/ Syscall(c) \/ StackInterruptDepart(c)
  BY ZenonT(60), <1>k, <1>6 DEF IrqReturn, Syscall, StackInterruptDepart, Goto, At, reaps
<1>7. CASE Migrate(c) \/ SyscallDone(c) \/ AffinitySet(c)
  BY ZenonT(60), <1>k, <1>7 DEF Migrate, SyscallDone, AffinitySet, Goto, At, reaps
<1>8. CASE TickLeaveExcluded(c)
  BY ZenonT(60), <1>k, <1>8 DEF TickLeaveExcluded, Goto, At, reaps
<1>9. CASE CloneBegin(c) \/ CloneInstall(c) \/ CloneRollback(c)
  BY ZenonT(60), <1>k, <1>9 DEF CloneBegin, CloneInstall, CloneRollback, Goto, At, reaps
<1>10. CASE Wait4Sleep(c) \/ BlockWait4(c) \/ Exit(c)
  BY ZenonT(60), <1>k, <1>10 DEF Wait4Sleep, BlockWait4, Exit, Goto, At, reaps
<1>11. CASE BlockCurrent(c)
  BY ZenonT(60), <1>k, <1>11 DEF BlockCurrent, Goto, At, reaps
<1>12. ASSUME NEW a, NEW b, a \notin {"resume", "leaveExit"}, b \notin {"reap", "exitReservedReap"},
              \/ Schedule(c, a, b) \/ ScheduleCancel(c, a, b) \/ ScheduleRollover(c, a, b)
              \/ b = "resume" /\ ScheduleCommit(c, a)
       PROVE  Plain(c)
  BY ZenonT(60), <1>k, <1>12 DEF Schedule, ScheduleCancel, ScheduleRollover, ScheduleCommit, Goto,
     At,
     reaps
<1>13. CASE Tick(c)
  BY SMTT(60), <1>12, <1>13 DEF Tick
<1>14. CASE SyscallReturn(c)
  <2>1. ASSUME Core0LeaveExcluded(c) PROVE Plain(c)
    BY ZenonT(60), <1>k, <2>1 DEF Core0LeaveExcluded, Goto, At, reaps
  <2>2. ASSUME Goto(c, "return", "resume") \/ Goto(c, "returnStay", "resume"), UNCHANGED reaps PROVE Plain(c)
    BY ZenonT(60), <1>k, <2>2 DEF Goto, At, reaps
  <2> QED
    BY SMTT(60), <1>12, <1>14, <2>1, <2>2 DEF SyscallReturn
<1>15. CASE ReapTake(c) \/ ReapRemove(c)
  <2>1. pc' = [pc EXCEPT ![c] = after[c]] /\ UNCHANGED deferred /\ pc[c] \in {"reap", "remove"}
    BY ZenonT(60), <1>15 DEF ReapTake, ReapRemove, EndReap, At
  <2>2. after[c] \notin {"reap", "exitReservedReap"}
    BY ZenonT(60), <1>t
  <2> QED
    BY ZenonT(60), <1>k, <2>1, <2>2
<1> QED
  BY ZenonT(60), <1>1, <1>2, <1>3, <1>4, <1>5, <1>6, <1>7, <1>8, <1>9, <1>10, <1>11, <1>13, <1>14,
     <1>15 DEF KernelStep

\* A core's own claim after a step that takes nobody and wakes nobody.
LEMMA OwnClaims ==
  ASSUME IInv, NEW c \in CPU, ReapsAt(c), Calm,
         \/ KernelStep(c) \/ SecondaryStart(c)
         \/ StackInterruptDepart(c) \/ Syscall(c) \/ Migrate(c),
         ~ChildExit(c), ~(ReapTake(c) /\ st[victim[c]] = "Exited")
  PROVE  ReapsAt(c)'
<1>t. /\ pc \in [CPU -> PCs] /\ cur \in [CPU -> Proc \cup {NoProc}] /\ NoProc \notin Proc
      /\ deferred \in [CPU -> Proc \cup {NoProc}] /\ victim \in [CPU -> Proc \cup {NoProc}]
      /\ stk \in [CPU -> Proc \cup {NoProc}] /\ res \in [CPU -> Proc \cup {NoProc}]
  BY ZenonT(60), Names DEF IInv, TypeOK
<1>m. \A z : UNCHANGED <<st, parent>> /\ cur'[c] = cur[c] /\ Mine(c, z) => Mine(c, z)'
  BY ZenonT(60) DEF Mine
<1>h. ASSUME NEW w, Halt(w), pc[c] \notin {"reap", "exitReservedReap"} PROVE ReapsAt(c)'
  BY ZenonT(60), <1>h, <1>m DEF Halt, ReapsAt, reaps
<1>r. ASSUME NEW z, z = NoProc \/ Mine(c, z), UNCHANGED <<st, parent, cur>>, victim'[c] = z,
             deferred'[c] = NoProc, pc'[c] = "reap" => z # NoProc, pc'[c] # "exitReservedReap"
      PROVE  ReapsAt(c)'
  BY ZenonT(60), <1>r, <1>m DEF ReapsAt
<1>l. ASSUME NEW out \in Proc \cup {NoProc}, NEW next \in {"user", "idle"}, UNCHANGED <<st, parent, cur>>,
             ThenReap(c, OrphanDefer(c, out), next)
      PROVE  ReapsAt(c)'
  <2>1. OrphanDefer(c, out) = NoProc \/ Mine(c, OrphanDefer(c, out))
    BY ZenonT(60) DEF OrphanDefer, ParentCannotWait, Orphaned, Mine, ReapsAt
  <2> QED
    BY ZenonT(60), <1>t, <1>r, <1>l, <2>1 DEF ThenReap
<1>1. CASE StackSwitchTake(c)
  BY ZenonT(60), <1>t, <1>h, <1>l, <1>1 DEF StackSwitchTake, At
<1>2. CASE StackIdleComplete(c)
  BY ZenonT(60), <1>t, <1>h, <1>l, <1>2 DEF StackIdleComplete, Leave, At
<1>3. CASE Wait4Collect(c) \/ ExitDrain(c)
  <2>1. PICK from \in {"syscall", "exit"} :
              \E next, w : \E z \in Zombies(cur[c], w) : ReapNext(c, from, z, next)
    BY ZenonT(60), <1>3 DEF Wait4Collect, ExitDrain
  <2>2. PICK next, w : \E z \in Zombies(cur[c], w) : ReapNext(c, from, z, next)
    BY ZenonT(60), <2>1
  <2>3. PICK z \in Zombies(cur[c], w) : ReapNext(c, from, z, next)
    BY ZenonT(60), <2>2
  <2>4. Mine(c, z)
    BY ZenonT(60) DEF Zombies, Exits, Children, Mine
  <2>5. deferred[c] = NoProc
    BY ZenonT(60), <2>3 DEF ReapNext, Goto, At, IInv, Cores, PlaceAt
  <2>6. /\ UNCHANGED <<st, parent, cur>> /\ victim'[c] = z /\ deferred'[c] = NoProc /\ z \in Proc
        /\ pc'[c] = "reap"
    BY ZenonT(60), <1>t, <2>3, <2>5 DEF ReapNext, Goto, At, Zombies, Exits, Children
  <2> QED
    BY ZenonT(60), <1>t, <1>r, <2>4, <2>6
<1>4. CASE ExitCommit(c)
  <2>1. pc'[c] = "resume" /\ cur'[c] = res[c]
    BY ZenonT(60), <1>t, <1>4 DEF ExitCommit, Goto, At
  <2>2. parent' = parent
    BY ZenonT(60), <1>4 DEF ExitCommit
  <2>3. deferred'[c] # NoProc => pc[c] = "exitReservedReap" /\ deferred'[c] = cur[c]
    <3>1. pc[c] \in {"exitReserved", "exitReservedReap"} => deferred[c] = NoProc
      BY ZenonT(60), Known
    <3> QED
      BY ZenonT(60), <1>t, <1>4, <3>1 DEF ExitCommit, Goto, At
  <2> QED
    BY ZenonT(60), <2>1, <2>2, <2>3 DEF ReapsAt, Mine
<1>5. CASE Plain(c)
  BY ZenonT(60), <1>5 DEF Plain, ReapsAt
<1> QED
  BY ZenonT(60), <1>1, <1>2, <1>3, <1>4, <1>5, PlainSteps

\* kernel_process_child_exit, record by record: besides the process that exits,
\* one ready process is started and the sleeping parent is started or woken.
LEMMA ExitPointwise ==
  ASSUME IInv, NEW c \in CPU, ChildExit(c)
  PROVE  /\ pc[c] = "exit" /\ cur[c] \in Proc /\ st[cur[c]] = "Running" /\ st'[cur[c]] = "Exited"
         /\ deferred[c] = NoProc
         /\ \A r \in Proc \ {cur[c]} :
               \/ st'[r] = st[r]
               \/ IsReady(r) /\ st'[r] = StateStart(st[r])
               \/ /\ Woken(cur[c]) /\ r = parent[cur[c]] /\ st[r] = "Blocked"
                  /\ st'[r] = IF StartsParent(c, cur[c]) THEN "Running" ELSE "ReadyWait4"
<1> DEFINE p == cur[c]
           E == ExitStates(c, p)
<1>t. st \in [Proc -> States] /\ parent \in [Proc -> Proc \cup {NoProc}] /\ NoProc \notin Proc
  BY ZenonT(60), Names DEF IInv, TypeOK
<1>0. pc[c] = "exit" /\ p \in Proc /\ st[p] = "Running" /\ deferred[c] = NoProc
  BY ZenonT(60), Known DEF ChildExit, At
<1>   /\ DOMAIN E = Proc /\ E[p] = "Exited"
      /\ \A r \in Proc \ {p} : \/ E[r] = st[r] /\ (st[r] = "Blocked" => ~(Woken(p) /\ r = parent[p]))
                               \/ /\ Woken(p) /\ r = parent[p] /\ st[r] = "Blocked"
                                  /\ E[r] = IF StartsParent(c, p) THEN "Running" ELSE "ReadyWait4"
  BY ZenonT(60), <1>0 DEF ExitStates, Woken
<1> HIDE DEF E
<1>2. CASE st' = E
  BY ZenonT(60), <1>0, <1>2
<1>3. CASE \E q \in Successors(c, p) : st' = [E EXCEPT ![q] = StateStart(@)]
  <2>1. PICK q \in Successors(c, p) : st' = [E EXCEPT ![q] = StateStart(@)]
    BY ZenonT(60), <1>3
  <2>2. (StartsParent(c, p) /\ q = parent[p]) \/ IsReady(q)
    BY ZenonT(60) DEF Successors, ParentNext, ReadyTake
  <2>3. StartsParent(c, p) /\ q = parent[p] => Woken(p) /\ st[q] = "Blocked" /\ q \in Proc
    BY SMTT(60), <1>t, <1>0 DEF StartsParent, Woken
  <2>4. q # p
    BY ZenonT(60), <1>0, <2>2, <2>3 DEF IsReady
  <2>5. \A r \in Proc \ {q} : st'[r] = E[r]
    BY ZenonT(60), <2>1
  <2>6. q \in Proc => st'[q] = StateStart(E[q])
    BY ZenonT(60), <2>1
  <2>7. q \in Proc /\ StartsParent(c, p) /\ q = parent[p] => st'[q] = "Running"
    BY ZenonT(60), <2>3, <2>4, <2>6 DEF StateStart
  <2>8. q \in Proc /\ IsReady(q) => st'[q] = StateStart(st[q])
    BY ZenonT(60), <2>4, <2>6 DEF IsReady
  <2> QED
    BY ZenonT(60), <1>0, <2>2, <2>3, <2>4, <2>5, <2>7, <2>8
<1> QED
  BY ZenonT(60), <1>2, <1>3 DEF ChildExit, E

\* A parent left ready by its child's exit finds the child.
LEMMA ExitClaims ==
  ASSUME IInv, WakeHasChild, NEW c \in CPU, ChildExit(c), Ignoring = {}
  PROVE  Fixed /\ WakeHasChild' /\ ReapsAt(c)'
<1> DEFINE p == cur[c]
<1>t. /\ parent \in [Proc -> Proc \cup {NoProc}] /\ NoProc \notin Proc /\ pc \in [CPU -> PCs]
      /\ cur \in [CPU -> Proc \cup {NoProc}] /\ res \in [CPU -> Proc \cup {NoProc}]
      /\ deferred \in [CPU -> Proc \cup {NoProc}]
  BY ZenonT(60), Names DEF IInv, TypeOK
<1>0. pc[c] = "exit" /\ p \in Proc /\ st[p] = "Running" /\ st'[p] = "Exited" /\ deferred[c] = NoProc
  BY ZenonT(60), ExitPointwise
<1>1. \A r \in Proc \ {p} :
         \/ st'[r] = st[r]
         \/ IsReady(r) /\ st'[r] = StateStart(st[r])
         \/ /\ Woken(p) /\ r = parent[p] /\ st[r] = "Blocked"
            /\ st'[r] = IF StartsParent(c, p) THEN "Running" ELSE "ReadyWait4"
  BY ZenonT(60), ExitPointwise
<1>2. parent' = parent
  BY ZenonT(60) DEF ChildExit
<1>3. \A r \in Proc : wokenBy'[r] = IF Woken(p) /\ ~StartsParent(c, p) /\ r = parent[p] THEN p ELSE wokenBy[r]
  BY ZenonT(60) DEF ChildExit
<1>4. \A r \in Proc \ {p} : st[r] \in {"Exited", "Reaping", "Gone"} => st'[r] = st[r]
  BY ZenonT(60), <1>1 DEF IsReady
<1>5. \A r \in Proc \ {p} : st'[r] = "Exited" => st[r] = "Exited"
  BY ZenonT(60), <1>1 DEF StateStart
<1>6. Fixed
  BY ZenonT(60), <1>0, <1>2, <1>4, <1>5 DEF Fixed
<1>7. ASSUME NEW r \in Proc, st'[r] \in Wakes PROVE wokenBy'[r] \in Exits(r, wokenBy[r])'
  <2>0. r # p
    BY ZenonT(60), <1>0, <1>7 DEF Wakes
  <2>1. CASE st[r] \in Wakes
    <3>1. wokenBy[r] \in Proc /\ st[wokenBy[r]] = "Exited" /\ parent[wokenBy[r]] = r
      BY ZenonT(60), <2>1 DEF WakeHasChild, Wakes, Exits, Children
    <3>2. st'[wokenBy[r]] = "Exited"
      BY ZenonT(60), <1>0, <1>4, <3>1
    <3>3. wokenBy'[r] = wokenBy[r]
      BY ZenonT(60), <1>3, <2>1 DEF Woken, Wakes
    <3> QED
      BY ZenonT(60), <1>2, <3>1, <3>2, <3>3 DEF Exits, Children, Wanted
  <2>2. CASE st[r] \notin Wakes
    <3>1. Woken(p) /\ r = parent[p] /\ ~StartsParent(c, p)
      BY ZenonT(60), <1>1, <1>7, <2>0, <2>2 DEF IsReady, StateStart, Wakes
    <3>2. wokenBy'[r] = p
      BY ZenonT(60), <1>3, <3>1
    <3> QED
      BY ZenonT(60), <1>0, <1>2, <3>1, <3>2 DEF Exits, Children, Wanted
  <2> QED
    BY ZenonT(60), <2>1, <2>2
<1>8. ~AutoReap(p)
  BY ZenonT(60) DEF AutoReap
<1>9. ReapsAt(c)'
  <2>1. CASE \E q \in Successors(c, p) :
              /\ res' = [res EXCEPT ![c] = q]
              /\ pc' = [pc EXCEPT ![c] = IF StartsParent(c, p) \/ AutoReap(p)
                                         THEN "exitReservedReap" ELSE "exitReserved"]
              /\ UNCHANGED <<cur, deferred, halted>>
    <3>1. PICK q \in Successors(c, p) :
              /\ res' = [res EXCEPT ![c] = q]
              /\ pc' = [pc EXCEPT ![c] = IF StartsParent(c, p) \/ AutoReap(p)
                                         THEN "exitReservedReap" ELSE "exitReserved"]
              /\ UNCHANGED <<cur, deferred, halted>>
      BY ZenonT(60), <2>1
    <3>2. StartsParent(c, p) => q = parent[p]
      BY ZenonT(60) DEF Successors, ParentNext
    <3> QED
      BY ZenonT(60), <1>t, <1>0, <1>2, <1>8, <3>1, <3>2 DEF ReapsAt
  <2>2. CASE /\ pc' = [pc EXCEPT ![c] = "leaveExit"]
             /\ deferred' = [deferred EXCEPT ![c] = IF AutoReap(p) THEN p ELSE @]
    BY ZenonT(60), <1>t, <1>0, <1>8, <2>2 DEF ReapsAt
  <2> QED
    BY ZenonT(60), <2>1, <2>2 DEF ChildExit
<1>10. WakeHasChild'
  BY ZenonT(60), <1>7 DEF WakeHasChild, Wakes
<1> QED
  BY ZenonT(60), <1>6, <1>9, <1>10

\* kernel_process_reap_zombie: the zombie taken is named by nobody's wake.
LEMMA TakeClaims ==
  ASSUME IInv, WakeHasChild, NEW c \in CPU, ReapsAt(c), ReapTake(c), st[victim[c]] = "Exited"
  PROVE  Fixed /\ WakeHasChild' /\ ReapsAt(c)'
<1> DEFINE v == victim[c]
<1>t. /\ st \in [Proc -> States] /\ parent \in [Proc -> Proc \cup {NoProc}] /\ NoProc \notin Proc
      /\ pc \in [CPU -> PCs] /\ cur \in [CPU -> Proc \cup {NoProc}]
      /\ victim \in [CPU -> Proc \cup {NoProc}]
  BY ZenonT(60), Names DEF IInv, TypeOK
<1>0. pc[c] = "reap" /\ PlaceAt(c) /\ HeldAt(c)
  BY ZenonT(60) DEF ReapTake, At, IInv, Cores
<1>1. v \in Proc /\ v # NoProc /\ deferred[c] = NoProc /\ (cur[c] # NoProc => st[cur[c]] = "Running")
  BY ZenonT(60), <1>t, <1>0 DEF PlaceAt, HeldAt, Done
<1>2. /\ st' = [st EXCEPT ![v] = "Reaping"] /\ pc' = [pc EXCEPT ![c] = "remove"] /\ UNCHANGED deferred
      /\ parent' = [q \in Proc |-> IF v \in {q, parent[q]} THEN NoProc ELSE parent[q]]
      /\ UNCHANGED wokenBy
  BY ZenonT(60) DEF ReapTake, waits
<1>3. st'[v] = "Reaping" /\ \A r \in Proc \ {v} : st'[r] = st[r]
  BY ZenonT(60), <1>t, <1>1, <1>2
<1>4. \A r \in Proc \ {v} : parent'[r] = IF parent[r] = v THEN NoProc ELSE parent[r]
  BY ZenonT(60), <1>2
<1>5. Fixed
  BY ZenonT(60), <1>1, <1>3, <1>4 DEF Fixed
<1>6. ASSUME NEW r \in Proc, st'[r] \in Wakes PROVE wokenBy'[r] \in Exits(r, wokenBy[r])'
  <2>1. r # v /\ st[r] \in Wakes
    BY ZenonT(60), <1>3, <1>6 DEF Wakes
  <2>2. wokenBy[r] \in Proc /\ st[wokenBy[r]] = "Exited" /\ parent[wokenBy[r]] = r
    BY ZenonT(60), <2>1 DEF WakeHasChild, Wakes, Exits, Children
  <2>3. wokenBy[r] # v
    BY ZenonT(60), <1>t, <1>0, <1>1, <2>1, <2>2 DEF ReapsAt, Mine, Wakes
  <2>4. st'[wokenBy[r]] = "Exited" /\ parent'[wokenBy[r]] = r
    BY ZenonT(60), <1>3, <1>4, <2>1, <2>2, <2>3
  <2> QED
    BY ZenonT(60), <1>2, <2>2, <2>4 DEF Exits, Children, Wanted
<1>7. ReapsAt(c)'
  BY ZenonT(60), <1>t, <1>1, <1>2 DEF ReapsAt
<1>8. WakeHasChild'
  BY ZenonT(60), <1>6 DEF WakeHasChild, Wakes
<1> QED
  BY ZenonT(60), <1>5, <1>7, <1>8

\* Every step keeps the claims of the reapers, when no SIGCHLD is ignored.
LEMMA ClaimsKept ==
  ASSUME WInv, [Next]_vars, "return" \notin Rollover, Ignoring = {}
  PROVE  WInv'
<1>   IInv /\ IInv' /\ WakeHasChild /\ parent \in [Proc -> Proc \cup {NoProc}] /\ \A c \in CPU : ReapsAt(c)
  BY ZenonT(60), StepKept DEF WInv, IInv, TypeOK
<1>1. CASE UNCHANGED vars
  <2>1. UNCHANGED <<st, wokenBy, parent, pc, cur, res, deferred, victim>>
    BY ZenonT(60), <1>1 DEF vars, waits, reaps
  <2>2. \A c \in CPU : ReapsAt(c)'
    BY ZenonT(60), <2>1 DEF ReapsAt, Mine
  <2>3. WakeHasChild'
    BY ZenonT(60), <2>1 DEF WakeHasChild, Exits, Children, Wanted
  <2> QED
    BY ZenonT(60), <2>2, <2>3 DEF WInv
<1>2. CASE Next
  <2>1. PICK c \in CPU : \/ KernelStep(c) \/ SecondaryStart(c)
                         \/ StackInterruptDepart(c) \/ Syscall(c) \/ Migrate(c)
    BY ZenonT(60), <1>2 DEF Next
  <2>2. Fixed /\ WakeHasChild' /\ ReapsAt(c)'
    <3>1. CASE ChildExit(c)
      BY ZenonT(60), <3>1, ExitClaims
    <3>2. CASE ReapTake(c) /\ st[victim[c]] = "Exited"
      BY ZenonT(60), <3>2, TakeClaims
    <3>3. CASE ~ChildExit(c) /\ ~(ReapTake(c) /\ st[victim[c]] = "Exited")
      <4>1. Calm
        BY ZenonT(60), <2>1, <3>3, CalmRecords
      <4> QED
        BY ZenonT(60), <2>1, <3>3, <4>1, CalmFixed, CalmWakes, OwnClaims
    <3> QED
      BY ZenonT(60), <3>1, <3>2, <3>3
  <2>3. Others(c)
    BY ZenonT(60), <2>1, OthersAlone DEF IInv
  <2>4. \A d \in CPU \ {c} : ReapsAt(d)'
    BY ZenonT(60), <2>2, <2>3, OtherClaims
  <2> QED
    BY ZenonT(60), <2>2, <2>4 DEF WInv
<1> QED
  BY ZenonT(60), <1>1, <1>2

\* kernel_process_leave_parent_ready: as long as nobody ignores SIGCHLD, a
\* parent left ready with its wait4 rewound finds the child its wake names.
THEOREM WakesHaveChild ==
  ASSUME "return" \notin Rollover, Ignoring = {}
  PROVE  Spec => []WakeHasChild
<1>1. Init => WInv
  <2> SUFFICES ASSUME Init PROVE WInv
    BY ZenonT(60)
  <2>1. \A c \in CPU : ReapsAt(c)
    BY ZenonT(60) DEF Init, ReapsAt
  <2>2. WakeHasChild
    BY ZenonT(60) DEF Init, WakeHasChild
  <2> QED
    BY ZenonT(60), <2>1, <2>2, InitInv DEF WInv
<1>2. WInv /\ [Next]_vars => WInv'
  BY ZenonT(60), ClaimsKept
<1>3. WInv => WakeHasChild
  BY ZenonT(60) DEF WInv
<1> QED
  BY <1>1, <1>2, <1>3, PTL DEF Spec

INSTANCE FiniteSetTheorems

\* A running process is some one core's: neither lost between a yield and a
\* start, nor run by two.
THEOREM OneRunnerEach ==
  ASSUME "return" \notin Rollover
  PROVE  Spec => []OneRunner
<1>1. IInv => OneRunner
  <2> SUFFICES ASSUME IInv PROVE OneRunner
    BY ZenonT(60)
  <2>1. ASSUME NEW p \in Proc, IsRunning(p) PROVE Cardinality(Runners(p)) = 1
    <3>1. \A c \in CPU : pc[c] = "clone" => parent[cur[c]] = stk[c]
      BY ZenonT(60) DEF IInv, Cores, PlaceAt, Where
    <3>2. \A c \in CPU : c \in Runners(p) <=> Holds(c, p)
      BY ZenonT(60), <3>1 DEF Runners, Holds
    <3>3. PICK c \in CPU : Holds(c, p)
      BY ZenonT(60), <2>1 DEF IInv, Kept
    <3>4. Runners(p) = {c}
      BY ZenonT(60), <3>2, <3>3 DEF IInv, Alone, Runners
    <3> QED
      BY ZenonT(60), <3>4, FS_Singleton
  <2>2. \A c \in CPU : res[c] # NoProc => IsRunning(res[c])
    BY ZenonT(60) DEF IInv, Cores, HeldAt
  <2> QED
    BY ZenonT(60), <2>1, <2>2 DEF OneRunner
<1> QED
  BY <1>1, Invariance, PTL
=============================================================================
