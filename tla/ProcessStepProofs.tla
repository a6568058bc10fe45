-------------------------- MODULE ProcessStepProofs --------------------------
(***************************************************************************)
(* The inductive invariant of Process, and the kinds of step that keep it, *)
(* for any number of cores and of records.                                 *)
(*                                                                         *)
(* IInv is the inductive invariant: which records a core names at each     *)
(* place of its code (PlaceAt), the state those records are in (HeldAt),   *)
(* who owns which stack (OwnsAt, Owners), that a record is held by one     *)
(* core at most and a running one by one (Alone, Kept), and the pins to    *)
(* core 0 (Pinned).  The forty actions are few kinds of step: a core goes  *)
(* on, takes or gives back a reservation, hands over to it, releases a     *)
(* stack, lets a process go, settles on a stack, reaps.  Each kind keeps   *)
(* the invariant (the lemmas named ...Kept); ProcessProofs shows of each   *)
(* action which kind it is.                                                *)
(***************************************************************************)
EXTENDS Process, TLAPS

(***************************************************************************)
(* The inductive invariant.                                                *)
(***************************************************************************)

\* Where the core's code stands, or goes on after the reap it is in.
Where(c) == IF pc[c] \in {"reap", "remove"} THEN after[c] ELSE pc[c]

\* Without a current process; on the current process's own stack; with a
\* reservation; with a current process that has exited.
Bare == {"idle", "claimed", "leaveBlocked", "leaveYield"}
OnOwn == {"user", "syscall", "look", "block", "blockReserved", "exit", "exitReserved",
          "exitReservedReap"}
Reserving == {"claimed", "irqReserved", "returnReserved", "blockReserved", "exitReserved",
              "exitReservedReap"}
Done == {"exitReserved", "exitReservedReap", "leaveExit"}

\* Which records a core names, at each place of its code.
PlaceAt(c) ==
    /\ Where(c) \in Bare => cur[c] = NoProc
    /\ Where(c) \notin Bare \cup {"leaveExit"} => cur[c] # NoProc
    /\ Where(c) \in {"idle", "claimed", "irq", "irqReserved"} => stk[c] = NoProc
    /\ Where(c) \in {"leaveBlocked", "leaveYield", "leaveExit"} => stk[c] # NoProc
    /\ Where(c) \in OnOwn => cur[c] = stk[c]
    /\ Where(c) = "leaveExit" => cur[c] \in {NoProc, stk[c]}
    /\ Where(c) = "irqStay" => stk[c] \in {NoProc, cur[c]}
    /\ Where(c) = "clone" => stk[c] # NoProc /\ stk[c] = parent[cur[c]]
    /\ res[c] # NoProc <=> pc[c] \in Reserving
    /\ res[c] # NoProc => res[c] # cur[c]
    /\ victim[c] # NoProc <=> pc[c] \in {"reap", "remove"}
    /\ deferred[c] # NoProc => deferred[c] = stk[c] /\ pc[c] \in {"resume", "leaveExit"}

\* The state of the records it names.
HeldAt(c) ==
    /\ cur[c] # NoProc =>
          st[cur[c]] = IF pc[c] = "clone" THEN "Constructing"
                       ELSE IF pc[c] \in Done THEN "Exited" ELSE "Running"
    /\ res[c] # NoProc => IsRunning(res[c]) /\ owner[res[c]] = NoCPU
    /\ pc[c] \in {"leaveYield", "clone"} => st[stk[c]] = "Running"
    /\ pc[c] = "leaveBlocked" => st[stk[c]] \in {"Blocked", "Ready", "ReadyWait4"}
    /\ pc[c] = "leaveExit" => st[stk[c]] = "Exited"
    /\ deferred[c] # NoProc => st[deferred[c]] = "Exited"
    /\ victim[c] # NoProc => st[victim[c]] \in {"Exited", "Reaping", "Gone"}
    /\ pc[c] = "remove" => st[victim[c]] # "Exited"

\* A core owns the stack it stands on, and no other.
OwnsAt(c) ==
    /\ stk[c] # NoProc => owner[stk[c]] = c
    /\ cur[c] # NoProc => owner[cur[c]] \in {NoCPU, c}
    /\ victim[c] # NoProc => owner[victim[c]] = NoCPU

Cores == \A c \in CPU : PlaceAt(c) /\ HeldAt(c) /\ OwnsAt(c)

\* A stack's owner stands on it.  A record not yet installed has no child.
Owners ==
    \A p \in Proc :
        /\ owner[p] # NoCPU => stk[owner[p]] = p
        /\ st[p] \in {"Free", "Constructing", "Reaping", "Gone"} => owner[p] = NoCPU
        /\ parent[p] # NoProc => st[parent[p]] \notin {"Free", "Constructing"}

\* The core holds p as a running process.
Holds(c, p) ==
    \/ p = cur[c] \/ p = res[c]
    \/ pc[c] \in {"leaveYield", "clone"} /\ p = stk[c]

\* A record is held by one core at most, and a running one by one.
Alone == \A p \in Proc : \A c, d \in CPU : Holds(c, p) /\ Holds(d, p) => c = d
Kept == \A p \in Proc : IsRunning(p) => \E c \in CPU : Holds(c, p)

\* A call handed to core 0 is held by no other core.
Pinned ==
    /\ \A p \in core0 : st[p] # "Free"
    /\ \A c \in CPU \ {Boot} : \A p \in core0 :
          p # cur[c] /\ p # res[c] /\ (pc[c] = "clone" => p # stk[c])

IInv == /\ TypeOK /\ Cores /\ Owners /\ Alone /\ Kept /\ Pinned
        /\ NoLostWait /\ NoZombieForgotten /\ NoFailStop

-----------------------------------------------------------------------------
(* What the proofs keep needing. *)

\* The core and the records that a step of core c leaves alone.
Others(c) ==
    \A d \in CPU \ {c} :
        /\ pc'[d] = pc[d] /\ cur'[d] = cur[d] /\ stk'[d] = stk[d] /\ res'[d] = res[d]
        /\ deferred'[d] = deferred[d] /\ victim'[d] = victim[d] /\ after'[d] = after[d]

\* What a core names is a record, unless it names none.
LEMMA Names ==
  ASSUME IInv
  PROVE  /\ NoProc \notin Proc /\ NoCPU \notin CPU
         /\ \A c \in CPU : /\ cur[c] # NoProc => cur[c] \in Proc
                           /\ stk[c] # NoProc => stk[c] \in Proc
                           /\ res[c] # NoProc => res[c] \in Proc
                           /\ deferred[c] # NoProc => deferred[c] \in Proc
                           /\ victim[c] # NoProc => victim[c] \in Proc
BY ZenonT(60), ProcessAssumption DEF IInv, TypeOK

\* A record that is free, ready or asleep is held by nobody.
LEMMA Unheld ==
  ASSUME IInv, NEW p \in Proc, st[p] \in {"Free", "Ready", "ReadyWait4", "Blocked", "Reaping", "Gone"},
         NEW c \in CPU
  PROVE  ~Holds(c, p)
BY ZenonT(60), Names DEF IInv, Cores, HeldAt, Holds, IsRunning

\* One holder: a step of one core that takes only what nobody holds.
LEMMA AloneKept ==
  ASSUME Alone, NEW c \in CPU, Others(c),
         \A p \in Proc : Holds(c, p)' => Holds(c, p) \/ \A d \in CPU : ~Holds(d, p)
  PROVE  Alone'
<1> SUFFICES ASSUME NEW p \in Proc, NEW a \in CPU, NEW b \in CPU, Holds(a, p)', Holds(b, p)'
             PROVE  a = b
  BY ZenonT(60) DEF Alone
<1>1. \A d \in CPU \ {c} : Holds(d, p)' <=> Holds(d, p)
  BY ZenonT(60) DEF Others, Holds
<1> QED
  BY ZenonT(60), <1>1 DEF Alone

\* Some holder: a step that drops only what it stops running.
LEMMA KeptKept ==
  ASSUME Kept, NEW c \in CPU, Others(c),
         \A p \in Proc : IsRunning(p)' => Holds(c, p)' \/ (IsRunning(p) /\ ~Holds(c, p))
  PROVE  Kept'
<1> SUFFICES ASSUME NEW p \in Proc, IsRunning(p)'
             PROVE  \E d \in CPU : Holds(d, p)'
  BY ZenonT(60) DEF Kept
<1>1. CASE Holds(c, p)'
  BY ZenonT(60), <1>1
<1>2. CASE IsRunning(p) /\ ~Holds(c, p)
  <2>1. PICK d \in CPU : Holds(d, p)
    BY ZenonT(60), <1>2 DEF Kept
  <2>2. d # c
    BY ZenonT(60), <1>2, <2>1
  <2> QED
    BY ZenonT(60), <2>1, <2>2 DEF Others, Holds
<1> QED
  BY ZenonT(60), <1>1, <1>2

\* What a step of core c may change of the records: the state of those it
\* holds, of those that nobody runs or stands on, and of sleepers it wakes; the
\* owner of the stacks it takes and leaves; the parent of those that nobody is
\* cloning.
Changes(c) ==
    /\ Others(c)
    /\ \A p \in Proc : st'[p] # st[p] =>
          \/ Holds(c, p) /\ st[p] # "Exited"
          \/ st[p] \in {"Free", "Ready", "ReadyWait4", "Blocked"} /\ owner[p] = NoCPU
          \/ st[p] = "Blocked" /\ st'[p] = "ReadyWait4"
          \/ st[p] \in {"Exited", "Reaping"} /\ st'[p] \in {"Reaping", "Gone"} /\ owner[p] = NoCPU
    /\ \A p \in Proc : owner'[p] # owner[p] =>
          \/ Holds(c, p) /\ IsRunning(p)
          \/ owner[p] = c /\ owner'[p] = NoCPU
    /\ \A p \in Proc : parent'[p] # parent[p] =>
          \/ Holds(c, p) \/ st[p] \in {"Free", "Exited"}
          \/ parent[p] # NoProc /\ st[parent[p]] = "Exited"

\* Such a step leaves every other core as it was.
LEMMA OtherCores ==
  ASSUME IInv, NEW c \in CPU, Changes(c), NEW d \in CPU \ {c}
  PROVE  PlaceAt(d)' /\ HeldAt(d)' /\ OwnsAt(d)'
<1>0. /\ pc'[d] = pc[d] /\ cur'[d] = cur[d] /\ stk'[d] = stk[d] /\ res'[d] = res[d]
      /\ deferred'[d] = deferred[d] /\ victim'[d] = victim[d] /\ after'[d] = after[d]
  BY ZenonT(60) DEF Changes, Others
<1>1. PlaceAt(d) /\ HeldAt(d) /\ OwnsAt(d) /\ PlaceAt(c) /\ HeldAt(c) /\ OwnsAt(c)
  BY ZenonT(60) DEF IInv, Cores
<1>2. ASSUME NEW p \in Proc, Holds(d, p) PROVE ~Holds(c, p) /\ p # NoProc
  BY ZenonT(60), <1>2, Names DEF IInv, Alone
<1>3. \A p \in {cur[d], res[d]} : p # NoProc => st'[p] = st[p] /\ owner'[p] = owner[p]
  <2> SUFFICES ASSUME NEW p \in {cur[d], res[d]}, p # NoProc
               PROVE  st'[p] = st[p] /\ owner'[p] = owner[p]
    BY ZenonT(60)
  <2>1. p \in Proc /\ ~Holds(c, p)
    BY ZenonT(60), <1>2, Names DEF Holds
  <2>2. st[p] \in {"Constructing", "Running", "Resuming", "Exited"}
    BY SMTT(60), <1>1 DEF HeldAt, IsRunning
  <2>3. owner[p] \in {NoCPU, d} /\ (st[p] = "Exited" => owner[p] = d)
    BY SMTT(60), <1>1 DEF HeldAt, OwnsAt, IsRunning, PlaceAt, Where, Done, OnOwn
  <2> QED
    BY SMTT(60), <2>1, <2>2, <2>3, Names DEF Changes
<1>4. stk[d] # NoProc =>
        /\ owner'[stk[d]] = d
        /\ \/ st'[stk[d]] = st[stk[d]]
           \/ st[stk[d]] = "Blocked" /\ st'[stk[d]] = "ReadyWait4"
  <2> SUFFICES ASSUME NEW p, p = stk[d], p # NoProc
               PROVE  /\ owner'[p] = d
                      /\ st'[p] = st[p] \/ (st[p] = "Blocked" /\ st'[p] = "ReadyWait4")
    BY ZenonT(60)
  <2>1. p \in Proc /\ owner[p] = d /\ d # NoCPU
    BY ZenonT(60), <1>1, Names DEF OwnsAt
  <2>2. ~Holds(c, p)
    BY ZenonT(60), <1>1, <2>1, Names DEF Holds, OwnsAt, HeldAt
  <2> QED
    BY ZenonT(60), <2>1, <2>2 DEF Changes
<1>5. victim[d] # NoProc =>
        /\ owner'[victim[d]] = NoCPU
        /\ st'[victim[d]] = st[victim[d]] \/ st'[victim[d]] \in {"Reaping", "Gone"}
  <2> SUFFICES ASSUME NEW p, p = victim[d], p # NoProc
               PROVE  owner'[p] = NoCPU /\ (st'[p] = st[p] \/ st'[p] \in {"Reaping", "Gone"})
    BY ZenonT(60)
  <2>1. p \in Proc /\ owner[p] = NoCPU /\ st[p] \in {"Exited", "Reaping", "Gone"}
    BY ZenonT(60), <1>1, Names DEF OwnsAt, HeldAt
  <2>2. Holds(c, p) => st[p] = "Exited"
    BY ZenonT(60), <2>1, Unheld
  <2> QED
    BY ZenonT(60), <2>1, <2>2, Names DEF Changes, IsRunning
<1>6. pc[d] = "clone" => parent'[cur[d]] = parent[cur[d]]
  <2> SUFFICES ASSUME NEW p, p = cur[d], pc[d] = "clone" PROVE parent'[p] = parent[p]
    BY ZenonT(60)
  <2>1. p \in Proc /\ st[p] = "Constructing" /\ st[parent[p]] = "Running"
    BY ZenonT(60), <1>1, Names DEF PlaceAt, HeldAt, Where, Bare
  <2>2. ~Holds(c, p)
    BY ZenonT(60), <1>2, <2>1 DEF Holds
  <2> QED
    BY ZenonT(60), <2>1, <2>2 DEF Changes
<1>7. PlaceAt(d)'
  <2>1. Where(d)' = Where(d) /\ (Where(d) = "clone" => pc[d] = "clone")
    BY ZenonT(60), <1>0 DEF Where, IInv, TypeOK
  <2> QED
    BY ZenonT(60), <1>0, <1>1, <1>6, <2>1 DEF PlaceAt
<1>8. HeldAt(d)'
  BY SMTT(60), <1>0, <1>1, <1>3, <1>4, <1>5 DEF HeldAt, IsRunning, PlaceAt, Where
<1>9. OwnsAt(d)'
  BY ZenonT(60), <1>0, <1>1, <1>3, <1>4, <1>5 DEF OwnsAt
<1> QED
  BY ZenonT(60), <1>7, <1>8, <1>9

\* Nobody sleeps beside an exited child, if nobody exited, and who fell
\* asleep looked.
LEMMA WaitsKept ==
  ASSUME NoLostWait, UNCHANGED parent,
         \A p \in Proc : st'[p] = "Blocked" =>
             waitFor'[p] = waitFor[p] /\ (st[p] = "Blocked" \/ Exits(p, waitFor[p]) = {}),
         \A p \in Proc : st'[p] = "Exited" => st[p] = "Exited"
  PROVE  NoLostWait'
BY ZenonT(60) DEF NoLostWait, Exits, Children, Wanted

\* No zombie is forgotten, if none appeared, no parent went, and none was
\* dropped.
LEMMA ZombiesKept ==
  ASSUME NoZombieForgotten, UNCHANGED parent, parent \in [Proc -> Proc \cup {NoProc}],
         \A p \in Proc : st'[p] \in {"Exited", "Reaping"} => st[p] \in {"Exited", "Reaping"},
         \A p \in Proc : st'[p] = "Exited" => st[p] = "Exited",
         \A p \in Proc : st'[p] = "Exited" /\ owner'[p] = NoCPU => owner[p] = NoCPU,
         \A c \in CPU : \A p \in Proc : p \in {deferred[c], victim[c]} =>
                                            p \in {deferred[c], victim[c]}'
  PROVE  NoZombieForgotten'
<1> SUFFICES ASSUME NEW p \in Proc, st'[p] = "Exited", owner'[p] = NoCPU, ParentCannotWait(p)'
             PROVE  \E c \in CPU : p \in {deferred[c], victim[c]}'
  BY ZenonT(60) DEF NoZombieForgotten
<1>1. ParentCannotWait(p)
  BY ZenonT(60) DEF ParentCannotWait, Orphaned
<1>2. PICK c \in CPU : p \in {deferred[c], victim[c]}
  BY ZenonT(60), <1>1 DEF NoZombieForgotten
<1> QED
  BY ZenonT(60), <1>2

\* The invariant, from what one core's step does.
LEMMA Assembled ==
  ASSUME IInv, TypeOK', NEW c \in CPU, Changes(c), PlaceAt(c)', HeldAt(c)', OwnsAt(c)', Owners',
         \A p \in Proc : Holds(c, p)' => Holds(c, p) \/ \A d \in CPU : ~Holds(d, p),
         \A p \in Proc : IsRunning(p)' => Holds(c, p)' \/ (IsRunning(p) /\ ~Holds(c, p)),
         Pinned', NoLostWait', NoZombieForgotten', NoFailStop'
  PROVE  IInv'
<1>1. Cores'
  BY ZenonT(60), OtherCores DEF Cores
<1>2. Alone' /\ Kept'
  BY ZenonT(60), AloneKept, KeptKept DEF IInv, Changes
<1> QED
  BY ZenonT(60), <1>1, <1>2 DEF IInv

-----------------------------------------------------------------------------
(* The kinds of steps a core takes.  Each keeps the invariant. *)

Goes == {<<"irq", "resume">>, <<"irqStay", "resume">>, <<"user", "syscall">>, <<"syscall", "return">>,
         <<"return", "resume">>, <<"returnStay", "resume">>, <<"syscall", "look">>,
         <<"look", "resume">>, <<"look", "block">>, <<"block", "resume">>, <<"syscall", "exit">>}

\* The core's code goes on: nothing changes but its wait4 arguments, masks, and
\* pins given up.
Go(c, from, to) ==
    /\ pc[c] = from /\ pc' = [pc EXCEPT ![c] = to]
    /\ core0' \subseteq core0
    /\ \A p \in Proc \ {cur[c]} : waitFor'[p] = waitFor[p]
    /\ UNCHANGED <<st, parent, owner, cur, stk, res, reaps, halted>>

\* Entering a call, returning, looking before wait4 sleeps.
LEMMA GoKept ==
  ASSUME IInv, TypeOK', NEW c \in CPU, NEW x \in Goes, Go(c, x[1], x[2])
  PROVE  IInv'
<1>   /\ pc[c] = x[1] /\ pc'[c] = x[2] /\ core0' \subseteq core0
      /\ UNCHANGED <<st, parent, owner, cur, stk, res, deferred, victim, after, halted>>
      /\ \A d \in CPU \ {c} : pc'[d] = pc[d]
      /\ parent \in [Proc -> Proc \cup {NoProc}]
  BY ZenonT(60) DEF Go, IInv, TypeOK, reaps
<1>1. Changes(c)
  BY ZenonT(60) DEF Changes, Others
<1>2. PlaceAt(c)'
  BY SMTT(60) DEF IInv, Cores, PlaceAt, Where, Goes, Bare, OnOwn, Reserving
<1>3. HeldAt(c)' /\ OwnsAt(c)'
  BY SMTT(60) DEF IInv, Cores, HeldAt, OwnsAt, Goes, Done, IsRunning
<1>4. Owners'
  BY ZenonT(60) DEF IInv, Owners
<1>5. \A p \in Proc : Holds(c, p)' <=> Holds(c, p)
  BY SMTT(60) DEF Holds, Goes
<1>6. \A p \in Proc : IsRunning(p)' => Holds(c, p)' \/ (IsRunning(p) /\ ~Holds(c, p))
  BY ZenonT(60), <1>5 DEF IsRunning
<1>7. Pinned'
  BY SMTT(60) DEF IInv, Pinned, Goes
<1>8. NoLostWait'
  <2>1. \A p \in Proc : st[p] = "Blocked" => waitFor'[p] = waitFor[p]
    BY SMTT(60), Names DEF Go, IInv, Cores, HeldAt
  <2> QED
    BY ZenonT(60), <2>1, WaitsKept DEF IInv
<1>9. NoZombieForgotten'
  BY ZenonT(60), ZombiesKept DEF IInv
<1> QED
  BY ZenonT(60), <1>1, <1>2, <1>3, <1>4, <1>5, <1>6, <1>7, <1>8, <1>9, Assembled DEF IInv,
     NoFailStop

Takes == {<<"idle", "claimed">>, <<"irq", "irqReserved">>, <<"return", "returnReserved">>,
          <<"block", "blockReserved">>}

\* The core reserves a ready process on a stack nobody owns.
Take(c, from, to, q) ==
    /\ pc[c] = from /\ pc' = [pc EXCEPT ![c] = to]
    /\ IsReady(q) /\ owner[q] = NoCPU /\ CpuAllows(c, q) /\ Reserve(c, q)
    /\ UNCHANGED <<waits, parent, owner, places, cur, stk, reaps, halted>>

\* scheduled_process_ready_take, by an idle core, a tick, a call's return or a
\* call that blocks.
LEMMA TakeKept ==
  ASSUME IInv, TypeOK', NEW c \in CPU, NEW x \in Takes, NEW q \in Proc, Take(c, x[1], x[2], q)
  PROVE  IInv'
<1>   /\ pc[c] = x[1] /\ pc'[c] = x[2] /\ res'[c] = q
      /\ \A d \in CPU \ {c} : pc'[d] = pc[d] /\ res'[d] = res[d]
      /\ \A p \in Proc \ {q} : st'[p] = st[p]
      /\ st[q] \in {"Ready", "ReadyWait4"} /\ owner[q] = NoCPU /\ st'[q] \in {"Running", "Resuming"}
      /\ c # Boot => q \notin core0
      /\ UNCHANGED <<waitFor, core0, parent, owner, cur, stk, deferred, victim, after, halted>>
      /\ parent \in [Proc -> Proc \cup {NoProc}] /\ core0 \subseteq Proc
  BY ZenonT(150) DEF Take, Reserve, StateStart, IsReady, CpuAllows, IInv, TypeOK, reaps, waits,
     places
<1>p. /\ pc[c] \notin Done \cup {"clone", "leaveYield", "leaveBlocked", "reap", "remove"}
      /\ pc'[c] \notin Done \cup {"clone", "leaveYield", "leaveBlocked", "reap", "remove"}
      /\ pc[c] \notin Reserving
  BY SMTT(60) DEF Takes, Done, Reserving
<1>n. res[c] = NoProc /\ q # NoProc /\ cur[c] # q
  <2>1. PlaceAt(c) /\ HeldAt(c)
    BY ZenonT(60) DEF IInv, Cores
  <2>2. res[c] = NoProc /\ q # NoProc
    BY ZenonT(60), <1>p, <2>1, Names DEF PlaceAt
  <2>3. cur[c] # NoProc => st[cur[c]] = "Running"
    BY ZenonT(60), <1>p, <2>1 DEF HeldAt
  <2> QED
    BY ZenonT(60), <2>2, <2>3
<1>1. Changes(c)
  BY ZenonT(60) DEF Changes, Others
<1>2. PlaceAt(c)'
  BY SMTT(60), <1>n DEF IInv, Cores, PlaceAt, Where, Takes, Bare, OnOwn, Reserving
<1>3. HeldAt(c)'
  <2>1. PlaceAt(c) /\ HeldAt(c) /\ cur[c] # q /\ deferred[c] # q
    BY ZenonT(60), <1>n, Names DEF IInv, Cores, HeldAt
  <2>2. victim[c] = NoProc
    BY ZenonT(60), <1>p, <2>1 DEF PlaceAt
  <2>3. (cur[c] # NoProc => st'[cur[c]] = st[cur[c]]) /\ (deferred[c] # NoProc => st'[deferred[c]] = st[deferred[c]])
    BY ZenonT(60), <2>1, Names
  <2> QED
    BY ZenonT(60), <1>p, <2>1, <2>2, <2>3 DEF HeldAt, IsRunning, Done
<1>o. OwnsAt(c)'
  BY ZenonT(60) DEF IInv, Cores, OwnsAt
<1>4. Owners'
  BY ZenonT(60) DEF IInv, Owners
<1>5. \A p \in Proc : Holds(c, p)' => Holds(c, p) \/ \A d \in CPU : ~Holds(d, p)
  <2>1. \A d \in CPU : ~Holds(d, q)
    BY ZenonT(60), Unheld
  <2> QED
    BY ZenonT(60), <1>p, <2>1 DEF Holds
<1>6. \A p \in Proc : IsRunning(p)' => Holds(c, p)' \/ (IsRunning(p) /\ ~Holds(c, p))
  <2>1. ~Holds(c, q) /\ Holds(c, q)'
    BY ZenonT(60), Unheld DEF Holds
  <2>2. \A p \in Proc \ {q} : Holds(c, p) => Holds(c, p)'
    BY ZenonT(60), <1>n, <1>p, Names DEF Holds
  <2> QED
    BY ZenonT(60), <2>1, <2>2 DEF IsRunning
<1>7. Pinned'
  BY SMTT(60) DEF IInv, Pinned, Takes
<1>8. NoLostWait'
  BY ZenonT(60), WaitsKept DEF IInv
<1>9. NoZombieForgotten'
  BY ZenonT(60), ZombiesKept DEF IInv
<1> QED
  BY ZenonT(60), <1>1, <1>2, <1>3, <1>o, <1>4, <1>5, <1>6, <1>7, <1>8, <1>9, Assembled DEF IInv,
     NoFailStop

Cancels == {<<"claimed", "idle">>, <<"irqReserved", "irqStay">>, <<"returnReserved", "returnStay">>,
            <<"blockReserved", "resume">>, <<"exitReserved", "leaveExit">>,
            <<"exitReservedReap", "leaveExit">>}

\* The core gives its reservation back.
Drop(c, from, to) ==
    /\ pc[c] = from /\ pc' = [pc EXCEPT ![c] = to] /\ Cancel(c)
    /\ UNCHANGED <<waits, parent, owner, places, cur, stk, reaps, halted>>

\* kernel_process_schedule_cancel_reserved, on every path that reserves.
LEMMA DropKept ==
  ASSUME IInv, TypeOK', NEW c \in CPU, NEW x \in Cancels, Drop(c, x[1], x[2])
  PROVE  IInv'
<1> DEFINE q == res[c]
<1>n. q \in Proc /\ q # NoProc /\ cur[c] # q /\ IsRunning(q) /\ owner[q] = NoCPU
  BY SMTT(60), Names DEF IInv, Cores, PlaceAt, HeldAt, Drop, Cancels, Reserving
<1>   /\ pc[c] = x[1] /\ pc'[c] = x[2] /\ res'[c] = NoProc
      /\ \A d \in CPU \ {c} : pc'[d] = pc[d] /\ res'[d] = res[d]
      /\ \A p \in Proc \ {q} : st'[p] = st[p]
      /\ st'[q] \in {"Ready", "ReadyWait4"}
      /\ UNCHANGED <<waitFor, core0, parent, owner, cur, stk, deferred, victim, after, halted>>
      /\ parent \in [Proc -> Proc \cup {NoProc}] /\ core0 \subseteq Proc
  BY ZenonT(150), <1>n DEF Drop, Cancel, StateYield, IInv, TypeOK, reaps, waits, places
<1>p. /\ pc[c] \notin {"clone", "leaveYield", "leaveBlocked", "leaveExit", "reap", "remove"}
      /\ pc'[c] \notin {"clone", "leaveYield", "leaveBlocked", "reap", "remove"}
      /\ pc'[c] \in Done <=> pc[c] \in Done
      /\ pc'[c] = "leaveExit" => cur[c] = stk[c] /\ cur[c] # NoProc /\ pc[c] \in Done
  <2>1. PlaceAt(c)
    BY ZenonT(60) DEF IInv, Cores
  <2>2. /\ pc[c] \notin {"clone", "leaveYield", "leaveBlocked", "leaveExit", "reap", "remove"}
        /\ pc'[c] \notin {"clone", "leaveYield", "leaveBlocked", "reap", "remove"}
        /\ pc'[c] \in Done <=> pc[c] \in Done
        /\ pc'[c] = "leaveExit" => pc[c] \in {"exitReserved", "exitReservedReap"}
    BY SMTT(60) DEF Cancels, Done
  <2> QED
    BY ZenonT(60), <2>1, <2>2 DEF PlaceAt, Where, Done, OnOwn, Bare
<1>1. Changes(c)
  BY ZenonT(60), <1>n DEF Changes, Others, Holds, IsRunning
<1>2. PlaceAt(c)'
  <2>1. PlaceAt(c)
    BY ZenonT(60) DEF IInv, Cores
  <2> QED
    BY SMTT(60), <1>n, <2>1 DEF PlaceAt, Where, Cancels, Bare, OnOwn, Reserving
<1>3. HeldAt(c)'
  <2>1. PlaceAt(c) /\ HeldAt(c) /\ cur[c] # q /\ deferred[c] # q
    BY ZenonT(60), <1>n, Names DEF IInv, Cores, HeldAt, IsRunning
  <2>2. victim[c] = NoProc
    BY ZenonT(60), <1>p, <2>1 DEF PlaceAt
  <2>3. (cur[c] # NoProc => st'[cur[c]] = st[cur[c]]) /\ (deferred[c] # NoProc => st'[deferred[c]] = st[deferred[c]])
    BY ZenonT(60), <2>1, Names
  <2> QED
    BY ZenonT(60), <1>p, <2>1, <2>2, <2>3 DEF HeldAt
<1>o. OwnsAt(c)'
  BY ZenonT(60) DEF IInv, Cores, OwnsAt
<1>4. Owners'
  BY ZenonT(60) DEF IInv, Owners
<1>5. \A p \in Proc : Holds(c, p)' => Holds(c, p) \/ \A d \in CPU : ~Holds(d, p)
  BY ZenonT(60), <1>p, Names DEF Holds
<1>6. \A p \in Proc : IsRunning(p)' => Holds(c, p)' \/ (IsRunning(p) /\ ~Holds(c, p))
  BY ZenonT(60), <1>n, <1>p DEF IsRunning, Holds
<1>7. Pinned'
  BY SMTT(60), <1>p, Names DEF IInv, Pinned
<1>8. NoLostWait'
  BY ZenonT(60), WaitsKept DEF IInv
<1>9. NoZombieForgotten'
  BY ZenonT(60), ZombiesKept DEF IInv
<1> QED
  BY ZenonT(60), <1>1, <1>2, <1>3, <1>o, <1>4, <1>5, <1>6, <1>7, <1>8, <1>9, Assembled DEF IInv,
     NoFailStop

\* The core commits its reservation: what it reserved becomes its current
\* process, and the one before it is Ready, Blocked or left Exited.
Hand(c, from) ==
    /\ from \in Reserving /\ pc[c] = from /\ pc' = [pc EXCEPT ![c] = "resume"]
    /\ st'[res[c]] = "Running"
    /\ \A p \in Proc \ {cur[c], res[c]} : st'[p] = st[p]
    /\ cur[c] # NoProc =>
          /\ IF from \in Done THEN st'[cur[c]] = "Exited" ELSE st'[cur[c]] \in {"Ready", "Blocked"}
          /\ st'[cur[c]] = "Blocked" => Exits(cur[c], waitFor[cur[c]]) = {}
    /\ cur' = [cur EXCEPT ![c] = res[c]]
    /\ res' = [res EXCEPT ![c] = NoProc]
    /\ deferred' \in {deferred, [deferred EXCEPT ![c] = cur[c]]}
    /\ deferred' = deferred \/ from = "exitReservedReap"
    /\ UNCHANGED <<waits, parent, owner, places, stk, victim, noteFor, after, halted>>

\* The commits of an idle core, a tick, a call's return, a call that blocks and
\* an exit.
LEMMA HandKept ==
  ASSUME IInv, TypeOK', NEW c \in CPU, NEW from, Hand(c, from)
  PROVE  IInv'
<1> DEFINE q == res[c]
           p == cur[c]
<1>n. /\ q \in Proc /\ q # NoProc /\ p # q /\ IsRunning(q) /\ owner[q] = NoCPU
      /\ PlaceAt(c) /\ HeldAt(c) /\ OwnsAt(c) /\ victim[c] = NoProc /\ deferred[c] = NoProc
      /\ (p # NoProc => p \in Proc)
      /\ (from = "exitReservedReap" => p = stk[c])
      /\ from \notin {"clone", "leaveYield", "leaveExit"}
  BY ZenonT(60), Names DEF IInv, Cores, PlaceAt, HeldAt, Hand, Reserving, Where, OnOwn
<1>   /\ pc[c] = from /\ pc'[c] = "resume" /\ res'[c] = NoProc /\ cur'[c] = q
      /\ \A d \in CPU \ {c} : /\ pc'[d] = pc[d] /\ res'[d] = res[d] /\ cur'[d] = cur[d]
                              /\ deferred'[d] = deferred[d]
      /\ deferred'[c] = NoProc \/ (deferred'[c] = p /\ from = "exitReservedReap")
      /\ \A r \in Proc \ {p, q} : st'[r] = st[r]
      /\ st'[q] = "Running"
      /\ p # NoProc => IF from \in Done THEN st[p] = "Exited" /\ st'[p] = "Exited"
                       ELSE st[p] = "Running" /\ st'[p] \in {"Ready", "Blocked"}
      /\ UNCHANGED <<waitFor, core0, parent, owner, stk, victim, after, halted>>
      /\ parent \in [Proc -> Proc \cup {NoProc}] /\ core0 \subseteq Proc
  <2>1. /\ pc \in [CPU -> PCs] /\ res \in [CPU -> Proc \cup {NoProc}]
        /\ cur \in [CPU -> Proc \cup {NoProc}] /\ deferred \in [CPU -> Proc \cup {NoProc}]
        /\ parent \in [Proc -> Proc \cup {NoProc}] /\ core0 \subseteq Proc
    BY ZenonT(60) DEF IInv, TypeOK
  <2>2. /\ pc[c] = from /\ pc'[c] = "resume" /\ res'[c] = NoProc /\ cur'[c] = q
        /\ \A d \in CPU \ {c} : /\ pc'[d] = pc[d] /\ res'[d] = res[d] /\ cur'[d] = cur[d]
                                /\ deferred'[d] = deferred[d]
        /\ deferred'[c] = NoProc \/ (deferred'[c] = p /\ from = "exitReservedReap")
    BY ZenonT(60), <1>n, <2>1 DEF Hand
  <2>3. p # NoProc => IF from \in Done THEN st[p] = "Exited" /\ st'[p] = "Exited"
                      ELSE st[p] = "Running" /\ st'[p] \in {"Ready", "Blocked"}
    BY ZenonT(60), <1>n, <2>2 DEF Hand, HeldAt
  <2> QED
    BY ZenonT(60), <2>1, <2>2, <2>3 DEF Hand, waits, places
<1>s. \A r \in Proc :
                       \/ st'[r] = st[r] /\ r # q /\ (r = p => st[r] = "Exited")
                       \/ r = q /\ st[r] \in {"Running", "Resuming"} /\ st'[r] = "Running"
                       \/ r = p /\ st[r] = "Running" /\ st'[r] \in {"Ready", "Blocked"}
  <2> TAKE r \in Proc
  <2>1. CASE r = q
    BY ZenonT(60), <1>n, <2>1 DEF IsRunning
  <2>2. CASE r = p /\ r # q
    <3>1. p # NoProc
      BY ZenonT(60), <2>2, Names
    <3> QED
      BY ZenonT(60), <2>2, <3>1
  <2>3. CASE r # p /\ r # q
    BY ZenonT(60), <2>3
  <2> QED
    BY ZenonT(60), <2>1, <2>2, <2>3
<1>1. Changes(c)
  BY ZenonT(60), <1>s DEF Changes, Others, Holds
<1>2. PlaceAt(c)'
  BY ZenonT(60), <1>n DEF PlaceAt, Where, Bare, OnOwn, Reserving
<1>3. HeldAt(c)'
  BY ZenonT(60), <1>n DEF HeldAt, Done
<1>o. OwnsAt(c)'
  BY ZenonT(60), <1>n DEF OwnsAt
<1>4. Owners'
  <2>1. \A r \in Proc : st'[r] \in {"Free", "Constructing", "Reaping", "Gone"} => st'[r] = st[r]
    BY ZenonT(60), <1>s
  <2> QED
    BY ZenonT(60), <2>1 DEF IInv, Owners
<1>5. \A r \in Proc : Holds(c, r)' => Holds(c, r) \/ \A d \in CPU : ~Holds(d, r)
  BY ZenonT(60), Names DEF Holds
<1>6. \A r \in Proc : IsRunning(r)' => Holds(c, r)' \/ (IsRunning(r) /\ ~Holds(c, r))
  BY ZenonT(60), <1>n, <1>s DEF IsRunning, Holds
<1>7. Pinned'
  <2>1. \A r \in Proc : st'[r] = "Free" => st[r] = "Free"
    BY ZenonT(60), <1>s
  <2> QED
    BY SMTT(60), <1>n, <2>1, Names DEF IInv, Pinned
<1>8. NoLostWait'
  <2>1. \A r \in Proc : st'[r] = "Exited" => st[r] = "Exited"
    BY ZenonT(60), <1>s
  <2>2. \A r \in Proc : st'[r] = "Blocked" =>
           waitFor'[r] = waitFor[r] /\ (st[r] = "Blocked" \/ Exits(r, waitFor[r]) = {})
    <3>1. p # NoProc /\ st'[p] = "Blocked" => Exits(p, waitFor[p]) = {}
      BY ZenonT(60) DEF Hand
    <3>2. \A r \in Proc \ {p} : st'[r] = "Blocked" => st[r] = "Blocked"
      BY ZenonT(60), <1>s
    <3>3. p \in Proc => p # NoProc
      BY ZenonT(60), Names
    <3> QED
      BY ZenonT(60), <3>1, <3>2, <3>3
  <2> QED
    BY ZenonT(60), <2>1, <2>2, WaitsKept DEF IInv
<1>9. NoZombieForgotten'
  <2>1. \A r \in Proc : st'[r] \in {"Exited", "Reaping"} => st'[r] = st[r]
    BY ZenonT(60), <1>s
  <2>2. \A d \in CPU : \A r \in Proc : r \in {deferred[d], victim[d]} =>
                                         r \in {deferred[d], victim[d]}'
    BY SMTT(60), <1>n, Names
  <2> QED
    BY ZenonT(60), <2>1, <2>2, ZombiesKept DEF IInv
<1> QED
  BY ZenonT(60), <1>1, <1>2, <1>3, <1>o, <1>4, <1>5, <1>6, <1>7, <1>8, <1>9, Assembled DEF IInv,
     NoFailStop

Releases == {<<"irq", "idle">>, <<"irqStay", "idle">>, <<"user", "leaveYield">>,
             <<"return", "leaveYield">>, <<"returnStay", "leaveYield">>, <<"block", "leaveBlocked">>}

\* The core lets its current process go: Ready from the interrupt stack, still
\* Running or Blocked while it stands on the process's own.
Release(c, from, to) ==
    /\ pc[c] = from /\ pc' = [pc EXCEPT ![c] = to]
    /\ IF to = "idle" THEN stk[c] = NoProc ELSE stk[c] = cur[c]
    /\ \A p \in Proc \ {cur[c]} : st'[p] = st[p]
    /\ st'[cur[c]] = IF to = "idle" THEN "Ready" ELSE IF to = "leaveYield" THEN "Running" ELSE "Blocked"
    /\ to = "leaveBlocked" => Exits(cur[c], waitFor[cur[c]]) = {}
    /\ core0' \in {core0, core0 \cup {cur[c]}}
    /\ cur' = [cur EXCEPT ![c] = NoProc]
    /\ UNCHANGED <<waits, parent, owner, mask, stk, res, reaps, halted>>

\* Leaving a process for another core, and blocking with no successor.
LEMMA ReleaseKept ==
  ASSUME IInv, TypeOK', NEW c \in CPU, NEW x \in Releases, Release(c, x[1], x[2])
  PROVE  IInv'
<1> DEFINE p == cur[c]
<1>   /\ pc[c] = x[1] /\ pc'[c] = x[2] /\ cur'[c] = NoProc
      /\ \A d \in CPU \ {c} : pc'[d] = pc[d] /\ cur'[d] = cur[d]
      /\ UNCHANGED <<waitFor, parent, owner, stk, res, deferred, victim, after, halted>>
      /\ parent \in [Proc -> Proc \cup {NoProc}] /\ core0 \subseteq Proc
      /\ \A r \in Proc \ {p} : st'[r] = st[r]
      /\ st'[p] = IF x[2] = "idle" THEN "Ready" ELSE IF x[2] = "leaveYield" THEN "Running" ELSE "Blocked"
      /\ IF x[2] = "idle" THEN stk[c] = NoProc ELSE stk[c] = p
      /\ core0' \in {core0, core0 \cup {p}}
  BY ZenonT(60) DEF Release, IInv, TypeOK, reaps, waits
<1>p. /\ pc[c] \notin {"clone", "leaveYield", "leaveBlocked", "reap", "remove", "resume"} \cup Done \cup Reserving
      /\ pc'[c] \in {"idle", "leaveYield", "leaveBlocked"}
      /\ pc[c] \notin Bare
  BY SMTT(60) DEF Releases, Done, Reserving, Bare
<1>n. /\ PlaceAt(c) /\ HeldAt(c) /\ OwnsAt(c)
      /\ p # NoProc /\ p \in Proc /\ st[p] = "Running" /\ res[c] = NoProc /\ victim[c] = NoProc
      /\ deferred[c] = NoProc
  <2>1. PlaceAt(c) /\ HeldAt(c) /\ OwnsAt(c)
    BY ZenonT(60) DEF IInv, Cores
  <2>2. p # NoProc /\ res[c] = NoProc /\ victim[c] = NoProc /\ deferred[c] = NoProc
    BY ZenonT(60), <1>p, <2>1 DEF PlaceAt, Where, Done
  <2> QED
    BY ZenonT(60), <1>p, <2>1, <2>2, Names DEF HeldAt
<1>1. Changes(c)
  BY ZenonT(60), <1>n DEF Changes, Others, Holds
<1>2. PlaceAt(c)'
  BY ZenonT(60), <1>p, <1>n DEF PlaceAt, Where, Bare, OnOwn, Reserving
<1>3. HeldAt(c)' /\ OwnsAt(c)'
  BY ZenonT(60), <1>p, <1>n DEF HeldAt, OwnsAt, Done
<1>4. Owners'
  <2>1. \A r \in Proc : st'[r] \in {"Free", "Constructing", "Reaping", "Gone"} => st'[r] = st[r]
    BY ZenonT(60)
  <2> QED
    BY ZenonT(60), <2>1 DEF IInv, Owners
<1>5. \A r \in Proc : Holds(c, r)' => Holds(c, r)
  BY ZenonT(60), <1>p, <1>n, Names DEF Holds
<1>6. \A r \in Proc : IsRunning(r)' => Holds(c, r)' \/ (IsRunning(r) /\ ~Holds(c, r))
  BY ZenonT(60), <1>p, <1>n, Names DEF IsRunning, Holds
<1>7. Pinned'
  <2>1. \A r \in Proc : st'[r] = "Free" => st[r] = "Free"
    BY ZenonT(60)
  <2>2. \A d \in CPU \ {c} : ~Holds(d, p)
    BY ZenonT(60), <1>n DEF IInv, Alone, Holds
  <2>3. \A r \in core0' : st'[r] # "Free"
    <3>1. \A r \in core0 : st[r] # "Free"
      BY ZenonT(60) DEF IInv, Pinned
    <3>2. \A r \in core0' : r \in Proc /\ st[r] # "Free"
      BY SMTT(60), <1>n, <3>1
    <3> QED
      BY ZenonT(60), <2>1, <3>2
  <2>4. \A d \in CPU \ {Boot} : \A r \in core0' :
           r # cur'[d] /\ r # res'[d] /\ (pc'[d] = "clone" => r # stk'[d])
    BY SMTT(60), <1>p, <1>n, <2>2, Names DEF IInv, Pinned, Holds
  <2> QED
    BY ZenonT(60), <2>3, <2>4 DEF Pinned
<1>8. NoLostWait'
  <2>1. \A r \in Proc : st'[r] = "Exited" => st[r] = "Exited"
    BY ZenonT(60)
  <2>2. \A r \in Proc : st'[r] = "Blocked" =>
           waitFor'[r] = waitFor[r] /\ (st[r] = "Blocked" \/ Exits(r, waitFor[r]) = {})
    BY ZenonT(60), <1>p DEF Release
  <2> QED
    BY ZenonT(60), <2>1, <2>2, WaitsKept DEF IInv
<1>9. NoZombieForgotten'
  <2>1. \A r \in Proc : st'[r] \in {"Exited", "Reaping"} => st'[r] = st[r]
    BY ZenonT(60)
  <2> QED
    BY ZenonT(60), <2>1, ZombiesKept DEF IInv
<1> QED
  BY ZenonT(60), <1>1, <1>2, <1>3, <1>4, <1>5, <1>6, <1>7, <1>8, <1>9, Assembled DEF IInv,
     NoFailStop

\* A tick whose preparation went stale: the interrupted process, on a stack
\* this core gave up at the interrupt's entry, is started and stood on again.
Restart(c) ==
    /\ pc[c] = "irqReserved" /\ pc' = [pc EXCEPT ![c] = "irqStay"]
    /\ \A p \in Proc \ {res[c]} : st'[p] = st[p]
    /\ st'[res[c]] \in {"Ready", "ReadyWait4"}
    /\ res' = [res EXCEPT ![c] = NoProc]
    /\ owner' = [owner EXCEPT ![cur[c]] = c]
    /\ stk' = [stk EXCEPT ![c] = cur[c]]
    /\ UNCHANGED <<waits, parent, places, cur, reaps, halted>>

\* The rollover of a tick restarts what the tick interrupted.
LEMMA RestartKept ==
  ASSUME IInv, TypeOK', NEW c \in CPU, Restart(c)
  PROVE  IInv'
<1> DEFINE q == res[c]
           p == cur[c]
<1>   /\ PlaceAt(c) /\ HeldAt(c) /\ OwnsAt(c)
      /\ q \in Proc /\ q # NoProc /\ p # q /\ IsRunning(q) /\ owner[q] = NoCPU
      /\ p \in Proc /\ p # NoProc /\ st[p] = "Running" /\ stk[c] = NoProc
      /\ victim[c] = NoProc /\ deferred[c] = NoProc
  BY ZenonT(60), Names DEF IInv, Cores, PlaceAt, HeldAt, Restart, Reserving, Where, Bare, Done
<1>f. owner[p] = NoCPU
  BY ZenonT(60), Names DEF OwnsAt, IInv, Owners
<1>   /\ pc[c] = "irqReserved" /\ pc'[c] = "irqStay" /\ res'[c] = NoProc /\ stk'[c] = p
      /\ \A d \in CPU \ {c} : pc'[d] = pc[d] /\ res'[d] = res[d] /\ stk'[d] = stk[d]
      /\ \A r \in Proc \ {q} : st'[r] = st[r]
      /\ st'[q] \in {"Ready", "ReadyWait4"}
      /\ owner'[p] = c /\ \A r \in Proc \ {p} : owner'[r] = owner[r]
      /\ UNCHANGED <<waitFor, core0, parent, cur, deferred, victim, after, halted>>
      /\ parent \in [Proc -> Proc \cup {NoProc}] /\ core0 \subseteq Proc
      /\ owner \in [Proc -> CPU \cup {NoCPU}]
  BY SMTT(60) DEF Restart, IInv, TypeOK, reaps, waits, places
<1>1. Changes(c)
  BY ZenonT(60) DEF Changes, Others, Holds, IsRunning
<1>2. PlaceAt(c)'
  BY ZenonT(60) DEF PlaceAt, Where, Bare, OnOwn, Reserving
<1>3. HeldAt(c)'
  BY ZenonT(60) DEF HeldAt, Done
<1>o. OwnsAt(c)'
  BY ZenonT(60) DEF OwnsAt
<1>4. Owners'
  <2>1. \A r \in Proc : st'[r] \in {"Free", "Constructing", "Reaping", "Gone"} => st'[r] = st[r] /\ r # p
    BY ZenonT(60)
  <2>2. \A r \in Proc : owner'[r] # NoCPU => stk'[owner'[r]] = r
    <3> TAKE r \in Proc
    <3>1. CASE r = p
      BY ZenonT(60), <3>1
    <3>2. CASE r # p
      <4>1. owner[r] # NoCPU => stk[owner[r]] = r /\ owner[r] \in CPU \ {c}
        BY SMTT(60), Names DEF IInv, Owners
      <4> QED
        BY ZenonT(60), <3>2, <4>1
    <3> QED
      BY ZenonT(60), <3>1, <3>2
  <2> QED
    BY ZenonT(150), <2>1, <2>2 DEF IInv, Owners
<1>5. \A r \in Proc : Holds(c, r)' => Holds(c, r)
  BY ZenonT(60), Names DEF Holds
<1>6. \A r \in Proc : IsRunning(r)' => Holds(c, r)' \/ (IsRunning(r) /\ ~Holds(c, r))
  BY ZenonT(60) DEF IsRunning, Holds
<1>7. Pinned'
  BY SMTT(60), Names DEF IInv, Pinned
<1>8. NoLostWait'
  BY ZenonT(60), WaitsKept DEF IInv
<1>9. NoZombieForgotten'
  <2>1. \A r \in Proc : st'[r] = "Exited" => r # p
    BY ZenonT(60)
  <2> QED
    BY ZenonT(60), <2>1, ZombiesKept DEF IInv
<1> QED
  BY ZenonT(60), <1>1, <1>2, <1>3, <1>o, <1>4, <1>5, <1>6, <1>7, <1>8, <1>9, Assembled DEF IInv,
     NoFailStop

\* The core gives up the stack it stands on, and the process it was running
\* there if that one is leaving.
StepDown(c, from, to) ==
    /\ pc[c] = from /\ pc' = [pc EXCEPT ![c] = to]
    /\ stk[c] # NoProc
    /\ IF from = "leaveYield" THEN /\ st'[stk[c]] = "Ready"
                                   /\ \A p \in Proc \ {stk[c]} : st'[p] = st[p]
                              ELSE UNCHANGED st
    /\ owner' = [owner EXCEPT ![stk[c]] = NoCPU]
    /\ stk' = [stk EXCEPT ![c] = NoProc]
    /\ UNCHANGED <<waits, parent, places, cur, res, reaps, halted>>

StepsDown == {<<"user", "irq">>, <<"leaveYield", "idle">>, <<"leaveBlocked", "idle">>}

\* An interrupt's entry, and the idle stack after a yield or a block.
LEMMA StepDownKept ==
  ASSUME IInv, TypeOK', NEW c \in CPU, NEW x \in StepsDown, StepDown(c, x[1], x[2])
  PROVE  IInv'
<1> DEFINE s == stk[c]
<1>   /\ pc[c] = x[1] /\ pc'[c] = x[2] /\ stk'[c] = NoProc
      /\ \A d \in CPU \ {c} : pc'[d] = pc[d] /\ stk'[d] = stk[d]
      /\ s \in Proc /\ s # NoProc
      /\ \A r \in Proc \ {s} : st'[r] = st[r]
      /\ st'[s] = IF x[1] = "leaveYield" THEN "Ready" ELSE st[s]
      /\ owner'[s] = NoCPU /\ \A r \in Proc \ {s} : owner'[r] = owner[r]
      /\ UNCHANGED <<waitFor, core0, parent, cur, res, deferred, victim, after, halted>>
      /\ parent \in [Proc -> Proc \cup {NoProc}] /\ core0 \subseteq Proc
      /\ owner \in [Proc -> CPU \cup {NoCPU}]
  BY ZenonT(150) DEF StepDown, IInv, TypeOK, reaps, waits, places
<1>p. /\ pc[c] \in {"user", "leaveYield", "leaveBlocked"} /\ pc'[c] \in {"irq", "idle"}
      /\ pc[c] = "user" <=> pc'[c] = "irq"
  BY SMTT(60) DEF StepsDown
<1>n. /\ PlaceAt(c) /\ HeldAt(c) /\ OwnsAt(c) /\ owner[s] = c
      /\ victim[c] = NoProc /\ deferred[c] = NoProc /\ res[c] = NoProc
      /\ pc[c] = "leaveYield" => st[s] = "Running"
      /\ IF pc[c] = "user" THEN cur[c] = s ELSE cur[c] = NoProc
      /\ st[s] \in {"Running", "Blocked", "Ready", "ReadyWait4"}
  <2>1. PlaceAt(c) /\ HeldAt(c) /\ OwnsAt(c)
    BY ZenonT(60) DEF IInv, Cores
  <2>2. victim[c] = NoProc /\ deferred[c] = NoProc /\ res[c] = NoProc
    BY ZenonT(60), <1>p, <2>1 DEF PlaceAt, Reserving
  <2>3. IF pc[c] = "user" THEN cur[c] = s ELSE cur[c] = NoProc
    BY ZenonT(60), <1>p, <2>1 DEF PlaceAt, Where, Bare, OnOwn
  <2> QED
    BY ZenonT(60), <1>p, <2>1, <2>2, <2>3 DEF HeldAt, OwnsAt, Done
<1>1. Changes(c)
  BY ZenonT(60), <1>n DEF Changes, Others, Holds
<1>2. PlaceAt(c)'
  BY ZenonT(60), <1>p, <1>n DEF PlaceAt, Where, Bare, OnOwn, Reserving
<1>3. HeldAt(c)'
  BY ZenonT(60), <1>p, <1>n DEF HeldAt, Done
<1>o. OwnsAt(c)'
  BY ZenonT(60), <1>n DEF OwnsAt
<1>4. Owners'
  <2>1. \A r \in Proc : st'[r] \in {"Free", "Constructing", "Reaping", "Gone"} => st'[r] = st[r]
    BY ZenonT(60)
  <2>2. \A r \in Proc : owner'[r] # NoCPU => stk'[owner'[r]] = r
    <3> SUFFICES ASSUME NEW r \in Proc, owner'[r] # NoCPU PROVE stk'[owner'[r]] = r
      BY ZenonT(60)
    <3>1. r # s /\ owner'[r] = owner[r] /\ owner[r] \in CPU /\ stk[owner[r]] = r
      BY ZenonT(60) DEF IInv, Owners
    <3> QED
      BY ZenonT(60), <3>1
  <2>3. \A r \in Proc : owner[r] = NoCPU => owner'[r] = NoCPU
    BY ZenonT(60)
  <2>4. \A r \in Proc : parent[r] # NoProc => st'[parent[r]] \notin {"Free", "Constructing"}
    BY ZenonT(60), <2>1 DEF IInv, Owners
  <2> QED
    BY ZenonT(60), <2>1, <2>2, <2>3, <2>4 DEF IInv, Owners
<1>5. \A r \in Proc : Holds(c, r)' => Holds(c, r)
  BY ZenonT(60), <1>p DEF Holds
<1>6. \A r \in Proc : IsRunning(r)' => Holds(c, r)' \/ (IsRunning(r) /\ ~Holds(c, r))
  BY ZenonT(60), <1>p, <1>n DEF IsRunning, Holds
<1>7. Pinned'
  <2>1. \A r \in Proc : st'[r] = "Free" => st[r] = "Free"
    BY ZenonT(60)
  <2> QED
    BY SMTT(60), <1>p, <2>1 DEF IInv, Pinned
<1>8. NoLostWait'
  BY ZenonT(60), WaitsKept DEF IInv
<1>9. NoZombieForgotten'
  <2>1. \A r \in Proc : st'[r] \in {"Exited", "Reaping"} => st'[r] = st[r] /\ r # s
    BY ZenonT(60), <1>n
  <2> QED
    BY ZenonT(60), <2>1, ZombiesKept DEF IInv
<1> QED
  BY ZenonT(60), <1>1, <1>2, <1>3, <1>o, <1>4, <1>5, <1>6, <1>7, <1>8, <1>9, Assembled DEF IInv,
     NoFailStop

\* The core moves to its current process's stack, or to its idle stack if it
\* has none, and goes on with the exited process z it has just left.
Settle(c, z, next) ==
    /\ pc[c] \in {"resume", "leaveExit"}
    /\ next = IF pc[c] = "resume" THEN "user" ELSE "idle"
    /\ cur[c] = NoProc <=> pc[c] = "leaveExit"
    /\ z = OrphanDefer(c, stk[c]) /\ ThenReap(c, z, next)
    /\ \A p \in Proc : owner'[p] = IF p = cur[c] THEN c ELSE IF p = stk[c] THEN NoCPU ELSE owner[p]
    /\ stk' = [stk EXCEPT ![c] = cur[c]]
    /\ UNCHANGED <<st, waits, parent, places, cur, res, halted>>

\* kernel_process_stack_switch_take and the idle stack's reenter after an exit:
\* the zombie left behind is reaped by this core if its parent cannot wait.
LEMMA SettleKept ==
  ASSUME IInv, TypeOK', NEW c \in CPU, NEW z, NEW next, Settle(c, z, next)
  PROVE  IInv'
<1> DEFINE s == stk[c]
           p == cur[c]
<1>t. /\ pc \in [CPU -> PCs] /\ stk \in [CPU -> Proc \cup {NoProc}]
      /\ deferred \in [CPU -> Proc \cup {NoProc}] /\ victim \in [CPU -> Proc \cup {NoProc}]
      /\ after \in [CPU -> {"idle", "user", "return", "exit"}]
      /\ parent \in [Proc -> Proc \cup {NoProc}] /\ core0 \subseteq Proc
      /\ owner \in [Proc -> CPU \cup {NoCPU}]
  BY ZenonT(60) DEF IInv, TypeOK
<1>n. /\ PlaceAt(c) /\ HeldAt(c) /\ OwnsAt(c)
      /\ victim[c] = NoProc /\ res[c] = NoProc /\ deferred[c] \in {NoProc, s}
      /\ p # NoProc => p \in Proc /\ st[p] = "Running" /\ owner[p] \in {NoCPU, c}
      /\ s # NoProc => s \in Proc /\ owner[s] = c
      /\ deferred[c] # NoProc => st[s] = "Exited"
  <2>1. PlaceAt(c) /\ HeldAt(c) /\ OwnsAt(c)
    BY ZenonT(60) DEF IInv, Cores
  <2>2. victim[c] = NoProc /\ res[c] = NoProc /\ deferred[c] \in {NoProc, s}
    BY ZenonT(60), <2>1 DEF PlaceAt, Reserving, Settle
  <2>3. p # NoProc => p \in Proc /\ st[p] = "Running" /\ owner[p] \in {NoCPU, c}
    BY ZenonT(60), <2>1, Names DEF HeldAt, OwnsAt, Settle, Done
  <2> QED
    BY ZenonT(60), <2>1, <2>2, <2>3, Names DEF HeldAt, OwnsAt
<1>z. /\ z \in {NoProc, s} /\ (z # NoProc => st[z] = "Exited" /\ z # p /\ z \in Proc)
      /\ s # NoProc /\ st[s] = "Exited" /\ ParentCannotWait(s) => z = s
      /\ deferred[c] # NoProc => z = deferred[c]
  BY ZenonT(60), <1>n DEF Settle, OrphanDefer
<1>   /\ pc[c] \in {"resume", "leaveExit"}
      /\ deferred'[c] = NoProc /\ victim'[c] = z /\ stk'[c] = p
      /\ IF z = NoProc THEN pc'[c] = next ELSE pc'[c] = "reap" /\ after'[c] = next
      /\ next = IF p = NoProc THEN "idle" ELSE "user"
      /\ \A d \in CPU \ {c} : /\ pc'[d] = pc[d] /\ stk'[d] = stk[d] /\ deferred'[d] = deferred[d]
                              /\ victim'[d] = victim[d] /\ after'[d] = after[d]
      /\ \A r \in Proc : owner'[r] = IF r = p THEN c ELSE IF r = s THEN NoCPU ELSE owner[r]
      /\ UNCHANGED <<st, waitFor, core0, parent, cur, res, halted>>
  BY ZenonT(60), <1>t DEF Settle, ThenReap, waits, places
<1>1. Changes(c)
  <2>1. Others(c)
    BY ZenonT(60) DEF Others
  <2>2. ASSUME NEW r \in Proc, owner'[r] # owner[r]
        PROVE  (Holds(c, r) /\ IsRunning(r)) \/ (owner[r] = c /\ owner'[r] = NoCPU)
    <3>1. CASE r = p
      BY ZenonT(60), <1>n, <3>1, Names DEF Holds, IsRunning
    <3>2. CASE r # p
      BY ZenonT(150), <1>n, <2>2, <3>2, Names
    <3> QED
      BY ZenonT(60), <3>1, <3>2
  <2> QED
    BY ZenonT(60), <2>1, <2>2 DEF Changes
<1>2. PlaceAt(c)'
  BY ZenonT(60), <1>n, <1>z DEF PlaceAt, Where, Bare, OnOwn, Reserving
<1>3. HeldAt(c)'
  BY ZenonT(60), <1>n, <1>z DEF HeldAt, Done
<1>o. OwnsAt(c)'
  BY ZenonT(60), <1>n, <1>z DEF OwnsAt
<1>4. Owners'
  <2>1. \A r \in Proc : owner'[r] # NoCPU => stk'[owner'[r]] = r
    <3> SUFFICES ASSUME NEW r \in Proc, owner'[r] # NoCPU PROVE stk'[owner'[r]] = r
      BY ZenonT(60)
    <3>1. CASE r = p
      BY ZenonT(60), <3>1
    <3>2. CASE r # p
      <4>1. r # s /\ owner'[r] = owner[r] /\ owner[r] \in CPU /\ stk[owner[r]] = r
        BY SMTT(60), <1>t, <3>2 DEF IInv, Owners
      <4> QED
        BY ZenonT(60), <4>1
    <3> QED
      BY ZenonT(60), <3>1, <3>2
  <2>2. \A r \in Proc : owner[r] = NoCPU /\ st[r] # "Running" => owner'[r] = NoCPU
    BY SMTT(60), <1>n, Names
  <2> QED
    BY ZenonT(60), <2>1, <2>2 DEF IInv, Owners
<1>5. \A r \in Proc : Holds(c, r)' => Holds(c, r)
  BY ZenonT(60) DEF Holds
<1>6. \A r \in Proc : IsRunning(r)' => Holds(c, r)' \/ (IsRunning(r) /\ ~Holds(c, r))
  BY ZenonT(60) DEF IsRunning, Holds
<1>7. Pinned'
  BY ZenonT(60) DEF IInv, Pinned
<1>8. NoLostWait'
  BY ZenonT(60), WaitsKept DEF IInv
<1>9. NoZombieForgotten'
  <2> SUFFICES ASSUME NEW r \in Proc, st[r] = "Exited", owner'[r] = NoCPU, ParentCannotWait(r)
               PROVE  \E d \in CPU : r \in {deferred'[d], victim'[d]}
    BY ZenonT(60) DEF NoZombieForgotten, ParentCannotWait, Orphaned
  <2>1. CASE r = s
    BY ZenonT(60), <1>z, <2>1, Names
  <2>2. CASE r # s
    <3>1. owner[r] = NoCPU
      BY ZenonT(60), <1>n, <2>2, Names
    <3>2. PICK d \in CPU : r \in {deferred[d], victim[d]}
      BY ZenonT(60), <3>1 DEF IInv, NoZombieForgotten
    <3> QED
      BY SMTT(60), <1>n, <2>2, <3>2, Names
  <2> QED
    BY ZenonT(60), <2>1, <2>2
<1> QED
  BY ZenonT(60), <1>1, <1>2, <1>3, <1>o, <1>4, <1>5, <1>6, <1>7, <1>8, <1>9, Assembled DEF IInv,
     NoFailStop

\* The kernel stops itself; nothing else changes.
LEMMA StopKept ==
  ASSUME IInv, TypeOK', Halt("leaveExit")
  PROVE  IInv'
<1>1. UNCHANGED <<st, waitFor, parent, owner, core0, pc, cur, stk, res, deferred, victim, after>>
  BY ZenonT(60) DEF Halt, waits, places, reaps
<1>2. Cores'
  <2> SUFFICES ASSUME NEW c \in CPU PROVE PlaceAt(c)' /\ HeldAt(c)' /\ OwnsAt(c)'
    BY ZenonT(60) DEF Cores
  <2>1. PlaceAt(c) /\ HeldAt(c) /\ OwnsAt(c)
    BY ZenonT(60) DEF IInv, Cores
  <2>2. PlaceAt(c)'
    BY ZenonT(60), <1>1, <2>1 DEF PlaceAt, Where
  <2>3. HeldAt(c)'
    BY ZenonT(60), <1>1, <2>1 DEF HeldAt, IsRunning
  <2> QED
    BY ZenonT(60), <1>1, <2>1, <2>2, <2>3 DEF OwnsAt
<1>3. Owners' /\ Alone' /\ Kept' /\ Pinned'
  <2>1. Owners' /\ Pinned'
    BY ZenonT(60), <1>1 DEF IInv, Owners, Pinned
  <2>2. \A c \in CPU : \A p \in Proc : Holds(c, p)' <=> Holds(c, p)
    BY ZenonT(60), <1>1 DEF Holds
  <2>3. \A p \in Proc : IsRunning(p)' <=> IsRunning(p)
    BY ZenonT(60), <1>1 DEF IsRunning
  <2> QED
    BY ZenonT(60), <2>1, <2>2, <2>3 DEF IInv, Alone, Kept
<1>4. NoLostWait' /\ NoZombieForgotten'
  BY ZenonT(60), <1>1 DEF IInv, NoLostWait, Exits, Children, Wanted, NoZombieForgotten,
     ParentCannotWait, Orphaned
<1> QED
  BY ZenonT(60), <1>2, <1>3, <1>4 DEF IInv, NoFailStop, Halt

\* clone takes a free record and makes it this core's current process.
LEMMA CloneBeginKept ==
  ASSUME IInv, TypeOK', NEW c \in CPU, CloneBegin(c)
  PROVE  IInv'
<1> DEFINE p == cur[c]
<1>q. PICK q \in Proc : /\ st[q] = "Free" /\ st' = [st EXCEPT ![q] = "Constructing"]
                        /\ parent' = [parent EXCEPT ![q] = p] /\ cur' = [cur EXCEPT ![c] = q]
  BY ZenonT(60) DEF CloneBegin
<1>   /\ pc[c] = "syscall" /\ pc'[c] = "clone" /\ cur'[c] = q
      /\ \A d \in CPU \ {c} : pc'[d] = pc[d] /\ cur'[d] = cur[d]
      /\ st'[q] = "Constructing" /\ \A r \in Proc \ {q} : st'[r] = st[r]
      /\ parent'[q] = p /\ \A r \in Proc \ {q} : parent'[r] = parent[r]
      /\ core0' = core0 \ {p}
      /\ UNCHANGED <<waitFor, owner, stk, res, deferred, victim, after, halted>>
      /\ parent \in [Proc -> Proc \cup {NoProc}] /\ core0 \subseteq Proc
  <2>1. /\ pc \in [CPU -> PCs] /\ cur \in [CPU -> Proc \cup {NoProc}] /\ st \in [Proc -> States]
        /\ parent \in [Proc -> Proc \cup {NoProc}] /\ core0 \subseteq Proc
    BY ZenonT(60) DEF IInv, TypeOK
  <2>2. pc[c] = "syscall" /\ pc' = [pc EXCEPT ![c] = "clone"] /\ core0' = core0 \ {p}
    BY ZenonT(60) DEF CloneBegin, Goto, At, Unpin
  <2>3. UNCHANGED <<waitFor, owner, stk, res, deferred, victim, after, halted>>
    BY ZenonT(60) DEF CloneBegin, waits, reaps
  <2> QED
    BY ZenonT(60), <1>q, <2>1, <2>2, <2>3
<1>n. /\ PlaceAt(c) /\ HeldAt(c) /\ OwnsAt(c)
      /\ p # NoProc /\ p \in Proc /\ st[p] = "Running" /\ stk[c] = p /\ q # p /\ q # NoProc
      /\ res[c] = NoProc /\ victim[c] = NoProc /\ deferred[c] = NoProc /\ owner[q] = NoCPU
  <2>1. PlaceAt(c) /\ HeldAt(c) /\ OwnsAt(c) /\ owner[q] = NoCPU
    BY ZenonT(60), <1>q DEF IInv, Cores, Owners
  <2>2. /\ p # NoProc /\ p \in Proc /\ stk[c] = p /\ q # NoProc
        /\ res[c] = NoProc /\ victim[c] = NoProc /\ deferred[c] = NoProc
    BY ZenonT(60), <2>1, Names DEF PlaceAt, Where, Bare, OnOwn, Reserving
  <2>3. st[p] = "Running"
    BY ZenonT(60), <2>1, <2>2 DEF HeldAt, Done
  <2> QED
    BY ZenonT(60), <1>q, <2>1, <2>2, <2>3
<1>1. Changes(c)
  BY ZenonT(60), <1>n, <1>q DEF Changes, Others
<1>2. PlaceAt(c)'
  BY ZenonT(60), <1>n DEF PlaceAt, Where, Bare, OnOwn, Reserving
<1>3. HeldAt(c)' /\ OwnsAt(c)'
  BY ZenonT(150), <1>n DEF HeldAt, OwnsAt
<1>4. Owners'
  <2>1. \A r \in Proc : parent'[r] # NoProc => st'[parent'[r]] \notin {"Free", "Constructing"}
    <3> SUFFICES ASSUME NEW r \in Proc, parent'[r] # NoProc
                 PROVE  st'[parent'[r]] \notin {"Free", "Constructing"}
      BY ZenonT(60)
    <3>1. CASE r = q
      BY ZenonT(60), <1>n, <3>1
    <3>2. CASE r # q
      BY SMTT(60), <1>q, <3>2 DEF IInv, Owners
    <3> QED
      BY ZenonT(60), <3>1, <3>2
  <2> QED
    BY ZenonT(60), <1>n, <2>1 DEF IInv, Owners
<1>5. \A r \in Proc : Holds(c, r)' => Holds(c, r) \/ \A d \in CPU : ~Holds(d, r)
  <2>1. \A d \in CPU : ~Holds(d, q)
    BY ZenonT(60), <1>q, Unheld
  <2> QED
    BY ZenonT(60), <1>n, <2>1, Names DEF Holds
<1>6. \A r \in Proc : IsRunning(r)' => Holds(c, r)' \/ (IsRunning(r) /\ ~Holds(c, r))
  BY ZenonT(60), <1>n, Names DEF IsRunning, Holds
<1>7. Pinned'
  <2>1. q \notin core0
    BY ZenonT(60), <1>q DEF IInv, Pinned
  <2> QED
    BY SMTT(60), <1>n, <2>1 DEF IInv, Pinned
<1>8. NoLostWait'
  <2> SUFFICES ASSUME NEW r \in Proc, st'[r] = "Blocked", NEW k \in Proc, k \in Exits(r, waitFor[r])'
               PROVE  FALSE
    BY ZenonT(60) DEF NoLostWait, Exits, Children
  <2>1. k # q /\ r # q
    BY ZenonT(60) DEF Exits
  <2>2. k \in Exits(r, waitFor[r]) /\ st[r] = "Blocked"
    BY ZenonT(60), <2>1 DEF Exits, Children, Wanted
  <2> QED
    BY ZenonT(60), <2>2 DEF IInv, NoLostWait
<1>9. NoZombieForgotten'
  <2> SUFFICES ASSUME NEW r \in Proc, st'[r] = "Exited", owner'[r] = NoCPU, ParentCannotWait(r)'
               PROVE  \E d \in CPU : r \in {deferred'[d], victim'[d]}
    BY ZenonT(60) DEF NoZombieForgotten
  <2>1. r # q
    BY ZenonT(60)
  <2>2. ParentCannotWait(r)
    BY ZenonT(60), <2>1 DEF ParentCannotWait, Orphaned
  <2> QED
    BY ZenonT(60), <2>1, <2>2 DEF IInv, NoZombieForgotten
<1> QED
  BY ZenonT(60), <1>1, <1>2, <1>3, <1>4, <1>5, <1>6, <1>7, <1>8, <1>9, Assembled DEF IInv,
     NoFailStop

\* The new child runs first, on its parent's core; the parent is Ready.
LEMMA CloneInstallKept ==
  ASSUME IInv, TypeOK', NEW c \in CPU, CloneInstall(c)
  PROVE  IInv'
<1> DEFINE q == cur[c]
           p == stk[c]
<1>n. /\ PlaceAt(c) /\ HeldAt(c) /\ OwnsAt(c) /\ pc[c] = "clone"
      /\ q # NoProc /\ q \in Proc /\ st[q] = "Constructing" /\ p # NoProc /\ p \in Proc
      /\ parent[q] = p /\ st[p] = "Running" /\ q # p
      /\ res[c] = NoProc /\ victim[c] = NoProc /\ deferred[c] = NoProc
  BY ZenonT(60), Names DEF CloneInstall, Goto, At, IInv, Cores, PlaceAt, HeldAt, Where, Bare,
     Reserving
<1>   /\ pc'[c] = "return" /\ \A d \in CPU \ {c} : pc'[d] = pc[d]
      /\ st'[p] = "Ready" /\ st'[q] = "Running" /\ \A r \in Proc \ {p, q} : st'[r] = st[r]
      /\ UNCHANGED <<waitFor, parent, owner, core0, cur, stk, res, deferred, victim, after, halted>>
      /\ parent \in [Proc -> Proc \cup {NoProc}] /\ core0 \subseteq Proc
  BY ZenonT(60), <1>n DEF CloneInstall, Goto, At, StateYield, IInv, TypeOK, waits, places, reaps
<1>1. Changes(c)
  BY ZenonT(60), <1>n DEF Changes, Others, Holds
<1>2. PlaceAt(c)'
  BY ZenonT(60), <1>n DEF PlaceAt, Where, Bare, OnOwn, Reserving
<1>3. HeldAt(c)' /\ OwnsAt(c)'
  BY ZenonT(60), <1>n DEF HeldAt, OwnsAt, Done
<1>4. Owners'
  <2>1. \A r \in Proc : st'[r] \in {"Free", "Constructing", "Reaping", "Gone"} => st'[r] = st[r]
    BY ZenonT(60)
  <2> QED
    BY ZenonT(60), <2>1 DEF IInv, Owners
<1>5. \A r \in Proc : Holds(c, r)' => Holds(c, r)
  BY ZenonT(60) DEF Holds
<1>6. \A r \in Proc : IsRunning(r)' => Holds(c, r)' \/ (IsRunning(r) /\ ~Holds(c, r))
  BY ZenonT(60), <1>n, Names DEF IsRunning, Holds
<1>7. Pinned'
  <2>1. \A r \in Proc : st'[r] = "Free" => st[r] = "Free"
    BY ZenonT(60)
  <2> QED
    BY ZenonT(60), <2>1 DEF IInv, Pinned
<1>8. NoLostWait'
  <2>1. \A r \in Proc : st'[r] \in {"Exited", "Blocked"} => st'[r] = st[r]
    BY ZenonT(60)
  <2> QED
    BY ZenonT(60), <2>1, WaitsKept DEF IInv
<1>9. NoZombieForgotten'
  <2>1. \A r \in Proc : st'[r] \in {"Exited", "Reaping"} => st'[r] = st[r]
    BY ZenonT(60)
  <2> QED
    BY ZenonT(60), <2>1, ZombiesKept DEF IInv
<1> QED
  BY ZenonT(60), <1>1, <1>2, <1>3, <1>4, <1>5, <1>6, <1>7, <1>8, <1>9, Assembled DEF IInv,
     NoFailStop

\* A clone that fails takes its half-built child down and runs on.
LEMMA CloneRollbackKept ==
  ASSUME IInv, TypeOK', NEW c \in CPU, CloneRollback(c)
  PROVE  IInv'
<1> DEFINE q == cur[c]
           p == stk[c]
<1>n. /\ PlaceAt(c) /\ HeldAt(c) /\ OwnsAt(c) /\ pc[c] = "clone"
      /\ q # NoProc /\ q \in Proc /\ st[q] = "Constructing" /\ p # NoProc /\ p \in Proc
      /\ parent[q] = p /\ st[p] = "Running" /\ q # p /\ owner[q] = NoCPU
      /\ res[c] = NoProc /\ victim[c] = NoProc /\ deferred[c] = NoProc
  BY ZenonT(60), Names DEF CloneRollback, Goto, At, IInv, Cores, PlaceAt, HeldAt, Where, Bare,
     Reserving, Owners
<1>   /\ pc'[c] = "remove" /\ cur'[c] = p /\ victim'[c] = q /\ after'[c] = "return"
      /\ \A d \in CPU \ {c} : /\ pc'[d] = pc[d] /\ cur'[d] = cur[d] /\ victim'[d] = victim[d]
                              /\ after'[d] = after[d]
      /\ st'[q] = "Reaping" /\ \A r \in Proc \ {q} : st'[r] = st[r]
      /\ parent'[q] = NoProc /\ \A r \in Proc \ {q} : parent'[r] = parent[r]
      /\ UNCHANGED <<waitFor, owner, core0, stk, res, deferred, halted>>
      /\ parent \in [Proc -> Proc \cup {NoProc}] /\ core0 \subseteq Proc
  <2>1. /\ pc \in [CPU -> PCs] /\ cur \in [CPU -> Proc \cup {NoProc}]
        /\ victim \in [CPU -> Proc \cup {NoProc}]
        /\ after \in [CPU -> {"idle", "user", "return", "exit"}] /\ st \in [Proc -> States]
        /\ parent \in [Proc -> Proc \cup {NoProc}] /\ core0 \subseteq Proc
    BY ZenonT(60) DEF IInv, TypeOK
  <2>2. /\ pc'[c] = "remove" /\ cur'[c] = p /\ victim'[c] = q /\ after'[c] = "return"
        /\ \A d \in CPU \ {c} : /\ pc'[d] = pc[d] /\ cur'[d] = cur[d] /\ victim'[d] = victim[d]
                                /\ after'[d] = after[d]
    BY ZenonT(60), <1>n, <2>1 DEF CloneRollback, Goto
  <2>3. /\ st'[q] = "Reaping" /\ \A r \in Proc \ {q} : st'[r] = st[r]
        /\ parent'[q] = NoProc /\ \A r \in Proc \ {q} : parent'[r] = parent[r]
    BY ZenonT(60), <1>n, <2>1 DEF CloneRollback
  <2> QED
    BY ZenonT(60), <2>1, <2>2, <2>3 DEF CloneRollback, waits, places
<1>c. \A r \in Proc : parent[r] # q
  BY ZenonT(60), <1>n DEF IInv, Owners
<1>1. Changes(c)
  BY ZenonT(60), <1>n DEF Changes, Others, Holds
<1>2. PlaceAt(c)'
  BY ZenonT(60), <1>n DEF PlaceAt, Where, Bare, OnOwn, Reserving
<1>3. HeldAt(c)' /\ OwnsAt(c)'
  BY ZenonT(150), <1>n DEF HeldAt, OwnsAt, Done
<1>4. Owners'
  <2>1. \A r \in Proc : parent'[r] # NoProc => st'[parent'[r]] \notin {"Free", "Constructing"}
    <3> SUFFICES ASSUME NEW r \in Proc, parent'[r] # NoProc
                 PROVE  st'[parent'[r]] \notin {"Free", "Constructing"}
      BY ZenonT(60)
    <3>1. r # q /\ parent'[r] = parent[r] /\ parent[r] \in Proc \ {q}
      BY ZenonT(60), <1>c
    <3> QED
      BY ZenonT(60), <3>1 DEF IInv, Owners
  <2>2. \A r \in Proc : st'[r] \in {"Free", "Constructing", "Reaping", "Gone"} => owner'[r] = NoCPU
    BY ZenonT(60), <1>n DEF IInv, Owners
  <2> QED
    BY ZenonT(60), <2>1, <2>2 DEF IInv, Owners
<1>5. \A r \in Proc : Holds(c, r)' => Holds(c, r)
  BY ZenonT(60), <1>n DEF Holds
<1>6. \A r \in Proc : IsRunning(r)' => Holds(c, r)' \/ (IsRunning(r) /\ ~Holds(c, r))
  BY ZenonT(60), <1>n, Names DEF IsRunning, Holds
<1>7. Pinned'
  <2>1. \A r \in core0 : st'[r] # "Free"
    BY ZenonT(60) DEF IInv, Pinned
  <2> QED
    BY SMTT(60), <1>n, <2>1, Names DEF IInv, Pinned
<1>8. NoLostWait'
  <2> SUFFICES ASSUME NEW r \in Proc, st'[r] = "Blocked", NEW k \in Proc, k \in Exits(r, waitFor[r])'
               PROVE  FALSE
    BY ZenonT(60) DEF NoLostWait, Exits, Children
  <2>1. k # q /\ r # q
    BY ZenonT(60) DEF Exits
  <2>2. k \in Exits(r, waitFor[r]) /\ st[r] = "Blocked"
    BY ZenonT(60), <2>1 DEF Exits, Children, Wanted
  <2> QED
    BY ZenonT(60), <2>2 DEF IInv, NoLostWait
<1>9. NoZombieForgotten'
  <2> SUFFICES ASSUME NEW r \in Proc, st'[r] = "Exited", owner'[r] = NoCPU, ParentCannotWait(r)'
               PROVE  \E d \in CPU : r \in {deferred'[d], victim'[d]}
    BY ZenonT(60) DEF NoZombieForgotten
  <2>1. r # q /\ ParentCannotWait(r)
    BY ZenonT(60), <1>c DEF ParentCannotWait, Orphaned
  <2>2. PICK d \in CPU : r \in {deferred[d], victim[d]}
    BY ZenonT(60), <2>1 DEF IInv, NoZombieForgotten
  <2> QED
    BY ZenonT(60), <1>n, <2>2, Names
<1> QED
  BY ZenonT(60), <1>1, <1>2, <1>3, <1>4, <1>5, <1>6, <1>7, <1>8, <1>9, Assembled DEF IInv,
     NoFailStop

\* The core turns to a zombie of its own: an exited process nobody stands on.
Turn(c, from, next, z) ==
    /\ <<from, next>> \in {<<"syscall", "return">>, <<"exit", "exit">>}
    /\ pc[c] = from /\ pc' = [pc EXCEPT ![c] = "reap"]
    /\ z \in Proc /\ st[z] = "Exited" /\ owner[z] = NoCPU
    /\ victim' = [victim EXCEPT ![c] = z]
    /\ after' = [after EXCEPT ![c] = next]
    /\ core0' \subseteq core0
    /\ UNCHANGED <<st, waits, parent, owner, mask, cur, stk, res, deferred, noteFor, halted>>

\* wait4 and exit pick a zombie child to reap.
LEMMA TurnKept ==
  ASSUME IInv, TypeOK', NEW c \in CPU, NEW from, NEW next, NEW z, Turn(c, from, next, z)
  PROVE  IInv'
<1>   /\ pc[c] = from /\ pc'[c] = "reap" /\ victim'[c] = z /\ after'[c] = next
      /\ (from = "syscall" /\ next = "return") \/ (from = "exit" /\ next = "exit")
      /\ \A d \in CPU \ {c} : pc'[d] = pc[d] /\ victim'[d] = victim[d] /\ after'[d] = after[d]
      /\ z \in Proc /\ st[z] = "Exited" /\ owner[z] = NoCPU /\ core0' \subseteq core0
      /\ UNCHANGED <<st, waitFor, parent, owner, cur, stk, res, deferred, halted>>
      /\ parent \in [Proc -> Proc \cup {NoProc}]
  BY ZenonT(150) DEF Turn, IInv, TypeOK, waits
<1>n. PlaceAt(c) /\ HeldAt(c) /\ OwnsAt(c) /\ victim[c] = NoProc /\ z # NoProc
  BY ZenonT(60), Names DEF IInv, Cores, PlaceAt
<1>1. Changes(c)
  BY ZenonT(60) DEF Changes, Others
<1>2. PlaceAt(c)'
  BY ZenonT(60), <1>n DEF PlaceAt, Where, Bare, OnOwn, Reserving
<1>3. HeldAt(c)'
  BY ZenonT(60), <1>n DEF HeldAt, Done, IsRunning
<1>o. OwnsAt(c)'
  BY ZenonT(60), <1>n DEF OwnsAt
<1>4. Owners'
  BY ZenonT(60) DEF IInv, Owners
<1>5. \A r \in Proc : Holds(c, r)' <=> Holds(c, r)
  BY ZenonT(60) DEF Holds
<1>6. \A r \in Proc : IsRunning(r)' => Holds(c, r)' \/ (IsRunning(r) /\ ~Holds(c, r))
  BY ZenonT(60), <1>5 DEF IsRunning
<1>7. Pinned'
  BY ZenonT(60) DEF IInv, Pinned
<1>8. NoLostWait'
  BY ZenonT(60), WaitsKept DEF IInv
<1>9. NoZombieForgotten'
  BY ZenonT(60), <1>n, Names, ZombiesKept DEF IInv
<1> QED
  BY ZenonT(60), <1>1, <1>2, <1>3, <1>o, <1>4, <1>5, <1>6, <1>7, <1>8, <1>9, Assembled DEF IInv,
     NoFailStop

\* The core is done with its victim, which is no zombie any more.
Finish(c) ==
    /\ pc[c] \in {"reap", "remove"} /\ st[victim[c]] # "Exited"
    /\ EndReap(c)
    /\ \A p \in Proc \ {victim[c]} : st'[p] = st[p]
    /\ st'[victim[c]] \in {st[victim[c]], "Gone"}
    /\ UNCHANGED <<waitFor, parent, owner, places, cur, stk, res, halted>>

\* The end of a reap, and a reap that came too late.
LEMMA FinishKept ==
  ASSUME IInv, TypeOK', NEW c \in CPU, Finish(c)
  PROVE  IInv'
<1> DEFINE v == victim[c]
<1>   /\ pc[c] \in {"reap", "remove"} /\ pc'[c] = after[c] /\ victim'[c] = NoProc
      /\ after[c] \in {"idle", "user", "return", "exit"}
      /\ \A d \in CPU \ {c} : pc'[d] = pc[d] /\ victim'[d] = victim[d] /\ after'[d] = after[d]
      /\ UNCHANGED <<waitFor, parent, owner, core0, cur, stk, res, deferred, halted>>
      /\ parent \in [Proc -> Proc \cup {NoProc}]
  BY SMTT(60) DEF Finish, EndReap, IInv, TypeOK, places
<1>n. PlaceAt(c) /\ HeldAt(c) /\ OwnsAt(c) /\ v # NoProc /\ v \in Proc
  BY ZenonT(60), Names DEF IInv, Cores, PlaceAt
<1>m. /\ res[c] = NoProc /\ deferred[c] = NoProc /\ st[v] \in {"Reaping", "Gone"} /\ owner[v] = NoCPU
      /\ cur[c] # v
  BY ZenonT(60), <1>n DEF PlaceAt, HeldAt, OwnsAt, Reserving, Finish, Done
<1>s. \A r \in Proc : st'[r] = st[r] \/ (r = v /\ st'[r] = "Gone")
  BY ZenonT(60), <1>n DEF Finish
<1>c. cur[c] # NoProc => st'[cur[c]] = "Running" /\ cur[c] \in Proc
  BY ZenonT(60), <1>n, <1>m, <1>s, Names DEF HeldAt, Done
<1>1. Changes(c)
  BY ZenonT(60), <1>m, <1>s DEF Changes, Others
<1>2. PlaceAt(c)'
  BY ZenonT(60), <1>n, <1>m DEF PlaceAt, Where, Bare, OnOwn, Reserving
<1>3. HeldAt(c)'
  BY ZenonT(60), <1>m, <1>c DEF HeldAt, Done
<1>o. OwnsAt(c)'
  BY ZenonT(60), <1>n DEF OwnsAt
<1>4. Owners'
  BY ZenonT(60), <1>m, <1>s DEF IInv, Owners
<1>5. \A r \in Proc : Holds(c, r)' <=> Holds(c, r)
  BY ZenonT(60) DEF Holds
<1>6. \A r \in Proc : IsRunning(r)' => Holds(c, r)' \/ (IsRunning(r) /\ ~Holds(c, r))
  BY ZenonT(60), <1>s, <1>5 DEF IsRunning
<1>7. Pinned'
  <2>1. \A r \in Proc : st'[r] = "Free" => st[r] = "Free"
    BY ZenonT(60), <1>s
  <2>2. core0 \subseteq Proc
    BY ZenonT(60) DEF IInv, TypeOK
  <2> QED
    BY ZenonT(60), <2>1, <2>2 DEF IInv, Pinned
<1>8. NoLostWait'
  <2>1. \A r \in Proc : st'[r] \in {"Exited", "Blocked"} => st'[r] = st[r]
    BY ZenonT(60), <1>s
  <2> QED
    BY ZenonT(60), <2>1, WaitsKept DEF IInv
<1>9. NoZombieForgotten'
  <2> SUFFICES ASSUME NEW r \in Proc, st'[r] = "Exited", owner'[r] = NoCPU, ParentCannotWait(r)'
               PROVE  \E d \in CPU : r \in {deferred'[d], victim'[d]}
    BY ZenonT(60) DEF NoZombieForgotten
  <2>1. st[r] = "Exited" /\ r # v /\ owner[r] = NoCPU
    BY ZenonT(60), <1>m, <1>s
  <2>2. ParentCannotWait(r)
    BY ZenonT(60), <1>s DEF ParentCannotWait, Orphaned
  <2>3. PICK d \in CPU : r \in {deferred[d], victim[d]}
    BY ZenonT(60), <2>1, <2>2 DEF IInv, NoZombieForgotten
  <2> QED
    BY ZenonT(60), <2>1, <2>3
<1> QED
  BY ZenonT(60), <1>1, <1>2, <1>3, <1>o, <1>4, <1>5, <1>6, <1>7, <1>8, <1>9, Assembled DEF IInv,
     NoFailStop

\* kernel_process_reap_zombie takes the zombie and unlinks it from its parent
\* and its children from it.
Unlink(c) ==
    LET v == victim[c]
    IN  /\ pc[c] = "reap" /\ pc' = [pc EXCEPT ![c] = "remove"] /\ st[v] = "Exited"
        /\ st' = [st EXCEPT ![v] = "Reaping"]
        /\ parent' = [q \in Proc |-> IF v \in {q, parent[q]} THEN NoProc ELSE parent[q]]
        /\ UNCHANGED <<waits, owner, places, cur, stk, res, deferred, victim, after, halted>>

\* kernel_process_reap_zombie: the zombie taken stands on no stack and is no
\* core's any more; its children become orphans on stacks still owned.
LEMMA UnlinkKept ==
  ASSUME IInv, TypeOK', NEW c \in CPU, Unlink(c)
  PROVE  IInv'
<1> DEFINE v == victim[c]
<1>n. /\ PlaceAt(c) /\ HeldAt(c) /\ OwnsAt(c) /\ v # NoProc /\ v \in Proc /\ owner[v] = NoCPU
      /\ res[c] = NoProc
  BY ZenonT(60), Names DEF Unlink, IInv, Cores, PlaceAt, OwnsAt, Reserving
<1>   /\ pc[c] = "reap" /\ pc'[c] = "remove" /\ \A d \in CPU \ {c} : pc'[d] = pc[d]
      /\ st[v] = "Exited" /\ st'[v] = "Reaping" /\ \A r \in Proc \ {v} : st'[r] = st[r]
      /\ \A r \in Proc : parent'[r] = IF r = v \/ parent[r] = v THEN NoProc ELSE parent[r]
      /\ UNCHANGED <<waitFor, owner, core0, cur, stk, res, deferred, victim, after, halted>>
      /\ parent \in [Proc -> Proc \cup {NoProc}] /\ core0 \subseteq Proc
      /\ after[c] \in {"idle", "user", "return", "exit"}
  BY ZenonT(60), <1>n DEF Unlink, IInv, TypeOK, waits, places
<1>c. cur[c] # NoProc => st'[cur[c]] = "Running" /\ cur[c] \in Proc
  BY ZenonT(60), <1>n, Names DEF HeldAt, Done
<1>1. Changes(c)
  BY ZenonT(60), <1>n DEF Changes, Others
<1>2. PlaceAt(c)'
  BY ZenonT(60), <1>n DEF PlaceAt, Where, Bare, OnOwn, Reserving
<1>3. HeldAt(c)'
  <2>1. deferred[c] = NoProc
    BY ZenonT(60), <1>n DEF PlaceAt
  <2> QED
    BY ZenonT(60), <1>n, <1>c, <2>1 DEF HeldAt, Done
<1>o. OwnsAt(c)'
  BY ZenonT(60), <1>n DEF OwnsAt
<1>4. Owners'
  <2>1. \A r \in Proc : parent'[r] # NoProc => parent'[r] = parent[r] /\ parent[r] \in Proc \ {v}
    BY ZenonT(60)
  <2> QED
    BY SMTT(60), <1>n, <2>1 DEF IInv, Owners
<1>5. \A r \in Proc : Holds(c, r)' <=> Holds(c, r)
  BY ZenonT(60) DEF Holds
<1>6. \A r \in Proc : IsRunning(r)' => Holds(c, r)' \/ (IsRunning(r) /\ ~Holds(c, r))
  BY ZenonT(60), <1>5 DEF IsRunning
<1>7. Pinned'
  BY ZenonT(60), <1>n DEF IInv, Pinned
<1>8. NoLostWait'
  <2> SUFFICES ASSUME NEW r \in Proc, st'[r] = "Blocked", NEW k \in Proc, k \in Exits(r, waitFor[r])'
               PROVE  FALSE
    BY ZenonT(60) DEF NoLostWait, Exits, Children
  <2>1. k # v /\ r # v /\ r # NoProc
    BY ZenonT(60), Names DEF Exits
  <2>2. k \in Exits(r, waitFor[r]) /\ st[r] = "Blocked"
    BY ZenonT(60), <2>1 DEF Exits, Children, Wanted
  <2> QED
    BY ZenonT(60), <2>2 DEF IInv, NoLostWait
<1>9. NoZombieForgotten'
  <2> SUFFICES ASSUME NEW r \in Proc, st'[r] = "Exited", owner'[r] = NoCPU, ParentCannotWait(r)'
               PROVE  \E d \in CPU : r \in {deferred'[d], victim'[d]}
    BY ZenonT(60) DEF NoZombieForgotten
  <2>1. r # v /\ st[r] = "Exited" /\ owner[r] = NoCPU
    BY ZenonT(60)
  <2>2. ParentCannotWait(r)
    <3>1. CASE parent[r] = v
      BY ZenonT(60), <1>n, <3>1 DEF ParentCannotWait
    <3>2. CASE parent[r] # v
      BY ZenonT(60), <2>1, <3>2 DEF ParentCannotWait, Orphaned
    <3> QED
      BY ZenonT(60), <3>1, <3>2
  <2> QED
    BY ZenonT(60), <2>1, <2>2 DEF IInv, NoZombieForgotten
<1> QED
  BY ZenonT(60), <1>1, <1>2, <1>3, <1>o, <1>4, <1>5, <1>6, <1>7, <1>8, <1>9, Assembled DEF IInv,
     NoFailStop

\* The current process p exits.  Its parent f, if it slept for p, is started
\* or left ready; q, when there is one, is reserved in p's place.
Leaving(c, f, q) ==
    LET p == cur[c]
    IN  /\ pc[c] = "exit" /\ Zombies(p, AnyChild) = {}
        /\ f = IF Woken(p) THEN parent[p] ELSE NoProc
        /\ st'[p] = "Exited"
        /\ \A r \in Proc \ {p, f, q} : st'[r] = st[r]
        /\ f # NoProc /\ f # q => st'[f] = "ReadyWait4"
        /\ \/ /\ q \in Proc \ {p} /\ owner[q] = NoCPU /\ CpuAllows(c, q)
              /\ q = f \/ IsReady(q)
              /\ st'[q] \in {"Running", "Resuming"}
              /\ res' = [res EXCEPT ![c] = q]
              /\ pc' \in {[pc EXCEPT ![c] = "exitReserved"], [pc EXCEPT ![c] = "exitReservedReap"]}
              /\ UNCHANGED <<cur, deferred>>
           \/ /\ q = NoProc
              /\ cur' = [cur EXCEPT ![c] = NoProc]
              /\ pc' = [pc EXCEPT ![c] = "leaveExit"]
              /\ deferred' \in {deferred, [deferred EXCEPT ![c] = p]}
              /\ UNCHANGED res
        /\ UNCHANGED <<waitFor, parent, owner, places, stk, victim, after, halted>>

\* kernel_process_child_exit: the parent that waits is woken, and the children
\* left behind still stand on their stacks.
LEMMA LeavingKept ==
  ASSUME IInv, TypeOK', NEW c \in CPU, NEW f, NEW q, Leaving(c, f, q)
  PROVE  IInv'
<1> DEFINE p == cur[c]
<1>t. /\ pc \in [CPU -> PCs] /\ cur \in [CPU -> Proc \cup {NoProc}]
      /\ res \in [CPU -> Proc \cup {NoProc}] /\ deferred \in [CPU -> Proc \cup {NoProc}]
      /\ parent \in [Proc -> Proc \cup {NoProc}] /\ core0 \subseteq Proc
      /\ owner \in [Proc -> CPU \cup {NoCPU}] /\ NoProc \notin Proc /\ NoCPU \notin CPU
  BY ZenonT(60), Names DEF IInv, TypeOK
<1>n. /\ PlaceAt(c) /\ HeldAt(c) /\ OwnsAt(c)
      /\ p # NoProc /\ p \in Proc /\ st[p] = "Running" /\ stk[c] = p /\ owner[p] = c
      /\ res[c] = NoProc /\ victim[c] = NoProc /\ deferred[c] = NoProc
  <2>1. PlaceAt(c) /\ HeldAt(c) /\ OwnsAt(c) /\ pc[c] = "exit"
    BY ZenonT(60) DEF IInv, Cores, Leaving
  <2>2. /\ p # NoProc /\ p \in Proc /\ stk[c] = p
        /\ res[c] = NoProc /\ victim[c] = NoProc /\ deferred[c] = NoProc
    BY ZenonT(60), <2>1, Names DEF PlaceAt, Where, Bare, OnOwn, Reserving
  <2> QED
    BY ZenonT(60), <2>1, <2>2 DEF HeldAt, OwnsAt, Done
<1>f. f # NoProc => f \in Proc \ {p} /\ st[f] = "Blocked" /\ f = parent[p]
  BY ZenonT(60), <1>t, <1>n DEF Leaving, Woken
<1>q. \/ /\ q \in Proc /\ q # NoProc /\ q # p /\ owner[q] = NoCPU /\ (c # Boot => q \notin core0)
         /\ (q = f /\ st[q] = "Blocked") \/ st[q] \in {"Ready", "ReadyWait4"}
         /\ st'[q] \in {"Running", "Resuming"} /\ res'[c] = q /\ cur'[c] = p
         /\ pc'[c] \in {"exitReserved", "exitReservedReap"} /\ deferred'[c] = NoProc
      \/ /\ q = NoProc /\ cur'[c] = NoProc /\ pc'[c] = "leaveExit" /\ res'[c] = NoProc
         /\ deferred'[c] \in {NoProc, p}
  <2>1. CASE q \in Proc \ {p}
    BY ZenonT(60), <1>t, <1>n, <1>f, <2>1 DEF Leaving, CpuAllows, IsReady
  <2>2. CASE q \notin Proc \ {p}
    BY ZenonT(60), <1>t, <1>n, <2>2 DEF Leaving
  <2> QED
    BY ZenonT(60), <2>1, <2>2
<1>   /\ pc[c] = "exit" /\ st'[p] = "Exited"
      /\ \A d \in CPU \ {c} : /\ pc'[d] = pc[d] /\ cur'[d] = cur[d] /\ res'[d] = res[d]
                              /\ deferred'[d] = deferred[d]
      /\ \A r \in Proc \ {p, f, q} : st'[r] = st[r]
      /\ f # NoProc /\ f # q => st'[f] = "ReadyWait4"
      /\ UNCHANGED <<waitFor, core0, parent, owner, stk, victim, after, halted>>
  BY ZenonT(60), <1>t DEF Leaving, places
<1>s. \A r \in Proc :
         \/ r = p
         \/ r = q /\ r # p
         \/ r = f /\ st[r] = "Blocked" /\ st'[r] = "ReadyWait4" /\ r # p /\ r # q
         \/ st'[r] = st[r] /\ r # p /\ r # q /\ r # f
  BY SMTT(60), <1>t, <1>f
<1>r. \A r \in Proc : r = q =>
         st[r] \in {"Blocked", "Ready", "ReadyWait4"} /\ owner[r] = NoCPU /\ st'[r] \in {"Running", "Resuming"}
  BY SMTT(60), <1>q, <1>t
<1>1. Changes(c)
  <2>1. Others(c)
    BY ZenonT(60) DEF Others
  <2>2. Holds(c, p)
    BY ZenonT(60) DEF Holds
  <2> QED
    BY ZenonT(60), <1>n, <1>s, <1>r, <2>1, <2>2 DEF Changes
<1>2. PlaceAt(c)'
  BY ZenonT(60), <1>n, <1>q DEF PlaceAt, Where, Bare, OnOwn, Reserving
<1>3. HeldAt(c)'
  BY ZenonT(60), <1>n, <1>q DEF HeldAt, Done, IsRunning
<1>o. OwnsAt(c)'
  BY ZenonT(60), <1>n, <1>q DEF OwnsAt
<1>4. Owners'
  <2>1. \A r \in Proc : st'[r] \in {"Free", "Constructing", "Reaping", "Gone"} => st'[r] = st[r]
    BY ZenonT(60), <1>s, <1>r
  <2> QED
    BY ZenonT(60), <1>t, <2>1 DEF IInv, Owners
<1>5. \A r \in Proc : Holds(c, r)' => Holds(c, r) \/ \A d \in CPU : ~Holds(d, r)
  <2>1. \A r \in Proc : r = q => \A d \in CPU : ~Holds(d, r)
    BY ZenonT(60), <1>r, Unheld
  <2>2. pc'[c] \notin {"leaveYield", "clone"}
    BY ZenonT(60), <1>q
  <2> QED
    BY SMTT(60), <1>q, <1>t, <2>1, <2>2 DEF Holds
<1>6. \A r \in Proc : IsRunning(r)' => Holds(c, r)' \/ (IsRunning(r) /\ ~Holds(c, r))
  <2>1. \A r \in Proc \ {p} : ~Holds(c, r)
    BY ZenonT(150), <1>n, <1>t DEF Holds
  <2>2. \A r \in Proc : r = q => Holds(c, r)'
    BY ZenonT(60), <1>q, <1>t DEF Holds
  <2> QED
    BY ZenonT(60), <1>s, <2>1, <2>2 DEF IsRunning
<1>7. Pinned'
  <2>1. \A r \in Proc : st'[r] = "Free" => st[r] = "Free"
    BY ZenonT(60), <1>s, <1>r
  <2>2. \A r \in core0 : st'[r] # "Free"
    BY ZenonT(60), <1>t, <2>1 DEF IInv, Pinned
  <2>3. c # Boot => \A r \in core0 : r # cur'[c] /\ r # res'[c] /\ pc'[c] # "clone"
    BY SMTT(60), <1>q, <1>t DEF IInv, Pinned
  <2> QED
    BY SMTT(60), <2>2, <2>3 DEF IInv, Pinned
<1>8. NoLostWait'
  <2> SUFFICES ASSUME NEW r \in Proc, st'[r] = "Blocked", NEW k \in Proc, k \in Exits(r, waitFor[r])'
               PROVE  FALSE
    BY ZenonT(60) DEF NoLostWait, Exits, Children
  <2>1. st[r] = "Blocked" /\ r # f
    BY ZenonT(60), <1>s, <1>r
  <2>2. CASE k = p
    <3>1. Woken(p) /\ parent[p] = r
      BY ZenonT(60), <1>t, <2>1, <2>2 DEF Exits, Children, Wanted, Woken
    <3> QED
      BY ZenonT(60), <2>1, <3>1 DEF Leaving
  <2>3. CASE k # p
    <3>1. st[k] = "Exited"
      BY ZenonT(60), <1>s, <1>r, <2>3 DEF Exits
    <3>2. k \in Exits(r, waitFor[r])
      BY ZenonT(60), <3>1 DEF Exits, Children, Wanted
    <3> QED
      BY ZenonT(60), <2>1, <3>2 DEF IInv, NoLostWait
  <2> QED
    BY ZenonT(60), <2>2, <2>3
<1>9. NoZombieForgotten'
  <2> SUFFICES ASSUME NEW r \in Proc, st'[r] = "Exited", owner'[r] = NoCPU, ParentCannotWait(r)'
               PROVE  \E d \in CPU : r \in {deferred'[d], victim'[d]}
    BY ZenonT(60) DEF NoZombieForgotten
  <2>1. r # p /\ st[r] = "Exited" /\ owner[r] = NoCPU
    BY ZenonT(60), <1>n, <1>s, <1>r, <1>t
  <2>2. parent[r] # p
    BY ZenonT(60), <2>1 DEF Leaving, Zombies, Exits, Children, Wanted
  <2>3. ParentCannotWait(r)
    BY ZenonT(60), <1>t, <1>s, <1>r, <2>2 DEF ParentCannotWait, Orphaned
  <2>4. PICK d \in CPU : r \in {deferred[d], victim[d]}
    BY ZenonT(60), <2>1, <2>3 DEF IInv, NoZombieForgotten
  <2> QED
    BY SMTT(60), <1>n, <1>t, <2>4
<1> QED
  BY ZenonT(60), <1>1, <1>2, <1>3, <1>o, <1>4, <1>5, <1>6, <1>7, <1>8, <1>9, Assembled DEF IInv,
     NoFailStop

-----------------------------------------------------------------------------
(* Every step keeps the types. *)

RecordTypes ==
    /\ st \in [Proc -> States]
    /\ wokenBy \in [Proc -> Proc \cup {NoProc}]
    /\ waitFor \in [Proc -> Proc \cup {NoProc, AnyChild}]
    /\ lastReaped \in [Proc -> Proc \cup {NoProc}]
    /\ parent \in [Proc -> Proc \cup {NoProc}]
    /\ owner \in [Proc -> CPU \cup {NoCPU}]
    /\ mask \in [Proc -> (SUBSET CPU) \ {{}}]
    /\ core0 \in SUBSET Proc

CoreTypes ==
    /\ pc \in [CPU -> PCs]
    /\ cur \in [CPU -> Proc \cup {NoProc}]
    /\ stk \in [CPU -> Proc \cup {NoProc}]
    /\ res \in [CPU -> Proc \cup {NoProc}]
    /\ deferred \in [CPU -> Proc \cup {NoProc}]
    /\ victim \in [CPU -> Proc \cup {NoProc}]
    /\ noteFor \in [CPU -> Proc \cup {NoProc}]
    /\ after \in [CPU -> {"idle", "user", "return", "exit"}]
    /\ halted \in Halts

\* Every step of a core keeps the types.
LEMMA TypeKept ==
  ASSUME IInv, NEW c \in CPU,
         \/ KernelStep(c) \/ SecondaryStart(c)
         \/ StackInterruptDepart(c) \/ Syscall(c) \/ Migrate(c)
  PROVE  TypeOK'
<1>t. TypeOK
  BY ZenonT(60) DEF IInv
<1>r. RecordTypes
  BY ZenonT(60), <1>t DEF TypeOK, RecordTypes
<1>c. CoreTypes
  BY ZenonT(60), <1>t DEF TypeOK, CoreTypes
<1>n. /\ NoProc \notin Proc /\ cur[c] \in Proc \cup {NoProc} /\ res[c] \in Proc \cup {NoProc}
      /\ stk[c] \in Proc \cup {NoProc} /\ parent \in [Proc -> Proc \cup {NoProc}]
      /\ pc[c] \in {"user", "syscall", "clone", "look", "exit"} => cur[c] \in Proc
      /\ pc[c] \in {"reap", "remove"} => victim[c] \in Proc
  BY ZenonT(60), Names DEF IInv, TypeOK, Cores, PlaceAt, Where, Bare
<1>h. Halts = {"no", "resume", "leaveExit", "leaveYield", "leaveBlocked", "deferredTwice", "reap"}
  BY ZenonT(60) DEF Halts
<1>v. {"Running", "Ready", "Blocked", "Exited", "Reaping", "ReadyWait4"} \subseteq States
  BY ZenonT(60) DEF States
<1>s. \A x \in States : StateStart(x) \in States /\ StateYield(x) \in States /\ StateSettle(x) \in States
  BY ZenonT(60) DEF States, StateStart, StateYield, StateSettle
<1>e. ASSUME NEW q \in Proc, Reserve(c, q)
      PROVE  st' \in [Proc -> States] /\ res' \in [CPU -> Proc \cup {NoProc}]
  BY ZenonT(60), <1>r, <1>c, <1>s, <1>e DEF Reserve, RecordTypes, CoreTypes
<1>x. ASSUME NEW from, NEW z \in Proc, NEW next \in {"return", "exit"}, ReapNext(c, from, z, next)
      PROVE  CoreTypes'
  <2>1. pc' \in [CPU -> PCs]
    BY ZenonT(60), <1>c, <1>x DEF ReapNext, PCs, Goto, CoreTypes
  <2>2. /\ victim' \in [CPU -> Proc \cup {NoProc}]
        /\ after' \in [CPU -> {"idle", "user", "return", "exit"}]
    BY ZenonT(60), <1>c, <1>x DEF ReapNext, CoreTypes
  <2> QED
    BY ZenonT(60), <1>c, <1>x, <2>1, <2>2 DEF ReapNext, CoreTypes
<1>1. ASSUME SecondaryStart(c) PROVE TypeOK'
  <2>1. RecordTypes'
    BY ZenonT(60), <1>r, <1>e, <1>1 DEF SecondaryStart, RecordTypes, waits, places
  <2>2. CoreTypes'
    BY ZenonT(60), <1>c, <1>e, <1>1 DEF SecondaryStart, PCs, Goto, CoreTypes, reaps
  <2> QED
    BY ZenonT(60), <2>1, <2>2 DEF TypeOK, RecordTypes, CoreTypes
<1>2. ASSUME SecondaryCancel(c) PROVE TypeOK'
  <2>1. RecordTypes'
    BY ZenonT(60), <1>r, <1>s, <1>2 DEF SecondaryCancel, Cancel, Goto, At, RecordTypes, waits,
       places,
       reaps
  <2>2. CoreTypes'
    BY ZenonT(60), <1>c, <1>s, <1>2 DEF SecondaryCancel, Cancel, PCs, Goto, At, CoreTypes, waits,
       places, reaps
  <2> QED
    BY ZenonT(60), <2>1, <2>2 DEF TypeOK, RecordTypes, CoreTypes
<1>3. ASSUME SecondaryCommit(c) PROVE TypeOK'
  <2>1. RecordTypes'
    BY ZenonT(60), <1>r, <1>n, <1>s, <1>3 DEF SecondaryCommit, Goto, At, RecordTypes, waits, places,
       reaps
  <2>2. CoreTypes'
    BY ZenonT(60), <1>c, <1>n, <1>s, <1>3 DEF SecondaryCommit, PCs, Goto, At, CoreTypes, waits,
       places,
       reaps
  <2> QED
    BY ZenonT(60), <2>1, <2>2 DEF TypeOK, RecordTypes, CoreTypes
<1>4. ASSUME StackSwitchTake(c) PROVE TypeOK'
  <2>1. RecordTypes'
    <3>1. \/ owner' = owner
          \/ owner' = [owner EXCEPT ![cur[c]] = c]
          \/ owner' = [[owner EXCEPT ![stk[c]] = NoCPU] EXCEPT ![cur[c]] = c]
      BY ZenonT(60), <1>4 DEF StackSwitchTake, Halt
    <3>2. owner' \in [Proc -> CPU \cup {NoCPU}]
      BY ZenonT(60), <1>r, <3>1 DEF RecordTypes
    <3> QED
      BY ZenonT(60), <1>r, <1>4, <3>2 DEF StackSwitchTake, Halt, RecordTypes, waits, places
  <2>2. CoreTypes'
    BY SMTT(60), <1>c, <1>h, <1>n, <1>4 DEF StackSwitchTake, Halt, ThenReap, OrphanDefer, PCs,
       Goto, At,
       CoreTypes, waits, places, reaps
  <2> QED
    BY ZenonT(60), <2>1, <2>2 DEF TypeOK, RecordTypes, CoreTypes
<1>5. ASSUME StackIdleComplete(c) PROVE TypeOK'
  <2>1. RecordTypes'
    BY ZenonT(60), <1>r, <1>h, <1>n, <1>5 DEF StackIdleComplete, Halt, Leave, Goto, At, RecordTypes,
       waits, places, reaps
  <2>2. CoreTypes'
    BY ZenonT(150), <1>c, <1>h, <1>n, <1>5 DEF StackIdleComplete, Halt, Leave, ThenReap,
       OrphanDefer, PCs, Goto, At, CoreTypes, waits, places, reaps
  <2> QED
    BY ZenonT(60), <2>1, <2>2 DEF TypeOK, RecordTypes, CoreTypes
<1>6. ASSUME StackIdleYield(c) PROVE TypeOK'
  <2>1. RecordTypes'
    BY SMTT(60), <1>r, <1>h, <1>s, <1>6 DEF StackIdleYield, Halt, Leave, Goto, At, RecordTypes,
       waits,
       places, reaps
  <2>2. CoreTypes'
    BY ZenonT(60), <1>c, <1>h, <1>s, <1>6 DEF StackIdleYield, Halt, Leave, PCs, Goto, At, CoreTypes,
       waits, places, reaps
  <2> QED
    BY ZenonT(60), <2>1, <2>2 DEF TypeOK, RecordTypes, CoreTypes
<1>7. ASSUME StackIdleBlocked(c) PROVE TypeOK'
  <2>1. RecordTypes'
    BY ZenonT(60), <1>r, <1>h, <1>s, <1>7 DEF StackIdleBlocked, Halt, Leave, Goto, At, RecordTypes,
       waits, places, reaps
  <2>2. CoreTypes'
    BY ZenonT(60), <1>c, <1>h, <1>s, <1>7 DEF StackIdleBlocked, Halt, Leave, PCs, Goto, At,
       CoreTypes,
       waits, places, reaps
  <2> QED
    BY ZenonT(60), <2>1, <2>2 DEF TypeOK, RecordTypes, CoreTypes
<1>8. ASSUME StackInterruptDepart(c) PROVE TypeOK'
  <2>1. RecordTypes'
    BY ZenonT(60), <1>r, <1>n, <1>8 DEF StackInterruptDepart, Goto, At, RecordTypes, waits,
       places, reaps
  <2>2. CoreTypes'
    BY ZenonT(60), <1>c, <1>n, <1>8 DEF StackInterruptDepart, PCs, Goto, At, CoreTypes, waits,
       places,
       reaps
  <2> QED
    BY ZenonT(60), <2>1, <2>2 DEF TypeOK, RecordTypes, CoreTypes
<1>9. ASSUME IrqReturn(c) PROVE TypeOK'
  <2>1. RecordTypes'
    BY ZenonT(60), <1>r, <1>n, <1>9 DEF IrqReturn, Goto, At, RecordTypes, waits, places, reaps
  <2>2. CoreTypes'
    BY ZenonT(60), <1>c, <1>n, <1>9 DEF IrqReturn, PCs, Goto, At, CoreTypes, waits, places, reaps
  <2> QED
    BY ZenonT(60), <2>1, <2>2 DEF TypeOK, RecordTypes, CoreTypes
<1>10. ASSUME TickLeaveExcluded(c) PROVE TypeOK'
  <2>1. RecordTypes'
    BY ZenonT(60), <1>r, <1>n, <1>s, <1>10 DEF TickLeaveExcluded, Goto, At, RecordTypes, waits,
       places,
       reaps
  <2>2. CoreTypes'
    BY ZenonT(60), <1>c, <1>n, <1>s, <1>10 DEF TickLeaveExcluded, PCs, Goto, At, CoreTypes, waits,
       places, reaps
  <2> QED
    BY ZenonT(60), <2>1, <2>2 DEF TypeOK, RecordTypes, CoreTypes
<1>11. ASSUME Syscall(c) PROVE TypeOK'
  <2>1. RecordTypes'
    BY ZenonT(60), <1>r, <1>n, <1>11 DEF Syscall, Goto, At, RecordTypes, waits, places, reaps
  <2>2. CoreTypes'
    BY ZenonT(60), <1>c, <1>n, <1>11 DEF Syscall, PCs, Goto, At, CoreTypes, waits, places, reaps
  <2> QED
    BY ZenonT(60), <2>1, <2>2 DEF TypeOK, RecordTypes, CoreTypes
<1>12. ASSUME Migrate(c) PROVE TypeOK'
  <2>1. RecordTypes'
    BY ZenonT(60), <1>r, <1>n, <1>12 DEF Migrate, Goto, At, RecordTypes, waits, places, reaps
  <2>2. CoreTypes'
    BY ZenonT(60), <1>c, <1>n, <1>12 DEF Migrate, PCs, Goto, At, CoreTypes, waits, places, reaps
  <2> QED
    BY ZenonT(60), <2>1, <2>2 DEF TypeOK, RecordTypes, CoreTypes
<1>13. ASSUME SyscallDone(c) PROVE TypeOK'
  <2>1. RecordTypes'
    BY ZenonT(60), <1>r, <1>n, <1>13 DEF SyscallDone, Unpin, Goto, At, RecordTypes, waits, places,
       reaps
  <2>2. CoreTypes'
    BY ZenonT(60), <1>c, <1>n, <1>13 DEF SyscallDone, PCs, Goto, At, CoreTypes, waits, places, reaps
  <2> QED
    BY ZenonT(60), <2>1, <2>2 DEF TypeOK, RecordTypes, CoreTypes
<1>14. ASSUME AffinitySet(c) PROVE TypeOK'
  <2>1. RecordTypes'
    <3>1. \E q \in Proc : \E m \in (SUBSET CPU) \ {{}} : mask' = [mask EXCEPT ![q] = m]
      BY ZenonT(60), ProcessAssumption, <1>14 DEF AffinitySet
    <3>2. mask' \in [Proc -> (SUBSET CPU) \ {{}}]
      BY ZenonT(60), <1>r, <3>1 DEF RecordTypes
    <3> QED
      BY ZenonT(60), <1>r, <1>14, <3>2 DEF AffinitySet, Unpin, RecordTypes, waits
  <2>2. CoreTypes'
    BY ZenonT(60), <1>c, <1>14 DEF AffinitySet, PCs, Goto, CoreTypes, reaps
  <2> QED
    BY ZenonT(60), <2>1, <2>2 DEF TypeOK, RecordTypes, CoreTypes
<1>15. ASSUME CloneBegin(c) PROVE TypeOK'
  <2>1. RecordTypes'
    <3>1. cur[c] \in Proc
      BY ZenonT(60), <1>n, <1>15 DEF CloneBegin, Goto, At
    <3>2. st' \in [Proc -> States]
      BY ZenonT(60), <1>r, <1>15 DEF CloneBegin, States, RecordTypes
    <3>3. parent' \in [Proc -> Proc \cup {NoProc}] /\ mask' \in [Proc -> (SUBSET CPU) \ {{}}]
      BY ZenonT(60), <1>r, <1>15, <3>1 DEF CloneBegin, RecordTypes
    <3> QED
      BY ZenonT(60), <1>r, <1>15, <3>2, <3>3 DEF CloneBegin, Unpin, RecordTypes, waits
  <2>2. CoreTypes'
    <3>1. pc' \in [CPU -> PCs]
      BY ZenonT(60), <1>c, <1>15 DEF CloneBegin, PCs, Goto, CoreTypes
    <3>2. cur' \in [CPU -> Proc \cup {NoProc}]
      BY ZenonT(60), <1>c, <1>15 DEF CloneBegin, CoreTypes
    <3> QED
      BY ZenonT(60), <1>c, <1>15, <3>1, <3>2 DEF CloneBegin, CoreTypes, reaps
  <2> QED
    BY ZenonT(60), <2>1, <2>2 DEF TypeOK, RecordTypes, CoreTypes
<1>16. ASSUME CloneInstall(c) PROVE TypeOK'
  <2>1. RecordTypes'
    <3>1. st' = [[st EXCEPT ![parent[cur[c]]] = StateYield(@)] EXCEPT ![cur[c]] = "Running"]
      BY ZenonT(60), <1>16 DEF CloneInstall
    <3>2. st' \in [Proc -> States]
      BY ZenonT(60), <1>r, <1>s, <1>v, <3>1 DEF RecordTypes
    <3> QED
      BY ZenonT(60), <1>r, <1>16, <3>2 DEF CloneInstall, RecordTypes, waits, places
  <2>2. CoreTypes'
    BY ZenonT(60), <1>c, <1>n, <1>s, <1>16 DEF CloneInstall, PCs, Goto, At, CoreTypes, waits,
       places,
       reaps
  <2> QED
    BY ZenonT(60), <2>1, <2>2 DEF TypeOK, RecordTypes, CoreTypes
<1>17. ASSUME CloneRollback(c) PROVE TypeOK'
  <2>1. RecordTypes'
    BY ZenonT(60), <1>r, <1>n, <1>17 DEF CloneRollback, States, Goto, At, RecordTypes, waits,
       places,
       reaps
  <2>2. CoreTypes'
    BY ZenonT(60), <1>c, <1>n, <1>17 DEF CloneRollback, PCs, Goto, At, CoreTypes, waits, places,
       reaps
  <2> QED
    BY ZenonT(60), <2>1, <2>2 DEF TypeOK, RecordTypes, CoreTypes
<1>18. ASSUME Wait4Collect(c) PROVE TypeOK'
  <2>1. RecordTypes'
    BY ZenonT(60), <1>r, <1>n, <1>18 DEF Wait4Collect, ReapNext, Unpin, Goto, At, RecordTypes,
       waits,
       places, reaps
  <2>2. CoreTypes'
    <3>1. \E z \in Proc : ReapNext(c, "syscall", z, "return")
      BY ZenonT(60), <1>18 DEF Wait4Collect, Zombies, Exits, Children
    <3> QED
      BY ZenonT(60), <1>x, <3>1
  <2> QED
    BY ZenonT(60), <2>1, <2>2 DEF TypeOK, RecordTypes, CoreTypes
<1>19. ASSUME Wait4Sleep(c) PROVE TypeOK'
  <2>1. RecordTypes'
    <3>1. cur[c] \in Proc /\ lastReaped[cur[c]] \in Proc \cup {NoProc}
      BY ZenonT(60), <1>r, <1>n, <1>19 DEF Wait4Sleep, Goto, At, RecordTypes
    <3>2. \E w \in Proc \cup {AnyChild, NoProc} : waitFor' = [waitFor EXCEPT ![cur[c]] = w]
      BY ZenonT(60), <1>19, <3>1 DEF Wait4Sleep, Children
    <3>3. waitFor' \in [Proc -> Proc \cup {NoProc, AnyChild}]
      BY ZenonT(150), <1>r, <3>2 DEF RecordTypes
    <3> QED
      BY ZenonT(60), <1>r, <1>19, <3>3 DEF Wait4Sleep, RecordTypes, places
  <2>2. CoreTypes'
    BY ZenonT(60), <1>c, <1>n, <1>19 DEF Wait4Sleep, PCs, Goto, At, CoreTypes, waits, places, reaps
  <2> QED
    BY ZenonT(60), <2>1, <2>2 DEF TypeOK, RecordTypes, CoreTypes
<1>20. ASSUME BlockWait4(c) PROVE TypeOK'
  <2>1. RecordTypes'
    BY ZenonT(60), <1>r, <1>n, <1>20 DEF BlockWait4, Goto, At, RecordTypes, waits, places, reaps
  <2>2. CoreTypes'
    BY ZenonT(60), <1>c, <1>n, <1>20 DEF BlockWait4, PCs, Goto, At, CoreTypes, waits, places, reaps
  <2> QED
    BY ZenonT(60), <2>1, <2>2 DEF TypeOK, RecordTypes, CoreTypes
<1>21. ASSUME BlockCurrent(c) PROVE TypeOK'
  <2>1. RecordTypes'
    <3>1. \/ \E q \in Proc : Reserve(c, q)
          \/ st' = st
          \/ st' = [st EXCEPT ![cur[c]] = "Blocked"]
      BY ZenonT(60), <1>21 DEF BlockCurrent, NextReady
    <3>2. st' \in [Proc -> States]
      BY ZenonT(60), <1>r, <1>v, <1>e, <3>1 DEF RecordTypes
    <3> QED
      BY ZenonT(60), <1>r, <1>21, <3>2 DEF BlockCurrent, RecordTypes, waits, places
  <2>2. CoreTypes'
    <3>1. res' = res \/ \E q \in Proc : res' = [res EXCEPT ![c] = q]
      BY ZenonT(60), <1>21 DEF BlockCurrent, NextReady, Reserve
    <3>2. res' \in [CPU -> Proc \cup {NoProc}]
      BY ZenonT(60), <1>c, <3>1 DEF CoreTypes
    <3>3. pc' \in [CPU -> PCs] /\ cur' \in [CPU -> Proc \cup {NoProc}]
      BY ZenonT(60), <1>c, <1>21 DEF BlockCurrent, PCs, Goto, CoreTypes
    <3> QED
      BY ZenonT(60), <1>c, <1>21, <3>2, <3>3 DEF BlockCurrent, CoreTypes, reaps
  <2> QED
    BY ZenonT(60), <2>1, <2>2 DEF TypeOK, RecordTypes, CoreTypes
<1>22. ASSUME BlockCommit(c) PROVE TypeOK'
  <2>1. RecordTypes'
    BY ZenonT(60), <1>r, <1>n, <1>s, <1>v, <1>22 DEF BlockCommit, Goto, At, RecordTypes, waits,
       places,
       reaps
  <2>2. CoreTypes'
    BY ZenonT(60), <1>c, <1>n, <1>s, <1>v, <1>22 DEF BlockCommit, PCs, Goto, At, CoreTypes, waits,
       places, reaps
  <2> QED
    BY ZenonT(60), <2>1, <2>2 DEF TypeOK, RecordTypes, CoreTypes
<1>23. ASSUME BlockCancel(c) PROVE TypeOK'
  <2>1. RecordTypes'
    BY ZenonT(60), <1>r, <1>s, <1>23 DEF BlockCancel, Cancel, Goto, At, RecordTypes, waits,
       places, reaps
  <2>2. CoreTypes'
    BY ZenonT(60), <1>c, <1>s, <1>23 DEF BlockCancel, Cancel, PCs, Goto, At, CoreTypes, waits,
       places,
       reaps
  <2> QED
    BY ZenonT(60), <2>1, <2>2 DEF TypeOK, RecordTypes, CoreTypes
<1>24. ASSUME Exit(c) PROVE TypeOK'
  <2>1. RecordTypes'
    BY ZenonT(60), <1>r, <1>n, <1>24 DEF Exit, Goto, At, RecordTypes, waits, places, reaps
  <2>2. CoreTypes'
    BY ZenonT(60), <1>c, <1>n, <1>24 DEF Exit, PCs, Goto, At, CoreTypes, waits, places, reaps
  <2> QED
    BY ZenonT(60), <2>1, <2>2 DEF TypeOK, RecordTypes, CoreTypes
<1>25. ASSUME ExitDrain(c) PROVE TypeOK'
  <2>1. RecordTypes'
    BY ZenonT(60), <1>r, <1>n, <1>25 DEF ExitDrain, ReapNext, Goto, At, RecordTypes, waits,
       places, reaps
  <2>2. CoreTypes'
    <3>1. \E z \in Proc : ReapNext(c, "exit", z, "exit")
      BY ZenonT(60), <1>25 DEF ExitDrain, Zombies, Exits, Children
    <3> QED
      BY ZenonT(60), <1>x, <3>1
  <2> QED
    BY ZenonT(60), <2>1, <2>2 DEF TypeOK, RecordTypes, CoreTypes
<1>26. ASSUME ChildExit(c) PROVE TypeOK'
  <2>1. ExitStates(c, cur[c]) \in [Proc -> States]
    BY ZenonT(60), <1>r, <1>v DEF ExitStates, RecordTypes
  <2>2. st' \in [Proc -> States]
    <3>1. \/ \E q : st' = [ExitStates(c, cur[c]) EXCEPT ![q] = StateStart(@)]
          \/ st' = ExitStates(c, cur[c])
      BY ZenonT(60), <1>26 DEF ChildExit
    <3> QED
      BY ZenonT(60), <1>s, <2>1, <3>1
  <2>3. wokenBy' \in [Proc -> Proc \cup {NoProc}]
    BY ZenonT(60), <1>r, <1>n, <1>26 DEF ChildExit, RecordTypes
  <2>4. RecordTypes'
    BY ZenonT(60), <1>r, <1>26, <2>2, <2>3 DEF ChildExit, RecordTypes, places
  <2>5. Successors(c, cur[c]) \subseteq Proc \cup {NoProc}
    <3>1. ParentNext(c, cur[c]) => parent[cur[c]] \in Proc \cup {NoProc}
      BY ZenonT(60), <1>n, <1>26 DEF ChildExit, At
    <3>2. {q \in Rotation(c, cur[c]) : ReadyTake(q)} \subseteq Proc \cup {NoProc}
      BY ZenonT(60), <1>n, <1>26 DEF ChildExit, At, Rotation, NextReady
    <3> QED
      BY ZenonT(60), <3>1, <3>2 DEF Successors
  <2>6. CoreTypes'
    <3>1. res' \in [CPU -> Proc \cup {NoProc}]
      <4>1. res' = res \/ \E q \in Proc \cup {NoProc} : res' = [res EXCEPT ![c] = q]
        BY ZenonT(60), <1>26, <2>5 DEF ChildExit
      <4> QED
        BY ZenonT(60), <1>c, <4>1 DEF CoreTypes
    <3>2. pc' \in [CPU -> PCs]
      BY ZenonT(60), <1>c, <1>26 DEF ChildExit, CoreTypes, PCs
    <3>3. deferred' \in [CPU -> Proc \cup {NoProc}] /\ cur' \in [CPU -> Proc \cup {NoProc}]
      BY ZenonT(60), <1>c, <1>n, <1>26 DEF ChildExit, CoreTypes
    <3>4. halted' \in Halts
      BY ZenonT(60), <1>c, <1>h, <1>26 DEF ChildExit, CoreTypes
    <3> QED
      BY ZenonT(60), <1>c, <1>26, <3>1, <3>2, <3>3, <3>4 DEF ChildExit, CoreTypes
  <2> QED
    BY ZenonT(60), <2>4, <2>6 DEF TypeOK, RecordTypes, CoreTypes
<1>27. ASSUME ExitCommit(c) PROVE TypeOK'
  <2>1. RecordTypes'
    BY ZenonT(60), <1>r, <1>h, <1>n, <1>s, <1>27 DEF ExitCommit, Goto, At, RecordTypes, waits,
       places,
       reaps
  <2>2. CoreTypes'
    BY ZenonT(60), <1>c, <1>h, <1>n, <1>s, <1>27 DEF ExitCommit, PCs, Goto, At, CoreTypes, waits,
       places, reaps
  <2> QED
    BY ZenonT(60), <2>1, <2>2 DEF TypeOK, RecordTypes, CoreTypes
<1>28. ASSUME ExitCancel(c) PROVE TypeOK'
  <2>1. RecordTypes'
    BY ZenonT(60), <1>r, <1>s, <1>28 DEF ExitCancel, Cancel, Goto, At, RecordTypes, waits, places,
       reaps
  <2>2. CoreTypes'
    BY ZenonT(60), <1>c, <1>s, <1>28 DEF ExitCancel, Cancel, PCs, Goto, At, CoreTypes, waits,
       places,
       reaps
  <2> QED
    BY ZenonT(60), <2>1, <2>2 DEF TypeOK, RecordTypes, CoreTypes
<1>29. ASSUME ReapTake(c) PROVE TypeOK'
  <2>1. RecordTypes'
    <3>1. st' = st \/ st' = [st EXCEPT ![victim[c]] = "Reaping"]
      BY ZenonT(60), <1>29 DEF ReapTake
    <3>2. \/ parent' = parent
          \/ parent' = [q \in Proc |-> IF victim[c] \in {q, parent[q]} THEN NoProc ELSE parent[q]]
      BY ZenonT(60), <1>29 DEF ReapTake
    <3>3. parent' \in [Proc -> Proc \cup {NoProc}]
      BY SMTT(60), <1>n, <3>2
    <3>4. st' \in [Proc -> States]
      BY ZenonT(60), <1>r, <1>v, <3>1 DEF RecordTypes
    <3>5. UNCHANGED <<waits, owner, places>>
      BY ZenonT(60), <1>29 DEF ReapTake
    <3> QED
      BY ZenonT(60), <1>r, <3>3, <3>4, <3>5 DEF RecordTypes, waits, places
  <2>2. CoreTypes'
    <3>1. pc' \in [CPU -> PCs] /\ after' \in [CPU -> {"idle", "user", "return", "exit"}]
      <4>1. \/ pc' = [pc EXCEPT ![c] = after[c]] /\ after' = [after EXCEPT ![c] = "idle"]
            \/ pc' = [pc EXCEPT ![c] = "remove"] /\ after' = after
        BY ZenonT(60), <1>29 DEF ReapTake, EndReap
      <4>2. after[c] \in PCs /\ "remove" \in PCs
        BY ZenonT(60), <1>c DEF CoreTypes, PCs
      <4> QED
        BY ZenonT(60), <1>c, <4>1, <4>2 DEF CoreTypes
    <3>2. victim' \in [CPU -> Proc \cup {NoProc}] /\ noteFor' \in [CPU -> Proc \cup {NoProc}]
      <4>1. victim[c] \in Proc
        BY ZenonT(60), <1>n, <1>29 DEF ReapTake, At
      <4>2. \/ victim' = [victim EXCEPT ![c] = NoProc] /\ noteFor' = [noteFor EXCEPT ![c] = NoProc]
            \/ /\ victim' = victim
               /\ \E q \in {NoProc, parent[victim[c]]} : noteFor' = [noteFor EXCEPT ![c] = q]
        BY ZenonT(60), <1>29 DEF ReapTake, EndReap
      <4>3. parent[victim[c]] \in Proc \cup {NoProc}
        BY ZenonT(60), <1>n, <4>1
      <4> QED
        BY ZenonT(60), <1>c, <4>2, <4>3 DEF CoreTypes
    <3>3. halted' \in Halts
      BY ZenonT(60), <1>c, <1>h, <1>29 DEF ReapTake, CoreTypes
    <3> QED
      BY ZenonT(60), <1>c, <1>29, <3>1, <3>2, <3>3 DEF ReapTake, EndReap, CoreTypes
  <2> QED
    BY ZenonT(60), <2>1, <2>2 DEF TypeOK, RecordTypes, CoreTypes
<1>30. ASSUME ReapRemove(c) PROVE TypeOK'
  <2>1. RecordTypes'
    BY ZenonT(60), <1>r, <1>n, <1>30 DEF ReapRemove, EndReap, States, Goto, At, RecordTypes, waits,
       places, reaps
  <2>2. CoreTypes'
    BY ZenonT(60), <1>c, <1>n, <1>30 DEF ReapRemove, EndReap, PCs, Goto, At, CoreTypes, waits,
       places,
       reaps
  <2> QED
    BY ZenonT(60), <2>1, <2>2 DEF TypeOK, RecordTypes, CoreTypes
<1>31. ASSUME Core0LeaveExcluded(c) PROVE TypeOK'
  <2>1. RecordTypes'
    BY ZenonT(60), <1>r, <1>n, <1>31 DEF Core0LeaveExcluded, Goto, At, RecordTypes, waits, places,
       reaps
  <2>2. CoreTypes'
    BY ZenonT(60), <1>c, <1>n, <1>31 DEF Core0LeaveExcluded, PCs, Goto, At, CoreTypes, waits,
       places, reaps
  <2> QED
    BY ZenonT(60), <2>1, <2>2 DEF TypeOK, RecordTypes, CoreTypes
<1>32. ASSUME NEW from, NEW to \in PCs, Schedule(c, from, to) PROVE TypeOK'
  <2>1. RecordTypes'
    BY ZenonT(60), <1>r, <1>e, <1>32 DEF Schedule, NextReady, RecordTypes, waits, places
  <2>2. CoreTypes'
    BY ZenonT(60), <1>c, <1>e, <1>32 DEF Schedule, NextReady, Goto, CoreTypes, reaps
  <2> QED
    BY ZenonT(60), <2>1, <2>2 DEF TypeOK, RecordTypes, CoreTypes
<1>33. ASSUME NEW from, NEW to \in PCs, ScheduleCancel(c, from, to) PROVE TypeOK'
  <2>1. RecordTypes'
    BY ZenonT(60), <1>r, <1>s, <1>33 DEF ScheduleCancel, Cancel, Goto, At, RecordTypes, waits,
       places,
       reaps
  <2>2. CoreTypes'
    BY ZenonT(60), <1>c, <1>s, <1>33 DEF ScheduleCancel, Cancel, Goto, At, CoreTypes, waits, places,
       reaps
  <2> QED
    BY ZenonT(60), <2>1, <2>2 DEF TypeOK, RecordTypes, CoreTypes
<1>34. ASSUME NEW from, NEW to \in PCs, ScheduleRollover(c, from, to) PROVE TypeOK'
  <2>1. RecordTypes'
    BY ZenonT(60), <1>r, <1>n, <1>s, <1>v, <1>34 DEF ScheduleRollover, Goto, At, RecordTypes, waits,
       places, reaps
  <2>2. CoreTypes'
    BY ZenonT(60), <1>c, <1>n, <1>s, <1>v, <1>34 DEF ScheduleRollover, Goto, At, CoreTypes, waits,
       places, reaps
  <2> QED
    BY ZenonT(60), <2>1, <2>2 DEF TypeOK, RecordTypes, CoreTypes
<1>35. ASSUME NEW from, ScheduleCommit(c, from) PROVE TypeOK'
  <2>1. RecordTypes'
    BY ZenonT(60), <1>r, <1>n, <1>s, <1>35 DEF ScheduleCommit, Goto, At, RecordTypes, waits, places,
       reaps
  <2>2. CoreTypes'
    BY ZenonT(60), <1>c, <1>n, <1>35 DEF ScheduleCommit, Goto, At, CoreTypes, PCs, waits, places,
       reaps
  <2> QED
    BY ZenonT(60), <2>1, <2>2 DEF TypeOK, RecordTypes, CoreTypes
<1>36. ASSUME Tick(c) PROVE TypeOK'
  BY ZenonT(60), <1>32, <1>33, <1>34, <1>35, <1>36 DEF Tick, PCs
<1>37. ASSUME SyscallReturn(c) PROVE TypeOK'
  <2>1. ASSUME /\ Goto(c, "return", "resume") \/ Goto(c, "returnStay", "resume")
               /\ UNCHANGED <<st, waits, parent, owner, places, cur, stk, res, reaps, halted>>
        PROVE  TypeOK'
    BY SMTT(60), <1>t, <2>1 DEF Goto, At, TypeOK, PCs, waits, places, reaps
  <2> QED
    BY ZenonT(60), <1>32, <1>33, <1>34, <1>35, <1>31, <1>37, <2>1
    DEF SyscallReturn, PCs
<1> QED
  BY ZenonT(60), <1>1, <1>2, <1>3, <1>4, <1>5, <1>6, <1>7, <1>8, <1>9, <1>10, <1>11, <1>12, <1>13,
     <1>14,
     <1>15, <1>16, <1>17, <1>18, <1>19, <1>20, <1>21, <1>22, <1>23, <1>24, <1>25, <1>26, <1>27,
     <1>28, <1>29, <1>30, <1>36, <1>37 DEF KernelStep

-----------------------------------------------------------------------------
(* Every step is of one of the kinds above. *)

\* Citing the lemmas of the kinds by their two places.
LEMMA GoFromTo ==
  ASSUME IInv, TypeOK', NEW c \in CPU, NEW a, NEW b, <<a, b>> \in Goes, Go(c, a, b)
  PROVE  IInv'
<1>1. PICK x \in Goes : x = <<a, b>>
  BY ZenonT(60)
<1>2. x[1] = a /\ x[2] = b
  BY ZenonT(60), <1>1
<1> QED
  BY ZenonT(60), <1>2, GoKept

\* The same of a reservation.
LEMMA TakeFromTo ==
  ASSUME IInv, TypeOK', NEW c \in CPU, NEW a, NEW b, <<a, b>> \in Takes, NEW q \in Proc, Take(c, a, b, q)
  PROVE  IInv'
<1>1. PICK x \in Takes : x = <<a, b>>
  BY ZenonT(60)
<1>2. x[1] = a /\ x[2] = b
  BY ZenonT(60), <1>1
<1> QED
  BY ZenonT(60), <1>2, TakeKept

\* The same of a reservation given back.
LEMMA DropFromTo ==
  ASSUME IInv, TypeOK', NEW c \in CPU, NEW a, NEW b, <<a, b>> \in Cancels, Drop(c, a, b)
  PROVE  IInv'
<1>1. PICK x \in Cancels : x = <<a, b>>
  BY ZenonT(60)
<1>2. x[1] = a /\ x[2] = b
  BY ZenonT(60), <1>1
<1> QED
  BY ZenonT(60), <1>2, DropKept

\* The same of a stack given up by a process that goes on.
LEMMA ReleaseFromTo ==
  ASSUME IInv, TypeOK', NEW c \in CPU, NEW a, NEW b, <<a, b>> \in Releases, Release(c, a, b)
  PROVE  IInv'
<1>1. PICK x \in Releases : x = <<a, b>>
  BY ZenonT(60)
<1>2. x[1] = a /\ x[2] = b
  BY ZenonT(60), <1>1
<1> QED
  BY ZenonT(60), <1>2, ReleaseKept

\* The same of a process let go by its core.
LEMMA StepDownFromTo ==
  ASSUME IInv, TypeOK', NEW c \in CPU, NEW a, NEW b, <<a, b>> \in StepsDown, StepDown(c, a, b)
  PROVE  IInv'
<1>1. PICK x \in StepsDown : x = <<a, b>>
  BY ZenonT(60)
<1>2. x[1] = a /\ x[2] = b
  BY ZenonT(60), <1>1
<1> QED
  BY ZenonT(60), <1>2, StepDownKept
=============================================================================
