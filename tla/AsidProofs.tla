---------------------------- MODULE AsidProofs ----------------------------
(***************************************************************************)
(* The numbers of Asid are unique, a translation cached under one serves   *)
(* no other root that owns it, no root is released under a core that runs  *)
(* on it, and a core in user mode runs on the root of its process.         *)
(* The inductive invariant comes first, then that every step keeps its     *)
(* three parts: the types, what each core holds, and where the numbers     *)
(* are; where each core stands is added at the end.                        *)
(***************************************************************************)
EXTENDS Asid, TLAPS

-----------------------------------------------------------------------------
(* The inductive invariant.                                                 *)

\* The roots a core keeps from the others: the process it runs, the one whose
\* release or return it has begun, and the one it has reserved.
Held(c) ==
    ({current[c], op[c].victim}
       \cup IF op[c].kind \in Handoffs THEN {op[c].target} ELSE {})
    \cap Roots

Busy == {"constructing", "running", "reaped"}

\* What the steps of an operation rely on.
OpOK(c) ==
    /\ op[c].victim \in Roots => op[c].victim # current[c]
    /\ op[c].kind \in Handoffs =>
          op[c].target # current[c] /\ op[c].victim = None
    /\ op[c].kind = "fork" => op[c].target = current[c] /\ current[c] # None
    /\ op[c].kind \in {"clone", "exec", "exit"} => current[c] # None
    /\ op[c].step = "user" => op[c].kind = "none" /\ op[c].victim = None
    /\ op[c].step = "copy" => op[c].kind = "fork"
    /\ op[c].step = "release" => op[c].kind \in {"clone", "exec"}
    /\ op[c].step = "load" => op[c].kind = "exec"
    /\ op[c].step = "leave" => op[c].kind \in {"clone", "exit"}
    /\ op[c].step = "install" =>
          /\ op[c].kind \in Stables
          /\ op[c].target \in Roots \cup {Dead}
          /\ op[c].value \in Tags

\* A root is taken from ready, exited or free, in one hold of the run lock,
\* so two cores never hold one; and a core never releases or leaves the
\* process it goes on running.
HoldsOK ==
    /\ \A c \in Cores : \A r \in Held(c) : state[r] \in Busy
    /\ \A c, d \in Cores : c # d => Held(c) \cap Held(d) = {}
    /\ \A c \in Cores : OpOK(c)

\* A number of this generation that is not yet in its root's record.
Pending(c) == op[c].gen = generation

\* A root that owns a number.
Owner(r) == state[r] # "free" /\ stamp[r] = generation

\* Numbers below the counter are given to at most one root or pending record,
\* and an owned translation under one belongs to the root that was given it.
NumbersOK ==
    /\ \A r \in Roots : stamp[r] <= generation
    /\ \A c \in Cores : op[c].gen <= generation
    /\ \A r \in Roots : state[r] = "free" => number[r] = 0
    /\ \A r \in Roots : Owner(r) => number[r] >= 2 /\ number[r] < next
    /\ \A r, s \in Roots :
          Owner(r) /\ Owner(s) /\ number[r] = number[s] => r = s
    /\ \A c \in Cores : Pending(c) => op[c].value >= 2 /\ op[c].value < next
    /\ \A c, d \in Cores :
          Pending(c) /\ Pending(d) /\ op[c].value = op[d].value => c = d
    /\ \A c \in Cores : \A r \in Roots :
          Pending(c) /\ Owner(r) => op[c].value # number[r]
    /\ \A c \in Cores : \A e \in tlb[c] : e.owned =>
          /\ e.asid < next
          /\ \A r \in Roots : Owner(r) /\ number[r] = e.asid => r = e.root
          /\ \A d \in Cores : Pending(d) => op[d].value # e.asid

IInv == TypeOK /\ HoldsOK /\ NumbersOK

-----------------------------------------------------------------------------
(* Types.                                                                   *)

\* An operation that holds no number.
LEMMA Zeros == 0 \in 0 .. AsidLast /\ 0 \in 0 .. MaxGeneration
BY SMTT(60), AsidAssumption

\* An operation made of well-typed parts is well typed.
LEMMA OpType ==
    ASSUME NEW k \in Kinds, NEW s \in Steps, NEW t \in Roots \cup {Dead, None},
           NEW v \in Roots \cup {None}, NEW n \in 0 .. AsidLast,
           NEW g \in 0 .. MaxGeneration
    PROVE  Op(k, s, t, v, n, g) \in Ops
BY ZenonT(60) DEF Op, Ops

\* Where execve stands while it loads its image.
Loading == Op("exec", "load", None, None, 0, 0)

\* What the steps are made of: the idle operation, the two inside exec and
\* exit, and the start of another.
LEMMA PlainOps ==
    /\ User \in Ops /\ Leaving \in Ops /\ Loading \in Ops
    /\ \A k \in Kinds : \A t \in Roots \cup {Dead, None} :
       \A v \in Roots \cup {None} : Activate(k, t, v) \in Ops
<1>1. {"none", "exit", "exec"} \subseteq Kinds
  BY ZenonT(60) DEF Kinds, Handoffs, Stables
<1>2. {"user", "prepare", "load", "leave"} \subseteq Steps
  BY ZenonT(60) DEF Steps
<1> QED
  BY ZenonT(60), <1>1, <1>2, Zeros, OpType DEF User, Leaving, Loading, Activate

\* Setting one core's operation keeps the type of all.
LEMMA BecomeType ==
    ASSUME TypeOK, NEW c \in Cores, NEW o \in Ops, Become(c, o)
    PROVE  op' \in [Cores -> Ops]
BY ZenonT(60) DEF TypeOK, Become

\* Go changes the step and forgets the number.
LEMMA GoType ==
    ASSUME TypeOK, NEW c \in Cores, NEW s \in Steps, Go(c, s)
    PROVE  op' \in [Cores -> Ops]
<1>1. op[c] \in Ops
  BY ZenonT(60) DEF TypeOK
<1>3. Op(op[c].kind, s, op[c].target, op[c].victim, 0, 0) \in Ops
  BY ZenonT(60), <1>1, Zeros, OpType DEF Ops
<1> QED
  BY ZenonT(60), <1>3, BecomeType DEF Go

\* What a core leaves behind is an entry.
LEMMA LoadedType ==
    ASSUME TypeOK, NEW c \in Cores
    PROVE  Loaded(c) \subseteq Entries
<1>1. tag[c] \in Tags /\ active[c] \in Roots \cup {Boot, Dead}
  BY ZenonT(60) DEF TypeOK
<1>2. OwnsTag(c) \in BOOLEAN
  BY ZenonT(60) DEF OwnsTag
<1> QED
  BY SMTT(60), <1>1, <1>2 DEF Loaded, Entries, Cached

\* A write of TTBR0 keeps the types of what it changes.
LEMMA InstallType ==
    ASSUME TypeOK, NEW c \in Cores, NEW r \in Roots \cup {Boot, Dead},
           NEW k \in Tags, Install(c, r, k)
    PROVE  /\ active' \in [Cores -> Roots \cup {Boot, Dead}]
           /\ tag' \in [Cores -> Tags]
           /\ tlb' \in [Cores -> SUBSET Entries]
<1>1. Loaded(c) \in SUBSET Entries
  BY ZenonT(60), LoadedType
<1> QED
  BY ZenonT(60), <1>1 DEF TypeOK, Install

\* An invalidation only takes entries away.
LEMMA WithoutType ==
    ASSUME TypeOK, NEW k
    PROVE  Without(k) \in [Cores -> SUBSET Entries]
BY ZenonT(60) DEF TypeOK, Without

\* Root 0's number is one a TTBR0 can hold.
LEMMA BootTag == BootAsid \in Tags
BY SMTT(60), AsidAssumption DEF BootAsid, Tags

\* A core about to run a root that owns its number has a number to load.
LEMMA CommittableTag ==
    ASSUME IInv, NEW c \in Cores, Committable(c)
    PROVE  op[c].target \in Roots /\ number[op[c].target] \in Tags
<1>1. op[c].target \in Roots /\ Owner(op[c].target)
  BY ZenonT(60) DEF Committable, Live, Fresh, Owner
<1>2. number[op[c].target] >= 2 /\ number[op[c].target] \in 0 .. AsidLast
  BY ZenonT(60), <1>1 DEF IInv, NumbersOK, TypeOK
<1> QED
  BY SMTT(60), <1>1, <1>2, AsidAssumption DEF Tags

\* Giving a reserved process back.
LEMMA CancelType ==
    ASSUME IInv, NEW c \in Cores, CancelReserved(c)
    PROVE  TypeOK'
<1> USE DEF IInv
<1>1. op' \in [Cores -> Ops]
  BY ZenonT(60), PlainOps, BecomeType DEF CancelReserved
<1>2. state' \in [Roots -> States] /\ stopped' \in BOOLEAN
  BY ZenonT(60) DEF CancelReserved, TypeOK, States
<1> QED
  BY ZenonT(60), <1>1, <1>2 DEF TypeOK, CancelReserved, cell, backing, mmu

\* Every step keeps the types.
LEMMA TypeStep ==
    ASSUME IInv, [Next]_vars
    PROVE  TypeOK'
<1> USE DEF IInv
<1>0. CASE UNCHANGED vars
  BY ZenonT(60), <1>0 DEF TypeOK, vars
<1>1. ASSUME NEW c \in Cores, NEW r \in Roots, NEW k \in {"switch", "start", "exit"},
             Reserve(c, k, r)
      PROVE  TypeOK'
  <2>1. op' \in [Cores -> Ops]
    BY ZenonT(60), <1>1, PlainOps, BecomeType DEF Reserve, Kinds, Handoffs
  <2> QED
    BY ZenonT(60), <1>1, <2>1 DEF Reserve, TypeOK, States, cell, backing, mmu
<1>2. ASSUME NEW c \in Cores, NEW r \in Roots, Fork(c, r)
      PROVE  TypeOK'
  <2>1. Op("fork", "copy", r, current[c], 0, 0) \in Ops
    <3>1. current[c] \in Roots \cup {None}
      BY ZenonT(60) DEF TypeOK
    <3> QED
      BY ZenonT(60), <3>1, Zeros, OpType DEF Kinds, Currents, Steps
  <2>2. op' \in [Cores -> Ops]
    BY ZenonT(60), <1>2, <2>1, BecomeType DEF Fork
  <2>3. number' \in [Roots -> 0 .. AsidLast] /\ stamp' \in [Roots -> 0 .. MaxGeneration]
    BY SMTT(60), <1>2, AsidAssumption DEF Fork, TypeOK
  <2>4. source' \in [Roots -> Roots \cup {None}] /\ current' \in [Cores -> Roots \cup {None}]
    BY ZenonT(60), <1>2 DEF Fork, TypeOK
  <2> QED
    BY ZenonT(60), <1>2, <2>2, <2>3, <2>4 DEF Fork, TypeOK, States, cell, mmu
<1>3. ASSUME NEW c \in Cores, NEW r \in Roots, Reap(c, r)
      PROVE  TypeOK'
  <2>1. Op("reap", "teardown", None, r, 0, 0) \in Ops
    BY ZenonT(60), Zeros, OpType DEF Kinds, Stables, Steps
  <2>2. current[c] \in Roots \cup {None}
    BY ZenonT(60) DEF TypeOK
  <2>3. Activate("reap", current[c], r) \in Ops
    BY ZenonT(60), <2>2, PlainOps DEF Kinds, Stables
  <2>4. op' \in [Cores -> Ops]
    BY ZenonT(60), <1>3, <2>1, <2>3, BecomeType DEF Reap
  <2> QED
    BY ZenonT(60), <1>3, <2>4 DEF Reap, TypeOK, States, cell, backing, mmu
<1>4. ASSUME NEW c \in Cores, GoIdle(c)
      PROVE  TypeOK'
  <2>1. /\ active' \in [Cores -> Roots \cup {Boot, Dead}]
        /\ tag' \in [Cores -> Tags]
        /\ tlb' \in [Cores -> SUBSET Entries]
    BY ZenonT(60), <1>4, InstallType, BootTag DEF GoIdle
  <2> QED
    BY ZenonT(60), <1>4, <2>1 DEF GoIdle, TypeOK, States, cell, backing
<1>5. ASSUME NEW c \in Cores, PrepareInvalid(c)
      PROVE  TypeOK'
  BY ZenonT(60), <1>5 DEF PrepareInvalid, Prepare, TypeOK, cell, backing, procs, mmu
<1>6. ASSUME NEW c \in Cores, PrepareKept(c)
      PROVE  TypeOK'
  <2>1. op' \in [Cores -> Ops]
    BY ZenonT(60), <1>6, GoType DEF PrepareKept, Steps
  <2> QED
    BY ZenonT(60), <1>6, <2>1 DEF PrepareKept, Prepare, TypeOK, cell, backing, procs, mmu
<1>7. ASSUME NEW c \in Cores, AssignAttempt(c)
      PROVE  TypeOK'
  <2>1. op[c] \in Ops /\ next \in 2 .. AsidLast + 1 /\ generation \in 1 .. MaxGeneration
    BY ZenonT(60) DEF TypeOK
  <2>2. CASE next > AsidLast
    <3>1. op' \in [Cores -> Ops]
      BY ZenonT(60), <1>7, <2>2, GoType DEF AssignAttempt, Steps
    <3> QED
      BY ZenonT(60), <1>7, <2>2, <3>1 DEF AssignAttempt, Prepare, TypeOK, backing, procs, mmu
  <2>3. CASE ~(next > AsidLast)
    <3>1. next \in 0 .. AsidLast /\ next + 1 \in 2 .. AsidLast + 1
          /\ generation \in 0 .. MaxGeneration
      BY SMTT(60), <2>1, <2>3, AsidAssumption
    <3>2. Op(op[c].kind, "record", op[c].target, op[c].victim, next, generation) \in Ops
      BY ZenonT(60), <2>1, <3>1, OpType DEF Ops, Steps
    <3>3. op' \in [Cores -> Ops]
      BY ZenonT(60), <1>7, <2>3, <3>2, BecomeType DEF AssignAttempt
    <3> QED
      BY ZenonT(60), <1>7, <2>3, <3>1, <3>3 DEF AssignAttempt, Prepare, TypeOK, backing, procs, mmu
  <2> QED
    BY ZenonT(60), <2>2, <2>3
<1>8. ASSUME NEW c \in Cores, Record(c)
      PROVE  TypeOK'
  <2>1. op' \in [Cores -> Ops]
    BY ZenonT(60), <1>8, GoType DEF Record, Steps
  <2>2. op[c] \in Ops
    BY ZenonT(60) DEF TypeOK
  <2>3. number' \in [Roots -> 0 .. AsidLast] /\ stamp' \in [Roots -> 0 .. MaxGeneration]
    BY ZenonT(60), <1>8, <2>2 DEF Record, TypeOK, Ops, backing
  <2> QED
    BY ZenonT(60), <1>8, <2>1, <2>3 DEF Record, TypeOK, cell, procs, mmu
<1>9. ASSUME NEW c \in Cores, RolloverStopped(c)
      PROVE  TypeOK'
  <2>1. op' \in [Cores -> Ops]
    BY ZenonT(60), <1>9, GoType DEF RolloverStopped, Steps
  <2>2. next' \in 2 .. AsidLast + 1 /\ generation' \in 1 .. MaxGeneration
    BY SMTT(60), <1>9, AsidAssumption DEF RolloverStopped, TypeOK, cell
  <2>3. tlb' \in [Cores -> SUBSET Entries]
    BY ZenonT(60), <1>9 DEF RolloverStopped, TypeOK
  <2> QED
    BY ZenonT(60), <1>9, <2>1, <2>2, <2>3 DEF RolloverStopped, TypeOK, backing, procs
<1>10. ASSUME NEW c \in Cores, RolloverRefused(c)
       PROVE  TypeOK'
  <2>1. CASE CancelReserved(c)
    BY ZenonT(60), <2>1, CancelType
  <2>2. CASE ~CancelReserved(c)
    <3>1. Go(c, "prepare") /\ UNCHANGED <<cell, backing, procs, mmu, stopped>>
      BY ZenonT(60), <1>10, <2>2 DEF RolloverRefused
    <3>2. op' \in [Cores -> Ops]
      BY ZenonT(60), <3>1, GoType DEF Steps
    <3> QED
      BY ZenonT(60), <3>1, <3>2 DEF TypeOK, cell, backing, procs, mmu
  <2> QED
    BY ZenonT(60), <2>1, <2>2
<1>11. ASSUME NEW c \in Cores, BlockMissed(c)
       PROVE  TypeOK'
  BY ZenonT(60), <1>11, CancelType DEF BlockMissed
<1>12. ASSUME NEW c \in Cores, CommitHandoff(c)
       PROVE  TypeOK'
  <2>1. CASE ~Committable(c)
    BY ZenonT(60), <1>12, <2>1, CancelType DEF CommitHandoff
  <2>2. CASE Committable(c)
    <3>1. op[c].target \in Roots /\ number[op[c].target] \in Tags
      BY ZenonT(60), <2>2, CommittableTag
    <3>2. /\ active' \in [Cores -> Roots \cup {Boot, Dead}]
          /\ tag' \in [Cores -> Tags]
          /\ tlb' \in [Cores -> SUBSET Entries]
      BY ZenonT(60), <1>12, <2>2, <3>1, InstallType DEF CommitHandoff
    <3>3. op' \in [Cores -> Ops]
      <4>1. current[c] \in Roots \cup {None}
        BY ZenonT(60) DEF TypeOK
      <4>2. Activate("return", op[c].target, current[c]) \in Ops
        BY ZenonT(60), <3>1, <4>1, PlainOps DEF Kinds, Stables
      <4> QED
        BY ZenonT(60), <1>12, <2>2, <4>2, PlainOps, BecomeType DEF CommitHandoff
    <3>4. state' \in [Roots -> States]
      <4>1. \A r \in Roots : state[r] \in States
        BY ZenonT(60) DEF TypeOK
      <4> QED
        BY ZenonT(60), <1>12, <2>2, <4>1 DEF CommitHandoff, States
    <3> QED
      BY ZenonT(60), <1>12, <2>2, <3>1, <3>2, <3>3, <3>4
      DEF CommitHandoff, TypeOK, cell, backing
  <2> QED
    BY ZenonT(60), <2>1, <2>2
<1>13. ASSUME NEW c \in Cores, CommitCurrent(c)
       PROVE  TypeOK'
  <2>1. CASE ~Committable(c)
    BY ZenonT(60), <1>13, <2>1 DEF CommitCurrent, TypeOK, cell, backing, mmu
  <2>2. CASE Committable(c)
    <3>1. op[c].target \in Roots /\ number[op[c].target] \in Tags
      BY ZenonT(60), <2>2, CommittableTag
    <3>2. /\ active' \in [Cores -> Roots \cup {Boot, Dead}]
          /\ tag' \in [Cores -> Tags]
          /\ tlb' \in [Cores -> SUBSET Entries]
      BY ZenonT(60), <1>13, <2>2, <3>1, InstallType DEF CommitCurrent
    <3>3. op' \in [Cores -> Ops]
      BY ZenonT(60), <1>13, <2>2, PlainOps, BecomeType DEF CommitCurrent
    <3>4. state' \in [Roots -> States]
      BY ZenonT(60), <1>13, <2>2 DEF CommitCurrent, TypeOK, States
    <3> QED
      BY ZenonT(60), <1>13, <2>2, <3>2, <3>3, <3>4 DEF CommitCurrent, TypeOK, cell, backing
  <2> QED
    BY ZenonT(60), <2>1, <2>2
<1>14. ASSUME NEW c \in Cores, CommitStable(c)
       PROVE  TypeOK'
  <2>1. CASE ~Committable(c)
    BY ZenonT(60), <1>14, <2>1 DEF CommitStable, TypeOK, cell, backing, procs, mmu
  <2>2. CASE Committable(c)
    <3>1. op[c].target \in Roots /\ number[op[c].target] \in Tags
      BY ZenonT(60), <2>2, CommittableTag
    <3>2. op[c] \in Ops /\ number[op[c].target] \in 0 .. AsidLast
      BY ZenonT(60), <3>1 DEF TypeOK
    <3>3. Op(op[c].kind, "install", op[c].target, op[c].victim,
             number[op[c].target], 0) \in Ops
      BY ZenonT(60), <3>2, Zeros, OpType DEF Ops, Steps
    <3>4. op' \in [Cores -> Ops]
      BY ZenonT(60), <1>14, <2>2, <3>3, BecomeType DEF CommitStable
    <3> QED
      BY ZenonT(60), <1>14, <2>2, <3>4 DEF CommitStable, TypeOK, cell, backing, procs, mmu
  <2> QED
    BY ZenonT(60), <2>1, <2>2
<1>15. ASSUME NEW c \in Cores, InstallStable(c)
       PROVE  TypeOK'
  <2>1. op[c].target \in Roots \cup {Dead} /\ op[c].value \in Tags
    BY ZenonT(60), <1>15 DEF InstallStable, At, HoldsOK, OpOK
  <2>2. /\ active' \in [Cores -> Roots \cup {Boot, Dead}]
        /\ tag' \in [Cores -> Tags]
        /\ tlb' \in [Cores -> SUBSET Entries]
    BY ZenonT(60), <1>15, <2>1, InstallType DEF InstallStable
  <2>3. \/ \E s \in Steps : Go(c, s)
        \/ Become(c, User)
    BY ZenonT(60), <1>15 DEF InstallStable, Steps
  <2>4. op' \in [Cores -> Ops]
    BY ZenonT(60), <2>3, GoType, BecomeType, PlainOps
  <2>5. state' \in [Roots -> States]
    BY ZenonT(60), <1>15 DEF InstallStable, TypeOK, States
  <2> QED
    BY ZenonT(60), <1>15, <2>2, <2>4, <2>5 DEF InstallStable, TypeOK, cell, backing
<1>16. ASSUME NEW c \in Cores, Copied(c)
       PROVE  TypeOK'
  <2>1. op[c] \in Ops
    BY ZenonT(60) DEF TypeOK
  <2>2. Activate("fork", op[c].target, op[c].victim) \in Ops
    BY ZenonT(60), <2>1, PlainOps DEF Ops, Kinds, Currents
  <2>3. op' \in [Cores -> Ops]
    BY ZenonT(60), <1>16, <2>2, BecomeType DEF Copied
  <2> QED
    BY ZenonT(60), <1>16, <2>1, <2>3 DEF Copied, TypeOK, Ops, cell, backing, mmu
<1>17. ASSUME NEW c \in Cores, CopyFailed(c)
       PROVE  TypeOK'
  <2>1. op[c].target \in Roots \cup {None} /\ op[c].victim \in Roots \cup {None}
    BY ZenonT(60), <1>17 DEF CopyFailed, At, HoldsOK, OpOK, TypeOK, Ops
  <2>2. Activate("unclone", op[c].victim, op[c].target) \in Ops
    BY ZenonT(60), <2>1, PlainOps DEF Kinds, Stables
  <2>3. Op("undo", "teardown", op[c].victim, op[c].target, 0, 0) \in Ops
    BY ZenonT(60), <2>1, Zeros, OpType DEF Kinds, Currents, Steps
  <2>4. op' \in [Cores -> Ops]
    BY ZenonT(60), <1>17, <2>2, <2>3, BecomeType DEF CopyFailed
  <2> QED
    BY ZenonT(60), <1>17, <2>1, <2>4 DEF CopyFailed, TypeOK, cell, backing, mmu
<1>18. ASSUME NEW c \in Cores, Exec(c)
       PROVE  TypeOK'
  <2>1. SourceRoot(current[c]) \in Roots \cup {Dead}
    BY ZenonT(60) DEF SourceRoot, Live
  <2>2. Activate("exec", SourceRoot(current[c]), None) \in Ops
    BY ZenonT(60), <2>1, PlainOps DEF Kinds, Stables
  <2>3. op' \in [Cores -> Ops]
    BY ZenonT(60), <1>18, <2>2, PlainOps, BecomeType DEF Exec, Loading
  <2>4. tlb' \in [Cores -> SUBSET Entries]
    <3>1. tlb' \in {tlb, Without(number[current[c]])}
      BY ZenonT(60), <1>18 DEF Exec
    <3>2. tlb \in [Cores -> SUBSET Entries]
      BY ZenonT(60) DEF TypeOK
    <3>3. Without(number[current[c]]) \in [Cores -> SUBSET Entries]
      BY ZenonT(60), WithoutType
    <3> QED
      BY ZenonT(60), <3>1, <3>2, <3>3
  <2> QED
    BY ZenonT(60), <1>18, <2>3, <2>4 DEF Exec, TypeOK, cell, backing, procs
<1>19. ASSUME NEW c \in Cores, Exit(c)
       PROVE  TypeOK'
  <2>1. SourceRoot(current[c]) \in Roots \cup {Dead}
    BY ZenonT(60) DEF SourceRoot, Live
  <2>2. Activate("clone", SourceRoot(current[c]), None) \in Ops
    BY ZenonT(60), <2>1, PlainOps DEF Kinds, Stables
  <2>3. op' \in [Cores -> Ops]
    BY ZenonT(60), <1>19, <2>2, PlainOps, BecomeType DEF Exit
  <2> QED
    BY ZenonT(60), <1>19, <2>3 DEF Exit, TypeOK, cell, backing, procs, mmu
<1>20. ASSUME NEW c \in Cores, CloneRollback(c)
       PROVE  TypeOK'
  <2>1. op' \in [Cores -> Ops]
    BY ZenonT(60), <1>20, GoType, PlainOps, BecomeType DEF CloneRollback, Loading, Steps
  <2>2. source' \in [Roots -> Roots \cup {None}]
    BY ZenonT(60), <1>20 DEF CloneRollback, TypeOK
  <2>3. tlb' \in [Cores -> SUBSET Entries]
    BY ZenonT(60), <1>20, WithoutType DEF CloneRollback, TypeOK
  <2> QED
    BY ZenonT(60), <1>20, <2>1, <2>2, <2>3 DEF CloneRollback, TypeOK, cell, backing
<1>23. ASSUME NEW c \in Cores, ExecLoaded(c)
       PROVE  TypeOK'
  <2>1. current[c] \in Roots \cup {None}
    BY ZenonT(60) DEF TypeOK
  <2>2. Activate("image", current[c], None) \in Ops
    BY ZenonT(60), <2>1, PlainOps DEF Kinds, Stables
  <2>3. op' \in [Cores -> Ops]
    BY ZenonT(60), <1>23, <2>2, BecomeType DEF ExecLoaded
  <2> QED
    BY ZenonT(60), <1>23, <2>3 DEF ExecLoaded, TypeOK, cell, backing, procs, mmu
<1>24. ASSUME NEW c \in Cores, ExecLost(c)
       PROVE  TypeOK'
  <2>1. op' \in [Cores -> Ops] /\ stopped' \in BOOLEAN
    BY ZenonT(60), <1>24, PlainOps, BecomeType DEF ExecLost
  <2> QED
    BY ZenonT(60), <1>24, <2>1 DEF ExecLost, TypeOK, cell, backing, procs, mmu
<1>21. ASSUME NEW c \in Cores, LeaveIdle(c)
       PROVE  TypeOK'
  <2>1. /\ active' \in [Cores -> Roots \cup {Boot, Dead}]
        /\ tag' \in [Cores -> Tags]
        /\ tlb' \in [Cores -> SUBSET Entries]
    BY ZenonT(60), <1>21, InstallType, BootTag DEF LeaveIdle
  <2>2. op' \in [Cores -> Ops]
    BY ZenonT(60), <1>21, PlainOps, BecomeType DEF LeaveIdle
  <2> QED
    BY ZenonT(60), <1>21, <2>1, <2>2 DEF LeaveIdle, TypeOK, States, cell, backing
<1>22. ASSUME NEW c \in Cores, ReleaseRoot(c)
       PROVE  TypeOK'
  <2> DEFINE z == op[c].victim
             Named(r) == IF r = z THEN Dead ELSE r
             left == IF active[c] = z THEN [tlb EXCEPT ![c] = @ \cup Loaded(c)]
                     ELSE tlb
  <2>1. \A d \in Cores : op[d] \in Ops
    BY ZenonT(60) DEF TypeOK
  <2>2. \A d \in Cores :
           Op(op[d].kind, op[d].step, Named(op[d].target), op[d].victim,
              op[d].value, op[d].gen) \in Ops
    BY ZenonT(60), <2>1, OpType DEF Ops
  <2>3. Activate(IF op[c].kind = "reap" THEN "resume" ELSE "undo",
                 op[c].target, None) \in Ops
    BY ZenonT(60), <2>1, PlainOps DEF Ops, Kinds, Currents, Stables
  <2>4. op' = [d \in Cores |->
                IF d = c
                THEN IF op[c].target = None THEN User
                     ELSE Activate(IF op[c].kind = "reap" THEN "resume"
                                   ELSE "undo", op[c].target, None)
                ELSE Op(op[d].kind, op[d].step, Named(op[d].target),
                        op[d].victim, op[d].value, op[d].gen)]
    BY ZenonT(60), <1>22 DEF ReleaseRoot
  <2>5. op' \in [Cores -> Ops]
    BY ZenonT(60), <2>2, <2>3, <2>4, PlainOps
  <2>6. left \in [Cores -> SUBSET Entries]
    BY ZenonT(60), LoadedType DEF TypeOK
  <2>7. tlb' = [d \in Cores |->
                 {Cached(e.asid, Named(e.root), e.owned) :
                    e \in {f \in left[d] : f.asid # number[z]}}]
    BY ZenonT(60), <1>22 DEF ReleaseRoot
  <2>8. ASSUME NEW e \in Entries
        PROVE  Cached(e.asid, Named(e.root), e.owned) \in Entries
    BY ZenonT(60) DEF Entries, Cached
  <2>9. tlb' \in [Cores -> SUBSET Entries]
    <3> HIDE DEF left, Named
    <3>1. \A d \in Cores : tlb'[d] \subseteq Entries
      BY ZenonT(60), <2>6, <2>7, <2>8
    <3> QED
      BY ZenonT(60), <3>1, <2>7
  <2>10. number' \in [Roots -> 0 .. AsidLast] /\ state' \in [Roots -> States]
    <3>1. /\ number' = [number EXCEPT ![z] = 0]
          /\ state' = [state EXCEPT ![z] = "free"]
      BY ZenonT(60), <1>22 DEF ReleaseRoot
    <3> QED
      BY ZenonT(60), <3>1, Zeros DEF TypeOK, States
  <2>11. /\ active' \in [Cores -> Roots \cup {Boot, Dead}]
         /\ tag' \in [Cores -> Tags]
    BY ZenonT(60), <1>22, BootTag DEF ReleaseRoot, TypeOK
  <2> QED
    BY ZenonT(60), <1>22, <2>5, <2>9, <2>10, <2>11 DEF ReleaseRoot, TypeOK, cell
<1> QED
  BY ZenonT(60), <1>0, <1>1, <1>2, <1>3, <1>4, <1>5, <1>6, <1>7, <1>8, <1>9, <1>10, <1>11,
     <1>12, <1>13, <1>14, <1>15, <1>16, <1>17, <1>18, <1>19, <1>20, <1>21, <1>22,
     <1>23, <1>24
     DEF Next, Switch, Start, LeaveTo

-----------------------------------------------------------------------------
(***************************************************************************)
(* That every step of Asid keeps the roots that cores hold apart.          *)
(***************************************************************************)

\* A core may take roots nobody held and let go of its own.
LEMMA HoldChange ==
    ASSUME HoldsOK, NEW c \in Cores,
           \A d \in Cores \ {c} : Held(d)' \subseteq Held(d) /\ OpOK(d)',
           \A r \in Held(c)' : state'[r] \in Busy,
           \A r \in Held(c)' : r \in Held(c) \/ state[r] \notin Busy,
           \A r \in Roots : state[r] \in Busy =>
                               r \in Held(c) \/ state'[r] \in Busy,
           OpOK(c)'
    PROVE  HoldsOK'
<1>1. \A d \in Cores : Held(d) \subseteq Roots
  BY ZenonT(60) DEF Held
<1>2. \A d \in Cores : \A r \in Held(d)' : state'[r] \in Busy
  BY ZenonT(60), <1>1 DEF HoldsOK
<1>3. \A d \in Cores \ {c} : Held(c)' \cap Held(d)' = {}
  BY ZenonT(60), <1>1 DEF HoldsOK
<1>4. \A d, e \in Cores : d # e => Held(d)' \cap Held(e)' = {}
  BY SMTT(60), <1>3 DEF HoldsOK
<1> QED
  BY ZenonT(60), <1>2, <1>4 DEF HoldsOK

\* The others keep what they hold when nothing of theirs changes.
LEMMA HoldOthers ==
    ASSUME HoldsOK, NEW d \in Cores, op'[d] = op[d], current'[d] = current[d]
    PROVE  Held(d)' \subseteq Held(d) /\ OpOK(d)'
BY ZenonT(60) DEF HoldsOK, Held, OpOK

\* A step that changes no process and keeps the kind, the target and the
\* victim of an operation holds what it held.
LEMMA HoldGo ==
    ASSUME IInv, NEW c \in Cores,
           NEW s \in Steps \ {"user", "copy", "install", "load"},
           s = "release" => op[c].kind \in {"clone", "exec"},
           s = "leave" => op[c].kind = "clone",
           Go(c, s), UNCHANGED <<state, current>>
    PROVE  HoldsOK'
<1> USE DEF IInv
<1>1. op' = [op EXCEPT ![c] = Op(op[c].kind, s, op[c].target, op[c].victim, 0, 0)]
  BY ZenonT(60) DEF Go, Become
<1>2. \A d \in Cores \ {c} : op'[d] = op[d]
  BY ZenonT(60), <1>1 DEF TypeOK
<1>3. op'[c] = Op(op[c].kind, s, op[c].target, op[c].victim, 0, 0)
  BY ZenonT(60), <1>1 DEF TypeOK
<1>4. Held(c)' = Held(c)
  BY SMTT(60), <1>3 DEF Held, Op
<1>5. OpOK(c)'
  BY SMTT(60), <1>3 DEF OpOK, HoldsOK, Op
<1> QED
  BY SMTT(60), <1>2, <1>4, <1>5, HoldOthers, HoldChange DEF HoldsOK

\* An operation begun or ended by core c alone.
LEMMA BecomeIs ==
    ASSUME TypeOK, NEW c \in Cores, NEW o, Become(c, o)
    PROVE  op'[c] = o /\ \A d \in Cores \ {c} : op'[d] = op[d]
BY ZenonT(60) DEF TypeOK, Become

\* A reserved process is given back.
LEMMA CancelHold ==
    ASSUME IInv, NEW c \in Cores, CancelReserved(c)
    PROVE  HoldsOK'
<1> USE DEF IInv
<1>1. op'[c] \in {User, Leaving} /\ \A d \in Cores \ {c} : op'[d] = op[d]
  BY ZenonT(60), BecomeIs DEF CancelReserved
<1>2. current' = current /\ state' = [state EXCEPT ![op[c].target] = "ready"]
  BY ZenonT(60) DEF CancelReserved
<1>3. \A d \in Cores \ {c} : Held(d)' \subseteq Held(d) /\ OpOK(d)'
  BY ZenonT(60), <1>1, <1>2, HoldOthers
<1>4. op'[c] = Leaving => current[c] # None
  <2>1. User.kind # Leaving.kind
    BY SMTT(60) DEF User, Leaving, Op
  <2> QED
    BY ZenonT(60), <2>1, BecomeIs DEF CancelReserved, HoldsOK, OpOK
<1>5. OpOK(c)' /\ Held(c)' = {current[c]} \cap Roots
  <2>1. CASE op'[c] = User
    BY SMTT(60), <1>2, <2>1, AsidAssumption DEF User, Op, OpOK, Held, Handoffs
  <2>2. CASE op'[c] = Leaving
    BY SMTT(60), <1>2, <1>4, <2>2, AsidAssumption DEF Leaving, Op, OpOK, Held, Handoffs
  <2> QED
    BY ZenonT(60), <1>1, <2>1, <2>2
<1>6. {current[c], op[c].target} \cap Roots \subseteq Held(c)
      /\ op[c].target # current[c]
  BY ZenonT(60) DEF CancelReserved, Held, HoldsOK, OpOK
<1>7. \A r \in Held(c)' : r \in Held(c) /\ state'[r] = state[r]
  BY ZenonT(60), <1>2, <1>5, <1>6 DEF TypeOK
<1>8. \A r \in Roots : r \in Held(c) \/ state'[r] = state[r]
  BY ZenonT(60), <1>2, <1>6 DEF TypeOK
<1>9. \A r \in Held(c)' : state'[r] \in Busy
  BY ZenonT(60), <1>7 DEF HoldsOK
<1> QED
  BY ZenonT(60), <1>3, <1>5, <1>7, <1>8, <1>9, HoldChange

\* Every step keeps the roots apart.
LEMMA HoldStep ==
    ASSUME IInv, [Next]_vars
    PROVE  HoldsOK'
<1> USE DEF IInv
<1>0. CASE UNCHANGED vars
  BY SMTT(60), <1>0 DEF HoldsOK, OpOK, Held, vars
<1>1. ASSUME NEW c \in Cores, NEW r \in Roots, NEW k \in Handoffs, Reserve(c, k, r),
             k = "exit" => At(c, "leave")
      PROVE  HoldsOK'
  <2>1. op'[c] = Activate(k, r, None) /\ \A d \in Cores \ {c} : op'[d] = op[d]
    BY ZenonT(60), <1>1, BecomeIs DEF Reserve
  <2>2. \A d \in Cores \ {c} : Held(d)' \subseteq Held(d) /\ OpOK(d)'
    BY ZenonT(60), <1>1, <2>1, HoldOthers DEF Reserve
  <2>3. state[r] = "ready" /\ state' = [state EXCEPT ![r] = "running"]
        /\ current' = current
    BY ZenonT(60), <1>1 DEF Reserve
  <2>4. r # current[c]
    BY ZenonT(60), <2>3 DEF HoldsOK, Held, Busy
  <2>10. k = "exit" => current[c] # None
    BY ZenonT(60), <1>1 DEF At, HoldsOK, OpOK
  <2>5. OpOK(c)' /\ Held(c)' \subseteq Held(c) \cup {r}
    BY SMTT(60), <2>1, <2>3, <2>4, <2>10, AsidAssumption
    DEF Activate, Op, OpOK, Held, Handoffs
  <2>6. \A s \in Roots : state'[s] = IF s = r THEN "running" ELSE state[s]
    BY ZenonT(60), <2>3 DEF TypeOK
  <2>7. Held(c) \subseteq Roots
    BY ZenonT(60) DEF Held
  <2>8. \A s \in Held(c)' : state'[s] \in Busy /\ (s \in Held(c) \/ state[s] \notin Busy)
    BY ZenonT(60), <2>3, <2>5, <2>6, <2>7 DEF HoldsOK, Busy
  <2>9. \A s \in Roots : state[s] \in Busy => state'[s] \in Busy
    BY ZenonT(60), <2>6 DEF Busy
  <2> QED
    BY ZenonT(60), <2>2, <2>5, <2>8, <2>9, HoldChange
<1>2. ASSUME NEW c \in Cores, NEW r \in Roots, Fork(c, r)
      PROVE  HoldsOK'
  <2>1. op'[c] = Op("fork", "copy", r, current[c], 0, 0)
        /\ \A d \in Cores \ {c} : op'[d] = op[d]
    BY ZenonT(60), <1>2, BecomeIs DEF Fork
  <2>2. current'[c] = r /\ \A d \in Cores \ {c} : current'[d] = current[d]
    BY ZenonT(60), <1>2 DEF Fork, TypeOK
  <2>3. \A d \in Cores \ {c} : Held(d)' \subseteq Held(d) /\ OpOK(d)'
    BY ZenonT(60), <2>1, <2>2, HoldOthers
  <2>4. state[r] = "free" /\ \A s \in Roots :
           state'[s] = IF s = r THEN "constructing" ELSE state[s]
    BY ZenonT(60), <1>2 DEF Fork, TypeOK
  <2>5. r # current[c]
    BY ZenonT(60), <2>4 DEF HoldsOK, Held, Busy
  <2>6. OpOK(c)' /\ Held(c)' \subseteq Held(c) \cup {r}
    BY SMTT(60), <2>1, <2>2, <2>5, AsidAssumption DEF Op, OpOK, Held, Handoffs
  <2>7. Held(c) \subseteq Roots
    BY ZenonT(60) DEF Held
  <2>8. \A s \in Held(c)' : state'[s] \in Busy /\ (s \in Held(c) \/ state[s] \notin Busy)
    BY ZenonT(60), <2>4, <2>6, <2>7 DEF HoldsOK, Busy
  <2>9. \A s \in Roots : state[s] \in Busy => state'[s] \in Busy
    BY ZenonT(60), <2>4 DEF Busy
  <2> QED
    BY ZenonT(60), <2>3, <2>6, <2>8, <2>9, HoldChange
<1>3. ASSUME NEW c \in Cores, NEW r \in Roots, Reap(c, r)
      PROVE  HoldsOK'
  <2>1. /\ op'[c] = IF current[c] = None THEN Op("reap", "teardown", None, r, 0, 0)
                    ELSE Activate("reap", current[c], r)
        /\ \A d \in Cores \ {c} : op'[d] = op[d]
    BY ZenonT(60), <1>3, BecomeIs DEF Reap
  <2>2. current' = current
    BY ZenonT(60), <1>3 DEF Reap
  <2>3. \A d \in Cores \ {c} : Held(d)' \subseteq Held(d) /\ OpOK(d)'
    BY ZenonT(60), <2>1, <2>2, HoldOthers
  <2>4. state[r] = "exited" /\ \A s \in Roots :
           state'[s] = IF s = r THEN "reaped" ELSE state[s]
    BY ZenonT(60), <1>3 DEF Reap, TypeOK
  <2>5. r # current[c]
    BY ZenonT(60), <2>4 DEF HoldsOK, Held, Busy
  <2>6. OpOK(c)' /\ Held(c)' \subseteq Held(c) \cup {r}
    BY SMTT(60), <2>1, <2>2, <2>5 DEF Op, Activate, OpOK, Held, Handoffs
  <2>7. Held(c) \subseteq Roots
    BY ZenonT(60) DEF Held
  <2>8. \A s \in Held(c)' : state'[s] \in Busy /\ (s \in Held(c) \/ state[s] \notin Busy)
    BY ZenonT(60), <2>4, <2>6, <2>7 DEF HoldsOK, Busy
  <2>9. \A s \in Roots : state[s] \in Busy => state'[s] \in Busy
    BY ZenonT(60), <2>4 DEF Busy
  <2> QED
    BY ZenonT(60), <2>3, <2>6, <2>8, <2>9, HoldChange
<1>4. ASSUME NEW c \in Cores, GoIdle(c)
      PROVE  HoldsOK'
  <2>1. op' = op /\ current'[c] = None /\ \A d \in Cores \ {c} : current'[d] = current[d]
    BY ZenonT(60), <1>4 DEF GoIdle, TypeOK
  <2>2. \A d \in Cores \ {c} : Held(d)' \subseteq Held(d) /\ OpOK(d)'
    BY ZenonT(60), <2>1, HoldOthers
  <2>3. current[c] \in Held(c) /\ op[c].step = "user"
    BY ZenonT(60), <1>4 DEF GoIdle, Runs, At, Held, TypeOK
  <2>4. \A s \in Roots : s \in Held(c) \/ state'[s] = state[s]
    BY ZenonT(60), <1>4, <2>3 DEF GoIdle, TypeOK
  <2>5. Held(c)' \subseteq Held(c) /\ current[c] \notin Held(c)'
    BY ZenonT(60), <2>1, <2>3, AsidAssumption DEF Held, HoldsOK, OpOK
  <2>6. OpOK(c)'
    BY ZenonT(60), <2>1, <2>3, AsidAssumption DEF HoldsOK, OpOK, Handoffs
  <2>7. \A s \in Held(c)' : state'[s] = state[s]
    BY ZenonT(60), <1>4, <2>5 DEF GoIdle, TypeOK, Held
  <2>8. \A s \in Held(c)' : state'[s] \in Busy
    BY ZenonT(60), <2>5, <2>7 DEF HoldsOK
  <2> QED
    BY ZenonT(60), <2>2, <2>4, <2>5, <2>6, <2>8, HoldChange
<1>5. ASSUME NEW c \in Cores, PrepareInvalid(c)
      PROVE  HoldsOK'
  BY SMTT(60), <1>5 DEF PrepareInvalid, Prepare, HoldsOK, OpOK, Held, procs
<1>6. ASSUME NEW c \in Cores, PrepareKept(c)
      PROVE  HoldsOK'
  BY ZenonT(60), <1>6, HoldGo DEF PrepareKept, Prepare, procs, Steps
<1>7. ASSUME NEW c \in Cores, AssignAttempt(c)
      PROVE  HoldsOK'
  <2>1. CASE next > AsidLast
    BY ZenonT(60), <1>7, <2>1, HoldGo DEF AssignAttempt, Prepare, procs, Steps
  <2>2. CASE ~(next > AsidLast)
    <3>1. op'[c] = Op(op[c].kind, "record", op[c].target, op[c].victim, next, generation)
          /\ \A d \in Cores \ {c} : op'[d] = op[d]
      BY ZenonT(60), <1>7, <2>2, BecomeIs DEF AssignAttempt
    <3>2. state' = state /\ current' = current
      BY ZenonT(60), <1>7 DEF AssignAttempt, Prepare, procs
    <3>3. Held(c)' = Held(c) /\ OpOK(c)'
      BY SMTT(60), <3>1, <3>2 DEF Held, OpOK, HoldsOK, Op
    <3> QED
      BY SMTT(60), <3>1, <3>2, <3>3, HoldOthers, HoldChange DEF HoldsOK
  <2> QED
    BY ZenonT(60), <2>1, <2>2
<1>8. ASSUME NEW c \in Cores, Record(c)
      PROVE  HoldsOK'
  BY ZenonT(60), <1>8, HoldGo DEF Record, procs, Steps
<1>9. ASSUME NEW c \in Cores, RolloverStopped(c)
      PROVE  HoldsOK'
  BY ZenonT(60), <1>9, HoldGo DEF RolloverStopped, procs, Steps
<1>10. ASSUME NEW c \in Cores, RolloverRefused(c)
       PROVE  HoldsOK'
  BY ZenonT(60), <1>10, HoldGo, CancelHold DEF RolloverRefused, procs, Steps
<1>11. ASSUME NEW c \in Cores, BlockMissed(c)
       PROVE  HoldsOK'
  BY ZenonT(60), <1>11, CancelHold DEF BlockMissed
<1>12. ASSUME NEW c \in Cores, CommitHandoff(c)
       PROVE  HoldsOK'
  <2>1. CASE ~Committable(c)
    BY ZenonT(60), <1>12, <2>1, CancelHold DEF CommitHandoff
  <2>2. CASE Committable(c)
    <3> DEFINE t == op[c].target
    <3>1. op'[c] \in {User, Activate("return", t, current[c])}
          /\ \A d \in Cores \ {c} : op'[d] = op[d]
      BY ZenonT(60), <1>12, <2>2, BecomeIs DEF CommitHandoff
    <3>2. current'[c] = t /\ \A d \in Cores \ {c} : current'[d] = current[d]
      BY ZenonT(60), <1>12, <2>2 DEF CommitHandoff, TypeOK
    <3>3. \A d \in Cores \ {c} : Held(d)' \subseteq Held(d) /\ OpOK(d)'
      BY ZenonT(60), <3>1, <3>2, HoldOthers
    <3>4. t \in Roots /\ t \in Held(c) /\ t # current[c]
      BY ZenonT(60), <1>12, <2>2 DEF CommitHandoff, Committable, Live, Held, HoldsOK, OpOK
    <3>5. \A s \in Roots : s # current[c] => state'[s] = state[s]
      BY ZenonT(60), <1>12, <2>2 DEF CommitHandoff
    <3>6. current[c] \in Roots => current[c] \in Held(c)
      BY ZenonT(60) DEF Held
    <3>7. Held(c)' \subseteq Held(c) /\ OpOK(c)'
          /\ \A s \in Held(c)' : s = t \/ LeavesExeced(c)
      <4>1. CASE LeavesExeced(c)
        <5>1. op'[c] = Activate("return", t, current[c])
          BY ZenonT(60), <1>12, <2>2, <4>1, BecomeIs DEF CommitHandoff
        <5>2. Held(c)' \subseteq {t, current[c]} \cap Roots /\ OpOK(c)'
          BY SMTT(60), <3>2, <3>4, <5>1, AsidAssumption
          DEF Activate, Op, Held, OpOK, Handoffs
        <5> QED
          BY ZenonT(60), <3>4, <3>6, <4>1, <5>2
      <4>2. CASE ~LeavesExeced(c)
        <5>1. op'[c] = User
          BY ZenonT(60), <1>12, <2>2, <4>2, BecomeIs DEF CommitHandoff
        <5>2. Held(c)' \subseteq {t} /\ OpOK(c)'
          BY SMTT(60), <3>2, <3>4, <5>1, AsidAssumption DEF User, Op, Held, OpOK, Handoffs
        <5> QED
          BY ZenonT(60), <3>4, <5>2
      <4> QED
        BY ZenonT(60), <4>1, <4>2
    <3>8. \A s \in Held(c)' : state'[s] = state[s]
      <4>1. \A s \in Roots : LeavesExeced(c) => state'[s] = state[s]
        BY ZenonT(60), <1>12, <2>2 DEF CommitHandoff
      <4>2. Held(c) \subseteq Roots
        BY ZenonT(60) DEF Held
      <4> QED
        BY ZenonT(60), <3>4, <3>5, <3>7, <4>1, <4>2
    <3>9. \A s \in Held(c)' : state'[s] \in Busy
      BY ZenonT(60), <3>7, <3>8 DEF HoldsOK
    <3> QED
      BY ZenonT(60), <3>3, <3>5, <3>6, <3>7, <3>9, HoldChange
  <2> QED
    BY ZenonT(60), <2>1, <2>2
<1>13. ASSUME NEW c \in Cores, CommitCurrent(c)
       PROVE  HoldsOK'
  <2>1. CASE ~Committable(c)
    BY SMTT(60), <1>13, <2>1 DEF CommitCurrent, HoldsOK, OpOK, Held
  <2>2. CASE Committable(c)
    <3>1. op'[c] = User /\ \A d \in Cores \ {c} : op'[d] = op[d]
      BY ZenonT(60), <1>13, <2>2, BecomeIs DEF CommitCurrent
    <3>2. current' = current
      BY ZenonT(60), <1>13 DEF CommitCurrent
    <3>3. \A d \in Cores \ {c} : Held(d)' \subseteq Held(d) /\ OpOK(d)'
      BY ZenonT(60), <3>1, <3>2, HoldOthers
    <3>4. Held(c)' = {current[c]} \cap Roots /\ OpOK(c)'
      BY SMTT(60), <3>1, <3>2, AsidAssumption DEF User, Op, Held, OpOK, Handoffs
    <3>5. {current[c], op[c].victim} \cap Roots \subseteq Held(c)
      BY ZenonT(60) DEF Held
    <3>6. CASE op[c].kind = "fork"
      <4>1. op[c].target = current[c] /\ op[c].target \in Roots
            /\ op[c].victim # current[c]
        BY ZenonT(60), <2>2, <3>6, AsidAssumption
        DEF Committable, Live, HoldsOK, OpOK, TypeOK, Ops
      <4>2. state' = [state EXCEPT ![current[c]] = "running", ![op[c].victim] = "ready"]
        BY ZenonT(60), <1>13, <2>2, <3>6, <4>1 DEF CommitCurrent
      <4>3. state'[current[c]] \in Busy
        BY ZenonT(60), <4>1, <4>2 DEF TypeOK, Busy
      <4>4. \A s \in Roots : s \in Held(c) \/ state'[s] = state[s]
        BY ZenonT(60), <3>5, <4>2 DEF TypeOK
      <4> QED
        BY ZenonT(60), <3>3, <3>4, <3>5, <4>3, <4>4, HoldChange
    <3>7. CASE op[c].kind # "fork"
      <4>1. state' = state
        BY ZenonT(60), <1>13, <2>2, <3>7 DEF CommitCurrent
      <4>2. \A s \in Held(c)' : s \in Held(c) /\ state'[s] \in Busy
        BY ZenonT(60), <3>4, <3>5, <4>1 DEF HoldsOK
      <4> QED
        BY ZenonT(60), <3>3, <3>4, <4>1, <4>2, HoldChange
    <3> QED
      BY ZenonT(60), <3>6, <3>7
  <2> QED
    BY ZenonT(60), <2>1, <2>2
<1>14. ASSUME NEW c \in Cores, CommitStable(c)
       PROVE  HoldsOK'
  <2>1. CASE ~Committable(c)
    BY SMTT(60), <1>14, <2>1 DEF CommitStable, HoldsOK, OpOK, Held, procs
  <2>2. CASE Committable(c)
    <3>1. op'[c] = Op(op[c].kind, "install", op[c].target, op[c].victim,
                      number[op[c].target], 0)
          /\ \A d \in Cores \ {c} : op'[d] = op[d]
      BY ZenonT(60), <1>14, <2>2, BecomeIs DEF CommitStable
    <3>2. state' = state /\ current' = current
      BY ZenonT(60), <1>14 DEF CommitStable, procs
    <3>3. op[c].target \in Roots /\ number[op[c].target] \in Tags
          /\ op[c].kind \in Stables
      BY ZenonT(60), <1>14, <2>2, CommittableTag DEF CommitStable
    <3>4. Held(c)' = Held(c) /\ OpOK(c)'
      BY SMTT(60), <3>1, <3>2, <3>3 DEF Held, OpOK, HoldsOK, Op
    <3> QED
      BY SMTT(60), <3>1, <3>2, <3>4, HoldOthers, HoldChange DEF HoldsOK
  <2> QED
    BY ZenonT(60), <2>1, <2>2
<1>15. ASSUME NEW c \in Cores, InstallStable(c)
       PROVE  HoldsOK'
  <2>1. current' = current /\ (op[c].kind # "return" => state' = state)
    BY ZenonT(60), <1>15 DEF InstallStable
  <2>2. CASE op[c].kind \in {"image", "resume", "return"}
    <3>1. op'[c] = User /\ \A d \in Cores \ {c} : op'[d] = op[d]
      BY ZenonT(60), <1>15, <2>2, BecomeIs DEF InstallStable
    <3>2. Held(c)' = {current[c]} \cap Roots /\ OpOK(c)'
      BY SMTT(60), <2>1, <3>1, AsidAssumption DEF User, Op, Held, OpOK, Handoffs
    <3>3. Held(c)' \subseteq Held(c)
      BY ZenonT(60), <3>2 DEF Held
    <3>4. \A s \in Roots : s = op[c].victim \/ state'[s] = state[s]
      BY ZenonT(60), <1>15 DEF InstallStable, TypeOK
    <3>5. \A s \in Roots : s \in Held(c) \/ state'[s] = state[s]
      BY ZenonT(60), <3>4 DEF Held
    <3>6. \A s \in Held(c)' : state'[s] \in Busy
      BY ZenonT(60), <3>2, <3>3, <3>4 DEF HoldsOK, OpOK
    <3> QED
      BY ZenonT(60), <2>1, <3>1, <3>2, <3>3, <3>5, <3>6, HoldOthers, HoldChange
  <2>3. CASE op[c].kind \notin {"image", "resume", "return"}
    <3>1. \/ op[c].kind \in {"clone", "exec"} /\ Go(c, "release")
          \/ Go(c, "teardown")
      BY ZenonT(60), <1>15, <2>3 DEF InstallStable
    <3> QED
      BY ZenonT(60), <2>1, <2>3, <3>1, HoldGo DEF Steps
  <2> QED
    BY ZenonT(60), <2>2, <2>3
<1>16. ASSUME NEW c \in Cores, Copied(c)
       PROVE  HoldsOK'
  <2>1. op'[c] = Activate("fork", op[c].target, op[c].victim)
        /\ \A d \in Cores \ {c} : op'[d] = op[d]
    BY ZenonT(60), <1>16, BecomeIs DEF Copied
  <2>2. state' = state /\ current' = current
    BY ZenonT(60), <1>16 DEF Copied
  <2>3. op[c].kind = "fork"
    BY ZenonT(60), <1>16 DEF Copied, At, HoldsOK, OpOK
  <2>4. Held(c)' = Held(c) /\ OpOK(c)'
    BY SMTT(60), <2>1, <2>2, <2>3 DEF Held, OpOK, HoldsOK, Op, Activate, Handoffs
  <2> QED
    BY SMTT(60), <2>1, <2>2, <2>4, HoldOthers, HoldChange DEF HoldsOK
<1>17. ASSUME NEW c \in Cores, CopyFailed(c)
       PROVE  HoldsOK'
  <2>1. PICK o \in {Op("undo", "teardown", op[c].victim, op[c].target, 0, 0),
                    Activate("unclone", op[c].victim, op[c].target)} :
           Become(c, o)
    BY ZenonT(60), <1>17 DEF CopyFailed
  <2>2. op'[c] = o /\ \A d \in Cores \ {c} : op'[d] = op[d]
    BY ZenonT(60), <2>1, BecomeIs
  <2>3. o.victim = op[c].target /\ o.kind \in {"undo", "unclone"}
        /\ o.step \in {"teardown", "prepare"}
    BY SMTT(60), <2>1 DEF Op, Activate
  <2>4. state' = state /\ current'[c] = op[c].victim
        /\ \A d \in Cores \ {c} : current'[d] = current[d]
    BY ZenonT(60), <1>17 DEF CopyFailed, TypeOK
  <2>5. op[c].kind = "fork" /\ op[c].target = current[c]
    BY ZenonT(60), <1>17 DEF CopyFailed, At, HoldsOK, OpOK
  <2>6. op[c].victim \in Roots => op[c].victim # op[c].target
    BY ZenonT(60), <2>5 DEF HoldsOK, OpOK
  <2>7. Held(c)' \subseteq Held(c)
    BY ZenonT(60), <2>2, <2>3, <2>4, <2>5 DEF Held, Handoffs
  <2>8. OpOK(c)'
    BY ZenonT(60), <2>2, <2>3, <2>4, <2>6 DEF OpOK, Handoffs
  <2> QED
    BY ZenonT(60), <2>2, <2>4, <2>7, <2>8, HoldOthers, HoldChange DEF HoldsOK
<1>18. ASSUME NEW c \in Cores, Exec(c)
       PROVE  HoldsOK'
  <2>1. PICK o \in {Loading, Activate("exec", SourceRoot(current[c]), None)} :
           Become(c, o)
    BY ZenonT(60), <1>18 DEF Exec, Loading
  <2>2. op'[c] = o /\ \A d \in Cores \ {c} : op'[d] = op[d]
    BY ZenonT(60), <2>1, BecomeIs
  <2>3. o.victim = None /\ o.kind = "exec" /\ o.step \in {"load", "prepare"}
    BY SMTT(60), <2>1 DEF Loading, Op, Activate
  <2>4. state' = state /\ current' = current /\ current[c] # None
    BY ZenonT(60), <1>18 DEF Exec, procs, Runs
  <2>5. Held(c)' \subseteq Held(c)
    BY ZenonT(60), <2>2, <2>3, <2>4, AsidAssumption DEF Held, Handoffs
  <2>6. OpOK(c)'
    BY ZenonT(60), <2>2, <2>3, <2>4, AsidAssumption DEF OpOK, Handoffs
  <2> QED
    BY ZenonT(60), <2>2, <2>4, <2>5, <2>6, HoldOthers, HoldChange DEF HoldsOK
<1>19. ASSUME NEW c \in Cores, Exit(c)
       PROVE  HoldsOK'
  <2>1. PICK o \in {Leaving, Activate("clone", SourceRoot(current[c]), None)} :
           Become(c, o)
    BY ZenonT(60), <1>19 DEF Exit
  <2>2. op'[c] = o /\ \A d \in Cores \ {c} : op'[d] = op[d]
    BY ZenonT(60), <2>1, BecomeIs
  <2>3. /\ o.victim = None /\ o.kind \in {"exit", "clone"}
        /\ o.kind = "exit" => o.target = None
        /\ o.step \in {"leave", "prepare"}
    BY SMTT(60), <2>1 DEF Leaving, Op, Activate
  <2>4. state' = state /\ current' = current /\ current[c] # None
    BY ZenonT(60), <1>19 DEF Exit, procs, Runs
  <2>5. Held(c)' \subseteq Held(c)
    BY ZenonT(60), <2>2, <2>3, <2>4, AsidAssumption DEF Held, Handoffs
  <2>6. OpOK(c)'
    BY ZenonT(60), <2>2, <2>3, <2>4, AsidAssumption DEF OpOK, Handoffs
  <2> QED
    BY ZenonT(60), <2>2, <2>4, <2>5, <2>6, HoldOthers, HoldChange DEF HoldsOK
<1>20. ASSUME NEW c \in Cores, CloneRollback(c)
       PROVE  HoldsOK'
  <2>1. state' = state /\ current' = current /\ op[c].kind \in {"clone", "exec"}
    BY ZenonT(60), <1>20 DEF CloneRollback, At, HoldsOK, OpOK
  <2>2. CASE op[c].kind = "exec"
    <3>1. op'[c] = Loading /\ \A d \in Cores \ {c} : op'[d] = op[d]
      BY ZenonT(60), <1>20, <2>2, BecomeIs DEF CloneRollback, Loading
    <3>2. current[c] # None
      BY ZenonT(60), <2>2 DEF HoldsOK, OpOK
    <3>3. Held(c)' = {current[c]} \cap Roots /\ OpOK(c)'
      BY SMTT(60), <2>1, <3>1, <3>2, AsidAssumption DEF Loading, Op, Held, OpOK, Handoffs
    <3>4. Held(c)' \subseteq Held(c)
      BY ZenonT(60), <3>3 DEF Held
    <3> QED
      BY ZenonT(60), <2>1, <3>1, <3>3, <3>4, HoldOthers, HoldChange DEF HoldsOK
  <2>3. CASE op[c].kind = "clone"
    BY ZenonT(60), <1>20, <2>1, <2>3, HoldGo DEF CloneRollback, Steps
  <2> QED
    BY ZenonT(60), <2>1, <2>2, <2>3
<1>23. ASSUME NEW c \in Cores, ExecLoaded(c)
       PROVE  HoldsOK'
  <2>1. op'[c] = Activate("image", current[c], None)
        /\ \A d \in Cores \ {c} : op'[d] = op[d]
    BY ZenonT(60), <1>23, BecomeIs DEF ExecLoaded
  <2>2. state' = state /\ current' = current
    BY ZenonT(60), <1>23 DEF ExecLoaded, procs
  <2>3. Held(c)' = {current[c]} \cap Roots /\ OpOK(c)'
    BY SMTT(60), <2>1, <2>2, AsidAssumption DEF Activate, Op, Held, OpOK, Handoffs
  <2>4. Held(c)' \subseteq Held(c)
    BY ZenonT(60), <2>3 DEF Held
  <2> QED
    BY ZenonT(60), <2>1, <2>2, <2>3, <2>4, HoldOthers, HoldChange DEF HoldsOK
<1>24. ASSUME NEW c \in Cores, ExecLost(c)
       PROVE  HoldsOK'
  <2>1. op'[c] = Leaving /\ \A d \in Cores \ {c} : op'[d] = op[d]
    BY ZenonT(60), <1>24, BecomeIs DEF ExecLost
  <2>2. state' = state /\ current' = current
    BY ZenonT(60), <1>24 DEF ExecLost, procs
  <2>3. current[c] # None
    BY ZenonT(60), <1>24 DEF ExecLost, At, HoldsOK, OpOK
  <2>4. Held(c)' = {current[c]} \cap Roots /\ OpOK(c)'
    BY SMTT(60), <2>1, <2>2, <2>3, AsidAssumption DEF Leaving, Op, Held, OpOK, Handoffs
  <2>5. Held(c)' \subseteq Held(c)
    BY ZenonT(60), <2>4 DEF Held
  <2> QED
    BY ZenonT(60), <2>1, <2>2, <2>4, <2>5, HoldOthers, HoldChange DEF HoldsOK
<1>21. ASSUME NEW c \in Cores, LeaveIdle(c)
       PROVE  HoldsOK'
  <2>1. op'[c] = User /\ \A d \in Cores \ {c} : op'[d] = op[d]
    BY ZenonT(60), <1>21, BecomeIs DEF LeaveIdle
  <2>2. current'[c] = None /\ \A d \in Cores \ {c} : current'[d] = current[d]
    BY ZenonT(60), <1>21 DEF LeaveIdle, TypeOK
  <2>3. Held(c)' = {} /\ OpOK(c)'
    BY SMTT(60), <2>1, <2>2, AsidAssumption DEF User, Op, Held, OpOK, Handoffs
  <2>4. \A s \in Roots : s \in Held(c) \/ state'[s] = state[s]
    BY ZenonT(60), <1>21 DEF LeaveIdle, TypeOK, Held
  <2> QED
    BY ZenonT(60), <2>1, <2>2, <2>3, <2>4, HoldOthers, HoldChange
<1>22. ASSUME NEW c \in Cores, ReleaseRoot(c)
       PROVE  HoldsOK'
  <2> DEFINE z == op[c].victim
             Named(r) == IF r = z THEN Dead ELSE r
  <2>1. \A d \in Cores \ {c} :
           op'[d] = Op(op[d].kind, op[d].step, Named(op[d].target),
                       op[d].victim, op[d].value, op[d].gen)
    BY ZenonT(60), <1>22 DEF ReleaseRoot
  <2>2. op'[c] = IF op[c].target = None THEN User
                 ELSE Activate(IF op[c].kind = "reap" THEN "resume" ELSE "undo",
                               op[c].target, None)
    BY ZenonT(60), <1>22 DEF ReleaseRoot
  <2>3. current' = current /\ state' = [state EXCEPT ![z] = "free"]
    BY ZenonT(60), <1>22 DEF ReleaseRoot
  <2>4. z \in Roots => z \in Held(c) /\ z # current[c]
    BY ZenonT(60) DEF Held, HoldsOK, OpOK
  <2>5. z \in Roots \cup {None} /\ \A d \in Cores : current[d] \in Roots \cup {None}
    BY ZenonT(60) DEF TypeOK, Ops
  <2>6. \A d \in Cores \ {c} : Held(d)' \subseteq Held(d) /\ OpOK(d)'
    <3> SUFFICES ASSUME NEW d \in Cores \ {c}
                 PROVE  Held(d)' \subseteq Held(d) /\ OpOK(d)'
      OBVIOUS
    <3>1. OpOK(d)
      BY ZenonT(60) DEF HoldsOK
    <3>2. /\ op'[d].kind = op[d].kind /\ op'[d].step = op[d].step
          /\ op'[d].target = Named(op[d].target) /\ op'[d].victim = op[d].victim
          /\ op'[d].value = op[d].value
      <4> HIDE DEF Named
      <4>1. op'[d] = Op(op[d].kind, op[d].step, Named(op[d].target),
                        op[d].victim, op[d].value, op[d].gen)
        BY ZenonT(60), <2>1
      <4> QED
        BY SMTT(60), <4>1 DEF Op
    <3>3. z \in Roots => current[d] # z
      BY ZenonT(60), <2>4, <2>5 DEF HoldsOK, Held
    <3>4. current[d] # Dead
      BY ZenonT(60), <2>5, AsidAssumption
    <3>5. Held(d)' \subseteq Held(d)
      BY ZenonT(60), <2>3, <3>2, AsidAssumption DEF Held
    <3>6. op[d].kind \in Handoffs => Named(op[d].target) # current[d]
      BY ZenonT(60), <3>1, <3>4 DEF OpOK
    <3>7. op[d].kind = "fork" => Named(op[d].target) = current[d]
      <4>1. CASE z \in Roots
        BY ZenonT(60), <4>1, <3>1, <3>3 DEF OpOK
      <4>2. CASE z = None
        BY ZenonT(60), <4>2, <3>1 DEF OpOK
      <4> QED
        BY ZenonT(60), <2>5, <4>1, <4>2
    <3> QED
      BY ZenonT(60), <2>3, <3>1, <3>2, <3>5, <3>6, <3>7 DEF OpOK
  <2>7. Held(c)' = {current[c]} \cap Roots /\ OpOK(c)'
    BY SMTT(60), <2>2, <2>3, AsidAssumption DEF User, Activate, Op, Held, OpOK, Handoffs
  <2>8. \A s \in Roots : state'[s] = IF s = z THEN "free" ELSE state[s]
    BY ZenonT(60), <2>3 DEF TypeOK
  <2>9. current[c] \in Roots => current[c] \in Held(c) /\ state'[current[c]] \in Busy
    BY ZenonT(60), <2>4, <2>8 DEF Held, HoldsOK
  <2> QED
    BY ZenonT(60), <2>4, <2>6, <2>7, <2>8, <2>9, HoldChange
<1> QED
  BY ZenonT(60), <1>0, <1>1, <1>2, <1>3, <1>4, <1>5, <1>6, <1>7, <1>8, <1>9, <1>10, <1>11,
     <1>12, <1>13, <1>14, <1>15, <1>16, <1>17, <1>18, <1>19, <1>20, <1>21, <1>22,
     <1>23, <1>24
     DEF Next, Switch, Start, LeaveTo, Handoffs

-----------------------------------------------------------------------------
(***************************************************************************)
(* What Asid promises of the numbers, for any number of cores, roots,      *)
(* numbers and generations: the numbers in force are unique, a translation *)
(* cached under a number its root owned is used by no other root that owns *)
(* it, and a hand-off never installs a number that a rollover took away.   *)
(***************************************************************************)

(***************************************************************************)
(* Every step keeps the numbers apart.                                     *)
(***************************************************************************)

\* What NumbersOK says of an owned translation.
EntryOK(e) ==
    /\ e.asid < next
    /\ \A r \in Roots : Owner(r) /\ number[r] = e.asid => r = e.root
    /\ \A d \in Cores : Pending(d) => op[d].value # e.asid

\* The translations a core leaves behind are as good as the ones it has.
LEMMA LoadedOK ==
    ASSUME IInv, NEW c \in Cores, NEW e \in Loaded(c), e.owned
    PROVE  EntryOK(e)
<1> USE DEF IInv
<1>1. e.asid = tag[c] /\ e.root = active[c] /\ OwnsTag(c)
  BY SMTT(60) DEF Loaded, Cached
<1>2. active[c] \in Roots /\ stamp[active[c]] = generation
      /\ number[active[c]] = tag[c] /\ tag[c] \in 1 .. AsidLast
  BY ZenonT(60), <1>1 DEF OwnsTag, Fresh, TypeOK, Tags
<1>3. Owner(active[c])
  <2>1. number[active[c]] # 0
    BY SMTT(60), <1>2, AsidAssumption
  <2> QED
    BY ZenonT(60), <1>2, <2>1 DEF NumbersOK, Owner
<1>4. e.asid < next
  BY ZenonT(60), <1>1, <1>2, <1>3 DEF NumbersOK
<1>5. \A r \in Roots : Owner(r) /\ number[r] = e.asid => r = e.root
  BY ZenonT(60), <1>1, <1>2, <1>3 DEF NumbersOK
<1>6. \A d \in Cores : Pending(d) => op[d].value # e.asid
  BY SMTT(60), <1>1, <1>2, <1>3 DEF NumbersOK
<1> QED
  BY ZenonT(60), <1>4, <1>5, <1>6 DEF EntryOK

\* A step that takes no number, records none and releases no root.
LEMMA Quiet ==
    ASSUME IInv, TypeOK',
           UNCHANGED <<next, generation, number, stamp>>,
           \A r \in Roots : state'[r] = "free" <=> state[r] = "free",
           \A c \in Cores : \/ op'[c].gen = 0
                            \/ op'[c].gen = op[c].gen /\ op'[c].value = op[c].value,
           \A c \in Cores : tlb'[c] \subseteq tlb[c] \cup Loaded(c)
    PROVE  NumbersOK'
<1> USE DEF IInv
<1>1. generation \in Nat /\ generation >= 1 /\ \A c \in Cores : op'[c].gen \in Nat
  <2>1. \A c \in Cores : op'[c] \in Ops
    BY ZenonT(60) DEF TypeOK
  <2> QED
    BY SMTT(60), <2>1, AsidAssumption DEF TypeOK, Ops
<1>2. \A r \in Roots : Owner(r)' <=> Owner(r)
  BY ZenonT(60) DEF Owner
<1>3. \A c \in Cores : Pending(c)' => Pending(c) /\ op'[c].value = op[c].value
  BY SMTT(60), <1>1 DEF Pending
<1>4. \A c \in Cores : op'[c].gen <= generation
  BY SMTT(60), <1>1 DEF NumbersOK
<1>5. \A c \in Cores : \A e \in tlb'[c] : e.owned => EntryOK(e)
  BY ZenonT(60), LoadedOK DEF NumbersOK, EntryOK
<1>6. \A c \in Cores : \A e \in tlb'[c] : e.owned =>
          /\ e.asid < next
          /\ \A r \in Roots : Owner(r)' /\ number[r] = e.asid => r = e.root
          /\ \A d \in Cores : Pending(d)' => op'[d].value # e.asid
  BY SMTT(60), <1>2, <1>3, <1>5 DEF EntryOK
<1>7. /\ \A r \in Roots : stamp[r] <= generation
      /\ \A r \in Roots : state'[r] = "free" => number[r] = 0
      /\ \A r \in Roots : Owner(r)' => number[r] >= 2 /\ number[r] < next
      /\ \A r, s \in Roots : Owner(r)' /\ Owner(s)' /\ number[r] = number[s] => r = s
  BY ZenonT(60), <1>2 DEF NumbersOK
<1>8. /\ \A c \in Cores : Pending(c)' => op'[c].value >= 2 /\ op'[c].value < next
      /\ \A c, d \in Cores :
            Pending(c)' /\ Pending(d)' /\ op'[c].value = op'[d].value => c = d
      /\ \A c \in Cores : \A r \in Roots :
            Pending(c)' /\ Owner(r)' => op'[c].value # number[r]
  BY SMTT(60), <1>2, <1>3 DEF NumbersOK
<1> QED
  BY ZenonT(60), <1>4, <1>6, <1>7, <1>8 DEF NumbersOK

\* Beginning an operation that holds no number gives no core a new one ...
LEMMA QuietOp ==
    ASSUME TypeOK, NEW c \in Cores, NEW o, Become(c, o), o.gen = 0
    PROVE  \A d \in Cores : \/ op'[d].gen = 0
                            \/ op'[d].gen = op[d].gen /\ op'[d].value = op[d].value
BY ZenonT(60), BecomeIs

\* ... nor does going to the next step of one ...
LEMMA QuietGo ==
    ASSUME TypeOK, NEW c \in Cores, NEW s, Go(c, s)
    PROVE  \A d \in Cores : \/ op'[d].gen = 0
                            \/ op'[d].gen = op[d].gen /\ op'[d].value = op[d].value
BY ZenonT(60), QuietOp DEF Go, Op

\* ... and a write of TTBR0 leaves only what the old root loaded.
LEMMA QuietInstall ==
    ASSUME TypeOK, NEW c \in Cores, NEW r, NEW k, Install(c, r, k)
    PROVE  \A d \in Cores : tlb'[d] \subseteq tlb[d] \cup Loaded(d)
BY ZenonT(60) DEF Install, TypeOK

\* A reserved process is live, and so is the one that a core runs.
LEMMA HeldLive ==
    ASSUME IInv, NEW c \in Cores
    PROVE  /\ current[c] \in Roots => state[current[c]] # "free"
           /\ op[c].victim \in Roots => state[op[c].victim] # "free"
           /\ op[c].kind \in Handoffs /\ op[c].target \in Roots
              => state[op[c].target] # "free"
BY SMTT(60) DEF IInv, HoldsOK, Held, Busy

\* Giving a reserved process back changes no number.
LEMMA CancelNumbers ==
    ASSUME IInv, TypeOK', NEW c \in Cores, CancelReserved(c)
    PROVE  NumbersOK'
<1>1. UNCHANGED <<next, generation, number, stamp>>
  BY ZenonT(60) DEF CancelReserved, cell, backing
<1>2. \A r \in Roots : state'[r] = "free" <=> state[r] = "free"
  BY SMTT(60), HeldLive DEF CancelReserved, IInv, TypeOK
<1>3. \A d \in Cores : \/ op'[d].gen = 0
                       \/ op'[d].gen = op[d].gen /\ op'[d].value = op[d].value
  BY ZenonT(60), QuietOp DEF CancelReserved, User, Leaving, Op, IInv
<1>4. UNCHANGED tlb
  BY ZenonT(60) DEF CancelReserved, mmu
<1> QED
  BY ZenonT(60), <1>1, <1>2, <1>3, <1>4, Quiet

\* Every step keeps the numbers apart.
LEMMA NumberStep ==
    ASSUME IInv, TypeOK', [Next]_vars
    PROVE  NumbersOK'
<1> USE DEF IInv
<1>0. CASE UNCHANGED vars
  BY SMTT(60), <1>0 DEF NumbersOK, Owner, Pending, vars
<1>1. ASSUME NEW c \in Cores, NEW r \in Roots, NEW k \in Handoffs, Reserve(c, k, r)
      PROVE  NumbersOK'
  <2>1. UNCHANGED <<next, generation, number, stamp>>
    BY ZenonT(60), <1>1 DEF Reserve, cell, backing
  <2>2. \A s \in Roots : state'[s] = "free" <=> state[s] = "free"
    BY ZenonT(60), <1>1 DEF Reserve, TypeOK
  <2>3. \A d \in Cores : \/ op'[d].gen = 0
                         \/ op'[d].gen = op[d].gen /\ op'[d].value = op[d].value
    BY ZenonT(60), <1>1, QuietOp DEF Reserve, Activate, Op
  <2>4. \A d \in Cores : tlb'[d] \subseteq tlb[d] \cup Loaded(d)
    BY ZenonT(60), <1>1 DEF Reserve, mmu
  <2> QED
    BY ZenonT(60), <2>1, <2>2, <2>3, <2>4, Quiet
<1>2. ASSUME NEW c \in Cores, NEW q \in Roots, Fork(c, q)
      PROVE  NumbersOK'
  <2>1. \A d \in Cores : \/ op'[d].gen = 0
                         \/ op'[d].gen = op[d].gen /\ op'[d].value = op[d].value
    BY ZenonT(60), <1>2, QuietOp DEF Fork, Op
  <2>2. generation \in Nat \ {0}
    BY SMTT(60), AsidAssumption DEF TypeOK
  <2>3. /\ number' = [number EXCEPT ![q] = 0] /\ stamp' = [stamp EXCEPT ![q] = 0]
        /\ state[q] = "free" /\ state' = [state EXCEPT ![q] = "constructing"]
        /\ UNCHANGED <<next, generation, tlb>>
    BY ZenonT(60), <1>2 DEF Fork, cell, mmu
  <2>4. \A r \in Roots : Owner(r)' => Owner(r) /\ r # q /\ number'[r] = number[r]
    BY ZenonT(60), <2>2, <2>3 DEF Owner, TypeOK
  <2>5. \A d \in Cores : Pending(d)' => Pending(d) /\ op'[d].value = op[d].value
    BY ZenonT(60), <2>1, <2>2, <2>3 DEF Pending
  <2>6. /\ \A r \in Roots : stamp'[r] <= generation
        /\ \A r \in Roots : state'[r] = "free" => number'[r] = 0
    BY SMTT(60), <2>2, <2>3 DEF NumbersOK, TypeOK
  <2>7. \A d \in Cores : op'[d].gen <= generation
    BY SMTT(60), <2>1, <2>2 DEF NumbersOK
  <2>8. /\ \A r \in Roots : Owner(r)' => number'[r] >= 2 /\ number'[r] < next
        /\ \A r, s \in Roots : Owner(r)' /\ Owner(s)' /\ number'[r] = number'[s] => r = s
    BY ZenonT(60), <2>4 DEF NumbersOK
  <2>9. /\ \A d \in Cores : Pending(d)' => op'[d].value >= 2 /\ op'[d].value < next
        /\ \A d, e \in Cores :
              Pending(d)' /\ Pending(e)' /\ op'[d].value = op'[e].value => d = e
        /\ \A d \in Cores : \A r \in Roots :
              Pending(d)' /\ Owner(r)' => op'[d].value # number'[r]
    BY SMTT(60), <2>4, <2>5 DEF NumbersOK
  <2>10. \A d \in Cores : \A e \in tlb[d] : e.owned =>
          /\ e.asid < next
          /\ \A r \in Roots : Owner(r)' /\ number'[r] = e.asid => r = e.root
          /\ \A f \in Cores : Pending(f)' => op'[f].value # e.asid
    BY SMTT(60), <2>4, <2>5 DEF NumbersOK
  <2> QED
    BY SMTT(60), <2>3, <2>6, <2>7, <2>8, <2>9, <2>10 DEF NumbersOK
<1>3. ASSUME NEW c \in Cores, NEW r \in Roots, Reap(c, r)
      PROVE  NumbersOK'
  <2>1. UNCHANGED <<next, generation, number, stamp>>
    BY ZenonT(60), <1>3 DEF Reap, cell, backing
  <2>2. \A s \in Roots : state'[s] = "free" <=> state[s] = "free"
    BY ZenonT(60), <1>3 DEF Reap, TypeOK
  <2>3. \A d \in Cores : \/ op'[d].gen = 0
                         \/ op'[d].gen = op[d].gen /\ op'[d].value = op[d].value
    BY ZenonT(60), <1>3, QuietOp DEF Reap, Activate, Op
  <2>4. \A d \in Cores : tlb'[d] \subseteq tlb[d] \cup Loaded(d)
    BY ZenonT(60), <1>3 DEF Reap, mmu
  <2> QED
    BY ZenonT(60), <2>1, <2>2, <2>3, <2>4, Quiet
<1>4. ASSUME NEW c \in Cores, GoIdle(c)
      PROVE  NumbersOK'
  <2>1. UNCHANGED <<next, generation, number, stamp>>
    BY ZenonT(60), <1>4 DEF GoIdle, cell, backing
  <2>2. \A r \in Roots : state'[r] = "free" <=> state[r] = "free"
    BY SMTT(60), <1>4, HeldLive DEF GoIdle, TypeOK
  <2>3. \A d \in Cores : \/ op'[d].gen = 0
                         \/ op'[d].gen = op[d].gen /\ op'[d].value = op[d].value
    BY ZenonT(60), <1>4 DEF GoIdle
  <2>4. \A d \in Cores : tlb'[d] \subseteq tlb[d] \cup Loaded(d)
    BY ZenonT(60), <1>4, QuietInstall DEF GoIdle
  <2> QED
    BY ZenonT(60), <2>1, <2>2, <2>3, <2>4, Quiet
<1>5. ASSUME NEW c \in Cores, PrepareInvalid(c)
      PROVE  NumbersOK'
  <2>1. UNCHANGED <<next, generation, number, stamp>>
    BY ZenonT(60), <1>5 DEF PrepareInvalid, Prepare, cell, backing
  <2>2. \A r \in Roots : state'[r] = "free" <=> state[r] = "free"
    BY ZenonT(60), <1>5 DEF PrepareInvalid, Prepare, procs
  <2>3. \A d \in Cores : \/ op'[d].gen = 0
                         \/ op'[d].gen = op[d].gen /\ op'[d].value = op[d].value
    BY ZenonT(60), <1>5 DEF PrepareInvalid
  <2>4. \A d \in Cores : tlb'[d] \subseteq tlb[d] \cup Loaded(d)
    BY ZenonT(60), <1>5 DEF PrepareInvalid, Prepare, mmu
  <2> QED
    BY ZenonT(60), <2>1, <2>2, <2>3, <2>4, Quiet
<1>6. ASSUME NEW c \in Cores, PrepareKept(c)
      PROVE  NumbersOK'
  <2>1. UNCHANGED <<next, generation, number, stamp>>
    BY ZenonT(60), <1>6 DEF PrepareKept, Prepare, cell, backing
  <2>2. \A r \in Roots : state'[r] = "free" <=> state[r] = "free"
    BY ZenonT(60), <1>6 DEF PrepareKept, Prepare, procs
  <2>3. \A d \in Cores : \/ op'[d].gen = 0
                         \/ op'[d].gen = op[d].gen /\ op'[d].value = op[d].value
    BY ZenonT(60), <1>6, QuietGo DEF PrepareKept
  <2>4. \A d \in Cores : tlb'[d] \subseteq tlb[d] \cup Loaded(d)
    BY ZenonT(60), <1>6 DEF PrepareKept, Prepare, mmu
  <2> QED
    BY ZenonT(60), <2>1, <2>2, <2>3, <2>4, Quiet
<1>7. ASSUME NEW c \in Cores, AssignAttempt(c)
      PROVE  NumbersOK'
  <2>0. UNCHANGED <<generation, number, stamp, state, tlb>>
    BY ZenonT(60), <1>7 DEF AssignAttempt, Prepare, backing, procs, mmu
  <2>1. CASE next > AsidLast
    <3>1. Go(c, "rollover") /\ next' = next
      BY ZenonT(60), <1>7, <2>1 DEF AssignAttempt
    <3>2. \A d \in Cores : \/ op'[d].gen = 0
                           \/ op'[d].gen = op[d].gen /\ op'[d].value = op[d].value
      BY ZenonT(60), <3>1, QuietGo
    <3> QED
      BY ZenonT(60), <2>0, <3>1, <3>2, Quiet
  <2>2. CASE ~(next > AsidLast)
    <3>1. op'[c].value = next /\ op'[c].gen = generation
          /\ \A d \in Cores \ {c} : op'[d] = op[d]
      BY SMTT(60), <1>7, <2>2, BecomeIs DEF AssignAttempt, Op
    <3>2. next' = next + 1 /\ next \in Nat /\ next >= 2 /\ generation \in Nat
      BY SMTT(60), <1>7, <2>2, AsidAssumption DEF AssignAttempt, TypeOK
    <3>3. /\ \A r \in Roots : number[r] \in Nat
          /\ \A d \in Cores : op[d].value \in Nat
          /\ \A d \in Cores : \A e \in tlb[d] : e.asid \in Nat
      <4>1. \A d \in Cores : op[d] \in Ops /\ tlb[d] \subseteq Entries
        BY ZenonT(60) DEF TypeOK
      <4> QED
        BY SMTT(60), <4>1, AsidAssumption DEF TypeOK, Ops, Entries, Tags
    <3>4. \A r \in Roots : Owner(r)' <=> Owner(r)
      BY ZenonT(60), <2>0 DEF Owner
    <3>5. \A d \in Cores : Pending(d)' =>
             \/ d = c /\ op'[d].value = next
             \/ d # c /\ Pending(d) /\ op'[d].value = op[d].value
      BY ZenonT(60), <2>0, <3>1 DEF Pending
    <3>6. \A d \in Cores : op'[d].gen <= generation
      BY SMTT(60), <3>1, <3>2 DEF NumbersOK
    <3>7. \A r \in Roots : Owner(r)' => number[r] >= 2 /\ number[r] < next /\ number[r] < next + 1
      BY SMTT(60), <3>2, <3>3, <3>4 DEF NumbersOK
    <3>8. \A d \in Cores : Pending(d)' => op'[d].value >= 2 /\ op'[d].value < next + 1
      BY SMTT(60), <3>2, <3>3, <3>5 DEF NumbersOK
    <3>9. \A d, e \in Cores :
             Pending(d)' /\ Pending(e)' /\ op'[d].value = op'[e].value => d = e
      BY SMTT(60), <3>2, <3>3, <3>5 DEF NumbersOK
    <3>10. \A d \in Cores : \A r \in Roots :
             Pending(d)' /\ Owner(r)' => op'[d].value # number[r]
      BY SMTT(60), <3>2, <3>3, <3>4, <3>5, <3>7 DEF NumbersOK
    <3>11. \A d \in Cores : \A e \in tlb[d] : e.owned =>
             /\ e.asid < next + 1
             /\ \A r \in Roots : Owner(r)' /\ number[r] = e.asid => r = e.root
             /\ \A f \in Cores : Pending(f)' => op'[f].value # e.asid
      BY SMTT(60), <3>2, <3>3, <3>4, <3>5 DEF NumbersOK
    <3> QED
      BY ZenonT(60), <2>0, <3>2, <3>4, <3>6, <3>7, <3>8, <3>9, <3>10, <3>11 DEF NumbersOK
  <2> QED
    BY ZenonT(60), <2>1, <2>2
<1>8. ASSUME NEW c \in Cores, Record(c)
      PROVE  NumbersOK'
  <2> DEFINE t == op[c].target
  <2>1. \A d \in Cores : \/ op'[d].gen = 0
                         \/ op'[d].gen = op[d].gen /\ op'[d].value = op[d].value
    BY ZenonT(60), <1>8, QuietGo DEF Record
  <2>2. op'[c].gen = 0
    BY SMTT(60), <1>8, BecomeIs DEF Record, Go, Op
  <2>3. UNCHANGED <<next, generation, state, tlb>>
    BY ZenonT(60), <1>8 DEF Record, cell, procs, mmu
  <2>4. CASE ~Live(t)
    BY ZenonT(60), <1>8, <2>1, <2>3, <2>4, Quiet DEF Record, backing
  <2>5. CASE Live(t)
    <3>1. /\ t \in Roots /\ state[t] # "free"
          /\ number' = [number EXCEPT ![t] = op[c].value]
          /\ stamp' = [stamp EXCEPT ![t] = op[c].gen]
      BY ZenonT(60), <1>8, <2>5 DEF Record, Live
    <3>2. generation \in Nat \ {0}
      BY SMTT(60), AsidAssumption DEF TypeOK
    <3>3. \A r \in Roots : Owner(r)' =>
             \/ r # t /\ Owner(r) /\ number'[r] = number[r]
             \/ r = t /\ Pending(c) /\ number'[r] = op[c].value
      BY ZenonT(60), <2>3, <3>1 DEF Owner, Pending, TypeOK
    <3>4. \A d \in Cores : Pending(d)' => d # c /\ Pending(d) /\ op'[d].value = op[d].value
      BY ZenonT(60), <2>1, <2>2, <2>3, <3>2 DEF Pending
    <3>5. /\ \A r \in Roots : stamp'[r] <= generation
          /\ \A r \in Roots : state[r] = "free" => number'[r] = 0
      BY ZenonT(60), <3>1 DEF NumbersOK, TypeOK
    <3>6. \A d \in Cores : op'[d].gen <= generation
      BY SMTT(60), <2>1, <3>2 DEF NumbersOK
    <3>7. /\ \A r \in Roots : Owner(r)' => number'[r] >= 2 /\ number'[r] < next
          /\ \A r, s \in Roots : Owner(r)' /\ Owner(s)' /\ number'[r] = number'[s] => r = s
      BY SMTT(60), <3>3 DEF NumbersOK
    <3>8. /\ \A d \in Cores : Pending(d)' => op'[d].value >= 2 /\ op'[d].value < next
          /\ \A d, e \in Cores :
                Pending(d)' /\ Pending(e)' /\ op'[d].value = op'[e].value => d = e
      BY ZenonT(60), <3>4 DEF NumbersOK
    <3>9. \A d \in Cores : \A r \in Roots :
             Pending(d)' /\ Owner(r)' => op'[d].value # number'[r]
      BY SMTT(60), <3>3, <3>4 DEF NumbersOK
    <3>10. \A d \in Cores : \A e \in tlb[d] : e.owned =>
             /\ e.asid < next
             /\ \A r \in Roots : Owner(r)' /\ number'[r] = e.asid => r = e.root
             /\ \A f \in Cores : Pending(f)' => op'[f].value # e.asid
      BY SMTT(60), <3>3, <3>4 DEF NumbersOK
    <3> QED
      BY ZenonT(60), <2>3, <3>5, <3>6, <3>7, <3>8, <3>9, <3>10 DEF NumbersOK
  <2> QED
    BY ZenonT(60), <2>4, <2>5
<1>9. ASSUME NEW c \in Cores, RolloverStopped(c)
      PROVE  NumbersOK'
  <2>1. \A d \in Cores : \/ op'[d].gen = 0
                         \/ op'[d].gen = op[d].gen /\ op'[d].value = op[d].value
    BY ZenonT(60), <1>9, QuietGo DEF RolloverStopped
  <2>2. UNCHANGED <<number, stamp, state>>
    BY ZenonT(60), <1>9 DEF RolloverStopped, backing, procs
  <2>3. CASE ~(next > AsidLast)
    BY ZenonT(60), <1>9, <2>1, <2>2, <2>3, Quiet DEF RolloverStopped, cell
  <2>4. CASE next > AsidLast
    <3>1. generation' = generation + 1 /\ tlb' = [d \in Cores |-> {}]
      BY ZenonT(60), <1>9, <2>4 DEF RolloverStopped
    <3>2. generation \in Nat /\ \A r \in Roots : stamp[r] \in Nat
      BY SMTT(60), AsidAssumption DEF TypeOK
    <3>3. \A d \in Cores : op[d].gen \in Nat /\ op'[d].gen \in {0, op[d].gen}
      <4>1. \A d \in Cores : op[d] \in Ops
        BY ZenonT(60) DEF TypeOK
      <4> QED
        BY SMTT(60), <2>1, <4>1, AsidAssumption DEF Ops
    <3>4. \A r \in Roots : stamp[r] < generation + 1
      BY SMTT(60), <3>2 DEF NumbersOK
    <3>5. \A d \in Cores : op'[d].gen < generation + 1
      BY SMTT(60), <3>2, <3>3 DEF NumbersOK
    <3>6. /\ \A r \in Roots : ~Owner(r)' /\ stamp'[r] <= generation'
          /\ \A d \in Cores : ~Pending(d)' /\ op'[d].gen <= generation'
      BY SMTT(60), <2>2, <3>1, <3>2, <3>3, <3>4, <3>5 DEF Owner, Pending
    <3>7. \A r \in Roots : state'[r] = "free" => number'[r] = 0
      BY ZenonT(60), <2>2 DEF NumbersOK
    <3> QED
      BY ZenonT(60), <3>1, <3>6, <3>7 DEF NumbersOK
  <2> QED
    BY ZenonT(60), <2>3, <2>4
<1>10. ASSUME NEW c \in Cores, RolloverRefused(c)
       PROVE  NumbersOK'
  <2>1. CASE CancelReserved(c)
    BY ZenonT(60), <2>1, CancelNumbers
  <2>2. CASE ~CancelReserved(c)
    <3>1. Go(c, "prepare") /\ UNCHANGED <<cell, backing, procs, mmu, stopped>>
      BY ZenonT(60), <1>10, <2>2 DEF RolloverRefused
    <3>2. \A d \in Cores : \/ op'[d].gen = 0
                           \/ op'[d].gen = op[d].gen /\ op'[d].value = op[d].value
      BY ZenonT(60), <3>1, QuietGo
    <3> QED
      BY ZenonT(60), <3>1, <3>2, Quiet DEF cell, backing, procs, mmu
  <2> QED
    BY ZenonT(60), <2>1, <2>2
<1>11. ASSUME NEW c \in Cores, BlockMissed(c)
       PROVE  NumbersOK'
  BY ZenonT(60), <1>11, CancelNumbers DEF BlockMissed
<1>12. ASSUME NEW c \in Cores, CommitHandoff(c)
       PROVE  NumbersOK'
  <2>1. CASE ~Committable(c)
    BY ZenonT(60), <1>12, <2>1, CancelNumbers DEF CommitHandoff
  <2>2. CASE Committable(c)
    <3>1. UNCHANGED <<next, generation, number, stamp>>
      BY ZenonT(60), <1>12, <2>2 DEF CommitHandoff, cell, backing
    <3>2. \A r \in Roots : state'[r] = "free" <=> state[r] = "free"
      BY ZenonT(60), <1>12, <2>2, HeldLive DEF CommitHandoff
    <3>3. \A d \in Cores : \/ op'[d].gen = 0
                           \/ op'[d].gen = op[d].gen /\ op'[d].value = op[d].value
      BY ZenonT(60), <1>12, <2>2, QuietOp DEF CommitHandoff, User, Activate, Op
    <3>4. \A d \in Cores : tlb'[d] \subseteq tlb[d] \cup Loaded(d)
      BY ZenonT(60), <1>12, <2>2, QuietInstall DEF CommitHandoff
    <3> QED
      BY ZenonT(60), <3>1, <3>2, <3>3, <3>4, Quiet
  <2> QED
    BY ZenonT(60), <2>1, <2>2
<1>13. ASSUME NEW c \in Cores, CommitCurrent(c)
       PROVE  NumbersOK'
  <2>1. UNCHANGED <<next, generation, number, stamp>>
    BY ZenonT(60), <1>13 DEF CommitCurrent, cell, backing
  <2>2. \A r \in Roots : state'[r] = "free" <=> state[r] = "free"
    BY SMTT(60), <1>13, HeldLive DEF CommitCurrent, Committable, Live, TypeOK
  <2>3. \A d \in Cores : \/ op'[d].gen = 0
                         \/ op'[d].gen = op[d].gen /\ op'[d].value = op[d].value
    BY ZenonT(60), <1>13, QuietOp DEF CommitCurrent, User, Op
  <2>4. \A d \in Cores : tlb'[d] \subseteq tlb[d] \cup Loaded(d)
    BY ZenonT(60), <1>13, QuietInstall DEF CommitCurrent, mmu
  <2> QED
    BY ZenonT(60), <2>1, <2>2, <2>3, <2>4, Quiet
<1>14. ASSUME NEW c \in Cores, CommitStable(c)
       PROVE  NumbersOK'
  <2>1. UNCHANGED <<next, generation, number, stamp, state, tlb>>
    BY ZenonT(60), <1>14 DEF CommitStable, cell, backing, procs, mmu
  <2>2. \A d \in Cores : \/ op'[d].gen = 0
                         \/ op'[d].gen = op[d].gen /\ op'[d].value = op[d].value
    BY ZenonT(60), <1>14, QuietOp DEF CommitStable, Op
  <2> QED
    BY ZenonT(60), <2>1, <2>2, Quiet
<1>15. ASSUME NEW c \in Cores, InstallStable(c)
       PROVE  NumbersOK'
  <2>1. UNCHANGED <<next, generation, number, stamp>>
    BY ZenonT(60), <1>15 DEF InstallStable, cell, backing
  <2>4. \A r \in Roots : state'[r] = "free" <=> state[r] = "free"
    BY SMTT(60), <1>15, HeldLive DEF InstallStable, TypeOK
  <2>2. \A d \in Cores : \/ op'[d].gen = 0
                         \/ op'[d].gen = op[d].gen /\ op'[d].value = op[d].value
    <3>1. User.gen = 0
      BY ZenonT(60) DEF User, Op
    <3>2. Become(c, User) \/ \E s \in Steps : Go(c, s)
      BY ZenonT(60), <1>15 DEF InstallStable, Steps
    <3> QED
      BY ZenonT(60), <3>1, <3>2, QuietOp, QuietGo
  <2>3. \A d \in Cores : tlb'[d] \subseteq tlb[d] \cup Loaded(d)
    BY ZenonT(60), <1>15, QuietInstall DEF InstallStable
  <2> QED
    BY ZenonT(60), <2>1, <2>2, <2>3, <2>4, Quiet
<1>16. ASSUME NEW c \in Cores, Copied(c)
       PROVE  NumbersOK'
  <2>1. UNCHANGED <<next, generation, number, stamp, state, tlb>>
    BY ZenonT(60), <1>16 DEF Copied, cell, backing, mmu
  <2>2. \A d \in Cores : \/ op'[d].gen = 0
                         \/ op'[d].gen = op[d].gen /\ op'[d].value = op[d].value
    BY ZenonT(60), <1>16, QuietOp DEF Copied, Activate, Op
  <2> QED
    BY ZenonT(60), <2>1, <2>2, Quiet
<1>17. ASSUME NEW c \in Cores, CopyFailed(c)
       PROVE  NumbersOK'
  <2>1. UNCHANGED <<next, generation, number, stamp, state, tlb>>
    BY ZenonT(60), <1>17 DEF CopyFailed, cell, backing, mmu
  <2>2. \A d \in Cores : \/ op'[d].gen = 0
                         \/ op'[d].gen = op[d].gen /\ op'[d].value = op[d].value
    BY ZenonT(60), <1>17, QuietOp DEF CopyFailed, Activate, Op
  <2> QED
    BY ZenonT(60), <2>1, <2>2, Quiet
<1>18. ASSUME NEW c \in Cores, Exec(c)
       PROVE  NumbersOK'
  <2>1. \A d \in Cores : tlb'[d] \subseteq tlb[d]
    BY ZenonT(60), <1>18 DEF Exec, Without
  <2>2. UNCHANGED <<next, generation, number, stamp, state>>
    BY ZenonT(60), <1>18 DEF Exec, cell, backing, procs
  <2>3. \A d \in Cores : \/ op'[d].gen = 0
                         \/ op'[d].gen = op[d].gen /\ op'[d].value = op[d].value
    BY ZenonT(60), <1>18, QuietOp DEF Exec, Activate, Op
  <2> QED
    BY ZenonT(60), <2>1, <2>2, <2>3, Quiet
<1>19. ASSUME NEW c \in Cores, Exit(c)
       PROVE  NumbersOK'
  <2>1. UNCHANGED <<next, generation, number, stamp, state, tlb>>
    BY ZenonT(60), <1>19 DEF Exit, cell, backing, procs, mmu
  <2>2. \A d \in Cores : \/ op'[d].gen = 0
                         \/ op'[d].gen = op[d].gen /\ op'[d].value = op[d].value
    BY ZenonT(60), <1>19, QuietOp DEF Exit, Leaving, Activate, Op
  <2> QED
    BY ZenonT(60), <2>1, <2>2, Quiet
<1>20. ASSUME NEW c \in Cores, CloneRollback(c)
       PROVE  NumbersOK'
  <2>1. \A d \in Cores : tlb'[d] \subseteq tlb[d]
    BY ZenonT(60), <1>20 DEF CloneRollback, Without
  <2>2. UNCHANGED <<next, generation, number, stamp, state>>
    BY ZenonT(60), <1>20 DEF CloneRollback, cell, backing
  <2>3. \A d \in Cores : \/ op'[d].gen = 0
                         \/ op'[d].gen = op[d].gen /\ op'[d].value = op[d].value
    BY ZenonT(60), <1>20, QuietGo, QuietOp DEF CloneRollback, Op
  <2> QED
    BY ZenonT(60), <2>1, <2>2, <2>3, Quiet
<1>23. ASSUME NEW c \in Cores, ExecLoaded(c)
       PROVE  NumbersOK'
  <2>1. UNCHANGED <<next, generation, number, stamp, state, tlb>>
    BY ZenonT(60), <1>23 DEF ExecLoaded, cell, backing, procs, mmu
  <2>2. \A d \in Cores : \/ op'[d].gen = 0
                         \/ op'[d].gen = op[d].gen /\ op'[d].value = op[d].value
    BY ZenonT(60), <1>23, QuietOp DEF ExecLoaded, Activate, Op
  <2> QED
    BY ZenonT(60), <2>1, <2>2, Quiet
<1>24. ASSUME NEW c \in Cores, ExecLost(c)
       PROVE  NumbersOK'
  <2>1. UNCHANGED <<next, generation, number, stamp, state, tlb>>
    BY ZenonT(60), <1>24 DEF ExecLost, cell, backing, procs, mmu
  <2>2. \A d \in Cores : \/ op'[d].gen = 0
                         \/ op'[d].gen = op[d].gen /\ op'[d].value = op[d].value
    BY ZenonT(60), <1>24, QuietOp DEF ExecLost, Leaving, Op
  <2> QED
    BY ZenonT(60), <2>1, <2>2, Quiet
<1>21. ASSUME NEW c \in Cores, LeaveIdle(c)
       PROVE  NumbersOK'
  <2>1. UNCHANGED <<next, generation, number, stamp>>
    BY ZenonT(60), <1>21 DEF LeaveIdle, cell, backing
  <2>2. \A r \in Roots : state'[r] = "free" <=> state[r] = "free"
    BY ZenonT(60), <1>21, HeldLive DEF LeaveIdle, TypeOK
  <2>3. \A d \in Cores : \/ op'[d].gen = 0
                         \/ op'[d].gen = op[d].gen /\ op'[d].value = op[d].value
    BY ZenonT(60), <1>21, QuietOp DEF LeaveIdle, User, Op
  <2>4. \A d \in Cores : tlb'[d] \subseteq tlb[d] \cup Loaded(d)
    BY ZenonT(60), <1>21, QuietInstall DEF LeaveIdle
  <2> QED
    BY ZenonT(60), <2>1, <2>2, <2>3, <2>4, Quiet
<1>22. ASSUME NEW c \in Cores, ReleaseRoot(c)
       PROVE  NumbersOK'
  <2> DEFINE z == op[c].victim
             Named(r) == IF r = z THEN Dead ELSE r
             left == IF active[c] = z THEN [tlb EXCEPT ![c] = @ \cup Loaded(c)]
                     ELSE tlb
  <2>1. /\ UNCHANGED <<next, generation, stamp>>
        /\ number' = [number EXCEPT ![z] = 0]
        /\ state' = [state EXCEPT ![z] = "free"]
    BY ZenonT(60), <1>22 DEF ReleaseRoot, cell
  <2>2. \A d \in Cores : \/ op'[d].gen = 0
                         \/ op'[d].gen = op[d].gen /\ op'[d].value = op[d].value
    BY ZenonT(60), <1>22 DEF ReleaseRoot, User, Activate, Op
  <2>3. generation \in Nat \ {0}
    BY SMTT(60), AsidAssumption DEF TypeOK
  <2>4. \A r \in Roots : Owner(r)' => Owner(r) /\ r # z /\ number'[r] = number[r]
    BY ZenonT(60), <2>1 DEF Owner, TypeOK
  <2>5. \A d \in Cores : Pending(d)' => Pending(d) /\ op'[d].value = op[d].value
    BY ZenonT(60), <2>1, <2>2, <2>3 DEF Pending
  <2>6. tlb' = [d \in Cores |->
                 {Cached(e.asid, Named(e.root), e.owned) :
                    e \in {f \in left[d] : f.asid # number[z]}}]
    BY ZenonT(60), <1>22 DEF ReleaseRoot
  <2>7. \A d \in Cores : left[d] \subseteq tlb[d] \cup Loaded(d)
    BY ZenonT(60) DEF TypeOK
  <2>8. \A d \in Cores : \A e \in tlb'[d] : e.owned =>
           /\ e.asid < next
           /\ \A r \in Roots : Owner(r)' /\ number'[r] = e.asid => r = e.root
           /\ \A f \in Cores : Pending(f)' => op'[f].value # e.asid
    <3> SUFFICES ASSUME NEW d \in Cores, NEW e \in tlb'[d], e.owned
                 PROVE  /\ e.asid < next
                        /\ \A r \in Roots : Owner(r)' /\ number'[r] = e.asid => r = e.root
                        /\ \A f \in Cores : Pending(f)' => op'[f].value # e.asid
      OBVIOUS
    <3>1. PICK g \in left[d] : e = Cached(g.asid, Named(g.root), g.owned)
      <4> HIDE DEF left, Named
      <4> QED
        BY ZenonT(60), <2>6
    <3>2. e.asid = g.asid /\ e.root = Named(g.root) /\ g.owned
      BY ZenonT(60), <3>1 DEF Cached
    <3>3. EntryOK(g)
      BY ZenonT(60), <2>7, <3>2, LoadedOK DEF NumbersOK, EntryOK
    <3>4. \A r \in Roots : Owner(r)' /\ number'[r] = e.asid => r = e.root
      BY SMTT(60), <2>4, <3>2, <3>3 DEF EntryOK
    <3>5. \A f \in Cores : Pending(f)' => op'[f].value # e.asid
      BY ZenonT(60), <2>5, <3>2, <3>3 DEF EntryOK
    <3> QED
      BY ZenonT(60), <3>2, <3>3, <3>4, <3>5 DEF EntryOK
  <2>9. /\ \A r \in Roots : stamp[r] <= generation
        /\ \A r \in Roots : state'[r] = "free" => number'[r] = 0
    BY ZenonT(60), <2>1 DEF NumbersOK, TypeOK
  <2>10. \A d \in Cores : op'[d].gen <= generation
    BY SMTT(60), <2>2, <2>3 DEF NumbersOK
  <2>11. /\ \A r \in Roots : Owner(r)' => number'[r] >= 2 /\ number'[r] < next
         /\ \A r, s \in Roots : Owner(r)' /\ Owner(s)' /\ number'[r] = number'[s] => r = s
    BY SMTT(60), <2>4 DEF NumbersOK
  <2>12. /\ \A d \in Cores : Pending(d)' => op'[d].value >= 2 /\ op'[d].value < next
         /\ \A d, e \in Cores :
               Pending(d)' /\ Pending(e)' /\ op'[d].value = op'[e].value => d = e
         /\ \A d \in Cores : \A r \in Roots :
               Pending(d)' /\ Owner(r)' => op'[d].value # number'[r]
    BY SMTT(60), <2>4, <2>5 DEF NumbersOK
  <2> QED
    BY ZenonT(60), <2>1, <2>8, <2>9, <2>10, <2>11, <2>12 DEF NumbersOK
<1> QED
  BY ZenonT(60), <1>0, <1>1, <1>2, <1>3, <1>4, <1>5, <1>6, <1>7, <1>8, <1>9, <1>10, <1>11,
     <1>12, <1>13, <1>14, <1>15, <1>16, <1>17, <1>18, <1>19, <1>20, <1>21, <1>22,
     <1>23, <1>24
     DEF Next, Switch, Start, LeaveTo, Handoffs

-----------------------------------------------------------------------------
\* The invariant holds when the MMU comes on: PID 1 has a root and no number,
\* and every core runs on root 0.
LEMMA InitInv == Init => IInv
<1> SUFFICES ASSUME Init PROVE IInv
  OBVIOUS
<1>1. \A c \in Cores : op[c] = User
  BY ZenonT(60) DEF Init
<1>2. TypeOK
  <2>1. /\ next \in 2 .. AsidLast + 1 /\ generation \in 1 .. MaxGeneration
        /\ number \in [Roots -> 0 .. AsidLast] /\ stamp \in [Roots -> 0 .. MaxGeneration]
    BY SMTT(60), AsidAssumption DEF Init
  <2>2. state \in [Roots -> States] /\ tag \in [Cores -> Tags]
    BY ZenonT(60), BootTag DEF Init, States
  <2> QED
    BY ZenonT(60), <2>1, <2>2, PlainOps DEF Init, TypeOK
<1>3. HoldsOK
  BY ZenonT(60), <1>1, AsidAssumption DEF Init, User, Op, HoldsOK, OpOK, Held, Handoffs
<1>4. NumbersOK
  BY SMTT(60), <1>1 DEF Init, User, Op, NumbersOK, Owner, Pending
<1> QED
  BY ZenonT(60), <1>2, <1>3, <1>4 DEF IInv

\* The invariant is inductive.
THEOREM Invariance == Spec => []IInv
<1>1. IInv /\ [Next]_vars => IInv'
  BY ZenonT(60), TypeStep, HoldStep, NumberStep DEF IInv
<1> QED
  BY <1>1, InitInv, PTL DEF Spec

\* Types: no number passes asid_last, and TTBR0 never holds number 0.
THEOREM TypeCorrect == Spec => []TypeOK
<1>1. IInv => TypeOK
  BY ZenonT(60) DEF IInv
<1> QED
  BY <1>1, Invariance, PTL

\* asid_assign_attempt and asid_rollover_stopped never give one number to two
\* roots of the same generation, however their steps interleave with the
\* recording of the number, forks and releases.
THEOREM Uniqueness == Spec => []NumbersUnique
<1>1. IInv => NumbersUnique
  <2> SUFFICES ASSUME IInv, NEW r \in Roots, NEW s \in Roots,
                      Live(r), Live(s), Fresh(r), Fresh(s)
               PROVE  number[r] > BootAsid /\ (number[r] = number[s] => r = s)
    BY ZenonT(60) DEF NumbersUnique
  <2>1. Owner(r) /\ Owner(s)
    BY ZenonT(60) DEF Owner, Live, Fresh
  <2>2. number[r] >= 2 /\ (number[r] = number[s] => r = s)
    BY ZenonT(60), <2>1 DEF IInv, NumbersOK
  <2>3. number[r] \in 0 .. AsidLast
    BY ZenonT(60) DEF IInv, TypeOK
  <2>4. number[r] > 1
    BY SMTT(60), <2>2, <2>3, AsidAssumption
  <2> QED
    BY ZenonT(60), <2>2, <2>4 DEF BootAsid
<1> QED
  BY <1>1, Invariance, PTL

\* A translation cached under a number its root owned is never used by
\* another root that owns it: the rollover's invalidation covers every core,
\* and a release needs none for this.
THEOREM Translations == Spec => []OwnedTranslations
<1>1. IInv => OwnedTranslations
  <2> SUFFICES ASSUME IInv, NEW c \in Cores, NEW e \in tlb[c],
                      e.owned, OwnsTag(c), e.asid = tag[c]
               PROVE  e.root = active[c]
    BY ZenonT(60) DEF OwnedTranslations
  <2>1. active[c] \in Roots /\ stamp[active[c]] = generation
        /\ number[active[c]] = tag[c] /\ tag[c] \in 1 .. AsidLast
    BY ZenonT(60) DEF OwnsTag, Fresh, IInv, TypeOK, Tags
  <2>2. number[active[c]] # 0
    BY SMTT(60), <2>1, AsidAssumption
  <2>3. Owner(active[c])
    BY ZenonT(60), <2>1, <2>2 DEF IInv, NumbersOK, Owner
  <2> QED
    BY ZenonT(60), <2>1, <2>3 DEF IInv, NumbersOK
<1> QED
  BY <1>1, Invariance, PTL

-----------------------------------------------------------------------------
(* That a running core's root is not released under it.                     *)

\* The root a core stands on unless it is in a clone's exit or in execve: its
\* process's, or the parent's until the child of a fork is activated.
Base(c) ==
    IF op[c].kind = "fork" THEN op[c].victim
    ELSE IF current[c] = None THEN Boot ELSE current[c]

\* A return is to the process that runs, and a root is torn down only in the
\* undo of a fork or in a reap.
StandsOK(c) ==
    /\ op[c].kind = "fork" => op[c].victim \in Roots
    /\ op[c].kind \in {"undo", "unclone", "image", "resume", "reap", "return"} =>
          op[c].target \in {None, current[c]}
    /\ op[c].kind \in {"unclone", "reap"} \/ op[c].step = "teardown" =>
          op[c].victim \in Roots /\ op[c].kind \in {"undo", "unclone", "reap"}
    /\ op[c].kind \notin {"clone", "exec", "image", "exit"} => active[c] = Base(c)

RootsOK == \A c \in Cores : StandsOK(c)

\* A core that nothing of changes stands where it stood.
LEMMA StandsStill ==
    ASSUME RootsOK, NEW d \in Cores, op'[d] = op[d], current'[d] = current[d],
           active'[d] = active[d]
    PROVE  StandsOK(d)'
BY ZenonT(60) DEF RootsOK, StandsOK, Base

\* The same of every core but one.
LEMMA StandsOne ==
    ASSUME RootsOK, NEW c \in Cores, StandsOK(c)',
           \A d \in Cores \ {c} : op'[d] = op[d] /\ current'[d] = current[d]
                                  /\ active'[d] = active[d]
    PROVE  RootsOK'
BY ZenonT(60), StandsStill DEF RootsOK

\* The next step of the same operation, short of a teardown.
LEMMA StandsGo ==
    ASSUME IInv, RootsOK, NEW c \in Cores, NEW s \in Steps \ {"teardown"}, NEW n, NEW g,
           Become(c, Op(op[c].kind, s, op[c].target, op[c].victim, n, g)),
           UNCHANGED <<current, active>>
    PROVE  RootsOK'
<1>1. /\ op'[c] = Op(op[c].kind, s, op[c].target, op[c].victim, n, g)
      /\ \A d \in Cores \ {c} : op'[d] = op[d]
  BY ZenonT(60), BecomeIs DEF IInv
<1>2. /\ op'[c].kind = op[c].kind /\ op'[c].step # "teardown"
      /\ op'[c].target = op[c].target /\ op'[c].victim = op[c].victim
  BY SMTT(60), <1>1 DEF Op
<1>3. StandsOK(c)'
  BY ZenonT(60), <1>2 DEF RootsOK, StandsOK, Base
<1> QED
  BY ZenonT(60), <1>1, <1>3, StandsOne

\* A write of TTBR0 moves this core alone.
LEMMA InstallIs ==
    ASSUME TypeOK, NEW c \in Cores, NEW r, NEW k, Install(c, r, k)
    PROVE  active'[c] = r /\ \A d \in Cores \ {c} : active'[d] = active[d]
BY ZenonT(60) DEF TypeOK, Install

\* A core with no operation stands on its process's root or on root 0.
LEMMA StandsUser ==
    ASSUME NEW c \in Cores, op'[c] = User,
           active'[c] = IF current'[c] = None THEN Boot ELSE current'[c]
    PROVE  StandsOK(c)'
<1>1. op'[c].kind = "none" /\ op'[c].step = "user"
  BY SMTT(60) DEF User, Op
<1> QED
  BY ZenonT(60), <1>1 DEF StandsOK, Base

\* A handoff that gives its target back stays where it was.
LEMMA StandsCancel ==
    ASSUME IInv, RootsOK, NEW c \in Cores, CancelReserved(c)
    PROVE  RootsOK'
<1> USE DEF IInv
<1>1. UNCHANGED <<current, active>> /\ op[c].kind \in Handoffs
  BY ZenonT(60) DEF CancelReserved, mmu
<1>2. CASE op[c].kind = "exit"
  <2>1. op'[c] = Leaving /\ \A d \in Cores \ {c} : op'[d] = op[d]
    BY ZenonT(60), <1>2, BecomeIs DEF CancelReserved
  <2>2. op'[c].kind = "exit" /\ op'[c].step = "leave"
    BY SMTT(60), <2>1 DEF Leaving, Op
  <2>3. StandsOK(c)'
    BY ZenonT(60), <2>2 DEF StandsOK
  <2> QED
    BY ZenonT(60), <1>1, <2>1, <2>3, StandsOne
<1>3. CASE op[c].kind # "exit"
  <2>1. op'[c] = User /\ \A d \in Cores \ {c} : op'[d] = op[d]
    BY ZenonT(60), <1>3, BecomeIs DEF CancelReserved
  <2>2. active[c] = IF current[c] = None THEN Boot ELSE current[c]
    BY ZenonT(60), <1>1, <1>3 DEF RootsOK, StandsOK, Base, Handoffs
  <2> QED
    BY ZenonT(60), <1>1, <2>1, <2>2, StandsUser, StandsOne
<1> QED
  BY ZenonT(60), <1>2, <1>3

\* A core between operations is about to begin one.
LEMMA StandsIdle ==
    ASSUME IInv, RootsOK, NEW c \in Cores, At(c, "user")
    PROVE  /\ op[c].kind = "none"
           /\ active[c] = IF current[c] = None THEN Boot ELSE current[c]
<1>1. op[c].kind = "none"
  BY ZenonT(60) DEF IInv, At, HoldsOK, OpOK
<1> QED
  BY ZenonT(60), <1>1 DEF RootsOK, StandsOK, Base

\* One step per action of Asid.
LEMMA StandsStep ==
    ASSUME IInv, RootsOK, [Next]_vars
    PROVE  RootsOK'
<1> USE DEF IInv
<1>0. CASE UNCHANGED vars
  BY ZenonT(60), <1>0, StandsStill DEF RootsOK, vars
<1>1. ASSUME NEW c \in Cores, NEW k \in Handoffs, NEW t \in Roots, Reserve(c, k, t),
             At(c, "user") \/ k = "exit"
      PROVE  RootsOK'
  <2>1. op'[c] = Activate(k, t, None) /\ \A d \in Cores \ {c} : op'[d] = op[d]
    BY ZenonT(60), <1>1, BecomeIs DEF Reserve
  <2>2. op'[c].kind = k /\ op'[c].step = "prepare"
    BY SMTT(60), <2>1 DEF Activate, Op
  <2>3. UNCHANGED <<current, active>>
    BY ZenonT(60), <1>1 DEF Reserve, mmu
  <2>4. StandsOK(c)'
    BY ZenonT(60), <1>1, <2>2, <2>3, StandsIdle DEF StandsOK, Base, Handoffs
  <2> QED
    BY ZenonT(60), <2>1, <2>3, <2>4, StandsOne
<1>2. ASSUME NEW c \in Cores, GoIdle(c) \/ LeaveIdle(c)
      PROVE  RootsOK'
  <2>1. /\ current'[c] = None /\ \A d \in Cores \ {c} : current'[d] = current[d]
        /\ Install(c, Boot, BootAsid)
    BY ZenonT(60), <1>2 DEF GoIdle, LeaveIdle, TypeOK
  <2>2. active'[c] = Boot /\ \A d \in Cores \ {c} : active'[d] = active[d]
    BY ZenonT(60), <2>1, InstallIs
  <2>3. op'[c].kind = "none" /\ op'[c].step = "user"
        /\ \A d \in Cores \ {c} : op'[d] = op[d]
    <3>1. CASE GoIdle(c)
      BY ZenonT(60), <3>1, StandsIdle DEF GoIdle, Runs, At
    <3>2. CASE LeaveIdle(c)
      <4>1. op'[c] = User /\ \A d \in Cores \ {c} : op'[d] = op[d]
        BY ZenonT(60), <3>2, BecomeIs DEF LeaveIdle
      <4> QED
        BY SMTT(60), <4>1 DEF User, Op
    <3> QED
      BY ZenonT(60), <1>2, <3>1, <3>2
  <2>4. StandsOK(c)'
    BY ZenonT(60), <2>1, <2>2, <2>3 DEF StandsOK, Base
  <2> QED
    BY ZenonT(60), <2>1, <2>2, <2>3, <2>4, StandsOne
<1>3. ASSUME NEW c \in Cores, PrepareInvalid(c)
      PROVE  RootsOK'
  BY ZenonT(60), <1>3, StandsStill DEF PrepareInvalid, Prepare, procs, mmu, RootsOK
<1>4. ASSUME NEW c \in Cores, PrepareKept(c)
      PROVE  RootsOK'
  BY ZenonT(60), <1>4, StandsGo DEF PrepareKept, Prepare, procs, mmu, Go, Steps
<1>5. ASSUME NEW c \in Cores, AssignAttempt(c)
      PROVE  RootsOK'
  BY ZenonT(60), <1>5, StandsGo DEF AssignAttempt, Prepare, procs, mmu, Go, Steps
<1>6. ASSUME NEW c \in Cores, Record(c)
      PROVE  RootsOK'
  BY ZenonT(60), <1>6, StandsGo DEF Record, procs, mmu, Go, Steps
<1>7. ASSUME NEW c \in Cores, RolloverStopped(c)
      PROVE  RootsOK'
  BY ZenonT(60), <1>7, StandsGo DEF RolloverStopped, procs, Go, Steps
<1>8. ASSUME NEW c \in Cores, RolloverRefused(c) \/ BlockMissed(c)
      PROVE  RootsOK'
  BY ZenonT(60), <1>8, StandsGo, StandsCancel
     DEF RolloverRefused, BlockMissed, procs, mmu, Go, Steps
<1>9. ASSUME NEW c \in Cores, CommitHandoff(c)
      PROVE  RootsOK'
  <2>1. CASE ~Committable(c)
    BY ZenonT(60), <1>9, <2>1, StandsCancel DEF CommitHandoff
  <2>2. CASE Committable(c)
    <3>1. op[c].target \in Roots
      BY ZenonT(60), <2>2 DEF Committable, Live
    <3>2. active'[c] = op[c].target /\ \A d \in Cores \ {c} : active'[d] = active[d]
      BY ZenonT(60), <1>9, <2>2, InstallIs DEF CommitHandoff
    <3>3. current'[c] = op[c].target /\ \A d \in Cores \ {c} : current'[d] = current[d]
      BY ZenonT(60), <1>9, <2>2 DEF CommitHandoff, TypeOK
    <3>4. op'[c] \in {User, Activate("return", op[c].target, current[c])}
          /\ \A d \in Cores \ {c} : op'[d] = op[d]
      BY ZenonT(60), <1>9, <2>2, BecomeIs DEF CommitHandoff
    <3>5. active'[c] = IF current'[c] = None THEN Boot ELSE current'[c]
      BY ZenonT(60), <3>1, <3>2, <3>3, AsidAssumption
    <3>6. StandsOK(c)'
      <4>1. CASE op'[c] = User
        BY ZenonT(60), <3>5, <4>1, StandsUser
      <4>2. CASE op'[c] = Activate("return", op[c].target, current[c])
        <5>1. op'[c].kind = "return" /\ op'[c].step = "prepare"
              /\ op'[c].target = op[c].target
          BY SMTT(60), <4>2 DEF Activate, Op
        <5> QED
          BY ZenonT(60), <3>3, <3>5, <5>1 DEF StandsOK, Base
      <4> QED
        BY ZenonT(60), <3>4, <4>1, <4>2
    <3> QED
      BY ZenonT(60), <3>2, <3>3, <3>4, <3>6, StandsOne
  <2> QED
    BY ZenonT(60), <2>1, <2>2
<1>10. ASSUME NEW c \in Cores, CommitCurrent(c)
       PROVE  RootsOK'
  <2>1. CASE ~Committable(c)
    BY ZenonT(60), <1>10, <2>1, StandsStill DEF CommitCurrent, mmu, RootsOK
  <2>2. CASE Committable(c)
    <3>1. op[c].target \in Roots /\ op[c].target # None
      BY ZenonT(60), <2>2, AsidAssumption DEF Committable, Live
    <3>2. active'[c] = op[c].target /\ \A d \in Cores \ {c} : active'[d] = active[d]
      BY ZenonT(60), <1>10, <2>2, InstallIs DEF CommitCurrent
    <3>3. op[c].target = current[c]
      BY ZenonT(60), <1>10, <3>1 DEF CommitCurrent, Currents, HoldsOK, OpOK, RootsOK, StandsOK
    <3>4. op'[c] = User /\ \A d \in Cores \ {c} : op'[d] = op[d]
      BY ZenonT(60), <1>10, <2>2, BecomeIs DEF CommitCurrent
    <3>5. UNCHANGED current
      BY ZenonT(60), <1>10 DEF CommitCurrent
    <3> QED
      BY ZenonT(60), <3>1, <3>2, <3>3, <3>4, <3>5, StandsUser, StandsOne
  <2> QED
    BY ZenonT(60), <2>1, <2>2
<1>11. ASSUME NEW c \in Cores, CommitStable(c)
       PROVE  RootsOK'
  <2>1. CASE ~Committable(c)
    BY ZenonT(60), <1>11, <2>1, StandsStill DEF CommitStable, mmu, procs, RootsOK
  <2>2. CASE Committable(c)
    BY ZenonT(60), <1>11, <2>2, StandsGo DEF CommitStable, mmu, procs, Steps
  <2> QED
    BY ZenonT(60), <2>1, <2>2
<1>12. ASSUME NEW c \in Cores, InstallStable(c)
       PROVE  RootsOK'
  <2>1. active'[c] = op[c].target /\ \A d \in Cores \ {c} : active'[d] = active[d]
    BY ZenonT(60), <1>12, InstallIs DEF InstallStable
  <2>2. /\ op[c].kind \in Stables /\ op[c].target # None /\ UNCHANGED current
    BY ZenonT(60), <1>12, AsidAssumption DEF InstallStable, At, HoldsOK, OpOK
  <2>3. op[c].kind \notin {"clone", "exec"} =>
           op[c].target = current[c] /\ current[c] # None
    BY ZenonT(60), <2>2 DEF Stables, RootsOK, StandsOK
  <2>4. CASE op[c].kind \in {"image", "resume", "return"}
    <3>1. op'[c] = User /\ \A d \in Cores \ {c} : op'[d] = op[d]
      BY ZenonT(60), <1>12, <2>4, BecomeIs DEF InstallStable
    <3> QED
      BY ZenonT(60), <2>1, <2>2, <2>3, <2>4, <3>1, StandsUser, StandsOne
  <2>5. CASE op[c].kind \notin {"image", "resume", "return"}
    <3> DEFINE s == IF op[c].kind \in {"clone", "exec"} THEN "release" ELSE "teardown"
    <3>1. op'[c] = Op(op[c].kind, s, op[c].target, op[c].victim, 0, 0)
          /\ \A d \in Cores \ {c} : op'[d] = op[d]
      BY ZenonT(60), <1>12, <2>5, BecomeIs DEF InstallStable, Go
    <3>2. /\ op'[c].kind = op[c].kind /\ op'[c].step = s
          /\ op'[c].target = op[c].target /\ op'[c].victim = op[c].victim
      BY SMTT(60), <3>1 DEF Op
    <3>3. StandsOK(c)'
      BY ZenonT(60), <2>1, <2>2, <2>3, <2>5, <3>2 DEF Stables, RootsOK, StandsOK, Base
    <3> QED
      BY ZenonT(60), <2>1, <2>2, <3>1, <3>3, StandsOne
  <2> QED
    BY ZenonT(60), <2>4, <2>5
<1>13. ASSUME NEW c \in Cores, NEW q \in Roots, Fork(c, q)
       PROVE  RootsOK'
  <2>1. op'[c] = Op("fork", "copy", q, current[c], 0, 0)
        /\ \A d \in Cores \ {c} : op'[d] = op[d]
    BY ZenonT(60), <1>13, BecomeIs DEF Fork
  <2>2. op'[c].kind = "fork" /\ op'[c].step = "copy" /\ op'[c].victim = current[c]
    BY SMTT(60), <2>1 DEF Op
  <2>3. current[c] \in Roots /\ active[c] = current[c]
    BY ZenonT(60), <1>13, StandsIdle DEF Fork, Runs, TypeOK
  <2>4. UNCHANGED active /\ \A d \in Cores \ {c} : current'[d] = current[d]
    BY ZenonT(60), <1>13 DEF Fork, mmu, TypeOK
  <2>5. StandsOK(c)'
    BY ZenonT(60), <2>2, <2>3, <2>4 DEF StandsOK, Base
  <2> QED
    BY ZenonT(60), <2>1, <2>4, <2>5, StandsOne
<1>14. ASSUME NEW c \in Cores, Copied(c)
       PROVE  RootsOK'
  <2>1. op[c].kind = "fork"
    BY ZenonT(60), <1>14 DEF Copied, At, HoldsOK, OpOK
  <2> QED
    BY ZenonT(60), <1>14, <2>1, StandsGo DEF Copied, Activate, mmu, Steps
<1>15. ASSUME NEW c \in Cores, CopyFailed(c)
       PROVE  RootsOK'
  <2>1. op[c].kind = "fork" /\ op[c].target \in Roots
    BY ZenonT(60), <1>15 DEF CopyFailed, At, HoldsOK, OpOK, TypeOK
  <2>2. active[c] = op[c].victim /\ op[c].victim \in Roots
    BY ZenonT(60), <2>1 DEF RootsOK, StandsOK, Base
  <2>3. /\ current'[c] = op[c].victim /\ \A d \in Cores \ {c} : current'[d] = current[d]
        /\ UNCHANGED active
    BY ZenonT(60), <1>15 DEF CopyFailed, mmu, TypeOK
  <2>4. PICK k \in {"undo", "unclone"}, s \in {"teardown", "prepare"} :
           Become(c, Op(k, s, op[c].victim, op[c].target, 0, 0))
    BY ZenonT(60), <1>15 DEF CopyFailed, Activate
  <2>5. op'[c] = Op(k, s, op[c].victim, op[c].target, 0, 0)
        /\ \A d \in Cores \ {c} : op'[d] = op[d]
    BY ZenonT(60), <2>4, BecomeIs
  <2>6. /\ op'[c].kind = k /\ op'[c].step = s
        /\ op'[c].target = op[c].victim /\ op'[c].victim = op[c].target
    BY SMTT(60), <2>5 DEF Op
  <2>7. StandsOK(c)'
    BY ZenonT(60), <2>1, <2>2, <2>3, <2>4, <2>6, AsidAssumption DEF StandsOK, Base
  <2> QED
    BY ZenonT(60), <2>3, <2>5, <2>7, StandsOne
<1>16. ASSUME NEW c \in Cores, Exec(c)
       PROVE  RootsOK'
  <2>1. PICK o \in {Loading, Activate("exec", SourceRoot(current[c]), None)} :
           Become(c, o)
    BY ZenonT(60), <1>16 DEF Exec, Loading
  <2>2. op'[c] = o /\ \A d \in Cores \ {c} : op'[d] = op[d]
    BY ZenonT(60), <2>1, BecomeIs
  <2>3. op'[c].kind = "exec" /\ op'[c].step \in {"load", "prepare"}
    BY SMTT(60), <2>1, <2>2 DEF Loading, Activate, Op
  <2>4. UNCHANGED <<current, active>>
    BY ZenonT(60), <1>16 DEF Exec, procs
  <2>5. StandsOK(c)'
    BY ZenonT(60), <2>3 DEF StandsOK
  <2> QED
    BY ZenonT(60), <2>2, <2>4, <2>5, StandsOne
<1>17. ASSUME NEW c \in Cores, Exit(c)
       PROVE  RootsOK'
  <2>1. PICK o \in {Leaving, Activate("clone", SourceRoot(current[c]), None)} :
           Become(c, o)
    BY ZenonT(60), <1>17 DEF Exit
  <2>2. op'[c] = o /\ \A d \in Cores \ {c} : op'[d] = op[d]
    BY ZenonT(60), <2>1, BecomeIs
  <2>3. op'[c].kind \in {"exit", "clone"} /\ op'[c].step \in {"leave", "prepare"}
    BY SMTT(60), <2>1, <2>2 DEF Leaving, Activate, Op
  <2>4. UNCHANGED <<current, active>>
    BY ZenonT(60), <1>17 DEF Exit, procs, mmu
  <2>5. StandsOK(c)'
    BY ZenonT(60), <2>3 DEF StandsOK
  <2> QED
    BY ZenonT(60), <2>2, <2>4, <2>5, StandsOne
<1>18. ASSUME NEW c \in Cores, CloneRollback(c)
       PROVE  RootsOK'
  <2>1. UNCHANGED <<current, active>> /\ op[c].kind \in {"clone", "exec"}
    BY ZenonT(60), <1>18 DEF CloneRollback, At, HoldsOK, OpOK
  <2>2. CASE op[c].kind = "exec"
    <3>1. op'[c] = Loading /\ \A d \in Cores \ {c} : op'[d] = op[d]
      BY ZenonT(60), <1>18, <2>2, BecomeIs DEF CloneRollback, Loading
    <3>2. op'[c].kind = "exec" /\ op'[c].step = "load"
      BY SMTT(60), <3>1 DEF Loading, Op
    <3>3. StandsOK(c)'
      BY ZenonT(60), <3>2 DEF StandsOK
    <3> QED
      BY ZenonT(60), <2>1, <3>1, <3>3, StandsOne
  <2>3. CASE op[c].kind = "clone"
    BY ZenonT(60), <1>18, <2>1, <2>3, StandsGo DEF CloneRollback, Go, Steps
  <2> QED
    BY ZenonT(60), <2>1, <2>2, <2>3
<1>23. ASSUME NEW c \in Cores, ExecLoaded(c)
       PROVE  RootsOK'
  <2>1. op'[c] = Activate("image", current[c], None)
        /\ \A d \in Cores \ {c} : op'[d] = op[d]
    BY ZenonT(60), <1>23, BecomeIs DEF ExecLoaded
  <2>2. op'[c].kind = "image" /\ op'[c].step = "prepare" /\ op'[c].target = current[c]
    BY SMTT(60), <2>1 DEF Activate, Op
  <2>3. UNCHANGED <<current, active>>
    BY ZenonT(60), <1>23 DEF ExecLoaded, procs, mmu
  <2>4. StandsOK(c)'
    BY ZenonT(60), <2>2, <2>3 DEF StandsOK
  <2> QED
    BY ZenonT(60), <2>1, <2>3, <2>4, StandsOne
<1>24. ASSUME NEW c \in Cores, ExecLost(c)
       PROVE  RootsOK'
  <2>1. op'[c] = Leaving /\ \A d \in Cores \ {c} : op'[d] = op[d]
    BY ZenonT(60), <1>24, BecomeIs DEF ExecLost
  <2>2. op'[c].kind = "exit" /\ op'[c].step = "leave"
    BY SMTT(60), <2>1 DEF Leaving, Op
  <2>3. UNCHANGED <<current, active>>
    BY ZenonT(60), <1>24 DEF ExecLost, procs, mmu
  <2>4. StandsOK(c)'
    BY ZenonT(60), <2>2 DEF StandsOK
  <2> QED
    BY ZenonT(60), <2>1, <2>3, <2>4, StandsOne
<1>19. ASSUME NEW c \in Cores, NEW z \in Roots, Reap(c, z)
       PROVE  RootsOK'
  <2>1. op[c].kind = "none" /\ UNCHANGED <<current, active>>
        /\ active[c] = IF current[c] = None THEN Boot ELSE current[c]
    BY ZenonT(60), <1>19, StandsIdle DEF Reap, mmu
  <2>2. PICK s \in {"teardown", "prepare"}, t \in {None, current[c]} :
           Become(c, Op("reap", s, t, z, 0, 0))
    BY ZenonT(60), <1>19 DEF Reap, Activate
  <2>3. op'[c] = Op("reap", s, t, z, 0, 0) /\ \A d \in Cores \ {c} : op'[d] = op[d]
    BY ZenonT(60), <2>2, BecomeIs
  <2>4. /\ op'[c].kind = "reap" /\ op'[c].step = s
        /\ op'[c].target = t /\ op'[c].victim = z
    BY SMTT(60), <2>3 DEF Op
  <2>5. StandsOK(c)'
    BY ZenonT(60), <2>1, <2>2, <2>4 DEF StandsOK, Base
  <2> QED
    BY ZenonT(60), <2>1, <2>3, <2>5, StandsOne
<1>20. ASSUME NEW c \in Cores, ReleaseRoot(c)
       PROVE  RootsOK'
  <2> DEFINE z == op[c].victim
             Named(r) == IF r = z THEN Dead ELSE r
  <2>1. /\ z \in Roots /\ z # current[c] /\ op[c].kind \in {"undo", "unclone", "reap"}
        /\ op[c].target \in {None, current[c]}
    BY ZenonT(60), <1>20 DEF ReleaseRoot, At, RootsOK, StandsOK, HoldsOK, OpOK
  <2>2. active[c] = IF current[c] = None THEN Boot ELSE current[c]
    BY ZenonT(60), <2>1 DEF RootsOK, StandsOK, Base
  <2>3. active[c] # z
    BY ZenonT(60), <2>1, <2>2, AsidAssumption
  <2>4. /\ \A d \in Cores \ {c} : active'[d] = Named(active[d])
        /\ active'[c] = active[c] /\ UNCHANGED current
    BY ZenonT(60), <1>20, <2>3 DEF ReleaseRoot
  <2>5. StandsOK(c)'
    <3>1. PICK k \in {"resume", "undo"} :
             \/ op'[c] = User
             \/ op[c].target # None /\ op'[c] = Activate(k, op[c].target, None)
      BY ZenonT(60), <1>20 DEF ReleaseRoot
    <3>2. CASE op'[c] = User
      BY ZenonT(60), <2>2, <2>4, <3>2, StandsUser
    <3>3. CASE op'[c] = Activate(k, op[c].target, None)
      <4>1. op'[c].kind = k /\ op'[c].step = "prepare" /\ op'[c].target = op[c].target
        BY SMTT(60), <3>3 DEF Activate, Op
      <4> QED
        BY ZenonT(60), <2>1, <2>2, <2>4, <3>1, <4>1 DEF StandsOK, Base
    <3> QED
      BY ZenonT(60), <3>1, <3>2, <3>3
  <2>6. ASSUME NEW d \in Cores \ {c}
        PROVE  StandsOK(d)'
    <3>1. op'[d] = Op(op[d].kind, op[d].step, Named(op[d].target), op[d].victim,
                      op[d].value, op[d].gen)
      BY ZenonT(60), <1>20, <2>6 DEF ReleaseRoot
    <3>2. /\ op'[d].kind = op[d].kind /\ op'[d].step = op[d].step
          /\ op'[d].target = Named(op[d].target) /\ op'[d].victim = op[d].victim
      BY SMTT(60), <3>1 DEF Op
    <3>3. z \in Held(c) /\ z \notin Held(d)
      BY ZenonT(60), <2>1, <2>6 DEF Held, HoldsOK
    <3>4. z # current[d] /\ (op[d].victim \in Roots => z # op[d].victim)
      BY ZenonT(60), <2>1, <3>3 DEF Held
    <3>5. StandsOK(d)
      BY ZenonT(60), <2>6 DEF RootsOK
    <3>6. z # None /\ z # Boot
      BY ZenonT(60), <2>1, AsidAssumption
    <3>7. op[d].kind \notin {"clone", "exec", "image", "exit"} => active'[d] = active[d]
      BY ZenonT(60), <2>4, <2>6, <3>4, <3>5, <3>6 DEF StandsOK, Base
    <3>8. op[d].kind \in {"undo", "unclone", "image", "resume", "reap", "return"} =>
             op'[d].target = op[d].target
      BY ZenonT(60), <3>2, <3>4, <3>5, <3>6 DEF StandsOK
    <3>9. current'[d] = current[d]
      BY ZenonT(60), <2>4
    <3> QED
      BY ZenonT(60), <3>2, <3>5, <3>7, <3>8, <3>9 DEF StandsOK, Base
  <2> QED
    BY ZenonT(60), <2>5, <2>6 DEF RootsOK
<1> QED
  BY ZenonT(60), <1>0, <1>1, <1>2, <1>3, <1>4, <1>5, <1>6, <1>7, <1>8, <1>9, <1>10, <1>11,
     <1>12, <1>13, <1>14, <1>15, <1>16, <1>17, <1>18, <1>19, <1>20, <1>23, <1>24
     DEF Next, Switch, Start, LeaveTo, Handoffs, Runs

\* Where the cores stand, and the numbers, are invariants together.
THEOREM Standing == Spec => [](IInv /\ RootsOK)
<1>1. Init => RootsOK
  <2> SUFFICES ASSUME Init, NEW c \in Cores PROVE StandsOK(c)
    BY ZenonT(60) DEF RootsOK
  <2>1. op[c].kind = "none" /\ op[c].step = "user"
    BY SMTT(60) DEF Init, User, Op
  <2> QED
    BY ZenonT(60), <2>1 DEF Init, StandsOK, Base
<1>2. IInv /\ RootsOK /\ [Next]_vars => RootsOK'
  BY ZenonT(60), StandsStep
<1> QED
  BY <1>1, <1>2, Invariance, PTL DEF Spec

\* address_space_release_root: "No other core can hold the root by then" is
\* true of every core but one in the exit of a clone or in execve, which
\* activate their source's root by its slot.
THEOREM RootsLive == Spec => []RunningRootLive
<1>1. IInv /\ RootsOK => RunningRootLive
  <2> SUFFICES ASSUME IInv, RootsOK, NEW c \in Cores,
                      op[c].kind \notin {"clone", "exec", "image", "exit"},
                      active[c] # Boot
               PROVE  Live(active[c])
    BY ZenonT(60) DEF RunningRootLive
  <2>1. active[c] \in {current[c], op[c].victim} /\ active[c] \in Roots
    BY ZenonT(60) DEF RootsOK, StandsOK, Base, IInv, TypeOK
  <2>2. active[c] \in Held(c)
    BY ZenonT(60), <2>1 DEF Held
  <2>3. state[active[c]] \in Busy
    BY ZenonT(60), <2>2 DEF IInv, HoldsOK
  <2> QED
    BY ZenonT(60), <2>1, <2>3 DEF Live, Busy
<1> QED
  BY <1>1, Standing, PTL

\* Every way back to user mode passes through an activation of the root of
\* the process that runs: a source's root, live or released, is left behind
\* before execve returns or the next process is entered.
THEOREM OwnRoots == Spec => []UserOnOwnRoot
<1>1. IInv /\ RootsOK => UserOnOwnRoot
  <2> SUFFICES ASSUME IInv, RootsOK, NEW c \in Cores, op[c].step = "user"
               PROVE  active[c] = IF current[c] = None THEN Boot ELSE current[c]
    BY ZenonT(60) DEF UserOnOwnRoot
  <2>1. op[c].kind = "none"
    BY ZenonT(60) DEF IInv, HoldsOK, OpOK
  <2> QED
    BY ZenonT(60), <2>1 DEF RootsOK, StandsOK, Base
<1> QED
  BY <1>1, Standing, PTL
=============================================================================
