------------------------ MODULE Ext2MutationLockProofs ------------------------
(***************************************************************************)
(* The ext2 mutation lock is correct for any finite set of cores.          *)
(*                                                                         *)
(* The inductive invariant is the counting one: ext2_readers is the number *)
(* of cores that owe it a decrement, and the lock word is held exactly     *)
(* while one core is between acquire and give.  Exclusion itself is not    *)
(* inductive without it: that a mutator may enter on a count of zero says  *)
(* something about readers only because the count is exact.                *)
(***************************************************************************)
EXTENDS Ext2MutationLock, FiniteSetTheorems, TLAPS

IInv == TypeOK /\ CountExact /\ OneHolder /\ ReadersExcluded

\* The counted cores are finitely many, so their number is a natural number.
LEMMA CountedFinite ==
    ASSUME NEW S \in SUBSET CPU
    PROVE  IsFiniteSet(S) /\ Cardinality(S) \in Nat
  BY SMTT(60), CPUAssumption, FS_Subset, FS_CardinalityType

\* No counted core means no reader: the use a mutator makes of a zero count.
LEMMA ZeroMeansNobody ==
    ASSUME IInv, readers = 0
    PROVE  \A c \in CPU : pc[c] \notin {"arrived", "refused", "reading"}
  <1>1. IsFiniteSet(Counted) /\ Cardinality(Counted) = 0
    BY SMTT(60), CountedFinite DEF IInv, CountExact, Counted
  <1>2. Counted = {}
    BY SMTT(60), <1>1, FS_EmptySet
  <1>3. QED
    BY SMTT(60), <1>2 DEF Counted

\* The initial state, with every core outside, satisfies the invariant.
LEMMA InitIInv == Init => IInv
  <1> SUFFICES ASSUME Init PROVE IInv
    OBVIOUS
  <1>1. Counted = {} /\ Holders = {}
    BY SMTT(60) DEF Init, Counted, Holders
  <1>2. CountExact
    BY SMTT(60), <1>1, FS_EmptySet DEF Init, CountExact
  <1>3. QED
    BY ZenonT(60), <1>1, <1>2 DEF Init, IInv, TypeOK, OneHolder, ReadersExcluded, PC

\* Each access of ext2_read_enter, ext2_read_leave, ext2_mutation_take and
\* ext2_mutation_give preserves the invariant.
LEMMA NextIInv == IInv /\ [Next]_vars => IInv'
  <1> SUFFICES ASSUME IInv, [Next]_vars PROVE IInv'
    OBVIOUS
  <1> USE DEF IInv
  <1>0. IsFiniteSet(Counted) /\ Cardinality(Counted) \in Nat
    BY SMTT(60), CountedFinite DEF Counted
  <1>1. ASSUME NEW c \in CPU, ReadArrive(c) PROVE IInv'
    <2>1. TypeOK'
      BY SMTT(60), <1>1 DEF ReadArrive, Goto, TypeOK, PC
    <2>2. Counted' = Counted \cup {c} /\ c \notin Counted
      BY SMTT(60), <1>1 DEF ReadArrive, Goto, TypeOK, Counted
    <2>3. CountExact'
      BY SMTT(60), <1>0, <1>1, <2>2, FS_AddElement DEF ReadArrive, CountExact
    <2>4. Holders' = Holders
      BY SMTT(60), <1>1 DEF ReadArrive, Goto, TypeOK, Holders
    <2>5. OneHolder' /\ ReadersExcluded'
      BY SMTT(60), <1>1, <2>4 DEF ReadArrive, Goto, TypeOK, OneHolder, ReadersExcluded
    <2>6. QED
      BY SMTT(60), <2>1, <2>3, <2>5
  <1>2. ASSUME NEW c \in CPU, ReadLook(c) PROVE IInv'
    <2>1. TypeOK'
      BY SMTT(60), <1>2 DEF ReadLook, Goto, TypeOK, PC
    <2>2. Counted' = Counted /\ Holders' = Holders
      BY SMTT(60), <1>2 DEF ReadLook, Goto, TypeOK, Counted, Holders
    <2>3. CountExact' /\ OneHolder'
      BY SMTT(60), <1>2, <2>2 DEF ReadLook, CountExact, OneHolder
    <2>4. ReadersExcluded'
      BY SMTT(60), <1>2 DEF ReadLook, Goto, TypeOK, OneHolder, Holders, ReadersExcluded
    <2>5. QED
      BY SMTT(60), <2>1, <2>3, <2>4
  <1>3. ASSUME NEW c \in CPU, ReadUndo(c) \/ ReadLeave(c) PROVE IInv'
    <2>1. c \in Counted /\ Counted' = Counted \ {c}
      BY SMTT(60), <1>3 DEF ReadUndo, ReadLeave, Goto, TypeOK, Counted
    <2>2. Cardinality(Counted') = Cardinality(Counted) - 1
      BY ZenonT(60), <1>0, <2>1, FS_RemoveElement
    <2>3. IsFiniteSet(Counted') /\ Cardinality(Counted') \in Nat
      BY SMTT(60), <1>0, <2>1, FS_Subset, FS_CardinalityType
    <2>4. CountExact'
      BY SMTT(60), <1>3, <2>2 DEF ReadUndo, ReadLeave, CountExact
    <2>5. TypeOK'
      BY SMTT(60), <1>3, <2>3, <2>4
      DEF ReadUndo, ReadLeave, Goto, TypeOK, PC, CountExact
    <2>6. Holders' = Holders
      BY SMTT(60), <1>3 DEF ReadUndo, ReadLeave, Goto, TypeOK, Holders
    <2>7. OneHolder' /\ ReadersExcluded'
      BY SMTT(60), <1>3, <2>6
      DEF ReadUndo, ReadLeave, Goto, TypeOK, OneHolder, ReadersExcluded
    <2>8. QED
      BY SMTT(60), <2>4, <2>5, <2>7
  <1>4. ASSUME NEW c \in CPU, MutationCall(c) PROVE IInv'
    <2>1. Counted' = Counted /\ Holders' = Holders
      BY SMTT(60), <1>4 DEF MutationCall, Goto, TypeOK, Counted, Holders
    <2>2. QED
      BY SMTT(60), <1>4, <2>1 DEF MutationCall, Goto, TypeOK, PC, CountExact,
                        OneHolder, ReadersExcluded
  <1>5. ASSUME NEW c \in CPU, MutationAcquire(c) PROVE IInv'
    <2>1. Holders = {} /\ Holders' = {c} /\ Counted' = Counted
      BY SMTT(60), <1>5 DEF MutationAcquire, Goto, TypeOK, OneHolder, Counted, Holders
    <2>2. QED
      BY SMTT(60), <1>5, <2>1 DEF MutationAcquire, Goto, TypeOK, PC, CountExact,
                        OneHolder, ReadersExcluded
  <1>6. ASSUME NEW c \in CPU, MutationDrained(c) PROVE IInv'
    <2>1. \A d \in CPU : pc[d] # "reading"
      BY SMTT(60), <1>6, ZeroMeansNobody DEF MutationDrained
    <2>2. Counted' = Counted /\ Holders' = Holders
      BY SMTT(60), <1>6 DEF MutationDrained, Goto, TypeOK, Counted, Holders
    <2>3. QED
      BY ZenonT(60), <1>6, <2>1, <2>2 DEF MutationDrained, Goto, TypeOK, PC, CountExact,
                              OneHolder, ReadersExcluded
  <1>7. ASSUME NEW c \in CPU, MutationGive(c) PROVE IInv'
    <2>1. Holders = {c} /\ Holders' = {} /\ Counted' = Counted
      BY SMTT(60), <1>7 DEF MutationGive, Goto, TypeOK, OneHolder, Counted, Holders
    <2>2. QED
      BY ZenonT(60), <1>7, <2>1 DEF MutationGive, Goto, TypeOK, PC, CountExact,
                        OneHolder, ReadersExcluded
  <1>8. CASE UNCHANGED vars
    BY SMTT(60), <1>8 DEF vars, TypeOK, CountExact, OneHolder, ReadersExcluded,
                Counted, Holders
  <1>9. QED
    BY SMTT(60), <1>1, <1>2, <1>3, <1>4, <1>5, <1>6, <1>7, <1>8 DEF Next, Step

\* Every behaviour of the lock keeps the inductive invariant.
THEOREM Invariance == Spec => []IInv
  BY InitIInv, NextIInv, PTL DEF Spec

\* The lock word, ext2_readers and every core's place keep their types.
THEOREM TypeCorrect == Spec => []TypeOK
  BY Invariance, PTL DEF IInv

\* No core ever reads the ext2 tree between ext2_mutation_take and
\* ext2_mutation_give of another.
THEOREM Exclusion == Spec => []ReadersExcluded
  BY Invariance, PTL DEF IInv

\* The mutation lock has one holder at most, and its word says whether it has.
THEOREM HolderUnique == Spec => []OneHolder
  BY Invariance, PTL DEF IInv

\* ext2_readers always equals the number of cores owing a decrement.
THEOREM ExactCount == Spec => []CountExact
  BY Invariance, PTL DEF IInv

-----------------------------------------------------------------------------
\* The cores admitted to read and the core admitted to mutate, as the
\* readers-writer specification sees them.
Reading == {c \in CPU : pc[c] = "reading"}
Mutating == IF \E c \in CPU : pc[c] = "mutating"
            THEN CHOOSE c \in CPU : pc[c] = "mutating" ELSE NoCPU

\* At most one core is past ext2_mutation_take, so Mutating names it.
LEMMA MutatingIs ==
    ASSUME OneHolder, NEW c \in CPU, pc[c] = "mutating"
    PROVE  Mutating = c
  BY SMTT(60) DEF OneHolder, Holders, Mutating

\* Every access of the lock is a step of the readers-writer specification:
\* an admission, a departure, or nothing a caller can see.
LEMMA StepRefines ==
    IInv /\ IInv' /\ [Next]_vars => [RW!RWNext]_(RW!rwVars)
  <1> SUFFICES ASSUME IInv, IInv', [Next]_vars
               PROVE  RW!RWNext \/ (Reading' = Reading /\ Mutating' = Mutating)
    BY SMTT(60) DEF RW!rwVars, Reading, Mutating
  <1> USE DEF IInv
  <1>1. ASSUME NEW c \in CPU,
               ReadArrive(c) \/ ReadUndo(c) \/ MutationCall(c) \/ MutationAcquire(c)
        PROVE  Reading' = Reading /\ Mutating' = Mutating
    <2>1. \A d \in CPU : /\ pc'[d] = "reading" <=> pc[d] = "reading"
                         /\ pc'[d] = "mutating" <=> pc[d] = "mutating"
      BY SMTT(60), <1>1 DEF ReadArrive, ReadUndo, MutationCall, MutationAcquire, Goto, TypeOK
    <2>2. QED
      BY ZenonT(60), <2>1 DEF Reading, Mutating
  <1>2. ASSUME NEW c \in CPU, ReadLook(c)
        PROVE  RW!RWNext \/ (Reading' = Reading /\ Mutating' = Mutating)
    <2>1. \A d \in CPU : pc'[d] = "mutating" <=> pc[d] = "mutating"
      BY SMTT(60), <1>2 DEF ReadLook, Goto, TypeOK
    <2>2. Mutating' = Mutating
      BY ZenonT(60), <2>1 DEF Mutating
    <2>3. CASE held
      <3>1. Reading' = Reading
        BY SMTT(60), <1>2, <2>3 DEF ReadLook, Goto, TypeOK, Reading
      <3>2. QED
        BY SMTT(60), <2>2, <3>1
    <2>4. CASE ~held
      <3>1. Reading' = Reading \cup {c}
        BY SMTT(60), <1>2, <2>4 DEF ReadLook, Goto, TypeOK, Reading
      <3>2. Mutating = NoCPU
        BY SMTT(60), <2>4 DEF OneHolder, Holders, Mutating
      <3>3. RW!BeginRead(c)
        BY SMTT(60), <2>2, <3>1, <3>2 DEF RW!BeginRead, Reading, Mutating
      <3>4. QED
        BY SMTT(60), <3>3 DEF RW!RWNext
    <2>5. QED
      BY SMTT(60), <2>3, <2>4
  <1>3. ASSUME NEW c \in CPU, ReadLeave(c) PROVE RW!EndRead(c)
    <2>1. \A d \in CPU : pc'[d] = "mutating" <=> pc[d] = "mutating"
      BY SMTT(60), <1>3 DEF ReadLeave, Goto, TypeOK
    <2>2. Mutating' = Mutating
      BY ZenonT(60), <2>1 DEF Mutating
    <2>3. c \in Reading /\ Reading' = Reading \ {c}
      BY SMTT(60), <1>3 DEF ReadLeave, Goto, TypeOK, Reading
    <2>4. QED
      BY SMTT(60), <2>2, <2>3 DEF RW!EndRead, Reading, Mutating
  <1>4. ASSUME NEW c \in CPU, MutationDrained(c) PROVE RW!BeginMutation(c)
    <2>1. Reading = {}
      BY SMTT(60), <1>4, ZeroMeansNobody DEF MutationDrained, Reading
    <2>2. Reading' = Reading
      BY SMTT(60), <1>4 DEF MutationDrained, Goto, TypeOK, Reading
    <2>3. \A d \in CPU : pc[d] # "mutating"
      BY SMTT(60), <1>4 DEF MutationDrained, Goto, OneHolder, Holders
    <2>4. Mutating = NoCPU
      BY SMTT(60), <2>3 DEF Mutating
    <2>5. pc'[c] = "mutating"
      BY SMTT(60), <1>4 DEF MutationDrained, Goto, TypeOK
    <2>6. \A d \in CPU : pc'[d] = "mutating" => d = c
      BY SMTT(60), <2>5 DEF OneHolder, Holders
    <2>7. Mutating' = c
      BY SMTT(60), <2>5, <2>6 DEF Mutating
    <2>8. QED
      BY SMTT(60), <2>1, <2>2, <2>4, <2>7 DEF RW!BeginMutation, Reading, Mutating
  <1>5. ASSUME NEW c \in CPU, MutationGive(c) PROVE RW!EndMutation(c)
    <2>1. Mutating = c
      BY SMTT(60), <1>5, MutatingIs DEF MutationGive, Goto
    <2>2. Reading' = Reading
      BY SMTT(60), <1>5 DEF MutationGive, Goto, TypeOK, Reading
    <2>3. \A d \in CPU : pc'[d] # "mutating"
      BY SMTT(60), <1>5 DEF MutationGive, Goto, TypeOK, OneHolder, Holders
    <2>4. Mutating' = NoCPU
      BY SMTT(60), <2>3 DEF Mutating
    <2>5. QED
      BY SMTT(60), <2>1, <2>2, <2>4 DEF RW!EndMutation, Reading, Mutating
  <1>6. CASE UNCHANGED vars
    BY SMTT(60), <1>6 DEF vars, Reading, Mutating
  <1>7. QED
    BY SMTT(60), <1>1, <1>2, <1>3, <1>4, <1>5, <1>6 DEF Next, Step, RW!RWNext

\* The ext2 mutation lock implements readers-writer exclusion.
THEOREM Refinement == Spec => RWSpec
  <1>1. Init => RW!RWInit
    BY SMTT(60) DEF Init, RW!RWInit
  <1>2. QED
    BY <1>1, InitIInv, NextIInv, StepRefines, PTL DEF Spec, RWSpec, RW!RWSpec
=============================================================================
