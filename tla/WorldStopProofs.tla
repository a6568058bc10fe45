--------------------------- MODULE WorldStopProofs ---------------------------
(***************************************************************************)
(* A complete machine stop stops the machine, for any number of cores, any *)
(* round budget and any number of requests.                                *)
(*                                                                         *)
(* The property is not inductive.  What makes it so: a request number is   *)
(* never reused (Fresh), so an acknowledgement of the number in force was  *)
(* written by a pen that is still spinning on it (AckHeld); a nested pen   *)
(* never works on an older number than the one below it (Nested), so it    *)
(* cannot overwrite that acknowledgement; and the cores the scan asks are  *)
(* all the cores there are (Members).                                      *)
(***************************************************************************)
EXTENDS WorldStop, TLAPS

InForce(c) == at[c] \in {"notify", "scan", "stopped", "partial", "kept"}

Gate ==
    /\ OneClaimant
    /\ \A c \in CPU : Claimant(c) =>
        claimed = IF at[c] = "starting" THEN "start" ELSE "stop"

Published ==
    /\ \A c \in CPU : InForce(c) => requested = generation /\ generation # 0
    /\ requested # 0 => \E c \in CPU : InForce(c)

Working(d, l) == pen[d][l].pc \in {"look", "ack", "spin", "clear"}

Fresh ==
    /\ \A d \in CPU : ack[d] <= generation
    /\ \A d \in CPU, l \in Level : pen[d][l].gen <= generation
    /\ \A d \in CPU, l \in Level : Working(d, l) => pen[d][l].gen # 0
    /\ \A d \in CPU, l \in Level :
        pen[d][l].pc = "clear" => pen[d][l].gen # requested
    /\ \A c \in CPU : at[c] = "owned" =>
        \A d \in CPU : ack[d] < generation
                       /\ \A l \in Level : pen[d][l].gen < generation

AckHeld == \A d \in CPU : requested # 0 /\ ack[d] = requested => Held(d)

Nested ==
    \A d \in CPU : Working(d, "irq") /\ Working(d, "nmi") =>
        pen[d]["irq"].gen <= pen[d]["nmi"].gen

Seen ==
    \A c \in CPU :
        /\ at[c] = "scan" => \A d \in stop.seen : ack[d] = generation
        /\ at[c] \in {"stopped", "kept"} =>
            \A d \in Others(c) : ack[d] = generation

Members ==
    /\ live \subseteq (participants \cup {Boot}) \cap Present
    /\ stop.core \in participants \cup {NoCPU}
    /\ \A c \in CPU : at[c] = "owned" \/ InForce(c) =>
        stop.mask = participants \cup {Boot}

IInv ==
    TypeOK /\ Gate /\ Published /\ Fresh /\ AckHeld /\ Nested /\ Seen /\ Members

-----------------------------------------------------------------------------
\* The initial state, with no stop ever requested, satisfies the invariant.
LEMMA InitIInv == Init => IInv
  BY SMTT(60), WorldStopAssumption
  DEF Init, IInv, TypeOK, Gate, OneClaimant, Claimant, Published, InForce, Fresh,
      AckHeld, Held, Nested, Working, Seen, Members, Idle, NoFrame, Gen, Level,
      Place, PenPlace, StopLocals

\* Every action keeps the type of the claimant's locals.
LEMMA LocalsStep == IInv /\ [Next]_vars => stop' \in StopLocals
  <1> SUFFICES ASSUME IInv, [Next]_vars PROVE stop' \in StopLocals
    OBVIOUS
  <1> USE WorldStopAssumption DEF IInv, TypeOK
  <1>0. /\ stop.mask \in SUBSET CPU /\ stop.todo \in SUBSET CPU
        /\ stop.seen \in SUBSET CPU /\ stop.remaining \in Nat
        /\ \A c \in CPU : Others(c) \in SUBSET CPU
    BY SMTT(60) DEF StopLocals, Others
  <1>1. ASSUME NEW c \in CPU, Claim(c) PROVE stop' \in StopLocals
    <2>1. PICK k \in Kinds : stop' = [Idle EXCEPT !.kind = k]
      BY SMTT(60), <1>1 DEF Claim
    <2>2. QED
      BY ZenonT(60), <2>1 DEF StopLocals, Idle
  <1>2. ASSUME NEW c \in CPU, Exhausted(c) \/ GiveGate(c) PROVE stop' \in StopLocals
    BY SMTT(60), <1>2 DEF Exhausted, GiveGate, StopLocals, Idle
  <1>3. ASSUME StartFinish PROVE stop' \in StopLocals
    BY SMTT(60), <1>3 DEF StartFinish, StopLocals, Idle
  <1>4. ASSUME NEW c \in CPU, PublishOwner(c) PROVE stop' \in StopLocals
    BY ZenonT(60), <1>4 DEF PublishOwner, StopLocals
  <1>5. ASSUME NEW c \in CPU, Notify(c) PROVE stop' \in StopLocals
    <2>1. stop' = [stop EXCEPT !.todo = Others(c), !.seen = {},
                               !.remaining = Spins - 1]
      BY SMTT(60), <1>5 DEF Notify
    <2>2. Spins - 1 \in Nat
      OBVIOUS
    <2>3. QED
      BY ZenonT(60), <1>0, <2>1, <2>2 DEF StopLocals
  <1>6. ASSUME NEW c \in CPU, Scan(c) PROVE stop' \in StopLocals
    <2>1. PICK d \in stop.todo :
            stop' = [stop EXCEPT !.todo = @ \ {d},
                       !.seen = IF ack[d] = generation THEN @ \cup {d} ELSE @]
      BY ZenonT(60), <1>6 DEF Scan
    <2>2. CASE ack[d] = generation
      BY ZenonT(150), <1>0, <2>1, <2>2 DEF StopLocals
    <2>3. CASE ack[d] # generation
      BY ZenonT(60), <1>0, <2>1, <2>3 DEF StopLocals
    <2>4. QED
      BY SMTT(60), <2>2, <2>3
  <1>7. ASSUME NEW c \in CPU, NextRound(c) PROVE stop' \in StopLocals
    <2>1. stop.remaining - 1 \in Nat
      BY SMTT(60), <1>0, <1>7 DEF NextRound
    <2>2. QED
      BY ZenonT(60), <1>0, <1>7, <2>1 DEF NextRound, StopLocals
  <1>8. ASSUME NEW c \in CPU, StartReserve(c) PROVE stop' \in StopLocals
    <2>1. stop' = [Idle EXCEPT !.core = c, !.joined = {c} \ participants]
      BY SMTT(60), <1>8 DEF StartReserve
    <2>2. QED
      BY ZenonT(60), <2>1 DEF StopLocals, Idle
  <1>9. ASSUME NEW c \in CPU,
               \/ BeginCall(c) \/ BeginMaskedCall(c) \/ ClaimBusy(c)
               \/ PublishRequest(c) \/ Complete(c) \/ Partial(c) \/ Withdraw(c)
               \/ KeepForever(c) \/ ComeAlive(c) \/ Mask(c)
        PROVE  stop' \in StopLocals
    BY SMTT(60), <1>9 DEF BeginCall, BeginMaskedCall, ClaimBusy, PublishRequest, Complete,
                Partial, Withdraw, KeepForever, ComeAlive, Mask
  <1>10. ASSUME NEW c \in CPU, PenStep(c) PROVE stop' \in StopLocals
    BY SMTT(60), <1>10 DEF PenStep, IrqTake, NmiTake, HoldRead, HoldLook, HoldAck, HoldSpin,
                 HoldClear, Frame
  <1>11. CASE UNCHANGED vars
    BY SMTT(60), <1>11 DEF vars
  <1>12. QED
    BY SMTT(60), <1>1, <1>2, <1>3, <1>4, <1>5, <1>6, <1>7, <1>8, <1>9, <1>10, <1>11
    DEF Next, StopStep

\* While a request is in force, a core that has acknowledged it keeps its
\* acknowledgement: the innermost pen works on that very request.
LEMMA AckStable ==
    ASSUME IInv, NEW c \in CPU, NEW l \in Level, requested # 0,
           ack[c] = requested, HoldAck(c, l) \/ HoldClear(c, l)
    PROVE  ack'[c] = requested
  <1>1. requested = generation
    BY SMTT(60) DEF IInv, Published, InForce
  <1>2. Held(c)
    BY SMTT(60) DEF IInv, AckHeld
  <1>3. /\ pen[c][l].pc \in {"ack", "clear"}
        /\ l = "irq" => pen[c]["nmi"].pc = "none"
    BY SMTT(60) DEF HoldAck, HoldClear, Frame
  <1>4. l = "nmi" /\ pen[c]["irq"] = [pc |-> "spin", gen |-> requested]
    BY SMTT(60), <1>2, <1>3 DEF Held, Level
  <1>5. pen[c]["irq"].gen <= pen[c][l].gen /\ pen[c][l].gen <= generation
    BY SMTT(60), <1>3, <1>4 DEF IInv, Nested, Working, Fresh, Level
  <1>6. pen[c][l].gen = requested
    <2>1. pen[c][l].gen \in Nat /\ generation \in Nat
      BY SMTT(60), WorldStopAssumption DEF IInv, TypeOK, Gen
    <2>2. QED
      BY SMTT(60), <1>1, <1>4, <1>5, <2>1
  <1>7. HoldAck(c, l)
    BY SMTT(60), <1>3, <1>6 DEF HoldAck, HoldClear, Frame, IInv, Fresh
  <1>8. QED
    BY SMTT(60), <1>6, <1>7 DEF HoldAck, IInv, TypeOK

\* So the acknowledgements a scan has read stay true under every pen.
LEMMA SeenStable ==
    ASSUME IInv, NEW c \in CPU, NEW l \in Level, HoldAck(c, l) \/ HoldClear(c, l)
    PROVE  Seen'
  <1>1. \A d \in CPU \ {c} : ack'[d] = ack[d]
    BY SMTT(60) DEF HoldAck, HoldClear, IInv, TypeOK
  <1>2. at' = at /\ stop' = stop /\ generation' = generation
    BY SMTT(60) DEF HoldAck, HoldClear, Frame, shared
  <1>3. \A e \in CPU : InForce(e) /\ ack[c] = generation => ack'[c] = generation
    BY SMTT(60), AckStable DEF IInv, Published
  <1>4. \A e, d \in CPU : InForce(e) /\ ack[d] = generation => ack'[d] = generation
    BY SMTT(60), <1>1, <1>3
  <1>5. stop.seen \subseteq CPU /\ \A e \in CPU : Others(e) \subseteq CPU
    BY SMTT(60) DEF IInv, TypeOK, StopLocals, Others
  <1>6. QED
    BY SMTT(60), <1>2, <1>4, <1>5 DEF Seen, Others, IInv, InForce

\* Between the owner word and the request word no request is in force.
LEMMA OwnedMeansNone ==
    ASSUME IInv, NEW d \in CPU, at[d] = "owned" \/ at[d] = "claimed"
    PROVE  requested = 0
  BY SMTT(60) DEF IInv, Published, InForce, Gate, OneClaimant, Claimant
\* Every step of a stop, a CPU start or a pen preserves the invariant.
LEMMA NextIInv == IInv /\ [Next]_vars => IInv'
  <1> SUFFICES ASSUME IInv, [Next]_vars PROVE IInv'
    OBVIOUS
  <1> USE WorldStopAssumption DEF IInv
  <1>0. stop' \in StopLocals
    BY SMTT(60), LocalsStep
  <1>1. ASSUME NEW c \in CPU, BeginCall(c) PROVE IInv'
    <2>1. TypeOK'
      BY SMTT(60), <1>0, <1>1
      DEF BeginCall, Goto, shared, env, TypeOK, Place, Gen
    <2>2. Gate' /\ Published' /\ Members'
      BY SMTT(60), <1>1
      DEF BeginCall, Goto, shared, env, TypeOK, Gate, OneClaimant, Claimant, Published, InForce, Members, Idle
    <2>3. Fresh' /\ AckHeld' /\ Nested'
      BY SMTT(60), <1>1
      DEF BeginCall, Goto, shared, env, TypeOK, Gate, OneClaimant, Claimant, Published, InForce, Fresh, Working,
          AckHeld, Held, Nested, NoFrame, Gen
    <2>4. Seen'
      BY SMTT(60), <1>1
      DEF BeginCall, Goto, shared, env, TypeOK, Gate, OneClaimant, Claimant, Seen, Others, InForce
    <2>5. QED
      BY SMTT(60), <2>1, <2>2, <2>3, <2>4
  <1>2. ASSUME NEW c \in CPU, BeginMaskedCall(c) PROVE IInv'
    <2>1. TypeOK'
      BY SMTT(60), <1>0, <1>2
      DEF BeginMaskedCall, Goto, shared, env, TypeOK, Place, Gen
    <2>2. Gate' /\ Published' /\ Members'
      BY SMTT(60), <1>2
      DEF BeginMaskedCall, Goto, shared, env, TypeOK, Gate, OneClaimant, Claimant, Published, InForce, Members, Idle
    <2>3. Fresh' /\ AckHeld' /\ Nested'
      BY SMTT(60), <1>2
      DEF BeginMaskedCall, Goto, shared, env, TypeOK, Gate, OneClaimant, Claimant, Published, InForce, Fresh, Working,
          AckHeld, Held, Nested, NoFrame, Gen
    <2>4. Seen'
      BY SMTT(60), <1>2
      DEF BeginMaskedCall, Goto, shared, env, TypeOK, Gate, OneClaimant, Claimant, Seen, Others, InForce
    <2>5. QED
      BY SMTT(60), <2>1, <2>2, <2>3, <2>4
  <1>3. ASSUME NEW c \in CPU, ClaimBusy(c) PROVE IInv'
    <2>1. TypeOK'
      BY SMTT(60), <1>0, <1>3
      DEF ClaimBusy, Goto, shared, env, TypeOK, Place, Gen
    <2>2. Gate' /\ Published' /\ Members'
      BY SMTT(60), <1>3
      DEF ClaimBusy, Goto, shared, env, TypeOK, Gate, OneClaimant, Claimant, Published, InForce, Members, Idle
    <2>3. Fresh' /\ AckHeld' /\ Nested'
      BY SMTT(60), <1>3
      DEF ClaimBusy, Goto, shared, env, TypeOK, Gate, OneClaimant, Claimant, Published, InForce, Fresh, Working,
          AckHeld, Held, Nested, NoFrame, Gen
    <2>4. Seen'
      BY SMTT(60), <1>3
      DEF ClaimBusy, Goto, shared, env, TypeOK, Gate, OneClaimant, Claimant, Seen, Others, InForce
    <2>5. QED
      BY SMTT(60), <2>1, <2>2, <2>3, <2>4
  <1>4. ASSUME NEW c \in CPU, Claim(c) PROVE IInv'
    <2>1. TypeOK'
      BY SMTT(60), <1>0, <1>4
      DEF Claim, Goto, shared, env, TypeOK, Place, Gen
    <2>2. Gate' /\ Published' /\ Members'
      <3>1. Gate' /\ Published'
        BY SMTT(60), <1>4 DEF Claim, Goto, TypeOK, Gate, OneClaimant, Claimant, Published, InForce
      <3>2. stop'.core = NoCPU
        BY SMTT(60), <1>4 DEF Claim, Idle
      <3>3. \A d \in CPU : ~(at'[d] = "owned" \/ InForce(d)')
        BY ZenonT(60), <1>4 DEF Claim, Goto, TypeOK, Gate, OneClaimant, Claimant, InForce
      <3>4. QED
        BY SMTT(60), <1>4, <3>1, <3>2, <3>3 DEF Claim, env, Members
    <2>3. Fresh' /\ AckHeld' /\ Nested'
      BY SMTT(60), <1>4
      DEF Claim, Goto, shared, env, TypeOK, Gate, OneClaimant, Claimant, Published, InForce, Fresh, Working,
          AckHeld, Held, Nested, NoFrame, Gen
    <2>4. Seen'
      BY SMTT(60), <1>4
      DEF Claim, Goto, shared, env, TypeOK, Gate, OneClaimant, Claimant, Seen, Others, InForce
    <2>5. QED
      BY SMTT(60), <2>1, <2>2, <2>3, <2>4
  <1>5. ASSUME NEW c \in CPU, Exhausted(c) PROVE IInv'
    <2>1. TypeOK'
      BY SMTT(60), <1>0, <1>5
      DEF Exhausted, Goto, shared, env, TypeOK, Place, Gen
    <2>2. Gate' /\ Published' /\ Members'
      BY ZenonT(60), <1>5
      DEF Exhausted, Goto, shared, env, TypeOK, Gate, OneClaimant, Claimant, Published, InForce, Members, Idle
    <2>3. Fresh' /\ AckHeld' /\ Nested'
      BY SMTT(60), <1>5
      DEF Exhausted, Goto, shared, env, TypeOK, Gate, OneClaimant, Claimant, Published, InForce, Fresh, Working,
          AckHeld, Held, Nested, NoFrame, Gen
    <2>4. Seen'
      BY ZenonT(60), <1>5
      DEF Exhausted, Goto, shared, env, TypeOK, Gate, OneClaimant, Claimant, Seen, Others, InForce
    <2>5. QED
      BY SMTT(60), <2>1, <2>2, <2>3, <2>4
  <1>6. ASSUME NEW c \in CPU, PublishOwner(c) PROVE IInv'
    <2>1. TypeOK'
      <3>1. generation' = generation + 1 /\ generation # LastGeneration
        BY SMTT(60), <1>6 DEF PublishOwner
      <3>2. generation' \in Gen
        BY SMTT(60), <3>1 DEF TypeOK, Gen
      <3>3. QED
        BY SMTT(60), <1>0, <1>6, <3>2 DEF PublishOwner, Goto, env, TypeOK, Place
    <2>2. Gate' /\ Published' /\ Members'
      <3>1. Gate'
        BY SMTT(60), <1>6 DEF PublishOwner, Goto, TypeOK, Gate, OneClaimant, Claimant
      <3>2. requested = 0 /\ (generation # 0 \/ at[c] # "owned")
        BY SMTT(60), <1>6, OwnedMeansNone DEF PublishOwner, Goto, TypeOK, Fresh, Gen
      <3>3. \A d \in CPU : InForce(d)' => d = c
        BY ZenonT(60), <1>6 DEF PublishOwner, Goto, TypeOK, Gate, OneClaimant, Claimant, InForce
      <3>4. Published'
        BY SMTT(60), <1>6, <3>2, <3>3 DEF PublishOwner, Goto, TypeOK, Published, InForce
      <3>5. \A d \in CPU : at'[d] = "owned" \/ InForce(d)' => d = c
        BY ZenonT(60), <1>6 DEF PublishOwner, Goto, TypeOK, Gate, OneClaimant, Claimant, InForce
      <3>6. Members'
        BY SMTT(60), <1>6, <3>5
        DEF PublishOwner, Goto, env, TypeOK, StopLocals, Members, InForce
      <3>7. QED
        BY SMTT(60), <3>1, <3>4, <3>6
    <2>3. Fresh' /\ AckHeld' /\ Nested'
      BY SMTT(60), <1>6
      DEF PublishOwner, Goto, shared, env, TypeOK, Gate, OneClaimant, Claimant, Published, InForce, Fresh, Working,
          AckHeld, Held, Nested, NoFrame, Gen
    <2>4. Seen'
      BY ZenonT(60), <1>6
      DEF PublishOwner, Goto, shared, env, TypeOK, Gate, OneClaimant, Claimant, Seen, Others, InForce
    <2>5. QED
      BY SMTT(60), <2>1, <2>2, <2>3, <2>4
  <1>7. ASSUME NEW c \in CPU, PublishRequest(c) PROVE IInv'
    <2>1. TypeOK'
      BY SMTT(60), <1>0, <1>7
      DEF PublishRequest, Goto, shared, env, TypeOK, Place, Gen
    <2>2. Gate' /\ Published' /\ Members'
      <3>1. Gate'
        BY SMTT(60), <1>7 DEF PublishRequest, Goto, TypeOK, Gate, OneClaimant, Claimant
      <3>2. requested = 0 /\ (generation # 0 \/ at[c] # "owned")
        BY SMTT(60), <1>7, OwnedMeansNone DEF PublishRequest, Goto, TypeOK, Fresh, Gen
      <3>3. \A d \in CPU : InForce(d)' => d = c
        BY ZenonT(60), <1>7 DEF PublishRequest, Goto, TypeOK, Gate, OneClaimant, Claimant, InForce
      <3>4. Published'
        BY SMTT(60), <1>7, <3>2, <3>3 DEF PublishRequest, Goto, TypeOK, Published, InForce
      <3>5. \A d \in CPU : at'[d] = "owned" \/ InForce(d)' => d = c
        BY SMTT(60), <1>7 DEF PublishRequest, Goto, TypeOK, Gate, OneClaimant, Claimant, InForce
      <3>6. Members'
        BY SMTT(60), <1>7, <3>5
        DEF PublishRequest, Goto, env, TypeOK, StopLocals, Members, InForce
      <3>7. QED
        BY SMTT(60), <3>1, <3>4, <3>6
    <2>3. Fresh' /\ AckHeld' /\ Nested'
      BY SMTT(60), <1>7
      DEF PublishRequest, Goto, shared, env, TypeOK, Gate, OneClaimant, Claimant, Published, InForce, Fresh, Working,
          AckHeld, Held, Nested, NoFrame, Gen
    <2>4. Seen'
      BY SMTT(60), <1>7
      DEF PublishRequest, Goto, shared, env, TypeOK, Gate, OneClaimant, Claimant, Seen, Others, InForce
    <2>5. QED
      BY SMTT(60), <2>1, <2>2, <2>3, <2>4
  <1>8. ASSUME NEW c \in CPU, Notify(c) PROVE IInv'
    <2>1. TypeOK'
      BY SMTT(60), <1>0, <1>8
      DEF Notify, Goto, shared, env, TypeOK, Place, Gen, Others
    <2>2. Gate' /\ Published' /\ Members'
      BY SMTT(60), <1>8
      DEF Notify, Goto, shared, env, TypeOK, Gate, OneClaimant, Claimant, Published, InForce, Members, Idle, Others, StopLocals
    <2>3. Fresh' /\ AckHeld' /\ Nested'
      BY SMTT(60), <1>8
      DEF Notify, Goto, shared, env, TypeOK, Gate, OneClaimant, Claimant, Published, InForce, Fresh, Working,
          AckHeld, Held, Nested, NoFrame, Gen
    <2>4. Seen'
      BY SMTT(60), <1>8
      DEF Notify, Goto, shared, env, TypeOK, Gate, OneClaimant, Claimant, Seen, Others, InForce
    <2>5. QED
      BY SMTT(60), <2>1, <2>2, <2>3, <2>4
  <1>9. ASSUME NEW c \in CPU, Scan(c) PROVE IInv'
    <2>1. TypeOK'
      BY SMTT(60), <1>0, <1>9
      DEF Scan, Goto, shared, env, TypeOK, Place, Gen
    <2>2. Gate' /\ Published' /\ Members'
      BY SMTT(60), <1>9
      DEF Scan, Goto, shared, env, TypeOK, Gate, OneClaimant, Claimant, Published, InForce, Members, Idle
    <2>3. Fresh' /\ AckHeld' /\ Nested'
      BY SMTT(60), <1>9
      DEF Scan, Goto, shared, env, TypeOK, Gate, OneClaimant, Claimant, Published, InForce, Fresh, Working,
          AckHeld, Held, Nested, NoFrame, Gen
    <2>4. Seen'
      BY SMTT(60), <1>9
      DEF Scan, Goto, shared, env, TypeOK, Gate, OneClaimant, Claimant, Seen, Others, InForce
    <2>5. QED
      BY SMTT(60), <2>1, <2>2, <2>3, <2>4
  <1>10. ASSUME NEW c \in CPU, NextRound(c) PROVE IInv'
    <2>1. TypeOK'
      BY SMTT(60), <1>0, <1>10
      DEF NextRound, Goto, shared, env, TypeOK, Place, Gen, Others
    <2>2. Gate' /\ Published' /\ Members'
      BY SMTT(60), <1>10
      DEF NextRound, Goto, shared, env, TypeOK, Gate, OneClaimant, Claimant, Published, InForce, Members, Idle, Others, StopLocals
    <2>3. Fresh' /\ AckHeld' /\ Nested'
      BY SMTT(60), <1>10
      DEF NextRound, Goto, shared, env, TypeOK, Gate, OneClaimant, Claimant, Published, InForce, Fresh, Working,
          AckHeld, Held, Nested, NoFrame, Gen
    <2>4. Seen'
      BY SMTT(60), <1>10
      DEF NextRound, Goto, shared, env, TypeOK, Gate, OneClaimant, Claimant, Seen, Others, InForce
    <2>5. QED
      BY SMTT(60), <2>1, <2>2, <2>3, <2>4
  <1>11. ASSUME NEW c \in CPU, Complete(c) PROVE IInv'
    <2>1. TypeOK'
      BY SMTT(60), <1>0, <1>11
      DEF Complete, Goto, shared, env, TypeOK, Place, Gen
    <2>2. Gate' /\ Published' /\ Members'
      BY SMTT(60), <1>11
      DEF Complete, Goto, shared, env, TypeOK, Gate, OneClaimant, Claimant, Published, InForce, Members, Idle
    <2>3. Fresh' /\ AckHeld' /\ Nested'
      BY SMTT(60), <1>11
      DEF Complete, Goto, shared, env, TypeOK, Gate, OneClaimant, Claimant, Published, InForce, Fresh, Working,
          AckHeld, Held, Nested, NoFrame, Gen
    <2>4. Seen'
      BY SMTT(60), <1>11
      DEF Complete, Goto, shared, env, TypeOK, Gate, OneClaimant, Claimant, Seen, Others, InForce
    <2>5. QED
      BY SMTT(60), <2>1, <2>2, <2>3, <2>4
  <1>12. ASSUME NEW c \in CPU, Partial(c) PROVE IInv'
    <2>1. TypeOK'
      BY SMTT(60), <1>0, <1>12
      DEF Partial, Goto, shared, env, TypeOK, Place, Gen
    <2>2. Gate' /\ Published' /\ Members'
      BY SMTT(60), <1>12
      DEF Partial, Goto, shared, env, TypeOK, Gate, OneClaimant, Claimant, Published, InForce, Members, Idle
    <2>3. Fresh' /\ AckHeld' /\ Nested'
      BY SMTT(60), <1>12
      DEF Partial, Goto, shared, env, TypeOK, Gate, OneClaimant, Claimant, Published, InForce, Fresh, Working,
          AckHeld, Held, Nested, NoFrame, Gen
    <2>4. Seen'
      BY SMTT(60), <1>12
      DEF Partial, Goto, shared, env, TypeOK, Gate, OneClaimant, Claimant, Seen, Others, InForce
    <2>5. QED
      BY SMTT(60), <2>1, <2>2, <2>3, <2>4
  <1>13. ASSUME NEW c \in CPU, KeepForever(c) PROVE IInv'
    <2>1. TypeOK'
      BY SMTT(60), <1>0, <1>13
      DEF KeepForever, Goto, shared, env, TypeOK, Place, Gen
    <2>2. Gate' /\ Published' /\ Members'
      BY SMTT(60), <1>13
      DEF KeepForever, Goto, shared, env, TypeOK, Gate, OneClaimant, Claimant, Published, InForce, Members, Idle
    <2>3. Fresh' /\ AckHeld' /\ Nested'
      BY SMTT(60), <1>13
      DEF KeepForever, Goto, shared, env, TypeOK, Gate, OneClaimant, Claimant, Published, InForce, Fresh, Working,
          AckHeld, Held, Nested, NoFrame, Gen
    <2>4. Seen'
      BY SMTT(60), <1>13
      DEF KeepForever, Goto, shared, env, TypeOK, Gate, OneClaimant, Claimant, Seen, Others, InForce
    <2>5. QED
      BY SMTT(60), <2>1, <2>2, <2>3, <2>4
  <1>14. ASSUME NEW c \in CPU, Withdraw(c) PROVE IInv'
    <2>1. TypeOK'
      BY SMTT(60), <1>0, <1>14
      DEF Withdraw, Goto, shared, env, TypeOK, Place, Gen
    <2>2. Gate' /\ Published' /\ Members'
      BY ZenonT(150), <1>14
      DEF Withdraw, Goto, shared, env, TypeOK, Gate, OneClaimant, Claimant, Published, InForce, Members, Idle
    <2>3. Fresh' /\ AckHeld' /\ Nested'
      BY SMTT(60), <1>14
      DEF Withdraw, Goto, shared, env, TypeOK, Gate, OneClaimant, Claimant, Published, InForce, Fresh, Working,
          AckHeld, Held, Nested, NoFrame, Gen
    <2>4. Seen'
      BY SMTT(60), <1>14
      DEF Withdraw, Goto, shared, env, TypeOK, Gate, OneClaimant, Claimant, Seen, Others, InForce
    <2>5. QED
      BY SMTT(60), <2>1, <2>2, <2>3, <2>4
  <1>15. ASSUME NEW c \in CPU, GiveGate(c) PROVE IInv'
    <2>1. TypeOK'
      BY SMTT(60), <1>0, <1>15
      DEF GiveGate, Goto, shared, env, TypeOK, Place, Gen
    <2>2. Gate' /\ Published' /\ Members'
      BY ZenonT(60), <1>15
      DEF GiveGate, Goto, shared, env, TypeOK, Gate, OneClaimant, Claimant, Published, InForce, Members, Idle
    <2>3. Fresh' /\ AckHeld' /\ Nested'
      BY SMTT(60), <1>15
      DEF GiveGate, Goto, shared, env, TypeOK, Gate, OneClaimant, Claimant, Published, InForce, Fresh, Working,
          AckHeld, Held, Nested, NoFrame, Gen
    <2>4. Seen'
      BY ZenonT(60), <1>15
      DEF GiveGate, Goto, shared, env, TypeOK, Gate, OneClaimant, Claimant, Seen, Others, InForce
    <2>5. QED
      BY SMTT(60), <2>1, <2>2, <2>3, <2>4
  <1>16. ASSUME NEW c \in CPU, StartReserve(c) PROVE IInv'
    <2>1. TypeOK'
      BY SMTT(60), <1>0, <1>16
      DEF StartReserve, Goto, shared, env, TypeOK, Place, Gen
    <2>2. Gate' /\ Published' /\ Members'
      BY ZenonT(60), <1>16
      DEF StartReserve, Goto, shared, env, TypeOK, Gate, OneClaimant, Claimant, Published, InForce, Members, Idle
    <2>3. Fresh' /\ AckHeld' /\ Nested'
      BY SMTT(60), <1>16
      DEF StartReserve, Goto, shared, env, TypeOK, Gate, OneClaimant, Claimant, Published, InForce, Fresh, Working,
          AckHeld, Held, Nested, NoFrame, Gen
    <2>4. Seen'
      BY ZenonT(60), <1>16
      DEF StartReserve, Goto, shared, env, TypeOK, Gate, OneClaimant, Claimant, Seen, Others, InForce
    <2>5. QED
      BY SMTT(60), <2>1, <2>2, <2>3, <2>4
  <1>17. ASSUME StartFinish PROVE IInv'
    <2>1. TypeOK'
      BY SMTT(60), <1>0, <1>17
      DEF StartFinish, Goto, shared, env, TypeOK, Place, Gen
    <2>2. Gate' /\ Published' /\ Members'
      <3>1. Gate' /\ Published'
        BY SMTT(60), <1>17 DEF StartFinish, Goto, TypeOK, Gate, OneClaimant, Claimant,
                     Published, InForce
      <3>2. \A d \in CPU : ~(at'[d] = "owned" \/ InForce(d)')
        BY ZenonT(60), <1>17 DEF StartFinish, Goto, TypeOK, Gate, OneClaimant, Claimant, InForce
      <3>3. live' \subseteq (participants' \cup {Boot}) \cap Present
        BY ZenonT(60), <1>17 DEF StartFinish, env, Members
      <3>4. QED
        BY ZenonT(60), <1>17, <3>1, <3>2, <3>3 DEF StartFinish, Members, Idle
    <2>3. Fresh' /\ AckHeld' /\ Nested'
      BY SMTT(60), <1>17
      DEF StartFinish, Goto, shared, env, TypeOK, Gate, OneClaimant, Claimant, Published, InForce, Fresh, Working,
          AckHeld, Held, Nested, NoFrame, Gen
    <2>4. Seen'
      BY ZenonT(60), <1>17
      DEF StartFinish, Goto, shared, env, TypeOK, Gate, OneClaimant, Claimant, Seen, Others, InForce
    <2>5. QED
      BY SMTT(60), <2>1, <2>2, <2>3, <2>4
  <1>18. ASSUME NEW c \in CPU, ComeAlive(c) PROVE IInv'
    <2>1. TypeOK'
      BY SMTT(60), <1>0, <1>18
      DEF ComeAlive, Main, shared, env, Asked, TypeOK, Place, Gen
    <2>2. Gate' /\ Published' /\ Members'
      BY SMTT(60), <1>18
      DEF ComeAlive, Main, shared, env, Asked, TypeOK, Gate, OneClaimant, Claimant, Published, InForce, Members, Idle
    <2>3. Fresh' /\ AckHeld' /\ Nested'
      BY SMTT(60), <1>18
      DEF ComeAlive, Main, shared, env, Asked, TypeOK, Gate, OneClaimant, Claimant, Published, InForce, Fresh, Working,
          AckHeld, Held, Nested, NoFrame, Gen
    <2>4. Seen'
      BY SMTT(60), <1>18
      DEF ComeAlive, Main, shared, env, Asked, TypeOK, Gate, OneClaimant, Claimant, Seen, Others, InForce
    <2>5. QED
      BY SMTT(60), <2>1, <2>2, <2>3, <2>4
  <1>19. ASSUME NEW c \in CPU, Mask(c) PROVE IInv'
    <2>1. TypeOK'
      BY SMTT(60), <1>0, <1>19
      DEF Mask, Main, shared, env, Asked, TypeOK, Place, Gen
    <2>2. Gate' /\ Published' /\ Members'
      BY SMTT(60), <1>19
      DEF Mask, Main, shared, env, Asked, TypeOK, Gate, OneClaimant, Claimant, Published, InForce, Members, Idle
    <2>3. Fresh' /\ AckHeld' /\ Nested'
      BY SMTT(60), <1>19
      DEF Mask, Main, shared, env, Asked, TypeOK, Gate, OneClaimant, Claimant, Published, InForce, Fresh, Working,
          AckHeld, Held, Nested, NoFrame, Gen
    <2>4. Seen'
      BY SMTT(60), <1>19
      DEF Mask, Main, shared, env, Asked, TypeOK, Gate, OneClaimant, Claimant, Seen, Others, InForce
    <2>5. QED
      BY SMTT(60), <2>1, <2>2, <2>3, <2>4
  <1>20. ASSUME NEW c \in CPU, IrqTake(c) PROVE IInv'
    <2>1. TypeOK'
      BY SMTT(60), <1>0, <1>20
      DEF IrqTake, Main, Enter, shared, env, TypeOK, Place, Gen, Level, PenPlace, NoFrame
    <2>2. Gate' /\ Published' /\ Members'
      BY SMTT(60), <1>20
      DEF IrqTake, Main, Enter, shared, env, TypeOK, Gate, OneClaimant, Claimant, Published, InForce, Members
    <2>3. Fresh' /\ AckHeld' /\ Nested'
      BY SMTT(60), <1>20
      DEF IrqTake, Main, Enter, shared, env, TypeOK, Gate, OneClaimant, Claimant, Published, InForce, Fresh, Working,
          AckHeld, Held, Nested, NoFrame, Gen
    <2>4. Seen'
      BY SMTT(60), <1>20
      DEF IrqTake, Main, Enter, shared, env, TypeOK, Gate, OneClaimant, Claimant, Seen, Others, InForce
    <2>5. QED
      BY SMTT(60), <2>1, <2>2, <2>3, <2>4
  <1>21. ASSUME NEW c \in CPU, NmiTake(c) PROVE IInv'
    <2>1. TypeOK'
      BY SMTT(60), <1>0, <1>21
      DEF NmiTake, Main, Enter, shared, env, TypeOK, Place, Gen, Level, PenPlace, NoFrame
    <2>2. Gate' /\ Published' /\ Members'
      BY SMTT(60), <1>21
      DEF NmiTake, Main, Enter, shared, env, TypeOK, Gate, OneClaimant, Claimant, Published, InForce, Members
    <2>3. Fresh' /\ AckHeld' /\ Nested'
      BY SMTT(60), <1>21
      DEF NmiTake, Main, Enter, shared, env, TypeOK, Gate, OneClaimant, Claimant, Published, InForce, Fresh, Working,
          AckHeld, Held, Nested, NoFrame, Gen
    <2>4. Seen'
      BY SMTT(60), <1>21
      DEF NmiTake, Main, Enter, shared, env, TypeOK, Gate, OneClaimant, Claimant, Seen, Others, InForce
    <2>5. QED
      BY SMTT(60), <2>1, <2>2, <2>3, <2>4
  <1>22. ASSUME NEW c \in CPU, NEW l \in Level, HoldRead(c, l) PROVE IInv'
    <2>1. TypeOK'
      BY SMTT(60), <1>0, <1>22
      DEF HoldRead, Frame, shared, env, TypeOK, Place, Gen, Level, PenPlace, NoFrame
    <2>2. Gate' /\ Published' /\ Members'
      BY SMTT(60), <1>22
      DEF HoldRead, Frame, shared, env, TypeOK, Gate, OneClaimant, Claimant, Published, InForce, Members
    <2>3. Fresh' /\ AckHeld' /\ Nested'
      <3>1. requested \in {0, generation}
        BY SMTT(60) DEF Published, InForce
      <3>2. \A d \in CPU : at[d] = "owned" => requested = 0
        BY SMTT(60), OwnedMeansNone
      <3>3. Fresh'
        BY SMTT(60), <1>22, <3>1, <3>2
        DEF HoldRead, Frame, shared, TypeOK, Fresh, Working, NoFrame, Gen
      <3>4. AckHeld'
        BY SMTT(60), <1>22 DEF HoldRead, Frame, shared, TypeOK, AckHeld, Held
      <3>5. Nested'
        BY SMTT(60), <1>22, <3>1
        DEF HoldRead, Frame, shared, TypeOK, Nested, Working, Fresh, NoFrame, Gen, Level
      <3>6. QED
        BY SMTT(60), <3>3, <3>4, <3>5
    <2>4. Seen'
      BY SMTT(60), <1>22
      DEF HoldRead, Frame, shared, env, TypeOK, Gate, OneClaimant, Claimant, Seen, Others, InForce
    <2>5. QED
      BY SMTT(60), <2>1, <2>2, <2>3, <2>4
  <1>23. ASSUME NEW c \in CPU, NEW l \in Level, HoldLook(c, l) PROVE IInv'
    <2>1. TypeOK'
      BY SMTT(60), <1>0, <1>23
      DEF HoldLook, Frame, shared, env, TypeOK, Place, Gen, Level, PenPlace, NoFrame
    <2>2. Gate' /\ Published' /\ Members'
      BY SMTT(60), <1>23
      DEF HoldLook, Frame, shared, env, TypeOK, Gate, OneClaimant, Claimant, Published, InForce, Members
    <2>3. Fresh' /\ AckHeld' /\ Nested'
      BY SMTT(60), <1>23
      DEF HoldLook, Frame, shared, env, TypeOK, Gate, OneClaimant, Claimant, Published, InForce, Fresh, Working,
          AckHeld, Held, Nested, NoFrame, Gen
    <2>4. Seen'
      BY SMTT(60), <1>23
      DEF HoldLook, Frame, shared, env, TypeOK, Gate, OneClaimant, Claimant, Seen, Others, InForce
    <2>5. QED
      BY SMTT(60), <2>1, <2>2, <2>3, <2>4
  <1>24. ASSUME NEW c \in CPU, NEW l \in Level, HoldAck(c, l) PROVE IInv'
    <2>1. TypeOK'
      BY SMTT(60), <1>0, <1>24
      DEF HoldAck, Frame, shared, env, TypeOK, Place, Gen, Level, PenPlace, NoFrame
    <2>2. Gate' /\ Published' /\ Members'
      BY SMTT(60), <1>24
      DEF HoldAck, Frame, shared, env, TypeOK, Gate, OneClaimant, Claimant, Published, InForce, Members
    <2>3. Fresh' /\ AckHeld' /\ Nested'
      BY SMTT(60), <1>24
      DEF HoldAck, Frame, shared, env, TypeOK, Gate, OneClaimant, Claimant, Published, InForce, Fresh, Working,
          AckHeld, Held, Nested, NoFrame, Gen
    <2>4. Seen'
      BY SMTT(60), <1>24, SeenStable
    <2>5. QED
      BY SMTT(60), <2>1, <2>2, <2>3, <2>4
  <1>25. ASSUME NEW c \in CPU, NEW l \in Level, HoldSpin(c, l) PROVE IInv'
    <2>1. TypeOK'
      BY SMTT(60), <1>0, <1>25
      DEF HoldSpin, Frame, shared, env, TypeOK, Place, Gen, Level, PenPlace, NoFrame
    <2>2. Gate' /\ Published' /\ Members'
      BY SMTT(60), <1>25
      DEF HoldSpin, Frame, shared, env, TypeOK, Gate, OneClaimant, Claimant, Published, InForce, Members
    <2>3. Fresh' /\ AckHeld' /\ Nested'
      BY SMTT(60), <1>25
      DEF HoldSpin, Frame, shared, env, TypeOK, Gate, OneClaimant, Claimant, Published, InForce, Fresh, Working,
          AckHeld, Held, Nested, NoFrame, Gen
    <2>4. Seen'
      BY SMTT(60), <1>25
      DEF HoldSpin, Frame, shared, env, TypeOK, Gate, OneClaimant, Claimant, Seen, Others, InForce
    <2>5. QED
      BY SMTT(60), <2>1, <2>2, <2>3, <2>4
  <1>26. ASSUME NEW c \in CPU, NEW l \in Level, HoldClear(c, l) PROVE IInv'
    <2>1. TypeOK'
      BY SMTT(60), <1>0, <1>26
      DEF HoldClear, Frame, shared, env, TypeOK, Place, Gen, Level, PenPlace, NoFrame
    <2>2. Gate' /\ Published' /\ Members'
      BY SMTT(60), <1>26
      DEF HoldClear, Frame, shared, env, TypeOK, Gate, OneClaimant, Claimant, Published, InForce, Members
    <2>3. Fresh' /\ AckHeld' /\ Nested'
      BY SMTT(60), <1>26
      DEF HoldClear, Frame, shared, env, TypeOK, Gate, OneClaimant, Claimant, Published, InForce, Fresh, Working,
          AckHeld, Held, Nested, NoFrame, Gen
    <2>4. Seen'
      BY SMTT(60), <1>26, SeenStable
    <2>5. QED
      BY SMTT(60), <2>1, <2>2, <2>3, <2>4
  <1>27. CASE UNCHANGED vars
    <2>1. TypeOK' /\ Gate' /\ Published' /\ Members'
      BY ZenonT(60), <1>27 DEF vars, TypeOK, Gate, OneClaimant, Claimant, Published, InForce,
         Members
    <2>2. Fresh' /\ AckHeld' /\ Nested' /\ Seen'
      BY ZenonT(60), <1>27 DEF vars, Fresh, Working, AckHeld, Held, Nested, Seen, Others
    <2>3. QED
      BY SMTT(60), <2>1, <2>2
  <1>28. QED
    BY ZenonT(60), <1>1, <1>2, <1>3, <1>4, <1>5, <1>6, <1>7, <1>8, <1>9, <1>10, <1>11, <1>12,
       <1>13, <1>14, <1>15, <1>16, <1>17, <1>18, <1>19, <1>20, <1>21, <1>22, <1>23, <1>24, <1>25,
       <1>26, <1>27
    DEF Next, StopStep, PenStep

\* Every behaviour keeps the inductive invariant.
THEOREM Invariance == Spec => []IInv
  BY InitIInv, NextIInv, PTL DEF Spec

\* The words of the stop, the pens and the claimant's locals keep their types.
THEOREM TypeCorrect == Spec => []TypeOK
  BY Invariance, PTL DEF IInv

\* The gate has one holder, whatever stops and CPU starts compete for it.
THEOREM GateExclusive == Spec => []OneClaimant
  BY Invariance, PTL DEF IInv, Gate

\* A complete stop holds every other core that runs kernel code.
THEOREM CompleteStops == Spec => []MachineStopped
  <1>1. IInv => MachineStopped
    <2> SUFFICES ASSUME IInv, NEW c \in CPU, at[c] \in {"stopped", "kept"},
                        NEW d \in live \ {c}
                 PROVE  Held(d)
      BY SMTT(60) DEF MachineStopped
    <2>1. d \in Others(c)
      BY SMTT(60) DEF IInv, Members, InForce, Others
    <2>2. d \in CPU /\ requested # 0 /\ ack[d] = requested
      BY SMTT(60), <2>1 DEF IInv, TypeOK, Published, InForce, Seen
    <2>3. QED
      BY SMTT(60), <2>2 DEF IInv, AckHeld
  <1>2. QED
    BY <1>1, Invariance, PTL
=============================================================================
