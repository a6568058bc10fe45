---------------------------- MODULE PipeProofs ----------------------------
(***************************************************************************)
(* For every set of processes and of pool records, every buffer and every  *)
(* bound of Pipe: no end closes under a holder, no wake is lost, and the   *)
(* rings are the byte streams of ByteStreams.                              *)
(***************************************************************************)
EXTENDS Pipe, SequenceTheorems, TLAPS

\* What the argument needs of the variables' types.  The ring's contents play
\* no part in it: every change of a length wakes whoever waits.
Types ==
  /\ generation \in [Pipes -> 0..LastGeneration]
  /\ live \subseteq Pipes
  /\ open \in [Pipes -> SUBSET Ends]
  /\ waiting \subseteq Pipes
  /\ DOMAIN length = Pipes
  /\ pipe_wait \in [Proc -> Pipes \cup {NoPipe}]
  /\ fds \in [Proc -> SUBSET Handles]
  /\ pc \in [Proc -> PCs]
  /\ call \in [Proc -> Calls]
  /\ wakes \in [Proc -> Pipes \cup {NoPipe}]
  /\ closing \in [Proc -> Handles \cup {NoPipe}]

\* A process in a call holds the descriptor it called with.
Standing(p) ==
  /\ pc[p] \in {"call", "repoll", "block", "blocked"} => call[p].fd \in fds[p]
  /\ pc[p] = "none" => fds[p] = {}
  /\ pc[p] = "blocked" => pipe_wait[p] # NoPipe
  /\ pc[p] = "close" => closing[p] \in Handles

\* Whoever closes an end is the only one left with it.
Alone(p, q) ==
  pc[p] = "close" =>
    /\ closing[p] \notin fds[q]
    /\ q # p /\ pc[q] = "close" => closing[q] # closing[p]

OpenAt(h) == PipeTake(h) /\ h.end \in open[h.pipe]

Held(p) ==
  /\ \A h \in fds[p] : OpenAt(h)
  /\ pc[p] = "close" => OpenAt(closing[p])

\* From the moment it names the pipe, not only once Blocked, a waiter is either
\* flagged with reason to wait or about to lose its name to a walk.
Named(p) ==
  pc[p] \in {"block", "blocked"} /\ pipe_wait[p] # NoPipe =>
    /\ pipe_wait[p] = call[p].fd.pipe
    /\ \/ pipe_wait[p] \in waiting /\ MustWait(call[p])
       \/ WakeDue(pipe_wait[p])

IInv ==
  /\ Types
  /\ \A p \in Proc : Standing(p)
  /\ \A p, q \in Proc : Alone(p, q)
  /\ \A p \in Proc : Held(p)
  /\ \A p \in Proc : Named(p)
-----------------------------------------------------------------------------
\* Whether a call must wait depends on its own pipe alone.
LEMMA SameWait ==
  ASSUME NEW p \in Proc,
         call'[p] = call[p],
         length'[call[p].fd.pipe] = length[call[p].fd.pipe],
         open'[call[p].fd.pipe] = open[call[p].fd.pipe]
  PROVE  MustWait(call[p])' = MustWait(call[p])
BY ZenonT(60) DEF MustWait, PipeRoom, PipeWriteAmount

\* A process that takes no part in a step keeps its place among the waiters,
\* when its pipe does not change and no walk is used up.
LEMMA OthersNamed ==
  ASSUME IInv, NEW p \in Proc, NEW q \in Proc, q # p, pc[p] # "wake",
         \A r \in Proc \ {p} : pc'[r] = pc[r] /\ wakes'[r] = wakes[r],
         call'[q] = call[q], pipe_wait'[q] = pipe_wait[q],
         pipe_wait[q] \in waiting => pipe_wait[q] \in waiting',
         pipe_wait[q] \in Pipes =>
           /\ length'[pipe_wait[q]] = length[pipe_wait[q]]
           /\ open'[pipe_wait[q]] = open[pipe_wait[q]]
  PROVE  Named(q)'
<1> SUFFICES ASSUME pc[q] \in {"block", "blocked"}, pipe_wait[q] # NoPipe
             PROVE  Named(q)'
  BY ZenonT(60) DEF Named
<1>1. /\ pipe_wait[q] = call[q].fd.pipe
      /\ \/ pipe_wait[q] \in waiting /\ MustWait(call[q])
         \/ WakeDue(pipe_wait[q])
  BY ZenonT(60) DEF IInv, Named
<1>2. pipe_wait[q] \in Pipes
  BY ZenonT(60) DEF IInv, Types
<1>3. CASE WakeDue(pipe_wait[q])
  <2>1. PICK r \in Proc : pc[r] = "wake" /\ wakes[r] = pipe_wait[q]
    BY ZenonT(60), <1>3 DEF WakeDue
  <2>2. WakeDue(pipe_wait[q])'
    BY ZenonT(60), <2>1 DEF WakeDue
  <2> QED BY ZenonT(60), <1>1, <2>2 DEF Named
<1>4. CASE pipe_wait[q] \in waiting /\ MustWait(call[q])
  <2>1. MustWait(call[q])'
    BY ZenonT(60), <1>1, <1>2, <1>4, SameWait
  <2> QED BY ZenonT(60), <1>1, <1>4, <2>1 DEF Named
<1> QED BY ZenonT(60), <1>1, <1>3, <1>4

\* After pipe_put_changed everyone else who waits for the pipe it changed is
\* about to be woken.
LEMMA ChangedNamed ==
  ASSUME IInv, NEW p \in Proc, NEW q \in Proc, NEW a \in Pipes, pc[p] \in {"call", "close"},
         PipePutChanged(p, a), UNCHANGED pipe_wait,
         \A b \in Pipes \ {a} : length'[b] = length[b] /\ open'[b] = open[b]
  PROVE  Named(q)'
<1>1. CASE q = p
  BY ZenonT(60), <1>1 DEF IInv, Types, PipePutChanged, Named
<1>2. CASE q # p /\ pipe_wait[q] = a /\ a \in waiting
  <2>1. WakeDue(a)'
    BY ZenonT(60), <1>2 DEF IInv, Types, PipePutChanged, WakeDue
  <2>2. pc'[q] = pc[q] /\ call'[q] = call[q] /\ pipe_wait'[q] = pipe_wait[q]
    BY ZenonT(60), <1>2 DEF IInv, Types, PipePutChanged
  <2> QED BY ZenonT(60), <1>2, <2>1, <2>2 DEF IInv, Named
<1>3. CASE q # p /\ pipe_wait[q] = a /\ a \notin waiting
  <2>1. \A r \in Proc \ {p} : pc'[r] = pc[r] /\ wakes'[r] = wakes[r] /\ call'[r] = call[r]
    BY ZenonT(60) DEF IInv, Types, PipePutChanged
  <2>2. SUFFICES ASSUME pc[q] \in {"block", "blocked"}, a # NoPipe
                 PROVE  Named(q)'
    BY ZenonT(60), <1>3, <2>1 DEF Named
  <2>3. pipe_wait[q] = call[q].fd.pipe /\ WakeDue(a)
    BY ZenonT(60), <1>3, <2>2 DEF IInv, Named
  <2>4. PICK r \in Proc : pc[r] = "wake" /\ wakes[r] = a
    BY ZenonT(60), <2>3 DEF WakeDue
  <2>5. WakeDue(a)'
    BY ZenonT(60), <2>1, <2>4 DEF WakeDue
  <2> QED BY ZenonT(60), <1>3, <2>1, <2>3, <2>5 DEF Named
<1>4. CASE q # p /\ pipe_wait[q] # a
  <2>1. /\ \A r \in Proc \ {p} : pc'[r] = pc[r] /\ wakes'[r] = wakes[r]
        /\ call'[q] = call[q]
        /\ pipe_wait'[q] = pipe_wait[q]
        /\ pipe_wait[q] \in waiting => pipe_wait[q] \in waiting'
    BY ZenonT(60), <1>4 DEF IInv, Types, PipePutChanged
  <2> QED BY ZenonT(60), <1>4, <2>1, OthersNamed
<1> QED BY ZenonT(60), <1>1, <1>2, <1>3, <1>4

\* A step that changes neither the pool nor who holds what keeps every end.
LEMMA SamePool ==
  ASSUME IInv, UNCHANGED <<pool, fds, closing>>,
         \A r \in Proc : pc'[r] = "close" => pc[r] = "close"
  PROVE  /\ \A p, q \in Proc : Alone(p, q)'
         /\ \A p \in Proc : Held(p)'
<1>1. \A p, q \in Proc : Alone(p, q)'
  BY ZenonT(60) DEF IInv, Alone
<1>2. \A h : OpenAt(h)' = OpenAt(h)
  BY ZenonT(60) DEF OpenAt, PipeTake, pool
<1>3. \A p \in Proc : Held(p)'
  <2> SUFFICES ASSUME NEW p \in Proc PROVE Held(p)'
    BY ZenonT(60)
  <2>1. Held(p)
    BY ZenonT(60) DEF IInv
  <2> QED BY ZenonT(60), <1>2, <2>1 DEF Held
<1> QED BY ZenonT(60), <1>1, <1>3
-----------------------------------------------------------------------------
\* Naming the pipe and setting its flag under the pipe's lock, having just seen
\* that the call must wait.
LEMMA WaitingStep ==
  ASSUME IInv, NEW p \in Proc, pc[p] \in {"call", "repoll"},
         MustWait(call[p]), PipePutWaiting(p, call[p].fd.pipe)
  PROVE  IInv'
<1> DEFINE a == call[p].fd.pipe
<1>1. call[p].fd \in fds[p] /\ a \in Pipes
  BY SMTT(60) DEF IInv, Types, Standing, Handles
<1>2. Types'
  BY ZenonT(60), <1>1 DEF IInv, Types, PipePutWaiting, PCs, pool, ring
<1>3. \A q \in Proc : Standing(q)'
  BY ZenonT(60), <1>1, PipeAssumption DEF IInv, Types, Standing, PipePutWaiting, pool, ring
<1>4. /\ \A q, r \in Proc : Alone(q, r)'
      /\ \A q \in Proc : Held(q)'
  <2>1. /\ UNCHANGED <<pool, fds, closing>>
        /\ \A r \in Proc : pc'[r] = "close" => pc[r] = "close"
    BY ZenonT(60) DEF IInv, Types, PipePutWaiting
  <2> QED BY ZenonT(60), <2>1, SamePool
<1>5. ASSUME NEW q \in Proc PROVE Named(q)'
  <2>1. CASE q = p
    <3>1. MustWait(call[p])'
      BY ZenonT(60), SameWait DEF PipePutWaiting, pool, ring
    <3> QED BY ZenonT(60), <1>1, <2>1, <3>1 DEF IInv, Types, PipePutWaiting, Named
  <2>2. CASE q # p
    <3>1. /\ \A r \in Proc \ {p} : pc'[r] = pc[r] /\ wakes'[r] = wakes[r]
          /\ call'[q] = call[q] /\ pipe_wait'[q] = pipe_wait[q]
          /\ waiting \subseteq waiting'
          /\ UNCHANGED <<length, open>>
      BY ZenonT(60), <2>2 DEF IInv, Types, PipePutWaiting, pool, ring
    <3> QED BY ZenonT(60), <2>2, <3>1, OthersNamed
  <2> QED BY ZenonT(60), <2>1, <2>2
<1> QED BY ZenonT(60), <1>2, <1>3, <1>4, <1>5 DEF IInv

\* A step of one process that changes no pipe and names none: it returns, goes
\* on to look again, or is about to rerun.
LEMMA PlainStep ==
  ASSUME IInv, NEW p \in Proc, Types', UNCHANGED <<pool, waiting, length, fds, wakes, closing>>,
         pc[p] # "wake",
         \A q \in Proc \ {p} : /\ pc'[q] = pc[q] /\ call'[q] = call[q]
                              /\ pipe_wait'[q] = pipe_wait[q],
         pc'[p] \in {"user", "call", "repoll", "block", "blocked"},
         pc'[p] = "user" \/ call'[p].fd \in fds[p],
         pc'[p] = "block" => pipe_wait'[p] = NoPipe,
         pc'[p] = "blocked" => /\ pc[p] = "block" /\ pipe_wait[p] # NoPipe
                              /\ pipe_wait'[p] = pipe_wait[p] /\ call'[p] = call[p]
  PROVE  IInv'
<1>1. \A q \in Proc : Standing(q)'
  BY ZenonT(60) DEF IInv, Standing
<1>2. /\ \A q, r \in Proc : Alone(q, r)'
      /\ \A q \in Proc : Held(q)'
  BY ZenonT(60), SamePool
<1>3. ASSUME NEW q \in Proc PROVE Named(q)'
  <2>1. CASE q # p
    BY ZenonT(60), <2>1, OthersNamed DEF pool
  <2>2. CASE q = p /\ pc'[p] = "blocked"
    <3>1. Named(p)
      BY ZenonT(60) DEF IInv
    <3>2. MustWait(call[p])' = MustWait(call[p])
      BY ZenonT(60), <2>2, SameWait DEF pool
    <3>3. WakeDue(pipe_wait[p]) => WakeDue(pipe_wait[p])'
      BY ZenonT(60), <2>2 DEF WakeDue
    <3> QED BY ZenonT(60), <2>2, <3>1, <3>2, <3>3 DEF Named
  <2>3. CASE q = p /\ pc'[p] # "blocked"
    BY ZenonT(60), <2>3 DEF Named
  <2> QED BY ZenonT(60), <2>1, <2>2, <2>3
<1> QED BY ZenonT(60), <1>1, <1>2, <1>3 DEF IInv

\* A call whose change of the ring is followed by pipe_put_changed.
LEMMA ChangedStep ==
  ASSUME IInv, NEW p \in Proc, NEW a \in Pipes, pc[p] = "call", PipePutChanged(p, a),
         UNCHANGED <<pool, pipe_wait, fds, closing>>,
         DOMAIN length' = Pipes,
         \A b \in Pipes \ {a} : length'[b] = length[b]
  PROVE  IInv'
<1>1. Types'
  BY ZenonT(60) DEF IInv, Types, PipePutChanged, PCs, Calls, pool
<1>2. \A q \in Proc : Standing(q)'
  BY SMTT(60) DEF IInv, Types, Standing, PipePutChanged
<1>3. /\ \A q, r \in Proc : Alone(q, r)'
      /\ \A q \in Proc : Held(q)'
  <2>1. \A r \in Proc : pc'[r] = "close" => pc[r] = "close"
    BY ZenonT(60) DEF IInv, Types, PipePutChanged
  <2> QED BY ZenonT(60), <2>1, SamePool
<1>4. \A q \in Proc : Named(q)'
  BY ZenonT(60), ChangedNamed DEF pool
<1> QED BY ZenonT(60), <1>1, <1>2, <1>3, <1>4 DEF IInv

\* A process enters a call, for an object it holds, with no wait named.
LEMMA EnterInv ==
  ASSUME IInv, NEW p \in Proc, Enter(p)
  PROVE  IInv'
<1>1. PICK h \in fds[p] :
        \/ \E n \in 1..MaxCount :
             call' = [call EXCEPT ![p] = [op |-> "read", fd |-> h, n |-> n]]
        \/ \E n \in 1..MaxCount : \E bytes \in [1..n -> Byte] :
             call' = [call EXCEPT ![p] = [op |-> "write", fd |-> h, bytes |-> bytes]]
        \/ \E asks \in BOOLEAN :
             call' = [call EXCEPT ![p] = [op |-> "poll", fd |-> h, asks |-> asks]]
  BY ZenonT(60) DEF Enter
<1>2. h \in Handles
  BY ZenonT(60) DEF IInv, Types
<1>3. call' \in [Proc -> Calls] /\ call'[p].fd = h /\ \A q \in Proc \ {p} : call'[q] = call[q]
  <2>1. ASSUME NEW n \in 1..MaxCount,
               call' = [call EXCEPT ![p] = [op |-> "read", fd |-> h, n |-> n]]
        PROVE  <1>3!1
    <3>1. [op |-> "read", fd |-> h, n |-> n] \in Calls
      BY ZenonT(60), <1>2 DEF Calls
    <3> QED BY ZenonT(60), <2>1, <3>1 DEF IInv, Types
  <2>2. ASSUME NEW n \in 1..MaxCount, NEW bytes \in [1..n -> Byte],
               call' = [call EXCEPT ![p] = [op |-> "write", fd |-> h, bytes |-> bytes]]
        PROVE  <1>3!1
    <3>1. [op |-> "write", fd |-> h, bytes |-> bytes] \in Calls
      BY ZenonT(60), <1>2 DEF Calls
    <3> QED BY ZenonT(60), <2>2, <3>1 DEF IInv, Types
  <2>3. ASSUME NEW asks \in BOOLEAN,
               call' = [call EXCEPT ![p] = [op |-> "poll", fd |-> h, asks |-> asks]]
        PROVE  <1>3!1
    <3>1. [op |-> "poll", fd |-> h, asks |-> asks] \in Calls
      BY ZenonT(60), <1>2 DEF Calls
    <3> QED BY ZenonT(60), <2>3, <3>1 DEF IInv, Types
  <2> QED BY ZenonT(60), <1>1, <2>1, <2>2, <2>3
<1>4. Types'
  BY ZenonT(60), <1>3 DEF IInv, Types, Enter, PCs, pool, ring
<1> QED BY ZenonT(60), <1>1, <1>3, <1>4, PlainStep DEF Enter, IInv, Types, ring

\* A read answers, changes the ring and wakes, or names the pipe and goes to sleep.
LEMMA ReadInv ==
  ASSUME IInv, NEW p \in Proc, PipeRead(p)
  PROVE  IInv'
<1> DEFINE a == call[p].fd.pipe
<1>1. pc[p] = "call" /\ call[p].fd \in fds[p] /\ a \in Pipes
  BY SMTT(60) DEF PipeRead, IInv, Types, Standing, Handles
<1>2. CASE PipeTake(call[p].fd) /\ MustWait(call[p])
  BY ZenonT(60), <1>1, <1>2, WaitingStep DEF PipeRead
<1>3. CASE ~(PipeTake(call[p].fd) /\ MustWait(call[p]))
  <2>1. /\ \/ Return(p) /\ UNCHANGED <<waiting, length, wakes>>
           \/ /\ \E n : Consume(a, n)
              /\ PipePutChanged(p, a)
        /\ UNCHANGED <<pool, pipe_wait, fds, closing>>
    BY ZenonT(60), <1>3 DEF PipeRead
  <2>2. CASE Return(p) /\ UNCHANGED <<waiting, length, wakes>>
    <3>1. Types'
      BY ZenonT(60), <2>1, <2>2 DEF IInv, Types, Return, PCs, Calls, pool
    <3> QED BY ZenonT(60), <1>1, <2>1, <2>2, <3>1, PlainStep DEF Return, IInv, Types
  <2>3. CASE (\E n : Consume(a, n)) /\ PipePutChanged(p, a)
    <3>1. DOMAIN length' = Pipes /\ \A b \in Pipes \ {a} : length'[b] = length[b]
      BY ZenonT(60), <1>1, <2>3 DEF IInv, Types, Consume
    <3> QED BY ZenonT(60), <1>1, <2>1, <2>3, <3>1, ChangedStep
  <2> QED BY ZenonT(60), <2>1, <2>2, <2>3
<1> QED BY ZenonT(60), <1>2, <1>3

\* A write does the same against the room instead of the bytes.
LEMMA WriteInv ==
  ASSUME IInv, NEW p \in Proc, PipeWrite(p)
  PROVE  IInv'
<1> DEFINE a == call[p].fd.pipe
<1>1. pc[p] = "call" /\ call[p].fd \in fds[p] /\ a \in Pipes
  BY SMTT(60) DEF PipeWrite, IInv, Types, Standing, Handles
<1>2. CASE PipeTake(call[p].fd) /\ MustWait(call[p])
  BY ZenonT(60), <1>1, <1>2, WaitingStep DEF PipeWrite
<1>3. CASE ~(PipeTake(call[p].fd) /\ MustWait(call[p]))
  <2>1. /\ \/ Return(p) /\ UNCHANGED <<waiting, length, wakes>>
           \/ /\ \E n : length' = [length EXCEPT ![a] = @ + n]
              /\ PipePutChanged(p, a)
        /\ UNCHANGED <<pool, pipe_wait, fds, closing>>
    BY ZenonT(30), <1>3 DEF PipeWrite
  <2>2. CASE Return(p) /\ UNCHANGED <<waiting, length, wakes>>
    <3>1. Types'
      BY ZenonT(60), <2>1, <2>2 DEF IInv, Types, Return, PCs, Calls, pool
    <3> QED BY ZenonT(60), <1>1, <2>1, <2>2, <3>1, PlainStep DEF Return, IInv, Types
  <2>3. CASE (\E n : length' = [length EXCEPT ![a] = @ + n]) /\ PipePutChanged(p, a)
    <3>1. DOMAIN length' = Pipes /\ \A b \in Pipes \ {a} : length'[b] = length[b]
      BY ZenonT(60), <1>1, <2>3 DEF IInv, Types
    <3> QED BY ZenonT(60), <1>1, <2>1, <2>3, <3>1, ChangedStep
  <2> QED BY ZenonT(30), <2>1, <2>2, <2>3
<1> QED BY ZenonT(60), <1>2, <1>3

\* A ppoll answers, or names the pipe and goes to sleep.
LEMMA PollInv ==
  ASSUME IInv, NEW p \in Proc, PollLook(p) \/ PollWait(p)
  PROVE  IInv'
<1>1. pc[p] \in {"call", "repoll"} /\ call[p].fd \in fds[p]
  BY ZenonT(60) DEF PollLook, PollWait, IInv, Types, Standing
<1>2. CASE PollLook(p)
  <2>1. Types'
    BY ZenonT(60), <1>2 DEF PollLook, Return, IInv, Types, PCs, Calls, pool, ring
  <2> QED BY ZenonT(60), <1>1, <1>2, <2>1, PlainStep DEF PollLook, Return, IInv, Types, ring
<1>3. CASE PollWait(p) /\ PipeTake(call[p].fd) /\ MustWait(call[p])
  BY ZenonT(60), <1>1, <1>3, WaitingStep DEF PollWait
<1>4. CASE PollWait(p) /\ ~(PipeTake(call[p].fd) /\ MustWait(call[p]))
  <2>1. Types'
    BY ZenonT(60), <1>4 DEF PollWait, IInv, Types, PCs, pool, ring
  <2> QED BY ZenonT(60), <1>1, <1>4, <2>1, PlainStep DEF PollWait, IInv, Types, ring
<1> QED BY ZenonT(60), <1>2, <1>3, <1>4

\* The process publishes itself Blocked only when nothing changed since it looked.
LEMMA BlockInv ==
  ASSUME IInv, NEW p \in Proc, PipeBlock(p) \/ Signal(p)
  PROVE  IInv'
<1>1. pc[p] \in {"block", "blocked"} /\ call[p].fd \in fds[p]
  BY ZenonT(60) DEF PipeBlock, Signal, IInv, Types, Standing
<1>2. CASE PipeBlock(p)
  <2>1. Types'
    BY ZenonT(60), <1>2 DEF PipeBlock, IInv, Types, PCs, pool, ring
  <2> QED BY ZenonT(60), <1>1, <1>2, <2>1, PlainStep DEF PipeBlock, IInv, Types, ring
<1>3. CASE Signal(p)
  <2>1. Types'
    BY ZenonT(60), <1>3 DEF Signal, Return, IInv, Types, PCs, Calls, pool, ring
  <2> QED BY ZenonT(60), <1>1, <1>3, <2>1, PlainStep DEF Signal, Return, IInv, Types, ring
<1> QED BY ZenonT(60), <1>2, <1>3

\* The walk uses itself up, and with it every name it was due for.
LEMMA WakeInv ==
  ASSUME IInv, NEW p \in Proc, PipeWake(p)
  PROVE  IInv'
<1>1. Types'
  BY ZenonT(60) DEF PipeWake, IInv, Types, PCs, pool, ring
<1>2. \A q \in Proc : Standing(q)'
  BY ZenonT(60) DEF PipeWake, IInv, Types, Standing
<1>3. /\ \A q, r \in Proc : Alone(q, r)'
      /\ \A q \in Proc : Held(q)'
  <2>1. /\ UNCHANGED <<pool, fds, closing>>
        /\ \A r \in Proc : pc'[r] = "close" => pc[r] = "close"
    BY ZenonT(60) DEF PipeWake, IInv, Types
  <2> QED BY ZenonT(60), <2>1, SamePool
<1>4. ASSUME NEW q \in Proc, pc'[q] \in {"block", "blocked"}, pipe_wait'[q] # NoPipe
      PROVE  Named(q)'
  <2>1. /\ pc[q] = pc'[q] /\ pipe_wait[q] = pipe_wait'[q] /\ call'[q] = call[q]
        /\ pipe_wait[q] # wakes[p]
    BY ZenonT(60), <1>4 DEF PipeWake, IInv, Types
  <2>2. CASE WakeDue(pipe_wait[q])
    <3>1. PICK r \in Proc : pc[r] = "wake" /\ wakes[r] = pipe_wait[q]
      BY ZenonT(60), <2>2 DEF WakeDue
    <3>2. pc'[r] = "wake" /\ wakes'[r] = pipe_wait'[q]
      BY ZenonT(60), <2>1, <3>1 DEF PipeWake, IInv, Types
    <3> QED BY ZenonT(60), <1>4, <2>1, <3>2 DEF IInv, Named, WakeDue
  <2>3. CASE pipe_wait[q] \in waiting /\ MustWait(call[q])
    <3>1. MustWait(call[q])'
      BY ZenonT(60), <2>1, <2>3, SameWait DEF PipeWake, pool, ring
    <3>2. waiting' = waiting
      BY ZenonT(60) DEF PipeWake
    <3> QED BY ZenonT(60), <1>4, <2>1, <2>3, <3>1, <3>2 DEF IInv, Named
  <2> QED BY ZenonT(60), <1>4, <2>1, <2>2, <2>3 DEF IInv, Named
<1>5. \A q \in Proc : Named(q)'
  BY ZenonT(60), <1>4 DEF Named
<1> QED BY ZenonT(60), <1>1, <1>2, <1>3, <1>5 DEF IInv

\* The address a new pipe takes is nobody's: every handle in use is live.
LEMMA Pipe2Inv ==
  ASSUME IInv, NEW p \in Proc, Pipe2(p)
  PROVE  IInv'
<1>1. PICK a \in Pipes \ live :
        /\ generation[a] < LastGeneration
        /\ generation' = [generation EXCEPT ![a] = @ + 1]
        /\ waiting' = waiting \ {a}
        /\ length' = [length EXCEPT ![a] = 0]
        /\ \/ /\ live' = live \cup {a}
              /\ open' = [open EXCEPT ![a] = Ends]
              /\ fds' = [fds EXCEPT ![p] = @ \cup
                           [pipe : {a}, gen : {generation'[a]}, end : Ends]]
           \/ /\ open' = [open EXCEPT ![a] = {}]
              /\ UNCHANGED <<live, fds>>
  BY ZenonT(60) DEF Pipe2
<1>2. pc[p] = "user" /\ UNCHANGED <<pipe_wait, pc, call, wakes, closing>>
  BY ZenonT(60) DEF Pipe2
<1>3. generation'[a] \in 1..LastGeneration /\ generation' \in [Pipes -> 0..LastGeneration]
  BY SMTT(60), <1>1, PipeAssumption DEF IInv, Types
<1> DEFINE new == [pipe : {a}, gen : {generation'[a]}, end : Ends]
<1>4. new \subseteq Handles /\ \A h \in new : h.pipe = a /\ h.gen = generation'[a] /\ h.end \in Ends
  BY ZenonT(60), <1>3 DEF Handles
<1>5. Types'
  <2>1. fds' \in [Proc -> SUBSET Handles]
    BY SMTT(60), <1>1, <1>4 DEF IInv, Types
  <2>2. open' \in [Pipes -> SUBSET Ends]
    BY ZenonT(60), <1>1 DEF IInv, Types
  <2> QED BY ZenonT(60), <1>1, <1>2, <1>3, <2>1, <2>2 DEF IInv, Types
<1>6. \A q \in Proc : \A h \in fds'[q] :
        \/ h \in fds[q] /\ h.pipe \in live
        \/ h \in new /\ q = p /\ live' = live \cup {a} /\ open'[a] = Ends
  BY SMTT(60), <1>1 DEF IInv, Types, Held, OpenAt, PipeTake
<1>7. \A q \in Proc : pc[q] = "close" => closing[q].pipe \in live
  BY ZenonT(60) DEF IInv, Held, OpenAt, PipeTake
<1>8. \A q \in Proc : Standing(q)'
  BY ZenonT(60), <1>1, <1>2 DEF IInv, Types, Standing
<1>9. \A q, r \in Proc : Alone(q, r)'
  BY ZenonT(60), <1>1, <1>2, <1>4, <1>6, <1>7 DEF IInv, Alone
<1>10. ASSUME NEW h, h.pipe \in live, h.pipe \in Pipes
       PROVE  OpenAt(h)' = OpenAt(h)
  BY ZenonT(60), <1>1, <1>10 DEF IInv, Types, OpenAt, PipeTake
<1>11. ASSUME NEW q \in Proc PROVE Held(q)'
  <2>1. ASSUME NEW h \in fds'[q] PROVE OpenAt(h)'
    <3>1. CASE h \in fds[q] /\ h.pipe \in live
      BY ZenonT(60), <1>10, <3>1 DEF IInv, Types, Held
    <3>2. CASE h \in new /\ live' = live \cup {a} /\ open'[a] = Ends
      BY ZenonT(60), <1>4, <3>2 DEF OpenAt, PipeTake
    <3> QED BY ZenonT(60), <1>6, <2>1, <3>1, <3>2
  <2>2. pc'[q] = "close" => OpenAt(closing[q])' 
    BY ZenonT(60), <1>2, <1>7, <1>10 DEF IInv, Types, Held
  <2> QED BY ZenonT(60), <1>2, <2>1, <2>2 DEF Held, OpenAt, PipeTake
<1>12. ASSUME NEW q \in Proc PROVE Named(q)'
  <2>1. CASE pc[q] \in {"block", "blocked"} /\ pipe_wait[q] # NoPipe
    <3>1. pipe_wait[q] = call[q].fd.pipe /\ call[q].fd \in fds[q]
      BY ZenonT(60), <2>1 DEF IInv, Named, Standing
    <3>2. pipe_wait[q] # a /\ pipe_wait[q] \in Pipes /\ q # p
      BY SMTT(60), <1>1, <1>2, <2>1, <3>1 DEF IInv, Types, Held, OpenAt, PipeTake
    <3>3. /\ length'[pipe_wait[q]] = length[pipe_wait[q]]
          /\ open'[pipe_wait[q]] = open[pipe_wait[q]]
          /\ pipe_wait[q] \in waiting => pipe_wait[q] \in waiting'
      BY ZenonT(60), <1>1, <3>2 DEF IInv, Types
    <3> QED BY ZenonT(60), <1>2, <3>2, <3>3, OthersNamed
  <2>2. CASE ~(pc[q] \in {"block", "blocked"} /\ pipe_wait[q] # NoPipe)
    BY ZenonT(60), <1>2, <2>2 DEF Named
  <2> QED BY ZenonT(60), <2>1, <2>2
<1> QED BY ZenonT(60), <1>5, <1>8, <1>9, <1>11, <1>12 DEF IInv

\* A child begins with the objects its parent holds.
LEMMA CloneInv ==
  ASSUME IInv, NEW p \in Proc, NEW c \in Proc, Clone(p, c)
  PROVE  IInv'
<1>1. /\ pc[p] = "user" /\ pc[c] = "none" /\ pc' = [pc EXCEPT ![c] = "user"]
      /\ fds' = [fds EXCEPT ![c] = fds[p]]
      /\ pipe_wait' = [pipe_wait EXCEPT ![c] = NoPipe]
      /\ UNCHANGED <<generation, live, open, waiting, length, call, wakes, closing>>
  BY ZenonT(60) DEF Clone, pool, ring
<1>2. Types'
  BY ZenonT(60), <1>1 DEF IInv, Types, PCs
<1>3. \A q \in Proc : Standing(q)'
  BY ZenonT(60), <1>1 DEF IInv, Types, Standing
<1>4. \A q, r \in Proc : Alone(q, r)'
  BY ZenonT(60), <1>1 DEF IInv, Types, Alone
<1>5. \A h : OpenAt(h)' = OpenAt(h)
  BY ZenonT(60), <1>1 DEF OpenAt, PipeTake
<1>6. ASSUME NEW q \in Proc PROVE Held(q)'
  <2>1. Held(q) /\ Held(p)
    BY ZenonT(60) DEF IInv
  <2> QED BY ZenonT(60), <1>1, <1>5, <2>1 DEF IInv, Types, Held
<1>7. ASSUME NEW q \in Proc PROVE Named(q)'
  <2>1. CASE q = c
    BY ZenonT(60), <1>1, <2>1 DEF IInv, Types, Named
  <2>2. CASE q # c
    <3>1. pc[c] # "wake" /\ (\A r \in Proc \ {c} : pc'[r] = pc[r] /\ wakes'[r] = wakes[r])
          /\ call'[q] = call[q] /\ pipe_wait'[q] = pipe_wait[q]
      BY ZenonT(60), <1>1, <2>2 DEF IInv, Types
    <3> QED BY ZenonT(60), <1>1, <2>2, <3>1, OthersNamed
  <2> QED BY ZenonT(60), <2>1, <2>2
<1> QED BY ZenonT(60), <1>2, <1>3, <1>4, <1>6, <1>7 DEF IInv

\* The release that finds no other holder takes the end with it.
LEMMA CloseInv ==
  ASSUME IInv, NEW p \in Proc, Close(p)
  PROVE  IInv'
<1>1. PICK h \in fds[p] :
        /\ fds' = [fds EXCEPT ![p] = @ \ {h}]
        /\ IF \E q \in Proc \ {p} : h \in fds[q]
           THEN UNCHANGED <<pc, closing>>
           ELSE /\ pc' = [pc EXCEPT ![p] = "close"]
                /\ closing' = [closing EXCEPT ![p] = h]
  BY ZenonT(60) DEF Close
<1>2. /\ pc[p] = "user" /\ h \in Handles
      /\ UNCHANGED <<generation, live, open, waiting, length, pipe_wait, call, wakes>>
  BY ZenonT(60) DEF Close, pool, ring, IInv, Types
<1>3. Types'
  BY ZenonT(60), <1>1, <1>2 DEF IInv, Types, PCs
<1>4. \A q \in Proc : Standing(q)'
  BY ZenonT(150), <1>1, <1>2 DEF IInv, Types, Standing
<1>5. \A q, r \in Proc : Alone(q, r)'
  <2>1. \A q \in Proc : pc[q] = "close" => closing[q] # h
    BY ZenonT(60) DEF IInv, Alone
  <2>2. CASE \E q \in Proc \ {p} : h \in fds[q]
    BY ZenonT(60), <1>1, <2>2 DEF IInv, Types, Alone
  <2>3. CASE ~\E q \in Proc \ {p} : h \in fds[q]
    BY SMTT(60), <1>1, <1>2, <2>1, <2>3 DEF IInv, Types, Alone
  <2> QED BY ZenonT(60), <2>2, <2>3
<1>6. \A g : OpenAt(g)' = OpenAt(g)
  BY ZenonT(60), <1>2 DEF OpenAt, PipeTake
<1>7. ASSUME NEW q \in Proc PROVE Held(q)'
  <2>1. Held(q) /\ Held(p)
    BY ZenonT(60) DEF IInv
  <2> QED BY ZenonT(60), <1>1, <1>2, <1>6, <2>1 DEF IInv, Types, Held
<1>8. ASSUME NEW q \in Proc PROVE Named(q)'
  <2>1. CASE q = p
    BY ZenonT(60), <1>1, <1>2, <2>1 DEF IInv, Types, Named
  <2>2. CASE q # p
    <3>1. \A r \in Proc \ {p} : pc'[r] = pc[r] /\ wakes'[r] = wakes[r]
      BY ZenonT(60), <1>1, <1>2 DEF IInv, Types
    <3> QED BY ZenonT(60), <1>2, <2>2, <3>1, OthersNamed
  <2> QED BY ZenonT(60), <2>1, <2>2
<1> QED BY ZenonT(60), <1>3, <1>4, <1>5, <1>7, <1>8 DEF IInv

\* An end closes only once its last holder let go, so every descriptor still
\* held of this pipe is of the other end and keeps the record.
LEMMA EndCloseInv ==
  ASSUME IInv, NEW p \in Proc, PipeEndClose(p)
  PROVE  IInv'
<1> DEFINE h == closing[p]
           a == h.pipe
           left == open[a] \ {h.end}
<1>1. /\ pc[p] = "close" /\ h \in Handles /\ a \in Pipes /\ OpenAt(h)
      /\ closing' = [closing EXCEPT ![p] = NoPipe]
      /\ UNCHANGED <<generation, length, pipe_wait, fds>>
  BY ZenonT(60) DEF PipeEndClose, IInv, Types, Standing, Held, Handles, ring
<1>2. /\ open' = [open EXCEPT ![a] = left]
      /\ \/ /\ left = {} /\ Return(p) /\ live' = live \ {a} /\ UNCHANGED <<waiting, wakes>>
         \/ /\ left # {} /\ PipePutChanged(p, a) /\ UNCHANGED live
  BY ZenonT(60), <1>1 DEF PipeEndClose, OpenAt
<1>3. Types'
  <2>1. pc' \in [Proc -> PCs] /\ call' \in [Proc -> Calls]
        /\ wakes' \in [Proc -> Pipes \cup {NoPipe}] /\ waiting' \subseteq Pipes
    BY ZenonT(30), <1>1, <1>2 DEF IInv, Types, Return, PipePutChanged, PCs, Calls
  <2>2. open' \in [Pipes -> SUBSET Ends] /\ live' \subseteq Pipes
        /\ closing' \in [Proc -> Handles \cup {NoPipe}]
    BY ZenonT(60), <1>1, <1>2 DEF IInv, Types
  <2> QED BY ZenonT(60), <1>1, <2>1, <2>2 DEF IInv, Types
<1>4. /\ pc'[p] \in {"user", "wake"}
      /\ \A q \in Proc \ {p} : pc'[q] = pc[q] /\ call'[q] = call[q] /\ wakes'[q] = wakes[q]
                            /\ closing'[q] = closing[q]
  BY ZenonT(60), <1>1, <1>2 DEF IInv, Types, Return, PipePutChanged
<1>5. \A q \in Proc : Standing(q)'
  BY ZenonT(150), <1>1, <1>4 DEF IInv, Types, Standing
<1>6. \A q, r \in Proc : Alone(q, r)'
  BY SMTT(60), <1>1, <1>4 DEF IInv, Alone
<1>7. ASSUME NEW g \in Handles, g # h, OpenAt(g)
      PROVE  OpenAt(g)'
  <2>1. g.pipe = a => g.end # h.end
    BY SMTT(60), <1>1, <1>7 DEF OpenAt, PipeTake, Handles
  <2>2. g.pipe \in live'
    BY ZenonT(60), <1>1, <1>2, <1>7, <2>1 DEF OpenAt, PipeTake
  <2>3. g.end \in open'[g.pipe]
    BY ZenonT(60), <1>1, <1>2, <1>7, <2>1 DEF OpenAt, PipeTake, IInv, Types, Handles
  <2> QED BY ZenonT(60), <1>1, <1>7, <2>2, <2>3 DEF OpenAt, PipeTake
<1>8. ASSUME NEW q \in Proc PROVE Held(q)'
  <2>1. \A g \in fds[q] : g \in Handles /\ g # h /\ OpenAt(g)
    BY ZenonT(60), <1>1 DEF IInv, Types, Alone, Held
  <2>2. q # p /\ pc[q] = "close" => closing[q] \in Handles /\ closing[q] # h /\ OpenAt(closing[q])
    BY ZenonT(60), <1>1 DEF IInv, Alone, Held, Standing
  <2>3. \A g \in fds'[q] : OpenAt(g)'
    BY ZenonT(60), <1>1, <1>7, <2>1
  <2>4. pc'[q] = "close" => OpenAt(closing[q])'
    BY ZenonT(60), <1>4, <1>7, <2>2 DEF OpenAt, PipeTake
  <2> QED BY ZenonT(60), <2>3, <2>4 DEF Held, OpenAt, PipeTake
<1>9. ASSUME NEW q \in Proc PROVE Named(q)'
  <2>1. \A b \in Pipes \ {a} : length'[b] = length[b] /\ open'[b] = open[b]
    BY ZenonT(60), <1>1, <1>2 DEF IInv, Types
  <2>2. CASE PipePutChanged(p, a)
    BY ZenonT(60), <1>1, <2>1, <2>2, ChangedNamed
  <2>3. CASE left = {} /\ UNCHANGED <<waiting, wakes>>
    <3>1. CASE ~(pc'[q] \in {"block", "blocked"} /\ pipe_wait[q] # NoPipe)
      BY ZenonT(30), <1>1, <3>1 DEF Named
    <3>2. CASE pc'[q] \in {"block", "blocked"} /\ pipe_wait[q] # NoPipe
      <4>1. q # p /\ pc[q] = pc'[q] /\ pipe_wait[q] = call[q].fd.pipe /\ call[q].fd \in fds[q]
        BY ZenonT(60), <1>4, <3>2 DEF IInv, Named, Standing
      <4>2. call[q].fd # h /\ OpenAt(call[q].fd) /\ call[q].fd \in Handles
        BY ZenonT(60), <1>1, <4>1 DEF IInv, Types, Alone, Held
      <4>3. pipe_wait[q] # a
        BY SMTT(60), <1>1, <2>3, <4>1, <4>2 DEF OpenAt, PipeTake, Handles
      <4> QED BY ZenonT(60), <1>1, <1>4, <2>1, <2>3, <4>1, <4>3, OthersNamed
    <3> QED BY ZenonT(60), <3>1, <3>2
  <2> QED BY ZenonT(60), <1>2, <2>2, <2>3
<1> QED BY ZenonT(60), <1>3, <1>5, <1>6, <1>8, <1>9 DEF IInv

\* A process exits when it holds no object.
LEMMA ExitInv ==
  ASSUME IInv, NEW p \in Proc, Exit(p)
  PROVE  IInv'
<1>1. /\ pc[p] = "user" /\ fds[p] = {} /\ pc' = [pc EXCEPT ![p] = "none"]
      /\ UNCHANGED <<pool, waiting, length, pipe_wait, fds, call, wakes, closing>>
  BY ZenonT(60) DEF Exit, ring
<1>2. Types'
  BY ZenonT(60), <1>1 DEF IInv, Types, PCs, pool
<1>3. \A q \in Proc : Standing(q)'
  BY ZenonT(60), <1>1 DEF IInv, Types, Standing
<1>4. /\ \A q, r \in Proc : Alone(q, r)'
      /\ \A q \in Proc : Held(q)'
  <2>1. \A r \in Proc : pc'[r] = "close" => pc[r] = "close"
    BY ZenonT(60), <1>1 DEF IInv, Types
  <2> QED BY ZenonT(60), <1>1, <2>1, SamePool
<1>5. ASSUME NEW q \in Proc PROVE Named(q)'
  <2>1. CASE q = p
    BY ZenonT(60), <1>1, <2>1 DEF IInv, Types, Named
  <2>2. CASE q # p
    <3>1. \A r \in Proc \ {p} : pc'[r] = pc[r] /\ wakes'[r] = wakes[r]
      BY ZenonT(60), <1>1 DEF IInv, Types
    <3> QED BY ZenonT(60), <1>1, <2>2, <3>1, OthersNamed DEF pool
  <2> QED BY ZenonT(60), <2>1, <2>2
<1> QED BY ZenonT(60), <1>2, <1>3, <1>4, <1>5 DEF IInv
-----------------------------------------------------------------------------
\* At the start no pipe is live and nobody is in a call.
LEMMA InitInv == Init => IInv
<1> SUFFICES ASSUME Init PROVE IInv
  BY ZenonT(60)
<1>1. Types
  BY SMTT(60), PipeAssumption DEF Init, Types, PCs, Calls
<1>2. \A p \in Proc : fds[p] = {} /\ pc[p] \in {"user", "none"}
  BY ZenonT(60) DEF Init
<1> QED BY ZenonT(60), <1>1, <1>2 DEF IInv, Standing, Alone, Held, Named

\* Every step of every process keeps the inductive invariant.
LEMMA NextInv == IInv /\ [Next]_vars => IInv'
<1> SUFFICES ASSUME IInv, [Next]_vars PROVE IInv'
  BY ZenonT(60)
<1>1. CASE UNCHANGED vars
  BY ZenonT(150), <1>1 DEF vars, IInv, Types, Standing, Alone, Held, OpenAt, PipeTake, Named,
     WakeDue,
              MustWait, PipeRoom, PipeWriteAmount
<1>2. CASE Next
  <2>1. PICK p \in Proc :
          \/ Enter(p) \/ PipeRead(p) \/ PipeWrite(p) \/ PollLook(p) \/ PollWait(p)
          \/ PipeBlock(p) \/ Signal(p) \/ PipeWake(p) \/ Pipe2(p)
          \/ (\E c \in Proc : Clone(p, c)) \/ Close(p) \/ PipeEndClose(p) \/ Exit(p)
    BY ZenonT(60), <1>2 DEF Next
  <2> QED
    BY ZenonT(60), <2>1, EnterInv, ReadInv, WriteInv, PollInv, BlockInv, WakeInv, Pipe2Inv,
       CloneInv,
       CloseInv, EndCloseInv, ExitInv
<1> QED BY ZenonT(60), <1>1, <1>2

(***************************************************************************)
(* The inductive invariant holds throughout.                               *)
(***************************************************************************)
THEOREM Invariance == Spec => []IInv
BY InitInv, NextInv, PTL DEF Spec

(***************************************************************************)
(* No end of a pipe closes, and no record is freed or reused, under a      *)
(* holder (pipe_end_close after unified_object_release).                   *)
(***************************************************************************)
THEOREM EndsKept == Spec => []EndOpenWhileHeld
<1>1. IInv => EndOpenWhileHeld
  BY ZenonT(60) DEF IInv, Held, OpenAt, EndOpenWhileHeld
<1> QED BY <1>1, Invariance, PTL

(***************************************************************************)
(* No wake of a reader, a writer or a ppoll is lost, whatever number of    *)
(* processes share the pipe (pipe_put_waiting, kernel_process_block_pipe,  *)
(* kernel_process_pipe_wake).                                              *)
(***************************************************************************)
THEOREM WakesKept == Spec => []NoLostWake
<1>1. IInv => NoLostWake
  BY ZenonT(60) DEF IInv, Standing, Named, NoLostWake
<1> QED BY <1>1, Invariance, PTL

-----------------------------------------------------------------------------
(***************************************************************************)
(* For every capacity and every bound of Pipe: the words of a live pipe    *)
(* are a bounded queue of bytes, each call takes a front of it or appends  *)
(* to it, and so the pipes implement ByteStreams.                          *)
(***************************************************************************)

Any == Byte \cup {Zero}
Offsets == 0..PIPE_BUFFER_BYTES - 1

\* The bytes of a ring that starts at s and holds n in b.
Ring(s, n, b) == [i \in 1..n |-> b[Wrapped(s + i - 1)]]

\* A function on 1..n is a sequence of length n.
LEMMA FunctionIsSeq ==
  ASSUME NEW S, NEW n \in Nat, NEW f \in [1..n -> S]
  PROVE  f \in Seq(S) /\ Len(f) = n
<1>1. f \in Seq(S)
  BY ZenonT(60), SeqDef
<1>2. Len(f) \in Nat /\ DOMAIN f = 1..Len(f)
  BY ZenonT(60), <1>1, LenProperties
<1> QED BY SMTT(60), <1>1, <1>2

\* An offset below twice the capacity wraps into the buffer.
LEMMA WrappedInside ==
  ASSUME NEW k \in 0..2 * PIPE_BUFFER_BYTES - 1
  PROVE  Wrapped(k) \in Offsets
BY SMTT(60), PipeAssumption DEF Wrapped, Offsets

\* A ring of n bytes is a sequence of n bytes.
LEMMA RingIsSeq ==
  ASSUME NEW s \in Offsets, NEW n \in 0..PIPE_BUFFER_BYTES, NEW b \in [Offsets -> Any]
  PROVE  Ring(s, n, b) \in Seq(Any) /\ Len(Ring(s, n, b)) = n
<1>1. ASSUME NEW i \in 1..n PROVE Wrapped(s + i - 1) \in Offsets
  BY SMTT(60), WrappedInside, PipeAssumption DEF Offsets
<1>2. Ring(s, n, b) \in [1..n -> Any]
  BY ZenonT(60), <1>1 DEF Ring
<1> QED BY SMTT(60), <1>2, FunctionIsSeq

\* pipe_read_plan and pipe_write_plan walk the ring byte by byte, and a fault
\* leaves a prefix.
LEMMA PlanWalks ==
  ASSUME NEW from \in Offsets, NEW amount \in 0..PIPE_BUFFER_BYTES,
         NEW d \in Copied(Plan(from, amount))
  PROVE  /\ d \in 0..amount
         /\ \A i \in 1..d : At(Plan(from, amount), i) = Wrapped(from + i - 1)
<1> DEFINE first == IF amount <= PIPE_BUFFER_BYTES - from THEN amount
                    ELSE PIPE_BUFFER_BYTES - from
<1>1. Plan(from, amount) = [offset |-> from, first |-> first, second |-> amount - first]
  BY ZenonT(60) DEF Plan, Min2
<1>2. d \in {0, first, first + (amount - first)}
  BY SMTT(60), <1>1 DEF Copied
<1>3. first \in 0..amount /\ (first # amount => first = PIPE_BUFFER_BYTES - from)
  BY SMTT(60), PipeAssumption DEF Offsets
<1>4. d \in 0..amount
  BY SMTT(60), <1>2, <1>3, PipeAssumption
<1>5. ASSUME NEW i \in 1..d PROVE At(Plan(from, amount), i) = Wrapped(from + i - 1)
  <2>1. At(Plan(from, amount), i) = IF i <= first THEN from + i - 1 ELSE i - first - 1
    BY SMTT(60), <1>1 DEF At
  <2>2. i > first => first = PIPE_BUFFER_BYTES - from
    BY SMTT(60), <1>2, <1>3, <1>4, PipeAssumption DEF Offsets
  <2>3. i <= first => from + i - 1 < PIPE_BUFFER_BYTES
    BY SMTT(60), <1>3, PipeAssumption DEF Offsets
  <2> HIDE DEF first
  <2> QED BY SMTT(60), <1>3, <1>4, <2>1, <2>2, <2>3, PipeAssumption DEF Wrapped, Offsets
<1> QED BY ZenonT(60), <1>4, <1>5

\* z agrees with x on its front and with y behind it.
Joins(x, y, z) ==
  /\ Len(z) = Len(x) + Len(y)
  /\ \A i \in 1..Len(x) : z[i] = x[i]
  /\ \A i \in 1..Len(y) : z[Len(x) + i] = y[i]

\* A sequence that begins as x and goes on as y is their concatenation.
LEMMA Joined ==
  ASSUME NEW S, NEW x \in Seq(S), NEW y \in Seq(S), NEW z \in Seq(S), Joins(x, y, z)
  PROVE  z = x \o y
<1> DEFINE m == Len(x)
           k == Len(y)
           xy == x \o y
<1>1. /\ xy \in Seq(S) /\ Len(xy) = m + k
      /\ \A i \in 1..m + k : xy[i] = IF i <= m THEN x[i] ELSE y[i - m]
  BY ZenonT(60), ConcatProperties
<1>2. m \in Nat /\ k \in Nat /\ Len(z) = m + k
  BY ZenonT(60), LenProperties DEF Joins
<1>3. /\ \A i \in 1..m : z[i] = x[i]
      /\ \A i \in 1..k : z[m + i] = y[i]
  BY ZenonT(60) DEF Joins
<1> HIDE DEF m, k, xy
<1>4. ASSUME NEW i \in 1..m + k PROVE z[i] = xy[i]
  <2>1. xy[i] = IF i <= m THEN x[i] ELSE y[i - m]
    BY ZenonT(60), <1>1
  <2>2. CASE i <= m
    BY SMTT(60), <1>2, <1>3, <2>1, <2>2
  <2>3. CASE i > m
    <3>1. i - m \in 1..k /\ m + (i - m) = i
      BY SMTT(60), <1>2, <2>3
    <3>2. z[m + (i - m)] = y[i - m]
      BY ZenonT(60), <1>3, <3>1
    <3> QED BY SMTT(60), <1>2, <2>1, <2>3, <3>1, <3>2
  <2> QED BY SMTT(60), <1>2, <2>2, <2>3
<1>5. z = xy
  BY ZenonT(60), <1>1, <1>2, <1>4, SeqEqual
<1> QED BY ZenonT(60), <1>5 DEF xy

\* The i-th byte behind a front of d is the (d + i)-th.
LEMMA WrappedOn ==
  ASSUME NEW s \in Offsets, NEW n \in 0..PIPE_BUFFER_BYTES, NEW d \in 1..n,
         NEW i \in 1..n - d, NEW s2,
         s2 = IF n - d = 0 THEN 0 ELSE Wrapped(s + d)
  PROVE  d + i \in 1..n /\ Wrapped(s2 + i - 1) = Wrapped(s + (d + i) - 1)
BY SMTT(60), PipeAssumption DEF Wrapped, Offsets

\* Consuming d bytes takes them from the front.
LEMMA TakeFront ==
  ASSUME NEW s \in Offsets, NEW n \in 0..PIPE_BUFFER_BYTES, NEW b \in [Offsets -> Any],
         NEW d \in 1..n, NEW s2 \in Offsets,
         s2 = IF n - d = 0 THEN 0 ELSE Wrapped(s + d)
  PROVE  Ring(s, n, b) = Ring(s, d, b) \o Ring(s2, n - d, b)
<1>1. d \in 0..PIPE_BUFFER_BYTES /\ n - d \in 0..PIPE_BUFFER_BYTES
  BY SMTT(60), PipeAssumption
<1>2. /\ Ring(s, n, b) \in Seq(Any) /\ Len(Ring(s, n, b)) = n
      /\ Ring(s, d, b) \in Seq(Any) /\ Len(Ring(s, d, b)) = d
      /\ Ring(s2, n - d, b) \in Seq(Any) /\ Len(Ring(s2, n - d, b)) = n - d
  BY ZenonT(60), <1>1, RingIsSeq
<1>3. \A i \in 1..d : Ring(s, n, b)[i] = Ring(s, d, b)[i]
  BY SMTT(60) DEF Ring
<1>4. ASSUME NEW i \in 1..n - d PROVE Ring(s, n, b)[d + i] = Ring(s2, n - d, b)[i]
  <2>1. d + i \in 1..n /\ Wrapped(s2 + i - 1) = Wrapped(s + (d + i) - 1)
    BY SMTT(60), WrappedOn
  <2> QED BY ZenonT(60), <2>1 DEF Ring
<1>5. Joins(Ring(s, d, b), Ring(s2, n - d, b), Ring(s, n, b))
  BY SMTT(60), <1>2, <1>3, <1>4 DEF Joins
<1> QED BY ZenonT(60), <1>2, <1>5, Joined, Zenon

\* b2 is b with w stored behind the n bytes from s.
Stored(s, n, b, b2, d, w) ==
  /\ \A i \in 1..n : b2[Wrapped(s + i - 1)] = b[Wrapped(s + i - 1)]
  /\ \A j \in 1..d : b2[Wrapped(s + n + j - 1)] = w[j]

Appends(s, n, b, b2, d, w) ==
  /\ s \in Offsets /\ n \in 0..PIPE_BUFFER_BYTES
  /\ b \in [Offsets -> Any] /\ b2 \in [Offsets -> Any]
  /\ d \in 1..PIPE_BUFFER_BYTES - n /\ w \in [1..d -> Any]
  /\ Stored(s, n, b, b2, d, w)

\* Storing d bytes after the tail appends them.
LEMMA Appended ==
  ASSUME NEW s, NEW n, NEW b, NEW b2, NEW d, NEW w, Appends(s, n, b, b2, d, w)
  PROVE  Ring(s, n + d, b2) = Ring(s, n, b) \o w
<1> USE DEF Appends
<1>1. n + d \in 0..PIPE_BUFFER_BYTES /\ d \in Nat
  BY SMTT(60), PipeAssumption
<1>2. /\ Ring(s, n + d, b2) \in Seq(Any) /\ Len(Ring(s, n + d, b2)) = n + d
      /\ Ring(s, n, b) \in Seq(Any) /\ Len(Ring(s, n, b)) = n
      /\ w \in Seq(Any) /\ Len(w) = d
  BY ZenonT(60), <1>1, RingIsSeq, FunctionIsSeq
<1>3. \A i \in 1..n : Ring(s, n + d, b2)[i] = Ring(s, n, b)[i]
  BY SMTT(60), <1>1 DEF Ring, Stored
<1>4. ASSUME NEW j \in 1..d PROVE Ring(s, n + d, b2)[n + j] = w[j]
  <2>1. n + j \in 1..n + d /\ s + (n + j) - 1 = s + n + j - 1
    BY SMTT(60), <1>1 DEF Offsets
  <2> QED BY ZenonT(60), <2>1 DEF Ring, Stored
<1>5. Joins(Ring(s, n, b), w, Ring(s, n + d, b2))
  BY ZenonT(60), <1>2, <1>3, <1>4 DEF Joins
<1> QED BY ZenonT(60), <1>2, <1>5, Joined, Zenon

\* A plan that walks d bytes behind the tail, and the buffer after the copy of
\* d user bytes along it.
Behind(plan, d, s, n) == \A i \in 1..d : At(plan, i) = Wrapped(s + n + i - 1)

UserBytes(bytes, d) == \A i \in 1..d : bytes[i] \in Byte

Written(plan, d, bytes, b) ==
  [k \in Offsets |-> IF \E i \in 1..d : At(plan, i) = k
                     THEN bytes[CHOOSE i \in 1..d : At(plan, i) = k]
                     ELSE b[k]]

\* What syscall_pipe_write copies along its plan is stored behind the tail.
LEMMA CopyStores ==
  ASSUME NEW s \in Offsets, NEW n \in 0..PIPE_BUFFER_BYTES, NEW b \in [Offsets -> Any],
         NEW d \in 1..PIPE_BUFFER_BYTES - n, NEW bytes, NEW plan,
         UserBytes(bytes, d), Behind(plan, d, s, n)
  PROVE  /\ Written(plan, d, bytes, b) \in [Offsets -> Any]
         /\ Stored(s, n, b, Written(plan, d, bytes, b), d, bytes)
<1> DEFINE b2 == Written(plan, d, bytes, b)
<1> DEFINE place(k) == CHOOSE i \in 1..d : At(plan, i) = k
<1>1. ASSUME NEW k, \E i \in 1..d : At(plan, i) = k
      PROVE  place(k) \in 1..d /\ At(plan, place(k)) = k
  BY <1>1, Zenon
<1>2. b2 = [k \in Offsets |-> IF \E i \in 1..d : At(plan, i) = k THEN bytes[place(k)] ELSE b[k]]
  BY ZenonT(60) DEF Written
<1> HIDE DEF place, b2
<1>3. b2 \in [Offsets -> Any]
  BY ZenonT(60), <1>1, <1>2 DEF Any, UserBytes
<1>4. ASSUME NEW i \in 1..n PROVE b2[Wrapped(s + i - 1)] = b[Wrapped(s + i - 1)]
  <2>1. Wrapped(s + i - 1) \in Offsets
    BY SMTT(60), PipeAssumption DEF Wrapped, Offsets
  <2>2. \A j \in 1..d : Wrapped(s + n + j - 1) # Wrapped(s + i - 1)
    BY SMTT(60), PipeAssumption DEF Wrapped, Offsets
  <2> QED BY ZenonT(60), <1>2, <2>1, <2>2 DEF Behind
<1>5. ASSUME NEW j \in 1..d PROVE b2[Wrapped(s + n + j - 1)] = bytes[j]
  <2> DEFINE k == Wrapped(s + n + j - 1)
  <2>1. k \in Offsets
    BY SMTT(60), PipeAssumption DEF Wrapped, Offsets
  <2>2. At(plan, j) = k
    BY ZenonT(60) DEF Behind
  <2>3. \A i \in 1..d : Wrapped(s + n + i - 1) = k => i = j
    BY SMTT(60), PipeAssumption DEF Wrapped, Offsets
  <2> HIDE DEF k
  <2>4. place(k) = j
    BY ZenonT(60), <1>1, <2>2, <2>3 DEF Behind
  <2>5. b2[k] = bytes[j]
    BY ZenonT(60), <1>2, <2>1, <2>2, <2>4
  <2> QED BY ZenonT(60), <2>5 DEF k
<1> QED BY ZenonT(60), <1>3, <1>4, <1>5 DEF Stored, b2
-----------------------------------------------------------------------------
\* The calls a process can stand in.
Made ==
       [op : {"read"}, fd : Handles, n : 1..MaxCount]
  \cup [op : {"write"}, fd : Handles, bytes : UNION {[1..n -> Byte] : n \in 1..MaxCount}]
  \cup [op : {"poll"}, fd : Handles, asks : BOOLEAN]

CallMade(p) == pc[p] \in {"call", "repoll", "block", "blocked"} => call[p] \in Made

\* Only bytes that some user stored lie between the start and the tail.
Filled(a) == \A i \in 1..length[a] : buffer[a][Wrapped(start[a] + i - 1)] \in Byte

RingTypes ==
  /\ start \in [Pipes -> Offsets]
  /\ length \in [Pipes -> 0..PIPE_BUFFER_BYTES]
  /\ buffer \in [Pipes -> [Offsets -> Any]]
  /\ moved \in Seq(Byte)

RInv ==
  /\ RingTypes
  /\ \A p \in Proc : CallMade(p)
  /\ \A a \in Pipes : Filled(a)

\* A live pipe's contents are the ring of its words.
LEMMA ContentIsRing ==
  ASSUME NEW a \in live
  PROVE  Content(a) = Ring(start[a], length[a], buffer[a])
BY ZenonT(60) DEF Content, Ring

\* A pipe none of whose words changes keeps its contents.
LEMMA SameContent ==
  ASSUME NEW a \in Pipes, a \in live' <=> a \in live,
         start'[a] = start[a], length'[a] = length[a], buffer'[a] = buffer[a]
  PROVE  Content(a)' = Content(a)
BY ZenonT(60) DEF Content, Wrapped

\* A copy of no byte moves nothing.
LEMMA NoBytes ==
  ASSUME NEW f \in [1..0 -> Any]
  PROVE  f = << >>
<1>1. f \in Seq(Any) /\ Len(f) = 0
  BY ZenonT(60), FunctionIsSeq
<1> QED BY ZenonT(60), <1>1, EmptySeq

\* What a read finds to do: nothing, or a front of the ring.
LEMMA ReadStep ==
  ASSUME IInv, RInv, NEW p \in Proc, PipeRead(p)
  PROVE  \/ moved' = << >> /\ UNCHANGED <<live, ring>>
         \/ \E a \in live : \E d \in 1..length[a] :
              /\ moved' = Ring(start[a], d, buffer[a])
              /\ Consume(a, d)
              /\ UNCHANGED <<live, buffer>>
<1> DEFINE c == call[p]
           a == c.fd.pipe
           plan == PipeReadPlan(a, c.n)
<1>1. c \in Made /\ c.op = "read"
  BY ZenonT(60) DEF RInv, CallMade, PipeRead
<1>2. c.n \in 1..MaxCount /\ c.fd \in Handles
  BY ZenonT(60), <1>1 DEF Made
<1>3. a \in Pipes
  BY ZenonT(60), <1>2 DEF Handles
<1>4. start[a] \in Offsets /\ length[a] \in 0..PIPE_BUFFER_BYTES /\ buffer[a] \in [Offsets -> Any]
  BY ZenonT(60), <1>3 DEF RInv, RingTypes
<1> DEFINE amount == Min2(c.n, length[a])
<1>5. amount \in 0..length[a] /\ amount \in 0..PIPE_BUFFER_BYTES
  BY SMTT(60), <1>2, <1>4, PipeAssumption DEF Min2
<1>6. plan = Plan(start[a], amount)
  BY ZenonT(60) DEF PipeReadPlan
<1>7. CASE PipeTake(c.fd) /\ MustWait(c)
  BY ZenonT(60), <1>7 DEF PipeRead, PipePutWaiting, pool
<1>8. CASE ~(PipeTake(c.fd) /\ MustWait(c))
  <2>1. PICK d \in (IF PipeTake(c.fd) /\ length[a] > 0 THEN Copied(plan) ELSE {0}) :
          /\ moved' = [i \in 1..d |-> buffer[a][At(plan, i)]]
          /\ IF d = 0 THEN UNCHANGED <<start, length>> ELSE Consume(a, d)
          /\ UNCHANGED <<pool, buffer>>
    BY ZenonT(60), <1>8 DEF PipeRead
  <2>2. CASE d = 0
    <3>1. moved' \in [1..0 -> Any]
      BY SMTT(60), <2>1, <2>2
    <3> QED BY ZenonT(60), <2>1, <2>2, <3>1, NoBytes DEF pool, ring
  <2>3. CASE d # 0
    <3>1. PipeTake(c.fd) /\ d \in Copied(plan)
      BY ZenonT(60), <2>1, <2>3
    <3> HIDE DEF amount, plan
    <3>2. d \in 0..amount /\ \A i \in 1..d : At(plan, i) = Wrapped(start[a] + i - 1)
      BY SMTT(30), <1>4, <1>5, <1>6, <3>1, PlanWalks
    <3>3. d \in 1..length[a] /\ a \in live
      BY SMTT(30), <1>4, <1>5, <2>3, <3>1, <3>2 DEF PipeTake
    <3>4. moved' = Ring(start[a], d, buffer[a])
      BY ZenonT(60), <2>1, <3>2 DEF Ring
    <3> QED BY ZenonT(60), <2>1, <2>3, <3>3, <3>4 DEF pool
  <2> QED BY SMTT(30), <2>2, <2>3
<1> QED BY ZenonT(60), <1>7, <1>8

\* The words of a pipe after d user bytes were stored behind its tail.
AppendsTo(a, d) ==
  /\ moved' \in [1..d -> Byte]
  /\ buffer'[a] \in [Offsets -> Any]
  /\ Stored(start[a], length[a], buffer[a], buffer'[a], d, moved')
  /\ buffer' = [buffer EXCEPT ![a] = buffer'[a]]
  /\ length' = [length EXCEPT ![a] = @ + d]
  /\ UNCHANGED <<live, start>>

\* What a write finds to do: nothing, or to store bytes of the user behind the tail.
LEMMA WriteStep ==
  ASSUME IInv, RInv, NEW p \in Proc, PipeWrite(p)
  PROVE  \/ moved' = << >> /\ UNCHANGED <<live, ring>>
         \/ \E a \in live : \E d \in 1..PIPE_BUFFER_BYTES - length[a] : AppendsTo(a, d)
<1> DEFINE c == call[p]
           a == c.fd.pipe
           amount == PipeWriteAmount(a, Len(c.bytes))
           plan == PipeWritePlan(a, amount)
<1>1. c \in Made /\ c.op = "write"
  BY ZenonT(60) DEF RInv, CallMade, PipeWrite
<1>2. c.fd \in Handles /\ \E k \in 1..MaxCount : c.bytes \in [1..k -> Byte]
  BY ZenonT(60), <1>1 DEF Made
<1>3. PICK k \in 1..MaxCount : c.bytes \in [1..k -> Byte]
  BY ZenonT(60), <1>2
<1>4. k \in Nat /\ Len(c.bytes) = k
  BY SMTT(60), <1>3, FunctionIsSeq, PipeAssumption
<1>5. a \in Pipes
  BY ZenonT(60), <1>2 DEF Handles
<1>6. start[a] \in Offsets /\ length[a] \in 0..PIPE_BUFFER_BYTES /\ buffer[a] \in [Offsets -> Any]
  BY ZenonT(60), <1>5 DEF RInv, RingTypes
<1>7. amount \in 0..PIPE_BUFFER_BYTES - length[a] /\ amount <= k /\ amount \in 0..PIPE_BUFFER_BYTES
  BY SMTT(60), <1>4, <1>6, PipeAssumption DEF PipeWriteAmount, PipeRoom
<1> DEFINE from == Wrapped(start[a] + length[a])
<1>8. plan = Plan(from, amount) /\ from \in Offsets
  <2>1. plan = Plan(from, amount)
    BY ZenonT(60) DEF PipeWritePlan
  <2>2. start[a] + length[a] \in 0..2 * PIPE_BUFFER_BYTES - 1
    BY SMTT(60), <1>6, PipeAssumption DEF Offsets
  <2> QED BY ZenonT(60), <2>1, <2>2, WrappedInside
<1>9. CASE PipeTake(c.fd) /\ MustWait(c)
  BY ZenonT(60), <1>9 DEF PipeWrite, PipePutWaiting, pool
<1>10. CASE ~(PipeTake(c.fd) /\ MustWait(c))
  <2>1. PICK d \in (IF PipeTake(c.fd) /\ "read" \in open[a] THEN Copied(plan) ELSE {0}) :
          /\ moved' = SubSeq(c.bytes, 1, d)
          /\ IF d = 0 THEN UNCHANGED <<length, buffer>>
             ELSE /\ length' = [length EXCEPT ![a] = @ + d]
                  /\ buffer' = [buffer EXCEPT ![a] =
                       [j \in DOMAIN @ |->
                          IF \E i \in 1..d : At(plan, i) = j
                          THEN c.bytes[CHOOSE i \in 1..d : At(plan, i) = j]
                          ELSE @[j]]]
          /\ UNCHANGED <<pool, start>>
    BY ZenonT(60), <1>10 DEF PipeWrite
  <2> HIDE DEF amount, plan, from
  <2>2. CASE d = 0
    <3>1. moved' = << >>
      BY SMTT(60), <2>1, <2>2, SubSeqEmpty
    <3> QED BY ZenonT(60), <2>1, <2>2, <3>1 DEF pool, ring
  <2>3. CASE d # 0
    <3>1. PipeTake(c.fd) /\ d \in Copied(plan)
      BY ZenonT(60), <2>1, <2>3
    <3>2. d \in 0..amount /\ \A i \in 1..d : At(plan, i) = Wrapped(from + i - 1)
      BY ZenonT(60), <1>7, <1>8, <3>1, PlanWalks
    <3>3. d \in 1..PIPE_BUFFER_BYTES - length[a] /\ a \in live /\ d \in 1..k
      BY SMTT(60), <1>4, <1>6, <1>7, <2>3, <3>1, <3>2, PipeAssumption DEF PipeTake
    <3>4. ASSUME NEW i \in 1..d PROVE At(plan, i) = Wrapped(start[a] + length[a] + i - 1)
      <4>1. At(plan, i) = Wrapped(from + i - 1)
        BY ZenonT(60), <3>2
      <4>2. Wrapped(from + i - 1) = Wrapped(start[a] + length[a] + i - 1)
        <5> DEFINE s == start[a]
                   n == length[a]
        <5>1. s \in Offsets /\ n \in 0..PIPE_BUFFER_BYTES /\ i \in 1..PIPE_BUFFER_BYTES - n
          BY SMTT(60), <1>6, <3>3, PipeAssumption
        <5>2. from = Wrapped(s + n)
          BY ZenonT(60) DEF from
        <5> HIDE DEF s, n
        <5>3. Wrapped(from + i - 1) = Wrapped(s + n + i - 1)
          BY SMTT(60), <5>1, <5>2, PipeAssumption DEF Wrapped, Offsets
        <5> QED BY ZenonT(60), <5>3 DEF s, n
      <4> QED BY ZenonT(60), <4>1, <4>2
    <3>5. \A i \in 1..d : c.bytes[i] \in Byte
      BY SMTT(60), <1>3, <1>4, <3>3
    <3>6. moved' \in [1..d -> Byte] /\ \A i \in 1..d : moved'[i] = c.bytes[i]
      <4>1. /\ moved' \in Seq(Byte) /\ Len(moved') = d
            /\ \A i \in 1..d : moved'[i] = c.bytes[1 + i - 1]
        <5> DEFINE w == c.bytes
        <5>1. /\ moved' = SubSeq(w, 1, d) /\ \A i \in 1..d : w[i] \in Byte
              /\ d \in Int /\ 1 \in Int /\ 1 <= d /\ d - 1 + 1 = d
          BY SMTT(60), <2>1, <3>3, <3>5
        <5> HIDE DEF w
        <5>2. /\ SubSeq(w, 1, d) \in Seq(Byte)
              /\ Len(SubSeq(w, 1, d)) = IF 1 <= d THEN d - 1 + 1 ELSE 0
              /\ \A i \in 1..d - 1 + 1 : SubSeq(w, 1, d)[i] = w[1 + i - 1]
          BY SMTT(60), <5>1, SubSeqProperties
        <5> QED BY ZenonT(60), <5>1, <5>2 DEF w
      <4>2. \A i \in 1..d : 1 + i - 1 = i
        BY SMTT(60), <3>3
      <4> QED BY ZenonT(60), <4>1, <4>2, LenProperties
    <3>7. buffer'[a] = [j \in Offsets |->
                          IF \E i \in 1..d : At(plan, i) = j
                          THEN c.bytes[CHOOSE i \in 1..d : At(plan, i) = j]
                          ELSE buffer[a][j]]
      BY ZenonT(60), <1>5, <1>6, <2>1, <2>3 DEF RInv, RingTypes
    <3>8. buffer'[a] \in [Offsets -> Any]
          /\ Stored(start[a], length[a], buffer[a], buffer'[a], d, c.bytes)
      <4> DEFINE s == start[a]
                 n == length[a]
                 b == buffer[a]
                 b2 == buffer'[a]
                 w == c.bytes
      <4>1. /\ s \in Offsets /\ n \in 0..PIPE_BUFFER_BYTES /\ b \in [Offsets -> Any]
            /\ d \in 1..PIPE_BUFFER_BYTES - n
            /\ UserBytes(w, d) /\ Behind(plan, d, s, n)
        BY ZenonT(60), <1>6, <3>3, <3>4, <3>5 DEF UserBytes, Behind
      <4>2. b2 = Written(plan, d, w, b)
        BY ZenonT(60), <3>7 DEF Written
      <4> HIDE DEF s, n, b, b2, w
      <4>3. b2 \in [Offsets -> Any] /\ Stored(s, n, b, b2, d, w)
        BY <4>1, <4>2, CopyStores, Zenon
      <4> QED BY SMTT(30), <4>3 DEF s, n, b, b2, w
    <3>9. Stored(start[a], length[a], buffer[a], buffer'[a], d, moved')
      BY ZenonT(60), <3>6, <3>8 DEF Stored
    <3>10. buffer' = [buffer EXCEPT ![a] = buffer'[a]]
      BY ZenonT(30), <1>5, <2>1, <2>3 DEF RInv, RingTypes
    <3> HIDE DEF a
    <3> QED BY ZenonT(30), <2>1, <2>3, <3>3, <3>6, <3>8, <3>9, <3>10 DEF pool, AppendsTo
  <2> QED BY ZenonT(60), <2>2, <2>3
<1> QED BY ZenonT(30), <1>9, <1>10

\* Every other step moves no byte, and changes a ring only to empty it: pipe2
\* zeroes a record nobody has, and the last close frees it.
LEMMA OtherSteps ==
  ASSUME IInv, RInv, Next
  PROVE  \/ \E p \in Proc : PipeRead(p) \/ PipeWrite(p)
         \/ moved' = << >> /\ UNCHANGED <<live, ring>>
         \/ /\ moved' = << >>
            /\ \E a \in Pipes \ live :
                 /\ start' = [start EXCEPT ![a] = 0]
                 /\ length' = [length EXCEPT ![a] = 0]
                 /\ buffer' = [buffer EXCEPT ![a] = [i \in DOMAIN @ |-> Zero]]
                 /\ live' = live \cup {a} \/ UNCHANGED live
         \/ /\ moved' = << >> /\ UNCHANGED ring
            /\ \E a \in Pipes : live' = live \ {a}
<1>1. PICK p \in Proc :
        \/ Enter(p) \/ PipeRead(p) \/ PipeWrite(p) \/ PollLook(p) \/ PollWait(p)
        \/ PipeBlock(p) \/ Signal(p) \/ PipeWake(p) \/ Pipe2(p)
        \/ (\E c \in Proc : Clone(p, c)) \/ Close(p) \/ PipeEndClose(p) \/ Exit(p)
  BY ZenonT(30) DEF Next
<1>2. CASE Enter(p) \/ PollLook(p) \/ PipeBlock(p) \/ Signal(p) \/ PipeWake(p) \/ Close(p) \/ Exit(p)
  BY ZenonT(60), <1>2 DEF Enter, PollLook, PipeBlock, Signal, PipeWake, Close, Exit, pool
<1>3. CASE PollWait(p)
  BY ZenonT(60), <1>3 DEF PollWait, PipePutWaiting, pool
<1>4. CASE \E c \in Proc : Clone(p, c)
  BY ZenonT(60), <1>4 DEF Clone, pool
<1>5. CASE Pipe2(p)
  BY ZenonT(60), <1>5 DEF Pipe2
<1>6. CASE PipeEndClose(p)
  <2>1. closing[p].pipe \in Pipes
    BY ZenonT(60), <1>6 DEF IInv, Standing, PipeEndClose, Handles
  <2> QED BY SMTT(30), <1>6, <2>1 DEF PipeEndClose
<1> QED BY ZenonT(60), <1>1, <1>2, <1>3, <1>4, <1>5, <1>6
-----------------------------------------------------------------------------
\* A process enters its calls only through Enter.
LEMMA MadeStep ==
  ASSUME IInv, RInv, Next, NEW q \in Proc
  PROVE  CallMade(q)'
<1> DEFINE InCall == {"call", "repoll", "block", "blocked"}
<1>1. PICK p \in Proc :
        \/ Enter(p) \/ PipeRead(p) \/ PipeWrite(p) \/ PollLook(p) \/ PollWait(p)
        \/ PipeBlock(p) \/ Signal(p) \/ PipeWake(p) \/ Pipe2(p)
        \/ (\E c \in Proc : Clone(p, c)) \/ Close(p) \/ PipeEndClose(p) \/ Exit(p)
  BY ZenonT(60) DEF Next
<1>2. CallMade(q)
  BY ZenonT(60) DEF RInv
<1>3. CASE Enter(p)
  <2>1. ASSUME NEW h \in fds[p], NEW n \in 1..MaxCount,
               call' = [call EXCEPT ![p] = [op |-> "read", fd |-> h, n |-> n]]
        PROVE  CallMade(q)'
    <3>1. [op |-> "read", fd |-> h, n |-> n] \in Made
      BY ZenonT(60) DEF Made, IInv, Types
    <3> QED BY ZenonT(60), <1>2, <1>3, <2>1, <3>1 DEF IInv, Types, CallMade, Enter
  <2>2. ASSUME NEW h \in fds[p], NEW n \in 1..MaxCount, NEW bytes \in [1..n -> Byte],
               call' = [call EXCEPT ![p] = [op |-> "write", fd |-> h, bytes |-> bytes]]
        PROVE  CallMade(q)'
    <3>1. [op |-> "write", fd |-> h, bytes |-> bytes] \in Made
      BY ZenonT(30) DEF Made, IInv, Types
    <3> QED BY ZenonT(60), <1>2, <1>3, <2>2, <3>1 DEF IInv, Types, CallMade, Enter
  <2>3. ASSUME NEW h \in fds[p], NEW asks \in BOOLEAN,
               call' = [call EXCEPT ![p] = [op |-> "poll", fd |-> h, asks |-> asks]]
        PROVE  CallMade(q)'
    <3>1. [op |-> "poll", fd |-> h, asks |-> asks] \in Made
      BY ZenonT(60) DEF Made, IInv, Types
    <3> QED BY ZenonT(60), <1>2, <1>3, <2>3, <3>1 DEF IInv, Types, CallMade, Enter
  <2> QED BY ZenonT(60), <1>3, <2>1, <2>2, <2>3 DEF Enter
<1>4. CASE ~Enter(p)
  <2>1. pc'[q] \in InCall => pc[q] \in InCall /\ call'[q] = call[q]
    <3>1. CASE PipeRead(p)
      BY ZenonT(150), <3>1 DEF IInv, Types, PipeRead, PipePutWaiting, PipePutChanged, Return
    <3>2. CASE PipeWrite(p)
      <4>1. \E a : PipePutWaiting(p, a) \/ Return(p) \/ PipePutChanged(p, a)
        BY ZenonT(60), <3>2 DEF PipeWrite
      <4>2. pc[p] = "call"
        BY ZenonT(30), <3>2 DEF PipeWrite
      <4> QED BY ZenonT(150), <4>1, <4>2 DEF IInv, Types, PipePutWaiting, PipePutChanged, Return
    <3>3. CASE PollLook(p) \/ PollWait(p)
      BY ZenonT(60), <3>3 DEF IInv, Types, PollLook, PollWait, PipePutWaiting, Return
    <3>4. CASE PipeBlock(p) \/ Signal(p) \/ PipeWake(p)
      BY ZenonT(60), <3>4 DEF IInv, Types, PipeBlock, Signal, PipeWake, Return
    <3>5. CASE Pipe2(p) \/ (\E c \in Proc : Clone(p, c)) \/ Close(p) \/ Exit(p)
      BY ZenonT(30), <3>5 DEF IInv, Types, Pipe2, Clone, Close, Exit
    <3>6. CASE PipeEndClose(p)
      BY ZenonT(150), <3>6 DEF IInv, Types, PipeEndClose, PipePutChanged, Return
    <3> QED BY ZenonT(60), <1>1, <1>4, <3>1, <3>2, <3>3, <3>4, <3>5, <3>6
  <2> QED BY ZenonT(30), <1>2, <2>1 DEF CallMade
<1> QED BY ZenonT(60), <1>3, <1>4

\* A read keeps the ring, and takes a front of the stream.
LEMMA TakeStep ==
  ASSUME IInv, RInv, NEW a \in live, NEW d \in 1..length[a],
         moved' = Ring(start[a], d, buffer[a]), Consume(a, d), UNCHANGED <<live, buffer>>
  PROVE  RingTypes' /\ (\A b \in Pipes : Filled(b)') /\ Streams!Take1(a)
<1> DEFINE s == start[a]
           n == length[a]
           b == buffer[a]
           s2 == IF n - d = 0 THEN 0 ELSE Wrapped(s + d)
<1>1. /\ a \in Pipes /\ s \in Offsets /\ n \in 0..PIPE_BUFFER_BYTES /\ b \in [Offsets -> Any]
      /\ \A i \in 1..n : b[Wrapped(s + i - 1)] \in Byte
  BY ZenonT(60) DEF IInv, Types, RInv, RingTypes, Filled
<1>2. s2 \in Offsets /\ n - d \in 0..PIPE_BUFFER_BYTES /\ d \in 1..n
  <2> HIDE DEF s, n
  <2>1. d \in 1..n
    BY ZenonT(60) DEF n
  <2> QED BY SMTT(30), <1>1, <2>1, PipeAssumption DEF Wrapped, Offsets
<1>3. length' = [length EXCEPT ![a] = n - d] /\ start' = [start EXCEPT ![a] = s2]
  BY ZenonT(60) DEF Consume
<1>4. start'[a] = s2 /\ length'[a] = n - d /\ buffer'[a] = b
  BY ZenonT(60), <1>1, <1>3 DEF RInv, RingTypes
<1>5. \A c \in Pipes \ {a} : start'[c] = start[c] /\ length'[c] = length[c] /\ buffer'[c] = buffer[c]
  BY ZenonT(60), <1>3 DEF RInv, RingTypes
<1>6. moved' \in [1..d -> Byte] /\ moved' \in Seq(Byte) /\ Len(moved') = d
  <2>1. moved' = [i \in 1..d |-> b[Wrapped(s + i - 1)]]
    BY ZenonT(60) DEF Ring
  <2> HIDE DEF s, n, b
  <2>2. moved' \in [1..d -> Byte]
    BY SMTT(60), <1>1, <1>2, <2>1
  <2>3. d \in Nat
    BY SMTT(60), <1>1, <1>2
  <2> QED BY ZenonT(60), <2>2, <2>3, FunctionIsSeq
<1> HIDE DEF s, n, b
<1>7. s2 = IF n - d = 0 THEN 0 ELSE Wrapped(s + d)
  BY ZenonT(60)
<1> HIDE DEF s2
<1>8. RingTypes'
  BY ZenonT(60), <1>1, <1>2, <1>3, <1>6 DEF RInv, RingTypes
<1>9. ASSUME NEW c \in Pipes PROVE Filled(c)'
  <2>1. CASE c = a
    <3>1. ASSUME NEW i \in 1..n - d PROVE b[Wrapped(s2 + i - 1)] \in Byte
      <4>1. d + i \in 1..n /\ Wrapped(s2 + i - 1) = Wrapped(s + (d + i) - 1)
        BY SMTT(60), <1>1, <1>2, <1>7, WrappedOn
      <4> QED BY ZenonT(60), <1>1, <4>1
    <3> QED BY ZenonT(60), <1>4, <2>1, <3>1 DEF Filled, Wrapped
  <2>2. CASE c # a
    BY ZenonT(60), <1>5, <2>2 DEF RInv, Filled, Wrapped
  <2> QED BY ZenonT(60), <2>1, <2>2
<1>10. Content(a) = moved' \o Content(a)'
  <2>1. Content(a) = Ring(s, n, b) /\ moved' = Ring(s, d, b)
    BY ZenonT(60), ContentIsRing DEF s, n, b
  <2>2. Content(a)' = Ring(s2, n - d, b)
    BY ZenonT(60), <1>4 DEF Content, Ring, Wrapped
  <2>3. Ring(s, n, b) = Ring(s, d, b) \o Ring(s2, n - d, b)
    BY SMTT(60), <1>1, <1>2, <1>7, TakeFront
  <2> QED BY ZenonT(60), <2>1, <2>2, <2>3
<1>11. \A c \in Pipes \ {a} : Content(c)' = Content(c)
  BY ZenonT(60), <1>5, SameContent
<1>12. moved' # << >>
  BY SMTT(60), <1>2, <1>6, EmptySeq
<1>13. Streams!Take1(a)
  BY ZenonT(60), <1>1, <1>10, <1>11, <1>12 DEF Streams!Take1
<1> QED BY ZenonT(60), <1>8, <1>9, <1>13

\* A write keeps the ring, and appends to the stream.
LEMMA AppendStep ==
  ASSUME IInv, RInv, NEW a \in live, NEW d \in 1..PIPE_BUFFER_BYTES - length[a],
         AppendsTo(a, d)
  PROVE  RingTypes' /\ (\A b \in Pipes : Filled(b)') /\ Streams!Append1(a)
<1> DEFINE s == start[a]
           n == length[a]
           b == buffer[a]
           b2 == buffer'[a]
<1>1. /\ a \in Pipes /\ s \in Offsets /\ n \in 0..PIPE_BUFFER_BYTES
      /\ b \in [Offsets -> Any] /\ b2 \in [Offsets -> Any]
      /\ \A i \in 1..n : b[Wrapped(s + i - 1)] \in Byte
  BY ZenonT(60) DEF IInv, Types, RInv, RingTypes, Filled, AppendsTo
<1>2. /\ d \in 1..PIPE_BUFFER_BYTES - n /\ moved' \in [1..d -> Byte]
      /\ Stored(s, n, b, b2, d, moved')
  BY ZenonT(60) DEF AppendsTo
<1>3. start'[a] = s /\ length'[a] = n + d
  BY ZenonT(60), <1>1 DEF RInv, RingTypes, AppendsTo
<1>4. \A c \in Pipes \ {a} : start'[c] = start[c] /\ length'[c] = length[c] /\ buffer'[c] = buffer[c]
  BY ZenonT(60) DEF RInv, RingTypes, AppendsTo
<1>5. d \in Nat /\ n + d \in 0..PIPE_BUFFER_BYTES
  BY SMTT(60), <1>1, PipeAssumption
<1>6. moved' \in Seq(Byte) /\ Len(moved') = d /\ moved' \in [1..d -> Any]
  BY ZenonT(60), <1>2, <1>5, FunctionIsSeq DEF Any
<1>7. RingTypes'
  <2>1. length' = [length EXCEPT ![a] = n + d]
    BY ZenonT(60) DEF AppendsTo
  <2> HIDE DEF n
  <2> QED BY ZenonT(150), <1>1, <1>5, <1>6, <2>1 DEF RInv, RingTypes, AppendsTo
<1> HIDE DEF s, n, b, b2
<1>8. ASSUME NEW c \in Pipes PROVE Filled(c)'
  <2>1. CASE c = a
    <3>1. ASSUME NEW i \in 1..n + d PROVE b2[Wrapped(s + i - 1)] \in Byte
      <4>1. CASE i <= n
        <5>1. i \in 1..n
          BY SMTT(60), <1>1, <4>1
        <5> QED BY ZenonT(60), <1>1, <1>2, <5>1 DEF Stored
      <4>2. CASE i > n
        <5>1. i - n \in 1..d /\ s + n + (i - n) - 1 = s + i - 1
          BY SMTT(60), <1>1, <1>5, <4>2 DEF Offsets
        <5>2. b2[Wrapped(s + n + (i - n) - 1)] = moved'[i - n] /\ moved'[i - n] \in Byte
          BY ZenonT(60), <1>2, <5>1 DEF Stored
        <5> QED BY ZenonT(60), <5>1, <5>2
      <4> QED BY SMTT(60), <1>1, <1>5, <4>1, <4>2
    <3> QED BY ZenonT(60), <1>3, <2>1, <3>1 DEF Filled, Wrapped, b2
  <2>2. CASE c # a
    BY ZenonT(60), <1>4, <2>2 DEF RInv, Filled, Wrapped
  <2> QED BY ZenonT(60), <2>1, <2>2
<1>9. Content(a)' = Content(a) \o moved' /\ Len(Content(a)') <= PIPE_BUFFER_BYTES
  <2>1. Content(a) = Ring(s, n, b)
    BY ZenonT(60), ContentIsRing DEF s, n, b
  <2>2. Content(a)' = Ring(s, n + d, b2)
    BY ZenonT(60), <1>3 DEF Content, Ring, Wrapped, b2, AppendsTo
  <2> DEFINE w == moved'
  <2>3. Appends(s, n, b, b2, d, w)
    BY ZenonT(60), <1>1, <1>2, <1>6 DEF Appends
  <2> HIDE DEF w
  <2>4. Ring(s, n + d, b2) = Ring(s, n, b) \o w
    BY SMTT(60), <2>3, Appended
  <2>5. Len(Ring(s, n + d, b2)) = n + d
    BY ZenonT(60), <1>1, <1>5, RingIsSeq
  <2>6. Content(a)' = Content(a) \o moved'
    BY <2>1, <2>2, <2>4, Zenon DEF w
  <2>7. Len(Content(a)') <= PIPE_BUFFER_BYTES
    BY SMTT(30), <1>1, <1>5, <2>2, <2>5
  <2> QED BY ZenonT(60), <2>6, <2>7, Zenon
<1>10. \A c \in Pipes \ {a} : Content(c)' = Content(c)
  BY ZenonT(60), <1>4, SameContent DEF AppendsTo
<1>11. moved' # << >>
  BY SMTT(60), <1>2, <1>6, EmptySeq
<1>12. Streams!Append1(a)
  BY ZenonT(60), <1>1, <1>9, <1>10, <1>11 DEF Streams!Append1
<1> QED BY ZenonT(60), <1>7, <1>8, <1>12

\* Every step keeps the rings and is a step of the byte streams.
LEMMA StreamStep ==
  ASSUME IInv, RInv, Next
  PROVE  RInv' /\ Streams!StreamNext
<1>1. << >> \in Seq(Byte)
  BY ZenonT(60), EmptySeq
<1>2. SUFFICES RingTypes' /\ (\A a \in Pipes : Filled(a)') /\ Streams!StreamNext
  BY ZenonT(60), MadeStep DEF RInv
<1>3. live \subseteq Pipes
  BY ZenonT(60) DEF IInv, Types
<1>4. CASE moved' = << >> /\ UNCHANGED <<live, ring>>
  <2>1. \A a \in Pipes : Content(a)' = Content(a)
    BY ZenonT(60), <1>4, SameContent DEF ring
  <2>2. Streams!Quiet
    BY ZenonT(60), <1>4, <2>1 DEF Streams!Quiet
  <2> QED BY SMTT(30), <1>1, <1>4, <2>2 DEF RInv, RingTypes, Filled, Wrapped, ring,
             Streams!StreamNext
<1>5. CASE \E p \in Proc : PipeRead(p) \/ PipeWrite(p)
  <2>1. CASE \E p \in Proc : PipeRead(p)
    BY ZenonT(60), <1>3, <1>4, <2>1, ReadStep, TakeStep DEF Streams!StreamNext
  <2>2. CASE \E p \in Proc : PipeWrite(p)
    BY ZenonT(60), <1>3, <1>4, <2>2, WriteStep, AppendStep DEF Streams!StreamNext
  <2> QED BY ZenonT(30), <1>5, <2>1, <2>2
<1>6. ASSUME moved' = << >>, NEW a \in Pipes \ live,
             start' = [start EXCEPT ![a] = 0], length' = [length EXCEPT ![a] = 0],
             buffer' = [buffer EXCEPT ![a] = [i \in DOMAIN @ |-> Zero]],
             live' = live \cup {a} \/ UNCHANGED live
      PROVE  RingTypes' /\ (\A c \in Pipes : Filled(c)') /\ Streams!StreamNext
  <2>1. RingTypes'
    BY SMTT(60), <1>1, <1>6, PipeAssumption DEF RInv, RingTypes, Offsets, Any
  <2>2. /\ length'[a] = 0
        /\ \A c \in Pipes \ {a} : /\ start'[c] = start[c] /\ length'[c] = length[c]
                                /\ buffer'[c] = buffer[c] /\ (c \in live' <=> c \in live)
    BY ZenonT(60), <1>6 DEF RInv, RingTypes
  <2>3. \A c \in Pipes : Filled(c)'
    BY SMTT(60), <2>2 DEF RInv, Filled, Wrapped
  <2>4. Content(a) = << >> /\ Content(a)' = << >>
    <3>1. [i \in 1..0 |-> buffer'[a][Wrapped(start'[a] + i - 1)]] = << >>
      BY SMTT(60), NoBytes
    <3> QED BY ZenonT(60), <1>6, <2>2, <3>1 DEF Content, Wrapped
  <2>5. \A c \in Pipes : Content(c)' = Content(c)
    BY ZenonT(60), <2>2, <2>4, SameContent
  <2>6. Streams!Quiet
    BY ZenonT(60), <1>6, <2>5 DEF Streams!Quiet
  <2> QED BY ZenonT(60), <2>1, <2>3, <2>6 DEF Streams!StreamNext
<1>7. ASSUME moved' = << >>, UNCHANGED ring, NEW a \in Pipes, live' = live \ {a}
      PROVE  RingTypes' /\ (\A c \in Pipes : Filled(c)') /\ Streams!StreamNext
  <2>1. RingTypes' /\ \A c \in Pipes : Filled(c)'
    BY ZenonT(60), <1>1, <1>7 DEF RInv, RingTypes, Filled, Wrapped, ring
  <2>2. Content(a)' = << >>
    BY ZenonT(60), <1>7 DEF Content
  <2>3. \A c \in Pipes \ {a} : Content(c)' = Content(c)
    BY ZenonT(60), <1>7, SameContent DEF ring
  <2>4. Streams!Discard(a)
    BY ZenonT(60), <1>7, <2>2, <2>3 DEF Streams!Discard
  <2> QED BY ZenonT(60), <2>1, <2>4 DEF Streams!StreamNext
<1> QED BY ZenonT(60), <1>4, <1>5, <1>6, <1>7, OtherSteps

\* At the start every stream is empty.
LEMMA InitRing == Init => RInv /\ Streams!StreamInit
<1> SUFFICES ASSUME Init PROVE RInv /\ Streams!StreamInit
  BY ZenonT(60)
<1>1. RingTypes
  BY SMTT(60), PipeAssumption, EmptySeq DEF Init, RingTypes, Offsets, Any
<1>2. \A p \in Proc : CallMade(p)
  BY ZenonT(60) DEF Init, CallMade
<1>3. \A a \in Pipes : Filled(a)
  BY SMTT(60) DEF Init, Filled
<1>4. \A a \in Pipes : Content(a) = << >>
  BY ZenonT(60) DEF Init, Content
<1>5. Streams!StreamInit
  BY ZenonT(60), <1>4 DEF Init, Streams!StreamInit
<1> QED BY ZenonT(60), <1>1, <1>2, <1>3, <1>5 DEF RInv

\* Every step, or none, keeps the rings and is a step of the streams or none.
LEMMA NextRing ==
  IInv /\ RInv /\ [Next]_vars => RInv' /\ [Streams!StreamNext]_<<[a \in Pipes |-> Content(a)], moved>>
<1> SUFFICES ASSUME IInv, RInv, [Next]_vars
             PROVE  RInv' /\ [Streams!StreamNext]_<<[a \in Pipes |-> Content(a)], moved>>
  BY ZenonT(60)
<1>1. CASE Next
  BY ZenonT(60), <1>1, StreamStep
<1>2. CASE UNCHANGED vars
  <2>1. RInv'
    BY ZenonT(60), <1>2 DEF vars, RInv, RingTypes, CallMade, Filled, Wrapped
  <2>2. \A a \in Pipes : Content(a)' = Content(a)
    BY ZenonT(60), <1>2, SameContent DEF vars
  <2> QED BY ZenonT(60), <1>2, <2>1, <2>2 DEF vars
<1> QED BY ZenonT(60), <1>1, <1>2

(***************************************************************************)
(* The ring's words stay inside the buffer for every capacity, and a read  *)
(* delivers only bytes that a write stored (pipe_read_plan, pipe_consume). *)
(***************************************************************************)
THEOREM TypeCorrect == Spec => []TypeOK
<1>1. IInv /\ RInv => TypeOK
  BY ZenonT(60) DEF IInv, Types, RInv, RingTypes, TypeOK, Offsets, Any
<1>2. Spec => [](IInv /\ RInv)
  BY InitInv, NextInv, InitRing, NextRing, PTL DEF Spec
<1> QED BY <1>1, <1>2, PTL

(***************************************************************************)
(* For every capacity the ring is a bounded queue: what reads deliver is   *)
(* what writes accepted, in order, across wrap-around and faulting copies. *)
(***************************************************************************)
THEOREM StreamRefinement == Spec => StreamSpec
BY InitInv, NextInv, InitRing, NextRing, PTL DEF Spec, StreamSpec, Streams!StreamSpec
=============================================================================
