------------------------------- MODULE Pipe -------------------------------
(***************************************************************************)
(* kernel/kernel/pipe.tkb with its callers: pipe2, read, write and ppoll   *)
(* of a pipe end (kernel/kernel/syscall.tkb), the last release of an end   *)
(* (kernel/kernel/fd_table.tkb) and the waiting half kept in the process   *)
(* record (kernel/kernel/process.tkb).                                     *)
(*                                                                         *)
(* Everything a call does between pipe_take and pipe_put is one step: the  *)
(* pipe's TaskMutex is held throughout.  The walk that wakes the waiters   *)
(* runs after the put, under the run lock, and is a step of its own; so is *)
(* the publication of Blocked.  A waiter names the pipe by its address, so *)
(* a late walk can meet the waiters of the pipe that reused the address.   *)
(***************************************************************************)
EXTENDS Integers, Sequences, FiniteSets

CONSTANTS
  Proc,               \* processes
  Pipes,              \* addresses of the pool's records
  NoPipe,             \* 0 in ProcessRecord.pipe_wait
  Byte, Zero,         \* what a user stores; what region_slot_zero leaves
  PIPE_BUFFER_BYTES,
  MaxCount,           \* bound: the largest count of one read or write
  LastGeneration,     \* bound: how often an address is allocated
  Faults              \* whether a user copy may fault

ASSUME PipeAssumption ==
  /\ NoPipe \notin Pipes
  /\ Zero \notin Byte
  /\ PIPE_BUFFER_BYTES \in Nat \ {0}
  /\ MaxCount \in Nat \ {0}
  /\ LastGeneration \in Nat
  /\ Faults \in BOOLEAN

VARIABLES
  generation, live,   \* the pool: the generation last given, the live records
  open,               \* [Pipes -> ends still open]: reader_open, writer_open
  waiting,            \* pipes whose `waiting` flag is set
  start, length, buffer,
  pipe_wait,          \* [Proc -> Pipes \cup {NoPipe}]
  fds,                \* [Proc -> SUBSET Handles]: descriptors of pipe ends
  pc, call, wakes, closing,
  moved               \* history: the bytes the last step moved

pool == <<generation, live, open>>
ring == <<start, length, buffer>>
vars == <<generation, live, open, waiting, start, length, buffer, pipe_wait,
          fds, pc, call, wakes, closing, moved>>

Ends == {"read", "write"}
Handles == [pipe : Pipes, gen : 1..LastGeneration, end : Ends]
Calls == {<< >>}
  \cup [op : {"read"}, fd : Handles, n : 1..MaxCount]
  \cup [op : {"write"}, fd : Handles, bytes : UNION {[1..n -> Byte] : n \in 1..MaxCount}]
  \cup [op : {"poll"}, fd : Handles, asks : BOOLEAN]

PCs == {"none", "user", "call", "repoll", "block", "blocked", "wake", "close"}

\* The ring's words stay inside its buffer (pipe_consume wraps the start), and
\* every process stands in a call its program could have made.
TypeOK ==
  /\ generation \in [Pipes -> 0..LastGeneration]
  /\ live \subseteq Pipes
  /\ open \in [Pipes -> SUBSET Ends]
  /\ waiting \subseteq Pipes
  /\ start \in [Pipes -> 0..PIPE_BUFFER_BYTES - 1]
  /\ length \in [Pipes -> 0..PIPE_BUFFER_BYTES]
  /\ buffer \in [Pipes -> [0..PIPE_BUFFER_BYTES - 1 -> Byte \cup {Zero}]]
  /\ pipe_wait \in [Proc -> Pipes \cup {NoPipe}]
  /\ fds \in [Proc -> SUBSET Handles]
  /\ pc \in [Proc -> PCs]
  /\ call \in [Proc -> Calls]
  /\ wakes \in [Proc -> Pipes \cup {NoPipe}]
  /\ closing \in [Proc -> Handles \cup {NoPipe}]
  /\ moved \in Seq(Byte)
-----------------------------------------------------------------------------
Min2(m, n) == IF m <= n THEN m ELSE n

\* An offset below twice the capacity, brought back into the buffer.
Wrapped(k) == IF k >= PIPE_BUFFER_BYTES THEN k - PIPE_BUFFER_BYTES ELSE k

\* pipe_room, pipe_write_amount, pipe_read_plan, pipe_write_plan.
PipeRoom(a) == PIPE_BUFFER_BYTES - length[a]

PipeWriteAmount(a, requested) ==
  IF requested <= PipeRoom(a) THEN requested
  ELSE IF requested <= PIPE_BUFFER_BYTES THEN 0
  ELSE PipeRoom(a)

\* The two contiguous runs of `amount` bytes that begin at offset `from`.
Plan(from, amount) ==
  LET toEnd == PIPE_BUFFER_BYTES - from
  IN  [offset |-> from, first |-> Min2(amount, toEnd), second |-> amount - Min2(amount, toEnd)]

PipeReadPlan(a, wanted) == Plan(start[a], Min2(wanted, length[a]))

\* A mutant of PipeWritePlan: the tail is not wrapped.
PipeWritePlanUnwrapped(a, amount) == Plan(start[a] + length[a], amount)

PipeWritePlan(a, amount) == Plan(Wrapped(start[a] + length[a]), amount)

\* How much of a planned copy reaches its end: a fault in the first run moves
\* nothing, one in the wrapped run leaves the first.
Copied(plan) ==
  IF Faults THEN {0, plan.first, plan.first + plan.second} ELSE {plan.first + plan.second}

\* The ring index of the i-th byte of a plan, i from 1.
At(plan, i) == IF i <= plan.first THEN plan.offset + i - 1 ELSE i - plan.first - 1

\* A mutant of Consume: the start is not wrapped.
ConsumeUnwrapped(a, amount) ==
  /\ length' = [length EXCEPT ![a] = @ - amount]
  /\ start' = [start EXCEPT ![a] = @ + amount]

\* pipe_consume of `amount` bytes, amount <= length[a].
Consume(a, amount) ==
  LET rest == length[a] - amount
  IN  /\ length' = [length EXCEPT ![a] = rest]
      /\ start' = [start EXCEPT ![a] = IF rest = 0 THEN 0 ELSE Wrapped(@ + amount)]
-----------------------------------------------------------------------------
Init ==
  /\ generation = [a \in Pipes |-> 0]
  /\ live = {}
  /\ open = [a \in Pipes |-> {}]
  /\ waiting = {}
  /\ start = [a \in Pipes |-> 0]
  /\ length = [a \in Pipes |-> 0]
  /\ buffer = [a \in Pipes |-> [i \in 0..PIPE_BUFFER_BYTES - 1 |-> Zero]]
  /\ pipe_wait = [p \in Proc |-> NoPipe]
  /\ fds = [p \in Proc |-> {}]
  /\ \E p \in Proc : pc = [q \in Proc |-> IF q = p THEN "user" ELSE "none"]
  /\ call = [p \in Proc |-> << >>]
  /\ wakes = [p \in Proc |-> NoPipe]
  /\ closing = [p \in Proc |-> NoPipe]
  /\ moved = << >>

\* pipe_take answers Ready: the record is live at the handle's generation.
PipeTake(h) == h.pipe \in live /\ generation[h.pipe] = h.gen

Return(p) ==
  /\ pc' = [pc EXCEPT ![p] = "user"]
  /\ call' = [call EXCEPT ![p] = << >>]

\* pipe_put_changed after a change, then the return: clear `waiting`, and walk
\* the waiters (PipeWake) when it was set.
PipePutChanged(p, a) ==
  /\ waiting' = waiting \ {a}
  /\ call' = [call EXCEPT ![p] = << >>]
  /\ IF a \in waiting
     THEN /\ pc' = [pc EXCEPT ![p] = "wake"]
          /\ wakes' = [wakes EXCEPT ![p] = a]
     ELSE /\ pc' = [pc EXCEPT ![p] = "user"]
          /\ UNCHANGED wakes

\* pipe_put_waiting: the flag and the name are set before the lock is let go.
PipePutWaiting(p, a) ==
  /\ waiting' = waiting \cup {a}
  /\ pipe_wait' = [pipe_wait EXCEPT ![p] = a]
  /\ pc' = [pc EXCEPT ![p] = "block"]
  /\ UNCHANGED <<pool, ring, fds, call, wakes, closing>>
  /\ moved' = << >>

\* A process enters a read, a write or a ppoll of one end without a timeout;
\* `asks` says whether the ppoll asks for the end's own event (POLLIN, POLLOUT).
Enter(p) ==
  /\ pc[p] = "user"
  /\ \E h \in fds[p] :
       \/ /\ h.end = "read"
          /\ \E n \in 1..MaxCount :
               call' = [call EXCEPT ![p] = [op |-> "read", fd |-> h, n |-> n]]
       \/ /\ h.end = "write"
          /\ \E n \in 1..MaxCount : \E bytes \in [1..n -> Byte] :
               call' = [call EXCEPT ![p] = [op |-> "write", fd |-> h, bytes |-> bytes]]
       \/ \E asks \in BOOLEAN :
            call' = [call EXCEPT ![p] = [op |-> "poll", fd |-> h, asks |-> asks]]
  /\ pc' = [pc EXCEPT ![p] = "call"]
  /\ moved' = << >>
  /\ UNCHANGED <<pool, waiting, ring, pipe_wait, fds, wakes, closing>>

\* A read must wait when it finds nothing and the write end is open, a write
\* when it fits nothing and the read end is open, a ppoll when it finds neither
\* the event it asks for nor a closed peer (syscall_pipe_poll_mask_owned).
MustWait(c) ==
  LET a == c.fd.pipe
      peerOpen == Ends \ {c.fd.end} \subseteq open[a]
      idle == IF c.fd.end = "read" THEN length[a] = 0 ELSE PipeRoom(a) = 0
  IN  peerOpen /\ CASE c.op = "read"  -> length[a] = 0
                    [] c.op = "write" -> PipeWriteAmount(a, Len(c.bytes)) = 0
                    [] c.op = "poll"  -> c.asks => idle

\* syscall_pipe_read.
PipeRead(p) ==
  /\ pc[p] = "call" /\ call[p].op = "read"
  /\ LET c == call[p]
         a == c.fd.pipe
         plan == PipeReadPlan(a, c.n)
     IN  IF PipeTake(c.fd) /\ MustWait(c)
         THEN PipePutWaiting(p, a)
         ELSE \E delivered \in IF PipeTake(c.fd) /\ length[a] > 0 THEN Copied(plan) ELSE {0} :
                /\ moved' = [i \in 1..delivered |-> buffer[a][At(plan, i)]]
                /\ IF delivered = 0
                   THEN /\ Return(p)
                        /\ UNCHANGED <<waiting, start, length, wakes>>
                   ELSE /\ Consume(a, delivered)
                        /\ PipePutChanged(p, a)
                /\ UNCHANGED <<pool, buffer, pipe_wait, fds, closing>>

\* syscall_pipe_write: EPIPE once the read end is closed.
PipeWrite(p) ==
  /\ pc[p] = "call" /\ call[p].op = "write"
  /\ LET c == call[p]
         a == c.fd.pipe
         plan == PipeWritePlan(a, PipeWriteAmount(a, Len(c.bytes)))
     IN  IF PipeTake(c.fd) /\ MustWait(c)
         THEN PipePutWaiting(p, a)
         ELSE \E accepted \in IF PipeTake(c.fd) /\ "read" \in open[a] THEN Copied(plan) ELSE {0} :
                /\ moved' = SubSeq(c.bytes, 1, accepted)
                /\ IF accepted = 0
                   THEN /\ Return(p)
                        /\ UNCHANGED <<waiting, length, buffer, wakes>>
                   ELSE /\ length' = [length EXCEPT ![a] = @ + accepted]
                        /\ buffer' = [buffer EXCEPT ![a] =
                             [k \in DOMAIN @ |->
                                IF \E i \in 1..accepted : At(plan, i) = k
                                THEN c.bytes[CHOOSE i \in 1..accepted : At(plan, i) = k]
                                ELSE @[k]]]
                        /\ PipePutChanged(p, a)
                /\ UNCHANGED <<pool, start, pipe_wait, fds, closing>>

\* ppoll's first look, syscall_pipe_poll_mask, ends the call or goes on to
\* syscall_pipe_poll_wait.
PollLook(p) ==
  /\ pc[p] = "call" /\ call[p].op = "poll"
  /\ IF PipeTake(call[p].fd) /\ MustWait(call[p])
     THEN pc' = [pc EXCEPT ![p] = "repoll"] /\ UNCHANGED call
     ELSE Return(p)
  /\ moved' = << >>
  /\ UNCHANGED <<pool, waiting, ring, pipe_wait, fds, wakes, closing>>

\* syscall_pipe_poll_wait: look again under the lock, and name the pipe, or no
\* pipe (pipe_put_ready) so that the block reruns the ppoll.
PollWait(p) ==
  /\ pc[p] = "repoll"
  /\ IF PipeTake(call[p].fd) /\ MustWait(call[p])
     THEN PipePutWaiting(p, call[p].fd.pipe)
     ELSE /\ pipe_wait' = [pipe_wait EXCEPT ![p] = NoPipe]
          /\ pc' = [pc EXCEPT ![p] = "block"]
          /\ moved' = << >>
          /\ UNCHANGED <<pool, waiting, ring, fds, call, wakes, closing>>

\* kernel_process_block_pipe: under the run lock, Blocked is published unless
\* the name is gone (kernel_process_block_would_miss); then the call is rerun.
PipeBlock(p) ==
  /\ pc[p] = "block"
  /\ pc' = [pc EXCEPT ![p] = IF pipe_wait[p] = NoPipe THEN "call" ELSE "blocked"]
  /\ moved' = << >>
  /\ UNCHANGED <<pool, waiting, ring, pipe_wait, fds, call, wakes, closing>>

\* A caught signal: before Blocked it ends the call with EINTR or reruns it,
\* after it makes the process Ready to rerun.  The name stays behind.
Signal(p) ==
  /\ \/ pc[p] = "block" /\ Return(p)
     \/ pc[p] \in {"block", "blocked"} /\ pc' = [pc EXCEPT ![p] = "call"] /\ UNCHANGED call
  /\ moved' = << >>
  /\ UNCHANGED <<pool, waiting, ring, pipe_wait, fds, wakes, closing>>

\* kernel_process_pipe_wake: one walk under the run lock; whoever named the
\* pipe loses the name, and whoever is Blocked on it is Ready to rerun.
PipeWake(p) ==
  /\ pc[p] = "wake"
  /\ LET named == {q \in Proc : pc[q] # "none" /\ pipe_wait[q] = wakes[p]}
     IN  /\ pipe_wait' = [q \in Proc |-> IF q \in named THEN NoPipe ELSE pipe_wait[q]]
         /\ pc' = [q \in Proc |->
                     IF q = p THEN "user"
                     ELSE IF q \in named /\ pc[q] = "blocked" THEN "call" ELSE pc[q]]
  /\ wakes' = [wakes EXCEPT ![p] = NoPipe]
  /\ moved' = << >>
  /\ UNCHANGED <<pool, waiting, ring, fds, call, closing>>
-----------------------------------------------------------------------------
\* syscall_pipe2 over pipe_alloc: a zeroed record with both ends open, held by
\* the caller's two new descriptors.  When a descriptor or an object is not to
\* be had the caller closes both ends again, which frees the record.
Pipe2(p) ==
  /\ pc[p] = "user"
  /\ \E a \in Pipes \ live :
       /\ generation[a] < LastGeneration
       /\ generation' = [generation EXCEPT ![a] = @ + 1]
       /\ waiting' = waiting \ {a}
       /\ start' = [start EXCEPT ![a] = 0]
       /\ length' = [length EXCEPT ![a] = 0]
       /\ buffer' = [buffer EXCEPT ![a] = [i \in DOMAIN @ |-> Zero]]
       /\ \/ /\ live' = live \cup {a}
             /\ open' = [open EXCEPT ![a] = Ends]
             /\ fds' = [fds EXCEPT ![p] = @ \cup
                          [pipe : {a}, gen : {generation'[a]}, end : Ends]]
          \/ /\ open' = [open EXCEPT ![a] = {}]
             /\ UNCHANGED <<live, fds>>
  /\ moved' = << >>
  /\ UNCHANGED <<pipe_wait, pc, call, wakes, closing>>

\* fork: the child's table holds every object the parent's does, and its record
\* starts with no pipe named.
Clone(p, q) ==
  /\ pc[p] = "user" /\ pc[q] = "none"
  /\ pc' = [pc EXCEPT ![q] = "user"]
  /\ fds' = [fds EXCEPT ![q] = fds[p]]
  /\ pipe_wait' = [pipe_wait EXCEPT ![q] = NoPipe]
  /\ moved' = << >>
  /\ UNCHANGED <<pool, waiting, ring, call, wakes, closing>>

\* unified_fd_close: the release that leaves the object without a holder goes
\* on, outside the refcount lock, to close the end.  Nobody but the process
\* reads its table, so the descriptor is cleared with the release.
Close(p) ==
  /\ pc[p] = "user"
  /\ \E h \in fds[p] :
       /\ fds' = [fds EXCEPT ![p] = @ \ {h}]
       /\ IF \E q \in Proc \ {p} : h \in fds[q]
          THEN UNCHANGED <<pc, closing>>
          ELSE /\ pc' = [pc EXCEPT ![p] = "close"]
               /\ closing' = [closing EXCEPT ![p] = h]
  /\ moved' = << >>
  /\ UNCHANGED <<pool, waiting, ring, pipe_wait, call, wakes>>

\* A mutant of PipeEndClose: an end's close tells nobody who waits for it.
PipeEndCloseQuiet(p) ==
  /\ pc[p] = "close"
  /\ LET a == closing[p].pipe
         left == open[a] \ {closing[p].end}
     IN  /\ open' = [open EXCEPT ![a] = left]
         /\ live' = IF left = {} THEN live \ {a} ELSE live
  /\ Return(p)
  /\ closing' = [closing EXCEPT ![p] = NoPipe]
  /\ moved' = << >>
  /\ UNCHANGED <<generation, waiting, ring, pipe_wait, fds, wakes>>

\* A mutant of PipeEndClose: the first end closed frees the record.
PipeEndCloseFirst(p) ==
  /\ pc[p] = "close"
  /\ open' = [open EXCEPT ![closing[p].pipe] = @ \ {closing[p].end}]
  /\ live' = live \ {closing[p].pipe}
  /\ Return(p)
  /\ closing' = [closing EXCEPT ![p] = NoPipe]
  /\ moved' = << >>
  /\ UNCHANGED <<generation, waiting, ring, pipe_wait, fds, wakes>>

\* pipe_end_close: mark the end, then free the record when both ends are closed
\* (pipe_free wakes nobody) or wake whoever waits for the other end's news.
PipeEndClose(p) ==
  /\ pc[p] = "close"
  /\ LET h == closing[p]
         a == h.pipe
         left == open[a] \ {h.end}
     IN  IF ~PipeTake(h)
         THEN Return(p) /\ UNCHANGED <<live, open, waiting, wakes>>
         ELSE /\ open' = [open EXCEPT ![a] = left]
              /\ IF left = {}
                 THEN Return(p) /\ live' = live \ {a} /\ UNCHANGED <<waiting, wakes>>
                 ELSE PipePutChanged(p, a) /\ UNCHANGED live
  /\ closing' = [closing EXCEPT ![p] = NoPipe]
  /\ moved' = << >>
  /\ UNCHANGED <<generation, ring, pipe_wait, fds>>

\* A process whose descriptors are all closed ends.
Exit(p) ==
  /\ pc[p] = "user" /\ fds[p] = {}
  /\ pc' = [pc EXCEPT ![p] = "none"]
  /\ moved' = << >>
  /\ UNCHANGED <<pool, waiting, ring, pipe_wait, fds, call, wakes, closing>>

Next ==
  \E p \in Proc :
    \/ Enter(p)
    \/ PipeRead(p)
    \/ PipeWrite(p)
    \/ PollLook(p)
    \/ PollWait(p)
    \/ PipeBlock(p)
    \/ Signal(p)
    \/ PipeWake(p)
    \/ Pipe2(p)
    \/ \E q \in Proc : Clone(p, q)
    \/ Close(p)
    \/ PipeEndClose(p)
    \/ Exit(p)

Spec == Init /\ [][Next]_vars
-----------------------------------------------------------------------------
\* A step that will walk the waiters of the pipe at `a`.
WakeDue(a) == \E q \in Proc : pc[q] = "wake" /\ wakes[q] = a

(***************************************************************************)
(* A process Blocked on a pipe has it named, and either still has reason   *)
(* to wait or is about to be woken: no change of the pipe that ends its    *)
(* wait is missed, wherever between its look and its sleep it fell.        *)
(***************************************************************************)
NoLostWake ==
  \A p \in Proc : pc[p] = "blocked" =>
    /\ pipe_wait[p] = call[p].fd.pipe
    /\ MustWait(call[p]) \/ WakeDue(pipe_wait[p])

(***************************************************************************)
(* A descriptor of a pipe end, and the release that closes the end, find   *)
(* the pipe at its generation with that end open: the record is not freed  *)
(* or reused under a holder, and no end is closed twice.                   *)
(***************************************************************************)
EndOpenWhileHeld ==
  \A p \in Proc : \A h \in fds[p] \cup (IF pc[p] = "close" THEN {closing[p]} ELSE {}) :
    PipeTake(h) /\ h.end \in open[h.pipe]

\* The bytes a reader would meet, in order.
Content(a) ==
  IF a \in live
  THEN [i \in 1..length[a] |-> buffer[a][Wrapped(start[a] + i - 1)]]
  ELSE << >>

Streams == INSTANCE ByteStreams WITH
             content <- [a \in Pipes |-> Content(a)], Capacity <- PIPE_BUFFER_BYTES

(***************************************************************************)
(* The ring is a bounded queue of bytes: what the reads deliver is what    *)
(* the writes accepted, in order, across wrap-around and faulting copies.  *)
(***************************************************************************)
StreamSpec == Streams!StreamSpec
=============================================================================
