------------------------------ MODULE UartLane ------------------------------
(***************************************************************************)
(* One interactive test lane on the host: the console driver that captures *)
(* the guest's UART, types the shell scenario and, when the guest stops,   *)
(* walks the kernel debugger (scripts/run_kernel_uart_driver.py), beside   *)
(* the network peer that probes the guest and shares a guard file, a       *)
(* request file and ready files with it (scripts/kernel_net_test.py).      *)
(*                                                                         *)
(* Time is counted in ticks.  A tick passes only when the driver and the   *)
(* peer have each been round their loop since the last one: a pass takes a *)
(* tenth of a second, a tick stands for a second or more.  The two calls   *)
(* that stop the driver (the console snapshot and the BREAK request) let   *)
(* ticks pass inside them.                                                 *)
(*                                                                         *)
(* The guest is external: it says its marks in the order its programs      *)
(* run them, waits for the lines that are typed to it, chatters, stops in  *)
(* the kernel, dies, or enters the debugger, at any moment.  What it said  *)
(* before it stopped may be read after that, alone or in one chunk with    *)
(* the debugger's first prompt.                                            *)
(***************************************************************************)
EXTENDS Integers, FiniteSets, FiniteSetsExt

CONSTANTS
    Timeout,     \* --timeout: how long the guest may send nothing
    Ceiling,     \* --ceiling, and the peer's `timeout` command
    Budget,      \* postmortem_budget(timeout)
    Stopped,     \* timeout * STOPPED_FRACTION
    GuardLast,   \* GUARD_LAST_SECONDS
    Hold,        \* how long a complete capture goes on, 0.5 s in the code
    Safety,      \* MARKER_SAFETY_SECONDS
    Planned,     \* how long a planned idle or request is guarded for
    CallTime,    \* the ticks a snapshot or a BREAK request may take
    ConnectBy,   \* the last tick at which a port opens, if it opens at all
    Commands     \* len(POSTMORTEM_COMMANDS)

ASSUME UartLaneAssumption ==
    /\ {Timeout, Ceiling, Budget, Stopped, GuardLast, Hold, Safety, Planned,
        CallTime, ConnectBy, Commands} \subseteq Nat
    /\ 0 < GuardLast /\ GuardLast <= Budget /\ Budget <= Stopped
    /\ Budget + Stopped <= Timeout /\ Timeout <= Ceiling
    /\ 0 < Safety /\ Safety < Timeout

VARIABLES
    now,         \* time.monotonic(), from the start of the lane
    looked,      \* who has been round its loop in this tick
    pc,          \* where the driver is
    canBreak,    \* a BREAK path was configured
    started,     \* capture_started
    deadline,    \* the end of the capture
    lastChunk,   \* last_chunk_at
    guardUntil,  \* peer_guard_until
    heard,       \* the marks in the captured output
    prompts,     \* the debugger prompts in the captured output
    acted,       \* the marks the scenario has acted on
    sent,        \* postmortem_sent
    walking,     \* postmortem_at is not None
    fixture,     \* fixture_failure is not None
    breakFor,    \* why a BREAK was asked for, or "none" (break_asked)
    called,      \* the ticks spent in the current call
    doneSeen,    \* httpd_done_seen_at, or Never
    verdict,     \* how the driver ended
    guest,       \* what the guest is doing
    stray,       \* what a line that the debugger will read was to lead to
    peer,        \* the step the peer is in
    progress,    \* the peer's last_progress
    fresh,       \* the capture has grown since the peer looked
    guardFile,   \* what the guard file says
    request,     \* when the postmortem request file was written, or Never
    done         \* the lane has touched the done file

driver == <<canBreak, started, deadline, lastChunk, guardUntil, heard, prompts,
            acted, sent, walking, fixture, breakFor, doneSeen, verdict>>
machine == <<guest, stray>>
files == <<guardFile, request, done>>
watcher == <<peer, progress, fresh>>
vars == <<now, looked, pc, called, machine, driver, files, watcher>>

Never == -1

Marks == {"listener", "shell", "ash", "quiet", "echo", "tty", "failed"}

\* ash stands for the terminal scenario and the ash transcript, quiet for all
\* that must be in the output before the two peer programs are typed, echo for
\* the echo of what was typed and tty for their verdicts; failed is a line that
\* fails their fixture for good.
\*
\* What the driver must have acted on before the guest says each mark: the line
\* that leads to a mark is typed when its conditions are in the output.
Needs(m) ==
    CASE m = "ash"    -> {"shell"}
      [] m = "quiet"  -> {"ash"}
      [] m = "echo"   -> {"listener", "quiet"}
      [] m = "tty"    -> {"echo"}
      [] m = "failed" -> {"echo"}
      [] OTHER        -> {}

Init ==
    /\ now = 0 /\ looked = {} /\ pc = "connect" /\ called = 0
    /\ canBreak \in BOOLEAN
    /\ started = 0 /\ deadline = Timeout /\ lastChunk = 0 /\ guardUntil = 0
    /\ heard = {} /\ prompts = 0 /\ acted = {} /\ sent = 0
    /\ walking = FALSE /\ fixture = FALSE /\ breakFor = "none"
    /\ doneSeen = Never /\ verdict = "none"
    /\ guest = "running" /\ stray = {}
    /\ peer = "listener" /\ progress = 0 /\ fresh = FALSE
    /\ guardFile = 0 /\ request = Never /\ done = FALSE

-----------------------------------------------------------------------------
(* Time, and the guest.                                                     *)

InCall == pc \in {"console", "break", "snapshot"}

Tick ==
    /\ "peer" \in looked
    /\ \/ InCall /\ called < CallTime
       \/ pc \in {"connect", "read"} /\ now < deadline /\ "driver" \in looked
    /\ now' = now + 1
    /\ looked' = {}
    /\ called' = IF InCall THEN called + 1 ELSE 0
    /\ UNCHANGED <<pc, machine, driver, files, watcher>>

\* The guest dies, or reaches the debugger on its own.  One that hangs in the
\* kernel is a running guest that says nothing more.
GuestStops ==
    /\ pc = "read" /\ guest = "running" /\ guest' \in {"dead", "debugger"}
    /\ UNCHANGED <<now, looked, pc, called, stray, driver, files, watcher>>

\* A debugger that stops answering.
DebuggerDies ==
    /\ pc = "read" /\ guest = "debugger" /\ guest' = "dead"
    /\ UNCHANGED <<now, looked, pc, called, stray, driver, files, watcher>>

-----------------------------------------------------------------------------
(* The driver.                                                              *)

\* serial_for_url: the capture's clock starts when the port opens, the first
\* deadline when the driver did.
Connect ==
    /\ pc = "connect" /\ now < deadline /\ now <= ConnectBy
    /\ pc' = "read" /\ started' = now /\ lastChunk' = now /\ guardUntil' = now
    /\ UNCHANGED <<now, looked, called, machine, canBreak, deadline, heard, prompts,
                   acted, sent, walking, fixture, breakFor, doneSeen, verdict,
                   files, watcher>>

\* SerialException: wait and try again.
Refused ==
    /\ pc = "connect" /\ now < deadline /\ "driver" \notin looked
    /\ looked' = looked \cup {"driver"}
    /\ UNCHANGED <<now, pc, called, machine, driver, files, watcher>>

NotConnected ==
    /\ pc = "connect" /\ now >= deadline
    /\ pc' = "done" /\ verdict' = "not connected"
    /\ UNCHANGED <<now, looked, called, machine, canBreak, started, deadline, lastChunk,
                   guardUntil, heard, prompts, acted, sent, walking, fixture,
                   breakFor, doneSeen, files, watcher>>

\* A mutant of Extended: the walk's deadline moves with what the debugger prints.
ExtendedAlways == Max({deadline, Min({now + Timeout, started + Ceiling})})

\* A mutant of Extended: the timeout counts from the start.
ExtendedNever == deadline

\* A mutant of Extended: every chunk adds a timeout to the deadline.
ExtendedAdding ==
    IF breakFor = "none" /\ ~walking THEN deadline + Timeout ELSE deadline

\* Progress moves the deadline, up to the ceiling, until a BREAK or a prompt
\* has set the walk's own.
Extended ==
    IF breakFor = "none" /\ ~walking
    THEN Max({deadline, Min({now + Timeout, started + Ceiling})})
    ELSE deadline

\* A chunk arrives: marks m, p prompts, or neither.
Chunk(m, p) ==
    /\ pc = "read" /\ now < deadline
    /\ heard' = heard \cup m /\ prompts' = prompts + p
    /\ lastChunk' = now /\ deadline' = Extended
    /\ fresh' = TRUE
    /\ pc' = "watch"
    /\ UNCHANGED <<now, looked, called, machine, canBreak, started, guardUntil, acted,
                   sent, walking, fixture, breakFor, doneSeen, verdict, files,
                   peer, progress>>

\* The marks whose turn it is.  What was typed at a stopped guest leads to none.
Sayable == {m \in Marks \ (heard \cup stray) : Needs(m) \subseteq acted}

\* The lines that the debugger reads in place of the shell: there is one at
\* most, for the next line's turn never comes.
Strays == IF stray = {} THEN 0 ELSE 1

\* Some of what a guest said is still to be read: it runs, or it has stopped
\* and not even the debugger's first prompt has been seen.
Talking == guest = "running" \/ (guest = "debugger" /\ prompts = 0)

Says(m) == Talking /\ Chunk(m, 0)
Chatters == guest = "debugger" /\ prompts > 0 /\ Chunk({}, 0)

\* The prompt that opens the debugger, behind what the guest said before it,
\* then one for each line the debugger reads: a command of the walk, or one
\* that was meant for the shell.
Prompts(m) ==
    /\ guest = "debugger" /\ prompts <= sent + Strays
    /\ m = {} \/ Talking
    /\ Chunk(m, 1)

\* connection.read() times out.
Quiet ==
    /\ pc = "read" /\ now < deadline /\ "driver" \notin looked
    /\ pc' = "watch"
    /\ UNCHANGED <<now, looked, called, machine, driver, files, watcher>>

Expire ==
    /\ pc = "read" /\ now >= deadline
    /\ pc' = "verdict"
    /\ UNCHANGED <<now, looked, called, machine, driver, files, watcher>>

\* The port is gone: the exception leaves main().
PortLost ==
    /\ pc = "read" /\ now < deadline /\ guest = "dead"
    /\ pc' = "done" /\ verdict' = "raised"
    /\ UNCHANGED <<now, looked, called, machine, canBreak, started, deadline, lastChunk,
                   guardUntil, heard, prompts, acted, sent, walking, fixture,
                   breakFor, doneSeen, files, watcher>>

\* A mutant of BreakDue: the guard does not yield in the last second.
BreakDueGuarded(guard) ==
    /\ now >= deadline - Budget
    /\ now >= guard
    /\ now - lastChunk >= Stopped

\* postmortem_break_due: inside the last of the budget, with the guest quiet;
\* the peer's guard defers it, until the budget's last second.
BreakDue(guard) ==
    /\ now >= deadline - Budget
    /\ now >= Min({guard, deadline - GuardLast})
    /\ now - lastChunk >= Stopped

NewGuard == Max({guardUntil, guardFile})
NewFailure == ~fixture /\ "failed" \in heard
Unbroken == breakFor = "none"

\* A mutant of AskedBy: a request waits for the guest to fall silent.
AskedByQuiet(why) ==
    CASE why = "fixture" -> NewFailure /\ Unbroken /\ prompts = 0 /\ canBreak
      [] why = "request" -> /\ canBreak /\ Unbroken /\ ~walking /\ request # Never
                            /\ now - lastChunk >= Stopped
      [] why = "silence" -> /\ canBreak /\ Unbroken /\ ~walking /\ request = Never
                            /\ BreakDue(NewGuard)

\* The reasons for a BREAK, in the order a pass of the loop tries them.
AskedBy(why) ==
    CASE why = "fixture" -> NewFailure /\ Unbroken /\ prompts = 0 /\ canBreak
      [] why = "request" -> /\ canBreak /\ Unbroken /\ ~walking /\ request # Never
                            /\ ~(NewFailure /\ prompts = 0)
      [] why = "silence" -> /\ canBreak /\ Unbroken /\ ~walking /\ request = Never
                            /\ BreakDue(NewGuard)

Watched(next) ==
    /\ pc = "watch" /\ pc' = next
    /\ guardUntil' = NewGuard
    /\ fixture' = (fixture \/ NewFailure)
    /\ UNCHANGED <<now, looked, called, machine, canBreak, started, lastChunk, heard,
                   prompts, acted, sent, walking, doneSeen, files, watcher>>

AskBreak(why) ==
    /\ AskedBy(why)
    /\ Watched("console")
    /\ breakFor' = why
    /\ UNCHANGED <<deadline, verdict>>

\* A mutant of FailsUnasked: whatever else is in the output.
FailsUnaskedAtPrompt ==
    /\ NewFailure /\ Unbroken /\ ~canBreak
    /\ Watched("done")
    /\ verdict' = "fixture"
    /\ UNCHANGED <<deadline, breakFor>>

\* A failed fixture on a lane that cannot ask raises at once, unless the guest
\* has prompted.
FailsUnasked ==
    /\ NewFailure /\ Unbroken /\ prompts = 0 /\ ~canBreak
    /\ Watched("done")
    /\ verdict' = "fixture"
    /\ UNCHANGED <<deadline, breakFor>>

\* Nothing to ask.  A failure seen at a prompt gives the walk a fresh budget.
Watch ==
    /\ \A why \in {"fixture", "request", "silence"} : ~AskedBy(why)
    /\ ~(NewFailure /\ Unbroken /\ prompts = 0)
    /\ Watched("prompt")
    /\ deadline' = IF NewFailure /\ Unbroken THEN now + Budget ELSE deadline
    /\ UNCHANGED <<breakFor, verdict>>

\* capture_console("before-break") is over.  A failed fixture counts the BREAK
\* request inside the walk's budget, the other two do not.
ConsoleTaken ==
    /\ pc = "console" /\ pc' = "break" /\ called' = 0
    /\ deadline' = IF breakFor = "fixture" THEN now + Budget ELSE deadline
    /\ UNCHANGED <<now, looked, machine, canBreak, started, lastChunk, guardUntil,
                   heard, prompts, acted, sent, walking, fixture, breakFor,
                   doneSeen, verdict, files, watcher>>

\* request_break returns, delivered or not; a guest that still runs kernel code
\* answers it in the debugger.
BreakReturned ==
    /\ pc = "break" /\ pc' = "prompt" /\ called' = 0
    /\ \/ guest' = IF guest = "dead" THEN guest ELSE "debugger"
       \/ UNCHANGED guest
    /\ UNCHANGED stray
    /\ deadline' = IF breakFor = "fixture" THEN deadline ELSE now + Budget
    /\ UNCHANGED <<now, looked, canBreak, started, lastChunk, guardUntil, heard,
                   prompts, acted, sent, walking, fixture, breakFor, doneSeen,
                   verdict, files, watcher>>

\* A pass of the loop is over.
Pass(next) ==
    /\ pc' = next
    /\ looked' = looked \cup {"driver"}
    /\ UNCHANGED <<now, called, guest, canBreak, started, lastChunk, guardUntil,
                   heard, prompts, fixture, breakFor, verdict, files, watcher>>

\* The first prompt: capture_console("already-ddb") unless it has run.
FirstPrompt ==
    /\ pc = "prompt" /\ prompts > 0 /\ ~walking
    /\ pc' = "snapshot" /\ called' = IF Unbroken THEN 0 ELSE CallTime
    /\ UNCHANGED <<now, looked, machine, driver, files, watcher>>

SnapshotTaken ==
    /\ pc = "snapshot" /\ pc' = "prompt" /\ called' = 0
    /\ walking' = TRUE
    /\ deadline' = IF fixture THEN deadline ELSE Max({deadline, now + Budget})
    /\ UNCHANGED <<now, looked, machine, canBreak, started, lastChunk, guardUntil,
                   heard, prompts, acted, sent, fixture, breakFor, doneSeen,
                   verdict, files, watcher>>

\* One command for each prompt; the prompt after the last one ends the walk.
\* From here on nothing is typed at the shell.
Walk ==
    /\ pc = "prompt" /\ walking
    /\ sent' = Min({prompts, Commands})
    /\ Pass(IF prompts > Commands THEN "verdict" ELSE "read")
    /\ UNCHANGED <<deadline, acted, walking, doneSeen, stray>>

\* After a failed fixture the driver only waits for the prompt.
AwaitPrompt ==
    /\ pc = "prompt" /\ prompts = 0 /\ fixture
    /\ Pass("read")
    /\ UNCHANGED <<deadline, acted, sent, walking, doneSeen, stray>>

\* Every requested boundary: httpd_ready and the listener, the stop marker, the
\* two peer commands' verdicts, and the peer's own end.
Complete == heard \ {"failed"} = Marks \ {"failed"} /\ done

\* What the lines typed in this pass lead to.
Typed == {m \in Marks : Needs(m) \subseteq heard /\ ~(Needs(m) \subseteq acted)}

\* The scenario: type the lines whose conditions are in the output, publish the
\* listener files, and stop Hold after everything has been seen.  If the guest
\* has stopped and the driver has not seen its prompt, the debugger reads them.
Scenario ==
    /\ pc = "prompt" /\ prompts = 0 /\ ~fixture
    /\ acted' = heard
    /\ stray' = IF guest = "debugger" THEN stray \cup Typed ELSE stray
    /\ doneSeen' = IF Complete /\ doneSeen = Never THEN now ELSE doneSeen
    /\ Pass(IF Complete /\ doneSeen # Never /\ now - doneSeen >= Hold
            THEN "verdict" ELSE "read")
    /\ UNCHANGED <<deadline, sent, walking>>

\* A probe says it failed: terminal_scenario.step and the peer-settings check
\* raise out of the loop.
ScenarioRaises ==
    /\ pc = "prompt" /\ prompts = 0 /\ ~fixture /\ lastChunk = now
    /\ ("shell" \in acted /\ "ash" \notin heard) \/ "echo" \in heard
    /\ pc' = "done" /\ verdict' = "probe"
    /\ UNCHANGED <<now, looked, called, machine, canBreak, started, deadline, lastChunk,
                   guardUntil, heard, prompts, acted, sent, walking, fixture,
                   breakFor, doneSeen, files, watcher>>

\* What the driver reports, in the order it looks.
Report ==
    IF walking THEN {"postmortem"}
    ELSE IF fixture THEN {"fixture"}
    ELSE IF "echo" \notin heard THEN {"echo"}
    ELSE IF "ash" \notin heard THEN {"transcript"}
    ELSE IF ~({"listener", "quiet"} \subseteq acted) THEN {"transcript", "lifecycle"}
    ELSE IF ~done THEN {"transcript", "peer"}
    ELSE {"transcript", "forbidden", "pass"}

Verdict ==
    /\ pc = "verdict" /\ pc' = "done"
    /\ verdict' \in Report
    /\ UNCHANGED <<now, looked, called, machine, canBreak, started, deadline, lastChunk,
                   guardUntil, heard, prompts, acted, sent, walking, fixture,
                   breakFor, doneSeen, files, watcher>>

-----------------------------------------------------------------------------
(* The peer.                                                                *)

\* The peer's steps; the last is over when the lane touches the done file.
Waits == {"listener"}
After(p) == CASE p = "listener"  -> "requests"
              [] p = "requests"  -> "guarded"
              [] p = "guarded"   -> "gone"

\* Entering a step: a wait starts its own budget, a planned silence and each
\* request publish when they must be over.
Enter(p) ==
    /\ peer' = p
    /\ done' = (p = "gone")
    /\ progress' = IF p \in Waits THEN now ELSE 0
    /\ fresh' = FALSE
    /\ looked' = looked \ {"peer"}
    /\ guardFile' = IF p = "guarded" THEN now + Planned ELSE guardFile

\* The peer is alive.  Between two reads the driver looks at each file once, so
\* what the peer does in there might as well come before or after.
Alive == now < Ceiling /\ pc \notin {"watch", "prompt", "done"}

PeerUnchanged == UNCHANGED <<now, pc, called, machine, driver>>

\* The marker file is there.
MarkerFound ==
    /\ Alive /\ peer \in Waits /\ peer \in acted
    /\ Enter(After(peer))
    /\ UNCHANGED request /\ PeerUnchanged

\* A mutant of WaitDeadline: the wait may go on until the peer is killed.
WaitDeadlineUnsafe(p) == Min({p + Timeout - Safety, Ceiling})

WaitDeadline(p) == Min({p + Timeout - Safety, Ceiling - Safety})

\* One look of wait_for_marker: captured bytes renew the wait, and a renewed
\* wait is published as the guard; a wait that is over ends the peer.
MarkerAwaited ==
    LET p == IF fresh THEN now ELSE progress
        d == WaitDeadline(p)
    IN  /\ Alive /\ peer \in Waits /\ peer \notin acted /\ "peer" \notin looked
        /\ IF now >= d
           THEN Enter("gone")
           ELSE /\ looked' = looked \cup {"peer"}
                /\ progress' = p /\ fresh' = FALSE /\ guardFile' = d
                /\ UNCHANGED <<peer, done>>
        /\ UNCHANGED request /\ PeerUnchanged

\* The steps between the waits end, fail, or go on.
StepOver ==
    /\ Alive /\ peer \notin Waits \cup {"gone"}
    /\ \E p \in {After(peer), "gone"} : Enter(p)
    /\ UNCHANGED request /\ PeerUnchanged

\* concurrent_http_requests failed: ask for a walk.
RequestPostmortem ==
    /\ Alive /\ peer = "requests"
    /\ Enter("gone")
    /\ request' = now
    /\ PeerUnchanged

Working ==
    /\ peer \notin Waits /\ "peer" \notin looked
    /\ Alive \/ peer = "gone"
    /\ looked' = looked \cup {"peer"}
    /\ PeerUnchanged /\ UNCHANGED <<files, watcher>>

\* The `timeout` command ends the peer; the lane goes on.
Killed ==
    /\ peer # "gone" /\ now >= Ceiling /\ pc # "done"
    /\ Enter("gone")
    /\ UNCHANGED request /\ PeerUnchanged

-----------------------------------------------------------------------------
Driver ==
    \/ Connect \/ Refused \/ NotConnected
    \/ (\E m \in SUBSET Sayable : Says(m) \/ Prompts(m)) \/ Chatters \/ Quiet
    \/ Expire \/ PortLost
    \/ (\E why \in {"fixture", "request", "silence"} : AskBreak(why))
    \/ FailsUnasked \/ Watch \/ ConsoleTaken \/ BreakReturned
    \/ FirstPrompt \/ SnapshotTaken \/ Walk \/ AwaitPrompt
    \/ Scenario \/ ScenarioRaises \/ Verdict

Peer ==
    \/ MarkerFound \/ MarkerAwaited \/ StepOver \/ RequestPostmortem
    \/ Working \/ Killed

Ended == pc = "done" /\ UNCHANGED vars

Next == Tick \/ GuestStops \/ DebuggerDies \/ Driver \/ Peer \/ Ended

Spec == Init /\ [][Next]_vars

-----------------------------------------------------------------------------
(* Properties.                                                              *)

TypeOK ==
    /\ now \in Nat /\ looked \subseteq {"driver", "peer"}
    /\ pc \in {"connect", "read", "watch", "console", "break", "prompt", "snapshot",
               "verdict", "done"}
    /\ canBreak \in BOOLEAN /\ started \in 0..now /\ lastChunk \in started..now
    /\ deadline \in Nat /\ guardUntil \in Nat /\ guardFile \in Nat
    /\ acted \subseteq heard /\ heard \subseteq Marks
    /\ sent \in 0..Commands /\ prompts \in sent..(sent + Strays + 1)
    /\ walking \in BOOLEAN /\ fixture \in BOOLEAN
    /\ breakFor \in {"none", "fixture", "request", "silence"}
    /\ called \in 0..CallTime /\ doneSeen \in {Never} \cup 0..now
    /\ verdict \in {"none", "not connected", "raised", "fixture", "probe",
                    "postmortem", "echo", "transcript", "lifecycle",
                    "peer", "forbidden", "pass"}
    /\ guest \in {"running", "dead", "debugger"}
    /\ peer \in Waits \cup {"requests", "guarded", "gone"}
    /\ progress \in 0..now /\ fresh \in BOOLEAN
    /\ stray \subseteq Marks /\ request \in {Never} \cup 0..now /\ done \in BOOLEAN

\* A capture that ran out with nobody asking the debugger was not a stall: the
\* guest had spoken within Stopped of the last look.  The peer's guard may
\* defer the BREAK, never suppress it.
StallBroken ==
    pc = "verdict" /\ now >= deadline /\ canBreak /\ breakFor = "none" /\ ~walking
        => now - lastChunk <= Stopped

\* A capture that ran out without a walk gave the guest its whole timeout since
\* its last byte, or the ceiling, or never heard it at all: a slow guest is not
\* failed for being slow.
SlowKept ==
    pc = "verdict" /\ now >= deadline /\ breakFor = "none" /\ ~walking
        => \/ now - lastChunk >= Timeout
           \/ now >= started + Ceiling
           \/ lastChunk = started

\* Once a BREAK has been asked for or the fixture has failed, the walk's budget
\* is all the capture has left, however much the debugger prints.
WalkBudgeted ==
    (breakFor # "none" \/ fixture) /\ pc \in {"read", "watch", "prompt"}
        => deadline <= now + Budget

\* Whatever the guest and the peer do, the driver has ended once the ceiling,
\* its two calls and the walk's two budgets are over, and at no moment means to
\* read for longer.
Bounded ==
    Max({now, deadline})
        <= Max({Timeout, started + Ceiling}) + 2 * CallTime + 2 * Budget

\* The peer's waits expire while it is alive to say so: `timeout` never kills
\* it inside one.
WaitExpires == peer \in Waits => now < Ceiling

\* A request of the peer's is acted on while what failed still stands: within
\* a pass of the loop a BREAK has been asked for or the debugger is being
\* walked, whatever the guest goes on saying, the deadline and the guard are
\* (kernel_net_test.py: "asks the UART driver to BREAK in and walk now").
RequestServed ==
    canBreak /\ request # Never /\ now > request + 1 /\ pc # "snapshot"
        => breakFor # "none" \/ walking

\* A guest that has prompted is reported as stopped in the debugger, whatever
\* was read with the prompt: the last mark of a complete capture, a failure
\* line on a lane with no BREAK path, a probe's complaint.
StopReported ==
    pc = "done" /\ prompts > 0 => verdict \in {"postmortem", "raised"}

\* What the driver's exit status 0 would have to mean if it said that every
\* requested boundary was seen (it does not: see the README).
PassComplete == verdict = "pass" => heard \ {"failed"} = Marks \ {"failed"}

\* A BREAK for silence spoils no capture that is already complete (one does:
\* see the README).
NothingSpoiled ==
    [][breakFor = "none" /\ breakFor' = "silence" => doneSeen = Never]_vars

\* A BREAK for silence does not cut into what the peer has published that it is
\* doing, outside the last of the budget (one does: see the README).
GuardHonoured ==
    pc = "break" /\ breakFor = "silence"
        => now >= guardFile \/ now >= deadline - GuardLast

\* A walk that ends at its last prompt has had every command answered (one has
\* not: see the README).
LastAnswered == pc = "verdict" /\ prompts > Commands => prompts - 1 - Strays >= Commands
=============================================================================
