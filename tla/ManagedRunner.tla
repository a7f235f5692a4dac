--------------------------- MODULE ManagedRunner ---------------------------
(***************************************************************************)
(* Agents that messages wake: the part of a daemon that keeps the inbox    *)
(* and answers a runner (daemon.ts, ipc.ts), and the runner process beside *)
(* it, which claims what waits, lets a coding agent take a turn, and sends *)
(* its reply back into the room (runner/orchestrator.ts, client.ts,        *)
(* limits.ts). Two sessions with runners answer each other.                *)
(*                                                                         *)
(* Every call to the daemon may fail, before it was carried out or after.  *)
(* Nothing catches that in drain(): the process ends (Dies).               *)
(***************************************************************************)
EXTENDS WakeInbox, Integers, FiniteSetsExt

CONSTANTS
    MaxWakes,        \* MAX_WAKES_PER_HOUR
    Managed,         \* the sessions that have a runner
    Window,          \* an hour, in ticks
    MaxFailures,     \* MAX_START_FAILURES
    MaxBackoff,      \* the longest retry delay, in ticks
    MaxMoves,        \* bound: messages not sent by runners, and runners started
    MaxFaults        \* bound: failing calls, lost connections, kills, restarts

ASSUME RunnerAssumption ==
    /\ Managed \subseteq Sessions
    /\ {MaxWakes, Window, MaxFailures, MaxBackoff} \subseteq Nat \ {0}
    /\ {MaxMoves, MaxFaults} \subseteq Nat

VARIABLES
    log,       \* the events of the room that reach agents
    cursor,    \* how many of them each daemon has received
    inbox,     \* per daemon
    calls,     \* per daemon: completions whose reply is being submitted
    runner,    \* per session: the runner process
    wired,     \* per session: is the wake subscription connected
    frame,     \* per session: is a wake frame on its way
    read,      \* history, per session: events read by the agent's own hooks
    answered,  \* history, per session: events completed
    lost,      \* history, per session: events pushed out of a full inbox, or gone with the daemon
    moves,     \* counter of MaxMoves
    faults     \* counter of MaxFaults

vars == <<log, cursor, inbox, calls, runner, wired, frame, read, answered, lost, moves, faults>>

None == -1

Down == [mode |-> "down", items |-> <<>>, stopped |-> FALSE, timer |-> None,
         outcome |-> "none", delay |-> None, failures |-> 0, stamps |-> <<>>]

Events == DOMAIN log

RunnerInit ==
    /\ log = <<>>
    /\ cursor = [s \in Sessions |-> 0]
    /\ inbox = [s \in Sessions |-> EmptyInbox]
    /\ calls = [s \in Sessions |-> {}]
    /\ runner = [s \in Sessions |-> Down]
    /\ wired = [s \in Sessions |-> FALSE]
    /\ frame = [s \in Sessions |-> FALSE]
    /\ read = [s \in Sessions |-> {}]
    /\ answered = [s \in Sessions |-> {}]
    /\ lost = [s \in Sessions |-> {}]
    /\ moves = 0
    /\ faults = 0

----------------------------------------------------------------------------
(* The runner process, as a value *)

\* The process ends: its lock names a process that is gone, and its claims stay where
\* they are.
Exits(s) ==
    /\ runner' = [runner EXCEPT ![s] = Down]
    /\ wired' = [wired EXCEPT ![s] = FALSE]
    /\ frame' = [frame EXCEPT ![s] = FALSE]

Running(r) == r.mode \notin {"down", "idle"}

\* schedule(): a drain that runs remembers the shortest delay asked for.
Scheduled(r, delay) ==
    CASE r.stopped -> r
      [] ~r.stopped /\ Running(r) ->
           [r EXCEPT !.delay = IF @ = None THEN delay ELSE Min({@, delay})]
      [] OTHER -> [r EXCEPT !.timer = delay]

FaultyDrained(r) == [r EXCEPT !.mode = "idle", !.items = <<>>, !.delay = None]

\* The end of drain().
Drained(r) ==
    LET idle == [r EXCEPT !.mode = "idle", !.items = <<>>, !.delay = None]
    IN IF r.delay = None THEN idle ELSE Scheduled(idle, r.delay)

\* WakeLimiter; the stamps are kept as ages, and those of an hour ago are gone.
TryAcquire(r) ==
    IF Len(r.stamps) < MaxWakes
    THEN [r EXCEPT !.mode = "turn", !.stamps = Append(@, 0)]
    ELSE [r EXCEPT !.mode = "refused"]

Older(r) ==
    [r EXCEPT !.timer = IF @ > 0 THEN @ - 1 ELSE @,
              !.stamps = SelectSeq([i \in DOMAIN @ |-> @[i] + 1], LAMBDA age : age < Window)]

\* How long to wait after a claim went back.
RetryAfter(r) ==
    IF r.mode = "refused"
    THEN IF r.stamps = <<>> THEN 0 ELSE Window - Head(r.stamps)
    ELSE Min({MaxBackoff, 2 ^ (Max({r.failures, 1}) - 1)})

\* A turn of the host: it printed a line, it exited with 0 and in time.
HostRun == [started : BOOLEAN, clean : BOOLEAN]

\* What the adapter makes of the lines: an error, a final text, or neither.
HostLine == {"error", "finalText", "nothing"}

\* What the final text ends with: a result that is valid, or anything else.
RunnerResult == {"acted", "no_action", "blocked", "invalid"}

OutcomeOf(run, line, result) ==
    IF ~run.started THEN "absent"
    ELSE IF ~run.clean \/ line # "finalText" \/ result = "invalid" THEN "failed"
    ELSE result

Outcomes == {OutcomeOf(run, line, result) : run \in HostRun, line \in HostLine, result \in RunnerResult}

AfterTurn(r, outcome) ==
    CASE r.stopped -> [r EXCEPT !.mode = "requeueing"]
      [] ~r.stopped /\ outcome = "absent" ->
           LET failures == Min({r.failures + 1, MaxFailures})
               refunded == [r EXCEPT !.failures = failures,
                                     !.stamps = IF @ = <<>> THEN @ ELSE Front(@)]
           IN IF failures < MaxFailures
              THEN [refunded EXCEPT !.mode = "requeueing"]
              ELSE [refunded EXCEPT !.mode = "completing", !.outcome = "blocked"]
      [] OTHER ->
           [r EXCEPT !.mode = "completing", !.failures = 0,
                     !.outcome = IF outcome = "failed" THEN "blocked" ELSE outcome]

\* What completeRunnerClaim() answers with an error.
Refuses(box, c) ==
    \/ c.items \notin box.claims
    \/ c.outcome # "no_action" /\ Max({item.depth : item \in ToSet(c.items)}) >= MaxDepth

----------------------------------------------------------------------------
(* The daemon *)

\* A message of a person, of an agent's tool call (depth 0), or of the orchestrator
\* (never to be answered by a machine).
OutsideSends(from, to, depth) ==
    /\ moves < MaxMoves
    /\ moves' = moves + 1
    /\ log' = Append(log, Message(from, to, Len(log) + 1, depth, FALSE, {}))
    /\ UNCHANGED <<cursor, inbox, calls, runner, wired, frame, read, answered, lost, faults>>

\* receive(), one event of the batch.
Receive(s) ==
    LET n    == cursor[s] + 1
        e    == log[n]
        kept == Enqueue(inbox[s], Item(n, e))
    IN
    /\ n \in Events
    /\ cursor' = [cursor EXCEPT ![s] = n]
    /\ IF RoutedTo(e, s)
       THEN /\ inbox' = [inbox EXCEPT ![s] = kept]
            /\ lost' = [lost EXCEPT ![s] = @ \cup ((Pending(inbox[s]) \cup {n}) \ Pending(kept))]
            /\ frame' = [frame EXCEPT ![s] = @ \/ (wired[s] /\ ShouldWake(e))]
       ELSE UNCHANGED <<inbox, lost, frame>>
    /\ UNCHANGED <<log, calls, runner, wired, read, answered, moves, faults>>

\* The agent's own hook, in a turn of a runner or not: drainInbox().
HookReads(s) ==
    /\ inbox[s].pending # <<>>
    /\ inbox' = [inbox EXCEPT ![s] = Consume(@)]
    /\ read' = [read EXCEPT ![s] = @ \cup Pending(inbox[s])]
    /\ UNCHANGED <<log, cursor, calls, runner, wired, frame, answered, lost, moves, faults>>

\* The answer to a completion, if its runner still waits for it.
Answered(r, items) ==
    IF r.mode = "awaiting" /\ r.items = items
    THEN [r EXCEPT !.mode = "draining", !.items = <<>>]
    ELSE r

ReplyTo(s, c) ==
    LET first == c.items[1]
    IN Message(s, first.from, first.conversation,
               1 + Max({item.depth : item \in ToSet(c.items)}),
               c.outcome = "blocked", {item.seq : item \in ToSet(c.items)})

\* completeRunnerClaim(): the authority has taken the reply, ...
ReplyApplied(s, c) ==
    /\ c \in calls[s]
    /\ ~c.sent
    /\ log' = Append(log, ReplyTo(s, c))
    /\ calls' = [calls EXCEPT ![s] = (@ \ {c}) \cup {[c EXCEPT !.sent = TRUE]}]
    /\ UNCHANGED <<cursor, inbox, runner, wired, frame, read, answered, lost, moves, faults>>

\* ... and says so: only now the claim is given up.
ReplyAcknowledged(s, c) ==
    /\ c \in calls[s]
    /\ c.sent
    /\ calls' = [calls EXCEPT ![s] = @ \ {c}]
    /\ inbox' = [inbox EXCEPT ![s] = Complete(@, c.items)]
    /\ answered' = [answered EXCEPT ![s] = @ \cup {item.seq : item \in ToSet(c.items)}]
    /\ runner' = [runner EXCEPT ![s] = Answered(@, c.items)]
    /\ UNCHANGED <<log, cursor, wired, frame, read, lost, moves, faults>>

FaultyUnanswered(box, c) == Requeue(box, c.items)

\* What is left of a claim whose reply could not be submitted: it stays claimed.
Unanswered(box, c) == box

\* The submit rejects, its event in the room or not. The error that the
\* runner gets ends it.
ReplyFails(s, c) ==
    /\ c \in calls[s]
    /\ faults < MaxFaults
    /\ faults' = faults + 1
    /\ calls' = [calls EXCEPT ![s] = @ \ {c}]
    /\ IF runner[s].mode = "awaiting" /\ runner[s].items = c.items THEN Exits(s) ELSE UNCHANGED <<runner, wired, frame>>
    /\ inbox' = [inbox EXCEPT ![s] = Unanswered(@, c)]
    /\ UNCHANGED <<log, cursor, read, answered, lost, moves>>

\* The inbox is in memory, the cursor on disk.
DaemonRestarts(s) ==
    /\ faults < MaxFaults
    /\ faults' = faults + 1
    /\ inbox' = [inbox EXCEPT ![s] = EmptyInbox]
    /\ lost' = [lost EXCEPT ![s] = @ \cup Pending(inbox[s]) \cup Held(inbox[s])]
    /\ calls' = [calls EXCEPT ![s] = {}]
    /\ wired' = [wired EXCEPT ![s] = FALSE]
    /\ frame' = [frame EXCEPT ![s] = FALSE]
    /\ runner' = [runner EXCEPT ![s] = IF @.mode = "awaiting" THEN Down ELSE @]
    /\ UNCHANGED <<log, cursor, read, answered, moves>>

----------------------------------------------------------------------------
(* The runner *)

\* One runner per session: the lock is free, or the process it names is gone.
CanLock(s) == runner[s].mode = "down"

\* start(). (The first turn, on a prompt of the user's, claims nothing and comes before
\* the subscription.)
Starts(s) ==
    /\ s \in Managed
    /\ CanLock(s)
    /\ moves < MaxMoves
    /\ moves' = moves + 1
    /\ runner' = [runner EXCEPT ![s] = [Down EXCEPT !.mode = "idle"]]
    /\ UNCHANGED <<log, cursor, inbox, calls, wired, frame, read, answered, lost, faults>>

Up(r) == r.mode # "down" /\ ~r.stopped

\* onWake(): every connection begins with a look at the inbox.
Connects(s) ==
    /\ Up(runner[s])
    /\ ~wired[s]
    /\ wired' = [wired EXCEPT ![s] = TRUE]
    /\ runner' = [runner EXCEPT ![s] = Scheduled(@, 0)]
    /\ UNCHANGED <<log, cursor, inbox, calls, frame, read, answered, lost, moves, faults>>

WakeArrives(s) ==
    /\ frame[s]
    /\ frame' = [frame EXCEPT ![s] = FALSE]
    /\ runner' = [runner EXCEPT ![s] = Scheduled(@, 0)]
    /\ UNCHANGED <<log, cursor, inbox, calls, wired, read, answered, lost, moves, faults>>

ConnectionLost(s) ==
    /\ wired[s]
    /\ faults < MaxFaults
    /\ faults' = faults + 1
    /\ wired' = [wired EXCEPT ![s] = FALSE]
    /\ frame' = [frame EXCEPT ![s] = FALSE]
    /\ UNCHANGED <<log, cursor, inbox, calls, runner, read, answered, lost, moves>>

TimerFires(s) ==
    /\ runner[s].timer = 0
    /\ runner' = [runner EXCEPT ![s].timer = None, ![s].mode = "draining"]
    /\ UNCHANGED <<log, cursor, inbox, calls, wired, frame, read, answered, lost, moves, faults>>

\* One round of the loop in drain(): claim, and ask the limiter.
DrainEnds(s) ==
    /\ runner[s].mode = "draining"
    /\ runner[s].stopped \/ Eligible(inbox[s]) = {}
    /\ runner' = [runner EXCEPT ![s] = Drained(@)]
    /\ UNCHANGED <<log, cursor, inbox, calls, wired, frame, read, answered, lost, moves, faults>>

DrainClaims(s) ==
    /\ runner[s].mode = "draining"
    /\ ~runner[s].stopped
    /\ Eligible(inbox[s]) # {}
    /\ inbox' = [inbox EXCEPT ![s] = Claim(@)]
    /\ runner' = [runner EXCEPT ![s] = TryAcquire([@ EXCEPT !.items = Claimed(inbox[s])])]
    /\ UNCHANGED <<log, cursor, calls, wired, frame, read, answered, lost, moves, faults>>

\* The claim goes back, after a refusal of the limiter, a turn that never started, or
\* a turn that stop() has cut off. A claim the daemon does not know ends the process.
Requeues(s) ==
    /\ runner[s].mode \in {"refused", "requeueing"}
    /\ inbox' = [inbox EXCEPT ![s] = Requeue(@, runner[s].items)]
    /\ IF runner[s].items \in inbox[s].claims
       THEN /\ runner' = [runner EXCEPT ![s] = Drained(Scheduled(@, RetryAfter(@)))]
            /\ UNCHANGED <<wired, frame>>
       ELSE Exits(s)
    /\ UNCHANGED <<log, cursor, calls, read, answered, lost, moves, faults>>

\* handleClaim(), from the end of the host's turn to its next call to the daemon.
TurnEnds(s, outcome) ==
    /\ runner[s].mode = "turn"
    /\ runner' = [runner EXCEPT ![s] = AfterTurn(@, outcome)]
    /\ UNCHANGED <<log, cursor, inbox, calls, wired, frame, read, answered, lost, moves, faults>>

\* The call of complete(), up to the daemon's own await.
Completes(s) ==
    LET r == runner[s]
        c == [items |-> r.items, outcome |-> r.outcome, sent |-> FALSE] IN
    /\ r.mode = "completing"
    /\ CASE Refuses(inbox[s], c) ->
              Exits(s) /\ UNCHANGED <<inbox, calls, answered>>
         [] ~Refuses(inbox[s], c) /\ c.outcome = "no_action" ->
              /\ inbox' = [inbox EXCEPT ![s] = Complete(@, c.items)]
              /\ answered' = [answered EXCEPT ![s] = @ \cup {item.seq : item \in ToSet(c.items)}]
              /\ runner' = [runner EXCEPT ![s].mode = "draining", ![s].items = <<>>]
              /\ UNCHANGED <<calls, wired, frame>>
         [] OTHER ->
              /\ calls' = [calls EXCEPT ![s] = @ \cup {c}]
              /\ runner' = [runner EXCEPT ![s].mode = "awaiting"]
              /\ UNCHANGED <<inbox, answered, wired, frame>>
    /\ UNCHANGED <<log, cursor, read, lost, moves, faults>>

\* stop(): the timer is off, the subscription closed and the host killed. What drain()
\* has begun is finished before the process unregisters and gives the lock back.
Stops(s) ==
    /\ Up(runner[s])
    /\ runner' = [runner EXCEPT ![s].stopped = TRUE, ![s].timer = None]
    /\ wired' = [wired EXCEPT ![s] = FALSE]
    /\ frame' = [frame EXCEPT ![s] = FALSE]
    /\ UNCHANGED <<log, cursor, inbox, calls, read, answered, lost, moves, faults>>

StopEnds(s) ==
    /\ runner[s].stopped
    /\ runner[s].mode = "idle"
    /\ Exits(s)
    /\ UNCHANGED <<log, cursor, inbox, calls, read, answered, lost, moves, faults>>

\* A call to the daemon fails or times out, having been carried out or not (Dies comes
\* before or after that step), or somebody kills the process.
Dies(s) ==
    /\ runner[s].mode # "down"
    /\ faults < MaxFaults
    /\ faults' = faults + 1
    /\ Exits(s)
    /\ UNCHANGED <<log, cursor, inbox, calls, read, answered, lost, moves>>

Tick ==
    /\ \E s \in Sessions : runner[s].timer > 0 \/ runner[s].stamps # <<>>
    /\ runner' = [s \in Sessions |-> Older(runner[s])]
    /\ UNCHANGED <<log, cursor, inbox, calls, wired, frame, read, answered, lost, moves, faults>>

----------------------------------------------------------------------------

DaemonStep(s) ==
    \/ Receive(s)
    \/ \E c \in calls[s] : ReplyApplied(s, c) \/ ReplyAcknowledged(s, c)

RunnerStep(s) ==
    \/ Connects(s) \/ WakeArrives(s) \/ TimerFires(s)
    \/ DrainEnds(s) \/ DrainClaims(s) \/ Requeues(s)
    \/ \E outcome \in Outcomes : TurnEnds(s, outcome)
    \/ Completes(s) \/ StopEnds(s)

UserStep(s) ==
    \/ \E to \in Sessions \ {s}, depth \in {0, MaxDepth} : OutsideSends(s, to, depth)
    \/ HookReads(s) \/ Starts(s) \/ Stops(s)

FaultStep(s) ==
    \/ ConnectionLost(s) \/ DaemonRestarts(s) \/ Dies(s)
    \/ \E c \in calls[s] : ReplyFails(s, c)

RunnerNext ==
    \/ \E s \in Sessions : DaemonStep(s) \/ RunnerStep(s) \/ UserStep(s) \/ FaultStep(s)
    \/ Tick

\* Timers fire, what the daemon has to do it does, and a running process goes on. No
\* process is started, and nobody writes or reads anything, because of this. All of it is
\* finite between two steps from moves, so one fairness covers it.
RunnerFairness == WF_vars(Tick \/ \E s \in Sessions : DaemonStep(s) \/ RunnerStep(s))

RunnerSpec == RunnerInit /\ [][RunnerNext]_vars /\ RunnerFairness

----------------------------------------------------------------------------
(* Properties *)

\* The type invariant.
RunnerTypeOK ==
    /\ \A s \in Sessions :
         /\ cursor[s] \in 0..Len(log)
         /\ Pending(inbox[s]) \cup Held(inbox[s]) \cup read[s] \cup answered[s] \cup lost[s] \subseteq Events
         /\ {c.items : c \in calls[s]} \subseteq inbox[s].claims
         /\ {c.outcome : c \in calls[s]} \subseteq {"acted", "blocked"}
         /\ runner[s].mode \in {"down", "idle", "draining", "refused", "turn", "requeueing", "completing", "awaiting"}
         /\ runner[s].items = <<>> <=> runner[s].mode \in {"down", "idle", "draining"}
         /\ runner[s].failures \in 0..MaxFailures
         /\ {runner[s].timer, runner[s].delay} \subseteq None..Max({Window, MaxBackoff})
         /\ Len(runner[s].stamps) <= MaxWakes /\ ToSet(runner[s].stamps) \subseteq 0..Window - 1
         /\ wired[s] => Up(runner[s])
         /\ frame[s] => wired[s]
    /\ moves \in 0..MaxMoves /\ faults \in 0..MaxFaults

Received(s) == {n \in 1..cursor[s] : RoutedTo(log[n], s)}

\* Every message a daemon has received for its agent is in exactly one place: it waits,
\* is held by one claim, was read, was answered, or is lost (inbox.ts, claim to consume).
InOnePlace ==
    \A s \in Sessions :
        LET places == <<Pending(inbox[s]), Held(inbox[s]), read[s], answered[s], lost[s]>>
        IN /\ UNION ToSet(places) = Received(s)
           /\ \A i, j \in DOMAIN places : i # j => places[i] \cap places[j] = {}
           /\ Cardinality(Pending(inbox[s])) = Len(inbox[s].pending)
           /\ \A a, b \in inbox[s].claims : a # b => ToSet(a) \cap ToSet(b) = {}

\* No message gets two automatic replies, whatever calls fail or time out and whichever
\* process dies in between (completeRunnerClaim and drain()).
AnsweredOnce ==
    \A m, n \in Events : m # n /\ log[m].from = log[n].from => log[m].answers \cap log[n].answers = {}

\* Two runners that answer each other come to an end: what a runner may claim can still
\* be answered within MAX_AUTOMATION_DEPTH, so no completion is refused for it
\* (shouldWake in inbox.ts, the depth check in daemon.ts), and no reply exceeds it.
RepliesFit ==
    /\ \A s \in Sessions : \A items \in inbox[s].claims : \A item \in ToSet(items) : item.depth < MaxDepth
    /\ \A n \in Events : log[n].depth <= MaxDepth

\* A runner that stays up comes to rest with nothing left that should have woken it:
\* wake frames while it is busy, retries, refusals of the limiter and lost connections
\* leave no message waiting (schedule, drain and onWake).
WakesAreServed ==
    \A s \in Managed : []<>(Up(runner[s]) => runner[s].mode = "idle" /\ Eligible(inbox[s]) = {})
=============================================================================
