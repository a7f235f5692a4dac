# Agentigram in TLA+

Agentigram coordinates coding agents that work on one repository from several
laptops. This directory models it: the room, whose log orders everything, the
negotiations in which agents settle their collisions, how both reach the laptops,
how collisions are noticed and avoided, the agents that messages wake, and the
programs around the room. The models are translated from the TypeScript and
JavaScript sources; the comments in the modules name the functions they stand for,
and `PROJECT.json` maps definitions to lines.

## 1. The system

One laptop is the **authority**. It alone writes the room's log. Every event,
from whichever laptop, is submitted to it, gets the next `seq` and a timestamp,
is reduced into the room state, stored, and published to all. (A room may also be
hosted: then a Durable Object is the authority.)

| Component | State | Operations | Talks to | Modules |
|---|---|---|---|---|
| Room core (`apps/coordinator/src/room-core.ts`) | room state, `lastTs` | `submit`, `derive`, `heartbeat`, `expireLeases`, `expireSessionLeases`, `endSession`, `hydrate` | called by the transports; calls reducer and store | `RoomCore`, `LeaseTable` |
| Reducer (`packages/reducer`) | none, pure | `reduce(state, event)`: sessions, leases, collisions, negotiations, contracts, markets | the authority and every replica | `RoomCore`, `Negotiation`, `CollisionWatch`, `Planner`, each its part |
| Event store (`file-event-store.ts`) | events and ids in memory, `events.jsonl`, `snapshot.json` | `append`, `saveSnapshot`, `after`, `getById` | disk | `RoomCore` |
| Authority transport (`authority-transport.ts`) | peers, expiry timer, `announcing` | submits in the name of a client, a human or the room; publishing; collision announcements | room core, P2P server, local daemon | `RoomCore`, `Replication`, `CollisionWatch` |
| P2P server and transport (`packages/p2p`) | replicated log, cursor, pending submits | publish, replay, HELLO/WELCOME, ACK, close | laptops | `Replication` |
| Laptop daemon (`daemon.ts`) | replica of the room state, inbox, cursor | hooks, tools, human actions, `receive`, `claimFiles`, `editDenial` | agent hosts, transport | spread over the modules of what it takes part in |
| Orchestrator (`orchestrator/orchestrator.ts`, `debate.ts`) | `seen`, the tail of queued debates, the running debate | `handle`, `resume`, `debate`, `synthesise`, `conclude` | the authority's daemon, a language model | `Orchestrator` |
| Freeze guard (`orchestrator/freeze.ts`), collision detection (`collide.ts`) | none, pure | `freezeDenial`, `detectCollisions` | hooks, authority transport | `CollisionWatch` |
| Planner (`orchestrator/planner.ts`, `plan.ts`) | fingerprint, timer, current plan | debounce, brief, compose, claim | the authority's daemon, a language model | `Planner` |
| Inbox and managed runner (`inbox.ts`, `runner/`) | pending items, claims, limits, lock file | claim, complete, requeue, drain | daemon over IPC, agent host processes | `WakeInbox`, `ManagedRunner` |
| Hosted room (`room-do.ts`, `room-client.ts`, `apps/web/lib`) | the same core in a Durable Object, sockets, one alarm | HELLO, submit, close, alarm | browsers, daemons | `HostedRoom` |
| Hooks and adapters (`cli.ts`, `fail-closed.ts`, `packages/adapters`, `watcher.ts`) | sessions met, models reported, the watcher | before, after, session and turn hooks; flush | agent hosts, daemon | `HostHooks` |
| Installation and commands (`install.ts`, `cli.ts`) | an installation record per repository, the hosts' configuration, a daemon process | create, join, leave, daemon | file system, daemon | `Laptop` |
| Terminal (`apps/tui`) and desktop window (`apps/daemon/ui`) | panel, queue of spoken lines, worker threads, a subscription | draft, explain, send, dismiss; enqueue, pump, mute | daemon, model and speech workers | `RoomPanel`, `TerminalVoice`, `DesktopVoice`, `LineQueue` |
| Speculative merge worker (`apps/specmerge`) | a temporary worktree per request | merge, type-check, test, remove | git, tsc, vitest | `SpecMerge` |
| League (`packages/league`) | a book of markets, balances, holdings | trade, close, resolve, void, refund | the room's events | `League` |
| Analysis, contracts compiler, MCP tables, GitHub app, stats, report, personas, narration, simulator | derived data | | | not modelled, see section 6 |

What is hard here:

- *Concurrency.* Handlers of the core are synchronous, but everything around
  them awaits: the orchestrator and the planner await a model and their own
  events; publishing and announcing await each other; clients act on replicas that
  lag; two daemons, their runners and their users interleave.
- *Failure.* The authority crashes between two appends, the disk refuses a
  write, the clock steps back, an acknowledgement is lost and the client retries,
  a runner dies with a claim, a command is killed between two files, an external
  program hangs.
- *Time.* Leases and negotiations have deadlines that race renewals and
  decisions; hooks give up waiting; one alarm serves all leases; wakes are limited
  by the hour.

What makes the components correct: leases are exclusive and end; tokens fence
writes off; a retry is applied once; a restart loses nothing; the freeze of
contested files lifts only by consent and lifts in the end; the contract ledger
holds what was agreed; agents that meet on a file share a collision; the planner
overrules nobody knowingly; a message is answered once; a stream is whole; no
answer means no edit; what was installed goes without a trace. `PROJECT.json` lists
the hazards one by one, with the properties that cover them.

## 2. The modules

| Module | Models |
|---|---|
| `LeaseTable` | abstract: what the room promises about leases |
| `RoomCore` | room core, store, the session and lease part of the reducer, crash and recovery |
| `Negotiation` | the negotiation and contract part of the reducer; who sends what |
| `Orchestrator` | extends `Negotiation` with the orchestrator and the replica it reads |
| `Replication` | how the log reaches a peer laptop: Hypercore, frames, WELCOME, reconnects, restarts |
| `CollisionWatch` | read sets, write sets and intents; detection and announcing; the guard and the claims |
| `Planner` | the planner at the authority, over sessions and leases that move on |
| `WakeInbox`, `ManagedRunner` | the inbox as a value; two daemons and two runners around it |
| `HostedRoom` | instantiates `RoomCore`'s operators in a Durable Object with its clients |
| `LineQueue` | the queue that both voices keep; `TerminalVoice`, `DesktopVoice` extend it |
| `RoomPanel`, `Laptop`, `HostHooks`, `SpecMerge`, `League` | one program each |
| `LaptopPrograms` | the last seven programs side by side |
| `MC...` | values of the constants for TLC |
| `Subsequences` | what `filter` keeps of a list, for `WakeInbox`, `Planner` and `HostedRoom` |
| `RoomCoreProofs`, `OrchestratorProofs`, `ReplicationProofs`, `CollisionProofs`, `RunnerProofs`, `HostedRoomProofs`, `ProgramProofs` | theorems, of one module or composition each; `OrchestratorProofs` has the planner's too |
| `SubsequenceTheorems` | theorems about `Subsequences`, ascending lists, and least and greatest elements, for the last six |

Definitions named `Faulty...` belong to no model. Each is a mistake that the
definition after it could have been written with, and is there to show that the
property it is paired with would notice.

### RoomCore

`room` is `RoomCore.state`, `log` the store's array of events, `durable` how many
of them the file has, `snap` the snapshot file. A handler appends a first event
and then those that follow from it; since every append is a durable write of its
own and a crash may fall between two, an append is a step and `todo` holds what
the running handler still owes. No other handler starts before `todo` is empty
(`Idle`): the code is synchronous. `hist` is a history variable, the room after
each entry of the log, which the properties compare with.

`AppendEvent` is `append()` as a whole: stamp, reduce, store, snapshot.
`StoreFails` is the same when the write throws, in the order the store does
things: the array has the event, the file and the room do not. `Crash` keeps what
is on disk and starts `hydrate()`, which `Replay` continues one event at a time.

Abstractions. A lease is named by its fencing token (both come from the seq of
the request). All requests have one TTL. Message validation and authorisation
decide who may send what; here they are the quantifiers of `ClientStep`. Writing a
file is all or nothing (the code writes a temporary file and renames it), and a
crash never falls between storing an event and writing its snapshot: recovery
from the older snapshot gives the same room. The bounds `MaxSeq`, `ClientsUntil`,
`MaxNow` and `MaxFaults` are on clients, time and faults only; the authority's own
work is never cut off.

`RoomCore` has no events with the system origin except those of a disconnect and
heartbeats. The planner grants leases that way, past the conflict check; that is in
`Planner`, and what is shown about leases here is about leases that clients ask for.

### Negotiation and Orchestrator

In `Negotiation` a step is an event of the log, and `now` its timestamp. `Swept` is
the escalation of timed-out negotiations that `reduce` does before every event;
each operator after it is one case of `applyEvent`. An event that concerns
neither negotiations nor contracts still sweeps (`OtherEvent`). `AgentMove`,
`HumanMove` and `WorkerMove` come from outside, at any time and about any
collision, because a client acts on what it saw earlier. `ACCEPT` names no
contract; `consent` records the contract that was on the table when it was applied.

`Orchestrator` adds `debate()`. What it does between two awaits is a step. `Emits`
is `await emit(...)`: the event is applied and the replica `view` has it when the
debate goes on. Others' events reach `view` later (`Deliver`), in the order of the
log. The model may answer anything that `debate.ts` lets through, which is any
contract on the symbol it was given. `DebateFails` is a submit that throws, caught
in `enqueue`; `Restart` is a new process that calls `resume()`.

Abstractions. A contract is a model value, and its compiled id is the contract
itself (the id is a digest). `queue` is a set: any waiting collision may be next,
the first in line among them. Spoken lines are `OtherEvent`s. A passing merge is
reported for any set of sessions. What the collision is about matters only to
which contracts may be proposed.

### Replication

The authority logs an event at once and appends it to a Hypercore when its turn
comes (`publishing`), then sends it as a frame to whoever is connected. A peer
hears of it by WELCOME, which carries the whole room state, by a frame, or by
reading the replicated Hypercore whenever it grows (`replays` holds the calls of
`replay()` that await blocks). `cursor` is the transport's position, `saved` the
one on disk, `room` the daemon's state: `lastSeq`, and the events that went into
it. A connection (`conn`) has two ends, each open until its own close callback
has run, and two queues of messages. A callback may come long after the
connection broke and after the next one is up; `Connects`, `AuthorityAttaches`,
`PeerCloses` and `AuthorityCloses` therefore interleave over connections, and `peers`
is the server's table, keyed by the peer's process (`proc`, its Noise key).
`PeerRestarts` keeps the saved cursor and the copy of the Hypercore,
`AuthorityCrashes` keeps log and Hypercore but not what is between the two.

Abstractions. An event is its seq; of its content the log keeps whether it starts
or ends the peer's session. The peers meet only in the log, so one peer is
modelled and the others are `OthersSubmit`. WELCOME and the events after it are
sent in one step, as `receive` does without an await. The swarm keeps one stream
per key and gives up an older one before it reports a newer; a block does not
overtake a WELCOME in the same stream. Both are what Hyperswarm and Protomux do,
modelled from how the code uses them. Left out: ACK and the promises of pending
submits, heartbeats, capability checks, malformed messages, the graceful leave, and
the re-creation of the Hypercore.

The server listens before `start()` looks at what a crash kept from the Hypercore
(`server.ts:65`, `authority-transport.ts:65`), and so does the model: while `phase` is
"starting" peers attach, say HELLO and submit. Two orders go wrong (section 4). An event logged
before `Starts` goes to the Hypercore ahead of what was lost, and one still on its way when
`Starts` looks is appended twice. The history variable `raced` records that either has
happened; what depends on the history being the log is claimed until then, everything else
always. `MaxStray` bounds the blocks that a peer replicates of a history that is not the log.

### CollisionWatch

An event is applied to `room` when it is submitted and published later in the order
of the log (`publishing`, each event with the room after it). `PublishEvent` and
`PublishCollision` are turns of `publish()`: the local daemon has the event, detection
runs on the room as it is by then, and what it finds waits in `candidates` behind the
flag `announcing`, to be submitted one by one. `view` is what a remote daemon knows; its guard (`FreezeDenial`, the two
rules of `freezeDenial`) and `claimFiles` read that. A tool that was let through has not written
yet (`writing`); the hook after it or the watcher reports the write, the watcher not
within five seconds of the hook (`recent`). A negotiation is only what the guard tells
apart: open, agreed, verified. A path is a number in the sorted order; a symbol is a
pair of its file and a number.

### Planner

`step` is where `plan()` stands between two awaits: composing with a model, publishing an
INTENT, a grant or the text. What it carries, the brief above all, is as old as when it
was made; `late` records what has happened since, `overruled` what the planner has
overwritten that it could have known, `stale` that the last run was given up. Intents
and leases change as the reducer has it, in `Declares`, `Requests`, `Frees`, `Intends`
and `Grants`. A model answers with any of `Drafts` or with nothing.

### WakeInbox and ManagedRunner

`WakeInbox` is `inbox.ts` as operators on a value. `ManagedRunner` has one daemon and
one runner for each session: `Completes` is the call, `ReplyApplied` and
`ReplyAcknowledged` are what it awaits, and between them the runner may give up,
die, or be started again. `Dies` is a call that throws, before or after it took effect, or a kill:
nothing in `drain()` catches either.
`stamps` holds the starts of the last hour, as ages. A crash of a daemon empties its
inbox, which lives in memory.

### HostedRoom

The room's rules are `RoomCore`'s operators, by INSTANCE; every handler of the Durable
Object is one step, for its store is synchronous. A socket is a record with frames on
their way in both directions; the client's end and the object's end close at
different times. `position` is what a client would resume from, `taken` what it has
been given. The clients are a daemon's `RoomClient`, the dashboard's stream and
the short-lived sockets of the buttons. `pending` is the `RoomClient`'s map of submits without an
answer; its keys are in the order the submits were made, and so are the numbers that stand for their
ids, so `Unacknowledged`, what a new connection sends again, goes by the number.

`OnSubmit` answers a known id with another ACK, commits what `authorizeSubmit` and the fence let
through (`Authorized`, `PassesFence`), and answers the rest with an ERROR that commits nothing. Either answer
takes the submit out of `pending` (`Unsettled`) and ends what a button waits for. The history variable
`refused` has the ids of the submits that got an ERROR. The room begins with sessions that have started
and a lease that was granted (`Begun`), so a write may be fenced, may carry a token that has
gone stale, or may belong to nobody's lease. `RouteEvent` sends a write to the sessions that wrote to its path
since they started, and grants and denials to nobody: they go to those who declared an interest in a
symbol, and in this model nobody does.

`Submitted` and `Expire` are the handlers' loops of appends: `Stamped` numbers the events,
`Reduced` is the list of states the room goes through with them, `Appended` the table, the state
and its history afterwards. `EventsSince` is the loop of `welcome()`, in which a batch
that has nothing for the client is left out.

### The programs around a room

`LaptopPrograms` is a disjoint union: `part` chooses one program and the others rest.
They share no state, so nothing is lost by not interleaving them, and one run
asks one question of all: whatever fails, does it come out as promised?

- `TerminalVoice`: the pump of `speech/index.js` with its worker and its player process;
  a promise that is settled has a continuation that has not run yet (`over`).
  `DesktopVoice`: the same queue over a browser that calls back late or never, with a
  generation number.
- `RoomPanel`: one collision on the panel, a request id, a worker that answers when it
  likes. A text is abstracted to the collisions it was asked about. The
  subscription has streams in several states, since a replaced one closes late.
- `Laptop`: a command is the list of steps it has left, so it can be killed between any
  two. A file is its content, the user's or Agentigram's. Two repositories share
  one file (`~/.claude.json`). Daemons have a stage from starting to gone, and the socket
  file leads to the last that bound it.
- `HostHooks`: a tool call runs through before-hook, tool, git's own hook and
  after-hook. `aWord` is what the hook said: the daemon's word, no answer (which for an
  edit is a refusal), or nothing at all, when the host or the daemon broke off. What the hosts' adapters
  read as paths is modelled per host and kind of tool: `PatchPaths` leaves out where Codex moves a
  file to (`moved`). `Watched` are the files under the directory the session was started in, without its `.git`,
  `node_modules`, `dist` and `.next`; only of those does `RunTool` let the watcher hear (`Seen`). The
  session is taken to start in the repository's root.
- `SpecMerge`: each of the external commands ends well, badly or by its timeout, or is broken: it
  never starts, or something else kills it. `runCommand` returns a plain exit code then, so the model goes on as after
  a failure, and only `mBroken`, a history variable, knows. What the output parses to is a choice. Deleting the
  directory may throw, which replaces the answer by an error and leaves the directory.
- `League`: every exported operation on a book, in any order. `Close` and `Decide` are `closeLeagueMarket` and
  `settleMarket` by themselves, whatever the status of the market; `gVerified` remembers which markets an authoritative
  result has settled. The cost function is a table over whole shares, computed from the market maker's formula in `MCLaptopPrograms`.

## 3. What the runs check

`tlc -config X.cfg M` with module and configuration as in `PROJECT.json`. All runs
switch deadlock checking off because the bounds end every behaviour. States are
rounded.

| Run | Question | Instance | Distinct states |
|---|---|---|---|
| `room_core` | do interleaved clients keep leases and fences right? | 2 sessions, 2 keys of one file, 5 client events, no faults | 0.8 M |
| `room_core_recovery` | and over a crash, with the clock set back? | 1 crash anywhere, clock anywhere back | 1.1 M |
| `room_core_live` | do leases end although writes fail and the process crashes? | 2 faults | 0.3 M |
| `orchestrator` | is a negotiation settled, and by consent, whoever moves? | 1 collision, 2 contracts, 2 agent moves, 1 human decision, 1 merge, 1 fault | 0.4 M |
| `orchestrator_pair` | do two negotiations over one symbol stay apart, and does each get its turn? | 2 collisions with swapped roles, 1 human decision, 1 fault | 0.15 M |
| `replication` | is a replica exact and complete, and does a rejoined session stand, whatever overtakes what? | 2 connections, 1 fault anywhere, the events of the peer's own sessions, 1 event of others, 1 block of a history that is not the log | 0.8 M |
| `runner` | is each message in one place and answered once, and each wake served? | 2 managed sessions, an inbox of 1, automation depth 2, 1 wake per window, 3 moves, 1 fault | 0.7 M |
| `collisions` | do agents that meet on a file share a collision? | 3 agents, one of them remote, 1 file, 1 symbol, text that names 1 hit, 3 events | 1.9 M |
| `collisions_refusal` | can what the guard refuses always be released? *(no, see section 4)* | 2 agents at the authority, 1 file, 1 symbol, 3 events | |
| `planner` | does the planner overrule only what it cannot know, and come to rest? | 2 agents, 1 file, 1 symbol, 1 preference of the model's, 2 moves | 0.3 M |
| `hosted` | is every client's stream whole, every lease covered by the alarm, and every submit logged once, in its turn, or refused, and kept until it is? | 1 daemon, 1 dashboard, 1 button, 2 sockets, replays of 2, 2 things sent | 2.4 M |
| `laptop_programs` | do the programs around a room keep their promises when parts of them fail? | see below | 0.7 M |

Why these bounds are enough to see what matters.

- Two sessions and two keys that share a file give conflicts in part, fencing against
  the first of several leases, and an expiry that frees one lease and not the other. Five
  events from outside, with what follows from them, hold a grant, a release, a second
  grant and a write under the old token; a snapshot every two events puts snapshots and
  crashes in every position to each other. A TTL of two ticks with a heartbeat
  interval of one lets a renewal fall before, at and after the deadline.
- In the negotiations a `MaxRounds` of 2 (the code has 3) has a counter that is still a
  counter and one that escalates, and a debate that counters once and then merges;
  two agent moves and a human's suffice to replace a contract between an accept and
  the next.
- In `Replication` a fault costs a connection, so two connections hold one fault: the old
  connection's two late callbacks and its successor, before and after a restart of
  either process. The proofs cover any number of both. Sessions start and end on each
  connection, which gives events enough to have gaps between; one event by others
  arrives while nobody listens. After a crash of the authority these are also what
  overtakes `start()` and what it overtakes, and one stray block shows a peer a history that is not the log.
- In `ManagedRunner` an inbox of one overflows at the second message and has a requeue
  go past it; depth 2 has an answer and an answer's answer, and one more that must
  not wake anybody; one wake per window has the limiter refuse.
- In `CollisionWatch` three agents are two that meet and one whose collision is being announced
  at the time. Agents may begin with everything read, so three events are three after
  that. A text of one hit leaves hits unnamed.
- In `Planner` the draft prefers the session that comes last in the order and has perhaps not
  touched the file, so a preference both overrides the order and is rejected.
- In `HostedRoom` two sockets are one client's resumption while its first socket is closing, or two
  clients at once; a replay of two events per frame has one that ends in the middle, for the log has three events
  before anybody connects. `MaxMoves` counts only what clients send and losses are bounded by the sockets, so two
  submits, a lost connection and both sent again while the old connection still delivers them is within the
  bounds, one of them or both being refused. Clients act before the lease is due, and the time after it is the
  alarm's. The proofs cover any number.
- `laptop_programs`: three lines of three priorities with a queue of one; two collisions
  and three keys on the panel, one broken stream; two repositories that share a file, two
  joins, one kill of a command or daemon, one edit by the host; with each of four hosts, one death of
  the daemon and two other hooks, one of three calls: a patch that moves a file, a shell command that moves what it
  commits, and a build that rewrites a source file, makes one file where the watcher does not look, and
  prints into another one there; three merge requests; two members and two markets, three trades, two other
  events, closing and settling among them.

Fairness. `RoomCore`: a handler that has begun is finished, a process that died is
started again and hydrates, the expiry poll is an interval timer, time passes.
Nothing is assumed of clients, heartbeats or connections. `Orchestrator`: time
passes, some event always comes (the authority's daemon sends a heartbeat on a
timer), what is published arrives, and a debate waits for timers and answers only
(the model call falls back to a scripted turn). Nothing is assumed of agents,
humans and workers. The weak fairness of `DebateStep` stands for a promise chain
that goes on. `Replication`: appends to the Hypercore end, frames on a connection
that stays up arrive, close callbacks run, the swarm connects again, a process that
died is started. One weak fairness of all of these together is enough, for each
happens finitely often between two other steps. Nothing is assumed of the
Hypercore's replication: frames and WELCOME alone bring every event.
`ManagedRunner`: timers fire, the daemon handles what it is asked, a running process goes on; nobody
starts a process, writes or reads because of it, and a wake frame on a live
connection arrives. `Planner`: timers fire and a plan begun goes on, for
its await of the model ends in an answer or a failure. `LaptopPrograms`: continuations and timers of
an event loop run, a player process ends, the browser ends the line it is
saying, and a worker that is up comes to an end with its model and with each
request; nothing is assumed of a worker that has died. `CollisionWatch` and `HostedRoom`
are checked for safety only and have no fairness.

Properties:

- `ImplementsLeaseTable`, `LeaseExclusive`: no symbol in two leases; every step is a
  grant on free symbols under the newest token, or frees whole leases.
- `WritesFenced`: each write in the log was covered by no lease, or by a lease of
  the writer's whose token it carries.
- `NoEarlyExpiry`, `NoLeaseOutlivesItsSession`, `LeasesEnd`: leases end when they
  should, not before.
- `RecoversExactly`, `ExactlyOnce`, `TokensIncrease`, `RequestsAnswered`: restarts and
  retries.
- `ReleasedByConsent`: a collision's files are free only if all participants
  accepted the contract on the table, or a human decided on it.
- `LedgerIsAgreed`, `VersionsDistinct`: the ledger holds agreements, and the
  versions on a symbol tell its contracts apart.
- `NegotiationsSettle`, `NoneWaitsForever`: negotiations end, and every collision
  gets its debate.
- `HistoryIsTheLog`: block i of the Hypercore is event i + 1, over crashes between
  the two writes, until an event overtakes `start()`.
- `ReplicaIsExact`, `CatchesUp`: until then as well, a welcomed peer has no gap, goes over no event twice, and
  gets every event in the end. (`NeverBack`, that its room does not go back, is proved only, and without exception.)
- `RejoinStands`: the late close of a connection ends no session that has rejoined, before and
  after such a race.
- `InOnePlace`: every message a daemon received for its agent waits, is held by one claim,
  was read, was answered, or is known to be lost, and only one of these.
- `AnsweredOnce`, `RepliesFit`, `WakesAreServed`: no message gets two automatic replies
  over failing calls and deaths; nothing is claimed that could not be answered; a
  runner that stays up leaves nothing waiting that should have woken it.
- `WritersMeet`: two live agents that both wrote a file share a collision about it,
  though both were let through on replicas that lag.
- `ClaimantsMeet`: two that claim a file share a collision, unless the announcing guard
  had an event of theirs pass unseen, which is the price of that guard.
- `OpenedOnce`: no collision is submitted again while it is open.
- `OnlyLateNewsIsOverruled`: a declared intent is overwritten, a held key granted
  again, or an ended session granted one, only if that came after the brief.
- `PlanIsCurrent`, `ComesToRest`: at rest the plan is one for the room as it is; and
  although the planner's own intents trigger it, it does come to rest.
- `StreamsAreWhole`: up to its position a client has been given everything it is
  entitled to, once and in order, over resumptions on sockets that overlap.
- `AlarmCovers`: every lease has an alarm due no later than it expires, unless the
  last alarm found no socket and nothing was logged since.
- `SubmitsLandInOrder`: although every connection sends all that is unanswered again, while an
  old one may still deliver it, each submit is logged once, and no submit that waits is
  logged before an earlier one of its daemon that waits as well, unless the room has refused that one.
- `SubmitsAreKept`: a submit leaves `pending` only when it is in the log, when the room has refused it,
  or with its process, however often the connection is lost.
- `DraftsAreOwn`: what the panel shows and sends about a collision came from answers
  about that collision.
- `LeavesNoTrace`: without a record a repository is as before; with one it can be put
  back, wherever a command was killed.
- `FailsClosed`: no edit whose input names its files runs on the word of a hook that
  could not ask, nor against the daemon's word.
- `NoSilentWrite`: a change is told by the hook or the watcher or still will be, unless
  each has a reason not to, of those the property lists.
- `AnswersAccountForAll`: a merge answered with a result left no directory, and names every stage that
  did not run to its end and none that did, but for those whose command was broken.
- `ForecastsAreClosingPrices`: no trade or second close changes what a market's traders are scored on, and
  a market with an authoritative result scores all who traded in it and nobody else.
- `NothingHangs`: a line taken on is said, cut or dropped, and the panel does not wait for
  ever for a model that can answer.

The modules' type invariants (`TypeOK`, `TypesOK`, `RunnerTypeOK`, `CollisionTypeOK`,
`PlannerTypeOK`, `HostedTypeOK`) are kept as the record of what each variable holds, and for the proofs
(those of `RoomCore`, `Replication`, `CollisionWatch` and `HostedRoom` are proved); no run lists
them.

Some properties make exceptions, and each is a place where the code does not do better (next
section). `HistoryIsTheLog`, `ReplicaIsExact` and `CatchesUp` except what follows an event that overtook `start()`.
`SubmitsLandInOrder` excepts a refused submit, which may be let in later. `NoSilentWrite` lists what
neither hook nor watcher can see, `AnswersAccountForAll` broken commands. `LeavesNoTrace` excepts the
shared file once two repositories were joined at once. `NothingHangs` excepts a speech worker that is
down after its model had loaded, at any stage of a line; it says nothing of lines that such a worker leaves waiting,
whichever way they came to wait.

One property is weaker than the hazard it is listed for: `NegotiationsSettle` does not
depend on a debate's counters being right after a restart, for the deadline settles a negotiation whatever they say.

## 4. Where the code does not do what the repository says

One run ends in a counterexample, `collisions_refusal`; `PROJECT.json` quotes the line. An agent
declares a file over MCP; another reads it afterwards, which triggers no detection. The
first one's edit is refused by rule 2 of `freezeDenial`, `claimFiles` finds the file in its
intent already and does nothing (`daemon.ts:880`), and no collision is opened that
a human could release.

The rest was met while modelling, mostly as a counterexample to a property that
then had to say less, and has no run.

*Room core.*

- `FileEventStore.append` changes memory before the file (`file-event-store.ts:38`). After a
  failed write a retry is acknowledged and never applied, and its seq is used again
  (`ExactlyOnce` with `DiskFaults = TRUE`), against `spec.md:224`.
- A crash between `LEASE_REQUESTED` and its answer loses the answer: the retry is a
  duplicate, so nothing is derived (`room-core.ts:104`; `RequestsAnswered` with `MaxFaults = 1`).
- `hydrate` takes the newest timestamp from the events after the snapshot only, so it
  forgets it when the snapshot is the newest event; `seq` still orders the log.

`RequestsAnswered` and `ExactlyOnce` are therefore checked where their cause is
absent: without crashes, and without failing writes.

*Negotiations.*

- A human releases a collision after its deadline; the sweep of the next event
  escalates it again (`reduce.ts:362` against `freeze.ts:41-42` and `spec.md:294`).
- Agents agree in the grace period; the debate leaves and nobody compiles
  (`orchestrator.ts:118` against `:51-53`).
- A passing merge marks every contract of the collision verified, superseded ones
  too (`reduce.ts:332`). The check file is compiled from the debate's own contract, the
  ledger records the negotiation's (`orchestrator.ts:196`).

*Replication.*

- WELCOME moves the daemon's position past the events that follow it, so they reach
  neither inbox nor views (`daemon.ts:129-131`, `:826`, against `cursor-store.ts:16-17` and
  `spec.md:222`).
- `start()` computes what the Hypercore lacks after the server has begun to take
  connections (`authority-transport.ts:63-66`). A peer that submits in between has its
  event appended twice or ahead of a lost one. The race is in the model, and without the
  exception for `raced` TLC finds `HistoryIsTheLog` violated with the bounds of the run. With three connections and
  two events of others it finds what comes of it: event 1 is lost from the Hypercore by a crash, event
  2 is submitted before `start()` looks, the Hypercore becomes 2, 3, and a peer whose cursor is 1 reads by position and
  applies 1 and 3, never 2. `RejoinStands` and `NeverBack` hold all the same.
- The server registers a peer before HELLO (`server.ts:139`), so frames may come before
  WELCOME and leave a gap that WELCOME closes. `ReplicaIsExact` speaks of welcomed
  peers for this reason.
- Submits sent over a channel that has been replaced are neither answered nor
  rejected (`transport.ts:135-145`).
- A crash of the authority leaves the sessions of peers that do not come back active.

*Runners.*

- Two runners that find a dead holder's lock at once can both take it (`store.ts:47`).
- A daemon that restarts forgets its inbox, and its cursor is past what was in it; a
  runner stays unregistered with the new one.
- A claim whose completing call fails is never requeued. A requeue can exceed the cap,
  and the next message then drops what was put back.
- BLOCKER wakes agents by type (`ACTIONABLE_TYPES`), and is routed to nobody.

*Collisions.*

- A tier-0 prediction shadows file hits in the same event. The id of a collision
  depends on the keys, so a later write opens a new one after an agreement.
- A repeated SESSION_STARTED wipes what the session has read, written and declared.
- After `verified` each write submits the COLLISION again; `OpenedOnce` speaks of open ones.
- The reducer compares raw paths, detection and guard normalised ones.

*Planner.*

- Grants go in with the system origin, so a key granted to another between brief and
  grant is in two leases, a session that ended after the brief is granted one, and an intent
  declared after the brief is overwritten. `OnlyLateNewsIsOverruled` draws that line.
- A preference of the model's is honoured before an existing lease, though `plan.ts` says
  "never reassign under a live one".
- A plan given up for a debate is not scheduled again; a submit that fails leaves the
  fingerprint of a plan that was not carried out; changes of leases trigger nothing.
  `PlanIsCurrent` excepts these.

*Hosted room.*

- The close of a socket frees the session's leases although it has reconnected on
  another; it does not end the session.
- `alarm()` without a socket does not set itself again. A lease that is over but not
  swept still denies.
- LEASE_EXPIRED, LEASE_RELEASED and HEARTBEAT are routed to no daemon live, though a
  replay brings them.
- The coordinator's README has a `lastSeq` ahead of the room replay from 0; the clients then
  filter by their own position.
- A button pressed again after four seconds has a new id and may apply twice.
- A submit the room refuses leaves `pending` without having been logged, as it should. If its ERROR is lost
  with the connection it is sent again, and what was fenced off may be let in the second time, behind
  submits made after it.

*Voices and panel.*

- A speech worker that dies after its model was loaded leaves the next line waiting for
  ever; exit code 0 settles nothing (`engine.js`).
- `room.sent` is taken for whatever is on the panel. 'r' before the model is loaded, or
  after it failed, asks a worker that never answers; a worker's death with code 0
  strands the draft. An error without an id degrades whatever is there, which can
  propose twice; a reply that times out after the proposal landed makes the retry send a
  second. The late close of a replaced socket dials a second stream.

*Installation and daemons.*

- Create in A, create in B, leave A, leave B leaves A's entry in `~/.claude.json`, though
  `cli.ts:430` says "Stop Agentigram and restore local configuration exactly." Edits made while
  joined are overwritten by the restore.
- A daemon with a subscribed window never finishes `server.close`, ignores SIGTERM as it is
  `stopping` already, and stays while `leave` uninstalls (`daemon.ts:232`); later it removes
  the socket file of a newer daemon, and writes cursor and storage again.
- A second `agg daemon` unlinks the live socket before it fails on the storage lock. A
  crash between spawn and the write of the pid has `leave` wait for nobody.
- The window's `subscribe()` returns without a timer when there is no installation.

*Hooks.*

- The Antigravity installer writes Gemini's hook names (`install.ts:334-337`), whose
  payloads Antigravity's schema rejects: every call that names a file is refused, and
  nothing is reported.
- Gemini's hook timeout is 3000 ms (`install.ts:230`), as long as the hook's own wait, so
  the host may give up before the deny, against `ipc.ts:16-18`. Its matcher is `.*`, so
  reads that name a path are refused too, against `fail-closed.ts:17-18`.
- A daemon killed with a hook's request pending leaves the hook silent, and the
  edit goes ahead. `FailsClosed` counts silence as the host's own consent.
- A watcher looks only under the directory its session was started in, and not into `.git`, `node_modules`,
  `dist` and `.next` (`watcher.ts:47`). What a shell command writes elsewhere without showing it in a form that
  `shell.ts` reads is never told. The target of "Move to" in a patch of Codex is in none of its hooks
  (`codex.ts:38`): it is neither checked against leases before nor told after, unless the watcher sees it.
- After a restart there is no watcher until the next session start; it ignores deletions;
  a submit of its that fails is an unhandled rejection (`daemon.ts:1052`). Gemini and
  Antigravity report no shell writes.
- `'*.ts'` counts as a file, though `codex.ts:75` says "rather than a flag or a glob". A
  human's commit is reported as its agent's writes.

*Merges and league.*

- tsc or vitest failing without output that parses gives empty lists, which is a pass.
  A stage that timed out has empty lists too, and the reducer ignores `notRun`.
- A command that cannot be started, `corepack` missing for one, or that something other than the timeout kills,
  becomes a plain exit code (`index.ts:282-294`). Its stage counts as run, and without output that parses as passed.
- `rmSync` in `finally` is not caught (`index.ts:143`). When it throws the directory stays, and the finished
  result is lost behind an error.
- `prune` runs before the directory is deleted, so a failed `worktree remove` leaves
  git's entry.
- A market settled by `settleMarket` alone scores nobody until it is closed as well.
- A second CI_RESULT resolves a resolved market and pays again, against the bound on the
  house's loss in `spec.md`. Voiding and refunding can both refund, and after settlement;
  voiding after profits were spent makes a balance negative. The outcome written
  `15â€“30m` matches no market. A duel without a winner throws on a resolved market.

## 5. What is proved

For every value of the constants, bounds included, so for any number of sessions,
symbols, collisions and contracts, and logs of any length.

Each proof has the same plan: an inductive invariant, the lemma that the initial
states satisfy it, one lemma per action (or per kind of step) that it is kept, and the
property as a consequence.

`RoomCoreProofs`. `TypeCorrect` needs no assumption. The others assume
`~DiskFaults`, since with failing writes they are false (section 4) or need
another argument (`TokensIncrease`, which TLC checks with them).

The invariant is `IInv`. Exclusiveness is not inductive: a crash replaces the
room by a snapshot and replays, so what was true of the room must be known of
every room along the way. `LogFolds` says that each entry of `hist` is the reducer's
result on the one before and the log's event; `RoomFolds` that the current room is
the entry of `hist` at the replay cursor, and the snapshot the one at its own seq;
`HistExclusive` that each entry is exclusive; `OwedSound` that what a handler still
owes is still sound when it is appended, a grant above all: nothing has been
granted since the request was judged. `GrantsNumbered` and `LeasesNumbered` tie tokens to
positions in the log, and `IdsUnique` the ids. From it follow `LeasesAreExclusive`,
`RecoveryIsExact`, `TokensAlwaysIncrease`, `AppliedExactlyOnce`, `WritesAreFenced`, and
`ImplementsTable`: `Spec` implements `LeaseTable!Spec`, an append of a grant being
`Grant`, an append that ends leases `Free`, and the rest stuttering.

Three more rest on `IInv` and on `StepKinds`, which sorts the steps by what they do to
the log. `LeasesDieWithTheirSession` holds over crashes too: a grant follows its request
before anything else is logged (`GrantFollowsRequest`), so a lease of an ended session was
asked for after its end. `RequestsAreAnswered` and `LeasesExpireInTime` assume
`MaxFaults = 0`: a crash does lose an answer (section 4), and it makes `hydrate` forget
`lastTs`, after which a renewal may shorten a lease. The latter assumes `~ClockStepsBack`
as well, since an expiry that is owed when the clock is set back is stamped early.

`OrchestratorProofs`. The invariant `NInv` adds to the two properties that a session
in `accepted` accepted this very contract, unless a human decided
(`AcceptsCount`). Each event keeps it: one lemma per event, over `Sound`, the
invariant of a single negotiation. This proves `FreezeLiftsByConsent` and
`LedgerHoldsAgreements` of `NegSpec`, in which the authority too may send any of its
events at any time. `ImplementsNegotiation` then shows that the orchestrator, with
its replica, failures and restarts, implements `NegSpec`; it needs only that what a
debate holds across its awaits is a contract and a collision that exist (`OInv`).
So `DebatesLiftByConsent` and `DebatesCompileAgreements` hold however stale the
replica is and whatever the model says.

`VersionsTellApart` adds `Numbered`: the versions compiled so far are within some bound.
That bound gives `nextContractVersion` a largest version to go beyond, which is where an
induction over the ledger would have been. With `ImplementsNegotiation` it gives
`DebatesTellVersionsApart`.

The planner, in the same module. For any agents, files, symbols and drafts. `News`: whatever the brief of the
plan being carried out does not have (an end, a declaration, a grant) is in `late`, or the
plan itself gave it out. `Fresh`: the plan in force is one for the room as it is, or
something will make the planner look again. That a grant of the planner's own does not
make its plan an old one is most of the second (`AfterGrant`).

`ReplicationProofs`. For any number of connections, events and faults, and any events that overtake
`start()`. The invariant `IInv` has one part per question; the first four hold always, the last three,
together `ExactInv`, until `raced`:

- `BoundInv`: blocks and batches are events of the log, in whatever order they got there.
- `OrderInv`: the frames of a connection come in the order they were sent in, and no room state is older than the
  one before it, which is what keeps the peer's room from going back.
- `ConnInv`: only the newest channel of the running process is alive or has frames, and
  what is attached is registered, once per process.
- `GreetInv`: nothing joins before its HELLO has been handled, and the older
  connections of a process have nothing left to say. So `AuthorityCloses` sees, in
  `SessionReconnected`, every process that has joined.
- `HistoryInv`: the Hypercore is in step, and the batches in `publishing` go, without gap or overlap,
  from its end to the end of the log, where the process is up or has something on its way. `Logs`
  and `Starts` keep it or set `raced`.
- `FramesInv`: the frames on their way, read in order from the room the peer has now,
  leave no gap (`NoGap`), end where the Hypercore ends (`EndsAt`), and hold no WELCOME older
  than what the peer will know by then (`Newer`, `Rising`). The lemmas `EventsSent`,
  `WelcomeSent`, `FrameTaken` and `RoomMovesOn` say what sending, taking and a replay
  do to these.
- `RoomInv`: the room of a welcomed peer is exact and ahead of whatever its transport
  will read, so what a replay emits joins on.

From it follow `TypesHold`, `RejoinsStand` and the action property `NeverGoesBack` without
exception, and `HistoryIsExact` and `ReplicasAreExact` as far as the properties go. Each action has an effect lemma that says what it
does to every connection, and each part of `IInv` a step lemma.

`CollisionProofs`. For any number of sessions, files and symbols. `CInv` says that while
something waits to be submitted the authority is announcing, that it is announcing only
while a collision of its own is not published, and that what waits is not open and waits
once (`CandidatesFresh`); so the submit that `OpenedOnlyOnce` is about finds nothing open.
`WritersAlwaysMeet` needs `Meets` for every room of the log: whoever writes second is
told by `Written` of everybody who wrote first (`SecondWriterMeets`), and collisions are
never taken away. `ClaimantsAlwaysMeet` follows a claim through `publishing`,
detection, `candidates` and `unheard` (`ClaimsFound`).

`RunnerProofs`. For any number of sessions, messages, calls and faults. `RInv` says of each
session (`Good`) that its inbox, its claims, what it read, answered and lost divide what it
received (`Sorted`), that what a claim still holds has not been replied to
(`Unreplied`), and that a completing call is about a claim that is still there, of which there is
no second call, and which the runner does not work on any more (`Called`). The log's replies
are all about received messages. One lemma per operator of `WakeInbox`, then one per action.

`HostedRoomProofs`. For any number of daemons, dashboards, buttons and sockets, any batch of a
replay and any lease time. `HInv` has five parts:

- `LogInv`: `hist` is the fold of `log`, which has no gap and holds only what a client or the
  room can have submitted; every state in it is a room whose leases were granted before it.
  `ReducedIs` says what the states of a handler are, `ApplyOK` that one event keeps this,
  and `AppendedOK` that a whole handler does.
- `AlarmInv`: the alarm covers the leases. Only a handler that commits can change them, and it ends
  with `NextAlarm` (`NextAlarmOK`, `CommitKeeps`).
- `WireInv`: a client has at most one live connection, the one it thinks it has; what is
  on its way on any connection is what a client may send.
- `GivenInv`: what a client has taken ascends, stays within its position and leaves out nothing it
  is `Owed`; a dashboard's state is one the log went through, and not behind its position.
- `StreamsOK`: of the live connection, before HELLO arrives nothing is on its way to the client
  and HELLO is first on the way from it, with the position the client still has (`Ungreeted`); after
  it, the frames on their way ascend, begin after the position, bring all that is owed up to
  the end of the log, and only the first can be a WELCOME (`Complete`).

The three places where `StreamsOK` could break have a lemma each: `ReplayOK` says that the batches
of a replay, put together, are all events after the position that the client may see, once
and in order; `CompleteGrows` that a live broadcast adds what the router lets through to frames that
were complete, so that both together still are; `NothingLeftOut` that taking a frame
and filtering by position skips nothing owed. A daemon's replay brings more than it is owed
live, which is why `Owed` follows the router and `Within` does not. From `HInv` follow `HostedTypes`,
`StreamsStayWhole` and `LeasesKeepAnAlarm`.

The other direction, what clients submit, has an invariant of its own, `SInv`, inductive
where `HInv` holds. `SubmitsLandInOrder` alone says nothing of what is under way, and a submit may be
under way on several connections at once: the one its daemon has, and those it lost, which still
deliver a part of what was said on them. A submit is *settled* when it is in the log or the room has refused
it (`Settled`). `SInv` says of every connection that where a submit is on it
that still waits for its answer, each one its daemon made before and that waits as well is settled
or further ahead there (`QueuesOK`, by `UpOK`), whoever reads that connection next; that all that waits is settled or on
the daemon's present connection (`UnderWay`); that an answer on its way is of something settled (`DownOK`); that the log
is in order but for the refused (`TableOK`); and
that numbers are given once (`NumbersOK`), which holds of the uuids in the code. What is refused stays in
`refused`, so a submit that is refused and let in later breaks none of these.
`OpeningTurns` shows it of a connection that opens by saying everything again, `UpBegun` of one that is cut,
`AddsOK` of the log when a submit arrives in its turn, `AnsweredHandled` of ACK and ERROR. From
`HInv` and `SInv` follow `SubmitsComeInOrder` and, of every step, `NoSubmitIsLost`.

`ProgramProofs`. The programs of `LaptopPrograms`, each for any size, under one
invariant that is the conjunction of theirs:

- Panel (`PanelInv`): the request the panel listens to, if it still runs, is about what is on the
  panel; nothing runs under a number not given out yet.
- Installation (`LaptopInv`): what a command has left to do. Until the record is
  forgotten, which is the last step of every command that undoes, each file holds
  what was recorded or is still to be restored (`Orderly`); the record of a joined repository holds what
  was there before (`LeavesNoTrace`), and without an overlap only one is joined.
- Hooks (`HooksInv`): of a change the room has not been told of, each of the two who could
  tell, hook and watcher, still will or is out of it (`WatcherTells`, `HookTells`); of a file that a Codex patch
  has moved, the hook is.
- Merge worker (`MergeInv`): what each stage of a request has behind it, broken commands among them, what an answer
  that has been decided on but not sent leaves out, and that the directory is gone once a result is answered.
- League (`LeagueInv`): a market with a forecast is not open, so no trade can change the shares
  the forecast was made of, and what an authoritative result has settled keeps its forecast and its
  resolution, whatever is closed or settled again.

The assumptions are those the modules declare, and TLC checks that the instances satisfy
them: parties of a collision are sessions, a debatable collision affects somebody,
`NoContract` and `Nil` are no contract and no session, symbols are pairs of a file and a number,
bounds and intervals are numbers; there are finitely many sessions
(`CollisionWatch`), daemons (`HostedRoom`) and host files, the shared one among them (`Laptop`); the planner's agents
are in an order without repetition. `HooksAssumption` says what a call of a tool may be: the
hosts are the four of `install.ts`, what an edit tool changes its input names somewhere, in a path field and in a header
of the patch, a Move header included, and what a shell call changes in plain sight is the operand of a command
that `shell.ts` reads. `ReplicationProofs` assumes nothing but numbers for bounds.

Only model-checked.

- Liveness is out of the prover's reach: `LeasesEnd`, `NegotiationsSettle`,
  `NoneWaitsForever`, `CatchesUp`, `WakesAreServed`, `ComesToRest`, `NothingHangs`.
- The type invariants of `Orchestrator`, `ManagedRunner` and `Planner` as they stand. The proofs have types of their own (`Shape`, `Boxes`, `Types`), as strong as the
  arguments need.

## 6. Not modelled

- *Analysis* (`packages/analysis` but for `overlap.ts`, `symbol-reader.ts`): extraction of symbols from
  TypeScript with a compiler library. The models take its result, a set of symbols of a file,
  as given.
- *Text*: the contracts compiler's check file, reports, stats, personas, narration, rendering
  in the terminal, the window and the dashboard, the output of commands that only print.
  Nothing in the coordination reads it back.
- *MCP tables and GitHub app*: they turn calls and webhooks into events. The events
  are in the modules of what they do.
- *Simulator and demo repository*: scripted scenarios.
- *`supervisor.ts`*: nothing uses it.
- In components that are modelled in part: ACKs and pending submits between laptops (those of the
  hosted room are modelled), malformed messages, tokens
  and capability checks, the graceful stop of the authority, the race for a runner's lock file
  and a runner's first turn, the caps on a plan's size, redaction, symbols of reads, the guard of
  autonomous turns, markets in the reducer, the scores of leaderboards.

## 7. What is left

Theorems: the part of `LeaseTable` that is about expiry, as a refinement of its own.

Modules: an extension of `Replication` with ACKs and pending submits over
reconnects, and an abstract replica (a prefix of the log that only grows) that it
implements; the lock file with two runners.
