----------------------------- MODULE HostHooks -----------------------------
(***************************************************************************)
(* What an agent's tools do to a joined repository, and what of it the     *)
(* room gets to know.  The host runs `agg hook` before and after a tool    *)
(* and at the turns of its session (cli.ts); the hook asks the daemon and  *)
(* refuses an edit when it gets no answer (fail-closed.ts); the daemon     *)
(* names the model, turns the hook into events (adapters) and publishes    *)
(* them; a watcher reports what changed on disk besides (watcher.ts).      *)
(*                                                                         *)
(* A tool call is a record:                                                *)
(*   kind            the class the host's lists put its tool in            *)
(*   fields, patch   the files its path fields name, and those the Add,    *)
(*                   Update and Delete headers of its patch do             *)
(*   moved           files only a Move header of the patch names           *)
(*   command         a shell command, its segments in order                *)
(*   staged          what a commit in it commits                           *)
(*   edits, removes  what it does to the disk                              *)
(*   plain           those of these files its command shows it to write    *)
(***************************************************************************)
EXTENDS Naturals, FiniteSets, SequencesExt

CONSTANTS
    AgentHosts,    \* hosts the repository may be joined with
    ToolCalls,
    Watched,       \* files under the directory the session is started in, which is the
                   \* repository's, outside its .git, node_modules, dist and .next
    MaxCalls,      \* bound: tool calls
    MaxTurns,      \* bound: session hooks
    MaxDeaths      \* bound: ends of a daemon process

\* What a command segment shows itself to write, whatever reads it: what output goes
\* into, what a tool that changes its operands in place is given, where files are moved
\* or copied.
PlainlyWrites(s, f) ==
    /\ f \notin {"glob", "script"}
    /\ \/ f \in s.into
       \/ s.name \in {"tee", "touch", "patch", "rm"} /\ f \in ToSet(s.args)
       \/ s.name = "sed" /\ s.inPlace /\ f \in ToSet(s.args)
       \/ /\ s.name \in {"mv", "cp"}
          /\ \E i, j \in DOMAIN s.args :
                /\ \A k \in DOMAIN s.args : k <= i
                /\ f = s.args[i] /\ j # i /\ s.args[j] # "glob"

\* The hosts there are hooks for (install.ts).  What an edit tool changes its input
\* names somewhere.
HooksAssumption ==
    /\ AgentHosts \subseteq {"claude-code", "codex", "gemini-cli", "antigravity"}
    /\ \A c \in ToolCalls :
          /\ c.kind = "edit" =>
                /\ c.edits \cup c.removes \subseteq c.fields
                /\ c.edits \cup c.removes \subseteq c.patch \cup c.moved
          /\ c.kind = "shell" =>
                \A f \in c.plain : \E s \in ToSet(c.command) : PlainlyWrites(s, f)

ASSUME HooksAssumption

VARIABLES
    aHost,         \* the host the repository has been joined with, or none
    aCalls,        \* tool call -> its stage
    aWord,         \* tool call -> what its hook said before it ran
    aServing,      \* hooks the daemon has not replied to
    aUp,           \* is the daemon up
    aRow,          \* the session in the daemon's replica: absent, its model unknown,
                   \* named in an event to come, or named
    aReported,     \* modelReported
    aStarted,      \* sessions the adapter has met started ...
    aPrompted,     \* ... and prompted: this one or none
    aWatching,     \* has the watcher of the worktree been started
    aDirty,        \* changes the watcher has not reported
    aUntold,       \* history: files changed since the room was last told of them
    aUnwatched,    \* history: those whose change the watcher cannot report any more
    aUnreported,   \* history: those whose change no hook can
    aTurns, aDeaths

agentVars == <<aCalls, aWord, aTurns>>
daemonVars == <<aServing, aUp, aRow, aReported, aStarted, aPrompted, aWatching, aDeaths>>
newsVars == <<aDirty, aUntold, aUnwatched, aUnreported>>
hookVars == <<aHost, agentVars, daemonVars, newsVars>>

InitHooks ==
    /\ aHost = "none"
    /\ aCalls = [c \in ToolCalls |-> "idle"]
    /\ aWord = [c \in ToolCalls |-> "none"]
    /\ aServing = {}
    /\ aUp = FALSE
    /\ aRow = "absent"
    /\ aReported = FALSE
    /\ aStarted = FALSE
    /\ aPrompted = FALSE
    /\ aWatching = FALSE
    /\ aDirty = {}
    /\ aUntold = {}
    /\ aUnwatched = {}
    /\ aUnreported = {}
    /\ aTurns = 0
    /\ aDeaths = 0
-----------------------------------------------------------------------------
(* What a shell command shows of itself: shell.ts and codex.ts.            *)

GitWriting == {"apply", "checkout", "cherry-pick", "clean", "merge", "pull",
               "rebase", "reset", "restore", "revert", "stash", "switch"}
ReadCommands == {"cat", "head", "tail", "less", "more", "bat", "nl", "sed", "awk",
                 "rg", "grep", "wc"}

\* A path with a glob, a variable or a substitution is not a path.
Literals(args) == {i \in DOMAIN args : args[i] # "glob"}
Paths(args) == {args[i] : i \in Literals(args)}

FaultyDestination(args) ==
    {args[i] : i \in {j \in Literals(args) : /\ \A k \in Literals(args) : j <= k
                                             /\ Literals(args) # {j}}}

\* The last one is written, the sources are not; one alone is not read at all.
Destination(args) ==
    {args[i] : i \in {j \in Literals(args) : /\ \A k \in Literals(args) : k <= j
                                             /\ Literals(args) # {j}}}

SegmentWrites(s) ==
    (s.into \ {"glob"}) \cup
    CASE s.name \in {"tee", "touch", "patch", "rm"} -> Paths(s.args)
      [] s.name = "sed" -> IF s.inPlace THEN Paths(s.args) \ {"script"} ELSE {}
      [] s.name \in {"mv", "cp"} -> Destination(s.args)
      [] OTHER -> {}

ShellWrites(command) == UNION {SegmentWrites(s) : s \in ToSet(command)}
ShellGit(command) ==
    \E s \in ToSet(command) : s.name = "git" /\ s.sub \in GitWriting \cup {"commit"}

\* A glob with an extension looks like a file here.
ShellReads(command) ==
    UNION {ToSet(s.args) \ {"script"} : s \in {t \in ToSet(command) : t.name \in ReadCommands}}
-----------------------------------------------------------------------------
(* The adapters: what a hook of each host says.                            *)

\* codexToolPaths: the headers of a patch, but where a file is moved to.
PatchPaths(c) == IF c.kind = "edit" THEN c.patch ELSE {}

\* The other hosts' tools name their files in fields of the input.
FieldPaths(c) == c.fields

ToolPaths(c) == IF aHost = "codex" THEN PatchPaths(c) ELSE FieldPaths(c)

Reads(paths) == {[type |-> "FILE_READ", path |-> p] : p \in paths}
Writes(paths) == {[type |-> "FILE_WRITE", path |-> p] : p \in paths}
ToolCall == {[type |-> "TOOL_CALL", path |-> "none"]}
SessionStarted == {[type |-> "SESSION_STARTED", path |-> "none"]}

\* normalize, after a tool.
ClaudeReport(c) ==
    CASE c.kind = "read" -> Reads(c.fields)
      [] c.kind = "edit" -> Writes(c.fields)
      [] c.kind = "shell" -> ToolCall \cup Writes(ShellWrites(c.command))
      [] OTHER -> {}

CodexReport(c) ==
    IF ToolPaths(c) # {} THEN Writes(ToolPaths(c))
    ELSE IF ShellWrites(c.command) # {} \/ ShellGit(c.command)
    THEN ToolCall \cup Writes(ShellWrites(c.command))
    ELSE IF ShellReads(c.command) # {} THEN Reads(ShellReads(c.command))
    ELSE ToolCall

\* Antigravity's adapter does as Gemini's: what a shell command writes is not looked for.
GeminiReport(c) ==
    CASE c.kind = "read" -> Reads(c.fields)
      [] c.kind = "edit" -> Writes(c.fields)
      [] OTHER -> ToolCall

\* createAdapter; a host without hooks has an adapter that says nothing.
Report(c) ==
    CASE aHost = "claude-code" -> ClaudeReport(c)
      [] aHost = "codex" -> CodexReport(c)
      [] aHost \in {"gemini-cli", "antigravity"} -> GeminiReport(c)

Gemini == aHost \in {"gemini-cli", "antigravity"}

\* A prompt after the first one is a human's word.
ClaudePrompt == IF aPrompted THEN ToolCall ELSE {}

\* Gemini's and Antigravity's first may start the session.
GeminiPrompt == IF aStarted THEN ClaudePrompt ELSE SessionStarted

PromptReport ==
    CASE aHost = "claude-code" -> ClaudePrompt
      [] aHost = "codex" -> ToolCall
      [] Gemini -> GeminiPrompt

\* isHostPresenceNoise: a start is kept if the room does not know the session, or would
\* learn its model.  Gemini's adapter always has a name for it.
StartReport(names) ==
    IF aRow = "absent" \/ (aRow # "named" /\ (names \/ Gemini)) THEN SessionStarted ELSE {}

\* What a hook says, if its payload names the model or not.  The end a host reports
\* is noise.
Says(r, names) ==
    CASE r.event = "after" -> Report(r.call)
      [] r.event = "start" -> StartReport(names)
      [] r.event = "prompt" ->
            IF PromptReport = SessionStarted THEN StartReport(names) ELSE PromptReport
      [] OTHER -> {}
-----------------------------------------------------------------------------
(* The hooks as installed, and what their processes make of an answer.     *)

\* The matchers.  Gemini's and Antigravity's hooks run for every tool.
HookedBefore(c) == Gemini \/ c.kind \in {"edit", "shell"}
HookedAfter(c) == HookedBefore(c) \/ (aHost = "claude-code" /\ c.kind = "read")
Turns == {"start", "prompt", "end"} \cup IF Gemini THEN {} ELSE {"stop"}

FaultyWritePaths(c) == IF aHost = "codex" THEN {} ELSE c.fields

\* failClosedDenial: the files for which an unanswered hook refuses the call.
WritePaths(c) == ToolPaths(c)

\* Antigravity gets the hooks under Gemini's names, and its daemon's schema knows
\* the session's ends only.
Understood(event) == aHost # "antigravity" \/ event \in {"start", "end"}

Request(event, c) == [event |-> event, call |-> c, stage |-> "sent"]
Session == [kind |-> "none"]

Asks(event, c) ==
    aServing' = IF aUp THEN aServing \cup {Request(event, c)} ELSE aServing

\* The hook ends: an allowed call runs.
HookEnds(c, word) ==
    /\ aWord' = [aWord EXCEPT ![c] = word]
    /\ aCalls' = [aCalls EXCEPT ![c] =
                     IF word = "denied" \/ (word = "unreachable" /\ WritePaths(c) # {})
                     THEN "refused" ELSE "running"]

\* A reply nobody waits for any more is lost.
Reply(r, word) ==
    IF r.event = "before" /\ aCalls[r.call] = "before"
    THEN HookEnds(r.call, word)
    ELSE UNCHANGED <<aCalls, aWord>>

DaemonRests ==
    UNCHANGED <<aUp, aRow, aReported, aStarted, aPrompted, aWatching, aDeaths>>

\* The hooks have been installed and the daemon started.
Join(h) ==
    /\ aHost = "none"
    /\ aHost' = h
    /\ aUp' = TRUE
    /\ UNCHANGED <<agentVars, newsVars, aServing, aRow, aReported, aStarted, aPrompted,
                   aWatching, aDeaths>>

\* An agent changes one thing at a time; hooks after its calls may overlap the next.
Begin(c) ==
    /\ aHost # "none"
    /\ aCalls[c] = "idle"
    /\ \A d \in ToolCalls : aCalls[d] \in {"idle", "refused", "after", "over"}
    /\ Cardinality({d \in ToolCalls : aCalls[d] # "idle"}) < MaxCalls
    /\ IF HookedBefore(c)
       THEN /\ aCalls' = [aCalls EXCEPT ![c] = "before"]
            /\ Asks("before", c)
       ELSE /\ aCalls' = [aCalls EXCEPT ![c] = "running"]
            /\ UNCHANGED aServing
    /\ UNCHANGED <<aHost, aWord, aTurns, newsVars>> /\ DaemonRests

\* No socket, a connection reset, or no reply within PRE_TOOL_TIMEOUT_MS.
Unanswered(c) ==
    /\ aCalls[c] \in {"before", "cut"}
    /\ HookEnds(c, "unreachable")
    /\ UNCHANGED <<aHost, aTurns, daemonVars, newsVars>>

\* The hook says nothing, which a host takes for no objection: its daemon went away
\* without a reply, or the host's limit passed first, which for Gemini is as long as
\* the hook's own wait.
Silent(c) ==
    /\ \/ aCalls[c] = "cut"
       \/ aCalls[c] = "before" /\ Gemini
    /\ HookEnds(c, "silence")
    /\ UNCHANGED <<aHost, aTurns, daemonVars, newsVars>>

Turn(event) ==
    /\ event \in Turns
    /\ aUp
    /\ aTurns < MaxTurns
    /\ aTurns' = aTurns + 1
    /\ Asks(event, Session)
    /\ UNCHANGED <<aHost, aCalls, aWord, newsVars>> /\ DaemonRests
-----------------------------------------------------------------------------
(* What changes, and what the room is told of it.                          *)

Owed(c) == c.edits \cup c.removes

\* The files of which the hook after the call can tell.
Shown(c) ==
    CASE c.kind = "edit" -> IF aHost = "codex" THEN Owed(c) \ c.moved ELSE Owed(c)
      [] c.kind = "shell" -> IF Gemini THEN {} ELSE c.plain
      [] OTHER -> {}

\* Each event is submitted on its own and dropped if that fails; the name of the model
\* may have been submitted before.
Publish(events, named) ==
    \E sent \in SUBSET events :
        LET told    == {e.path : e \in {x \in sent : x.type = "FILE_WRITE"}}
            dropped == {e.path : e \in {x \in events \ sent : x.type = "FILE_WRITE"}}
        IN  /\ aUntold' = aUntold \ told
            /\ aUnwatched' = aUnwatched \ told
            /\ aUnreported' = (aUnreported \cup (dropped \cap aUntold)) \ told
            /\ aRow' = IF (named \/ SessionStarted \subseteq sent) /\ aRow # "named"
                       THEN "coming" ELSE aRow

\* The watcher, once started, hears of a change where it looks, but not of a removal.
Seen(c) == IF aWatching THEN (c.edits \cap Watched) \ c.removes ELSE {}

RunTool(c) ==
    /\ aCalls[c] = "running"
    /\ aCalls' = [aCalls EXCEPT ![c] = IF c.staged # {} THEN "committing"
                                       ELSE IF HookedAfter(c) THEN "after" ELSE "over"]
    /\ aUntold' = aUntold \cup Owed(c)
    /\ aDirty' = aDirty \cup Seen(c)
    /\ aUnwatched' = aUnwatched \cup (Owed(c) \ Seen(c))
    /\ aUnreported' = aUnreported \cup (Owed(c) \ Shown(c))
    /\ UNCHANGED <<aHost, aWord, aTurns, daemonVars>>

\* handleGit: what is staged is published as written.
GitReport(c) == ToolCall \cup Writes(c.staged)

\* `agg git-event`, from the repository's hook.
Commit(c) ==
    /\ aCalls[c] = "committing"
    /\ aCalls' = [aCalls EXCEPT ![c] = "after"]
    /\ IF aUp
       THEN Publish(GitReport(c), FALSE)
       ELSE UNCHANGED <<aRow, aUntold, aUnwatched, aUnreported>>
    /\ UNCHANGED <<aHost, aWord, aTurns, aDirty, aServing, aUp, aReported,
                   aStarted, aPrompted, aWatching, aDeaths>>

\* The hook after the call fails open when there is no daemon.
AfterTool(c) ==
    /\ aCalls[c] = "after"
    /\ aCalls' = [aCalls EXCEPT ![c] = "over"]
    /\ Asks("after", c)
    /\ aUnreported' = IF aUp THEN aUnreported ELSE aUnreported \cup (Owed(c) \cap aUntold)
    /\ UNCHANGED <<aHost, aWord, aTurns, aDirty, aUntold, aUnwatched>> /\ DaemonRests
-----------------------------------------------------------------------------
(* The daemon: handleHook.                                                 *)

Done(r) == aServing' = aServing \ {r}

Watches(r) == r.event = "start" \/ (aHost = "gemini-cli" /\ r.event = "prompt")

\* The payload does not parse, or the watcher does not start.
ReplyError(r) ==
    /\ r.stage = "sent"
    /\ ~Understood(r.event) \/ (Watches(r) /\ ~aWatching)
    /\ Done(r)
    /\ Reply(r, "unreachable")
    /\ aUnreported' = IF r.event = "after"
                      THEN aUnreported \cup (Owed(r.call) \cap aUntold) ELSE aUnreported
    /\ UNCHANGED <<aHost, aTurns, aDirty, aUntold, aUnwatched>> /\ DaemonRests

\* editDenial: frozen or leased, which CollisionWatch and RoomCore decide.
Deny(r) ==
    /\ r.event = "before" /\ r.stage = "sent"
    /\ Understood(r.event)
    /\ ToolPaths(r.call) # {}
    /\ Done(r)
    /\ Reply(r, "denied")
    /\ UNCHANGED <<aHost, aTurns, newsVars>> /\ DaemonRests

Passes(r) ==
    /\ r.stage = "sent"
    /\ Understood(r.event)

\* Peer coordination is waiting: the turn goes on with it.
Deliver(r) ==
    /\ r.event = "stop" /\ r.stage = "sent"
    /\ Done(r)
    /\ UNCHANGED <<aHost, agentVars, newsVars>> /\ DaemonRests

\* identifyModel submits the name of the model, and the hook waits.
Identified == aReported \/ aRow = "named"

StartNaming(r) ==
    /\ Passes(r)
    /\ ~Identified
    /\ aReported' = TRUE
    /\ aServing' = (aServing \ {r}) \cup {[r EXCEPT !.stage = "naming"]}
    /\ aWatching' = (aWatching \/ Watches(r))
    /\ UNCHANGED <<aHost, agentVars, newsVars, aUp, aRow, aStarted, aPrompted,
                   aDeaths>>

\* The adapter has its say, and the hook its reply.
Normalise(r, named, names) ==
    /\ Done(r)
    /\ aWatching' = (aWatching \/ Watches(r))
    /\ aStarted' = (Gemini /\ r.event # "end" /\ (aStarted \/ r.event \in {"start", "prompt"}))
    /\ aPrompted' = (aHost # "codex" /\ r.event # "end" /\ (aPrompted \/ r.event = "prompt"))
    /\ Publish(Says(r, names), named)
    /\ Reply(r, "allowed")
    /\ UNCHANGED <<aHost, aTurns, aDirty, aUp, aDeaths>>

NamingEnds(r, ok) ==
    /\ r.stage = "naming"
    /\ aReported' = ok
    /\ Normalise(r, ok, TRUE)

\* There is no name to submit, or no need to.
PassOn(r) ==
    /\ Passes(r)
    /\ aReported' = Identified
    /\ \E names \in {FALSE, Identified} : Normalise(r, FALSE, names)

\* The replica hears of the session, and later of its model.
Learn ==
    /\ aUp
    /\ \/ aRow = "absent" /\ aRow' = "unknown"
       \/ aRow = "coming" /\ aRow' = "named"
    /\ UNCHANGED <<aHost, agentVars, newsVars, aServing, aUp, aReported, aStarted,
                   aPrompted, aWatching, aDeaths>>

\* WorktreeWatcher.flush: the room hears of it, as the agent's change or a human's.
Flush ==
    /\ aDirty # {}
    /\ aDirty' = {}
    /\ aUntold' = aUntold \ aDirty
    /\ aUnwatched' = aUnwatched \ aDirty
    /\ aUnreported' = aUnreported \ aDirty
    /\ UNCHANGED <<aHost, agentVars, daemonVars>>

\* The process is killed, or dies of a watcher's submit that fails and that nothing
\* catches.  The next one knows no hook before it, and watches from the next start on.
DaemonGoes ==
    /\ aUp
    /\ aDeaths < MaxDeaths
    /\ aDeaths' = aDeaths + 1
    /\ aUp' = FALSE
    /\ aServing' = {}
    /\ aCalls' = [c \in ToolCalls |->
                     IF aCalls[c] = "before" /\ \E r \in aServing : r.event = "before" /\ r.call = c
                     THEN "cut" ELSE aCalls[c]]
    /\ aRow' = "absent"
    /\ aReported' = FALSE
    /\ aStarted' = FALSE
    /\ aPrompted' = FALSE
    /\ aWatching' = FALSE
    /\ aDirty' = {}
    /\ aUnwatched' = aUnwatched \cup aDirty
    /\ aUnreported' = aUnreported \cup
          (aUntold \cap UNION {Owed(r.call) : r \in {q \in aServing : q.event = "after"}})
    /\ UNCHANGED <<aHost, aWord, aTurns, aUntold>>

DaemonReturns ==
    /\ aHost # "none"
    /\ ~aUp
    /\ aUp' = TRUE
    /\ UNCHANGED <<aHost, agentVars, newsVars, aServing, aRow, aReported, aStarted,
                   aPrompted, aWatching, aDeaths>>

NextHooks ==
    \/ \E h \in AgentHosts : Join(h)
    \/ \E c \in ToolCalls :
          \/ Begin(c) \/ Unanswered(c) \/ Silent(c)
          \/ RunTool(c) \/ Commit(c) \/ AfterTool(c)
    \/ \E event \in Turns : Turn(event)
    \/ \E r \in aServing :
          \/ ReplyError(r) \/ Deny(r) \/ Deliver(r)
          \/ StartNaming(r) \/ PassOn(r)
          \/ \E ok \in BOOLEAN : NamingEnds(r, ok)
    \/ Learn
    \/ Flush
    \/ DaemonGoes
    \/ DaemonReturns
-----------------------------------------------------------------------------
\* "The deny to answer with when the daemon cannot be asked" (fail-closed.ts): a call
\* whose edits its input names has not run on the word of a hook that could not ask,
\* nor against the daemon's word, however late or lost the daemon's replies are.
FailsClosed ==
    \A c \in ToolCalls :
        /\ aCalls[c] \in {"running", "committing", "after", "over"}
        /\ c.kind = "edit"
        /\ ToolPaths(c) # {}
        => aWord[c] \in {"allowed", "silence"}

\* A change an agent's tool makes is told to the room by the hook after it or by the
\* watcher, or still will be, unless both are out of it: the watcher was not started
\* since the daemon was, lost it with the daemon, does not look where the file is (.git,
\* node_modules, dist, .next, outside the repository) or is not told of removals; and
\* the hook found no daemon, lost it, or cannot see the change in the command or patch.
ToTell(f) ==
    \/ f \in aDirty
    \/ \E c \in ToolCalls : f \in Owed(c) /\ aCalls[c] \in {"committing", "after"}
    \/ \E r \in aServing : r.event = "after" /\ f \in Owed(r.call)

NoSilentWrite ==
    \A f \in aUntold : ToTell(f) \/ (f \in aUnwatched /\ f \in aUnreported)
=============================================================================
