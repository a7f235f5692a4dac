------------------------------- MODULE Laptop -------------------------------
(***************************************************************************)
(* A laptop's repositories as `agg create`, `agg join` and `agg leave`     *)
(* treat them (cli.ts, install.ts): the host's configuration files are     *)
(* recorded, changed and put back, and a daemon is started and stopped     *)
(* beside them (daemon.ts, ipc.ts), which a window may be subscribed to    *)
(* (ui/main.cjs). One command runs at a time; it, like a daemon, may be    *)
(* killed between any two steps.                                           *)
(***************************************************************************)
EXTENDS Naturals, SequencesExt

CONSTANTS
    Repos,
    HostFiles,    \* configuration files of the repository's host
    Shared,       \* the one of them that all repositories share
    Preset,       \* files that exist before anyone joins
    MaxDaemons, MaxCrashes, MaxEdits, MaxJoins

ASSUME FilesAssumption == IsFiniteSet(HostFiles) /\ Shared \in HostFiles

Hook == "hook"          \* .git/hooks/prepare-commit-msg
Copy == "copy"          \* the hook that was there before
Tracked == HostFiles \cup {Hook, Copy}
FilesOf(r) == {f \in {r} \X Tracked : f[2] # Shared} \cup {<<Shared, Shared>>}
FileOf(r, f) == IF f = Shared THEN <<Shared, Shared>> ELSE <<r, f>>
AllFiles == UNION {FilesOf(r) : r \in Repos}

NoRecord == [pid |-> 0]
Rest == [repo |-> "none", todo |-> <<>>]

VARIABLES
    pFiles,      \* file -> what it holds
    pBefore,     \* file -> what it held when nothing of Agentigram was in it
    pRecord,     \* repository -> its installation record, NoRecord without one
    pCommand,    \* the command that runs and the steps it has left
    pDaemons,    \* daemons started: [repo, stage], by process number
    pSocket,     \* repository -> the daemon its socket file leads to, 0 without
    pWindow,     \* the daemon the window's stream is open to, 0 without
    pTimer,      \* is the window's reconnection timer armed
    pOverlap,    \* have two repositories been joined at once
    pCrashes, pEdits, pJoins

fileVars == <<pFiles, pBefore, pOverlap, pEdits, pJoins>>
processVars == <<pDaemons, pSocket, pWindow, pTimer, pCrashes>>
laptopVars == <<fileVars, processVars, pRecord, pCommand>>

InitLaptop ==
    /\ pFiles = [f \in AllFiles |-> IF f[2] \in Preset THEN "own" ELSE "absent"]
    /\ pBefore = pFiles
    /\ pRecord = [r \in Repos |-> NoRecord]
    /\ pCommand = Rest
    /\ pDaemons = <<>>
    /\ pSocket = [r \in Repos |-> 0]
    /\ pWindow = 0
    /\ pTimer = TRUE
    /\ pOverlap = FALSE
    /\ pCrashes = 0
    /\ pEdits = 0
    /\ pJoins = 0
-----------------------------------------------------------------------------
(* The steps a command has left, in the order of the code.                 *)

Joined(r) == pRecord[r] # NoRecord

Restores == SetToSeq({<<"restore", f>> : f \in Tracked})
FaultyUninstall == <<<<"forget">>>> \o Restores
Uninstall == Restores \o <<<<"forget">>>>

Install == <<<<"record">>>> \o SetToSeq({<<"merge", f>> : f \in HostFiles}) \o <<<<"copy">>, <<"hook">>>>
Create == Install \o <<<<"spawn">>, <<"pid">>, <<"await">>>>
Kill == <<<<"kill">>, <<"gone">>>>
Leave == <<<<"shutdown">>>>

Runs(r, todo) == pCommand' = [repo |-> r, todo |-> todo]
Finishes == pCommand' = Rest

\* `agg create` and `agg join` refuse a repository that has a record.
StartCreate(r) ==
    /\ pCommand = Rest
    /\ pJoins < MaxJoins
    /\ pJoins' = pJoins + 1
    /\ ~Joined(r)
    /\ Runs(r, Create)
    /\ UNCHANGED <<pFiles, pBefore, pOverlap, pEdits, processVars, pRecord>>

StartLeave(r) ==
    /\ pCommand = Rest
    /\ Joined(r)
    /\ Runs(r, Leave)
    /\ UNCHANGED <<fileVars, processVars, pRecord>>

\* The command's process is killed; what it has done stays.
CommandDies ==
    /\ pCommand # Rest
    /\ pCrashes < MaxCrashes
    /\ pCrashes' = pCrashes + 1
    /\ Finishes
    /\ UNCHANGED <<fileVars, pDaemons, pSocket, pWindow, pTimer, pRecord>>

Repo == pCommand.repo
Todo == pCommand.todo
AtStep(step) == Todo # <<>> /\ Head(Todo)[1] = step
Proceeds == IF Len(Todo) = 1 THEN Finishes ELSE Runs(Repo, Tail(Todo))

FilesOnly == UNCHANGED <<processVars, pEdits, pJoins>>

\* Every tracked file is read into the record before the first one is changed.
Record ==
    /\ AtStep("record")
    /\ pRecord' = [pRecord EXCEPT ![Repo] =
                      [pid |-> 0, files |-> [f \in FilesOf(Repo) |-> pFiles[f]]]]
    /\ pOverlap' = (pOverlap \/ \E r \in Repos : Joined(r))
    /\ Proceeds
    /\ UNCHANGED <<pFiles, pBefore>>
    /\ FilesOnly

\* A file that cannot be merged throws, and what was done is undone.
Merge ==
    /\ AtStep("merge")
    /\ \/ /\ pFiles' = [pFiles EXCEPT ![FileOf(Repo, Head(Todo)[2])] = "ours"]
          /\ Proceeds
       \/ /\ Runs(Repo, Uninstall)
          /\ UNCHANGED pFiles
    /\ UNCHANGED <<pBefore, pOverlap, pRecord>>
    /\ FilesOnly

CopyHook ==
    /\ AtStep("copy")
    /\ pFiles' = [pFiles EXCEPT ![<<Repo, Copy>>] =
                     IF pFiles[<<Repo, Hook>>] = "absent" THEN @ ELSE "ours"]
    /\ Proceeds
    /\ UNCHANGED <<pBefore, pOverlap, pRecord>>
    /\ FilesOnly

WriteHook ==
    /\ AtStep("hook")
    /\ pFiles' = [pFiles EXCEPT ![<<Repo, Hook>>] = "ours"]
    /\ Proceeds
    /\ UNCHANGED <<pBefore, pOverlap, pRecord>>
    /\ FilesOnly

Restore ==
    /\ AtStep("restore")
    /\ LET f == FileOf(Repo, Head(Todo)[2])
       IN  pFiles' = IF Joined(Repo)
                     THEN [pFiles EXCEPT ![f] = pRecord[Repo].files[f]] ELSE pFiles
    /\ Proceeds
    /\ UNCHANGED <<pBefore, pOverlap, pRecord>>
    /\ FilesOnly

\* The socket file, then the record that says there is something to undo.
Forget ==
    /\ AtStep("forget")
    /\ pRecord' = [pRecord EXCEPT ![Repo] = NoRecord]
    /\ pSocket' = [pSocket EXCEPT ![Repo] = 0]
    /\ Proceeds
    /\ UNCHANGED <<fileVars, pDaemons, pWindow, pTimer, pCrashes>>
-----------------------------------------------------------------------------
(* The processes.                                                          *)

Stage(d) == pDaemons[d].stage
Moved(d, stage) == pDaemons' = [pDaemons EXCEPT ![d].stage = stage]
Alive(d) == d \in DOMAIN pDaemons /\ Stage(d) # "gone"

\* A request over the socket file is answered by a daemon that listens to it.
Answers(d) == d # 0 /\ Stage(d) = "up"

\* A started process, and only then its number in the record.
Spawn ==
    /\ AtStep("spawn")
    /\ Len(pDaemons) < MaxDaemons
    /\ pDaemons' = Append(pDaemons, [repo |-> Repo, stage |-> "booting"])
    /\ Proceeds
    /\ UNCHANGED <<fileVars, pSocket, pWindow, pTimer, pCrashes, pRecord>>

WritePid ==
    /\ AtStep("pid")
    /\ pRecord' = [pRecord EXCEPT ![Repo].pid = Len(pDaemons)]
    /\ Proceeds
    /\ UNCHANGED <<fileVars, processVars>>

\* The daemon answers, or the wait is over and everything is undone.
Await ==
    /\ AtStep("await")
    /\ \/ Answers(pSocket[Repo]) /\ Finishes
       \/ Runs(Repo, Kill \o Uninstall)
    /\ UNCHANGED <<fileVars, processVars, pRecord>>

\* SIGTERM ends a daemon that has not set its handler yet, which it does after
\* its start, or has used it before; else it asks an idle daemon to stop and
\* means nothing to a stopping one.
AfterTerm(stage) ==
    {"gone"} \cup (IF stage = "up" THEN {"stopping"} ELSE {stage} \ {"booting", "starting"})

\* The stream to a process that is gone breaks, and a timer starts.
StreamBreaks(d) ==
    /\ pWindow' = IF pWindow = d THEN 0 ELSE pWindow
    /\ pTimer' = (pTimer \/ pWindow = d)

KillDaemon ==
    /\ AtStep("kill")
    /\ LET pid == pRecord[Repo].pid
       IN  IF Alive(pid)
           THEN \E stage \in AfterTerm(Stage(pid)) :
                   /\ Moved(pid, stage)
                   /\ IF stage = "gone" THEN StreamBreaks(pid)
                      ELSE UNCHANGED <<pWindow, pTimer>>
           ELSE UNCHANGED <<pDaemons, pWindow, pTimer>>
    /\ Proceeds
    /\ UNCHANGED <<fileVars, pSocket, pCrashes, pRecord>>

\* Five seconds, or as long as the process lives if that is less.
Gone ==
    /\ AtStep("gone")
    /\ Proceeds
    /\ UNCHANGED <<fileVars, processVars, pRecord>>

\* The daemon acknowledges and stops, or cannot be reached; a signal follows
\* when the record knows the process and it has not gone by itself.
Shutdown ==
    /\ AtStep("shutdown")
    /\ LET d == pSocket[Repo]
           pid == pRecord[Repo].pid
       IN  /\ IF Answers(d) THEN Moved(d, "stopping") ELSE UNCHANGED pDaemons
           /\ Runs(Repo, IF pid = 0 THEN Uninstall
                         ELSE IF Answers(d) THEN <<<<"wait">>>> ELSE Kill \o Uninstall)
    /\ UNCHANGED <<fileVars, pSocket, pWindow, pTimer, pCrashes, pRecord>>

Wait ==
    /\ AtStep("wait")
    /\ \/ ~Alive(pRecord[Repo].pid) /\ Runs(Repo, Uninstall)
       \/ Alive(pRecord[Repo].pid) /\ Runs(Repo, Kill \o Uninstall)
    /\ UNCHANGED <<fileVars, processVars, pRecord>>

\* The constructor needs the record and unlinks whatever socket file is there.
DaemonBoots(d) ==
    /\ Stage(d) = "booting"
    /\ LET r == pDaemons[d].repo
       IN  IF Joined(r)
           THEN Moved(d, "starting") /\ pSocket' = [pSocket EXCEPT ![r] = 0]
           ELSE Moved(d, "gone") /\ UNCHANGED pSocket
    /\ UNCHANGED <<fileVars, pWindow, pTimer, pCrashes, pRecord, pCommand>>

\* The room is opened and the socket listens; a second daemon of the repository
\* finds the storage locked.
DaemonListens(d) ==
    /\ Stage(d) = "starting"
    /\ LET r == pDaemons[d].repo
           locked == \E e \in DOMAIN pDaemons \ {d} :
                        pDaemons[e].repo = r /\ Stage(e) \in {"up", "stopping"}
       IN  IF locked
           THEN Moved(d, "gone") /\ UNCHANGED pSocket
           ELSE Moved(d, "up") /\ pSocket' = [pSocket EXCEPT ![r] = d]
    /\ UNCHANGED <<fileVars, pWindow, pTimer, pCrashes, pRecord, pCommand>>

\* The room is left and the server closed: nobody new is let in, and the file of
\* the socket goes.
DaemonCloses(d) ==
    /\ Stage(d) = "stopping"
    /\ Moved(d, "closed")
    /\ pSocket' = [pSocket EXCEPT ![pDaemons[d].repo] = 0]
    /\ UNCHANGED <<fileVars, pWindow, pTimer, pCrashes, pRecord, pCommand>>

\* The server is closed for good when its last subscriber has gone; then the
\* socket file is removed once more, whoever it leads to.
DaemonExits(d) ==
    /\ Stage(d) = "closed"
    /\ pWindow # d
    /\ Moved(d, "gone")
    /\ pSocket' = [pSocket EXCEPT ![pDaemons[d].repo] = 0]
    /\ UNCHANGED <<fileVars, pWindow, pTimer, pCrashes, pRecord, pCommand>>

\* A killed daemon leaves its socket file behind; its streams break.
DaemonDies(d) ==
    /\ Alive(d)
    /\ pCrashes < MaxCrashes
    /\ pCrashes' = pCrashes + 1
    /\ Moved(d, "gone")
    /\ StreamBreaks(d)
    /\ UNCHANGED <<fileVars, pSocket, pRecord, pCommand>>

\* `agg daemon` by hand, in a repository that is joined.
RunDaemon(r) ==
    /\ pCommand = Rest
    /\ Joined(r)
    /\ Len(pDaemons) < MaxDaemons
    /\ pDaemons' = Append(pDaemons, [repo |-> r, stage |-> "booting"])
    /\ UNCHANGED <<fileVars, pSocket, pWindow, pTimer, pCrashes, pRecord, pCommand>>

\* The window's timer: no record, no further attempt.
Subscribe(r) ==
    /\ pTimer
    /\ pWindow = 0
    /\ LET d == pSocket[r]
       IN  IF Joined(r) /\ d # 0 /\ Stage(d) \in {"up", "stopping"}
           THEN pWindow' = d /\ pTimer' = FALSE
           ELSE UNCHANGED pWindow /\ pTimer' = Joined(r)
    /\ UNCHANGED <<fileVars, pDaemons, pSocket, pCrashes, pRecord, pCommand>>

\* The person closes the window and opens it again, while no command runs.
ReopenWindow ==
    /\ pCommand = Rest
    /\ pWindow # 0 \/ ~pTimer
    /\ pWindow' = 0
    /\ pTimer' = TRUE
    /\ UNCHANGED <<fileVars, pDaemons, pSocket, pCrashes, pRecord, pCommand>>

\* The shared file belongs to the host, which writes to it while no command runs.
\* Without a record that is how it was before the next join.
HostWrites ==
    /\ pCommand = Rest
    /\ pEdits < MaxEdits
    /\ pEdits' = pEdits + 1
    /\ LET f == FileOf(Repo, Shared)
       IN  /\ pFiles' = [pFiles EXCEPT ![f] = "edited"]
           /\ pBefore' = IF \E r \in Repos : Joined(r) THEN pBefore
                         ELSE [pBefore EXCEPT ![f] = "edited"]
    /\ UNCHANGED <<pOverlap, pJoins, processVars, pRecord, pCommand>>
-----------------------------------------------------------------------------
NextLaptop ==
    \/ \E r \in Repos : StartCreate(r) \/ StartLeave(r) \/ RunDaemon(r) \/ Subscribe(r)
    \/ CommandDies
    \/ Record \/ Merge \/ CopyHook \/ WriteHook \/ Restore \/ Forget
    \/ Spawn \/ WritePid \/ Await \/ KillDaemon \/ Gone \/ Shutdown \/ Wait
    \/ \E d \in DOMAIN pDaemons :
          DaemonBoots(d) \/ DaemonListens(d) \/ DaemonCloses(d) \/ DaemonExits(d) \/ DaemonDies(d)
    \/ ReopenWindow
    \/ HostWrites

\* A repository without a record is as it was before Agentigram came, wherever a
\* command was killed, and one with a record can be put back to that. The file
\* that repositories share is kept exactly only if no two were joined at once
\* (install.ts install and uninstall, cli.ts startDaemonOrRollback and leave).
LeavesNoTrace ==
    \A r \in Repos, f \in AllFiles :
        f \in FilesOf(r) /\ (f[1] = Shared => ~pOverlap) =>
            IF Joined(r) THEN pRecord[r].files[f] = pBefore[f]
            ELSE (\A q \in Repos : f \in FilesOf(q) => ~Joined(q)) => pFiles[f] = pBefore[f]
=============================================================================
