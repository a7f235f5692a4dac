----------------------------- MODULE SpecMerge -----------------------------
(***************************************************************************)
(* The speculative merge worker (apps/specmerge): each line of its socket  *)
(* is a request, and each request runs on its own, one external command    *)
(* after the other, in a temporary worktree of the repository: add it,     *)
(* apply the sessions' patches in lease order, write the contract checks,  *)
(* type-check, test, remove it. A command succeeds, fails, is killed at    *)
(* its timeout, or is broken: it never starts or something else kills it,  *)
(* which the worker cannot tell from a failure (runCommand, applyPatch).   *)
(***************************************************************************)
EXTENDS Naturals, SequencesExt

CONSTANTS
    Requests    \* line -> [diffs, contracts, readable, inside]: the patches as
                \* [session, lease], whether contracts come with them, whether
                \* the worker can decrypt them, whether the project path and the
                \* check files stay inside the worktree

VARIABLES
    mStage,     \* line -> where its request is
    mLeft,      \* line -> patches still to apply, in order
    mDir,       \* lines whose temporary directory exists
    mEntry,     \* lines whose worktree was added and is still known
    mDone,      \* line -> stages that ran to their end
    mBroken,    \* history: line -> stages whose command was broken
    mAnswer     \* line -> what the connection is told, Pending before

mergeVars == <<mStage, mLeft, mDir, mEntry, mDone, mBroken, mAnswer>>

Pending == [kind |-> "pending"]
Ends == {"ok", "failed", "timeout", "broken"}
ToTheEnd(end) == end \in {"ok", "failed"}

\* Whether what a checker prints parses into errors.
Parses == BOOLEAN

InitMerge ==
    /\ mStage = [r \in DOMAIN Requests |-> "unsent"]
    /\ mLeft = [r \in DOMAIN Requests |-> <<>>]
    /\ mDir = {}
    /\ mEntry = {}
    /\ mDone = [r \in DOMAIN Requests |-> {}]
    /\ mBroken = [r \in DOMAIN Requests |-> {}]
    /\ mAnswer = [r \in DOMAIN Requests |-> Pending]
-----------------------------------------------------------------------------
\* By lease, then by session.
Before(d, e) == d.lease < e.lease \/ (d.lease = e.lease /\ d.session <= e.session)
OrderedDiffs(r) == SetToSortSeq(Requests[r].diffs, Before)

Contracts(r) == IF Requests[r].contracts THEN {"contracts"} ELSE {}

Result(notRun, errors) == [kind |-> "result", notRun |-> notRun, errors |-> errors]
Failure == Result({"typecheck", "tests", "contracts"}, TRUE)
Thrown == [kind |-> "error"]

At(r, stage) == mStage[r] = stage
Goes(r, stage) == mStage' = [mStage EXCEPT ![r] = stage]

\* Whatever is decided, the answer is written after the cleaning up.
Decides(r, answer) ==
    /\ mAnswer' = [mAnswer EXCEPT ![r] = answer]
    /\ Goes(r, IF r \in mEntry THEN "removing" ELSE "deleting")

\* A request whose patches cannot be decrypted, or whose directory cannot be made,
\* is refused before anything is touched.
Start(r) ==
    /\ At(r, "unsent")
    /\ \/ /\ Requests[r].readable
          /\ mLeft' = [mLeft EXCEPT ![r] = OrderedDiffs(r)]
          /\ mDir' = mDir \cup {r}
          /\ Goes(r, "adding")
          /\ UNCHANGED mAnswer
       \/ /\ mAnswer' = [mAnswer EXCEPT ![r] = Thrown]
          /\ Goes(r, "answered")
          /\ UNCHANGED <<mLeft, mDir>>
    /\ UNCHANGED <<mEntry, mDone, mBroken>>

AddWorktree(r, end) ==
    /\ At(r, "adding")
    /\ IF end = "ok"
       THEN /\ mEntry' = mEntry \cup {r}
            /\ Goes(r, "patching")
            /\ UNCHANGED mAnswer
       ELSE /\ Decides(r, Failure)
            /\ UNCHANGED mEntry
    /\ UNCHANGED <<mLeft, mDir, mDone, mBroken>>

ApplyPatch(r, end) ==
    /\ At(r, "patching")
    /\ mLeft[r] # <<>>
    /\ mLeft' = [mLeft EXCEPT ![r] = Tail(@)]
    /\ CASE end = "ok" -> UNCHANGED <<mStage, mAnswer>>
         [] end \in {"failed", "broken"} -> Decides(r, Failure)
         [] end = "timeout" ->
                Decides(r, Result({"patch apply", "typecheck", "tests", "contracts"}, FALSE))
    /\ UNCHANGED <<mDir, mEntry, mDone, mBroken>>

\* A check file or a project path outside the worktree throws, as does a file that
\* cannot be written.
WriteChecks(r) ==
    /\ At(r, "patching")
    /\ mLeft[r] = <<>>
    /\ \/ Requests[r].inside /\ Goes(r, "checking") /\ UNCHANGED mAnswer
       \/ Decides(r, Thrown)
    /\ UNCHANGED <<mLeft, mDir, mEntry, mDone, mBroken>>

\* What stays undone when the type check does.
Unchecked(r) == {"typecheck", "tests"} \cup Contracts(r)

\* The compiler's errors are what its output can be parsed into; with contracts
\* a failure that parses to nothing counts as one. A stage has run if its command
\* came to its own end.
Typecheck(r, end, parsed) ==
    /\ At(r, "checking")
    /\ IF end = "timeout"
       THEN Decides(r, Result(Unchecked(r), parsed))
       ELSE /\ mAnswer' = [mAnswer EXCEPT ![r] =
                   [kind |-> "checked", errors |-> parsed \/ (end # "ok" /\ Requests[r].contracts)]]
            /\ Goes(r, "testing")
    /\ mDone' = [mDone EXCEPT ![r] =
           IF ToTheEnd(end) THEN {"typecheck"} \cup Contracts(r) ELSE @]
    /\ mBroken' = [mBroken EXCEPT ![r] =
           IF end = "broken" THEN {"typecheck"} \cup Contracts(r) ELSE @]
    /\ UNCHANGED <<mLeft, mDir, mEntry>>

\* The tests that depend on the changed files; what is reported as failing is
\* again what the output parses into.
RunTests(r, end, parsed) ==
    /\ At(r, "testing")
    /\ Decides(r, Result(IF end = "timeout" THEN {"tests"} ELSE {},
                         mAnswer[r].errors \/ parsed))
    /\ mDone' = [mDone EXCEPT ![r] = IF ToTheEnd(end) THEN @ \cup {"tests"} ELSE @]
    /\ mBroken' = [mBroken EXCEPT ![r] = IF end = "broken" THEN @ \cup {"tests"} ELSE @]
    /\ UNCHANGED <<mLeft, mDir, mEntry>>
-----------------------------------------------------------------------------
(* finally: remove, prune, delete. A failure of the first two is swallowed; *)
(* one of the last replaces whatever was to be answered.                   *)

RemoveWorktree(r, end) ==
    /\ At(r, "removing")
    /\ IF end = "ok"
       THEN mEntry' = mEntry \ {r} /\ mDir' = mDir \ {r}
       ELSE UNCHANGED <<mEntry, mDir>>
    /\ Goes(r, "pruning")
    /\ UNCHANGED <<mLeft, mDone, mBroken, mAnswer>>

\* Prune forgets every worktree of the repository whose directory is gone.
Prune(r, end) ==
    /\ At(r, "pruning")
    /\ mEntry' = IF end = "ok" THEN mEntry \cap mDir ELSE mEntry
    /\ Goes(r, "deleting")
    /\ UNCHANGED <<mLeft, mDir, mDone, mBroken, mAnswer>>

FaultyDeleted(r) == IF r \in mEntry THEN mDir \ {r} ELSE mDir
Deleted(r) == mDir \ {r}

\* A directory that is there may refuse to be deleted.
Delete(r) ==
    /\ At(r, "deleting")
    /\ \/ mDir' = Deleted(r) /\ UNCHANGED mAnswer
       \/ /\ r \in mDir
          /\ mAnswer' = [mAnswer EXCEPT ![r] = Thrown]
          /\ UNCHANGED mDir
    /\ Goes(r, "answered")
    /\ UNCHANGED <<mLeft, mEntry, mDone, mBroken>>

NextMerge ==
    \E r \in DOMAIN Requests :
        \/ Start(r)
        \/ \E end \in Ends : AddWorktree(r, end)
        \/ \E end \in Ends : ApplyPatch(r, end)
        \/ WriteChecks(r)
        \/ \E end \in Ends, parsed \in Parses : Typecheck(r, end, parsed)
        \/ \E end \in Ends, parsed \in Parses : RunTests(r, end, parsed)
        \/ \E end \in Ends : RemoveWorktree(r, end)
        \/ \E end \in Ends : Prune(r, end)
        \/ Delete(r)

\* A request answered with a result has left no directory, whichever step failed: one
\* is left only where deleting it threw, and then the answer is an error. Of the stages
\* a result is about it names each that did not run to its end and none that did,
\* contracts included when there were any; but a stage whose command never started, or
\* was killed by something else than the timeout, it takes for run (index.ts
\* runSpeculativeMerge, its returns and finally; runCommand).
AnswersAccountForAll ==
    \A r \in DOMAIN Requests :
        At(r, "answered") /\ mAnswer[r] # Thrown =>
            /\ r \notin mDir
            /\ Unchecked(r) \ mDone[r] \subseteq mAnswer[r].notRun \cup mBroken[r]
            /\ mAnswer[r].notRun \cap mDone[r] = {}
=============================================================================
