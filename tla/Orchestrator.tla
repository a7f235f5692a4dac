---------------------------- MODULE Orchestrator ----------------------------
(***************************************************************************)
(* The authority's orchestrator (apps/daemon/src/orchestrator): it debates *)
(* one collision at a time, speaking for both sides, while agents, humans  *)
(* and workers move in the same negotiations.                              *)
(*                                                                         *)
(* It awaits a model's answer, the end of a spoken line and the publishing *)
(* of each of its events; anything may happen at each of these points, so  *)
(* what it does between two of them is a step.  It reads the room from the *)
(* daemon's replica, which gets an event only when the event has been      *)
(* published, and it reads it twice: when a debate begins, and at its end. *)
(*                                                                         *)
(* The lines it speaks are MESSAGE events.  To a negotiation they are      *)
(* OtherEvents, which may come at any time, so they have no steps here.    *)
(***************************************************************************)
EXTENDS Negotiation

CONSTANTS
    Debatable,        \* the collisions above tier 0 that name a symbol
    CollisionSymbol,  \* that symbol, as contracts write it
    MaxFaults         \* bound: failed submits, and restarts of the authority

ASSUME DebatableAssumption ==
    /\ Debatable \subseteq Collisions
    /\ \A c \in Debatable : AffectedOf[c] # {}
    /\ MaxFaults \in Nat

VARIABLES
    view,    \* host.state(): the negotiations as the daemon has them
    seen,    \* Orchestrator.seen
    queue,   \* the collisions waiting in Orchestrator.tail
    debate,  \* the running debate: where it is, and its DebateContext
    faults

orchVars == <<view, seen, queue, debate, faults>>
vars == <<negVars, orchVars>>
-----------------------------------------------------------------------------
NoDebate == [at |-> "none"]

Steps == {"grace", "propose", "respond", "agree", "signWriter",
          "signAffected", "conclude"}

Debates == [at : Steps, on : Debatable, contract : Contracts \cup {NoContract},
            author : {"writer", "affected"}, counters : 0 .. MaxRounds]

OrchTypeOK ==
    /\ view \in [Collisions -> [state : States, contract : Contracts \cup {NoContract},
                              resolved : BOOLEAN]]
    /\ queue \subseteq seen
    /\ seen \subseteq Debatable
    /\ debate \in Debates \cup {NoDebate}
    /\ faults \in Nat

\* collision.affectedSessions[0]: the one affected session a debate speaks for.
FirstAffected(c) == CHOOSE s \in AffectedOf[c] : TRUE

Speaker(who, c) == IF who = "writer" THEN WriterOf[c] ELSE FirstAffected(c)
Other(who) == IF who = "writer" THEN "affected" ELSE "writer"

\* SETTLED, as the orchestrator has it: it leaves these negotiations alone.
Settled == Released \cup {"Escalated"}

\* What a model may answer: any contract, but on the symbol it was given.
ContractsOn(x) == {k \in Contracts : SymbolOf[k] = x}
-----------------------------------------------------------------------------
(***************************************************************************)
(* The replica, and handle(), which hears of what reaches it.              *)
(***************************************************************************)
\* What a debate reads of a negotiation and its collision.
Seen(n) == [state |-> n.state, contract |-> n.contract, resolved |-> n.resolved]

Replica(ns) == [c \in Collisions |-> Seen(ns[c])]

\* The collisions whose COLLISION events are among what has just arrived.
Heard(ns) == {c \in Debatable \ seen :
                view[c].state = "Unopened" /\ ns[c].state # "Unopened"}

\* Everything applied so far has been published and has reached the daemon.
Delivers ==
    /\ view' = Replica(neg')
    /\ seen' = seen \cup Heard(neg')
    /\ queue' = queue \cup Heard(neg')

Deliver ==
    /\ view # Replica(neg)
    /\ UNCHANGED <<negVars, debate, faults>>
    /\ Delivers

\* `await this.emit(...)': the event is applied, and the debate goes on when it
\* has been published, with it and all events before it in the replica.
Emits(event) ==
    /\ event
    /\ Delivers
    /\ UNCHANGED <<moves, faults>>
-----------------------------------------------------------------------------
(***************************************************************************)
(* debate()                                                                *)
(***************************************************************************)
At(step) == debate.at = step

Takes(c) ==
    /\ debate = NoDebate
    /\ c \in queue
    /\ queue' = queue \ {c}
    /\ debate' = [at |-> "grace", on |-> c, contract |-> NoContract,
                  author |-> "writer", counters |-> 0]
    /\ UNCHANGED <<negVars, view, seen, faults>>

\* After the grace period: leave, join what the agents have begun, or open.
Begins ==
    LET c == debate.on
        n == view[c]
    IN /\ At("grace")
       /\ \/ /\ n.resolved \/ n.state \in Settled
             /\ debate' = NoDebate
          \/ /\ ~n.resolved /\ n.state \notin Settled
             /\ n.contract # NoContract /\ n.state # "Open"
             /\ debate' = [debate EXCEPT !.at = "respond", !.contract = n.contract,
                              !.author = IF n.state = "Countered" THEN "affected" ELSE "writer"]
          \/ /\ ~n.resolved /\ n.state \notin Settled
             /\ n.contract = NoContract \/ n.state = "Open"
             /\ debate' = [debate EXCEPT !.at = "propose"]
       /\ UNCHANGED <<negVars, view, seen, queue, faults>>

SaysProposal ==
    /\ At("propose")
    /\ \E k \in ContractsOn(CollisionSymbol[debate.on]) :
          /\ Emits(Propose(debate.on, k))
          /\ debate' = [debate EXCEPT !.at = "respond", !.contract = k]

\* A counter beyond MAX_NEGOTIATION_ROUNDS would escalate, so it stops one short.
MayCounter == debate.counters < MaxRounds - 1

SaysCounter ==
    /\ At("respond")
    /\ MayCounter
    /\ \E k \in ContractsOn(SymbolOf[debate.contract]) :
          /\ Emits(Counter(debate.on, k))
          /\ debate' = [debate EXCEPT !.contract = k, !.author = Other(@),
                                      !.counters = @ + 1]

SaysAccept ==
    /\ At("respond")
    /\ MayCounter
    /\ Emits(Accept(debate.on, Speaker(Other(debate.author), debate.on)))
    /\ debate' = [debate EXCEPT !.at = "agree"]

AuthorAgrees ==
    /\ At("agree")
    /\ Emits(Accept(debate.on, Speaker(debate.author, debate.on)))
    /\ debate' = [debate EXCEPT !.at = "conclude"]

\* synthesise(): the rounds are used up.
Merges ==
    /\ At("respond")
    /\ ~MayCounter
    /\ \E k \in ContractsOn(SymbolOf[debate.contract]) :
          /\ Emits(Propose(debate.on, k))
          /\ debate' = [debate EXCEPT !.at = "signWriter", !.contract = k]

WriterSigns ==
    /\ At("signWriter")
    /\ Emits(Accept(debate.on, WriterOf[debate.on]))
    /\ debate' = [debate EXCEPT !.at = "signAffected"]

AffectedSigns ==
    /\ At("signAffected")
    /\ Emits(Accept(debate.on, FirstAffected(debate.on)))
    /\ debate' = [debate EXCEPT !.at = "conclude"]

\* conclude(): what it compiles is the contract of its own context.
Outcome ==
    IF view[debate.on].state = "Accepted"
    THEN ContractCompiled(debate.on, debate.contract)
    ELSE Escalate(debate.on)

Concludes ==
    /\ At("conclude")
    /\ Emits(Outcome)
    /\ debate' = NoDebate

DebateStep ==
    \/ \E c \in Collisions : Takes(c)
    \/ Begins
    \/ SaysProposal
    \/ SaysCounter
    \/ SaysAccept
    \/ AuthorAgrees
    \/ Merges
    \/ WriterSigns
    \/ AffectedSigns
    \/ Concludes
-----------------------------------------------------------------------------
(***************************************************************************)
(* What goes wrong.                                                        *)
(***************************************************************************)

\* Without the catch the tail stays rejected, and no debate after it runs.
FaultyDebateFails ==
    /\ debate # NoDebate
    /\ faults < MaxFaults
    /\ faults' = faults + 1
    /\ debate' = [debate EXCEPT !.at = "rejected"]
    /\ UNCHANGED <<negVars, view, seen, queue>>

\* A submit throws: enqueue's catch logs it, and the collision stays `seen'.  If
\* the event had been applied before the publishing failed, the step before this
\* one applied it.
DebateFails ==
    /\ debate # NoDebate
    /\ faults < MaxFaults
    /\ faults' = faults + 1
    /\ debate' = NoDebate
    /\ UNCHANGED <<negVars, view, seen, queue>>

\* The authority dies and comes back: the room is as it was, and resume() takes
\* up what is not resolved.
Restart ==
    /\ faults < MaxFaults
    /\ faults' = faults + 1
    /\ debate' = NoDebate
    /\ view' = Replica(neg)
    /\ seen' = {c \in Debatable : neg[c].state # "Unopened" /\ ~neg[c].resolved}
    /\ queue' = seen'
    /\ UNCHANGED negVars
-----------------------------------------------------------------------------
Init ==
    /\ NegInit
    /\ view = Replica(neg)
    /\ seen = {}
    /\ queue = {}
    /\ debate = NoDebate
    /\ faults = 0

\* The events of others; the replica gets them later.
OthersStep ==
    /\ \/ \E c \in Collisions : Detected(c)
       \/ AgentMove
       \/ HumanMove
       \/ WorkerMove
       \/ OtherEvent
       \/ Tick
    /\ UNCHANGED orchVars

Next == OthersStep \/ Deliver \/ DebateStep \/ DebateFails \/ Restart

Spec == Init /\ [][Next]_vars

\* Time passes, the authority's own daemon sends a heartbeat every so often, what
\* is published arrives, and a debate waits for nothing but timers and answers.
\* Nothing is assumed of agents, humans and workers.
Fairness ==
    /\ WF_vars(Tick /\ UNCHANGED orchVars)
    /\ WF_vars(OtherEvent /\ UNCHANGED orchVars)
    /\ WF_vars(Deliver)
    /\ WF_vars(DebateStep)

FairSpec == Spec /\ Fairness
-----------------------------------------------------------------------------
(***************************************************************************)
(* Properties.                                                             *)
(***************************************************************************)

\* Every variable holds what its declaration says.
TypesOK == TypeOK /\ OrchTypeOK

\* Agents do not argue for ever: a negotiation that is under way is settled at
\* some later time, however its debate fares.
NegotiationsSettle ==
    \A c \in Collisions :
        neg[c].state \in {"Open", "Proposed", "Countered"} ~> neg[c].state \in Settled

\* Collisions are debated one at a time, but none waits for ever: not behind a
\* debate that goes on and on, nor behind one that failed.
NoneWaitsForever == \A c \in Debatable : c \in queue ~> c \notin queue
=============================================================================
