------------------------------ MODULE Planner ------------------------------
(***************************************************************************)
(* The planner: allocates the room's files before anyone collides          *)
(* (apps/daemon/src/orchestrator/planner.ts, and its pure part, plan.ts).  *)
(* It runs at the authority and submits with the system origin, for which  *)
(* RoomCore derives nothing: its INTENTs and leases are applied as they    *)
(* are, on a room that has moved on since the brief it planned from.       *)
(*                                                                         *)
(* A symbol key is a pair of its file and a number; number 0 is the key of *)
(* the whole module.  The caps on files, symbols and leases of one plan    *)
(* are left out: the instances stay below them.                            *)
(***************************************************************************)
EXTENDS Integers, Sequences, FiniteSets, SequencesExt, Subsequences

CONSTANTS
    Agents,       \* session ids, as a sequence in their sorted order
    Files,        \* paths
    SymbolKeys,   \* symbols known to the index, pairs <<file, number>>
    Drafts,       \* what the model may answer: whom it prefers for a file, and a text
    MaxMoves      \* bound: events from outside, humans asking for a plan, and failures

ASSUME AgentsAssumption == Agents \in Seq(ToSet(Agents)) /\ IsInjective(Agents)
ASSUME KeyAssumption == SymbolKeys \subseteq Files \X (Nat \ {0})
ASSUME PlannerBounds == MaxMoves \in Nat

AgentIds == ToSet(Agents)
Keys == SymbolKeys \cup (Files \X {0})
FileOf(key) == key[1]

VARIABLES
    sess,      \* state.sessions
    leases,    \* state.leases
    debating,  \* an open symbol collision is being negotiated
    timer,     \* the debounce timer is set
    queued,    \* runs waiting in `tail`
    step,      \* where the run that has begun stands
    current,   \* the plan last published, whose fingerprint is kept
    cooling,   \* less than minIntervalMs since it was published
    spent,     \* moves so far, for the bound
    late,      \* history: who declared or ended, and what was granted, since the brief
    overruled, \* history: what the planner has overruled that was not late
    stale      \* history: the last run gave way to a debate or failed, or leases have
               \* changed since its brief, which triggers nothing

plannerVars == <<sess, leases, debating, timer, queued, step, current, cooling, spent, late,
                 overruled, stale>>
-----------------------------------------------------------------------------
(***************************************************************************)
(* plan.ts.  A brief is what the room has observed.                        *)
(***************************************************************************)
NoTask == <<"none">>
OwnTask == <<"own">>
NoPlan == <<>>
Untold == [task |-> NoTask, files |-> {}, syms |-> {}]

Joined == [live |-> TRUE, reads |-> {}, syms |-> {}, writes |-> {}, intent |-> Untold]

\* Where in the leases, which are in the order they were granted, a key is.
LeasesOn(ls, key) == {i \in DOMAIN ls : key \in ls[i].keys}

\* buildBrief: the live sessions, who holds a key (the last lease counts), and since when.
BriefOf(room, ls) ==
    LET leased == {k \in Keys : LeasesOn(ls, k) # {}}
    IN  [info  |-> [s \in {t \in AgentIds : room[t].live} |-> room[s]],
         held  |-> [k \in leased |-> ls[Max(LeasesOn(ls, k))].session],
         since |-> [k \in leased |-> Min(LeasesOn(ls, k))]]

Present(b) == DOMAIN b.info

Touched(i) == i.writes \cup i.intent.files \cup i.reads

\* interestMap, and the files two are interested in.
Interested(b, f) == {s \in Present(b) : f \in Touched(b.info[s])}
Contested(b) == {f \in Files : Cardinality(Interested(b, f)) >= 2}

\* The first in sorted order.
FirstOf(S) == Agents[Min({i \in DOMAIN Agents : Agents[i] \in S})]

\* Keys of the file that are leased to someone interested in it; the oldest counts.
LeasedKeys(b, f) == {k \in DOMAIN b.held : FileOf(k) = f /\ b.held[k] \in Interested(b, f)}
OldestKeys(b, f) ==
    {k \in LeasedKeys(b, f) : \A j \in LeasedKeys(b, f) : b.since[k] <= b.since[j]}
Holder(b, f) == b.held[CHOOSE k \in OldestKeys(b, f) : TRUE]

Writers(b, f) == {s \in Interested(b, f) : f \in b.info[s].writes}
Declarers(b, f) == {s \in Interested(b, f) : f \in b.info[s].intent.files}

\* A preference counts only for a session that is interested in the file.
Preferred(b, prefer, f) == f \in DOMAIN prefer /\ prefer[f] \in Interested(b, f)

\* assignOwners: whom the model prefers, if it is interested; who holds a lease; who has
\* written it, declared it, read it.
Owner(b, prefer, f) ==
    IF Preferred(b, prefer, f) THEN prefer[f]
    ELSE IF LeasedKeys(b, f) # {} THEN Holder(b, f)
    ELSE FirstOf(IF Writers(b, f) # {} THEN Writers(b, f)
                 ELSE IF Declarers(b, f) # {} THEN Declarers(b, f)
                 ELSE Interested(b, f))

Owns(b, prefer, s) ==
    {f \in Files : Interested(b, f) # {} /\ Owner(b, prefer, f) = s}

Observed(b) == UNION {b.info[s].syms \cup b.info[s].intent.syms : s \in Present(b)}

\* The keys of a contested file: the symbols anyone has seen, or else the module.
KeysFor(b, f) ==
    IF \E k \in Observed(b) : FileOf(k) = f THEN {k \in Observed(b) : FileOf(k) = f}
    ELSE {<<f, 0>>}

HeldByOther(b, s, k) == k \in DOMAIN b.held /\ b.held[k] # s

FaultyClaimable(b, s, k) == TRUE

\* "Someone else's live lease stands."
Claimable(b, s, k) == ~HeldByOther(b, s, k)

Claim(b, prefer, s) ==
    {k \in UNION {KeysFor(b, f) : f \in Owns(b, prefer, s) \cap Contested(b)} :
        Claimable(b, s, k)}

\* A session's own word, the model's, or what its files suggest (inferTask).
Task(b, text, owns, s) ==
    IF b.info[s].intent.task # NoTask THEN b.info[s].intent.task
    ELSE IF text # NoTask THEN text
    ELSE IF owns = {} THEN <<"waiting">> ELSE <<"files", b.info[s].writes # {}, owns>>

Assignment(b, draft, s) ==
    LET owns == Owns(b, draft.prefer, s)
    IN  [session |-> s, owns |-> owns, task |-> Task(b, draft.text, owns, s),
         syms |-> {k \in Observed(b) : FileOf(k) \in owns},
         claim |-> Claim(b, draft.prefer, s),
         avoid |-> {f \in Touched(b.info[s]) : Owner(b, draft.prefer, f) # s}]

\* No answer of a model: deterministicPlan.
NoDraft == [prefer |-> <<>>, text |-> NoTask]

\* composePlan, in the order of the brief.  Its fingerprint is all of it.
PlanOf(b, draft) ==
    LET order == Subsequence(Agents, {i \in DOMAIN Agents : Agents[i] \in Present(b)})
    IN  [i \in DOMAIN order |-> Assignment(b, draft, order[i])]
-----------------------------------------------------------------------------
Idle == [at |-> "idle"]

\* A session that has read the file, and what the index knows of it.
WithRead(i, f) == [i EXCEPT !.reads = @ \cup {f}, !.syms = @ \cup {k \in SymbolKeys : FileOf(k) = f}]

\* Sessions have started, and some have read a file, which set the timer.
PlannerInit ==
    /\ sess \in [AgentIds -> {[Joined EXCEPT !.live = FALSE], Joined}
                               \cup {WithRead(Joined, f) : f \in Files}]
    /\ leases = <<>> /\ debating = FALSE
    /\ timer = TRUE /\ queued = 0 /\ step = Idle
    /\ current = NoPlan /\ cooling = FALSE
    /\ spent = 0
    /\ late = {} /\ overruled = {} /\ stale = FALSE

Spend == spent < MaxMoves /\ spent' = spent + 1

PlannerRests == UNCHANGED <<queued, step, current, cooling, overruled>>
-----------------------------------------------------------------------------
(***************************************************************************)
(* The room.  Sessions come and go, read, write, declare what they do, ask *)
(* for leases; debates begin and end.                                      *)
(***************************************************************************)
FaultyTriggers == timer' = (timer \/ step.at = "idle") /\ UNCHANGED stale

\* Events in TRIGGERS set the timer, if it is not set (schedule); others do not.
Triggers == timer' = TRUE /\ UNCHANGED stale
Silent == timer' = timer

Outside == Spend /\ PlannerRests

Starts(s) ==
    /\ Outside /\ Triggers
    /\ sess' = [sess EXCEPT ![s] = Joined]
    /\ UNCHANGED <<leases, debating, late>>

Ends(s) ==
    /\ sess[s].live
    /\ Outside /\ Triggers
    /\ sess' = [sess EXCEPT ![s].live = FALSE]
    /\ leases' = Subsequence(leases, {i \in DOMAIN leases : leases[i].session # s})
    /\ late' = late \cup {<<"ended", s>>}
    /\ UNCHANGED debating

Reads(s, f) ==
    /\ sess[s].live
    /\ Outside /\ Triggers
    /\ sess' = [sess EXCEPT ![s] = WithRead(@, f)]
    /\ UNCHANGED <<leases, debating, late>>

Writes(s, f) ==
    /\ sess[s].live
    /\ Outside /\ Triggers
    /\ sess' = [sess EXCEPT ![s].writes = @ \cup {f}]
    /\ UNCHANGED <<leases, debating, late>>

Declares(s, files) ==
    /\ sess[s].live
    /\ Outside /\ Triggers
    /\ sess' = [sess EXCEPT ![s].intent = [task |-> OwnTask, files |-> files, syms |-> {}]]
    /\ late' = late \cup {<<"declared", s>>}
    /\ UNCHANGED <<leases, debating>>

\* The room core grants a request unless one of its keys is held.
Requests(s, key) ==
    /\ sess[s].live /\ LeasesOn(leases, key) = {}
    /\ Outside /\ Silent /\ stale' = TRUE
    /\ leases' = Append(leases, [session |-> s, keys |-> {key}])
    /\ late' = late \cup {<<"granted", key>>}
    /\ UNCHANGED <<sess, debating>>

\* Released, or expired.
Frees(i) ==
    /\ Outside /\ Silent /\ stale' = TRUE
    /\ leases' = RemoveAt(leases, i)
    /\ UNCHANGED <<sess, debating, late>>

DebateTurns ==
    /\ Outside /\ Silent
    /\ debating' = ~debating
    /\ UNCHANGED <<sess, leases, late, stale>>
-----------------------------------------------------------------------------
(***************************************************************************)
(* planner.ts.                                                             *)
(***************************************************************************)
RoomRests == UNCHANGED <<sess, leases, debating>>

TimerFires ==
    /\ timer
    /\ timer' = FALSE
    /\ queued' = queued + 1
    /\ RoomRests
    /\ UNCHANGED <<step, current, cooling, spent, late, overruled, stale>>

\* replan(): `agg plan --now`.
Replans ==
    /\ Spend
    /\ cooling' = FALSE /\ current' = NoPlan
    /\ queued' = queued + 1
    /\ RoomRests
    /\ UNCHANGED <<timer, step, late, overruled, stale>>

\* A minute has passed.
Cools ==
    /\ cooling /\ cooling' = FALSE
    /\ RoomRests
    /\ UNCHANGED <<timer, queued, step, current, spent, late, overruled, stale>>

\* The next run begins.  It gives way to a debate, and to an empty room; otherwise it
\* takes a brief and asks the model.
RunBegins ==
    /\ queued > 0 /\ step = Idle
    /\ queued' = queued - 1
    /\ LET b == BriefOf(sess, leases)
       IN  step' = IF debating \/ Cardinality(Present(b)) < 2 THEN Idle
                   ELSE [at |-> "composing", brief |-> b]
    /\ stale' = debating
    /\ late' = {}
    /\ RoomRests
    /\ UNCHANGED <<timer, current, cooling, spent, overruled>>

StepAt(where) == [step EXCEPT !.at = where]

UnchangedPlan(plan) == plan = current

\* What to do with a plan: nothing new, too early (look again later), or publish it.
Composes ==
    /\ step.at = "composing"
    /\ \E draft \in Drafts \cup {NoDraft} :
         LET plan == PlanOf(step.brief, draft)
         IN  IF UnchangedPlan(plan)
             THEN step' = Idle /\ UNCHANGED <<timer, current, cooling>>
             ELSE IF cooling
             THEN step' = Idle /\ timer' = TRUE /\ UNCHANGED <<current, cooling>>
             ELSE /\ step' = [at |-> "intent", brief |-> step.brief, plan |-> plan, i |-> 1]
                  /\ current' = plan /\ cooling' = TRUE
                  /\ UNCHANGED timer
    /\ RoomRests
    /\ UNCHANGED <<queued, spent, late, overruled, stale>>

Mine == step.plan[step.i]

\* What a step of the planner would overrule.
DeclaredBy(s) == IF sess[s].intent.task = OwnTask THEN {<<"declared", s>>} ELSE {}
EndedAs(s) == IF sess[s].live THEN {} ELSE {<<"ended", s>>}
Taken(keys) == {<<"granted", k>> : k \in {j \in keys : LeasesOn(leases, j) # {}}}

FaultyUndeclared(i) == TRUE

\* Only where the agent had not declared one itself, by the brief.
Undeclared(i) == i.intent.task = NoTask

\* claim(): the session's INTENT, in the session's name.
Intends ==
    /\ step.at = "intent"
    /\ IF Undeclared(step.brief.info[Mine.session]) /\ Mine.owns # {}
       THEN /\ sess' = [sess EXCEPT ![Mine.session].intent =
                            [task |-> Mine.task, files |-> Mine.owns, syms |-> Mine.syms]]
            /\ overruled' = overruled \cup (DeclaredBy(Mine.session) \ late)
            /\ timer' = TRUE
       ELSE UNCHANGED <<sess, overruled, timer>>
    /\ step' = StepAt("grant")
    /\ UNCHANGED <<leases, debating, queued, current, cooling, spent, late, stale>>

\* What the session did not hold, by the brief.
Wanted == {k \in Mine.claim :
              ~(k \in DOMAIN step.brief.held /\ step.brief.held[k] = Mine.session)}

Advance == IF step.i < Len(step.plan) THEN [StepAt("intent") EXCEPT !.i = @ + 1] ELSE StepAt("briefing")

\* claim(): LEASE_REQUESTED and LEASE_GRANTED; nobody looks whether the keys are free.
Grants ==
    /\ step.at = "grant"
    /\ IF Wanted = {} THEN UNCHANGED <<leases, overruled>>
       ELSE /\ leases' = Append(leases, [session |-> Mine.session, keys |-> Wanted])
            /\ overruled' = overruled \cup ((Taken(Wanted) \cup EndedAs(Mine.session)) \ late)
    /\ step' = Advance
    /\ UNCHANGED <<sess, debating, timer, queued, current, cooling, spent, late, stale>>

\* The agents are told, one by one, which moves nothing here.
Briefs ==
    /\ step.at = "briefing"
    /\ step' = Idle
    /\ RoomRests
    /\ UNCHANGED <<timer, queued, current, cooling, spent, late, overruled, stale>>

\* A submit throws: the run is over, and the plan counts as published.
Fails ==
    /\ step.at \in {"intent", "grant", "briefing"}
    /\ Spend
    /\ step' = Idle /\ stale' = TRUE
    /\ RoomRests
    /\ UNCHANGED <<timer, queued, current, cooling, late, overruled>>

Working == TimerFires \/ RunBegins \/ Composes \/ Intends \/ Grants \/ Briefs

PlannerNext ==
    \/ Working \/ Cools \/ Replans \/ Fails \/ DebateTurns
    \/ \E s \in AgentIds : \/ Starts(s) \/ Ends(s)
                           \/ \E f \in Files : Reads(s, f) \/ Writes(s, f) \/ Declares(s, {f})
                           \/ \E k \in Keys : Requests(s, k)
    \/ \E i \in DOMAIN leases : Frees(i)

\* Timers fire, queued runs and awaited calls go on.  Time passes on its own.
PlannerSpec == PlannerInit /\ [][PlannerNext]_plannerVars
                    /\ WF_plannerVars(Working) /\ WF_plannerVars(Cools)
-----------------------------------------------------------------------------
(***************************************************************************)
(* Properties.                                                             *)
(***************************************************************************)
Tags == ({"declared", "ended"} \X AgentIds) \cup ({"granted"} \X Keys)

(***************************************************************************)
(* The variables keep their types, and a plan, whatever the model          *)
(* answered, gives a file to one session, one that has touched it, and     *)
(* claims keys of contested files only ("a model that hallucinates a file, *)
(* a session or a symbol key changes nothing", planner.ts).                *)
(***************************************************************************)
PlannerTypeOK ==
    /\ DOMAIN sess = AgentIds /\ \A s \in AgentIds : Touched(sess[s]) \subseteq Files
    /\ \A i \in DOMAIN leases : leases[i].session \in AgentIds /\ leases[i].keys \subseteq Keys
    /\ {debating, timer, cooling, stale} \subseteq BOOLEAN
    /\ step.at \in {"idle", "composing", "intent", "grant", "briefing"}
    /\ late \cup overruled \subseteq Tags
    /\ step.at \in {"intent", "grant"} =>
          /\ \A i, j \in DOMAIN step.plan :
                i # j => step.plan[i].owns \cap step.plan[j].owns = {}
          /\ \A i \in DOMAIN step.plan :
                /\ step.plan[i].owns \subseteq Touched(step.brief.info[step.plan[i].session])
                /\ \A k \in step.plan[i].claim : FileOf(k) \in Contested(step.brief)

(***************************************************************************)
(* The planner overrules only what it could not know: an intent an agent   *)
(* has declared is overwritten, a key that is held is granted again, and a *)
(* session that has ended is granted one, only if the declaration, the     *)
(* grant or the end came after the brief of the plan being carried out     *)
(* (claim, planner.ts, submits with the system origin, unchecked).         *)
(***************************************************************************)
OnlyLateNewsIsOverruled == overruled = {}

AtRest == ~timer /\ queued = 0 /\ step = Idle

(***************************************************************************)
(* When nothing happens outside any more the planner comes to rest: its    *)
(* own intents are events that trigger it again, and a model may answer    *)
(* differently each time, yet it does not go on publishing plans for ever. *)
(***************************************************************************)
ComesToRest == <>[]AtRest

(***************************************************************************)
(* "On every change it rebuilds a brief" (planner.ts): when the planner is *)
(* at rest, the plan in force is a plan for the room as it is, whatever    *)
(* happened while it waited for the model.  Unless the last run gave way   *)
(* to a debate or failed, or only leases have changed since.               *)
(***************************************************************************)
PlanIsCurrent ==
    LET b == BriefOf(sess, leases)
    IN  (AtRest /\ ~stale /\ Cardinality(Present(b)) >= 2)
        => \E draft \in Drafts \cup {NoDraft} : current = PlanOf(b, draft)
=============================================================================
