---------------------------- MODULE Negotiation ----------------------------
(***************************************************************************)
(* Negotiations and the contract ledger, as the reducer keeps them         *)
(* (packages/reducer/src/reduce.ts).  Every operator below is what one     *)
(* event of the log does to them.  An event is applied as a whole, at the  *)
(* one place where the log is written, so an event is a step; its          *)
(* timestamp is `now'.                                                     *)
(*                                                                         *)
(* Whoever may send an event may send it at any time here.  Orchestrator   *)
(* adds the process that decides what the authority sends.                 *)
(***************************************************************************)
EXTENDS Integers, FiniteSets

CONSTANTS
    Sessions,          \* session ids
    Collisions,        \* collision ids; an id is a hash of writer, affected and keys
    WriterOf,          \* the session whose change caused the collision
    AffectedOf,        \* the sessions it affects
    Contracts,         \* contracts; a contract's id is a digest of it
    SymbolOf,          \* the symbol a contract is about
    NoContract,
    Timeout,           \* NEGOTIATION_TIMEOUT_MS
    MaxRounds,         \* MAX_NEGOTIATION_ROUNDS
    MaxNow,            \* bound: time, and negotiations open early enough to time out
    AgentMoves,        \* bound: moves the agents make for themselves
    HumanMoves,        \* bound: decisions humans send
    WorkerMoves        \* bound: results of speculative merges

ASSUME PartiesAssumption ==
    /\ WriterOf \in [Collisions -> Sessions]
    /\ AffectedOf \in [Collisions -> SUBSET Sessions]
ASSUME ContractAssumption == NoContract \notin Contracts
ASSUME NumberAssumption ==
    {Timeout, MaxRounds, MaxNow, AgentMoves, HumanMoves, WorkerMoves} \subseteq Nat

VARIABLES
    now,      \* the time of the event being applied
    neg,      \* state.negotiations, and with each the status of its collision
    ledger,   \* state.contracts, by contract id
    moves,    \* outside moves so far, for the bounds
    consent,  \* history: the contract a session last accepted, per collision
    deals     \* history: <<collision, contract>> all participants or a human accepted

negVars == <<now, neg, ledger, moves, consent, deals>>
-----------------------------------------------------------------------------
\* "Unopened" stands for an id that is not in the map.
States == {"Unopened", "Open", "Proposed", "Countered", "Accepted", "Compiled",
           "Verified", "Escalated"}

\* What freezeDenial calls settled: the files of the collision are free again.
Released == {"Accepted", "Compiled", "Verified"}

Participants(c) == {WriterOf[c]} \cup AffectedOf[c]

Negotiations == [state : States, round : Nat, accepted : SUBSET Sessions,
                 contract : Contracts \cup {NoContract}, deadline : Nat,
                 resolved : BOOLEAN]

Unopened == [state |-> "Unopened", round |-> 0, accepted |-> {},
             contract |-> NoContract, deadline |-> 0, resolved |-> FALSE]

\* Version 0 stands for an id that is not in the ledger.
Entries == [collision : Collisions, contract : Contracts, version : Nat \ {0},
            status : {"compiled", "verified", "superseded"}]
NoEntry == [version |-> 0]

InLedger == {id \in Contracts : ledger[id] # NoEntry}

TypeOK ==
    /\ now \in Nat
    /\ neg \in [Collisions -> Negotiations]
    /\ ledger \in [Contracts -> Entries \cup {NoEntry}]
    /\ moves \in [{"agent", "human", "worker"} -> Nat]
    /\ consent \in [Collisions -> [Sessions -> Contracts \cup {NoContract}]]
    /\ deals \subseteq Collisions \X (Contracts \cup {NoContract})
-----------------------------------------------------------------------------
(***************************************************************************)
(* The reducer.                                                            *)
(***************************************************************************)
\* escalateTimedOutNegotiations: before any event is applied, every negotiation
\* past its deadline escalates.
FaultySwept ==
    [c \in Collisions |->
        IF neg[c].state \in {"Open", "Proposed"} /\ now >= neg[c].deadline
        THEN [neg[c] EXCEPT !.state = "Escalated"] ELSE neg[c]]

Swept ==
    [c \in Collisions |->
        IF neg[c].state \notin {"Unopened", "Verified", "Escalated"} /\ now >= neg[c].deadline
        THEN [neg[c] EXCEPT !.state = "Escalated"] ELSE neg[c]]

Opened == [Unopened EXCEPT !.state = "Open", !.deadline = now + Timeout]

Proposed(n, k) == [n EXCEPT !.state = "Proposed", !.contract = k, !.accepted = {}]

FaultyCountered(n, k) ==
    [n EXCEPT !.state = IF n.round + 1 >= MaxRounds THEN "Escalated" ELSE "Countered",
              !.round = n.round + 1, !.contract = k]

Countered(n, k) ==
    [n EXCEPT !.state = IF n.round + 1 >= MaxRounds THEN "Escalated" ELSE "Countered",
              !.round = n.round + 1, !.contract = k, !.accepted = {}]

\* acceptNegotiation, for a session.  Only participants count.
AcceptedBy(n, c, s) ==
    IF s \notin Participants(c) THEN n
    ELSE [n EXCEPT !.accepted = @ \cup {s},
                   !.state = IF n.contract # NoContract
                                /\ Participants(c) \subseteq n.accepted \cup {s}
                             THEN "Accepted" ELSE @]

\* acceptNegotiation, for a human: counts on an escalated negotiation only.
AcceptedByHuman(n, c) ==
    IF n.state = "Escalated"
    THEN [n EXCEPT !.state = "Accepted", !.accepted = Participants(c)] ELSE n

VersionsOf(x) == {ledger[id].version : id \in {i \in InLedger : SymbolOf[ledger[i].contract] = x}}

\* Taken from what is left once the older contracts are superseded.
FaultyVersionOfTheLiving(x) == 1

\* nextContractVersion: one more than the largest of the symbol's versions.
NextVersion(x) ==
    1 + CHOOSE v \in VersionsOf(x) \cup {0} : \A u \in VersionsOf(x) : u <= v

FaultyCompilable(n) == n.contract # NoContract

\* compileContract does nothing unless the negotiation is accepted, on a contract.
Compilable(n) == n.contract # NoContract /\ n.state = "Accepted"

\* The older contracts on the symbol are superseded.  The new entry is kept under
\* the id the compiler gave, but holds the contract of the negotiation.
WithCompiled(c, id, k) ==
    [i \in Contracts |->
        IF i = id
        THEN [collision |-> c, contract |-> k, version |-> NextVersion(SymbolOf[k]),
              status |-> "compiled"]
        ELSE IF i \in InLedger /\ SymbolOf[ledger[i].contract] = SymbolOf[k]
             THEN [ledger[i] EXCEPT !.status = "superseded"]
             ELSE ledger[i]]

\* applySpecMerge: a merge that passed verifies every compiled negotiation whose
\* participants were all in it, and all contracts of its collision.
MergeVerifies(S) == {c \in Collisions : Swept[c].state = "Compiled" /\ Participants(c) \subseteq S}
-----------------------------------------------------------------------------
(***************************************************************************)
(* Events, whoever sends them.                                             *)
(***************************************************************************)
NegotiationBecomes(c, n) == neg' = [Swept EXCEPT ![c] = n]

\* openCollision: an id that is known changes nothing.
OpenCollision(c) ==
    /\ IF neg[c].state = "Unopened" THEN NegotiationBecomes(c, Opened) ELSE neg' = Swept
    /\ UNCHANGED <<now, ledger, consent, deals>>

\* The other events touch only a negotiation that is open.
Known(c) == neg[c].state # "Unopened"

Propose(c, k) ==
    /\ Known(c)
    /\ NegotiationBecomes(c, Proposed(Swept[c], k))
    /\ UNCHANGED <<now, ledger, consent, deals>>

Counter(c, k) ==
    /\ Known(c)
    /\ NegotiationBecomes(c, Countered(Swept[c], k))
    /\ UNCHANGED <<now, ledger, consent, deals>>

Accept(c, s) ==
    /\ Known(c)
    /\ NegotiationBecomes(c, AcceptedBy(Swept[c], c, s))
    /\ consent' = [consent EXCEPT ![c][s] = neg[c].contract]
    /\ deals' = deals \cup {<<c, k>> : k \in {j \in Contracts :
                                \A p \in Participants(c) : consent'[c][p] = j}}
    /\ UNCHANGED <<now, ledger>>

HumanAccept(c) ==
    /\ Known(c)
    /\ NegotiationBecomes(c, AcceptedByHuman(Swept[c], c))
    /\ deals' = IF Swept[c].state = "Escalated" THEN deals \cup {<<c, neg[c].contract>>}
                ELSE deals
    /\ UNCHANGED <<now, ledger, consent>>

Escalate(c) ==
    /\ Known(c)
    /\ NegotiationBecomes(c, [Swept[c] EXCEPT !.state = "Escalated"])
    /\ UNCHANGED <<now, ledger, consent, deals>>

ContractCompiled(c, id) ==
    /\ IF Compilable(Swept[c])
       THEN /\ NegotiationBecomes(c, [Swept[c] EXCEPT !.state = "Compiled"])
            /\ ledger' = WithCompiled(c, id, neg[c].contract)
       ELSE neg' = Swept /\ UNCHANGED ledger
    /\ UNCHANGED <<now, consent, deals>>

SpecMergePassed(S) ==
    /\ neg' = [c \in Collisions |->
                 IF c \in MergeVerifies(S)
                 THEN [Swept[c] EXCEPT !.state = "Verified", !.resolved = TRUE] ELSE Swept[c]]
    /\ ledger' = [id \in Contracts |->
                    IF id \in InLedger /\ ledger[id].collision \in MergeVerifies(S)
                    THEN [ledger[id] EXCEPT !.status = "verified"] ELSE ledger[id]]
    /\ UNCHANGED <<now, consent, deals>>

\* Any other event of the log, a heartbeat say: it only brings the time.
OtherEvent ==
    /\ neg' = Swept
    /\ UNCHANGED <<now, ledger, moves, consent, deals>>
-----------------------------------------------------------------------------
(***************************************************************************)
(* Who sends them.                                                         *)
(***************************************************************************)
Moves(who, bound) ==
    /\ moves[who] < bound
    /\ moves' = [moves EXCEPT ![who] = @ + 1]

\* The authority's detectors announce an overlap.
Detected(c) ==
    /\ now + Timeout <= MaxNow
    /\ OpenCollision(c)
    /\ UNCHANGED moves

\* Agents, through their tools `propose' and `respond': any session about any
\* collision it has heard of.  An answer may have been sent before an event that
\* it arrives after, so nothing relates it to the state it is applied to.
AgentMove ==
    /\ Moves("agent", AgentMoves)
    /\ \E c \in Collisions :
          \/ \E k \in Contracts : Propose(c, k) \/ Counter(c, k)
          \/ \E s \in Sessions : Accept(c, s)

\* The dashboard and the CLI; `agg unfreeze' sends ESCALATE and then ACCEPT.
HumanMove ==
    /\ Moves("human", HumanMoves)
    /\ \E c \in Collisions : Escalate(c) \/ HumanAccept(c)

\* A speculative merge of the worktrees of some sessions that passed.
WorkerMove ==
    /\ Moves("worker", WorkerMoves)
    /\ \E S \in SUBSET Sessions : SpecMergePassed(S)

Tick ==
    /\ now < MaxNow
    /\ now' = now + 1
    /\ UNCHANGED <<neg, ledger, moves, consent, deals>>

\* The authority itself, in the name of the room or of a session.
AuthorityMove ==
    /\ \E c \in Collisions :
          \/ \E k \in Contracts : Propose(c, k) \/ Counter(c, k) \/ ContractCompiled(c, k)
          \/ \E s \in Sessions : Accept(c, s)
          \/ Escalate(c)
    /\ UNCHANGED moves

NegInit ==
    /\ now = 0
    /\ neg = [c \in Collisions |-> Unopened]
    /\ ledger = [id \in Contracts |-> NoEntry]
    /\ moves = [who \in {"agent", "human", "worker"} |-> 0]
    /\ consent = [c \in Collisions |-> [s \in Sessions |-> NoContract]]
    /\ deals = {}

NegNext ==
    \/ \E c \in Collisions : Detected(c)
    \/ AgentMove
    \/ HumanMove
    \/ WorkerMove
    \/ AuthorityMove
    \/ OtherEvent
    \/ Tick

NegSpec == NegInit /\ [][NegNext]_negVars
-----------------------------------------------------------------------------
(***************************************************************************)
(* Properties.                                                             *)
(***************************************************************************)

\* The freeze lifts by consent.  The files of a collision are free only if every
\* participant has accepted the very contract on the table, whatever proposals
\* and counters came between, or a human has decided on that contract.
ReleasedByConsent ==
    \A c \in Collisions : neg[c].state \in Released => <<c, neg[c].contract>> \in deals

\* The ledger holds agreements only, however the negotiation went on while the
\* check was on its way.
LedgerIsAgreed ==
    \A id \in InLedger : <<ledger[id].collision, ledger[id].contract>> \in deals

\* The versions of a symbol's contracts tell them apart.
VersionsDistinct ==
    \A i, j \in InLedger :
        i # j /\ SymbolOf[ledger[i].contract] = SymbolOf[ledger[j].contract]
            => ledger[i].version # ledger[j].version
=============================================================================
