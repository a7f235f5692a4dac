--------------------------- MODULE OrchestratorProofs -----------------------
(***************************************************************************)
(* Theorems about the authority's orchestrator: negotiations, with and     *)
(* without its debates, and its planner.                                   *)
(*                                                                         *)
(* Those on negotiations rest on one invariant: the sessions in `accepted' *)
(* accepted the contract on the table, unless a human did.  Every event of *)
(* the log keeps it; every step of the orchestrator is an event of the log *)
(* or leaves the negotiations alone.                                       *)
(*                                                                         *)
(* Those on plans rest on two invariants besides the types.  News says     *)
(* what the room can know that the brief of the plan being carried out     *)
(* does not; Fresh, that a plan for the room as it is was published, or    *)
(* that something will make the planner look again.                        *)
(***************************************************************************)
EXTENDS Orchestrator, Planner, SubsequenceTheorems

\* What the invariant needs of types.  Of the ledger only that its entries are entries;
\* what is in them, versions included, is in Numbered below.
Shape ==
    /\ neg \in [Collisions -> Negotiations]
    /\ consent \in [Collisions -> [Sessions -> Contracts \cup {NoContract}]]
    /\ DOMAIN ledger = Contracts
    /\ \A id \in InLedger :
          ledger[id] = [collision |-> ledger[id].collision, contract |-> ledger[id].contract,
                        version |-> ledger[id].version, status |-> ledger[id].status]

\* A session counted as accepting accepted this contract.
AcceptsCount ==
    \A c \in Collisions : \A s \in neg[c].accepted :
        \/ neg[c].contract = NoContract
        \/ consent[c][s] = neg[c].contract
        \/ <<c, neg[c].contract>> \in deals

NInv == Shape /\ AcceptsCount /\ ReleasedByConsent /\ LedgerIsAgreed
-----------------------------------------------------------------------------
LEMMA PartiesAreSessions == \A c \in Collisions : Participants(c) \subseteq Sessions
BY PartiesAssumption DEF Participants

\* What the sweep does before every event.
LEMMA SweptFacts ==
    ASSUME neg \in [Collisions -> Negotiations]
    PROVE  /\ Swept \in [Collisions -> Negotiations]
           /\ \A c \in Collisions :
                /\ Swept[c].accepted = neg[c].accepted
                /\ Swept[c].contract = neg[c].contract
                /\ Swept[c].state \in Released => Swept[c].state = neg[c].state
<1>1. ASSUME NEW c \in Collisions
      PROVE  /\ [neg[c] EXCEPT !.state = "Escalated"] \in Negotiations
             /\ [neg[c] EXCEPT !.state = "Escalated"].accepted = neg[c].accepted
             /\ [neg[c] EXCEPT !.state = "Escalated"].contract = neg[c].contract
             /\ [neg[c] EXCEPT !.state = "Escalated"].state = "Escalated"
  BY DEF Negotiations, States
<1> QED BY <1>1 DEF Swept, Released

\* An event that leaves one negotiation as n, the others swept, keeps the
\* invariant if n itself is sound.
Sound(c, n, D, E) ==
    /\ n \in Negotiations
    /\ \A s \in n.accepted :
          n.contract = NoContract \/ E[c][s] = n.contract \/ <<c, n.contract>> \in D
    /\ n.state \in Released => <<c, n.contract>> \in D

LEMMA SweptSound ==
    ASSUME NInv, NEW c \in Collisions
    PROVE  Sound(c, Swept[c], deals, consent)
BY SweptFacts DEF NInv, Shape, AcceptsCount, ReleasedByConsent, Sound

\* The negotiations half of the invariant after an event.
LEMMA NegotiationsKeep ==
    ASSUME NEW ns \in [Collisions -> Negotiations], neg' = ns,
           consent' \in [Collisions -> [Sessions -> Contracts \cup {NoContract}]],
           \A c \in Collisions : Sound(c, ns[c], deals', consent')
    PROVE  /\ neg' \in [Collisions -> Negotiations]
           /\ AcceptsCount'
           /\ ReleasedByConsent'
BY DEF Sound, AcceptsCount, ReleasedByConsent

\* The ledger half, when the ledger does not change.
LEMMA LedgerKeeps ==
    ASSUME NInv, UNCHANGED ledger, deals \subseteq deals'
    PROVE  /\ (DOMAIN ledger = Contracts)'
           /\ LedgerIsAgreed'
           /\ (\A id \in InLedger :
                  ledger[id] = [collision |-> ledger[id].collision,
                                contract |-> ledger[id].contract,
                                version |-> ledger[id].version,
                                status |-> ledger[id].status])'
BY DEF NInv, Shape, LedgerIsAgreed, InLedger
-----------------------------------------------------------------------------
\* An event that touches one negotiation and nobody's consent.
LEMMA BecomesKeeps ==
    ASSUME NInv, NEW c \in Collisions, NEW n,
           NegotiationBecomes(c, n), Sound(c, n, deals', consent),
           UNCHANGED <<ledger, consent>>, deals \subseteq deals'
    PROVE  NInv'
<1>1. \A d \in Collisions : Sound(d, [Swept EXCEPT ![c] = n][d], deals', consent')
  BY SweptSound, SweptFacts DEF NInv, Shape, Sound
<1>2. [Swept EXCEPT ![c] = n] \in [Collisions -> Negotiations]
  BY SweptFacts DEF NInv, Shape, Sound
<1>3. consent' \in [Collisions -> [Sessions -> Contracts \cup {NoContract}]]
  BY DEF NInv, Shape
<1>4. neg' = [Swept EXCEPT ![c] = n]
  BY DEF NegotiationBecomes
<1>5. /\ neg' \in [Collisions -> Negotiations]
      /\ AcceptsCount'
      /\ ReleasedByConsent'
  BY <1>1, <1>2, <1>3, <1>4, NegotiationsKeep
<1> QED BY <1>3, <1>5, LedgerKeeps DEF NInv, Shape

LEMMA OnlySweptKeeps ==
    ASSUME NInv, neg' = Swept, UNCHANGED <<ledger, consent, deals>>
    PROVE  NInv'
<1>1. Swept \in [Collisions -> Negotiations]
  BY SweptFacts DEF NInv, Shape
<1>2. \A d \in Collisions : Sound(d, Swept[d], deals', consent')
  BY SweptSound
<1>3. consent' \in [Collisions -> [Sessions -> Contracts \cup {NoContract}]]
  BY DEF NInv, Shape
<1>4. /\ neg' \in [Collisions -> Negotiations]
      /\ AcceptsCount'
      /\ ReleasedByConsent'
  BY <1>1, <1>2, <1>3, NegotiationsKeep
<1> QED BY <1>3, <1>4, LedgerKeeps DEF NInv, Shape
-----------------------------------------------------------------------------
(***************************************************************************)
(* The events.                                                             *)
(***************************************************************************)
LEMMA OpenKeeps ==
    ASSUME NInv, NEW c \in Collisions, now \in Nat, OpenCollision(c)
    PROVE  NInv'
<1>1. CASE neg[c].state = "Unopened"
  <2>1. Opened \in Negotiations /\ Opened.accepted = {} /\ Opened.state = "Open"
    <3>1. Timeout \in Nat
      BY NumberAssumption
    <3>2. now + Timeout \in Nat
      BY <3>1
    <3> QED BY <3>2 DEF Opened, Unopened, Negotiations, States
  <2>2. Sound(c, Opened, deals', consent)
    BY <2>1 DEF Sound, Released
  <2> QED BY <1>1, <2>2, BecomesKeeps DEF OpenCollision
<1>2. CASE neg[c].state # "Unopened"
  BY <1>2, OnlySweptKeeps DEF OpenCollision
<1> QED BY <1>1, <1>2

LEMMA ProposeKeeps ==
    ASSUME NInv, NEW c \in Collisions, NEW k \in Contracts, Propose(c, k)
    PROVE  NInv'
<1>1. Swept[c] \in Negotiations
  BY SweptFacts DEF NInv, Shape
<1>2. Sound(c, Proposed(Swept[c], k), deals', consent)
  BY <1>1 DEF Sound, Proposed, Negotiations, States, Released
<1> QED BY <1>2, BecomesKeeps DEF Propose

LEMMA CounterKeeps ==
    ASSUME NInv, NEW c \in Collisions, NEW k \in Contracts, Counter(c, k)
    PROVE  NInv'
<1>1. Swept[c] \in Negotiations
  BY SweptFacts DEF NInv, Shape
<1>2. Swept[c].round + 1 \in Nat
  BY <1>1 DEF Negotiations
<1>3. /\ Countered(Swept[c], k) \in Negotiations
      /\ Countered(Swept[c], k).accepted = {}
      /\ Countered(Swept[c], k).state \in {"Escalated", "Countered"}
  BY <1>1, <1>2 DEF Countered, Negotiations, States
<1>4. Sound(c, Countered(Swept[c], k), deals', consent)
  BY <1>3 DEF Sound, Released
<1> QED BY <1>4, BecomesKeeps DEF Counter

LEMMA EscalateKeeps ==
    ASSUME NInv, NEW c \in Collisions, Escalate(c)
    PROVE  NInv'
<1>1. Swept[c] \in Negotiations
  BY SweptFacts DEF NInv, Shape
<1>2. Sound(c, [Swept[c] EXCEPT !.state = "Escalated"], deals', consent)
  BY <1>1, SweptSound DEF Sound, Negotiations, States, Released, Escalate
<1> QED BY <1>2, BecomesKeeps DEF Escalate

LEMMA HumanAcceptKeeps ==
    ASSUME NInv, NEW c \in Collisions, HumanAccept(c)
    PROVE  NInv'
<1>1. Swept[c] \in Negotiations /\ Swept[c].contract = neg[c].contract
  BY SweptFacts DEF NInv, Shape
<1>2. deals \subseteq deals'
  BY DEF HumanAccept
<1>3. Sound(c, AcceptedByHuman(Swept[c], c), deals', consent)
  <2>1. CASE Swept[c].state = "Escalated"
    <3>1. <<c, neg[c].contract>> \in deals'
      BY <2>1 DEF HumanAccept
    <3> QED BY <1>1, <2>1, <3>1, PartiesAreSessions
            DEF Sound, AcceptedByHuman, Negotiations, States
  <2>2. CASE Swept[c].state # "Escalated"
    BY <1>2, <2>2, SweptSound DEF Sound, AcceptedByHuman
  <2> QED BY <2>1, <2>2
<1> QED BY <1>2, <1>3, BecomesKeeps DEF HumanAccept

LEMMA AcceptKeeps ==
    ASSUME NInv, NEW c \in Collisions, NEW s \in Sessions, Accept(c, s)
    PROVE  NInv'
<1> DEFINE n == AcceptedBy(Swept[c], c, s)
<1>1. Swept[c] \in Negotiations /\ Swept[c].contract = neg[c].contract
  BY SweptFacts DEF NInv, Shape
<1>2. deals \subseteq deals'
  BY DEF Accept
<1>3. /\ consent' \in [Collisions -> [Sessions -> Contracts \cup {NoContract}]]
      /\ consent'[c][s] = neg[c].contract
      /\ \A d \in Collisions, t \in Sessions :
            d # c \/ t # s => consent'[d][t] = consent[d][t]
  BY <1>1 DEF Accept, NInv, Shape, Negotiations
<1>4. n \in Negotiations /\ n.contract = neg[c].contract
      /\ n.accepted \subseteq Swept[c].accepted \cup {s}
      /\ (n.state # Swept[c].state =>
            n.contract # NoContract /\ Participants(c) \subseteq n.accepted)
  BY <1>1 DEF AcceptedBy, Negotiations, States
<1>5. \A t \in n.accepted : \/ n.contract = NoContract
                            \/ consent'[c][t] = n.contract
                            \/ <<c, n.contract>> \in deals'
  <2> SUFFICES ASSUME NEW t \in n.accepted
               PROVE  \/ n.contract = NoContract
                      \/ consent'[c][t] = n.contract
                      \/ <<c, n.contract>> \in deals'
    OBVIOUS
  <2>1. CASE t = s BY <1>3, <1>4, <2>1
  <2>2. CASE t # s
    <3>1. t \in Swept[c].accepted /\ t \in Sessions
      BY <1>1, <1>4, <2>2 DEF Negotiations
    <3> QED BY <1>1, <1>2, <1>3, <1>4, <2>2, <3>1, SweptSound DEF Sound
  <2> QED BY <2>1, <2>2
<1>6. n.state \in Released => <<c, n.contract>> \in deals'
  <2>1. CASE n.state = Swept[c].state
    BY <1>1, <1>2, <1>4, <2>1, SweptSound DEF Sound
  <2>2. CASE n.state # Swept[c].state
    <3>1. n.contract \in Contracts
      BY <1>4, <2>2 DEF Negotiations
    <3>2. CASE \A p \in Participants(c) : consent'[c][p] = n.contract
      BY <3>1, <3>2 DEF Accept
    <3>3. CASE ~ \A p \in Participants(c) : consent'[c][p] = n.contract
      BY <1>4, <1>5, <2>2, <3>3
    <3> QED BY <3>2, <3>3
  <2> QED BY <2>1, <2>2
<1>7. Sound(c, n, deals', consent')
  BY <1>4, <1>5, <1>6 DEF Sound
<1>8. \A d \in Collisions \ {c} : Sound(d, Swept[d], deals', consent')
  <2> TAKE d \in Collisions \ {c}
  <2>1. Swept[d] \in Negotiations
    BY SweptFacts DEF NInv, Shape
  <2> QED BY <1>2, <1>3, <2>1, SweptSound DEF Sound, Negotiations
<1>9. /\ [Swept EXCEPT ![c] = n] \in [Collisions -> Negotiations]
      /\ \A d \in Collisions : Sound(d, [Swept EXCEPT ![c] = n][d], deals', consent')
  BY <1>4, <1>7, <1>8, SweptFacts DEF NInv, Shape
<1>10. neg' = [Swept EXCEPT ![c] = n]
  BY DEF Accept, NegotiationBecomes
<1>11. /\ neg' \in [Collisions -> Negotiations]
       /\ AcceptsCount'
       /\ ReleasedByConsent'
  BY <1>3, <1>9, <1>10, NegotiationsKeep
<1> QED BY <1>2, <1>3, <1>11, LedgerKeeps DEF Accept, NInv, Shape

\* Compiling writes one entry, of what was agreed, and keeps the others' contracts.
LEMMA CompiledEntries ==
    ASSUME NInv, NEW c \in Collisions, NEW id \in Contracts, NEW k \in Contracts,
           <<c, k>> \in deals, ledger' = WithCompiled(c, id, k), UNCHANGED deals
    PROVE  /\ LedgerIsAgreed'
           /\ (DOMAIN ledger = Contracts)'
           /\ (\A i \in InLedger :
                  ledger[i] = [collision |-> ledger[i].collision,
                               contract |-> ledger[i].contract,
                               version |-> ledger[i].version,
                               status |-> ledger[i].status])'
<1>1. DOMAIN ledger' = Contracts
  BY DEF WithCompiled
<1>2. ASSUME NEW i \in Contracts, ledger'[i] # NoEntry
      PROVE  /\ <<ledger'[i].collision, ledger'[i].contract>> \in deals
             /\ ledger'[i] = [collision |-> ledger'[i].collision,
                              contract |-> ledger'[i].contract,
                              version |-> ledger'[i].version,
                              status |-> ledger'[i].status]
  <2>1. CASE i = id
    BY <2>1 DEF WithCompiled
  <2>2. CASE i # id /\ i \in InLedger /\ SymbolOf[ledger[i].contract] = SymbolOf[k]
    <3>1. ledger'[i] = [ledger[i] EXCEPT !.status = "superseded"]
      BY <2>2 DEF WithCompiled
    <3>2. ledger[i] = [collision |-> ledger[i].collision, contract |-> ledger[i].contract,
                       version |-> ledger[i].version, status |-> ledger[i].status]
      BY <2>2 DEF NInv, Shape
    <3>3. <<ledger[i].collision, ledger[i].contract>> \in deals
      BY <2>2 DEF NInv, LedgerIsAgreed
    <3> QED BY <3>1, <3>2, <3>3
  <2>3. CASE i # id /\ ~ (i \in InLedger /\ SymbolOf[ledger[i].contract] = SymbolOf[k])
    <3>1. ledger'[i] = ledger[i]
      BY <2>3 DEF WithCompiled
    <3>2. i \in InLedger
      BY <1>2, <3>1 DEF InLedger
    <3> QED BY <3>1, <3>2 DEF NInv, Shape, LedgerIsAgreed
  <2> QED BY <2>1, <2>2, <2>3
<1> QED BY <1>1, <1>2 DEF InLedger, LedgerIsAgreed

LEMMA ContractCompiledKeeps ==
    ASSUME NInv, NEW c \in Collisions, NEW id \in Contracts, ContractCompiled(c, id)
    PROVE  NInv'
<1>1. Swept[c] \in Negotiations /\ Swept[c].contract = neg[c].contract
  BY SweptFacts DEF NInv, Shape
<1>2. CASE Compilable(Swept[c])
  <2> DEFINE n == [Swept[c] EXCEPT !.state = "Compiled"]
  <2>1. neg[c].contract \in Contracts /\ <<c, neg[c].contract>> \in deals
    BY <1>1, <1>2, SweptSound DEF Compilable, Negotiations, Sound, Released
  <2>2. Sound(c, n, deals', consent')
    BY <1>1, <2>1, SweptSound DEF Sound, Negotiations, States, ContractCompiled
  <2>3. \A d \in Collisions \ {c} : Sound(d, Swept[d], deals', consent')
    BY SweptSound DEF Sound, ContractCompiled
  <2>4. neg' = [Swept EXCEPT ![c] = n]
    BY <1>2 DEF ContractCompiled, NegotiationBecomes
  <2>5. /\ [Swept EXCEPT ![c] = n] \in [Collisions -> Negotiations]
        /\ \A d \in Collisions : Sound(d, [Swept EXCEPT ![c] = n][d], deals', consent')
    BY <2>2, <2>3, SweptFacts DEF NInv, Shape, Sound
  <2>6. consent' \in [Collisions -> [Sessions -> Contracts \cup {NoContract}]]
    BY DEF NInv, Shape, ContractCompiled
  <2>7. /\ neg' \in [Collisions -> Negotiations]
        /\ AcceptsCount'
        /\ ReleasedByConsent'
    BY <2>4, <2>5, <2>6, NegotiationsKeep
  <2>8. ledger' = WithCompiled(c, id, neg[c].contract) /\ UNCHANGED deals
    BY <1>2 DEF ContractCompiled
  <2> QED BY <2>1, <2>6, <2>7, <2>8, CompiledEntries DEF NInv, Shape
<1>3. CASE ~Compilable(Swept[c])
  BY <1>3, OnlySweptKeeps DEF ContractCompiled
<1> QED BY <1>2, <1>3

LEMMA SpecMergeKeeps ==
    ASSUME NInv, NEW S \in SUBSET Sessions, SpecMergePassed(S)
    PROVE  NInv'
<1> DEFINE ns == [c \in Collisions |->
                    IF c \in MergeVerifies(S)
                    THEN [Swept[c] EXCEPT !.state = "Verified", !.resolved = TRUE]
                    ELSE Swept[c]]
<1>1. ASSUME NEW c \in Collisions
      PROVE  Sound(c, ns[c], deals', consent')
  <2>1. Sound(c, Swept[c], deals', consent')
    BY SweptSound DEF Sound, SpecMergePassed
  <2>2. CASE c \in MergeVerifies(S)
    <3>1. <<c, Swept[c].contract>> \in deals'
      BY <2>1, <2>2 DEF MergeVerifies, Sound, Released
    <3> QED BY <2>1, <2>2, <3>1 DEF Sound, Negotiations, States
  <2>3. CASE c \notin MergeVerifies(S)
    BY <2>1, <2>3
  <2> QED BY <2>2, <2>3
<1>2. ns \in [Collisions -> Negotiations]
  BY <1>1 DEF Sound
<1>3. consent' \in [Collisions -> [Sessions -> Contracts \cup {NoContract}]]
  BY DEF NInv, Shape, SpecMergePassed
<1>4. neg' = ns
  BY DEF SpecMergePassed
<1>5. /\ neg' \in [Collisions -> Negotiations]
      /\ AcceptsCount'
      /\ ReleasedByConsent'
  BY <1>1, <1>2, <1>3, <1>4, NegotiationsKeep
<1>6. DOMAIN ledger' = Contracts
  BY DEF SpecMergePassed
<1>7. ASSUME NEW i \in Contracts, ledger'[i] # NoEntry
      PROVE  /\ <<ledger'[i].collision, ledger'[i].contract>> \in deals'
             /\ ledger'[i] = [collision |-> ledger'[i].collision,
                              contract |-> ledger'[i].contract,
                              version |-> ledger'[i].version,
                              status |-> ledger'[i].status]
  <2>1. ledger'[i] \in {ledger[i], [ledger[i] EXCEPT !.status = "verified"]}
        /\ (ledger'[i] # ledger[i] => i \in InLedger)
    BY DEF SpecMergePassed
  <2>2. i \in InLedger
    BY <1>7, <2>1 DEF InLedger
  <2>3. ledger[i] = [collision |-> ledger[i].collision, contract |-> ledger[i].contract,
                     version |-> ledger[i].version, status |-> ledger[i].status]
    BY <2>2 DEF NInv, Shape
  <2>4. <<ledger[i].collision, ledger[i].contract>> \in deals'
    BY <2>2 DEF NInv, LedgerIsAgreed, SpecMergePassed
  <2> QED BY <2>1, <2>3, <2>4
<1> QED BY <1>3, <1>5, <1>6, <1>7 DEF NInv, Shape, InLedger, LedgerIsAgreed
-----------------------------------------------------------------------------
(***************************************************************************)
(* Negotiations, whoever moves in them.                                    *)
(***************************************************************************)
NInvariant == NInv /\ now \in Nat

LEMMA NInitial == NegInit => NInvariant
<1> SUFFICES ASSUME NegInit PROVE NInvariant
  OBVIOUS
<1>1. Unopened \in Negotiations /\ Unopened.accepted = {} /\ Unopened.state \notin Released
  BY DEF Unopened, Negotiations, States, Released
<1>2. InLedger = {}
  BY DEF NegInit, InLedger
<1>3. Shape
  BY <1>1, <1>2 DEF Shape, NegInit
<1>4. AcceptsCount /\ ReleasedByConsent /\ LedgerIsAgreed
  BY <1>1, <1>2 DEF AcceptsCount, ReleasedByConsent, LedgerIsAgreed, NegInit
<1> QED BY <1>3, <1>4 DEF NInvariant, NInv, NegInit

LEMMA NStep == NInvariant /\ [NegNext]_negVars => NInvariant'
<1> SUFFICES ASSUME NInvariant, [NegNext]_negVars PROVE NInvariant'
  OBVIOUS
<1>0. NInv /\ now \in Nat
  BY DEF NInvariant
<1>1. ASSUME NEW c \in Collisions, Detected(c) PROVE NInvariant'
  <2>1. OpenCollision(c) /\ now' = now
    BY <1>1 DEF Detected, OpenCollision
  <2> QED BY <1>0, <2>1, OpenKeeps DEF NInvariant
<1>2. CASE AgentMove
  <2>1. PICK c \in Collisions :
           \/ \E k \in Contracts : Propose(c, k)
           \/ \E k \in Contracts : Counter(c, k)
           \/ \E s \in Sessions : Accept(c, s)
    BY <1>2 DEF AgentMove
  <2>2. now' = now
    BY <2>1 DEF Propose, Counter, Accept
  <2> QED BY <1>0, <2>1, <2>2, ProposeKeeps, CounterKeeps, AcceptKeeps DEF NInvariant
<1>3. CASE HumanMove
  <2>1. PICK c \in Collisions : Escalate(c) \/ HumanAccept(c)
    BY <1>3 DEF HumanMove
  <2>2. now' = now
    BY <2>1 DEF Escalate, HumanAccept
  <2> QED BY <1>0, <2>1, <2>2, EscalateKeeps, HumanAcceptKeeps DEF NInvariant
<1>4. CASE WorkerMove
  <2>1. PICK S \in SUBSET Sessions : SpecMergePassed(S)
    BY <1>4 DEF WorkerMove
  <2>2. now' = now
    BY <2>1 DEF SpecMergePassed
  <2> QED BY <1>0, <2>1, <2>2, SpecMergeKeeps DEF NInvariant
<1>5. CASE AuthorityMove
  <2>1. PICK c \in Collisions :
           \/ \E k \in Contracts : Propose(c, k) \/ Counter(c, k) \/ ContractCompiled(c, k)
           \/ \E s \in Sessions : Accept(c, s)
           \/ Escalate(c)
    BY <1>5 DEF AuthorityMove
  <2>2. now' = now
    BY <2>1 DEF Propose, Counter, ContractCompiled, Accept, Escalate
  <2> QED BY <1>0, <2>1, <2>2, ProposeKeeps, CounterKeeps, ContractCompiledKeeps,
             AcceptKeeps, EscalateKeeps DEF NInvariant
<1>6. CASE OtherEvent
  BY <1>0, <1>6, OnlySweptKeeps DEF OtherEvent, NInvariant
<1>7. ASSUME now' \in Nat, UNCHANGED <<neg, ledger, consent, deals>> PROVE NInvariant'
  BY <1>0, <1>7 DEF NInvariant, NInv, Shape, AcceptsCount, ReleasedByConsent,
     LedgerIsAgreed, InLedger
<1>8. CASE Tick
  BY <1>0, <1>7, <1>8 DEF Tick
<1>9. CASE UNCHANGED negVars
  BY <1>0, <1>7, <1>9 DEF negVars
<1> QED BY <1>1, <1>2, <1>3, <1>4, <1>5, <1>6, <1>8, <1>9 DEF NegNext

\* What those two rest on, of negotiations, consents and the ledger together.
THEOREM NInvariance == NegSpec => []NInvariant
<1>1. NegInit => NInvariant
  BY NInitial
<1>2. NInvariant /\ [NegNext]_negVars => NInvariant'
  BY NStep
<1> QED BY <1>1, <1>2, PTL DEF NegSpec

\* However agents, humans, workers and the authority move, in whatever order their
\* events are applied, the files of a collision are free only by consent to the
\* contract on the table (acceptNegotiation, transitionNegotiation).
THEOREM FreezeLiftsByConsent == NegSpec => []ReleasedByConsent
<1>1. NInvariant => ReleasedByConsent
  BY DEF NInvariant, NInv
<1> QED BY <1>1, NInvariance, PTL

\* Likewise the ledger holds agreements only (compileContract, applySpecMerge).
THEOREM LedgerHoldsAgreements == NegSpec => []LedgerIsAgreed
<1>1. NInvariant => LedgerIsAgreed
  BY DEF NInvariant, NInv
<1> QED BY <1>1, NInvariance, PTL
-----------------------------------------------------------------------------
(***************************************************************************)
(* The ledger gives each symbol's contracts versions of their own, because *)
(* there is a largest one when the next is taken: whatever has been        *)
(* compiled so far, the versions are within some bound.                    *)
(***************************************************************************)
Within(n) == \A id \in InLedger : ledger[id].version \in 1 .. n

Numbered ==
    /\ ledger \in [Contracts -> Entries \cup {NoEntry}]
    /\ \E n \in Nat : Within(n)
    /\ VersionsDistinct

LEMMA InLedgerFacts ==
    ASSUME ledger \in [Contracts -> Entries \cup {NoEntry}]
    PROVE  \A id \in Contracts : /\ id \in InLedger => ledger[id] \in Entries
                                 /\ id \notin InLedger => ledger[id] = NoEntry
BY DEF InLedger

LEMMA NextVersionFacts ==
    ASSUME NEW n \in Nat, Within(n), NEW x
    PROVE  /\ NextVersion(x) \in 1 .. n + 1
           /\ \A id \in InLedger : SymbolOf[ledger[id].contract] = x =>
                 ledger[id].version # NextVersion(x)
<1> DEFINE V == VersionsOf(x)
           Largest(v) == v \in V \cup {0} /\ \A u \in V : u <= v
           most == CHOOSE v : Largest(v)
<1>1. V \in SUBSET (1 .. n)
  BY DEF VersionsOf, Within
<1>2. \A id \in InLedger : SymbolOf[ledger[id].contract] = x => ledger[id].version \in V
  BY DEF VersionsOf
<1>3. NextVersion(x) = 1 + CHOOSE v \in V \cup {0} : \A u \in V : u <= v
  BY DEF NextVersion
<1> HIDE DEF V
<1>4. \E v \in V \cup {0} : \A u \in V : u <= v
  <2>1. CASE V = {}
    BY <2>1
  <2>2. CASE V # {}
    BY <1>1, <2>2, LastExists
  <2> QED BY <2>1, <2>2
<1>5. PICK v \in V \cup {0} : /\ \A u \in V : u <= v
                              /\ NextVersion(x) = 1 + v
  BY <1>3, <1>4
<1>6. v \in 0 .. n
  BY <1>1
<1>7. \A u \in V : u # 1 + v
  BY <1>1, <1>5, <1>6
<1> QED BY <1>2, <1>5, <1>6, <1>7

\* An event may change the status of entries, and nothing else of them.
LEMMA StatusKeeps ==
    ASSUME Numbered, NEW L \in [Contracts -> Entries \cup {NoEntry}], ledger' = L,
           \A id \in Contracts : L[id] = ledger[id]
               \/ (id \in InLedger /\ L[id] \in Entries
                      /\ L[id].contract = ledger[id].contract
                      /\ L[id].version = ledger[id].version)
    PROVE  Numbered'
<1>1. PICK n \in Nat : Within(n)
  BY DEF Numbered
<1>2. \A id \in InLedger' : /\ id \in InLedger
                            /\ ledger'[id].contract = ledger[id].contract
                            /\ ledger'[id].version = ledger[id].version
  BY DEF InLedger
<1>3. Within(n)'
  BY <1>1, <1>2 DEF Within
<1>4. VersionsDistinct'
  BY <1>2 DEF Numbered, VersionsDistinct
<1> QED BY <1>3, <1>4 DEF Numbered

LEMMA CompilingNumbers ==
    ASSUME Numbered, NEW c \in Collisions, NEW id \in Contracts, NEW k \in Contracts,
           ledger' = WithCompiled(c, id, k)
    PROVE  Numbered'
<1> DEFINE x == SymbolOf[k]
           v == NextVersion(x)
           e == [collision |-> c, contract |-> k, version |-> v, status |-> "compiled"]
<1>1. PICK n \in Nat : Within(n)
  BY DEF Numbered
<1>2. /\ v \in 1 .. n + 1
      /\ \A i \in InLedger : SymbolOf[ledger[i].contract] = x => ledger[i].version # v
  BY <1>1, NextVersionFacts
<1>3. /\ DOMAIN ledger' = Contracts /\ ledger'[id] = e
      /\ ledger' = [i \in Contracts |-> ledger'[i]]
      /\ \A i \in Contracts \ {id} :
            \/ ledger'[i] = ledger[i]
            \/ i \in InLedger /\ ledger'[i] = [ledger[i] EXCEPT !.status = "superseded"]
  BY DEF WithCompiled
<1> HIDE DEF x, v
<1>4. e \in Entries /\ e.version = v /\ e.contract = k /\ e # NoEntry
  BY <1>2 DEF Entries, NoEntry
<1> HIDE DEF e
<1>5. ASSUME NEW i \in Contracts \ {id}
      PROVE  \/ ledger'[i] = ledger[i]
             \/ /\ i \in InLedger /\ ledger'[i] \in Entries
                /\ ledger'[i].contract = ledger[i].contract
                /\ ledger'[i].version = ledger[i].version
  <2>1. i \in InLedger => ledger[i] \in Entries
    BY InLedgerFacts DEF Numbered
  <2>2. i \in InLedger => [ledger[i] EXCEPT !.status = "superseded"] \in Entries
    BY <2>1 DEF Entries
  <2> QED BY <1>3, <2>1, <2>2 DEF Entries
<1>6. ledger' \in [Contracts -> Entries \cup {NoEntry}]
  BY <1>3, <1>4, <1>5 DEF Numbered
<1>7. \A i \in InLedger' \ {id} : /\ i \in InLedger
                                  /\ ledger'[i].contract = ledger[i].contract
                                  /\ ledger'[i].version = ledger[i].version
  BY <1>5 DEF InLedger
<1>8. Within(n + 1)'
  <2>1. \A i \in InLedger : ledger[i].version \in 1 .. n + 1
    BY <1>1 DEF Within
  <2> QED BY <1>2, <1>3, <1>4, <1>7, <2>1 DEF Within
<1>9. VersionsDistinct'
  <2>1. \A i, j \in InLedger' \ {id} :
           i # j /\ SymbolOf[ledger'[i].contract] = SymbolOf[ledger'[j].contract]
               => ledger'[i].version # ledger'[j].version
    BY <1>7 DEF Numbered, VersionsDistinct
  <2>2. \A i \in InLedger' \ {id} :
           SymbolOf[ledger'[i].contract] = SymbolOf[ledger'[id].contract]
               => ledger'[i].version # ledger'[id].version
    BY <1>2, <1>3, <1>4, <1>7 DEF x
  <2> QED BY <2>1, <2>2 DEF VersionsDistinct
<1>10. n + 1 \in Nat
  OBVIOUS
<1> QED BY <1>6, <1>8, <1>9, <1>10 DEF Numbered

LEMMA NumberedStep == NInvariant /\ Numbered /\ [NegNext]_negVars => Numbered'
<1> SUFFICES ASSUME NInvariant, Numbered, [NegNext]_negVars PROVE Numbered'
  OBVIOUS
<1>1. CASE ledger' = ledger
  BY <1>1 DEF Numbered, Within, InLedger, VersionsDistinct
<1>2. ASSUME NEW c \in Collisions, NEW id \in Contracts, ContractCompiled(c, id)
      PROVE  Numbered'
  <2>1. Swept[c].contract \in Contracts \cup {NoContract} /\ Swept[c].contract = neg[c].contract
    BY SweptFacts DEF NInvariant, NInv, Shape, Negotiations
  <2>2. CASE Compilable(Swept[c])
    <3>1. neg[c].contract \in Contracts
      BY <2>1, <2>2 DEF Compilable
    <3>2. ledger' = WithCompiled(c, id, neg[c].contract)
      BY <1>2, <2>2 DEF ContractCompiled
    <3> QED BY <3>1, <3>2, CompilingNumbers
  <2>3. CASE ~Compilable(Swept[c])
    BY <1>1, <1>2, <2>3 DEF ContractCompiled
  <2> QED BY <2>2, <2>3
<1>3. ASSUME NEW S \in SUBSET Sessions, SpecMergePassed(S)
      PROVE  Numbered'
  <2> DEFINE L == [id \in Contracts |->
                     IF id \in InLedger /\ ledger[id].collision \in MergeVerifies(S)
                     THEN [ledger[id] EXCEPT !.status = "verified"] ELSE ledger[id]]
  <2>1. ASSUME NEW id \in Contracts
        PROVE  /\ L[id] \in Entries \cup {NoEntry}
               /\ \/ L[id] = ledger[id]
                  \/ /\ id \in InLedger /\ L[id] \in Entries
                     /\ L[id].contract = ledger[id].contract
                     /\ L[id].version = ledger[id].version
    <3>1. ledger[id] \in Entries \cup {NoEntry} /\ (id \in InLedger => ledger[id] \in Entries)
      BY InLedgerFacts DEF Numbered
    <3>2. id \in InLedger =>
             /\ [ledger[id] EXCEPT !.status = "verified"] \in Entries
             /\ [ledger[id] EXCEPT !.status = "verified"].contract = ledger[id].contract
             /\ [ledger[id] EXCEPT !.status = "verified"].version = ledger[id].version
      BY <3>1 DEF Entries
    <3> QED BY <3>1, <3>2
  <2>2. L \in [Contracts -> Entries \cup {NoEntry}]
    BY <2>1
  <2>3. ledger' = L
    BY <1>3 DEF SpecMergePassed
  <2> HIDE DEF L
  <2> QED BY <2>1, <2>2, <2>3, StatusKeeps
<1>4. CASE AuthorityMove
  BY <1>1, <1>2, <1>4 DEF AuthorityMove, Propose, Counter, Accept, Escalate
<1>5. CASE WorkerMove
  BY <1>3, <1>5 DEF WorkerMove
<1>6. CASE \/ AgentMove \/ HumanMove \/ OtherEvent \/ Tick \/ UNCHANGED negVars
           \/ \E c \in Collisions : Detected(c)
  <2>1. ledger' = ledger
    BY <1>6 DEF AgentMove, HumanMove, OtherEvent, Tick, negVars, Detected, OpenCollision,
       Propose, Counter, Accept, HumanAccept, Escalate
  <2> QED BY <1>1, <2>1
<1> QED BY <1>4, <1>5, <1>6 DEF NegNext

\* However agents, humans, workers and the authority move, the contracts of a symbol have
\* versions of their own, even when one is compiled again under an id it had before
\* (nextContractVersion, compileContract).
THEOREM VersionsTellApart == NegSpec => []VersionsDistinct
<1>1. NegInit => NInvariant /\ Numbered
  <2> SUFFICES ASSUME NegInit PROVE Numbered
    BY NInitial
  <2>1. ledger \in [Contracts -> Entries \cup {NoEntry}] /\ InLedger = {}
    BY DEF NegInit, InLedger
  <2> QED BY <2>1 DEF Numbered, Within, VersionsDistinct
<1>2. NInvariant /\ Numbered /\ [NegNext]_negVars => NInvariant' /\ Numbered'
  BY NStep, NumberedStep
<1>3. Numbered => VersionsDistinct
  BY DEF Numbered
<1> QED BY <1>1, <1>2, <1>3, PTL DEF NegSpec
-----------------------------------------------------------------------------
(***************************************************************************)
(* The orchestrator is one of those who move.  Its steps are events about  *)
(* contracts and sessions that exist, because what it holds across its     *)
(* awaits (DebateContext, and the replica it was taken from) is typed.     *)
(***************************************************************************)
HoldsContract == {"respond", "agree", "signWriter", "signAffected", "conclude"}

Replicas == [Collisions -> [state : States, contract : Contracts \cup {NoContract},
                            resolved : BOOLEAN]]

OInv ==
    /\ view \in Replicas
    /\ queue \subseteq Debatable
    /\ debate # NoDebate =>
          /\ debate \in Debates
          /\ debate.at \in HoldsContract => debate.contract \in Contracts

LEMMA ReplicaType ==
    ASSUME NEW ns \in [Collisions -> Negotiations]
    PROVE  Replica(ns) \in Replicas
BY DEF Replica, Replicas, Seen, Negotiations

LEMMA SpeakersAreSessions ==
    ASSUME NEW c \in Debatable, NEW who
    PROVE  WriterOf[c] \in Sessions /\ FirstAffected(c) \in Sessions
                                    /\ Speaker(who, c) \in Sessions
<1>1. WriterOf[c] \in Sessions /\ AffectedOf[c] \in SUBSET Sessions /\ AffectedOf[c] # {}
  BY PartiesAssumption, DebatableAssumption
<1> QED BY <1>1 DEF FirstAffected, Speaker

\* A debate's own step, seen from the negotiations.
LEMMA DebateMoves == OInv /\ DebateStep => AuthorityMove \/ UNCHANGED negVars
<1> SUFFICES ASSUME OInv, DebateStep PROVE AuthorityMove \/ UNCHANGED negVars
  OBVIOUS
<1> DEFINE d == debate.on
<1>1. ASSUME NEW place \in Steps, At(place)
      PROVE  /\ d \in Debatable /\ d \in Collisions
             /\ WriterOf[d] \in Sessions /\ FirstAffected(d) \in Sessions
             /\ \A who : Speaker(who, d) \in Sessions
             /\ place \in HoldsContract => debate.contract \in Contracts
  <2>1. debate # NoDebate
    BY <1>1 DEF At, NoDebate, Steps
  <2>2. d \in Debatable /\ d \in Collisions
    BY <2>1, DebatableAssumption DEF OInv, Debates
  <2> QED BY <1>1, <2>1, <2>2, SpeakersAreSessions DEF OInv, At
<1>2. ASSUME NEW c \in Collisions, Takes(c) PROVE UNCHANGED negVars
  BY <1>2 DEF Takes
<1>3. CASE Begins
  BY <1>3 DEF Begins
<1>4. CASE SaysProposal
  <2>1. "propose" \in Steps
    BY DEF Steps
  <2>2. PICK k \in ContractsOn(CollisionSymbol[d]) : Emits(Propose(d, k))
    BY <1>4 DEF SaysProposal
  <2>3. k \in Contracts /\ Propose(d, k) /\ UNCHANGED moves
    BY <2>2 DEF Emits, ContractsOn
  <2> QED BY <1>1, <1>4, <2>1, <2>3 DEF SaysProposal, AuthorityMove
<1>5. CASE SaysCounter
  <2>1. "respond" \in Steps
    BY DEF Steps
  <2>2. PICK k \in ContractsOn(SymbolOf[debate.contract]) : Emits(Counter(d, k))
    BY <1>5 DEF SaysCounter
  <2>3. k \in Contracts /\ Counter(d, k) /\ UNCHANGED moves
    BY <2>2 DEF Emits, ContractsOn
  <2> QED BY <1>1, <1>5, <2>1, <2>3 DEF SaysCounter, AuthorityMove
<1>6. CASE SaysAccept
  <2>1. Accept(d, Speaker(Other(debate.author), d)) /\ UNCHANGED moves
    BY <1>6 DEF SaysAccept, Emits
  <2> QED BY <1>1, <1>6, <2>1 DEF SaysAccept, AuthorityMove, Steps
<1>7. CASE AuthorAgrees
  <2>1. Accept(d, Speaker(debate.author, d)) /\ UNCHANGED moves
    BY <1>7 DEF AuthorAgrees, Emits
  <2> QED BY <1>1, <1>7, <2>1 DEF AuthorAgrees, AuthorityMove, Steps
<1>8. CASE Merges
  <2>1. "respond" \in Steps
    BY DEF Steps
  <2>2. PICK k \in ContractsOn(SymbolOf[debate.contract]) : Emits(Propose(d, k))
    BY <1>8 DEF Merges
  <2>3. k \in Contracts /\ Propose(d, k) /\ UNCHANGED moves
    BY <2>2 DEF Emits, ContractsOn
  <2> QED BY <1>1, <1>8, <2>1, <2>3 DEF Merges, AuthorityMove
<1>9. CASE WriterSigns
  <2>1. Accept(d, WriterOf[d]) /\ UNCHANGED moves
    BY <1>9 DEF WriterSigns, Emits
  <2> QED BY <1>1, <1>9, <2>1 DEF WriterSigns, AuthorityMove, Steps
<1>10. CASE AffectedSigns
  <2>1. Accept(d, FirstAffected(d)) /\ UNCHANGED moves
    BY <1>10 DEF AffectedSigns, Emits
  <2> QED BY <1>1, <1>10, <2>1 DEF AffectedSigns, AuthorityMove, Steps
<1>11. CASE Concludes
  <2>1. At("conclude") /\ "conclude" \in Steps /\ "conclude" \in HoldsContract
    BY <1>11 DEF Concludes, Steps, HoldsContract
  <2>2. /\ ContractCompiled(d, debate.contract) \/ Escalate(d)
        /\ UNCHANGED moves
    BY <1>11 DEF Concludes, Emits, Outcome
  <2> QED BY <1>1, <2>1, <2>2 DEF AuthorityMove
<1> QED BY <1>2, <1>3, <1>4, <1>5, <1>6, <1>7, <1>8, <1>9, <1>10, <1>11 DEF DebateStep

\* Every step of the whole is a move of somebody, or moves nothing.
LEMMA StepsAreMoves == OInv /\ [Next]_vars => [NegNext]_negVars
<1> SUFFICES ASSUME OInv, [Next]_vars PROVE [NegNext]_negVars
  OBVIOUS
<1>1. CASE OthersStep
  BY <1>1 DEF OthersStep, NegNext
<1>2. CASE Deliver
  BY <1>2 DEF Deliver
<1>3. CASE DebateStep
  BY <1>3, DebateMoves DEF NegNext
<1>4. CASE DebateFails \/ Restart
  BY <1>4 DEF DebateFails, Restart
<1>5. CASE UNCHANGED vars
  BY <1>5 DEF vars
<1> QED BY <1>1, <1>2, <1>3, <1>4, <1>5 DEF Next
-----------------------------------------------------------------------------
\* What a delivery brings is typed.
LEMMA DeliversKeeps ==
    ASSUME queue \subseteq Debatable, neg' \in [Collisions -> Negotiations], Delivers
    PROVE  view' \in Replicas /\ queue' \subseteq Debatable
<1>1. view' = Replica(neg') /\ queue' = queue \cup Heard(neg')
  BY DEF Delivers
<1>2. Heard(neg') \subseteq Debatable
  BY DEF Heard
<1> QED BY <1>1, <1>2, ReplicaType

\* What a debate may become.
LEMMA DebateKeeps ==
    ASSUME OInv, DebateStep
    PROVE  debate' # NoDebate =>
              /\ debate' \in Debates
              /\ debate'.at \in HoldsContract => debate'.contract \in Contracts
<1> DEFINE Good(d) == d \in Debates /\ (d.at \in HoldsContract => d.contract \in Contracts)
<1>0. ASSUME NEW place \in Steps, At(place) PROVE Good(debate)
  BY <1>0 DEF OInv, At, NoDebate, Steps
<1>1. ASSUME NEW c \in Collisions, Takes(c) PROVE Good(debate')
  <2>1. c \in Debatable /\ 0 \in 0 .. MaxRounds
    BY <1>1, NumberAssumption DEF OInv, Takes
  <2> QED BY <1>1, <2>1 DEF Takes, Debates, Steps, HoldsContract
<1>2. CASE Begins
  <2>1. Good(debate) /\ debate.on \in Collisions
    BY <1>0, <1>2, DebatableAssumption DEF Begins, Steps, Debates
  <2>2. view[debate.on].contract \in Contracts \cup {NoContract}
    BY <2>1 DEF OInv, Replicas
  <2>3. \/ debate' = NoDebate
        \/ \E w \in {"writer", "affected"} :
              /\ view[debate.on].contract # NoContract
              /\ debate' = [debate EXCEPT !.at = "respond",
                               !.contract = view[debate.on].contract, !.author = w]
        \/ debate' = [debate EXCEPT !.at = "propose"]
    BY <1>2 DEF Begins
  <2>4. ASSUME NEW w \in {"writer", "affected"}, NEW k \in Contracts
        PROVE  Good([debate EXCEPT !.at = "respond", !.contract = k, !.author = w])
    BY <2>1 DEF Debates, Steps
  <2>5. Good([debate EXCEPT !.at = "propose"])
    BY <2>1 DEF Debates, Steps, HoldsContract
  <2> QED BY <2>2, <2>3, <2>4, <2>5
<1>3. CASE SaysProposal
  <2>1. PICK k \in Contracts : debate' = [debate EXCEPT !.at = "respond", !.contract = k]
    BY <1>3 DEF SaysProposal, ContractsOn
  <2> QED BY <1>0, <1>3, <2>1 DEF SaysProposal, Debates, Steps
<1>4. CASE SaysCounter
  <2>1. Good(debate) /\ debate.at = "respond" /\ debate.counters + 1 \in 0 .. MaxRounds
    BY <1>0, <1>4, NumberAssumption DEF SaysCounter, MayCounter, At, Steps, Debates
  <2>2. PICK k \in Contracts :
           debate' = [debate EXCEPT !.contract = k, !.author = Other(@), !.counters = @ + 1]
    BY <1>4 DEF SaysCounter, ContractsOn
  <2>3. Other(debate.author) \in {"writer", "affected"}
    BY DEF Other
  <2> QED BY <2>1, <2>2, <2>3 DEF Debates, Steps
<1>5. CASE SaysAccept
  <2>1. Good(debate) /\ debate.contract \in Contracts /\ debate' = [debate EXCEPT !.at = "agree"]
    BY <1>0, <1>5 DEF SaysAccept, At, Steps, HoldsContract
  <2> QED BY <2>1 DEF Debates, Steps
<1>6. CASE AuthorAgrees
  <2>1. Good(debate) /\ debate.contract \in Contracts /\ debate' = [debate EXCEPT !.at = "conclude"]
    BY <1>0, <1>6 DEF AuthorAgrees, At, Steps, HoldsContract
  <2> QED BY <2>1 DEF Debates, Steps
<1>7. CASE Merges
  <2>1. PICK k \in Contracts : debate' = [debate EXCEPT !.at = "signWriter", !.contract = k]
    BY <1>7 DEF Merges, ContractsOn
  <2> QED BY <1>0, <1>7, <2>1 DEF Merges, Debates, Steps
<1>8. CASE WriterSigns
  <2>1. Good(debate) /\ debate.contract \in Contracts
        /\ debate' = [debate EXCEPT !.at = "signAffected"]
    BY <1>0, <1>8 DEF WriterSigns, At, Steps, HoldsContract
  <2> QED BY <2>1 DEF Debates, Steps
<1>9. CASE AffectedSigns
  <2>1. Good(debate) /\ debate.contract \in Contracts /\ debate' = [debate EXCEPT !.at = "conclude"]
    BY <1>0, <1>9 DEF AffectedSigns, At, Steps, HoldsContract
  <2> QED BY <2>1 DEF Debates, Steps
<1>10. CASE Concludes
  BY <1>10 DEF Concludes
<1> QED BY <1>1, <1>2, <1>3, <1>4, <1>5, <1>6, <1>7, <1>8, <1>9, <1>10 DEF DebateStep

LEMMA OInitial == Init => OInv
<1> SUFFICES ASSUME Init PROVE OInv
  OBVIOUS
<1>1. neg \in [Collisions -> Negotiations]
  BY DEF Init, NegInit, Unopened, Negotiations, States
<1> QED BY <1>1, ReplicaType DEF Init, OInv

LEMMA OStep == NInvariant' /\ OInv /\ [Next]_vars => OInv'
<1> SUFFICES ASSUME NInvariant', OInv, [Next]_vars PROVE OInv'
  OBVIOUS
<1>1. neg' \in [Collisions -> Negotiations]
  BY DEF NInvariant, NInv, Shape
<1>2. ASSUME UNCHANGED <<view, queue, debate>> PROVE OInv'
  BY <1>2 DEF OInv
<1>3. CASE OthersStep
  BY <1>2, <1>3 DEF OthersStep, orchVars
<1>4. CASE Deliver
  BY <1>1, <1>4, DeliversKeeps DEF Deliver, OInv
<1>5. CASE DebateStep
  <2>1. view' \in Replicas /\ queue' \subseteq Debatable
    <3>1. Delivers \/ (UNCHANGED view /\ queue' \subseteq queue)
      BY <1>5 DEF DebateStep, Takes, Begins, SaysProposal, SaysCounter, SaysAccept,
         AuthorAgrees, Merges, WriterSigns, AffectedSigns, Concludes, Emits
    <3> QED BY <1>1, <3>1, DeliversKeeps DEF OInv
  <2> QED BY <1>5, <2>1, DebateKeeps DEF OInv
<1>6. CASE DebateFails
  BY <1>6 DEF DebateFails, OInv
<1>7. CASE Restart
  <2>1. view' = Replica(neg') /\ queue' \subseteq Debatable /\ debate' = NoDebate
    BY <1>7 DEF Restart, negVars
  <2> QED BY <1>1, <2>1, ReplicaType DEF OInv
<1>8. CASE UNCHANGED vars
  BY <1>2, <1>8 DEF vars, orchVars
<1> QED BY <1>3, <1>4, <1>5, <1>6, <1>7, <1>8 DEF Next

\* The orchestrator, its replica, its restarts and its failures implement the
\* negotiations in which the authority may move at any time: what is proved there
\* holds whatever a debate says, and whenever it is broken off.
THEOREM ImplementsNegotiation == Spec => NegSpec
<1>1. Init => NegInit /\ NInvariant /\ OInv
  BY NInitial, OInitial DEF Init
<1>2. NInvariant /\ OInv /\ [Next]_vars => NInvariant' /\ OInv' /\ [NegNext]_negVars
  BY StepsAreMoves, NStep, OStep
<1> QED BY <1>1, <1>2, PTL DEF Spec, NegSpec

\* The freeze of freezeDenial lifts only by consent, orchestrator and all.
THEOREM DebatesLiftByConsent == Spec => []ReleasedByConsent
BY ImplementsNegotiation, FreezeLiftsByConsent, PTL

\* The ledger's versions tell contracts apart, orchestrator and all.
THEOREM DebatesTellVersionsApart == Spec => []VersionsDistinct
BY ImplementsNegotiation, VersionsTellApart, PTL

\* conclude() compiles the contract of its context; the ledger gets what was agreed.
THEOREM DebatesCompileAgreements == Spec => []LedgerIsAgreed
BY ImplementsNegotiation, LedgerHoldsAgreements, PTL
-----------------------------------------------------------------------------
(***************************************************************************)
(* The planner, for every number of sessions, files, symbols and outside   *)
(* moves, and whatever the model drafts.                                   *)
(***************************************************************************)
Tasks ==
    {NoTask, OwnTask, <<"waiting">>}
        \cup {<<"files", w, o>> : w \in BOOLEAN, o \in SUBSET Files}
        \cup {d.text : d \in Drafts}

Intents == [task : Tasks, files : SUBSET Files, syms : SUBSET Keys]

Infos == [live : BOOLEAN, reads : SUBSET Files, syms : SUBSET Keys,
          writes : SUBSET Files, intent : Intents]

Leases == [session : AgentIds, keys : SUBSET Keys]

\* A brief, on a room with n leases.
IsBrief(b, n) ==
    /\ Present(b) \subseteq AgentIds
    /\ \A s \in Present(b) : b.info[s] \in Infos
    /\ DOMAIN b.held \subseteq Keys
    /\ \A k \in DOMAIN b.held : b.held[k] \in AgentIds /\ b.since[k] \in 1 .. n

BriefOK(b) == \E n \in Nat : IsBrief(b, n)

-----------------------------------------------------------------------------
(***************************************************************************)
(* Positions, and the first of some sessions.                              *)
(***************************************************************************)
LEMMA MinFacts ==
    ASSUME NEW n \in Nat, NEW I \in SUBSET (1 .. n), I # {}
    PROVE  Min(I) \in I /\ \A i \in I : Min(I) <= i
  <1>1. \E m \in I : \A i \in I : m <= i
    BY FirstExists
  <1>. QED
    BY <1>1 DEF Min

LEMMA MaxFacts ==
    ASSUME NEW n \in Nat, NEW I \in SUBSET (1 .. n), I # {}
    PROVE  Max(I) \in I /\ \A i \in I : i <= Max(I)
  <1>1. \E m \in I : \A i \in I : i <= m
    BY LastExists
  <1>2. \E m \in I : \A i \in I : m >= i
    <2>1. I \subseteq Int
      OBVIOUS
    <2>. QED
      BY <1>1, <2>1
  <1>3. Max(I) \in I /\ \A i \in I : Max(I) >= i
    BY <1>2 DEF Max
  <1>4. I \subseteq Int
    OBVIOUS
  <1>. QED
    BY <1>3, <1>4

LEMMA AgentFacts ==
    /\ Len(Agents) \in Nat /\ DOMAIN Agents = 1 .. Len(Agents)
    /\ \A i \in 1 .. Len(Agents) : Agents[i] \in AgentIds
    /\ \A s \in AgentIds : \E i \in 1 .. Len(Agents) : Agents[i] = s
    /\ \A i, j \in 1 .. Len(Agents) : Agents[i] = Agents[j] => i = j
  <1>1. Agents \in Seq(AgentIds)
    BY AgentsAssumption DEF AgentIds
  <1>2. AgentIds = {Agents[i] : i \in DOMAIN Agents}
    BY DEF AgentIds, ToSet
  <1>3. \A i, j \in DOMAIN Agents : Agents[i] = Agents[j] => i = j
    BY AgentsAssumption DEF IsInjective
  <1>. QED
    BY <1>1, <1>2, <1>3

LEMMA SessionsAreFinite == IsFiniteSet(AgentIds)
  <1>1. Agents \in Seq(AgentIds)
    BY AgentsAssumption DEF AgentIds
  <1>2. Agents \in Surjection(1 .. Len(Agents), AgentIds)
    BY <1>1, AgentFacts DEF Surjection
  <1>3. IsFiniteSet(1 .. Len(Agents))
    BY AgentFacts, FS_Interval
  <1>. QED
    BY <1>2, <1>3, FS_Surjection

LEMMA FirstOfFacts ==
    ASSUME NEW S \in SUBSET AgentIds, S # {}
    PROVE  FirstOf(S) \in S
  <1>. DEFINE I == {i \in DOMAIN Agents : Agents[i] \in S}
  <1>1. I \in SUBSET (1 .. Len(Agents)) /\ I # {} /\ Len(Agents) \in Nat
    BY AgentFacts
  <1>2. \A i \in I : Agents[i] \in S
    OBVIOUS
  <1>. HIDE DEF I
  <1>3. Min(I) \in I
    BY <1>1, MinFacts
  <1>. QED
    BY <1>2, <1>3 DEF FirstOf, I
-----------------------------------------------------------------------------
(***************************************************************************)
(* Briefs.                                                                 *)
(***************************************************************************)
LEMMA LeasesOnFacts ==
    ASSUME NEW ls \in Seq(Leases), NEW k
    PROVE  LeasesOn(ls, k) \in SUBSET (1 .. Len(ls)) /\ Len(ls) \in Nat
  BY DEF LeasesOn

LEMMA BriefFacts ==
    ASSUME NEW room \in [AgentIds -> Infos], NEW ls \in Seq(Leases)
    PROVE  /\ IsBrief(BriefOf(room, ls), Len(ls)) /\ BriefOK(BriefOf(room, ls))
           /\ Present(BriefOf(room, ls)) = {t \in AgentIds : room[t].live}
           /\ \A s \in Present(BriefOf(room, ls)) : BriefOf(room, ls).info[s] = room[s]
           /\ DOMAIN BriefOf(room, ls).held = {k \in Keys : LeasesOn(ls, k) # {}}
           /\ \A k \in Keys : LeasesOn(ls, k) # {} =>
                /\ BriefOf(room, ls).held[k] = ls[Max(LeasesOn(ls, k))].session
                /\ BriefOf(room, ls).since[k] = Min(LeasesOn(ls, k))
  <1>. DEFINE b == BriefOf(room, ls)
              P == {t \in AgentIds : room[t].live}
              K == {k \in Keys : LeasesOn(ls, k) # {}}
  <1>1. /\ b.info = [s \in P |-> room[s]]
        /\ b.held = [k \in K |-> ls[Max(LeasesOn(ls, k))].session]
        /\ b.since = [k \in K |-> Min(LeasesOn(ls, k))]
    BY DEF BriefOf
  <1>. HIDE DEF b
  <1>2. Present(b) = P /\ \A s \in Present(b) : b.info[s] = room[s]
    BY <1>1 DEF Present
  <1>3. ASSUME NEW k \in K
        PROVE  /\ b.held[k] = ls[Max(LeasesOn(ls, k))].session
               /\ b.since[k] = Min(LeasesOn(ls, k))
               /\ b.held[k] \in AgentIds /\ b.since[k] \in 1 .. Len(ls)
    <2>1. LeasesOn(ls, k) \in SUBSET (1 .. Len(ls)) /\ LeasesOn(ls, k) # {} /\ Len(ls) \in Nat
      BY LeasesOnFacts
    <2>2. Max(LeasesOn(ls, k)) \in 1 .. Len(ls) /\ Min(LeasesOn(ls, k)) \in 1 .. Len(ls)
      BY <2>1, MinFacts, MaxFacts
    <2>3. ls[Max(LeasesOn(ls, k))] \in Leases
      BY <2>2
    <2>. QED
      BY <1>1, <2>2, <2>3 DEF Leases
  <1>4. DOMAIN b.held = K
    BY <1>1
  <1>5. IsBrief(b, Len(ls))
    BY <1>2, <1>3, <1>4 DEF IsBrief
  <1>6. BriefOK(b)
    BY <1>5, LeasesOnFacts DEF BriefOK
  <1>. QED
    BY <1>2, <1>3, <1>4, <1>5, <1>6 DEF b

LEMMA InterestedFacts ==
    ASSUME NEW b, BriefOK(b), NEW f
    PROVE  Interested(b, f) \subseteq Present(b) /\ Interested(b, f) \subseteq AgentIds
  BY DEF Interested, BriefOK, IsBrief

\* A file goes to one who is interested in it.
LEMMA OwnerIsInterested ==
    ASSUME NEW b, BriefOK(b), NEW prefer, NEW f, Interested(b, f) # {}
    PROVE  Owner(b, prefer, f) \in Interested(b, f)
  <1>1. CASE Preferred(b, prefer, f)
    BY <1>1 DEF Owner, Preferred
  <1>2. ASSUME LeasedKeys(b, f) # {}
        PROVE  Holder(b, f) \in Interested(b, f)
    <2>. DEFINE T == {b.since[k] : k \in LeasedKeys(b, f)}
    <2>1. PICK n \in Nat : IsBrief(b, n)
      BY DEF BriefOK
    <2>2. T \in SUBSET (1 .. n) /\ T # {}
      BY <1>2, <2>1 DEF IsBrief, LeasedKeys
    <2>3. PICK m \in T : \A t \in T : m <= t
      BY <2>1, <2>2, FirstExists
    <2>4. PICK k \in LeasedKeys(b, f) : m = b.since[k]
      OBVIOUS
    <2>5. \A j \in LeasedKeys(b, f) : b.since[k] <= b.since[j]
      BY <2>3, <2>4
    <2>6. k \in OldestKeys(b, f)
      BY <2>5 DEF OldestKeys
    <2>7. (CHOOSE j \in OldestKeys(b, f) : TRUE) \in LeasedKeys(b, f)
      BY <2>6 DEF OldestKeys
    <2>. QED
      BY <2>7 DEF Holder, LeasedKeys
  <1>3. CASE ~Preferred(b, prefer, f) /\ LeasedKeys(b, f) # {}
    BY <1>2, <1>3 DEF Owner
  <1>4. CASE ~Preferred(b, prefer, f) /\ LeasedKeys(b, f) = {}
    <2>. DEFINE S == IF Writers(b, f) # {} THEN Writers(b, f)
                     ELSE IF Declarers(b, f) # {} THEN Declarers(b, f)
                     ELSE Interested(b, f)
    <2>1. S \subseteq Interested(b, f) /\ S # {}
      BY DEF Writers, Declarers
    <2>2. S \in SUBSET AgentIds
      BY <2>1, InterestedFacts
    <2>3. Owner(b, prefer, f) = FirstOf(S)
      BY <1>4 DEF Owner
    <2>. HIDE DEF S
    <2>4. FirstOf(S) \in S
      BY <2>1, <2>2, FirstOfFacts
    <2>. QED
      BY <2>1, <2>3, <2>4
  <1>. QED
    BY <1>1, <1>3, <1>4

LEMMA ObservedFacts ==
    ASSUME NEW b, BriefOK(b)
    PROVE  Observed(b) \subseteq Keys
  <1>1. \A s \in Present(b) : b.info[s].syms \subseteq Keys /\ b.info[s].intent.syms \subseteq Keys
    BY DEF BriefOK, IsBrief, Infos, Intents
  <1>. QED
    BY <1>1 DEF Observed

\* A claim: keys of files the session owns, none of them leased to another.
LEMMA ClaimFacts ==
    ASSUME NEW b, BriefOK(b), NEW prefer, NEW s, NEW k \in Claim(b, prefer, s)
    PROVE  /\ k \in Keys /\ FileOf(k) \in Owns(b, prefer, s)
           /\ FileOf(k) \in Contested(b) /\ ~HeldByOther(b, s, k)
  <1>1. PICK f \in Owns(b, prefer, s) \cap Contested(b) : k \in KeysFor(b, f)
    BY DEF Claim
  <1>2. ~HeldByOther(b, s, k)
    BY DEF Claim, Claimable
  <1>3. f \in Files
    BY DEF Owns
  <1>4. (k \in Observed(b) /\ FileOf(k) = f) \/ k = <<f, 0>>
    BY <1>1 DEF KeysFor
  <1>5. <<f, 0>> \in Keys /\ FileOf(<<f, 0>>) = f
    BY <1>3 DEF Keys, FileOf
  <1>. QED
    BY <1>1, <1>2, <1>4, <1>5, ObservedFacts

LEMMA ClaimsDisjoint ==
    ASSUME NEW b, BriefOK(b), NEW prefer, NEW s, NEW t, s # t
    PROVE  Claim(b, prefer, s) \cap Claim(b, prefer, t) = {}
  <1>1. Owns(b, prefer, s) \cap Owns(b, prefer, t) = {}
    BY DEF Owns
  <1>. QED
    BY <1>1, ClaimFacts

\* A plan assigns every session present once.
LEMMA PlanFacts ==
    ASSUME NEW b, BriefOK(b), NEW d
    PROVE  /\ Len(PlanOf(b, d)) \in Nat /\ DOMAIN PlanOf(b, d) = 1 .. Len(PlanOf(b, d))
           /\ Present(b) # {} => 1 \in 1 .. Len(PlanOf(b, d))
           /\ \A i \in 1 .. Len(PlanOf(b, d)) :
                /\ PlanOf(b, d)[i] = Assignment(b, d, PlanOf(b, d)[i].session)
                /\ PlanOf(b, d)[i].session \in Present(b)
           /\ \A i, j \in 1 .. Len(PlanOf(b, d)) :
                PlanOf(b, d)[i].session = PlanOf(b, d)[j].session => i = j
  <1>. DEFINE I == {i \in DOMAIN Agents : Agents[i] \in Present(b)}
              order == Subsequence(Agents, I)
              p == PlanOf(b, d)
  <1>1. Agents \in Seq(AgentIds) /\ I \in SUBSET (1 .. Len(Agents)) /\ Distinct(Agents)
    BY AgentsAssumption, AgentFacts DEF AgentIds, Distinct
  <1>2. /\ order \in Seq(AgentIds)
        /\ I # {} => order # <<>>
        /\ \A k \in 1 .. Len(order) : \E i \in I : order[k] = Agents[i]
        /\ Distinct(order)
    BY <1>1, SubsequenceFacts
  <1>3. \A i \in I : Agents[i] \in Present(b)
    OBVIOUS
  <1>4. Present(b) # {} => I # {}
    BY AgentFacts DEF BriefOK, IsBrief
  <1>5. p = [i \in DOMAIN order |-> Assignment(b, d, order[i])]
    BY DEF PlanOf
  <1>. HIDE DEF p, order, I
  <1>6. DOMAIN order = 1 .. Len(order) /\ Len(order) \in Nat
    BY <1>2
  <1>7. Len(p) = Len(order) /\ DOMAIN p = 1 .. Len(order)
    BY <1>5, <1>6
  <1>8. \A i \in 1 .. Len(order) : p[i] = Assignment(b, d, order[i])
    BY <1>5, <1>6
  <1>9. \A s : Assignment(b, d, s).session = s
    BY DEF Assignment
  <1>10. \A i \in 1 .. Len(order) : p[i].session = order[i] /\ order[i] \in Present(b)
    BY <1>2, <1>3, <1>8, <1>9
  <1>11. Present(b) # {} => 1 \in 1 .. Len(p)
    BY <1>2, <1>4, <1>6, <1>7
  <1>. QED
    BY <1>2, <1>6, <1>7, <1>8, <1>10, <1>11 DEF p, Distinct

LEMMA AssignmentFacts ==
    ASSUME NEW b, BriefOK(b), NEW d \in Drafts \cup {NoDraft}, NEW s \in Present(b)
    PROVE  /\ Assignment(b, d, s).session = s
           /\ Assignment(b, d, s).owns = Owns(b, d.prefer, s)
           /\ Assignment(b, d, s).claim = Claim(b, d.prefer, s)
           /\ Assignment(b, d, s).task \in Tasks
           /\ Assignment(b, d, s).owns \in SUBSET Files
           /\ Assignment(b, d, s).syms \in SUBSET Keys
           /\ Assignment(b, d, s).owns \subseteq Touched(b.info[s])
  <1>. DEFINE a == Assignment(b, d, s)
              owns == Owns(b, d.prefer, s)
  <1>1. /\ a.session = s /\ a.owns = owns /\ a.claim = Claim(b, d.prefer, s)
        /\ a.task = Task(b, d.text, owns, s)
        /\ a.syms = {k \in Observed(b) : FileOf(k) \in owns}
    BY DEF Assignment
  <1>. HIDE DEF a
  <1>2. owns \in SUBSET Files
    BY DEF Owns
  <1>3. owns \subseteq Touched(b.info[s])
    <2>1. ASSUME NEW f \in owns
          PROVE  s \in Interested(b, f)
      BY <2>1, OwnerIsInterested DEF Owns
    <2>. QED
      BY <2>1 DEF Interested
  <1>4. a.task \in Tasks
    <2>1. b.info[s].intent.task \in Tasks
      BY DEF BriefOK, IsBrief, Infos, Intents
    <2>2. d.text \in Tasks
      BY DEF Tasks, NoDraft
    <2>. HIDE DEF owns
    <2>3. <<"files", b.info[s].writes # {}, owns>> \in Tasks /\ <<"waiting">> \in Tasks
      <3>1. \A w \in BOOLEAN, o \in SUBSET Files : <<"files", w, o>> \in Tasks
        BY DEF Tasks
      <3>2. (b.info[s].writes # {}) \in BOOLEAN
        OBVIOUS
      <3>3. <<"waiting">> \in Tasks
        BY DEF Tasks
      <3>. QED
        BY <1>2, <3>1, <3>2, <3>3
    <2>. QED
      BY <1>1, <2>1, <2>2, <2>3 DEF Task
  <1>5. a.syms \in SUBSET Keys
    BY <1>1, ObservedFacts
  <1>. QED
    BY <1>1, <1>2, <1>3, <1>4, <1>5 DEF a
-----------------------------------------------------------------------------
(***************************************************************************)
(* Types.                                                                  *)
(***************************************************************************)
Carrying == step.at \in {"intent", "grant", "briefing"}

StepOK ==
    \/ step = Idle
    \/ /\ step.at = "composing"
       /\ BriefOK(step.brief) /\ Present(step.brief) # {}
    \/ /\ Carrying
       /\ DOMAIN step = {"at", "brief", "plan", "i"}
       /\ BriefOK(step.brief)
       /\ \E d \in Drafts \cup {NoDraft} : step.plan = PlanOf(step.brief, d)
       /\ step.i \in 1 .. Len(step.plan)

Types ==
    /\ sess \in [AgentIds -> Infos]
    /\ leases \in Seq(Leases)
    /\ debating \in BOOLEAN /\ timer \in BOOLEAN /\ cooling \in BOOLEAN /\ stale \in BOOLEAN
    /\ queued \in Nat
    /\ late \subseteq Tags /\ overruled \subseteq Tags
    /\ StepOK

LEMMA JoinedFacts ==
    /\ Joined \in Infos /\ [Joined EXCEPT !.live = FALSE] \in Infos
    /\ \A f \in Files, i \in Infos : WithRead(i, f) \in Infos
  <1>1. SymbolKeys \subseteq Keys
    BY DEF Keys
  <1>2. NoTask \in Tasks
    BY DEF Tasks
  <1>. HIDE DEF Tasks, Keys
  <1>3. Untold \in Intents
    BY <1>2 DEF Untold, Intents
  <1>. HIDE DEF Untold
  <1>4. Joined \in Infos /\ [Joined EXCEPT !.live = FALSE] \in Infos
    BY <1>3 DEF Joined, Infos
  <1>5. ASSUME NEW f \in Files, NEW i \in Infos
        PROVE  WithRead(i, f) \in Infos
    <2>. DEFINE rs == i.reads \cup {f}
                ks == i.syms \cup {k \in SymbolKeys : FileOf(k) = f}
    <2>1. rs \in SUBSET Files /\ ks \in SUBSET Keys
      BY <1>1 DEF Infos
    <2>2. WithRead(i, f) = [i EXCEPT !.reads = rs, !.syms = ks]
      BY DEF WithRead
    <2>. HIDE DEF rs, ks
    <2>3. [i EXCEPT !.reads = rs, !.syms = ks] \in Infos
      BY <2>1 DEF Infos
    <2>. QED
      BY <2>2, <2>3
  <1>. QED
    BY <1>4, <1>5

LEMMA TagFacts ==
    /\ \A s \in AgentIds : <<"declared", s>> \in Tags /\ <<"ended", s>> \in Tags
    /\ \A k \in Keys : <<"granted", k>> \in Tags
  BY DEF Tags

\* Leases that are left when some are taken out.
LEMMA FewerLeases ==
    ASSUME NEW ls \in Seq(Leases), NEW ls2 \in Seq(Leases),
           \A i \in 1 .. Len(ls2) : \E j \in 1 .. Len(ls) : ls2[i] = ls[j]
    PROVE  \A k : LeasesOn(ls2, k) # {} => LeasesOn(ls, k) # {}
  BY DEF LeasesOn

LEMMA SomeLeases ==
    ASSUME NEW ls \in Seq(Leases), NEW I \in SUBSET (1 .. Len(ls)), NEW m, m = Subsequence(ls, I)
    PROVE  /\ m \in Seq(Leases)
           /\ \A i \in 1 .. Len(m) : \E j \in 1 .. Len(ls) : m[i] = ls[j]
  <1>1. \A k \in 1 .. Len(m) : \E i \in I : m[k] = ls[i]
    BY SubsequenceFacts
  <1>2. m \in Seq(Leases)
    BY SubsequenceFacts
  <1>. QED
    BY <1>1, <1>2

LEMMA FreesLeases ==
    ASSUME NEW ls \in Seq(Leases), NEW n \in DOMAIN ls
    PROVE  /\ RemoveAt(ls, n) \in Seq(Leases)
           /\ \A i \in 1 .. Len(RemoveAt(ls, n)) : \E j \in 1 .. Len(ls) : RemoveAt(ls, n)[i] = ls[j]
  <1>. DEFINE p == SubSeq(ls, 1, n - 1)
              q == SubSeq(ls, n + 1, Len(ls))
  <1>1. n \in 1 .. Len(ls) /\ Len(ls) \in Nat
    OBVIOUS
  <1>2. /\ p \in Seq(Leases) /\ Len(p) = n - 1
        /\ \A i \in 1 .. n - 1 : p[i] = ls[i]
    BY <1>1, SubSeqProperties
  <1>3. /\ q \in Seq(Leases) /\ Len(q) = Len(ls) - n
        /\ \A i \in 1 .. Len(ls) - n : q[i] = ls[n + i]
    BY <1>1, SubSeqProperties
  <1>4. RemoveAt(ls, n) = p \o q
    BY DEF RemoveAt
  <1>. HIDE DEF p, q
  <1>5. /\ p \o q \in Seq(Leases) /\ Len(p \o q) = Len(p) + Len(q)
        /\ \A i \in 1 .. Len(p) + Len(q) :
              (p \o q)[i] = IF i <= Len(p) THEN p[i] ELSE q[i - Len(p)]
    BY <1>2, <1>3, ConcatProperties
  <1>6. ASSUME NEW i \in 1 .. Len(p \o q)
        PROVE  \E j \in 1 .. Len(ls) : (p \o q)[i] = ls[j]
    <2>0. i \in 1 .. Len(p) + Len(q) /\ Len(p) = n - 1 /\ Len(q) = Len(ls) - n
      BY <1>2, <1>3, <1>5, <1>6
    <2>1. CASE i <= n - 1
      <3>1. i \in 1 .. n - 1 /\ i \in 1 .. Len(ls)
        BY <1>1, <2>0, <2>1
      <3>2. (p \o q)[i] = p[i]
        BY <1>5, <2>0, <2>1
      <3>. QED
        BY <1>2, <3>1, <3>2
    <2>2. CASE i > n - 1
      <3>0. /\ i - (n - 1) \in 1 .. Len(ls) - n
            /\ ~(i <= Len(p)) /\ i - Len(p) = i - (n - 1)
        BY SMTT(30), <1>1, <2>0, <2>2
      <3>3. (p \o q)[i] = q[i - Len(p)]
        BY <1>5, <2>0, <3>0
      <3>1. i - (n - 1) \in 1 .. Len(ls) - n /\ (p \o q)[i] = q[i - (n - 1)]
        BY <3>0, <3>3
      <3>2. n + (i - (n - 1)) \in 1 .. Len(ls)
        BY <1>1, <3>1
      <3>. QED
        BY <1>3, <3>1, <3>2
    <2>. QED
      BY <1>1, <1>6, <2>1, <2>2
  <1>. QED
    BY <1>4, <1>5, <1>6

\* What the session of a position gets.
LEMMA MineFacts ==
    ASSUME StepOK, Carrying
    PROVE  /\ Mine = step.plan[step.i] /\ Mine.session \in Present(step.brief)
           /\ Mine.session \in AgentIds /\ Mine.task \in Tasks
           /\ Mine.owns \in SUBSET Files /\ Mine.syms \in SUBSET Keys
           /\ Mine.claim \in SUBSET Keys
           /\ Len(step.plan) \in Nat /\ step.i \in 1 .. Len(step.plan)
  <1>1. /\ BriefOK(step.brief) /\ step.i \in 1 .. Len(step.plan)
        /\ \E d \in Drafts \cup {NoDraft} : step.plan = PlanOf(step.brief, d)
    BY DEF StepOK, Carrying, Idle
  <1>2. PICK d \in Drafts \cup {NoDraft} : step.plan = PlanOf(step.brief, d)
    BY <1>1
  <1>3. /\ Mine = Assignment(step.brief, d, Mine.session)
        /\ Mine.session \in Present(step.brief)
        /\ Len(step.plan) \in Nat
    BY <1>1, <1>2, PlanFacts DEF Mine
  <1>4. /\ Mine.task \in Tasks /\ Mine.owns \in SUBSET Files /\ Mine.syms \in SUBSET Keys
        /\ Mine.claim = Claim(step.brief, d.prefer, Mine.session)
    <2>. DEFINE s == Mine.session
                a == Assignment(step.brief, d, s)
    <2>1. Mine = a /\ s \in Present(step.brief)
      BY <1>3
    <2>. HIDE DEF s
    <2>2. /\ a.task \in Tasks /\ a.owns \in SUBSET Files /\ a.syms \in SUBSET Keys
          /\ a.claim = Claim(step.brief, d.prefer, s)
      BY <1>1, <2>1, AssignmentFacts
    <2>. HIDE DEF a
    <2>. QED
      BY <2>1, <2>2 DEF s
  <1>5. Mine.claim \in SUBSET Keys
    BY <1>1, <1>4, ClaimFacts
  <1>. QED
    BY <1>1, <1>3, <1>4, <1>5 DEF Mine, BriefOK, IsBrief

LEMMA InitTypes ==
    ASSUME PlannerInit
    PROVE  Types
  <1>1. sess \in [AgentIds -> Infos]
    <2>1. {[Joined EXCEPT !.live = FALSE], Joined} \cup {WithRead(Joined, f) : f \in Files} \subseteq Infos
      BY JoinedFacts
    <2>. QED
      BY <2>1 DEF PlannerInit
  <1>2. leases \in Seq(Leases)
    BY DEF PlannerInit
  <1>. QED
    BY <1>1, <1>2 DEF PlannerInit, Types, StepOK

\* What happens in the room.
Room(s) ==
    \/ Starts(s) \/ Ends(s)
    \/ \E f \in Files : Reads(s, f) \/ Writes(s, f) \/ Declares(s, {f})
    \/ \E k \in Keys : Requests(s, k)

LEMMA RoomTypes ==
    ASSUME Types, NEW s \in AgentIds, Room(s)
    PROVE  Types'
  <1>1. /\ sess \in [AgentIds -> Infos] /\ sess[s] \in Infos
        /\ leases \in Seq(Leases)
        /\ late \subseteq Tags
    BY DEF Types
  <1>2. UNCHANGED <<queued, step, current, cooling, overruled>>
    BY DEF Room, Starts, Ends, Reads, Writes, Declares, Requests, Outside, PlannerRests
  <1>3. StepOK'
    BY <1>2 DEF Types, StepOK, Carrying
  <1>4. timer' \in BOOLEAN /\ stale' \in BOOLEAN /\ debating' = debating
    BY DEF Room, Starts, Ends, Reads, Writes, Declares, Requests, Triggers, Silent, Types
  <1>5. sess' \in [AgentIds -> Infos]
    <2>1. CASE Starts(s)
      BY <1>1, <2>1, JoinedFacts DEF Starts
    <2>2. CASE Ends(s)
      <3>1. [sess[s] EXCEPT !.live = FALSE] \in Infos
        BY <1>1 DEF Infos
      <3>2. sess' = [sess EXCEPT ![s] = [sess[s] EXCEPT !.live = FALSE]]
        BY <2>2 DEF Ends
      <3>. QED
        BY <1>1, <3>1, <3>2
    <2>3. ASSUME NEW f \in Files, Reads(s, f)
          PROVE  sess' \in [AgentIds -> Infos]
      <3>1. WithRead(sess[s], f) \in Infos
        BY <1>1, JoinedFacts
      <3>2. sess' = [sess EXCEPT ![s] = WithRead(sess[s], f)]
        BY <2>3 DEF Reads
      <3>. QED
        BY <1>1, <3>1, <3>2
    <2>4. ASSUME NEW f \in Files, Writes(s, f)
          PROVE  sess' \in [AgentIds -> Infos]
      <3>. DEFINE ws == sess[s].writes \cup {f}
      <3>1. ws \in SUBSET Files
        BY <1>1 DEF Infos
      <3>2. sess' = [sess EXCEPT ![s] = [sess[s] EXCEPT !.writes = ws]]
        BY <2>4 DEF Writes
      <3>. HIDE DEF ws
      <3>3. [sess[s] EXCEPT !.writes = ws] \in Infos
        BY <1>1, <3>1 DEF Infos
      <3>. QED
        BY <1>1, <3>2, <3>3
    <2>5. ASSUME NEW f \in Files, Declares(s, {f})
          PROVE  sess' \in [AgentIds -> Infos]
      <3>. DEFINE i == [task |-> OwnTask, files |-> {f}, syms |-> {}]
      <3>1. OwnTask \in Tasks
        BY DEF Tasks
      <3>. HIDE DEF Tasks, Keys
      <3>2. i \in Intents
        BY <3>1 DEF Intents
      <3>3. sess' = [sess EXCEPT ![s] = [sess[s] EXCEPT !.intent = i]]
        BY <2>5 DEF Declares
      <3>. HIDE DEF i
      <3>4. [sess[s] EXCEPT !.intent = i] \in Infos
        BY <1>1, <3>2 DEF Infos
      <3>. QED
        BY <1>1, <3>3, <3>4
    <2>6. CASE \E k \in Keys : Requests(s, k)
      BY <1>1, <2>6 DEF Requests
    <2>. QED
      BY <2>1, <2>2, <2>3, <2>4, <2>5, <2>6 DEF Room
  <1>6. leases' \in Seq(Leases)
    <2>1. CASE Ends(s)
      <3>. DEFINE I == {i \in DOMAIN leases : leases[i].session # s}
      <3>1. leases' = Subsequence(leases, I) /\ I \in SUBSET (1 .. Len(leases))
        BY <1>1, <2>1 DEF Ends
      <3>. HIDE DEF I
      <3>. QED
        BY <1>1, <3>1, SomeLeases
    <2>2. ASSUME NEW k \in Keys, Requests(s, k)
          PROVE  leases' \in Seq(Leases)
      <3>1. [session |-> s, keys |-> {k}] \in Leases
        BY DEF Leases
      <3>. QED
        BY <1>1, <2>2, <3>1, AppendProperties DEF Requests
    <2>3. CASE Starts(s) \/ \E f \in Files : Reads(s, f) \/ Writes(s, f) \/ Declares(s, {f})
      BY <1>1, <2>3 DEF Starts, Reads, Writes, Declares
    <2>. QED
      BY <2>1, <2>2, <2>3 DEF Room
  <1>7. late' \subseteq Tags
    <2>1. \/ late' = late
          \/ late' = late \cup {<<"ended", s>>}
          \/ late' = late \cup {<<"declared", s>>}
          \/ \E k \in Keys : late' = late \cup {<<"granted", k>>}
      BY DEF Room, Starts, Ends, Reads, Writes, Declares, Requests
    <2>. HIDE DEF Tags, Keys
    <2>2. <<"ended", s>> \in Tags /\ <<"declared", s>> \in Tags
      BY TagFacts
    <2>3. ASSUME NEW k \in Keys, late' = late \cup {<<"granted", k>>}
          PROVE  late' \subseteq Tags
      <3>1. <<"granted", k>> \in Tags
        BY TagFacts
      <3>. QED
        BY <1>1, <2>3, <3>1
    <2>. QED
      BY <1>1, <2>1, <2>2, <2>3
  <1>. QED
    BY <1>2, <1>3, <1>4, <1>5, <1>6, <1>7 DEF Types

LEMMA FreesTypes ==
    ASSUME Types, NEW n \in DOMAIN leases, Frees(n)
    PROVE  Types'
  <1>1. leases \in Seq(Leases) /\ leases' = RemoveAt(leases, n)
    BY DEF Types, Frees
  <1>2. leases' \in Seq(Leases)
    BY <1>1, FreesLeases
  <1>. QED
    BY <1>2 DEF Types, Frees, Outside, PlannerRests, Silent, StepOK, Carrying

\* What moves only the timer, the queue, the debate or the clock.
LEMMA QuietTypes ==
    ASSUME Types, DebateTurns \/ TimerFires \/ Replans \/ Cools \/ UNCHANGED plannerVars
    PROVE  Types'
  <1>1. UNCHANGED <<sess, leases, step, late, overruled>>
    BY DEF DebateTurns, TimerFires, Replans, Cools, Outside, PlannerRests, RoomRests, plannerVars
  <1>2. StepOK'
    BY <1>1 DEF Types, StepOK, Carrying
  <1>3. /\ debating' \in BOOLEAN /\ timer' \in BOOLEAN /\ cooling' \in BOOLEAN
        /\ stale' \in BOOLEAN /\ queued' \in Nat
    <2>1. CASE DebateTurns
      BY <2>1 DEF Types, DebateTurns, Outside, PlannerRests, Silent
    <2>2. CASE TimerFires
      <3>1. /\ debating' = debating /\ timer' = FALSE /\ cooling' = cooling /\ stale' = stale
            /\ queued' = queued + 1
        BY <2>2 DEF TimerFires, RoomRests
      <3>2. /\ debating \in BOOLEAN /\ cooling \in BOOLEAN /\ stale \in BOOLEAN /\ queued \in Nat
        BY DEF Types
      <3>3. queued' \in Nat
        BY <3>1, <3>2
      <3>4. /\ debating' \in BOOLEAN /\ timer' \in BOOLEAN /\ cooling' \in BOOLEAN
            /\ stale' \in BOOLEAN
        BY <3>1, <3>2, Zenon
      <3>. QED
        BY <3>3, <3>4
    <2>4. CASE Replans
      <3>1. /\ debating' = debating /\ timer' = timer /\ cooling' = FALSE /\ stale' = stale
            /\ queued' = queued + 1
        BY <2>4 DEF Replans, RoomRests
      <3>2. /\ debating \in BOOLEAN /\ timer \in BOOLEAN /\ stale \in BOOLEAN /\ queued \in Nat
        BY DEF Types
      <3>3. queued' \in Nat
        BY <3>1, <3>2
      <3>4. /\ debating' \in BOOLEAN /\ timer' \in BOOLEAN /\ cooling' \in BOOLEAN
            /\ stale' \in BOOLEAN
        BY <3>1, <3>2, Zenon
      <3>. QED
        BY <3>3, <3>4
    <2>5. CASE Cools
      BY <2>5 DEF Types, Cools, RoomRests
    <2>3. CASE UNCHANGED plannerVars
      BY <2>3 DEF Types, plannerVars
    <2>. QED
      BY <2>1, <2>2, <2>3, <2>4, <2>5
  <1>. QED
    BY <1>1, <1>2, <1>3 DEF Types

LEMMA BeginsTypes ==
    ASSUME Types, RunBegins
    PROVE  Types'
  <1>. DEFINE b == BriefOf(sess, leases)
  <1>1. BriefOK(b)
    BY BriefFacts DEF Types
  <1>2. \/ step' = Idle
        \/ step' = [at |-> "composing", brief |-> b] /\ ~(Cardinality(Present(b)) < 2)
    BY DEF RunBegins
  <1>. HIDE DEF b
  <1>3. Present(b) = {} => Cardinality(Present(b)) < 2
    BY FS_EmptySet
  <1>4. StepOK'
    BY <1>1, <1>2, <1>3 DEF StepOK
  <1>5. queued' \in Nat
    BY DEF Types, RunBegins
  <1>. QED
    BY <1>4, <1>5 DEF Types, RunBegins, RoomRests

LEMMA ComposesTypes ==
    ASSUME Types, Composes
    PROVE  Types'
  <1>. DEFINE b == step.brief
  <1>1. BriefOK(b) /\ Present(b) # {}
    BY DEF Types, Composes, StepOK, Carrying, Idle
  <1>2. PICK d \in Drafts \cup {NoDraft} :
            \/ step' = Idle /\ timer' \in BOOLEAN /\ cooling' \in BOOLEAN
            \/ /\ step' = [at |-> "intent", brief |-> b, plan |-> PlanOf(b, d), i |-> 1]
               /\ timer' \in BOOLEAN /\ cooling' \in BOOLEAN
    BY DEF Types, Composes
  <1>. HIDE DEF b
  <1>3. 1 \in 1 .. Len(PlanOf(b, d))
    BY <1>1, PlanFacts
  <1>4. StepOK'
    BY <1>1, <1>2, <1>3 DEF StepOK, Carrying
  <1>. QED
    BY <1>2, <1>4 DEF Types, Composes, RoomRests

\* A step through the plan that is being carried out.
LEMMA CarriedOn ==
    ASSUME StepOK, Carrying
    PROVE  /\ DOMAIN step = {"at", "brief", "plan", "i"}
           /\ \A where : /\ DOMAIN StepAt(where) = {"at", "brief", "plan", "i"} /\ StepAt(where).at = where
                         /\ StepAt(where).brief = step.brief /\ StepAt(where).plan = step.plan
                         /\ StepAt(where).i = step.i
           /\ DOMAIN Advance = {"at", "brief", "plan", "i"}
           /\ Advance.brief = step.brief /\ Advance.plan = step.plan
           /\ step.i < Len(step.plan) => Advance.at = "intent" /\ Advance.i = step.i + 1
           /\ ~(step.i < Len(step.plan)) => Advance.at = "briefing" /\ Advance.i = step.i
  <1>1. DOMAIN step = {"at", "brief", "plan", "i"}
    BY DEF StepOK, Carrying, Idle
  <1>2. ASSUME NEW where
        PROVE  /\ DOMAIN StepAt(where) = {"at", "brief", "plan", "i"} /\ StepAt(where).at = where
               /\ StepAt(where).brief = step.brief /\ StepAt(where).plan = step.plan
               /\ StepAt(where).i = step.i
    BY <1>1 DEF StepAt
  <1>3. CASE step.i < Len(step.plan)
    <2>. DEFINE s == StepAt("intent")
    <2>1. /\ DOMAIN s = {"at", "brief", "plan", "i"} /\ s.at = "intent"
          /\ s.brief = step.brief /\ s.plan = step.plan /\ s.i = step.i
      BY <1>2
    <2>2. Advance = [s EXCEPT !.i = s.i + 1]
      BY <1>3 DEF Advance
    <2>. HIDE DEF s
    <2>. QED
      BY <1>1, <1>2, <1>3, <2>1, <2>2
  <1>4. CASE ~(step.i < Len(step.plan))
    BY <1>1, <1>2, <1>4 DEF Advance
  <1>. QED
    BY <1>3, <1>4

LEMMA CarryTypes ==
    ASSUME Types, Intends \/ Grants \/ Briefs \/ Fails
    PROVE  Types'
  <1>1. /\ Carrying /\ StepOK /\ sess \in [AgentIds -> Infos] /\ leases \in Seq(Leases)
        /\ late \subseteq Tags /\ overruled \subseteq Tags
    BY DEF Types, Carrying, Intends, Grants, Briefs, Fails
  <1>2. /\ BriefOK(step.brief) /\ step.i \in 1 .. Len(step.plan)
        /\ \E d \in Drafts \cup {NoDraft} : step.plan = PlanOf(step.brief, d)
    BY <1>1 DEF StepOK, Carrying, Idle
  <1>3. StepOK'
    <2>1. step' \in {Idle, StepAt("grant"), Advance}
      BY DEF Intends, Grants, Briefs, Fails
    <2>2. step.i < Len(step.plan) => step.i + 1 \in 1 .. Len(step.plan)
      BY <1>1, MineFacts
    <2>3. CASE step' = Idle
      BY <2>3 DEF StepOK
    <2>4. CASE step' = StepAt("grant")
      BY <1>1, <1>2, <2>4, CarriedOn DEF StepOK, Carrying
    <2>5. CASE step' = Advance
      <3>1. /\ step'.at \in {"intent", "briefing"} /\ DOMAIN step' = {"at", "brief", "plan", "i"}
            /\ step'.brief = step.brief /\ step'.plan = step.plan
            /\ step'.i \in 1 .. Len(step.plan)
        BY <1>1, <1>2, <2>2, <2>5, CarriedOn
      <3>. QED
        BY <1>2, <3>1 DEF StepOK, Carrying
    <2>. QED
      BY <2>1, <2>3, <2>4, <2>5
  <1>4. sess' \in [AgentIds -> Infos]
    <2>1. CASE sess' = sess
      BY <1>1, <2>1
    <2>. DEFINE s == Mine.session
                i == [task |-> Mine.task, files |-> Mine.owns, syms |-> Mine.syms]
    <2>2. CASE sess' = [sess EXCEPT ![s] = [sess[s] EXCEPT !.intent = i]]
      <3>1. i \in Intents /\ s \in AgentIds
        BY <1>1, MineFacts DEF Intents
      <3>. HIDE DEF i, s
      <3>2. [sess[s] EXCEPT !.intent = i] \in Infos
        BY <1>1, <3>1 DEF Infos
      <3>. QED
        BY <1>1, <2>2, <3>1, <3>2
    <2>3. sess' = sess \/ sess' = [sess EXCEPT ![s] = [sess[s] EXCEPT !.intent = i]]
      BY DEF Intends, Grants, Briefs, Fails, RoomRests
    <2>. QED
      BY <2>1, <2>2, <2>3
  <1>5. leases' \in Seq(Leases)
    <2>1. [session |-> Mine.session, keys |-> Wanted] \in Leases
      BY <1>1, MineFacts DEF Leases, Wanted
    <2>2. leases' = leases \/ leases' = Append(leases, [session |-> Mine.session, keys |-> Wanted])
      BY DEF Intends, Grants, Briefs, Fails, RoomRests
    <2>. QED
      BY <1>1, <2>1, <2>2, AppendProperties
  <1>6. overruled' \subseteq Tags
    <2>1. Wanted \subseteq Keys /\ Mine.session \in AgentIds
      BY <1>1, MineFacts DEF Wanted
    <2>2. Taken(Wanted) \subseteq Tags /\ EndedAs(Mine.session) \subseteq Tags /\ DeclaredBy(Mine.session) \subseteq Tags
      BY <2>1, TagFacts DEF Taken, EndedAs, DeclaredBy
    <2>3. overruled' \subseteq overruled \cup Taken(Wanted) \cup EndedAs(Mine.session) \cup DeclaredBy(Mine.session)
      BY DEF Intends, Grants, Briefs, Fails
    <2>. QED
      BY <1>1, <2>2, <2>3
  <1>7. /\ debating' \in BOOLEAN /\ timer' \in BOOLEAN /\ cooling' \in BOOLEAN
        /\ stale' \in BOOLEAN /\ queued' \in Nat /\ late' = late
    BY DEF Types, Intends, Grants, Briefs, Fails, RoomRests
  <1>. QED
    BY <1>1, <1>3, <1>4, <1>5, <1>6, <1>7 DEF Types

LEMMA StepTypes ==
    ASSUME Types, [PlannerNext]_plannerVars
    PROVE  Types'
  <1>1. ASSUME NEW s \in AgentIds,
               \/ Starts(s) \/ Ends(s)
               \/ \E f \in Files : Reads(s, f) \/ Writes(s, f) \/ Declares(s, {f})
               \/ \E k \in Keys : Requests(s, k)
        PROVE  Types'
    BY <1>1, RoomTypes DEF Room
  <1>. QED
    BY <1>1, FreesTypes, QuietTypes, BeginsTypes, ComposesTypes, CarryTypes DEF PlannerNext, Working
-----------------------------------------------------------------------------
(***************************************************************************)
(* News: what the room knows and the brief does not.                       *)
(***************************************************************************)
Planning == step.at \in {"composing", "intent", "grant"}

\* Whom the plan being carried out has yet to tell, and the keys it has given out.
Coming ==
    IF step.at = "composing" THEN Present(step.brief)
    ELSE {step.plan[j].session :
             j \in {k \in step.i .. Len(step.plan) : step.at = "intent" \/ k > step.i}}

Given ==
    IF step.at = "composing" THEN {} ELSE UNION {step.plan[j].claim : j \in 1 .. step.i - 1}

News ==
    /\ overruled = {}
    /\ Planning =>
        /\ \A s \in Present(step.brief) : ~sess[s].live => <<"ended", s>> \in late
        /\ \A s \in Coming :
              sess[s].intent.task = OwnTask =>
                 step.brief.info[s].intent.task = OwnTask \/ <<"declared", s>> \in late
        /\ \A k \in Keys \ DOMAIN step.brief.held :
              LeasesOn(leases, k) # {} => <<"granted", k>> \in late \/ k \in Given

LEMMA ComingFacts ==
    ASSUME Types, step.at \in {"intent", "grant"}
    PROVE  /\ Coming \subseteq Present(step.brief)
           /\ \A s : s \in Coming <=>
                 \E k \in step.i .. Len(step.plan) :
                    (step.at = "intent" \/ k > step.i) /\ step.plan[k].session = s
           /\ \A x : x \in Given <=> \E k \in 1 .. step.i - 1 : x \in step.plan[k].claim
  <1>1. /\ BriefOK(step.brief) /\ step.i \in 1 .. Len(step.plan)
        /\ \E d \in Drafts \cup {NoDraft} : step.plan = PlanOf(step.brief, d)
    BY DEF Types, StepOK, Carrying, Idle
  <1>2. \A s : s \in Coming <=>
           \E k \in step.i .. Len(step.plan) :
              (step.at = "intent" \/ k > step.i) /\ step.plan[k].session = s
    BY DEF Coming
  <1>3. Len(step.plan) \in Nat
        /\ \A k \in 1 .. Len(step.plan) : step.plan[k].session \in Present(step.brief)
    BY <1>1, PlanFacts
  <1>4. \A k \in step.i .. Len(step.plan) : k \in 1 .. Len(step.plan)
    BY <1>1, <1>3
  <1>5. \A x : x \in Given <=> \E k \in 1 .. step.i - 1 : x \in step.plan[k].claim
    BY DEF Given
  <1>. QED
    BY <1>2, <1>3, <1>4, <1>5

\* A step of the room that leaves its news behind.
LEMMA RoomNews ==
    ASSUME Types, News, step' = step, overruled' = overruled, late \subseteq late',
           \A s \in AgentIds :
              /\ ~sess'[s].live => ~sess[s].live \/ <<"ended", s>> \in late'
              /\ sess'[s].intent.task = OwnTask =>
                    sess[s].intent.task = OwnTask \/ <<"declared", s>> \in late',
           \A k \in Keys :
              LeasesOn(leases', k) # {} => LeasesOn(leases, k) # {} \/ <<"granted", k>> \in late'
    PROVE  News'
  <1>1. Coming' = Coming /\ Given' = Given /\ Planning' = Planning
    BY DEF Coming, Given, Planning
  <1>2. CASE ~Planning
    BY <1>1, <1>2 DEF News
  <1>3. CASE Planning
    <2>1. Present(step.brief) \subseteq AgentIds
      BY <1>3 DEF Types, StepOK, Planning, Carrying, Idle, BriefOK, IsBrief
    <2>2. Coming \subseteq Present(step.brief)
      BY <1>3, ComingFacts DEF Coming, Planning
    <2>3. \A s \in Present(step.brief) : ~sess'[s].live => <<"ended", s>> \in late'
      BY <1>3, <2>1 DEF News
    <2>4. \A s \in Coming :
              sess'[s].intent.task = OwnTask =>
                 step.brief.info[s].intent.task = OwnTask \/ <<"declared", s>> \in late'
      BY <1>3, <2>1, <2>2 DEF News
    <2>5. \A k \in Keys \ DOMAIN step.brief.held :
              LeasesOn(leases', k) # {} => <<"granted", k>> \in late' \/ k \in Given
      BY <1>3 DEF News
    <2>. QED
      BY <1>1, <2>3, <2>4, <2>5 DEF News
  <1>. QED
    BY <1>2, <1>3

\* Nothing is being planned any more.
LEMMA NoNews ==
    ASSUME News, overruled' = overruled, ~Planning'
    PROVE  News'
  BY DEF News

LEMMA RoomStepNews ==
    ASSUME Types, News, NEW s \in AgentIds, Room(s)
    PROVE  News'
  <1>1. /\ sess \in [AgentIds -> Infos] /\ leases \in Seq(Leases)
    BY DEF Types
  <1>2. step' = step /\ overruled' = overruled /\ late \subseteq late'
    BY DEF Room, Starts, Ends, Reads, Writes, Declares, Requests, Outside, PlannerRests
  <1>3. CASE Starts(s)
    <2>1. Joined.live = TRUE /\ Joined.intent.task # OwnTask
      BY DEF Joined, Untold, NoTask, OwnTask
    <2>2. \A t \in AgentIds : sess'[t] = IF t = s THEN Joined ELSE sess[t]
      BY <1>1, <1>3 DEF Starts
    <2>3. leases' = leases
      BY <1>3 DEF Starts
    <2>. QED
      BY <1>2, <2>1, <2>2, <2>3, RoomNews
  <1>4. CASE Ends(s)
    <2>1. /\ \A t \in AgentIds \ {s} : sess'[t] = sess[t]
          /\ sess'[s].intent = sess[s].intent
      BY <1>1, <1>4 DEF Ends, Infos
    <2>2. <<"ended", s>> \in late'
      BY <1>4 DEF Ends
    <2>3. \A k : LeasesOn(leases', k) # {} => LeasesOn(leases, k) # {}
      <3>1. /\ leases' \in Seq(Leases)
            /\ \A i \in 1 .. Len(leases') : \E j \in 1 .. Len(leases) : leases'[i] = leases[j]
        <4>. DEFINE I == {i \in DOMAIN leases : leases[i].session # s}
        <4>1. leases' = Subsequence(leases, I)
          BY <1>4 DEF Ends
        <4>2. leases \in Seq(Leases) /\ I \in SUBSET (1 .. Len(leases))
          BY <1>1
        <4>. HIDE DEF I
        <4>. QED
          BY <4>1, <4>2, SomeLeases
      <3>. QED
        BY <1>1, <3>1, FewerLeases
    <2>. QED
      BY <1>2, <2>1, <2>2, <2>3, RoomNews
  <1>5. ASSUME NEW f \in Files, Reads(s, f)
        PROVE  News'
    <2>1. /\ \A t \in AgentIds \ {s} : sess'[t] = sess[t]
          /\ sess'[s] = WithRead(sess[s], f) /\ leases' = leases
      BY <1>1, <1>5 DEF Reads
    <2>2. sess'[s].live = sess[s].live /\ sess'[s].intent = sess[s].intent
      BY <1>1, <2>1 DEF WithRead, Infos
    <2>. QED
      BY <1>2, <2>1, <2>2, RoomNews
  <1>6. ASSUME NEW f \in Files, Writes(s, f)
        PROVE  News'
    <2>1. /\ \A t \in AgentIds \ {s} : sess'[t] = sess[t]
          /\ leases' = leases
      BY <1>1, <1>6 DEF Writes
    <2>2. sess'[s].live = sess[s].live /\ sess'[s].intent = sess[s].intent
      BY <1>1, <1>6 DEF Writes, Infos
    <2>. QED
      BY <1>2, <2>1, <2>2, RoomNews
  <1>7. ASSUME NEW f \in Files, Declares(s, {f})
        PROVE  News'
    <2>1. /\ \A t \in AgentIds \ {s} : sess'[t] = sess[t]
          /\ leases' = leases /\ <<"declared", s>> \in late'
      BY <1>1, <1>7 DEF Declares
    <2>2. sess'[s].live = sess[s].live
      BY <1>1, <1>7 DEF Declares, Infos
    <2>. QED
      BY <1>2, <2>1, <2>2, RoomNews
  <1>8. ASSUME NEW key \in Keys, Requests(s, key)
        PROVE  News'
    <2>. DEFINE l == [session |-> s, keys |-> {key}]
    <2>1. sess' = sess /\ leases' = Append(leases, l) /\ <<"granted", key>> \in late'
      BY <1>8 DEF Requests
    <2>2. l \in Leases /\ l.keys = {key}
      BY DEF Leases
    <2>. HIDE DEF l
    <2>3. /\ Len(leases') = Len(leases) + 1 /\ leases'[Len(leases) + 1] = l
          /\ \A i \in 1 .. Len(leases) : leases'[i] = leases[i]
          /\ leases' \in Seq(Leases) /\ Len(leases) \in Nat
      BY <1>1, <2>1, <2>2, AppendProperties
    <2>4. \A k : LeasesOn(leases', k) # {} => LeasesOn(leases, k) # {} \/ k = key
      <3>1. \A i \in DOMAIN leases' : i \in DOMAIN leases \/ i = Len(leases) + 1
        BY <1>1, <2>3
      <3>. QED
        BY <1>1, <2>2, <2>3, <3>1 DEF LeasesOn
    <2>. QED
      BY <1>2, <2>1, <2>4, RoomNews
  <1>. QED
    BY <1>3, <1>4, <1>5, <1>6, <1>7, <1>8 DEF Room

LEMMA QuietNews ==
    ASSUME Types, News,
           \/ DebateTurns \/ TimerFires \/ Replans \/ Cools \/ UNCHANGED plannerVars
           \/ \E n \in DOMAIN leases : Frees(n)
    PROVE  News'
  <1>1. UNCHANGED <<sess, step, late, overruled>>
    BY DEF DebateTurns, TimerFires, Replans, Cools, Outside, PlannerRests, RoomRests, plannerVars, Frees
  <1>2. leases' = leases \/ \E n \in DOMAIN leases : leases' = RemoveAt(leases, n)
    BY DEF DebateTurns, TimerFires, Replans, Cools, Outside, RoomRests, plannerVars, Frees
  <1>3. \A k : LeasesOn(leases', k) # {} => LeasesOn(leases, k) # {}
    BY <1>2, FreesLeases, FewerLeases DEF Types
  <1>. QED
    BY <1>1, <1>3, RoomNews

LEMMA BeginsNews ==
    ASSUME Types, News, RunBegins
    PROVE  News'
  <1>. DEFINE b == BriefOf(sess, leases)
  <1>1. /\ Present(b) = {t \in AgentIds : sess[t].live}
        /\ \A s \in Present(b) : b.info[s] = sess[s]
        /\ DOMAIN b.held = {k \in Keys : LeasesOn(leases, k) # {}}
    BY BriefFacts DEF Types
  <1>2. step' = Idle \/ step' = [at |-> "composing", brief |-> b]
    BY DEF RunBegins
  <1>3. UNCHANGED <<sess, leases, overruled>>
    BY DEF RunBegins, RoomRests
  <1>. HIDE DEF b
  <1>4. CASE step' = Idle
    BY <1>3, <1>4, NoNews DEF Planning, Idle
  <1>5. CASE step' = [at |-> "composing", brief |-> b]
    <2>1. step'.brief = b /\ Coming' = Present(b)
      BY <1>5 DEF Coming
    <2>. QED
      BY <1>1, <1>3, <2>1 DEF News
  <1>. QED
    BY <1>2, <1>4, <1>5

LEMMA ComposesNews ==
    ASSUME Types, News, Composes
    PROVE  News'
  <1>. DEFINE b == step.brief
  <1>1. UNCHANGED <<sess, leases, overruled, late>> /\ step.at = "composing"
    BY DEF Composes, RoomRests
  <1>2. PICK d \in Drafts \cup {NoDraft} :
            \/ step' = Idle
            \/ step' = [at |-> "intent", brief |-> b, plan |-> PlanOf(b, d), i |-> 1]
    BY DEF Composes
  <1>3. CASE step' = Idle
    BY <1>1, <1>3, NoNews DEF Planning, Idle
  <1>4. CASE step' = [at |-> "intent", brief |-> b, plan |-> PlanOf(b, d), i |-> 1]
    <2>. DEFINE p == PlanOf(b, d)
    <2>1. BriefOK(b)
      BY <1>1 DEF Types, StepOK, Carrying, Idle
    <2>2. step'.brief = b /\ step'.at = "intent" /\ step'.i = 1 /\ step'.plan = p
      BY <1>4
    <2>3. Coming' \subseteq Present(b)
      <3>1. \A j \in 1 .. Len(p) : p[j].session \in Present(b)
        BY <2>1, PlanFacts
      <3>. HIDE DEF b, p
      <3>. QED
        BY <2>2, <3>1 DEF Coming
    <2>4. Coming = Present(b) /\ Given = {} /\ Planning
      BY <1>1 DEF Coming, Given, Planning
    <2>. QED
      BY <1>1, <2>2, <2>3, <2>4 DEF News
  <1>. QED
    BY <1>2, <1>3, <1>4

\* An intent replaces one that the agent had declared only if that was late.
LEMMA IntendsNews ==
    ASSUME Types, News, Intends
    PROVE  News'
  <1>. DEFINE s == Mine.session
              b == step.brief
  <1>1. /\ step.at = "intent" /\ Carrying /\ StepOK /\ Planning /\ step' = StepAt("grant")
        /\ UNCHANGED <<leases, late>> /\ sess \in [AgentIds -> Infos]
    BY DEF Types, Intends, Carrying, Planning
  <1>2. /\ s = step.plan[step.i].session /\ s \in AgentIds /\ s \in Present(b)
        /\ step.i \in 1 .. Len(step.plan) /\ Len(step.plan) \in Nat
    BY <1>1, MineFacts
  <1>3. /\ step'.at = "grant" /\ step'.brief = b /\ step'.plan = step.plan /\ step'.i = step.i
    BY <1>1, CarriedOn
  <1>4. s \in Coming
    BY <1>1, <1>2, ComingFacts
  <1>6. Coming' \subseteq Coming \ {s}
    <2>1. ASSUME NEW t \in Coming'
          PROVE  t \in Coming /\ t # s
      <3>1. PICK k \in step.i .. Len(step.plan) : k > step.i /\ step.plan[k].session = t
        BY <1>3 DEF Coming
      <3>2. t \in Coming
        BY <1>1, <3>1, ComingFacts
      <3>3. k \in 1 .. Len(step.plan) /\ k # step.i
        BY <1>2, <3>1
      <3>4. \A i, j \in 1 .. Len(step.plan) : step.plan[i].session = step.plan[j].session => i = j
        BY <1>1, PlanFacts DEF StepOK, Carrying, Idle
      <3>. QED
        BY <1>2, <3>1, <3>2, <3>3, <3>4
    <2>. QED
      BY <2>1
  <1>7. Given' = Given
    BY <1>1, <1>3 DEF Given
  <1>8. /\ \A t \in AgentIds : sess'[t].live = sess[t].live
        /\ \A t \in AgentIds \ {s} : sess'[t] = sess[t]
    <2>1. sess' = sess \/ \E i : sess' = [sess EXCEPT ![s] = [sess[s] EXCEPT !.intent = i]]
      BY DEF Intends
    <2>2. CASE sess' = sess
      BY <2>2
    <2>3. ASSUME NEW i, sess' = [sess EXCEPT ![s] = [sess[s] EXCEPT !.intent = i]]
          PROVE  /\ \A t \in AgentIds : sess'[t].live = sess[t].live
                 /\ \A t \in AgentIds \ {s} : sess'[t] = sess[t]
      <3>1. [sess[s] EXCEPT !.intent = i].live = sess[s].live
        BY <1>1, <1>2 DEF Infos
      <3>. HIDE DEF s
      <3>2. \A t \in AgentIds : sess'[t] = IF t = s THEN [sess[s] EXCEPT !.intent = i] ELSE sess[t]
        BY <1>1, <2>3
      <3>. QED
        BY <3>1, <3>2
    <2>. QED
      BY <2>1, <2>2, <2>3
  <1>9. overruled' = {}
    <2>1. CASE overruled' = overruled
      BY <2>1 DEF News
    <2>2. CASE Undeclared(b.info[s]) /\ overruled' = overruled \cup (DeclaredBy(s) \ late)
      <3>1. b.info[s].intent.task # OwnTask
        BY <2>2 DEF Undeclared, NoTask, OwnTask
      <3>2. sess[s].intent.task = OwnTask => <<"declared", s>> \in late
        BY <1>1, <1>4, <3>1 DEF News
      <3>3. DeclaredBy(s) \subseteq late
        BY <3>2 DEF DeclaredBy
      <3>. QED
        BY <2>2, <3>3 DEF News
    <2>. QED
      BY <2>1, <2>2 DEF Intends
  <1>10. Present(b) \subseteq AgentIds /\ Coming \subseteq Present(b)
    BY <1>1, ComingFacts DEF Types, StepOK, Carrying, Idle, BriefOK, IsBrief
  <1>. HIDE DEF s, b
  <1>11. \A t \in Present(b) : ~sess'[t].live => <<"ended", t>> \in late'
    BY <1>1, <1>8, <1>10 DEF News, b
  <1>12. \A t \in Coming' :
            sess'[t].intent.task = OwnTask => b.info[t].intent.task = OwnTask \/ <<"declared", t>> \in late'
    BY <1>1, <1>6, <1>8, <1>10 DEF News, b
  <1>13. \A k \in Keys \ DOMAIN b.held :
            LeasesOn(leases', k) # {} => <<"granted", k>> \in late' \/ k \in Given'
    BY <1>1, <1>7 DEF News, b
  <1>. QED
    BY <1>3, <1>9, <1>11, <1>12, <1>13 DEF News

\* What the planner grants is free, unless someone was late, and its session is there.
LEMMA WantedFacts ==
    ASSUME Types, News, step.at = "grant", NEW k \in Wanted
    PROVE  /\ k \in Keys /\ k \notin DOMAIN step.brief.held /\ k \notin Given
           /\ LeasesOn(leases, k) # {} => <<"granted", k>> \in late
  <1>. DEFINE b == step.brief
              p == step.plan
              s == Mine.session
  <1>1. Carrying /\ StepOK /\ Planning
    BY DEF Types, Carrying, Planning
  <1>2. /\ BriefOK(b) /\ step.i \in 1 .. Len(p)
        /\ \E d \in Drafts \cup {NoDraft} : p = PlanOf(b, d)
    BY <1>1 DEF StepOK, Carrying, Idle
  <1>3. PICK d \in Drafts \cup {NoDraft} : p = PlanOf(b, d)
    BY <1>2
  <1>. HIDE DEF b, p
  <1>4. /\ Len(p) \in Nat
        /\ \A j \in 1 .. Len(p) : p[j] = Assignment(b, d, p[j].session) /\ p[j].session \in Present(b)
        /\ \A i, j \in 1 .. Len(p) : p[i].session = p[j].session => i = j
    BY <1>2, <1>3, PlanFacts
  <1>5. \A j \in 1 .. Len(p) : p[j].claim = Claim(b, d.prefer, p[j].session)
    <2>1. ASSUME NEW t
          PROVE  Assignment(b, d, t).claim = Claim(b, d.prefer, t)
      BY DEF Assignment
    <2>. QED
      BY <1>4, <2>1
  <1>6. s = p[step.i].session /\ k \in p[step.i].claim /\ ~(k \in DOMAIN b.held /\ b.held[k] = s)
    BY DEF Wanted, Mine, b, p
  <1>. HIDE DEF s
  <1>7. k \in Claim(b, d.prefer, s)
    BY <1>2, <1>5, <1>6
  <1>8. k \in Keys /\ ~HeldByOther(b, s, k)
    BY <1>2, <1>7, ClaimFacts
  <1>9. k \notin DOMAIN b.held
    BY <1>6, <1>8 DEF HeldByOther
  <1>10. k \notin Given
    <2>1. ASSUME NEW j \in 1 .. step.i - 1, k \in p[j].claim
          PROVE  FALSE
      <3>1. j \in 1 .. Len(p) /\ j # step.i
        BY <1>2, <1>4
      <3>2. p[j].session # s /\ k \in Claim(b, d.prefer, p[j].session)
        BY <1>2, <1>4, <1>5, <1>6, <2>1, <3>1
      <3>. QED
        BY <1>2, <1>7, <3>2, ClaimsDisjoint
    <2>. QED
      BY <2>1, ComingFacts DEF p
  <1>11. LeasesOn(leases, k) # {} => <<"granted", k>> \in late
    BY <1>1, <1>8, <1>9, <1>10 DEF News, b
  <1>. QED
    BY <1>8, <1>9, <1>10, <1>11 DEF b

\* A grant adds its keys to those that are leased.
LEMMA GrantedLeases ==
    ASSUME NEW ls \in Seq(Leases), NEW l \in Leases
    PROVE  /\ Append(ls, l) \in Seq(Leases) /\ Len(Append(ls, l)) = Len(ls) + 1
           /\ \A i \in 1 .. Len(ls) : Append(ls, l)[i] = ls[i]
           /\ Append(ls, l)[Len(ls) + 1] = l
           /\ \A k : LeasesOn(Append(ls, l), k) =
                        LeasesOn(ls, k) \cup (IF k \in l.keys THEN {Len(ls) + 1} ELSE {})
  <1>. DEFINE m == Append(ls, l)
  <1>1. /\ Len(m) = Len(ls) + 1 /\ m[Len(ls) + 1] = l
        /\ \A i \in 1 .. Len(ls) : m[i] = ls[i]
        /\ m \in Seq(Leases) /\ Len(ls) \in Nat
    BY AppendProperties
  <1>. HIDE DEF m
  <1>2. /\ \A i \in DOMAIN m : i \in DOMAIN ls \/ i = Len(ls) + 1
        /\ \A i \in DOMAIN ls : i \in DOMAIN m
        /\ Len(ls) + 1 \in DOMAIN m /\ DOMAIN ls = 1 .. Len(ls)
    BY <1>1
  <1>3. ASSUME NEW k
        PROVE  LeasesOn(m, k) = LeasesOn(ls, k) \cup (IF k \in l.keys THEN {Len(ls) + 1} ELSE {})
    BY <1>1, <1>2 DEF LeasesOn
  <1>. QED
    BY <1>1, <1>3 DEF m

LEMMA GrantsNews ==
    ASSUME Types, News, Grants
    PROVE  News'
  <1>. DEFINE b == step.brief
              l == [session |-> Mine.session, keys |-> Wanted]
  <1>1. /\ step.at = "grant" /\ Carrying /\ StepOK /\ Planning /\ step' = Advance
        /\ UNCHANGED <<sess, late>> /\ leases \in Seq(Leases)
    BY DEF Types, Grants, Carrying, Planning
  <1>2. /\ Mine = step.plan[step.i] /\ Mine.session \in AgentIds /\ Mine.session \in Present(b)
        /\ step.i \in 1 .. Len(step.plan) /\ Len(step.plan) \in Nat
    BY <1>1, MineFacts
  <1>3. overruled' = {}
    <2>1. Taken(Wanted) \subseteq late
      BY <1>1, WantedFacts DEF Taken
    <2>2. EndedAs(Mine.session) \subseteq late
      BY <1>1, <1>2 DEF EndedAs, News
    <2>. QED
      BY <2>1, <2>2 DEF News, Grants
  <1>4. \A k \in Keys : LeasesOn(leases', k) # {} => LeasesOn(leases, k) # {} \/ k \in Wanted
    <2>1. CASE leases' = leases
      BY <2>1
    <2>2. CASE leases' = Append(leases, l)
      <3>1. l \in Leases /\ l.keys = Wanted
        BY <1>1, MineFacts DEF Leases, Wanted
      <3>. HIDE DEF l
      <3>2. \A k : LeasesOn(leases', k) =
                      LeasesOn(leases, k) \cup (IF k \in l.keys THEN {Len(leases) + 1} ELSE {})
        BY <1>1, <2>2, <3>1, GrantedLeases
      <3>. QED
        BY <3>1, <3>2
    <2>. QED
      BY <2>1, <2>2 DEF Grants
  <1>5. CASE ~(step.i < Len(step.plan))
    <2>1. step'.at = "briefing"
      BY <1>1, <1>5, CarriedOn
    <2>. QED
      BY <1>3, <2>1 DEF News, Planning
  <1>6. CASE step.i < Len(step.plan)
    <2>1. /\ step'.at = "intent" /\ step'.i = step.i + 1 /\ step'.brief = b /\ step'.plan = step.plan
      BY <1>1, <1>6, CarriedOn
    <2>3. Coming' \subseteq Coming
      <3>1. ASSUME NEW t \in Coming'
            PROVE  t \in Coming
        <4>1. PICK k \in step.i + 1 .. Len(step.plan) : step.plan[k].session = t
          BY <2>1 DEF Coming
        <4>2. k \in step.i .. Len(step.plan) /\ k > step.i
          BY <1>2
        <4>. QED
          BY <1>1, <4>1, <4>2, ComingFacts
      <3>. QED
        BY <3>1
    <2>4. \A k \in Given \cup Wanted : k \in Given'
      <3>1. \A j \in 1 .. step.i - 1 : j \in 1 .. (step.i + 1) - 1
        BY <1>2
      <3>2. step.i \in 1 .. (step.i + 1) - 1
        BY <1>2
      <3>3. \A k : k \in Given' <=> \E j \in 1 .. (step.i + 1) - 1 : k \in step.plan[j].claim
        BY <2>1 DEF Given
      <3>4. \A k \in Wanted : k \in step.plan[step.i].claim
        BY <1>2 DEF Wanted
      <3>5. \A k \in Given : \E j \in 1 .. step.i - 1 : k \in step.plan[j].claim
        BY <1>1, ComingFacts
      <3>. QED
        BY <3>1, <3>2, <3>3, <3>4, <3>5
    <2>. HIDE DEF b
    <2>5. \A t \in Present(b) : ~sess'[t].live => <<"ended", t>> \in late'
      BY <1>1 DEF News, b
    <2>6. \A t \in Coming' :
             sess'[t].intent.task = OwnTask => b.info[t].intent.task = OwnTask \/ <<"declared", t>> \in late'
      BY <1>1, <2>3 DEF News, b
    <2>7. \A k \in Keys \ DOMAIN b.held :
             LeasesOn(leases', k) # {} => <<"granted", k>> \in late' \/ k \in Given'
      BY <1>1, <1>4, <2>4 DEF News, b
    <2>. QED
      BY <1>3, <2>1, <2>5, <2>6, <2>7 DEF News
  <1>. QED
    BY <1>5, <1>6

LEMMA StepNews ==
    ASSUME Types, News, [PlannerNext]_plannerVars
    PROVE  News'
  <1>1. ASSUME NEW s \in AgentIds,
               \/ Starts(s) \/ Ends(s)
               \/ \E f \in Files : Reads(s, f) \/ Writes(s, f) \/ Declares(s, {f})
               \/ \E k \in Keys : Requests(s, k)
        PROVE  News'
    BY <1>1, RoomStepNews DEF Room
  <1>2. CASE Briefs \/ Fails
    <2>1. step' = Idle /\ overruled' = overruled
      BY <1>2 DEF Briefs, Fails
    <2>. QED
      BY <2>1, NoNews DEF Planning, Idle
  <1>. QED
    BY <1>1, <1>2, QuietNews, BeginsNews, ComposesNews, IntendsNews, GrantsNews DEF PlannerNext, Working
-----------------------------------------------------------------------------
(***************************************************************************)
(* Fresh: the plan published is one for the room as it is, or something    *)
(* will make the planner look again.                                       *)
(***************************************************************************)
Now == BriefOf(sess, leases)

PlansNow(plan) == \E d \in Drafts \cup {NoDraft} : plan = PlanOf(Now, d)

NothingGranted == \A k \in Keys : <<"granted", k>> \notin late

\* The planner will look again, or need not say that what it has published is in force.
LooksAgain == timer \/ queued > 0 \/ stale

InForce ==
    \/ step = Idle /\ (Cardinality(Present(Now)) < 2 \/ PlansNow(current))
    \/ step.at = "composing" /\ step.brief = Now
    \/ Carrying /\ PlansNow(current)

Fresh ==
    /\ stale \/ NothingGranted
    /\ step.at \in {"intent", "grant"} => queued > 0 \/ current = step.plan
    /\ LooksAgain \/ InForce

(***************************************************************************)
(* A grant does not change who owns a file: the keys given out were free,  *)
(* and they are given to the owner.  So the plan stays one for the room.   *)
(***************************************************************************)
\* The keys W, none of them leased, are granted to s, who owns their files.
GivesOut(ls, l, s, W) ==
    /\ l = [session |-> s, keys |-> W]
    /\ s \in AgentIds /\ W \subseteq Keys
    /\ \A k \in W : LeasesOn(ls, k) = {}

\* What that does to a brief, b before and c after, of a room with n leases.
AfterGrant(b, c, n, s, W) ==
    /\ Present(c) = Present(b)
    /\ c.info = b.info
    /\ DOMAIN c.held = DOMAIN b.held \cup W
    /\ \A k \in DOMAIN b.held :
          k \notin W /\ c.held[k] = b.held[k] /\ c.since[k] = b.since[k] /\ b.since[k] \in 1 .. n
    /\ \A k \in W : k \notin DOMAIN b.held /\ c.held[k] = s /\ c.since[k] = n + 1
    /\ BriefOK(b) /\ BriefOK(c) /\ n \in Nat

LEMMA BriefAfterGrant ==
    ASSUME NEW room \in [AgentIds -> Infos], NEW ls \in Seq(Leases), NEW l, NEW s, NEW W,
           GivesOut(ls, l, s, W)
    PROVE  AfterGrant(BriefOf(room, ls), BriefOf(room, Append(ls, l)), Len(ls), s, W)
  <1>. DEFINE b == BriefOf(room, ls)
              m == Append(ls, l)
              c == BriefOf(room, m)
              n == Len(ls) + 1
  <1>1. l \in Leases /\ l.keys = W /\ l.session = s
    BY DEF GivesOut, Leases
  <1>2. /\ m \in Seq(Leases) /\ Len(m) = n /\ m[n] = l
        /\ \A i \in 1 .. Len(ls) : m[i] = ls[i]
        /\ \A k : LeasesOn(m, k) = LeasesOn(ls, k) \cup (IF k \in W THEN {n} ELSE {})
    BY <1>1, GrantedLeases
  <1>3. Len(ls) \in Nat /\ \A k : LeasesOn(ls, k) \in SUBSET (1 .. Len(ls))
    BY LeasesOnFacts
  <1>4. /\ IsBrief(b, Len(ls)) /\ BriefOK(b)
        /\ Present(b) = {t \in AgentIds : room[t].live}
        /\ DOMAIN b.held = {k \in Keys : LeasesOn(ls, k) # {}}
        /\ \A k \in Keys : LeasesOn(ls, k) # {} =>
              /\ b.held[k] = ls[Max(LeasesOn(ls, k))].session
              /\ b.since[k] = Min(LeasesOn(ls, k))
    BY BriefFacts
  <1>. HIDE DEF m
  <1>5. /\ BriefOK(c)
        /\ Present(c) = {t \in AgentIds : room[t].live}
        /\ DOMAIN c.held = {k \in Keys : LeasesOn(m, k) # {}}
        /\ \A k \in Keys : LeasesOn(m, k) # {} =>
              /\ c.held[k] = m[Max(LeasesOn(m, k))].session
              /\ c.since[k] = Min(LeasesOn(m, k))
    BY <1>2, BriefFacts
  <1>6. c.info = b.info
    BY DEF BriefOf
  <1>. HIDE DEF b, c
  <1>7. \A k \in W : LeasesOn(ls, k) = {} /\ k \in Keys
    BY DEF GivesOut
  <1>8. ASSUME NEW k \in DOMAIN b.held
        PROVE  k \notin W /\ c.held[k] = b.held[k] /\ c.since[k] = b.since[k]
               /\ b.since[k] \in 1 .. Len(ls)
    <2>1. k \in Keys /\ k \notin W /\ LeasesOn(ls, k) # {}
      BY <1>4, <1>7
    <2>2. LeasesOn(m, k) = LeasesOn(ls, k)
      BY <1>2, <2>1
    <2>3. Max(LeasesOn(ls, k)) \in 1 .. Len(ls)
      BY <1>3, <2>1, MaxFacts
    <2>4. b.since[k] \in 1 .. Len(ls)
      BY <1>4 DEF IsBrief
    <2>. QED
      BY <1>2, <1>4, <1>5, <2>1, <2>2, <2>3, <2>4
  <1>9. ASSUME NEW k \in W
        PROVE  k \notin DOMAIN b.held /\ c.held[k] = s /\ c.since[k] = n
    <2>1. k \in Keys /\ LeasesOn(m, k) = {n}
      BY <1>2, <1>7
    <2>2. {n} \in SUBSET (1 .. n) /\ n \in Nat
      BY <1>3
    <2>3. Max({n}) = n /\ Min({n}) = n
      BY <2>2, MaxFacts, MinFacts
    <2>4. c.held[k] = m[n].session /\ c.since[k] = n
      BY <1>5, <2>1, <2>3
    <2>. QED
      BY <1>1, <1>2, <1>4, <1>7, <2>1, <2>4
  <1>10. DOMAIN c.held = DOMAIN b.held \cup W
    <2>1. \A k \in Keys : LeasesOn(m, k) # {} <=> LeasesOn(ls, k) # {} \/ k \in W
      BY <1>2
    <2>. QED
      BY <1>4, <1>5, <1>7, <2>1
  <1>. QED
    BY <1>3, <1>4, <1>5, <1>6, <1>8, <1>9, <1>10 DEF AfterGrant, b, c, m

LEMMA OwnersStay ==
    ASSUME NEW b, NEW c, NEW n, NEW s, NEW W, NEW prefer, AfterGrant(b, c, n, s, W),
           \A k \in W : FileOf(k) \in Owns(b, prefer, s)
    PROVE  /\ \A f : Interested(c, f) = Interested(b, f)
           /\ \A f \in Files : Interested(b, f) # {} => Owner(c, prefer, f) = Owner(b, prefer, f)
  <1>0. /\ Present(c) = Present(b) /\ c.info = b.info
        /\ DOMAIN c.held = DOMAIN b.held \cup W
        /\ \A k \in DOMAIN b.held :
              k \notin W /\ c.held[k] = b.held[k] /\ c.since[k] = b.since[k] /\ b.since[k] \in 1 .. n
        /\ \A k \in W : k \notin DOMAIN b.held /\ c.held[k] = s /\ c.since[k] = n + 1
        /\ BriefOK(b) /\ BriefOK(c) /\ n \in Nat
    BY DEF AfterGrant
  <1>. USE <1>0
  <1>1. \A f : Interested(c, f) = Interested(b, f)
    BY DEF Interested, Present
  <1>2. ASSUME NEW f \in Files, Interested(b, f) # {}
        PROVE  Owner(c, prefer, f) = Owner(b, prefer, f)
    <2>. DEFINE New == {k \in W : FileOf(k) = f}
                L == LeasedKeys(b, f)
                M == LeasedKeys(c, f)
    <2>1. Preferred(c, prefer, f) = Preferred(b, prefer, f)
      BY <1>1 DEF Preferred
    <2>2. CASE Preferred(b, prefer, f)
      BY <2>1, <2>2 DEF Owner
    <2>3. CASE ~Preferred(b, prefer, f)
      <3>1. \A k \in L : k \in DOMAIN b.held /\ k \in M
        BY <1>1 DEF LeasedKeys
      <3>2. \A k \in M : k \in L \/ k \in New
        BY <1>1 DEF LeasedKeys
      <3>3. New # {} => Owner(b, prefer, f) = s /\ s \in Interested(b, f)
        <4>1. New # {} => Owner(b, prefer, f) = s
          BY DEF Owns
        <4>. QED
          BY <1>2, <4>1, OwnerIsInterested
      <3>4. \A k \in New : k \in M
        BY <1>1, <3>3 DEF LeasedKeys
      <3>5. \A k \in New : c.since[k] = n + 1 /\ c.held[k] = s
        OBVIOUS
      <3>6. CASE L # {}
        <4>1. OldestKeys(c, f) = OldestKeys(b, f)
          <5>1. \A k \in L : c.since[k] = b.since[k] /\ b.since[k] \in 1 .. n
            BY <3>1
          <5>. HIDE DEF L, M, New
          <5>2. OldestKeys(b, f) = {k \in L : \A j \in L : b.since[k] <= b.since[j]}
            BY DEF OldestKeys, L
          <5>3. OldestKeys(c, f) = {k \in M : \A j \in M : c.since[k] <= c.since[j]}
            BY DEF OldestKeys, M
          <5>4. ASSUME NEW k \in L, \A j \in L : b.since[k] <= b.since[j]
                PROVE  k \in M /\ \A j \in M : c.since[k] <= c.since[j]
            <6>1. k \in M
              BY <3>1
            <6>2. \A j \in L : c.since[k] <= c.since[j]
              BY <5>1, <5>4
            <6>3. \A j \in New : c.since[k] <= c.since[j]
              <7>1. c.since[k] \in 1 .. n
                BY <5>1
              <7>. QED
                BY <3>5, <7>1
            <6>. QED
              BY <3>2, <6>1, <6>2, <6>3
          <5>5. ASSUME NEW k \in M, \A j \in M : c.since[k] <= c.since[j]
                PROVE  k \in L /\ \A j \in L : b.since[k] <= b.since[j]
            <6>1. PICK i \in L : TRUE
              BY <3>6
            <6>2. c.since[k] <= c.since[i] /\ c.since[i] \in 1 .. n
              BY <3>1, <5>1, <5>5, <6>1
            <6>3. k \notin New
              BY <3>5, <6>2
            <6>4. k \in L
              BY <3>2, <6>3
            <6>. QED
              BY <3>1, <5>1, <5>5, <6>4
          <5>. QED
            BY <5>2, <5>3, <5>4, <5>5
        <4>2. (CHOOSE k \in OldestKeys(b, f) : TRUE) \in L
          <5>1. OldestKeys(b, f) # {}
            <6>. DEFINE T == {b.since[k] : k \in L}
            <6>1. T \in SUBSET (1 .. n) /\ T # {}
              BY <3>1, <3>6
            <6>2. PICK t \in T : \A u \in T : t <= u
              BY <6>1, FirstExists
            <6>3. PICK k \in L : t = b.since[k]
              OBVIOUS
            <6>4. \A j \in L : b.since[k] <= b.since[j]
              BY <6>2, <6>3
            <6>. QED
              BY <6>4 DEF OldestKeys
          <5>2. OldestKeys(b, f) \subseteq L
            BY DEF OldestKeys
          <5>. HIDE DEF L
          <5>. QED
            BY <5>1, <5>2
        <4>3. Holder(c, f) = Holder(b, f)
          <5>. DEFINE k0 == CHOOSE k \in OldestKeys(b, f) : TRUE
          <5>1. k0 \in DOMAIN b.held
            BY <3>1, <4>2
          <5>2. Holder(b, f) = b.held[k0] /\ Holder(c, f) = c.held[k0]
            BY <4>1 DEF Holder
          <5>. HIDE DEF k0
          <5>. QED
            BY <5>1, <5>2
        <4>4. M # {}
          BY <3>1, <3>6
        <4>. QED
          BY <2>1, <2>3, <3>6, <4>3, <4>4 DEF Owner
      <3>7. CASE L = {} /\ New = {}
        <4>1. M = {}
          BY <3>2, <3>7
        <4>2. Writers(c, f) = Writers(b, f) /\ Declarers(c, f) = Declarers(b, f)
          BY <1>1 DEF Writers, Declarers
        <4>. QED
          BY <1>1, <2>1, <2>3, <3>7, <4>1, <4>2 DEF Owner
      <3>8. CASE L = {} /\ New # {}
        <4>1. M # {} /\ \A k \in M : c.held[k] = s
          BY <3>2, <3>4, <3>5, <3>8
        <4>2. (CHOOSE k \in OldestKeys(c, f) : TRUE) \in M
          <5>1. PICK k \in M : TRUE
            BY <4>1
          <5>2. \A j \in M : c.since[j] = n + 1
            BY <3>2, <3>5, <3>8
          <5>. HIDE DEF L, New
          <5>3. k \in OldestKeys(c, f)
            BY <5>1, <5>2 DEF OldestKeys
          <5>. QED
            BY <5>3 DEF OldestKeys
        <4>3. Holder(c, f) = s
          <5>. HIDE DEF M
          <5>. QED
            BY <4>1, <4>2 DEF Holder
        <4>. QED
          BY <2>1, <2>3, <3>3, <3>8, <4>1, <4>3 DEF Owner
      <3>. QED
        BY <3>6, <3>7, <3>8
    <2>. QED
      BY <2>2, <2>3
  <1>. QED
    BY <1>1, <1>2

LEMMA PlanStays ==
    ASSUME NEW room \in [AgentIds -> Infos], NEW ls \in Seq(Leases), NEW l, NEW s, NEW W,
           GivesOut(ls, l, s, W), NEW d \in Drafts \cup {NoDraft},
           \A k \in W : FileOf(k) \in Owns(BriefOf(room, ls), d.prefer, s)
    PROVE  /\ PlanOf(BriefOf(room, Append(ls, l)), d) = PlanOf(BriefOf(room, ls), d)
           /\ Present(BriefOf(room, Append(ls, l))) = Present(BriefOf(room, ls))
  <1>. DEFINE b == BriefOf(room, ls)
              c == BriefOf(room, Append(ls, l))
              n == Len(ls)
              pr == d.prefer
  <1>0. AfterGrant(b, c, n, s, W)
    BY BriefAfterGrant
  <1>2. \A k \in W : FileOf(k) \in Owns(b, pr, s)
    OBVIOUS
  <1>. HIDE DEF b, c, n, pr
  <1>3. /\ \A f : Interested(c, f) = Interested(b, f)
        /\ \A f \in Files : Interested(b, f) # {} => Owner(c, pr, f) = Owner(b, pr, f)
    BY <1>0, <1>2, OwnersStay
  <1>1. /\ Present(c) = Present(b) /\ c.info = b.info /\ DOMAIN c.held = DOMAIN b.held \cup W
        /\ \A k \in DOMAIN b.held : k \notin W /\ c.held[k] = b.held[k]
        /\ \A k \in W : k \notin DOMAIN b.held /\ c.held[k] = s
        /\ BriefOK(b)
    BY <1>0 DEF AfterGrant
  <1>4. \A t : Owns(c, pr, t) = Owns(b, pr, t)
    BY <1>3 DEF Owns
  <1>5. Contested(c) = Contested(b)
    BY <1>3 DEF Contested
  <1>6. Observed(c) = Observed(b)
    BY <1>1 DEF Observed
  <1>7. \A f : KeysFor(c, f) = KeysFor(b, f)
    BY <1>6 DEF KeysFor
  <1>8. ASSUME NEW t
        PROVE  Claim(c, pr, t) = Claim(b, pr, t)
    <2>. DEFINE U == UNION {KeysFor(b, f) : f \in Owns(b, pr, t) \cap Contested(b)}
    <2>1. UNION {KeysFor(c, f) : f \in Owns(c, pr, t) \cap Contested(c)} = U
      BY <1>4, <1>5, <1>7
    <2>2. \A k \in U : FileOf(k) \in Owns(b, pr, t)
      BY DEF KeysFor, FileOf
    <2>. HIDE DEF U
    <2>3. ASSUME NEW k \in U
          PROVE  Claimable(c, t, k) <=> Claimable(b, t, k)
      <3>1. CASE k \in W
        <4>1. FileOf(k) \in Owns(b, pr, s) /\ FileOf(k) \in Owns(b, pr, t)
          BY <1>2, <2>2, <3>1
        <4>2. s = t
          BY <4>1 DEF Owns
        <4>3. k \notin DOMAIN b.held /\ c.held[k] = t
          BY <1>1, <3>1, <4>2
        <4>. QED
          BY <4>3 DEF Claimable, HeldByOther
      <3>2. CASE k \notin W
        <4>1. k \in DOMAIN c.held <=> k \in DOMAIN b.held
          BY <1>1, <3>2
        <4>2. k \in DOMAIN b.held => c.held[k] = b.held[k]
          BY <1>1
        <4>. QED
          BY <4>1, <4>2 DEF Claimable, HeldByOther
      <3>. QED
        BY <3>1, <3>2
    <2>4. Claim(c, pr, t) = {k \in U : Claimable(c, t, k)} /\ Claim(b, pr, t) = {k \in U : Claimable(b, t, k)}
      BY <2>1 DEF Claim, U
    <2>. QED
      BY <2>3, <2>4
  <1>9. ASSUME NEW t \in Present(b)
        PROVE  Assignment(c, d, t) = Assignment(b, d, t)
    <2>. DEFINE owns == Owns(b, pr, t)
                T == Touched(b.info[t])
    <2>1. Task(c, d.text, owns, t) = Task(b, d.text, owns, t)
      BY <1>1 DEF Task
    <2>2. {k \in Observed(c) : FileOf(k) \in owns} = {k \in Observed(b) : FileOf(k) \in owns}
      BY <1>6
    <2>3. \A f \in T : f \in Files /\ Interested(b, f) # {}
      <3>1. b.info[t] \in Infos
        BY <1>1 DEF BriefOK, IsBrief
      <3>2. T \subseteq Files
        BY <3>1 DEF Touched, Infos, Intents
      <3>3. \A f \in T : t \in Interested(b, f)
        BY DEF Interested
      <3>. QED
        BY <3>2, <3>3
    <2>4. {f \in T : Owner(c, pr, f) # t} = {f \in T : Owner(b, pr, f) # t}
      BY <1>3, <2>3
    <2>5. Touched(c.info[t]) = T
      BY <1>1
    <2>. HIDE DEF T
    <2>6. Assignment(c, d, t) =
                [session |-> t, owns |-> owns, task |-> Task(c, d.text, owns, t),
                 syms |-> {k \in Observed(c) : FileOf(k) \in owns},
                 claim |-> Claim(c, pr, t), avoid |-> {f \in T : Owner(c, pr, f) # t}]
      <3>. DEFINE own2 == Owns(c, pr, t)
                  T2 == Touched(c.info[t])
      <3>1. Assignment(c, d, t) =
                [session |-> t, owns |-> own2, task |-> Task(c, d.text, own2, t),
                 syms |-> {k \in Observed(c) : FileOf(k) \in own2},
                 claim |-> Claim(c, pr, t), avoid |-> {f \in T2 : Owner(c, pr, f) # t}]
        BY DEF Assignment, pr
      <3>2. own2 = owns /\ T2 = T
        BY <1>4, <2>5
      <3>. HIDE DEF own2, T2, owns
      <3>. QED
        BY <3>1, <3>2
    <2>7. Assignment(b, d, t) =
                [session |-> t, owns |-> owns, task |-> Task(b, d.text, owns, t),
                 syms |-> {k \in Observed(b) : FileOf(k) \in owns},
                 claim |-> Claim(b, pr, t), avoid |-> {f \in T : Owner(b, pr, f) # t}]
      BY DEF Assignment, pr, T
    <2>. HIDE DEF owns
    <2>. QED
      BY <1>8, <2>1, <2>2, <2>4, <2>6, <2>7
  <1>10. PlanOf(c, d) = PlanOf(b, d)
    <2>. DEFINE I == {i \in DOMAIN Agents : Agents[i] \in Present(b)}
                order == Subsequence(Agents, I)
    <2>1. I \in SUBSET (1 .. Len(Agents)) /\ Agents \in Seq(AgentIds)
      BY AgentsAssumption, AgentFacts DEF AgentIds
    <2>2. \A k \in 1 .. Len(order) : \E i \in I : order[k] = Agents[i]
      BY <2>1, SubsequenceFacts
    <2>3. order \in Seq(AgentIds)
      BY <2>1, SubsequenceFacts
    <2>4. \A i \in I : Agents[i] \in Present(b)
      OBVIOUS
    <2>5. PlanOf(b, d) = [i \in DOMAIN order |-> Assignment(b, d, order[i])]
      BY DEF PlanOf
    <2>6. PlanOf(c, d) = [i \in DOMAIN order |-> Assignment(c, d, order[i])]
      BY <1>1 DEF PlanOf
    <2>. HIDE DEF order, I
    <2>7. \A k \in DOMAIN order : order[k] \in Present(b)
      BY <2>2, <2>3, <2>4
    <2>8. \A k \in DOMAIN order : Assignment(c, d, order[k]) = Assignment(b, d, order[k])
      BY <1>9, <2>7
    <2>. QED
      BY <2>5, <2>6, <2>8
  <1>. QED
    BY <1>1, <1>10 DEF b, c

\* A step of the room, a timer that fires and a debate leave the plan alone, and what
\* changes the room sets the timer or makes the plan stale.
LEMMA RoomFresh ==
    ASSUME Types, Fresh, step' = step, stale => stale',
           current' = current \/ queued' > 0, queued > 0 => queued' > 0,
           stale' \/ (NothingGranted => NothingGranted'),
           \/ LooksAgain'
           \/ ~LooksAgain /\ sess' = sess /\ leases' = leases /\ current' = current
    PROVE  Fresh'
  <1>1. stale' \/ NothingGranted'
    BY DEF Fresh
  <1>2. (step.at \in {"intent", "grant"} => queued > 0 \/ current = step.plan)'
    BY DEF Fresh
  <1>3. (LooksAgain \/ InForce)'
    <2>1. CASE LooksAgain'
      BY <2>1
    <2>2. CASE ~LooksAgain /\ sess' = sess /\ leases' = leases /\ current' = current
      <3>1. Now' = Now
        BY <2>2 DEF Now
      <3>2. PlansNow(current)' <=> PlansNow(current)
        BY <2>2, <3>1 DEF PlansNow
      <3>3. InForce' <=> InForce
        BY <3>1, <3>2 DEF InForce, Carrying
      <3>. QED
        BY <2>2, <3>3 DEF Fresh
    <2>. QED
      BY <2>1, <2>2
  <1>. QED
    BY <1>1, <1>2, <1>3 DEF Fresh

LEMMA OutsideFresh ==
    ASSUME Types, Fresh,
           \/ \E s \in AgentIds : Room(s)
           \/ \E i \in DOMAIN leases : Frees(i)
           \/ DebateTurns \/ TimerFires \/ Replans \/ Cools \/ UNCHANGED plannerVars
    PROVE  Fresh'
  <1>1. queued \in Nat
    BY DEF Types
  <1>2. CASE (\E s \in AgentIds : Room(s)) \/ (\E i \in DOMAIN leases : Frees(i))
    <2>1. step' = step /\ current' = current /\ queued' = queued
      BY <1>2 DEF Room, Starts, Ends, Reads, Writes, Declares, Requests, Frees, Outside, PlannerRests
    <2>2. stale' \/ (timer' /\ stale' = stale /\ \A k \in Keys : <<"granted", k>> \in late' => <<"granted", k>> \in late)
      <3>1. CASE \E i \in DOMAIN leases : Frees(i)
        BY <3>1 DEF Frees
      <3>2. ASSUME NEW s \in AgentIds, Room(s)
            PROVE  stale' \/ (timer' /\ stale' = stale /\ \A k \in Keys : <<"granted", k>> \in late' => <<"granted", k>> \in late)
        <4>1. \A k : <<"ended", s>> # <<"granted", k>> /\ <<"declared", s>> # <<"granted", k>>
          OBVIOUS
        <4>2. \/ late' = late \/ late' = late \cup {<<"ended", s>>}
              \/ late' = late \cup {<<"declared", s>>} \/ stale'
          BY <3>2 DEF Room, Starts, Ends, Reads, Writes, Declares, Requests
        <4>3. stale' \/ (timer' /\ stale' = stale)
          BY <3>2 DEF Room, Starts, Ends, Reads, Writes, Declares, Requests, Triggers
        <4>. QED
          BY <4>1, <4>2, <4>3
      <3>. QED
        BY <1>2, <3>1, <3>2
    <2>3. stale' \/ (NothingGranted => NothingGranted')
      BY <2>2 DEF NothingGranted
    <2>4. LooksAgain'
      BY <2>2 DEF LooksAgain
    <2>. QED
      BY <2>1, <2>2, <2>3, <2>4, RoomFresh
  <1>3. CASE DebateTurns \/ TimerFires \/ Replans \/ Cools \/ UNCHANGED plannerVars
    <2>1. UNCHANGED <<step, sess, leases, late, stale>>
      BY <1>3 DEF DebateTurns, TimerFires, Replans, Cools, plannerVars,
                  RoomRests, Outside, PlannerRests
    <2>2. \/ queued' = queued + 1
          \/ queued' = queued /\ current' = current /\ timer' = timer
      BY <1>3 DEF DebateTurns, TimerFires, Replans, Cools, plannerVars, Outside, PlannerRests, Silent
    <2>3. queued' > 0 \/ (queued' = queued /\ current' = current /\ timer' = timer)
      BY <1>1, <2>2
    <2>4. queued > 0 => queued' > 0
      BY <2>3
    <2>5. NothingGranted' <=> NothingGranted
      BY <2>1 DEF NothingGranted
    <2>6. LooksAgain' \/ (~LooksAgain /\ current' = current)
      BY <2>1, <2>3, <2>4 DEF LooksAgain
    <2>. QED
      BY <2>1, <2>3, <2>4, <2>5, <2>6, RoomFresh
  <1>. QED
    BY <1>2, <1>3

LEMMA BeginsFresh ==
    ASSUME Types, RunBegins
    PROVE  Fresh'
  <1>1. sess' = sess /\ leases' = leases /\ stale' = debating /\ late' = {} /\ step = Idle
    BY DEF RunBegins, RoomRests
  <1>2. Now' = Now
    BY <1>1 DEF Now
  <1>3. \/ step' = Idle /\ (debating \/ Cardinality(Present(Now)) < 2)
        \/ step' = [at |-> "composing", brief |-> Now]
    BY DEF RunBegins, Now
  <1>4. (stale \/ NothingGranted)'
    BY <1>1 DEF NothingGranted
  <1>5. ~(step'.at \in {"intent", "grant"})
    BY <1>3 DEF Idle
  <1>6. (LooksAgain \/ InForce)'
    <2>1. CASE step' = Idle /\ debating
      BY <1>1, <2>1 DEF LooksAgain
    <2>2. CASE step' = Idle /\ Cardinality(Present(Now)) < 2
      BY <1>2, <2>2 DEF InForce
    <2>3. CASE step' = [at |-> "composing", brief |-> Now]
      <3>1. step'.at = "composing" /\ step'.brief = Now'
        BY <1>2, <2>3
      <3>. QED
        BY <3>1 DEF InForce
    <2>. QED
      BY <1>3, <2>1, <2>2, <2>3
  <1>. QED
    BY <1>4, <1>5, <1>6 DEF Fresh

LEMMA ComposesFresh ==
    ASSUME Types, Fresh, Composes
    PROVE  Fresh'
  <1>. DEFINE b == step.brief
  <1>1. /\ UNCHANGED <<sess, leases, queued, late, stale>> /\ step.at = "composing"
    BY DEF Composes, RoomRests
  <1>2. Now' = Now
    BY <1>1 DEF Now
  <1>3. PICK d \in Drafts \cup {NoDraft} :
            \/ step' = Idle /\ current = PlanOf(b, d) /\ current' = current /\ timer' = timer
            \/ step' = Idle /\ timer' = TRUE
            \/ /\ step' = [at |-> "intent", brief |-> b, plan |-> PlanOf(b, d), i |-> 1]
               /\ current' = PlanOf(b, d) /\ timer' = timer
    BY DEF Composes, UnchangedPlan
  <1>. DEFINE p == PlanOf(b, d)
  <1>4. (stale \/ NothingGranted)'
    BY <1>1 DEF NothingGranted, Fresh
  <1>5. LooksAgain \/ b = Now
    BY <1>1 DEF Fresh, InForce, Carrying, Idle
  <1>6. b = Now => (p = current' => PlansNow(current)')
    BY <1>2 DEF PlansNow
  <1>. HIDE DEF p, b
  <1>7. CASE step' = Idle /\ current = p /\ current' = current /\ timer' = timer
    <2>1. LooksAgain' \/ PlansNow(current)'
      BY <1>1, <1>5, <1>6, <1>7 DEF LooksAgain
    <2>2. ~(step'.at \in {"intent", "grant"})
      BY <1>7 DEF Idle
    <2>. QED
      BY <1>4, <1>7, <2>1, <2>2 DEF Fresh, InForce
  <1>8. CASE step' = Idle /\ timer' = TRUE
    <2>1. ~(step'.at \in {"intent", "grant"})
      BY <1>8 DEF Idle
    <2>. QED
      BY <1>4, <1>8, <2>1 DEF Fresh, LooksAgain
  <1>9. CASE /\ step' = [at |-> "intent", brief |-> b, plan |-> p, i |-> 1]
             /\ current' = p /\ timer' = timer
    <2>1. step'.at = "intent" /\ step'.plan = p
      BY <1>9
    <2>2. LooksAgain' \/ PlansNow(current)'
      BY <1>1, <1>5, <1>6, <1>9 DEF LooksAgain
    <2>3. Carrying'
      BY <2>1 DEF Carrying
    <2>4. (LooksAgain \/ InForce)'
      BY <2>2, <2>3 DEF InForce
    <2>. QED
      BY <1>4, <1>9, <2>1, <2>4 DEF Fresh
  <1>. QED
    BY <1>3, <1>7, <1>8, <1>9 DEF p

LEMMA IntendsFresh ==
    ASSUME Types, Fresh, Intends
    PROVE  Fresh'
  <1>1. /\ UNCHANGED <<leases, queued, current, late, stale>> /\ step.at = "intent"
        /\ step' = StepAt("grant") /\ StepOK /\ Carrying
    BY DEF Intends, Types, Carrying
  <1>2. step'.at = "grant" /\ step'.plan = step.plan
    BY <1>1, CarriedOn
  <1>3. (sess' = sess /\ timer' = timer) \/ timer' = TRUE
    BY DEF Intends
  <1>4. (stale \/ NothingGranted)'
    BY <1>1 DEF NothingGranted, Fresh
  <1>5. (step.at \in {"intent", "grant"} => queued > 0 \/ current = step.plan)'
    BY <1>1, <1>2 DEF Fresh
  <1>6. (LooksAgain \/ InForce)'
    <2>1. CASE timer' = TRUE
      BY <2>1 DEF LooksAgain
    <2>2. CASE sess' = sess /\ timer' = timer
      <3>1. LooksAgain' <=> LooksAgain
        BY <1>1, <2>2 DEF LooksAgain
      <3>2. PlansNow(current)' <=> PlansNow(current)
        BY <1>1, <2>2 DEF PlansNow, Now
      <3>3. InForce => PlansNow(current)
        BY <1>1 DEF InForce, Idle
      <3>4. Carrying'
        BY <1>2 DEF Carrying
      <3>. QED
        BY <3>1, <3>2, <3>3, <3>4 DEF Fresh, InForce
    <2>. QED
      BY <1>3, <2>1, <2>2
  <1>. QED
    BY <1>4, <1>5, <1>6 DEF Fresh

\* What a plan for the room as it is grants is free, and its files are the session's.
LEMMA GrantsFresh ==
    ASSUME Types, News, Fresh, Grants
    PROVE  Fresh'
  <1>. DEFINE l == [session |-> Mine.session, keys |-> Wanted]
              b == Now
  <1>1. /\ UNCHANGED <<sess, timer, queued, current, late, stale>> /\ step.at = "grant"
        /\ step' = Advance /\ StepOK /\ Carrying /\ queued \in Nat
        /\ sess \in [AgentIds -> Infos] /\ leases \in Seq(Leases)
    BY DEF Grants, Types, Carrying
  <1>2. step'.at \in {"intent", "briefing"} /\ step'.plan = step.plan
    BY <1>1, CarriedOn
  <1>3. (stale \/ NothingGranted)'
    BY <1>1 DEF NothingGranted, Fresh
  <1>4. (step.at \in {"intent", "grant"} => queued > 0 \/ current = step.plan)'
    BY <1>1, <1>2 DEF Fresh
  <1>5. LooksAgain' <=> LooksAgain
    BY <1>1 DEF LooksAgain
  <1>6. Carrying'
    BY <1>2 DEF Carrying
  <1>7. CASE LooksAgain
    BY <1>3, <1>4, <1>5, <1>7 DEF Fresh
  <1>8. CASE ~LooksAgain
    <2>1. PlansNow(current) /\ current = step.plan /\ NothingGranted
      BY <1>1, <1>8 DEF Fresh, LooksAgain, InForce, Idle
    <2>2. PICK d \in Drafts \cup {NoDraft} : step.plan = PlanOf(b, d)
      BY <2>1 DEF PlansNow
    <2>3. PlansNow(current)'
      <3>1. CASE leases' = leases
        BY <1>1, <2>1, <3>1 DEF PlansNow, Now
      <3>2. CASE leases' = Append(leases, l)
        <4>. DEFINE s == Mine.session
        <4>1. BriefOK(b)
          BY <1>1, BriefFacts DEF Now
        <4>2. s \in AgentIds /\ Mine = step.plan[step.i] /\ step.i \in 1 .. Len(step.plan)
          BY <1>1, MineFacts
        <4>. HIDE DEF b
        <4>3. /\ step.plan[step.i] = Assignment(b, d, step.plan[step.i].session)
              /\ step.plan[step.i].session \in Present(b)
          BY <2>2, <4>1, <4>2, PlanFacts
        <4>4. Mine.claim = Claim(b, d.prefer, s)
          BY <4>1, <4>2, <4>3, AssignmentFacts
        <4>5. \A k \in Wanted : k \in Claim(b, d.prefer, s)
          BY <4>4 DEF Wanted
        <4>6. \A k \in Wanted : FileOf(k) \in Owns(b, d.prefer, s)
          BY <4>1, <4>5, ClaimFacts
        <4>7. \A k \in Wanted : k \in Keys /\ LeasesOn(leases, k) = {}
          BY <1>1, <2>1, WantedFacts DEF NothingGranted
        <4>8. GivesOut(leases, l, s, Wanted)
          BY <4>2, <4>7 DEF GivesOut
        <4>. HIDE DEF l, s
        <4>9. PlanOf(BriefOf(sess, Append(leases, l)), d) = PlanOf(BriefOf(sess, leases), d)
          BY <1>1, <4>6, <4>8, PlanStays DEF b, Now
        <4>10. Now' = BriefOf(sess, Append(leases, l))
          BY <1>1, <3>2 DEF Now
        <4>11. current' = PlanOf(Now', d)
          BY <1>1, <2>1, <2>2, <4>9, <4>10 DEF b, Now
        <4>. QED
          BY <4>11 DEF PlansNow
      <3>. QED
        BY <3>1, <3>2 DEF Grants
    <2>. QED
      BY <1>3, <1>4, <1>6, <2>3 DEF Fresh, InForce
  <1>. QED
    BY <1>7, <1>8

LEMMA EndsFresh ==
    ASSUME Types, Fresh, Briefs \/ Fails
    PROVE  Fresh'
  <1>1. /\ UNCHANGED <<sess, leases, timer, queued, current, late>> /\ step' = Idle
    BY DEF Briefs, Fails, RoomRests
  <1>2. ~(step'.at \in {"intent", "grant"})
    BY <1>1 DEF Idle
  <1>3. CASE Briefs
    <2>1. stale' = stale /\ step.at = "briefing"
      BY <1>3 DEF Briefs
    <2>2. (stale \/ NothingGranted)'
      BY <1>1, <2>1 DEF NothingGranted, Fresh
    <2>3. LooksAgain' <=> LooksAgain
      BY <1>1, <2>1 DEF LooksAgain
    <2>4. PlansNow(current)' <=> PlansNow(current)
      BY <1>1 DEF PlansNow, Now
    <2>5. InForce => PlansNow(current)
      BY <2>1 DEF InForce, Idle
    <2>. QED
      BY <1>1, <1>2, <2>2, <2>3, <2>4, <2>5 DEF Fresh, InForce
  <1>4. CASE Fails
    <2>1. stale' = TRUE
      BY <1>4 DEF Fails
    <2>. QED
      BY <1>2, <2>1 DEF Fresh, LooksAgain
  <1>. QED
    BY <1>3, <1>4

LEMMA StepFresh ==
    ASSUME Types, News, Fresh, [PlannerNext]_plannerVars
    PROVE  Fresh'
  <1>1. CASE \/ \E s \in AgentIds : Room(s)
             \/ \E i \in DOMAIN leases : Frees(i)
             \/ DebateTurns \/ TimerFires \/ Replans \/ Cools \/ UNCHANGED plannerVars
    BY <1>1, OutsideFresh
  <1>2. CASE RunBegins \/ Composes \/ Intends \/ Grants \/ Briefs \/ Fails
    BY <1>2, BeginsFresh, ComposesFresh, IntendsFresh, GrantsFresh, EndsFresh
  <1>. QED
    BY <1>1, <1>2 DEF PlannerNext, Working, Room
-----------------------------------------------------------------------------
(***************************************************************************)
(* The theorems.                                                           *)
(***************************************************************************)
PInv == Types /\ News /\ Fresh

LEMMA InitInvariant ==
    ASSUME PlannerInit
    PROVE  PInv
  <1>1. step = Idle /\ timer = TRUE /\ late = {} /\ overruled = {}
    BY DEF PlannerInit
  <1>2. News
    BY <1>1 DEF News, Planning, Idle
  <1>3. Fresh
    BY <1>1 DEF Fresh, NothingGranted, LooksAgain, Idle
  <1>. QED
    BY <1>2, <1>3, InitTypes DEF PInv

\* The invariant holds, whatever the model drafts and whatever fails: the types (Types),
\* what the room knows and the brief does not (News), and whether a plan for the room as it
\* is was published (Fresh).
THEOREM PlannerInvariance == PlannerSpec => []PInv
  <1>1. PlannerInit => PInv
    BY InitInvariant
  <1>2. PInv /\ [PlannerNext]_plannerVars => PInv'
    BY StepTypes, StepNews, StepFresh DEF PInv
  <1>. QED
    BY <1>1, <1>2, PTL DEF PlannerSpec

\* The planner overwrites an intent that an agent declared, grants a key that is held or a
\* session that has ended, only if that came after the brief it planned from (claim,
\* planner.ts, which submits with the system origin, unchecked).
THEOREM PlannersOverruleOnlyLateNews == PlannerSpec => []OnlyLateNewsIsOverruled
  <1>1. PInv => OnlyLateNewsIsOverruled
    BY DEF PInv, News, OnlyLateNewsIsOverruled
  <1>. QED
    BY <1>1, PlannerInvariance, PTL

\* A planner at rest has published a plan for the room as it is, unless its last run gave
\* way to a debate or failed, or only leases have changed since (schedule, run, planner.ts).
THEOREM PlansKeepUp == PlannerSpec => []PlanIsCurrent
  <1>1. ASSUME PInv
        PROVE  PlanIsCurrent
    <2>. SUFFICES ASSUME AtRest, ~stale, Cardinality(Present(Now)) >= 2
                  PROVE  \E draft \in Drafts \cup {NoDraft} : current = PlanOf(Now, draft)
      BY DEF PlanIsCurrent, Now
    <2>1. Present(Now) \subseteq AgentIds /\ Cardinality(Present(Now)) \in Nat
      <3>1. Present(Now) \subseteq AgentIds
        BY <1>1, BriefFacts DEF PInv, Types, Now, BriefOK, IsBrief
      <3>2. IsFiniteSet(AgentIds)
        BY SessionsAreFinite
      <3>. QED
        BY <3>1, <3>2, FS_Subset, FS_CardinalityType
    <2>2. ~LooksAgain
      BY DEF AtRest, LooksAgain
    <2>3. InForce
      BY <1>1, <2>2 DEF PInv, Fresh
    <2>4. PlansNow(current)
      BY <2>1, <2>3 DEF AtRest, InForce, Idle, Carrying
    <2>. QED
      BY <2>4 DEF PlansNow
  <1>. QED
    BY <1>1, PlannerInvariance, PTL
=============================================================================
