----------------------------- MODULE RoomPanel -----------------------------
(***************************************************************************)
(* The negotiation panel of the terminal program (tui/ui/app.js): one      *)
(* collision at a time, drafted and explained by a model in a worker       *)
(* thread, sent to the room by a key. The subscription to the daemon       *)
(* (lib/room.js) brings the collisions, the worker (lib/inference.js,      *)
(* workers/qvac.js) answers by request id, and neither ever waits.         *)
(*                                                                         *)
(* A text is the set of collisions the answers in it were asked about. A   *)
(* command the interface returns runs before the next message.             *)
(***************************************************************************)
EXTENDS Naturals, SequencesExt

CONSTANTS
    Collisions,  \* collisions the daemon may open
    MaxKeys,     \* bound on the keys a person presses
    MaxBreaks    \* bound on broken subscription sockets

Nothing == [phase |-> "none"]
Busy == {"drafting", "explaining"}

VARIABLES
    vLink,      \* what the header says of the daemon
    vStreams,   \* sockets: dialling, live, failed with their close to come
    vRetry,     \* is a reconnection timer armed
    vAccess,    \* pending, authority or peer
    vPhase,     \* the model: loading, ready, failed or disabled
    vQueue, vSeen,
    vCurrent,   \* the collision on the panel, or Nothing
    vAskId,     \* the request the panel listens to, 0 for none
    vAsks,      \* requests made
    vWorker,    \* absent, loading, idle (no model), up or down
    vRunning,   \* requests the worker is answering
    vLost,      \* requests nobody will answer
    vOutgoing,  \* proposals on their way to the daemon
    vKeys, vBreaks

linkVars == <<vLink, vStreams, vRetry, vBreaks>>
draftVars == <<vCurrent, vQueue, vAskId, vAsks, vRunning, vLost>>
panelVars == <<linkVars, draftVars, vAccess, vPhase, vSeen, vWorker, vOutgoing, vKeys>>

InitPanel ==
    /\ vLink = "connecting"
    /\ vStreams = [dialling |-> 1, live |-> 0, failed |-> 0]
    /\ vRetry = FALSE
    /\ vAccess = "pending"
    /\ vPhase = "loading"
    /\ vQueue = <<>>
    /\ vSeen = {}
    /\ vCurrent = Nothing
    /\ vAskId = 0
    /\ vAsks = 0
    /\ vWorker = "absent"
    /\ vRunning = {}
    /\ vLost = {}
    /\ vOutgoing = {}
    /\ vKeys = 0
    /\ vBreaks = 0
-----------------------------------------------------------------------------
(* The subscription: one timer at a time, whatever the sockets report.     *)

RetryLater ==
    /\ vLink' = IF vRetry THEN vLink ELSE "retrying"
    /\ vRetry' = TRUE

Shifted(from, to) == [vStreams EXCEPT ![from] = @ - 1, ![to] = @ + 1]
LinkOnly == UNCHANGED <<draftVars, vAccess, vPhase, vSeen, vWorker, vOutgoing, vKeys>>

StreamConnects ==
    /\ vStreams.dialling > 0
    /\ vStreams' = Shifted("dialling", "live")
    /\ vLink' = "connected"
    /\ UNCHANGED <<vRetry, vBreaks>>
    /\ LinkOnly

StreamFails ==
    /\ vBreaks < MaxBreaks
    /\ vBreaks' = vBreaks + 1
    /\ \E stage \in {"dialling", "live"} :
         /\ vStreams[stage] > 0
         /\ vStreams' = Shifted(stage, "failed")
    /\ RetryLater
    /\ LinkOnly

\* The close of a failed socket may come after its replacement is up.
StreamCloses ==
    /\ vStreams.failed > 0
    /\ vStreams' = [vStreams EXCEPT !.failed = @ - 1]
    /\ RetryLater
    /\ UNCHANGED vBreaks
    /\ LinkOnly

RetryFires ==
    /\ vRetry
    /\ vRetry' = FALSE
    /\ vStreams' = [vStreams EXCEPT !.dialling = @ + 1]
    /\ UNCHANGED <<vLink, vBreaks>>
    /\ LinkOnly
-----------------------------------------------------------------------------
(* The panel.                                                              *)

Blank(c) ==
    [collision |-> c, phase |-> "drafting", raw |-> {}, contract |-> {}, explanation |-> {}]

\* What the daemon already knows, when no model is there to draft.
FromFacts(c) ==
    [Blank(c) EXCEPT !.phase = "ready", !.contract = {c}, !.explanation = {c}]

\* An empty generation falls back to the collision's own detail.
Tidied(raw, c) == IF raw = {} THEN {c} ELSE raw

\* A request gets the next id; a worker without a model swallows it.
Ask(c, running) ==
    /\ vAsks' = vAsks + 1
    /\ vAskId' = vAsks + 1
    /\ LET request == [id |-> vAsks + 1, about |-> c]
       IN  IF vWorker' = "up"
           THEN vRunning' = running \cup {request} /\ UNCHANGED vLost
           ELSE vRunning' = running /\ vLost' = vLost \cup {request.id}

Explain(c) == vCurrent' = Blank(c) /\ Ask(c, vRunning)

NoAsk == UNCHANGED <<vAsks, vRunning, vLost>>

\* The panel is free: the next collision of the queue, drafted by the model or,
\* without one, from the facts.
TakeNext(queue, ask) ==
    IF queue = <<>>
    THEN vCurrent' = Nothing /\ vQueue' = queue /\ vAskId' = ask /\ NoAsk
    ELSE /\ vQueue' = Tail(queue)
         /\ IF vPhase' = "ready"
            THEN Explain(Head(queue))
            ELSE vCurrent' = FromFacts(Head(queue)) /\ vAskId' = ask /\ NoAsk

PumpPanel(queue) ==
    IF vCurrent = Nothing
    THEN TakeNext(queue, vAskId)
    ELSE vQueue' = queue /\ UNCHANGED <<vCurrent, vAskId>> /\ NoAsk

Advance == TakeNext(vQueue, 0)

\* A collision is taken once, however often it is reported.
Intake(open) ==
    /\ vSeen' = vSeen \cup open
    /\ PumpPanel(vQueue \o SetToSeq(open \ vSeen))

\* Frames arrive over a stream that is up.
Listening == vStreams.live > 0

\* A frame of the daemon's state. The first one of an authority starts the
\* model.
RoomState(mode, open) ==
    /\ Listening
    /\ vAccess \in {"pending", mode}
    /\ vAccess' = mode
    /\ vPhase' = IF mode = "peer" THEN "disabled" ELSE vPhase
    /\ vWorker' = IF mode = "authority" /\ vWorker = "absent" THEN "loading" ELSE vWorker
    /\ Intake(open)
    /\ UNCHANGED <<linkVars, vOutgoing, vKeys>>

\* Only the answers to the request the panel listens to are for it.
FaultyMine(id) == vCurrent # Nothing
Mine(id) == id = vAskId /\ vCurrent # Nothing

\* What does not parse is replaced by a contract made of the collision's facts.
Drafted(raw, c) == {{c}, Tidied(raw, c)}

\* The contract first, then one more request that puts it into words.
FinishStep(running) ==
    LET c == vCurrent.collision
    IN  IF vCurrent.phase = "drafting"
        THEN /\ \E contract \in Drafted(vCurrent.raw, c) :
                  vCurrent' = [vCurrent EXCEPT !.contract = contract, !.raw = {},
                                               !.phase = "explaining"]
             /\ Ask(c, running)
        ELSE /\ vCurrent' = [vCurrent EXCEPT !.explanation = Tidied(vCurrent.raw, c),
                                             !.phase = "ready"]
             /\ vRunning' = running
             /\ UNCHANGED <<vAsks, vAskId, vLost>>

\* The model failed: whatever is missing is made of the collision's facts.
Degraded ==
    IF vCurrent = Nothing THEN Nothing
    ELSE [vCurrent EXCEPT
             !.explanation = Tidied(@, vCurrent.collision),
             !.contract = Tidied(@, vCurrent.collision),
             !.phase = "ready"]

FromWorker == UNCHANGED <<linkVars, vAccess, vSeen, vOutgoing, vKeys>>

\* A laptop whose daemon is not the authority takes no notice of the model.
ModelLoads ==
    /\ vWorker = "loading"
    /\ vWorker' = "up"
    /\ vPhase' = "ready"
    /\ PumpPanel(vQueue)
    /\ FromWorker

ModelFails ==
    /\ vWorker = "loading"
    /\ vWorker' = "idle"
    /\ vPhase' = "failed"
    /\ UNCHANGED draftVars
    /\ FromWorker

Delta(request) ==
    /\ request \in vRunning
    /\ Mine(request.id)
    /\ LET raw == vCurrent.raw \cup {request.about}
       IN  vCurrent' = [vCurrent EXCEPT !.raw = raw,
                            !.explanation = IF vCurrent.phase = "explaining" THEN raw ELSE @]
    /\ UNCHANGED <<vQueue, vAskId, vAsks, vRunning, vLost, vPhase, vWorker>>
    /\ FromWorker

\* The answer ends, or the worker reports that the run failed.
Answered(request, well) ==
    /\ request \in vRunning
    /\ UNCHANGED <<vQueue, vPhase, vWorker>>
    /\ LET running == vRunning \ {request}
       IN  IF Mine(request.id) /\ well
           THEN FinishStep(running)
           ELSE /\ vRunning' = running
                /\ vCurrent' = IF request.id = vAskId THEN Degraded ELSE vCurrent
                /\ UNCHANGED <<vAskId, vAsks, vLost>>
    /\ FromWorker

\* The thread exits. Code 0 is taken for a planned exit; any other code is an
\* error without an id, which the panel takes for its own.
ModelExits(code) ==
    /\ vWorker \in {"loading", "idle", "up"}
    /\ vWorker' = "down"
    /\ vRunning' = {}
    /\ vLost' = vLost \cup {r.id : r \in vRunning}
    /\ IF code = 0
       THEN UNCHANGED <<vPhase, vCurrent>>
       ELSE IF vPhase = "loading"
       THEN vPhase' = "failed" /\ UNCHANGED vCurrent
       ELSE vCurrent' = Degraded /\ UNCHANGED vPhase
    /\ UNCHANGED <<vQueue, vAskId, vAsks>>
    /\ FromWorker
-----------------------------------------------------------------------------
(* The keys.                                                               *)

Pressed ==
    /\ vKeys < MaxKeys
    /\ vKeys' = vKeys + 1
    /\ vCurrent # Nothing
    /\ UNCHANGED <<linkVars, vAccess, vPhase, vSeen, vWorker>>

Ready == vCurrent.phase = "ready"

\* Enter: two requests to the daemon, awaited off the panel.
Send ==
    /\ Pressed
    /\ Ready
    /\ vCurrent' = [vCurrent EXCEPT !.phase = "sending"]
    /\ vOutgoing' = vOutgoing \cup {[key |-> vKeys, collision |-> vCurrent.collision,
                                     contract |-> vCurrent.contract]}
    /\ UNCHANGED <<vQueue, vAskId, vAsks, vRunning, vLost>>

Dismiss ==
    /\ Pressed
    /\ Advance
    /\ UNCHANGED vOutgoing

Redraft ==
    /\ Pressed
    /\ Ready
    /\ vAccess = "authority"
    /\ Explain(vCurrent.collision)
    /\ UNCHANGED <<vQueue, vOutgoing>>

\* The outcome is taken for that of whatever is on the panel by then. Without a
\* contract the command throws before it reaches the daemon.
Sent(proposal, ok) ==
    /\ proposal \in vOutgoing
    /\ ok => proposal.contract # {}
    /\ vOutgoing' = vOutgoing \ {proposal}
    /\ UNCHANGED <<linkVars, vAccess, vPhase, vSeen, vWorker, vKeys>>
    /\ IF ok
       THEN Advance
       ELSE /\ vCurrent' = IF vCurrent = Nothing THEN Nothing
                           ELSE [vCurrent EXCEPT !.phase = "ready"]
            /\ UNCHANGED <<vQueue, vAskId, vAsks, vRunning, vLost>>
-----------------------------------------------------------------------------
NextPanel ==
    \/ StreamConnects
    \/ StreamFails
    \/ StreamCloses
    \/ RetryFires
    \/ \E mode \in {"authority", "peer"}, open \in SUBSET Collisions : RoomState(mode, open)
    \/ ModelLoads
    \/ ModelFails
    \/ \E request \in vRunning : Delta(request)
    \/ \E request \in vRunning, well \in BOOLEAN : Answered(request, well)
    \/ \E code \in {0, 1} : ModelExits(code)
    \/ Send
    \/ Dismiss
    \/ Redraft
    \/ \E proposal \in vOutgoing, ok \in BOOLEAN : Sent(proposal, ok)

\* A running worker comes to the end of the request the panel waits for.
AnswerEnds == \E request \in vRunning, well \in BOOLEAN : Answered(request, well)

\* What is on the panel, and what a person sends from it, is about its own
\* collision and never about one dismissed before (app.js askId, _explain).
DraftsAreOwn ==
    /\ vCurrent # Nothing =>
          vCurrent.raw \cup vCurrent.contract \cup vCurrent.explanation
              \subseteq {vCurrent.collision}
    /\ \A proposal \in vOutgoing : proposal.contract \subseteq {proposal.collision}

\* The panel is waiting for the model, and there is one to answer.
Waiting == vCurrent # Nothing /\ vCurrent.phase \in Busy /\ vAskId \notin vLost
=============================================================================
