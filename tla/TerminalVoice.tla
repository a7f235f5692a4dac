--------------------------- MODULE TerminalVoice ---------------------------
(***************************************************************************)
(* The terminal's voice: the queue policy (speech/index.js), its handle on *)
(* the synthesis worker (speech/engine.js, workers/tts.js) and the player  *)
(* process (speech/player.js). One line at a time: synthesise, play, next. *)
(***************************************************************************)
EXTENDS LineQueue

CONSTANTS
    Local,      \* this laptop's session
    VoiceAll,   \* the authority speaks for the whole room
    System,     \* the speaker of a line that belongs to the room
    MaxMutes    \* bound on mute changes

VARIABLES
    tQueue,     \* lines waiting
    tSeen,      \* sequence numbers met, spoken or not
    tLine,      \* the line being said, NoLine when the pump rests
    tMuted,     \* the person's explicit choices, speaker -> muted
    tModel,     \* the engine's promise of a loaded model
    tWorker,    \* the worker thread
    tAsked,     \* requests the worker holds
    tClosed,
    tMutes      \* mute changes made

voiceVars == <<tQueue, tSeen, tLine, tMuted, tModel, tWorker, tAsked, tClosed, tMutes>>

NoLine == [stage |-> "none"]
Voices == {l.speaker : l \in Lines}

\* "asking" waits for the worker, "voiced" holds audio, "playing" has a player
\* process; "over" is a settled promise whose continuation has not run.
Saying(line, stage) == [item |-> line, stage |-> stage, cancelled |-> FALSE]
Stages == {"asking", "voiced", "playing", "over"}

SpeaksByDefault(s) == s = Local \/ s = System \/ VoiceAll
IsMuted(s) == IF s \in DOMAIN tMuted THEN tMuted[s] ELSE ~SpeaksByDefault(s)

InitVoice ==
    /\ tQueue = <<>>
    /\ tSeen = {}
    /\ tLine = NoLine
    /\ tMuted = <<>>
    /\ tModel = "loading"
    /\ tWorker = "up"
    /\ tAsked = {}
    /\ tClosed = FALSE
    /\ tMutes = 0
-----------------------------------------------------------------------------
(* The pump.                                                               *)

\* A request reaches the worker once the model is loaded; a load that failed
\* settles it at once, and what is written to a dead worker is lost.
Speak(line) ==
    /\ tLine' = Saying(line, IF tModel = "failed" THEN "over" ELSE "asking")
    /\ tAsked' = IF tModel = "loaded" /\ tWorker = "up"
                 THEN tAsked \cup {line.seq} ELSE tAsked

Pump(queue) ==
    IF tClosed \/ queue = <<>>
    THEN tLine' = NoLine /\ tQueue' = queue /\ UNCHANGED tAsked
    ELSE LET best == Best(queue)
         IN  Speak(queue[best]) /\ tQueue' = RemoveAt(queue, best)

\* What an interruption makes of the line being said: a pending synthesis is
\* rejected at once, a player is killed and ends on its own.
FaultyCut(line) ==
    IF line = NoLine THEN line ELSE [line EXCEPT !.cancelled = TRUE]
Cut(line) ==
    IF line = NoLine THEN line
    ELSE [line EXCEPT !.cancelled = TRUE,
                      !.stage = IF @ = "asking" THEN "over" ELSE @]

\* The worker is told to drop everything, only when something was pending.
CutRequests(line, asked) ==
    IF line # NoLine /\ line.stage = "asking" THEN {} ELSE asked

MustCut(line) ==
    tLine # NoLine /\ IsUrgent(line) /\ ~IsUrgent(tLine.item)

Enqueue(line) ==
    /\ ~tClosed
    /\ line.seq \notin tSeen
    /\ tSeen' = tSeen \cup {line.seq}
    /\ LET joined == Queued(tQueue, line)
       IN  IF IsMuted(line.speaker)
           THEN UNCHANGED <<tQueue, tLine, tAsked>>
           ELSE IF ~Waits(joined, line)
           THEN tQueue' = joined /\ UNCHANGED <<tLine, tAsked>>
           ELSE IF tLine = NoLine
           THEN Pump(joined)
           ELSE /\ tQueue' = joined
                /\ tLine' = IF MustCut(line) THEN Cut(tLine) ELSE tLine
                /\ tAsked' = IF MustCut(line) THEN CutRequests(tLine, tAsked) ELSE tAsked
    /\ UNCHANGED <<tMuted, tModel, tWorker, tClosed, tMutes>>

\* The continuation of an awaited promise: audio is handed to the player unless
\* the line was cut meanwhile; anything else ends the line and the pump goes on.
Continue ==
    /\ tLine # NoLine
    /\ \/ /\ tLine.stage = "voiced"
          /\ ~tLine.cancelled
          /\ ~tClosed
          /\ \E plays \in BOOLEAN :
               tLine' = [tLine EXCEPT !.stage = IF plays THEN "playing" ELSE "over"]
          /\ UNCHANGED <<tQueue, tAsked>>
       \/ /\ \/ tLine.stage = "over"
             \/ tLine.stage = "voiced" /\ (tLine.cancelled \/ tClosed)
          /\ Pump(tQueue)
    /\ UNCHANGED <<tSeen, tMuted, tModel, tWorker, tClosed, tMutes>>

PlayerExits ==
    /\ tLine # NoLine
    /\ tLine.stage = "playing"
    /\ tLine' = [tLine EXCEPT !.stage = "over"]
    /\ UNCHANGED <<tQueue, tSeen, tMuted, tModel, tWorker, tAsked, tClosed, tMutes>>

Mute(s, muted) ==
    /\ tMutes < MaxMutes
    /\ tMutes' = tMutes + 1
    /\ tMuted' = [v \in DOMAIN tMuted \cup {s} |-> IF v = s THEN muted ELSE tMuted[v]]
    /\ tQueue' = IF muted THEN Unvoiced(tQueue, s) ELSE tQueue
    /\ LET cut == muted /\ tLine # NoLine /\ tLine.item.speaker = s
       IN  /\ tLine' = IF cut THEN Cut(tLine) ELSE tLine
           /\ tAsked' = IF cut THEN CutRequests(tLine, tAsked) ELSE tAsked
    /\ UNCHANGED <<tSeen, tModel, tWorker, tClosed>>

WorkerGoes == tWorker' = "down" /\ tAsked' = {}

\* Close drops the queue, cuts the line and shuts the player and the worker.
CloseVoice ==
    /\ ~tClosed
    /\ tClosed' = TRUE
    /\ tQueue' = <<>>
    /\ tLine' = Cut(tLine)
    /\ WorkerGoes
    /\ UNCHANGED <<tSeen, tMuted, tModel, tMutes>>
-----------------------------------------------------------------------------
(* The worker.                                                             *)

Asking == tLine # NoLine /\ tLine.stage = "asking"

\* An answer for a request nobody waits for any more is dropped.
WorkerAnswers(id, voiced) ==
    /\ tWorker = "up"
    /\ id \in tAsked
    /\ tAsked' = tAsked \ {id}
    /\ tLine' = IF Asking /\ tLine.item.seq = id
                THEN [tLine EXCEPT !.stage = IF voiced THEN "voiced" ELSE "over"]
                ELSE tLine
    /\ UNCHANGED <<tQueue, tSeen, tMuted, tModel, tWorker, tClosed, tMutes>>

\* A line that waited for the model is asked for when it arrives, and fails
\* with every other pending one when it does not.
ModelSettles(loaded) ==
    /\ tWorker = "up"
    /\ tModel = "loading"
    /\ tModel' = IF loaded THEN "loaded" ELSE "failed"
    /\ IF loaded
       THEN /\ tAsked' = IF Asking THEN tAsked \cup {tLine.item.seq} ELSE tAsked
            /\ UNCHANGED tLine
       ELSE /\ tLine' = IF Asking THEN [tLine EXCEPT !.stage = "over"] ELSE tLine
            /\ UNCHANGED tAsked
    /\ UNCHANGED <<tQueue, tSeen, tMuted, tWorker, tClosed, tMutes>>

\* An exit with code 0 is taken for a planned one and settles nothing.
WorkerDies(code) ==
    /\ tWorker = "up"
    /\ WorkerGoes
    /\ IF code = 0
       THEN UNCHANGED <<tModel, tLine>>
       ELSE /\ tModel' = IF tModel = "loading" THEN "failed" ELSE tModel
            /\ tLine' = IF Asking THEN [tLine EXCEPT !.stage = "over"] ELSE tLine
    /\ UNCHANGED <<tQueue, tSeen, tMuted, tClosed, tMutes>>
-----------------------------------------------------------------------------
NextVoice ==
    \/ \E l \in Lines : Enqueue(l)
    \/ \E s \in Voices, muted \in BOOLEAN : Mute(s, muted)
    \/ Continue
    \/ PlayerExits
    \/ CloseVoice
    \/ \E l \in Lines, voiced \in BOOLEAN : WorkerAnswers(l.seq, voiced)
    \/ \E loaded \in BOOLEAN : ModelSettles(loaded)
    \/ \E code \in {0, 1} : WorkerDies(code)

\* What the event loop, the player process and a live worker always do.
ModelAnswers == \E loaded \in BOOLEAN : ModelSettles(loaded)
RequestAnswered(l) == \E voiced \in BOOLEAN : WorkerAnswers(l.seq, voiced)

\* A line of the terminal that has been taken on and not yet said or dropped.
Unsaid(l) ==
    Waits(tQueue, l) \/ (tLine # NoLine /\ tLine.item = l)

\* The worker is gone with the model loaded: nothing more is ever synthesised.
Silenced == tWorker = "down"
=============================================================================
