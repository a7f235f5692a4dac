---------------------------- MODULE DesktopVoice ----------------------------
(***************************************************************************)
(* The desktop window's voice (ui/speech.js): the browser speaks, calls    *)
(* back late or not at all about lines it was told to drop, and timers     *)
(* restart the pump. A generation number tells a late callback from the    *)
(* current one.                                                            *)
(***************************************************************************)
EXTENDS LineQueue

CONSTANTS LocalAgent, SpeakForAll, RoomSpeaker, MaxClicks

VARIABLES
    dQueue, dSeen,
    dLine,       \* the line being said with its generation, Silence otherwise
    dGeneration,
    dTimers,     \* pump timers armed
    dUtterances, \* lines the browser may still call back about
    dMode,       \* normal, lively or off
    dMuted, dClicks

desktopVars == <<dQueue, dSeen, dLine, dGeneration, dTimers, dUtterances, dMode, dMuted, dClicks>>

Silence == [generation |-> 0]
Speakers == {l.speaker : l \in Lines}

MutedHere(s) ==
    IF s \in DOMAIN dMuted THEN dMuted[s]
    ELSE s # RoomSpeaker /\ ~SpeakForAll /\ s # LocalAgent

InitDesktop ==
    /\ dQueue = <<>>
    /\ dSeen = {}
    /\ dLine = Silence
    /\ dGeneration = 0
    /\ dTimers = 0
    /\ dUtterances = {}
    /\ dMode = "normal"
    /\ dMuted = <<>>
    /\ dClicks = 0

\* The pump on a queue, with whatever line is current.
PumpWith(queue, current, mode, generation) ==
    IF current # Silence \/ queue = <<>> \/ mode = "off"
    THEN /\ dQueue' = queue /\ dLine' = current /\ dGeneration' = generation
         /\ UNCHANGED dUtterances
    ELSE LET best == Best(queue)
             line == [item |-> queue[best], generation |-> generation + 1]
         IN  /\ dQueue' = RemoveAt(queue, best)
             /\ dLine' = line
             /\ dGeneration' = generation + 1
             /\ dUtterances' = dUtterances \cup {line}

Hear(line) ==
    /\ line.seq \notin dSeen
    /\ dSeen' = dSeen \cup {line.seq}
    /\ LET joined == Queued(dQueue, line)
           cut == dLine # Silence /\ IsUrgent(line) /\ ~IsUrgent(dLine.item)
       IN  IF dMode = "off" \/ MutedHere(line.speaker)
           THEN UNCHANGED <<dQueue, dLine, dGeneration, dUtterances, dTimers>>
           ELSE IF ~Waits(joined, line)
           THEN dQueue' = joined /\ UNCHANGED <<dLine, dGeneration, dUtterances, dTimers>>
           ELSE IF cut
           THEN /\ PumpWith(joined, Silence, dMode, dGeneration + 1)
                /\ dTimers' = dTimers + 1
           ELSE /\ PumpWith(joined, dLine, dMode, dGeneration)
                /\ UNCHANGED dTimers
    /\ UNCHANGED <<dMode, dMuted, dClicks>>

\* Cutting a line frees the pump at once; a timer runs it.
Interrupted ==
    IF dLine = Silence
    THEN UNCHANGED <<dLine, dGeneration, dTimers>>
    ELSE /\ dLine' = Silence
         /\ dGeneration' = dGeneration + 1
         /\ dTimers' = dTimers + 1

ToggleMute(s) ==
    /\ dClicks < MaxClicks
    /\ dClicks' = dClicks + 1
    /\ LET muted == ~MutedHere(s)
       IN  /\ dMuted' = [v \in DOMAIN dMuted \cup {s} |-> IF v = s THEN muted ELSE dMuted[v]]
           /\ dQueue' = IF muted THEN Unvoiced(dQueue, s) ELSE dQueue
           /\ IF muted /\ dLine # Silence /\ dLine.item.speaker = s
              THEN Interrupted ELSE UNCHANGED <<dLine, dGeneration, dTimers>>
    /\ UNCHANGED <<dSeen, dUtterances, dMode>>

\* Normal, lively, off, normal; switching off drops everything.
CycleMode ==
    /\ dClicks < MaxClicks
    /\ dClicks' = dClicks + 1
    /\ dMode' = [normal |-> "lively", lively |-> "off", off |-> "normal"][dMode]
    /\ IF dMode' = "off"
       THEN dQueue' = <<>> /\ Interrupted
       ELSE UNCHANGED <<dQueue, dLine, dGeneration, dTimers>>
    /\ UNCHANGED <<dSeen, dUtterances, dMuted>>

\* onend, or onerror for any cause: both finish the line if it is current.
BrowserCallsBack(u) ==
    /\ u \in dUtterances
    /\ dUtterances' = dUtterances \ {u}
    /\ IF dLine = u /\ dGeneration = u.generation
       THEN dLine' = Silence /\ dTimers' = dTimers + 1
       ELSE UNCHANGED <<dLine, dTimers>>
    /\ UNCHANGED <<dQueue, dSeen, dGeneration, dMode, dMuted, dClicks>>

TimerFires ==
    /\ dTimers > 0
    /\ dTimers' = dTimers - 1
    /\ PumpWith(dQueue, dLine, dMode, dGeneration)
    /\ UNCHANGED <<dSeen, dMode, dMuted, dClicks>>

NextDesktop ==
    \/ \E l \in Lines : Hear(l)
    \/ \E s \in Speakers : ToggleMute(s)
    \/ CycleMode
    \/ \E u \in dUtterances : BrowserCallsBack(u)
    \/ TimerFires

\* The browser ends the line it is saying; what it was told to drop it may
\* report whenever it likes.
CurrentEnds == dLine # Silence /\ BrowserCallsBack(dLine)

Unheard(l) ==
    Waits(dQueue, l) \/ (dLine # Silence /\ dLine.item = l)
=============================================================================
