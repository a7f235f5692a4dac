----------------------------- MODULE LineQueue -----------------------------
(***************************************************************************)
(* The queue of spoken lines that the terminal (speech/index.js) and the   *)
(* desktop window (ui/speech.js) each keep: the same cap, the same choice  *)
(* of what to drop and of what to say next.                                *)
(***************************************************************************)
EXTENDS Naturals, SequencesExt

CONSTANTS
    Lines,      \* the lines of the room: [seq, speaker, priority]
    MaxQueue,   \* how many lines may wait
    Urgent      \* the priority that cuts across a routine line

ASSUME QueueAssumption ==
    /\ MaxQueue \in Nat \ {0}
    /\ \A l \in Lines : l.priority \in 0 .. Urgent
    /\ \A l, k \in Lines : l.seq = k.seq => l = k

IsUrgent(line) == line.priority >= Urgent

\* The oldest of the lowest priority.
Victim(queue) ==
    CHOOSE i \in DOMAIN queue :
        \A j \in DOMAIN queue :
            /\ queue[i].priority <= queue[j].priority
            /\ j < i => queue[j].priority > queue[i].priority

\* The oldest of the highest priority.
Best(queue) ==
    CHOOSE i \in DOMAIN queue :
        \A j \in DOMAIN queue :
            /\ queue[i].priority >= queue[j].priority
            /\ j < i => queue[j].priority < queue[i].priority

\* A queue grows by one line at a time, so one eviction restores the cap.
Trimmed(queue) ==
    IF Len(queue) > MaxQueue THEN RemoveAt(queue, Victim(queue)) ELSE queue

Queued(queue, line) == Trimmed(Append(queue, line))

Waits(queue, line) == \E i \in DOMAIN queue : queue[i] = line

Unvoiced(queue, speaker) ==
    SelectSeq(queue, LAMBDA line : line.speaker # speaker)
=============================================================================
