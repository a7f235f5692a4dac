------------------------------ MODULE WakeInbox ------------------------------
(***************************************************************************)
(* What waits in a daemon for its agent, and what a managed runner holds   *)
(* of it (apps/daemon/src/inbox.ts). An inbox is a value here;             *)
(* ManagedRunner has one per session.                                      *)
(***************************************************************************)
EXTENDS Naturals, Sequences, FiniteSets, SequencesExt, Subsequences

CONSTANTS
    Sessions,   \* one daemon and one agent each
    MaxInbox,   \* MAX_INBOX_EVENTS
    MaxDepth    \* MAX_AUTOMATION_DEPTH

ASSUME InboxAssumption == MaxInbox \in Nat \ {0} /\ MaxDepth \in Nat \ {0}

(***************************************************************************)
(* An event that reaches agents: of its payload, what routing looks at. An *)
(* event that is no message never counts as automation: depth 0.           *)
(* `answers' is a history field, the events a managed reply is about.      *)
(***************************************************************************)
Message(from, to, conversation, depth, terminal, answers) ==
    [from |-> from, to |-> to, conversation |-> conversation,
     depth |-> depth, terminal |-> terminal, answers |-> answers]

RoutedTo(e, s) == e.to = s /\ e.from # s

FaultyShouldWake(e) == e.depth <= MaxDepth /\ ~e.terminal

ShouldWake(e) == e.depth < MaxDepth /\ ~e.terminal

(***************************************************************************)
(* The inbox: items in the order in which they wait, and the claims given  *)
(* out. A claim is named by its items; the code draws a random id.         *)
(***************************************************************************)
Item(seq, e) ==
    [seq |-> seq, from |-> e.from, conversation |-> e.conversation,
     depth |-> e.depth, wake |-> ShouldWake(e)]

EmptyInbox == [pending |-> <<>>, claims |-> {}]

Newest(items) ==
    SubSeq(items, IF Len(items) > MaxInbox THEN Len(items) - MaxInbox + 1 ELSE 1, Len(items))

Enqueue(inbox, item) == [inbox EXCEPT !.pending = Newest(Append(@, item))]

Eligible(inbox) == {i \in DOMAIN inbox.pending : inbox.pending[i].wake}

\* What a claim takes: all that the sender of the first eligible item has said in
\* that conversation.
Claimed(inbox) ==
    LET first == inbox.pending[CHOOSE i \in Eligible(inbox) : \A j \in Eligible(inbox) : i <= j]
    IN Subsequence(inbox.pending,
                   {i \in Eligible(inbox) :
                       /\ inbox.pending[i].from = first.from
                       /\ inbox.pending[i].conversation = first.conversation})

Remaining(inbox, items) ==
    Subsequence(inbox.pending,
                {i \in DOMAIN inbox.pending : inbox.pending[i] \notin ToSet(items)})

Claim(inbox) ==
    [pending |-> Remaining(inbox, Claimed(inbox)), claims |-> inbox.claims \cup {Claimed(inbox)}]

Complete(inbox, items) == [inbox EXCEPT !.claims = @ \ {items}]

FaultyRequeue(inbox, items) == [inbox EXCEPT !.pending = items \o @]

Requeue(inbox, items) ==
    IF items \in inbox.claims
    THEN [pending |-> items \o inbox.pending, claims |-> inbox.claims \ {items}]
    ELSE inbox

Consume(inbox) == [inbox EXCEPT !.pending = <<>>]

Pending(inbox) == {item.seq : item \in ToSet(inbox.pending)}

Held(inbox) == UNION {{item.seq : item \in ToSet(items)} : items \in inbox.claims}
=============================================================================
