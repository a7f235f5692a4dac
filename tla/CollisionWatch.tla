--------------------------- MODULE CollisionWatch ---------------------------
(***************************************************************************)
(* How overlapping work is noticed and stopped: the read sets, write sets  *)
(* and intents the reducer keeps, collision detection at the authority     *)
(* (collide.ts, run by AuthorityTransport.publish), and the guard in every *)
(* daemon that refuses a write (freeze.ts) and claims the file instead.    *)
(*                                                                         *)
(* An event is applied when it is submitted, and published later, in the   *)
(* order of the log; detection runs when it has been published, on the     *)
(* room as it is by then.  A daemon decides on its replica, which is the   *)
(* room as of some published event.  A path is a number, in the order      *)
(* paths are sorted; a symbol is a pair of its file and a number.          *)
(***************************************************************************)
EXTENDS Integers, Sequences, FiniteSets

CONSTANTS
    Sessions,      \* session ids
    Remote,        \* those whose daemon lags behind what is published; the authority's own
                   \* daemon hears at once
    Files,         \* paths
    Symbols,       \* symbol keys
    Arrivals,      \* how sessions may stand at first
    MaxNamed,      \* how many hits the text of a collision names (3 in the code)
    MaxEvents      \* bound: events the agents, humans and workers cause

ASSUME SessionAssumption == IsFiniteSet(Sessions)
ASSUME SymbolAssumption == Files \subseteq Nat /\ Symbols \subseteq Files \X (Nat \ {0})
ASSUME RemoteAssumption == Remote \subseteq Sessions
ASSUME ArrivalAssumption == Arrivals \subseteq (SUBSET Files) \X (SUBSET Symbols)
ASSUME BoundAssumption == {MaxNamed, MaxEvents} \subseteq Nat

VARIABLES
    room,        \* the authority's room: sessions and collisions
    publishing,  \* events applied and not published yet, each with the room after it
    published,   \* the room as of the last published event
    announcing,  \* the `announcing` flag
    candidates,  \* collisions announceCollisions has still to submit
    view,        \* the room each remote daemon knows
    writing,     \* writes the hook let through whose tool has not reported
    recent,      \* writes the hook reported within the last five seconds, which the
                 \* watcher has not reported
    spent,       \* events so far, for the bound
    unheard,     \* history: sessions of which an event was published while announcing
    repeated     \* history: a collision was submitted again while it was open

vars == <<room, publishing, published, announcing, candidates, view, writing, recent,
          spent, unheard, repeated>>
-----------------------------------------------------------------------------
NoIntent == [files |-> {}, syms |-> {}, names |-> {}]
Joined == [status |-> "active", reads |-> {}, readSyms |-> {}, writes |-> {},
           intent |-> NoIntent]

Intents == [files : SUBSET Files, syms : SUBSET Symbols, names : SUBSET Files]
SessionInfos == [status : {"active", "ended"}, reads : SUBSET Files,
                 readSyms : SUBSET Symbols, writes : SUBSET Files, intent : Intents]

\* A collision's id is made of the writer, the others and what they share, or is a number
\* of its own (the reducer's collisions).  A file shared is <<file, 0>>.  The collision is
\* about the files of its symbols and those its text names.  "open" and "agreed" have
\* collision status open; "agreed" and "verified" are what freezeDenial calls settled.
Ids == [writer : Sessions, affected : SUBSET Sessions, keys : SUBSET (Files \X Nat), num : Nat]
Collisions == [id : Ids, about : SUBSET Files, predicted : BOOLEAN,
               state : {"open", "agreed", "verified"}]

SymbolsIn(files) == {k \in Symbols : k[1] \in files}

\* Rooms in which all have joined, some have read files, and nothing else has happened.
Readers == {[Joined EXCEPT !.reads = p[1], !.readSyms = p[2]] : p \in Arrivals}
FreshRooms == {[sess |-> f, col |-> {}] : f \in [Sessions -> Readers]}

Init ==
    /\ room \in FreshRooms /\ published = room
    /\ publishing = <<>> /\ candidates = <<>> /\ announcing = FALSE
    /\ view = [s \in Remote |-> room]
    /\ writing = [s \in Sessions |-> {}]
    /\ recent = [s \in Sessions |-> {}]
    /\ spent = 0
    /\ unheard = {} /\ repeated = FALSE
-----------------------------------------------------------------------------
(***************************************************************************)
(* The reducer.                                                            *)
(***************************************************************************)
Live(r, s) == r.sess[s].status = "active"

Parties(c) == {c.id.writer} \cup c.id.affected

\* openCollision: an id that is known stays as it is.
Opened(r, c) == IF \E d \in r.col : d.id = c.id THEN r ELSE [r EXCEPT !.col = @ \cup {c}]

FaultyAffectedBy(r, w, f) ==
    {s \in Sessions \ {w} : Live(r, s) /\ f \in r.sess[s].reads}

\* Whose work a write to f runs into: who has written it or claims it.
AffectedBy(r, w, f) ==
    {s \in Sessions \ {w} : Live(r, s) /\ f \in r.sess[s].writes \cup r.sess[s].intent.files}

Whole(files) == {<<f, 0>> : f \in files}

\* applyFileWrite.  The id is made of the event's seq; a count serves as well.
Written(r, w, f) ==
    LET hit  == AffectedBy(r, w, f)
        next == [r EXCEPT !.sess[w].writes = @ \cup {f}]
    IN  IF hit = {} THEN next
        ELSE Opened(next, [id |-> [writer |-> w, affected |-> hit, keys |-> Whole({f}),
                                   num |-> Cardinality(r.col) + 1],
                           about |-> {f}, predicted |-> FALSE, state |-> "open"])

\* An event: what it is, whose it is, and what it names.
Event(t, s, files, syms, names) ==
    [type |-> t, by |-> s, files |-> files, syms |-> syms, names |-> names]

\* applyEvent, for the events that move these parts of the state.
Applied(r, e) ==
    CASE e.type = "SESSION_STARTED" -> [r EXCEPT !.sess[e.by] = Joined]
      [] e.type = "SESSION_ENDED" -> [r EXCEPT !.sess[e.by].status = "ended"]
      [] e.type = "INTENT" ->
            [r EXCEPT !.sess[e.by].intent =
                [files |-> e.files, syms |-> e.syms, names |-> e.names]]
      [] e.type = "FILE_READ" ->
            [r EXCEPT !.sess[e.by].reads = @ \cup e.files,
                      !.sess[e.by].readSyms = @ \cup e.syms]
      [] e.type = "FILE_WRITE" -> Written(r, e.by, CHOOSE f \in e.files : TRUE)
      [] OTHER -> r
-----------------------------------------------------------------------------
(***************************************************************************)
(* Detection: collide.ts.                                                  *)
(***************************************************************************)
\* The symbols of a write are those the writer announced for the file.
TouchedSymbols(r, e) ==
    IF e.type = "INTENT" THEN e.syms
    ELSE {k \in r.sess[e.by].intent.syms : k[1] \in e.files}

FaultyTheirFiles(r, e, s) == r.sess[s].reads

\* Writes against writes are the reducer's; a claim has no write it could see.
TheirFiles(r, e, s) ==
    IF e.type = "INTENT"
    THEN r.sess[s].reads \cup r.sess[s].writes \cup r.sess[s].intent.files
    ELSE r.sess[s].reads

SymbolHits(r, e, s) ==
    TouchedSymbols(r, e) \cap (r.sess[s].readSyms \cup r.sess[s].intent.syms)

FileHits(r, e, s) == e.files \cap TheirFiles(r, e, s)

\* A symbol hit wins: the files are then left out.
Hits(r, e, s) ==
    IF SymbolHits(r, e, s) # {} THEN SymbolHits(r, e, s) ELSE Whole(FileHits(r, e, s))

\* The paths describe() puts in the text: the first hits, if they are paths, and
\* whatever the writer's task names.
Named(r, e, s) ==
    r.sess[e.by].intent.names \cup
    IF SymbolHits(r, e, s) # {} THEN {}
    ELSE {f \in FileHits(r, e, s) :
            Cardinality({g \in FileHits(r, e, s) : g < f}) < MaxNamed}

\* collisionId: a hash of the writer, the other and what they share.
CollisionId(r, e, s) ==
    [writer |-> e.by, affected |-> {s}, keys |-> Hits(r, e, s), num |-> 0]

IsOpen(r, id) == \E c \in r.col : c.id = id /\ c.state # "verified"

Candidate(r, e, s) ==
    [id |-> CollisionId(r, e, s),
     about |-> {k[1] : k \in SymbolHits(r, e, s)} \cup Named(r, e, s),
     predicted |-> SymbolHits(r, e, s) # {}, state |-> "open"]

\* detectCollisions: one candidate for each live session hit.
Detected(r, e) ==
    IF e.type \notin {"INTENT", "FILE_WRITE"} THEN {}
    ELSE {Candidate(r, e, s) : s \in {t \in Sessions \ {e.by} :
            Live(r, t) /\ Hits(r, e, t) # {} /\ ~IsOpen(r, CollisionId(r, e, t))}}
-----------------------------------------------------------------------------
(***************************************************************************)
(* The authority: AuthorityTransport.                                      *)
(***************************************************************************)
\* RoomCore.submit, and the publish that waits for the replicated log.
Submit(e) ==
    /\ room' = Applied(room, e)
    /\ publishing' = Append(publishing, [event |-> e, after |-> room'])

CollisionEvent(c) == Event("COLLISION", c.id.writer, {}, {}, {})

SubmitCollision(c) ==
    /\ room' = Opened(room, c)
    /\ publishing' = Append(Tail(publishing), [event |-> CollisionEvent(c), after |-> room'])
    /\ repeated' = (repeated \/ IsOpen(room, c.id))

\* A set in some order: that of the sessions' map.
Orders(S) == {q \in [1..Cardinality(S) -> S] : \A i, j \in DOMAIN q : q[i] = q[j] => i = j}

FaultyHeard == TRUE

\* The guard at the top of announceCollisions.
Heard == ~announcing

Settled == UNCHANGED <<view, writing, recent, spent>>

\* The log has the next event: listeners hear of it, and announceCollisions looks at
\* it, unless another announcement is under way.
AnnounceFrom(e) ==
    IF Heard /\ Detected(room, e) # {}
    THEN \E q \in Orders(Detected(room, e)) :
            /\ announcing' = TRUE
            /\ candidates' = candidates \o Tail(q)
            /\ SubmitCollision(Head(q))
            /\ UNCHANGED unheard
    ELSE /\ publishing' = Tail(publishing)
         /\ unheard' = IF announcing THEN unheard \cup {e.by} ELSE unheard
         /\ UNCHANGED <<room, announcing, candidates, repeated>>

PublishEvent ==
    /\ publishing # <<>> /\ Head(publishing).event.type # "COLLISION"
    /\ published' = Head(publishing).after
    /\ AnnounceFrom(Head(publishing).event)
    /\ Settled

\* The flag is cleared after the last collision, whatever comes (finally).
StillAnnouncing == candidates # <<>>

\* A collision has been published: announceCollisions goes on with its next one.
PublishCollision ==
    /\ publishing # <<>> /\ Head(publishing).event.type = "COLLISION"
    /\ published' = Head(publishing).after
    /\ IF candidates # <<>>
       THEN /\ candidates' = Tail(candidates)
            /\ SubmitCollision(Head(candidates))
       ELSE /\ publishing' = Tail(publishing)
            /\ UNCHANGED <<room, candidates, repeated>>
    /\ announcing' = StillAnnouncing
    /\ UNCHANGED unheard
    /\ Settled
-----------------------------------------------------------------------------
(***************************************************************************)
(* The daemons.                                                            *)
(***************************************************************************)
AtAuthority == UNCHANGED <<published, announcing, candidates, unheard, repeated>>

Spend == spent < MaxEvents /\ spent' = spent + 1

\* The room the daemon of s decides on.
View(s) == IF s \in Remote THEN view[s] ELSE published

Receive(s) ==
    /\ s \in Remote /\ view[s] # published
    /\ view' = [view EXCEPT ![s] = published]
    /\ UNCHANGED <<room, publishing, writing, recent, spent>> /\ AtAuthority

Released(c) == c.state \in {"agreed", "verified"}

\* Rule 1 of freezeDenial: a symbol in dispute.
InDispute(r, s, f) ==
    \E c \in r.col : /\ c.state = "open" /\ c.predicted
                     /\ s \in Parties(c) /\ f \in c.about

\* Rule 2: another live session has touched the file, and nothing between the two
\* has been settled.
Between(r, s, t, f) == {c \in r.col : {s, t} \subseteq Parties(c) /\ f \in c.about}

TouchedBy(r, t, f) ==
    Live(r, t) /\ f \in r.sess[t].writes \cup r.sess[t].intent.files \cup r.sess[t].reads

Blocks(r, s, t, f) ==
    t # s /\ TouchedBy(r, t, f) /\ ~\E c \in Between(r, s, t, f) : Released(c)

FreezeDenial(r, s, f) == InDispute(r, s, f) \/ \E t \in Sessions : Blocks(r, s, t, f)

\* The hook refuses: frozen, or leased by another (RoomCore).  claimFiles widens the
\* intent the replica shows by the file, unless it is there already.
Refuse(s, f) ==
    LET claim == View(s).sess[s].intent
        names == IF claim = NoIntent THEN {f} ELSE claim.names
    IN  /\ f \notin claim.files
        /\ Spend
        /\ Submit(Event("INTENT", s, claim.files \cup {f}, claim.syms, names))
        /\ UNCHANGED <<view, writing, recent>> /\ AtAuthority

Frozen(s, f) == FreezeDenial(View(s), s, f) /\ Refuse(s, f)
Leased(s, f) == ~FreezeDenial(View(s), s, f) /\ Refuse(s, f)

\* The hook lets the tool go ahead.
Allow(s, f) ==
    /\ ~FreezeDenial(View(s), s, f)
    /\ f \notin writing[s]
    /\ Spend
    /\ writing' = [writing EXCEPT ![s] = @ \cup {f}]
    /\ UNCHANGED <<room, publishing, view, recent>> /\ AtAuthority

\* The tool has written, and the hook after it reports.
ReportWrite(s, f) ==
    /\ f \in writing[s]
    /\ writing' = [writing EXCEPT ![s] = @ \ {f}]
    /\ recent' = [recent EXCEPT ![s] = @ \cup {f}]
    /\ Submit(Event("FILE_WRITE", s, {f}, {}, {}))
    /\ UNCHANGED <<view, spent>> /\ AtAuthority

\* The watcher reports the change too, as the agent's if the hook has just reported it.
Flush(s, f) ==
    /\ f \in recent[s]
    /\ recent' = [recent EXCEPT ![s] = @ \ {f}]
    /\ Submit(Event("FILE_WRITE", s, {f}, {}, {}))
    /\ UNCHANGED <<view, writing, spent>> /\ AtAuthority

\* It came before the hook's report, or more than five seconds after it, and reports a
\* human's write: in no session, so that nothing here hears of it.
FlushAsHuman(s, f) ==
    /\ f \in recent[s]
    /\ recent' = [recent EXCEPT ![s] = @ \ {f}]
    /\ UNCHANGED <<room, publishing, view, writing, spent>> /\ AtAuthority

\* What the agent or its host reports besides: it starts (again), ends, announces an
\* intent over MCP, or has read a file, whose symbols the index may not know.
Report(s, t, files, syms) ==
    /\ Spend
    /\ Submit(Event(t, s, files, syms, {}))
    /\ UNCHANGED <<view, writing, recent>> /\ AtAuthority

Start(s) == Report(s, "SESSION_STARTED", {}, {})
End(s) == Live(room, s) /\ Report(s, "SESSION_ENDED", {}, {})
Read(s, f) ==
    \E syms \in {{}, SymbolsIn({f})} :
        Report(s, "FILE_READ", {f}, syms)
AnnounceIntent(s) ==
    \E files \in SUBSET Files, syms \in SUBSET Symbols :
        /\ files # {} /\ \A k \in syms : k[1] \in files
        /\ Report(s, "INTENT", files, syms)

\* A negotiation ends in an agreement, escalates or is verified (Negotiation).
Outcomes == {<<"open", "agreed">>, <<"agreed", "open">>, <<"agreed", "verified">>}
Negotiate(c) ==
    /\ Spend
    /\ \E o \in Outcomes :
           /\ c.state = o[1]
           /\ room' = [room EXCEPT !.col = (@ \ {c}) \cup {[c EXCEPT !.state = o[2]]}]
    /\ publishing' = Append(publishing,
           [event |-> Event("NEGOTIATED", c.id.writer, {}, {}, {}), after |-> room'])
    /\ UNCHANGED <<view, writing, recent>> /\ AtAuthority

Next ==
    \/ PublishEvent \/ PublishCollision
    \/ \E s \in Sessions :
          \/ Receive(s) \/ Start(s) \/ End(s) \/ AnnounceIntent(s)
          \/ \E f \in Files : \/ Frozen(s, f) \/ Leased(s, f) \/ Allow(s, f) \/ Read(s, f)
                              \/ ReportWrite(s, f) \/ Flush(s, f) \/ FlushAsHuman(s, f)
    \/ \E c \in room.col : Negotiate(c)

Spec == Init /\ [][Next]_vars
-----------------------------------------------------------------------------
(***************************************************************************)
(* Properties.                                                             *)
(***************************************************************************)
EventTypes == {"SESSION_STARTED", "SESSION_ENDED", "INTENT", "FILE_READ", "FILE_WRITE",
               "COLLISION", "NEGOTIATED"}
IsRoom(r) ==
    /\ r.sess \in [Sessions -> SessionInfos]
    /\ \A c \in r.col : c \in Collisions
    /\ \A c, d \in r.col : c.id = d.id => c = d

(***************************************************************************)
(* The variables keep their types, no collision is in the room twice, and  *)
(* collisions wait to be submitted only while the authority announces.     *)
(***************************************************************************)
CollisionTypeOK ==
    /\ IsRoom(room) /\ IsRoom(published)
    /\ \A s \in Remote : IsRoom(view[s])
    /\ \A i \in DOMAIN publishing :
          publishing[i].event.type \in EventTypes /\ IsRoom(publishing[i].after)
    /\ announcing \in BOOLEAN /\ (candidates # <<>> => announcing)
    /\ announcing => \E i \in DOMAIN publishing : publishing[i].event.type = "COLLISION"
    /\ writing \in [Sessions -> SUBSET Files]
    /\ recent \in [Sessions -> SUBSET Files]

(***************************************************************************)
(* Two live agents that have both written a file share a collision about   *)
(* it, whichever wrote first and whatever each knew: guards read replicas  *)
(* that lag, so both may be let through, and only the order of the log     *)
(* (applyFileWrite, reduce.ts) can tell.                                   *)
(***************************************************************************)
WritersMeet ==
    \A s, t \in Sessions : \A f \in Files :
        (/\ s # t /\ Live(room, s) /\ Live(room, t)
         /\ f \in room.sess[s].writes \cap room.sess[t].writes)
        => Between(room, s, t, f) # {}

Claims(s, f) == Live(room, s) /\ f \in room.sess[s].intent.files
Pending(s) == \E i \in DOMAIN publishing : publishing[i].event.by = s
AnnouncedTo(s) == \E i \in DOMAIN candidates : s \in Parties(candidates[i])

(***************************************************************************)
(* Two live agents that claim one file share a collision: the claim is     *)
(* what detection sees of a write that was refused (claimFiles, daemon.ts; *)
(* detectCollisions, collide.ts).  Unless the later claim is still to be   *)
(* published or its collision to be submitted, or an event of one of them  *)
(* was published while another collision was being announced.              *)
(***************************************************************************)
ClaimantsMeet ==
    \A s, t \in Sessions : \A f \in Files :
        (s # t /\ Claims(s, f) /\ Claims(t, f))
        => \/ \E c \in room.col : {s, t} \subseteq Parties(c)
           \/ Pending(s) \/ Pending(t)
           \/ AnnouncedTo(s) \/ AnnouncedTo(t)
           \/ s \in unheard \/ t \in unheard

(***************************************************************************)
(* "a collision is opened exactly once no matter which laptop provoked it" *)
(* (authority-transport.ts): however publishing and announcing interleave, *)
(* no collision is submitted again while it is open.                       *)
(***************************************************************************)
OpenedOnce == ~repeated

(***************************************************************************)
(* "without this the two frozen agents would have nothing a human could    *)
(* release" (claimFiles, daemon.ts): once an agent has claimed a file that *)
(* it is refused, and all is published, there is a collision about the     *)
(* file that a human can release.                                          *)
(***************************************************************************)
RefusalsCanBeReleased ==
    \A s \in Sessions : \A f \in Files :
        (/\ publishing = <<>> /\ View(s) = room
         /\ Claims(s, f) /\ FreezeDenial(room, s, f))
        => \E c \in room.col : s \in Parties(c) /\ f \in c.about
=============================================================================
