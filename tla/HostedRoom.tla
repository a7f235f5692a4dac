----------------------------- MODULE HostedRoom -----------------------------
(***************************************************************************)
(* The hosted room (apps/coordinator/src/room-do.ts): a Durable Object     *)
(* around RoomCore, its sockets and its one alarm; the daemon's resuming   *)
(* client (apps/daemon/src/room-client.ts); the dashboard's stream and the  *)
(* sockets of its buttons (apps/web/lib: room-stream.ts,                   *)
(* use-room-stream.ts, human-actions.ts).                                  *)
(*                                                                         *)
(* The store is synchronous and so is every handler up to its last line,   *)
(* so a handler is one step here; RoomCore looks at what lies between two  *)
(* appends.  Leaving memory changes nothing: the object hydrates from its  *)
(* log, and its sockets and its alarm are the runtime's to keep.           *)
(***************************************************************************)
EXTENDS Integers, Sequences, FiniteSets, SequencesExt, Subsequences

CONSTANTS
    Daemons,       \* RoomClients, each speaking for one session
    Dashboards,    \* streams of browser tabs
    Asks,          \* presses of a button there, each with a socket of its own
    SessionOf,     \* the sessionId a daemon's HELLO names
    Symbols,       \* symbol keys a lease can name
    Paths, PathOf, \* repository paths, and the one a symbol key lies in
    Nil,           \* no session, no path
    LeaseTtl, HeartbeatLog,
    ReplayBatch,   \* events in one frame of a replay
    MaxSockets,    \* bound: connections ever made
    MaxMoves,      \* bound: what clients send
    ClientsUntil,  \* bound: they stop after this time
    MaxNow         \* bound: the clock stays within 0..MaxNow

Readers == Daemons \cup Dashboards
Clients == Readers \cup Asks
Sessions == {SessionOf[d] : d \in Daemons}

ASSUME HostedAssumption ==
    /\ Daemons \cap Dashboards = {} /\ Asks \cap Readers = {}
    /\ Daemons # {} /\ IsFiniteSet(Daemons)
    /\ Nil \notin Sessions /\ Nil \notin Paths
    /\ PathOf \in [Symbols -> Paths]
    /\ LeaseTtl \in Nat \ {0} /\ ReplayBatch \in Nat \ {0} /\ HeartbeatLog \in Nat
    /\ {MaxSockets, MaxMoves, ClientsUntil, MaxNow} \subseteq Nat

VARIABLES
    now,
    log,       \* the events table
    room,      \* RoomCore.state
    hist,      \* history: hist[n + 1] is the room after log[n]
    alarm,     \* when the object's alarm is due, or Never
    missed,    \* history: the alarm went off to an empty object, and was not set since
    sockets,   \* every connection ever made, in the order they were accepted
    conn,      \* the client's end: its socket, 0 before one, Closed for good
    pending,   \* RoomClient.pending: submitted, not answered
    refused,   \* history: ids of the submits the room has refused
    position,  \* the daemon's cursor file; a stream's lastSeq
    taken,     \* what a client was given so far: onEvents, StreamState.events
    view,      \* StreamState.roomState
    moves      \* for the bound; it also numbers new events

vars == <<now, log, room, hist, alarm, missed, sockets, conn, pending, refused,
          position, taken, view, moves>>

\* The room's own rules are RoomCore's.  A tick is long against the number of
\* events in it, so that no stamp runs ahead of the clock.
Core == INSTANCE RoomCore WITH
    SnapshotEvery <- 100, DiskFaults <- FALSE,
    ClockStepsBack <- FALSE, MaxSeq <- 0, MaxFaults <- 0, lastTs <- -1, mode <- "up",
    cursor <- 0, todo <- {}, durable <- Len(log), snap <- room, faults <- 0

Never == -1
Closed == -1
-----------------------------------------------------------------------------
(***************************************************************************)
(* RoomCore behind the adapter.                                            *)
(***************************************************************************)
\* Definitions named Faulty... are no part of the model: each is a mistake the
\* definition after it could have been written with, for the mutation checks.

\* Dashboard-only payloads leave sessions and leases alone.
Market == [Core!Blank EXCEPT !.type = "MARKET_OPENED"]

IsAgentVisible(e) == e.type # "MARKET_OPENED"

Applied(r, e) ==
    IF IsAgentVisible(e) \/ e.seq <= r.seq THEN Core!Reduce(r, e) ELSE [r EXCEPT !.seq = e.seq]

\* What a room goes through as events are reduced into it one after the other.
Reduced(r, es) ==
    LET states[n \in 0 .. Len(es)] == IF n = 0 THEN r ELSE Applied(states[n - 1], es[n])
    IN states

\* append, once for each event of a handler: every event gets the next seq.
Stamped(es) == [n \in DOMAIN es |-> [es[n] EXCEPT !.seq = room.seq + n, !.ts = now]]

\* What the appends leave: the table, the state, and its history.
Appended(es) ==
    LET states == Reduced(room, Stamped(es))
    IN [log |-> log \o Stamped(es), room |-> states[Len(es)],
        hist |-> hist \o [n \in DOMAIN es |-> states[n]]]

\* Events in the order of the leases they name: that of their grants.
InGrantOrder(es) ==
    LET tokens == Ascending({e.token : e \in es})
    IN [n \in DOMAIN tokens |-> CHOOSE e \in es : e.token = tokens[n]]

\* derive, for the event e as it was stamped.
Derivable(e) == IF IsAgentVisible(e) THEN InGrantOrder(Core!Derived(e, room)) ELSE <<>>

\* submit: the event, then what derive adds to it.
Submitted(e) == Appended(<<e>> \o Derivable(Stamped(<<e>>)[1]))

\* expireLeases and expireSessionLeases.
Expire(leases, why) == Appended(InGrantOrder({Core!Expired(l.token, why) : l \in leases}))

Known(e) == \E i \in DOMAIN log : log[i].id # 0 /\ log[i].id = e.id
-----------------------------------------------------------------------------
(***************************************************************************)
(* Who gets what.                                                          *)
(***************************************************************************)
\* A session's writeFiles as of entry n of table g: they begin empty when the
\* session starts (again), and a write adds its path.
Wrote(s, p, g, n) ==
    \E m \in 1 .. n :
        /\ g[m].type = "FILE_WRITE" /\ g[m].session = s /\ g[m].path = p
        /\ \A k \in m + 1 .. n : g[k].type = "SESSION_STARTED" => g[k].session # s

\* routeEvent, of entry n in room r.  What names symbols goes to the sessions that
\* have declared an interest in one, which here none does, and a write to those
\* that wrote to its path themselves.
RouteEvent(r, g, n) ==
    {s \in Sessions :
        /\ r.status[s] = "active"
        /\ \/ g[n].type \in {"SESSION_STARTED", "SESSION_ENDED"}
           \/ g[n].type = "FILE_WRITE" /\ Wrote(s, g[n].path, g, n)}

CanSee(c, e) == c \notin Daemons \/ IsAgentVisible(e)

\* recipients: the router narrows a daemon's live stream, not its replay.
Recipient(c, r, g, n) ==
    CanSee(c, g[n]) /\ (c \in Daemons => SessionOf[c] \in RouteEvent(r, g, n))

Frame == [type : {"WELCOME", "EVENTS", "ACK", "ERROR"}, room : Core!Room,
          events : Seq(Nat), id : Nat]

Welcome(r)   == [type |-> "WELCOME", room |-> r, events |-> <<>>, id |-> 0]
Events(seqs) == [type |-> "EVENTS", room |-> Core!EmptyRoom, events |-> seqs, id |-> 0]
Ack(e)       == [type |-> "ACK", room |-> Core!EmptyRoom, events |-> <<>>, id |-> e.id]
Error(e)     == [type |-> "ERROR", room |-> Core!EmptyRoom, events |-> <<>>, id |-> e.id]

Open == {i \in DOMAIN sockets : sockets[i].open}

\* broadcast: to every greeted socket the router allows.  A dead one is no
\* obstacle, and what is sent to it is lost.
Broadcast(socks, st) ==
    [i \in DOMAIN socks |->
        LET c == socks[i].client
            fresh == Ascending({n \in Len(log) + 1 .. Len(st.log) :
                                   Recipient(c, st.room, st.log, n)})
        IN IF socks[i].open /\ socks[i].greeted /\ socks[i].live
           THEN [socks[i] EXCEPT !.down = @ \o [n \in DOMAIN fresh |-> Events(<<fresh[n]>>)]]
           ELSE socks[i]]

Expiries(r) == {l.expiresAt : l \in r.leases}

FaultyNextAlarm(r) ==
    LET ahead == {t \in Expiries(r) : t > now}
    IN IF ahead = {} THEN Never ELSE CHOOSE t \in ahead : \A u \in ahead : t <= u

\* scheduleNextAlarm
NextAlarm(r) == IF r.leases = {} THEN Never
                ELSE CHOOSE t \in Expiries(r) : \A u \in Expiries(r) : t <= u

\* What a handler that appended leaves behind.
Commit(after, socks) ==
    \E st \in {after} :
       /\ log' = st.log
       /\ room' = st.room
       /\ hist' = st.hist
       /\ sockets' = Broadcast(socks, st)
       /\ alarm' = NextAlarm(st.room)
       /\ missed' = FALSE

Unchanged == UNCHANGED <<log, room, hist, alarm, missed>>
ClientsUnchanged == UNCHANGED <<conn, pending, position, taken, view>>
-----------------------------------------------------------------------------
(***************************************************************************)
(* The client's side.                                                      *)
(***************************************************************************)
Send(i, msgs) == [sockets EXCEPT ![i].up = @ \o msgs]

Hello(from) == [type |-> "HELLO", from |-> from, event |-> Core!Blank]
Submission(e) == [type |-> "SUBMIT", from |-> 0, event |-> e]
Heartbeat == [type |-> "HEARTBEAT", from |-> 0, event |-> Core!Blank]

NewSocket(c, up) == [client |-> c, open |-> TRUE, live |-> TRUE, greeted |-> FALSE,
                     up |-> up, down |-> <<>>]

FaultyUnacknowledged(d) ==
    LET ids == Ascending({-e.id : e \in pending[d]})
    IN [n \in DOMAIN ids |-> Submission(CHOOSE e \in pending[d] : e.id = -ids[n])]

Unacknowledged(d) ==
    LET ids == Ascending({e.id : e \in pending[d]})
    IN [n \in DOMAIN ids |-> Submission(CHOOSE e \in pending[d] : e.id = ids[n])]

\* fetch accepts; the client's `open' handler says HELLO from where it is and
\* sends again whatever has not been answered, in the order it was submitted.
Connect(c) ==
    /\ conn[c] = 0
    /\ Len(sockets) < MaxSockets
    /\ sockets' = Append(sockets, NewSocket(c,
                      <<Hello(IF c \in Readers THEN position[c] ELSE 0)>>
                          \o (IF c \in Daemons THEN Unacknowledged(c) ELSE <<>>)))
    /\ conn' = [conn EXCEPT ![c] = Len(sockets')]
    /\ Unchanged
    /\ UNCHANGED <<now, pending, refused, position, taken, view, moves>>

MayMove == moves < MaxMoves /\ now <= ClientsUntil

\* RoomClient.submit: kept until answered, and sent when a socket is open.
Issue(d, e) ==
    /\ MayMove
    /\ moves' = moves + 1
    /\ LET new == [e EXCEPT !.id = moves + 1]
       IN /\ pending' = [pending EXCEPT ![d] = @ \cup {new}]
          /\ sockets' = IF conn[d] = 0 THEN sockets ELSE Send(conn[d], <<Submission(new)>>)
    /\ Unchanged
    /\ UNCHANGED <<now, conn, refused, position, taken, view>>

\* A write carries the token of a lease its sender knew of, which need not stand
\* any more, or none.
Issues(d) ==
    \/ Issue(d, Core!Started(SessionOf[d]))
    \/ Issue(d, Core!Ended(SessionOf[d]))
    \/ \E S \in SUBSET Symbols \ {{}} : Issue(d, Core!Requested(SessionOf[d], S))
    \/ \E l \in room.leases : l.session = SessionOf[d] /\ Issue(d, Core!Released(l.token))
    \/ \E p \in Paths, t \in {0} \cup Core!TokensIssued :
          Issue(d, Core!Write(SessionOf[d], p, t))

\* submitHumanAction: one event over one socket, sent once WELCOME is there.
\* ACK or ERROR ends it; so does the timer of four seconds, which a second press
\* of the button follows with another id.
Override == {Core!Released(l.token) : l \in room.leases} \cup {Market}

AskTakes(a) ==
    /\ conn[a] > 0
    /\ sockets[conn[a]].down # <<>>
    /\ LET frame == Head(sockets[conn[a]].down)
           read == [sockets EXCEPT ![conn[a]].down = Tail(@)]
       IN \/ /\ frame.type = "WELCOME"
             /\ MayMove
             /\ moves' = moves + 1
             /\ \E e \in Override :
                   sockets' = [read EXCEPT ![conn[a]].up =
                                  Append(@, Submission([e EXCEPT !.id = moves + 1]))]
             /\ UNCHANGED conn
          \/ /\ frame.type = "EVENTS"
             /\ sockets' = read
             /\ UNCHANGED <<conn, moves>>
          \/ /\ frame.type \in {"ACK", "ERROR"}
             /\ sockets' = [read EXCEPT ![conn[a]].live = FALSE, ![conn[a]].down = <<>>]
             /\ conn' = [conn EXCEPT ![a] = Closed]
             /\ UNCHANGED moves
    /\ Unchanged
    /\ UNCHANGED <<now, pending, refused, position, taken, view>>

Beats(d) ==
    /\ MayMove
    /\ conn[d] # 0
    /\ moves' = moves + 1
    /\ sockets' = Send(conn[d], <<Heartbeat>>)
    /\ Unchanged
    /\ ClientsUnchanged
    /\ UNCHANGED <<now, refused>>

\* Seqs of a frame the client has not passed.
Fresh(c, seqs) == Subsequence(seqs, {n \in DOMAIN seqs : seqs[n] > position[c]})

FaultyMoved(c, frame) ==
    LET fresh == Fresh(c, frame.events)
    IN IF frame.type = "WELCOME" THEN frame.room.seq
       ELSE IF fresh = <<>> THEN position[c] ELSE Last(fresh)

\* Only events move the position; the state in WELCOME may be ahead of it.
Moved(c, frame) ==
    LET fresh == Fresh(c, frame.events)
    IN IF fresh = <<>> THEN position[c] ELSE Last(fresh)

FaultyUnsettled(d, frame) ==
    IF frame.type = "WELCOME" THEN {} ELSE {e \in pending[d] : e.id # frame.id}

\* An ACK settles a submission, and so does an ERROR that names it: the caller is
\* told, and it is not sent again.
Unsettled(d, frame) == {e \in pending[d] : e.id # frame.id}

\* A WELCOME is the stream's new room state and the
\* daemon's log line.  A stream reduces into the state
\* it has, which leaves out what WELCOME had already brought it.
Take(c) ==
    /\ conn[c] # 0
    /\ sockets[conn[c]].down # <<>>
    /\ LET frame == Head(sockets[conn[c]].down)
           fresh == Fresh(c, frame.events)
       IN /\ sockets' = [sockets EXCEPT ![conn[c]].down = Tail(@)]
          /\ pending' = IF c \in Daemons
                        THEN [pending EXCEPT ![c] = Unsettled(c, frame)] ELSE pending
          /\ taken' = [taken EXCEPT ![c] = @ \o fresh]
          /\ position' = [position EXCEPT ![c] = Moved(c, frame)]
          /\ view' = IF c \in Daemons THEN view
                     ELSE [view EXCEPT ![c] =
                             IF frame.type = "WELCOME" THEN frame.room
                             ELSE Reduced(@, [n \in DOMAIN fresh |-> log[fresh[n]]])[Len(fresh)]]
    /\ Unchanged
    /\ UNCHANGED <<now, conn, refused, moves>>

\* The connection is lost, or an ask gives up, with what is under way: frames for
\* the client are gone, some of what it sent may still arrive.
Cut(c) ==
    LET i == conn[c]
    IN \E n \in 0 .. Len(sockets[i].up) :
            sockets' = [sockets EXCEPT ![i].live = FALSE, ![i].down = <<>>,
                                       ![i].up = SubSeq(@, 1, n)]

Lose(c) ==
    /\ now <= ClientsUntil
    /\ conn[c] > 0
    /\ Cut(c)
    /\ conn' = [conn EXCEPT ![c] = IF c \in Asks THEN Closed ELSE 0]
    /\ Unchanged
    /\ UNCHANGED <<now, pending, refused, position, taken, view, moves>>

\* The process of a daemon dies: the cursor file stays, the submits are gone.
Dies(d) ==
    /\ now <= ClientsUntil
    /\ conn[d] # 0
    /\ Cut(d)
    /\ conn' = [conn EXCEPT ![d] = 0]
    /\ pending' = [pending EXCEPT ![d] = {}]
    /\ Unchanged
    /\ UNCHANGED <<now, refused, position, taken, view, moves>>
-----------------------------------------------------------------------------
(***************************************************************************)
(* The object's handlers.                                                  *)
(***************************************************************************)
\* The k-th batch of a replay from start: the events in it the client may see.
Batch(c, start, k) ==
    LET first == start + (k - 1) * ReplayBatch + 1
        last == start + k * ReplayBatch
    IN {n \in first .. (IF last < Len(log) THEN last ELSE Len(log)) : CanSee(c, log[n])}

\* eventsSince, in batches; a batch with nothing for the client is not sent.
EventsSince(c, start) ==
    LET visible == Ascending({k \in 1 .. Len(log) : Batch(c, start, k) # {}})
    IN [k \in DOMAIN visible |-> Events(Ascending(Batch(c, start, visible[k])))]

\* welcome: everything after the client's position it may see.  A client ahead of
\* the room saw another history and starts over.
Replay(c, from) == EventsSince(c, IF from > room.seq THEN 0 ELSE from)

Reply(socks, i, frames) ==
    IF socks[i].live THEN [socks EXCEPT ![i].down = @ \o frames] ELSE socks

\* The next message of socket i, and the sockets once it has been taken off.
Incoming(i) == Head(sockets[i].up)
TakenOff(i) == [sockets EXCEPT ![i].up = Tail(@)]

Receives(i, type) ==
    /\ i \in Open
    /\ sockets[i].up # <<>>
    /\ Incoming(i).type = type

OnHello(i) ==
    /\ Receives(i, "HELLO")
    /\ sockets' = Reply([TakenOff(i) EXCEPT ![i].greeted = TRUE], i,
                        <<Welcome(room)>> \o Replay(sockets[i].client, Incoming(i).from))
    /\ Unchanged
    /\ ClientsUnchanged
    /\ UNCHANGED <<now, refused, moves>>

\* authorizeSubmit, of the events modelled here: what the room alone may say is
\* no client's, a market is no daemon's, and a daemon speaks for its own session.
Authorized(c, e) ==
    IF c \in Daemons
    THEN /\ e.type \notin {"LEASE_GRANTED", "LEASE_DENIED", "LEASE_EXPIRED", "MARKET_OPENED"}
         /\ e.session \in {Nil, SessionOf[c]}
    ELSE e.type \in {"LEASE_RELEASED", "MARKET_OPENED"}

\* SUBMIT: a known id is acknowledged again and nothing else happens.  What may
\* not be said, and a write that a lease fences off, is answered with an ERROR.
OnSubmit(i) ==
    /\ Receives(i, "SUBMIT")
    /\ sockets[i].greeted
    /\ LET e == Incoming(i).event
           Answered(frame) == Reply(TakenOff(i), i, <<frame>>)
       IN \/ /\ Authorized(sockets[i].client, e) /\ Known(e)
             /\ sockets' = Answered(Ack(e))
             /\ UNCHANGED refused /\ Unchanged
          \/ /\ Authorized(sockets[i].client, e) /\ ~Known(e) /\ Core!PassesFence(e)
             /\ Commit(Submitted(e), Answered(Ack(e)))
             /\ UNCHANGED refused
          \/ /\ Authorized(sockets[i].client, e) => ~Known(e) /\ ~Core!PassesFence(e)
             /\ sockets' = Answered(Error(e))
             /\ refused' = refused \cup {e.id}
             /\ Unchanged
    /\ ClientsUnchanged
    /\ UNCHANGED <<now, moves>>

\* HEARTBEAT is logged once in HeartbeatLog, for a session that is not ended.
OnHeartbeat(i) ==
    /\ Receives(i, "HEARTBEAT")
    /\ sockets[i].greeted
    /\ LET s == SessionOf[sockets[i].client]
       IN IF room.status[s] = "active" /\ now - room.heartbeatAt[s] >= HeartbeatLog
          THEN Commit(Appended(<<Core!Beat(s)>>), TakenOff(i))
          ELSE sockets' = TakenOff(i) /\ Unchanged
    /\ ClientsUnchanged
    /\ UNCHANGED <<now, refused, moves>>

\* webSocketClose frees what the socket's session holds, whether or not that
\* session has another socket by now; a socket that never said HELLO has none.
OnClose(i) ==
    /\ i \in Open
    /\ ~sockets[i].live
    /\ sockets[i].up = <<>>
    /\ LET gone == [sockets EXCEPT ![i].open = FALSE]
       IN IF sockets[i].greeted /\ sockets[i].client \in Daemons
          THEN Commit(Expire({l \in room.leases : l.session = SessionOf[sockets[i].client]},
                             "disconnect"), gone)
          ELSE sockets' = gone /\ Unchanged
    /\ ClientsUnchanged
    /\ UNCHANGED <<now, refused, moves>>

\* webSocketError only closes the socket.
OnError(i) ==
    /\ i \in Open
    /\ ~sockets[i].live
    /\ sockets' = [sockets EXCEPT ![i].open = FALSE, ![i].up = <<>>]
    /\ Unchanged
    /\ ClientsUnchanged
    /\ UNCHANGED <<now, refused, moves>>

\* The runtime calls alarm() once; it learns its room from the first socket,
\* and without one it returns and sets no further alarm.
Alarm ==
    /\ alarm # Never
    /\ alarm <= now
    /\ IF Open = {}
       THEN alarm' = Never /\ missed' = TRUE /\ UNCHANGED <<log, room, hist, sockets>>
       ELSE Commit(Expire(Core!Due, "ttl"), sockets)
    /\ ClientsUnchanged
    /\ UNCHANGED <<now, refused, moves>>

Tick ==
    /\ now < MaxNow
    /\ now' = now + 1
    /\ Unchanged
    /\ ClientsUnchanged
    /\ UNCHANGED <<sockets, refused, moves>>
-----------------------------------------------------------------------------
\* A room whose sessions have started, one of which was granted a lease, and whose
\* connections ended in errors: nobody is connected to it.
Begun ==
    LET who == SetToSeq(Sessions)
        asked == [Core!Requested(who[1], Symbols) EXCEPT !.seq = Len(who) + 1]
    IN [n \in DOMAIN who |-> [Core!Started(who[n]) EXCEPT !.seq = n]]
           \o <<asked, [Core!Grant(asked) EXCEPT !.seq = Len(who) + 2]>>

Init ==
    /\ now = 0
    /\ log = Begun
    /\ room = Reduced(Core!EmptyRoom, Begun)[Len(Begun)]
    /\ hist = [n \in 1 .. Len(Begun) + 1 |-> Reduced(Core!EmptyRoom, Begun)[n - 1]]
    /\ alarm = NextAlarm(room)
    /\ missed = FALSE
    /\ sockets = <<>>
    /\ conn = [c \in Clients |-> 0]
    /\ pending = [d \in Daemons |-> {}]
    /\ refused = {}
    /\ position = [c \in Readers |-> 0]
    /\ taken = [c \in Readers |-> <<>>]
    /\ view = [w \in Dashboards |-> Core!EmptyRoom]
    /\ moves = 0

ClientStep ==
    \/ \E c \in Clients : Connect(c) \/ Lose(c)
    \/ \E c \in Readers : Take(c)
    \/ \E d \in Daemons : Issues(d) \/ Beats(d) \/ Dies(d)
    \/ \E a \in Asks : AskTakes(a)

ObjectStep ==
    \/ \E i \in DOMAIN sockets :
          OnHello(i) \/ OnSubmit(i) \/ OnHeartbeat(i) \/ OnClose(i) \/ OnError(i)
    \/ Alarm

Next == ClientStep \/ ObjectStep \/ Tick

HostedSpec == Init /\ [][Next]_vars
-----------------------------------------------------------------------------
(***************************************************************************)
(* Properties.                                                             *)
(***************************************************************************)
\* Every variable holds what its declaration says, and the log has no gap.
HostedTypeOK ==
    /\ now \in 0 .. MaxNow
    /\ room \in Core!Room
    /\ Len(hist) = Len(log) + 1
    /\ \A i \in DOMAIN log : log[i].seq = i
    /\ alarm \in {Never} \cup 0 .. MaxNow + LeaseTtl
    /\ missed \in BOOLEAN
    /\ \A i \in DOMAIN sockets :
          /\ sockets[i].client \in Clients
          /\ sockets[i].down \in Seq(Frame)
          /\ sockets[i].live => conn[sockets[i].client] = i /\ sockets[i].open
    /\ position \in [Readers -> 0 .. Len(log)]
    /\ \A w \in Dashboards : view[w] \in Core!Room

\* Everything up to its position that the client is entitled to was given to
\* it, once and in order, over lost connections, restarts and overlapping
\* sockets: a stream has every event, a daemon every event routed to its
\* session.  A stream's room state is the room as it was at some event.
StreamsAreWhole ==
    /\ \A c \in Readers :
          /\ \A i, j \in DOMAIN taken[c] : i < j => taken[c][i] < taken[c][j]
          /\ \A n \in 1 .. position[c] :
                Recipient(c, hist[n + 1], log, n) =>
                    \E i \in DOMAIN taken[c] : taken[c][i] = n
    /\ \A w \in Dashboards : view[w] = hist[view[w].seq + 1]

\* Submits are sent again on every new connection while the old one may still
\* deliver them; yet each is logged once, and those of one daemon in the order
\* they were made: before a submit that waits for its answer is logged, all that
\* were made before it and wait as well are.  The exception is one the room has
\* refused: it waits until its ERROR is there, and when that is lost it is sent
\* again and may be let in then, behind later ones.
SubmitsLandInOrder ==
    /\ \A m, n \in DOMAIN log : log[m].id = log[n].id /\ log[m].id # 0 => m = n
    /\ \A d \in Daemons : \A e, f \in pending[d] : \A n \in DOMAIN log :
          e.id < f.id /\ log[n].id = f.id /\ e.id \notin refused
              => \E m \in 1 .. n - 1 : log[m].id = e.id

\* A submit leaves `pending' only when it is in the log, when the room has
\* refused it, or with its process.
SubmitsAreKept ==
    [][\A d \in Daemons : \A e \in pending[d] \ pending'[d] :
          Known(e) \/ e.id \in refused \/ Dies(d)]_vars

\* Every lease has an alarm that goes off no later than it expires, unless the
\* last alarm found no socket and nothing has been logged since.
AlarmCovers ==
    \A l \in room.leases : missed \/ (alarm # Never /\ alarm <= l.expiresAt)
=============================================================================
