------------------------------ MODULE RoomCore ------------------------------
(***************************************************************************)
(* The room's single writer (apps/coordinator/src/room-core.ts), with the  *)
(* part of the reducer (packages/reducer/src/reduce.ts) that keeps         *)
(* sessions and leases, the file-backed event store, and the calls the     *)
(* authority's transport makes into it.                                    *)
(*                                                                         *)
(* A handler of RoomCore is synchronous: it appends its first event and    *)
(* then the events that follow from it, and no other handler runs between. *)
(* Every append is a durable write of its own, so a crash can fall between *)
(* two of them.  The appends a handler still owes are in `todo'.           *)
(*                                                                         *)
(* A lease is named by its fencing token: the code makes both leaseId and  *)
(* fencingToken from the seq of the request.                               *)
(***************************************************************************)
EXTENDS Integers, Sequences, FiniteSets

CONSTANTS
    Sessions,       \* session ids
    Symbols,        \* symbol keys a lease can name
    Paths,          \* repository paths
    PathOf,         \* the path a symbol key lies in: key.split('#')[0], normalised
    Nil,            \* "no session", "no path"
    LeaseTtl,       \* ttlMs of every request
    HeartbeatLog,   \* HEARTBEAT_LOG_MS
    SnapshotEvery,  \* a snapshot every so many events
    DiskFaults,     \* may a write of events.jsonl fail while the process lives on?
    ClockStepsBack, \* may the authority's wall clock be set back?
    MaxSeq,         \* bound: clients and heartbeats stop once the log is this long
    ClientsUntil,   \* bound: they stop after this time too
    MaxNow,         \* bound: the wall clock stays within 0..MaxNow
    MaxFaults       \* bound: crashes of the authority process and failed writes

ASSUME PathOfAssumption == PathOf \in [Symbols -> Paths]
ASSUME NilAssumption == Nil \notin Sessions /\ Nil \notin Paths
ASSUME TimeAssumption ==
    /\ LeaseTtl \in Nat \ {0}
    /\ HeartbeatLog \in Nat
    /\ SnapshotEvery \in Nat \ {0}
ASSUME BoundAssumption == {MaxSeq, ClientsUntil, MaxNow, MaxFaults} \subseteq Nat
ASSUME FlagAssumption == DiskFaults \in BOOLEAN /\ ClockStepsBack \in BOOLEAN

VARIABLES
    now,      \* the authority's wall clock
    lastTs,   \* RoomCore.lastTs: the newest timestamp this process has seen or made
    mode,     \* "up", or "replaying" while the constructor hydrates
    cursor,   \* replaying: the next entry of the log to reduce; 0 otherwise
    room,     \* RoomCore.state
    todo,     \* the events the running handler has still to append
    log,      \* FileEventStore.events
    durable,  \* how many of them the file on disk holds: it is rewritten whole
    snap,     \* the snapshot file: a room state
    faults,   \* crashes and failed writes so far, for the bound
    hist      \* history: hist[n + 1] is the room the authority held after log[n]

vars == <<now, lastTs, mode, cursor, room, todo, log, durable, snap, faults, hist>>
-----------------------------------------------------------------------------
(***************************************************************************)
(* Data.  One record shape carries every payload; a field a payload does   *)
(* not have keeps its blank.  id 0 stands for the fresh ids the            *)
(* coordinator makes itself, which no client resends.                      *)
(***************************************************************************)
EventType == {"SESSION_STARTED", "SESSION_ENDED", "HEARTBEAT", "LEASE_REQUESTED",
              "LEASE_GRANTED", "LEASE_DENIED", "LEASE_RELEASED", "LEASE_EXPIRED",
              "FILE_WRITE"}

Event == [type : EventType, id : Nat, session : Sessions \cup {Nil},
          symbols : SUBSET Symbols, path : Paths \cup {Nil}, token : Nat,
          expiresAt : Nat, reason : {"", "ttl", "disconnect", "session_ended"},
          seq : Nat, ts : Nat]

Blank == [type |-> "SESSION_STARTED", id |-> 0, session |-> Nil, symbols |-> {},
          path |-> Nil, token |-> 0, expiresAt |-> 0, reason |-> "",
          seq |-> 0, ts |-> 0]

Lease == [token : Nat, grantedSeq : Nat, session : Sessions \cup {Nil},
          symbols : SUBSET Symbols, expiresAt : Nat]

Room == [seq : Nat,
         status : [Sessions -> {"unknown", "active", "ended"}],
         heartbeatAt : [Sessions -> Nat],
         leases : SUBSET Lease]

EmptyRoom == [seq |-> 0,
              status |-> [s \in Sessions |-> "unknown"],
              heartbeatAt |-> [s \in Sessions |-> 0],
              leases |-> {}]

\* The events a client, or the coordinator on its behalf, can put together.
Started(s)      == [Blank EXCEPT !.type = "SESSION_STARTED", !.session = s]
Ended(s)        == [Blank EXCEPT !.type = "SESSION_ENDED", !.session = s]
Beat(s)         == [Blank EXCEPT !.type = "HEARTBEAT", !.session = s]
Requested(s, S) == [Blank EXCEPT !.type = "LEASE_REQUESTED", !.session = s, !.symbols = S]
Released(t)     == [Blank EXCEPT !.type = "LEASE_RELEASED", !.token = t]
Expired(t, why) == [Blank EXCEPT !.type = "LEASE_EXPIRED", !.token = t, !.reason = why]
Write(s, p, t)  == [Blank EXCEPT !.type = "FILE_WRITE", !.session = s, !.path = p, !.token = t]
-----------------------------------------------------------------------------
(***************************************************************************)
(* The reducer's session and lease cases.                                  *)
(***************************************************************************)
\* Definitions named Faulty... are no part of the model: each is a mistake the
\* definition after it could have been written with, for the mutation checks.
FaultyWithoutSession(leases, s) == leases

WithoutSession(leases, s) == {l \in leases : l.session # s}
WithoutLease(leases, t)   == {l \in leases : l.token # t}

FaultyRenewedNever(leases, s, ts) == leases

\* A heartbeat renews every lease of its session, even one already past its
\* deadline that the expiry poll has not swept yet.
Renewed(leases, s, ts) ==
    {IF l.session = s THEN [l EXCEPT !.expiresAt = ts + LeaseTtl] ELSE l : l \in leases}

GrantedLease(e) ==
    [token |-> e.token, grantedSeq |-> e.seq, session |-> e.session,
     symbols |-> e.symbols, expiresAt |-> e.expiresAt]

EndedStatus(was) == IF was = "unknown" THEN was ELSE "ended"

ApplyEvent(r, e) ==
    CASE e.type = "SESSION_STARTED" ->
            [r EXCEPT !.status[e.session] = "active", !.heartbeatAt[e.session] = e.ts]
      [] e.type = "SESSION_ENDED" ->
            [r EXCEPT !.status[e.session] = EndedStatus(@),
                      !.leases = WithoutSession(@, e.session)]
      [] e.type = "HEARTBEAT" ->
            [r EXCEPT !.heartbeatAt[e.session] =
                            IF r.status[e.session] = "active" THEN e.ts ELSE @,
                      !.leases = Renewed(@, e.session, e.ts)]
      [] e.type = "LEASE_GRANTED" ->
            [r EXCEPT !.leases = WithoutLease(@, e.token) \cup {GrantedLease(e)}]
      [] e.type \in {"LEASE_RELEASED", "LEASE_EXPIRED"} ->
            [r EXCEPT !.leases = WithoutLease(@, e.token)]
      [] e.type \in {"LEASE_REQUESTED", "LEASE_DENIED", "FILE_WRITE"} -> r

Reduce(r, e) ==
    IF e.seq <= r.seq THEN r ELSE [ApplyEvent(r, e) EXCEPT !.seq = e.seq]
-----------------------------------------------------------------------------
(***************************************************************************)
(* append: stamp, reduce, store, snapshot.  Taken by every handler below   *)
(* for its first event, and by AppendOwed for the rest.                    *)
(***************************************************************************)
Stamp == IF now > lastTs + 1 THEN now ELSE lastTs + 1

Stamped(e) == [e EXCEPT !.seq = room.seq + 1, !.ts = Stamp]

\* saveSnapshot, once in SnapshotEvery events.
FaultySnapshot(before, after) ==
    IF after.seq % SnapshotEvery = 0 THEN [before EXCEPT !.seq = after.seq] ELSE snap

Snapshot(before, after) ==
    IF after.seq % SnapshotEvery = 0 THEN after ELSE snap

\* The bounds on what comes from outside.
WithinBounds == Len(log) < MaxSeq /\ now <= ClientsUntil

\* What an append leaves when its event has been stored.
Stores(e) ==
    /\ lastTs' = Stamp
    /\ log' = Append(log, Stamped(e))
    /\ room' = Reduce(room, Stamped(e))
    /\ hist' = Append(hist, room')
    /\ durable' = Len(log')
    /\ UNCHANGED <<now, mode, cursor>>

AppendEvent(e, owed) ==
    /\ Stores(e)
    /\ snap' = Snapshot(room, room')
    /\ todo' = owed
    /\ UNCHANGED faults

\* FileEventStore.append pushes to its arrays before it writes the whole of
\* them to the file.  When the write throws, the entry stays in memory and goes
\* to disk with the next one, RoomCore.append never gets to
\* `this.state = result.state', and the handler is abandoned.
StoreFails(e) ==
    /\ lastTs' = Stamp
    /\ log' = Append(log, Stamped(e))
    /\ hist' = Append(hist, room)
    /\ todo' = {}
    /\ UNCHANGED <<now, mode, cursor, room, durable, snap>>

\* The event is stored and applied, but writing the snapshot throws.
SnapshotFails(e) ==
    /\ (room.seq + 1) % SnapshotEvery = 0
    /\ Stores(e)
    /\ todo' = {}
    /\ UNCHANGED snap

AppendFails(e) ==
    /\ DiskFaults
    /\ faults < MaxFaults
    /\ faults' = faults + 1
    /\ StoreFails(e) \/ SnapshotFails(e)

\* A handler starts only when none is running: the code is synchronous.
Idle == mode = "up" /\ todo = {}
-----------------------------------------------------------------------------
(***************************************************************************)
(* submit                                                                  *)
(***************************************************************************)
FaultyLoggedIds == IF log = <<>> THEN {} ELSE {log[Len(log)].id} \ {0}

LoggedIds == {log[i].id : i \in DOMAIN log} \ {0}

\* A client makes a fresh id for a new event; resending keeps the id.
FreshId == Len(log) + 1

\* The leases that cover some symbol of a path.
LeasesOn(r, p) == {l \in r.leases : \E x \in l.symbols : PathOf[x] = p}

FaultyPassesFence(e) ==
    e.type = "FILE_WRITE" /\ LeasesOn(room, e.path) # {} =>
        \E l \in LeasesOn(room, e.path) : l.session = e.session

\* validateFencing, for an event that did not come from the coordinator: of the
\* leases on the path only the first counts, and Object.values lists them in the
\* order they were granted.
PassesFence(e) ==
    e.type = "FILE_WRITE" /\ LeasesOn(room, e.path) # {} =>
        \E l \in LeasesOn(room, e.path) :
            /\ \A k \in LeasesOn(room, e.path) : l.grantedSeq <= k.grantedSeq
            /\ l.session = e.session
            /\ l.token = e.token

FaultyConflicting(r, S) == {l \in r.leases : l.symbols = S}

Conflicting(r, S) == {l \in r.leases : l.symbols \cap S # {}}

Denial(e) == [Blank EXCEPT !.type = "LEASE_DENIED", !.session = e.session,
                           !.symbols = e.symbols]

FaultyGrant(e) == [Blank EXCEPT !.type = "LEASE_GRANTED", !.session = e.session,
                                !.symbols = e.symbols, !.token = 1 + Cardinality(room.leases),
                                !.expiresAt = e.ts + LeaseTtl]

Grant(e)  == [Blank EXCEPT !.type = "LEASE_GRANTED", !.session = e.session,
                           !.symbols = e.symbols, !.token = e.seq,
                           !.expiresAt = e.ts + LeaseTtl]

FaultyDerived(e, before) ==
    IF e.type = "LEASE_REQUESTED" /\ Conflicting(before, e.symbols) = {} THEN {Grant(e)} ELSE {}

\* derive: what the coordinator adds to a client's event.  `e' is stamped.
Derived(e, before) ==
    IF e.type = "LEASE_REQUESTED"
    THEN IF Conflicting(before, e.symbols) # {} THEN {Denial(e)} ELSE {Grant(e)}
    ELSE {Expired(l.token, "session_ended") :
              l \in {k \in before.leases : e.type = "SESSION_ENDED" /\ k.session = e.session}}

\* A retry of an id the store knows gets the first event back and nothing else
\* happens; a fenced-off write leaves no trace.
SubmitAs(e, owed) ==
    /\ Idle
    /\ WithinBounds
    /\ \/ e.id \in LoggedIds /\ UNCHANGED vars
       \/ e.id \notin LoggedIds /\ ~PassesFence(e) /\ UNCHANGED vars
       \/ e.id \notin LoggedIds /\ PassesFence(e) /\ (AppendEvent(e, owed) \/ AppendFails(e))

Submit(e) == SubmitAs(e, Derived(Stamped(e), room))

New(e) == [e EXCEPT !.id = FreshId]

TokensIssued == {log[i].token : i \in {j \in DOMAIN log : log[j].type = "LEASE_GRANTED"}}

\* What daemons send over their connection, each for its own session.  A write
\* carries the token of any lease its sender ever saw granted, or none: the
\* sender reads it from its own replica of the room, which may be stale.
StartSession(s)     == Submit(New(Started(s)))
LeaveSession(s)     == Submit(New(Ended(s)))
RequestLease(s, S)  == Submit(New(Requested(s, S)))
ReleaseLease(t)     == Submit(New(Released(t)))
WriteFile(s, p, t)  == Submit(New(Write(s, p, t)))

\* At-least-once delivery: a client sends an event again, at any later time.
Resend(i) ==
    /\ log[i].id # 0
    /\ Submit([log[i] EXCEPT !.seq = 0, !.ts = 0])
-----------------------------------------------------------------------------
(***************************************************************************)
(* What the coordinator does on its own.                                   *)
(***************************************************************************)

\* expireLeases, from the transport's poll: everything due is decided on at
\* once and appended one event at a time.
FaultyDue == {l \in room.leases : l.expiresAt <= now /\ room.status[l.session] = "active"}

Due == {l \in room.leases : l.expiresAt <= now}

ExpireLeases ==
    /\ Idle
    /\ Due # {}
    /\ todo' = {Expired(l.token, "ttl") : l \in Due}
    /\ UNCHANGED <<now, lastTs, mode, cursor, room, log, durable, snap, faults, hist>>

\* The transport's disconnect: expireSessionLeases, then endSession.
LeasesOf(s) == {l \in room.leases : l.session = s}

Disconnect(s) ==
    /\ Idle
    /\ todo' = {Expired(l.token, "disconnect") : l \in LeasesOf(s)}
                \cup (IF room.status[s] = "active" THEN {Ended(s)} ELSE {})
    /\ todo' # {}
    /\ UNCHANGED <<now, lastTs, mode, cursor, room, log, durable, snap, faults, hist>>

\* heartbeat: logged, but at most once per session in HeartbeatLog.
Heartbeat(s) ==
    /\ Idle
    /\ WithinBounds
    /\ room.status[s] = "active"
    /\ now - room.heartbeatAt[s] >= HeartbeatLog
    /\ AppendEvent(Beat(s), {}) \/ AppendFails(Beat(s))

\* The next append of the running handler.  Lease expiries go in the order the
\* leases were granted, a session's end after them.
Precedes(e, f) ==
    \/ e.type = "LEASE_EXPIRED" /\ f.type = "LEASE_EXPIRED" /\ e.token <= f.token
    \/ e.type = "LEASE_EXPIRED" /\ f.type = "SESSION_ENDED"

AppendOwed ==
    \E e \in todo :
        /\ \A f \in todo \ {e} : Precedes(e, f)
        /\ AppendEvent(e, todo \ {e}) \/ AppendFails(e)
-----------------------------------------------------------------------------
(***************************************************************************)
(* The process dies and the next one hydrates.  What was only in memory    *)
(* goes; the new RoomCore starts from the snapshot with lastTs = 0 and     *)
(* reduces the stored events after it, one by one.                         *)
(***************************************************************************)
Crash ==
    /\ faults < MaxFaults
    /\ faults' = faults + 1
    /\ log' = SubSeq(log, 1, durable)
    /\ hist' = SubSeq(hist, 1, durable + 1)
    /\ mode' = "replaying"
    /\ room' = snap
    /\ lastTs' = 0
    /\ \E c \in 1 .. Len(log') + 1 :
          /\ \A i \in 1 .. Len(log') : i < c <=> log'[i].seq <= snap.seq
          /\ cursor' = c
    /\ todo' = {}
    /\ UNCHANGED <<now, durable, snap>>

Replay ==
    /\ mode = "replaying"
    /\ cursor <= Len(log)
    /\ room' = Reduce(room, log[cursor])
    /\ lastTs' = IF log[cursor].ts > lastTs THEN log[cursor].ts ELSE lastTs
    /\ cursor' = cursor + 1
    /\ UNCHANGED <<now, mode, todo, log, durable, snap, faults, hist>>

Hydrated ==
    /\ mode = "replaying"
    /\ cursor > Len(log)
    /\ mode' = "up"
    /\ cursor' = 0
    /\ UNCHANGED <<now, lastTs, room, todo, log, durable, snap, faults, hist>>

\* Date.now() between two handlers.
Tick ==
    /\ now < MaxNow
    /\ now' = now + 1
    /\ UNCHANGED <<lastTs, mode, cursor, room, todo, log, durable, snap, faults, hist>>

ClockSetBack ==
    /\ ClockStepsBack
    /\ \E t \in 0 .. now - 1 : now' = t
    /\ UNCHANGED <<lastTs, mode, cursor, room, todo, log, durable, snap, faults, hist>>
-----------------------------------------------------------------------------
Init ==
    /\ now = 0
    /\ lastTs = 0
    /\ mode = "up"
    /\ cursor = 0
    /\ room = EmptyRoom
    /\ todo = {}
    /\ log = <<>>
    /\ durable = 0
    /\ snap = EmptyRoom
    /\ faults = 0
    /\ hist = <<EmptyRoom>>

ClientStep ==
    \/ \E s \in Sessions : StartSession(s)
    \/ \E s \in Sessions : LeaveSession(s)
    \/ \E s \in Sessions, S \in SUBSET Symbols \ {{}} : RequestLease(s, S)
    \/ \E t \in TokensIssued : ReleaseLease(t)
    \/ \E s \in Sessions, p \in Paths, t \in TokensIssued \cup {0} : WriteFile(s, p, t)
    \/ \E i \in DOMAIN log : Resend(i)

AuthorityStep ==
    \/ ExpireLeases
    \/ \E s \in Sessions : Disconnect(s)
    \/ \E s \in Sessions : Heartbeat(s)
    \/ AppendOwed

ProcessStep == Crash \/ Replay \/ Hydrated

Next == ClientStep \/ AuthorityStep \/ ProcessStep \/ Tick \/ ClockSetBack

Spec == Init /\ [][Next]_vars

\* The event loop runs a handler it has begun to its end, a process that died
\* is started again and hydrates, the expiry poll is an interval timer, and
\* time passes.  Nothing is assumed of clients, heartbeats or connections.
Fairness ==
    /\ WF_vars(AppendOwed)
    /\ WF_vars(Replay)
    /\ WF_vars(Hydrated)
    /\ WF_vars(ExpireLeases)
    /\ WF_vars(Tick)

FairSpec == Spec /\ Fairness
-----------------------------------------------------------------------------
(***************************************************************************)
(* Properties.                                                             *)
(***************************************************************************)

\* Every variable holds what its declaration says.
TypeOK ==
    /\ now \in Nat
    /\ lastTs \in Nat
    /\ mode \in {"up", "replaying"}
    /\ cursor \in IF mode = "up" THEN {0} ELSE 1 .. Len(log) + 1
    /\ room \in Room
    /\ todo \in SUBSET Event
    /\ mode = "replaying" => todo = {}
    /\ log \in Seq(Event)
    /\ durable \in 0 .. Len(log)
    /\ snap \in Room
    /\ faults \in Nat
    /\ hist \in Seq(Room)
    /\ Len(hist) = Len(log) + 1

\* First claim wins: no symbol is ever in two leases, whatever is requested,
\* renewed, released, expired or replayed, and in whatever order.
Exclusive(leases) == \A k, l \in leases : k # l => k.symbols \cap l.symbols = {}

LeaseExclusive == Exclusive(room.leases)

\* A write the room took in was fenced.  At that point of the log either no
\* lease covered the path, or the writer named a lease it held itself.  A
\* former owner, whose lease was freed and maybe granted on, has no such lease.
WritesFenced ==
    \A i \in DOMAIN log :
        log[i].type = "FILE_WRITE" =>
            LET covering == LeasesOn(hist[i], log[i].path)
            IN covering = {} \/ \E l \in covering :
                                    l.session = log[i].session /\ l.token = log[i].token

\* A process that hydrated from snapshot and log has the room state its
\* predecessor had after the last event it stored.
RecoversExactly == mode = "up" => room = hist[Len(hist)]

\* At-least-once in, exactly-once applied.  Between handlers every event the
\* store would acknowledge a retry of is on disk, is there once, and has a seq
\* of its own, so that replay will not skip it.
ExactlyOnce ==
    mode = "up" /\ todo = {} =>
        \A i \in DOMAIN log :
            /\ i <= durable
            /\ \A j \in DOMAIN log \ {i} : log[j].seq # log[i].seq
            /\ log[i].id # 0 => \A j \in DOMAIN log \ {i} : log[j].id # log[i].id

\* Fencing tokens only grow along the log, over crashes too: a newer claim
\* always outranks an older one.
TokensIncrease ==
    \A i, j \in DOMAIN log :
        i < j /\ log[i].type = "LEASE_GRANTED" /\ log[j].type = "LEASE_GRANTED"
            => log[i].token < log[j].token

\* A lease is expired by its time to live only when neither its grant nor any
\* heartbeat its session logged since is that recent, by the log's own clock.
NoEarlyExpiry ==
    \A i, g \in DOMAIN log :
        /\ log[i].type = "LEASE_EXPIRED" /\ log[i].reason = "ttl"
        /\ log[g].type = "LEASE_GRANTED" /\ log[g].token = log[i].token
        /\ g < i
        => /\ log[g].expiresAt <= log[i].ts
           /\ \A b \in g .. i :
                log[b].type = "HEARTBEAT" /\ log[b].session = log[g].session
                    => log[b].ts + LeaseTtl <= log[i].ts

\* What a session held when it ended is gone: an ended session has at most
\* leases it asked for after its end.
NoLeaseOutlivesItsSession ==
    \A l \in room.leases, i \in DOMAIN log :
        /\ log[i].type = "SESSION_ENDED"
        /\ log[i].session = l.session
        /\ log[i].seq <= room.seq
        => log[i].seq < l.token

\* Between handlers, every lease request in the log has its answer after it.
RequestsAnswered ==
    mode = "up" /\ todo = {} =>
        \A i \in DOMAIN log :
            log[i].type = "LEASE_REQUESTED" =>
                i < Len(log) /\ log[i + 1].type \in {"LEASE_GRANTED", "LEASE_DENIED"}

\* The room state on disk implements the lease table of LeaseTable.
Leases == INSTANCE LeaseTable WITH
    held <- {[token |-> l.token, session |-> l.session, symbols |-> l.symbols] :
                l \in hist[Len(hist)].leases},
    issued <- TokensIssued,
    Tokens <- 1 .. MaxSeq

\* Every step of the room is a step of the lease table or changes nothing there.
ImplementsLeaseTable == Leases!Spec

\* No stuck locks: a lease ends, whatever its holder does or stops doing and
\* wherever the authority faults, once heartbeats for it stop coming.
LeasesEnd ==
    \A t \in 1 .. MaxSeq :
        (\E l \in room.leases : l.token = t) ~> ~ \E l \in room.leases : l.token = t
=============================================================================
