--------------------------- MODULE RoomCoreProofs ---------------------------
(***************************************************************************)
(* What holds of RoomCore for every set of sessions, symbols and paths and *)
(* every value of the bounds.                                              *)
(*                                                                         *)
(* All of it comes from one inductive invariant, IInv: the log numbers its *)
(* events without gap or repeat, and every room state the process can be   *)
(* in, up or replaying, is the fold of a prefix of the log.  A fault of    *)
(* the disk breaks it, so the theorems but the first assume there is none. *)
(***************************************************************************)
EXTENDS RoomCore, SequenceTheorems, TLAPS

\* The log is dense and wholly on disk, and hist is its fold.
LogFolds ==
    /\ durable = Len(log)
    /\ hist[1] = EmptyRoom
    /\ \A i \in 1 .. Len(log) : log[i].seq = i
    /\ \A i \in 1 .. Len(log) : hist[i + 1] = Reduce(hist[i], log[i])
    /\ \A i \in 1 .. Len(hist) : hist[i].seq = i - 1

\* The room and the snapshot are states the log went through.
RoomFolds ==
    /\ mode = "up" => room = hist[Len(hist)]
    /\ mode = "replaying" => room = hist[cursor]
    /\ snap.seq <= Len(log)
    /\ snap = hist[snap.seq + 1]

\* No state the log went through gave a symbol to two leases.
HistExclusive == \A i \in 1 .. Len(hist) : Exclusive(hist[i].leases)

\* The events a handler owes.  A grant is owed alone, carries the seq of the
\* request before it, and its symbols are still free.
OwedSound ==
    /\ \A e \in todo : e.type \in {"LEASE_GRANTED", "LEASE_DENIED", "LEASE_EXPIRED", "SESSION_ENDED"}
    /\ \A e \in todo : e.id = 0
    /\ \A e \in todo :
        e.type = "LEASE_GRANTED" =>
            /\ todo = {e}
            /\ e.session \in Sessions
            /\ e.token = Len(log)
            /\ e.token \in 1 .. MaxSeq
            /\ \A l \in room.leases : l.symbols \cap e.symbols = {}

\* A grant in the log has the seq of the entry before it for its token.
GrantsNumbered ==
    \A i \in 1 .. Len(log) : log[i].type = "LEASE_GRANTED" => log[i].token = i - 1

\* The token of a lease is older than the event that granted it.
LeasesNumbered ==
    \A i \in 1 .. Len(hist) : \A l \in hist[i].leases : l.token < i - 1

\* No client id is in the log twice.
IdsUnique ==
    \A i, j \in 1 .. Len(log) : log[i].id = log[j].id /\ log[i].id # 0 => i = j

IInv ==
    /\ TypeOK
    /\ LogFolds
    /\ RoomFolds
    /\ HistExclusive
    /\ OwedSound
    /\ GrantsNumbered
    /\ LeasesNumbered
    /\ IdsUnique
    /\ WritesFenced
-----------------------------------------------------------------------------
(***************************************************************************)
(* The operators.                                                          *)
(***************************************************************************)

\* Stamping gives an event a seq and a time and leaves the rest alone.
LEMMA StampedFacts ==
    ASSUME TypeOK, NEW e \in Event
    PROVE  /\ Stamp \in Nat
           /\ Stamped(e) \in Event
           /\ Stamped(e).seq = room.seq + 1
           /\ Stamped(e).ts = Stamp
           /\ Stamped(e).type = e.type
           /\ Stamped(e).id = e.id
           /\ Stamped(e).session = e.session
           /\ Stamped(e).symbols = e.symbols
           /\ Stamped(e).path = e.path
           /\ Stamped(e).token = e.token
           /\ Stamped(e).expiresAt = e.expiresAt
  <1>1. Stamp \in Nat
    BY DEF TypeOK, Stamp
  <1>2. room.seq + 1 \in Nat
    BY DEF TypeOK, Room
  <1>. QED
    BY <1>1, <1>2 DEF Stamped, Event

\* The helpers of the reducer keep leases leases.
LEMMA LeaseHelpersTyped ==
    ASSUME NEW L \in SUBSET Lease, NEW s, NEW t, NEW n \in Nat
    PROVE  /\ WithoutSession(L, s) \in SUBSET Lease
           /\ WithoutLease(L, t) \in SUBSET Lease
           /\ Renewed(L, s, n) \in SUBSET Lease
  <1>1. ASSUME NEW l \in L
        PROVE  [l EXCEPT !.expiresAt = n + LeaseTtl] \in Lease
    BY TimeAssumption DEF Lease
  <1>. QED
    BY <1>1 DEF WithoutSession, WithoutLease, Renewed

\* Reducing an event makes a room out of a room.
LEMMA ApplyTyped ==
    ASSUME NEW r \in Room, NEW e \in Event
    PROVE  ApplyEvent(r, e) \in Room
  <1>1. CASE e.type = "SESSION_STARTED"
    BY <1>1 DEF ApplyEvent, Room, Event
  <1>2. CASE e.type = "SESSION_ENDED"
    BY <1>2, LeaseHelpersTyped DEF ApplyEvent, EndedStatus, Room, Event
  <1>3. CASE e.type = "HEARTBEAT"
    BY <1>3, LeaseHelpersTyped DEF ApplyEvent, Room, Event
  <1>4. CASE e.type = "LEASE_GRANTED"
    <2>1. GrantedLease(e) \in Lease
      BY DEF GrantedLease, Lease, Event
    <2>. QED
      BY <1>4, <2>1, LeaseHelpersTyped DEF ApplyEvent, Room
  <1>5. CASE e.type \in {"LEASE_RELEASED", "LEASE_EXPIRED"}
    BY <1>5, LeaseHelpersTyped DEF ApplyEvent, Room
  <1>6. CASE e.type \in {"LEASE_REQUESTED", "LEASE_DENIED", "FILE_WRITE"}
    BY <1>6 DEF ApplyEvent
  <1>. QED
    BY <1>1, <1>2, <1>3, <1>4, <1>5, <1>6 DEF Event, EventType

LEMMA ReduceTyped ==
    ASSUME NEW r \in Room, NEW e \in Event
    PROVE  Reduce(r, e) \in Room
  BY ApplyTyped DEF Reduce, Room, Event

\* Whatever the coordinator derives from an event is a set of events.
LEMMA DerivedTyped ==
    ASSUME NEW e \in Event, NEW r \in Room
    PROVE  Derived(e, r) \in SUBSET Event
  <1>1. Denial(e) \in Event
    BY DEF Denial, Blank, Event, EventType
  <1>2. Grant(e) \in Event
    <2>1. e.ts \in Nat
      BY DEF Event
    <2>2. LeaseTtl \in Nat
      BY TimeAssumption
    <2>3. e.ts + LeaseTtl \in Nat
      BY <2>1, <2>2
    <2>. QED
      BY <2>3 DEF Grant, Blank, Event, EventType
  <1>3. ASSUME NEW l \in r.leases
        PROVE  Expired(l.token, "session_ended") \in Event
    BY DEF Expired, Blank, Event, EventType, Room, Lease
  <1>. QED
    BY <1>1, <1>2, <1>3 DEF Derived
-----------------------------------------------------------------------------
(***************************************************************************)
(* Type correctness.                                                       *)
(***************************************************************************)

\* An append, whether it succeeds or throws.
LEMMA AppendTyped ==
    ASSUME TypeOK, mode = "up", NEW e \in Event, NEW owed \in SUBSET Event,
           AppendEvent(e, owed) \/ AppendFails(e)
    PROVE  TypeOK'
  <1>1. Stamp \in Nat /\ Stamped(e) \in Event
    BY StampedFacts
  <1>2. Reduce(room, Stamped(e)) \in Room
    BY <1>1, ReduceTyped DEF TypeOK
  <1>3. /\ Append(log, Stamped(e)) \in Seq(Event)
        /\ Len(Append(log, Stamped(e))) = Len(log) + 1
    BY <1>1 DEF TypeOK
  <1>4. ASSUME NEW r \in Room
        PROVE  Append(hist, r) \in Seq(Room) /\ Len(Append(hist, r)) = Len(hist) + 1
    BY DEF TypeOK
  <1>5. faults' \in Nat
    BY DEF TypeOK, AppendEvent, AppendFails
  <1>6. CASE Stores(e)
    <2>1. snap' \in Room /\ todo' \in SUBSET Event
      BY <1>2, <1>6 DEF TypeOK, AppendEvent, AppendFails, SnapshotFails, StoreFails, Stores, Snapshot
    <2>. QED
      BY <1>1, <1>2, <1>3, <1>4, <1>5, <1>6, <2>1 DEF TypeOK, Stores
  <1>7. CASE StoreFails(e)
    BY <1>1, <1>3, <1>4, <1>5, <1>7 DEF TypeOK, StoreFails
  <1>. QED
    BY <1>6, <1>7 DEF AppendEvent, AppendFails, SnapshotFails

\* A submit of an event of any kind.
LEMMA SubmitTyped ==
    ASSUME TypeOK, NEW e \in Event, Submit(e)
    PROVE  TypeOK'
  <1>1. CASE UNCHANGED vars
    BY <1>1 DEF TypeOK, vars
  <1>2. CASE AppendEvent(e, Derived(Stamped(e), room)) \/ AppendFails(e)
    <2>1. Derived(Stamped(e), room) \in SUBSET Event
      BY StampedFacts, DerivedTyped DEF TypeOK
    <2>2. mode = "up"
      BY DEF Submit, SubmitAs, Idle
    <2>. QED
      BY <1>2, <2>1, <2>2, AppendTyped
  <1>. QED
    BY <1>1, <1>2 DEF Submit, SubmitAs

\* What clients send are events.
LEMMA ClientEventsTyped ==
    ASSUME TypeOK
    PROVE  /\ \A s \in Sessions : New(Started(s)) \in Event /\ New(Ended(s)) \in Event
           /\ \A s \in Sessions, S \in SUBSET Symbols : New(Requested(s, S)) \in Event
           /\ \A t \in Nat : New(Released(t)) \in Event
           /\ \A s \in Sessions, p \in Paths, t \in Nat : New(Write(s, p, t)) \in Event
  <1>1. FreshId \in Nat
    BY DEF TypeOK, FreshId
  <1>. QED
    BY <1>1 DEF New, Started, Ended, Requested, Released, Write, Blank, Event, EventType

LEMMA TokensIssuedNat ==
    ASSUME TypeOK
    PROVE  TokensIssued \subseteq Nat
  <1>1. ASSUME NEW i \in DOMAIN log
        PROVE  log[i].token \in Nat
    <2>1. log[i] \in Event
      BY DEF TypeOK
    <2>. QED
      BY <2>1 DEF Event
  <1>. QED
    BY <1>1 DEF TokensIssued

\* A crash cuts log and history back to what is on disk.
LEMMA CrashTyped ==
    ASSUME TypeOK, Crash
    PROVE  TypeOK'
  <1>1. /\ SubSeq(log, 1, durable) \in Seq(Event)
        /\ Len(SubSeq(log, 1, durable)) = durable
    <2>1. \A i \in 1 .. durable : log[i] \in Event
      BY DEF TypeOK
    <2>. QED
      BY <2>1, SubSeqProperties DEF TypeOK
  <1>2. /\ SubSeq(hist, 1, durable + 1) \in Seq(Room)
        /\ Len(SubSeq(hist, 1, durable + 1)) = durable + 1
    <2>1. \A i \in 1 .. durable + 1 : hist[i] \in Room
      BY DEF TypeOK
    <2>. QED
      BY <2>1, SubSeqProperties DEF TypeOK
  <1>. QED
    BY <1>1, <1>2 DEF TypeOK, Crash

\* Everything the authority does on its own keeps the types.
LEMMA AuthorityTyped ==
    ASSUME TypeOK, AuthorityStep
    PROVE  TypeOK'
  <1>1. ASSUME NEW t \in Nat, NEW why \in {"ttl", "disconnect"}
        PROVE  Expired(t, why) \in Event
    BY DEF Expired, Blank, Event, EventType
  <1>2. \A l \in room.leases : l.token \in Nat
    BY DEF TypeOK, Room, Lease
  <1>3. ASSUME NEW s \in Sessions
        PROVE  Ended(s) \in Event /\ Beat(s) \in Event
    BY DEF Ended, Beat, Blank, Event, EventType
  <1>4. CASE ExpireLeases
    <2>1. todo' \in SUBSET Event
      BY <1>1, <1>2, <1>4 DEF ExpireLeases, Due
    <2>. QED
      BY <1>4, <2>1 DEF TypeOK, ExpireLeases, Idle
  <1>5. ASSUME NEW s \in Sessions, Disconnect(s)
        PROVE  TypeOK'
    <2>1. todo' \in SUBSET Event
      BY <1>1, <1>2, <1>3, <1>5 DEF Disconnect, LeasesOf
    <2>. QED
      BY <1>5, <2>1 DEF TypeOK, Disconnect, Idle
  <1>6. ASSUME NEW s \in Sessions, Heartbeat(s)
        PROVE  TypeOK'
    BY <1>3, <1>6, AppendTyped DEF Heartbeat, Idle
  <1>7. CASE AppendOwed
    <2>1. PICK e \in todo : AppendEvent(e, todo \ {e}) \/ AppendFails(e)
      BY <1>7 DEF AppendOwed
    <2>2. mode = "up" /\ e \in Event /\ todo \ {e} \in SUBSET Event
      BY DEF TypeOK
    <2>. QED
      BY <2>1, <2>2, AppendTyped
  <1>. QED
    BY <1>4, <1>5, <1>6, <1>7 DEF AuthorityStep

\* What clients submit keeps the types.
LEMMA ClientTyped ==
    ASSUME TypeOK, ClientStep
    PROVE  TypeOK'
  <1>1. \E e \in Event : Submit(e)
    <2>1. CASE \E s \in Sessions : StartSession(s) \/ LeaveSession(s)
      BY <2>1, ClientEventsTyped DEF StartSession, LeaveSession
    <2>2. CASE \E s \in Sessions, S \in SUBSET Symbols \ {{}} : RequestLease(s, S)
      BY <2>2, ClientEventsTyped DEF RequestLease
    <2>3. CASE \E t \in TokensIssued : ReleaseLease(t)
      BY <2>3, ClientEventsTyped, TokensIssuedNat DEF ReleaseLease
    <2>4. CASE \E s \in Sessions, p \in Paths, t \in TokensIssued \cup {0} : WriteFile(s, p, t)
      BY <2>4, ClientEventsTyped, TokensIssuedNat DEF WriteFile
    <2>5. CASE \E i \in DOMAIN log : Resend(i)
      <3>1. PICK i \in DOMAIN log : Resend(i)
        BY <2>5
      <3>2. log[i] \in Event
        BY DEF TypeOK
      <3>3. [log[i] EXCEPT !.seq = 0, !.ts = 0] \in Event
        BY <3>2 DEF Event
      <3>. QED
        BY <3>1, <3>3 DEF Resend
    <2>. QED
      BY <2>1, <2>2, <2>3, <2>4, <2>5 DEF ClientStep
  <1>. QED
    BY <1>1, SubmitTyped

LEMMA InitTyped == Init => TypeOK
  <1>1. EmptyRoom \in Room
    BY DEF EmptyRoom, Room
  <1>. QED
    BY <1>1 DEF Init, TypeOK

LEMMA NextTyped == TypeOK /\ [Next]_vars => TypeOK'
  <1>. SUFFICES ASSUME TypeOK, [Next]_vars
                PROVE  TypeOK'
    OBVIOUS
  <1>1. CASE ClientStep
    BY <1>1, ClientTyped
  <1>2. CASE AuthorityStep
    BY <1>2, AuthorityTyped
  <1>3. CASE Crash
    BY <1>3, CrashTyped
  <1>4. CASE Replay
    <2>1. log[cursor] \in Event
      BY <1>4 DEF TypeOK, Replay
    <2>2. room' \in Room
      BY <1>4, <2>1, ReduceTyped DEF TypeOK, Replay
    <2>3. lastTs' \in Nat
      BY <1>4, <2>1 DEF TypeOK, Replay, Event
    <2>. QED
      BY <1>4, <2>2, <2>3 DEF TypeOK, Replay
  <1>5. CASE Hydrated
    BY <1>5 DEF TypeOK, Hydrated
  <1>6. CASE Tick \/ ClockSetBack
    BY <1>6 DEF TypeOK, Tick, ClockSetBack
  <1>7. CASE UNCHANGED vars
    BY <1>7 DEF TypeOK, vars
  <1>. QED
    BY <1>1, <1>2, <1>3, <1>4, <1>5, <1>6, <1>7 DEF Next, ProcessStep

\* The types hold throughout, disk faults or not, for any number of sessions,
\* symbols, paths, events and crashes.
THEOREM TypeCorrect == Spec => []TypeOK
  BY InitTyped, NextTyped, PTL DEF Spec
-----------------------------------------------------------------------------
(***************************************************************************)
(* What reducing one event does to the leases.                             *)
(***************************************************************************)

\* An event newer than the room moves it on to the event's seq.
LEMMA ReduceMovesOn ==
    ASSUME NEW r \in Room, NEW e \in Event, r.seq < e.seq
    PROVE  /\ Reduce(r, e).seq = e.seq
           /\ Reduce(r, e).leases = ApplyEvent(r, e).leases
  <1>1. ~ (e.seq <= r.seq)
    <2>1. r.seq \in Nat /\ e.seq \in Nat
      BY DEF Room, Event
    <2>. QED
      BY <2>1
  <1>2. ApplyEvent(r, e) \in Room
    BY ApplyTyped
  <1>. QED
    BY <1>1, <1>2 DEF Reduce, Room

\* The leases after an event, type by type.
LEMMA LeasesAfter ==
    ASSUME NEW r \in Room, NEW e \in Event
    PROVE  LET after == ApplyEvent(r, e).leases
           IN  /\ e.type \in {"SESSION_STARTED", "LEASE_REQUESTED", "LEASE_DENIED", "FILE_WRITE"}
                     => after = r.leases
               /\ e.type = "SESSION_ENDED" => after = WithoutSession(r.leases, e.session)
               /\ e.type = "HEARTBEAT" => after = Renewed(r.leases, e.session, e.ts)
               /\ e.type = "LEASE_GRANTED"
                     => after = WithoutLease(r.leases, e.token) \cup {GrantedLease(e)}
               /\ e.type \in {"LEASE_RELEASED", "LEASE_EXPIRED"}
                     => after = WithoutLease(r.leases, e.token)
  <1>1. CASE e.type = "SESSION_STARTED"
    BY <1>1 DEF ApplyEvent, Room
  <1>2. CASE e.type = "SESSION_ENDED"
    BY <1>2 DEF ApplyEvent, Room
  <1>3. CASE e.type = "HEARTBEAT"
    BY <1>3 DEF ApplyEvent, Room
  <1>4. CASE e.type = "LEASE_GRANTED"
    BY <1>4 DEF ApplyEvent, Room
  <1>5. CASE e.type \in {"LEASE_RELEASED", "LEASE_EXPIRED"}
    BY <1>5 DEF ApplyEvent, Room
  <1>6. CASE e.type \in {"LEASE_REQUESTED", "LEASE_DENIED", "FILE_WRITE"}
    BY <1>6 DEF ApplyEvent, Room
  <1>. QED
    BY <1>1, <1>2, <1>3, <1>4, <1>5, <1>6 DEF Event, EventType

\* A lease has its token from a lease before the event, or from the grant.
LEMMA TokensAfter ==
    ASSUME NEW r \in Room, NEW e \in Event
    PROVE  \A k \in ApplyEvent(r, e).leases :
              \/ \E l \in r.leases : k.token = l.token
              \/ e.type = "LEASE_GRANTED" /\ k.token = e.token
  <1>1. CASE e.type = "HEARTBEAT"
    <2>1. \A l \in r.leases : [l EXCEPT !.expiresAt = e.ts + LeaseTtl].token = l.token
      BY DEF Room, Lease
    <2>2. ApplyEvent(r, e).leases = Renewed(r.leases, e.session, e.ts)
      BY <1>1, LeasesAfter
    <2>. QED
      BY <2>1, <2>2 DEF Renewed
  <1>2. CASE e.type = "LEASE_GRANTED"
    BY <1>2, LeasesAfter DEF WithoutLease, GrantedLease
  <1>3. CASE e.type = "SESSION_ENDED"
    BY <1>3, LeasesAfter DEF WithoutSession
  <1>4. CASE e.type \in {"LEASE_RELEASED", "LEASE_EXPIRED"}
    BY <1>4, LeasesAfter DEF WithoutLease
  <1>5. CASE e.type \in {"SESSION_STARTED", "LEASE_REQUESTED", "LEASE_DENIED", "FILE_WRITE"}
    BY <1>5, LeasesAfter
  <1>. QED
    BY <1>1, <1>2, <1>3, <1>4, <1>5 DEF Event, EventType

\* Leases that share no symbol still share none when renewed.
LEMMA RenewedExclusive ==
    ASSUME NEW L \in SUBSET Lease, NEW s, NEW n, Exclusive(L)
    PROVE  Exclusive(Renewed(L, s, n))
  <1>. DEFINE img(l) == IF l.session = s THEN [l EXCEPT !.expiresAt = n + LeaseTtl] ELSE l
  <1>1. \A l \in L : img(l).symbols = l.symbols
    BY DEF Lease
  <1>2. Renewed(L, s, n) = {img(l) : l \in L}
    BY DEF Renewed
  <1>. HIDE DEF img
  <1>. QED
    BY <1>1, <1>2 DEF Exclusive

\* Only a grant can put a symbol into two leases, and not when it is free.
LEMMA ApplyKeepsExclusive ==
    ASSUME NEW r \in Room, NEW e \in Event, Exclusive(r.leases),
           e.type = "LEASE_GRANTED" => \A l \in r.leases : l.symbols \cap e.symbols = {}
    PROVE  Exclusive(ApplyEvent(r, e).leases)
  <1>1. r.leases \in SUBSET Lease
    BY DEF Room
  <1>2. CASE e.type = "HEARTBEAT"
    BY <1>1, <1>2, LeasesAfter, RenewedExclusive
  <1>3. CASE e.type = "LEASE_GRANTED"
    <2>1. GrantedLease(e).symbols = e.symbols
      BY DEF GrantedLease
    <2>. QED
      BY <1>3, <2>1, LeasesAfter DEF Exclusive, WithoutLease
  <1>4. CASE e.type = "SESSION_ENDED"
    BY <1>4, LeasesAfter DEF Exclusive, WithoutSession
  <1>5. CASE e.type \in {"LEASE_RELEASED", "LEASE_EXPIRED"}
    BY <1>5, LeasesAfter DEF Exclusive, WithoutLease
  <1>6. CASE e.type \in {"SESSION_STARTED", "LEASE_REQUESTED", "LEASE_DENIED", "FILE_WRITE"}
    BY <1>6, LeasesAfter
  <1>. QED
    BY <1>2, <1>3, <1>4, <1>5, <1>6 DEF Event, EventType
-----------------------------------------------------------------------------
(***************************************************************************)
(* The inductive invariant.                                                *)
(***************************************************************************)

\* What the events handed to append have in common: a grant gives only free
\* symbols away, an id is new, and a write has passed the fence.
Appendable(e) ==
    /\ e \in Event
    /\ e.type = "LEASE_GRANTED" =>
            /\ e.token = Len(log)
            /\ \A l \in room.leases : l.symbols \cap e.symbols = {}
    /\ e.id # 0 => e.id \notin LoggedIds
    /\ PassesFence(e)

\* An append in terms of where the log was.
LEMMA AppendFacts ==
    ASSUME IInv, mode = "up", NEW e, Appendable(e), NEW owed \in SUBSET Event,
           AppendEvent(e, owed)
    PROVE  /\ log' \in Seq(Event) /\ Len(log') = Len(log) + 1
           /\ \A i \in 1 .. Len(log) : log'[i] = log[i]
           /\ log'[Len(log) + 1] = Stamped(e)
           /\ hist' \in Seq(Room) /\ Len(hist') = Len(log) + 2
           /\ \A i \in 1 .. Len(log) + 1 : hist'[i] = hist[i]
           /\ hist'[Len(log) + 2] = room'
           /\ Stamped(e).seq = Len(log) + 1
           /\ room = hist[Len(log) + 1]
           /\ room' = Reduce(room, Stamped(e))
           /\ room' \in Room
           /\ room'.seq = Len(log) + 1
           /\ room'.leases = ApplyEvent(room, Stamped(e)).leases
  <1>1. /\ Stamped(e) \in Event
        /\ Stamped(e).seq = room.seq + 1
    BY StampedFacts DEF IInv, Appendable
  <1>2. room = hist[Len(log) + 1] /\ room.seq = Len(log)
    BY DEF IInv, TypeOK, RoomFolds, LogFolds
  <1>3. /\ room' = Reduce(room, Stamped(e))
        /\ log' = Append(log, Stamped(e))
        /\ hist' = Append(hist, room')
    BY DEF AppendEvent, Stores
  <1>4. room \in Room
    BY DEF IInv, TypeOK
  <1>5. room' \in Room
    BY <1>1, <1>3, <1>4, ReduceTyped
  <1>6. room'.seq = Len(log) + 1 /\ room'.leases = ApplyEvent(room, Stamped(e)).leases
    <2>1. room.seq < Stamped(e).seq
      BY <1>1, <1>2 DEF IInv, TypeOK
    <2>. QED
      BY <1>1, <1>2, <1>3, <1>4, <2>1, ReduceMovesOn
  <1>7. /\ log' \in Seq(Event) /\ Len(log') = Len(log) + 1
        /\ \A i \in 1 .. Len(log) : log'[i] = log[i]
        /\ log'[Len(log) + 1] = Stamped(e)
    BY <1>1, <1>3 DEF IInv, TypeOK
  <1>8. /\ hist' \in Seq(Room) /\ Len(hist') = Len(log) + 2
        /\ \A i \in 1 .. Len(log) + 1 : hist'[i] = hist[i]
        /\ hist'[Len(log) + 2] = room'
    BY <1>3, <1>5 DEF IInv, TypeOK
  <1>. QED
    BY <1>1, <1>2, <1>3, <1>5, <1>6, <1>7, <1>8

\* An append keeps everything but the soundness of what is owed, which depends
\* on the handler.
LEMMA AppendKeeps ==
    ASSUME IInv, mode = "up", NEW e, Appendable(e), NEW owed \in SUBSET Event,
           AppendEvent(e, owed)
    PROVE  /\ LogFolds'
           /\ RoomFolds'
           /\ HistExclusive'
           /\ GrantsNumbered'
           /\ LeasesNumbered'
           /\ IdsUnique'
           /\ WritesFenced'
  <1>. DEFINE n == Len(log) + 1
              new == Stamped(e)
  <1>1. n \in Nat /\ n >= 1 /\ Len(hist) = n /\ Len(log) \in Nat
    BY DEF IInv, TypeOK
  <1>2. /\ Len(log') = n
        /\ \A i \in 1 .. Len(log) : log'[i] = log[i]
        /\ log'[n] = new
        /\ Len(hist') = n + 1
        /\ \A i \in 1 .. n : hist'[i] = hist[i]
        /\ hist'[n + 1] = room'
        /\ new.seq = n
        /\ room = hist[n]
        /\ room' = Reduce(room, new)
        /\ room'.seq = n
        /\ room'.leases = ApplyEvent(room, new).leases
    BY AppendFacts, <1>1
  <1>3. /\ new \in Event
        /\ new.type = e.type /\ new.id = e.id /\ new.token = e.token
        /\ new.symbols = e.symbols /\ new.path = e.path /\ new.session = e.session
    BY StampedFacts DEF IInv, Appendable
  <1>4. durable' = n /\ mode' = "up"
    BY <1>2 DEF AppendEvent, Stores
  <1>. HIDE DEF n, new
  <1>5. LogFolds'
    <2>1. \A i \in 1 .. n : i \in 1 .. Len(log) \/ i = n
      BY <1>1 DEF n
    <2>2. \A i \in 1 .. n : log'[i].seq = i /\ hist'[i + 1] = Reduce(hist'[i], log'[i])
      BY <1>1, <1>2, <2>1 DEF IInv, LogFolds
    <2>3. \A i \in 1 .. n + 1 : hist'[i].seq = i - 1
      BY <1>1, <1>2 DEF IInv, LogFolds
    <2>. QED
      BY <1>1, <1>2, <1>4, <2>2, <2>3 DEF IInv, LogFolds
  <1>6. RoomFolds'
    <2>1. snap' = room' \/ snap' = snap
      BY DEF AppendEvent, Snapshot
    <2>2. snap.seq <= Len(log) /\ snap = hist[snap.seq + 1] /\ snap.seq \in Nat
      BY DEF IInv, RoomFolds, TypeOK, Room
    <2>. QED
      BY <1>1, <1>2, <1>4, <2>1, <2>2 DEF RoomFolds, n
  <1>7. HistExclusive'
    <2>1. Exclusive(room.leases) /\ room \in Room
      BY <1>1, <1>2 DEF IInv, HistExclusive, TypeOK
    <2>2. Exclusive(room'.leases)
      BY <1>2, <1>3, <2>1, ApplyKeepsExclusive DEF Appendable
    <2>. QED
      BY <1>1, <1>2, <2>2 DEF IInv, HistExclusive
  <1>8. GrantsNumbered'
    BY <1>1, <1>2, <1>3 DEF IInv, GrantsNumbered, Appendable, n
  <1>9. IdsUnique'
    <2>1. ASSUME NEW i \in 1 .. Len(log), e.id # 0
          PROVE  log[i].id # e.id
      BY <2>1 DEF LoggedIds, Appendable, IInv, TypeOK
    <2>. QED
      BY <1>1, <1>2, <1>3, <2>1 DEF IInv, IdsUnique, n
  <1>10. WritesFenced'
    <2>. SUFFICES ASSUME NEW i \in 1 .. n, log'[i].type = "FILE_WRITE"
                  PROVE  LET covering == LeasesOn(hist'[i], log'[i].path)
                         IN covering = {} \/ \E l \in covering :
                                l.session = log'[i].session /\ l.token = log'[i].token
      <3>1. DOMAIN log' = 1 .. n
        BY <1>2, AppendFacts
      <3>. QED
        BY <3>1 DEF WritesFenced
    <2>1. CASE i = n
      BY <1>1, <1>2, <1>3, <2>1 DEF Appendable, PassesFence
    <2>2. CASE i # n
      <3>1. i \in 1 .. Len(log)
        BY <1>1, <2>2 DEF n
      <3>2. i \in DOMAIN log /\ log'[i] = log[i] /\ hist'[i] = hist[i]
        BY <1>1, <1>2, <3>1 DEF IInv, TypeOK
      <3>. QED
        BY <3>2 DEF IInv, WritesFenced
    <2>. QED
      BY <2>1, <2>2
  <1>11. LeasesNumbered'
    <2>1. \A l \in room.leases : l.token < Len(log)
      BY <1>1, <1>2 DEF IInv, LeasesNumbered, n
    <2>2. \A l \in room.leases : l.token \in Nat
      BY DEF IInv, TypeOK, Room, Lease
    <2>3. \A k \in room'.leases : (\E l \in room.leases : k.token = l.token) \/ k.token = Len(log)
      <3>1. room \in Room
        BY DEF IInv, TypeOK
      <3>. QED
        BY <1>2, <1>3, <3>1, TokensAfter DEF Appendable
    <2>4. \A k \in room'.leases : k.token < n
      BY <1>1, <2>1, <2>2, <2>3 DEF n
    <2>. QED
      BY <1>1, <1>2, <2>4 DEF IInv, LeasesNumbered
  <1>. QED
    BY <1>5, <1>6, <1>7, <1>8, <1>9, <1>10, <1>11

\* A step that leaves the log alone keeps what is said of the log.
LEMMA SameLogKeeps ==
    ASSUME IInv, UNCHANGED <<log, durable, hist>>
    PROVE  /\ LogFolds' /\ HistExclusive' /\ GrantsNumbered' /\ LeasesNumbered'
           /\ IdsUnique' /\ WritesFenced'
  <1>1. LogFolds'
    BY DEF IInv, LogFolds
  <1>2. HistExclusive'
    BY DEF IInv, HistExclusive
  <1>3. GrantsNumbered' /\ LeasesNumbered' /\ IdsUnique'
    BY DEF IInv, GrantsNumbered, LeasesNumbered, IdsUnique
  <1>4. WritesFenced'
    BY DEF IInv, WritesFenced, LeasesOn
  <1>. QED
    BY <1>1, <1>2, <1>3, <1>4

\* A step that changes nothing.
LEMMA UnchangedKeeps ==
    ASSUME IInv, UNCHANGED vars
    PROVE  IInv'
  <1>1. TypeOK' /\ RoomFolds' /\ OwedSound'
    BY DEF IInv, vars, TypeOK, RoomFolds, OwedSound
  <1>. QED
    BY <1>1, SameLogKeeps DEF IInv, vars

\* What a client can submit afresh: never a grant or an expiry, never id 0.
ClientEvent(e) ==
    /\ e \in Event
    /\ e.type \notin {"LEASE_GRANTED", "LEASE_EXPIRED"}
    /\ e.type = "LEASE_REQUESTED" => e.session \in Sessions
    /\ e.id # 0

\* What follows from a client's event is soundly owed.
LEMMA DerivedSound ==
    ASSUME IInv, mode = "up", Len(log) < MaxSeq, NEW e, ClientEvent(e), Appendable(e),
           AppendEvent(e, Derived(Stamped(e), room))
    PROVE  OwedSound'
  <1>. DEFINE new == Stamped(e)
  <1>1. /\ new \in Event /\ new.type = e.type /\ new.symbols = e.symbols
        /\ new.session = e.session /\ room \in Room /\ room.seq = Len(log)
        /\ new.seq = Len(log) + 1 /\ Len(log) \in Nat /\ MaxSeq \in Nat
    BY StampedFacts, BoundAssumption DEF IInv, TypeOK, ClientEvent, RoomFolds, LogFolds
  <1>2. Derived(new, room) \in SUBSET Event
    BY <1>1, DerivedTyped
  <1>3. Len(log') = Len(log) + 1 /\ room'.leases = ApplyEvent(room, new).leases
    BY <1>2, AppendFacts
  <1>4. todo' = Derived(new, room)
    BY DEF AppendEvent
  <1>. HIDE DEF new
  <1>5. CASE e.type = "LEASE_REQUESTED" /\ Conflicting(room, new.symbols) = {}
    <2>1. todo' = {Grant(new)}
      BY <1>1, <1>4, <1>5 DEF Derived
    <2>2. room'.leases = room.leases
      BY <1>1, <1>3, <1>5, LeasesAfter
    <2>3. \A l \in room.leases : l.symbols \cap new.symbols = {}
      BY <1>5 DEF Conflicting
    <2>4. /\ Grant(new).type = "LEASE_GRANTED" /\ Grant(new).id = 0
          /\ Grant(new).session = e.session /\ Grant(new).symbols = new.symbols
          /\ Grant(new).token = Len(log) + 1
      BY <1>1 DEF Grant, Blank
    <2>. QED
      BY <1>1, <1>3, <1>5, <2>1, <2>2, <2>3, <2>4 DEF OwedSound, ClientEvent
  <1>6. CASE e.type = "LEASE_REQUESTED" /\ Conflicting(room, new.symbols) # {}
    <2>1. todo' = {Denial(new)}
      BY <1>1, <1>4, <1>6 DEF Derived
    <2>2. Denial(new).type = "LEASE_DENIED" /\ Denial(new).id = 0
      BY DEF Denial, Blank
    <2>. QED
      BY <2>1, <2>2 DEF OwedSound
  <1>7. CASE e.type # "LEASE_REQUESTED"
    <2>1. \A d \in todo' : \E t : d = Expired(t, "session_ended")
      BY <1>1, <1>4, <1>7 DEF Derived
    <2>2. \A t : Expired(t, "session_ended").type = "LEASE_EXPIRED"
                    /\ Expired(t, "session_ended").id = 0
      BY DEF Expired, Blank
    <2>. QED
      BY <2>1, <2>2 DEF OwedSound
  <1>. QED
    BY <1>5, <1>6, <1>7

\* A submit of a fresh client event.
LEMMA SubmitKeeps ==
    ASSUME ~DiskFaults, IInv, NEW e, ClientEvent(e), Submit(e)
    PROVE  IInv'
  <1>1. CASE UNCHANGED vars
    BY <1>1, UnchangedKeeps
  <1>2. CASE e.id \notin LoggedIds /\ PassesFence(e) /\ AppendEvent(e, Derived(Stamped(e), room))
    <2>1. mode = "up" /\ Len(log) < MaxSeq
      BY DEF Submit, SubmitAs, Idle, WithinBounds
    <2>2. Appendable(e)
      BY <1>2 DEF Appendable, ClientEvent
    <2>3. Derived(Stamped(e), room) \in SUBSET Event
      BY StampedFacts, DerivedTyped DEF IInv, TypeOK, ClientEvent
    <2>4. TypeOK'
      BY SubmitTyped DEF IInv, ClientEvent
    <2>. QED
      BY <1>2, <2>1, <2>2, <2>3, <2>4, AppendKeeps, DerivedSound DEF IInv
  <1>. QED
    BY <1>1, <1>2 DEF Submit, SubmitAs, AppendFails

\* Sending an event again changes nothing at all.
LEMMA ResendIdle ==
    ASSUME IInv, NEW i \in DOMAIN log, Resend(i)
    PROVE  UNCHANGED vars
  <1>1. log[i] \in Event
    BY DEF IInv, TypeOK
  <1>2. [log[i] EXCEPT !.seq = 0, !.ts = 0].id = log[i].id
    BY <1>1 DEF Event
  <1>3. log[i].id \in LoggedIds
    BY DEF Resend, LoggedIds
  <1>. QED
    BY <1>2, <1>3 DEF Resend, Submit, SubmitAs

\* Every client step is a fresh submit or a repeated one.
LEMMA ClientStepSubmits ==
    ASSUME IInv, ClientStep
    PROVE  (\E e : ClientEvent(e) /\ Submit(e)) \/ \E i \in DOMAIN log : Resend(i)
  <1>1. TypeOK
    BY DEF IInv
  <1>2. FreshId # 0
    BY <1>1 DEF TypeOK, FreshId
  <1>3. CASE \E s \in Sessions : StartSession(s) \/ LeaveSession(s)
    <2>1. \A s \in Sessions : ClientEvent(New(Started(s))) /\ ClientEvent(New(Ended(s)))
      BY <1>1, <1>2, ClientEventsTyped DEF ClientEvent, New, Started, Ended, Blank
    <2>. QED
      BY <1>3, <2>1 DEF StartSession, LeaveSession
  <1>4. CASE \E s \in Sessions, S \in SUBSET Symbols \ {{}} : RequestLease(s, S)
    <2>1. \A s \in Sessions, S \in SUBSET Symbols : ClientEvent(New(Requested(s, S)))
      BY <1>1, <1>2, ClientEventsTyped DEF ClientEvent, New, Requested, Blank
    <2>. QED
      BY <1>4, <2>1 DEF RequestLease
  <1>5. CASE \E t \in TokensIssued : ReleaseLease(t)
    <2>1. \A t \in TokensIssued : ClientEvent(New(Released(t)))
      BY <1>1, <1>2, ClientEventsTyped, TokensIssuedNat DEF ClientEvent, New, Released, Blank
    <2>. QED
      BY <1>5, <2>1 DEF ReleaseLease
  <1>6. CASE \E s \in Sessions, p \in Paths, t \in TokensIssued \cup {0} : WriteFile(s, p, t)
    <2>1. \A s \in Sessions, p \in Paths, t \in TokensIssued \cup {0} :
            ClientEvent(New(Write(s, p, t)))
      BY <1>1, <1>2, ClientEventsTyped, TokensIssuedNat DEF ClientEvent, New, Write, Blank
    <2>. QED
      BY <1>6, <2>1 DEF WriteFile
  <1>. QED
    BY <1>1, <1>3, <1>4, <1>5, <1>6 DEF ClientStep

LEMMA ClientKeeps ==
    ASSUME ~DiskFaults, IInv, ClientStep
    PROVE  IInv'
  <1>1. ASSUME NEW i \in DOMAIN log, Resend(i)
        PROVE  IInv'
    BY <1>1, ResendIdle, UnchangedKeeps
  <1>. QED
    BY <1>1, ClientStepSubmits, SubmitKeeps

\* What a handler owes, and a heartbeat, can be appended.
LEMMA OwedAppendable ==
    ASSUME IInv, NEW e \in todo
    PROVE  Appendable(e)
  BY DEF IInv, TypeOK, OwedSound, Appendable, PassesFence

LEMMA BeatAppendable ==
    ASSUME NEW s \in Sessions
    PROVE  Appendable(Beat(s))
  <1>1. Beat(s) \in Event /\ Beat(s).type = "HEARTBEAT" /\ Beat(s).id = 0
    BY DEF Beat, Blank, Event, EventType
  <1>. QED
    BY <1>1 DEF Appendable, PassesFence

\* A handler that only decides what to append disturbs nothing but todo.
LEMMA DecisionKeeps ==
    ASSUME IInv, TypeOK',
           UNCHANGED <<now, lastTs, mode, cursor, room, log, durable, snap, faults, hist>>,
           \A e \in todo' : e.type \in {"LEASE_EXPIRED", "SESSION_ENDED"} /\ e.id = 0
    PROVE  IInv'
  <1>1. OwedSound'
    BY DEF OwedSound
  <1>2. RoomFolds'
    BY DEF IInv, RoomFolds
  <1>. QED
    BY <1>1, <1>2, SameLogKeeps DEF IInv

LEMMA AuthorityKeeps ==
    ASSUME ~DiskFaults, IInv, AuthorityStep
    PROVE  IInv'
  <1>1. TypeOK /\ TypeOK'
    BY AuthorityTyped DEF IInv
  <1>2. /\ \A t, why : Expired(t, why).type = "LEASE_EXPIRED" /\ Expired(t, why).id = 0
        /\ \A s : Ended(s).type = "SESSION_ENDED" /\ Ended(s).id = 0
    BY DEF Expired, Ended, Blank
  <1>3. CASE ExpireLeases
    BY <1>1, <1>2, <1>3, DecisionKeeps DEF ExpireLeases
  <1>4. ASSUME NEW s \in Sessions, Disconnect(s)
        PROVE  IInv'
    <2>1. \A e \in todo' : e.type \in {"LEASE_EXPIRED", "SESSION_ENDED"} /\ e.id = 0
      BY <1>2, <1>4 DEF Disconnect
    <2>. QED
      BY <1>1, <1>4, <2>1, DecisionKeeps DEF Disconnect
  <1>5. ASSUME NEW s \in Sessions, Heartbeat(s)
        PROVE  IInv'
    <2>2. mode = "up" /\ AppendEvent(Beat(s), {})
      BY <1>5 DEF Heartbeat, Idle, AppendFails
    <2>3. Appendable(Beat(s))
      BY BeatAppendable
    <2>4. OwedSound'
      BY <2>2 DEF AppendEvent, OwedSound
    <2>. QED
      BY <1>1, <2>2, <2>3, <2>4, AppendKeeps DEF IInv
  <1>6. CASE AppendOwed
    <2>1. PICK e \in todo : AppendEvent(e, todo \ {e})
      BY <1>6 DEF AppendOwed, AppendFails
    <2>2. mode = "up" /\ e \in Event /\ todo \ {e} \in SUBSET Event
      BY <1>1 DEF TypeOK
    <2>3. Appendable(e)
      BY OwedAppendable
    <2>4. OwedSound'
      <3>1. todo' = todo \ {e}
        BY <2>1 DEF AppendEvent
      <3>2. \A f \in todo' : f.type # "LEASE_GRANTED"
        BY <3>1 DEF IInv, OwedSound
      <3>. QED
        BY <3>1, <3>2 DEF IInv, OwedSound
    <2>. QED
      BY <1>1, <2>1, <2>2, <2>3, <2>4, AppendKeeps DEF IInv
  <1>. QED
    BY <1>3, <1>4, <1>5, <1>6 DEF AuthorityStep

\* A crash loses nothing of the log.
LEMMA CrashKeepsLog ==
    ASSUME IInv, Crash
    PROVE  log' = log /\ hist' = hist
  <1>1. durable = Len(log) /\ durable + 1 = Len(hist) /\ log \in Seq(Event) /\ hist \in Seq(Room)
    BY DEF IInv, LogFolds, TypeOK
  <1>. QED
    BY <1>1, SubSeqFull DEF Crash

\* Hydration starts from where the snapshot was taken.
LEMMA CrashKeeps ==
    ASSUME IInv, Crash
    PROVE  IInv'
  <1>1. TypeOK'
    BY CrashTyped DEF IInv
  <1>2. log' = log /\ hist' = hist
    BY CrashKeepsLog
  <1>3. RoomFolds'
    <2>1. /\ cursor' \in 1 .. Len(log) + 1
          /\ \A i \in 1 .. Len(log) : i < cursor' <=> log[i].seq <= snap.seq
      BY <1>2 DEF Crash
    <2>2. /\ \A i \in 1 .. Len(log) : log[i].seq = i
          /\ snap.seq \in Nat /\ snap.seq <= Len(log) /\ snap = hist[snap.seq + 1]
      BY DEF IInv, LogFolds, RoomFolds, TypeOK, Room
    <2>3. Len(log) \in Nat
      BY DEF IInv, TypeOK
    <2>4. cursor' = snap.seq + 1
      <3>1. CASE cursor' <= Len(log)
        BY <2>1, <2>2, <2>3, <3>1
      <3>2. CASE cursor' = Len(log) + 1
        BY <2>1, <2>2, <2>3, <3>2
      <3>. QED
        BY <2>1, <2>3, <3>1, <3>2
    <2>. QED
      BY <1>2, <2>2, <2>4 DEF RoomFolds, Crash
  <1>4. OwedSound'
    BY DEF Crash, OwedSound
  <1>. QED
    BY <1>1, <1>2, <1>3, <1>4, SameLogKeeps DEF IInv, Crash

LEMMA ReplayKeeps ==
    ASSUME IInv, Replay
    PROVE  IInv'
  <1>1. TypeOK'
    BY NextTyped DEF IInv, Next, ProcessStep
  <1>2. RoomFolds'
    <2>1. cursor \in 1 .. Len(log) /\ room = hist[cursor]
      BY DEF IInv, TypeOK, RoomFolds, Replay
    <2>. QED
      BY <2>1 DEF IInv, LogFolds, RoomFolds, Replay
  <1>3. OwedSound'
    <2>1. todo' = {}
      BY DEF IInv, TypeOK, Replay
    <2>. QED
      BY <2>1 DEF OwedSound
  <1>. QED
    BY <1>1, <1>2, <1>3, SameLogKeeps DEF IInv, Replay

LEMMA HydratedKeeps ==
    ASSUME IInv, Hydrated
    PROVE  IInv'
  <1>1. TypeOK'
    BY NextTyped DEF IInv, Next, ProcessStep
  <1>2. RoomFolds'
    <2>1. cursor = Len(hist) /\ room = hist[cursor]
      BY DEF IInv, TypeOK, RoomFolds, Hydrated
    <2>. QED
      BY <2>1 DEF IInv, RoomFolds, Hydrated
  <1>3. OwedSound'
    BY DEF IInv, OwedSound, Hydrated
  <1>. QED
    BY <1>1, <1>2, <1>3, SameLogKeeps DEF IInv, Hydrated

LEMMA InitInv == Init => IInv
  <1>. SUFFICES ASSUME Init
                PROVE  IInv
    OBVIOUS
  <1>1. EmptyRoom.leases = {} /\ Exclusive(EmptyRoom.leases) /\ EmptyRoom.seq = 0
    BY DEF EmptyRoom, Exclusive
  <1>2. hist = <<EmptyRoom>> /\ log = <<>> /\ todo = {} /\ durable = 0 /\ mode = "up"
        /\ room = EmptyRoom /\ snap = EmptyRoom
    BY DEF Init
  <1>3. LogFolds /\ RoomFolds
    BY <1>1, <1>2 DEF LogFolds, RoomFolds
  <1>4. HistExclusive /\ LeasesNumbered
    <2>1. \A i \in 1 .. Len(hist) : hist[i] = EmptyRoom
      BY <1>2
    <2>. QED
      BY <1>1, <2>1 DEF HistExclusive, LeasesNumbered
  <1>5. OwedSound /\ GrantsNumbered /\ IdsUnique /\ WritesFenced
    BY <1>2 DEF OwedSound, GrantsNumbered, IdsUnique, WritesFenced
  <1>. QED
    BY <1>3, <1>4, <1>5, InitTyped DEF IInv

LEMMA NextInv ==
    ASSUME ~DiskFaults
    PROVE  IInv /\ [Next]_vars => IInv'
  <1>. SUFFICES ASSUME IInv, [Next]_vars
                PROVE  IInv'
    OBVIOUS
  <1>1. CASE Tick \/ ClockSetBack
    <2>1. TypeOK'
      BY NextTyped DEF IInv
    <2>2. RoomFolds' /\ OwedSound'
      BY <1>1 DEF IInv, RoomFolds, OwedSound, Tick, ClockSetBack
    <2>. QED
      BY <1>1, <2>1, <2>2, SameLogKeeps DEF IInv, Tick, ClockSetBack
  <1>. QED
    BY <1>1, ClientKeeps, AuthorityKeeps, CrashKeeps, ReplayKeeps, HydratedKeeps, UnchangedKeeps
       DEF Next, ProcessStep

\* Room, history, snapshot and log fold into one another, wherever a crash falls.
THEOREM Invariance ==
    ASSUME ~DiskFaults
    PROVE  Spec => []IInv
  BY InitInv, NextInv, PTL DEF Spec
-----------------------------------------------------------------------------
(***************************************************************************)
(* What follows from it, as long as no write to the disk fails.            *)
(***************************************************************************)

\* First claim wins, over any number of sessions, requests, expiries, crashes
\* and replays: no symbol is ever in two leases.
THEOREM LeasesAreExclusive ==
    ASSUME ~DiskFaults
    PROVE  Spec => []LeaseExclusive
  <1>1. IInv => LeaseExclusive
    BY DEF IInv, TypeOK, RoomFolds, HistExclusive, LeaseExclusive
  <1>. QED
    BY <1>1, Invariance, PTL

\* A process hydrated from any snapshot and the events after it holds the room
\* its predecessor held, however often and wherever it crashed.
THEOREM RecoveryIsExact ==
    ASSUME ~DiskFaults
    PROVE  Spec => []RecoversExactly
  <1>1. IInv => RecoversExactly
    BY DEF IInv, RoomFolds, RecoversExactly
  <1>. QED
    BY <1>1, Invariance, PTL

\* Fencing tokens grow along the log, over every crash.
THEOREM TokensAlwaysIncrease ==
    ASSUME ~DiskFaults
    PROVE  Spec => []TokensIncrease
  <1>1. IInv => TokensIncrease
    BY DEF IInv, TypeOK, GrantsNumbered, TokensIncrease
  <1>. QED
    BY <1>1, Invariance, PTL

\* Every event is stored under a seq of its own and every client id once.
THEOREM AppliedExactlyOnce ==
    ASSUME ~DiskFaults
    PROVE  Spec => []ExactlyOnce
  <1>1. IInv => ExactlyOnce
    BY DEF IInv, TypeOK, LogFolds, IdsUnique, ExactlyOnce
  <1>. QED
    BY <1>1, Invariance, PTL

\* No write enters the log past the fence.
THEOREM WritesAreFenced ==
    ASSUME ~DiskFaults
    PROVE  Spec => []WritesFenced
  <1>1. IInv => WritesFenced
    BY DEF IInv
  <1>. QED
    BY <1>1, Invariance, PTL
-----------------------------------------------------------------------------
(***************************************************************************)
(* The refinement: every step of the room is a step of the lease table.    *)
(***************************************************************************)

\* What the lease table sees of a set of leases.
Seen(L) == {[token |-> l.token, session |-> l.session, symbols |-> l.symbols] : l \in L}

\* Renewing is invisible; anything but a grant only takes leases away.
LEMMA SeenAfter ==
    ASSUME NEW r \in Room, NEW e \in Event, e.type # "LEASE_GRANTED"
    PROVE  Seen(ApplyEvent(r, e).leases) \subseteq Seen(r.leases)
  <1>1. CASE e.type = "HEARTBEAT"
    <2>1. \A l \in r.leases : LET m == [l EXCEPT !.expiresAt = e.ts + LeaseTtl]
                             IN  /\ m.token = l.token /\ m.session = l.session
                                 /\ m.symbols = l.symbols
      BY DEF Room, Lease
    <2>2. ApplyEvent(r, e).leases = Renewed(r.leases, e.session, e.ts)
      BY <1>1, LeasesAfter
    <2>3. \A k \in ApplyEvent(r, e).leases :
            \E l \in r.leases : k.token = l.token /\ k.session = l.session /\ k.symbols = l.symbols
      BY <2>1, <2>2 DEF Renewed
    <2>. QED
      BY <2>3 DEF Seen
  <1>2. CASE e.type # "HEARTBEAT"
    <2>1. ApplyEvent(r, e).leases \subseteq r.leases
      BY <1>2, LeasesAfter DEF WithoutSession, WithoutLease, Event, EventType
    <2>. QED
      BY <2>1 DEF Seen
  <1>. QED
    BY <1>1, <1>2

\* The history and the log after an append, as the lease table sees them.
LEMMA AppendRefines ==
    ASSUME IInv, mode = "up", NEW e, Appendable(e), NEW owed \in SUBSET Event,
           AppendEvent(e, owed),
           e.type = "LEASE_GRANTED" => e.session \in Sessions /\ e.token \in 1 .. MaxSeq
    PROVE  [Leases!Next]_(Leases!vars)
  <1>. DEFINE new == Stamped(e)
              H   == Seen(room.leases)
              H1  == Seen(room'.leases)
  <1>1. /\ new \in Event /\ new.type = e.type /\ new.token = e.token
        /\ new.symbols = e.symbols /\ new.session = e.session
        /\ room \in Room /\ Len(log) \in Nat
    BY StampedFacts DEF IInv, TypeOK, Appendable
  <1>2. /\ hist[Len(hist)] = room /\ hist'[Len(hist')] = room'
        /\ Len(log') = Len(log) + 1 /\ log'[Len(log) + 1] = new
        /\ \A i \in 1 .. Len(log) : log'[i] = log[i]
        /\ room'.leases = ApplyEvent(room, new).leases
        /\ DOMAIN log = 1 .. Len(log) /\ DOMAIN log' = 1 .. Len(log) + 1
    BY AppendFacts DEF IInv, TypeOK, RoomFolds
  <1>. HIDE DEF new
  <1>3. CASE e.type = "LEASE_GRANTED"
    <2>1. TokensIssued' = TokensIssued \cup {e.token}
      BY <1>1, <1>2, <1>3 DEF TokensIssued
    <2>2. \A l \in room.leases : l.token < Len(log)
      BY <1>1, <1>2 DEF IInv, TypeOK, LeasesNumbered
    <2>3. \A u \in TokensIssued : u < e.token
      BY <1>1, <1>2, <1>3 DEF IInv, GrantsNumbered, TokensIssued, Appendable
    <2>4. room'.leases = room.leases \cup {GrantedLease(new)}
      <3>1. \A l \in room.leases : l.token # new.token
        BY <1>1, <1>3, <2>2 DEF Appendable
      <3>. QED
        BY <1>1, <1>2, <1>3, <3>1, LeasesAfter DEF WithoutLease
    <2>5. H1 = H \cup {[token |-> e.token, session |-> e.session, symbols |-> e.symbols]}
      <3>1. /\ GrantedLease(new).token = e.token /\ GrantedLease(new).session = e.session
            /\ GrantedLease(new).symbols = e.symbols
        BY <1>1 DEF GrantedLease
      <3>2. ASSUME NEW L, NEW g
            PROVE  Seen(L \cup {g}) = Seen(L) \cup
                        {[token |-> g.token, session |-> g.session, symbols |-> g.symbols]}
        BY DEF Seen
      <3>. QED
        BY <2>4, <3>1, <3>2
    <2>6. \A h \in H : h.symbols \cap e.symbols = {}
      BY <1>3 DEF Appendable, Seen
    <2>7. e.symbols \in SUBSET Symbols
      BY DEF Appendable, Event
    <2>8. Leases!Grant(e.session, e.symbols, e.token)
      BY <1>2, <2>1, <2>3, <2>5, <2>6 DEF Leases!Grant, Seen
    <2>. QED
      BY <1>3, <2>7, <2>8 DEF Leases!Next
  <1>4. CASE e.type # "LEASE_GRANTED"
    <2>1. TokensIssued' = TokensIssued
      BY <1>1, <1>2, <1>4 DEF TokensIssued
    <2>2. H1 \subseteq H
      BY <1>1, <1>2, <1>4, SeenAfter
    <2>3. Leases!Free(H \ H1)
      BY <1>2, <2>1, <2>2 DEF Leases!Free, Seen
    <2>4. \E F \in SUBSET H : Leases!Free(F)
      <3>1. H \ H1 \in SUBSET H
        OBVIOUS
      <3>. QED
        BY <2>3, <3>1 DEF Leases!Free
    <2>5. H = {[token |-> l.token, session |-> l.session, symbols |-> l.symbols] :
                    l \in hist[Len(hist)].leases}
      BY <1>2 DEF Seen
    <2>. QED
      BY <2>4, <2>5 DEF Leases!Next
  <1>. QED
    BY <1>3, <1>4

\* A step that leaves log and history alone is a stutter of the lease table.
LEMMA SameLogRefines ==
    ASSUME UNCHANGED <<log, hist>>
    PROVE  UNCHANGED Leases!vars
  BY DEF Leases!vars, TokensIssued

LEMMA InitRefines == Init => Leases!Init
  <1>. SUFFICES ASSUME Init
                PROVE  Leases!Init
    OBVIOUS
  <1>1. hist[Len(hist)].leases = {} /\ TokensIssued = {}
    BY DEF Init, EmptyRoom, TokensIssued
  <1>. QED
    BY <1>1 DEF Leases!Init

\* A submit of a fresh client event, and the other appends.
LEMMA SubmitRefines ==
    ASSUME ~DiskFaults, IInv, NEW e, ClientEvent(e), Submit(e)
    PROVE  [Leases!Next]_(Leases!vars)
  <1>1. CASE UNCHANGED vars
    BY <1>1, SameLogRefines DEF vars
  <1>2. CASE e.id \notin LoggedIds /\ PassesFence(e) /\ AppendEvent(e, Derived(Stamped(e), room))
    <2>1. mode = "up" /\ Appendable(e)
      BY <1>2 DEF Submit, SubmitAs, Idle, Appendable, ClientEvent
    <2>2. Derived(Stamped(e), room) \in SUBSET Event
      BY StampedFacts, DerivedTyped DEF IInv, TypeOK, ClientEvent
    <2>. QED
      BY <1>2, <2>1, <2>2, AppendRefines DEF ClientEvent
  <1>. QED
    BY <1>1, <1>2 DEF Submit, SubmitAs, AppendFails

LEMMA StepRefines ==
    ASSUME ~DiskFaults
    PROVE  IInv /\ [Next]_vars => [Leases!Next]_(Leases!vars)
  <1>. SUFFICES ASSUME IInv, [Next]_vars
                PROVE  [Leases!Next]_(Leases!vars)
    OBVIOUS
  <1>1. CASE ClientStep
    <2>1. (\E e : ClientEvent(e) /\ Submit(e)) \/ \E i \in DOMAIN log : Resend(i)
      BY <1>1, ClientStepSubmits
    <2>2. ASSUME NEW i \in DOMAIN log, Resend(i)
          PROVE  UNCHANGED Leases!vars
      BY <2>2, ResendIdle, SameLogRefines DEF vars
    <2>. QED
      BY <2>1, <2>2, SubmitRefines
  <1>2. CASE AppendOwed
    <2>1. PICK e \in todo : AppendEvent(e, todo \ {e})
      BY <1>2 DEF AppendOwed, AppendFails
    <2>2. mode = "up" /\ todo \ {e} \in SUBSET Event
      BY DEF IInv, TypeOK
    <2>3. Appendable(e)
      BY <2>1, OwedAppendable
    <2>4. e.type = "LEASE_GRANTED" => e.session \in Sessions /\ e.token \in 1 .. MaxSeq
      BY DEF IInv, OwedSound
    <2>. QED
      BY <2>1, <2>2, <2>3, <2>4, AppendRefines
  <1>3. ASSUME NEW s \in Sessions, Heartbeat(s)
        PROVE  [Leases!Next]_(Leases!vars)
    <2>1. /\ mode = "up" /\ AppendEvent(Beat(s), {}) /\ Appendable(Beat(s))
          /\ Beat(s).type = "HEARTBEAT"
      BY <1>3, BeatAppendable DEF Heartbeat, Idle, AppendFails, Beat, Blank
    <2>. QED
      BY <2>1, AppendRefines
  <1>4. CASE ExpireLeases \/ \E s \in Sessions : Disconnect(s)
    BY <1>4, SameLogRefines DEF ExpireLeases, Disconnect
  <1>5. CASE Crash
    BY <1>5, CrashKeepsLog, SameLogRefines
  <1>6. CASE Replay \/ Hydrated \/ Tick \/ ClockSetBack \/ UNCHANGED vars
    BY <1>6, SameLogRefines DEF Replay, Hydrated, Tick, ClockSetBack, vars
  <1>. QED
    BY <1>1, <1>2, <1>3, <1>4, <1>5, <1>6 DEF Next, AuthorityStep, ProcessStep

\* The authority, with its snapshots, crashes, hydration, retries, expiry poll
\* and disconnects, implements the lease table.
THEOREM ImplementsTable ==
    ASSUME ~DiskFaults
    PROVE  Spec => ImplementsLeaseTable
  BY InitRefines, StepRefines, Invariance, PTL DEF Spec, ImplementsLeaseTable, Leases!Spec
-----------------------------------------------------------------------------
(***************************************************************************)
(* Every step, by what it does to the log: a client's event, the next      *)
(* event a handler owes, a heartbeat, a handler's decision, or nothing.    *)
(***************************************************************************)
Appends(e, owed) ==
    /\ mode = "up"
    /\ Appendable(e)
    /\ owed \in SUBSET Event
    /\ AppendEvent(e, owed)

ClientAppends(e) ==
    /\ todo = {}
    /\ ClientEvent(e)
    /\ Appends(e, Derived(Stamped(e), room))

OwedAppends(e) ==
    /\ e \in todo
    /\ Appends(e, todo \ {e})

BeatAppends(s) ==
    /\ todo = {}
    /\ Appends(Beat(s), {})

SameLog == UNCHANGED <<log, hist>>

Quiet ==
    /\ SameLog
    /\ UNCHANGED todo
    /\ mode = "up" => UNCHANGED <<mode, room, lastTs>>
    /\ ~ClockStepsBack => now' >= now

LEMMA StepKinds ==
    ASSUME ~DiskFaults, IInv, [Next]_vars
    PROVE  \/ \E e : ClientAppends(e)
           \/ \E e \in todo : OwedAppends(e)
           \/ \E s \in Sessions : BeatAppends(s)
           \/ ExpireLeases
           \/ \E s \in Sessions : Disconnect(s)
           \/ Crash
           \/ Quiet
  <1>0. UNCHANGED vars => Quiet
    BY DEF vars, Quiet, SameLog, IInv, TypeOK
  <1>1. CASE ClientStep
    <2>1. ASSUME NEW i \in DOMAIN log, Resend(i)
          PROVE  Quiet
      BY <1>0, <2>1, ResendIdle
    <2>2. ASSUME NEW e, ClientEvent(e), Submit(e)
          PROVE  ClientAppends(e) \/ Quiet
      <3>1. CASE UNCHANGED vars
        BY <1>0, <3>1
      <3>2. CASE e.id \notin LoggedIds /\ PassesFence(e)
                    /\ AppendEvent(e, Derived(Stamped(e), room))
        <4>1. mode = "up" /\ todo = {} /\ Appendable(e)
          BY <2>2, <3>2 DEF Submit, SubmitAs, Idle, Appendable, ClientEvent
        <4>2. Derived(Stamped(e), room) \in SUBSET Event
          BY <2>2, StampedFacts, DerivedTyped DEF IInv, TypeOK, ClientEvent
        <4>. QED
          BY <2>2, <3>2, <4>1, <4>2 DEF ClientAppends, Appends
      <3>. QED
        BY <2>2, <3>1, <3>2 DEF Submit, SubmitAs, AppendFails
    <2>. QED
      BY <1>1, <2>1, <2>2, ClientStepSubmits
  <1>2. CASE AppendOwed
    <2>1. PICK e \in todo : AppendEvent(e, todo \ {e})
      BY <1>2 DEF AppendOwed, AppendFails
    <2>2. mode = "up" /\ todo \ {e} \in SUBSET Event
      BY DEF IInv, TypeOK
    <2>. QED
      BY <2>1, <2>2, OwedAppendable DEF OwedAppends, Appends
  <1>3. ASSUME NEW s \in Sessions, Heartbeat(s)
        PROVE  BeatAppends(s)
    BY <1>3, BeatAppendable DEF Heartbeat, Idle, AppendFails, BeatAppends, Appends
  <1>4. CASE Replay \/ Hydrated \/ Tick \/ ClockSetBack
    BY <1>4 DEF Replay, Hydrated, Tick, ClockSetBack, Quiet, SameLog, IInv, TypeOK
  <1>. QED
    BY <1>0, <1>1, <1>2, <1>3, <1>4 DEF Next, AuthorityStep, ProcessStep

\* What is owed after each kind of append.
LEMMA OwedAfterClient ==
    ASSUME IInv, NEW e, ClientAppends(e)
    PROVE  LET new == Stamped(e)
           IN  \/ /\ e.type = "LEASE_REQUESTED"
                  /\ todo' = {Denial(new)} \/ todo' = {Grant(new)}
               \/ /\ e.type # "LEASE_REQUESTED"
                  /\ \A d \in todo' : \E t : d = Expired(t, "session_ended")
  <1>1. Stamped(e).type = e.type
    BY StampedFacts DEF IInv, ClientAppends, ClientEvent
  <1>2. todo' = Derived(Stamped(e), room)
    BY DEF ClientAppends, Appends, AppendEvent
  <1>. QED
    BY <1>1, <1>2 DEF Derived
-----------------------------------------------------------------------------
(***************************************************************************)
(* No lease outlives its session.                                          *)
(***************************************************************************)

\* A grant is owed right after its request.
GrantFollowsRequest ==
    \A e \in todo : e.type = "LEASE_GRANTED" => log[Len(log)].type = "LEASE_REQUESTED"

\* In every room the log went through, a session that had ended before has only
\* leases with a token from after its end.
EndedBefore ==
    \A i \in 1 .. Len(log), n \in 1 .. Len(hist) :
        i < n /\ log[i].type = "SESSION_ENDED" =>
            \A l \in hist[n].leases : l.session = log[i].session => i < l.token

LEMMA GrantFollowsRequestKept ==
    ASSUME ~DiskFaults, IInv, GrantFollowsRequest, [Next]_vars
    PROVE  GrantFollowsRequest'
  <1>0. IInv'
    BY NextInv
  <1>1. ASSUME NEW e, ClientAppends(e)
        PROVE  GrantFollowsRequest'
    <2>1. /\ Len(log') = Len(log) + 1 /\ log'[Len(log) + 1] = Stamped(e)
          /\ Stamped(e).type = e.type
      BY <1>1, AppendFacts, StampedFacts DEF ClientAppends, Appends, ClientEvent, IInv
    <2>2. /\ \A t : Expired(t, "session_ended").type = "LEASE_EXPIRED"
          /\ Denial(Stamped(e)).type = "LEASE_DENIED"
      BY DEF Expired, Denial, Blank
    <2>3. CASE e.type = "LEASE_REQUESTED"
      <3>1. log'[Len(log')].type = "LEASE_REQUESTED"
        BY <2>1, <2>3
      <3>. QED
        BY <3>1 DEF GrantFollowsRequest
    <2>4. CASE e.type # "LEASE_REQUESTED"
      BY <1>1, <2>2, <2>4, OwedAfterClient DEF GrantFollowsRequest
    <2>. QED
      BY <2>3, <2>4
  <1>2. ASSUME NEW e \in todo, OwedAppends(e)
        PROVE  GrantFollowsRequest'
    <2>1. todo' = todo \ {e}
      BY <1>2 DEF OwedAppends, Appends, AppendEvent
    <2>2. \A f \in todo' : f.type # "LEASE_GRANTED"
      BY <2>1 DEF IInv, OwedSound
    <2>. QED
      BY <2>2 DEF GrantFollowsRequest
  <1>3. ASSUME NEW s \in Sessions, BeatAppends(s)
        PROVE  GrantFollowsRequest'
    BY <1>3 DEF BeatAppends, Appends, AppendEvent, GrantFollowsRequest
  <1>4. CASE ExpireLeases \/ \E s \in Sessions : Disconnect(s)
    <2>1. \A t, why, s : /\ Expired(t, why).type = "LEASE_EXPIRED"
                         /\ Ended(s).type = "SESSION_ENDED"
      BY DEF Expired, Ended, Blank
    <2>. QED
      BY <1>4, <2>1 DEF ExpireLeases, Disconnect, GrantFollowsRequest
  <1>5. CASE Crash
    BY <1>5 DEF Crash, GrantFollowsRequest
  <1>6. CASE Quiet
    BY <1>6 DEF Quiet, SameLog, GrantFollowsRequest
  <1>. QED
    BY <1>1, <1>2, <1>3, <1>4, <1>5, <1>6, StepKinds

\* Apart from grants and heartbeats, events only take leases away.
LEMMA OnlyFrees ==
    ASSUME NEW r \in Room, NEW e \in Event, e.type \notin {"HEARTBEAT", "LEASE_GRANTED"}
    PROVE  ApplyEvent(r, e).leases \subseteq r.leases
  BY LeasesAfter DEF WithoutSession, WithoutLease, Event, EventType

\* A lease after an event has its token and session from before, or the event
\* granted it; after the end of a session none is that session's.
LEMMA HoldersAfter ==
    ASSUME NEW r \in Room, NEW e \in Event
    PROVE  /\ \A k \in ApplyEvent(r, e).leases :
                \/ \E l \in r.leases : k.token = l.token /\ k.session = l.session
                \/ e.type = "LEASE_GRANTED" /\ k.token = e.token
           /\ e.type = "SESSION_ENDED" =>
                \A k \in ApplyEvent(r, e).leases : k.session # e.session
  <1>1. CASE e.type = "LEASE_GRANTED"
    BY <1>1, LeasesAfter DEF WithoutLease, GrantedLease
  <1>2. CASE e.type = "HEARTBEAT"
    <2>1. \A l \in r.leases : LET m == [l EXCEPT !.expiresAt = e.ts + LeaseTtl]
                             IN  m.token = l.token /\ m.session = l.session
      BY DEF Room, Lease
    <2>2. ApplyEvent(r, e).leases = Renewed(r.leases, e.session, e.ts)
      BY <1>2, LeasesAfter
    <2>. QED
      BY <1>2, <2>1, <2>2 DEF Renewed
  <1>3. CASE e.type = "SESSION_ENDED"
    BY <1>3, LeasesAfter DEF WithoutSession
  <1>4. CASE e.type \notin {"LEASE_GRANTED", "HEARTBEAT", "SESSION_ENDED"}
    BY <1>4, OnlyFrees
  <1>. QED
    BY <1>1, <1>2, <1>3, <1>4

LEMMA AppendKeepsEndedBefore ==
    ASSUME IInv, GrantFollowsRequest, EndedBefore, NEW e, NEW owed, Appends(e, owed),
           e.type = "LEASE_GRANTED" => e \in todo
    PROVE  EndedBefore'
  <1>. DEFINE n == Len(log) + 1
  <1>1. /\ n \in Nat /\ n >= 1 /\ Len(hist) = n
        /\ Len(log') = n /\ Len(hist') = n + 1
        /\ \A i \in 1 .. Len(log) : log'[i] = log[i]
        /\ \A i \in 1 .. n : hist'[i] = hist[i]
        /\ log'[n] = Stamped(e) /\ hist'[n + 1] = room' /\ room = hist[n]
        /\ room'.leases = ApplyEvent(room, Stamped(e)).leases
        /\ room \in Room
    BY AppendFacts DEF IInv, TypeOK, Appends
  <1>2. /\ Stamped(e) \in Event /\ Stamped(e).type = e.type
        /\ Stamped(e).session = e.session /\ Stamped(e).token = e.token
    BY StampedFacts DEF Appends, Appendable, IInv
  <1>3. /\ \A k \in room'.leases :
                \/ \E l \in room.leases : k.token = l.token /\ k.session = l.session
                \/ e.type = "LEASE_GRANTED" /\ k.token = Len(log)
        /\ e.type = "SESSION_ENDED" => \A k \in room'.leases : k.session # e.session
    BY <1>1, <1>2, HoldersAfter DEF Appends, Appendable
  <1>4. e.type = "LEASE_GRANTED" => log[Len(log)].type = "LEASE_REQUESTED"
    BY DEF GrantFollowsRequest
  <1>5. ASSUME NEW i \in 1 .. n, log'[i].type = "SESSION_ENDED",
               NEW k \in room'.leases, k.session = log'[i].session
        PROVE  i < k.token
    <2>1. i # n
      BY <1>1, <1>2, <1>3, <1>5
    <2>2. i \in 1 .. Len(log) /\ log'[i] = log[i]
      BY <1>1, <2>1
    <2>3. CASE \E l \in room.leases : k.token = l.token /\ k.session = l.session
      BY <1>1, <1>5, <2>2, <2>3 DEF EndedBefore
    <2>4. CASE e.type = "LEASE_GRANTED" /\ k.token = Len(log)
      BY <1>1, <1>4, <1>5, <2>2, <2>4
    <2>. QED
      BY <1>3, <2>3, <2>4
  <1>6. ASSUME NEW i \in 1 .. n, NEW m \in 1 .. n, i < m, log'[i].type = "SESSION_ENDED",
               NEW k \in hist'[m].leases, k.session = log'[i].session
        PROVE  i < k.token
    <2>1. i \in 1 .. Len(log) /\ log'[i] = log[i] /\ hist'[m] = hist[m]
      BY <1>1, <1>6
    <2>. QED
      BY <1>1, <1>6, <2>1 DEF EndedBefore
  <1>7. \A m \in 1 .. n + 1 : m \in 1 .. n \/ m = n + 1
    BY <1>1
  <1>. HIDE DEF n
  <1>. QED
    BY <1>1, <1>5, <1>6, <1>7 DEF EndedBefore

LEMMA EndedBeforeKept ==
    ASSUME ~DiskFaults, IInv, GrantFollowsRequest, EndedBefore, [Next]_vars
    PROVE  EndedBefore'
  <1>1. ASSUME NEW e, ClientAppends(e)
        PROVE  EndedBefore'
    BY <1>1, AppendKeepsEndedBefore DEF ClientAppends, ClientEvent
  <1>2. ASSUME NEW e \in todo, OwedAppends(e)
        PROVE  EndedBefore'
    BY <1>2, AppendKeepsEndedBefore DEF OwedAppends
  <1>3. ASSUME NEW s \in Sessions, BeatAppends(s)
        PROVE  EndedBefore'
    <2>1. Beat(s).type # "LEASE_GRANTED"
      BY DEF Beat, Blank
    <2>. QED
      BY <1>3, <2>1, AppendKeepsEndedBefore DEF BeatAppends
  <1>4. CASE UNCHANGED <<log, hist>>
    BY <1>4 DEF EndedBefore
  <1>5. CASE ExpireLeases \/ (\E s \in Sessions : Disconnect(s)) \/ Crash \/ Quiet
    BY <1>4, <1>5, CrashKeepsLog DEF ExpireLeases, Disconnect, Quiet, SameLog
  <1>. QED
    BY <1>1, <1>2, <1>3, <1>5, StepKinds

\* An ended session holds no lease it had asked for before it ended, however
\* its end was reached and however often the authority crashed since.
THEOREM LeasesDieWithTheirSession ==
    ASSUME ~DiskFaults
    PROVE  Spec => []NoLeaseOutlivesItsSession
  <1>1. Init => GrantFollowsRequest /\ EndedBefore
    BY DEF Init, GrantFollowsRequest, EndedBefore
  <1>2. IInv /\ GrantFollowsRequest /\ EndedBefore /\ [Next]_vars
            => (GrantFollowsRequest /\ EndedBefore)'
    BY GrantFollowsRequestKept, EndedBeforeKept
  <1>3. IInv /\ EndedBefore => NoLeaseOutlivesItsSession
    <2>. SUFFICES ASSUME IInv, EndedBefore,
                         NEW l \in room.leases, NEW i \in DOMAIN log,
                         log[i].type = "SESSION_ENDED", log[i].session = l.session,
                         log[i].seq <= room.seq
                  PROVE  log[i].seq < l.token
      BY DEF NoLeaseOutlivesItsSession
    <2>1. \E n \in 1 .. Len(hist) : room = hist[n]
      BY DEF IInv, TypeOK, RoomFolds
    <2>2. PICK n \in 1 .. Len(hist) : room = hist[n]
      BY <2>1
    <2>3. i \in 1 .. Len(log) /\ log[i].seq = i /\ room.seq = n - 1
      BY <2>2 DEF IInv, TypeOK, LogFolds
    <2>4. i < n
      BY <2>2, <2>3 DEF IInv, TypeOK
    <2>. QED
      BY <2>2, <2>3, <2>4 DEF EndedBefore
  <1>. QED
    BY <1>1, <1>2, <1>3, Invariance, PTL DEF Spec
-----------------------------------------------------------------------------
(***************************************************************************)
(* What holds as long as the authority process meets no fault at all.      *)
(***************************************************************************)
LEMMA NoCrash ==
    ASSUME MaxFaults = 0, IInv
    PROVE  ~Crash
  BY DEF IInv, TypeOK, Crash

\* A request that is not answered in the log is its last entry, and its answer
\* is all the running handler still owes.
Answers == {"LEASE_GRANTED", "LEASE_DENIED"}

AnswerOwed ==
    \A i \in 1 .. Len(log) :
        log[i].type = "LEASE_REQUESTED" =>
            \/ i < Len(log) /\ log[i + 1].type \in Answers
            \/ i = Len(log) /\ \E e \in todo : todo = {e} /\ e.type \in Answers

LEMMA AnswerOwedKept ==
    ASSUME MaxFaults = 0, ~DiskFaults, IInv, AnswerOwed, [Next]_vars
    PROVE  AnswerOwed'
  <1>. DEFINE n == Len(log) + 1
  <1>0. ASSUME NEW e, NEW owed, Appends(e, owed)
        PROVE  /\ n \in Nat /\ n >= 1 /\ Len(log') = n /\ todo' = owed
               /\ \A i \in 1 .. Len(log) : log'[i] = log[i]
               /\ log'[n] = Stamped(e) /\ Stamped(e).type = e.type
    BY <1>0, AppendFacts, StampedFacts DEF Appends, Appendable, AppendEvent, IInv, TypeOK
  <1>1. ASSUME todo = {}, NEW e, NEW owed, Appends(e, owed),
               e.type = "LEASE_REQUESTED" => \E d \in owed : owed = {d} /\ d.type \in Answers
        PROVE  AnswerOwed'
    <2>1. /\ n \in Nat /\ n >= 1 /\ Len(log') = n /\ todo' = owed
          /\ \A i \in 1 .. Len(log) : log'[i] = log[i]
          /\ log'[n] = Stamped(e) /\ Stamped(e).type = e.type
      BY <1>0, <1>1
    <2>2. \A i \in 1 .. n : i \in 1 .. Len(log) \/ i = n
      BY <2>1
    <2>3. \A i \in 1 .. Len(log) :
            log[i].type = "LEASE_REQUESTED" => i + 1 \in 1 .. Len(log) /\ log[i + 1].type \in Answers
      BY <1>1, <2>1 DEF AnswerOwed
    <2>. HIDE DEF n
    <2>. QED
      BY <1>1, <2>1, <2>2, <2>3 DEF AnswerOwed
  <1>2. ASSUME NEW e, ClientAppends(e)
        PROVE  AnswerOwed'
    <2>1. Denial(Stamped(e)).type \in Answers /\ Grant(Stamped(e)).type \in Answers
      BY DEF Denial, Grant, Blank, Answers
    <2>2. e.type = "LEASE_REQUESTED" => \E d \in todo' : todo' = {d} /\ d.type \in Answers
      BY <1>2, <2>1, OwedAfterClient
    <2>3. todo' = Derived(Stamped(e), room)
      BY <1>2 DEF ClientAppends, Appends, AppendEvent
    <2>. QED
      BY <1>1, <1>2, <2>2, <2>3 DEF ClientAppends
  <1>3. ASSUME NEW s \in Sessions, BeatAppends(s)
        PROVE  AnswerOwed'
    <2>1. Beat(s).type # "LEASE_REQUESTED"
      BY DEF Beat, Blank
    <2>. QED
      BY <1>1, <1>3, <2>1 DEF BeatAppends
  <1>4. ASSUME NEW e \in todo, OwedAppends(e)
        PROVE  AnswerOwed'
    <2>1. /\ n \in Nat /\ n >= 1 /\ Len(log') = n /\ todo' = todo \ {e}
          /\ \A i \in 1 .. Len(log) : log'[i] = log[i]
          /\ log'[n] = Stamped(e) /\ Stamped(e).type = e.type
      BY <1>0, <1>4 DEF OwedAppends
    <2>2. \A i \in 1 .. n : i \in 1 .. Len(log) \/ i = n
      BY <2>1
    <2>3. e.type # "LEASE_REQUESTED"
      BY DEF IInv, OwedSound
    <2>4. \A i \in 1 .. Len(log) :
            log[i].type = "LEASE_REQUESTED" => log'[i + 1].type \in Answers /\ i < n
      BY <2>1 DEF AnswerOwed
    <2>. HIDE DEF n
    <2>. QED
      BY <2>1, <2>2, <2>3, <2>4 DEF AnswerOwed
  <1>5. CASE ExpireLeases \/ \E s \in Sessions : Disconnect(s)
    <2>1. todo = {} /\ UNCHANGED log
      BY <1>5 DEF ExpireLeases, Disconnect, Idle
    <2>. QED
      BY <2>1 DEF AnswerOwed
  <1>6. CASE Quiet
    BY <1>6 DEF Quiet, SameLog, AnswerOwed
  <1>. QED
    BY <1>2, <1>3, <1>4, <1>5, <1>6, NoCrash, StepKinds

\* Whoever asks for a lease is told: between handlers every request in the log
\* is followed at once by its grant or its denial.
THEOREM RequestsAreAnswered ==
    ASSUME MaxFaults = 0, ~DiskFaults
    PROVE  Spec => []RequestsAnswered
  <1>1. Init => AnswerOwed
    BY DEF Init, AnswerOwed
  <1>2. IInv /\ AnswerOwed /\ [Next]_vars => AnswerOwed'
    BY AnswerOwedKept
  <1>3. IInv /\ AnswerOwed => RequestsAnswered
    BY DEF IInv, TypeOK, AnswerOwed, Answers, RequestsAnswered
  <1>. QED
    BY <1>1, <1>2, <1>3, Invariance, PTL DEF Spec
-----------------------------------------------------------------------------
(***************************************************************************)
(* No lease is expired early, as long as the clock is not set back either. *)
(***************************************************************************)

\* In log L, the grant of token t went to s, and neither it nor a heartbeat of s
\* since then keeps the lease beyond d.
LastsUntil(L, t, s, d) ==
    \A g \in 1 .. Len(L) :
        L[g].type = "LEASE_GRANTED" /\ L[g].token = t =>
            /\ L[g].session = s
            /\ L[g].expiresAt <= d
            /\ \A b \in g .. Len(L) :
                    L[b].type = "HEARTBEAT" /\ L[b].session = s => L[b].ts + LeaseTtl <= d

\* The clock the log runs on is ahead of every entry, and no grant reaches
\* further than a time to live beyond it.
ClockAhead ==
    /\ \A i \in 1 .. Len(log) : log[i].ts <= lastTs
    /\ \A i \in 1 .. Len(log) :
            log[i].type = "LEASE_GRANTED" => log[i].expiresAt <= lastTs + LeaseTtl

OwedGrantsShort ==
    \A e \in todo : e.type = "LEASE_GRANTED" => e.expiresAt <= lastTs + LeaseTtl

\* A lease of the room lasts as long as its grant and every heartbeat say.
LeasesCover == \A l \in room.leases : LastsUntil(log, l.token, l.session, l.expiresAt)

\* A handler that expires a lease for its age has found it past its time.
OwedExpiriesDue ==
    \A e \in todo :
        e.type = "LEASE_EXPIRED" /\ e.reason = "ttl" => \E s : LastsUntil(log, e.token, s, now)

Timely ==
    /\ mode = "up"
    /\ ClockAhead
    /\ OwedGrantsShort
    /\ LeasesCover
    /\ OwedExpiriesDue
    /\ NoEarlyExpiry

\* One more entry that is neither that grant nor such a heartbeat.
LEMMA LastsOn ==
    ASSUME NEW L, NEW M, NEW t, NEW s, NEW d, LastsUntil(L, t, s, d),
           Len(L) \in Nat, Len(M) = Len(L) + 1,
           \A i \in 1 .. Len(L) : M[i] = L[i],
           ~ (M[Len(M)].type = "LEASE_GRANTED" /\ M[Len(M)].token = t),
           ~ (M[Len(M)].type = "HEARTBEAT" /\ M[Len(M)].session = s)
    PROVE  LastsUntil(M, t, s, d)
  <1>. SUFFICES ASSUME NEW g \in 1 .. Len(M),
                       M[g].type = "LEASE_GRANTED", M[g].token = t
                PROVE  /\ M[g].session = s
                       /\ M[g].expiresAt <= d
                       /\ \A b \in g .. Len(M) :
                            M[b].type = "HEARTBEAT" /\ M[b].session = s
                                => M[b].ts + LeaseTtl <= d
    BY DEF LastsUntil
  <1>1. g \in 1 .. Len(L) /\ M[g] = L[g]
    OBVIOUS
  <1>2. \A b \in g .. Len(M) : b = Len(M) \/ (b \in g .. Len(L) /\ M[b] = L[b])
    BY <1>1
  <1>. QED
    BY <1>1, <1>2 DEF LastsUntil

\* The stamp of an append is past everything so far.
LEMMA StampAhead ==
    ASSUME TypeOK, NEW e \in Event
    PROVE  /\ Stamp > lastTs /\ Stamp >= now
           /\ Stamped(e).reason = e.reason
  <1>1. Stamp > lastTs /\ Stamp >= now
    BY DEF TypeOK, Stamp
  <1>. QED
    BY <1>1 DEF Stamped, Event

\* The room and the log after an append.
LEMMA AppendKeepsTimely ==
    ASSUME IInv, Timely, NEW e, NEW owed, Appends(e, owed),
           e.type \in {"LEASE_GRANTED", "LEASE_EXPIRED"} => e \in todo
    PROVE  ClockAhead' /\ LeasesCover' /\ NoEarlyExpiry' /\ mode' = "up"
  <1>. DEFINE n == Len(log) + 1
              new == Stamped(e)
  <1>1. /\ n \in Nat /\ n >= 1 /\ Len(log) \in Nat /\ Len(log') = n
        /\ \A i \in 1 .. Len(log) : log'[i] = log[i]
        /\ log'[n] = new
        /\ room'.leases = ApplyEvent(room, new).leases
        /\ room \in Room
        /\ log \in Seq(Event) /\ log' \in Seq(Event)
    BY AppendFacts DEF IInv, TypeOK, Appends
  <1>2. /\ new \in Event /\ new.type = e.type /\ new.session = e.session
        /\ new.token = e.token /\ new.expiresAt = e.expiresAt /\ new.reason = e.reason
        /\ new.ts = lastTs' /\ lastTs' > lastTs /\ lastTs' >= now
        /\ lastTs \in Nat /\ lastTs' \in Nat /\ now \in Nat /\ LeaseTtl \in Nat
    BY StampedFacts, StampAhead, TimeAssumption
       DEF Appends, Appendable, AppendEvent, Stores, IInv, TypeOK
  <1>3. mode' = "up"
    BY DEF Appends, AppendEvent, Stores
  <1>4. \A i \in 1 .. n : i = n \/ i \in 1 .. Len(log)
    BY <1>1
  <1>5. \A i \in 1 .. Len(log) : log[i].ts \in Nat /\ log[i].expiresAt \in Nat
    <2>1. \A i \in 1 .. Len(log) : log[i] \in Event
      BY DEF IInv, TypeOK
    <2>. QED
      BY <2>1 DEF Event
  <1>. HIDE DEF n, new
  <1>6. ClockAhead'
    <2>1. \A i \in 1 .. n : log'[i].ts <= lastTs'
      BY <1>1, <1>2, <1>4, <1>5 DEF Timely, ClockAhead
    <2>2. \A i \in 1 .. n :
            log'[i].type = "LEASE_GRANTED" => log'[i].expiresAt <= lastTs' + LeaseTtl
      <3>1. ASSUME NEW i \in 1 .. Len(log), log[i].type = "LEASE_GRANTED"
            PROVE  log[i].expiresAt <= lastTs' + LeaseTtl
        BY <1>2, <1>5, <3>1 DEF Timely, ClockAhead
      <3>2. e.type = "LEASE_GRANTED" => e.expiresAt <= lastTs' + LeaseTtl
        <4>1. e.expiresAt \in Nat
          BY <1>2 DEF Event
        <4>. QED
          BY <1>2, <4>1 DEF Timely, OwedGrantsShort
      <3>. QED
        BY <1>1, <1>2, <1>4, <3>1, <3>2
    <2>. QED
      BY <1>1, <2>1, <2>2 DEF ClockAhead
  <1>7. LeasesCover'
    <2>1. \A l \in room.leases : l.token < Len(log)
      <3>1. room = hist[Len(log) + 1] /\ Len(hist) = Len(log) + 1
        BY <1>1, AppendFacts DEF Appends, IInv, TypeOK
      <3>. QED
        BY <1>1, <3>1 DEF IInv, LeasesNumbered
    <2>2. ASSUME NEW l \in room.leases, ~ (e.type = "HEARTBEAT" /\ e.session = l.session)
          PROVE  LastsUntil(log', l.token, l.session, l.expiresAt)
      <3>1. ~ (log'[Len(log')].type = "LEASE_GRANTED" /\ log'[Len(log')].token = l.token)
        <4>1. l.token < Len(log) /\ l.token \in Nat
          BY <1>1, <2>1 DEF Room, Lease
        <4>. QED
          BY <1>1, <1>2, <4>1 DEF Appends, Appendable
      <3>2. LastsUntil(log, l.token, l.session, l.expiresAt)
        BY DEF Timely, LeasesCover
      <3>. QED
        BY <1>1, <1>2, <2>2, <3>1, <3>2, LastsOn DEF n
    <2>3. CASE e.type = "HEARTBEAT"
      <3>1. ASSUME NEW l \in room.leases, l.session = e.session
            PROVE  LastsUntil(log', l.token, l.session, lastTs' + LeaseTtl)
        <4>. SUFFICES ASSUME NEW g \in 1 .. n,
                             log'[g].type = "LEASE_GRANTED", log'[g].token = l.token
                      PROVE  /\ log'[g].session = l.session
                             /\ log'[g].expiresAt <= lastTs' + LeaseTtl
                             /\ \A b \in g .. n : log'[b].ts + LeaseTtl <= lastTs' + LeaseTtl
          BY <1>1 DEF LastsUntil
        <4>1. g \in 1 .. Len(log) /\ log'[g] = log[g]
          BY <1>1, <1>2, <1>4, <2>3
        <4>2. log'[g].session = l.session
          BY <4>1 DEF Timely, LeasesCover, LastsUntil
        <4>3. log'[g].expiresAt <= lastTs' + LeaseTtl
          BY <1>1, <1>6 DEF ClockAhead
        <4>4. ASSUME NEW b \in g .. n
              PROVE  log'[b].ts + LeaseTtl <= lastTs' + LeaseTtl
          <5>1. b \in 1 .. n
            BY <1>1
          <5>2. log'[b].ts <= lastTs' /\ log'[b].ts \in Nat
            BY <1>1, <1>2, <1>4, <1>5, <1>6, <5>1 DEF ClockAhead
          <5>. QED
            BY <1>2, <5>2
        <4>. QED
          BY <4>2, <4>3, <4>4
      <3>2. ASSUME NEW l \in room.leases
            PROVE  LET k == IF l.session = e.session
                            THEN [l EXCEPT !.expiresAt = lastTs' + LeaseTtl] ELSE l
                   IN  LastsUntil(log', k.token, k.session, k.expiresAt)
        <4>1. CASE l.session = e.session
          <5>1. /\ [l EXCEPT !.expiresAt = lastTs' + LeaseTtl].token = l.token
                /\ [l EXCEPT !.expiresAt = lastTs' + LeaseTtl].session = l.session
                /\ [l EXCEPT !.expiresAt = lastTs' + LeaseTtl].expiresAt = lastTs' + LeaseTtl
            BY <1>1 DEF Room, Lease
          <5>. QED
            BY <3>1, <4>1, <5>1
        <4>2. CASE l.session # e.session
          BY <2>2, <4>2
        <4>. QED
          BY <4>1, <4>2
      <3>3. room'.leases = Renewed(room.leases, e.session, lastTs')
        BY <1>1, <1>2, <2>3, LeasesAfter
      <3>. QED
        BY <3>2, <3>3 DEF LeasesCover, Renewed
    <2>4. CASE e.type = "LEASE_GRANTED"
      <3>1. room'.leases = WithoutLease(room.leases, e.token) \cup {GrantedLease(new)}
        BY <1>1, <1>2, <2>4, LeasesAfter
      <3>2. LastsUntil(log', e.token, e.session, e.expiresAt)
        <4>. SUFFICES ASSUME NEW g \in 1 .. n,
                             log'[g].type = "LEASE_GRANTED", log'[g].token = e.token
                      PROVE  /\ log'[g].session = e.session
                             /\ log'[g].expiresAt <= e.expiresAt
                             /\ \A b \in g .. n : log'[b].type # "HEARTBEAT"
          BY <1>1 DEF LastsUntil
        <4>1. g = n
          <5>1. ASSUME g \in 1 .. Len(log)
                PROVE  FALSE
            <6>1. log[g].token = g - 1 /\ e.token = Len(log)
              BY <1>1, <2>4, <5>1 DEF IInv, GrantsNumbered, Appends, Appendable
            <6>. QED
              BY <1>1, <5>1, <6>1
          <5>. QED
            BY <1>4, <5>1
        <4>2. e.expiresAt \in Nat
          BY <1>2 DEF Event
        <4>. QED
          BY <1>1, <1>2, <2>4, <4>1, <4>2
      <3>3. /\ GrantedLease(new).token = e.token /\ GrantedLease(new).session = e.session
            /\ GrantedLease(new).expiresAt = e.expiresAt
        BY <1>2 DEF GrantedLease
      <3>4. \A l \in WithoutLease(room.leases, e.token) :
                LastsUntil(log', l.token, l.session, l.expiresAt)
        BY <2>2, <2>4 DEF WithoutLease
      <3>. QED
        BY <3>1, <3>2, <3>3, <3>4 DEF LeasesCover
    <2>5. CASE e.type \notin {"HEARTBEAT", "LEASE_GRANTED"}
      <3>1. room'.leases \subseteq room.leases
        BY <1>1, <1>2, <2>5, OnlyFrees
      <3>. QED
        BY <2>2, <2>5, <3>1 DEF LeasesCover
    <2>. QED
      BY <2>3, <2>4, <2>5
  <1>8. NoEarlyExpiry'
    <2>. SUFFICES ASSUME NEW i \in 1 .. n, NEW g \in 1 .. n, g < i,
                         log'[i].type = "LEASE_EXPIRED", log'[i].reason = "ttl",
                         log'[g].type = "LEASE_GRANTED", log'[g].token = log'[i].token
                  PROVE  /\ log'[g].expiresAt <= log'[i].ts
                         /\ \A b \in g .. i :
                              log'[b].type = "HEARTBEAT" /\ log'[b].session = log'[g].session
                                => log'[b].ts + LeaseTtl <= log'[i].ts
      <3>1. DOMAIN log' = 1 .. n
        BY <1>1
      <3>. QED
        BY <3>1 DEF NoEarlyExpiry
    <2>1. g \in 1 .. Len(log) /\ log'[g] = log[g]
      BY <1>1 DEF n
    <2>2. CASE i = n
      <3>1. e \in todo /\ e.type = "LEASE_EXPIRED" /\ e.reason = "ttl"
        BY <1>1, <1>2, <2>2
      <3>2. PICK s : LastsUntil(log, e.token, s, now)
        BY <3>1 DEF Timely, OwedExpiriesDue
      <3>3. log[g].session = s /\ log[g].expiresAt <= now
        BY <1>1, <1>2, <2>1, <2>2, <3>2 DEF LastsUntil
      <3>4. ASSUME NEW b \in g .. n, log'[b].type = "HEARTBEAT", log'[b].session = s
            PROVE  log'[b].ts + LeaseTtl <= now
        <4>1. b \in 1 .. n /\ b # n
          BY <1>1, <1>2, <3>1, <3>4
        <4>2. b \in g .. Len(log) /\ log'[b] = log[b]
          BY <1>1, <1>4, <4>1
        <4>. QED
          BY <1>1, <1>2, <2>1, <2>2, <3>2, <3>4, <4>2 DEF LastsUntil
      <3>5. \A b \in g .. n : log'[b].ts \in Nat
        BY <1>1, <1>2, <1>4, <1>5
      <3>. QED
        BY <1>1, <1>2, <1>5, <2>1, <2>2, <3>3, <3>4, <3>5
    <2>3. CASE i # n
      <3>1. i \in 1 .. Len(log) /\ log'[i] = log[i]
        BY <1>1, <1>4, <2>3
      <3>2. \A b \in g .. i : log'[b] = log[b]
        BY <1>1, <2>1, <3>1
      <3>3. DOMAIN log = 1 .. Len(log)
        BY <1>1
      <3>. QED
        BY <2>1, <3>1, <3>2, <3>3 DEF Timely, NoEarlyExpiry
    <2>. QED
      BY <2>2, <2>3
  <1>. QED
    BY <1>3, <1>6, <1>7, <1>8

\* A later deadline is kept as well.
LEMMA LastsLonger ==
    ASSUME NEW L \in Seq(Event), NEW t, NEW s, NEW c \in Nat, NEW d \in Nat,
           LastsUntil(L, t, s, c), c <= d
    PROVE  LastsUntil(L, t, s, d)
  <1>1. \A i \in 1 .. Len(L) : L[i] \in Event
    OBVIOUS
  <1>2. \A i \in 1 .. Len(L) : L[i].expiresAt \in Nat /\ L[i].ts + LeaseTtl \in Nat
    <2>1. \A i \in 1 .. Len(L) : L[i].expiresAt \in Nat /\ L[i].ts \in Nat
      BY <1>1 DEF Event
    <2>. QED
      BY <2>1, TimeAssumption
  <1>3. \A g \in 1 .. Len(L) : \A b \in g .. Len(L) : b \in 1 .. Len(L)
    OBVIOUS
  <1>. QED
    BY <1>2, <1>3 DEF LastsUntil

LEMMA TimelyKept ==
    ASSUME MaxFaults = 0, ~DiskFaults, ~ClockStepsBack, IInv, Timely, [Next]_vars
    PROVE  Timely'
  <1>0. /\ log \in Seq(Event) /\ now \in Nat /\ room \in Room
        /\ \A t, why, s : /\ Expired(t, why).type = "LEASE_EXPIRED" /\ Expired(t, why).reason = why
                          /\ Ended(s).type = "SESSION_ENDED"
    BY DEF IInv, TypeOK, Expired, Ended, Blank
  <1>1. ASSUME NEW e, ClientAppends(e)
        PROVE  Timely'
    <2>1. ClockAhead' /\ LeasesCover' /\ NoEarlyExpiry' /\ mode' = "up"
      BY <1>1, AppendKeepsTimely DEF ClientAppends, ClientEvent
    <2>2. Stamped(e).ts = lastTs'
      BY <1>1, StampedFacts DEF ClientAppends, Appends, Appendable, AppendEvent, Stores, IInv
    <2>3. /\ Denial(Stamped(e)).type = "LEASE_DENIED"
          /\ Grant(Stamped(e)).type = "LEASE_GRANTED"
          /\ Grant(Stamped(e)).expiresAt = lastTs' + LeaseTtl
      BY <2>2 DEF Denial, Grant, Blank
    <2>4. OwedGrantsShort' /\ OwedExpiriesDue'
      <3>1. CASE e.type = "LEASE_REQUESTED"
        <4>1. \A f \in todo' : f = Denial(Stamped(e)) \/ f = Grant(Stamped(e))
          BY <1>1, <3>1, OwedAfterClient
        <4>2. lastTs' + LeaseTtl \in Nat
          BY NextTyped, TimeAssumption DEF IInv, TypeOK
        <4>. QED
          BY <2>2, <2>3, <4>1, <4>2 DEF OwedGrantsShort, OwedExpiriesDue
      <3>2. CASE e.type # "LEASE_REQUESTED"
        <4>1. \A f \in todo' : f.type = "LEASE_EXPIRED" /\ f.reason = "session_ended"
          BY <1>0, <1>1, <3>2, OwedAfterClient
        <4>. QED
          BY <4>1 DEF OwedGrantsShort, OwedExpiriesDue
      <3>. QED
        BY <3>1, <3>2
    <2>. QED
      BY <2>1, <2>4 DEF Timely
  <1>2. ASSUME NEW e \in todo, OwedAppends(e)
        PROVE  Timely'
    <2>1. ClockAhead' /\ LeasesCover' /\ NoEarlyExpiry' /\ mode' = "up"
      BY <1>2, AppendKeepsTimely DEF OwedAppends
    <2>2. todo' = todo \ {e} /\ now' = now
      BY <1>2 DEF OwedAppends, Appends, AppendEvent, Stores
    <2>3. \A f \in todo' : f.type # "LEASE_GRANTED"
      BY <2>2 DEF IInv, OwedSound
    <2>4. /\ Len(log) \in Nat /\ Len(log') = Len(log) + 1
          /\ \A i \in 1 .. Len(log) : log'[i] = log[i]
          /\ log'[Len(log')] = Stamped(e) /\ Stamped(e).type = e.type
      BY <1>0, <1>2, AppendFacts, StampedFacts DEF OwedAppends, Appends, Appendable, IInv
    <2>5. ASSUME NEW f \in todo', f.type = "LEASE_EXPIRED", f.reason = "ttl"
          PROVE  \E s : LastsUntil(log', f.token, s, now')
      <3>1. PICK s : LastsUntil(log, f.token, s, now)
        BY <2>2, <2>5 DEF Timely, OwedExpiriesDue
      <3>2. e.type # "LEASE_GRANTED" /\ e.type # "HEARTBEAT"
        BY <2>2, <2>5 DEF IInv, OwedSound
      <3>3. LastsUntil(log', f.token, s, now)
        BY <2>4, <3>1, <3>2, LastsOn
      <3>. QED
        BY <2>2, <3>3
    <2>. QED
      BY <2>1, <2>3, <2>5 DEF Timely, OwedGrantsShort, OwedExpiriesDue
  <1>3. ASSUME NEW s \in Sessions, BeatAppends(s)
        PROVE  Timely'
    <2>1. Beat(s).type = "HEARTBEAT"
      BY DEF Beat, Blank
    <2>2. ClockAhead' /\ LeasesCover' /\ NoEarlyExpiry' /\ mode' = "up"
      BY <1>3, <2>1, AppendKeepsTimely DEF BeatAppends
    <2>3. todo' = {}
      BY <1>3 DEF BeatAppends, Appends, AppendEvent
    <2>. QED
      BY <2>2, <2>3 DEF Timely, OwedGrantsShort, OwedExpiriesDue
  <1>4. ASSUME UNCHANGED <<log, room, lastTs, mode>>, OwedGrantsShort', OwedExpiriesDue'
        PROVE  Timely'
    <2>1. ClockAhead' /\ NoEarlyExpiry'
      BY <1>4 DEF Timely, ClockAhead, NoEarlyExpiry
    <2>2. LeasesCover'
      BY <1>4 DEF Timely, LeasesCover
    <2>. QED
      BY <1>4, <2>1, <2>2 DEF Timely
  <1>5. CASE ExpireLeases
    <2>1. /\ UNCHANGED <<log, room, lastTs, mode, now>>
          /\ todo' = {Expired(l.token, "ttl") : l \in Due}
      BY <1>5 DEF ExpireLeases
    <2>2. ASSUME NEW l \in Due
          PROVE  LastsUntil(log, l.token, l.session, now)
      <3>1. LastsUntil(log, l.token, l.session, l.expiresAt)
        BY DEF Timely, LeasesCover, Due
      <3>2. l.expiresAt \in Nat /\ l.expiresAt <= now
        BY <1>0 DEF Due, Room, Lease
      <3>. QED
        BY <1>0, <3>1, <3>2, LastsLonger
    <2>3. \A f \in todo' : \E l \in Due : f.type = "LEASE_EXPIRED" /\ f.token = l.token
      BY <2>1 DEF Expired, Blank
    <2>4. OwedGrantsShort'
      BY <2>3 DEF OwedGrantsShort
    <2>5. OwedExpiriesDue'
      BY <2>1, <2>2, <2>3 DEF OwedExpiriesDue
    <2>. QED
      BY <1>4, <2>1, <2>4, <2>5
  <1>6. ASSUME NEW s \in Sessions, Disconnect(s)
        PROVE  Timely'
    <2>1. UNCHANGED <<log, room, lastTs, mode>>
      BY <1>6 DEF Disconnect
    <2>2. \A f \in todo' : \/ f.type = "LEASE_EXPIRED" /\ f.reason = "disconnect"
                           \/ f.type = "SESSION_ENDED"
      BY <1>0, <1>6 DEF Disconnect
    <2>3. OwedGrantsShort' /\ OwedExpiriesDue'
      BY <2>2 DEF OwedGrantsShort, OwedExpiriesDue
    <2>. QED
      BY <1>4, <2>1, <2>3
  <1>7. CASE Quiet
    <2>1. UNCHANGED <<log, room, lastTs, mode, todo>> /\ now' >= now
      BY <1>7 DEF Quiet, SameLog, Timely
    <2>2. now' \in Nat
      BY NextTyped DEF IInv, TypeOK
    <2>3. \A t, s : LastsUntil(log, t, s, now) => LastsUntil(log, t, s, now')
      BY <1>0, <2>1, <2>2, LastsLonger
    <2>4. OwedGrantsShort'
      BY <2>1 DEF Timely, OwedGrantsShort
    <2>5. OwedExpiriesDue'
      BY <2>1, <2>3 DEF Timely, OwedExpiriesDue
    <2>. QED
      BY <1>4, <2>1, <2>4, <2>5
  <1>. QED
    BY <1>1, <1>2, <1>3, <1>5, <1>6, <1>7, NoCrash, StepKinds

\* The expiry poll takes a lease only when its grant and every heartbeat of its
\* holder are a time to live back, by the clock that stamps the log.
THEOREM LeasesExpireInTime ==
    ASSUME MaxFaults = 0, ~DiskFaults, ~ClockStepsBack
    PROVE  Spec => []NoEarlyExpiry
  <1>1. Init => Timely
    BY DEF Init, Timely, ClockAhead, OwedGrantsShort, LeasesCover, OwedExpiriesDue,
           NoEarlyExpiry, EmptyRoom
  <1>2. IInv /\ Timely /\ [Next]_vars => Timely'
    BY TimelyKept
  <1>3. Timely => NoEarlyExpiry
    BY DEF Timely
  <1>. QED
    BY <1>1, <1>2, <1>3, Invariance, PTL DEF Spec
=============================================================================
