-------------------------- MODULE HostedRoomProofs --------------------------
(***************************************************************************)
(* What holds of HostedRoom for any number of daemons, dashboards, buttons *)
(* and sockets, any size of a replay's batches and any lease time.         *)
(*                                                                         *)
(* One inductive invariant, HInv, has five parts.  LogInv: hist is the     *)
(* fold of the log.  AlarmInv: the alarm covers the leases.  WireInv says  *)
(* what is on a connection and whose it is.  GivenInv is about what a      *)
(* client has taken.  StreamsOK is about a client with a connection: the   *)
(* frames on their way to it begin where its position is, go up, and leave *)
(* out nothing it is entitled to.                                          *)
(*                                                                         *)
(* SInv, inductive where HInv holds, is about the other direction: a       *)
(* submit that waits for its answer is logged, or refused, or on its way,  *)
(* behind those its daemon made before it, on every connection it was said *)
(* on.                                                                     *)
(***************************************************************************)
EXTENDS HostedRoom, SubsequenceTheorems

Latest == MaxNow + LeaseTtl

\* An entry of the table, and what a client may ask for.
Entries == [type : Core!EventType \cup {"MARKET_OPENED"}, id : Nat,
            session : Sessions \cup {Nil}, symbols : SUBSET Symbols, path : Paths \cup {Nil},
            token : Nat, expiresAt : 0 .. Latest, reason : {"", "ttl", "disconnect", "session_ended"},
            seq : Nat, ts : 0 .. MaxNow]

ClientTypes == {"SESSION_STARTED", "SESSION_ENDED", "LEASE_REQUESTED", "LEASE_RELEASED",
                "FILE_WRITE", "MARKET_OPENED"}

Submittable == {e \in Entries : e.type \in ClientTypes}

\* A room state, with leases that were granted before it.
LeasesOK(L, seq) ==
    /\ L \in SUBSET Core!Lease
    /\ \A l \in L : l.token \in 1 .. seq /\ l.expiresAt \in 0 .. Latest

RoomOK(r) == r \in Core!Room /\ LeasesOK(r.leases, r.seq)

\* Is the history h of table g right?
Folds(g, h) ==
    /\ g \in Seq(Entries)
    /\ h \in Seq(Core!Room)
    /\ Len(h) = Len(g) + 1
    /\ h[1] = Core!EmptyRoom
    /\ \A n \in 1 .. Len(g) : g[n].seq = n /\ h[n + 1] = Applied(h[n], g[n])
    /\ \A n \in 1 .. Len(h) : RoomOK(h[n]) /\ h[n].seq = n - 1

LogInv ==
    /\ now \in 0 .. MaxNow
    /\ Folds(log, hist)
    /\ room = hist[Len(hist)]

AlarmInv ==
    /\ alarm \in {Never} \cup 0 .. Latest
    /\ missed \in BOOLEAN
    /\ AlarmCovers

Messages == [type : {"HELLO", "SUBMIT", "HEARTBEAT"}, from : Nat, event : Submittable]

Socket == [client : Clients, open : BOOLEAN, live : BOOLEAN, greeted : BOOLEAN,
           up : Seq(Messages), down : Seq(Frame)]

\* A live socket is its client's, and only daemons send heartbeats.  (The
\* parameters stand for state: cn for conn, g and h for log and hist, p, t and v
\* for what a client has in position, taken and view.)
SocketOK(s, i, cn) ==
    /\ s.live => s.open /\ cn[s.client] = i
    /\ \A k \in 1 .. Len(s.up) : s.up[k].type = "HEARTBEAT" => s.client \in Daemons

SocketsOK(ss, cn) ==
    /\ ss \in Seq(Socket)
    /\ \A i \in 1 .. Len(ss) : SocketOK(ss[i], i, cn)
    /\ \A c \in Clients :
          cn[c] > 0 => cn[c] \in 1 .. Len(ss) /\ ss[cn[c]].live /\ ss[cn[c]].client = c

ClientsInv ==
    /\ conn \in [Clients -> {Closed} \cup Nat]
    /\ \A c \in Clients : conn[c] = Closed => c \in Asks
    /\ pending \in [Daemons -> SUBSET Submittable]
    /\ \A d \in Daemons : IsFiniteSet(pending[d])
    /\ moves \in Nat

WireInv == ClientsInv /\ SocketsOK(sockets, conn)

\* What a client was given so far.
Owed(c, n, g, h) == Recipient(c, h[n + 1], g, n)

GivenOK(c, p, t, g, h) ==
    /\ p \in 0 .. Len(g)
    /\ t \in Seq(Nat)
    /\ \A i \in 1 .. Len(t) : t[i] \in 1 .. p
    /\ \A i, j \in 1 .. Len(t) : i < j => t[i] < t[j]
    /\ \A n \in 1 .. p : Owed(c, n, g, h) => \E i \in 1 .. Len(t) : t[i] = n

ViewOK(v, p, h) == v \in Core!Room /\ v.seq \in p .. Len(h) - 1 /\ v = h[v.seq + 1]

GivenInv ==
    /\ position = [c \in Readers |-> position[c]]
    /\ taken = [c \in Readers |-> taken[c]]
    /\ view = [w \in Dashboards |-> view[w]]
    /\ \A c \in Readers : GivenOK(c, position[c], taken[c], log, hist)
    /\ \A w \in Dashboards : ViewOK(view[w], position[w], hist)

\* Frames, in the order they come.
Ascends(D) ==
    \A j, k \in 1 .. Len(D) : \A a \in 1 .. Len(D[j].events), b \in 1 .. Len(D[k].events) :
        j < k \/ (j = k /\ a < b) => D[j].events[a] < D[k].events[b]

Within(D, lo, hi) ==
    \A j \in 1 .. Len(D) : \A a \in 1 .. Len(D[j].events) : D[j].events[a] \in lo + 1 .. hi

Brings(D, n) == \E j \in 1 .. Len(D) : \E a \in 1 .. Len(D[j].events) : D[j].events[a] = n

\* A room state comes first, is one the log went through, and is not behind.
StateOK(f, first, p, h) ==
    /\ f.type # "EVENTS" => f.events = <<>>
    /\ f.type = "WELCOME" => first /\ ViewOK(f.room, p, h)

\* Before HELLO has arrived, and after.
Ungreeted(s, p) ==
    /\ s.down = <<>>
    /\ s.up # <<>>
    /\ s.up[1].type = "HELLO" /\ s.up[1].from = p
    /\ \A k \in 2 .. Len(s.up) : s.up[k].type # "HELLO"

Complete(c, D, p, g, h) ==
    /\ Ascends(D)
    /\ Within(D, p, Len(g))
    /\ \A n \in p + 1 .. Len(g) : Owed(c, n, g, h) => Brings(D, n)
    /\ \A j \in 1 .. Len(D) : StateOK(D[j], j = 1, p, h)

Greeted(c, s, p, g, h) ==
    /\ \A k \in 1 .. Len(s.up) : s.up[k].type # "HELLO"
    /\ Complete(c, s.down, p, g, h)

StreamOK(c, s, p, g, h) == IF s.greeted THEN Greeted(c, s, p, g, h) ELSE Ungreeted(s, p)

StreamsOK(ss) ==
    \A c \in Readers : conn[c] > 0 => StreamOK(c, ss[conn[c]], position[c], log, hist)

HInv == LogInv /\ AlarmInv /\ WireInv /\ GivenInv /\ StreamsOK(sockets)
-----------------------------------------------------------------------------
(***************************************************************************)
(* The operators.                                                          *)
(***************************************************************************)
\* Reducing events into a room is what it says: one after the other.
LEMMA ReducedIs ==
    ASSUME NEW r, NEW es, Len(es) \in Nat
    PROVE  /\ Reduced(r, es)[0] = r
           /\ \A n \in 1 .. Len(es) : Reduced(r, es)[n] = Applied(Reduced(r, es)[n - 1], es[n])
  <1>. DEFINE N == Len(es)
              Upto(k, f) == [n \in 0 .. k |-> IF n = 0 THEN r ELSE Applied(f[n - 1], es[n])]
              S == {k \in 0 .. N : \E f : f = Upto(k, f)}
  <1>1. 0 \in S
    <2>. DEFINE f == [n \in 0 .. 0 |-> r]
    <2>1. f = Upto(0, f)
      OBVIOUS
    <2>2. 0 \in 0 .. N
      OBVIOUS
    <2>. HIDE DEF f, Upto
    <2>3. \E h : h = Upto(0, h)
      BY <2>1
    <2>. QED
      BY <2>2, <2>3
  <1>2. ASSUME NEW k \in 0 .. N - 1, k \in S
        PROVE  k + 1 \in S
    <2>. HIDE DEF Upto
    <2>1. PICK f : f = Upto(k, f)
      BY <1>2
    <2>. DEFINE g == Upto(k + 1, f)
    <2>2. \A n \in 0 .. k : f[n] = IF n = 0 THEN r ELSE Applied(f[n - 1], es[n])
      BY <2>1 DEF Upto
    <2>3. \A n \in 0 .. k : g[n] = f[n]
      BY <2>2 DEF Upto
    <2>. HIDE DEF g
    <2>4. \A n \in 0 .. k + 1 : (IF n = 0 THEN r ELSE Applied(f[n - 1], es[n]))
                                    = (IF n = 0 THEN r ELSE Applied(g[n - 1], es[n]))
      BY <2>3
    <2>5. Upto(k + 1, f) = Upto(k + 1, g)
      BY <2>4 DEF Upto
    <2>6. \E h : h = Upto(k + 1, h)
      BY <2>5 DEF g
    <2>. QED
      BY <2>6
  <1>3. N \in S
    <2>. HIDE DEF S
    <2>1. \A k \in 0 .. N : k \in S
      BY <1>1, <1>2, IntervalInduction
    <2>. QED
      BY <2>1
  <1>4. Reduced(r, es) = Upto(N, Reduced(r, es))
    <2>1. \E f : f = Upto(N, f)
      BY <1>3
    <2>2. Reduced(r, es) = CHOOSE f : f = Upto(N, f)
      BY DEF Reduced
    <2>. QED
      BY <2>1, <2>2
  <1>. HIDE DEF Upto
  <1>. DEFINE q == Reduced(r, es)
  <1>. HIDE DEF q
  <1>5. q = Upto(N, q)
    BY <1>4 DEF q
  <1>6. \A n \in 0 .. N : q[n] = IF n = 0 THEN r ELSE Applied(q[n - 1], es[n])
    BY <1>5 DEF Upto
  <1>. QED
    BY <1>6 DEF q

LEMMA Numbers ==
    /\ LeaseTtl \in Nat /\ MaxNow \in Nat /\ Latest \in Nat
    /\ ReplayBatch \in Nat /\ ReplayBatch > 0
  BY HostedAssumption DEF Latest

\* A room, put together from its four parts.
Statuses == [Sessions -> {"unknown", "active", "ended"}]
Beatings == [Sessions -> Nat]
RoomOf(q, s, h, L) == [seq |-> q, status |-> s, heartbeatAt |-> h, leases |-> L]

LEMMA EntryFields ==
    ASSUME NEW e \in Entries
    PROVE  /\ e.type \in Core!EventType \cup {"MARKET_OPENED"} /\ e.id \in Nat
           /\ e.session \in Sessions \cup {Nil} /\ e.symbols \in SUBSET Symbols
           /\ e.token \in Nat /\ e.expiresAt \in 0 .. Latest /\ e.seq \in Nat
           /\ e.ts \in 0 .. MaxNow
  BY DEF Entries

LEMMA RoomMade ==
    ASSUME NEW q \in Nat, NEW s \in Statuses, NEW h \in Beatings, NEW L \in SUBSET Core!Lease
    PROVE  /\ RoomOf(q, s, h, L) \in Core!Room
           /\ RoomOf(q, s, h, L).seq = q
           /\ RoomOf(q, s, h, L).status = s
           /\ RoomOf(q, s, h, L).heartbeatAt = h
           /\ RoomOf(q, s, h, L).leases = L
  BY DEF RoomOf, Core!Room, Statuses, Beatings

LEMMA RoomParts ==
    ASSUME NEW r \in Core!Room
    PROVE  /\ r.seq \in Nat /\ r.status \in Statuses /\ r.heartbeatAt \in Beatings
           /\ r.leases \in SUBSET Core!Lease
           /\ r = RoomOf(r.seq, r.status, r.heartbeatAt, r.leases)
  BY DEF RoomOf, Core!Room, Statuses, Beatings

LEMMA SeqChanged ==
    ASSUME NEW q, NEW u, NEW k, NEW M, NEW r, r = RoomOf(q, u, k, M), NEW x
    PROVE  [r EXCEPT !.seq = x] = RoomOf(x, u, k, M)
  BY DEF RoomOf

LEMMA StatusChanged ==
    ASSUME NEW q, NEW u, NEW k, NEW M, NEW r, r = RoomOf(q, u, k, M), NEW x
    PROVE  [r EXCEPT !.status = x] = RoomOf(q, x, k, M)
  BY DEF RoomOf

LEMMA HeartbeatChanged ==
    ASSUME NEW q, NEW u, NEW k, NEW M, NEW r, r = RoomOf(q, u, k, M), NEW x
    PROVE  [r EXCEPT !.heartbeatAt = x] = RoomOf(q, u, x, M)
  BY DEF RoomOf

LEMMA LeasesChanged ==
    ASSUME NEW q, NEW u, NEW k, NEW M, NEW r, r = RoomOf(q, u, k, M), NEW x
    PROVE  [r EXCEPT !.leases = x] = RoomOf(q, u, k, x)
  BY DEF RoomOf

\* The helpers of the reducer, on leases granted up to seq m.
LEMMA LeasesKept ==
    ASSUME NEW r, RoomOK(r), NEW m \in Nat, r.seq <= m, NEW s, NEW k, NEW ts \in 0 .. MaxNow
    PROVE  /\ LeasesOK(Core!WithoutSession(r.leases, s), m)
           /\ LeasesOK(Core!WithoutLease(r.leases, k), m)
           /\ LeasesOK(Core!Renewed(r.leases, s, ts), m)
           /\ LeasesOK(r.leases, m)
  <1>1. r.seq \in Nat /\ LeasesOK(r.leases, r.seq)
    BY RoomParts DEF RoomOK
  <1>2. LeasesOK(r.leases, m)
    BY <1>1 DEF LeasesOK
  <1>3. ASSUME NEW l \in r.leases
        PROVE  LET x == [l EXCEPT !.expiresAt = ts + LeaseTtl] IN
               x \in Core!Lease /\ x.token \in 1 .. m /\ x.expiresAt \in 0 .. Latest
    <2>1. l \in Core!Lease /\ ts + LeaseTtl \in 0 .. Latest /\ l.token \in 1 .. m
      BY <1>2, Numbers DEF Latest, LeasesOK
    <2>. QED
      BY <2>1, Numbers DEF Core!Lease
  <1>4. LeasesOK(Core!Renewed(r.leases, s, ts), m)
    BY <1>2, <1>3 DEF Core!Renewed, LeasesOK
  <1>. QED
    BY <1>2, <1>4 DEF Core!WithoutSession, Core!WithoutLease, LeasesOK

\* An event that may come next after seq n: a grant is of a request before it.
MayFollow(e, n) ==
    /\ e \in Entries
    /\ e.seq = n + 1
    /\ e.type = "LEASE_GRANTED" => e.token \in 1 .. e.seq

\* What the reducer makes of each event.
LEMMA ApplyShape ==
    ASSUME NEW r \in Core!Room, NEW e, e.type \in Core!EventType
    PROVE  /\ e.type = "SESSION_STARTED" => Core!ApplyEvent(r, e) = 
                RoomOf(r.seq, [r.status EXCEPT ![e.session] = "active"],
                              [r.heartbeatAt EXCEPT ![e.session] = e.ts], r.leases)
           /\ e.type = "SESSION_ENDED" => Core!ApplyEvent(r, e) = 
                RoomOf(r.seq, [r.status EXCEPT ![e.session] = Core!EndedStatus(@)],
                              r.heartbeatAt, Core!WithoutSession(r.leases, e.session))
           /\ e.type = "HEARTBEAT" => Core!ApplyEvent(r, e) = 
                RoomOf(r.seq, r.status,
                       [r.heartbeatAt EXCEPT ![e.session] =
                          IF r.status[e.session] = "active" THEN e.ts ELSE @],
                       Core!Renewed(r.leases, e.session, e.ts))
           /\ e.type = "LEASE_GRANTED" => Core!ApplyEvent(r, e) = 
                RoomOf(r.seq, r.status, r.heartbeatAt,
                      Core!WithoutLease(r.leases, e.token) \cup {Core!GrantedLease(e)})
           /\ e.type \in {"LEASE_RELEASED", "LEASE_EXPIRED"} => Core!ApplyEvent(r, e) = 
                RoomOf(r.seq, r.status, r.heartbeatAt, Core!WithoutLease(r.leases, e.token))
           /\ e.type \in {"LEASE_REQUESTED", "LEASE_DENIED", "FILE_WRITE"} => 
                Core!ApplyEvent(r, e) = r
  <1>0. r = RoomOf(r.seq, r.status, r.heartbeatAt, r.leases)
    BY RoomParts
  <1>1. CASE e.type = "SESSION_STARTED"
    <2>. DEFINE s == [r.status EXCEPT ![e.session] = "active"]
                h == [r.heartbeatAt EXCEPT ![e.session] = e.ts]
                z == [r EXCEPT !.status = s]
    <2>1. z.heartbeatAt = r.heartbeatAt
      BY <1>0 DEF RoomOf
    <2>2. Core!ApplyEvent(r, e) = [z EXCEPT !.heartbeatAt = h]
      BY <1>1, <2>1 DEF Core!ApplyEvent
    <2>. HIDE DEF s, h
    <2>3. z = RoomOf(r.seq, s, r.heartbeatAt, r.leases)
      BY <1>0, StatusChanged
    <2>. HIDE DEF z
    <2>4. [z EXCEPT !.heartbeatAt = h] = RoomOf(r.seq, s, h, r.leases)
      BY <2>3, HeartbeatChanged
    <2>. QED
      BY <1>1, <2>2, <2>4 DEF s, h
  <1>2. CASE e.type = "SESSION_ENDED"
    <2>. DEFINE s == [r.status EXCEPT ![e.session] = Core!EndedStatus(@)]
                L == Core!WithoutSession(r.leases, e.session)
                z == [r EXCEPT !.status = s]
    <2>1. z.leases = r.leases
      BY <1>0 DEF RoomOf
    <2>2. Core!ApplyEvent(r, e) = [z EXCEPT !.leases = L]
      BY <1>2, <2>1 DEF Core!ApplyEvent
    <2>. HIDE DEF s, L
    <2>3. z = RoomOf(r.seq, s, r.heartbeatAt, r.leases)
      BY <1>0, StatusChanged
    <2>. HIDE DEF z
    <2>4. [z EXCEPT !.leases = L] = RoomOf(r.seq, s, r.heartbeatAt, L)
      BY <2>3, LeasesChanged
    <2>. QED
      BY <1>2, <2>2, <2>4 DEF s, L
  <1>3. CASE e.type = "HEARTBEAT"
    <2>. DEFINE h == [r.heartbeatAt EXCEPT ![e.session] =
                          IF r.status[e.session] = "active" THEN e.ts ELSE @]
                L == Core!Renewed(r.leases, e.session, e.ts)
                z == [r EXCEPT !.heartbeatAt = h]
    <2>1. z.leases = r.leases
      BY <1>0 DEF RoomOf
    <2>2. Core!ApplyEvent(r, e) = [z EXCEPT !.leases = L]
      BY <1>3, <2>1 DEF Core!ApplyEvent
    <2>. HIDE DEF h, L
    <2>3. z = RoomOf(r.seq, r.status, h, r.leases)
      BY <1>0, HeartbeatChanged
    <2>. HIDE DEF z
    <2>4. [z EXCEPT !.leases = L] = RoomOf(r.seq, r.status, h, L)
      BY <2>3, LeasesChanged
    <2>. QED
      BY <1>3, <2>2, <2>4 DEF h, L
  <1>4. CASE e.type = "LEASE_GRANTED"
    <2>. DEFINE L == Core!WithoutLease(r.leases, e.token) \cup {Core!GrantedLease(e)}
    <2>1. Core!ApplyEvent(r, e) = [r EXCEPT !.leases = L]
      BY <1>4 DEF Core!ApplyEvent
    <2>. HIDE DEF L
    <2>2. [r EXCEPT !.leases = L] = RoomOf(r.seq, r.status, r.heartbeatAt, L)
      BY <1>0, LeasesChanged
    <2>. QED
      BY <1>4, <2>1, <2>2 DEF L
  <1>5. CASE e.type \in {"LEASE_RELEASED", "LEASE_EXPIRED"}
    <2>1. Core!ApplyEvent(r, e) = [r EXCEPT !.leases = Core!WithoutLease(@, e.token)]
      BY <1>5 DEF Core!ApplyEvent
    <2>2. @ = RoomOf(r.seq, r.status, r.heartbeatAt, Core!WithoutLease(r.leases, e.token))
      BY <1>0, LeasesChanged
    <2>. QED
      BY <1>5, <2>1, <2>2
  <1>6. CASE e.type \in {"LEASE_REQUESTED", "LEASE_DENIED", "FILE_WRITE"}
    BY <1>6 DEF Core!ApplyEvent
  <1>. QED
    BY <1>1, <1>2, <1>3, <1>4, <1>5, <1>6 DEF Core!EventType

\* Of its session an event can change the status only by starting or ending it.
LEMMA ApplyOK ==
    ASSUME NEW r, RoomOK(r), NEW e, MayFollow(e, r.seq), IsAgentVisible(e)
    PROVE  LET x == [Core!ApplyEvent(r, e) EXCEPT !.seq = e.seq] IN
           /\ RoomOK(x)
           /\ x.seq = e.seq
           /\ e.type \notin {"SESSION_STARTED", "SESSION_ENDED"} => x.status = r.status
  <1>. DEFINE a == Core!ApplyEvent(r, e)
              Good(L) == LeasesOK(L, e.seq)
  <1>1. /\ r \in Core!Room /\ r.seq \in Nat /\ r.status \in Statuses
        /\ r.heartbeatAt \in Beatings /\ r.leases \in SUBSET Core!Lease
        /\ r = RoomOf(r.seq, r.status, r.heartbeatAt, r.leases)
    BY RoomParts DEF RoomOK
  <1>2. /\ e \in Entries /\ e.type \in Core!EventType /\ e.seq \in Nat /\ r.seq <= e.seq
        /\ e.ts \in 0 .. MaxNow /\ e.ts \in Nat
    BY <1>1, EntryFields, Numbers DEF MayFollow, IsAgentVisible
  <1>3. /\ Good(Core!WithoutSession(r.leases, e.session))
        /\ Good(Core!WithoutLease(r.leases, e.token))
        /\ Good(Core!Renewed(r.leases, e.session, e.ts))
        /\ Good(r.leases)
    BY <1>2, LeasesKept
  <1>4. ASSUME NEW s \in Statuses, NEW h \in Beatings, NEW L, Good(L),
               a = RoomOf(r.seq, s, h, L),
               e.type \notin {"SESSION_STARTED", "SESSION_ENDED"} => s = r.status
        PROVE  LET x == [a EXCEPT !.seq = e.seq] IN
               /\ RoomOK(x)
               /\ x.seq = e.seq
               /\ e.type \notin {"SESSION_STARTED", "SESSION_ENDED"} => x.status = r.status
    <2>. DEFINE q == e.seq
                x == [a EXCEPT !.seq = q]
    <2>1. x = RoomOf(q, s, h, L)
      BY <1>4, SeqChanged
    <2>. HIDE DEF x
    <2>2. L \in SUBSET Core!Lease
      BY <1>4 DEF LeasesOK
    <2>3. q \in Nat
      BY <1>2
    <2>. HIDE DEF q, Good
    <2>4. /\ x \in Core!Room /\ x.seq = q /\ x.status = s /\ x.leases = L
      BY <1>4, <2>1, <2>2, <2>3, RoomMade
    <2>. QED
      BY <1>4, <2>4 DEF x, q, Good, RoomOK
  <1>5. CASE e.type = "SESSION_STARTED"
    <2>. DEFINE s == [r.status EXCEPT ![e.session] = "active"]
                h == [r.heartbeatAt EXCEPT ![e.session] = e.ts]
    <2>1. s \in Statuses /\ h \in Beatings
      BY <1>1, <1>2 DEF Statuses, Beatings
    <2>2. a = RoomOf(r.seq, s, h, r.leases)
      BY <1>1, <1>2, <1>5, ApplyShape
    <2>. HIDE DEF s, h, a
    <2>. QED
      BY <1>3, <1>4, <1>5, <2>1, <2>2 DEF a
  <1>6. CASE e.type = "SESSION_ENDED"
    <2>. DEFINE s == [r.status EXCEPT ![e.session] = Core!EndedStatus(@)]
    <2>1. s \in Statuses
      BY <1>1 DEF Statuses, Core!EndedStatus
    <2>2. a = RoomOf(r.seq, s, r.heartbeatAt, Core!WithoutSession(r.leases, e.session))
      BY <1>1, <1>2, <1>6, ApplyShape
    <2>. HIDE DEF s, a
    <2>. QED
      BY <1>1, <1>3, <1>4, <1>6, <2>1, <2>2 DEF a
  <1>7. CASE e.type = "HEARTBEAT"
    <2>. DEFINE h == [r.heartbeatAt EXCEPT ![e.session] =
                          IF r.status[e.session] = "active" THEN e.ts ELSE @]
    <2>1. h \in Beatings
      BY <1>1, <1>2 DEF Beatings
    <2>2. a = RoomOf(r.seq, r.status, h, Core!Renewed(r.leases, e.session, e.ts))
      BY <1>1, <1>2, <1>7, ApplyShape
    <2>. HIDE DEF h, a
    <2>. QED
      BY <1>1, <1>3, <1>4, <2>1, <2>2 DEF a
  <1>8. CASE e.type = "LEASE_GRANTED"
    <2>. DEFINE g == Core!GrantedLease(e)
    <2>1. /\ g \in Core!Lease /\ g.token = e.token /\ g.expiresAt = e.expiresAt
          /\ e.token \in 1 .. e.seq /\ e.expiresAt \in 0 .. Latest
      BY <1>2, <1>8, EntryFields, Numbers DEF Core!GrantedLease, Core!Lease, MayFollow
    <2>. HIDE DEF g
    <2>2. Good(Core!WithoutLease(r.leases, e.token) \cup {g})
      BY <1>3, <2>1 DEF LeasesOK
    <2>3. a = RoomOf(r.seq, r.status, r.heartbeatAt, Core!WithoutLease(r.leases, e.token) \cup {g})
      BY <1>1, <1>2, <1>8, ApplyShape DEF g
    <2>. HIDE DEF a
    <2>. QED
      BY <1>1, <1>4, <2>2, <2>3 DEF a
  <1>9. CASE e.type \in {"LEASE_RELEASED", "LEASE_EXPIRED"}
    <2>1. a = RoomOf(r.seq, r.status, r.heartbeatAt, Core!WithoutLease(r.leases, e.token))
      BY <1>1, <1>2, <1>9, ApplyShape
    <2>. HIDE DEF a
    <2>. QED
      BY <1>1, <1>3, <1>4, <2>1 DEF a
  <1>10. CASE e.type \in {"LEASE_REQUESTED", "LEASE_DENIED", "FILE_WRITE"}
    <2>1. a = RoomOf(r.seq, r.status, r.heartbeatAt, r.leases)
      BY <1>1, <1>2, <1>10, ApplyShape
    <2>. HIDE DEF a
    <2>. QED
      BY <1>1, <1>3, <1>4, <2>1 DEF a
  <1>. QED
    BY <1>2, <1>5, <1>6, <1>7, <1>8, <1>9, <1>10 DEF Core!EventType

LEMMA AppliedOK ==
    ASSUME NEW r, RoomOK(r), NEW e, MayFollow(e, r.seq)
    PROVE  /\ RoomOK(Applied(r, e))
           /\ Applied(r, e).seq = e.seq
           /\ e.type \notin {"SESSION_STARTED", "SESSION_ENDED"} => Applied(r, e).status = r.status
  <1>1. r \in Core!Room /\ r.seq \in Nat /\ ~(e.seq <= r.seq) /\ e.seq \in Nat /\ r.seq <= e.seq
    BY DEF RoomOK, Core!Room, MayFollow
  <1>2. CASE IsAgentVisible(e)
    <2>1. Applied(r, e) = [Core!ApplyEvent(r, e) EXCEPT !.seq = e.seq]
      BY <1>1, <1>2 DEF Applied, Core!Reduce
    <2>. QED
      BY <1>2, <2>1, ApplyOK
  <1>3. CASE ~IsAgentVisible(e)
    <2>1. Applied(r, e) = [r EXCEPT !.seq = e.seq]
      BY <1>1, <1>3 DEF Applied
    <2>2. r = RoomOf(r.seq, r.status, r.heartbeatAt, r.leases)
      BY <1>1, RoomParts
    <2>3. LeasesOK(r.leases, e.seq)
      BY <1>1 DEF RoomOK, LeasesOK
    <2>4. Applied(r, e) = RoomOf(e.seq, r.status, r.heartbeatAt, r.leases)
      BY <2>1, <2>2, SeqChanged
    <2>. QED
      BY <1>1, <2>3, <2>4, RoomMade, RoomParts DEF RoomOK
  <1>. QED
    BY <1>2, <1>3

-----------------------------------------------------------------------------
(***************************************************************************)
(* The appends of a handler.                                               *)
(***************************************************************************)
LEMMA Concatenated ==
    ASSUME NEW S, NEW s \in Seq(S), NEW t \in Seq(S)
    PROVE  /\ s \o t \in Seq(S) /\ Len(s \o t) = Len(s) + Len(t)
           /\ Len(s) \in Nat /\ Len(t) \in Nat
           /\ \A n \in 1 .. Len(s) : (s \o t)[n] = s[n]
           /\ \A n \in 1 .. Len(t) : (s \o t)[Len(s) + n] = t[n]
           /\ \A n \in Len(s) + 1 .. Len(s \o t) : (s \o t)[n] = t[n - Len(s)]
  OBVIOUS

\* What a handler may append: a grant of a request it appended before, and the
\* start or the end of a session first if at all.
Appendable(es) ==
    /\ es \in Seq(Entries)
    /\ \A n \in 1 .. Len(es) :
          /\ es[n].type = "LEASE_GRANTED" => es[n].token \in 1 .. room.seq + n
          /\ n > 1 => es[n].type \notin {"SESSION_STARTED", "SESSION_ENDED"}

\* The table and the room have grown as they should.
Grown(st) ==
    /\ Folds(st.log, st.hist)
    /\ st.room = st.hist[Len(st.hist)]
    /\ Len(st.log) >= Len(log)
    /\ \A n \in 1 .. Len(log) : st.log[n] = log[n]
    /\ \A n \in 1 .. Len(hist) : st.hist[n] = hist[n]
    /\ \A n \in Len(log) + 1 .. Len(st.log) : st.hist[n + 1].status = st.room.status

LEMMA RoomIsLast ==
    ASSUME LogInv
    PROVE  /\ Len(log) \in Nat /\ Len(hist) = Len(log) + 1
           /\ RoomOK(room) /\ room.seq = Len(log)
           /\ room = hist[Len(log) + 1]
           /\ now \in 0 .. MaxNow
  <1>1. Len(log) \in Nat /\ Len(hist) = Len(log) + 1
    BY DEF LogInv, Folds
  <1>2. \A n \in 1 .. Len(hist) : RoomOK(hist[n]) /\ hist[n].seq = n - 1
    BY DEF LogInv, Folds
  <1>3. Len(hist) \in 1 .. Len(hist)
    BY <1>1
  <1>. QED
    BY <1>1, <1>2, <1>3 DEF LogInv

LEMMA StampedOK ==
    ASSUME LogInv, NEW es, Appendable(es)
    PROVE  /\ Stamped(es) \in Seq(Entries) /\ Len(Stamped(es)) = Len(es) /\ Len(es) \in Nat
           /\ \A n \in 1 .. Len(es) :
                 /\ MayFollow(Stamped(es)[n], Len(log) + n - 1)
                 /\ Stamped(es)[n].type = es[n].type /\ Stamped(es)[n].id = es[n].id
  <1>1. /\ Len(log) \in Nat /\ room.seq = Len(log) /\ now \in 0 .. MaxNow
        /\ Len(es) \in Nat /\ DOMAIN es = 1 .. Len(es)
    BY RoomIsLast DEF Appendable
  <1>2. ASSUME NEW n \in 1 .. Len(es)
        PROVE  LET x == [es[n] EXCEPT !.seq = room.seq + n, !.ts = now] IN
               /\ x \in Entries /\ x.seq = Len(log) + n /\ x.type = es[n].type /\ x.token = es[n].token
               /\ x.id = es[n].id
    <2>. DEFINE e == es[n]
                y == [e EXCEPT !.seq = room.seq + n]
    <2>1. e \in Entries /\ room.seq + n \in Nat
      BY <1>1 DEF Appendable
    <2>. HIDE DEF e
    <2>2. /\ y \in Entries /\ y.seq = room.seq + n /\ y.type = e.type /\ y.token = e.token
          /\ y.id = e.id
      BY <2>1 DEF Entries
    <2>. HIDE DEF y
    <2>. DEFINE x == [y EXCEPT !.ts = now]
    <2>3. /\ x \in Entries /\ x.seq = y.seq /\ x.type = y.type /\ x.token = y.token
          /\ x.id = y.id
      BY <1>1, <2>2 DEF Entries
    <2>4. x = [es[n] EXCEPT !.seq = room.seq + n, !.ts = now]
      BY DEF y, e
    <2>. HIDE DEF x
    <2>. QED
      BY <1>1, <2>2, <2>3, <2>4 DEF e
  <1>. DEFINE S == Stamped(es)
  <1>3. /\ DOMAIN S = 1 .. Len(es)
        /\ \A n \in 1 .. Len(es) : S[n] = [es[n] EXCEPT !.seq = room.seq + n, !.ts = now]
    BY <1>1 DEF Stamped
  <1>. HIDE DEF S
  <1>4. \A n \in 1 .. Len(es) : /\ S[n] \in Entries /\ S[n].seq = Len(log) + n
                               /\ S[n].type = es[n].type /\ S[n].token = es[n].token
                               /\ S[n].id = es[n].id
    BY <1>2, <1>3
  <1>5. S \in [1 .. Len(es) -> Entries]
    <2>1. S = [n \in 1 .. Len(es) |-> S[n]]
      BY <1>1 DEF S, Stamped
    <2>. QED
      BY <1>4, <2>1
  <1>6. S \in Seq(Entries) /\ Len(S) = Len(es)
    BY <1>1, <1>5
  <1>7. ASSUME NEW n \in 1 .. Len(es)
        PROVE  MayFollow(S[n], Len(log) + n - 1)
    <2>1. S[n].type = "LEASE_GRANTED" => S[n].token \in 1 .. Len(log) + n
      BY <1>1, <1>4 DEF Appendable
    <2>. QED
      BY <1>1, <1>4, <2>1 DEF MayFollow
  <1>. QED
    BY <1>1, <1>4, <1>6, <1>7 DEF S

LEMMA AppendedOK ==
    ASSUME LogInv, NEW es, Appendable(es)
    PROVE  Grown(Appended(es))
  <1>. DEFINE S == Stamped(es)
              N == Len(es)
              L == Len(log)
              st == Appended(es)
              T == Reduced(room, S)
  <1>1. /\ L \in Nat /\ Len(hist) = L + 1 /\ RoomOK(room) /\ room.seq = L
        /\ room = hist[L + 1]
    BY RoomIsLast
  <1>2. /\ S \in Seq(Entries) /\ Len(S) = N /\ N \in Nat /\ DOMAIN es = 1 .. N
        /\ \A n \in 1 .. N : MayFollow(S[n], L + n - 1) /\ S[n].type = es[n].type
    BY StampedOK DEF Appendable
  <1>3. /\ st.log = log \o S /\ st.room = T[N] /\ st.hist = hist \o [n \in 1 .. N |-> T[n]]
    BY <1>2 DEF Appended
  <1>. HIDE DEF S, N, st
  <1>4. /\ T[0] = room
        /\ \A n \in 1 .. N : T[n] = Applied(T[n - 1], S[n])
    <2>1. Len(S) \in Nat
      BY <1>2
    <2>2. /\ Reduced(room, S)[0] = room
          /\ \A n \in 1 .. Len(S) : Reduced(room, S)[n] = Applied(Reduced(room, S)[n - 1], S[n])
      BY <2>1, ReducedIs
    <2>. HIDE DEF T
    <2>3. Reduced(room, S) = T /\ Len(S) = N
      BY <1>2 DEF T
    <2>. QED
      BY <2>2, <2>3
  <1>. HIDE DEF T
  <1>5. \A k \in 0 .. N : /\ RoomOK(T[k]) /\ T[k].seq = L + k
                          /\ k > 0 => T[k].status = T[1].status
    <2>. DEFINE P == {k \in 0 .. N : /\ RoomOK(T[k]) /\ T[k].seq = L + k
                                     /\ k > 0 => T[k].status = T[1].status}
    <2>1. 0 \in P
      BY <1>1, <1>2, <1>4
    <2>2. ASSUME NEW k \in 0 .. N - 1, k \in P
          PROVE  k + 1 \in P
      <3>1. /\ k + 1 \in 1 .. N /\ RoomOK(T[k]) /\ T[k].seq = L + k
            /\ k > 0 => T[k].status = T[1].status
        BY <2>2, <1>2
      <3>2. MayFollow(S[k + 1], L + k) /\ S[k + 1].type = es[k + 1].type
        BY <1>1, <1>2, <3>1
      <3>3. T[k + 1] = Applied(T[k], S[k + 1])
        BY <1>4, <3>1
      <3>4. /\ RoomOK(T[k + 1]) /\ T[k + 1].seq = S[k + 1].seq
            /\ S[k + 1].type \notin {"SESSION_STARTED", "SESSION_ENDED"} =>
                  T[k + 1].status = T[k].status
        BY <3>1, <3>2, <3>3, AppliedOK
      <3>5. S[k + 1].seq = L + (k + 1)
        BY <1>1, <3>2 DEF MayFollow
      <3>6. k > 0 => es[k + 1].type \notin {"SESSION_STARTED", "SESSION_ENDED"}
        BY <3>1 DEF Appendable, N
      <3>. QED
        BY <3>1, <3>2, <3>4, <3>5, <3>6
    <2>. HIDE DEF P
    <2>3. \A k \in 0 .. N : k \in P
      BY <1>2, <2>1, <2>2, IntervalInduction
    <2>. QED
      BY <2>3 DEF P
  <1>6. /\ log \in Seq(Entries) /\ hist \in Seq(Core!Room) /\ hist[1] = Core!EmptyRoom
        /\ \A n \in 1 .. L : log[n].seq = n /\ hist[n + 1] = Applied(hist[n], log[n])
        /\ \A n \in 1 .. L + 1 : RoomOK(hist[n]) /\ hist[n].seq = n - 1
    BY <1>1 DEF LogInv, Folds
  <1>. DEFINE U == [n \in 1 .. N |-> T[n]]
  <1>7. U \in Seq(Core!Room) /\ Len(U) = N /\ \A n \in 1 .. N : U[n] = T[n]
    <2>1. U \in [1 .. N -> Core!Room]
      BY <1>5 DEF RoomOK
    <2>. QED
      BY <1>2, <2>1
  <1>. HIDE DEF U
  <1>8. /\ st.log \in Seq(Entries) /\ Len(st.log) = L + N
        /\ \A n \in 1 .. L : st.log[n] = log[n]
        /\ \A n \in 1 .. N : st.log[L + n] = S[n]
    BY <1>1, <1>2, <1>3, <1>6
  <1>9. /\ st.hist \in Seq(Core!Room) /\ Len(st.hist) = L + 1 + N
        /\ \A n \in 1 .. L + 1 : st.hist[n] = hist[n]
        /\ \A n \in 1 .. N : st.hist[L + 1 + n] = T[n]
    <2>1. st.hist = hist \o U
      BY <1>3 DEF U
    <2>2. /\ hist \o U \in Seq(Core!Room) /\ Len(hist \o U) = Len(hist) + Len(U)
          /\ \A n \in 1 .. Len(hist) : (hist \o U)[n] = hist[n]
          /\ \A n \in 1 .. Len(U) : (hist \o U)[Len(hist) + n] = U[n]
      <3>1. hist \in Seq(Core!Room) /\ U \in Seq(Core!Room)
        BY <1>6, <1>7
      <3>. QED
        BY <3>1, Concatenated
    <2>. QED
      BY <1>1, <1>7, <2>1, <2>2
  <1>10. \A n \in 0 .. N : st.hist[L + 1 + n] = T[n]
    BY <1>1, <1>2, <1>4, <1>9
  <1>11. Folds(st.log, st.hist)
    <2>1. ASSUME NEW n \in 1 .. L + N
          PROVE  st.log[n].seq = n /\ st.hist[n + 1] = Applied(st.hist[n], st.log[n])
      <3>1. CASE n \in 1 .. L
        BY SMTT(30), <1>1, <1>6, <1>8, <1>9, <3>1
      <3>2. CASE n \notin 1 .. L
        <4>. DEFINE m == n - L
        <4>1. m \in 1 .. N /\ m - 1 \in 0 .. N /\ n = L + m
          BY <1>1, <1>2, <3>2
        <4>. HIDE DEF m
        <4>2. st.log[n] = S[m] /\ st.hist[n + 1] = T[m] /\ st.hist[n] = T[m - 1]
          <5>1. st.hist[L + 1 + m] = T[m] /\ st.hist[L + 1 + (m - 1)] = T[m - 1]
            BY <4>1, <1>9, <1>10
          <5>2. L + 1 + m = n + 1 /\ L + 1 + (m - 1) = n
            BY <1>1, <4>1
          <5>. QED
            BY <1>8, <4>1, <5>1, <5>2
        <4>3. S[m].seq = n
          BY <1>1, <1>2, <4>1 DEF MayFollow
        <4>. QED
          BY <1>4, <4>1, <4>2, <4>3
      <3>. QED
        BY <3>1, <3>2
    <2>2. ASSUME NEW n \in 1 .. L + 1 + N
          PROVE  RoomOK(st.hist[n]) /\ st.hist[n].seq = n - 1
      <3>1. CASE n \in 1 .. L + 1
        BY <1>6, <1>9, <3>1
      <3>2. CASE n \notin 1 .. L + 1
        <4>. DEFINE m == n - (L + 1)
        <4>1. m \in 0 .. N /\ n = L + 1 + m
          BY <1>1, <1>2, <3>2
        <4>. HIDE DEF m
        <4>. QED
          BY <1>1, <1>5, <1>10, <4>1
      <3>. QED
        BY <3>1, <3>2
    <2>3. st.hist[1] = Core!EmptyRoom
      BY <1>1, <1>6, <1>9
    <2>4. /\ Len(st.hist) = Len(st.log) + 1
          /\ 1 .. Len(st.log) = 1 .. L + N /\ 1 .. Len(st.hist) = 1 .. L + 1 + N
      BY <1>1, <1>2, <1>8, <1>9
    <2>. QED
      BY <1>8, <1>9, <2>1, <2>2, <2>3, <2>4 DEF Folds
  <1>12. st.room = st.hist[Len(st.hist)]
    <2>1. N \in 0 .. N /\ Len(st.hist) = L + 1 + N
      BY <1>2, <1>9
    <2>. QED
      BY <1>3, <1>10, <2>1
  <1>13. ASSUME NEW n \in L + 1 .. L + N
         PROVE  st.hist[n + 1].status = st.room.status
    <2>. DEFINE m == n - L
    <2>1. m \in 1 .. N /\ n + 1 = L + 1 + m /\ N \in 1 .. N /\ 0 < m
      BY <1>1, <1>2
    <2>. HIDE DEF m
    <2>2. st.hist[n + 1] = T[m] /\ T[m].status = T[1].status /\ T[N].status = T[1].status
      BY <1>5, <1>9, <2>1
    <2>. QED
      BY <1>3, <2>2
  <1>14. /\ Len(st.log) >= Len(log)
         /\ \A n \in 1 .. Len(log) : st.log[n] = log[n]
         /\ \A n \in 1 .. Len(hist) : st.hist[n] = hist[n]
    <2>1. Len(st.log) >= Len(log)
      BY <1>1, <1>2, <1>8
    <2>2. \A n \in 1 .. Len(log) : st.log[n] = log[n]
      BY <1>8
    <2>3. \A n \in 1 .. Len(hist) : st.hist[n] = hist[n]
      <3>1. Len(hist) = L + 1
        BY <1>1
      <3>. QED
        BY ONLY <1>9, <3>1
    <2>. QED
      BY <2>1, <2>2, <2>3
  <1>15. \A n \in Len(log) + 1 .. Len(st.log) : st.hist[n + 1].status = st.room.status
    BY <1>8, <1>13
  <1>16. Grown(st)
    BY <1>11, <1>12, <1>14, <1>15 DEF Grown
  <1>. QED
    BY <1>16 DEF st

LEMMA InGrantOrderOK ==
    ASSUME NEW n \in Nat, NEW es, \A e \in es : e.token \in 0 .. n
    PROVE  InGrantOrder(es) \in Seq(es)
  <1>. DEFINE I == {e.token : e \in es}
              q == Ascending(I)
              c == Cardinality(I)
              f == [k \in 1 .. c |-> CHOOSE e \in es : e.token = q[k]]
  <1>1. I \subseteq Int /\ IsFiniteSet(I)
    <2>1. IsFiniteSet(0 .. n) /\ I \subseteq 0 .. n
      BY FS_Interval
    <2>. QED
      BY <2>1, FS_Subset
  <1>2. c \in Nat /\ q \in [1 .. c -> I]
    BY <1>1, AscendingOf
  <1>. HIDE DEF q, c
  <1>3. InGrantOrder(es) = f
    BY <1>2 DEF InGrantOrder, q
  <1>4. \A k \in 1 .. c : (CHOOSE e \in es : e.token = q[k]) \in es
    BY <1>2
  <1>5. f \in [1 .. c -> es]
    BY <1>4
  <1>. QED
    BY <1>2, <1>3, <1>5

\* What clients send and what the room adds are entries.
LEMMA EventsMade ==
    /\ \A s \in Sessions : /\ Core!Started(s) \in Submittable /\ Core!Ended(s) \in Submittable
                           /\ Core!Beat(s) \in Entries /\ Core!Beat(s).type = "HEARTBEAT"
                           /\ Core!Beat(s).id = 0
    /\ \A s \in Sessions, S \in SUBSET Symbols : Core!Requested(s, S) \in Submittable
    /\ \A t \in Nat : Core!Released(t) \in Submittable
    /\ \A s \in Sessions, p \in Paths, t \in Nat : Core!Write(s, p, t) \in Submittable
    /\ Market \in Submittable /\ Core!Blank \in Submittable
    /\ \A t \in Nat, why \in {"ttl", "disconnect", "session_ended"} :
          /\ Core!Expired(t, why) \in Entries /\ Core!Expired(t, why).type = "LEASE_EXPIRED"
          /\ Core!Expired(t, why).token = t /\ Core!Expired(t, why).id = 0
  <1>1. 0 \in 0 .. Latest /\ 0 \in 0 .. MaxNow
    BY Numbers
  <1>2. \A s \in Sessions : Core!Started(s) \in Submittable /\ Core!Ended(s) \in Submittable
    BY <1>1 DEF Core!Started, Core!Ended, Core!Blank, Submittable, ClientTypes, Entries, Core!EventType
  <1>3. \A s \in Sessions : /\ Core!Beat(s) \in Entries /\ Core!Beat(s).type = "HEARTBEAT"
                             /\ Core!Beat(s).id = 0
    BY <1>1 DEF Core!Beat, Core!Blank, Entries, Core!EventType
  <1>4. \A s \in Sessions, S \in SUBSET Symbols : Core!Requested(s, S) \in Submittable
    BY <1>1 DEF Core!Requested, Core!Blank, Submittable, ClientTypes, Entries, Core!EventType
  <1>5. \A t \in Nat : Core!Released(t) \in Submittable
    BY <1>1 DEF Core!Released, Core!Blank, Submittable, ClientTypes, Entries, Core!EventType
  <1>6. Market \in Submittable /\ Core!Blank \in Submittable
    BY <1>1 DEF Market, Core!Blank, Submittable, ClientTypes, Entries, Core!EventType
  <1>8. \A s \in Sessions, p \in Paths, t \in Nat : Core!Write(s, p, t) \in Submittable
    BY <1>1 DEF Core!Write, Core!Blank, Submittable, ClientTypes, Entries, Core!EventType
  <1>7. \A t \in Nat, why \in {"ttl", "disconnect", "session_ended"} :
          /\ Core!Expired(t, why) \in Entries /\ Core!Expired(t, why).type = "LEASE_EXPIRED"
          /\ Core!Expired(t, why).token = t /\ Core!Expired(t, why).id = 0
    BY <1>1 DEF Core!Expired, Core!Blank, Entries, Core!EventType
  <1>. QED
    BY <1>2, <1>3, <1>4, <1>5, <1>6, <1>7, <1>8

\* An entry a client made keeps its kind when it is given an id.
LEMMA IdGiven ==
    ASSUME NEW e \in Submittable, NEW n \in Nat
    PROVE  [e EXCEPT !.id = n] \in Submittable /\ [e EXCEPT !.id = n].id = n
  <1>1. e \in Entries /\ e.type \in ClientTypes
    BY DEF Submittable
  <1>2. /\ [e EXCEPT !.id = n] \in Entries /\ [e EXCEPT !.id = n].type = e.type
        /\ [e EXCEPT !.id = n].id = n
    BY <1>1 DEF Entries
  <1>. QED
    BY <1>1, <1>2 DEF Submittable

\* What derive adds to e.
LEMMA AnswersMade ==
    ASSUME NEW e \in Entries
    PROVE  /\ Core!Denial(e) \in Entries /\ Core!Denial(e).type = "LEASE_DENIED"
           /\ Core!Denial(e).token = 0 /\ Core!Denial(e).id = 0
           /\ Core!Grant(e) \in Entries /\ Core!Grant(e).type = "LEASE_GRANTED"
           /\ Core!Grant(e).token = e.seq /\ Core!Grant(e).id = 0
  <1>1. /\ 0 \in 0 .. Latest /\ 0 \in 0 .. MaxNow /\ e.ts + LeaseTtl \in 0 .. Latest
        /\ e.seq \in Nat /\ e.session \in Sessions \cup {Nil} /\ e.symbols \in SUBSET Symbols
    BY EntryFields, Numbers DEF Latest
  <1>2. /\ Core!Denial(e) \in Entries /\ Core!Denial(e).type = "LEASE_DENIED"
        /\ Core!Denial(e).token = 0 /\ Core!Denial(e).id = 0
    BY <1>1 DEF Core!Denial, Core!Blank, Entries, Core!EventType
  <1>3. /\ Core!Grant(e) \in Entries /\ Core!Grant(e).type = "LEASE_GRANTED"
        /\ Core!Grant(e).token = e.seq /\ Core!Grant(e).id = 0
    BY <1>1 DEF Core!Grant, Core!Blank, Entries, Core!EventType
  <1>. QED
    BY <1>2, <1>3

LEMMA TokensKnown ==
    ASSUME LogInv
    PROVE  \A l \in room.leases : l.token \in Nat /\ l.token \in 0 .. Len(log)
  <1>1. LeasesOK(room.leases, Len(log)) /\ Len(log) \in Nat
    BY RoomIsLast DEF RoomOK
  <1>. QED
    BY <1>1 DEF LeasesOK

\* A submit is appended, and then what derive adds; only the first has an id.
LEMMA SubmittedAppends ==
    ASSUME LogInv, NEW e \in Submittable
    PROVE  \E es : /\ Appendable(es) /\ Submitted(e) = Appended(es)
                   /\ Len(es) >= 1 /\ es[1] = e
                   /\ \A n \in 2 .. Len(es) : es[n].id = 0
  <1>. DEFINE x == Stamped(<<e>>)[1]
              L == Len(log)
              D == Core!Derived(x, room)
              ds == Derivable(x)
              es == <<e>> \o ds
  <1>1. L \in Nat /\ room.seq = L
    BY RoomIsLast
  <1>2. e \in Entries /\ e.type \in ClientTypes
    BY DEF Submittable
  <1>3. Appendable(<<e>>)
    BY <1>2 DEF Appendable, ClientTypes
  <1>4. x \in Entries /\ x.seq = L + 1
    <2>1. \A n \in 1 .. Len(<<e>>) : MayFollow(Stamped(<<e>>)[n], L + n - 1)
      BY <1>3, StampedOK
    <2>2. 1 \in 1 .. Len(<<e>>)
      OBVIOUS
    <2>3. MayFollow(x, L + 1 - 1)
      BY <2>1, <2>2
    <2>. QED
      BY <1>1, <2>3 DEF MayFollow
  <1>. HIDE DEF x
  <1>5. \A d \in D : /\ d \in Entries /\ d.token \in 0 .. L + 1 /\ d.id = 0
                     /\ d.type \in {"LEASE_DENIED", "LEASE_GRANTED", "LEASE_EXPIRED"}
                     /\ d.type = "LEASE_GRANTED" => d.token = L + 1
    <2>1. CASE x.type = "LEASE_REQUESTED"
      <3>1. \A d \in D : d = Core!Denial(x) \/ d = Core!Grant(x)
        BY <2>1 DEF Core!Derived
      <3>2. /\ Core!Denial(x) \in Entries /\ Core!Denial(x).type = "LEASE_DENIED"
            /\ Core!Denial(x).token = 0 /\ Core!Denial(x).id = 0
            /\ Core!Grant(x) \in Entries /\ Core!Grant(x).type = "LEASE_GRANTED"
            /\ Core!Grant(x).token = L + 1 /\ Core!Grant(x).id = 0
        BY <1>4, AnswersMade
      <3>3. 0 \in 0 .. L + 1 /\ L + 1 \in 0 .. L + 1
        BY <1>1
      <3>. QED
        BY <3>1, <3>2, <3>3
    <2>2. CASE x.type # "LEASE_REQUESTED"
      <3>1. \A d \in D : \E l \in room.leases : d = Core!Expired(l.token, "session_ended")
        BY <2>2 DEF Core!Derived
      <3>2. ASSUME NEW l \in room.leases
            PROVE  LET d == Core!Expired(l.token, "session_ended") IN
                   d \in Entries /\ d.token \in 0 .. L + 1 /\ d.type = "LEASE_EXPIRED" /\ d.id = 0
        <4>1. l.token \in Nat /\ l.token \in 0 .. L
          BY TokensKnown
        <4>. QED
          BY <1>1, <4>1, EventsMade
      <3>. QED
        BY <3>1, <3>2
    <2>. QED
      BY <2>1, <2>2
  <1>. HIDE DEF D
  <1>6. ds \in Seq(D)
    <2>1. InGrantOrder(D) \in Seq(D)
      <3>1. L + 1 \in Nat /\ \A d \in D : d.token \in 0 .. L + 1
        BY <1>1, <1>5
      <3>. QED
        BY <3>1, InGrantOrderOK
    <2>. QED
      BY <2>1 DEF Derivable, D
  <1>. HIDE DEF ds
  <1>7. Appendable(es)
    <2>1. Len(ds) \in Nat /\ \A k \in 1 .. Len(ds) : ds[k] \in D
      BY <1>6
    <2>2. es \in Seq(Entries) /\ Len(es) = 1 + Len(ds) /\ es[1] = e
          /\ \A n \in 2 .. 1 + Len(ds) : es[n] = ds[n - 1]
      <3>1. <<e>> \in Seq(Entries) /\ ds \in Seq(Entries) /\ Len(<<e>>) = 1 /\ <<e>>[1] = e
        BY <1>2, <1>5, <1>6
      <3>2. /\ es \in Seq(Entries) /\ Len(es) = Len(<<e>>) + Len(ds)
            /\ \A n \in 1 .. Len(<<e>>) : es[n] = <<e>>[n]
            /\ \A n \in Len(<<e>>) + 1 .. Len(es) : es[n] = ds[n - Len(<<e>>)]
        BY <3>1, Concatenated
      <3>. QED
        BY <2>1, <3>1, <3>2
    <2>. HIDE DEF es
    <2>3. ASSUME NEW n \in 1 .. Len(es)
          PROVE  /\ es[n].type = "LEASE_GRANTED" => es[n].token \in 1 .. room.seq + n
                 /\ n > 1 => es[n].type \notin {"SESSION_STARTED", "SESSION_ENDED"}
      <3>1. CASE n = 1
        BY <1>2, <2>2, <3>1 DEF ClientTypes
      <3>2. CASE n # 1
        <4>1. es[n] \in D
          BY <2>1, <2>2, <3>2
        <4>2. L + 1 \in 1 .. room.seq + n /\ n > 1
          BY <1>1, <2>1, <2>2, <3>2
        <4>. QED
          BY <1>5, <4>1, <4>2
      <3>. QED
        BY <3>1, <3>2
    <2>. QED
      BY <2>2, <2>3 DEF Appendable
  <1>8. Submitted(e) = Appended(es)
    BY DEF Submitted, ds, x
  <1>9. /\ Len(es) >= 1 /\ es[1] = e
        /\ \A n \in 2 .. Len(es) : es[n].id = 0
    <2>1. Len(ds) \in Nat /\ \A k \in 1 .. Len(ds) : ds[k] \in D
      BY <1>6
    <2>2. <<e>> \in Seq(Entries) /\ ds \in Seq(Entries) /\ Len(<<e>>) = 1 /\ <<e>>[1] = e
      BY <1>2, <1>5, <1>6
    <2>3. /\ Len(es) = Len(<<e>>) + Len(ds)
          /\ \A n \in 1 .. Len(<<e>>) : es[n] = <<e>>[n]
          /\ \A n \in Len(<<e>>) + 1 .. Len(es) : es[n] = ds[n - Len(<<e>>)]
      BY <2>2, Concatenated
    <2>. HIDE DEF es
    <2>4. Len(es) >= 1 /\ es[1] = e /\ \A n \in 2 .. Len(es) : es[n] \in D
      BY <2>1, <2>2, <2>3
    <2>. QED
      BY <1>5, <2>4
  <1>. HIDE DEF es
  <1>. QED
    BY <1>7, <1>8, <1>9

LEMMA SubmittedGrows ==
    ASSUME LogInv, NEW e \in Submittable
    PROVE  Grown(Submitted(e))
  BY SubmittedAppends, AppendedOK

LEMMA ExpireAppends ==
    ASSUME LogInv, NEW ls \in SUBSET room.leases, NEW why \in {"ttl", "disconnect"}
    PROVE  \E es : /\ Appendable(es) /\ Expire(ls, why) = Appended(es)
                   /\ \A n \in 1 .. Len(es) : es[n].id = 0
  <1>. DEFINE D == {Core!Expired(l.token, why) : l \in ls}
              es == InGrantOrder(D)
  <1>1. Len(log) \in Nat
    BY RoomIsLast
  <1>2. \A l \in ls : l.token \in Nat /\ l.token \in 0 .. Len(log)
    BY TokensKnown
  <1>3. \A d \in D : d \in Entries /\ d.type = "LEASE_EXPIRED" /\ d.token \in 0 .. Len(log)
                  /\ d.id = 0
    BY <1>2, EventsMade
  <1>4. Expire(ls, why) = Appended(es)
    BY DEF Expire
  <1>. HIDE DEF D
  <1>5. es \in Seq(D)
    BY <1>1, <1>3, InGrantOrderOK
  <1>. HIDE DEF es
  <1>6. es \in Seq(Entries) /\ \A n \in 1 .. Len(es) : es[n].type = "LEASE_EXPIRED" /\ es[n].id = 0
    BY <1>3, <1>5
  <1>7. Appendable(es)
    BY <1>6 DEF Appendable
  <1>. QED
    BY <1>4, <1>6, <1>7

LEMMA ExpireGrows ==
    ASSUME LogInv, NEW ls \in SUBSET room.leases, NEW why \in {"ttl", "disconnect"}
    PROVE  Grown(Expire(ls, why))
  BY ExpireAppends, AppendedOK

LEMMA BeatAppends ==
    ASSUME NEW s \in Sessions
    PROVE  /\ Appendable(<<Core!Beat(s)>>)
           /\ \A n \in 1 .. Len(<<Core!Beat(s)>>) : <<Core!Beat(s)>>[n].id = 0
  <1>. DEFINE b == Core!Beat(s)
  <1>1. b \in Entries /\ b.type = "HEARTBEAT" /\ b.id = 0
    BY EventsMade
  <1>. HIDE DEF b
  <1>2. Appendable(<<b>>)
    BY <1>1 DEF Appendable
  <1>3. \A n \in 1 .. Len(<<b>>) : <<b>>[n].id = 0
    BY <1>1
  <1>. QED
    BY <1>2, <1>3 DEF b

LEMMA BeatGrows ==
    ASSUME LogInv, NEW s \in Sessions
    PROVE  Grown(Appended(<<Core!Beat(s)>>))
  BY BeatAppends, AppendedOK

\* The alarm is set for the lease that runs out first.
LEMMA NextAlarmOK ==
    ASSUME NEW r, RoomOK(r)
    PROVE  /\ NextAlarm(r) \in {Never} \cup 0 .. Latest
           /\ \A l \in r.leases : NextAlarm(r) # Never /\ NextAlarm(r) <= l.expiresAt
  <1>. DEFINE E == Expiries(r)
              I == {t + 1 : t \in E}
  <1>1. E \subseteq 0 .. Latest /\ (\A l \in r.leases : l.expiresAt \in E) /\ Latest \in Nat
    BY Numbers DEF RoomOK, LeasesOK, Expiries
  <1>2. CASE r.leases = {}
    BY <1>2 DEF NextAlarm
  <1>3. CASE r.leases # {}
    <2>1. I \in SUBSET (1 .. Latest + 1) /\ I # {} /\ Latest + 1 \in Nat
      BY <1>1, <1>3
    <2>2. PICK m \in I : \A i \in I : m <= i
      BY <2>1, FirstExists
    <2>3. PICK t \in E : m = t + 1
      BY <2>2
    <2>4. \A u \in E : t <= u
      <3>. SUFFICES ASSUME NEW u \in E
                    PROVE  t <= u
        OBVIOUS
      <3>1. u \in Int /\ t \in Int
        BY <1>1
      <3>2. u + 1 \in I
        OBVIOUS
      <3>3. m <= u + 1
        BY <2>2, <3>2
      <3>. QED
        BY <2>3, <3>1, <3>3
    <2>5. NextAlarm(r) = CHOOSE x \in E : \A u \in E : x <= u
      BY <1>3 DEF NextAlarm
    <2>. HIDE DEF E
    <2>6. NextAlarm(r) \in E /\ \A u \in E : NextAlarm(r) <= u
      BY <2>4, <2>5
    <2>7. Never \notin 0 .. Latest
      BY DEF Never
    <2>. QED
      BY <1>1, <2>6, <2>7
  <1>. QED
    BY <1>2, <1>3
-----------------------------------------------------------------------------
(***************************************************************************)
(* Frames.                                                                 *)
(***************************************************************************)
LEMMA EmptyRoomOK == RoomOK(Core!EmptyRoom) /\ Core!EmptyRoom.seq = 0
  BY DEF RoomOK, LeasesOK, Core!EmptyRoom, Core!Room

LEMMA FramesMade ==
    /\ \A seqs \in Seq(Nat) : /\ Events(seqs) \in Frame /\ Events(seqs).type = "EVENTS"
                              /\ Events(seqs).events = seqs /\ Events(seqs).id = 0
    /\ \A r \in Core!Room : /\ Welcome(r) \in Frame /\ Welcome(r).type = "WELCOME"
                            /\ Welcome(r).events = <<>> /\ Welcome(r).room = r /\ Welcome(r).id = 0
    /\ \A e \in Entries : /\ Ack(e) \in Frame /\ Ack(e).type = "ACK" /\ Ack(e).events = <<>>
                          /\ Ack(e).id = e.id
                          /\ Error(e) \in Frame /\ Error(e).type = "ERROR"
                          /\ Error(e).events = <<>> /\ Error(e).id = e.id
  <1>1. Core!EmptyRoom \in Core!Room
    BY EmptyRoomOK DEF RoomOK
  <1>2. \A seqs \in Seq(Nat) : /\ Events(seqs) \in Frame /\ Events(seqs).type = "EVENTS"
                               /\ Events(seqs).events = seqs /\ Events(seqs).id = 0
    BY <1>1 DEF Events, Frame
  <1>3. \A r \in Core!Room : /\ Welcome(r) \in Frame /\ Welcome(r).type = "WELCOME"
                             /\ Welcome(r).events = <<>> /\ Welcome(r).room = r /\ Welcome(r).id = 0
    BY DEF Welcome, Frame
  <1>4. \A e \in Entries : /\ Ack(e) \in Frame /\ Ack(e).type = "ACK" /\ Ack(e).events = <<>>
                           /\ Ack(e).id = e.id
    BY <1>1, EntryFields DEF Ack, Frame
  <1>5. \A e \in Entries : /\ Error(e) \in Frame /\ Error(e).type = "ERROR"
                           /\ Error(e).events = <<>> /\ Error(e).id = e.id
    BY <1>1, EntryFields DEF Error, Frame
  <1>. QED
    BY <1>2, <1>3, <1>4, <1>5

\* What ends a submit: it brings neither a room nor events.
Answers == {a \in Frame : a.type \in {"ACK", "ERROR"} /\ a.events = <<>>}

LEMMA AnswersAre ==
    ASSUME NEW e \in Entries
    PROVE  Ack(e) \in Answers /\ Error(e) \in Answers /\ Ack(e).id = e.id /\ Error(e).id = e.id
  BY FramesMade DEF Answers

LEMMA FrameParts ==
    ASSUME NEW D \in Seq(Frame)
    PROVE  /\ Len(D) \in Nat
           /\ \A j \in 1 .. Len(D) : D[j] \in Frame /\ D[j].events \in Seq(Nat)
                                     /\ Len(D[j].events) \in Nat
                                     /\ \A a \in 1 .. Len(D[j].events) : D[j].events[a] \in Nat
  <1>1. \A f \in Frame : f.events \in Seq(Nat)
    BY DEF Frame
  <1>2. Len(D) \in Nat /\ \A j \in 1 .. Len(D) : D[j] \in Frame
    OBVIOUS
  <1>3. \A s \in Seq(Nat) : Len(s) \in Nat /\ \A a \in 1 .. Len(s) : s[a] \in Nat
    OBVIOUS
  <1>. QED
    BY <1>1, <1>2, <1>3

\* Frames that go on where others end.
LEMMA FramesJoined ==
    ASSUME NEW D \in Seq(Frame), NEW F \in Seq(Frame), NEW lo \in Nat, NEW mid \in Nat, NEW hi \in Nat,
           lo <= mid, mid <= hi, Ascends(D), Within(D, lo, mid), Ascends(F), Within(F, mid, hi)
    PROVE  /\ Ascends(D \o F)
           /\ Within(D \o F, lo, hi)
           /\ \A n : Brings(D, n) \/ Brings(F, n) => Brings(D \o F, n)
  <1>. DEFINE G == D \o F
              d == Len(D)
  <1>1. /\ G \in Seq(Frame) /\ Len(G) = d + Len(F) /\ d \in Nat /\ Len(F) \in Nat
        /\ \A n \in 1 .. d : G[n] = D[n]
        /\ \A n \in 1 .. Len(F) : G[d + n] = F[n]
        /\ \A n \in d + 1 .. Len(G) : G[n] = F[n - d]
    BY Concatenated
  <1>. HIDE DEF G, d
  <1>2. \A j \in 1 .. Len(G) : \/ j \in 1 .. d /\ j \in 1 .. Len(D) /\ G[j] = D[j]
                               \/ j > d /\ j - d \in 1 .. Len(F) /\ G[j] = F[j - d]
    BY <1>1 DEF d
  <1>3. \A j \in 1 .. Len(D) : \A a \in 1 .. Len(D[j].events) :
            D[j].events[a] \in lo + 1 .. mid /\ D[j].events[a] \in Nat /\ a \in Nat
    BY DEF Within
  <1>4. \A j \in 1 .. Len(F) : \A a \in 1 .. Len(F[j].events) :
            F[j].events[a] \in mid + 1 .. hi /\ F[j].events[a] \in Nat /\ a \in Nat
    BY DEF Within
  <1>5. Within(G, lo, hi)
    <2>. SUFFICES ASSUME NEW j \in 1 .. Len(G), NEW a \in 1 .. Len(G[j].events)
                  PROVE  G[j].events[a] \in lo + 1 .. hi
      BY DEF Within
    <2>1. CASE j \in 1 .. Len(D) /\ G[j] = D[j]
      BY <1>3, <2>1
    <2>2. CASE j - d \in 1 .. Len(F) /\ G[j] = F[j - d]
      BY SMTT(30), <1>4, <2>2
    <2>. QED
      BY <1>2, <2>1, <2>2
  <1>6. Ascends(G)
    <2>. SUFFICES ASSUME NEW j \in 1 .. Len(G), NEW k \in 1 .. Len(G),
                         NEW a \in 1 .. Len(G[j].events), NEW b \in 1 .. Len(G[k].events),
                         j < k \/ (j = k /\ a < b)
                  PROVE  G[j].events[a] < G[k].events[b]
      BY DEF Ascends
    <2>1. CASE j \in 1 .. Len(D) /\ G[j] = D[j] /\ k \in 1 .. Len(D) /\ G[k] = D[k]
      BY <2>1 DEF Ascends
    <2>2. CASE j - d \in 1 .. Len(F) /\ G[j] = F[j - d] /\ k - d \in 1 .. Len(F) /\ G[k] = F[k - d]
      <3>. DEFINE u == j - d
                  v == k - d
      <3>1. /\ u \in 1 .. Len(F) /\ v \in 1 .. Len(F)
            /\ a \in 1 .. Len(F[u].events) /\ b \in 1 .. Len(F[v].events)
            /\ u < v \/ (u = v /\ a < b)
        BY <1>1, <2>2
      <3>2. G[j] = F[u] /\ G[k] = F[v]
        BY <2>2
      <3>. HIDE DEF u, v
      <3>3. F[u].events[a] < F[v].events[b]
        BY <3>1 DEF Ascends
      <3>. QED
        BY <3>2, <3>3
    <2>3. CASE j \in 1 .. Len(D) /\ G[j] = D[j] /\ k - d \in 1 .. Len(F) /\ G[k] = F[k - d]
      <3>. DEFINE x == G[j].events[a]
                  y == G[k].events[b]
      <3>1. x \in lo + 1 .. mid /\ y \in mid + 1 .. hi
        BY <1>3, <1>4, <2>3
      <3>. HIDE DEF x, y
      <3>2. x < y
        BY <3>1
      <3>. QED
        BY <3>2 DEF x, y
    <2>4. CASE j - d \in 1 .. Len(F) /\ j > d /\ k \in 1 .. d
      BY <1>1, <2>4
    <2>. QED
      BY <1>2, <2>1, <2>2, <2>3, <2>4
  <1>7. ASSUME NEW n, Brings(D, n)
        PROVE  Brings(G, n)
    <2>1. PICK j \in 1 .. Len(D) : \E a \in 1 .. Len(D[j].events) : D[j].events[a] = n
      BY <1>7 DEF Brings
    <2>2. j \in 1 .. Len(G) /\ G[j] = D[j]
      BY <1>1 DEF d
    <2>. QED
      BY <2>1, <2>2 DEF Brings
  <1>8. ASSUME NEW n, Brings(F, n)
        PROVE  Brings(G, n)
    <2>1. PICK j \in 1 .. Len(F) : \E a \in 1 .. Len(F[j].events) : F[j].events[a] = n
      BY <1>8 DEF Brings
    <2>2. d + j \in 1 .. Len(G) /\ G[d + j] = F[j]
      BY <1>1
    <2>. QED
      BY <2>1, <2>2 DEF Brings
  <1>. QED
    BY <1>5, <1>6, <1>7, <1>8 DEF G

\* A frame for each of the events I, the oldest first.
OneEach(I) == [n \in DOMAIN Ascending(I) |-> Events(<<Ascending(I)[n]>>)]

LEMMA OneByOne ==
    ASSUME NEW lo \in Nat, NEW hi \in Nat, NEW I \in SUBSET (lo + 1 .. hi)
    PROVE  LET F == OneEach(I) IN
           /\ F \in Seq(Frame) /\ Ascends(F) /\ Within(F, lo, hi)
           /\ \A k \in 1 .. Len(F) : F[k].type = "EVENTS" /\ F[k].id = 0
           /\ \A n \in I : Brings(F, n)
  <1>. DEFINE q == Ascending(I)
              c == Cardinality(I)
              F == OneEach(I)
  <1>0. \A i \in I : i \in lo + 1 .. hi /\ i \in Nat
    OBVIOUS
  <1>1. I \in SUBSET (1 .. hi)
    OBVIOUS
  <1>2. /\ c \in Nat /\ q \in [1 .. c -> I]
        /\ \A j, k \in 1 .. c : j < k => q[j] < q[k]
        /\ \A i \in I : \E k \in 1 .. c : q[k] = i
    BY <1>1, AscendingFacts DEF Increasing
  <1>. HIDE DEF q, c, F
  <1>3. F = [n \in 1 .. c |-> Events(<<q[n]>>)]
    BY <1>2 DEF q, F, OneEach
  <1>4. ASSUME NEW n \in 1 .. c
        PROVE  /\ Events(<<q[n]>>) \in Frame /\ Events(<<q[n]>>).type = "EVENTS"
               /\ Events(<<q[n]>>).events = <<q[n]>> /\ Events(<<q[n]>>).id = 0
    <2>1. q[n] \in I
      BY <1>2
    <2>2. q[n] \in Nat
      BY <1>0, <2>1
    <2>. DEFINE x == q[n]
    <2>. HIDE DEF x
    <2>3. <<x>> \in Seq(Nat)
      BY <2>2 DEF x
    <2>. QED
      BY <2>3, FramesMade DEF x
  <1>5. F \in Seq(Frame) /\ Len(F) = c
    <2>1. F \in [1 .. c -> Frame]
      BY <1>3, <1>4
    <2>. QED
      BY <1>2, <2>1
  <1>6. ASSUME NEW n \in 1 .. Len(F)
        PROVE  /\ F[n].type = "EVENTS" /\ F[n].id = 0 /\ Len(F[n].events) = 1 /\ F[n].events[1] = q[n]
               /\ n \in 1 .. c /\ q[n] \in lo + 1 .. hi
    <2>1. n \in 1 .. c /\ q[n] \in lo + 1 .. hi
      BY <1>0, <1>2, <1>5
    <2>2. F[n] = Events(<<q[n]>>)
      BY <1>3, <2>1
    <2>3. F[n].events = <<q[n]>> /\ F[n].type = "EVENTS" /\ F[n].id = 0
      BY <1>4, <2>1, <2>2
    <2>4. \A x : Len(<<x>>) = 1 /\ <<x>>[1] = x
      OBVIOUS
    <2>. QED
      BY <2>1, <2>3, <2>4
  <1>7. Within(F, lo, hi)
    <2>. SUFFICES ASSUME NEW j \in 1 .. Len(F), NEW a \in 1 .. Len(F[j].events)
                  PROVE  F[j].events[a] \in lo + 1 .. hi
      BY DEF Within
    <2>1. Len(F[j].events) = 1
      BY <1>6
    <2>2. a = 1
      BY <2>1
    <2>. QED
      BY <1>6, <2>2
  <1>8. Ascends(F)
    <2>. SUFFICES ASSUME NEW j \in 1 .. Len(F), NEW k \in 1 .. Len(F),
                         NEW a \in 1 .. Len(F[j].events), NEW b \in 1 .. Len(F[k].events),
                         j < k \/ (j = k /\ a < b)
                  PROVE  F[j].events[a] < F[k].events[b]
      BY DEF Ascends
    <2>1. Len(F[j].events) = 1 /\ Len(F[k].events) = 1
      BY <1>6
    <2>2. a = 1 /\ b = 1
      BY <2>1
    <2>3. j \in 1 .. c /\ k \in 1 .. c
      BY <1>6
    <2>4. F[j].events[1] = q[j] /\ F[k].events[1] = q[k]
      BY <1>6
    <2>. QED
      BY <1>2, <2>2, <2>3, <2>4
  <1>9. ASSUME NEW n \in I
        PROVE  Brings(F, n)
    <2>1. PICK k \in 1 .. c : q[k] = n
      BY <1>2
    <2>2. k \in 1 .. Len(F) /\ 1 \in 1 .. Len(F[k].events) /\ F[k].events[1] = n
      BY <1>5, <1>6, <2>1
    <2>. QED
      BY <2>2 DEF Brings
  <1>. QED
    BY <1>5, <1>6, <1>7, <1>8, <1>9 DEF F

\* A socket, changed.
LEMMA UpSet ==
    ASSUME NEW s \in Socket, NEW u \in Seq(Messages)
    PROVE  LET x == [s EXCEPT !.up = u] IN
           /\ x \in Socket /\ x.client = s.client /\ x.open = s.open /\ x.live = s.live
           /\ x.greeted = s.greeted /\ x.up = u /\ x.down = s.down
  BY DEF Socket

LEMMA DownSet ==
    ASSUME NEW s \in Socket, NEW D \in Seq(Frame)
    PROVE  LET x == [s EXCEPT !.down = D] IN
           /\ x \in Socket /\ x.client = s.client /\ x.open = s.open /\ x.live = s.live
           /\ x.greeted = s.greeted /\ x.up = s.up /\ x.down = D
  BY DEF Socket

LEMMA LiveSet ==
    ASSUME NEW s \in Socket, NEW v \in BOOLEAN
    PROVE  LET x == [s EXCEPT !.live = v] IN
           /\ x \in Socket /\ x.client = s.client /\ x.open = s.open /\ x.live = v
           /\ x.greeted = s.greeted /\ x.up = s.up /\ x.down = s.down
  BY DEF Socket

LEMMA OpenSet ==
    ASSUME NEW s \in Socket, NEW v \in BOOLEAN
    PROVE  LET x == [s EXCEPT !.open = v] IN
           /\ x \in Socket /\ x.client = s.client /\ x.open = v /\ x.live = s.live
           /\ x.greeted = s.greeted /\ x.up = s.up /\ x.down = s.down
  BY DEF Socket

LEMMA GreetedSet ==
    ASSUME NEW s \in Socket, NEW v \in BOOLEAN
    PROVE  LET x == [s EXCEPT !.greeted = v] IN
           /\ x \in Socket /\ x.client = s.client /\ x.open = s.open /\ x.live = s.live
           /\ x.greeted = v /\ x.up = s.up /\ x.down = s.down
  BY DEF Socket

LEMMA SocketParts ==
    ASSUME NEW s \in Socket
    PROVE  /\ s.client \in Clients /\ s.open \in BOOLEAN /\ s.live \in BOOLEAN
           /\ s.greeted \in BOOLEAN /\ s.up \in Seq(Messages) /\ s.down \in Seq(Frame)
  BY DEF Socket

-----------------------------------------------------------------------------
(***************************************************************************)
(* What an append does to the sockets and to what clients were given.      *)
(***************************************************************************)
\* The end of a socket's frames after a broadcast.
Told(c, F, st) ==
    /\ F \in Seq(Frame) /\ Ascends(F) /\ Within(F, Len(log), Len(st.log))
    /\ \A k \in 1 .. Len(F) : F[k].type = "EVENTS" /\ F[k].id = 0
    /\ \A n \in Len(log) + 1 .. Len(st.log) : Recipient(c, st.room, st.log, n) => Brings(F, n)

Reached(s) == s.open /\ s.greeted /\ s.live

LEMMA BroadcastOne ==
    ASSUME LogInv, NEW st, Grown(st), NEW ss \in Seq(Socket), NEW i \in 1 .. Len(ss)
    PROVE  LET b == Broadcast(ss, st)[i]
               s == ss[i] IN
           /\ b \in Socket /\ b.client = s.client /\ b.open = s.open /\ b.live = s.live
           /\ b.greeted = s.greeted /\ b.up = s.up
           /\ ~Reached(s) => b = s
           /\ Reached(s) => \E F : b.down = s.down \o F /\ Told(s.client, F, st)
  <1>. DEFINE s == ss[i]
              c == s.client
              b == Broadcast(ss, st)[i]
              I == {n \in Len(log) + 1 .. Len(st.log) : Recipient(c, st.room, st.log, n)}
              F == OneEach(I)
              D == s.down \o F
  <1>1. s \in Socket /\ s.down \in Seq(Frame) /\ DOMAIN ss = 1 .. Len(ss)
    BY SocketParts
  <1>2. b = IF Reached(s) THEN [s EXCEPT !.down = D] ELSE s
    BY <1>1 DEF Broadcast, Reached, OneEach
  <1>3. Len(log) \in Nat /\ Len(st.log) \in Nat
    BY RoomIsLast DEF Grown, Folds
  <1>. HIDE DEF s, b, c
  <1>4. /\ F \in Seq(Frame) /\ Ascends(F) /\ Within(F, Len(log), Len(st.log))
        /\ \A k \in 1 .. Len(F) : F[k].type = "EVENTS" /\ F[k].id = 0
        /\ \A n \in I : Brings(F, n)
    <2>. DEFINE lo == Len(log)  hi == Len(st.log)
    <2>1. lo \in Nat /\ hi \in Nat /\ I \in SUBSET (lo + 1 .. hi)
      BY <1>3
    <2>. HIDE DEF lo, hi, I
    <2>2. /\ F \in Seq(Frame) /\ Ascends(F) /\ Within(F, lo, hi)
          /\ \A k \in 1 .. Len(F) : F[k].type = "EVENTS" /\ F[k].id = 0
          /\ \A n \in I : Brings(F, n)
      BY <2>1, OneByOne
    <2>. QED
      BY <2>2 DEF lo, hi
  <1>. HIDE DEF F
  <1>5. Told(c, F, st)
    BY <1>4 DEF Told
  <1>6. D \in Seq(Frame)
    BY <1>1, <1>4, Concatenated
  <1>. HIDE DEF D
  <1>7. CASE ~Reached(s)
    BY <1>1, <1>2, <1>7 DEF b, s
  <1>8. CASE Reached(s)
    <2>. DEFINE x == [s EXCEPT !.down = D]
    <2>1. /\ x \in Socket /\ x.client = s.client /\ x.open = s.open /\ x.live = s.live
          /\ x.greeted = s.greeted /\ x.up = s.up /\ x.down = D
      BY <1>1, <1>6, DownSet
    <2>2. b = x
      BY <1>2, <1>8
    <2>. HIDE DEF x
    <2>3. \E G : b.down = s.down \o G /\ Told(s.client, G, st)
      BY <1>5, <2>1, <2>2 DEF D, c
    <2>. QED
      BY <1>8, <2>1, <2>2, <2>3 DEF b, s
  <1>. QED
    BY <1>7, <1>8

LEMMA SameStatus ==
    ASSUME NEW c, NEW g, NEW n, NEW r, NEW q, r.status = q.status
    PROVE  Recipient(c, r, g, n) <=> Recipient(c, q, g, n)
  BY DEF Recipient, RouteEvent

\* Who an entry is for depends on the entries up to it.
LEMMA SameBefore ==
    ASSUME NEW c, NEW r, NEW n \in Nat \ {0}, NEW g, NEW h, \A m \in 1 .. n : g[m] = h[m]
    PROVE  Recipient(c, r, g, n) <=> Recipient(c, r, h, n)
  <1>1. n \in 1 .. n /\ \A m \in 1 .. n : \A k \in m + 1 .. n : k \in 1 .. n
    OBVIOUS
  <1>2. \A s, p : Wrote(s, p, g, n) <=> Wrote(s, p, h, n)
    BY <1>1 DEF Wrote
  <1>3. g[n] = h[n]
    BY <1>1
  <1>4. RouteEvent(r, g, n) = RouteEvent(r, h, n)
    BY <1>2, <1>3 DEF RouteEvent
  <1>. QED
    BY <1>3, <1>4 DEF Recipient

LEMMA OwedKept ==
    ASSUME LogInv, NEW st, Grown(st), NEW c, NEW n \in 1 .. Len(log)
    PROVE  Owed(c, n, st.log, st.hist) <=> Owed(c, n, log, hist)
  <1>1. n + 1 \in 1 .. Len(hist) /\ n \in Nat \ {0} /\ \A m \in 1 .. n : m \in 1 .. Len(log)
    BY RoomIsLast
  <1>2. (\A m \in 1 .. n : st.log[m] = log[m]) /\ st.hist[n + 1] = hist[n + 1]
    BY <1>1 DEF Grown
  <1>. QED
    BY <1>1, <1>2, SameBefore DEF Owed

LEMMA GrownLengths ==
    ASSUME LogInv, NEW st, Grown(st)
    PROVE  /\ Len(log) \in Nat /\ Len(st.log) \in Nat /\ Len(log) <= Len(st.log)
           /\ Len(hist) = Len(log) + 1 /\ Len(st.hist) = Len(st.log) + 1
  <1>1. st.log \in Seq(Entries) /\ Len(st.hist) = Len(st.log) + 1 /\ Len(st.log) >= Len(log)
    BY DEF Grown, Folds
  <1>2. Len(st.log) \in Nat
    BY <1>1
  <1>. QED
    BY <1>1, <1>2, RoomIsLast

LEMMA ViewKept ==
    ASSUME LogInv, NEW st, Grown(st), NEW v, NEW p \in Nat, ViewOK(v, p, hist)
    PROVE  ViewOK(v, p, st.hist)
  <1>1. v \in Core!Room /\ v.seq \in Nat /\ v.seq \in p .. Len(hist) - 1 /\ v = hist[v.seq + 1]
    BY RoomParts DEF ViewOK
  <1>2. v.seq + 1 \in 1 .. Len(hist) /\ v.seq \in p .. Len(st.hist) - 1
    BY SMTT(30), <1>1, GrownLengths
  <1>3. st.hist[v.seq + 1] = hist[v.seq + 1]
    BY <1>2 DEF Grown
  <1>. QED
    BY <1>1, <1>2, <1>3 DEF ViewOK

LEMMA GivenKept ==
    ASSUME LogInv, NEW st, Grown(st), NEW c, NEW p, NEW t, GivenOK(c, p, t, log, hist)
    PROVE  GivenOK(c, p, t, st.log, st.hist)
  <1>1. p \in 0 .. Len(log) /\ p \in 0 .. Len(st.log)
    BY GrownLengths DEF GivenOK
  <1>2. \A n \in 1 .. p : n \in 1 .. Len(log)
    BY <1>1, GrownLengths
  <1>3. \A n \in 1 .. p : Owed(c, n, st.log, st.hist) => Owed(c, n, log, hist)
    BY <1>2, OwedKept
  <1>. QED
    BY <1>1, <1>3 DEF GivenOK

LEMMA CompleteGrows ==
    ASSUME LogInv, NEW st, Grown(st), NEW c, NEW p \in 0 .. Len(log), NEW D \in Seq(Frame),
           Complete(c, D, p, log, hist), NEW F, Told(c, F, st)
    PROVE  Complete(c, D \o F, p, st.log, st.hist)
  <1>. DEFINE lo == Len(log)
              hi == Len(st.log)
              G == D \o F
  <1>1. /\ lo \in Nat /\ hi \in Nat /\ lo <= hi /\ p \in Nat /\ p <= lo
    BY GrownLengths
  <1>2. F \in Seq(Frame) /\ Ascends(F) /\ Within(F, lo, hi)
    BY DEF Told
  <1>3. Ascends(D) /\ Within(D, p, lo)
    BY DEF Complete
  <1>. HIDE DEF lo, hi
  <1>4. /\ Ascends(G) /\ Within(G, p, hi)
        /\ \A n : Brings(D, n) \/ Brings(F, n) => Brings(G, n)
    BY <1>1, <1>2, <1>3, FramesJoined
  <1>5. /\ Len(G) = Len(D) + Len(F) /\ Len(D) \in Nat /\ Len(F) \in Nat
        /\ \A j \in 1 .. Len(D) : G[j] = D[j]
        /\ \A j \in Len(D) + 1 .. Len(G) : G[j] = F[j - Len(D)]
    BY <1>2, Concatenated
  <1>. HIDE DEF G
  <1>6. ASSUME NEW n \in p + 1 .. hi, Owed(c, n, st.log, st.hist)
        PROVE  Brings(G, n)
    <2>1. CASE n \in 1 .. lo
      <3>1. Owed(c, n, log, hist)
        BY <1>6, <2>1, OwedKept DEF lo
      <3>2. n \in p + 1 .. lo
        BY <1>1, <2>1
      <3>3. Brings(D, n)
        BY <3>1, <3>2 DEF Complete, lo
      <3>. QED
        BY <1>4, <3>3
    <2>2. CASE n \in lo + 1 .. hi
      <3>1. st.hist[n + 1].status = st.room.status
        BY <2>2 DEF Grown, lo, hi
      <3>2. Recipient(c, st.room, st.log, n)
        BY <1>6, <3>1, SameStatus DEF Owed
      <3>3. Brings(F, n)
        BY <2>2, <3>2 DEF Told, lo, hi
      <3>. QED
        BY <1>4, <3>3
    <2>. QED
      BY <1>1, <2>1, <2>2
  <1>7. ASSUME NEW j \in 1 .. Len(G)
        PROVE  StateOK(G[j], j = 1, p, st.hist)
    <2>1. CASE j \in 1 .. Len(D)
      <3>1. StateOK(D[j], j = 1, p, hist) /\ G[j] = D[j]
        BY <1>5, <2>1 DEF Complete
      <3>2. ASSUME ViewOK(D[j].room, p, hist)
            PROVE  ViewOK(D[j].room, p, st.hist)
        BY <1>1, <3>2, ViewKept
      <3>. QED
        BY <3>1, <3>2 DEF StateOK
    <2>2. CASE j \notin 1 .. Len(D)
      <3>1. j \in Len(D) + 1 .. Len(G) /\ j - Len(D) \in 1 .. Len(F)
        BY <1>5, <2>2
      <3>2. G[j].type = "EVENTS"
        BY <1>5, <3>1 DEF Told
      <3>. QED
        BY <3>2 DEF StateOK
    <2>. QED
      BY <2>1, <2>2
  <1>. QED
    BY <1>4, <1>6, <1>7 DEF Complete, G, hi

LEMMA BroadcastOK ==
    ASSUME LogInv, GivenInv, NEW st, Grown(st), NEW ss, SocketsOK(ss, conn), StreamsOK(ss)
    PROVE  LET B == Broadcast(ss, st) IN
           /\ SocketsOK(B, conn)
           /\ \A c \in Readers : conn[c] > 0 =>
                 StreamOK(c, B[conn[c]], position[c], st.log, st.hist)
  <1>. DEFINE B == Broadcast(ss, st)
  <1>1. ss \in Seq(Socket) /\ Len(ss) \in Nat /\ DOMAIN ss = 1 .. Len(ss)
    BY DEF SocketsOK
  <1>2. \A i \in 1 .. Len(ss) :
           /\ B[i] \in Socket /\ B[i].client = ss[i].client /\ B[i].open = ss[i].open
           /\ B[i].live = ss[i].live /\ B[i].greeted = ss[i].greeted /\ B[i].up = ss[i].up
           /\ ~Reached(ss[i]) => B[i] = ss[i]
           /\ Reached(ss[i]) => \E F : B[i].down = ss[i].down \o F /\ Told(ss[i].client, F, st)
    <2>. TAKE i \in 1 .. Len(ss)
    <2>. QED
      BY ZenonT(30), <1>1, BroadcastOne
  <1>3. B = [i \in 1 .. Len(ss) |-> B[i]]
    BY <1>1 DEF Broadcast
  <1>. HIDE DEF B
  <1>4. B \in Seq(Socket) /\ Len(B) = Len(ss)
    <2>1. B \in [1 .. Len(ss) -> Socket]
      BY <1>2, <1>3
    <2>. QED
      BY <1>1, <2>1
  <1>5. SocketsOK(B, conn)
    <2>1. \A i \in 1 .. Len(B) : SocketOK(B[i], i, conn)
      BY <1>2, <1>4 DEF SocketsOK, SocketOK
    <2>2. ASSUME NEW c \in Clients, conn[c] > 0
          PROVE  conn[c] \in 1 .. Len(B) /\ B[conn[c]].live /\ B[conn[c]].client = c
      <3>1. conn[c] \in 1 .. Len(ss) /\ ss[conn[c]].live /\ ss[conn[c]].client = c
        BY <2>2 DEF SocketsOK
      <3>. QED
        BY <1>2, <1>4, <3>1
    <2>. QED
      BY <1>4, <2>1, <2>2 DEF SocketsOK
  <1>6. ASSUME NEW c \in Readers, conn[c] > 0
        PROVE  StreamOK(c, B[conn[c]], position[c], st.log, st.hist)
    <2>. DEFINE i == conn[c]
                s == ss[i]
                b == B[i]
                p == position[c]
    <2>1. i \in 1 .. Len(ss) /\ s.live /\ s.client = c /\ s.open /\ s \in Socket
      <3>1. i \in 1 .. Len(ss) /\ s.live /\ s.client = c
        BY <1>6 DEF SocketsOK, Clients
      <3>2. SocketOK(s, i, conn) /\ s \in Socket
        BY <1>1, <3>1 DEF SocketsOK
      <3>. QED
        BY <3>1, <3>2 DEF SocketOK
    <2>2. StreamOK(c, s, p, log, hist) /\ p \in 0 .. Len(log)
      BY <1>6 DEF StreamsOK, GivenInv, GivenOK
    <2>3. /\ b.greeted = s.greeted /\ b.up = s.up
          /\ ~Reached(s) => b = s
          /\ Reached(s) => \E F : b.down = s.down \o F /\ Told(c, F, st)
      BY <1>2, <2>1
    <2>. HIDE DEF i, s, b, p
    <2>4. CASE s.greeted
      <3>1. PICK F : b.down = s.down \o F /\ Told(c, F, st)
        BY <2>1, <2>3, <2>4 DEF Reached
      <3>2. Greeted(c, s, p, log, hist)
        BY <2>2, <2>4 DEF StreamOK
      <3>3. Complete(c, b.down, p, st.log, st.hist)
        BY <2>1, <2>2, <3>1, <3>2, CompleteGrows, SocketParts DEF Greeted
      <3>4. Greeted(c, b, p, st.log, st.hist)
        BY <2>3, <3>2, <3>3 DEF Greeted
      <3>. QED
        BY <2>3, <2>4, <3>4 DEF StreamOK, b, i, p
    <2>5. CASE ~s.greeted
      <3>1. b = s
        BY <2>3, <2>5 DEF Reached
      <3>. QED
        BY <2>2, <2>5, <3>1 DEF StreamOK, b, i, p
    <2>. QED
      BY <2>4, <2>5
  <1>. QED
    BY <1>5, <1>6 DEF B

\* The sockets after what a handler does besides appending.
Between(ss) == SocketsOK(ss, conn) /\ StreamsOK(ss)

ClientsStay == ClientsUnchanged /\ UNCHANGED moves

LEMMA CommitKeeps ==
    ASSUME HInv, NEW st, Grown(st), NEW ss, Between(ss), Commit(st, ss), ClientsStay, now' = now
    PROVE  HInv'
  <1>1. /\ log' = st.log /\ room' = st.room /\ hist' = st.hist /\ sockets' = Broadcast(ss, st)
        /\ alarm' = NextAlarm(st.room) /\ missed' = FALSE
    BY DEF Commit
  <1>2. /\ conn' = conn /\ pending' = pending /\ position' = position /\ taken' = taken
        /\ view' = view /\ moves' = moves
    BY DEF ClientsStay, ClientsUnchanged
  <1>3. LogInv /\ GivenInv /\ ClientsInv /\ now \in 0 .. MaxNow
    BY DEF HInv, WireInv, LogInv
  <1>4. Folds(st.log, st.hist) /\ st.room = st.hist[Len(st.hist)]
    BY DEF Grown
  <1>5. LogInv'
    BY <1>1, <1>3, <1>4 DEF LogInv
  <1>6. AlarmInv'
    <2>1. RoomOK(st.room)
      <3>1. Len(st.hist) \in 1 .. Len(st.hist)
        BY <1>3, GrownLengths
      <3>. QED
        BY <1>4, <3>1 DEF Folds
    <2>2. /\ NextAlarm(st.room) \in {Never} \cup 0 .. Latest
          /\ \A l \in st.room.leases : NextAlarm(st.room) # Never /\ NextAlarm(st.room) <= l.expiresAt
      BY <2>1, NextAlarmOK
    <2>. QED
      BY <1>1, <2>2 DEF AlarmInv, AlarmCovers
  <1>7. /\ SocketsOK(Broadcast(ss, st), conn)
        /\ \A c \in Readers : conn[c] > 0 =>
              StreamOK(c, Broadcast(ss, st)[conn[c]], position[c], st.log, st.hist)
    BY <1>3, BroadcastOK DEF Between
  <1>8. WireInv'
    <2>1. ClientsInv'
      BY <1>2, <1>3 DEF ClientsInv
    <2>. QED
      BY <1>1, <1>2, <1>7, <2>1 DEF WireInv
  <1>9. GivenInv'
    <2>1. \A c \in Readers : GivenOK(c, position[c], taken[c], st.log, st.hist)
      BY <1>3, GivenKept DEF GivenInv
    <2>2. ASSUME NEW w \in Dashboards
          PROVE  ViewOK(view[w], position[w], st.hist)
      <3>0. w \in Readers
        BY DEF Readers
      <3>1. ViewOK(view[w], position[w], hist) /\ position[w] \in 0 .. Len(log)
        BY <1>3, <3>0 DEF GivenInv, GivenOK
      <3>. QED
        BY <1>3, <3>1, ViewKept
    <2>. QED
      BY <1>1, <1>2, <1>3, <2>1, <2>2 DEF GivenInv
  <1>10. StreamsOK(sockets)'
    BY <1>1, <1>2, <1>7 DEF StreamsOK
  <1>. QED
    BY <1>5, <1>6, <1>8, <1>9, <1>10 DEF HInv

\* A step that appends nothing.
LEMMA QuietKeeps ==
    ASSUME HInv, Unchanged, ClientsStay, now' \in 0 .. MaxNow, Between(sockets')
    PROVE  HInv'
  <1>1. /\ log' = log /\ room' = room /\ hist' = hist /\ alarm' = alarm /\ missed' = missed
    BY DEF Unchanged
  <1>2. /\ conn' = conn /\ pending' = pending /\ position' = position /\ taken' = taken
        /\ view' = view /\ moves' = moves
    BY DEF ClientsStay, ClientsUnchanged
  <1>3. LogInv' /\ AlarmInv' /\ GivenInv' /\ ClientsInv'
    BY <1>1, <1>2 DEF HInv, LogInv, AlarmInv, AlarmCovers, GivenInv, WireInv, ClientsInv
  <1>. QED
    BY <1>1, <1>2, <1>3 DEF HInv, WireInv, Between, StreamsOK

LEMMA SocketAt ==
    ASSUME HInv, NEW c \in Clients, conn[c] > 0
    PROVE  LET i == conn[c] IN
           /\ i \in 1 .. Len(sockets) /\ sockets[i] \in Socket
           /\ sockets[i].live /\ sockets[i].open /\ sockets[i].client = c
           /\ SocketOK(sockets[i], i, conn)
           /\ c \in Readers =>
                 /\ StreamOK(c, sockets[i], position[c], log, hist)
                 /\ GivenOK(c, position[c], taken[c], log, hist) /\ position[c] \in Nat
  <1>. DEFINE i == conn[c]
  <1>1. SocketsOK(sockets, conn) /\ GivenInv /\ LogInv
    BY DEF HInv, WireInv
  <1>2. i \in 1 .. Len(sockets) /\ sockets[i].live /\ sockets[i].client = c
    BY <1>1 DEF SocketsOK
  <1>3. SocketOK(sockets[i], i, conn) /\ sockets[i] \in Socket
    BY <1>1, <1>2 DEF SocketsOK
  <1>4. ASSUME c \in Readers
        PROVE  /\ StreamOK(c, sockets[i], position[c], log, hist)
               /\ GivenOK(c, position[c], taken[c], log, hist) /\ position[c] \in Nat
    <2>1. GivenOK(c, position[c], taken[c], log, hist) /\ Len(log) \in Nat
      BY <1>1, <1>4, RoomIsLast DEF GivenInv
    <2>. QED
      BY <1>4, <2>1 DEF HInv, StreamsOK, GivenOK
  <1>. QED
    BY <1>2, <1>3, <1>4 DEF SocketOK

\* One socket changes, which goes on being its client's.
LEMMA SameOwner ==
    ASSUME HInv, NEW i \in 1 .. Len(sockets), NEW x \in Socket, SocketOK(x, i, conn),
           x.client = sockets[i].client, x.live = sockets[i].live
    PROVE  LET ss == [sockets EXCEPT ![i] = x] IN
           /\ SocketsOK(ss, conn)
           /\ ss[i] = x /\ \A k \in 1 .. Len(sockets) : k # i => ss[k] = sockets[k]
  <1>. DEFINE ss == [sockets EXCEPT ![i] = x]
  <1>1. SocketsOK(sockets, conn)
    BY DEF HInv, WireInv
  <1>2. sockets \in Seq(Socket)
    BY <1>1 DEF SocketsOK
  <1>3. ss \in Seq(Socket) /\ Len(ss) = Len(sockets) /\ ss[i] = x
        /\ \A k \in 1 .. Len(sockets) : k # i => ss[k] = sockets[k]
    BY <1>2
  <1>. HIDE DEF ss
  <1>4. \A k \in 1 .. Len(ss) : SocketOK(ss[k], k, conn)
    BY <1>1, <1>3 DEF SocketsOK
  <1>5. ASSUME NEW c \in Clients, conn[c] > 0
        PROVE  conn[c] \in 1 .. Len(ss) /\ ss[conn[c]].live /\ ss[conn[c]].client = c
    BY <1>1, <1>3, <1>5 DEF SocketsOK
  <1>. QED
    BY <1>3, <1>4, <1>5 DEF SocketsOK, ss

LEMMA OneSocket ==
    ASSUME HInv, NEW i \in 1 .. Len(sockets), NEW x \in Socket, SocketOK(x, i, conn),
           x.client = sockets[i].client, x.live = sockets[i].live,
           \A c \in Readers : conn[c] = i => StreamOK(c, x, position[c], log, hist)
    PROVE  Between([sockets EXCEPT ![i] = x])
  <1>. DEFINE ss == [sockets EXCEPT ![i] = x]
  <1>1. SocketsOK(sockets, conn) /\ StreamsOK(sockets)
    BY DEF HInv, WireInv
  <1>2. /\ SocketsOK(ss, conn) /\ ss[i] = x
        /\ \A k \in 1 .. Len(sockets) : k # i => ss[k] = sockets[k]
    BY SameOwner
  <1>. HIDE DEF ss
  <1>3. ASSUME NEW c \in Readers, conn[c] > 0
        PROVE  StreamOK(c, ss[conn[c]], position[c], log, hist)
    <2>1. conn[c] \in 1 .. Len(sockets) /\ StreamOK(c, sockets[conn[c]], position[c], log, hist)
      BY <1>1, <1>3 DEF SocketsOK, StreamsOK, Clients
    <2>. QED
      BY <1>2, <2>1
  <1>. QED
    BY <1>2, <1>3 DEF Between, StreamsOK, ss

-----------------------------------------------------------------------------
(***************************************************************************)
(* The object's handlers.                                                  *)
(***************************************************************************)
LEMMA TailParts ==
    ASSUME NEW S, NEW s \in Seq(S), s # <<>>
    PROVE  /\ Tail(s) \in Seq(S) /\ Len(s) \in Nat /\ Len(Tail(s)) = Len(s) - 1
           /\ Head(s) = s[1] /\ 1 \in 1 .. Len(s) /\ s[1] \in S
           /\ \A k \in 1 .. Len(s) - 1 : Tail(s)[k] = s[k + 1] /\ k + 1 \in 2 .. Len(s)
  OBVIOUS

LEMMA AnswerOK ==
    ASSUME LogInv, NEW c, NEW p \in 0 .. Len(log), NEW D \in Seq(Frame),
           Complete(c, D, p, log, hist), NEW a \in Answers
    PROVE  D \o <<a>> \in Seq(Frame) /\ Complete(c, D \o <<a>>, p, log, hist)
  <1>. DEFINE F == <<a>>
              G == D \o F
              L == Len(log)
  <1>1. a \in Frame /\ a.type \in {"ACK", "ERROR"} /\ a.events = <<>>
    BY DEF Answers
  <1>2. F \in Seq(Frame) /\ Len(F) = 1 /\ F[1] = a
    BY <1>1
  <1>3. \A k \in 1 .. Len(F) : F[k] = a /\ Len(F[k].events) = 0
    BY <1>1, <1>2
  <1>. HIDE DEF F
  <1>4. Ascends(F) /\ Within(F, L, L)
    <2>1. \A k \in 1 .. Len(F) : 1 .. Len(F[k].events) = {}
      BY <1>3
    <2>. QED
      BY <2>1 DEF Ascends, Within
  <1>5. L \in Nat /\ p \in Nat /\ p <= L
    BY RoomIsLast
  <1>. HIDE DEF L
  <1>6. Ascends(D) /\ Within(D, p, L)
    BY DEF Complete, L
  <1>7. /\ Ascends(G) /\ Within(G, p, L)
        /\ \A n : Brings(D, n) \/ Brings(F, n) => Brings(G, n)
    BY <1>2, <1>4, <1>5, <1>6, FramesJoined
  <1>8. /\ G \in Seq(Frame) /\ Len(G) = Len(D) + 1 /\ Len(D) \in Nat
        /\ \A j \in 1 .. Len(D) : G[j] = D[j]
        /\ G[Len(D) + 1] = a
    <2>1. /\ G \in Seq(Frame) /\ Len(G) = Len(D) + Len(F) /\ Len(D) \in Nat
          /\ \A j \in 1 .. Len(D) : G[j] = D[j]
          /\ \A j \in 1 .. Len(F) : G[Len(D) + j] = F[j]
      BY <1>2, Concatenated
    <2>2. 1 \in 1 .. Len(F)
      BY <1>2
    <2>. QED
      BY <1>2, <2>1, <2>2
  <1>. HIDE DEF G
  <1>9. ASSUME NEW j \in 1 .. Len(G)
        PROVE  StateOK(G[j], j = 1, p, hist)
    <2>1. CASE j \in 1 .. Len(D)
      BY <1>8, <2>1 DEF Complete
    <2>2. CASE j = Len(D) + 1
      BY <1>1, <1>8, <2>2 DEF StateOK
    <2>. QED
      BY <1>8, <2>1, <2>2
  <1>10. \A n \in p + 1 .. L : Owed(c, n, log, hist) => Brings(G, n)
    BY <1>7 DEF Complete, L
  <1>. QED
    BY <1>7, <1>8, <1>9, <1>10 DEF Complete, L, G, F

\* A greeted socket's message is taken off, and perhaps answered.
LEMMA AnsweredOK ==
    ASSUME HInv, NEW i \in 1 .. Len(sockets), sockets[i].greeted, sockets[i].up # <<>>
    PROVE  /\ Between(TakenOff(i))
           /\ \A a \in Answers : Between(Reply(TakenOff(i), i, <<a>>))
  <1>. DEFINE s == sockets[i]
              u == Tail(s.up)
              x == [s EXCEPT !.up = u]
  <1>1. SocketsOK(sockets, conn) /\ LogInv /\ sockets \in Seq(Socket)
    BY DEF HInv, WireInv, SocketsOK
  <1>2. s \in Socket /\ SocketOK(s, i, conn) /\ s.up \in Seq(Messages) /\ s.down \in Seq(Frame)
        /\ s.live \in BOOLEAN
    BY <1>1, SocketParts DEF SocketsOK
  <1>3. /\ u \in Seq(Messages) /\ Len(s.up) \in Nat /\ Len(u) = Len(s.up) - 1
        /\ \A k \in 1 .. Len(s.up) - 1 : u[k] = s.up[k + 1] /\ k + 1 \in 2 .. Len(s.up)
    BY <1>2, TailParts
  <1>. HIDE DEF u
  <1>4. /\ x \in Socket /\ x.client = s.client /\ x.open = s.open /\ x.live = s.live
        /\ x.greeted = s.greeted /\ x.up = u /\ x.down = s.down
    BY <1>2, <1>3, UpSet
  <1>. HIDE DEF x
  <1>5. \A k \in 1 .. Len(u) : k + 1 \in 1 .. Len(s.up) /\ u[k] = s.up[k + 1]
    BY <1>3
  <1>6. SocketOK(x, i, conn)
    BY <1>2, <1>4, <1>5 DEF SocketOK
  <1>7. ASSUME NEW c \in Readers, conn[c] = i
        PROVE  /\ Greeted(c, s, position[c], log, hist) /\ position[c] \in 0 .. Len(log)
               /\ \A k \in 1 .. Len(u) : u[k].type # "HELLO"
    <2>1. StreamOK(c, s, position[c], log, hist) /\ position[c] \in 0 .. Len(log)
      <3>1. c \in Clients /\ conn[c] > 0
        BY <1>7 DEF Clients
      <3>. QED
        BY <1>7, <3>1, SocketAt DEF GivenOK
    <2>2. Greeted(c, s, position[c], log, hist)
      BY <2>1 DEF StreamOK
    <2>. QED
      BY <1>5, <2>1, <2>2 DEF Greeted
  <1>8. \A c \in Readers : conn[c] = i => StreamOK(c, x, position[c], log, hist)
    BY <1>4, <1>7 DEF StreamOK, Greeted
  <1>9. TakenOff(i) = [sockets EXCEPT ![i] = x]
    BY <1>1 DEF TakenOff, x, u
  <1>10. Between(TakenOff(i))
    BY <1>4, <1>6, <1>8, <1>9, OneSocket
  <1>11. ASSUME NEW a \in Answers
         PROVE  Between(Reply(TakenOff(i), i, <<a>>))
    <2>. DEFINE D == s.down \o <<a>>
                y == [x EXCEPT !.down = D]
    <2>1. TakenOff(i)[i] = x
      BY <1>1, <1>9
    <2>2. CASE ~s.live
      BY <1>4, <1>10, <2>1, <2>2 DEF Reply
    <2>3. CASE s.live
      <3>1. D \in Seq(Frame)
        <4>1. a \in Frame
          BY DEF Answers
        <4>2. <<a>> \in Seq(Frame)
          BY <4>1
        <4>. QED
          BY <1>2, <4>2, Concatenated
      <3>. HIDE DEF D
      <3>2. /\ y \in Socket /\ y.client = x.client /\ y.open = x.open /\ y.live = x.live
            /\ y.greeted = x.greeted /\ y.up = x.up /\ y.down = D
        BY <1>4, <3>1, DownSet
      <3>. HIDE DEF y
      <3>3. SocketOK(y, i, conn)
        BY <1>6, <3>2 DEF SocketOK
      <3>4. ASSUME NEW c \in Readers, conn[c] = i
            PROVE  StreamOK(c, y, position[c], log, hist)
        <4>1. Complete(c, s.down, position[c], log, hist)
          BY <1>7, <3>4 DEF Greeted
        <4>2. Complete(c, D, position[c], log, hist)
          BY <1>1, <1>2, <1>7, <3>4, <4>1, AnswerOK DEF D
        <4>. QED
          BY <1>4, <1>7, <3>2, <3>4, <4>2 DEF StreamOK, Greeted
      <3>5. Reply(TakenOff(i), i, <<a>>) = [sockets EXCEPT ![i] = y]
        <4>1. Reply(TakenOff(i), i, <<a>>) = [TakenOff(i) EXCEPT ![i].down = @ \o <<a>>]
          BY <1>4, <2>1, <2>3 DEF Reply
        <4>2. @ = [TakenOff(i) EXCEPT ![i] = y]
          BY <1>4, <2>1 DEF y, D
        <4>3. @ = [sockets EXCEPT ![i] = y]
          BY <1>1, <1>9
        <4>. QED
          BY <4>1, <4>2, <4>3
      <3>. QED
        BY <1>4, <3>2, <3>3, <3>4, <3>5, OneSocket
    <2>. QED
      BY <1>2, <2>2, <2>3
  <1>. QED
    BY <1>10, <1>11

\* What an open socket's next message is.
LEMMA Received ==
    ASSUME HInv, NEW i, NEW type, Receives(i, type)
    PROVE  /\ i \in 1 .. Len(sockets) /\ sockets[i].up # <<>> /\ sockets[i] \in Socket
           /\ Incoming(i) = sockets[i].up[1] /\ Incoming(i) \in Messages
           /\ 1 \in 1 .. Len(sockets[i].up)
           /\ Incoming(i).type = type /\ SocketOK(sockets[i], i, conn)
  <1>1. SocketsOK(sockets, conn) /\ sockets \in Seq(Socket)
    BY DEF HInv, WireInv, SocketsOK
  <1>2. i \in 1 .. Len(sockets) /\ sockets[i].up # <<>> /\ Incoming(i).type = type
    BY <1>1 DEF Receives, Open
  <1>3. sockets[i] \in Socket /\ SocketOK(sockets[i], i, conn)
    BY <1>1, <1>2 DEF SocketsOK
  <1>4. sockets[i].up \in Seq(Messages)
    BY <1>3, SocketParts
  <1>5. /\ Head(sockets[i].up) = sockets[i].up[1] /\ sockets[i].up[1] \in Messages
        /\ 1 \in 1 .. Len(sockets[i].up)
    BY <1>2, <1>4, TailParts
  <1>. QED
    BY <1>2, <1>3, <1>5 DEF Incoming

LEMMA MessageParts ==
    ASSUME NEW m \in Messages
    PROVE  m.event \in Submittable /\ m.event \in Entries /\ m.from \in Nat
  BY DEF Messages, Submittable

\* A submit is logged, or it is only answered, and that with an ERROR when it has
\* been refused.
Replied(i, a) == Reply(TakenOff(i), i, <<a>>)

LEMMA SubmitCases ==
    ASSUME NEW i, OnSubmit(i)
    PROVE  LET e == Incoming(i).event IN
           \/ Known(e) /\ sockets' = Replied(i, Ack(e)) /\ refused' = refused /\ Unchanged
           \/ ~Known(e) /\ Commit(Submitted(e), Replied(i, Ack(e))) /\ refused' = refused
           \/ sockets' = Replied(i, Error(e)) /\ refused' = refused \cup {e.id} /\ Unchanged
  BY Zenon DEF OnSubmit, Replied

LEMMA OnSubmitKeeps ==
    ASSUME HInv, NEW i, OnSubmit(i)
    PROVE  HInv'
  <1>. DEFINE e == Incoming(i).event
              ss == Replied(i, Ack(e))
              tt == Replied(i, Error(e))
  <1>1. /\ i \in 1 .. Len(sockets) /\ sockets[i].up # <<>> /\ sockets[i].greeted
        /\ e \in Submittable /\ e \in Entries
    BY Received, MessageParts DEF OnSubmit
  <1>2. ClientsStay /\ now' = now
    BY DEF OnSubmit, ClientsStay
  <1>3. \/ sockets' = ss /\ Unchanged
        \/ sockets' = tt /\ Unchanged
        \/ Commit(Submitted(e), ss)
    BY SubmitCases
  <1>. HIDE DEF e
  <1>4. Between(ss) /\ Between(tt)
    BY <1>1, AnsweredOK, AnswersAre DEF Replied
  <1>. HIDE DEF ss, tt
  <1>5. LogInv /\ now \in 0 .. MaxNow
    BY DEF HInv, LogInv
  <1>6. CASE (sockets' = ss \/ sockets' = tt) /\ Unchanged
    BY <1>2, <1>4, <1>5, <1>6, QuietKeeps
  <1>7. CASE Commit(Submitted(e), ss)
    <2>1. Grown(Submitted(e))
      BY <1>1, <1>5, SubmittedGrows
    <2>. QED
      BY <1>2, <1>4, <1>7, <2>1, CommitKeeps
  <1>. QED
    BY <1>3, <1>6, <1>7

LEMMA OnHeartbeatKeeps ==
    ASSUME HInv, NEW i, OnHeartbeat(i)
    PROVE  HInv'
  <1>. DEFINE s == SessionOf[sockets[i].client]
              ss == TakenOff(i)
  <1>1. /\ i \in 1 .. Len(sockets) /\ sockets[i].up # <<>> /\ sockets[i].greeted
        /\ sockets[i].up[1].type = "HEARTBEAT" /\ 1 \in 1 .. Len(sockets[i].up)
        /\ SocketOK(sockets[i], i, conn)
    BY Received DEF OnHeartbeat
  <1>2. ClientsStay /\ now' = now
    BY DEF OnHeartbeat, ClientsStay
  <1>3. \/ sockets' = ss /\ Unchanged
        \/ Commit(Appended(<<Core!Beat(s)>>), ss)
    BY DEF OnHeartbeat
  <1>4. s \in Sessions
    BY <1>1 DEF SocketOK, Sessions
  <1>. HIDE DEF s
  <1>5. Between(ss)
    BY <1>1, AnsweredOK
  <1>. HIDE DEF ss
  <1>6. LogInv /\ now \in 0 .. MaxNow
    BY DEF HInv, LogInv
  <1>7. CASE sockets' = ss /\ Unchanged
    BY <1>2, <1>5, <1>6, <1>7, QuietKeeps
  <1>8. CASE Commit(Appended(<<Core!Beat(s)>>), ss)
    <2>1. Grown(Appended(<<Core!Beat(s)>>))
      BY <1>4, <1>6, BeatGrows
    <2>. QED
      BY <1>2, <1>5, <1>8, <2>1, CommitKeeps
  <1>. QED
    BY <1>3, <1>7, <1>8

\* The object lets go of a socket its client is no longer at.
LEMMA DroppedOK ==
    ASSUME HInv, NEW i \in 1 .. Len(sockets), ~sockets[i].live
    PROVE  /\ Between([sockets EXCEPT ![i].open = FALSE])
           /\ Between([sockets EXCEPT ![i].open = FALSE, ![i].up = <<>>])
  <1>. DEFINE s == sockets[i]
              x == [s EXCEPT !.open = FALSE]
              y == [x EXCEPT !.up = <<>>]
  <1>1. SocketsOK(sockets, conn) /\ sockets \in Seq(Socket)
    BY DEF HInv, WireInv, SocketsOK
  <1>2. s \in Socket /\ SocketOK(s, i, conn)
    BY <1>1 DEF SocketsOK
  <1>3. FALSE \in BOOLEAN /\ <<>> \in Seq(Messages)
    OBVIOUS
  <1>4. [sockets EXCEPT ![i].open = FALSE] = [sockets EXCEPT ![i] = x]
    BY <1>1
  <1>5. [sockets EXCEPT ![i].open = FALSE, ![i].up = <<>>] = [sockets EXCEPT ![i] = y]
    BY <1>1
  <1>6. /\ x \in Socket /\ x.client = s.client /\ x.live = s.live /\ x.up = s.up
    BY <1>2, <1>3, OpenSet
  <1>. HIDE DEF x
  <1>7. /\ y \in Socket /\ y.client = x.client /\ y.live = x.live /\ y.up = <<>>
    BY <1>3, <1>6, UpSet
  <1>. HIDE DEF y
  <1>8. SocketOK(x, i, conn) /\ SocketOK(y, i, conn)
    BY <1>2, <1>6, <1>7 DEF SocketOK
  <1>9. \A c \in Readers : conn[c] # i
    BY SocketAt DEF Clients
  <1>10. Between([sockets EXCEPT ![i] = x])
    BY <1>6, <1>8, <1>9, OneSocket
  <1>11. Between([sockets EXCEPT ![i] = y])
    <2>1. y.client = sockets[i].client /\ y.live = sockets[i].live
      BY <1>6, <1>7
    <2>. QED
      BY <1>7, <1>8, <1>9, <2>1, OneSocket
  <1>. QED
    BY <1>4, <1>5, <1>10, <1>11

LEMMA OnCloseKeeps ==
    ASSUME HInv, NEW i, OnClose(i)
    PROVE  HInv'
  <1>. DEFINE held == {l \in room.leases : l.session = SessionOf[sockets[i].client]}
              ss == [sockets EXCEPT ![i].open = FALSE]
  <1>1. sockets \in Seq(Socket) /\ LogInv /\ now \in 0 .. MaxNow
    BY DEF HInv, WireInv, SocketsOK, LogInv
  <1>2. i \in 1 .. Len(sockets) /\ ~sockets[i].live
    BY <1>1 DEF OnClose, Open
  <1>3. ClientsStay /\ now' = now
    BY DEF OnClose, ClientsStay
  <1>4. \/ sockets' = ss /\ Unchanged
        \/ Commit(Expire(held, "disconnect"), ss)
    BY DEF OnClose
  <1>5. held \in SUBSET room.leases
    OBVIOUS
  <1>. HIDE DEF held
  <1>6. Between(ss)
    BY <1>2, DroppedOK
  <1>. HIDE DEF ss
  <1>7. CASE sockets' = ss /\ Unchanged
    BY <1>1, <1>3, <1>6, <1>7, QuietKeeps
  <1>8. CASE Commit(Expire(held, "disconnect"), ss)
    <2>1. Grown(Expire(held, "disconnect"))
      BY <1>1, <1>5, ExpireGrows
    <2>. QED
      BY <1>3, <1>6, <1>8, <2>1, CommitKeeps
  <1>. QED
    BY <1>4, <1>7, <1>8

LEMMA OnErrorKeeps ==
    ASSUME HInv, NEW i, OnError(i)
    PROVE  HInv'
  <1>1. sockets \in Seq(Socket) /\ now \in 0 .. MaxNow
    BY DEF HInv, WireInv, SocketsOK, LogInv
  <1>2. i \in 1 .. Len(sockets) /\ ~sockets[i].live
    BY <1>1 DEF OnError, Open
  <1>3. ClientsStay /\ now' = now /\ Unchanged
    BY DEF OnError, ClientsStay
  <1>4. Between(sockets')
    BY <1>2, DroppedOK DEF OnError
  <1>. QED
    BY <1>1, <1>3, <1>4, QuietKeeps

LEMMA AlarmKeeps ==
    ASSUME HInv, Alarm
    PROVE  HInv'
  <1>1. LogInv /\ Between(sockets) /\ ClientsStay /\ now' = now
    BY DEF HInv, WireInv, Between, Alarm, ClientsStay
  <1>2. CASE Open = {}
    <2>1. alarm' = Never /\ missed' = TRUE /\ UNCHANGED <<log, room, hist, sockets>>
      BY <1>2 DEF Alarm
    <2>. QED
      BY <1>1, <2>1 DEF HInv, LogInv, AlarmInv, AlarmCovers, WireInv, ClientsInv, GivenInv,
                        StreamsOK, ClientsStay, ClientsUnchanged
  <1>3. CASE Commit(Expire(Core!Due, "ttl"), sockets)
    <2>1. Core!Due \in SUBSET room.leases
      BY DEF Core!Due
    <2>2. Grown(Expire(Core!Due, "ttl"))
      BY <1>1, <2>1, ExpireGrows
    <2>. QED
      BY <1>1, <1>3, <2>2, CommitKeeps
  <1>. QED
    BY <1>2, <1>3 DEF Alarm

LEMMA TickKeeps ==
    ASSUME HInv, Tick
    PROVE  HInv'
  <1>1. now \in 0 .. MaxNow /\ MaxNow \in Nat /\ Between(sockets)
    BY Numbers DEF HInv, LogInv, WireInv, Between
  <1>2. now' \in 0 .. MaxNow /\ ClientsStay /\ Unchanged /\ sockets' = sockets
    BY <1>1 DEF Tick, ClientsStay
  <1>. QED
    BY <1>1, <1>2, QuietKeeps

LEMMA Multiples ==
    ASSUME NEW R \in Nat, R > 0
    PROVE  /\ \A k \in Nat : k * R \in Nat /\ k <= k * R
           /\ \A j \in Nat, k \in Nat : j < k => j * R <= (k - 1) * R
  <1>1. ASSUME NEW k \in Nat
        PROVE  k * R \in Nat /\ k <= k * R
    OBVIOUS
  <1>2. ASSUME NEW j \in Nat, NEW k \in Nat, j < k
        PROVE  j * R <= (k - 1) * R
    <2>. DEFINE m == k - 1 - j
    <2>1. m \in Nat /\ k - 1 = j + m
      BY <1>2
    <2>. HIDE DEF m
    <2>2. (j + m) * R = j * R + m * R
      BY <2>1
    <2>3. j * R \in Nat /\ m * R \in Nat
      BY <1>1, <2>1
    <2>. QED
      BY <2>1, <2>2, <2>3
  <1>. QED
    BY <1>1, <1>2

\* A finite set of numbers as a sequence of them.
LEMMA AscendingSeq ==
    ASSUME NEW n \in Nat, NEW I \in SUBSET (1 .. n)
    PROVE  LET q == Ascending(I) IN
           /\ q \in Seq(Nat) /\ Len(q) \in Nat /\ DOMAIN q = 1 .. Len(q)
           /\ \A k \in 1 .. Len(q) : q[k] \in I
           /\ \A j, k \in 1 .. Len(q) : j < k => q[j] < q[k]
           /\ \A i \in I : \E k \in 1 .. Len(q) : q[k] = i
  <1>. DEFINE q == Ascending(I)
              c == Cardinality(I)
  <1>1. /\ c \in Nat /\ q \in [1 .. c -> I]
        /\ \A j, k \in 1 .. c : j < k => q[j] < q[k]
        /\ \A i \in I : \E k \in 1 .. c : q[k] = i
    BY AscendingFacts DEF Increasing
  <1>2. \A i \in I : i \in Nat
    OBVIOUS
  <1>. HIDE DEF q, c
  <1>3. q \in [1 .. c -> Nat]
    BY <1>1, <1>2
  <1>4. q \in Seq(Nat) /\ Len(q) = c /\ DOMAIN q = 1 .. c
    BY <1>1, <1>3
  <1>. QED
    BY <1>1, <1>4 DEF q

LEMMA ReplayOK ==
    ASSUME LogInv, NEW c, NEW from \in 0 .. Len(log)
    PROVE  LET F == Replay(c, from) IN
           /\ F \in Seq(Frame) /\ Ascends(F) /\ Within(F, from, Len(log))
           /\ \A k \in 1 .. Len(F) : F[k].type = "EVENTS" /\ F[k].id = 0
           /\ \A n \in from + 1 .. Len(log) : CanSee(c, log[n]) => Brings(F, n)
  <1>. DEFINE L == Len(log)
              R == ReplayBatch
              Bat(k) == Batch(c, from, k)
              B == {k \in 1 .. L : Bat(k) # {}}
              q == Ascending(B)
              E(k) == Ascending(Bat(k))
              F == Replay(c, from)
  <1>1. L \in Nat /\ room.seq = L /\ from \in Nat /\ from <= L /\ R \in Nat /\ R > 0
    BY RoomIsLast, Numbers
  <1>2. F = [k \in DOMAIN q |-> Events(E(q[k]))]
    <2>1. F = EventsSince(c, from)
      BY <1>1 DEF Replay
    <2>. QED
      BY <2>1 DEF EventsSince
  <1>. HIDE DEF R, L, F
  <1>3. /\ q \in Seq(Nat) /\ Len(q) \in Nat /\ DOMAIN q = 1 .. Len(q)
        /\ \A k \in 1 .. Len(q) : q[k] \in B
        /\ \A j, k \in 1 .. Len(q) : j < k => q[j] < q[k]
        /\ \A i \in B : \E k \in 1 .. Len(q) : q[k] = i
    <2>1. B \in SUBSET (1 .. L)
      OBVIOUS
    <2>. HIDE DEF B
    <2>. QED
      BY <1>1, <2>1, AscendingSeq
  <1>4. \A k \in B : k \in 1 .. L /\ k \in Nat /\ k - 1 \in Nat
    BY <1>1
  <1>5. ASSUME NEW k \in Nat, k > 0
        PROVE  /\ k * R \in Nat /\ (k - 1) * R \in Nat /\ k <= k * R
               /\ Bat(k) \in SUBSET (from + 1 .. L) /\ Bat(k) \in SUBSET (1 .. L)
               /\ \A n \in Bat(k) : from + (k - 1) * R < n /\ n <= from + k * R /\ n \in Nat
    <2>1. k * R \in Nat /\ (k - 1) * R \in Nat /\ k <= k * R
      BY <1>1, <1>5, Multiples
    <2>. DEFINE u == k * R
                v == (k - 1) * R
    <2>2. Bat(k) = {n \in from + v + 1 .. (IF from + u < L THEN from + u ELSE L) : CanSee(c, log[n])}
      BY DEF Batch, R, L
    <2>3. u \in Nat /\ v \in Nat
      BY <2>1
    <2>. HIDE DEF u, v, Bat
    <2>4. \A n \in Bat(k) : /\ n \in from + 1 .. L /\ n \in 1 .. L
                              /\ from + v < n /\ n <= from + u /\ n \in Nat
      BY <1>1, <2>2, <2>3
    <2>. QED
      BY <2>1, <2>4 DEF u, v
  <1>. HIDE DEF Bat
  <1>6. ASSUME NEW k \in B
        PROVE  /\ E(k) \in Seq(Nat) /\ Len(E(k)) \in Nat
               /\ \A a \in 1 .. Len(E(k)) : E(k)[a] \in Bat(k)
               /\ \A a, b \in 1 .. Len(E(k)) : a < b => E(k)[a] < E(k)[b]
               /\ \A n \in Bat(k) : \E a \in 1 .. Len(E(k)) : E(k)[a] = n
    <2>1. Bat(k) \in SUBSET (1 .. L)
      BY <1>4, <1>5
    <2>. QED
      BY <1>1, <2>1, AscendingSeq
  <1>. HIDE DEF B, q, E
  <1>7. /\ F \in Seq(Frame) /\ Len(F) = Len(q)
        /\ \A k \in 1 .. Len(F) : /\ k \in 1 .. Len(q) /\ q[k] \in B
                                  /\ F[k].type = "EVENTS" /\ F[k].events = E(q[k]) /\ F[k].id = 0
    <2>1. ASSUME NEW k \in 1 .. Len(q)
          PROVE  /\ Events(E(q[k])) \in Frame /\ Events(E(q[k])).type = "EVENTS"
                 /\ Events(E(q[k])).events = E(q[k]) /\ Events(E(q[k])).id = 0
      <3>1. E(q[k]) \in Seq(Nat)
        BY <1>3, <1>6
      <3>. QED
        BY <3>1, FramesMade
    <2>2. F \in [1 .. Len(q) -> Frame]
      BY <1>2, <1>3, <2>1
    <2>3. F \in Seq(Frame) /\ Len(F) = Len(q)
      BY <1>3, <2>2
    <2>. QED
      BY <1>2, <1>3, <2>1, <2>3
  <1>8. ASSUME NEW j \in 1 .. Len(F), NEW a \in 1 .. Len(F[j].events)
        PROVE  /\ F[j].events[a] \in Bat(q[j]) /\ F[j].events[a] \in from + 1 .. L
               /\ a \in 1 .. Len(E(q[j])) /\ F[j].events[a] = E(q[j])[a]
               /\ F[j].events[a] \in Nat
    <2>1. q[j] \in B /\ F[j].events = E(q[j])
      BY <1>7
    <2>2. F[j].events[a] \in Bat(q[j])
      BY <1>6, <2>1
    <2>3. Bat(q[j]) \in SUBSET (from + 1 .. L)
      BY <1>1, <1>4, <1>5, <2>1
    <2>. QED
      BY <1>1, <2>1, <2>2, <2>3
  <1>9. Within(F, from, L)
    BY <1>8 DEF Within
  <1>10. Ascends(F)
    <2>. SUFFICES ASSUME NEW j \in 1 .. Len(F), NEW k \in 1 .. Len(F),
                         NEW a \in 1 .. Len(F[j].events), NEW b \in 1 .. Len(F[k].events),
                         j < k \/ (j = k /\ a < b)
                  PROVE  F[j].events[a] < F[k].events[b]
      BY DEF Ascends
    <2>1. CASE j = k /\ a < b
      BY <1>6, <1>7, <1>8, <2>1
    <2>2. CASE j < k
      <3>. DEFINE m == q[j]
                  n == q[k]
                  x == F[j].events[a]
                  y == F[k].events[b]
      <3>1. m < n /\ m \in B /\ n \in B /\ x \in Bat(m) /\ y \in Bat(n)
        BY <1>3, <1>7, <1>8, <2>2
      <3>. HIDE DEF m, n, x, y
      <3>2. /\ m \in Nat /\ n \in Nat /\ m > 0 /\ n > 0
        BY <1>4, <3>1
      <3>3. x <= from + m * R /\ from + (n - 1) * R < y /\ x \in Nat /\ y \in Nat
            /\ m * R \in Nat /\ (n - 1) * R \in Nat
        BY <1>5, <3>1, <3>2
      <3>4. m * R <= (n - 1) * R
        BY <1>1, <3>1, <3>2, Multiples
      <3>. DEFINE u == m * R
                  v == (n - 1) * R
      <3>5. x <= from + u /\ from + v < y /\ u <= v /\ u \in Nat /\ v \in Nat /\ x \in Nat /\ y \in Nat
        BY <3>3, <3>4
      <3>. HIDE DEF u, v
      <3>6. x < y
        BY <1>1, <3>5
      <3>. QED
        BY <3>6 DEF x, y
    <2>. QED
      BY <2>1, <2>2
  <1>11. ASSUME NEW n \in from + 1 .. L, CanSee(c, log[n])
         PROVE  Brings(F, n)
    <2>. DEFINE K == {k \in 1 .. L : n <= from + k * R}
    <2>1. n - from \in K
      <3>. DEFINE d == n - from
      <3>1. d \in Nat /\ d \in 1 .. L /\ n = from + d
        BY <1>1
      <3>. HIDE DEF d
      <3>2. d <= d * R /\ d * R \in Nat
        BY <1>1, <3>1, Multiples
      <3>3. n <= from + d * R
        BY <1>1, <3>1, <3>2
      <3>. QED
        BY <3>1, <3>3 DEF d
    <2>2. PICK k \in K : \A i \in K : k <= i
      <3>1. K \in SUBSET (1 .. L) /\ K # {}
        BY <2>1
      <3>. HIDE DEF K
      <3>. QED
        BY <1>1, <3>1, FirstExists
    <2>3. k \in 1 .. L /\ k \in Nat /\ k > 0 /\ n <= from + k * R /\ k - 1 \in Nat
      BY <1>1, <2>2
    <2>4. from + (k - 1) * R < n
      <3>1. (k - 1) * R \in Nat
        BY <1>1, <2>3, Multiples
      <3>2. CASE k = 1
        <4>1. (k - 1) * R = 0
          BY <1>1, <3>2
        <4>. QED
          BY <1>1, <4>1
      <3>3. CASE k # 1
        <4>1. k - 1 \in 1 .. L /\ ~(k <= k - 1)
          BY <1>1, <2>3, <3>3
        <4>2. k - 1 \notin K
          BY <2>2, <4>1
        <4>3. ~(n <= from + (k - 1) * R)
          BY <4>1, <4>2
        <4>. QED
          BY <1>1, <3>1, <4>3
      <3>. QED
        BY <3>2, <3>3
    <2>5. n \in Bat(k)
      <3>. DEFINE u == k * R
                  v == (k - 1) * R
      <3>1. u \in Nat /\ v \in Nat /\ n <= from + u /\ from + v < n
        BY <1>1, <2>3, <2>4, Multiples
      <3>2. Bat(k) = {i \in from + v + 1 .. (IF from + u < L THEN from + u ELSE L) : CanSee(c, log[i])}
        BY DEF Bat, Batch, R, L
      <3>. HIDE DEF u, v
      <3>. QED
        BY <1>1, <1>11, <3>1, <3>2
    <2>6. k \in B
      BY <2>3, <2>5 DEF B
    <2>7. PICK j \in 1 .. Len(q) : q[j] = k
      BY <1>3, <2>6
    <2>8. PICK a \in 1 .. Len(E(k)) : E(k)[a] = n
      BY <1>6, <2>5, <2>6
    <2>9. j \in 1 .. Len(F) /\ F[j].events = E(k)
      BY <1>7, <2>7
    <2>. QED
      BY <2>8, <2>9 DEF Brings
  <1>. QED
    BY <1>7, <1>9, <1>10, <1>11 DEF F, L

\* A welcome, and what follows it.
LEMMA WelcomedOK ==
    ASSUME LogInv, NEW c, NEW p \in 0 .. Len(log)
    PROVE  LET D == <<Welcome(room)>> \o Replay(c, p) IN
           D \in Seq(Frame) /\ Complete(c, D, p, log, hist)
  <1>. DEFINE w == Welcome(room)
              W == <<w>>
              F == Replay(c, p)
              D == W \o F
              L == Len(log)
  <1>1. /\ L \in Nat /\ p \in Nat /\ p <= L /\ room.seq = L /\ room = hist[L + 1]
        /\ Len(hist) = L + 1 /\ room \in Core!Room
    BY RoomIsLast DEF RoomOK
  <1>2. w \in Frame /\ w.type = "WELCOME" /\ w.events = <<>> /\ w.room = room
    BY <1>1, FramesMade
  <1>3. /\ F \in Seq(Frame) /\ Ascends(F) /\ Within(F, p, L)
        /\ \A k \in 1 .. Len(F) : F[k].type = "EVENTS" /\ F[k].id = 0
        /\ \A n \in p + 1 .. L : CanSee(c, log[n]) => Brings(F, n)
    BY ReplayOK
  <1>. HIDE DEF w, F, L
  <1>4. W \in Seq(Frame) /\ Len(W) = 1 /\ W[1] = w
    BY <1>2
  <1>5. \A k \in 1 .. Len(W) : W[k] = w /\ Len(W[k].events) = 0
    BY <1>2, <1>4
  <1>. HIDE DEF W
  <1>6. Ascends(W) /\ Within(W, p, p)
    <2>1. \A k \in 1 .. Len(W) : 1 .. Len(W[k].events) = {}
      BY <1>5
    <2>. QED
      BY <2>1 DEF Ascends, Within
  <1>7. /\ Ascends(D) /\ Within(D, p, L)
        /\ \A n : Brings(W, n) \/ Brings(F, n) => Brings(D, n)
    BY <1>1, <1>3, <1>4, <1>6, FramesJoined
  <1>8. /\ D \in Seq(Frame) /\ Len(D) = 1 + Len(F) /\ Len(F) \in Nat
        /\ D[1] = w
        /\ \A j \in 2 .. Len(D) : D[j] = F[j - 1] /\ j - 1 \in 1 .. Len(F)
    <2>1. /\ D \in Seq(Frame) /\ Len(D) = Len(W) + Len(F) /\ Len(F) \in Nat
          /\ \A j \in 1 .. Len(W) : D[j] = W[j]
          /\ \A j \in Len(W) + 1 .. Len(D) : D[j] = F[j - Len(W)]
      BY ZenonT(30), <1>3, <1>4, Concatenated
    <2>. QED
      BY <1>4, <2>1
  <1>. HIDE DEF D
  <1>9. ASSUME NEW j \in 1 .. Len(D)
        PROVE  StateOK(D[j], j = 1, p, hist)
    <2>1. CASE j = 1
      BY <1>1, <1>2, <1>8, <2>1 DEF StateOK, ViewOK
    <2>2. CASE j # 1
      <3>1. j \in 2 .. Len(D)
        BY <1>8, <2>2
      <3>2. D[j].type = "EVENTS"
        BY <1>3, <1>8, <3>1
      <3>. QED
        BY <3>2 DEF StateOK
    <2>. QED
      BY <2>1, <2>2
  <1>10. ASSUME NEW n \in p + 1 .. L, Owed(c, n, log, hist)
         PROVE  Brings(D, n)
    <2>1. CanSee(c, log[n])
      BY <1>10 DEF Owed, Recipient
    <2>. QED
      BY <1>3, <1>7, <2>1
  <1>. QED
    BY <1>7, <1>8, <1>9, <1>10 DEF Complete, D, L, W, F, w

\* The replay has the shape of frames whatever the client asks for.
LEMMA RepliesTyped ==
    ASSUME LogInv, NEW c, NEW from \in Nat
    PROVE  LET D == <<Welcome(room)>> \o Replay(c, from) IN
           D \in Seq(Frame) /\ \A k \in 1 .. Len(D) : D[k].id = 0
  <1>. DEFINE start == IF from > room.seq THEN 0 ELSE from
              F == Replay(c, from)
              W == <<Welcome(room)>>
              D == W \o F
  <1>1. /\ Len(log) \in Nat /\ room.seq = Len(log) /\ room \in Core!Room
    BY RoomIsLast DEF RoomOK
  <1>2. start \in 0 .. Len(log) /\ ~(start > room.seq)
    BY <1>1
  <1>3. F = Replay(c, start)
    BY <1>2 DEF Replay
  <1>. HIDE DEF start, F
  <1>4. F \in Seq(Frame) /\ \A k \in 1 .. Len(F) : F[k].id = 0
    BY <1>2, <1>3, ReplayOK
  <1>5. Welcome(room) \in Frame /\ Welcome(room).id = 0
    BY <1>1, FramesMade
  <1>6. W \in Seq(Frame) /\ Len(W) = 1 /\ W[1].id = 0
    BY <1>5
  <1>. HIDE DEF W
  <1>7. /\ D \in Seq(Frame) /\ Len(D) = 1 + Len(F) /\ Len(F) \in Nat /\ D[1] = W[1]
        /\ \A k \in 2 .. Len(D) : D[k] = F[k - 1]
    <2>1. /\ D \in Seq(Frame) /\ Len(D) = Len(W) + Len(F) /\ Len(F) \in Nat
          /\ \A k \in 1 .. Len(W) : D[k] = W[k]
          /\ \A k \in Len(W) + 1 .. Len(D) : D[k] = F[k - Len(W)]
      BY ZenonT(30), <1>4, <1>6, Concatenated
    <2>. HIDE DEF D
    <2>. QED
      BY <1>6, <2>1
  <1>. HIDE DEF D
  <1>8. ASSUME NEW k \in 1 .. Len(D)
        PROVE  D[k].id = 0
    <2>1. k = 1 \/ (k \in 2 .. Len(D) /\ k - 1 \in 1 .. Len(F))
      BY <1>7
    <2>. QED
      BY <1>4, <1>6, <1>7, <2>1
  <1>. QED
    BY <1>7, <1>8 DEF D, F, W

LEMMA SetAt ==
    ASSUME NEW S, NEW s \in Seq(S), NEW i \in 1 .. Len(s), NEW x, NEW y
    PROVE  /\ [s EXCEPT ![i] = x][i] = x
           /\ [[s EXCEPT ![i] = x] EXCEPT ![i] = y] = [s EXCEPT ![i] = y]
  <1>. DEFINE n == Len(s)
              D == 1 .. n
  <1>1. s \in [D -> S] /\ i \in D
    OBVIOUS
  <1>. HIDE DEF D
  <1>2. [s EXCEPT ![i] = x][i] = x
    BY <1>1
  <1>3. [[s EXCEPT ![i] = x] EXCEPT ![i] = y] = [s EXCEPT ![i] = y]
    BY <1>1
  <1>. QED
    BY <1>2, <1>3

LEMMA OnHelloKeeps ==
    ASSUME HInv, NEW i, OnHello(i)
    PROVE  HInv'
  <1>. DEFINE s == sockets[i]
              u == Tail(s.up)
              x == [s EXCEPT !.up = u]
              y == [x EXCEPT !.greeted = TRUE]
              N == <<Welcome(room)>> \o Replay(s.client, Incoming(i).from)
              D == s.down \o N
              z == [y EXCEPT !.down = D]
              T == [TakenOff(i) EXCEPT ![i].greeted = TRUE]
  <1>1. /\ i \in 1 .. Len(sockets) /\ s \in Socket /\ s.up # <<>> /\ SocketOK(s, i, conn)
        /\ Incoming(i) = s.up[1] /\ Incoming(i) \in Messages /\ Incoming(i).type = "HELLO"
        /\ 1 \in 1 .. Len(s.up)
    BY Received DEF OnHello
  <1>2. ClientsStay /\ now' = now /\ Unchanged /\ sockets' = Reply(T, i, N)
    BY DEF OnHello, ClientsStay
  <1>3. LogInv /\ now \in 0 .. MaxNow /\ sockets \in Seq(Socket)
    BY DEF HInv, LogInv, WireInv, SocketsOK
  <1>4. s.up \in Seq(Messages) /\ s.down \in Seq(Frame) /\ s.live \in BOOLEAN
    BY <1>1, SocketParts
  <1>5. /\ u \in Seq(Messages) /\ Len(s.up) \in Nat
        /\ \A k \in 1 .. Len(u) : u[k] = s.up[k + 1] /\ k + 1 \in 2 .. Len(s.up) /\ k + 1 \in 1 .. Len(s.up)
    BY <1>1, <1>4, TailParts
  <1>6. N \in Seq(Frame)
    BY <1>1, <1>3, MessageParts, RepliesTyped
  <1>7. D \in Seq(Frame)
    BY <1>4, <1>6, Concatenated
  <1>8. T = [sockets EXCEPT ![i] = y] /\ T[i] = y
    <2>0. i \in 1 .. Len(sockets)
      BY <1>1
    <2>1. TakenOff(i) = [sockets EXCEPT ![i] = x] /\ TakenOff(i)[i] = x
      <3>1. TakenOff(i) = [sockets EXCEPT ![i] = x]
        BY DEF TakenOff
      <3>. HIDE DEF x
      <3>. QED
        BY <1>3, <2>0, <3>1, SetAt
    <2>. HIDE DEF x
    <2>2. T = [TakenOff(i) EXCEPT ![i] = y]
      BY <2>1
    <2>. HIDE DEF T, y
    <2>3. [TakenOff(i) EXCEPT ![i] = y] = [sockets EXCEPT ![i] = y]
      BY <1>3, <2>0, <2>1, SetAt
    <2>4. [sockets EXCEPT ![i] = y][i] = y
      BY <1>3, <2>0, SetAt
    <2>. QED
      BY <2>2, <2>3, <2>4
  <1>9. Reply(T, i, N) = [sockets EXCEPT ![i] = IF y.live THEN [y EXCEPT !.down = y.down \o N] ELSE y]
    <2>. HIDE DEF y, N
    <2>1. CASE y.live
      <3>1. Reply(T, i, N) = [T EXCEPT ![i] = [y EXCEPT !.down = y.down \o N]]
        BY <1>8, <2>1 DEF Reply
      <3>. QED
        BY <1>1, <1>3, <1>8, <2>1, <3>1
    <2>2. CASE ~y.live
      BY <1>8, <2>2 DEF Reply
    <2>. QED
      BY <2>1, <2>2
  <1>. HIDE DEF u, N, T
  <1>10. /\ x \in Socket /\ x.client = s.client /\ x.open = s.open /\ x.live = s.live
         /\ x.greeted = s.greeted /\ x.up = u /\ x.down = s.down
    BY <1>1, <1>5, UpSet
  <1>. HIDE DEF x
  <1>11. /\ y \in Socket /\ y.client = x.client /\ y.open = x.open /\ y.live = x.live
         /\ y.greeted = TRUE /\ y.up = x.up /\ y.down = x.down
    BY <1>10, GreetedSet
  <1>. HIDE DEF y, D
  <1>12. /\ z \in Socket /\ z.client = y.client /\ z.open = y.open /\ z.live = y.live
         /\ z.greeted = TRUE /\ z.up = y.up /\ z.down = D
    BY <1>7, <1>11, DownSet
  <1>. HIDE DEF z
  <1>13. SocketOK(y, i, conn) /\ SocketOK(z, i, conn)
    BY <1>1, <1>5, <1>10, <1>11, <1>12 DEF SocketOK
  <1>14. CASE ~s.live
    <2>1. \A c \in Readers : conn[c] # i
      BY <1>1, <1>14, SocketAt DEF Clients
    <2>2. Between([sockets EXCEPT ![i] = y])
      BY <1>1, <1>10, <1>11, <1>13, <2>1, OneSocket
    <2>3. sockets' = [sockets EXCEPT ![i] = y]
      BY <1>2, <1>9, <1>10, <1>11, <1>14
    <2>. QED
      BY <1>2, <1>3, <2>2, <2>3, QuietKeeps
  <1>15. CASE s.live
    <2>1. ASSUME NEW c \in Readers, conn[c] = i
          PROVE  StreamOK(c, z, position[c], log, hist)
      <3>. DEFINE p == position[c]
      <3>1. /\ StreamOK(c, s, p, log, hist) /\ p \in 0 .. Len(log) /\ s.client = c
        <4>1. c \in Clients /\ conn[c] > 0
          BY <1>1, <2>1 DEF Clients
        <4>. QED
          BY <2>1, <4>1, SocketAt DEF GivenOK
      <3>2. ~s.greeted
        BY <1>1, <3>1 DEF StreamOK, Greeted
      <3>3. Ungreeted(s, p)
        BY <3>1, <3>2 DEF StreamOK
      <3>4. /\ s.down = <<>> /\ Incoming(i).from = p
            /\ \A k \in 2 .. Len(s.up) : s.up[k].type # "HELLO"
        BY <1>1, <3>3 DEF Ungreeted
      <3>. HIDE DEF p
      <3>5. D = N
        BY <1>6, <3>4 DEF D
      <3>6. Complete(c, D, p, log, hist)
        BY <1>3, <3>1, <3>4, <3>5, WelcomedOK DEF N
      <3>7. \A k \in 1 .. Len(z.up) : z.up[k].type # "HELLO"
        BY <1>5, <1>10, <1>11, <1>12, <3>4
      <3>. QED
        BY <1>12, <3>6, <3>7 DEF StreamOK, Greeted, p
    <2>2. z.client = s.client /\ z.live = s.live
      BY <1>10, <1>11, <1>12
    <2>3. Between([sockets EXCEPT ![i] = z])
      BY <1>1, <1>12, <1>13, <2>1, <2>2, OneSocket
    <2>4. y.live /\ y.down \o N = D
      BY <1>10, <1>11, <1>15 DEF D
    <2>5. sockets' = [sockets EXCEPT ![i] = z]
      BY <1>2, <1>9, <2>4 DEF z
    <2>. QED
      BY <1>2, <1>3, <2>3, <2>5, QuietKeeps
  <1>. QED
    BY <1>14, <1>15

-----------------------------------------------------------------------------
(***************************************************************************)
(* The clients' steps.                                                     *)
(***************************************************************************)
\* A client does something that touches the wire alone.
LEMMA WireStepKeeps ==
    ASSUME HInv, Unchanged, now' = now, position' = position, taken' = taken, view' = view,
           ClientsInv', SocketsOK(sockets', conn'),
           \A c \in Readers : conn'[c] > 0 => StreamOK(c, sockets'[conn'[c]], position[c], log, hist)
    PROVE  HInv'
  <1>1. /\ log' = log /\ room' = room /\ hist' = hist /\ alarm' = alarm /\ missed' = missed
    BY DEF Unchanged
  <1>2. LogInv' /\ AlarmInv' /\ GivenInv'
    BY <1>1 DEF HInv, LogInv, AlarmInv, AlarmCovers, GivenInv
  <1>3. StreamsOK(sockets)'
    BY <1>1 DEF StreamsOK
  <1>. QED
    BY <1>2, <1>3 DEF HInv, WireInv

LEMMA ReaderConn ==
    ASSUME HInv, NEW c \in Readers
    PROVE  c \in Clients /\ c \notin Asks /\ conn[c] \in Nat
  <1>1. c \in Clients /\ c \notin Asks
    BY HostedAssumption DEF Clients, Readers
  <1>. QED
    BY <1>1 DEF HInv, WireInv, ClientsInv

\* One more message from a client.
LEMMA SentOK ==
    ASSUME HInv, NEW c \in Clients, conn[c] > 0, NEW m \in Messages, m.type # "HELLO",
           m.type = "HEARTBEAT" => c \in Daemons
    PROVE  Between(Send(conn[c], <<m>>))
  <1>. DEFINE i == conn[c]
              s == sockets[i]
              u == s.up \o <<m>>
              x == [s EXCEPT !.up = u]
  <1>1. /\ i \in 1 .. Len(sockets) /\ s \in Socket /\ SocketOK(s, i, conn) /\ s.client = c
        /\ s.up \in Seq(Messages)
    BY SocketAt, SocketParts
  <1>2. /\ u \in Seq(Messages) /\ Len(u) = Len(s.up) + 1 /\ Len(s.up) \in Nat
        /\ \A k \in 1 .. Len(s.up) : u[k] = s.up[k]
        /\ u[Len(s.up) + 1] = m
    BY <1>1
  <1>3. \A k \in 1 .. Len(u) : (k \in 1 .. Len(s.up) /\ u[k] = s.up[k]) \/ u[k] = m
    BY <1>2
  <1>4. s.up # <<>> => u[1] = s.up[1] /\ 1 \in 1 .. Len(s.up)
    BY <1>1, <1>2
  <1>5. Send(i, <<m>>) = [sockets EXCEPT ![i] = x]
    BY DEF Send
  <1>. HIDE DEF u
  <1>6. /\ x \in Socket /\ x.client = s.client /\ x.open = s.open /\ x.live = s.live
        /\ x.greeted = s.greeted /\ x.up = u /\ x.down = s.down
    BY <1>1, <1>2, UpSet
  <1>. HIDE DEF x
  <1>7. SocketOK(x, i, conn)
    BY <1>1, <1>3, <1>6 DEF SocketOK
  <1>8. ASSUME NEW e \in Readers, conn[e] = i
        PROVE  StreamOK(e, x, position[e], log, hist)
    <2>1. StreamOK(e, s, position[e], log, hist)
      <3>1. e \in Clients /\ conn[e] > 0
        BY <1>8 DEF Clients
      <3>. QED
        BY <1>8, <3>1, SocketAt
    <2>2. CASE s.greeted
      <3>1. Greeted(e, s, position[e], log, hist)
        BY <2>1, <2>2 DEF StreamOK
      <3>2. Greeted(e, x, position[e], log, hist)
        BY <1>3, <1>6, <3>1 DEF Greeted
      <3>. QED
        BY <1>6, <2>2, <3>2 DEF StreamOK
    <2>3. CASE ~s.greeted
      <3>1. Ungreeted(s, position[e])
        BY <2>1, <2>3 DEF StreamOK
      <3>2. /\ u[1].type = "HELLO" /\ u[1].from = position[e]
            /\ \A k \in 2 .. Len(s.up) : s.up[k].type # "HELLO"
        BY <1>4, <3>1 DEF Ungreeted
      <3>3. ASSUME NEW k \in 2 .. Len(u)
            PROVE  u[k].type # "HELLO"
        <4>1. k \in 2 .. Len(s.up) \/ k = Len(s.up) + 1
          BY <1>2
        <4>2. CASE k = Len(s.up) + 1
          BY <1>2, <4>2
        <4>3. CASE k \in 2 .. Len(s.up)
          <5>1. k \in 1 .. Len(s.up)
            BY <1>2, <4>3
          <5>. QED
            BY <1>2, <3>2, <4>3, <5>1
        <4>. QED
          BY <4>1, <4>2, <4>3
      <3>4. u # <<>>
        BY <1>2
      <3>5. Ungreeted(x, position[e])
        BY <1>6, <3>1, <3>2, <3>3, <3>4 DEF Ungreeted
      <3>. QED
        BY <1>6, <2>3, <3>5 DEF StreamOK
    <2>. QED
      BY <2>2, <2>3
  <1>. QED
    BY <1>1, <1>5, <1>6, <1>7, <1>8, OneSocket

LEMMA MessagesMade ==
    /\ \A p \in Nat : Hello(p) \in Messages /\ Hello(p).type = "HELLO" /\ Hello(p).from = p
    /\ \A e \in Submittable : /\ Submission(e) \in Messages /\ Submission(e).type = "SUBMIT"
                            /\ Submission(e).event = e
    /\ Heartbeat \in Messages /\ Heartbeat.type = "HEARTBEAT"
  <1>1. Core!Blank \in Submittable
    BY EventsMade
  <1>2. \A p \in Nat : Hello(p) \in Messages /\ Hello(p).type = "HELLO" /\ Hello(p).from = p
    BY <1>1 DEF Hello, Messages
  <1>3. \A e \in Submittable : /\ Submission(e) \in Messages /\ Submission(e).type = "SUBMIT"
                              /\ Submission(e).event = e
    BY DEF Submission, Messages
  <1>4. Heartbeat \in Messages /\ Heartbeat.type = "HEARTBEAT"
    BY <1>1 DEF Heartbeat, Messages
  <1>. QED
    BY <1>2, <1>3, <1>4

LEMMA BeatsKeeps ==
    ASSUME HInv, NEW d \in Daemons, Beats(d)
    PROVE  HInv'
  <1>1. d \in Readers /\ conn[d] # 0
    BY DEF Readers, Beats
  <1>2. d \in Clients /\ conn[d] > 0
    BY <1>1, ReaderConn
  <1>3. Between(Send(conn[d], <<Heartbeat>>))
    BY <1>2, MessagesMade, SentOK
  <1>4. /\ Unchanged /\ now' = now /\ position' = position /\ taken' = taken /\ view' = view
        /\ conn' = conn /\ pending' = pending /\ moves' = moves + 1
        /\ sockets' = Send(conn[d], <<Heartbeat>>)
    BY DEF Beats, ClientsUnchanged
  <1>5. ClientsInv'
    BY <1>4 DEF HInv, WireInv, ClientsInv
  <1>. QED
    BY <1>3, <1>4, <1>5, WireStepKeeps DEF Between, StreamsOK

LEMMA IssueKeeps ==
    ASSUME HInv, NEW d \in Daemons, NEW e \in Submittable, Issue(d, e)
    PROVE  HInv'
  <1>. DEFINE new == [e EXCEPT !.id = moves + 1]
              m == Submission(new)
  <1>1. d \in Readers /\ moves \in Nat /\ ClientsInv
    BY DEF Readers, HInv, WireInv, ClientsInv
  <1>2. d \in Clients /\ conn[d] \in Nat
    BY <1>1, ReaderConn
  <1>3. new \in Submittable
    BY <1>1, IdGiven
  <1>4. /\ Unchanged /\ now' = now /\ position' = position /\ taken' = taken /\ view' = view
        /\ conn' = conn /\ moves' = moves + 1
        /\ pending' = [pending EXCEPT ![d] = @ \cup {new}]
        /\ sockets' = IF conn[d] = 0 THEN sockets ELSE Send(conn[d], <<m>>)
    BY DEF Issue
  <1>. HIDE DEF new
  <1>5. m \in Messages /\ m.type = "SUBMIT"
    BY <1>3, MessagesMade
  <1>. HIDE DEF m
  <1>6. ClientsInv'
    <2>1. pending' \in [Daemons -> SUBSET Submittable]
      BY <1>1, <1>3, <1>4 DEF ClientsInv
    <2>2. ASSUME NEW b \in Daemons
          PROVE  IsFiniteSet(pending'[b])
      <3>1. IsFiniteSet(pending[b]) /\ IsFiniteSet(pending[d])
        BY <1>1 DEF ClientsInv
      <3>2. IsFiniteSet(pending[d] \cup {new})
        BY <3>1, FS_AddElement
      <3>. QED
        BY <1>1, <1>4, <3>1, <3>2 DEF ClientsInv
    <2>3. moves' \in Nat
      BY <1>1, <1>4
    <2>4. /\ conn' \in [Clients -> {Closed} \cup Nat]
          /\ \A c \in Clients : conn'[c] = Closed => c \in Asks
      BY <1>1, <1>4 DEF ClientsInv
    <2>. QED
      BY <2>1, <2>2, <2>3, <2>4 DEF ClientsInv
  <1>7. Between(sockets')
    <2>1. CASE conn[d] = 0
      BY <1>4, <2>1 DEF HInv, WireInv, Between
    <2>2. CASE conn[d] # 0
      <3>1. conn[d] > 0
        BY <1>2, <2>2
      <3>2. Between(Send(conn[d], <<m>>))
        BY <1>2, <1>5, <3>1, SentOK
      <3>. QED
        BY <1>4, <2>2, <3>2
    <2>. QED
      BY <2>1, <2>2
  <1>. QED
    BY <1>4, <1>6, <1>7, WireStepKeeps DEF Between, StreamsOK

LEMMA IssuesAre ==
    ASSUME HInv, NEW d \in Daemons, Issues(d)
    PROVE  \E e \in Submittable : Issue(d, e)
  <1>1. SessionOf[d] \in Sessions
    BY DEF Sessions
  <1>2. \A l \in room.leases : l.token \in Nat
    BY TokensKnown DEF HInv
  <1>3. CASE Issue(d, Core!Started(SessionOf[d]))
    BY <1>1, <1>3, EventsMade
  <1>4. CASE Issue(d, Core!Ended(SessionOf[d]))
    BY <1>1, <1>4, EventsMade
  <1>5. ASSUME NEW S \in SUBSET Symbols, Issue(d, Core!Requested(SessionOf[d], S))
        PROVE  \E e \in Submittable : Issue(d, e)
    BY <1>1, <1>5, EventsMade
  <1>6. ASSUME NEW l \in room.leases, Issue(d, Core!Released(l.token))
        PROVE  \E e \in Submittable : Issue(d, e)
    BY <1>2, <1>6, EventsMade
  <1>7. ASSUME NEW p \in Paths, NEW t \in {0} \cup Core!TokensIssued,
               Issue(d, Core!Write(SessionOf[d], p, t))
        PROVE  \E e \in Submittable : Issue(d, e)
    <2>1. log \in Seq(Entries)
      BY DEF HInv, LogInv, Folds
    <2>2. \A n \in DOMAIN log : log[n].token \in Nat
      BY <2>1, EntryFields
    <2>3. t \in Nat
      BY <2>2 DEF Core!TokensIssued
    <2>. QED
      BY <1>1, <1>7, <2>3, EventsMade
  <1>. QED
    BY <1>3, <1>4, <1>5, <1>6, <1>7 DEF Issues

LEMMA IssuesKeep ==
    ASSUME HInv, NEW d \in Daemons, Issues(d)
    PROVE  HInv'
  BY IssuesAre, IssueKeeps

\* A client's end of a connection is gone, and its socket with it.
LEMMA SeveredOK ==
    ASSUME HInv, NEW c \in Clients, conn[c] > 0, NEW v \in {0, Closed}, NEW x \in Socket,
           x.client = c, ~x.live,
           \A k \in 1 .. Len(x.up) : x.up[k].type = "HEARTBEAT" => c \in Daemons
    PROVE  LET ss == [sockets EXCEPT ![conn[c]] = x]
               cn == [conn EXCEPT ![c] = v]
           IN /\ SocketsOK(ss, cn)
              /\ \A e \in Readers : cn[e] > 0 => StreamOK(e, ss[cn[e]], position[e], log, hist)
  <1>. DEFINE i == conn[c]
              ss == [sockets EXCEPT ![i] = x]
              cn == [conn EXCEPT ![c] = v]
  <1>1. SocketsOK(sockets, conn) /\ StreamsOK(sockets) /\ sockets \in Seq(Socket)
        /\ conn \in [Clients -> {Closed} \cup Nat]
    BY DEF HInv, WireInv, ClientsInv, SocketsOK
  <1>2. i \in 1 .. Len(sockets)
    BY <1>1 DEF SocketsOK
  <1>3. ss \in Seq(Socket) /\ Len(ss) = Len(sockets) /\ ss[i] = x
        /\ \A k \in 1 .. Len(sockets) : k # i => ss[k] = sockets[k]
    BY <1>1, <1>2
  <1>4. cn[c] = v /\ ~(v > 0) /\ \A e \in Clients : e # c => cn[e] = conn[e]
    BY <1>1 DEF Closed
  <1>. HIDE DEF ss, cn
  <1>5. ASSUME NEW k \in 1 .. Len(ss)
        PROVE  SocketOK(ss[k], k, cn)
    <2>1. CASE k = i
      BY <1>3, <2>1 DEF SocketOK
    <2>2. CASE k # i
      <3>1. SocketOK(sockets[k], k, conn) /\ ss[k] = sockets[k] /\ sockets[k] \in Socket
        BY <1>1, <1>3, <2>2 DEF SocketsOK
      <3>2. sockets[k].client \in Clients
        BY <3>1, SocketParts
      <3>3. sockets[k].live => cn[sockets[k].client] = k
        BY <1>4, <2>2, <3>1, <3>2 DEF SocketOK
      <3>. QED
        BY <3>1, <3>3 DEF SocketOK
    <2>. QED
      BY <2>1, <2>2
  <1>6. ASSUME NEW e \in Clients, cn[e] > 0
        PROVE  /\ cn[e] = conn[e] /\ cn[e] \in 1 .. Len(ss) /\ ss[cn[e]] = sockets[cn[e]]
               /\ ss[cn[e]].live /\ ss[cn[e]].client = e
    <2>1. e # c /\ cn[e] = conn[e]
      BY <1>4, <1>6
    <2>2. conn[e] \in 1 .. Len(sockets) /\ sockets[conn[e]].live /\ sockets[conn[e]].client = e
          /\ sockets[i].client = c
      BY <1>1, <1>6, <2>1 DEF SocketsOK
    <2>. QED
      BY <1>3, <2>1, <2>2
  <1>7. ASSUME NEW e \in Readers, cn[e] > 0
        PROVE  StreamOK(e, ss[cn[e]], position[e], log, hist)
    <2>1. e \in Clients
      BY DEF Clients
    <2>. QED
      BY <1>1, <1>6, <1>7, <2>1 DEF StreamsOK
  <1>. QED
    BY <1>3, <1>5, <1>6, <1>7 DEF SocketsOK, ss, cn

\* What is left of a socket whose client is gone.
Dead(s) == [[s EXCEPT !.live = FALSE] EXCEPT !.down = <<>>]

LEMMA DeadIs ==
    ASSUME NEW s \in Socket
    PROVE  /\ Dead(s) \in Socket /\ Dead(s).client = s.client /\ Dead(s).open = s.open
           /\ ~Dead(s).live /\ Dead(s).greeted = s.greeted /\ Dead(s).up = s.up
           /\ Dead(s).down = <<>>
  <1>. DEFINE x == [s EXCEPT !.live = FALSE]
  <1>1. /\ x \in Socket /\ x.client = s.client /\ x.open = s.open /\ x.live = FALSE
        /\ x.greeted = s.greeted /\ x.up = s.up
    BY LiveSet
  <1>2. <<>> \in Seq(Frame)
    OBVIOUS
  <1>. HIDE DEF x
  <1>. QED
    BY <1>1, <1>2, DownSet DEF Dead, x

LEMMA DeadAt ==
    ASSUME NEW ss \in Seq(Socket), NEW i \in 1 .. Len(ss)
    PROVE  [ss EXCEPT ![i].live = FALSE, ![i].down = <<>>] = [ss EXCEPT ![i] = Dead(ss[i])]
  <1>. DEFINE s == ss[i]
              x == [s EXCEPT !.live = FALSE]
              T == [ss EXCEPT ![i] = x]
  <1>1. [ss EXCEPT ![i].live = FALSE, ![i].down = <<>>] = [T EXCEPT ![i].down = <<>>]
    OBVIOUS
  <1>2. T[i] = x
    <2>. HIDE DEF x
    <2>. QED
      BY SetAt
  <1>3. [T EXCEPT ![i].down = <<>>] = [T EXCEPT ![i] = Dead(s)]
    <2>. HIDE DEF T
    <2>. QED
      BY <1>2 DEF Dead
  <1>. HIDE DEF x, s
  <1>4. [T EXCEPT ![i] = Dead(s)] = [ss EXCEPT ![i] = Dead(s)]
    BY SetAt
  <1>. QED
    BY <1>1, <1>3, <1>4 DEF s

\* A lost connection leaves some of what its client had sent.
LEMMA CutIs ==
    ASSUME HInv, NEW c \in Clients, conn[c] > 0, Cut(c)
    PROVE  \E x \in Socket :
              /\ x.client = c /\ ~x.live
              /\ \A k \in 1 .. Len(x.up) : x.up[k].type = "HEARTBEAT" => c \in Daemons
              /\ sockets' = [sockets EXCEPT ![conn[c]] = x]
              /\ x.down = <<>>
              /\ \A k \in 1 .. Len(x.up) : /\ k \in 1 .. Len(sockets[conn[c]].up)
                                           /\ x.up[k] = sockets[conn[c]].up[k]
  <1>. DEFINE i == conn[c]
              s == sockets[i]
              y == Dead(s)
              T == [sockets EXCEPT ![i] = y]
  <1>1. /\ i \in 1 .. Len(sockets) /\ s \in Socket /\ SocketOK(s, i, conn) /\ s.client = c
        /\ sockets \in Seq(Socket)
    BY SocketAt DEF HInv, WireInv, SocketsOK
  <1>2. s.up \in Seq(Messages) /\ Len(s.up) \in Nat
    BY <1>1, SocketParts
  <1>3. PICK n \in 0 .. Len(s.up) :
            sockets' = [sockets EXCEPT ![i].live = FALSE, ![i].down = <<>>,
                                       ![i].up = SubSeq(@, 1, n)]
    BY DEF Cut
  <1>4. sockets' = [[sockets EXCEPT ![i].live = FALSE, ![i].down = <<>>]
                       EXCEPT ![i].up = SubSeq(@, 1, n)]
    BY <1>3
  <1>5. [sockets EXCEPT ![i].live = FALSE, ![i].down = <<>>] = T
    BY <1>1, DeadAt
  <1>6. sockets' = [T EXCEPT ![i].up = SubSeq(@, 1, n)]
    BY <1>4, <1>5
  <1>7. /\ y \in Socket /\ y.client = c /\ ~y.live /\ y.up = s.up /\ y.down = <<>>
    BY <1>1, DeadIs
  <1>. HIDE DEF y
  <1>8. T[i] = y
    BY <1>1, SetAt
  <1>. DEFINE u == SubSeq(s.up, 1, n)
              x == [y EXCEPT !.up = u]
  <1>9. /\ u \in Seq(Messages) /\ Len(u) = n
        /\ \A k \in 1 .. Len(u) : u[k] = s.up[k] /\ k \in 1 .. Len(s.up)
    BY <1>2, <1>3
  <1>10. sockets' = [T EXCEPT ![i] = x]
    <2>. HIDE DEF T
    <2>. QED
      BY <1>6, <1>7, <1>8
  <1>. HIDE DEF u
  <1>11. x \in Socket /\ x.client = c /\ ~x.live /\ x.up = u /\ x.down = <<>>
    BY <1>7, <1>9, UpSet
  <1>. HIDE DEF x
  <1>12. sockets' = [sockets EXCEPT ![i] = x]
    BY <1>1, <1>10, SetAt
  <1>13. \A k \in 1 .. Len(x.up) : x.up[k].type = "HEARTBEAT" => c \in Daemons
    BY <1>1, <1>9, <1>11 DEF SocketOK
  <1>. QED
    BY <1>9, <1>11, <1>12, <1>13

\* What is left of the clients' own state when one of them loses its connection.
LEMMA ClientsCut ==
    ASSUME HInv, NEW c \in Clients, NEW v \in {0, Closed}, v = Closed => c \in Asks,
           conn' = [conn EXCEPT ![c] = v], moves' \in Nat,
           pending' = pending \/ \E d \in Daemons : pending' = [pending EXCEPT ![d] = {}]
    PROVE  ClientsInv'
  <1>1. ClientsInv
    BY DEF HInv, WireInv
  <1>2. /\ conn' \in [Clients -> {Closed} \cup Nat]
        /\ \A e \in Clients : conn'[e] = Closed => e \in Asks
    BY <1>1 DEF ClientsInv, Closed
  <1>3. IsFiniteSet({})
    BY FS_EmptySet
  <1>4. /\ pending' \in [Daemons -> SUBSET Submittable]
        /\ \A d \in Daemons : IsFiniteSet(pending'[d])
    BY <1>1, <1>3 DEF ClientsInv
  <1>. QED
    BY <1>2, <1>4 DEF ClientsInv

LEMMA LoseKeeps ==
    ASSUME HInv, NEW c \in Clients, Lose(c)
    PROVE  HInv'
  <1>. DEFINE v == IF c \in Asks THEN Closed ELSE 0
  <1>1. /\ conn[c] > 0 /\ Cut(c) /\ conn' = [conn EXCEPT ![c] = v] /\ moves' = moves
        /\ Unchanged /\ now' = now /\ pending' = pending /\ position' = position
        /\ taken' = taken /\ view' = view
    BY DEF Lose
  <1>2. v \in {0, Closed} /\ (v = Closed => c \in Asks)
    BY DEF Closed
  <1>. HIDE DEF v
  <1>3. moves' \in Nat
    BY <1>1 DEF HInv, WireInv, ClientsInv
  <1>4. ClientsInv'
    BY <1>1, <1>2, <1>3, ClientsCut
  <1>5. PICK x \in Socket :
              /\ x.client = c /\ ~x.live
              /\ \A k \in 1 .. Len(x.up) : x.up[k].type = "HEARTBEAT" => c \in Daemons
              /\ sockets' = [sockets EXCEPT ![conn[c]] = x]
    BY <1>1, CutIs
  <1>6. /\ SocketsOK(sockets', conn')
        /\ \A e \in Readers : conn'[e] > 0 => StreamOK(e, sockets'[conn'[e]], position[e], log, hist)
    BY <1>1, <1>2, <1>5, SeveredOK
  <1>. QED
    BY <1>1, <1>4, <1>6, WireStepKeeps

LEMMA DiesKeeps ==
    ASSUME HInv, NEW d \in Daemons, Dies(d)
    PROVE  HInv'
  <1>1. /\ conn[d] # 0 /\ Cut(d) /\ conn' = [conn EXCEPT ![d] = 0] /\ moves' = moves
        /\ Unchanged /\ now' = now /\ pending' = [pending EXCEPT ![d] = {}]
        /\ position' = position /\ taken' = taken /\ view' = view
    BY DEF Dies
  <1>2. d \in Clients /\ conn[d] > 0
    BY <1>1, ReaderConn DEF Readers
  <1>3. moves' \in Nat
    BY <1>1 DEF HInv, WireInv, ClientsInv
  <1>4. ClientsInv'
    <2>1. 0 \in {0, Closed} /\ (0 = Closed => d \in Asks)
      BY DEF Closed
    <2>2. \E e \in Daemons : pending' = [pending EXCEPT ![e] = {}]
      BY <1>1, Zenon
    <2>. QED
      BY <1>1, <1>2, <1>3, <2>1, <2>2, ClientsCut
  <1>5. PICK x \in Socket :
              /\ x.client = d /\ ~x.live
              /\ \A k \in 1 .. Len(x.up) : x.up[k].type = "HEARTBEAT" => d \in Daemons
              /\ sockets' = [sockets EXCEPT ![conn[d]] = x]
    BY <1>1, <1>2, CutIs
  <1>6. /\ SocketsOK(sockets', conn')
        /\ \A e \in Readers : conn'[e] > 0 => StreamOK(e, sockets'[conn'[e]], position[e], log, hist)
    BY <1>1, <1>2, <1>5, SeveredOK
  <1>. QED
    BY <1>1, <1>4, <1>6, WireStepKeeps

LEMMA OverridesMade ==
    ASSUME HInv, NEW e \in Override
    PROVE  e \in Submittable
  <1>1. \A l \in room.leases : l.token \in Nat
    BY TokensKnown DEF HInv
  <1>2. CASE e = Market
    BY <1>2, EventsMade
  <1>3. CASE \E l \in room.leases : e = Core!Released(l.token)
    BY <1>1, <1>3, EventsMade
  <1>. QED
    BY <1>2, <1>3 DEF Override

LEMMA AskTakesKeeps ==
    ASSUME HInv, NEW a \in Asks, AskTakes(a)
    PROVE  HInv'
  <1>. DEFINE i == conn[a]
              s == sockets[i]
              D == Tail(s.down)
              r == [s EXCEPT !.down = D]
              read == [sockets EXCEPT ![i].down = Tail(@)]
              Said(e) == [read EXCEPT ![i].up = Append(@, Submission([e EXCEPT !.id = moves + 1]))]
  <1>0. /\ i > 0 /\ s.down # <<>>
        /\ \/ /\ moves' = moves + 1 /\ conn' = conn
              /\ \E e \in Override : sockets' = Said(e)
           \/ sockets' = read /\ conn' = conn /\ moves' = moves
           \/ /\ sockets' = [read EXCEPT ![i].live = FALSE, ![i].down = <<>>]
              /\ conn' = [conn EXCEPT ![a] = Closed] /\ moves' = moves
        /\ Unchanged /\ now' = now /\ pending' = pending /\ position' = position
        /\ taken' = taken /\ view' = view
    BY DEF AskTakes
  <1>1. /\ a \in Clients /\ i \in 1 .. Len(sockets) /\ s \in Socket /\ SocketOK(s, i, conn)
        /\ s.client = a /\ s.live /\ sockets \in Seq(Socket) /\ moves \in Nat
    <2>1. a \in Clients
      BY DEF Clients
    <2>. QED
      BY <1>0, <2>1, SocketAt DEF HInv, WireInv, SocketsOK, ClientsInv
  <1>2. D \in Seq(Frame) /\ s.up \in Seq(Messages)
    BY <1>0, <1>1, SocketParts, TailParts
  <1>3. read = [sockets EXCEPT ![i] = r]
    OBVIOUS
  <1>. HIDE DEF D, read
  <1>4. /\ r \in Socket /\ r.client = a /\ r.open = s.open /\ r.live = s.live
        /\ r.greeted = s.greeted /\ r.up = s.up
    BY <1>1, <1>2, DownSet
  <1>. HIDE DEF r
  <1>5. read[i] = r /\ read \in Seq(Socket) /\ Len(read) = Len(sockets)
    BY <1>1, <1>3, <1>4
  <1>6. SocketOK(r, i, conn)
    BY <1>1, <1>4 DEF SocketOK
  <1>7. \A c \in Readers : conn[c] # i
    BY <1>1, SocketAt, ReaderConn
  <1>8. ASSUME NEW e \in Override, moves' = moves + 1, conn' = conn, sockets' = Said(e)
        PROVE  HInv'
    <2>. DEFINE m == Submission([e EXCEPT !.id = moves + 1])
                u == Append(r.up, m)
                x == [r EXCEPT !.up = u]
    <2>1. m \in Messages /\ m.type = "SUBMIT"
      <3>1. [e EXCEPT !.id = moves + 1] \in Submittable
        BY <1>1, OverridesMade, IdGiven
      <3>. QED
        BY <3>1, MessagesMade
    <2>2. sockets' = [read EXCEPT ![i] = x]
      BY <1>5, <1>8
    <2>. HIDE DEF m
    <2>3. /\ u \in Seq(Messages) /\ Len(s.up) \in Nat
          /\ \A k \in 1 .. Len(u) : (k \in 1 .. Len(s.up) /\ u[k] = s.up[k]) \/ u[k] = m
      BY <1>2, <1>4, <2>1
    <2>. HIDE DEF u
    <2>4. x \in Socket /\ x.client = a /\ x.open = s.open /\ x.live = s.live /\ x.up = u
      BY <1>4, <2>3, UpSet
    <2>. HIDE DEF x
    <2>5. sockets' = [sockets EXCEPT ![i] = x]
      BY <1>1, <1>3, <2>2, SetAt
    <2>6. SocketOK(x, i, conn)
      BY <1>1, <2>1, <2>3, <2>4 DEF SocketOK
    <2>7. Between(sockets')
      BY <1>1, <1>7, <2>4, <2>5, <2>6, OneSocket
    <2>8. ClientsInv'
      BY <1>0, <1>1, <1>8 DEF HInv, WireInv, ClientsInv
    <2>. QED
      BY <1>0, <1>8, <2>7, <2>8, WireStepKeeps DEF Between, StreamsOK
  <1>9. CASE sockets' = read /\ conn' = conn /\ moves' = moves
    <2>1. Between(sockets')
      BY <1>1, <1>3, <1>4, <1>6, <1>7, <1>9, OneSocket
    <2>2. ClientsInv'
      BY <1>0, <1>9 DEF HInv, WireInv, ClientsInv
    <2>. QED
      BY <1>0, <1>9, <2>1, <2>2, WireStepKeeps DEF Between, StreamsOK
  <1>10. CASE /\ sockets' = [read EXCEPT ![i].live = FALSE, ![i].down = <<>>]
              /\ conn' = [conn EXCEPT ![a] = Closed] /\ moves' = moves
    <2>. DEFINE x == Dead(r)
    <2>1. x \in Socket /\ x.client = a /\ ~x.live /\ x.up = s.up
      BY <1>4, DeadIs
    <2>2. sockets' = [read EXCEPT ![i] = x]
      <3>1. i \in 1 .. Len(read) /\ read \in Seq(Socket) /\ read[i] = r
        BY <1>1, <1>5
      <3>2. [read EXCEPT ![i].live = FALSE, ![i].down = <<>>] = [read EXCEPT ![i] = Dead(read[i])]
        BY <3>1, DeadAt
      <3>. QED
        BY <1>10, <3>1, <3>2
    <2>. HIDE DEF x
    <2>3. sockets' = [sockets EXCEPT ![i] = x]
      BY <1>1, <1>3, <2>2, SetAt
    <2>4. \A k \in 1 .. Len(x.up) : x.up[k].type = "HEARTBEAT" => a \in Daemons
      BY <1>1, <2>1 DEF SocketOK
    <2>5. Closed \in {0, Closed}
      OBVIOUS
    <2>. DEFINE ss == [sockets EXCEPT ![i] = x]
                cn == [conn EXCEPT ![a] = Closed]
    <2>6. /\ SocketsOK(ss, cn)
          /\ \A e \in Readers : cn[e] > 0 => StreamOK(e, ss[cn[e]], position[e], log, hist)
      BY <1>0, <1>1, <2>1, <2>4, <2>5, SeveredOK
    <2>7. /\ SocketsOK(sockets', conn')
          /\ \A e \in Readers : conn'[e] > 0 => StreamOK(e, sockets'[conn'[e]], position[e], log, hist)
      BY <1>10, <2>3, <2>6, Zenon
    <2>8. ClientsInv'
      BY <1>0, <1>1, <1>10, <2>5, ClientsCut
    <2>. QED
      BY <1>0, <2>7, <2>8, WireStepKeeps
  <1>. QED
    BY <1>0, <1>8, <1>9, <1>10

\* A daemon that connects again says HELLO and then only submits.
LEMMA UnacknowledgedOK ==
    ASSUME HInv, NEW d \in Daemons
    PROVE  LET q == Unacknowledged(d) IN
           /\ q \in Seq(Messages) /\ \A k \in 1 .. Len(q) : q[k].type = "SUBMIT"
           /\ \A k \in 1 .. Len(q) : q[k].event \in pending[d]
           /\ \A e \in pending[d] : \E k \in 1 .. Len(q) : q[k].event.id = e.id
           /\ \A j, k \in 1 .. Len(q) : q[j].event.id < q[k].event.id => j < k
  <1>. DEFINE P == pending[d]
              I == {e.id : e \in P}
              n == Cardinality(I)
              ids == Ascending(I)
              q == [k \in DOMAIN ids |-> Submission(CHOOSE e \in P : e.id = ids[k])]
  <1>1. IsFiniteSet(P) /\ P \in SUBSET Submittable
    BY DEF HInv, WireInv, ClientsInv
  <1>2. q = Unacknowledged(d)
    BY DEF Unacknowledged
  <1>. HIDE DEF P
  <1>3. \A e \in P : e \in Submittable /\ e.id \in Nat
    BY <1>1, EntryFields DEF Submittable
  <1>4. IsFiniteSet(I) /\ I \subseteq Int
    <2>1. IsFiniteSet(P)
      BY <1>1 DEF P
    <2>. DEFINE f == [e \in P |-> e.id]
    <2>. HIDE DEF P
    <2>2. f \in Surjection(P, I)
      BY DEF Surjection
    <2>. HIDE DEF f, I
    <2>3. IsFiniteSet(I)
      BY <2>1, <2>2, FS_Surjection
    <2>. QED
      BY <1>3, <2>3 DEF I
  <1>5. /\ n \in Nat /\ ids \in [1 .. n -> I]
        /\ \A j, k \in 1 .. n : j < k => ids[j] < ids[k]
        /\ \A i \in I : \E k \in 1 .. n : ids[k] = i
    BY <1>4, AscendingOf DEF Increasing
  <1>. HIDE DEF n, ids
  <1>6. ASSUME NEW k \in 1 .. n
        PROVE  LET x == CHOOSE e \in P : e.id = ids[k] IN
               x \in P /\ x \in Submittable /\ x.id = ids[k]
    <2>1. \E e \in P : e.id = ids[k]
      BY <1>5
    <2>. QED
      BY <1>3, <2>1
  <1>7. \A k \in 1 .. n : /\ q[k] \in Messages /\ q[k].type = "SUBMIT"
                         /\ q[k].event \in P /\ q[k].event.id = ids[k]
    BY <1>5, <1>6, MessagesMade
  <1>8. q = [k \in 1 .. n |-> q[k]]
    BY <1>5
  <1>. HIDE DEF q
  <1>9. q \in [1 .. n -> Messages]
    BY <1>7, <1>8
  <1>10. q \in Seq(Messages) /\ Len(q) = n
    BY <1>5, <1>9
  <1>11. \A e \in P : \E k \in 1 .. n : q[k].event.id = e.id
    BY ZenonT(30), <1>5, <1>7
  <1>12. ASSUME NEW j \in 1 .. n, NEW k \in 1 .. n, q[j].event.id < q[k].event.id
         PROVE  j < k
    <2>1. ids[j] \in Nat /\ ids[k] \in Nat /\ ids[j] < ids[k]
      BY <1>3, <1>5, <1>7, <1>12
    <2>2. ~(k < j) /\ k # j
      BY <1>5, <2>1
    <2>. QED
      BY <1>5, <2>2
  <1>. QED
    BY <1>2, <1>7, <1>10, <1>11, <1>12 DEF P

\* What a new connection opens with.
Opening(c) == <<Hello(IF c \in Readers THEN position[c] ELSE 0)>>
                  \o (IF c \in Daemons THEN Unacknowledged(c) ELSE <<>>)

LEMMA OpeningIs ==
    ASSUME HInv, NEW c \in Clients
    PROVE  LET q == IF c \in Daemons THEN Unacknowledged(c) ELSE <<>>
               u == Opening(c)
           IN /\ u \in Seq(Messages) /\ Len(u) = 1 + Len(q) /\ Len(q) \in Nat
              /\ u[1].type = "HELLO" /\ (c \in Readers => u[1].from = position[c])
              /\ \A k \in 2 .. Len(u) : u[k] = q[k - 1] /\ k - 1 \in 1 .. Len(q)
  <1>. DEFINE p == IF c \in Readers THEN position[c] ELSE 0
              h == Hello(p)
              H == <<h>>
              q == IF c \in Daemons THEN Unacknowledged(c) ELSE <<>>
              u == H \o q
  <1>1. p \in Nat
    <2>1. ASSUME c \in Readers
          PROVE  position[c] \in Nat
      <3>1. GivenOK(c, position[c], taken[c], log, hist) /\ Len(log) \in Nat
        BY <2>1, RoomIsLast DEF HInv, GivenInv
      <3>. QED
        BY <3>1 DEF GivenOK
    <2>. QED
      BY <2>1
  <1>2. u = Opening(c)
    BY DEF Opening
  <1>3. p = position[c] \/ c \notin Readers
    OBVIOUS
  <1>. HIDE DEF p
  <1>4. h \in Messages /\ h.type = "HELLO" /\ h.from = p
    BY <1>1, MessagesMade
  <1>5. q \in Seq(Messages)
    BY UnacknowledgedOK
  <1>. HIDE DEF h, q
  <1>6. H \in Seq(Messages) /\ Len(H) = 1 /\ H[1] = h
    BY <1>4
  <1>. HIDE DEF H
  <1>7. /\ u \in Seq(Messages) /\ Len(u) = 1 + Len(q) /\ Len(q) \in Nat
        /\ u[1] = h
        /\ \A k \in 2 .. Len(u) : u[k] = q[k - 1] /\ k - 1 \in 1 .. Len(q)
    <2>1. /\ u \in Seq(Messages) /\ Len(u) = Len(H) + Len(q) /\ Len(q) \in Nat
          /\ \A k \in 1 .. Len(H) : u[k] = H[k]
          /\ \A k \in Len(H) + 1 .. Len(u) : u[k] = q[k - Len(H)]
      BY ZenonT(30), <1>5, <1>6, Concatenated
    <2>. QED
      BY <1>6, <2>1
  <1>. HIDE DEF u
  <1>. QED
    BY <1>2, <1>3, <1>4, <1>7 DEF q

LEMMA OpeningOK ==
    ASSUME HInv, NEW c \in Clients
    PROVE  LET u == Opening(c) IN
           /\ u \in Seq(Messages) /\ u # <<>>
           /\ u[1].type = "HELLO" /\ (c \in Readers => u[1].from = position[c])
           /\ \A k \in 2 .. Len(u) : u[k].type = "SUBMIT"
           /\ \A k \in 1 .. Len(u) : u[k].type # "HEARTBEAT"
  <1>. DEFINE q == IF c \in Daemons THEN Unacknowledged(c) ELSE <<>>
              u == Opening(c)
  <1>1. /\ u \in Seq(Messages) /\ Len(u) = 1 + Len(q) /\ Len(q) \in Nat
        /\ u[1].type = "HELLO" /\ (c \in Readers => u[1].from = position[c])
        /\ \A k \in 2 .. Len(u) : u[k] = q[k - 1] /\ k - 1 \in 1 .. Len(q)
    BY OpeningIs
  <1>2. \A k \in 1 .. Len(q) : q[k].type = "SUBMIT"
    BY UnacknowledgedOK
  <1>. HIDE DEF q, u
  <1>3. \A k \in 2 .. Len(u) : u[k].type = "SUBMIT"
    BY <1>1, <1>2
  <1>4. \A k \in 1 .. Len(u) : u[k].type # "HEARTBEAT"
    <2>1. \A k \in 1 .. Len(u) : k = 1 \/ k \in 2 .. Len(u)
      BY <1>1
    <2>. QED
      BY <1>1, <1>3, <2>1
  <1>5. u # <<>>
    BY <1>1
  <1>. QED
    BY <1>1, <1>3, <1>4, <1>5 DEF u

LEMMA ConnectKeeps ==
    ASSUME HInv, NEW c \in Clients, Connect(c)
    PROVE  HInv'
  <1>. DEFINE u == Opening(c)
              x == NewSocket(c, u)
              n == Len(sockets) + 1
              ss == Append(sockets, x)
  <1>1. /\ conn[c] = 0 /\ sockets' = ss /\ conn' = [conn EXCEPT ![c] = Len(sockets')]
        /\ Unchanged /\ now' = now /\ pending' = pending /\ position' = position
        /\ taken' = taken /\ view' = view /\ moves' = moves
    BY DEF Connect, Opening
  <1>2. /\ u \in Seq(Messages) /\ u # <<>>
        /\ u[1].type = "HELLO" /\ (c \in Readers => u[1].from = position[c])
        /\ \A k \in 2 .. Len(u) : u[k].type = "SUBMIT"
        /\ \A k \in 1 .. Len(u) : u[k].type # "HEARTBEAT"
    BY OpeningOK
  <1>. HIDE DEF u
  <1>3. <<>> \in Seq(Frame)
    OBVIOUS
  <1>4. /\ x \in Socket /\ x.client = c /\ x.open /\ x.live /\ x.greeted = FALSE
        /\ x.up = u /\ x.down = <<>>
    BY <1>2, <1>3 DEF NewSocket, Socket
  <1>. HIDE DEF x
  <1>5. /\ SocketsOK(sockets, conn) /\ StreamsOK(sockets) /\ sockets \in Seq(Socket)
        /\ ClientsInv /\ conn \in [Clients -> {Closed} \cup Nat]
    BY DEF HInv, WireInv, SocketsOK, ClientsInv
  <1>6. /\ ss \in Seq(Socket) /\ Len(ss) = n /\ Len(sockets) \in Nat /\ n \in Nat /\ n \in 1 .. n
        /\ ss[n] = x /\ \A k \in 1 .. Len(sockets) : ss[k] = sockets[k]
    BY <1>4, <1>5
  <1>. HIDE DEF ss
  <1>7. conn'[c] = n /\ \A e \in Clients : e # c => conn'[e] = conn[e]
    BY <1>1, <1>5, <1>6
  <1>8. conn' \in [Clients -> {Closed} \cup Nat] /\ n # Closed
    BY <1>1, <1>5, <1>6 DEF Closed
  <1>9. ClientsInv'
    BY <1>1, <1>5, <1>7, <1>8 DEF ClientsInv
  <1>10. \A k \in 1 .. Len(ss) : k = n \/ k \in 1 .. Len(sockets)
    BY <1>6
  <1>. HIDE DEF n
  <1>11. ASSUME NEW k \in 1 .. Len(ss)
         PROVE  SocketOK(ss[k], k, conn')
    <2>1. CASE k = n
      BY <1>2, <1>4, <1>6, <1>7, <2>1 DEF SocketOK
    <2>2. CASE k \in 1 .. Len(sockets)
      <3>1. SocketOK(sockets[k], k, conn) /\ ss[k] = sockets[k] /\ sockets[k] \in Socket
        BY <1>5, <1>6, <2>2 DEF SocketsOK
      <3>2. sockets[k].client \in Clients /\ k # 0
        BY <2>2, <3>1, SocketParts
      <3>3. sockets[k].live => conn'[sockets[k].client] = k
        BY <1>1, <1>7, <3>1, <3>2 DEF SocketOK
      <3>. QED
        BY <3>1, <3>3 DEF SocketOK
    <2>. QED
      BY <1>10, <2>1, <2>2
  <1>12. ASSUME NEW e \in Clients, conn'[e] > 0, e # c
         PROVE  /\ conn'[e] = conn[e] /\ conn'[e] \in 1 .. Len(ss)
                /\ conn'[e] \in 1 .. Len(sockets) /\ ss[conn'[e]] = sockets[conn'[e]]
                /\ ss[conn'[e]].live /\ ss[conn'[e]].client = e
    <2>1. conn'[e] = conn[e] /\ conn[e] \in 1 .. Len(sockets)
      BY <1>5, <1>7, <1>12 DEF SocketsOK
    <2>2. conn[e] \in 1 .. Len(ss)
      BY <1>6, <2>1 DEF n
    <2>. QED
      BY <1>5, <1>6, <1>12, <2>1, <2>2 DEF SocketsOK
  <1>13. SocketsOK(ss, conn')
    BY <1>4, <1>6, <1>7, <1>11, <1>12 DEF SocketsOK
  <1>14. ASSUME NEW e \in Readers, conn'[e] > 0
         PROVE  StreamOK(e, ss[conn'[e]], position[e], log, hist)
    <2>0. e \in Clients
      BY DEF Clients
    <2>1. CASE e = c
      <3>1. Ungreeted(x, position[e])
        BY <1>2, <1>4, <2>1 DEF Ungreeted
      <3>. QED
        BY <1>4, <1>6, <1>7, <2>1, <3>1 DEF StreamOK
    <2>2. CASE e # c
      BY <1>5, <1>12, <1>14, <2>0, <2>2 DEF StreamsOK
    <2>. QED
      BY <2>1, <2>2
  <1>. QED
    BY <1>1, <1>9, <1>13, <1>14, WireStepKeeps

-----------------------------------------------------------------------------
(***************************************************************************)
(* A client takes a frame.                                                 *)
(***************************************************************************)
\* Where a client's position goes with the events E.
Onto(p, E) == IF E = <<>> THEN p ELSE E[Len(E)]

\* The first of the frames on their way, and what it does to the position.
LEMMA FirstFrame ==
    ASSUME NEW c, NEW p \in 0 .. Len(log), NEW D \in Seq(Frame), D # <<>>, Len(log) \in Nat,
           Complete(c, D, p, log, hist)
    PROVE  LET E == D[1].events
               q == Onto(p, E)
           IN /\ 1 \in 1 .. Len(D) /\ E \in Seq(Nat) /\ Len(E) \in Nat
              /\ q \in p .. Len(log) /\ q \in 0 .. Len(log)
              /\ \A a \in 1 .. Len(E) : E[a] \in p + 1 .. q /\ E[a] \in Nat
              /\ \A a, b \in 1 .. Len(E) : a < b => E[a] < E[b]
              /\ E = <<>> => q = p
              /\ E # <<>> => Len(E) \in 1 .. Len(E) /\ q = E[Len(E)]
              /\ \A j \in 2 .. Len(D) : \A a \in 1 .. Len(D[j].events) :
                    D[j].events[a] \in q + 1 .. Len(log)
  <1>. DEFINE E == D[1].events
              m == Len(E)
              q == Onto(p, E)
              L == Len(log)
  <1>1. /\ 1 \in 1 .. Len(D) /\ Len(D) \in Nat /\ E \in Seq(Nat) /\ m \in Nat
        /\ \A a \in 1 .. m : E[a] \in Nat
    <2>1. 1 \in 1 .. Len(D)
      OBVIOUS
    <2>. QED
      BY <2>1, FrameParts
  <1>2. \A a \in 1 .. m : E[a] \in p + 1 .. L
    BY <1>1 DEF Complete, Within
  <1>3. \A a, b \in 1 .. m : a < b => E[a] < E[b]
    BY <1>1 DEF Complete, Ascends
  <1>4. E = <<>> => q = p
    BY DEF Onto
  <1>5. E # <<>> => m \in 1 .. m /\ q = E[m]
    BY <1>1 DEF Onto
  <1>6. \A j \in 2 .. Len(D) : \A a \in 1 .. Len(D[j].events) :
            /\ D[j].events[a] \in p + 1 .. L
            /\ \A b \in 1 .. m : E[b] < D[j].events[a]
    <2>1. \A j \in 2 .. Len(D) : j \in 1 .. Len(D) /\ 1 < j
      BY <1>1
    <2>. QED
      BY <1>1, <2>1 DEF Complete, Within, Ascends
  <1>. HIDE DEF E, m, q
  <1>7. q \in p .. L /\ q \in 0 .. L
    BY <1>2, <1>4, <1>5
  <1>8. \A a \in 1 .. m : E[a] <= q
    <2>. TAKE a \in 1 .. m
    <2>1. E # <<>> /\ m \in 1 .. m /\ q = E[m]
      BY <1>1, <1>5 DEF m
    <2>2. a = m \/ a < m
      BY <1>1
    <2>. QED
      BY <1>1, <1>3, <2>1, <2>2
  <1>9. \A j \in 2 .. Len(D) : \A a \in 1 .. Len(D[j].events) : D[j].events[a] \in q + 1 .. L
    BY <1>2, <1>4, <1>5, <1>6, <1>7
  <1>10. \A a \in 1 .. m : E[a] \in p + 1 .. q
    BY <1>2, <1>7, <1>8
  <1>. QED
    BY <1>1, <1>3, <1>4, <1>5, <1>7, <1>9, <1>10 DEF E, m, q, L

\* What a client has been given, with the frame it takes.
LEMMA TakenGiven ==
    ASSUME NEW c, NEW p, NEW t, NEW D \in Seq(Frame), D # <<>>, Len(log) \in Nat,
           GivenOK(c, p, t, log, hist), Complete(c, D, p, log, hist)
    PROVE  LET E == D[1].events IN GivenOK(c, Onto(p, E), t \o E, log, hist)
  <1>. DEFINE E == D[1].events
              q == Onto(p, E)
              u == t \o E
              L == Len(log)
  <1>1. /\ p \in 0 .. L /\ t \in Seq(Nat) /\ \A i \in 1 .. Len(t) : t[i] \in 1 .. p
        /\ \A i, j \in 1 .. Len(t) : i < j => t[i] < t[j]
        /\ \A n \in 1 .. p : Owed(c, n, log, hist) => \E i \in 1 .. Len(t) : t[i] = n
    BY DEF GivenOK
  <1>2. /\ 1 \in 1 .. Len(D) /\ E \in Seq(Nat) /\ Len(E) \in Nat
        /\ q \in p .. L /\ q \in 0 .. L
        /\ \A a \in 1 .. Len(E) : E[a] \in p + 1 .. q /\ E[a] \in Nat
        /\ \A a, b \in 1 .. Len(E) : a < b => E[a] < E[b]
        /\ \A j \in 2 .. Len(D) : \A a \in 1 .. Len(D[j].events) : D[j].events[a] \in q + 1 .. L
    BY <1>1, FirstFrame
  <1>3. \A n \in p + 1 .. L : Owed(c, n, log, hist) => Brings(D, n)
    BY DEF Complete
  <1>. DEFINE Owes(n) == Owed(c, n, log, hist)
              m == Len(E)
              k == Len(t)
  <1>4. /\ u \in Seq(Nat) /\ Len(u) = k + m /\ k \in Nat /\ m \in Nat
        /\ \A i \in 1 .. k : u[i] = t[i] /\ i \in 1 .. Len(u)
        /\ \A i \in 1 .. m : u[k + i] = E[i] /\ k + i \in 1 .. Len(u)
        /\ \A i \in k + 1 .. Len(u) : u[i] = E[i - k] /\ i - k \in 1 .. m
        /\ \A i \in 1 .. Len(u) : i \in 1 .. k \/ i \in k + 1 .. Len(u)
    <2>1. /\ u \in Seq(Nat) /\ Len(u) = k + m /\ k \in Nat /\ m \in Nat
          /\ \A i \in 1 .. k : u[i] = t[i]
          /\ \A i \in 1 .. m : u[k + i] = E[i]
          /\ \A i \in k + 1 .. Len(u) : u[i] = E[i - k]
      BY SMTT(30), <1>1, <1>2, Concatenated
    <2>. HIDE DEF u, k, m
    <2>. QED
      BY <2>1
  <1>5. ASSUME NEW n \in p + 1 .. q, Owes(n)
        PROVE  \E a \in 1 .. m : E[a] = n
    <2>1. Brings(D, n)
      BY <1>1, <1>2, <1>3, <1>5
    <2>2. PICK j \in 1 .. Len(D) : \E a \in 1 .. Len(D[j].events) : D[j].events[a] = n
      BY <2>1 DEF Brings
    <2>3. j = 1
      <3>1. CASE j # 1
        <4>1. j \in 2 .. Len(D)
          BY <1>2, <3>1
        <4>2. n \in q + 1 .. L
          BY <1>2, <2>2, <4>1
        <4>. QED
          BY <1>1, <1>2, <4>2
      <3>. QED
        BY <3>1
    <2>. QED
      BY <2>2, <2>3
  <1>. HIDE DEF E, q, u, m, k, Owes
  <1>6. \A i \in 1 .. Len(u) : u[i] \in 1 .. q
    <2>1. \A i \in 1 .. k : u[i] \in 1 .. q
      <3>. TAKE i \in 1 .. k
      <3>1. u[i] = t[i] /\ t[i] \in 1 .. p
        BY <1>1, <1>4 DEF k
      <3>. QED
        BY <1>1, <1>2, <3>1
    <2>2. \A i \in k + 1 .. Len(u) : u[i] \in 1 .. q
      <3>. TAKE i \in k + 1 .. Len(u)
      <3>1. u[i] = E[i - k] /\ E[i - k] \in p + 1 .. q
        BY <1>2, <1>4 DEF m
      <3>. QED
        BY <1>1, <1>2, <3>1
    <2>. QED
      BY <1>4, <2>1, <2>2
  <1>7. ASSUME NEW i \in 1 .. Len(u), NEW j \in 1 .. Len(u), i < j
        PROVE  u[i] < u[j]
    <2>1. CASE i \in 1 .. k /\ j \in 1 .. k
      BY <1>1, <1>4, <1>7, <2>1 DEF k
    <2>2. CASE i \in 1 .. k /\ j \in k + 1 .. Len(u)
      <3>1. t[i] \in 1 .. p /\ u[i] = t[i]
        BY <1>1, <1>4, <2>2 DEF k
      <3>2. u[j] = E[j - k] /\ E[j - k] \in p + 1 .. q
        BY <1>2, <1>4, <2>2 DEF m
      <3>. QED
        BY SMTT(30), <1>1, <1>2, <3>1, <3>2
    <2>3. CASE i \in k + 1 .. Len(u) /\ j \in k + 1 .. Len(u)
      <3>1. /\ i - k \in 1 .. m /\ j - k \in 1 .. m /\ i - k < j - k
            /\ u[i] = E[i - k] /\ u[j] = E[j - k]
        BY <1>4, <1>7, <2>3
      <3>. QED
        BY SMTT(30), <1>2, <3>1 DEF m
    <2>. QED
      BY <1>4, <1>7, <2>1, <2>2, <2>3
  <1>8. ASSUME NEW n \in 1 .. q, Owes(n)
        PROVE  \E i \in 1 .. Len(u) : u[i] = n
    <2>1. CASE n \in 1 .. p
      <3>1. PICK i \in 1 .. k : t[i] = n
        BY <1>1, <1>8, <2>1 DEF Owes, k
      <3>. QED
        BY <1>4, <3>1
    <2>2. CASE n \in p + 1 .. q
      <3>1. PICK a \in 1 .. m : E[a] = n
        BY <1>5, <1>8, <2>2
      <3>. QED
        BY <1>4, <3>1
    <2>. QED
      BY <1>1, <1>2, <2>1, <2>2
  <1>. QED
    BY <1>2, <1>4, <1>6, <1>7, <1>8 DEF GivenOK, Owes, L, u, q, E

\* What is still to come after it.
LEMMA TakenRest ==
    ASSUME NEW c, NEW p \in 0 .. Len(log), NEW D \in Seq(Frame), D # <<>>, Len(log) \in Nat,
           Complete(c, D, p, log, hist)
    PROVE  Complete(c, Tail(D), Onto(p, D[1].events), log, hist)
  <1>. DEFINE E == D[1].events
              q == Onto(p, E)
              T == Tail(D)
              L == Len(log)
  <1>1. /\ 1 \in 1 .. Len(D) /\ E \in Seq(Nat) /\ Len(E) \in Nat
        /\ q \in p .. L /\ q \in 0 .. L
        /\ \A a \in 1 .. Len(E) : E[a] \in p + 1 .. q /\ E[a] \in Nat
        /\ \A j \in 2 .. Len(D) : \A a \in 1 .. Len(D[j].events) : D[j].events[a] \in q + 1 .. L
    BY FirstFrame
  <1>2. /\ T \in Seq(Frame) /\ Len(D) \in Nat /\ Len(T) = Len(D) - 1
        /\ \A k \in 1 .. Len(T) : T[k] = D[k + 1] /\ k + 1 \in 2 .. Len(D) /\ k + 1 \in 1 .. Len(D)
        /\ \A j \in 2 .. Len(D) : j - 1 \in 1 .. Len(T) /\ D[j] = T[j - 1]
    <2>1. /\ T \in Seq(Frame) /\ Len(D) \in Nat /\ Len(T) = Len(D) - 1
          /\ \A k \in 1 .. Len(D) - 1 : T[k] = D[k + 1] /\ k + 1 \in 2 .. Len(D)
      BY TailParts
    <2>. HIDE DEF T
    <2>. QED
      BY <2>1
  <1>3. /\ Ascends(D)
        /\ \A n \in p + 1 .. L : Owed(c, n, log, hist) => Brings(D, n)
        /\ \A j \in 1 .. Len(D) : StateOK(D[j], j = 1, p, hist)
    BY DEF Complete
  <1>. HIDE DEF E, q, T
  <1>4. Ascends(T)
    <2>. SUFFICES ASSUME NEW j \in 1 .. Len(T), NEW k \in 1 .. Len(T),
                         NEW a \in 1 .. Len(T[j].events), NEW b \in 1 .. Len(T[k].events),
                         j < k \/ (j = k /\ a < b)
                  PROVE  T[j].events[a] < T[k].events[b]
      BY DEF Ascends
    <2>1. j + 1 < k + 1 \/ (j + 1 = k + 1 /\ a < b)
      OBVIOUS
    <2>2. T[j] = D[j + 1] /\ T[k] = D[k + 1] /\ j + 1 \in 1 .. Len(D) /\ k + 1 \in 1 .. Len(D)
      BY <1>2
    <2>. QED
      BY <1>3, <2>1, <2>2 DEF Ascends
  <1>5. Within(T, q, L)
    BY <1>1, <1>2 DEF Within
  <1>6. ASSUME NEW n \in q + 1 .. L, Owed(c, n, log, hist)
        PROVE  Brings(T, n)
    <2>1. n \in p + 1 .. L /\ ~(n <= q)
      BY <1>1, <1>6
    <2>2. PICK j \in 1 .. Len(D) : \E a \in 1 .. Len(D[j].events) : D[j].events[a] = n
      BY <1>3, <1>6, <2>1 DEF Brings
    <2>3. j # 1
      <3>1. CASE j = 1
        <4>1. PICK a \in 1 .. Len(E) : E[a] = n
          BY <2>2, <3>1 DEF E
        <4>2. n \in p + 1 .. q
          BY <1>1, <4>1
        <4>. QED
          BY <2>1, <4>2
      <3>. QED
        BY <3>1
    <2>4. j - 1 \in 1 .. Len(T) /\ D[j] = T[j - 1]
      BY <1>2, <2>3
    <2>. QED
      BY <2>2, <2>4 DEF Brings
  <1>7. ASSUME NEW k \in 1 .. Len(T)
        PROVE  StateOK(T[k], k = 1, q, hist)
    <2>1. T[k] = D[k + 1] /\ StateOK(D[k + 1], k + 1 = 1, p, hist) /\ k + 1 # 1
      BY <1>2, <1>3
    <2>. QED
      BY <2>1 DEF StateOK
  <1>. QED
    BY <1>4, <1>5, <1>6, <1>7 DEF Complete, L, T, q, E

\* A stream is entitled to everything, so its frames leave no number out.
LEMMA NothingLeftOut ==
    ASSUME NEW c \in Dashboards, NEW p \in 0 .. Len(log), NEW D \in Seq(Frame), D # <<>>,
           Len(log) \in Nat, Complete(c, D, p, log, hist)
    PROVE  LET E == D[1].events IN
           /\ \A a \in 1 .. Len(E) : E[a] = p + a
           /\ Onto(p, E) = p + Len(E)
  <1>. DEFINE E == D[1].events
              m == Len(E)
              q == Onto(p, E)
              L == Len(log)
              S == {k \in 0 .. m : \A a \in 1 .. k : E[a] = p + a}
  <1>1. /\ 1 \in 1 .. Len(D) /\ E \in Seq(Nat) /\ m \in Nat
        /\ q \in p .. L
        /\ \A a \in 1 .. m : E[a] \in p + 1 .. q /\ E[a] \in Nat
        /\ \A a, b \in 1 .. m : a < b => E[a] < E[b]
        /\ E = <<>> => q = p
        /\ E # <<>> => m \in 1 .. m /\ q = E[m]
        /\ \A j \in 2 .. Len(D) : \A a \in 1 .. Len(D[j].events) : D[j].events[a] \in q + 1 .. L
    BY FirstFrame
  <1>2. p \in Nat /\ c \notin Daemons /\ Len(D) \in Nat
    BY HostedAssumption
  <1>3. \A n \in p + 1 .. L : \E j \in 1 .. Len(D) : \E a \in 1 .. Len(D[j].events) : D[j].events[a] = n
    <2>1. \A n \in p + 1 .. L : Owed(c, n, log, hist)
      BY <1>2 DEF Owed, Recipient, CanSee
    <2>. QED
      BY <2>1 DEF Complete, Brings
  <1>4. ASSUME NEW n \in p + 1 .. q
        PROVE  \E a \in 1 .. m : E[a] = n
    <2>1. PICK j \in 1 .. Len(D) : \E a \in 1 .. Len(D[j].events) : D[j].events[a] = n
      BY SMTT(30), <1>1, <1>2, <1>3
    <2>2. CASE j # 1
      <3>1. j \in 2 .. Len(D)
        BY <1>2, <2>2
      <3>2. n \in q + 1 .. L
        BY <1>1, <2>1, <3>1
      <3>. QED
        BY <1>1, <1>2, <3>2
    <2>. QED
      BY <2>1, <2>2
  <1>. HIDE DEF E, m, q, L
  <1>5. 0 \in S
    BY <1>1
  <1>6. ASSUME NEW k \in 0 .. m - 1, k \in S
        PROVE  k + 1 \in S
    <2>. DEFINE n == p + k + 1
    <2>1. k + 1 \in 1 .. m /\ E[k + 1] \in p + 1 .. q /\ n \in Nat
          /\ \A a \in 1 .. k : E[a] = p + a
      BY SMTT(30), <1>1, <1>2, <1>6
    <2>2. E[k + 1] >= n
      <3>1. CASE k = 0
        BY <1>2, <2>1, <3>1
      <3>2. CASE k > 0
        <4>0. k \in 1 .. k /\ k \in 1 .. m /\ k < k + 1
          BY <1>1, <2>1, <3>2
        <4>1. k \in 1 .. m /\ k < k + 1 /\ E[k] = p + k
          BY <2>1, <4>0
        <4>2. E[k] < E[k + 1]
          BY <1>1, <2>1, <4>1
        <4>. QED
          BY <1>2, <2>1, <4>1, <4>2
      <3>. QED
        BY <3>1, <3>2
    <2>3. n \in p + 1 .. q
      BY <1>1, <1>2, <2>1, <2>2
    <2>4. PICK a \in 1 .. m : E[a] = n
      BY <1>4, <2>3
    <2>5. ~(a <= k)
      BY <1>2, <2>1, <2>4
    <2>6. ~(k + 1 < a)
      <3>1. k + 1 < a => E[k + 1] < E[a]
        BY <1>1, <2>1
      <3>. QED
        BY SMTT(30), <1>1, <1>2, <2>1, <2>2, <2>4, <3>1
    <2>7. a = k + 1
      BY <1>1, <2>1, <2>5, <2>6
    <2>8. E[k + 1] = p + (k + 1)
      BY <1>2, <2>4, <2>7
    <2>9. \A b \in 1 .. k + 1 : b \in 1 .. k \/ b = k + 1
      OBVIOUS
    <2>10. \A b \in 1 .. k + 1 : E[b] = p + b
      BY <2>1, <2>8, <2>9
    <2>. QED
      BY <1>1, <2>1, <2>10
  <1>7. m \in S
    <2>. HIDE DEF S
    <2>1. \A k \in 0 .. m : k \in S
      BY <1>1, <1>5, <1>6, IntervalInduction
    <2>. QED
      BY <1>1, <2>1
  <1>8. q = p + m
    <2>1. CASE E = <<>>
      BY <1>1, <1>2, <2>1 DEF m
    <2>2. CASE E # <<>>
      BY <1>1, <1>7, <2>2
    <2>. QED
      BY <2>1, <2>2
  <1>. QED
    BY <1>7, <1>8 DEF q, m, E

\* Reducing the next events into a state of the log's past, or of its future,
\* ends in a state the log went through.
LEMMA ReducedView ==
    ASSUME LogInv, NEW p \in Nat, NEW m \in Nat, p + m <= Len(log), NEW v, ViewOK(v, p, hist),
           NEW E, Len(E) = m, DOMAIN E = 1 .. m, \A a \in 1 .. m : E[a] = p + a
    PROVE  ViewOK(Reduced(v, [n \in DOMAIN E |-> log[E[n]]])[m], p + m, hist)
  <1>. DEFINE es == [n \in DOMAIN E |-> log[E[n]]]
              R == Reduced(v, es)
              L == Len(log)
              At(k) == IF v.seq > p + k THEN hist[v.seq + 1] ELSE hist[p + k + 1]
              S == {k \in 0 .. m : R[k] = At(k)}
  <1>1. L \in Nat /\ Len(hist) = L + 1
    BY RoomIsLast
  <1>2. v.seq \in p .. L /\ v = hist[v.seq + 1]
    BY <1>1 DEF ViewOK
  <1>3. /\ \A n \in 1 .. L : log[n].seq = n /\ hist[n + 1] = Applied(hist[n], log[n])
        /\ \A n \in 1 .. L + 1 : hist[n] \in Core!Room /\ hist[n].seq = n - 1
    BY <1>1 DEF LogInv, Folds, RoomOK
  <1>4. Len(es) = m /\ \A n \in 1 .. m : es[n] = log[p + n]
    <2>1. es \in [1 .. m -> {log[p + n] : n \in 1 .. m}]
      OBVIOUS
    <2>. QED
      BY <2>1
  <1>. HIDE DEF es
  <1>5. R[0] = v /\ \A n \in 1 .. m : R[n] = Applied(R[n - 1], log[p + n])
    BY <1>4, ReducedIs
  <1>. HIDE DEF R
  <1>6. 0 \in S
    BY <1>1, <1>2, <1>5
  <1>7. ASSUME NEW k \in 0 .. m - 1, k \in S
        PROVE  k + 1 \in S
    <2>. DEFINE n == p + k + 1
    <2>1. /\ n \in 1 .. L /\ k + 1 \in 1 .. m /\ (k + 1) - 1 = k /\ p + (k + 1) = n
          /\ n \in Nat /\ v.seq \in Nat /\ log[n].seq = n
      BY SMTT(30), <1>1, <1>2, <1>3
    <2>2. R[k + 1] = Applied(R[k], log[n]) /\ R[k] = At(k)
      BY <1>5, <1>7, <2>1
    <2>3. CASE v.seq > p + k
      <3>1. R[k] = hist[v.seq + 1] /\ R[k].seq = v.seq /\ n <= v.seq
        <4>1. R[k] = hist[v.seq + 1]
          BY <2>2, <2>3
        <4>2. R[k] = v
          BY <1>2, <4>1
        <4>. QED
          BY SMTT(30), <2>1, <2>3, <4>1, <4>2
      <3>2. R[k + 1] = hist[v.seq + 1]
        BY <2>1, <2>2, <3>1 DEF Applied, Core!Reduce
      <3>3. At(k + 1) = hist[v.seq + 1]
        BY <2>1, <3>1
      <3>. QED
        BY <2>1, <3>2, <3>3
    <2>4. CASE ~(v.seq > p + k)
      <3>1. R[k] = hist[n] /\ ~(v.seq > n)
        BY SMTT(30), <2>1, <2>2, <2>4
      <3>2. R[k + 1] = hist[n + 1]
        BY <1>3, <2>1, <2>2, <3>1
      <3>3. At(k + 1) = hist[n + 1]
        BY <2>1, <3>1
      <3>. QED
        BY <2>1, <3>2, <3>3
    <2>. QED
      BY <2>3, <2>4
  <1>8. m \in S
    <2>. HIDE DEF S
    <2>1. \A k \in 0 .. m : k \in S
      BY <1>6, <1>7, IntervalInduction
    <2>. QED
      BY <2>1
  <1>9. R[m] = At(m)
    BY <1>8
  <1>10. ViewOK(At(m), p + m, hist)
    <2>1. CASE v.seq > p + m
      BY <1>1, <1>2, <1>3, <2>1 DEF ViewOK
    <2>2. CASE ~(v.seq > p + m)
      <3>. DEFINE n == p + m
      <3>1. n \in 0 .. L /\ n + 1 \in 1 .. L + 1 /\ At(m) = hist[n + 1] /\ n \in Nat
        BY <1>1, <2>2
      <3>. HIDE DEF n, At
      <3>2. hist[n + 1] \in Core!Room /\ hist[n + 1].seq = n
        BY <1>3, <3>1
      <3>3. ViewOK(At(m), n, hist)
        BY <1>1, <3>1, <3>2 DEF ViewOK
      <3>. QED
        BY <3>3 DEF n
    <2>. QED
      BY <2>1, <2>2
  <1>. QED
    BY <1>9, <1>10 DEF R, es

\* What a client keeps, when one reader has moved on.
LEMMA MovedOn ==
    ASSUME HInv, NEW c \in Readers, NEW q, NEW E, NEW v,
           position' = [position EXCEPT ![c] = q], taken' = [taken EXCEPT ![c] = @ \o E],
           view' = (IF c \in Daemons THEN view ELSE [view EXCEPT ![c] = v]),
           log' = log, hist' = hist,
           GivenOK(c, q, taken[c] \o E, log, hist), c \in Dashboards => ViewOK(v, q, hist)
    PROVE  GivenInv'
  <1>1. /\ position = [e \in Readers |-> position[e]] /\ taken = [e \in Readers |-> taken[e]]
        /\ view = [w \in Dashboards |-> view[w]]
        /\ \A e \in Readers : GivenOK(e, position[e], taken[e], log, hist)
        /\ \A w \in Dashboards : ViewOK(view[w], position[w], hist)
    BY DEF HInv, GivenInv
  <1>2. /\ position' = [e \in Readers |-> position'[e]] /\ position'[c] = q
        /\ \A e \in Readers : e # c => position'[e] = position[e]
    BY <1>1
  <1>3. /\ taken' = [e \in Readers |-> taken'[e]] /\ taken'[c] = taken[c] \o E
        /\ \A e \in Readers : e # c => taken'[e] = taken[e]
    BY <1>1
  <1>4. /\ view' = [w \in Dashboards |-> view'[w]]
        /\ c \in Dashboards => view'[c] = v
        /\ \A w \in Dashboards : w # c => view'[w] = view[w]
    BY <1>1, HostedAssumption
  <1>5. \A e \in Readers : GivenOK(e, position'[e], taken'[e], log, hist)
    BY <1>1, <1>2, <1>3
  <1>6. ASSUME NEW w \in Dashboards
        PROVE  ViewOK(view'[w], position'[w], hist)
    <2>1. w \in Readers
      BY DEF Readers
    <2>. QED
      BY <1>1, <1>2, <1>4, <2>1
  <1>. QED
    BY <1>2, <1>3, <1>4, <1>5, <1>6 DEF GivenInv

\* A frame brings nothing its client has passed.
LEMMA AllFresh ==
    ASSUME NEW c, NEW E \in Seq(Nat), \A a \in 1 .. Len(E) : E[a] > position[c]
    PROVE  Fresh(c, E) = E
  <1>1. {n \in DOMAIN E : E[n] > position[c]} = 1 .. Len(E)
    OBVIOUS
  <1>. QED
    BY <1>1, SubsequenceAll DEF Fresh

LEMMA TakeKeeps ==
    ASSUME HInv, NEW c \in Readers, Take(c)
    PROVE  HInv'
  <1>. DEFINE i == conn[c]
              s == sockets[i]
              D == s.down
              f == Head(D)
              E == f.events
              p == position[c]
              q == Onto(p, E)
              T == Tail(D)
              x == [s EXCEPT !.down = T]
              fresh == Fresh(c, E)
              v == IF f.type = "WELCOME" THEN f.room
                   ELSE Reduced(view[c], [n \in DOMAIN E |-> log[E[n]]])[Len(E)]
  <1>1. /\ i # 0 /\ D # <<>>
        /\ sockets' = [sockets EXCEPT ![i].down = Tail(@)]
        /\ pending' = IF c \in Daemons
                      THEN [pending EXCEPT ![c] = {e \in pending[c] : e.id # f.id}] ELSE pending
        /\ taken' = [taken EXCEPT ![c] = @ \o fresh]
        /\ position' = [position EXCEPT ![c] = Moved(c, f)]
        /\ view' = IF c \in Daemons THEN view
                   ELSE [view EXCEPT ![c] =
                           IF f.type = "WELCOME" THEN f.room
                           ELSE Reduced(@, [n \in DOMAIN fresh |-> log[fresh[n]]])[Len(fresh)]]
        /\ Unchanged /\ now' = now /\ conn' = conn /\ moves' = moves
    BY DEF Take, Unsettled
  <1>2. /\ log' = log /\ room' = room /\ hist' = hist /\ alarm' = alarm /\ missed' = missed
    BY <1>1 DEF Unchanged
  <1>3. /\ c \in Clients /\ i > 0 /\ i \in 1 .. Len(sockets) /\ s \in Socket /\ SocketOK(s, i, conn)
        /\ s.client = c /\ s.live /\ StreamOK(c, s, p, log, hist)
        /\ GivenOK(c, p, taken[c], log, hist) /\ p \in Nat
    <2>1. c \in Clients /\ conn[c] \in Nat
      BY ReaderConn
    <2>2. conn[c] > 0
      <3>1. conn[c] # 0
        BY DEF Take
      <3>. QED
        BY <2>1, <3>1
    <2>. QED
      BY <2>1, <2>2, SocketAt
  <1>4. /\ LogInv /\ AlarmInv /\ ClientsInv /\ GivenInv /\ StreamsOK(sockets) /\ Len(log) \in Nat
        /\ SocketsOK(sockets, conn)
    BY RoomIsLast DEF HInv, WireInv
  <1>5. s.greeted /\ (\A k \in 1 .. Len(s.up) : s.up[k].type # "HELLO")
        /\ Complete(c, D, p, log, hist)
    BY <1>1, <1>3 DEF StreamOK, Greeted, Ungreeted
  <1>6. D \in Seq(Frame) /\ T \in Seq(Frame) /\ f = D[1] /\ 1 \in 1 .. Len(D)
    BY <1>1, <1>3, SocketParts, TailParts
  <1>7. p \in 0 .. Len(log)
    BY <1>3 DEF GivenOK
  <1>8. /\ E \in Seq(Nat) /\ Len(E) \in Nat /\ q \in Nat
        /\ \A a \in 1 .. Len(E) : E[a] > p
    <2>1. /\ E \in Seq(Nat) /\ Len(E) \in Nat /\ q \in p .. Len(log)
          /\ \A a \in 1 .. Len(E) : E[a] \in p + 1 .. q /\ E[a] \in Nat
      <3>1. LET e == D[1].events
                o == Onto(p, e)
            IN /\ e \in Seq(Nat) /\ Len(e) \in Nat /\ o \in p .. Len(log)
               /\ \A a \in 1 .. Len(e) : e[a] \in p + 1 .. o /\ e[a] \in Nat
        <4>. HIDE DEF D, p
        <4>. QED
          BY <1>1, <1>4, <1>5, <1>6, <1>7, FirstFrame
      <3>. QED
        BY <1>6, <3>1
    <2>. HIDE DEF E, q, p
    <2>. QED
      BY <1>3, <1>4, <2>1
  <1>9. GivenOK(c, q, taken[c] \o E, log, hist) /\ Complete(c, T, q, log, hist)
    BY <1>1, <1>3, <1>4, <1>5, <1>6, <1>7, TakenGiven, TakenRest
  <1>10. fresh = E
    BY <1>8, AllFresh
  <1>11. Moved(c, f) = q
    BY <1>10 DEF Moved, Onto, Last
  <1>12. c \in Dashboards => ViewOK(v, q, hist)
    <2>. SUFFICES ASSUME c \in Dashboards
                  PROVE  ViewOK(v, q, hist)
      OBVIOUS
    <2>1. ViewOK(view[c], p, hist)
      BY <1>4 DEF GivenInv
    <2>2. StateOK(f, TRUE, p, hist)
      <3>1. StateOK(D[1], 1 = 1, p, hist)
        BY <1>5, <1>6 DEF Complete
      <3>. QED
        BY <1>6, <3>1
    <2>3. CASE f.type = "WELCOME"
      BY <2>2, <2>3 DEF StateOK, Onto
    <2>4. CASE f.type # "WELCOME"
      <3>1. (\A a \in 1 .. Len(E) : E[a] = p + a) /\ q = p + Len(E)
        <4>1. /\ \A a \in 1 .. Len(D[1].events) : D[1].events[a] = p + a
              /\ Onto(p, D[1].events) = p + Len(D[1].events)
          <5>. HIDE DEF D, p
          <5>. QED
            BY <1>1, <1>4, <1>5, <1>6, <1>7, NothingLeftOut
        <4>. QED
          BY <1>6, <4>1
      <3>2. p + Len(E) <= Len(log)
        <4>1. q \in 0 .. Len(log)
          BY <1>9 DEF GivenOK
        <4>. QED
          BY <1>4, <3>1, <4>1
      <3>3. DOMAIN E = 1 .. Len(E)
        BY <1>8
      <3>. HIDE DEF E, p, q
      <3>4. ViewOK(Reduced(view[c], [n \in DOMAIN E |-> log[E[n]]])[Len(E)], p + Len(E), hist)
        BY <1>3, <1>4, <1>8, <2>1, <3>1, <3>2, <3>3, ReducedView
      <3>. QED
        BY <2>4, <3>1, <3>4
    <2>. QED
      BY <2>3, <2>4
  <1>13. GivenInv'
    <2>1. /\ position' = [position EXCEPT ![c] = q] /\ taken' = [taken EXCEPT ![c] = @ \o E]
          /\ view' = IF c \in Daemons THEN view ELSE [view EXCEPT ![c] = v]
      BY <1>1, <1>10, <1>11
    <2>. HIDE DEF q, E, v
    <2>. QED
      BY <1>2, <1>9, <1>12, <2>1, MovedOn
  <1>14. ClientsInv'
    <2>1. ASSUME c \in Daemons
          PROVE  IsFiniteSet({e \in pending[c] : e.id # f.id})
      BY <1>4, <2>1, FS_Subset DEF ClientsInv
    <2>2. /\ pending' \in [Daemons -> SUBSET Submittable]
          /\ \A d \in Daemons : IsFiniteSet(pending'[d])
      BY <1>1, <1>4, <2>1 DEF ClientsInv
    <2>. QED
      BY <1>1, <1>4, <2>2 DEF ClientsInv
  <1>15. sockets' = [sockets EXCEPT ![i] = x]
    BY <1>1
  <1>16. /\ x \in Socket /\ x.client = s.client /\ x.open = s.open /\ x.live = s.live
         /\ x.greeted = s.greeted /\ x.up = s.up /\ x.down = T
    BY <1>3, <1>6, DownSet
  <1>. HIDE DEF x
  <1>17. SocketOK(x, i, conn)
    BY <1>3, <1>16 DEF SocketOK
  <1>18. /\ SocketsOK(sockets', conn) /\ sockets'[i] = x
         /\ \A k \in 1 .. Len(sockets) : k # i => sockets'[k] = sockets[k]
    <2>1. LET ss == [sockets EXCEPT ![i] = x]
          IN /\ SocketsOK(ss, conn) /\ ss[i] = x
             /\ \A k \in 1 .. Len(sockets) : k # i => ss[k] = sockets[k]
      <3>. HIDE DEF i
      <3>. QED
        BY <1>3, <1>16, <1>17, SameOwner
    <2>. QED
      BY <1>15, <2>1
  <1>19. StreamOK(c, x, q, log, hist)
    BY <1>5, <1>9, <1>16 DEF StreamOK, Greeted
  <1>20. position'[c] = q /\ \A e \in Readers : e # c => position'[e] = position[e]
    BY <1>1, <1>4, <1>11 DEF GivenInv
  <1>. HIDE DEF q, E, f, D, T, p
  <1>21. ASSUME NEW e \in Readers, conn[e] > 0
         PROVE  StreamOK(e, sockets'[conn[e]], position'[e], log, hist)
    <2>1. CASE e = c
      BY <1>18, <1>19, <1>20, <2>1
    <2>2. CASE e # c
      <3>1. e \in Clients
        BY DEF Clients
      <3>2. conn[e] \in 1 .. Len(sockets) /\ conn[e] # i
        BY <1>3, <1>21, <2>2, <3>1, SocketAt
      <3>3. sockets'[conn[e]] = sockets[conn[e]]
        BY <1>18, <3>2
      <3>. QED
        BY <1>4, <1>20, <1>21, <2>2, <3>3 DEF StreamsOK
    <2>. QED
      BY <2>1, <2>2
  <1>22. StreamsOK(sockets)'
    BY <1>1, <1>2, <1>21 DEF StreamsOK
  <1>23. LogInv' /\ AlarmInv'
    BY <1>1, <1>2, <1>4 DEF LogInv, AlarmInv, AlarmCovers
  <1>. QED
    BY <1>1, <1>13, <1>14, <1>18, <1>22, <1>23 DEF HInv, WireInv

-----------------------------------------------------------------------------
(***************************************************************************)
(* The beginning.                                                          *)
(***************************************************************************)
\* One entry for each session, in some order, then a request and its grant.
LEMMA BegunOK ==
    /\ Begun \in Seq(Entries) /\ Len(Begun) \in Nat
    /\ \A n \in 1 .. Len(Begun) : MayFollow(Begun[n], n - 1) /\ Begun[n].id = 0
  <1>. DEFINE who == SetToSeq(Sessions)
              c == Cardinality(Sessions)
              e(n) == [Core!Started(who[n]) EXCEPT !.seq = n]
              E == [n \in DOMAIN who |-> e(n)]
              asked == [Core!Requested(who[1], Symbols) EXCEPT !.seq = Len(who) + 1]
              grant == [Core!Grant(asked) EXCEPT !.seq = Len(who) + 2]
              F == <<asked, grant>>
  <1>1. IsFiniteSet(Sessions) /\ Sessions # {}
    <2>. DEFINE f == [d \in Daemons |-> SessionOf[d]]
    <2>1. f \in Surjection(Daemons, Sessions)
      BY DEF Surjection, Sessions
    <2>. HIDE DEF f
    <2>. QED
      BY <2>1, FS_Surjection, HostedAssumption DEF Sessions
  <1>2. c \in Nat /\ 1 \in 1 .. c /\ who \in [1 .. c -> Sessions]
    <2>1. c \in Nat /\ ExistsBijection(1 .. c, Sessions)
      BY <1>1, FS_CardinalityType
    <2>2. \E f \in [1 .. c -> Sessions] : IsInjective(f)
      BY <2>1 DEF ExistsBijection, Bijection, Injection, IsInjective
    <2>3. who \in [1 .. c -> Sessions]
      BY <2>1, <2>2 DEF SetToSeq
    <2>4. c # 0
      BY <1>1, FS_EmptySet
    <2>. QED
      BY <2>1, <2>3, <2>4
  <1>. HIDE DEF who, c
  <1>3. Len(who) = c /\ DOMAIN who = 1 .. c /\ who[1] \in Sessions
    BY <1>2
  <1>4. ASSUME NEW a \in Entries, NEW n \in Nat
        PROVE  LET x == [a EXCEPT !.seq = n] IN
               x \in Entries /\ x.seq = n /\ x.type = a.type /\ x.id = a.id /\ x.token = a.token
    BY DEF Entries
  <1>5. ASSUME NEW n \in 1 .. c
        PROVE  e(n) \in Entries /\ e(n).id = 0 /\ MayFollow(e(n), n - 1)
    <2>. DEFINE a == Core!Started(who[n])
    <2>1. /\ a \in Entries /\ a.type = "SESSION_STARTED" /\ a.id = 0
      BY <1>2, EventsMade DEF Submittable, Core!Started, Core!Blank
    <2>2. n \in Nat /\ (n - 1) + 1 = n
      BY <1>2
    <2>. HIDE DEF a
    <2>3. LET x == [a EXCEPT !.seq = n] IN
          x \in Entries /\ x.seq = n /\ x.type = a.type /\ x.id = a.id
      BY <1>4, <2>1, <2>2
    <2>. QED
      BY <2>1, <2>2, <2>3 DEF a, MayFollow
  <1>6. /\ asked \in Entries /\ asked.id = 0 /\ asked.seq = c + 1
        /\ MayFollow(asked, c)
    <2>. DEFINE a == Core!Requested(who[1], Symbols)
    <2>1. a \in Entries /\ a.type = "LEASE_REQUESTED" /\ a.id = 0
      BY <1>3, EventsMade DEF Submittable, Core!Requested, Core!Blank
    <2>2. c + 1 \in Nat
      BY <1>2
    <2>. HIDE DEF a
    <2>3. LET x == [a EXCEPT !.seq = c + 1] IN
          x \in Entries /\ x.seq = c + 1 /\ x.type = a.type /\ x.id = a.id
      BY <1>4, <2>1, <2>2
    <2>. QED
      BY <1>3, <2>1, <2>3 DEF a, MayFollow
  <1>7. grant \in Entries /\ grant.id = 0 /\ MayFollow(grant, c + 1)
    <2>. DEFINE a == Core!Grant(asked)
    <2>1. a \in Entries /\ a.type = "LEASE_GRANTED" /\ a.token = c + 1 /\ a.id = 0
      BY <1>6, AnswersMade
    <2>2. c + 2 \in Nat /\ (c + 1) + 1 = c + 2 /\ c + 1 \in 1 .. c + 2
      BY <1>2
    <2>. HIDE DEF a, asked
    <2>3. LET x == [a EXCEPT !.seq = c + 2] IN
          x \in Entries /\ x.seq = c + 2 /\ x.id = a.id /\ x.token = a.token
      BY <1>4, <2>1, <2>2
    <2>. QED
      BY <1>3, <2>1, <2>2, <2>3 DEF a, MayFollow
  <1>8. Begun = E \o F
    BY Zenon DEF Begun, who
  <1>9. /\ E \in Seq(Entries) /\ Len(E) = c /\ \A n \in 1 .. c : E[n] = e(n)
    <2>1. E \in [1 .. c -> Entries] /\ \A n \in 1 .. c : E[n] = e(n)
      BY <1>3, <1>5
    <2>. HIDE DEF E, e
    <2>. QED
      BY <1>2, <2>1
  <1>. HIDE DEF e, E, asked, grant
  <1>10. /\ F \in Seq(Entries) /\ Len(F) = 2 /\ F[1] = asked /\ F[2] = grant
    BY <1>6, <1>7
  <1>. HIDE DEF F
  <1>11. /\ Begun \in Seq(Entries) /\ Len(Begun) = c + 2
         /\ \A n \in 1 .. c : Begun[n] = e(n)
         /\ Begun[c + 1] = asked /\ Begun[c + 2] = grant
    <2>. DEFINE J == E \o F
    <2>1. /\ J \in Seq(Entries) /\ Len(J) = Len(E) + Len(F)
          /\ \A n \in 1 .. Len(E) : J[n] = E[n]
          /\ \A n \in 1 .. Len(F) : J[Len(E) + n] = F[n]
      <3>1. E \in Seq(Entries) /\ F \in Seq(Entries)
        BY <1>9, <1>10
      <3>. QED
        BY <3>1, Concatenated
    <2>2. Begun = J
      BY <1>8
    <2>. HIDE DEF J
    <2>3. J[c + 1] = F[1] /\ J[c + 2] = F[2]
      BY <1>9, <1>10, <2>1
    <2>. QED
      BY <1>9, <1>10, <2>1, <2>2, <2>3
  <1>12. ASSUME NEW n \in 1 .. c + 2
         PROVE  MayFollow(Begun[n], n - 1) /\ Begun[n].id = 0
    <2>1. n \in 1 .. c \/ n = c + 1 \/ n = c + 2
      BY <1>2
    <2>2. CASE n \in 1 .. c
      BY <1>5, <1>11, <2>2
    <2>3. CASE n = c + 1
      <3>1. n - 1 = c
        BY <1>2, <2>3
      <3>. QED
        BY <1>6, <1>11, <2>3, <3>1
    <2>4. CASE n = c + 2
      <3>1. n - 1 = c + 1
        BY <1>2, <2>4
      <3>. QED
        BY <1>7, <1>11, <2>4, <3>1
    <2>. QED
      BY <2>1, <2>2, <2>3, <2>4
  <1>. QED
    BY <1>2, <1>11, <1>12

LEMMA BegunRooms ==
    LET R == Reduced(Core!EmptyRoom, Begun) IN
    \A n \in 0 .. Len(Begun) : RoomOK(R[n]) /\ R[n].seq = n
  <1>. DEFINE N == Len(Begun)
              R == Reduced(Core!EmptyRoom, Begun)
              Good(n) == RoomOK(R[n]) /\ R[n].seq = n
              S == {n \in 0 .. N : Good(n)}
  <1>1. /\ N \in Nat
        /\ \A n \in 1 .. N : MayFollow(Begun[n], n - 1)
    BY BegunOK
  <1>2. R[0] = Core!EmptyRoom /\ \A n \in 1 .. N : R[n] = Applied(R[n - 1], Begun[n])
    BY <1>1, ReducedIs
  <1>. HIDE DEF R, N
  <1>3. 0 \in S
    BY <1>1, <1>2, EmptyRoomOK
  <1>4. ASSUME NEW k \in 0 .. N - 1, k \in S
        PROVE  k + 1 \in S
    <2>. DEFINE e == Begun[k + 1]
                r == R[k]
                m == k + 1
    <2>1. m \in 1 .. N /\ m \in 0 .. N /\ MayFollow(e, k) /\ e.seq = m /\ m - 1 = k
      BY <1>1 DEF MayFollow
    <2>2. RoomOK(r) /\ r.seq = k /\ R[m] = Applied(r, e)
      BY <1>2, <1>4, <2>1
    <2>. HIDE DEF e, r, m
    <2>3. RoomOK(Applied(r, e)) /\ Applied(r, e).seq = m
      BY <2>1, <2>2, AppliedOK
    <2>. QED
      BY <2>1, <2>2, <2>3 DEF m
  <1>5. \A k \in 0 .. N : k \in S
    <2>. HIDE DEF S
    <2>. QED
      BY <1>1, <1>3, <1>4, IntervalInduction
  <1>. QED
    BY <1>5 DEF R, N

LEMMA HostedStarts ==
    ASSUME Init
    PROVE  HInv
  <1>. DEFINE N == Len(Begun)
              R == Reduced(Core!EmptyRoom, Begun)
  <1>1. /\ Begun \in Seq(Entries) /\ N \in Nat
        /\ \A n \in 1 .. N : MayFollow(Begun[n], n - 1)
    BY BegunOK
  <1>2. R[0] = Core!EmptyRoom /\ \A n \in 1 .. N : R[n] = Applied(R[n - 1], Begun[n])
    BY <1>1, ReducedIs
  <1>3. \A n \in 0 .. N : RoomOK(R[n]) /\ R[n].seq = n
    BY BegunRooms
  <1>4. log = Begun /\ room = R[N] /\ hist = [n \in 1 .. N + 1 |-> R[n - 1]]
    BY DEF Init
  <1>. HIDE DEF R, N
  <1>5. /\ hist \in Seq(Core!Room) /\ Len(hist) = N + 1
        /\ \A n \in 1 .. N + 1 : hist[n] = R[n - 1] /\ n - 1 \in 0 .. N
    <2>1. \A n \in 1 .. N + 1 : n - 1 \in 0 .. N
      BY <1>1
    <2>2. hist \in [1 .. N + 1 -> Core!Room] /\ \A n \in 1 .. N + 1 : hist[n] = R[n - 1]
      BY <1>3, <1>4, <2>1 DEF RoomOK
    <2>. QED
      BY <1>1, <2>1, <2>2
  <1>6. LogInv
    <2>1. Len(log) = N
      BY <1>4 DEF N
    <2>2. hist[1] = Core!EmptyRoom
      BY <1>1, <1>2, <1>5
    <2>3. ASSUME NEW n \in 1 .. N
          PROVE  log[n].seq = n /\ hist[n + 1] = Applied(hist[n], log[n])
      <3>1. /\ n \in 1 .. N + 1 /\ n + 1 \in 1 .. N + 1 /\ (n + 1) - 1 = n /\ (n - 1) + 1 = n
        BY <1>1
      <3>2. hist[n + 1] = R[n] /\ hist[n] = R[n - 1]
        BY <1>5, <3>1
      <3>. QED
        BY <1>1, <1>2, <1>4, <3>1, <3>2 DEF MayFollow
    <2>4. \A n \in 1 .. N + 1 : RoomOK(hist[n]) /\ hist[n].seq = n - 1
      BY <1>3, <1>5
    <2>5. room = hist[N + 1]
      BY <1>1, <1>4, <1>5
    <2>6. now \in 0 .. MaxNow
      BY Numbers DEF Init
    <2>. QED
      BY <1>1, <1>4, <1>5, <2>1, <2>2, <2>3, <2>4, <2>5, <2>6 DEF LogInv, Folds
  <1>7. AlarmInv
    <2>1. RoomOK(room)
      BY <1>1, <1>3, <1>4
    <2>2. alarm = NextAlarm(room) /\ missed = FALSE
      BY DEF Init
    <2>. QED
      BY <2>1, <2>2, NextAlarmOK DEF AlarmInv, AlarmCovers
  <1>8. WireInv
    <2>1. ClientsInv
      <3>1. IsFiniteSet({})
        BY FS_EmptySet
      <3>. QED
        BY <3>1 DEF ClientsInv, Init, Closed
    <2>2. SocketsOK(sockets, conn)
      <3>1. sockets = <<>> /\ \A c \in Clients : conn[c] = 0
        BY DEF Init
      <3>. QED
        BY <3>1 DEF SocketsOK
    <2>. QED
      BY <2>1, <2>2 DEF WireInv
  <1>9. GivenInv
    <2>1. /\ position = [c \in Readers |-> 0] /\ taken = [c \in Readers |-> <<>>]
          /\ view = [w \in Dashboards |-> Core!EmptyRoom]
      BY DEF Init
    <2>2. \A c \in Readers : GivenOK(c, 0, <<>>, log, hist)
      <3>1. Len(log) \in Nat
        BY <1>1, <1>4 DEF N
      <3>. QED
        BY <3>1 DEF GivenOK
    <2>3. ViewOK(Core!EmptyRoom, 0, hist)
      <3>1. hist[1] = Core!EmptyRoom
        BY <1>1, <1>2, <1>5
      <3>. QED
        BY <1>1, <1>5, <3>1, EmptyRoomOK DEF ViewOK, RoomOK
    <2>4. /\ \A c \in Readers : position[c] = 0 /\ taken[c] = <<>>
          /\ \A w \in Dashboards : view[w] = Core!EmptyRoom /\ w \in Readers
      BY <2>1 DEF Readers
    <2>5. /\ position = [c \in Readers |-> position[c]] /\ taken = [c \in Readers |-> taken[c]]
          /\ view = [w \in Dashboards |-> view[w]]
      BY <2>1
    <2>. QED
      BY <2>2, <2>3, <2>4, <2>5 DEF GivenInv
  <1>10. StreamsOK(sockets)
    <2>1. \A c \in Readers : conn[c] = 0
      BY DEF Init, Clients
    <2>. QED
      BY <2>1 DEF StreamsOK
  <1>. QED
    BY <1>6, <1>7, <1>8, <1>9, <1>10 DEF HInv

LEMMA HostedKeeps ==
    ASSUME HInv, [Next]_vars
    PROVE  HInv'
  <1>1. ASSUME ClientStep
        PROVE  HInv'
    <2>1. ASSUME NEW c \in Clients, Connect(c) \/ Lose(c)
          PROVE  HInv'
      BY <2>1, ConnectKeeps, LoseKeeps
    <2>2. ASSUME NEW c \in Readers, Take(c)
          PROVE  HInv'
      BY <2>2, TakeKeeps
    <2>3. ASSUME NEW d \in Daemons, Issues(d) \/ Beats(d) \/ Dies(d)
          PROVE  HInv'
      BY <2>3, IssuesKeep, BeatsKeeps, DiesKeeps
    <2>4. ASSUME NEW a \in Asks, AskTakes(a)
          PROVE  HInv'
      BY <2>4, AskTakesKeeps
    <2>. QED
      BY <1>1, <2>1, <2>2, <2>3, <2>4 DEF ClientStep
  <1>2. ASSUME ObjectStep
        PROVE  HInv'
    <2>1. ASSUME NEW i, OnHello(i) \/ OnSubmit(i) \/ OnHeartbeat(i) \/ OnClose(i) \/ OnError(i)
          PROVE  HInv'
      BY <2>1, OnHelloKeeps, OnSubmitKeeps, OnHeartbeatKeeps, OnCloseKeeps, OnErrorKeeps
    <2>. QED
      BY <1>2, <2>1, AlarmKeeps DEF ObjectStep
  <1>3. CASE Tick
    BY <1>3, TickKeeps
  <1>4. CASE UNCHANGED vars
    <2>1. ClientsInv' /\ SocketsOK(sockets', conn')
      BY <1>4 DEF HInv, WireInv, ClientsInv, vars
    <2>. QED
      BY <1>4, <2>1, WireStepKeeps DEF vars, Unchanged, HInv, StreamsOK
  <1>. QED
    BY <1>1, <1>2, <1>3, <1>4 DEF Next

-----------------------------------------------------------------------------
(***************************************************************************)
(* Submits.  SInv says where a submit is that waits for its answer: it is  *)
(* settled, that is logged or refused, or on its way over the connection   *)
(* its daemon has now, with those that were made before it further ahead.  *)
(* (P stands for pending, g for log, R for refused, K for the numbers that *)
(* are settled, cn for conn, mv for moves, u and D for the queues of a     *)
(* socket.)                                                                *)
(***************************************************************************)
\* Is the submit with number n in a table, or in a queue?
Has(g, n) == n # 0 /\ \E k \in 1 .. Len(g) : g[k].id = n

Says(m, n) == m.type = "SUBMIT" /\ m.event.id = n

Waits(u, n) == \E k \in 1 .. Len(u) : Says(u[k], n)

Settling(g, R) == {n \in Nat : Has(g, n)} \cup R

Settled == Settling(log, refused)

\* Numbers are given once.
NumbersOK(P, mv) ==
    /\ \A d \in Daemons : \A e \in P[d] : e.id \in 1 .. mv
    /\ \A d, b \in Daemons : \A e \in P[d], f \in P[b] : e.id = f.id => d = b /\ e = f

TableOK(P, g, R, mv) ==
    /\ \A k \in 1 .. Len(g) : g[k].id \in 0 .. mv
    /\ \A m, n \in 1 .. Len(g) : g[m].id = g[n].id /\ g[m].id # 0 => m = n
    /\ \A d \in Daemons : \A e, f \in P[d] : \A n \in 1 .. Len(g) :
          e.id < f.id /\ g[n].id = f.id /\ e.id \notin R
              => \E m \in 1 .. n - 1 : g[m].id = e.id

\* Where message k is one that waits, all that were made before it are settled
\* or ahead of it.
InTurn(u, k, c, P, K) ==
    \A d \in Daemons : \A f \in P[d] : f.id = u[k].event.id =>
        /\ c = d
        /\ \A e \in P[d] : e.id < f.id =>
              e.id \in K \/ \E j \in 1 .. k - 1 : Says(u[j], e.id)

UpOK(u, c, P, K, mv) ==
    \A k \in 1 .. Len(u) : u[k].type = "SUBMIT" =>
        u[k].event.id \in 1 .. mv /\ InTurn(u, k, c, P, K)

\* Only what is settled is answered.
DownOK(D, K) == \A k \in 1 .. Len(D) : D[k].id # 0 => D[k].id \in K

QueuesOK(ss, P, K, mv) ==
    \A i \in 1 .. Len(ss) : UpOK(ss[i].up, ss[i].client, P, K, mv) /\ DownOK(ss[i].down, K)

UnderWay(ss, cn, P, K) ==
    \A d \in Daemons : cn[d] > 0 =>
        \A e \in P[d] : e.id \in K \/ Waits(ss[cn[d]].up, e.id)

SInv ==
    /\ NumbersOK(pending, moves)
    /\ TableOK(pending, log, refused, moves)
    /\ QueuesOK(sockets, pending, Settled, moves)
    /\ UnderWay(sockets, conn, pending, Settled)

\* Table h continues g: by an entry with number n, unless n is 0, and by some
\* that the room has made.
Adds(g, h, n) ==
    /\ Len(h) >= Len(g)
    /\ \A k \in 1 .. Len(g) : h[k] = g[k]
    /\ \A k \in Len(g) + 1 .. Len(h) : h[k].id # 0 => k = Len(g) + 1 /\ h[k].id = n
    /\ n # 0 => Has(h, n)

\* Queue v is what the object leaves of u, if it takes anything.
Passed(u, v, K) ==
    \/ v = u
    \/ u # <<>> /\ v = Tail(u) /\ (u[1].type = "SUBMIT" => u[1].event.id \in K)

\* What a handler leaves of socket s.
Handled(s, t, K) ==
    /\ t.client = s.client
    /\ Passed(s.up, t.up, K) \/ (~s.live /\ t.up = <<>>)
    /\ DownOK(t.down, K)

Fewer(Q, P) == \A d \in Daemons : Q[d] \subseteq P[d]

LEMMA AddsOK ==
    ASSUME NEW P, NEW g \in Seq(Entries), NEW h \in Seq(Entries), NEW n \in Nat, NEW mv \in Nat,
           NEW R, Adds(g, h, n), NumbersOK(P, mv), TableOK(P, g, R, mv),
           n # 0 => /\ n \in 1 .. mv /\ ~Has(g, n)
                    /\ \A d \in Daemons : \A e, f \in P[d] :
                          e.id < f.id /\ f.id = n => e.id \in Settling(g, R)
    PROVE  TableOK(P, h, R, mv) /\ Settling(g, R) \subseteq Settling(h, R)
  <1>. DEFINE L == Len(g)  M == Len(h)
  <1>1. L \in Nat /\ M \in Nat /\ M >= L
    BY DEF Adds
  <1>2. /\ \A k \in 1 .. L : h[k] = g[k] /\ k \in 1 .. M
        /\ \A k \in 1 .. M : k \in 1 .. L \/ k \in L + 1 .. M
        /\ \A k \in L + 1 .. M : h[k].id # 0 => k = L + 1 /\ h[k].id = n
    BY <1>1 DEF Adds
  <1>3. Settling(g, R) \subseteq Settling(h, R)
    BY <1>2 DEF Settling, Has
  <1>. HIDE DEF L, M
  <1>4. ASSUME NEW k \in 1 .. M
        PROVE  h[k].id \in 0 .. mv
    <2>1. CASE k \in 1 .. L
      BY <1>2, <2>1 DEF TableOK, L
    <2>2. CASE k \in L + 1 .. M
      <3>1. h[k].id = 0 \/ h[k].id \in 1 .. mv
        BY <1>2, <2>2
      <3>. QED
        BY <3>1
    <2>. QED
      BY <1>2, <2>1, <2>2
  <1>5. ASSUME NEW k \in 1 .. M, NEW m \in 1 .. M, h[k].id = h[m].id, h[k].id # 0
        PROVE  k = m
    <2>1. CASE k \in 1 .. L /\ m \in 1 .. L
      BY <1>2, <1>5, <2>1 DEF TableOK, L
    <2>2. CASE k \in L + 1 .. M /\ m \in L + 1 .. M
      BY <1>2, <1>5, <2>2
    <2>3. ASSUME NEW a \in 1 .. L, NEW b \in L + 1 .. M, h[a].id = h[b].id, h[a].id # 0
          PROVE  FALSE
      <3>1. h[b].id = n /\ n # 0 /\ g[a].id = n
        BY <1>2, <2>3
      <3>. QED
        BY <3>1 DEF Has, L
    <2>. QED
      BY <1>2, <1>5, <2>1, <2>2, <2>3
  <1>6. ASSUME NEW d \in Daemons, NEW e \in P[d], NEW f \in P[d], NEW k \in 1 .. M,
               e.id < f.id, h[k].id = f.id, e.id \notin R
        PROVE  \E m \in 1 .. k - 1 : h[m].id = e.id
    <2>0. f.id # 0
      BY DEF NumbersOK
    <2>1. CASE k \in 1 .. L
      <3>1. PICK m \in 1 .. k - 1 : g[m].id = e.id
        BY SMTT(30), <1>2, <1>6, <2>1 DEF TableOK, L
      <3>2. m \in 1 .. L
        BY <1>1, <2>1
      <3>. QED
        BY <1>2, <3>1, <3>2
    <2>2. CASE k \in L + 1 .. M
      <3>1. k = L + 1 /\ f.id = n /\ n # 0
        BY <1>2, <1>6, <2>0, <2>2
      <3>2. PICK m \in 1 .. L : g[m].id = e.id
        BY <1>6, <3>1 DEF Settling, Has, L
      <3>3. m \in 1 .. k - 1
        BY <1>1, <3>1
      <3>. QED
        BY <1>2, <3>2, <3>3
    <2>. QED
      BY <1>2, <2>1, <2>2
  <1>. QED
    BY <1>3, <1>4, <1>5, <1>6 DEF TableOK, M

\* What is true of a queue stays true when fewer submits wait, more are logged
\* and more numbers are given.
LEMMA UpLess ==
    ASSUME NEW u, NEW c, NEW P, NEW Q, NEW K, NEW M, NEW mv \in Nat, NEW nv \in Nat,
           UpOK(u, c, P, K, mv), Fewer(Q, P), NumbersOK(P, mv), K \subseteq M, mv <= nv
    PROVE  UpOK(u, c, Q, M, nv)
  <1>1. ASSUME NEW k \in 1 .. Len(u), u[k].type = "SUBMIT"
        PROVE  u[k].event.id \in 1 .. nv /\ InTurn(u, k, c, Q, M)
    <2>1. u[k].event.id \in 1 .. mv /\ InTurn(u, k, c, P, K)
      BY <1>1 DEF UpOK
    <2>2. u[k].event.id \in 1 .. nv
      BY <2>1
    <2>3. ASSUME NEW d \in Daemons, NEW f \in Q[d], f.id = u[k].event.id
          PROVE  /\ c = d
                 /\ \A e \in Q[d] : e.id < f.id =>
                       e.id \in M \/ \E j \in 1 .. k - 1 : Says(u[j], e.id)
      <3>1. f \in P[d] /\ \A e \in Q[d] : e \in P[d] /\ e.id \in Nat
        BY DEF Fewer, NumbersOK
      <3>2. /\ c = d
            /\ \A e \in P[d] : e.id < f.id =>
                  e.id \in K \/ \E j \in 1 .. k - 1 : Says(u[j], e.id)
        BY <2>1, <2>3, <3>1 DEF InTurn
      <3>. QED
        BY <3>1, <3>2
    <2>. QED
      BY <2>2, <2>3 DEF InTurn
  <1>. QED
    BY <1>1 DEF UpOK

\* The beginning of a queue.
LEMMA UpBegun ==
    ASSUME NEW u, NEW v, NEW c, NEW P, NEW K, NEW mv,
           UpOK(u, c, P, K, mv), Len(u) \in Nat, Len(v) \in Nat,
           \A k \in 1 .. Len(v) : k \in 1 .. Len(u) /\ v[k] = u[k]
    PROVE  UpOK(v, c, P, K, mv)
  <1>1. ASSUME NEW k \in 1 .. Len(v), v[k].type = "SUBMIT"
        PROVE  v[k].event.id \in 1 .. mv /\ InTurn(v, k, c, P, K)
    <2>1. k \in 1 .. Len(u) /\ v[k] = u[k]
      OBVIOUS
    <2>2. u[k].event.id \in 1 .. mv /\ InTurn(u, k, c, P, K)
      BY <1>1, <2>1 DEF UpOK
    <2>3. \A j \in 1 .. k - 1 : v[j] = u[j]
      <3>1. \A j \in 1 .. k - 1 : j \in 1 .. Len(v)
        OBVIOUS
      <3>. QED
        BY <3>1
    <2>. QED
      BY <2>1, <2>2, <2>3 DEF InTurn
  <1>. QED
    BY <1>1 DEF UpOK

\* A queue after its first message was handled.
LEMMA UpPassed ==
    ASSUME NEW u \in Seq(Messages), NEW v, NEW c, NEW P, NEW K, NEW mv,
           UpOK(u, c, P, K, mv), Passed(u, v, K)
    PROVE  /\ UpOK(v, c, P, K, mv)
           /\ \A n \in Nat \ {0} : Waits(u, n) => Waits(v, n) \/ n \in K
  <1>1. CASE v = u
    BY <1>1
  <1>2. CASE u # <<>> /\ v = Tail(u) /\ (u[1].type = "SUBMIT" => u[1].event.id \in K)
    <2>1. /\ Len(u) \in Nat /\ Len(v) = Len(u) - 1
          /\ \A k \in 1 .. Len(u) - 1 : v[k] = u[k + 1]
      BY <1>2
    <2>2. \A n : Says(u[1], n) => n \in K
      BY <1>2 DEF Says
    <2>. HIDE DEF Passed
    <2>3. ASSUME NEW k \in 1 .. Len(v), v[k].type = "SUBMIT"
          PROVE  v[k].event.id \in 1 .. mv /\ InTurn(v, k, c, P, K)
      <3>1. k + 1 \in 1 .. Len(u) /\ v[k] = u[k + 1] /\ (k + 1) - 1 = k
        BY <2>1
      <3>2. u[k + 1].event.id \in 1 .. mv /\ InTurn(u, k + 1, c, P, K)
        BY <2>3, <3>1 DEF UpOK
      <3>3. ASSUME NEW n, NEW j \in 1 .. k, Says(u[j], n)
            PROVE  n \in K \/ \E i \in 1 .. k - 1 : Says(v[i], n)
        <4>1. CASE j = 1
          BY <2>2, <3>3, <4>1
        <4>2. CASE j # 1
          <5>1. j - 1 \in 1 .. k - 1 /\ j - 1 \in 1 .. Len(u) - 1 /\ (j - 1) + 1 = j
            BY <2>1, <4>2
          <5>2. Says(v[j - 1], n)
            BY <2>1, <3>3, <5>1
          <5>. QED
            BY <5>1, <5>2
        <4>. QED
          BY <4>1, <4>2
      <3>4. ASSUME NEW d \in Daemons, NEW f \in P[d], f.id = v[k].event.id
            PROVE  /\ c = d
                   /\ \A e \in P[d] : e.id < f.id =>
                         e.id \in K \/ \E j \in 1 .. k - 1 : Says(v[j], e.id)
        BY <3>1, <3>2, <3>3, <3>4 DEF InTurn
      <3>. QED
        BY <3>1, <3>2, <3>4 DEF InTurn
    <2>4. ASSUME NEW n, NEW k \in 1 .. Len(u), Says(u[k], n)
          PROVE  Waits(v, n) \/ n \in K
      <3>1. CASE k = 1
        BY <2>2, <2>4, <3>1
      <3>2. CASE k # 1
        <4>1. k - 1 \in 1 .. Len(v) /\ v[k - 1] = u[k]
          <5>1. k - 1 \in 1 .. Len(u) - 1 /\ (k - 1) + 1 = k
            BY <2>1, <3>2
          <5>. QED
            BY <2>1, <5>1
        <4>. QED
          BY <2>4, <4>1 DEF Waits
      <3>. QED
        BY <3>1, <3>2
    <2>. QED
      BY <2>3, <2>4 DEF UpOK, Waits
  <1>. QED
    BY <1>1, <1>2 DEF Passed

\* A queue with one more message: no submit that waits, or one that all before
\* it are ahead of.
LEMMA UpMore ==
    ASSUME NEW u \in Seq(Messages), NEW m \in Messages, NEW c, NEW P, NEW K, NEW mv,
           UpOK(u, c, P, K, mv),
           m.type = "SUBMIT" =>
              /\ m.event.id \in 1 .. mv
              /\ \A d \in Daemons : \A f \in P[d] : f.id = m.event.id =>
                    /\ c = d
                    /\ \A e \in P[d] : e.id < f.id => e.id \in K \/ Waits(u, e.id)
    PROVE  /\ UpOK(Append(u, m), c, P, K, mv)
           /\ \A n : Waits(u, n) \/ Says(m, n) => Waits(Append(u, m), n)
  <1>. DEFINE v == Append(u, m)
              L == Len(u)
  <1>1. /\ L \in Nat /\ Len(v) = L + 1 /\ v[L + 1] = m
        /\ \A k \in 1 .. L : v[k] = u[k]
    OBVIOUS
  <1>. HIDE DEF v, L
  <1>2. ASSUME NEW k \in 1 .. Len(v), v[k].type = "SUBMIT"
        PROVE  v[k].event.id \in 1 .. mv /\ InTurn(v, k, c, P, K)
    <2>1. CASE k \in 1 .. L
      <3>1. u[k].event.id \in 1 .. mv /\ InTurn(u, k, c, P, K)
        BY <1>1, <1>2, <2>1 DEF UpOK, L
      <3>2. v[k] = u[k] /\ \A j \in 1 .. k - 1 : v[j] = u[j]
        <4>1. \A j \in 1 .. k - 1 : j \in 1 .. L
          BY <1>1, <2>1
        <4>. QED
          BY <1>1, <2>1, <4>1
      <3>. QED
        BY <3>1, <3>2 DEF InTurn
    <2>2. CASE k = L + 1
      <3>1. v[k] = m /\ m.type = "SUBMIT" /\ k - 1 = L
        BY <1>1, <1>2, <2>2
      <3>2. ASSUME NEW n, Waits(u, n)
            PROVE  \E j \in 1 .. k - 1 : Says(v[j], n)
        BY <1>1, <3>1, <3>2 DEF Waits, L
      <3>. QED
        BY <3>1, <3>2 DEF InTurn
    <2>. QED
      BY <1>1, <2>1, <2>2
  <1>3. ASSUME NEW n, Waits(u, n) \/ Says(m, n)
        PROVE  Waits(v, n)
    <2>1. \A k \in 1 .. L : k \in 1 .. Len(v)
      BY <1>1
    <2>2. L + 1 \in 1 .. Len(v)
      BY <1>1
    <2>. QED
      BY <1>1, <1>3, <2>1, <2>2 DEF Waits, L
  <1>. QED
    BY <1>2, <1>3 DEF UpOK, v

LEMMA DownLonger ==
    ASSUME NEW D, NEW K, NEW M, DownOK(D, K), K \subseteq M
    PROVE  DownOK(D, M)
  BY DEF DownOK

LEMMA DownJoined ==
    ASSUME NEW D \in Seq(Frame), NEW F \in Seq(Frame), NEW K,
           DownOK(D, K), \A k \in 1 .. Len(F) : F[k].id # 0 => F[k].id \in K
    PROVE  DownOK(D \o F, K)
  <1>. DEFINE G == D \o F
  <1>1. /\ Len(D) \in Nat /\ Len(F) \in Nat /\ Len(G) = Len(D) + Len(F)
        /\ \A k \in 1 .. Len(D) : G[k] = D[k]
        /\ \A k \in Len(D) + 1 .. Len(G) : G[k] = F[k - Len(D)]
    BY Concatenated
  <1>. HIDE DEF G
  <1>2. ASSUME NEW k \in 1 .. Len(G), G[k].id # 0
        PROVE  G[k].id \in K
    <2>1. CASE k \in 1 .. Len(D)
      BY <1>1, <1>2, <2>1 DEF DownOK
    <2>2. CASE k \notin 1 .. Len(D)
      <3>1. k \in Len(D) + 1 .. Len(G) /\ k - Len(D) \in 1 .. Len(F)
        BY <1>1, <2>2
      <3>. QED
        BY <1>1, <1>2, <3>1
    <2>. QED
      BY <2>1, <2>2
  <1>. QED
    BY <1>2 DEF DownOK, G

\* What a handler appends: its submit if it has one, then what the room makes.
LEMMA AppendedAdds ==
    ASSUME LogInv, NEW es, Appendable(es), NEW n \in Nat,
           \A k \in 1 .. Len(es) : es[k].id # 0 => k = 1 /\ es[k].id = n,
           n # 0 => Len(es) >= 1 /\ es[1].id = n
    PROVE  /\ log \in Seq(Entries) /\ Appended(es).log \in Seq(Entries)
           /\ Adds(log, Appended(es).log, n)
  <1>. DEFINE T == Stamped(es)
              h == Appended(es).log
              L == Len(log)
  <1>1. /\ T \in Seq(Entries) /\ Len(T) = Len(es) /\ Len(es) \in Nat
        /\ \A k \in 1 .. Len(es) : T[k].id = es[k].id
    BY StampedOK
  <1>2. log \in Seq(Entries)
    BY DEF LogInv, Folds
  <1>3. h = log \o T
    BY DEF Appended
  <1>. HIDE DEF T, h
  <1>4. /\ h \in Seq(Entries) /\ Len(h) = L + Len(T) /\ L \in Nat
        /\ \A k \in 1 .. L : h[k] = log[k]
        /\ \A k \in L + 1 .. Len(h) : h[k] = T[k - L]
    <2>. DEFINE J == log \o T
    <2>1. /\ J \in Seq(Entries) /\ Len(J) = Len(log) + Len(T) /\ Len(log) \in Nat
          /\ \A k \in 1 .. Len(log) : J[k] = log[k]
          /\ \A k \in Len(log) + 1 .. Len(J) : J[k] = T[k - Len(log)]
      <3>1. T \in Seq(Entries)
        BY <1>1
      <3>. QED
        BY <1>2, <3>1, Concatenated
    <2>. HIDE DEF J
    <2>. QED
      BY <1>3, <2>1 DEF J
  <1>5. ASSUME NEW k \in L + 1 .. Len(h), h[k].id # 0
        PROVE  k = L + 1 /\ h[k].id = n
    <2>1. k - L \in 1 .. Len(es) /\ h[k].id = es[k - L].id
      BY <1>1, <1>4
    <2>2. k - L = 1 /\ es[k - L].id = n
      BY <1>5, <2>1
    <2>. QED
      BY <1>4, <2>1, <2>2
  <1>6. ASSUME n # 0
        PROVE  Has(h, n)
    <2>1. 1 \in 1 .. Len(es) /\ L + 1 \in 1 .. Len(h) /\ h[L + 1].id = n
      BY <1>1, <1>4, <1>6
    <2>. QED
      BY <1>6, <2>1 DEF Has
  <1>7. Len(h) >= L
    BY <1>1, <1>4
  <1>. QED
    BY <1>2, <1>4, <1>5, <1>6, <1>7 DEF Adds, h, L

\* The sockets after a handler that leaves table g.
AllHandled(ss, K) ==
    /\ ss \in Seq(Socket)
    /\ Len(ss) = Len(sockets)
    /\ \A i \in 1 .. Len(sockets) : Handled(sockets[i], ss[i], K)

LEMMA SocketsTyped ==
    ASSUME HInv
    PROVE  /\ sockets \in Seq(Socket) /\ Len(sockets) \in Nat
           /\ \A i \in 1 .. Len(sockets) : /\ sockets[i] \in Socket
                                           /\ sockets[i].up \in Seq(Messages)
                                           /\ sockets[i].down \in Seq(Frame)
  <1>1. sockets \in Seq(Socket)
    BY DEF HInv, WireInv, SocketsOK
  <1>2. Len(sockets) \in Nat /\ \A i \in 1 .. Len(sockets) : sockets[i] \in Socket
    BY <1>1
  <1>. QED
    BY <1>1, <1>2, SocketParts

LEMMA Untouched ==
    ASSUME HInv, SInv, NEW K, Settled \subseteq K
    PROVE  AllHandled(sockets, K)
  <1>1. ASSUME NEW i \in 1 .. Len(sockets)
        PROVE  Handled(sockets[i], sockets[i], K)
    <2>1. DownOK(sockets[i].down, Settled) /\ sockets[i].down \in Seq(Frame)
      BY SocketsTyped DEF SInv, QueuesOK
    <2>2. DownOK(sockets[i].down, K)
      BY <2>1, DownLonger
    <2>. QED
      BY <2>2 DEF Handled, Passed
  <1>. QED
    BY <1>1, SocketsTyped DEF AllHandled

LEMMA OneHandled ==
    ASSUME HInv, SInv, NEW K, Settled \subseteq K, NEW i \in 1 .. Len(sockets), NEW x \in Socket,
           Handled(sockets[i], x, K)
    PROVE  AllHandled([sockets EXCEPT ![i] = x], K)
  <1>. DEFINE ss == [sockets EXCEPT ![i] = x]
  <1>1. sockets \in Seq(Socket)
    BY SocketsTyped
  <1>2. /\ ss \in Seq(Socket) /\ Len(ss) = Len(sockets) /\ ss[i] = x
        /\ \A k \in 1 .. Len(sockets) : k # i => ss[k] = sockets[k]
    BY <1>1
  <1>. HIDE DEF ss
  <1>3. \A k \in 1 .. Len(sockets) : Handled(sockets[k], sockets[k], K)
    BY Untouched DEF AllHandled
  <1>4. \A k \in 1 .. Len(sockets) : Handled(sockets[k], ss[k], K)
    BY <1>2, <1>3
  <1>. QED
    BY <1>2, <1>4 DEF AllHandled, ss

\* A handler that leaves the sockets handled keeps the invariant.
LEMMA HandledKeeps ==
    ASSUME HInv, SInv, ClientsStay, TableOK(pending, log', refused', moves),
           Settled \subseteq Settled', AllHandled(sockets', Settled')
    PROVE  SInv'
  <1>1. /\ conn' = conn /\ pending' = pending /\ moves' = moves
        /\ moves \in Nat /\ NumbersOK(pending, moves)
    BY DEF ClientsStay, ClientsUnchanged, HInv, WireInv, ClientsInv, SInv
  <1>2. Fewer(pending, pending)
    BY DEF Fewer
  <1>3. ASSUME NEW i \in 1 .. Len(sockets)
        PROVE  /\ UpOK(sockets'[i].up, sockets'[i].client, pending, Settled', moves)
               /\ DownOK(sockets'[i].down, Settled')
               /\ sockets[i].live => \A n \in Nat \ {0} : Waits(sockets[i].up, n) =>
                     Waits(sockets'[i].up, n) \/ n \in Settled'
    <2>. DEFINE u == sockets[i].up
                v == sockets'[i].up
                c == sockets[i].client
                K == Settled'
    <2>1. u \in Seq(Messages) /\ UpOK(u, c, pending, Settled, moves)
      BY SocketsTyped DEF SInv, QueuesOK
    <2>2. /\ sockets'[i].client = c /\ DownOK(sockets'[i].down, K)
          /\ Passed(u, v, K) \/ (~sockets[i].live /\ v = <<>>)
      BY DEF AllHandled, Handled
    <2>3. UpOK(u, c, pending, K, moves)
      BY <1>1, <1>2, <2>1, UpLess
    <2>. HIDE DEF u, v, c, K
    <2>4. CASE Passed(u, v, K)
      <3>1. /\ UpOK(v, c, pending, K, moves)
            /\ \A n \in Nat \ {0} : Waits(u, n) => Waits(v, n) \/ n \in K
        BY <2>1, <2>3, <2>4, UpPassed
      <3>. QED
        BY <2>2, <3>1 DEF u, v, c, K
    <2>5. CASE ~sockets[i].live /\ v = <<>>
      <3>1. UpOK(v, c, pending, K, moves)
        BY <2>5 DEF UpOK
      <3>. QED
        BY <2>2, <2>5, <3>1 DEF u, v, c, K
    <2>. QED
      BY <2>2, <2>4, <2>5
  <1>4. QueuesOK(sockets', pending, Settled', moves)
    BY <1>3 DEF AllHandled, QueuesOK
  <1>5. ASSUME NEW d \in Daemons, conn[d] > 0, NEW e \in pending[d]
        PROVE  e.id \in Settled' \/ Waits(sockets'[conn[d]].up, e.id)
    <2>1. d \in Clients
      BY DEF Clients, Readers
    <2>2. conn[d] \in 1 .. Len(sockets) /\ sockets[conn[d]].live
      BY <1>5, <2>1, SocketAt
    <2>3. e.id \in Nat /\ e.id # 0
      BY <1>1 DEF NumbersOK
    <2>4. CASE e.id \in Settled
      BY <2>4
    <2>5. CASE Waits(sockets[conn[d]].up, e.id)
      BY <1>3, <2>2, <2>3, <2>5
    <2>. QED
      BY <1>5, <2>4, <2>5 DEF SInv, UnderWay
  <1>6. UnderWay(sockets', conn, pending, Settled')
    BY <1>5 DEF UnderWay
  <1>. QED
    BY <1>1, <1>4, <1>6 DEF SInv

LEMMA QuietHandles ==
    ASSUME HInv, SInv, ClientsStay, log' = log, refused' = refused, AllHandled(sockets', Settled)
    PROVE  SInv'
  <1>1. Settled' = Settled
    BY DEF Settled
  <1>. QED
    BY <1>1, HandledKeeps DEF SInv

LEMMA CommitHandles ==
    ASSUME HInv, SInv, NEW st, Grown(st), TableOK(pending, st.log, refused, moves),
           Settled \subseteq Settling(st.log, refused), refused' = refused,
           NEW ss, AllHandled(ss, Settling(st.log, refused)), Commit(st, ss), ClientsStay
    PROVE  SInv'
  <1>. DEFINE B == Broadcast(ss, st)
              K == Settling(st.log, refused)
  <1>1. log' = st.log /\ sockets' = B /\ LogInv /\ Settled' = K
    BY DEF Commit, HInv, Settled
  <1>. HIDE DEF K
  <1>2. ss \in Seq(Socket) /\ Len(ss) = Len(sockets) /\ DOMAIN ss = 1 .. Len(ss) /\ Len(ss) \in Nat
    BY DEF AllHandled
  <1>3. ASSUME NEW i \in 1 .. Len(ss)
        PROVE  B[i] \in Socket /\ Handled(sockets[i], B[i], K)
    <2>. DEFINE s == ss[i]
                b == B[i]
    <2>1. Handled(sockets[i], s, K) /\ s \in Socket
      BY <1>2 DEF AllHandled, K
    <2>2. /\ b \in Socket /\ b.client = s.client /\ b.up = s.up
          /\ ~Reached(s) => b = s
          /\ Reached(s) => \E F : b.down = s.down \o F /\ Told(s.client, F, st)
      BY ZenonT(30), <1>1, <1>2, BroadcastOne
    <2>. HIDE DEF s, b
    <2>3. s.down \in Seq(Frame) /\ DownOK(s.down, K)
      BY <2>1, SocketParts DEF Handled
    <2>4. DownOK(b.down, K)
      <3>1. CASE ~Reached(s)
        BY <2>2, <2>3, <3>1
      <3>2. CASE Reached(s)
        <4>1. PICK F : b.down = s.down \o F /\ Told(s.client, F, st)
          BY <2>2, <3>2
        <4>2. F \in Seq(Frame) /\ \A k \in 1 .. Len(F) : F[k].id = 0
          BY <4>1 DEF Told
        <4>. QED
          BY <2>3, <4>1, <4>2, DownJoined
      <3>. QED
        BY <3>1, <3>2
    <2>. QED
      BY <2>1, <2>2, <2>4 DEF Handled, s, b
  <1>4. B \in Seq(Socket) /\ Len(B) = Len(ss)
    <2>1. B = [i \in 1 .. Len(ss) |-> B[i]]
      BY <1>2 DEF Broadcast
    <2>. HIDE DEF B
    <2>2. B \in [1 .. Len(ss) -> Socket]
      BY <1>3, <2>1
    <2>. QED
      BY <1>2, <2>2
  <1>. HIDE DEF B
  <1>5. AllHandled(sockets', K)
    BY <1>1, <1>2, <1>3, <1>4 DEF AllHandled
  <1>. QED
    BY <1>1, <1>5, HandledKeeps DEF K

\* What the room appends of its own.
LEMMA OwnEntries ==
    ASSUME HInv, SInv, NEW es, Appendable(es), \A k \in 1 .. Len(es) : es[k].id = 0
    PROVE  /\ Grown(Appended(es)) /\ TableOK(pending, Appended(es).log, refused, moves)
           /\ Settled \subseteq Settling(Appended(es).log, refused)
  <1>1. LogInv /\ moves \in Nat /\ NumbersOK(pending, moves) /\ TableOK(pending, log, refused, moves)
    BY DEF HInv, WireInv, ClientsInv, SInv
  <1>2. /\ log \in Seq(Entries) /\ Appended(es).log \in Seq(Entries)
        /\ Adds(log, Appended(es).log, 0)
    BY <1>1, AppendedAdds
  <1>3. /\ TableOK(pending, Appended(es).log, refused, moves)
        /\ Settled \subseteq Settling(Appended(es).log, refused)
    BY <1>1, <1>2, AddsOK DEF Settled
  <1>. QED
    BY <1>1, <1>3, AppendedOK

LEMMA TakenOffIs ==
    ASSUME HInv, NEW i \in 1 .. Len(sockets), sockets[i].up # <<>>
    PROVE  \E x, y \in Socket :
              /\ TakenOff(i) = [sockets EXCEPT ![i] = x]
              /\ [TakenOff(i) EXCEPT ![i].greeted = TRUE] = [sockets EXCEPT ![i] = y]
              /\ x.client = sockets[i].client /\ y.client = x.client
              /\ x.up = Tail(sockets[i].up) /\ y.up = x.up
              /\ x.down = sockets[i].down /\ y.down = x.down
  <1>. DEFINE s == sockets[i]
              u == Tail(s.up)
              x == [s EXCEPT !.up = u]
              y == [x EXCEPT !.greeted = TRUE]
              T == [TakenOff(i) EXCEPT ![i].greeted = TRUE]
  <1>1. sockets \in Seq(Socket) /\ s \in Socket /\ s.up \in Seq(Messages)
    BY SocketsTyped
  <1>2. u \in Seq(Messages)
    BY <1>1, TailParts
  <1>3. TakenOff(i) = [sockets EXCEPT ![i] = x]
    BY DEF TakenOff
  <1>. HIDE DEF u
  <1>4. x \in Socket /\ x.client = s.client /\ x.up = u /\ x.down = s.down
    BY <1>1, <1>2, UpSet
  <1>. HIDE DEF x
  <1>5. y \in Socket /\ y.client = x.client /\ y.up = x.up /\ y.down = x.down
    BY <1>4, GreetedSet
  <1>6. TakenOff(i)[i] = x
    BY <1>1, <1>3, SetAt
  <1>7. T = [TakenOff(i) EXCEPT ![i] = y]
    BY <1>6
  <1>. HIDE DEF T, y
  <1>8. [TakenOff(i) EXCEPT ![i] = y] = [sockets EXCEPT ![i] = y]
    BY <1>1, <1>3, SetAt
  <1>. QED
    BY <1>3, <1>4, <1>5, <1>7, <1>8 DEF T, u

LEMMA ReplyIs ==
    ASSUME HInv, NEW i \in 1 .. Len(sockets), NEW x \in Socket, NEW F \in Seq(Frame),
           NEW ss, ss = [sockets EXCEPT ![i] = x]
    PROVE  \E y \in Socket :
              /\ Reply(ss, i, F) = [sockets EXCEPT ![i] = y]
              /\ y.client = x.client /\ y.up = x.up
              /\ y.down \in {x.down, x.down \o F}
  <1>. DEFINE D == x.down \o F
              y == [x EXCEPT !.down = D]
  <1>1. sockets \in Seq(Socket) /\ x.down \in Seq(Frame)
    BY SocketsTyped, SocketParts
  <1>2. ss[i] = x
    BY <1>1, SetAt
  <1>3. CASE ~x.live
    <2>1. Reply(ss, i, F) = ss
      BY <1>2, <1>3 DEF Reply
    <2>. QED
      BY <2>1
  <1>4. CASE x.live
    <2>1. D \in Seq(Frame)
      BY <1>1, Concatenated
    <2>2. Reply(ss, i, F) = [ss EXCEPT ![i] = y]
      BY <1>2, <1>4 DEF Reply
    <2>. HIDE DEF D
    <2>3. y \in Socket /\ y.client = x.client /\ y.up = x.up /\ y.down = D
      BY <2>1, DownSet
    <2>. HIDE DEF y
    <2>4. [ss EXCEPT ![i] = y] = [sockets EXCEPT ![i] = y]
      BY <1>1, SetAt
    <2>. QED
      BY <2>2, <2>3, <2>4 DEF D
  <1>. QED
    BY <1>3, <1>4

\* A socket whose first message was handled and answered.
LEMMA AnsweredHandled ==
    ASSUME HInv, SInv, NEW K, Settled \subseteq K, NEW i \in 1 .. Len(sockets), sockets[i].up # <<>>,
           sockets[i].up[1].type = "SUBMIT" => sockets[i].up[1].event.id \in K,
           NEW F \in Seq(Frame), \A k \in 1 .. Len(F) : F[k].id # 0 => F[k].id \in K,
           NEW y \in Socket, y.client = sockets[i].client, y.up = Tail(sockets[i].up),
           y.down \in {sockets[i].down, sockets[i].down \o F}
    PROVE  AllHandled([sockets EXCEPT ![i] = y], K)
  <1>1. DownOK(sockets[i].down, Settled) /\ sockets[i].down \in Seq(Frame)
    BY SocketsTyped DEF SInv, QueuesOK
  <1>2. DownOK(sockets[i].down, K)
    BY <1>1, DownLonger
  <1>3. DownOK(sockets[i].down \o F, K)
    BY <1>1, <1>2, DownJoined
  <1>4. DownOK(y.down, K)
    BY <1>2, <1>3
  <1>5. Handled(sockets[i], y, K)
    BY <1>4 DEF Handled, Passed
  <1>. QED
    BY <1>5, OneHandled

LEMMA OnHelloHandles ==
    ASSUME HInv, SInv, NEW i, OnHello(i)
    PROVE  SInv'
  <1>. DEFINE F == <<Welcome(room)>> \o Replay(sockets[i].client, Incoming(i).from)
  <1>1. /\ i \in 1 .. Len(sockets) /\ sockets[i].up # <<>> /\ sockets[i].up[1].type = "HELLO"
        /\ Incoming(i).from \in Nat
    BY Received, MessageParts DEF OnHello
  <1>2. F \in Seq(Frame) /\ \A k \in 1 .. Len(F) : F[k].id = 0
    BY <1>1, RepliesTyped DEF HInv
  <1>3. /\ ClientsStay /\ log' = log /\ refused' = refused
        /\ sockets' = Reply([TakenOff(i) EXCEPT ![i].greeted = TRUE], i, F)
    BY DEF OnHello, ClientsStay, Unchanged
  <1>. HIDE DEF F
  <1>4. PICK x \in Socket :
           /\ [TakenOff(i) EXCEPT ![i].greeted = TRUE] = [sockets EXCEPT ![i] = x]
           /\ x.client = sockets[i].client /\ x.up = Tail(sockets[i].up)
           /\ x.down = sockets[i].down
    BY ZenonT(30), <1>1, TakenOffIs
  <1>5. PICK y \in Socket :
           /\ sockets' = [sockets EXCEPT ![i] = y]
           /\ y.client = x.client /\ y.up = x.up /\ y.down \in {x.down, x.down \o F}
    BY ZenonT(30), <1>1, <1>2, <1>3, <1>4, ReplyIs
  <1>6. AllHandled([sockets EXCEPT ![i] = y], Settled)
    BY <1>1, <1>2, <1>4, <1>5, AnsweredHandled
  <1>. QED
    BY <1>3, <1>5, <1>6, QuietHandles

\* A submit that comes is the next in its turn, so all that were made before it
\* and wait are in the log.
LEMMA SubmitsTurn ==
    ASSUME HInv, SInv, NEW i \in 1 .. Len(sockets), sockets[i].up # <<>>,
           sockets[i].up[1].type = "SUBMIT"
    PROVE  LET n == sockets[i].up[1].event.id IN
           /\ n \in 1 .. moves /\ n \in Nat /\ n # 0
           /\ \A d \in Daemons : \A e, f \in pending[d] : e.id < f.id /\ f.id = n => e.id \in Settled
  <1>. DEFINE u == sockets[i].up
              n == u[1].event.id
  <1>1. 1 \in 1 .. Len(u)
    BY SocketsTyped, TailParts
  <1>2. UpOK(u, sockets[i].client, pending, Settled, moves) /\ moves \in Nat
    BY DEF SInv, QueuesOK, HInv, WireInv, ClientsInv
  <1>3. n \in 1 .. moves /\ InTurn(u, 1, sockets[i].client, pending, Settled)
    BY <1>1, <1>2 DEF UpOK
  <1>4. \A d \in Daemons : \A e, f \in pending[d] : e.id < f.id /\ f.id = n => e.id \in Settled
    BY <1>3 DEF InTurn
  <1>. QED
    BY <1>2, <1>3, <1>4

LEMMA OnSubmitHandles ==
    ASSUME HInv, SInv, NEW i, OnSubmit(i)
    PROVE  SInv'
  <1>. DEFINE e == Incoming(i).event
              n == e.id
              ss == Replied(i, Ack(e))
              tt == Replied(i, Error(e))
  <1>1. /\ i \in 1 .. Len(sockets) /\ sockets[i].up # <<>> /\ sockets[i].up[1].type = "SUBMIT"
        /\ e \in Submittable /\ e \in Entries /\ e = sockets[i].up[1].event
    BY Received, MessageParts DEF OnSubmit
  <1>2. /\ n \in 1 .. moves /\ n \in Nat /\ n # 0
        /\ \A d \in Daemons : \A a, f \in pending[d] : a.id < f.id /\ f.id = n => a.id \in Settled
    BY <1>1, SubmitsTurn
  <1>3. /\ \/ Known(e) /\ sockets' = ss /\ refused' = refused /\ Unchanged
           \/ ~Known(e) /\ Commit(Submitted(e), ss) /\ refused' = refused
           \/ sockets' = tt /\ refused' = refused \cup {n} /\ Unchanged
        /\ ClientsStay
    BY SubmitCases DEF OnSubmit, ClientsStay
  <1>4. Ack(e) \in Frame /\ Ack(e).id = n /\ Error(e) \in Frame /\ Error(e).id = n
    BY <1>1, FramesMade
  <1>5. /\ LogInv /\ log \in Seq(Entries) /\ moves \in Nat /\ NumbersOK(pending, moves)
        /\ TableOK(pending, log, refused, moves)
    BY DEF HInv, LogInv, Folds, WireInv, ClientsInv, SInv
  <1>6. Known(e) <=> Has(log, n)
    BY <1>2, <1>5 DEF Known, Has
  <1>7. PICK x \in Socket :
           /\ TakenOff(i) = [sockets EXCEPT ![i] = x]
           /\ x.client = sockets[i].client /\ x.up = Tail(sockets[i].up)
           /\ x.down = sockets[i].down
    BY <1>1, TakenOffIs
  <1>. HIDE DEF e
  <1>8. ASSUME NEW K, Settled \subseteq K, n \in K, NEW a \in Frame, a.id = n
        PROVE  AllHandled(Replied(i, a), K)
    <2>. DEFINE F == <<a>>
    <2>1. F \in Seq(Frame) /\ Len(F) = 1 /\ \A k \in 1 .. Len(F) : F[k].id = n
      BY <1>8
    <2>2. Replied(i, a) = Reply(TakenOff(i), i, F)
      BY DEF Replied
    <2>. HIDE DEF F
    <2>3. PICK y \in Socket :
             /\ Reply(TakenOff(i), i, F) = [sockets EXCEPT ![i] = y]
             /\ y.client = x.client /\ y.up = x.up /\ y.down \in {x.down, x.down \o F}
      <3>. DEFINE cleared == TakenOff(i)
      <3>1. i \in 1 .. Len(sockets) /\ cleared = [sockets EXCEPT ![i] = x] /\ F \in Seq(Frame)
        BY <1>1, <1>7, <2>1
      <3>. HIDE DEF cleared
      <3>2. \E y \in Socket :
               /\ Reply(cleared, i, F) = [sockets EXCEPT ![i] = y]
               /\ y.client = x.client /\ y.up = x.up /\ y.down \in {x.down, x.down \o F}
        BY <3>1, ReplyIs
      <3>. QED
        BY <3>2 DEF cleared
    <2>4. \A k \in 1 .. Len(F) : F[k].id # 0 => F[k].id \in K
      BY <1>8, <2>1
    <2>5. sockets[i].up[1].event.id \in K /\ y.client = sockets[i].client
      BY <1>1, <1>7, <1>8, <2>3 DEF n
    <2>6. y.up = Tail(sockets[i].up) /\ y.down \in {sockets[i].down, sockets[i].down \o F}
      BY <1>7, <2>3
    <2>. HIDE DEF n
    <2>7. AllHandled([sockets EXCEPT ![i] = y], K)
      BY <1>1, <1>8, <2>1, <2>4, <2>5, <2>6, AnsweredHandled
    <2>. QED
      BY <2>2, <2>3, <2>7
  <1>. HIDE DEF ss, tt, n
  <1>9. CASE Known(e) /\ sockets' = ss /\ refused' = refused /\ Unchanged
    <2>1. n \in Settled
      BY <1>2, <1>6, <1>9 DEF Settled, Settling
    <2>2. AllHandled(sockets', Settled)
      BY <1>4, <1>8, <1>9, <2>1 DEF ss
    <2>3. log' = log
      BY <1>9 DEF Unchanged
    <2>. QED
      BY <1>3, <1>9, <2>2, <2>3, QuietHandles
  <1>10. CASE ~Known(e) /\ Commit(Submitted(e), ss) /\ refused' = refused
    <2>1. PICK es : /\ Appendable(es) /\ Submitted(e) = Appended(es)
                    /\ Len(es) >= 1 /\ es[1] = e
                    /\ \A k \in 2 .. Len(es) : es[k].id = 0
      BY <1>1, <1>5, SubmittedAppends
    <2>. DEFINE st == Appended(es)
                K == Settling(st.log, refused)
    <2>2. \A k \in 1 .. Len(es) : es[k].id # 0 => k = 1 /\ es[k].id = n
      <3>1. \A k \in 1 .. Len(es) : k = 1 \/ k \in 2 .. Len(es)
        BY <2>1 DEF Appendable
      <3>. QED
        BY <2>1, <3>1 DEF n
    <2>3. es[1].id = n
      BY <2>1 DEF n
    <2>4. Grown(st) /\ st.log \in Seq(Entries) /\ Adds(log, st.log, n)
      BY <1>2, <1>5, <2>1, <2>2, <2>3, AppendedOK, AppendedAdds
    <2>. HIDE DEF st
    <2>5. TableOK(pending, st.log, refused, moves) /\ Settled \subseteq K
      BY <1>2, <1>5, <1>6, <1>10, <2>4, AddsOK DEF Settled
    <2>6. n \in K
      BY <1>2, <2>4 DEF Adds, Settling
    <2>7. AllHandled(ss, K)
      BY <1>4, <1>8, <2>5, <2>6 DEF ss
    <2>8. Commit(st, ss)
      BY <1>10, <2>1 DEF st
    <2>. QED
      BY <1>3, <1>10, <2>4, <2>5, <2>7, <2>8, CommitHandles
  <1>11. CASE sockets' = tt /\ refused' = refused \cup {n} /\ Unchanged
    <2>1. log' = log
      BY <1>11 DEF Unchanged
    <2>2. Settled \subseteq Settled' /\ n \in Settled'
      BY <1>11, <2>1 DEF Settled, Settling
    <2>3. TableOK(pending, log', refused', moves)
      BY <1>5, <1>11, <2>1 DEF TableOK
    <2>4. AllHandled(sockets', Settled')
      BY <1>4, <1>8, <1>11, <2>2 DEF tt
    <2>. QED
      BY <1>3, <2>2, <2>3, <2>4, HandledKeeps
  <1>. QED
    BY <1>3, <1>9, <1>10, <1>11

\* A handler that appends the room's own entries.
LEMMA OwnHandles ==
    ASSUME HInv, SInv, NEW es, Appendable(es), \A k \in 1 .. Len(es) : es[k].id = 0,
           NEW ss, \A K : Settled \subseteq K => AllHandled(ss, K),
           Commit(Appended(es), ss), ClientsStay, refused' = refused
    PROVE  SInv'
  <1>. DEFINE st == Appended(es)
  <1>1. /\ Grown(st) /\ TableOK(pending, st.log, refused, moves)
        /\ Settled \subseteq Settling(st.log, refused)
    BY OwnEntries
  <1>2. AllHandled(ss, Settling(st.log, refused)) /\ Commit(st, ss)
    BY <1>1
  <1>. HIDE DEF st
  <1>. QED
    BY <1>1, <1>2, CommitHandles

LEMMA OnHeartbeatHandles ==
    ASSUME HInv, SInv, NEW i, OnHeartbeat(i)
    PROVE  SInv'
  <1>. DEFINE s == SessionOf[sockets[i].client]
              ss == TakenOff(i)
  <1>1. /\ i \in 1 .. Len(sockets) /\ sockets[i].up # <<>> /\ sockets[i].up[1].type = "HEARTBEAT"
        /\ 1 \in 1 .. Len(sockets[i].up) /\ SocketOK(sockets[i], i, conn)
    BY Received DEF OnHeartbeat
  <1>2. /\ ClientsStay /\ refused' = refused
        /\ \/ sockets' = ss /\ log' = log
           \/ Commit(Appended(<<Core!Beat(s)>>), ss)
    BY DEF OnHeartbeat, ClientsStay, Unchanged
  <1>3. s \in Sessions
    BY <1>1 DEF SocketOK, Sessions
  <1>4. PICK x \in Socket :
           /\ ss = [sockets EXCEPT ![i] = x]
           /\ x.client = sockets[i].client /\ x.up = Tail(sockets[i].up)
           /\ x.down = sockets[i].down
    BY <1>1, TakenOffIs
  <1>. HIDE DEF s, ss
  <1>5. ASSUME NEW K, Settled \subseteq K
        PROVE  AllHandled(ss, K)
    <2>1. <<>> \in Seq(Frame) /\ \A k \in 1 .. Len(<<>>) : <<>>[k].id # 0 => <<>>[k].id \in K
      OBVIOUS
    <2>. QED
      BY <1>1, <1>4, <1>5, <2>1, AnsweredHandled
  <1>6. CASE sockets' = ss /\ log' = log
    BY <1>2, <1>5, <1>6, QuietHandles
  <1>7. CASE Commit(Appended(<<Core!Beat(s)>>), ss)
    BY <1>2, <1>3, <1>5, <1>7, BeatAppends, OwnHandles
  <1>. QED
    BY <1>2, <1>6, <1>7

\* A socket whose client is no longer at it.
LEMMA DroppedHandled ==
    ASSUME HInv, SInv, NEW K, Settled \subseteq K, NEW i \in 1 .. Len(sockets), ~sockets[i].live
    PROVE  /\ AllHandled([sockets EXCEPT ![i].open = FALSE], K)
           /\ AllHandled([sockets EXCEPT ![i].open = FALSE, ![i].up = <<>>], K)
  <1>. DEFINE s == sockets[i]
              x == [s EXCEPT !.open = FALSE]
              y == [x EXCEPT !.up = <<>>]
  <1>1. sockets \in Seq(Socket) /\ s \in Socket
    BY SocketsTyped
  <1>2. FALSE \in BOOLEAN /\ <<>> \in Seq(Messages)
    OBVIOUS
  <1>3. /\ [sockets EXCEPT ![i].open = FALSE] = [sockets EXCEPT ![i] = x]
        /\ [sockets EXCEPT ![i].open = FALSE, ![i].up = <<>>] = [sockets EXCEPT ![i] = y]
    BY <1>1
  <1>4. x \in Socket /\ x.client = s.client /\ x.up = s.up /\ x.down = s.down
    BY <1>1, <1>2, OpenSet
  <1>. HIDE DEF x
  <1>5. y \in Socket /\ y.client = s.client /\ y.up = <<>> /\ y.down = s.down
    BY <1>2, <1>4, UpSet
  <1>. HIDE DEF y
  <1>6. Handled(s, s, K)
    BY Untouched DEF AllHandled
  <1>7. Handled(s, x, K) /\ Handled(s, y, K)
    BY <1>4, <1>5, <1>6 DEF Handled, Passed
  <1>. QED
    BY <1>3, <1>4, <1>5, <1>7, OneHandled

LEMMA OnCloseHandles ==
    ASSUME HInv, SInv, NEW i, OnClose(i)
    PROVE  SInv'
  <1>. DEFINE held == {l \in room.leases : l.session = SessionOf[sockets[i].client]}
              ss == [sockets EXCEPT ![i].open = FALSE]
  <1>1. i \in 1 .. Len(sockets) /\ ~sockets[i].live
    BY SocketsTyped DEF OnClose, Open
  <1>2. /\ ClientsStay /\ refused' = refused
        /\ \/ sockets' = ss /\ log' = log
           \/ Commit(Expire(held, "disconnect"), ss)
    BY DEF OnClose, ClientsStay, Unchanged
  <1>3. held \in SUBSET room.leases /\ LogInv
    BY DEF HInv
  <1>. HIDE DEF held
  <1>4. \A K : Settled \subseteq K => AllHandled(ss, K)
    BY <1>1, DroppedHandled
  <1>. HIDE DEF ss
  <1>5. CASE sockets' = ss /\ log' = log
    BY <1>2, <1>4, <1>5, QuietHandles
  <1>6. CASE Commit(Expire(held, "disconnect"), ss)
    <2>1. PICK es : /\ Appendable(es) /\ Expire(held, "disconnect") = Appended(es)
                    /\ \A n \in 1 .. Len(es) : es[n].id = 0
      BY <1>3, ExpireAppends
    <2>2. Commit(Appended(es), ss)
      BY <1>6, <2>1
    <2>. QED
      BY <1>2, <1>4, <2>1, <2>2, OwnHandles
  <1>. QED
    BY <1>2, <1>5, <1>6

LEMMA OnErrorHandles ==
    ASSUME HInv, SInv, NEW i, OnError(i)
    PROVE  SInv'
  <1>1. i \in 1 .. Len(sockets) /\ ~sockets[i].live
    BY SocketsTyped DEF OnError, Open
  <1>2. ClientsStay /\ log' = log /\ refused' = refused
    BY DEF OnError, ClientsStay, Unchanged
  <1>3. AllHandled(sockets', Settled)
    BY <1>1, DroppedHandled DEF OnError
  <1>. QED
    BY <1>2, <1>3, QuietHandles

LEMMA AlarmHandles ==
    ASSUME HInv, SInv, Alarm
    PROVE  SInv'
  <1>1. /\ LogInv /\ ClientsStay /\ refused' = refused
        /\ \A K : Settled \subseteq K => AllHandled(sockets, K)
    BY Untouched DEF HInv, Alarm, ClientsStay
  <1>2. CASE Open = {}
    <2>1. log' = log /\ sockets' = sockets
      BY <1>2 DEF Alarm
    <2>. QED
      BY <1>1, <2>1, QuietHandles
  <1>3. CASE Commit(Expire(Core!Due, "ttl"), sockets)
    <2>1. Core!Due \in SUBSET room.leases
      BY DEF Core!Due
    <2>2. PICK es : /\ Appendable(es) /\ Expire(Core!Due, "ttl") = Appended(es)
                    /\ \A n \in 1 .. Len(es) : es[n].id = 0
      BY <1>1, <2>1, ExpireAppends
    <2>3. Commit(Appended(es), sockets)
      BY <1>3, <2>2
    <2>. QED
      BY <1>1, <2>2, <2>3, OwnHandles
  <1>. QED
    BY <1>2, <1>3 DEF Alarm

-----------------------------------------------------------------------------
\* Fewer submits wait, and more numbers are given.
LEMMA NumbersLess ==
    ASSUME NEW P, NEW Q, NEW R, NEW g \in Seq(Entries), NEW mv \in Nat, NEW nv \in Nat, mv <= nv,
           NumbersOK(P, mv), TableOK(P, g, R, mv), Fewer(Q, P)
    PROVE  NumbersOK(Q, nv) /\ TableOK(Q, g, R, nv)
  <1>1. \A d \in Daemons : \A e \in Q[d] : e \in P[d]
    BY DEF Fewer
  <1>2. NumbersOK(Q, nv)
    <2>1. \A d \in Daemons : \A e \in Q[d] : e.id \in 1 .. nv
      BY <1>1 DEF NumbersOK
    <2>2. \A d, b \in Daemons : \A e \in Q[d], f \in Q[b] : e.id = f.id => d = b /\ e = f
      BY <1>1 DEF NumbersOK
    <2>. QED
      BY <2>1, <2>2 DEF NumbersOK
  <1>3. TableOK(Q, g, R, nv)
    <2>1. \A k \in 1 .. Len(g) : g[k].id \in 0 .. nv
      BY DEF TableOK
    <2>2. \A d \in Daemons : \A e, f \in Q[d] : \A n \in 1 .. Len(g) :
             e.id < f.id /\ g[n].id = f.id /\ e.id \notin R
                => \E m \in 1 .. n - 1 : g[m].id = e.id
      BY <1>1 DEF TableOK
    <2>. QED
      BY <2>1, <2>2 DEF TableOK
  <1>. QED
    BY <1>2, <1>3

\* A client reads or writes on its connection, or loses it.
LEMMA OneChanges ==
    ASSUME HInv, SInv, log' = log, refused' = refused, moves' \in Nat, moves <= moves',
           Fewer(pending', pending),
           NEW i \in 1 .. Len(sockets), NEW x \in Socket, sockets' = [sockets EXCEPT ![i] = x],
           UpOK(x.up, x.client, pending, Settled, moves'), DownOK(x.down, Settled),
           \A d \in Daemons : conn'[d] > 0 =>
              /\ conn'[d] = conn[d]
              /\ conn[d] = i => \A n : Waits(sockets[i].up, n) => Waits(x.up, n)
    PROVE  SInv'
  <1>1. /\ sockets \in Seq(Socket) /\ log \in Seq(Entries) /\ moves \in Nat
        /\ NumbersOK(pending, moves) /\ TableOK(pending, log, refused, moves)
        /\ QueuesOK(sockets, pending, Settled, moves) /\ UnderWay(sockets, conn, pending, Settled)
    BY SocketsTyped DEF HInv, LogInv, Folds, WireInv, ClientsInv, SInv
  <1>2. /\ NumbersOK(pending', moves') /\ TableOK(pending', log, refused, moves')
        /\ NumbersOK(pending, moves')
    BY <1>1, NumbersLess DEF Fewer
  <1>3. /\ Len(sockets') = Len(sockets) /\ sockets'[i] = x
        /\ \A k \in 1 .. Len(sockets) : k # i => sockets'[k] = sockets[k]
    BY <1>1
  <1>4. ASSUME NEW k \in 1 .. Len(sockets)
        PROVE  /\ UpOK(sockets'[k].up, sockets'[k].client, pending', Settled, moves')
               /\ DownOK(sockets'[k].down, Settled)
    <2>1. CASE k = i
      <3>1. moves' <= moves' /\ Settled \subseteq Settled
        OBVIOUS
      <3>2. UpOK(x.up, x.client, pending', Settled, moves')
        BY <1>2, <3>1, UpLess
      <3>. QED
        BY <1>3, <2>1, <3>2
    <2>2. CASE k # i
      <3>1. /\ UpOK(sockets[k].up, sockets[k].client, pending, Settled, moves)
            /\ DownOK(sockets[k].down, Settled)
        BY <1>1 DEF QueuesOK
      <3>2. UpOK(sockets[k].up, sockets[k].client, pending', Settled, moves')
        BY <1>1, <3>1, UpLess
      <3>. QED
        BY <1>3, <2>2, <3>1, <3>2
    <2>. QED
      BY <2>1, <2>2
  <1>5. QueuesOK(sockets', pending', Settled, moves')
    BY <1>3, <1>4 DEF QueuesOK
  <1>6. ASSUME NEW d \in Daemons, conn'[d] > 0, NEW e \in pending'[d]
        PROVE  e.id \in Settled \/ Waits(sockets'[conn'[d]].up, e.id)
    <2>1. conn'[d] = conn[d] /\ e \in pending[d] /\ d \in Clients
      BY <1>6 DEF Fewer, Clients, Readers
    <2>2. e.id \in Settled \/ Waits(sockets[conn[d]].up, e.id)
      BY <1>1, <1>6, <2>1 DEF UnderWay
    <2>3. conn[d] \in 1 .. Len(sockets)
      BY <1>6, <2>1, SocketAt
    <2>. QED
      BY <1>3, <1>6, <2>1, <2>2, <2>3
  <1>7. UnderWay(sockets', conn', pending', Settled)
    BY <1>6 DEF UnderWay
  <1>8. Settled' = Settled
    BY DEF Settled
  <1>. QED
    BY <1>2, <1>5, <1>7, <1>8 DEF SInv

LEMMA SentIs ==
    ASSUME HInv, NEW i \in 1 .. Len(sockets), NEW m \in Messages
    PROVE  \E x \in Socket :
              /\ Send(i, <<m>>) = [sockets EXCEPT ![i] = x]
              /\ x.client = sockets[i].client /\ x.up = Append(sockets[i].up, m)
              /\ x.down = sockets[i].down
  <1>. DEFINE s == sockets[i]
              u == s.up \o <<m>>
              x == [s EXCEPT !.up = u]
  <1>1. s \in Socket /\ s.up \in Seq(Messages)
    BY SocketsTyped
  <1>2. u \in Seq(Messages) /\ u = Append(s.up, m)
    BY <1>1
  <1>3. Send(i, <<m>>) = [sockets EXCEPT ![i] = x]
    BY DEF Send
  <1>. HIDE DEF u
  <1>4. x \in Socket /\ x.client = s.client /\ x.up = u /\ x.down = s.down
    BY <1>1, <1>2, UpSet
  <1>. HIDE DEF x
  <1>. QED
    BY <1>2, <1>3, <1>4

\* What a client finds of itself in the invariant.
LEMMA OwnQueue ==
    ASSUME HInv, SInv, NEW c \in Clients, conn[c] > 0
    PROVE  LET i == conn[c]
               s == sockets[i]
           IN /\ i \in 1 .. Len(sockets) /\ s \in Socket /\ s.client = c
              /\ s.up \in Seq(Messages) /\ s.down \in Seq(Frame)
              /\ UpOK(s.up, c, pending, Settled, moves) /\ DownOK(s.down, Settled)
              /\ \A nv \in Nat : moves <= nv => UpOK(s.up, c, pending, Settled, nv)
              /\ moves \in Nat
  <1>. DEFINE i == conn[c]
              s == sockets[i]
  <1>1. i \in 1 .. Len(sockets) /\ s.client = c
    BY SocketAt
  <1>2. s \in Socket /\ s.up \in Seq(Messages) /\ s.down \in Seq(Frame)
    BY <1>1, SocketsTyped
  <1>3. /\ UpOK(s.up, c, pending, Settled, moves) /\ DownOK(s.down, Settled) /\ moves \in Nat
        /\ NumbersOK(pending, moves)
    BY <1>1 DEF SInv, QueuesOK, HInv, WireInv, ClientsInv
  <1>4. \A nv \in Nat : moves <= nv => UpOK(s.up, c, pending, Settled, nv)
    BY <1>3, UpLess DEF Fewer
  <1>. QED
    BY <1>1, <1>2, <1>3, <1>4

LEMMA BeatsHandles ==
    ASSUME HInv, SInv, NEW d \in Daemons, Beats(d)
    PROVE  SInv'
  <1>. DEFINE i == conn[d]
              u == sockets[i].up
  <1>1. /\ i # 0 /\ sockets' = Send(i, <<Heartbeat>>) /\ moves' = moves + 1
        /\ log' = log /\ refused' = refused /\ pending' = pending /\ conn' = conn
    BY DEF Beats, Unchanged, ClientsUnchanged
  <1>2. d \in Clients /\ i > 0
    BY <1>1, ReaderConn DEF Readers
  <1>3. /\ i \in 1 .. Len(sockets) /\ sockets[i].client = d /\ u \in Seq(Messages)
        /\ DownOK(sockets[i].down, Settled) /\ moves \in Nat
        /\ \A nv \in Nat : moves <= nv => UpOK(u, d, pending, Settled, nv)
    BY <1>2, OwnQueue
  <1>4. Heartbeat \in Messages /\ Heartbeat.type # "SUBMIT"
    BY MessagesMade
  <1>5. PICK x \in Socket :
           /\ Send(i, <<Heartbeat>>) = [sockets EXCEPT ![i] = x]
           /\ x.client = d /\ x.up = Append(u, Heartbeat) /\ x.down = sockets[i].down
    <2>1. \E x \in Socket :
             /\ Send(i, <<Heartbeat>>) = [sockets EXCEPT ![i] = x]
             /\ x.client = sockets[i].client /\ x.up = Append(sockets[i].up, Heartbeat)
             /\ x.down = sockets[i].down
      BY <1>3, <1>4, SentIs
    <2>. QED
      BY <1>3, <2>1
  <1>6. moves' \in Nat /\ moves <= moves' /\ UpOK(u, d, pending, Settled, moves')
    BY <1>1, <1>3
  <1>7. /\ UpOK(x.up, d, pending, Settled, moves')
        /\ \A n : Waits(u, n) => Waits(x.up, n)
    BY <1>3, <1>4, <1>5, <1>6, UpMore
  <1>8. Fewer(pending', pending)
    BY <1>1 DEF Fewer
  <1>. QED
    BY <1>1, <1>3, <1>5, <1>6, <1>7, <1>8, OneChanges

\* A connection is lost, with some of what was sent on it.
LEMMA CutHandles ==
    ASSUME HInv, SInv, NEW c \in Clients, conn[c] > 0, Cut(c), log' = log, refused' = refused,
           moves' = moves, Fewer(pending', pending), NEW v, ~(v > 0), conn' = [conn EXCEPT ![c] = v]
    PROVE  SInv'
  <1>. DEFINE i == conn[c]
              u == sockets[i].up
  <1>1. /\ i \in 1 .. Len(sockets) /\ u \in Seq(Messages) /\ moves \in Nat
        /\ \A nv \in Nat : moves <= nv => UpOK(u, c, pending, Settled, nv)
    BY OwnQueue
  <1>2. PICK x \in Socket :
           /\ x.client = c /\ x.down = <<>> /\ sockets' = [sockets EXCEPT ![i] = x]
           /\ \A k \in 1 .. Len(x.up) : k \in 1 .. Len(u) /\ x.up[k] = u[k]
    BY CutIs
  <1>3. moves' \in Nat /\ moves <= moves' /\ UpOK(u, c, pending, Settled, moves')
    BY <1>1
  <1>4. Len(u) \in Nat /\ Len(x.up) \in Nat
    BY <1>1, <1>2, SocketParts
  <1>5. UpOK(x.up, c, pending, Settled, moves')
    BY <1>2, <1>3, <1>4, UpBegun
  <1>6. DownOK(x.down, Settled)
    BY <1>2 DEF DownOK
  <1>7. ASSUME NEW d \in Daemons, conn'[d] > 0
        PROVE  conn'[d] = conn[d] /\ conn[d] # i
    <2>1. d \in Clients /\ conn \in [Clients -> {Closed} \cup Nat]
      BY DEF Clients, Readers, HInv, WireInv, ClientsInv
    <2>2. d # c /\ conn'[d] = conn[d]
      BY <1>7, <2>1
    <2>. QED
      BY <1>7, <2>1, <2>2, SocketAt
  <1>. QED
    BY <1>1, <1>2, <1>3, <1>5, <1>6, <1>7, OneChanges

LEMMA LoseHandles ==
    ASSUME HInv, SInv, NEW c \in Clients, Lose(c)
    PROVE  SInv'
  <1>1. /\ conn[c] > 0 /\ Cut(c) /\ log' = log /\ refused' = refused /\ moves' = moves
        /\ pending' = pending /\ conn' = [conn EXCEPT ![c] = IF c \in Asks THEN Closed ELSE 0]
    BY DEF Lose, Unchanged
  <1>2. ~((IF c \in Asks THEN Closed ELSE 0) > 0)
    BY DEF Closed
  <1>3. Fewer(pending', pending)
    BY <1>1 DEF Fewer
  <1>. QED
    BY <1>1, <1>2, <1>3, CutHandles

LEMMA DiesHandles ==
    ASSUME HInv, SInv, NEW d \in Daemons, Dies(d)
    PROVE  SInv'
  <1>1. /\ conn[d] # 0 /\ Cut(d) /\ log' = log /\ refused' = refused /\ moves' = moves
        /\ pending' = [pending EXCEPT ![d] = {}] /\ conn' = [conn EXCEPT ![d] = 0]
    BY DEF Dies, Unchanged
  <1>2. d \in Clients /\ conn[d] > 0
    BY <1>1, ReaderConn DEF Readers
  <1>3. Fewer(pending', pending)
    BY <1>1 DEF Fewer, HInv, WireInv, ClientsInv
  <1>4. ~(0 > 0)
    OBVIOUS
  <1>. QED
    BY <1>1, <1>2, <1>3, <1>4, CutHandles

LEMMA TakeHandles ==
    ASSUME HInv, SInv, NEW c \in Readers, Take(c)
    PROVE  SInv'
  <1>. DEFINE i == conn[c]
              s == sockets[i]
              D == Tail(s.down)
              x == [s EXCEPT !.down = D]
  <1>1. /\ i # 0 /\ s.down # <<>> /\ log' = log /\ refused' = refused
        /\ moves' = moves /\ conn' = conn
        /\ sockets' = [sockets EXCEPT ![i] = x]
        /\ pending' = IF c \in Daemons
                      THEN [pending EXCEPT ![c] = Unsettled(c, Head(s.down))] ELSE pending
    BY DEF Take, Unchanged
  <1>2. c \in Clients /\ i > 0
    BY <1>1, ReaderConn
  <1>3. /\ i \in 1 .. Len(sockets) /\ s \in Socket /\ s.client = c /\ s.down \in Seq(Frame)
        /\ UpOK(s.up, c, pending, Settled, moves) /\ DownOK(s.down, Settled) /\ moves \in Nat
    BY <1>2, OwnQueue
  <1>4. /\ D \in Seq(Frame)
        /\ \A k \in 1 .. Len(D) : k + 1 \in 1 .. Len(s.down) /\ D[k] = s.down[k + 1]
    <2>1. /\ D \in Seq(Frame) /\ Len(s.down) \in Nat /\ Len(D) = Len(s.down) - 1
          /\ \A k \in 1 .. Len(s.down) - 1 : D[k] = s.down[k + 1] /\ k + 1 \in 2 .. Len(s.down)
      BY <1>1, <1>3, TailParts
    <2>. QED
      BY <2>1
  <1>. HIDE DEF D
  <1>5. x \in Socket /\ x.client = s.client /\ x.up = s.up /\ x.down = D
    BY <1>3, <1>4, DownSet
  <1>. HIDE DEF x
  <1>6. DownOK(x.down, Settled)
    BY <1>3, <1>4, <1>5 DEF DownOK
  <1>7. Fewer(pending', pending)
    BY <1>1 DEF Fewer, Unsettled, HInv, WireInv, ClientsInv
  <1>8. moves <= moves' /\ moves' \in Nat
    BY <1>1, <1>3
  <1>9. UpOK(x.up, x.client, pending, Settled, moves')
    BY <1>1, <1>3, <1>5
  <1>10. \A d \in Daemons : conn'[d] > 0 =>
            /\ conn'[d] = conn[d]
            /\ conn[d] = i => \A n : Waits(sockets[i].up, n) => Waits(x.up, n)
    BY <1>1, <1>5
  <1>11. log' = log /\ refused' = refused /\ sockets' = [sockets EXCEPT ![i] = x] /\ i \in 1 .. Len(sockets)
    BY <1>1, <1>3
  <1>. HIDE DEF i, s
  <1>. QED
    BY <1>5, <1>6, <1>7, <1>8, <1>9, <1>10, <1>11, OneChanges

LEMMA AskTakesHandles ==
    ASSUME HInv, SInv, NEW a \in Asks, AskTakes(a)
    PROVE  SInv'
  <1>. DEFINE i == conn[a]
              s == sockets[i]
              D == Tail(s.down)
              r == [s EXCEPT !.down = D]
              read == [sockets EXCEPT ![i].down = Tail(@)]
              Said(e) == [read EXCEPT ![i].up = Append(@, Submission([e EXCEPT !.id = moves + 1]))]
  <1>0. /\ i > 0 /\ s.down # <<>>
        /\ \/ /\ moves' = moves + 1 /\ conn' = conn
              /\ \E e \in Override : sockets' = Said(e)
           \/ sockets' = read /\ conn' = conn /\ moves' = moves
           \/ /\ sockets' = [read EXCEPT ![i].live = FALSE, ![i].down = <<>>]
              /\ conn' = [conn EXCEPT ![a] = Closed] /\ moves' = moves
        /\ log' = log /\ refused' = refused /\ pending' = pending
    BY DEF AskTakes, Unchanged
  <1>1. /\ i \in 1 .. Len(sockets) /\ s \in Socket /\ s.client = a /\ sockets \in Seq(Socket)
        /\ s.up \in Seq(Messages) /\ s.down \in Seq(Frame) /\ DownOK(s.down, Settled)
        /\ moves \in Nat /\ \A nv \in Nat : moves <= nv => UpOK(s.up, a, pending, Settled, nv)
    <2>1. a \in Clients
      BY DEF Clients
    <2>. QED
      BY <1>0, <2>1, OwnQueue, SocketsTyped
  <1>2. /\ D \in Seq(Frame)
        /\ \A k \in 1 .. Len(D) : k + 1 \in 1 .. Len(s.down) /\ D[k] = s.down[k + 1]
    <2>1. /\ D \in Seq(Frame) /\ Len(s.down) \in Nat /\ Len(D) = Len(s.down) - 1
          /\ \A k \in 1 .. Len(s.down) - 1 : D[k] = s.down[k + 1] /\ k + 1 \in 2 .. Len(s.down)
      BY <1>0, <1>1, TailParts
    <2>. QED
      BY <2>1
  <1>3. read = [sockets EXCEPT ![i] = r]
    OBVIOUS
  <1>. HIDE DEF D, read
  <1>4. r \in Socket /\ r.client = a /\ r.up = s.up /\ r.down = D
    BY <1>1, <1>2, DownSet
  <1>. HIDE DEF r
  <1>5. read[i] = r /\ read \in Seq(Socket) /\ Len(read) = Len(sockets)
    BY <1>1, <1>3, <1>4
  <1>6. DownOK(r.down, Settled) /\ DownOK(<<>>, Settled)
    <2>1. DownOK(D, Settled)
      BY <1>1, <1>2 DEF DownOK
    <2>. QED
      BY <1>4, <2>1 DEF DownOK
  <1>7. ASSUME NEW d \in Daemons
        PROVE  conn[d] # i /\ conn'[d] = conn[d]
    <2>1. d \in Readers /\ d \in Clients /\ d # a
      BY HostedAssumption DEF Readers, Clients
    <2>2. conn[d] # i
      BY <1>0, <1>1, <2>1, SocketAt
    <2>3. conn \in [Clients -> {Closed} \cup Nat]
      BY DEF HInv, WireInv, ClientsInv
    <2>. QED
      BY <1>0, <2>1, <2>2, <2>3
  <1>8. Fewer(pending', pending)
    BY <1>0 DEF Fewer
  <1>9. ASSUME NEW e \in Override, moves' = moves + 1, sockets' = Said(e)
        PROVE  SInv'
    <2>. DEFINE m == Submission([e EXCEPT !.id = moves + 1])
                u == Append(r.up, m)
                x == [r EXCEPT !.up = u]
    <2>1. m \in Messages /\ m.event.id = moves + 1 /\ moves + 1 \in Nat
      <3>1. [e EXCEPT !.id = moves + 1] \in Submittable /\ [e EXCEPT !.id = moves + 1].id = moves + 1
        <4>1. e \in Submittable /\ moves + 1 \in Nat
          BY <1>1, OverridesMade
        <4>. QED
          BY <4>1, IdGiven
      <3>2. moves + 1 \in Nat
        BY <1>1
      <3>. QED
        BY <3>1, <3>2, MessagesMade
    <2>2. sockets' = [read EXCEPT ![i] = x]
      BY <1>5, <1>9
    <2>. HIDE DEF m
    <2>3. u \in Seq(Messages)
      BY <1>1, <1>4, <2>1
    <2>4. UpOK(u, a, pending, Settled, moves + 1)
      <3>1. \A d \in Daemons : \A f \in pending[d] : f.id # moves + 1
        BY <1>1 DEF SInv, NumbersOK
      <3>2. UpOK(s.up, a, pending, Settled, moves + 1) /\ s.up \in Seq(Messages)
        <4>1. moves + 1 \in Nat /\ moves <= moves + 1
          BY <1>1
        <4>. QED
          BY <1>1, <4>1
      <3>3. m.event.id \in 1 .. moves + 1
        BY <1>1, <2>1
      <3>4. \A d \in Daemons : \A f \in pending[d] : f.id # m.event.id
        BY <2>1, <3>1
      <3>5. UpOK(Append(s.up, m), a, pending, Settled, moves + 1)
        BY <2>1, <3>2, <3>3, <3>4, UpMore
      <3>. QED
        BY <1>4, <3>5
    <2>. HIDE DEF u
    <2>5. x \in Socket /\ x.client = a /\ x.up = u /\ x.down = D
      BY <1>4, <2>3, UpSet
    <2>. HIDE DEF x
    <2>6. sockets' = [sockets EXCEPT ![i] = x]
      BY <1>1, <1>3, <2>2, SetAt
    <2>7. UpOK(x.up, x.client, pending, Settled, moves') /\ DownOK(x.down, Settled)
      BY <1>4, <1>6, <1>9, <2>4, <2>5
    <2>8. moves' \in Nat /\ moves <= moves'
      BY <1>1, <1>9
    <2>9. log' = log /\ refused' = refused /\ i \in 1 .. Len(sockets)
      BY <1>0, <1>1
    <2>10. \A d \in Daemons : conn'[d] > 0 =>
              /\ conn'[d] = conn[d]
              /\ conn[d] = i => \A n : Waits(sockets[i].up, n) => Waits(x.up, n)
      BY <1>7
    <2>. HIDE DEF i, s, Said
    <2>. QED
      BY <1>8, <2>5, <2>6, <2>7, <2>8, <2>9, <2>10, OneChanges
  <1>10. CASE sockets' = read /\ moves' = moves
    <2>1. UpOK(r.up, r.client, pending, Settled, moves') /\ moves' \in Nat /\ moves <= moves'
      BY <1>1, <1>4, <1>10
    <2>2. sockets' = [sockets EXCEPT ![i] = r]
      BY <1>3, <1>10
    <2>3. log' = log /\ refused' = refused /\ i \in 1 .. Len(sockets) /\ DownOK(r.down, Settled)
      BY <1>0, <1>1, <1>6
    <2>4. \A d \in Daemons : conn'[d] > 0 =>
             /\ conn'[d] = conn[d]
             /\ conn[d] = i => \A n : Waits(sockets[i].up, n) => Waits(r.up, n)
      BY <1>7
    <2>. HIDE DEF i, s, Said
    <2>. QED
      BY <1>4, <1>8, <2>1, <2>2, <2>3, <2>4, OneChanges
  <1>11. CASE sockets' = [read EXCEPT ![i].live = FALSE, ![i].down = <<>>] /\ moves' = moves
    <2>. DEFINE x == Dead(r)
    <2>1. x \in Socket /\ x.client = a /\ x.up = s.up /\ x.down = <<>>
      BY <1>4, DeadIs
    <2>2. sockets' = [read EXCEPT ![i] = x]
      <3>1. i \in 1 .. Len(read) /\ read \in Seq(Socket) /\ read[i] = r
        BY <1>1, <1>5
      <3>2. [read EXCEPT ![i].live = FALSE, ![i].down = <<>>] = [read EXCEPT ![i] = Dead(read[i])]
        BY <3>1, DeadAt
      <3>. QED
        BY <1>11, <3>1, <3>2
    <2>. HIDE DEF x
    <2>3. sockets' = [sockets EXCEPT ![i] = x]
      BY <1>1, <1>3, <2>2, SetAt
    <2>4. UpOK(x.up, x.client, pending, Settled, moves') /\ moves' \in Nat /\ moves <= moves'
      BY <1>1, <1>11, <2>1
    <2>5. log' = log /\ refused' = refused /\ i \in 1 .. Len(sockets) /\ DownOK(x.down, Settled)
      BY <1>0, <1>1, <1>6, <2>1
    <2>6. \A d \in Daemons : conn'[d] > 0 =>
             /\ conn'[d] = conn[d]
             /\ conn[d] = i => \A n : Waits(sockets[i].up, n) => Waits(x.up, n)
      BY <1>7
    <2>. HIDE DEF i, s, Said
    <2>. QED
      BY <1>8, <2>1, <2>3, <2>4, <2>5, <2>6, OneChanges
  <1>. QED
    BY <1>0, <1>9, <1>10, <1>11

\* A new submit: its number is above all that were given.
LEMMA NumbersMore ==
    ASSUME NEW P, NEW Q, NEW R, NEW g \in Seq(Entries), NEW mv \in Nat, NEW d \in Daemons, NEW new,
           new.id = mv + 1, \A b \in Daemons : Q[b] = IF b = d THEN P[b] \cup {new} ELSE P[b],
           NumbersOK(P, mv), TableOK(P, g, R, mv)
    PROVE  /\ NumbersOK(Q, mv + 1) /\ TableOK(Q, g, R, mv + 1)
           /\ \A u, c, K : UpOK(u, c, P, K, mv) => UpOK(u, c, Q, K, mv + 1)
  <1>1. \A b \in Daemons : \A e \in Q[b] : (e \in P[b] /\ e.id \in 1 .. mv) \/ (b = d /\ e = new)
    BY DEF NumbersOK
  <1>2. ASSUME NEW b \in Daemons, NEW e \in Q[b], NEW f \in Q[b], f.id \in 0 .. mv, e.id < f.id
        PROVE  e \in P[b] /\ f \in P[b]
    BY <1>1, <1>2
  <1>3. NumbersOK(Q, mv + 1)
    <2>1. \A b \in Daemons : \A e \in Q[b] : e.id \in 1 .. mv + 1
      BY <1>1
    <2>2. \A b, c \in Daemons : \A e \in Q[b], f \in Q[c] : e.id = f.id => b = c /\ e = f
      BY <1>1 DEF NumbersOK
    <2>. QED
      BY <2>1, <2>2 DEF NumbersOK
  <1>4. TableOK(Q, g, R, mv + 1)
    <2>1. \A k \in 1 .. Len(g) : g[k].id \in 0 .. mv + 1
      BY DEF TableOK
    <2>2. ASSUME NEW b \in Daemons, NEW e \in Q[b], NEW f \in Q[b], NEW n \in 1 .. Len(g),
                 e.id < f.id, g[n].id = f.id, e.id \notin R
          PROVE  \E m \in 1 .. n - 1 : g[m].id = e.id
      <3>1. g[n].id \in 0 .. mv
        BY DEF TableOK
      <3>2. e \in P[b] /\ f \in P[b]
        BY <1>2, <2>2, <3>1
      <3>. QED
        BY <2>2, <3>2 DEF TableOK
    <2>. QED
      BY <2>1, <2>2 DEF TableOK
  <1>5. ASSUME NEW u, NEW c, NEW K, UpOK(u, c, P, K, mv)
        PROVE  UpOK(u, c, Q, K, mv + 1)
    <2>1. ASSUME NEW k \in 1 .. Len(u), u[k].type = "SUBMIT"
          PROVE  u[k].event.id \in 1 .. mv + 1 /\ InTurn(u, k, c, Q, K)
      <3>1. u[k].event.id \in 1 .. mv /\ InTurn(u, k, c, P, K)
        BY <1>5, <2>1 DEF UpOK
      <3>2. ASSUME NEW b \in Daemons, NEW f \in Q[b], f.id = u[k].event.id
            PROVE  f \in P[b]
        BY <1>1, <3>1, <3>2
      <3>3. ASSUME NEW b \in Daemons, NEW f \in Q[b], f.id = u[k].event.id
            PROVE  /\ c = b
                   /\ \A e \in Q[b] : e.id < f.id =>
                         e.id \in K \/ \E j \in 1 .. k - 1 : Says(u[j], e.id)
        <4>1. f \in P[b] /\ f.id \in 0 .. mv
          BY <3>1, <3>2, <3>3
        <4>2. \A e \in Q[b] : e.id < f.id => e \in P[b]
          BY <1>2, <4>1
        <4>. QED
          BY <3>1, <3>3, <4>1, <4>2 DEF InTurn
      <3>4. u[k].event.id \in 1 .. mv + 1
        BY <3>1
      <3>. QED
        BY <3>3, <3>4 DEF InTurn
    <2>. QED
      BY <2>1 DEF UpOK
  <1>. QED
    BY <1>3, <1>4, <1>5

LEMMA IssueHandles ==
    ASSUME HInv, SInv, NEW d \in Daemons, NEW e \in Submittable, Issue(d, e)
    PROVE  SInv'
  <1>. DEFINE new == [e EXCEPT !.id = moves + 1]
              m == Submission(new)
              i == conn[d]
              u == sockets[i].up
  <1>1. /\ moves \in Nat /\ moves + 1 \in Nat /\ log \in Seq(Entries) /\ ClientsInv
        /\ NumbersOK(pending, moves) /\ TableOK(pending, log, refused, moves)
        /\ QueuesOK(sockets, pending, Settled, moves) /\ UnderWay(sockets, conn, pending, Settled)
        /\ sockets \in Seq(Socket)
    BY SocketsTyped DEF HInv, LogInv, Folds, WireInv, ClientsInv, SInv
  <1>2. d \in Clients /\ i \in Nat
    BY ReaderConn DEF Readers
  <1>3. new \in Submittable /\ new.id = moves + 1
    BY <1>1, IdGiven
  <1>4. /\ log' = log /\ refused' = refused /\ conn' = conn /\ moves' = moves + 1
        /\ pending' = [pending EXCEPT ![d] = @ \cup {new}]
        /\ sockets' = IF i = 0 THEN sockets ELSE Send(i, <<m>>)
    BY DEF Issue, Unchanged
  <1>0. Settled' = Settled
    BY <1>4 DEF Settled
  <1>. HIDE DEF new
  <1>5. m \in Messages /\ m.event = new
    BY <1>3, MessagesMade
  <1>6. \A b \in Daemons : pending'[b] = IF b = d THEN pending[b] \cup {new} ELSE pending[b]
    BY <1>1, <1>4 DEF ClientsInv
  <1>7. /\ NumbersOK(pending', moves') /\ TableOK(pending', log, refused, moves')
        /\ \A v, c : UpOK(v, c, pending, Settled, moves) => UpOK(v, c, pending', Settled, moves')
    BY <1>1, <1>3, <1>4, <1>6, NumbersMore
  <1>8. \A k \in 1 .. Len(sockets) :
           /\ UpOK(sockets[k].up, sockets[k].client, pending', Settled, moves')
           /\ DownOK(sockets[k].down, Settled)
    BY <1>1, <1>7 DEF QueuesOK
  <1>9. \A b \in Daemons : conn[b] > 0 =>
           \A f \in pending[b] : f.id \in Settled \/ Waits(sockets[conn[b]].up, f.id)
    BY <1>1 DEF UnderWay
  <1>10. CASE i = 0
    <2>1. sockets' = sockets
      BY <1>4, <1>10
    <2>2. UnderWay(sockets, conn, pending', Settled)
      <3>1. \A b \in Daemons : conn[b] > 0 => b # d
        BY <1>10
      <3>2. \A b \in Daemons : conn[b] > 0 => pending'[b] = pending[b]
        BY <1>6, <3>1
      <3>. QED
        BY <1>9, <3>2 DEF UnderWay
    <2>3. QueuesOK(sockets, pending', Settled, moves')
      BY <1>8 DEF QueuesOK
    <2>. QED
      BY <1>0, <1>4, <1>7, <2>1, <2>2, <2>3 DEF SInv
  <1>11. CASE i # 0
    <2>1. i > 0
      BY <1>2, <1>11
    <2>2. /\ i \in 1 .. Len(sockets) /\ sockets[i].client = d /\ u \in Seq(Messages)
      BY <1>2, <2>1, OwnQueue
    <2>3. PICK x \in Socket :
             /\ sockets' = [sockets EXCEPT ![i] = x]
             /\ x.client = d /\ x.up = Append(u, m) /\ x.down = sockets[i].down
      <3>1. \E x \in Socket :
               /\ Send(i, <<m>>) = [sockets EXCEPT ![i] = x]
               /\ x.client = sockets[i].client /\ x.up = Append(sockets[i].up, m)
               /\ x.down = sockets[i].down
        BY <1>5, <2>2, SentIs
      <3>2. sockets' = Send(i, <<m>>)
        BY <1>4, <1>11
      <3>. HIDE DEF m
      <3>. QED
        BY <2>2, <3>1, <3>2
    <2>4. /\ Len(sockets') = Len(sockets) /\ sockets'[i] = x
          /\ \A k \in 1 .. Len(sockets) : k # i => sockets'[k] = sockets[k]
      BY <1>1, <2>2, <2>3
    <2>5. /\ UpOK(x.up, d, pending', Settled, moves')
          /\ \A n : Waits(u, n) \/ Says(m, n) => Waits(x.up, n)
      <3>1. UpOK(u, d, pending', Settled, moves')
        BY <1>8, <2>2
      <3>2. m.event.id \in 1 .. moves'
        BY <1>1, <1>3, <1>4, <1>5
      <3>3. ASSUME NEW b \in Daemons, NEW f \in pending'[b], f.id = m.event.id
            PROVE  /\ d = b
                   /\ \A a \in pending'[b] : a.id < f.id => a.id \in Settled \/ Waits(u, a.id)
        <4>1. b = d /\ f = new
          <5>1. f \in pending[b] => f.id \in 1 .. moves
            BY <1>1 DEF NumbersOK
          <5>2. f.id = moves + 1
            BY <1>3, <1>5, <3>3
          <5>3. f \notin pending[b]
            BY <1>1, <5>1, <5>2
          <5>. QED
            BY <1>6, <5>3
        <4>2. \A a \in pending'[b] : a.id < f.id => a \in pending[b]
          <5>1. ~(new.id < new.id)
            BY <1>1, <1>3
          <5>2. pending'[b] = pending[b] \cup {new}
            BY <1>6, <4>1
          <5>. QED
            BY <4>1, <5>1, <5>2
        <4>. QED
          BY <1>9, <2>1, <4>1, <4>2
      <3>. HIDE DEF m, u
      <3>. QED
        BY <1>5, <2>2, <2>3, <3>1, <3>2, <3>3, UpMore
    <2>6. QueuesOK(sockets', pending', Settled, moves')
      BY <1>8, <2>2, <2>3, <2>4, <2>5 DEF QueuesOK
    <2>7. ASSUME NEW b \in Daemons, conn[b] > 0, NEW f \in pending'[b]
          PROVE  f.id \in Settled \/ Waits(sockets'[conn[b]].up, f.id)
      <3>1. b \in Clients /\ conn[b] \in 1 .. Len(sockets) /\ sockets[conn[b]].client = b
        <4>1. b \in Clients
          BY DEF Clients, Readers
        <4>. QED
          BY <2>7, <4>1, SocketAt
      <3>2. CASE b = d /\ f = new
        <4>1. Says(m, f.id)
          BY <1>3, <1>5, <3>2, MessagesMade DEF Says
        <4>. QED
          BY <2>4, <2>5, <3>2, <4>1
      <3>3. CASE f \in pending[b]
        <4>1. f.id \in Settled \/ Waits(sockets[conn[b]].up, f.id)
          BY <1>9, <2>7, <3>3
        <4>. QED
          BY <2>4, <2>5, <3>1, <4>1
      <3>. QED
        BY <1>6, <3>2, <3>3
    <2>8. UnderWay(sockets', conn, pending', Settled)
      BY <2>7 DEF UnderWay
    <2>. QED
      BY <1>0, <1>4, <1>7, <2>6, <2>8 DEF SInv
  <1>. QED
    BY <1>10, <1>11

\* What a daemon says when it connects again: all that waits, as it was made.
LEMMA OpeningTurns ==
    ASSUME HInv, SInv, NEW c \in Clients
    PROVE  /\ UpOK(Opening(c), c, pending, Settled, moves)
           /\ c \in Daemons => \A e \in pending[c] : Waits(Opening(c), e.id)
  <1>. DEFINE q == IF c \in Daemons THEN Unacknowledged(c) ELSE <<>>
              u == Opening(c)
  <1>1. /\ Len(u) = 1 + Len(q) /\ Len(q) \in Nat /\ u[1].type = "HELLO"
        /\ \A k \in 2 .. Len(u) : u[k] = q[k - 1] /\ k - 1 \in 1 .. Len(q)
    BY OpeningIs
  <1>2. c \notin Daemons => Len(q) = 0
    OBVIOUS
  <1>3. c \in Daemons =>
           /\ \A k \in 1 .. Len(q) : q[k].type = "SUBMIT" /\ q[k].event \in pending[c]
           /\ \A e \in pending[c] : \E k \in 1 .. Len(q) : q[k].event.id = e.id
           /\ \A j, k \in 1 .. Len(q) : q[j].event.id < q[k].event.id => j < k
    BY UnacknowledgedOK
  <1>4. NumbersOK(pending, moves)
    BY DEF SInv
  <1>. HIDE DEF q, u
  <1>5. ASSUME c \in Daemons, NEW e \in pending[c]
        PROVE  \E j \in 1 .. Len(q) : /\ q[j].event.id = e.id /\ j + 1 \in 1 .. Len(u)
                                      /\ Says(u[j + 1], e.id)
    <2>1. PICK j \in 1 .. Len(q) : q[j].event.id = e.id
      BY <1>3, <1>5
    <2>2. j + 1 \in 2 .. Len(u) /\ j + 1 \in 1 .. Len(u) /\ (j + 1) - 1 = j
      BY <1>1
    <2>3. u[j + 1] = q[j] /\ q[j].type = "SUBMIT"
      BY <1>1, <1>3, <1>5, <2>2
    <2>. QED
      BY <2>1, <2>2, <2>3 DEF Says
  <1>6. ASSUME NEW k \in 1 .. Len(u), u[k].type = "SUBMIT"
        PROVE  u[k].event.id \in 1 .. moves /\ InTurn(u, k, c, pending, Settled)
    <2>1. k \in 2 .. Len(u)
      BY <1>1, <1>6
    <2>2. u[k] = q[k - 1] /\ k - 1 \in 1 .. Len(q) /\ c \in Daemons
      BY <1>1, <1>2, <2>1
    <2>3. u[k].event \in pending[c]
      BY <1>3, <2>2
    <2>4. u[k].event.id \in 1 .. moves
      BY <1>4, <2>2, <2>3 DEF NumbersOK
    <2>5. ASSUME NEW d \in Daemons, NEW f \in pending[d], f.id = u[k].event.id
          PROVE  /\ c = d
                 /\ \A e \in pending[d] : e.id < f.id =>
                       e.id \in Settled \/ \E j \in 1 .. k - 1 : Says(u[j], e.id)
      <3>1. c = d
        BY <1>4, <2>2, <2>3, <2>5 DEF NumbersOK
      <3>2. ASSUME NEW e \in pending[d], e.id < f.id
            PROVE  \E j \in 1 .. k - 1 : Says(u[j], e.id)
        <4>1. PICK j \in 1 .. Len(q) : q[j].event.id = e.id /\ Says(u[j + 1], e.id)
          BY <1>5, <2>2, <3>1
        <4>2. q[j].event.id < q[k - 1].event.id
          BY <2>2, <2>5, <3>2, <4>1
        <4>3. j < k - 1
          BY <1>3, <2>2, <4>2
        <4>4. j + 1 \in 1 .. k - 1
          BY <4>3
        <4>. QED
          BY <4>1, <4>4
      <3>. QED
        BY <3>1, <3>2
    <2>. QED
      BY <2>4, <2>5 DEF InTurn
  <1>7. c \in Daemons => \A e \in pending[c] : Waits(u, e.id)
    BY <1>5 DEF Waits
  <1>. QED
    BY <1>6, <1>7 DEF UpOK, u

LEMMA ConnectHandles ==
    ASSUME HInv, SInv, NEW c \in Clients, Connect(c)
    PROVE  SInv'
  <1>. DEFINE u == Opening(c)
              x == NewSocket(c, u)
              n == Len(sockets) + 1
              ss == Append(sockets, x)
  <1>1. /\ sockets' = ss /\ conn' = [conn EXCEPT ![c] = Len(sockets')]
        /\ log' = log /\ refused' = refused /\ pending' = pending /\ moves' = moves
    BY DEF Connect, Opening, Unchanged
  <1>0. Settled' = Settled
    BY <1>1 DEF Settled
  <1>2. /\ UpOK(u, c, pending, Settled, moves)
        /\ c \in Daemons => \A e \in pending[c] : Waits(u, e.id)
    BY OpeningTurns
  <1>. HIDE DEF u
  <1>3. x.client = c /\ x.up = u /\ x.down = <<>>
    BY DEF NewSocket
  <1>. HIDE DEF x
  <1>4. sockets \in Seq(Socket) /\ conn \in [Clients -> {Closed} \cup Nat]
    BY SocketsTyped DEF HInv, WireInv, ClientsInv
  <1>5. /\ Len(ss) = n /\ Len(sockets) \in Nat /\ n \in Nat
        /\ ss[n] = x /\ \A k \in 1 .. Len(sockets) : ss[k] = sockets[k]
        /\ \A k \in 1 .. n : k = n \/ k \in 1 .. Len(sockets)
    BY <1>4
  <1>. HIDE DEF ss, n
  <1>6. conn'[c] = n /\ \A d \in Clients : d # c => conn'[d] = conn[d]
    BY <1>1, <1>4, <1>5
  <1>7. QueuesOK(sockets', pending', Settled', moves')
    <2>1. UpOK(x.up, x.client, pending, Settled, moves) /\ DownOK(x.down, Settled)
      BY <1>2, <1>3 DEF DownOK
    <2>. QED
      BY <1>0, <1>1, <1>5, <2>1 DEF SInv, QueuesOK
  <1>8. ASSUME NEW d \in Daemons, conn'[d] > 0, NEW e \in pending[d]
        PROVE  e.id \in Settled \/ Waits(ss[conn'[d]].up, e.id)
    <2>0. d \in Clients
      BY DEF Clients, Readers
    <2>1. CASE d = c
      BY <1>2, <1>3, <1>5, <1>6, <2>1
    <2>2. CASE d # c
      <3>1. conn'[d] = conn[d] /\ conn[d] > 0
        BY <1>6, <1>8, <2>0, <2>2
      <3>2. conn[d] \in 1 .. Len(sockets)
        BY <2>0, <3>1, SocketAt
      <3>3. e.id \in Settled \/ Waits(sockets[conn[d]].up, e.id)
        BY <3>1 DEF SInv, UnderWay
      <3>. QED
        BY <1>5, <3>1, <3>2, <3>3
    <2>. QED
      BY <2>1, <2>2
  <1>9. UnderWay(sockets', conn', pending', Settled')
    BY <1>0, <1>1, <1>8 DEF UnderWay
  <1>. QED
    BY <1>1, <1>7, <1>9 DEF SInv

\* A step of nothing that SInv speaks of.
LEMMA StillHandles ==
    ASSUME SInv, UNCHANGED <<log, refused, sockets, conn, pending, moves>>
    PROVE  SInv'
  <1>1. Settled' = Settled
    BY DEF Settled
  <1>. QED
    BY <1>1 DEF SInv

LEMMA SubmitsStart == Init => SInv
  <1>. SUFFICES ASSUME Init
                PROVE  SInv
    OBVIOUS
  <1>1. \A k \in 1 .. Len(log) : log[k].id = 0
    <2>1. HInv
      BY HostedStarts
    <2>2. log \in Seq(Entries)
      BY <2>1 DEF HInv, LogInv, Folds
    <2>3. \A k \in 1 .. Len(Begun) : Begun[k].id = 0
      BY BegunOK
    <2>. QED
      BY <2>2, <2>3 DEF Init
  <1>2. /\ sockets = <<>> /\ moves = 0 /\ \A d \in Daemons : pending[d] = {}
        /\ \A d \in Daemons : ~(conn[d] > 0)
    BY DEF Init, Clients, Readers
  <1>3. NumbersOK(pending, moves)
    BY <1>2 DEF NumbersOK
  <1>4. TableOK(pending, log, refused, moves)
    BY <1>1, <1>2 DEF TableOK
  <1>5. QueuesOK(sockets, pending, Settled, moves)
    BY <1>2 DEF QueuesOK
  <1>6. UnderWay(sockets, conn, pending, Settled)
    BY <1>2 DEF UnderWay
  <1>. QED
    BY <1>3, <1>4, <1>5, <1>6 DEF SInv

LEMMA SubmissionsKeep ==
    ASSUME HInv, SInv, [Next]_vars
    PROVE  SInv'
  <1>1. ASSUME ClientStep
        PROVE  SInv'
    <2>1. ASSUME NEW c \in Clients, Connect(c) \/ Lose(c)
          PROVE  SInv'
      BY <2>1, ConnectHandles, LoseHandles
    <2>2. ASSUME NEW c \in Readers, Take(c)
          PROVE  SInv'
      BY <2>2, TakeHandles
    <2>3. ASSUME NEW d \in Daemons, Issues(d) \/ Beats(d) \/ Dies(d)
          PROVE  SInv'
      <3>1. CASE Issues(d)
        <4>1. PICK e \in Submittable : Issue(d, e)
          BY <3>1, IssuesAre
        <4>. QED
          BY <4>1, IssueHandles
      <3>. QED
        BY <2>3, <3>1, BeatsHandles, DiesHandles
    <2>4. ASSUME NEW a \in Asks, AskTakes(a)
          PROVE  SInv'
      BY <2>4, AskTakesHandles
    <2>. QED
      BY <1>1, <2>1, <2>2, <2>3, <2>4 DEF ClientStep
  <1>2. ASSUME ObjectStep
        PROVE  SInv'
    <2>1. ASSUME NEW i, OnHello(i) \/ OnSubmit(i) \/ OnHeartbeat(i) \/ OnClose(i) \/ OnError(i)
          PROVE  SInv'
      BY <2>1, OnHelloHandles, OnSubmitHandles, OnHeartbeatHandles, OnCloseHandles, OnErrorHandles
    <2>. QED
      BY <1>2, <2>1, AlarmHandles DEF ObjectStep
  <1>3. CASE Tick
    BY <1>3, StillHandles DEF Tick, Unchanged, ClientsUnchanged
  <1>4. CASE UNCHANGED vars
    BY <1>4, StillHandles DEF vars
  <1>. QED
    BY <1>1, <1>2, <1>3, <1>4 DEF Next

\* A client that takes an answer gives up only what is logged or refused.
LEMMA SettledIsLogged ==
    ASSUME HInv, SInv, NEW c \in Daemons, Take(c), NEW e \in pending[c] \ pending'[c]
    PROVE  Known(e) \/ e.id \in refused
  <1>. DEFINE s == sockets[conn[c]]
              D == s.down
  <1>1. /\ conn[c] # 0 /\ D # <<>> /\ pending' = [pending EXCEPT ![c] = Unsettled(c, Head(D))]
    BY DEF Take
  <1>2. c \in Clients /\ conn[c] > 0
    BY <1>1, ReaderConn DEF Readers
  <1>3. D \in Seq(Frame) /\ DownOK(D, Settled)
    BY <1>2, OwnQueue
  <1>4. pending'[c] = Unsettled(c, Head(D))
    BY <1>1 DEF HInv, WireInv, ClientsInv
  <1>5. e.id = Head(D).id
    BY <1>4 DEF Unsettled
  <1>6. e.id \in 1 .. moves
    BY DEF SInv, NumbersOK
  <1>7. Head(D) = D[1] /\ 1 \in 1 .. Len(D)
    BY <1>1, <1>3, TailParts
  <1>8. D[1].id = e.id /\ D[1].id # 0
    BY <1>5, <1>6, <1>7
  <1>9. e.id \in Settled
    BY <1>3, <1>7, <1>8 DEF DownOK
  <1>10. log \in Seq(Entries)
    BY DEF HInv, LogInv, Folds
  <1>. QED
    BY <1>9, <1>10 DEF Settled, Settling, Has, Known

\* Every other step but the death of a daemon keeps what it has submitted.
LEMMA KeptOrLogged ==
    ASSUME HInv, SInv, [Next]_vars, NEW d \in Daemons, NEW e \in pending[d] \ pending'[d]
    PROVE  Known(e) \/ e.id \in refused \/ Dies(d)
  <1>1. pending \in [Daemons -> SUBSET Submittable]
    BY DEF HInv, WireInv, ClientsInv
  <1>2. pending' # pending
    OBVIOUS
  <1>3. ASSUME ClientStep
        PROVE  Known(e) \/ e.id \in refused \/ Dies(d)
    <2>1. ASSUME NEW c \in Clients, Connect(c) \/ Lose(c)
          PROVE  FALSE
      BY <1>2, <2>1 DEF Connect, Lose
    <2>2. ASSUME NEW c \in Readers, Take(c)
          PROVE  Known(e) \/ e.id \in refused
      <3>1. c \in Daemons /\ pending' = [pending EXCEPT ![c] = pending'[c]]
        BY <1>1, <1>2, <2>2 DEF Take
      <3>2. c = d
        BY <1>1, <3>1
      <3>. QED
        BY <2>2, <3>2, SettledIsLogged
    <2>3. ASSUME NEW b \in Daemons, Issues(b)
          PROVE  FALSE
      <3>1. PICK a : Issue(b, a)
        BY <2>3, IssuesAre
      <3>2. \E n : pending' = [pending EXCEPT ![b] = @ \cup {n}]
        BY <3>1 DEF Issue
      <3>. QED
        BY <1>1, <3>2
    <2>4. ASSUME NEW b \in Daemons, Beats(b)
          PROVE  FALSE
      BY <1>2, <2>4 DEF Beats, ClientsUnchanged
    <2>5. ASSUME NEW b \in Daemons, Dies(b)
          PROVE  Dies(d)
      <3>1. pending' = [pending EXCEPT ![b] = {}]
        BY <2>5 DEF Dies
      <3>2. b = d
        BY <1>1, <3>1
      <3>. QED
        BY <2>5, <3>2
    <2>6. ASSUME NEW a \in Asks, AskTakes(a)
          PROVE  FALSE
      BY <1>2, <2>6 DEF AskTakes
    <2>. QED
      BY <1>3, <2>1, <2>2, <2>3, <2>4, <2>5, <2>6 DEF ClientStep
  <1>4. ASSUME ObjectStep
        PROVE  FALSE
    BY <1>2, <1>4 DEF ObjectStep, OnHello, OnSubmit, OnHeartbeat, OnClose, OnError, Alarm,
                      ClientsUnchanged
  <1>5. ~Tick /\ ~UNCHANGED vars
    BY <1>2 DEF Tick, vars, ClientsUnchanged
  <1>. QED
    BY <1>3, <1>4, <1>5 DEF Next

-----------------------------------------------------------------------------
(***************************************************************************)
(* Theorems.                                                               *)
(***************************************************************************)
\* The parts of HInv hold together from the first step on.
THEOREM HostedInvariance == HostedSpec => []HInv
  <1>1. Init => HInv
    BY HostedStarts
  <1>2. HInv /\ [Next]_vars => HInv'
    BY HostedKeeps
  <1>. QED
    BY <1>1, <1>2, PTL DEF HostedSpec

\* The object's state is what its handlers expect: the log is numbered without a
\* gap, every state its reducer went through is a room, the alarm is a time or
\* none, a live socket is the one its client has, and no position is past the log.
THEOREM HostedTypes == HostedSpec => []HostedTypeOK
  <1>1. HInv => HostedTypeOK
    <2>. SUFFICES ASSUME HInv
                  PROVE  HostedTypeOK
      OBVIOUS
    <2>1. now \in 0 .. MaxNow /\ room \in Core!Room /\ Len(hist) = Len(log) + 1 /\ Len(log) \in Nat
      BY RoomIsLast DEF HInv, RoomOK
    <2>2. \A i \in DOMAIN log : log[i].seq = i
      <3>1. log \in Seq(Entries) /\ \A n \in 1 .. Len(log) : log[n].seq = n
        BY DEF HInv, LogInv, Folds
      <3>. QED
        BY <3>1
    <2>3. alarm \in {Never} \cup 0 .. MaxNow + LeaseTtl /\ missed \in BOOLEAN
      BY DEF HInv, AlarmInv, Latest
    <2>4. ASSUME NEW i \in DOMAIN sockets
          PROVE  /\ sockets[i].client \in Clients
                 /\ sockets[i].down \in Seq(Frame)
                 /\ sockets[i].live => conn[sockets[i].client] = i /\ sockets[i].open
      <3>1. SocketsOK(sockets, conn) /\ sockets \in Seq(Socket)
        BY DEF HInv, WireInv, SocketsOK
      <3>2. i \in 1 .. Len(sockets)
        BY <3>1
      <3>3. sockets[i] \in Socket /\ SocketOK(sockets[i], i, conn)
        BY <3>1, <3>2 DEF SocketsOK
      <3>. QED
        BY <3>3, SocketParts DEF SocketOK
    <2>5. position \in [Readers -> 0 .. Len(log)]
      BY DEF HInv, GivenInv, GivenOK
    <2>6. \A w \in Dashboards : view[w] \in Core!Room
      BY DEF HInv, GivenInv, ViewOK
    <2>. QED
      BY <2>1, <2>2, <2>3, <2>4, <2>5, <2>6 DEF HostedTypeOK
  <1>. QED
    BY <1>1, HostedInvariance, PTL

\* No event a client is entitled to is skipped or given twice, however often its
\* connection is lost, the daemon restarts or two sockets of it overlap, and a
\* stream's room state is always one the room went through (room-client.ts,
\* room-stream.ts and use-room-stream.ts against room-do.ts).
THEOREM StreamsStayWhole == HostedSpec => []StreamsAreWhole
  <1>1. HInv => StreamsAreWhole
    <2>. SUFFICES ASSUME HInv
                  PROVE  StreamsAreWhole
      OBVIOUS
    <2>1. ASSUME NEW c \in Readers
          PROVE  /\ \A i, j \in DOMAIN taken[c] : i < j => taken[c][i] < taken[c][j]
                 /\ \A n \in 1 .. position[c] :
                       Recipient(c, hist[n + 1], log, n) =>
                           \E i \in DOMAIN taken[c] : taken[c][i] = n
      <3>1. GivenOK(c, position[c], taken[c], log, hist)
        BY DEF HInv, GivenInv
      <3>2. DOMAIN taken[c] = 1 .. Len(taken[c])
        BY <3>1 DEF GivenOK
      <3>. QED
        BY <3>1, <3>2 DEF GivenOK, Owed
    <2>2. \A w \in Dashboards : view[w] = hist[view[w].seq + 1]
      BY DEF HInv, GivenInv, ViewOK
    <2>. QED
      BY <2>1, <2>2 DEF StreamsAreWhole
  <1>. QED
    BY <1>1, HostedInvariance, PTL

\* The object's one alarm is never set later than the first lease to expire: a
\* lease is left without one only when the alarm went off to an object that had
\* no socket to learn its room from (scheduleNextAlarm and alarm, room-do.ts).
THEOREM LeasesKeepAnAlarm == HostedSpec => []AlarmCovers
  <1>1. HInv => AlarmCovers
    BY DEF HInv, AlarmInv
  <1>. QED
    BY <1>1, HostedInvariance, PTL

\* SInv holds from the first step on, whatever connections the clients lose.
THEOREM SubmissionsInvariance == HostedSpec => []SInv
  <1>1. Init => SInv
    BY SubmitsStart
  <1>2. HInv /\ SInv /\ [Next]_vars => SInv'
    BY SubmissionsKeep
  <1>. QED
    BY <1>1, <1>2, HostedInvariance, PTL DEF HostedSpec

\* A submit that comes more than once is logged once, and of those that wait for
\* their answer none is logged before one that its daemon made earlier, unless the
\* room has refused that one, though every new connection says them all again
\* (RoomClient.submit and `pending', room-client.ts, against the SUBMIT handler of
\* room-do.ts).
THEOREM SubmitsComeInOrder == HostedSpec => []SubmitsLandInOrder
  <1>1. HInv /\ SInv => SubmitsLandInOrder
    <2>. SUFFICES ASSUME HInv, SInv
                  PROVE  SubmitsLandInOrder
      OBVIOUS
    <2>1. TableOK(pending, log, refused, moves) /\ log \in Seq(Entries)
      BY DEF SInv, HInv, LogInv, Folds
    <2>2. DOMAIN log = 1 .. Len(log)
      BY <2>1
    <2>. QED
      BY <2>1, <2>2 DEF TableOK, SubmitsLandInOrder
  <1>. QED
    BY <1>1, HostedInvariance, SubmissionsInvariance, PTL

\* RoomClient forgets a submit only when it has been answered: what it gives up is
\* logged, or refused by the room with an ERROR that names it.  The death of the
\* process is the one other way to lose it.
THEOREM NoSubmitIsLost == HostedSpec => SubmitsAreKept
  <1>1. HInv /\ SInv /\ [Next]_vars =>
           [\A d \in Daemons : \A e \in pending[d] \ pending'[d] :
               Known(e) \/ e.id \in refused \/ Dies(d)]_vars
    BY KeptOrLogged
  <1>. QED
    BY <1>1, HostedInvariance, SubmissionsInvariance, PTL DEF HostedSpec, SubmitsAreKept
=============================================================================
