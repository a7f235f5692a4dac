-------------------------- MODULE CollisionProofs --------------------------
(***************************************************************************)
(* What holds of CollisionWatch for every finite set of sessions, all      *)
(* files and symbols and every bound.                                      *)
(*                                                                         *)
(* The arguments are about one room at a time: what an event does to a     *)
(* room's sessions and collisions is stated and proved of the reducer's    *)
(* operators, and the steps of the authority and the daemons only choose   *)
(* the event.                                                              *)
(***************************************************************************)
EXTENDS CollisionWatch, FiniteSetTheorems, FunctionTheorems, SequenceTheorems, TLAPS

\* Rooms: no collision is there twice, and one the reducer opened on a write
\* (its number is not 0) is about the files of its keys.
Rooms ==
    {r \in [sess : [Sessions -> SessionInfos], col : SUBSET Collisions] :
        /\ IsFiniteSet(r.col)
        /\ \A c, d \in r.col : c.id = d.id => c = d
        /\ \A c \in r.col : c.id.num # 0 => \A k \in c.id.keys : k[1] \in c.about}

Events ==
    {e \in [type : EventTypes, by : Sessions, files : SUBSET Files,
            syms : SUBSET Symbols, names : SUBSET Files] :
        e.type = "FILE_WRITE" => e.files # {}}

Entries == [event : Events, after : Rooms]

Typed ==
    /\ room \in Rooms
    /\ published \in Rooms
    /\ view \in [Remote -> Rooms]
    /\ publishing \in Seq(Entries)
    /\ candidates \in Seq(Collisions)
    /\ announcing \in BOOLEAN
    /\ writing \in [Sessions -> SUBSET Files]
    /\ recent \in [Sessions -> SUBSET Files]

\* The authority announces while a collision it submitted is not published, and
\* only then do others wait.
Announcing ==
    /\ candidates # <<>> => announcing
    /\ announcing => \E i \in DOMAIN publishing : publishing[i].event.type = "COLLISION"

\* What waits to be submitted was not open when it was found, and nothing else
\* can open it.
CandidatesFresh ==
    /\ \A i \in 1 .. Len(candidates) :
            candidates[i].id.num = 0 /\ ~IsOpen(room, candidates[i].id)
    /\ \A i, j \in 1 .. Len(candidates) : candidates[i].id = candidates[j].id => i = j

CInv == Typed /\ Announcing /\ CandidatesFresh
-----------------------------------------------------------------------------
(***************************************************************************)
(* The reducer.                                                            *)
(***************************************************************************)

\* Opening a collision: the sessions stay, and whatever was open or not keeps
\* being so but for the one opened.
LEMMA OpenedFacts ==
    ASSUME NEW r \in Rooms, NEW c \in Collisions,
           c.id.num # 0 => \A k \in c.id.keys : k[1] \in c.about
    PROVE  /\ Opened(r, c) \in Rooms
           /\ Opened(r, c).sess = r.sess
           /\ r.col \subseteq Opened(r, c).col
           /\ Opened(r, c).col \subseteq r.col \cup {c}
           /\ \E d \in Opened(r, c).col : d.id = c.id
  <1>. DEFINE o == [r EXCEPT !.col = r.col \cup {c}]
  <1>1. CASE \E d \in r.col : d.id = c.id
    BY <1>1 DEF Opened
  <1>2. CASE ~ \E d \in r.col : d.id = c.id
    <2>1. Opened(r, c) = o
      BY <1>2 DEF Opened
    <2>2. o.sess = r.sess /\ o.col = r.col \cup {c}
      BY DEF Rooms
    <2>3. o \in [sess : [Sessions -> SessionInfos], col : SUBSET Collisions]
      BY DEF Rooms
    <2>4. IsFiniteSet(o.col)
      BY <2>2, FS_AddElement DEF Rooms
    <2>. HIDE DEF o
    <2>5. \A a, b \in o.col : a.id = b.id => a = b
      BY <1>2, <2>2 DEF Rooms
    <2>6. \A a \in o.col : a.id.num # 0 => \A k \in a.id.keys : k[1] \in a.about
      BY <2>2 DEF Rooms
    <2>7. o \in Rooms
      BY <2>3, <2>4, <2>5, <2>6 DEF Rooms
    <2>. QED
      BY <2>1, <2>2, <2>7
  <1>. QED
    BY <1>1, <1>2

\* A change of one session is a room.
LEMMA SessionChanged ==
    ASSUME NEW r \in Rooms, NEW s \in Sessions, NEW i \in SessionInfos
    PROVE  /\ [r EXCEPT !.sess[s] = i] \in Rooms
           /\ [r EXCEPT !.sess[s] = i].col = r.col
           /\ [r EXCEPT !.sess[s] = i].sess = [r.sess EXCEPT ![s] = i]
  <1>1. /\ [r EXCEPT !.sess[s] = i].col = r.col
        /\ [r EXCEPT !.sess[s] = i].sess = [r.sess EXCEPT ![s] = i]
        /\ [r EXCEPT !.sess[s] = i] \in
                [sess : [Sessions -> SessionInfos], col : SUBSET Collisions]
    BY DEF Rooms
  <1>. QED
    BY <1>1 DEF Rooms

\* The collision a write opens.
WriteCollision(r, w, f) ==
    [id |-> [writer |-> w, affected |-> AffectedBy(r, w, f), keys |-> Whole({f}),
             num |-> Cardinality(r.col) + 1],
     about |-> {f}, predicted |-> FALSE, state |-> "open"]

LEMMA WriteCollisionFacts ==
    ASSUME NEW r \in Rooms, NEW w \in Sessions, NEW f \in Files
    PROVE  LET c == WriteCollision(r, w, f)
           IN  /\ c \in Collisions
               /\ c.id.num # 0
               /\ c.id.keys = {<<f, 0>>}
               /\ c.about = {f}
               /\ c.id.writer = w
               /\ c.id.affected = AffectedBy(r, w, f)
  <1>1. Cardinality(r.col) + 1 \in Nat \ {0}
    <2>1. Cardinality(r.col) \in Nat
      BY FS_CardinalityType DEF Rooms
    <2>. QED
      BY <2>1
  <1>2. Whole({f}) = {<<f, 0>>}
    BY DEF Whole
  <1>3. AffectedBy(r, w, f) \in SUBSET Sessions
    BY DEF AffectedBy
  <1>4. {<<f, 0>>} \in SUBSET (Files \X Nat)
    OBVIOUS
  <1>. QED
    BY <1>1, <1>2, <1>3, <1>4 DEF WriteCollision, Collisions, Ids

WithWrite(i, f) == [i EXCEPT !.writes = i.writes \cup {f}]

\* A write: the writer's write set grows, and a collision with everyone whose
\* work it runs into is there.
LEMMA WrittenFacts ==
    ASSUME NEW r \in Rooms, NEW w \in Sessions, NEW f \in Files
    PROVE  /\ Written(r, w, f) \in Rooms
           /\ Written(r, w, f).sess = [r.sess EXCEPT ![w] = WithWrite(r.sess[w], f)]
           /\ r.col \subseteq Written(r, w, f).col
           /\ Written(r, w, f).col \subseteq r.col \cup {WriteCollision(r, w, f)}
           /\ AffectedBy(r, w, f) # {} =>
                \E c \in Written(r, w, f).col :
                    c.id = WriteCollision(r, w, f).id /\ f \in c.about
  <1>. DEFINE i == WithWrite(r.sess[w], f)
              m == [r EXCEPT !.sess[w] = i]
              c == WriteCollision(r, w, f)
  <1>1. i \in SessionInfos
    BY DEF Rooms, SessionInfos, WithWrite
  <1>2. m \in Rooms /\ m.col = r.col /\ m.sess = [r.sess EXCEPT ![w] = i]
    BY <1>1, SessionChanged
  <1>3. [r EXCEPT !.sess[w].writes = r.sess[w].writes \cup {f}] = m
    BY DEF WithWrite
  <1>5. Written(r, w, f) = IF AffectedBy(r, w, f) = {} THEN m ELSE Opened(m, c)
    BY <1>3 DEF Written, WriteCollision
  <1>6. /\ c \in Collisions /\ c.id.num # 0 /\ c.id.keys = {<<f, 0>>} /\ c.about = {f}
    BY WriteCollisionFacts
  <1>. HIDE DEF m, c
  <1>7. /\ Opened(m, c) \in Rooms /\ Opened(m, c).sess = m.sess /\ m.col \subseteq Opened(m, c).col
        /\ Opened(m, c).col \subseteq m.col \cup {c}
        /\ \E d \in Opened(m, c).col : d.id = c.id
    BY <1>2, <1>6, OpenedFacts
  <1>8. \E d \in Opened(m, c).col : d.id = c.id /\ f \in d.about
    <2>1. PICK d \in Opened(m, c).col : d.id = c.id
      BY <1>7
    <2>2. d.id.num # 0 /\ <<f, 0>> \in d.id.keys
      BY <1>6, <2>1
    <2>3. <<f, 0>>[1] \in d.about
      BY <1>7, <2>1, <2>2 DEF Rooms
    <2>. QED
      BY <2>1, <2>3
  <1>. QED
    BY <1>2, <1>5, <1>7, <1>8 DEF c

\* An event: a room comes out, collisions stay, and any that is new is of a
\* write, with a number.
LEMMA AppliedFacts ==
    ASSUME NEW r \in Rooms, NEW e \in Events
    PROVE  /\ Applied(r, e) \in Rooms
           /\ r.col \subseteq Applied(r, e).col
           /\ \A c \in Applied(r, e).col : c \in r.col \/ c.id.num # 0
  <1>0. r.sess[e.by] \in SessionInfos /\ e.by \in Sessions
    BY DEF Rooms, Events
  <1>1. CASE e.type = "SESSION_STARTED"
    <2>1. Joined \in SessionInfos
      BY DEF Joined, SessionInfos, Intents, NoIntent
    <2>2. Applied(r, e) = [r EXCEPT !.sess[e.by] = Joined]
      BY <1>1 DEF Applied
    <2>. QED
      BY <1>0, <2>1, <2>2, SessionChanged
  <1>2. CASE e.type = "SESSION_ENDED"
    <2>1. [r.sess[e.by] EXCEPT !.status = "ended"] \in SessionInfos
      BY <1>0 DEF SessionInfos
    <2>2. Applied(r, e) = [r EXCEPT !.sess[e.by] = [r.sess[e.by] EXCEPT !.status = "ended"]]
      BY <1>2 DEF Applied
    <2>. QED
      BY <1>0, <2>1, <2>2, SessionChanged
  <1>3. CASE e.type = "INTENT"
    <2>. DEFINE i == [files |-> e.files, syms |-> e.syms, names |-> e.names]
    <2>1. [r.sess[e.by] EXCEPT !.intent = i] \in SessionInfos
      BY <1>0 DEF SessionInfos, Intents, Events
    <2>2. Applied(r, e) = [r EXCEPT !.sess[e.by] = [r.sess[e.by] EXCEPT !.intent = i]]
      BY <1>3 DEF Applied
    <2>. QED
      BY <1>0, <2>1, <2>2, SessionChanged
  <1>4. CASE e.type = "FILE_READ"
    <2>. DEFINE i == [r.sess[e.by] EXCEPT !.reads = r.sess[e.by].reads \cup e.files,
                                          !.readSyms = r.sess[e.by].readSyms \cup e.syms]
    <2>1. i \in SessionInfos
      BY <1>0 DEF SessionInfos, Events
    <2>2. Applied(r, e) = [r EXCEPT !.sess[e.by] = i]
      BY <1>0, <1>4 DEF Applied, Rooms, SessionInfos
    <2>. HIDE DEF i
    <2>. QED
      BY <1>0, <2>1, <2>2, SessionChanged
  <1>5. CASE e.type = "FILE_WRITE"
    <2>1. \E f \in Files : Applied(r, e) = Written(r, e.by, f)
      BY <1>5 DEF Events, Applied
    <2>2. PICK f \in Files : Applied(r, e) = Written(r, e.by, f)
      BY <2>1
    <2>3. /\ Written(r, e.by, f) \in Rooms
          /\ r.col \subseteq Written(r, e.by, f).col
          /\ Written(r, e.by, f).col \subseteq r.col \cup {WriteCollision(r, e.by, f)}
      BY <1>0, WrittenFacts
    <2>4. WriteCollision(r, e.by, f).id.num # 0
      BY <1>0, WriteCollisionFacts
    <2>. QED
      BY <2>2, <2>3, <2>4
  <1>6. CASE e.type \in {"COLLISION", "NEGOTIATED"}
    BY <1>6 DEF Applied
  <1>. QED
    BY <1>1, <1>2, <1>3, <1>4, <1>5, <1>6 DEF Events, EventTypes

\* Who has written what after an event, and who claims what.
LEMMA SessionsAfter ==
    ASSUME NEW r \in Rooms, NEW e \in Events, NEW s \in Sessions, Live(Applied(r, e), s)
    PROVE  /\ \A f \in Applied(r, e).sess[s].writes :
                \/ Live(r, s) /\ f \in r.sess[s].writes
                \/ /\ e.type = "FILE_WRITE" /\ e.by = s
                   /\ f \in Files /\ Applied(r, e) = Written(r, s, f)
           /\ \A f \in Applied(r, e).sess[s].intent.files :
                \/ Live(r, s) /\ f \in r.sess[s].intent.files
                \/ e.type = "INTENT" /\ e.by = s /\ f \in e.files
  <1>0. r.sess \in [Sessions -> SessionInfos] /\ e.by \in Sessions
    BY DEF Rooms, Events
  <1>1. CASE e.type = "SESSION_STARTED"
    <2>1. Applied(r, e).sess = [r.sess EXCEPT ![e.by] = Joined]
      BY <1>0, <1>1 DEF Applied, Rooms
    <2>. QED
      BY <1>0, <2>1 DEF Live, Joined, NoIntent
  <1>2. CASE e.type = "SESSION_ENDED"
    <2>1. Applied(r, e).sess = [r.sess EXCEPT ![e.by].status = "ended"]
      BY <1>0, <1>2 DEF Applied, Rooms
    <2>. QED
      BY <1>0, <2>1 DEF Live, SessionInfos
  <1>3. CASE e.type = "INTENT"
    <2>1. Applied(r, e).sess = [r.sess EXCEPT ![e.by].intent =
                                    [files |-> e.files, syms |-> e.syms, names |-> e.names]]
      BY <1>0, <1>3 DEF Applied, Rooms
    <2>. QED
      BY <1>0, <1>3, <2>1 DEF Live, SessionInfos
  <1>4. CASE e.type = "FILE_READ"
    <2>1. Applied(r, e).sess = [r.sess EXCEPT ![e.by].reads = r.sess[e.by].reads \cup e.files,
                                    ![e.by].readSyms = r.sess[e.by].readSyms \cup e.syms]
      BY <1>0, <1>4 DEF Applied, Rooms, SessionInfos
    <2>2. /\ Applied(r, e).sess[s].status = r.sess[s].status
          /\ Applied(r, e).sess[s].writes = r.sess[s].writes
          /\ Applied(r, e).sess[s].intent = r.sess[s].intent
      BY <1>0, <2>1 DEF SessionInfos
    <2>. QED
      BY <2>2 DEF Live
  <1>5. CASE e.type = "FILE_WRITE"
    <2>1. \E g \in Files : Applied(r, e) = Written(r, e.by, g)
      BY <1>5 DEF Events, Applied
    <2>2. PICK g \in Files : Applied(r, e) = Written(r, e.by, g)
      BY <2>1
    <2>3. Written(r, e.by, g).sess = [r.sess EXCEPT ![e.by] = WithWrite(r.sess[e.by], g)]
      BY <1>0, WrittenFacts
    <2>4. LET i == WithWrite(r.sess[e.by], g)
          IN  /\ i.status = r.sess[e.by].status
              /\ i.intent = r.sess[e.by].intent
              /\ i.writes = r.sess[e.by].writes \cup {g}
      BY <1>0 DEF SessionInfos, WithWrite
    <2>5. Written(r, e.by, g).sess[s] =
            IF s = e.by THEN WithWrite(r.sess[e.by], g) ELSE r.sess[s]
      BY <1>0, <2>3
    <2>6. /\ Written(r, e.by, g).sess[s].status = r.sess[s].status
          /\ Written(r, e.by, g).sess[s].intent = r.sess[s].intent
          /\ Written(r, e.by, g).sess[s].writes =
                IF s = e.by THEN r.sess[s].writes \cup {g} ELSE r.sess[s].writes
      BY <2>4, <2>5
    <2>. QED
      BY <1>5, <2>2, <2>6 DEF Live
  <1>6. CASE e.type \in {"COLLISION", "NEGOTIATED"}
    BY <1>6 DEF Applied, Live
  <1>. QED
    BY <1>1, <1>2, <1>3, <1>4, <1>5, <1>6 DEF Events, EventTypes
-----------------------------------------------------------------------------
(***************************************************************************)
(* Detection.                                                              *)
(***************************************************************************)
LEMMA CandidateFacts ==
    ASSUME NEW r \in Rooms, NEW e \in Events, NEW s \in Sessions
    PROVE  /\ Candidate(r, e, s) \in Collisions
           /\ Candidate(r, e, s).id = CollisionId(r, e, s)
           /\ CollisionId(r, e, s).num = 0
           /\ CollisionId(r, e, s).writer = e.by
           /\ CollisionId(r, e, s).affected = {s}
  <1>1. /\ e.by \in Sessions /\ e.files \in SUBSET Files /\ e.syms \in SUBSET Symbols
        /\ r.sess[e.by].intent.syms \in SUBSET Symbols
        /\ r.sess[e.by].intent.names \in SUBSET Files
    BY DEF Rooms, Events, SessionInfos, Intents
  <1>2. SymbolHits(r, e, s) \in SUBSET Symbols
    BY <1>1 DEF SymbolHits, TouchedSymbols
  <1>3. FileHits(r, e, s) \in SUBSET Files
    BY <1>1 DEF FileHits
  <1>4. Hits(r, e, s) \in SUBSET (Files \X Nat)
    <2>1. Symbols \in SUBSET (Files \X Nat)
      BY SymbolAssumption
    <2>2. Whole(FileHits(r, e, s)) \in SUBSET (Files \X Nat)
      BY <1>3 DEF Whole
    <2>. QED
      BY <1>2, <2>1, <2>2 DEF Hits
  <1>5. Named(r, e, s) \in SUBSET Files
    BY <1>1, <1>3 DEF Named
  <1>6. {k[1] : k \in SymbolHits(r, e, s)} \in SUBSET Files
    <2>1. \A k \in Symbols : k[1] \in Files
      BY SymbolAssumption
    <2>. QED
      BY <1>2, <2>1
  <1>7. CollisionId(r, e, s) \in Ids
    BY <1>1, <1>4 DEF CollisionId, Ids
  <1>. QED
    BY <1>5, <1>6, <1>7 DEF Candidate, Collisions, CollisionId

\* Who is hit, and what is announced of it.
Hit(r, e) ==
    {t \in Sessions \ {e.by} : Live(r, t) /\ Hits(r, e, t) # {} /\ ~IsOpen(r, CollisionId(r, e, t))}

LEMMA DetectedFacts ==
    ASSUME NEW r \in Rooms, NEW e \in Events
    PROVE  /\ IsFiniteSet(Detected(r, e))
           /\ Detected(r, e) \in SUBSET Collisions
           /\ \A c \in Detected(r, e) : c.id.num = 0 /\ ~IsOpen(r, c.id)
           /\ \A c, d \in Detected(r, e) : c.id = d.id => c = d
           /\ e.type = "INTENT" => \A t \in Hit(r, e) : Candidate(r, e, t) \in Detected(r, e)
  <1>1. CASE e.type \notin {"INTENT", "FILE_WRITE"}
    BY <1>1, FS_EmptySet DEF Detected
  <1>2. CASE e.type \in {"INTENT", "FILE_WRITE"}
    <2>1. Detected(r, e) = {Candidate(r, e, t) : t \in Hit(r, e)}
      BY <1>2 DEF Detected, Hit
    <2>2. \A t \in Hit(r, e) : t \in Sessions /\ ~IsOpen(r, CollisionId(r, e, t))
      BY DEF Hit
    <2>3. IsFiniteSet(Detected(r, e))
      <3>. DEFINE f == [t \in Hit(r, e) |-> Candidate(r, e, t)]
      <3>1. f \in Surjection(Hit(r, e), Detected(r, e))
        BY <2>1 DEF Surjection
      <3>2. IsFiniteSet(Hit(r, e))
        <4>1. Hit(r, e) \in SUBSET Sessions
          BY DEF Hit
        <4>. QED
          BY <4>1, SessionAssumption, FS_Subset
      <3>. QED
        BY <3>1, <3>2, FS_Surjection
    <2>4. ASSUME NEW c \in Detected(r, e)
          PROVE  \E t \in Hit(r, e) : c = Candidate(r, e, t)
      BY <2>1
    <2>5. ASSUME NEW c \in Detected(r, e)
          PROVE  c \in Collisions /\ c.id.num = 0 /\ ~IsOpen(r, c.id)
      <3>1. PICK t \in Hit(r, e) : c = Candidate(r, e, t)
        BY <2>4
      <3>2. t \in Sessions /\ ~IsOpen(r, CollisionId(r, e, t))
        BY <2>2
      <3>3. c \in Collisions /\ c.id = CollisionId(r, e, t) /\ CollisionId(r, e, t).num = 0
        BY <3>1, <3>2, CandidateFacts
      <3>. QED
        BY <3>2, <3>3
    <2>6. ASSUME NEW c \in Detected(r, e), NEW d \in Detected(r, e), c.id = d.id
          PROVE  c = d
      <3>1. PICK t \in Hit(r, e) : c = Candidate(r, e, t)
        BY <2>4
      <3>2. PICK u \in Hit(r, e) : d = Candidate(r, e, u)
        BY <2>4
      <3>3. c.id.affected = {t}
        BY <2>2, <3>1, CandidateFacts
      <3>4. d.id.affected = {u}
        BY <2>2, <3>2, CandidateFacts
      <3>5. t = u
        BY <2>6, <3>3, <3>4
      <3>. QED
        BY <3>1, <3>2, <3>5
    <2>7. \A t \in Hit(r, e) : Candidate(r, e, t) \in Detected(r, e)
      BY <2>1
    <2>. QED
      BY <2>3, <2>5, <2>6, <2>7
  <1>. QED
    BY <1>1, <1>2

\* An order of a finite set lists every member once.
LEMMA OrdersFacts ==
    ASSUME NEW S, IsFiniteSet(S), S # {}, NEW q \in Orders(S)
    PROVE  /\ q \in Seq(S) /\ q # <<>>
           /\ Head(q) \in S /\ Tail(q) \in Seq(S)
           /\ \A i, j \in 1 .. Len(q) : q[i] = q[j] => i = j
           /\ \A x \in S : \E i \in 1 .. Len(q) : q[i] = x
  <1>1. Cardinality(S) \in Nat /\ Cardinality(S) # 0
    BY FS_CardinalityType, FS_EmptySet
  <1>2. q \in [1 .. Cardinality(S) -> S] /\ \A i, j \in DOMAIN q : q[i] = q[j] => i = j
    BY DEF Orders
  <1>3. q \in Seq(S) /\ Len(q) = Cardinality(S)
    BY <1>1, <1>2
  <1>4. q \in Injection(1 .. Cardinality(S), S)
    BY <1>1, <1>2 DEF Injection, IsInjective
  <1>5. ASSUME NEW n \in Nat
        PROVE  Cardinality(1 .. n) = n
    <2>1. Cardinality(1 .. n) = IF 1 > n THEN 0 ELSE n - 1 + 1
      BY FS_Interval
    <2>. QED
      BY <2>1
  <1>6. q \in Surjection(1 .. Cardinality(S), S)
    BY <1>1, <1>4, <1>5, FS_Injection
  <1>7. \A x \in S : \E i \in 1 .. Len(q) : q[i] = x
    BY <1>3, <1>6 DEF Surjection
  <1>. QED
    BY <1>1, <1>2, <1>3, <1>7
-----------------------------------------------------------------------------
(***************************************************************************)
(* The steps, by what they do to the room and to what is to be published.  *)
(***************************************************************************)
Authority == <<published, announcing, candidates, unheard, repeated>>

\* An event of an agent or a daemon.
Caused(e) ==
    /\ e \in Events /\ e.type # "COLLISION"
    /\ Submit(e)
    /\ UNCHANGED Authority

Elsewhere == UNCHANGED <<room, publishing>> /\ UNCHANGED Authority

LEMMA ViewTyped ==
    ASSUME Typed, NEW s \in Sessions
    PROVE  View(s) \in Rooms
  BY DEF Typed, View

LEMMA StepKinds ==
    ASSUME Typed, [Next]_vars
    PROVE  \/ \E e : Caused(e)
           \/ PublishEvent
           \/ PublishCollision
           \/ \E c \in room.col : Negotiate(c)
           \/ Elsewhere
  <1>1. ASSUME NEW s \in Sessions, NEW t \in EventTypes \ {"COLLISION", "FILE_WRITE"},
               NEW files \in SUBSET Files, NEW syms \in SUBSET Symbols, Report(s, t, files, syms)
        PROVE  \E e : Caused(e)
    <2>1. Event(t, s, files, syms, {}) \in Events /\ Event(t, s, files, syms, {}).type = t
      BY <1>1 DEF Event, Events
    <2>. QED
      BY <1>1, <2>1 DEF Report, AtAuthority, Caused, Authority
  <1>2. ASSUME NEW s \in Sessions, Start(s) \/ End(s) \/ AnnounceIntent(s)
        PROVE  \E e : Caused(e)
    BY <1>1, <1>2 DEF Start, End, AnnounceIntent, EventTypes
  <1>3. ASSUME NEW s \in Sessions, NEW f \in Files, Read(s, f)
        PROVE  \E e : Caused(e)
    <2>1. SymbolsIn({f}) \in SUBSET Symbols
      BY DEF SymbolsIn
    <2>. QED
      BY <1>1, <1>3, <2>1 DEF Read, EventTypes
  <1>4. ASSUME NEW s \in Sessions, NEW f \in Files, Frozen(s, f) \/ Leased(s, f)
        PROVE  \E e : Caused(e)
    <2>. DEFINE claim == View(s).sess[s].intent
                names == IF claim = NoIntent THEN {f} ELSE claim.names
                e     == Event("INTENT", s, claim.files \cup {f}, claim.syms, names)
    <2>1. claim \in Intents
      BY ViewTyped DEF Rooms, SessionInfos
    <2>2. e \in Events /\ e.type = "INTENT"
      BY <2>1 DEF Event, Events, EventTypes, Intents
    <2>3. Submit(e) /\ AtAuthority
      BY <1>4 DEF Frozen, Leased, Refuse
    <2>. HIDE DEF e
    <2>. QED
      BY <2>2, <2>3 DEF Caused, AtAuthority, Authority
  <1>5. ASSUME NEW s \in Sessions, NEW f \in Files, ReportWrite(s, f) \/ Flush(s, f)
        PROVE  \E e : Caused(e)
    <2>. DEFINE e == Event("FILE_WRITE", s, {f}, {}, {})
    <2>1. e \in Events /\ e.type = "FILE_WRITE"
      BY DEF Event, Events, EventTypes
    <2>2. Submit(e) /\ AtAuthority
      BY <1>5 DEF ReportWrite, Flush
    <2>. HIDE DEF e
    <2>. QED
      BY <2>1, <2>2 DEF Caused, AtAuthority, Authority
  <1>6. ASSUME NEW s \in Sessions,
               Receive(s) \/ \E f \in Files : Allow(s, f) \/ FlushAsHuman(s, f)
        PROVE  Elsewhere
    BY <1>6 DEF Receive, Allow, FlushAsHuman, AtAuthority, Elsewhere, Authority
  <1>7. CASE UNCHANGED vars
    BY <1>7 DEF vars, Elsewhere, Authority
  <1>. QED
    BY <1>2, <1>3, <1>4, <1>5, <1>6, <1>7 DEF Next

\* The daemons' own variables.
LEMMA DaemonsTyped ==
    ASSUME Typed, published' \in Rooms, [Next]_vars
    PROVE  /\ view' \in [Remote -> Rooms]
           /\ writing' \in [Sessions -> SUBSET Files]
           /\ recent' \in [Sessions -> SUBSET Files]
  <1>1. ASSUME NEW s \in Sessions, Receive(s)
        PROVE  view' \in [Remote -> Rooms] /\ UNCHANGED <<writing, recent>>
    BY <1>1 DEF Receive, Typed
  <1>2. ASSUME NEW s \in Sessions, NEW f \in Files, Allow(s, f) \/ ReportWrite(s, f)
        PROVE  UNCHANGED view /\ writing' \in [Sessions -> SUBSET Files]
               /\ recent' \in [Sessions -> SUBSET Files]
    BY <1>2 DEF Allow, ReportWrite, Typed
  <1>3. ASSUME NEW s \in Sessions, NEW f \in Files, Flush(s, f) \/ FlushAsHuman(s, f)
        PROVE  UNCHANGED <<view, writing>> /\ recent' \in [Sessions -> SUBSET Files]
    BY <1>3 DEF Flush, FlushAsHuman, Typed
  <1>4. ASSUME NEW s \in Sessions,
               \/ Start(s) \/ End(s) \/ AnnounceIntent(s)
               \/ \E f \in Files : Frozen(s, f) \/ Leased(s, f) \/ Read(s, f)
        PROVE  UNCHANGED <<view, writing, recent>>
    BY <1>4 DEF Start, End, AnnounceIntent, Read, Report, Frozen, Leased, Refuse
  <1>5. ASSUME PublishEvent \/ PublishCollision \/ UNCHANGED vars
                \/ \E c \in room.col : Negotiate(c)
        PROVE  UNCHANGED <<view, writing, recent>>
    BY <1>5 DEF PublishEvent, PublishCollision, Settled, Negotiate, vars
  <1>. QED
    BY <1>1, <1>2, <1>3, <1>4, <1>5 DEF Next, Typed

\* Taking the first of a queue and adding one behind.
LEMMA QueueMoves ==
    ASSUME NEW S, NEW p \in Seq(S), p # <<>>, NEW x \in S
    PROVE  /\ Len(p) \in Nat /\ Len(p) >= 1 /\ Head(p) = p[1] /\ p[1] \in S
           /\ Tail(p) \in Seq(S) /\ Len(Tail(p)) = Len(p) - 1
           /\ \A i \in 2 .. Len(p) : Tail(p)[i - 1] = p[i]
           /\ Append(Tail(p), x) \in Seq(S) /\ Len(Append(Tail(p), x)) = Len(p)
           /\ \A i \in 2 .. Len(p) : Append(Tail(p), x)[i - 1] = p[i]
           /\ Append(Tail(p), x)[Len(p)] = x
  <1>1. Len(p) \in Nat /\ Len(p) >= 1 /\ Head(p) = p[1] /\ p[1] \in S
    OBVIOUS
  <1>2. /\ Tail(p) \in Seq(S) /\ Len(Tail(p)) = Len(p) - 1
        /\ \A i \in 1 .. Len(p) - 1 : Tail(p)[i] = p[i + 1]
    BY HeadTailProperties
  <1>3. \A i \in 2 .. Len(p) : i - 1 \in 1 .. Len(p) - 1 /\ (i - 1) + 1 = i
    BY <1>1
  <1>4. \A i \in 2 .. Len(p) : Tail(p)[i - 1] = p[i]
    BY <1>2, <1>3
  <1>5. /\ Append(Tail(p), x) \in Seq(S) /\ Len(Append(Tail(p), x)) = Len(p)
        /\ \A i \in 1 .. Len(p) - 1 : Append(Tail(p), x)[i] = Tail(p)[i]
        /\ Append(Tail(p), x)[Len(p)] = x
    BY <1>1, <1>2, AppendProperties
  <1>6. \A i \in 2 .. Len(p) : Append(Tail(p), x)[i - 1] = p[i]
    BY <1>3, <1>4, <1>5
  <1>. QED
    BY <1>1, <1>2, <1>4, <1>5, <1>6

LEMMA CausedFacts ==
    ASSUME Typed, NEW e, Caused(e)
    PROVE  /\ room' = Applied(room, e)
           /\ room' \in Rooms
           /\ publishing' \in Seq(Entries) /\ Len(publishing') = Len(publishing) + 1
           /\ \A i \in 1 .. Len(publishing) : publishing'[i] = publishing[i]
           /\ publishing'[Len(publishing) + 1].event = e
           /\ Len(publishing) \in Nat
  <1>1. room' = Applied(room, e) /\ e \in Events
    BY DEF Caused, Submit
  <1>2. room' \in Rooms
    BY <1>1, AppliedFacts DEF Typed
  <1>. DEFINE x == [event |-> e, after |-> room']
  <1>3. x \in Entries /\ x.event = e
    BY <1>1, <1>2 DEF Entries
  <1>4. publishing' = Append(publishing, x) /\ publishing \in Seq(Entries)
    BY DEF Caused, Submit, Typed
  <1>. HIDE DEF x
  <1>. QED
    BY <1>1, <1>2, <1>3, <1>4, AppendProperties, LenProperties

\* The authority submits a collision in the place of what it has published.
LEMMA SubmitCollisionFacts ==
    ASSUME Typed, publishing # <<>>, NEW c \in Collisions, c.id.num = 0, SubmitCollision(c)
    PROVE  /\ room' = Opened(room, c)
           /\ room' \in Rooms
           /\ room'.sess = room.sess
           /\ room.col \subseteq room'.col /\ room'.col \subseteq room.col \cup {c}
           /\ \E d \in room'.col : d.id = c.id
           /\ publishing' \in Seq(Entries) /\ Len(publishing') = Len(publishing)
           /\ Len(publishing) \in Nat /\ Len(publishing) >= 1
           /\ \A i \in 2 .. Len(publishing) : publishing'[i - 1] = publishing[i]
           /\ publishing'[Len(publishing)].event.type = "COLLISION"
  <1>1. room' = Opened(room, c)
    BY DEF SubmitCollision
  <1>2. /\ room' \in Rooms
        /\ room'.sess = room.sess
        /\ room.col \subseteq room'.col /\ room'.col \subseteq room.col \cup {c}
        /\ \E d \in room'.col : d.id = c.id
    BY <1>1, OpenedFacts DEF Typed
  <1>. DEFINE x == [event |-> CollisionEvent(c), after |-> room']
  <1>3. CollisionEvent(c) \in Events /\ CollisionEvent(c).type = "COLLISION"
    BY DEF CollisionEvent, Event, Events, EventTypes, Collisions, Ids
  <1>4. x \in Entries /\ x.event.type = "COLLISION"
    BY <1>2, <1>3 DEF Entries
  <1>5. publishing' = Append(Tail(publishing), x) /\ publishing \in Seq(Entries)
    BY DEF SubmitCollision, Typed
  <1>. HIDE DEF x
  <1>. QED
    BY <1>1, <1>2, <1>4, <1>5, QueueMoves

\* An event is published and nothing is announced of it.
Passes ==
    /\ publishing # <<>>
    /\ publishing' = Tail(publishing)
    /\ UNCHANGED <<room, candidates, repeated>>

LEMMA PassesFacts ==
    ASSUME Typed, Passes
    PROVE  /\ publishing' \in Seq(Entries) /\ Len(publishing') = Len(publishing) - 1
           /\ Len(publishing) \in Nat /\ Len(publishing) >= 1
           /\ \A i \in 2 .. Len(publishing) : publishing'[i - 1] = publishing[i]
  <1>1. publishing \in Seq(Entries) /\ publishing # <<>> /\ publishing' = Tail(publishing)
    BY DEF Typed, Passes
  <1>2. publishing[1] \in Entries
    BY <1>1
  <1>. QED
    BY <1>1, <1>2, QueueMoves

\* What is published: events, each with the room after it.
LEMMA FirstPublished ==
    ASSUME Typed, publishing # <<>>
    PROVE  /\ Head(publishing) = publishing[1]
           /\ Head(publishing).event \in Events
           /\ Head(publishing).after \in Rooms
  <1>1. publishing \in Seq(Entries)
    BY DEF Typed
  <1>2. Head(publishing) = publishing[1] /\ Head(publishing) \in Entries
    BY <1>1
  <1>. QED
    BY <1>2 DEF Entries

\* The negotiation of a collision changes its state and nothing else.
LEMMA NegotiateFacts ==
    ASSUME Typed, NEW c \in room.col, Negotiate(c)
    PROVE  /\ room' \in Rooms
           /\ room'.sess = room.sess
           /\ \A d \in room.col : \E n \in room'.col : n.id = d.id /\ n.about = d.about
           /\ \A n \in room'.col : \E d \in room.col :
                    n.id = d.id /\ (n.state # "verified" => d.state # "verified")
           /\ publishing' \in Seq(Entries) /\ Len(publishing') = Len(publishing) + 1
           /\ \A i \in 1 .. Len(publishing) : publishing'[i] = publishing[i]
           /\ Len(publishing) \in Nat
  <1>1. PICK o \in Outcomes :
            /\ c.state = o[1]
            /\ room' = [room EXCEPT !.col = (room.col \ {c}) \cup {[c EXCEPT !.state = o[2]]}]
    BY DEF Negotiate
  <1>. DEFINE n == [c EXCEPT !.state = o[2]]
  <1>2. c \in Collisions /\ o[2] \in {"open", "agreed", "verified"} /\ o[1] # "verified"
    BY DEF Typed, Rooms, Outcomes
  <1>3. n \in Collisions /\ n.id = c.id /\ n.about = c.about
    BY <1>2 DEF Collisions
  <1>. HIDE DEF n
  <1>4. /\ room' \in [sess : [Sessions -> SessionInfos], col : SUBSET Collisions]
        /\ room'.sess = room.sess
        /\ room'.col = (room.col \ {c}) \cup {n}
    BY <1>1, <1>3 DEF Typed, Rooms, n
  <1>5. room' \in Rooms
    <2>1. IsFiniteSet(room'.col)
      <3>1. IsFiniteSet(room.col)
        BY DEF Typed, Rooms
      <3>2. IsFiniteSet(room.col \ {c})
        BY <3>1, FS_RemoveElement
      <3>. QED
        BY <1>4, <3>2, FS_AddElement
    <2>2. \A a, b \in room'.col : a.id = b.id => a = b
      BY <1>3, <1>4 DEF Typed, Rooms
    <2>3. \A a \in room'.col : a.id.num # 0 => \A k \in a.id.keys : k[1] \in a.about
      BY <1>3, <1>4 DEF Typed, Rooms
    <2>. QED
      BY <1>4, <2>1, <2>2, <2>3 DEF Rooms
  <1>6. \A d \in room.col : \E m \in room'.col : m.id = d.id /\ m.about = d.about
    BY <1>3, <1>4
  <1>7. \A m \in room'.col : \E d \in room.col :
            m.id = d.id /\ (m.state # "verified" => d.state # "verified")
    BY <1>1, <1>2, <1>3, <1>4
  <1>. DEFINE e == Event("NEGOTIATED", c.id.writer, {}, {}, {})
              x == [event |-> e, after |-> room']
  <1>8. e \in Events
    BY <1>2 DEF Event, Events, EventTypes, Collisions, Ids
  <1>9. x \in Entries
    BY <1>5, <1>8 DEF Entries
  <1>10. publishing' = Append(publishing, x) /\ publishing \in Seq(Entries)
    BY DEF Negotiate, Typed
  <1>. HIDE DEF x
  <1>. QED
    BY <1>4, <1>5, <1>6, <1>7, <1>9, <1>10, AppendProperties, LenProperties
-----------------------------------------------------------------------------
(***************************************************************************)
(* The invariant.                                                          *)
(***************************************************************************)

\* The two ways an event is published, and the two in which a collision is.
Announces(q, e) ==
    /\ q \in Orders(Detected(room, e))
    /\ Detected(room, e) # {}
    /\ ~announcing
    /\ announcing' = TRUE
    /\ candidates' = candidates \o Tail(q)
    /\ SubmitCollision(Head(q))
    /\ UNCHANGED unheard

LEMMA AnnouncesFacts ==
    ASSUME Typed, NEW e \in Events, NEW q, Announces(q, e)
    PROVE  /\ q \in Seq(Collisions) /\ q # <<>>
           /\ Head(q) = q[1] /\ Head(q) \in Collisions
           /\ \A i \in 1 .. Len(q) : q[i] \in Detected(room, e)
           /\ \A i \in 1 .. Len(q) : q[i].id.num = 0 /\ ~IsOpen(room, q[i].id)
           /\ \A i, j \in 1 .. Len(q) : q[i].id = q[j].id => i = j
           /\ \A c \in Detected(room, e) : \E i \in 1 .. Len(q) : q[i] = c
           /\ Tail(q) \in Seq(Collisions) /\ Len(Tail(q)) = Len(q) - 1
           /\ \A i \in 1 .. Len(Tail(q)) : Tail(q)[i] = q[i + 1]
  <1>. DEFINE S == Detected(room, e)
  <1>1. /\ IsFiniteSet(S) /\ S \in SUBSET Collisions
        /\ \A c \in S : c.id.num = 0 /\ ~IsOpen(room, c.id)
        /\ \A c, d \in S : c.id = d.id => c = d
    BY DetectedFacts DEF Typed
  <1>2. S # {} /\ q \in Orders(S)
    BY DEF Announces
  <1>. HIDE DEF S
  <1>3. /\ q \in Seq(S) /\ q # <<>>
        /\ \A i, j \in 1 .. Len(q) : q[i] = q[j] => i = j
        /\ \A x \in S : \E i \in 1 .. Len(q) : q[i] = x
    BY <1>1, <1>2, OrdersFacts
  <1>4. \A i \in 1 .. Len(q) : q[i] \in S
    BY <1>3
  <1>5. q \in Seq(Collisions)
    BY <1>1, <1>3, SeqMonotonic
  <1>6. /\ Tail(q) \in Seq(Collisions) /\ Len(Tail(q)) = Len(q) - 1
        /\ \A i \in 1 .. Len(Tail(q)) : Tail(q)[i] = q[i + 1]
    BY <1>3, <1>5, HeadTailProperties
  <1>7. Head(q) = q[1] /\ Head(q) \in Collisions
    BY <1>3, <1>5
  <1>. QED
    BY <1>1, <1>3, <1>4, <1>5, <1>6, <1>7 DEF S

LEMMA PublishKinds ==
    ASSUME Typed, PublishEvent
    PROVE  LET e == Head(publishing).event
           IN  /\ publishing # <<>> /\ e \in Events /\ e.type # "COLLISION"
               /\ published' \in Rooms
               /\ \/ \E q : Announces(q, e)
                  \/ /\ Passes /\ UNCHANGED announcing
                     /\ ~announcing => Detected(room, e) = {} /\ UNCHANGED unheard
                     /\ announcing => unheard' = unheard \cup {e.by}
  BY FirstPublished DEF PublishEvent, AnnounceFrom, Heard, Announces, Passes

LEMMA PublishCollisionKinds ==
    ASSUME Typed, PublishCollision
    PROVE  /\ publishing # <<>> /\ published' \in Rooms
           /\ publishing[1].event.type = "COLLISION"
           /\ UNCHANGED unheard
           /\ \/ /\ candidates # <<>> /\ candidates' = Tail(candidates)
                 /\ SubmitCollision(Head(candidates)) /\ announcing' = TRUE
              \/ /\ candidates = <<>> /\ Passes /\ announcing' = FALSE
  BY FirstPublished DEF PublishCollision, StillAnnouncing, Passes

\* A submitted collision opens no other id.
LEMMA OpensOnly ==
    ASSUME Typed, NEW id, NEW c \in Collisions, c.id.num = 0, ~IsOpen(room, id), id # c.id,
           room' = Opened(room, c)
    PROVE  ~IsOpen(room, id)'
  BY OpenedFacts DEF Typed, IsOpen

LEMMA TypedKept ==
    ASSUME CInv, [Next]_vars
    PROVE  Typed'
  <1>0. Typed
    BY DEF CInv
  <1>1. ASSUME NEW e, Caused(e)
        PROVE  Typed'
    BY <1>0, <1>1, CausedFacts, DaemonsTyped DEF Typed, Caused, Authority
  <1>2. CASE PublishEvent
    <2>. DEFINE e == Head(publishing).event
    <2>1. published' \in Rooms /\ e \in Events /\ publishing # <<>>
      BY <1>0, <1>2, PublishKinds
    <2>2. ASSUME NEW q, Announces(q, e)
          PROVE  Typed'
      <3>1. Tail(q) \in Seq(Collisions) /\ Head(q) \in Collisions /\ Head(q).id.num = 0
        <4>1. q \in Seq(Collisions) /\ q # <<>> /\ Head(q) = q[1]
          BY <1>0, <2>1, <2>2, AnnouncesFacts
        <4>2. 1 \in 1 .. Len(q)
          BY <4>1
        <4>. QED
          BY <1>0, <2>1, <2>2, <4>1, <4>2, AnnouncesFacts
      <3>4. candidates' \in Seq(Collisions)
        BY <1>0, <2>2, <3>1, ConcatProperties DEF Announces, Typed
      <3>5. room' \in Rooms /\ publishing' \in Seq(Entries)
        BY <1>0, <2>1, <2>2, <3>1, SubmitCollisionFacts DEF Announces
      <3>6. announcing' \in BOOLEAN
        BY <2>2 DEF Announces
      <3>. QED
        BY <1>0, <2>1, <3>4, <3>5, <3>6, DaemonsTyped DEF Typed
    <2>3. CASE Passes /\ UNCHANGED announcing
      <3>1. room' = room /\ candidates' = candidates
        BY <2>3 DEF Passes
      <3>. QED
        BY <1>0, <2>1, <2>3, <3>1, PassesFacts, DaemonsTyped DEF Typed
    <2>. QED
      BY <1>0, <1>2, <2>2, <2>3, PublishKinds
  <1>3. CASE PublishCollision
    <2>1. published' \in Rooms /\ publishing # <<>>
      BY <1>0, <1>3, PublishCollisionKinds
    <2>2. CASE /\ candidates # <<>> /\ candidates' = Tail(candidates)
               /\ SubmitCollision(Head(candidates)) /\ announcing' = TRUE
      <3>1. candidates \in Seq(Collisions) /\ Head(candidates) = candidates[1]
            /\ candidates[1] \in Collisions /\ 1 \in 1 .. Len(candidates)
        BY <1>0, <2>2 DEF Typed
      <3>2. candidates[1].id.num = 0
        BY <3>1 DEF CInv, CandidatesFresh
      <3>3. room' \in Rooms /\ publishing' \in Seq(Entries)
        BY <1>0, <2>1, <2>2, <3>1, <3>2, SubmitCollisionFacts
      <3>4. Tail(candidates) \in Seq(Collisions)
        BY <2>2, <3>1
      <3>. QED
        BY <1>0, <2>1, <2>2, <3>3, <3>4, DaemonsTyped DEF Typed
    <2>3. CASE candidates = <<>> /\ Passes /\ announcing' = FALSE
      <3>1. room' = room /\ candidates' = candidates
        BY <2>3 DEF Passes
      <3>. QED
        BY <1>0, <2>1, <2>3, <3>1, PassesFacts, DaemonsTyped DEF Typed
    <2>. QED
      BY <1>0, <1>3, <2>2, <2>3, PublishCollisionKinds
  <1>4. ASSUME NEW c \in room.col, Negotiate(c)
        PROVE  Typed'
    <2>1. UNCHANGED Authority
      BY <1>4 DEF Negotiate, AtAuthority, Authority
    <2>. QED
      BY <1>0, <1>4, <2>1, NegotiateFacts, DaemonsTyped DEF Typed, Authority
  <1>5. CASE Elsewhere
    BY <1>0, <1>5, DaemonsTyped DEF Typed, Elsewhere, Authority
  <1>. QED
    BY <1>0, <1>1, <1>2, <1>3, <1>4, <1>5, StepKinds

LEMMA AnnouncingKept ==
    ASSUME CInv, [Next]_vars
    PROVE  Announcing'
  <1>0. Typed /\ Announcing
    BY DEF CInv
  <1>1. \A i : (publishing \in Seq(Entries) => DOMAIN publishing = 1 .. Len(publishing))
        /\ (publishing' \in Seq(Entries) => DOMAIN publishing' = 1 .. Len(publishing'))
    OBVIOUS
  <1>2. DOMAIN publishing = 1 .. Len(publishing) /\ DOMAIN publishing' = 1 .. Len(publishing')
    BY <1>0, <1>1, TypedKept DEF Typed
  <1>3. ASSUME /\ \A i \in 1 .. Len(publishing) : publishing'[i] = publishing[i]
               /\ Len(publishing) \in Nat /\ Len(publishing') \in Nat
               /\ Len(publishing') >= Len(publishing)
               /\ UNCHANGED <<announcing, candidates>>
        PROVE  Announcing'
    BY <1>0, <1>2, <1>3 DEF Announcing
  <1>4. ASSUME NEW e, Caused(e)
        PROVE  Announcing'
    BY <1>0, <1>3, <1>4, CausedFacts DEF Caused, Authority
  <1>5. ASSUME Passes, publishing[1].event.type # "COLLISION", UNCHANGED announcing
        PROVE  Announcing'
    <2>1. /\ Len(publishing') = Len(publishing) - 1 /\ Len(publishing) \in Nat
          /\ \A i \in 2 .. Len(publishing) : publishing'[i - 1] = publishing[i]
          /\ candidates' = candidates
      BY <1>0, <1>5, PassesFacts DEF Passes
    <2>2. \A i \in 1 .. Len(publishing) :
            publishing[i].event.type = "COLLISION" =>
                i - 1 \in 1 .. Len(publishing') /\ publishing'[i - 1] = publishing[i]
      BY <1>5, <2>1
    <2>. QED
      BY <1>0, <1>2, <1>5, <2>1, <2>2 DEF Announcing
  <1>6. ASSUME NEW c \in Collisions, c.id.num = 0, publishing # <<>>, SubmitCollision(c),
               announcing' = TRUE
        PROVE  Announcing'
    <2>1. /\ Len(publishing) \in 1 .. Len(publishing')
          /\ publishing'[Len(publishing)].event.type = "COLLISION"
      BY <1>0, <1>6, SubmitCollisionFacts
    <2>. QED
      BY <1>2, <1>6, <2>1 DEF Announcing
  <1>7. CASE PublishEvent
    <2>. DEFINE e == Head(publishing).event
    <2>1. e \in Events /\ publishing # <<>> /\ e.type # "COLLISION" /\ e = publishing[1].event
      BY <1>0, <1>7, PublishKinds, FirstPublished
    <2>2. ASSUME NEW q, Announces(q, e)
          PROVE  Head(q) \in Collisions /\ Head(q).id.num = 0
      <3>1. q \in Seq(Collisions) /\ q # <<>> /\ Head(q) = q[1] /\ Head(q) \in Collisions
        BY <1>0, <2>1, <2>2, AnnouncesFacts
      <3>2. 1 \in 1 .. Len(q)
        BY <3>1
      <3>. QED
        BY <1>0, <2>1, <2>2, <3>1, <3>2, AnnouncesFacts
    <2>. QED
      BY <1>0, <1>5, <1>6, <1>7, <2>1, <2>2, PublishKinds DEF Announces
  <1>8. CASE PublishCollision
    <2>1. CASE /\ candidates # <<>> /\ candidates' = Tail(candidates)
               /\ SubmitCollision(Head(candidates)) /\ announcing' = TRUE
      <3>1. Head(candidates) = candidates[1] /\ candidates[1] \in Collisions
            /\ 1 \in 1 .. Len(candidates)
        BY <1>0, <2>1 DEF Typed
      <3>2. candidates[1].id.num = 0
        BY <3>1 DEF CInv, CandidatesFresh
      <3>. QED
        BY <1>0, <1>6, <1>8, <2>1, <3>1, <3>2, PublishCollisionKinds
    <2>2. CASE candidates = <<>> /\ Passes /\ announcing' = FALSE
      BY <2>2 DEF Passes, Announcing
    <2>. QED
      BY <1>0, <1>8, <2>1, <2>2, PublishCollisionKinds
  <1>9. ASSUME NEW c \in room.col, Negotiate(c)
        PROVE  Announcing'
    <2>1. UNCHANGED <<announcing, candidates>>
      BY <1>9 DEF Negotiate, AtAuthority
    <2>. QED
      BY <1>0, <1>3, <1>9, <2>1, NegotiateFacts
  <1>10. CASE Elsewhere
    BY <1>0, <1>10 DEF Announcing, Elsewhere, Authority
  <1>. QED
    BY <1>0, <1>4, <1>7, <1>8, <1>9, <1>10, StepKinds

\* Nothing changes what is open in a room if its collisions do not, or if the
\* new ones are of writes.
LEMMA CandidatesFreshKept ==
    ASSUME CInv, [Next]_vars
    PROVE  CandidatesFresh'
  <1>0. Typed /\ Announcing /\ CandidatesFresh
    BY DEF CInv
  <1>1. ASSUME UNCHANGED candidates,
               \A id : id.num = 0 /\ ~IsOpen(room, id) => ~IsOpen(room, id)'
        PROVE  CandidatesFresh'
    <2>1. \A i \in 1 .. Len(candidates) : ~IsOpen(room, candidates[i].id)'
      BY <1>0, <1>1 DEF CandidatesFresh
    <2>2. \A i \in 1 .. Len(candidates') :
            candidates'[i].id.num = 0 /\ ~IsOpen(room', candidates'[i].id)
      BY <1>0, <1>1, <2>1 DEF CandidatesFresh, IsOpen
    <2>. QED
      BY <1>0, <1>1, <2>2 DEF CandidatesFresh
  <1>2. ASSUME NEW e, Caused(e)
        PROVE  CandidatesFresh'
    <2>1. \A c \in room'.col : c \in room.col \/ c.id.num # 0
      BY <1>0, <1>2, CausedFacts, AppliedFacts DEF Caused, Typed
    <2>2. UNCHANGED candidates
      BY <1>2 DEF Caused, Authority
    <2>. QED
      BY <1>1, <2>1, <2>2 DEF IsOpen
  <1>3. ASSUME NEW c \in Collisions, c.id.num = 0, room' = Opened(room, c),
               NEW rest \in Seq(Collisions), candidates' = rest,
               \A i \in 1 .. Len(rest) : /\ rest[i].id.num = 0 /\ rest[i].id # c.id
                                         /\ ~IsOpen(room, rest[i].id),
               \A i, j \in 1 .. Len(rest) : rest[i].id = rest[j].id => i = j
        PROVE  CandidatesFresh'
    <2>1. \A i \in 1 .. Len(rest) : ~IsOpen(room, rest[i].id)'
      BY <1>0, <1>3, OpensOnly
    <2>. QED
      BY <1>3, <2>1 DEF CandidatesFresh, IsOpen
  <1>4. ASSUME NEW q \in Seq(Collisions), q # <<>>,
               \A i \in 1 .. Len(q) : q[i].id.num = 0 /\ ~IsOpen(room, q[i].id),
               \A i, j \in 1 .. Len(q) : q[i].id = q[j].id => i = j,
               room' = Opened(room, Head(q)), candidates' = Tail(q)
        PROVE  CandidatesFresh'
    <2>1. Len(q) \in Nat /\ Head(q) = q[1] /\ q[1] \in Collisions /\ 1 \in 1 .. Len(q)
      BY <1>4
    <2>2. /\ Tail(q) \in Seq(Collisions) /\ Len(Tail(q)) = Len(q) - 1
          /\ \A i \in 1 .. Len(Tail(q)) : Tail(q)[i] = q[i + 1]
      BY <1>4, HeadTailProperties
    <2>3. \A i \in 1 .. Len(Tail(q)) : i + 1 \in 1 .. Len(q) /\ i + 1 # 1 /\ i \in Int
      BY <2>1, <2>2
    <2>4. \A i \in 1 .. Len(Tail(q)) : /\ Tail(q)[i].id.num = 0 /\ Tail(q)[i].id # q[1].id
                                       /\ ~IsOpen(room, Tail(q)[i].id)
      BY <1>4, <2>1, <2>2, <2>3
    <2>5. \A i, j \in 1 .. Len(Tail(q)) : Tail(q)[i].id = Tail(q)[j].id => i + 1 = j + 1
      BY <1>4, <2>2, <2>3
    <2>6. \A i, j \in 1 .. Len(Tail(q)) : Tail(q)[i].id = Tail(q)[j].id => i = j
      BY <2>3, <2>5
    <2>7. q[1].id.num = 0
      BY <1>4, <2>1
    <2>. QED
      BY <1>3, <1>4, <2>1, <2>2, <2>4, <2>6, <2>7
  <1>5. CASE PublishEvent
    <2>. DEFINE e == Head(publishing).event
    <2>1. e \in Events
      BY <1>0, <1>5, PublishKinds
    <2>2. ASSUME NEW q, Announces(q, e)
          PROVE  CandidatesFresh'
      <3>1. /\ q \in Seq(Collisions) /\ q # <<>> /\ Tail(q) \in Seq(Collisions)
            /\ \A i \in 1 .. Len(q) : q[i].id.num = 0 /\ ~IsOpen(room, q[i].id)
            /\ \A i, j \in 1 .. Len(q) : q[i].id = q[j].id => i = j
        BY <1>0, <2>1, <2>2, AnnouncesFacts
      <3>2. candidates = <<>> /\ candidates' = candidates \o Tail(q)
            /\ room' = Opened(room, Head(q))
        BY <1>0, <2>2 DEF Announces, Announcing, SubmitCollision
      <3>3. candidates' = Tail(q)
        BY <3>1, <3>2, ConcatEmptySeq
      <3>. QED
        BY <1>4, <3>1, <3>2, <3>3
    <2>3. CASE Passes
      BY <1>1, <2>3 DEF Passes, IsOpen
    <2>. QED
      BY <1>0, <1>5, <2>2, <2>3, PublishKinds
  <1>6. CASE PublishCollision
    <2>1. CASE /\ candidates # <<>> /\ candidates' = Tail(candidates)
               /\ SubmitCollision(Head(candidates))
      <3>1. room' = Opened(room, Head(candidates)) /\ candidates \in Seq(Collisions)
        BY <1>0, <2>1 DEF SubmitCollision, Typed
      <3>. QED
        BY <1>0, <1>4, <2>1, <3>1 DEF CandidatesFresh
    <2>2. CASE Passes
      BY <1>1, <2>2 DEF Passes, IsOpen
    <2>. QED
      BY <1>0, <1>6, <2>1, <2>2, PublishCollisionKinds
  <1>7. ASSUME NEW c \in room.col, Negotiate(c)
        PROVE  CandidatesFresh'
    <2>1. UNCHANGED candidates
      BY <1>7 DEF Negotiate, AtAuthority
    <2>2. \A n \in room'.col : \E d \in room.col :
            n.id = d.id /\ (n.state # "verified" => d.state # "verified")
      BY <1>0, <1>7, NegotiateFacts
    <2>. QED
      BY <1>1, <2>1, <2>2 DEF IsOpen
  <1>8. CASE Elsewhere
    BY <1>1, <1>8 DEF Elsewhere, Authority, IsOpen
  <1>. QED
    BY <1>0, <1>2, <1>5, <1>6, <1>7, <1>8, StepKinds

LEMMA FreshRoomTyped ==
    ASSUME NEW r \in FreshRooms
    PROVE  r \in Rooms /\ r.col = {} /\ \A s \in Sessions : r.sess[s].writes = {}
                                                       /\ r.sess[s].intent.files = {}
  <1>1. PICK f \in [Sessions -> Readers] : r = [sess |-> f, col |-> {}]
    BY DEF FreshRooms
  <1>2. ASSUME NEW i \in Readers
        PROVE  i \in SessionInfos /\ i.writes = {} /\ i.intent.files = {}
    <2>1. PICK p \in Arrivals : i = [Joined EXCEPT !.reads = p[1], !.readSyms = p[2]]
      BY DEF Readers
    <2>2. p[1] \in SUBSET Files /\ p[2] \in SUBSET Symbols
      BY ArrivalAssumption
    <2>. QED
      BY <2>1, <2>2 DEF Joined, NoIntent, SessionInfos, Intents
  <1>3. f \in [Sessions -> SessionInfos] /\ \A s \in Sessions : f[s] \in Readers
    BY <1>2
  <1>4. r.sess = f /\ r.col = {} /\ IsFiniteSet(r.col)
    BY <1>1, FS_EmptySet
  <1>5. r \in Rooms
    BY <1>1, <1>3, <1>4 DEF Rooms
  <1>. QED
    BY <1>2, <1>3, <1>4, <1>5

LEMMA CInit ==
    ASSUME Init
    PROVE  CInv
  <1>1. room \in Rooms
    BY FreshRoomTyped DEF Init
  <1>2. Typed
    <2>1. published = room /\ view = [s \in Remote |-> room]
      BY DEF Init
    <2>2. published \in Rooms /\ view \in [Remote -> Rooms]
      BY <1>1, <2>1
    <2>. DEFINE E == Seq(Entries)
                C == Seq(Collisions)
    <2>5. <<>> \in E /\ <<>> \in C
      OBVIOUS
    <2>. HIDE DEF E, C
    <2>3. publishing \in E /\ candidates \in C /\ announcing \in BOOLEAN
      BY <2>5 DEF Init
    <2>. USE DEF E, C
    <2>4. writing \in [Sessions -> SUBSET Files] /\ recent \in [Sessions -> SUBSET Files]
      BY DEF Init
    <2>. QED
      BY <1>1, <2>2, <2>3, <2>4 DEF Typed
  <1>3. Announcing /\ CandidatesFresh
    BY DEF Init, Announcing, CandidatesFresh
  <1>. QED
    BY <1>2, <1>3 DEF CInv

\* What the other invariants rest on: rooms are well formed, and what waits to
\* be submitted is not open.
THEOREM Invariance == Spec => []CInv
  <1>1. Init => CInv
    BY CInit
  <1>2. CInv /\ [Next]_vars => CInv'
    BY TypedKept, AnnouncingKept, CandidatesFreshKept DEF CInv
  <1>. QED
    BY <1>1, <1>2, PTL DEF Spec

\* Rooms, queues and flags keep their types whatever agents, humans and daemons
\* do (reduce.ts, authority-transport.ts).
THEOREM CollisionTypes == Spec => []CollisionTypeOK
  <1>1. ASSUME NEW r \in Rooms
        PROVE  IsRoom(r)
    BY DEF Rooms, IsRoom
  <1>2. CInv => CollisionTypeOK
    <2>. SUFFICES ASSUME CInv PROVE CollisionTypeOK
      OBVIOUS
    <2>0. Typed /\ Announcing
      BY DEF CInv
    <2>1. \A i \in DOMAIN publishing : publishing[i] \in Entries
      BY <2>0 DEF Typed
    <2>2. \A i \in DOMAIN publishing :
            publishing[i].event.type \in EventTypes /\ IsRoom(publishing[i].after)
      BY <1>1, <2>1 DEF Entries, Events
    <2>. QED
      BY <1>1, <2>0, <2>2 DEF Typed, Announcing, CollisionTypeOK
  <1>. QED
    BY <1>2, Invariance, PTL
-----------------------------------------------------------------------------
(***************************************************************************)
(* A collision is opened once.                                             *)
(***************************************************************************)

\* However publishing and announcing interleave, the authority never submits a
\* collision that is open already (announceCollisions, authority-transport.ts):
\* what it found is not opened by anything else while it waits.
THEOREM OpenedOnlyOnce == Spec => []OpenedOnce
  <1>. DEFINE Once == repeated = FALSE
  <1>1. Init => Once
    BY DEF Init
  <1>2. ASSUME CInv, Once, [Next]_vars
        PROVE  Once'
    <2>0. Typed /\ Announcing /\ CandidatesFresh
      BY <1>2 DEF CInv
    <2>1. CASE PublishEvent
      <3>. DEFINE e == Head(publishing).event
      <3>1. e \in Events
        BY <2>0, <2>1, PublishKinds
      <3>2. ASSUME NEW q, Announces(q, e)
            PROVE  Once'
        <4>1. /\ q \in Seq(Collisions) /\ q # <<>> /\ Head(q) = q[1]
              /\ \A i \in 1 .. Len(q) : ~IsOpen(room, q[i].id)
          BY <2>0, <3>1, <3>2, AnnouncesFacts
        <4>2. 1 \in 1 .. Len(q)
          BY <4>1
        <4>3. ~IsOpen(room, Head(q).id)
          BY <4>1, <4>2
        <4>. QED
          BY <1>2, <3>2, <4>3 DEF Announces, SubmitCollision
      <3>3. CASE Passes
        BY <1>2, <3>3 DEF Passes
      <3>. QED
        BY <2>0, <2>1, <3>2, <3>3, PublishKinds
    <2>2. CASE PublishCollision
      <3>1. CASE candidates # <<>> /\ SubmitCollision(Head(candidates))
        <4>1. Head(candidates) = candidates[1] /\ 1 \in 1 .. Len(candidates)
          BY <2>0, <3>1 DEF Typed
        <4>2. ~IsOpen(room, Head(candidates).id)
          BY <2>0, <4>1 DEF CandidatesFresh
        <4>. QED
          BY <1>2, <3>1, <4>2 DEF SubmitCollision
      <3>2. CASE Passes
        BY <1>2, <3>2 DEF Passes
      <3>. QED
        BY <2>0, <2>2, <3>1, <3>2, PublishCollisionKinds
    <2>3. ASSUME \/ \E e : Caused(e)
                 \/ \E c \in room.col : Negotiate(c)
                 \/ Elsewhere
          PROVE  Once'
      BY <1>2, <2>3 DEF Caused, Negotiate, AtAuthority, Elsewhere, Authority
    <2>. QED
      BY <1>2, <2>0, <2>1, <2>2, <2>3, StepKinds
  <1>3. Once => OpenedOnce
    BY DEF OpenedOnce
  <1>. QED
    BY <1>1, <1>2, <1>3, Invariance, PTL DEF Spec
-----------------------------------------------------------------------------
(***************************************************************************)
(* Writers meet.                                                           *)
(***************************************************************************)
Meets(r, s, t, f) ==
    (Live(r, s) /\ Live(r, t) /\ f \in r.sess[s].writes \cap r.sess[t].writes)
    => Between(r, s, t, f) # {}

\* Whoever writes second runs into who wrote first.
LEMMA SecondWriterMeets ==
    ASSUME NEW r \in Rooms, NEW s \in Sessions, NEW t \in Sessions, s # t, NEW f \in Files,
           Live(r, t), f \in r.sess[t].writes
    PROVE  Between(Written(r, s, f), s, t, f) # {}
  <1>1. t \in AffectedBy(r, s, f)
    BY DEF AffectedBy
  <1>2. PICK c \in Written(r, s, f).col : c.id = WriteCollision(r, s, f).id /\ f \in c.about
    BY <1>1, WrittenFacts
  <1>3. c.id.writer = s /\ c.id.affected = AffectedBy(r, s, f)
    BY <1>2, WriteCollisionFacts
  <1>4. {s, t} \subseteq Parties(c)
    BY <1>1, <1>3 DEF Parties
  <1>. QED
    BY <1>2, <1>4 DEF Between

LEMMA MeetsApplied ==
    ASSUME NEW r \in Rooms, NEW e \in Events, NEW s \in Sessions, NEW t \in Sessions, s # t,
           NEW f \in Files, Meets(r, s, t, f)
    PROVE  Meets(Applied(r, e), s, t, f)
  <1>. DEFINE a == Applied(r, e)
  <1>. SUFFICES ASSUME Live(a, s), Live(a, t), f \in a.sess[s].writes, f \in a.sess[t].writes
                PROVE  Between(a, s, t, f) # {}
    BY DEF Meets
  <1>1. \/ Live(r, s) /\ f \in r.sess[s].writes
        \/ e.type = "FILE_WRITE" /\ e.by = s /\ a = Written(r, s, f)
    BY SessionsAfter
  <1>2. \/ Live(r, t) /\ f \in r.sess[t].writes
        \/ e.type = "FILE_WRITE" /\ e.by = t /\ a = Written(r, t, f)
    BY SessionsAfter
  <1>3. r.col \subseteq a.col
    BY AppliedFacts
  <1>. HIDE DEF a
  <1>4. CASE /\ Live(r, s) /\ f \in r.sess[s].writes
             /\ Live(r, t) /\ f \in r.sess[t].writes
    BY <1>3, <1>4 DEF Meets, Between
  <1>5. CASE /\ a = Written(r, s, f)
             /\ Live(r, t) /\ f \in r.sess[t].writes
    <2>1. Between(Written(r, s, f), s, t, f) # {}
      BY <1>5, SecondWriterMeets
    <2>. QED
      BY <1>5, <2>1
  <1>6. CASE /\ a = Written(r, t, f)
             /\ Live(r, s) /\ f \in r.sess[s].writes
    <2>1. Between(Written(r, t, f), t, s, f) # {}
      BY <1>6, SecondWriterMeets
    <2>2. Between(a, t, s, f) = Between(a, s, t, f)
      BY DEF Between
    <2>. QED
      BY <1>6, <2>1, <2>2
  <1>. QED
    BY <1>1, <1>2, <1>4, <1>5, <1>6

\* What becomes of the sessions and of the collisions about them in a step that is
\* no event of an agent or a daemon: the sessions stay, and so does every collision but
\* for its state.
Kept ==
    /\ room'.sess = room.sess
    /\ \A d \in room.col : \E n \in room'.col : n.id = d.id /\ n.about = d.about

LEMMA KeptFacts ==
    ASSUME CInv, [Next]_vars
    PROVE  Kept \/ \E e : Caused(e)
  <1>0. Typed /\ CandidatesFresh
    BY DEF CInv
  <1>1. ASSUME NEW c \in Collisions, c.id.num = 0, publishing # <<>>, SubmitCollision(c)
        PROVE  Kept
    BY <1>0, <1>1, SubmitCollisionFacts DEF Kept
  <1>2. CASE PublishEvent
    <2>. DEFINE e == Head(publishing).event
    <2>1. e \in Events /\ publishing # <<>>
      BY <1>0, <1>2, PublishKinds
    <2>2. ASSUME NEW q, Announces(q, e)
          PROVE  Kept
      <3>1. q \in Seq(Collisions) /\ q # <<>> /\ Head(q) = q[1] /\ Head(q) \in Collisions
        BY <1>0, <2>1, <2>2, AnnouncesFacts
      <3>2. 1 \in 1 .. Len(q)
        BY <3>1
      <3>3. Head(q).id.num = 0
        BY <1>0, <2>1, <2>2, <3>1, <3>2, AnnouncesFacts
      <3>. QED
        BY <1>1, <2>1, <2>2, <3>1, <3>3 DEF Announces
    <2>3. CASE Passes
      BY <2>3 DEF Passes, Kept
    <2>. QED
      BY <1>0, <1>2, <2>2, <2>3, PublishKinds
  <1>3. CASE PublishCollision
    <2>1. CASE candidates # <<>> /\ SubmitCollision(Head(candidates))
      <3>1. Head(candidates) = candidates[1] /\ candidates[1] \in Collisions
            /\ 1 \in 1 .. Len(candidates)
        BY <1>0, <2>1 DEF Typed
      <3>2. candidates[1].id.num = 0
        BY <1>0, <3>1 DEF CandidatesFresh
      <3>. QED
        BY <1>0, <1>1, <1>3, <2>1, <3>1, <3>2, PublishCollisionKinds
    <2>2. CASE Passes
      BY <2>2 DEF Passes, Kept
    <2>. QED
      BY <1>0, <1>3, <2>1, <2>2, PublishCollisionKinds
  <1>4. ASSUME NEW c \in room.col, Negotiate(c)
        PROVE  Kept
    BY <1>0, <1>4, NegotiateFacts DEF Kept
  <1>5. CASE Elsewhere
    BY <1>5 DEF Elsewhere, Kept
  <1>. QED
    BY <1>0, <1>2, <1>3, <1>4, <1>5, StepKinds

\* Two live agents that have both written a file share a collision about it,
\* whichever wrote first and whatever either knew (applyFileWrite, reduce.ts).
THEOREM WritersAlwaysMeet == Spec => []WritersMeet
  <1>. DEFINE All(r) == \A s, t \in Sessions : \A f \in Files : s # t => Meets(r, s, t, f)
  <1>1. Init => All(room)
    <2>1. Init => \A s \in Sessions : room.sess[s].writes = {}
      BY FreshRoomTyped DEF Init
    <2>. QED
      BY <2>1 DEF Meets
  <1>2. ASSUME CInv, All(room), [Next]_vars
        PROVE  All(room)'
    <2>0. room \in Rooms /\ Typed
      BY <1>2 DEF CInv, Typed
    <2>1. ASSUME NEW e, Caused(e)
          PROVE  All(room')
      <3>1. e \in Events /\ room' = Applied(room, e)
        BY <2>0, <2>1, CausedFacts DEF Caused
      <3>2. All(Applied(room, e))
        BY <1>2, <2>0, <3>1, MeetsApplied
      <3>. QED
        BY <3>1, <3>2
    <2>2. CASE Kept
      <3>1. ASSUME NEW s \in Sessions, NEW t \in Sessions, NEW f \in Files, s # t
            PROVE  Meets(room', s, t, f)
        <4>1. Meets(room, s, t, f)
          BY <1>2, <3>1
        <4>2. Between(room, s, t, f) # {} => Between(room', s, t, f) # {}
          BY <2>2 DEF Kept, Between, Parties
        <4>. QED
          BY <2>2, <4>1, <4>2 DEF Kept, Meets, Live
      <3>. QED
        BY <3>1
    <2>3. All(room')
      BY <1>2, <2>1, <2>2, KeptFacts
    <2>. QED
      BY <2>3
  <1>3. All(room) => WritersMeet
    BY DEF Meets, WritersMeet
  <1>. QED
    BY <1>1, <1>2, <1>3, Invariance, PTL DEF Spec
-----------------------------------------------------------------------------
(***************************************************************************)
(* Claimants meet.                                                         *)
(***************************************************************************)

\* A collision of the two is in the room, waits to be submitted, or is to be found
\* when the later claim is published.
PairKnown(s, t) == \E c \in room.col : {s, t} \subseteq Parties(c)
PairAnnounced(s, t) == \E i \in 1 .. Len(candidates) : {s, t} \subseteq Parties(candidates[i])
ClaimPending(s, f) ==
    \E i \in 1 .. Len(publishing) :
        LET e == publishing[i].event IN e.type = "INTENT" /\ e.by = s /\ f \in e.files

Found(s, t, f) ==
    \/ PairKnown(s, t) \/ PairAnnounced(s, t)
    \/ ClaimPending(s, f) \/ ClaimPending(t, f)
    \/ s \in unheard \/ t \in unheard

ClaimsFound ==
    \A s, t \in Sessions : \A f \in Files :
        (s # t /\ Claims(s, f) /\ Claims(t, f)) => Found(s, t, f)

\* A claim that is published runs into every other claim on the file.
LEMMA ClaimHits ==
    ASSUME NEW r \in Rooms, NEW e \in Events, e.type = "INTENT",
           NEW t \in Sessions, t # e.by, NEW f \in e.files,
           Live(r, t), f \in r.sess[t].intent.files
    PROVE  \/ \E c \in r.col : {e.by, t} \subseteq Parties(c)
           \/ \E c \in Detected(r, e) : {e.by, t} \subseteq Parties(c)
  <1>1. f \in FileHits(r, e, t)
    BY DEF FileHits, TheirFiles
  <1>2. <<f, 0>> \in Whole(FileHits(r, e, t))
    BY <1>1 DEF Whole
  <1>3. Hits(r, e, t) # {}
    BY <1>2 DEF Hits
  <1>4. CollisionId(r, e, t).writer = e.by /\ CollisionId(r, e, t).affected = {t}
    BY CandidateFacts
  <1>5. CASE IsOpen(r, CollisionId(r, e, t))
    <2>1. PICK c \in r.col : c.id = CollisionId(r, e, t)
      BY <1>5 DEF IsOpen
    <2>2. {e.by, t} \subseteq Parties(c)
      BY <1>4, <2>1 DEF Parties
    <2>. QED
      BY <2>2
  <1>6. CASE ~IsOpen(r, CollisionId(r, e, t))
    <2>1. t \in Hit(r, e)
      BY <1>3, <1>6 DEF Hit
    <2>2. Candidate(r, e, t) \in Detected(r, e)
      BY <2>1, DetectedFacts
    <2>3. Candidate(r, e, t).id = CollisionId(r, e, t)
      BY CandidateFacts
    <2>4. {e.by, t} \subseteq Parties(Candidate(r, e, t))
      BY <1>4, <2>3 DEF Parties
    <2>. QED
      BY <2>2, <2>4
  <1>. QED
    BY <1>5, <1>6

\* The sessions and what each has claimed are the same after a step that is no event.
LEMMA ClaimsKept ==
    ASSUME Kept, NEW s \in Sessions, NEW t \in Sessions, NEW f \in Files
    PROVE  /\ Claims(s, f)' <=> Claims(s, f)
           /\ PairKnown(s, t) => PairKnown(s, t)'
  BY DEF Kept, Claims, Live, PairKnown, Parties

\* An event of an agent: the claim it makes is to be published.
LEMMA FoundCaused ==
    ASSUME CInv, ClaimsFound, NEW e, Caused(e), NEW s \in Sessions, NEW t \in Sessions,
           s # t, NEW f \in Files, Claims(s, f)', Claims(t, f)'
    PROVE  Found(s, t, f)'
  <1>0. Typed /\ room \in Rooms
    BY DEF CInv, Typed
  <1>1. /\ room' = Applied(room, e) /\ e \in Events
        /\ Len(publishing) \in Nat /\ Len(publishing') = Len(publishing) + 1
        /\ \A i \in 1 .. Len(publishing) : publishing'[i] = publishing[i]
        /\ publishing'[Len(publishing) + 1].event = e
        /\ UNCHANGED <<candidates, unheard>>
    BY <1>0, CausedFacts DEF Caused, Authority
  <1>2. ASSUME NEW u \in Sessions, Claims(u, f)'
        PROVE  Claims(u, f) \/ ClaimPending(u, f)'
    <2>1. Live(Applied(room, e), u) /\ f \in Applied(room, e).sess[u].intent.files
      BY <1>1, <1>2 DEF Claims
    <2>2. \/ Live(room, u) /\ f \in room.sess[u].intent.files
          \/ e.type = "INTENT" /\ e.by = u /\ f \in e.files
      BY <1>0, <1>1, <2>1, SessionsAfter
    <2>3. Len(publishing) + 1 \in 1 .. Len(publishing')
      BY <1>1
    <2>. QED
      BY <1>1, <2>2, <2>3 DEF Claims, ClaimPending
  <1>3. ASSUME NEW u \in Sessions, ClaimPending(u, f)
        PROVE  ClaimPending(u, f)'
    <2>1. PICK i \in 1 .. Len(publishing) :
            LET x == publishing[i].event IN x.type = "INTENT" /\ x.by = u /\ f \in x.files
      BY <1>3 DEF ClaimPending
    <2>2. i \in 1 .. Len(publishing') /\ publishing'[i] = publishing[i]
      BY <1>1
    <2>. QED
      BY <2>1, <2>2 DEF ClaimPending
  <1>4. PairKnown(s, t) => PairKnown(s, t)'
    <2>1. room.col \subseteq Applied(room, e).col
      BY <1>0, <1>1, AppliedFacts
    <2>. QED
      BY <1>1, <2>1 DEF PairKnown
  <1>5. PairAnnounced(s, t) => PairAnnounced(s, t)'
    BY <1>1 DEF PairAnnounced
  <1>6. CASE Claims(s, f) /\ Claims(t, f)
    <2>1. Found(s, t, f)
      BY <1>6 DEF ClaimsFound
    <2>. QED
      BY <1>1, <1>3, <1>4, <1>5, <2>1 DEF Found
  <1>7. CASE ~Claims(s, f) \/ ~Claims(t, f)
    <2>1. ClaimPending(s, f)' \/ ClaimPending(t, f)'
      BY <1>2, <1>7
    <2>. QED
      BY <2>1 DEF Found
  <1>. QED
    BY <1>6, <1>7

\* Claims other than the first of the queue are still to be published.
LEMMA PendingMoves ==
    ASSUME NEW s \in Sessions, NEW f \in Files, ClaimPending(s, f),
           Len(publishing) \in Nat, Len(publishing') \in Nat,
           Len(publishing') >= Len(publishing) - 1,
           \A i \in 2 .. Len(publishing) : publishing'[i - 1] = publishing[i]
    PROVE  \/ ClaimPending(s, f)'
           \/ LET e == publishing[1].event IN e.type = "INTENT" /\ e.by = s /\ f \in e.files
  <1>1. PICK i \in 1 .. Len(publishing) :
            LET e == publishing[i].event IN e.type = "INTENT" /\ e.by = s /\ f \in e.files
    BY DEF ClaimPending
  <1>2. CASE i = 1
    BY <1>1, <1>2
  <1>3. CASE i # 1
    <2>1. i - 1 \in 1 .. Len(publishing') /\ publishing'[i - 1] = publishing[i]
      BY <1>3
    <2>. QED
      BY <1>1, <2>1 DEF ClaimPending
  <1>. QED
    BY <1>2, <1>3

\* An event is published and announced: the first collision is in the room, the others
\* wait.
LEMMA FoundAnnounced ==
    ASSUME CInv, NEW e, e = Head(publishing).event, e \in Events, publishing # <<>>,
           NEW q, Announces(q, e), NEW c \in Detected(room, e),
           NEW s \in Sessions, NEW t \in Sessions, {s, t} \subseteq Parties(c)
    PROVE  PairKnown(s, t)' \/ PairAnnounced(s, t)'
  <1>0. Typed /\ Announcing
    BY DEF CInv
  <1>1. /\ q \in Seq(Collisions) /\ q # <<>> /\ Head(q) = q[1] /\ Head(q) \in Collisions
        /\ \A i \in 1 .. Len(q) : q[i].id.num = 0
        /\ Tail(q) \in Seq(Collisions) /\ Len(Tail(q)) = Len(q) - 1
        /\ \A i \in 1 .. Len(Tail(q)) : Tail(q)[i] = q[i + 1]
    BY <1>0, AnnouncesFacts
  <1>2. Len(q) \in Nat /\ 1 \in 1 .. Len(q)
    BY <1>1
  <1>3. PICK i \in 1 .. Len(q) : q[i] = c
    BY <1>0, AnnouncesFacts
  <1>4. candidates = <<>> /\ candidates' = candidates \o Tail(q) /\ SubmitCollision(Head(q))
    BY <1>0 DEF Announces, Announcing
  <1>5. candidates' = Tail(q)
    BY <1>1, <1>4, ConcatEmptySeq
  <1>6. CASE i = 1
    <2>1. Head(q) = c /\ c.id.num = 0
      BY <1>1, <1>2, <1>3, <1>6
    <2>2. \E d \in room'.col : d.id = c.id
      BY <1>0, <1>1, <1>4, <2>1, SubmitCollisionFacts
    <2>. QED
      BY <2>2 DEF PairKnown, Parties
  <1>7. CASE i # 1
    <2>1. i - 1 \in 1 .. Len(Tail(q)) /\ (i - 1) + 1 = i
      BY <1>1, <1>2, <1>7
    <2>2. Tail(q)[i - 1] = c
      BY <1>1, <1>3, <2>1
    <2>. QED
      BY <1>5, <2>1, <2>2 DEF PairAnnounced
  <1>. QED
    BY <1>6, <1>7

LEMMA FoundPublished ==
    ASSUME CInv, ClaimsFound, [Next]_vars, PublishEvent, NEW s \in Sessions, NEW t \in Sessions,
           s # t, NEW f \in Files, Claims(s, f)', Claims(t, f)'
    PROVE  Found(s, t, f)'
  <1>. DEFINE e == Head(publishing).event
  <1>0. Typed /\ Announcing /\ CandidatesFresh /\ room \in Rooms
    BY DEF CInv, Typed
  <1>1. e \in Events /\ publishing # <<>> /\ e = publishing[1].event
    BY <1>0, PublishKinds, FirstPublished
  <1>2. \/ \E q : Announces(q, e)
        \/ /\ Passes
           /\ ~announcing => Detected(room, e) = {} /\ UNCHANGED unheard
           /\ announcing => unheard' = unheard \cup {e.by}
    BY <1>0, PublishKinds
  <1>3. Kept
    <2>1. ASSUME NEW q, Announces(q, e)
          PROVE  Kept
      <3>1. q \in Seq(Collisions) /\ q # <<>> /\ Head(q) = q[1] /\ Head(q) \in Collisions
        BY <1>0, <1>1, <2>1, AnnouncesFacts
      <3>2. 1 \in 1 .. Len(q)
        BY <3>1
      <3>3. Head(q).id.num = 0
        BY <1>0, <1>1, <2>1, <3>1, <3>2, AnnouncesFacts
      <3>. QED
        BY <1>0, <1>1, <2>1, <3>1, <3>3, SubmitCollisionFacts DEF Announces, Kept
    <2>. QED
      BY <1>2, <2>1 DEF Passes, Kept
  <1>4. /\ Claims(s, f) /\ Claims(t, f)
        /\ PairKnown(s, t) => PairKnown(s, t)'
    BY <1>3, ClaimsKept
  <1>5. /\ Len(publishing) \in Nat /\ Len(publishing') \in Nat
        /\ Len(publishing') >= Len(publishing) - 1
        /\ \A i \in 2 .. Len(publishing) : publishing'[i - 1] = publishing[i]
    <2>1. ASSUME NEW q, Announces(q, e)
          PROVE  Head(q) \in Collisions /\ Head(q).id.num = 0 /\ SubmitCollision(Head(q))
      <3>1. q \in Seq(Collisions) /\ q # <<>> /\ Head(q) = q[1] /\ Head(q) \in Collisions
        BY <1>0, <1>1, <2>1, AnnouncesFacts
      <3>2. 1 \in 1 .. Len(q)
        BY <3>1
      <3>. QED
        BY <1>0, <1>1, <2>1, <3>1, <3>2, AnnouncesFacts DEF Announces
    <2>. QED
      BY <1>0, <1>1, <1>2, <2>1, SubmitCollisionFacts, PassesFacts
  <1>6. unheard \subseteq unheard'
    BY <1>2 DEF Announces
  <1>7. PairAnnounced(s, t) => PairAnnounced(s, t)'
    <2>1. CASE Passes
      BY <2>1 DEF Passes, PairAnnounced
    <2>2. ASSUME NEW q, Announces(q, e)
          PROVE  ~PairAnnounced(s, t)
      BY <1>0, <2>2 DEF Announces, Announcing, PairAnnounced
    <2>. QED
      BY <1>2, <2>1, <2>2
  <1>8. ASSUME NEW u \in Sessions, NEW v \in Sessions, {u, v} = {s, t}, u # v,
               e.type = "INTENT", e.by = u, f \in e.files
        PROVE  Found(s, t, f)'
    <2>1. Live(room, v) /\ f \in room.sess[v].intent.files
      BY <1>4, <1>8 DEF Claims
    <2>2. \/ \E c \in room.col : {u, v} \subseteq Parties(c)
          \/ \E c \in Detected(room, e) : {u, v} \subseteq Parties(c)
      BY <1>0, <1>1, <1>8, <2>1, ClaimHits
    <2>3. CASE \E c \in room.col : {u, v} \subseteq Parties(c)
      BY <1>4, <1>8, <2>3 DEF PairKnown, Found
    <2>4. CASE \E c \in Detected(room, e) : {u, v} \subseteq Parties(c)
      <3>1. PICK c \in Detected(room, e) : {s, t} \subseteq Parties(c)
        BY <1>8, <2>4
      <3>2. ASSUME NEW q, Announces(q, e)
            PROVE  Found(s, t, f)'
        BY <1>1, <3>1, <3>2, FoundAnnounced DEF Found
      <3>3. CASE ~ \E q : Announces(q, e)
        <4>1. unheard' = unheard \cup {u}
          BY <1>2, <1>8, <3>1, <3>3
        <4>. QED
          BY <1>8, <4>1 DEF Found
      <3>. QED
        BY <3>2, <3>3
    <2>. QED
      BY <2>2, <2>3, <2>4
  <1>9. ASSUME NEW u \in Sessions, NEW v \in Sessions, {u, v} = {s, t}, u # v,
               ClaimPending(u, f)
        PROVE  Found(s, t, f)'
    <2>1. \/ ClaimPending(u, f)'
          \/ e.type = "INTENT" /\ e.by = u /\ f \in e.files
      BY <1>1, <1>5, <1>9, PendingMoves
    <2>2. ClaimPending(u, f)' => Found(s, t, f)'
      BY <1>9 DEF Found
    <2>. QED
      BY <1>8, <1>9, <2>1, <2>2
  <1>10. Found(s, t, f)
    BY <1>4 DEF ClaimsFound
  <1>. QED
    BY <1>4, <1>6, <1>7, <1>9, <1>10 DEF Found

LEMMA FoundCollisionPublished ==
    ASSUME CInv, ClaimsFound, [Next]_vars, PublishCollision, NEW s \in Sessions, NEW t \in Sessions,
           s # t, NEW f \in Files, Claims(s, f)', Claims(t, f)'
    PROVE  Found(s, t, f)'
  <1>0. Typed /\ CandidatesFresh
    BY DEF CInv
  <1>1. /\ publishing # <<>> /\ publishing[1].event.type = "COLLISION" /\ UNCHANGED unheard
        /\ \/ /\ candidates # <<>> /\ candidates' = Tail(candidates)
              /\ SubmitCollision(Head(candidates))
           \/ Passes
    BY <1>0, PublishCollisionKinds
  <1>2. CASE /\ candidates # <<>> /\ candidates' = Tail(candidates)
             /\ SubmitCollision(Head(candidates))
    <2>1. /\ candidates \in Seq(Collisions) /\ Head(candidates) = candidates[1]
          /\ candidates[1] \in Collisions /\ 1 \in 1 .. Len(candidates)
          /\ Len(candidates) \in Nat
      BY <1>0, <1>2 DEF Typed
    <2>2. candidates[1].id.num = 0
      BY <1>0, <2>1 DEF CandidatesFresh
    <2>3. /\ Kept
          /\ \E d \in room'.col : d.id = candidates[1].id
          /\ Len(publishing) \in Nat /\ Len(publishing') \in Nat
          /\ Len(publishing') >= Len(publishing) - 1
          /\ \A i \in 2 .. Len(publishing) : publishing'[i - 1] = publishing[i]
      BY <1>0, <1>1, <1>2, <2>1, <2>2, SubmitCollisionFacts DEF Kept
    <2>4. /\ Claims(s, f) /\ Claims(t, f)
          /\ PairKnown(s, t) => PairKnown(s, t)'
      BY <2>3, ClaimsKept
    <2>5. PairAnnounced(s, t) => PairKnown(s, t)' \/ PairAnnounced(s, t)'
      <3>. SUFFICES ASSUME PairAnnounced(s, t)
                    PROVE  PairKnown(s, t)' \/ PairAnnounced(s, t)'
        OBVIOUS
      <3>1. PICK i \in 1 .. Len(candidates) : {s, t} \subseteq Parties(candidates[i])
        BY DEF PairAnnounced
      <3>2. CASE i = 1
        BY <2>3, <3>1, <3>2 DEF PairKnown, Parties
      <3>3. CASE i # 1
        <4>1. /\ Len(Tail(candidates)) = Len(candidates) - 1
              /\ \A j \in 1 .. Len(Tail(candidates)) : Tail(candidates)[j] = candidates[j + 1]
          BY <1>2, <2>1, HeadTailProperties
        <4>2. i - 1 \in 1 .. Len(Tail(candidates)) /\ (i - 1) + 1 = i
          BY <2>1, <3>3, <4>1
        <4>3. Tail(candidates)[i - 1] = candidates[i]
          BY <4>1, <4>2
        <4>. QED
          BY <1>2, <3>1, <4>2, <4>3 DEF PairAnnounced
      <3>. QED
        BY <3>2, <3>3
    <2>6. \A u \in {s, t} : ClaimPending(u, f) => ClaimPending(u, f)'
      BY <1>1, <2>3, PendingMoves
    <2>7. Found(s, t, f)
      BY <2>4 DEF ClaimsFound
    <2>. QED
      BY <1>1, <2>4, <2>5, <2>6, <2>7 DEF Found
  <1>3. CASE Passes
    <2>1. Kept
      BY <1>3 DEF Passes, Kept
    <2>2. /\ Claims(s, f) /\ Claims(t, f)
          /\ PairKnown(s, t) => PairKnown(s, t)'
      BY <2>1, ClaimsKept
    <2>3. PairAnnounced(s, t) => PairAnnounced(s, t)'
      BY <1>3 DEF Passes, PairAnnounced
    <2>4. /\ Len(publishing) \in Nat /\ Len(publishing') \in Nat
          /\ Len(publishing') >= Len(publishing) - 1
          /\ \A i \in 2 .. Len(publishing) : publishing'[i - 1] = publishing[i]
      BY <1>0, <1>3, PassesFacts
    <2>5. \A u \in {s, t} : ClaimPending(u, f) => ClaimPending(u, f)'
      BY <1>1, <2>4, PendingMoves
    <2>6. Found(s, t, f)
      BY <2>2 DEF ClaimsFound
    <2>. QED
      BY <1>1, <2>2, <2>3, <2>5, <2>6 DEF Found
  <1>. QED
    BY <1>1, <1>2, <1>3

\* A negotiation moves a collision and adds an event behind the others; the steps
\* of the daemons that cause no event change nothing of this.
LEMMA FoundElsewhere ==
    ASSUME CInv, ClaimsFound, [Next]_vars, Elsewhere \/ \E c \in room.col : Negotiate(c),
           NEW s \in Sessions, NEW t \in Sessions, s # t, NEW f \in Files,
           Claims(s, f)', Claims(t, f)'
    PROVE  Found(s, t, f)'
  <1>0. Typed
    BY DEF CInv
  <1>1. /\ Kept
        /\ Len(publishing) \in Nat /\ Len(publishing') \in Nat
        /\ Len(publishing') >= Len(publishing)
        /\ \A i \in 1 .. Len(publishing) : publishing'[i] = publishing[i]
        /\ UNCHANGED <<candidates, unheard>>
    <2>1. CASE Elsewhere
      BY <1>0, <2>1 DEF Elsewhere, Authority, Kept, Typed
    <2>2. CASE \E c \in room.col : Negotiate(c)
      <3>1. PICK c \in room.col : Negotiate(c)
        BY <2>2
      <3>2. UNCHANGED <<candidates, unheard>>
        BY <3>1 DEF Negotiate, AtAuthority
      <3>. QED
        BY <1>0, <3>1, <3>2, NegotiateFacts DEF Kept
    <2>. QED
      BY <2>1, <2>2
  <1>2. /\ Claims(s, f) /\ Claims(t, f)
        /\ PairKnown(s, t) => PairKnown(s, t)'
    BY <1>1, ClaimsKept
  <1>3. PairAnnounced(s, t) => PairAnnounced(s, t)'
    BY <1>1 DEF PairAnnounced
  <1>4. ASSUME NEW u \in Sessions, ClaimPending(u, f)
        PROVE  ClaimPending(u, f)'
    <2>1. PICK i \in 1 .. Len(publishing) :
            LET x == publishing[i].event IN x.type = "INTENT" /\ x.by = u /\ f \in x.files
      BY <1>4 DEF ClaimPending
    <2>2. i \in 1 .. Len(publishing') /\ publishing'[i] = publishing[i]
      BY <1>1
    <2>. QED
      BY <2>1, <2>2 DEF ClaimPending
  <1>5. Found(s, t, f)
    BY <1>2 DEF ClaimsFound
  <1>. QED
    BY <1>1, <1>2, <1>3, <1>4, <1>5 DEF Found

\* Two live agents that claim one file share a collision, or the later claim or its
\* collision is still on its way, or an event of one was published while another
\* collision was being announced (claimFiles, daemon.ts; announceCollisions).
THEOREM ClaimantsAlwaysMeet == Spec => []ClaimantsMeet
  <1>1. Init => ClaimsFound
    <2>1. Init => \A s \in Sessions : room.sess[s].intent.files = {}
      BY FreshRoomTyped DEF Init
    <2>. QED
      BY <2>1 DEF ClaimsFound, Claims
  <1>2. ASSUME CInv, ClaimsFound, [Next]_vars
        PROVE  ClaimsFound'
    <2>1. ASSUME NEW s \in Sessions, NEW t \in Sessions, s # t, NEW f \in Files,
                 Claims(s, f)', Claims(t, f)'
          PROVE  Found(s, t, f)'
      <3>1. Typed
        BY <1>2 DEF CInv
      <3>2. ASSUME NEW e, Caused(e)
            PROVE  Found(s, t, f)'
        BY <1>2, <2>1, <3>2, FoundCaused
      <3>3. CASE PublishEvent
        BY <1>2, <2>1, <3>3, FoundPublished
      <3>4. CASE PublishCollision
        BY <1>2, <2>1, <3>4, FoundCollisionPublished
      <3>5. CASE Elsewhere \/ \E c \in room.col : Negotiate(c)
        BY <1>2, <2>1, <3>5, FoundElsewhere
      <3>. QED
        BY <1>2, <3>1, <3>2, <3>3, <3>4, <3>5, StepKinds
    <2>. QED
      BY <2>1 DEF ClaimsFound
  <1>3. ASSUME CInv, ClaimsFound
        PROVE  ClaimantsMeet
    <2>1. DOMAIN candidates = 1 .. Len(candidates) /\ DOMAIN publishing = 1 .. Len(publishing)
      BY <1>3 DEF CInv, Typed
    <2>2. ASSUME NEW s \in Sessions, NEW t \in Sessions, NEW f \in Files,
                 s # t, Claims(s, f), Claims(t, f)
          PROVE  \/ \E c \in room.col : {s, t} \subseteq Parties(c)
                 \/ Pending(s) \/ Pending(t) \/ AnnouncedTo(s) \/ AnnouncedTo(t)
                 \/ s \in unheard \/ t \in unheard
      <3>1. Found(s, t, f)
        BY <1>3, <2>2 DEF ClaimsFound
      <3>2. PairAnnounced(s, t) => AnnouncedTo(s)
        BY <2>1 DEF PairAnnounced, AnnouncedTo
      <3>3. \A u \in Sessions : ClaimPending(u, f) => Pending(u)
        BY <2>1 DEF ClaimPending, Pending
      <3>. QED
        BY <3>1, <3>2, <3>3 DEF Found, PairKnown
    <2>. QED
      BY <2>2 DEF ClaimantsMeet
  <1>. QED
    BY <1>1, <1>2, <1>3, Invariance, PTL DEF Spec
=============================================================================
