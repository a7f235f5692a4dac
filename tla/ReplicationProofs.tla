------------------------- MODULE ReplicationProofs --------------------------
(***************************************************************************)
(* Proofs about Replication.  An event that overtakes start() leaves a      *)
(* history that is not the log: what is read by position is exact only      *)
(* before (ExactInv), the rest of the invariant holds with it too.          *)
(***************************************************************************)
EXTENDS Replication, SequenceTheorems, WellFoundedInduction, TLAPS

(***************************************************************************)
(* The authority.  p is a sequence of batches that goes from a to b.       *)
(***************************************************************************)
Leads(p, a, b) ==
    /\ \A i \in 1 .. Len(p) : p[i].lo <= p[i].hi /\ p[i].hi <= b
    /\ IF p = <<>> THEN a = b ELSE p[1].lo = a + 1 /\ p[Len(p)].hi = b
    /\ \A i \in 1 .. Len(p) - 1 : p[i + 1].lo = p[i].hi + 1

\* What is on its way to the Hypercore is what it lacks.
HistoryInv ==
    /\ InStep
    /\ Len(core) <= Len(log)
    /\ phase = "up" \/ publishing # <<>> => Leads(publishing, Len(core), Len(log))

\* What it holds and what is on its way to it are events, if not in step.
BoundInv ==
    /\ \A i \in 1 .. Len(core) : core[i] \in 1 .. Len(log)
    /\ \A i \in 1 .. Len(publishing) :
          /\ 1 <= publishing[i].lo /\ publishing[i].lo <= publishing[i].hi
          /\ publishing[i].hi <= Len(log)

(***************************************************************************)
(* Connections.                                                            *)
(***************************************************************************)
HelloFirst(up) == up # <<>> /\ up[1].type = "HELLO"

\* Only the channel of the running process is alive or has frames for it, and
\* what is attached is registered under its process, once.
ConnInv ==
    /\ proc > 0
    /\ \A c \in Conns : conn[c].alive => c = channel /\ conn[c].proc = proc
    /\ \A c \in Conns : conn[c].down # <<>> => c = channel
    /\ \A c \in Conns : conn[c].alive /\ conn[c].authOpen => \E q \in peers : q.conn = c
    /\ \A c \in Conns : conn[c].alive /\ ~conn[c].authOpen => conn[c].down = <<>> /\ ~welcomed
    /\ \A q \in peers : conn[q.conn].authOpen /\ conn[q.conn].proc = q.proc
    /\ \A p, q \in peers : p.proc = q.proc => p = q

\* Nothing joins before it has said HELLO.
GreetInv ==
    /\ RejoinStands
    /\ \A q \in peers : q.joined => q.hello
    /\ \A q \in peers : ~q.hello => HelloFirst(conn[q.conn].up)
    /\ \A c \in Conns : conn[c].alive /\ ~conn[c].authOpen => HelloFirst(conn[c].up)
    /\ \A q \in peers, c \in Conns :
          c # q.conn /\ conn[c].proc = q.proc /\ conn[c].authOpen => conn[c].up = <<>>

(***************************************************************************)
(* The frames d on their way to a peer whose room is at event s, and whose *)
(* WELCOME has come (w) or not.                                            *)
(***************************************************************************)

\* Will WELCOME have come when frame i does?
Awaits(d, w, i) == w \/ \E k \in 1 .. i - 1 : d[k].type = "WELCOME"

\* Will the room be at event n by then?
Reaches(d, w, s, i, n) ==
    \/ w /\ n <= s
    \/ \E j \in 1 .. i - 1 : n <= d[j].hi /\ (d[j].type = "WELCOME" \/ Awaits(d, w, j))

NoGap(d, w, s) ==
    \A i \in 1 .. Len(d) :
        d[i].type = "EVENTS" /\ Awaits(d, w, i) => Reaches(d, w, s, i, d[i].lo - 1)

\* Will it be at event n after all of them, if WELCOME will have come?
EndsAt(d, w, s, n) == Awaits(d, w, Len(d) + 1) => Reaches(d, w, s, Len(d) + 1, n)

\* A WELCOME is not older than event m, nor than the frames before it.
Newer(d, m) == \A i \in 1 .. Len(d) : d[i].type = "WELCOME" => m <= d[i].hi
Rising(d) ==
    \A i \in 1 .. Len(d) : d[i].type = "WELCOME" => \A j \in 1 .. i - 1 : d[j].hi <= d[i].hi

Below(d, m) == \A i \in 1 .. Len(d) : d[i].hi <= m /\ (d[i].type = "EVENTS" => d[i].lo >= 1)

\* The blocks that were there when a WELCOME was sent hold nothing after it, and the
\* peer, which has not had it yet, has no others.
Known(d, k, n) ==
    \A i \in 1 .. Len(d) :
        d[i].type = "WELCOME" =>
            /\ n <= d[i].lo /\ d[i].lo <= Len(k)
            /\ \A j \in 1 .. d[i].lo : k[j] <= d[i].hi

InOrder(d) ==
    /\ Below(d, Len(log))
    /\ Rising(d)
    /\ Newer(d, room.lastSeq)
    /\ Known(d, core, length)

OrderInv == \A c \in Conns : InOrder(conn[c].down)

FrameInv(c) ==
    /\ NoGap(conn[c].down, welcomed, room.lastSeq)
    /\ Newer(conn[c].down, cursor)
    /\ \A from \in replays : Newer(conn[c].down, from)
    /\ conn[c].alive /\ conn[c].authOpen
          => EndsAt(conn[c].down, welcomed, room.lastSeq, Len(core))

FramesInv == \A c \in Conns : FrameInv(c)

\* The room of a welcomed peer is ahead of whatever its transport will read.
WholeRoom == welcomed => room.applied = 1 .. room.lastSeq

RoomInv ==
    /\ WholeRoom
    /\ welcomed => cursor <= room.lastSeq /\ \A from \in replays : from <= room.lastSeq

ExactInv == HistoryInv /\ FramesInv /\ RoomInv

IInv ==
    /\ TypesOK /\ BoundInv /\ ConnInv /\ GreetInv /\ OrderInv
    /\ raced \/ ExactInv
-----------------------------------------------------------------------------
(***************************************************************************)
(* Frames.  What a frame at the end and a room that moves on keep.         *)
(***************************************************************************)
LEMMA AwaitsMore ==
    ASSUME NEW d \in Seq(DownMessage), NEW w \in BOOLEAN, NEW e \in DownMessage,
           NEW i \in 1 .. Len(d) + 1
    PROVE  Awaits(Append(d, e), w, i) <=> Awaits(d, w, i)
<1>1. \A j \in 1 .. Len(d) : Append(d, e)[j] = d[j]
  BY AppendProperties
<1> QED BY <1>1, LenProperties DEF Awaits

LEMMA ReachesMore ==
    ASSUME NEW d \in Seq(DownMessage), NEW w \in BOOLEAN, NEW e \in DownMessage,
           NEW s \in Nat, NEW n \in Int, NEW i \in 1 .. Len(d) + 1
    PROVE  Reaches(Append(d, e), w, s, i, n) <=> Reaches(d, w, s, i, n)
<1>1. \A j \in 1 .. Len(d) : Append(d, e)[j] = d[j]
  BY AppendProperties
<1>2. \A j \in 1 .. i - 1 : Awaits(Append(d, e), w, j) <=> Awaits(d, w, j)
  BY AwaitsMore, LenProperties
<1> QED BY <1>1, <1>2, LenProperties DEF Reaches

LEMMA EventsSent ==
    ASSUME NEW d \in Seq(DownMessage), NEW w \in BOOLEAN, NEW s \in Nat,
           NEW e \in DownMessage, e.type = "EVENTS",
           NoGap(d, w, s), EndsAt(d, w, s, e.lo - 1)
    PROVE  NoGap(Append(d, e), w, s) /\ EndsAt(Append(d, e), w, s, e.hi)
<1> DEFINE d2 == Append(d, e)
<1>1. /\ d2 \in Seq(DownMessage) /\ Len(d2) = Len(d) + 1 /\ Len(d) \in Nat
      /\ d2[Len(d) + 1] = e
      /\ \A j \in 1 .. Len(d) : d2[j] = d[j] /\ d[j] \in DownMessage
  BY AppendProperties, LenProperties, ElementOfSeq
<1>2. ASSUME NEW i \in 1 .. Len(d2), d2[i].type = "EVENTS", Awaits(d2, w, i)
      PROVE  Reaches(d2, w, s, i, d2[i].lo - 1)
  <2>1. Awaits(d, w, i)
    BY <1>1, <1>2, AwaitsMore
  <2>2. Reaches(d, w, s, i, d2[i].lo - 1)
    BY <1>1, <1>2, <2>1 DEF NoGap, EndsAt
  <2>3. d2[i].lo - 1 \in Int
    BY <1>1, <1>2, SMTT(30) DEF DownMessage
  <2> QED BY <1>1, <2>2, <2>3, ReachesMore
<1>3. ASSUME Awaits(d2, w, Len(d2) + 1)
      PROVE  Reaches(d2, w, s, Len(d2) + 1, e.hi)
  <2>1. Awaits(d2, w, Len(d) + 1)
    BY <1>1, <1>3 DEF Awaits
  <2> QED BY <1>1, <2>1 DEF Reaches, DownMessage
<1> QED BY <1>1, <1>2, <1>3 DEF NoGap, EndsAt

LEMMA WelcomeSent ==
    ASSUME NEW d \in Seq(DownMessage), NEW w \in BOOLEAN, NEW s \in Nat,
           NEW e \in DownMessage, e.type = "WELCOME", NEW n \in Int, n <= e.hi,
           NoGap(d, w, s)
    PROVE  NoGap(Append(d, e), w, s) /\ EndsAt(Append(d, e), w, s, n)
<1> DEFINE d2 == Append(d, e)
<1>1. /\ d2 \in Seq(DownMessage) /\ Len(d2) = Len(d) + 1 /\ Len(d) \in Nat
      /\ d2[Len(d) + 1] = e
      /\ \A j \in 1 .. Len(d) : d2[j] = d[j] /\ d[j] \in DownMessage
  BY AppendProperties, LenProperties, ElementOfSeq
<1>2. ASSUME NEW i \in 1 .. Len(d2), d2[i].type = "EVENTS", Awaits(d2, w, i)
      PROVE  Reaches(d2, w, s, i, d2[i].lo - 1)
  <2>1. i \in 1 .. Len(d) /\ d2[i] = d[i] /\ d[i] \in DownMessage
    BY <1>1, <1>2
  <2>2. Awaits(d, w, i)
    BY <1>1, <1>2, <2>1, AwaitsMore
  <2>3. Reaches(d, w, s, i, d[i].lo - 1)
    BY <1>2, <2>1, <2>2 DEF NoGap
  <2>4. d[i].lo - 1 \in Int
    BY <2>1, SMTT(30) DEF DownMessage
  <2> QED BY <1>1, <2>1, <2>3, <2>4, ReachesMore
<1>3. Reaches(d2, w, s, Len(d2) + 1, n)
  BY <1>1 DEF Reaches
<1> QED BY <1>2, <1>3 DEF NoGap, EndsAt

LEMMA RoomMovesOn ==
    ASSUME NEW d, NEW w \in BOOLEAN, NEW s \in Nat, NEW t \in Nat, s <= t, Len(d) \in Nat,
           \A i \in 1 .. Len(d) : d[i] \in DownMessage
    PROVE  /\ NoGap(d, w, s) => NoGap(d, w, t)
           /\ \A n \in Int : EndsAt(d, w, s, n) => EndsAt(d, w, t, n)
<1>1. ASSUME NEW i, NEW n \in Int, Reaches(d, w, s, i, n)
      PROVE  Reaches(d, w, t, i, n)
  BY <1>1 DEF Reaches
<1>2. \A i \in 1 .. Len(d) : d[i].lo - 1 \in Int
  BY DEF DownMessage
<1>3. ASSUME NoGap(d, w, s)
      PROVE  NoGap(d, w, t)
  BY <1>1, <1>2, <1>3 DEF NoGap
<1>4. ASSUME NEW n \in Int, EndsAt(d, w, s, n)
      PROVE  EndsAt(d, w, t, n)
  BY <1>1, <1>4 DEF EndsAt
<1> QED BY <1>3, <1>4
-----------------------------------------------------------------------------
(***************************************************************************)
(* Frames.  What taking the first one keeps.                               *)
(***************************************************************************)
LEMMA TailFacts ==
    ASSUME NEW d \in Seq(DownMessage), d # <<>>
    PROVE  /\ Tail(d) \in Seq(DownMessage)
           /\ Len(d) \in Nat \ {0}
           /\ Len(Tail(d)) = Len(d) - 1
           /\ \A i \in 1 .. Len(d) - 1 : Tail(d)[i] = d[i + 1]
           /\ \A i \in 1 .. Len(d) : d[i] \in DownMessage
           /\ Head(d) = d[1]
BY HeadTailProperties, LenProperties, ElementOfSeq, EmptySeq

LEMMA AwaitsFewer ==
    ASSUME NEW d \in Seq(DownMessage), d # <<>>, NEW w \in BOOLEAN, NEW v \in BOOLEAN,
           v <=> (w \/ d[1].type = "WELCOME"), NEW i \in 1 .. Len(d)
    PROVE  Awaits(Tail(d), v, i) <=> Awaits(d, w, i + 1)
<1>1. ASSUME NEW k \in 1 .. i, d[k].type = "WELCOME"
      PROVE  Awaits(Tail(d), v, i)
  <2>1. CASE k = 1
    BY <1>1, <2>1 DEF Awaits
  <2>2. CASE k # 1
    <3>1. k - 1 \in 1 .. i - 1 /\ k - 1 \in 1 .. Len(d) - 1 /\ Tail(d)[k - 1] = d[k]
      BY <2>2, TailFacts
    <3> QED BY <1>1, <3>1 DEF Awaits
  <2> QED BY <2>1, <2>2
<1>2. ASSUME NEW k \in 1 .. i - 1, Tail(d)[k].type = "WELCOME"
      PROVE  Awaits(d, w, i + 1)
  <2>1. k + 1 \in 1 .. (i + 1) - 1 /\ Tail(d)[k] = d[k + 1]
    BY TailFacts
  <2> QED BY <1>2, <2>1 DEF Awaits
<1>3. d[1].type = "WELCOME" => Awaits(d, w, i + 1)
  BY DEF Awaits
<1>4. w => Awaits(d, w, i + 1) /\ Awaits(Tail(d), v, i)
  BY DEF Awaits
<1>5. Awaits(d, w, i + 1) => w \/ \E k \in 1 .. i : d[k].type = "WELCOME"
  BY DEF Awaits
<1>6. Awaits(Tail(d), v, i) => v \/ \E k \in 1 .. i - 1 : Tail(d)[k].type = "WELCOME"
  BY DEF Awaits
<1> QED BY <1>1, <1>2, <1>3, <1>4, <1>5, <1>6

\* The room takes the first frame and is at event t with it.
LEMMA ReachesFewer ==
    ASSUME NEW d \in Seq(DownMessage), d # <<>>, NEW w \in BOOLEAN, NEW v \in BOOLEAN,
           v <=> (w \/ d[1].type = "WELCOME"), NEW i \in 1 .. Len(d),
           NEW s \in Nat, NEW t \in Nat, w => s <= t, v => d[1].hi <= t,
           NEW n \in Int, Reaches(d, w, s, i + 1, n)
    PROVE  Reaches(Tail(d), v, t, i, n)
<1>1. CASE w /\ n <= s
  <2>1. v /\ n <= t
    BY <1>1
  <2> QED BY <2>1 DEF Reaches
<1>2. ASSUME NEW j \in 1 .. i, n <= d[j].hi, d[j].type = "WELCOME" \/ Awaits(d, w, j)
      PROVE  Reaches(Tail(d), v, t, i, n)
  <2>1. CASE j = 1
    <3>1. v
      BY <1>2, <2>1 DEF Awaits
    <3>2. d[1] \in DownMessage
      BY TailFacts
    <3>3. d[1].hi \in Nat
      BY <3>2 DEF DownMessage
    <3>4. n <= t
      BY <1>2, <2>1, <3>1, <3>3
    <3> QED BY <3>1, <3>4 DEF Reaches
  <2>2. CASE j # 1
    <3>1. j - 1 \in 1 .. i - 1 /\ j - 1 \in 1 .. Len(d) - 1 /\ Tail(d)[j - 1] = d[j]
      BY <2>2, TailFacts
    <3>2. j - 1 \in 1 .. Len(d) /\ (j - 1) + 1 = j
      BY <3>1, TailFacts
    <3>3. Awaits(Tail(d), v, j - 1) <=> Awaits(d, w, j)
      BY <3>2, AwaitsFewer
    <3> QED BY <1>2, <3>1, <3>3 DEF Reaches
  <2> QED BY <2>1, <2>2
<1>3. (w /\ n <= s) \/ \E j \in 1 .. i : n <= d[j].hi /\ (d[j].type = "WELCOME" \/ Awaits(d, w, j))
  BY DEF Reaches
<1> QED BY <1>1, <1>2, <1>3

LEMMA FrameTaken ==
    ASSUME NEW d \in Seq(DownMessage), d # <<>>, NEW w \in BOOLEAN, NEW v \in BOOLEAN,
           v <=> (w \/ d[1].type = "WELCOME"),
           NEW s \in Nat, NEW t \in Nat, w => s <= t, v => d[1].hi <= t,
           NoGap(d, w, s)
    PROVE  /\ NoGap(Tail(d), v, t)
           /\ \A n \in Int : EndsAt(d, w, s, n) => EndsAt(Tail(d), v, t, n)
<1>1. ASSUME NEW i \in 1 .. Len(Tail(d)), Tail(d)[i].type = "EVENTS", Awaits(Tail(d), v, i)
      PROVE  Reaches(Tail(d), v, t, i, Tail(d)[i].lo - 1)
  <2>1. i \in 1 .. Len(d) /\ i + 1 \in 1 .. Len(d) /\ Tail(d)[i] = d[i + 1]
    BY TailFacts
  <2>2. Awaits(d, w, i + 1)
    BY <1>1, <2>1, AwaitsFewer
  <2>3. Reaches(d, w, s, i + 1, d[i + 1].lo - 1)
    BY <1>1, <2>1, <2>2 DEF NoGap
  <2>4. d[i + 1] \in DownMessage
    BY <2>1, TailFacts
  <2>5. d[i + 1].lo - 1 \in Int
    BY <2>4 DEF DownMessage
  <2> QED BY <2>1, <2>3, <2>5, ReachesFewer
<1>2. ASSUME NEW n \in Int, EndsAt(d, w, s, n), Awaits(Tail(d), v, Len(Tail(d)) + 1)
      PROVE  Reaches(Tail(d), v, t, Len(Tail(d)) + 1, n)
  <2>1. Len(Tail(d)) + 1 = Len(d) /\ Len(d) \in 1 .. Len(d)
    BY TailFacts
  <2>2. Awaits(d, w, Len(d) + 1)
    BY <1>2, <2>1, AwaitsFewer
  <2>3. Reaches(d, w, s, Len(d) + 1, n)
    BY <1>2, <2>2 DEF EndsAt
  <2> QED BY <2>1, <2>3, ReachesFewer
<1> QED BY <1>1, <1>2 DEF NoGap, EndsAt

\* The order of the frames and of what came before them.
LEMMA OrderOfFewer ==
    ASSUME NEW d \in Seq(DownMessage), d # <<>>, Rising(d)
    PROVE  /\ Rising(Tail(d))
           /\ Newer(Tail(d), d[1].hi)
           /\ \A m \in Nat : Newer(d, m) => Newer(Tail(d), m)
           /\ \A m \in Nat : Below(d, m) => Below(Tail(d), m)
<1>1. Rising(Tail(d))
  <2> SUFFICES ASSUME NEW i \in 1 .. Len(Tail(d)), Tail(d)[i].type = "WELCOME",
                      NEW j \in 1 .. i - 1
               PROVE  Tail(d)[j].hi <= Tail(d)[i].hi
    BY DEF Rising
  <2>1. /\ Tail(d)[i] = d[i + 1] /\ Tail(d)[j] = d[j + 1]
        /\ i + 1 \in 1 .. Len(d) /\ j + 1 \in 1 .. (i + 1) - 1
    BY TailFacts
  <2> QED BY <2>1 DEF Rising
<1>2. Newer(Tail(d), d[1].hi)
  <2> SUFFICES ASSUME NEW i \in 1 .. Len(Tail(d)), Tail(d)[i].type = "WELCOME"
               PROVE  d[1].hi <= Tail(d)[i].hi
    BY DEF Newer
  <2>1. Tail(d)[i] = d[i + 1] /\ i + 1 \in 1 .. Len(d) /\ 1 \in 1 .. (i + 1) - 1
    BY TailFacts
  <2> QED BY <2>1 DEF Rising
<1>3. ASSUME NEW m \in Nat
      PROVE  (Newer(d, m) => Newer(Tail(d), m)) /\ (Below(d, m) => Below(Tail(d), m))
  BY TailFacts DEF Newer, Below
<1> QED BY <1>1, <1>2, <1>3

LEMMA KnownFewer ==
    ASSUME NEW d \in Seq(DownMessage), d # <<>>, NEW k, NEW n, Known(d, k, n)
    PROVE  Known(Tail(d), k, n)
<1>1. \A i \in 1 .. Len(Tail(d)) : i + 1 \in 1 .. Len(d) /\ Tail(d)[i] = d[i + 1]
  BY TailFacts
<1> QED BY <1>1 DEF Known

LEMMA KnownMore ==
    ASSUME NEW d \in Seq(DownMessage), NEW e \in DownMessage, NEW k, NEW n, Known(d, k, n),
           e.type = "WELCOME" => /\ n <= e.lo /\ e.lo <= Len(k)
                                 /\ \A j \in 1 .. e.lo : k[j] <= e.hi
    PROVE  Known(Append(d, e), k, n)
<1>1. /\ Len(Append(d, e)) = Len(d) + 1 /\ Len(d) \in Nat
      /\ Append(d, e)[Len(d) + 1] = e
      /\ \A j \in 1 .. Len(d) : Append(d, e)[j] = d[j]
  BY AppendProperties, LenProperties
<1> QED BY <1>1 DEF Known

LEMMA OrderOfMore ==
    ASSUME NEW d \in Seq(DownMessage), NEW e \in DownMessage, NEW l \in Nat,
           Rising(d), Below(d, l), e.hi <= l, e.type = "EVENTS" => e.lo >= 1,
           e.type = "WELCOME" => e.hi = l
    PROVE  /\ Rising(Append(d, e))
           /\ Below(Append(d, e), l)
           /\ \A m \in 0 .. l : Newer(d, m) => Newer(Append(d, e), m)
<1> DEFINE d2 == Append(d, e)
<1>1. /\ d2 \in Seq(DownMessage) /\ Len(d2) = Len(d) + 1 /\ Len(d) \in Nat
      /\ d2[Len(d) + 1] = e
      /\ \A j \in 1 .. Len(d) : d2[j] = d[j] /\ d[j] \in DownMessage
  BY AppendProperties, LenProperties, ElementOfSeq
<1>2. Rising(d2)
  <2> SUFFICES ASSUME NEW i \in 1 .. Len(d2), d2[i].type = "WELCOME", NEW j \in 1 .. i - 1
               PROVE  d2[j].hi <= d2[i].hi
    BY DEF Rising
  <2>1. CASE i \in 1 .. Len(d)
    BY <1>1, <2>1 DEF Rising
  <2>2. CASE i = Len(d) + 1
    BY <1>1, <2>2 DEF Below
  <2> QED BY <1>1, <2>1, <2>2
<1>3. Below(d2, l)
  BY <1>1 DEF Below
<1>4. ASSUME NEW m \in 0 .. l, Newer(d, m)
      PROVE  Newer(d2, m)
  BY <1>1, <1>4 DEF Newer
<1> QED BY <1>2, <1>3, <1>4
-----------------------------------------------------------------------------
(***************************************************************************)
(* The history.                                                            *)
(***************************************************************************)
LEMMA LeadsMore ==
    ASSUME NEW p \in Seq(Batch), NEW a \in Nat, NEW b \in Nat, NEW c \in Nat,
           Leads(p, a, b), b < c
    PROVE  Leads(Append(p, [lo |-> b + 1, hi |-> c]), a, c)
<1> DEFINE e == [lo |-> b + 1, hi |-> c]
           p2 == Append(p, e)
<1>1. e \in Batch
  BY DEF Batch
<1>2. /\ Len(p) \in Nat /\ Len(p2) = Len(p) + 1 /\ p2 # <<>> /\ p2[Len(p) + 1] = e
      /\ \A i \in 1 .. Len(p) : p2[i] = p[i] /\ p[i] \in Batch
  BY <1>1, AppendProperties, LenProperties, ElementOfSeq
<1>3. p = <<>> <=> Len(p) = 0
  BY EmptySeq
<1>4. \A i \in 1 .. Len(p2) : p2[i].lo <= p2[i].hi /\ p2[i].hi <= c
  <2> SUFFICES ASSUME NEW i \in 1 .. Len(p2)
               PROVE  p2[i].lo <= p2[i].hi /\ p2[i].hi <= c
    OBVIOUS
  <2>1. CASE i \in 1 .. Len(p)
    <3>1. p2[i] = p[i] /\ p[i] \in Batch
      BY <1>2, <2>1
    <3>2. p[i].lo <= p[i].hi /\ p[i].hi <= b
      BY <2>1 DEF Leads
    <3>3. p[i].hi \in Nat
      BY <3>1 DEF Batch
    <3> QED BY <3>1, <3>2, <3>3
  <2>2. CASE i = Len(p) + 1
    BY <1>2, <2>2
  <2> QED BY <1>2, <2>1, <2>2
<1>5. p2[1].lo = a + 1 /\ p2[Len(p2)].hi = c
  BY <1>2, <1>3 DEF Leads
<1>6. \A i \in 1 .. Len(p2) - 1 : p2[i + 1].lo = p2[i].hi + 1
  BY <1>2, <1>3 DEF Leads
<1> QED BY <1>2, <1>4, <1>5, <1>6 DEF Leads

LEMMA LeadsFewer ==
    ASSUME NEW p \in Seq(Batch), NEW a \in Nat, NEW b \in Nat, Leads(p, a, b), p # <<>>
    PROVE  /\ Head(p) \in Batch /\ Head(p).lo = a + 1
           /\ a < Head(p).hi /\ Head(p).hi <= b
           /\ Leads(Tail(p), Head(p).hi, b)
<1>1. /\ Head(p) = p[1] /\ Head(p) \in Batch
      /\ Tail(p) \in Seq(Batch) /\ Len(Tail(p)) = Len(p) - 1 /\ Len(p) \in Nat \ {0}
      /\ \A i \in 1 .. Len(p) - 1 : Tail(p)[i] = p[i + 1]
  BY HeadTailProperties, EmptySeq
<1>2. Tail(p) = <<>> <=> Len(p) = 1
  BY <1>1, EmptySeq, SMTT(30)
<1>3. Head(p).lo = a + 1 /\ a < Head(p).hi /\ Head(p).hi <= b
  BY <1>1 DEF Leads, Batch
<1>4. \A i \in 1 .. Len(Tail(p)) : Tail(p)[i].lo <= Tail(p)[i].hi /\ Tail(p)[i].hi <= b
  BY <1>1 DEF Leads
<1>5. IF Tail(p) = <<>> THEN Head(p).hi = b
      ELSE Tail(p)[1].lo = Head(p).hi + 1 /\ Tail(p)[Len(Tail(p))].hi = b
  BY <1>1, <1>2 DEF Leads
<1>6. \A i \in 1 .. Len(Tail(p)) - 1 : Tail(p)[i + 1].lo = Tail(p)[i].hi + 1
  BY <1>1 DEF Leads
<1> QED BY <1>1, <1>3, <1>4, <1>5, <1>6 DEF Leads

LEMMA SeqsAppended ==
    ASSUME NEW k \in Seq(Nat), NEW b \in Batch, b.lo = Len(k) + 1, b.lo <= b.hi,
           \A i \in 1 .. Len(k) : k[i] = i
    PROVE  /\ k \o SeqsOf(b) \in Seq(Nat)
           /\ Len(k \o SeqsOf(b)) = b.hi
           /\ \A i \in 1 .. b.hi : (k \o SeqsOf(b))[i] = i
<1>1. b.lo \in Nat /\ b.hi \in Nat /\ Len(k) \in Nat
  BY LenProperties DEF Batch
<1> DEFINE n == b.hi + 1 - b.lo
<1>2. n \in Nat
  BY <1>1
<1>3. SeqsOf(b) \in [1 .. n -> Nat]
  BY <1>1 DEF SeqsOf
<1>4. SeqsOf(b) \in Seq(Nat) /\ Len(SeqsOf(b)) = n
  <2>1. SeqsOf(b) \in Seq(Nat)
    BY <1>2, <1>3, SeqDef
  <2>2. DOMAIN SeqsOf(b) = 1 .. n /\ DOMAIN SeqsOf(b) = 1 .. Len(SeqsOf(b))
    BY <1>3, <2>1, LenProperties
  <2> QED BY <1>2, <2>1, <2>2, LenProperties
<1>5. /\ k \o SeqsOf(b) \in Seq(Nat)
      /\ Len(k \o SeqsOf(b)) = Len(k) + n
      /\ \A i \in 1 .. Len(k) + n :
            (k \o SeqsOf(b))[i] = IF i <= Len(k) THEN k[i] ELSE SeqsOf(b)[i - Len(k)]
  <2>1. /\ k \o SeqsOf(b) \in Seq(Nat)
        /\ Len(k \o SeqsOf(b)) = Len(k) + Len(SeqsOf(b))
        /\ \A i \in 1 .. Len(k) + Len(SeqsOf(b)) :
              (k \o SeqsOf(b))[i] = IF i <= Len(k) THEN k[i] ELSE SeqsOf(b)[i - Len(k)]
    BY <1>4, ConcatProperties
  <2> HIDE DEF n
  <2> QED BY <1>4, <2>1
<1>6. \A i \in 1 .. n : SeqsOf(b)[i] = b.lo + i - 1
  BY DEF SeqsOf
<1>7. Len(k) + n = b.hi
  BY <1>1
<1> QED BY <1>1, <1>2, <1>5, <1>6, <1>7, SMTT(30)
-----------------------------------------------------------------------------
(***************************************************************************)
(* What emit and the daemon make of the events from lo to hi.              *)
(***************************************************************************)
LEMMA LatestNone == \A a : Latest({}, a) = a
BY DEF Latest

LEMMA LatestIs ==
    ASSUME NEW S, S \subseteq Int, NEW a \in Int, NEW h \in S, a <= h, \A y \in S : y <= h
    PROVE  Latest(S, a) = h
<1>1. \A x \in S \cup {a} : (\A y \in S \cup {a} : y <= x) => x = h
  OBVIOUS
<1>2. h \in S \cup {a} /\ \A y \in S \cup {a} : y <= h
  OBVIOUS
<1> QED BY <1>1, <1>2 DEF Latest

LEMMA EmitsRange ==
    ASSUME NEW lo \in Nat, NEW hi \in Nat, Emits(lo .. hi),
           cursor \in Nat, saved \in Nat, room.lastSeq \in Nat
    PROVE  LET fresh == lo <= hi /\ cursor < hi
               new   == fresh /\ room.lastSeq < hi
           IN /\ cursor' = IF fresh THEN hi ELSE cursor
              /\ new => /\ room'.lastSeq = hi
                        /\ room'.applied = room.applied \cup
                              {e \in lo .. hi : cursor < e /\ room.lastSeq < e}
              /\ ~new => room' = room
              /\ saved' = IF new /\ saved < hi THEN hi ELSE saved
<1> DEFINE F == {e \in lo .. hi : e > cursor}
           N == {e \in F : e > room.lastSeq}
<1>1. /\ cursor' = Latest(F, cursor)
      /\ room' = IF N = {} THEN room
                 ELSE [lastSeq |-> Latest(N, 0), applied |-> room.applied \cup N]
      /\ saved' = Latest(N, saved)
  BY DEF Emits, Unseen
<1>2. CASE lo <= hi /\ cursor < hi
  <2>1. hi \in F /\ F \subseteq Int /\ \A y \in F : y <= hi
    BY <1>2
  <2>2. cursor' = hi
    <3> HIDE DEF F
    <3>1. cursor \in Int /\ cursor <= hi
      BY <1>2
    <3> QED BY <1>1, <2>1, <3>1, LatestIs
  <2>3. CASE room.lastSeq < hi
    <3>1. hi \in N /\ N \subseteq Int /\ \A y \in N : y <= hi
      BY <2>1, <2>3
    <3>2. Latest(N, 0) = hi
      <4>1. 0 \in Int /\ 0 <= hi
        OBVIOUS
      <4> HIDE DEF N
      <4> QED BY <3>1, <4>1, LatestIs
    <3>3. saved' = IF saved < hi THEN hi ELSE saved
      <4>1. CASE saved <= hi
        <5> HIDE DEF N
        <5>1. Latest(N, saved) = hi
          <6>1. saved \in Int /\ hi \in Int
            OBVIOUS
          <6> QED BY <3>1, <4>1, <6>1, LatestIs
        <5> QED BY <1>1, <4>1, <5>1
      <4>2. CASE hi < saved
        <5>1. \A x \in N \cup {saved} : (\A y \in N \cup {saved} : y <= x) <=> x = saved
          <6>1. \A y \in N : y \in Int /\ y < saved
            BY <3>1, <4>2
          <6> HIDE DEF N
          <6> QED BY <6>1
        <5>2. Latest(N, saved) = saved
          BY <5>1 DEF Latest
        <5> QED BY <1>1, <4>2, <5>2
      <4> QED BY <4>1, <4>2
    <3>4. N = {e \in lo .. hi : cursor < e /\ room.lastSeq < e}
      OBVIOUS
    <3> QED BY <1>1, <1>2, <2>2, <2>3, <3>1, <3>2, <3>3, <3>4
  <2>4. CASE hi <= room.lastSeq
    <3>1. N = {}
      BY <2>1, <2>4
    <3>2. room' = room /\ saved' = saved
      BY <1>1, <3>1, LatestNone
    <3> QED BY <1>2, <2>2, <2>4, <3>2
  <2> QED BY <2>3, <2>4
<1>3. CASE ~(lo <= hi /\ cursor < hi)
  <2>1. F = {} /\ N = {}
    BY <1>3
  <2> QED BY <1>1, <1>3, <2>1, LatestNone
<1> QED BY <1>2, <1>3
-----------------------------------------------------------------------------
(***************************************************************************)
(* Types.                                                                  *)
(***************************************************************************)
Entries == {"start", "end", "other"}
ConnType(n) == [proc : 0 .. n, alive : BOOLEAN, up : Seq(UpMessage),
                down : Seq(DownMessage), peerOpen : BOOLEAN, authOpen : BOOLEAN]

LEMMA LogsFacts ==
    ASSUME TypesOK, NEW e \in Entries, Logs(e)
    PROVE  /\ log' \in Seq(Entries) /\ Len(log) \in Nat /\ Len(log') = Len(log) + 1
           /\ \A i \in 1 .. Len(log) : log'[i] = log[i]
           /\ log'[Len(log) + 1] = e
           /\ publishing' = Append(publishing, [lo |-> Len(log) + 1, hi |-> Len(log) + 1])
           /\ publishing' \in Seq(Batch)
<1>1. log \in Seq(Entries) /\ Len(log) \in Nat /\ publishing \in Seq(Batch)
  BY LenProperties DEF TypesOK, Entries
<1>2. [lo |-> Len(log) + 1, hi |-> Len(log) + 1] \in Batch
  BY <1>1 DEF Batch
<1> QED BY <1>1, <1>2, AppendProperties DEF Logs

\* What differs between two states of a connection is its frames, up or down.
SameButDown(d, e) ==
    /\ d.proc = e.proc /\ d.alive = e.alive /\ d.up = e.up
    /\ d.peerOpen = e.peerOpen /\ d.authOpen = e.authOpen

SameButUp(d, e) ==
    /\ d.proc = e.proc /\ d.alive = e.alive /\ d.down = e.down
    /\ d.peerOpen = e.peerOpen /\ d.authOpen = e.authOpen

LEMMA SentDown ==
    ASSUME NEW n \in Nat, NEW d \in ConnType(n), NEW msgs, d.down \o msgs \in Seq(DownMessage)
    PROVE  /\ Sent(d, msgs) \in ConnType(n)
           /\ SameButDown(Sent(d, msgs), d)
           /\ Sent(d, msgs).down = IF d.alive THEN d.down \o msgs ELSE d.down
<1>1. [d EXCEPT !.down = d.down \o msgs] \in ConnType(n)
  BY DEF ConnType
<1>2. /\ SameButDown([d EXCEPT !.down = d.down \o msgs], d)
      /\ [d EXCEPT !.down = d.down \o msgs].down = d.down \o msgs
  BY DEF ConnType, SameButDown
<1> QED BY <1>1, <1>2 DEF Sent, SameButDown

LEMMA SentOne ==
    ASSUME NEW n \in Nat, NEW d \in ConnType(n), NEW e \in DownMessage
    PROVE  /\ Sent(d, <<e>>) \in ConnType(n)
           /\ SameButDown(Sent(d, <<e>>), d)
           /\ Sent(d, <<e>>).down = IF d.alive THEN Append(d.down, e) ELSE d.down
<1>1. d.down \in Seq(DownMessage)
  BY DEF ConnType
<1>2. d.down \o <<e>> = Append(d.down, e) /\ Append(d.down, e) \in Seq(DownMessage)
  BY <1>1, AppendIsConcat, AppendProperties
<1> QED BY <1>2, SentDown

LEMMA SentTwo ==
    ASSUME NEW n \in Nat, NEW d \in ConnType(n), NEW e \in DownMessage, NEW f \in DownMessage
    PROVE  /\ Sent(d, <<e, f>>) \in ConnType(n)
           /\ SameButDown(Sent(d, <<e, f>>), d)
           /\ Sent(d, <<e, f>>).down = IF d.alive THEN Append(Append(d.down, e), f) ELSE d.down
<1>1. d.down \in Seq(DownMessage)
  BY DEF ConnType
<1>2. /\ Append(d.down, e) \in Seq(DownMessage)
      /\ Append(Append(d.down, e), f) \in Seq(DownMessage)
  BY <1>1, AppendProperties
<1>3. d.down \o <<e, f>> = Append(Append(d.down, e), f)
  <2>1. /\ <<e, f>> \in Seq(DownMessage) /\ Len(<<e, f>>) = 2
        /\ <<e, f>>[1] = e /\ <<e, f>>[2] = f
    OBVIOUS
  <2> DEFINE s == d.down \o <<e, f>>
             t == Append(Append(d.down, e), f)
  <2>2. /\ s \in Seq(DownMessage) /\ Len(s) = Len(d.down) + 2 /\ Len(d.down) \in Nat
        /\ \A i \in 1 .. Len(d.down) + 2 :
              s[i] = IF i <= Len(d.down) THEN d.down[i] ELSE <<e, f>>[i - Len(d.down)]
    BY <1>1, <2>1, ConcatProperties, LenProperties
  <2>3. /\ t \in Seq(DownMessage) /\ Len(t) = Len(d.down) + 2
        /\ \A i \in 1 .. Len(d.down) : t[i] = d.down[i]
        /\ t[Len(d.down) + 1] = e /\ t[Len(d.down) + 2] = f
    BY <1>1, <1>2, <2>2, AppendProperties
  <2>4. \A i \in 1 .. Len(s) : s[i] = t[i]
    BY <2>1, <2>2, <2>3
  <2> QED BY <2>2, <2>3, <2>4, SeqEqual
<1> QED BY <1>2, <1>3, SentDown

\* The answer to HELLO: a WELCOME, and behind it the events that lack.
Answered(d, e) ==
    \/ e = Append(d, Welcome)
    \/ \E m \in DownMessage :
          /\ m.type = "EVENTS" /\ 1 <= m.lo /\ m.lo <= m.hi /\ m.hi = Len(log)
          /\ e = Append(Append(d, Welcome), m)

LEMMA AnswerSent ==
    ASSUME NEW n \in Nat, NEW d \in ConnType(n), NEW lastSeq \in Nat, Len(log) \in Nat,
           Len(core) \in Nat
    PROVE  /\ Sent(d, Answer(lastSeq)) \in ConnType(n)
           /\ SameButDown(Sent(d, Answer(lastSeq)), d)
           /\ IF d.alive THEN Answered(d.down, Sent(d, Answer(lastSeq)).down)
              ELSE Sent(d, Answer(lastSeq)).down = d.down
<1>1. Welcome \in DownMessage
  BY DEF Welcome, DownMessage
<1> DEFINE from == IF lastSeq > Len(log) THEN 0 ELSE lastSeq
           e == Events([lo |-> from + 1, hi |-> Len(log)])
<1>2. from \in 0 .. Len(log)
  OBVIOUS
<1>3. e = [type |-> "EVENTS", lo |-> from + 1, hi |-> Len(log)]
  BY DEF Events
<1>4. e \in DownMessage /\ e.type = "EVENTS" /\ e.hi = Len(log) /\ e.lo = from + 1
  BY <1>2, <1>3 DEF DownMessage
<1>5. Answer(lastSeq) = IF from = Len(log) THEN <<Welcome>> ELSE <<Welcome, e>>
  BY DEF Answer
<1> HIDE DEF e, from
<1>6. CASE from = Len(log)
  <2>1. Answer(lastSeq) = <<Welcome>>
    BY <1>5, <1>6
  <2>2. /\ Sent(d, <<Welcome>>) \in ConnType(n)
        /\ SameButDown(Sent(d, <<Welcome>>), d)
        /\ Sent(d, <<Welcome>>).down = IF d.alive THEN Append(d.down, Welcome) ELSE d.down
    BY <1>1, SentOne
  <2> QED BY <2>1, <2>2 DEF Answered
<1>7. CASE from # Len(log)
  <2>1. /\ Sent(d, <<Welcome, e>>) \in ConnType(n)
        /\ SameButDown(Sent(d, <<Welcome, e>>), d)
        /\ Sent(d, <<Welcome, e>>).down
              = IF d.alive THEN Append(Append(d.down, Welcome), e) ELSE d.down
    BY <1>1, <1>4, SentTwo
  <2>2. Answer(lastSeq) = <<Welcome, e>> /\ 1 <= e.lo /\ e.lo <= e.hi
    BY <1>2, <1>4, <1>5, <1>7
  <2> QED BY <1>4, <2>1, <2>2 DEF Answered
<1> QED BY <1>6, <1>7

LEMMA SubmittedTyped ==
    ASSUME NEW n \in Nat, NEW d \in ConnType(n)
    PROVE  /\ Submitted(d, Announce) \in ConnType(n)
           /\ SameButUp(Submitted(d, Announce), d)
           /\ Submitted(d, Announce).up = IF d.alive THEN Append(d.up, Announce) ELSE d.up
<1>1. Announce \in UpMessage
  BY DEF Announce, UpMessage
<1>2. Append(d.up, Announce) \in Seq(UpMessage)
  BY <1>1, AppendProperties DEF ConnType
<1>3. [d EXCEPT !.up = Append(d.up, Announce)] \in ConnType(n)
  BY <1>2 DEF ConnType
<1>4. /\ SameButUp([d EXCEPT !.up = Append(d.up, Announce)], d)
      /\ [d EXCEPT !.up = Append(d.up, Announce)].up = Append(d.up, Announce)
  BY DEF ConnType, SameButUp
<1> QED BY <1>3, <1>4 DEF Submitted, SameButUp

LEMMA EmptyType ==
    ASSUME NEW n \in Nat
    PROVE  /\ <<>> \in Seq(DownMessage) /\ <<>> \in Seq(UpMessage) /\ <<>> \in Seq(Batch)
           /\ Unused \in ConnType(n)
           /\ \A d \in ConnType(n) : /\ Broken(d) \in ConnType(n)
                                     /\ [d EXCEPT !.down = <<>>] \in ConnType(n)
                                     /\ [d EXCEPT !.up = <<>>] \in ConnType(n)
<1>1. <<>> \in Seq(DownMessage) /\ <<>> \in Seq(UpMessage) /\ <<>> \in Seq(Batch)
  BY EmptySeq
<1>2. Unused \in ConnType(n)
  BY <1>1 DEF Unused, ConnType
<1>3. ASSUME NEW d \in ConnType(n)
      PROVE  /\ Broken(d) \in ConnType(n)
             /\ [d EXCEPT !.down = <<>>] \in ConnType(n)
             /\ [d EXCEPT !.up = <<>>] \in ConnType(n)
  BY <1>1 DEF Broken, ConnType
<1> QED BY <1>1, <1>2, <1>3

LEMMA ConnTyped ==
    TypesOK => /\ proc \in Nat /\ conn \in [Conns -> ConnType(proc)]
               /\ \A c \in Conns : /\ conn[c] \in ConnType(proc)
                                   /\ conn[c].up \in Seq(UpMessage)
                                   /\ conn[c].down \in Seq(DownMessage)
                                   /\ Len(conn[c].up) \in Nat
                                   /\ Len(conn[c].down) \in Nat
                                   /\ \A i \in 1 .. Len(conn[c].down) : conn[c].down[i] \in DownMessage
               /\ Len(log) \in Nat /\ Len(core) \in Nat
<1> SUFFICES ASSUME TypesOK
             PROVE  /\ proc \in Nat /\ conn \in [Conns -> ConnType(proc)]
                    /\ \A c \in Conns : /\ conn[c] \in ConnType(proc)
                                        /\ conn[c].up \in Seq(UpMessage)
                                        /\ conn[c].down \in Seq(DownMessage)
                                        /\ Len(conn[c].up) \in Nat
                                        /\ Len(conn[c].down) \in Nat
                                        /\ \A i \in 1 .. Len(conn[c].down) :
                                              conn[c].down[i] \in DownMessage
                    /\ Len(log) \in Nat /\ Len(core) \in Nat
  OBVIOUS
<1>1. proc \in Nat /\ conn \in [Conns -> ConnType(proc)]
  BY DEF TypesOK, ConnType
<1>2. \A c \in Conns : conn[c] \in ConnType(proc)
  BY <1>1
<1>3. \A c \in Conns : conn[c].up \in Seq(UpMessage) /\ conn[c].down \in Seq(DownMessage)
  BY <1>2 DEF ConnType
<1>4. Len(log) \in Nat /\ Len(core) \in Nat
  BY LenProperties DEF TypesOK
<1> QED BY <1>1, <1>2, <1>3, <1>4, LenProperties, ElementOfSeq

LEMMA InitTyped == Init => TypesOK
<1> SUFFICES ASSUME Init PROVE TypesOK
  OBVIOUS
<1>1. conn \in [Conns -> ConnType(1)]
  BY EmptyType DEF Init
<1>2. /\ log \in Seq({"start", "end", "other"}) /\ Len(log) = 0
      /\ core \in Seq(Nat) /\ Len(core) = 0 /\ publishing \in Seq(Batch)
  BY EmptySeq DEF Init
<1>3. proc = 1 /\ Len(log) = 0 /\ Len(core) = 0
  BY <1>2 DEF Init
<1>4. conn \in [Conns -> [proc : 0 .. proc, alive : BOOLEAN, up : Seq(UpMessage),
                          down : Seq(DownMessage), peerOpen : BOOLEAN, authOpen : BOOLEAN]]
  BY <1>1, <1>3 DEF ConnType
<1>5. /\ {cursor, saved} \subseteq 0 .. Len(log) /\ length \in 0 .. Len(core)
      /\ replays \subseteq 0 .. Len(log) /\ room.lastSeq \in 0 .. Len(log)
      /\ room.applied \subseteq 1 .. Len(log)
  BY <1>3 DEF Init, Blank
<1>6. /\ phase \in {"starting", "up"} /\ proc \in Nat /\ channel \in Conns \cup {0}
      /\ joining \in BOOLEAN /\ welcomed \in BOOLEAN /\ faults \in Nat /\ raced \in BOOLEAN
      /\ peers \subseteq [proc : 1 .. proc, conn : Conns, hello : BOOLEAN, joined : BOOLEAN]
  BY DEF Init
<1> QED BY <1>2, <1>4, <1>5, <1>6 DEF TypesOK

\* What emit leaves, if its events are events of the log.
LEMMA LatestExists ==
    ASSUME NEW n \in Nat, NEW S, S \subseteq 1 .. n, NEW a \in 0 .. n
    PROVE  /\ Latest(S, a) \in S \cup {a}
           /\ \A y \in S \cup {a} : y <= Latest(S, a)
<1> DEFINE U == S \cup {a}
           T == {n - x : x \in U}
<1>1. U \subseteq 0 .. n
  OBVIOUS
<1>2. T \subseteq Nat /\ T # {}
  BY <1>1
<1>3. PICK m \in T : \A y \in T : ~(<<y, m>> \in OpToRel(<, Nat))
  <2> HIDE DEF T
  <2>1. \E x \in T : \A y \in T : ~(<<y, x>> \in OpToRel(<, Nat))
    BY <1>2, NatLessThanWellFounded, WFMin, Zenon
  <2> QED BY <2>1
<1>4. \A y \in T : ~(y < m)
  BY <1>2, <1>3 DEF OpToRel
<1>5. PICK h \in U : m = n - h
  OBVIOUS
<1>6. \A y \in U : n - y \in T /\ ~(n - y < n - h)
  BY <1>4, <1>5
<1> HIDE DEF T, U
<1>7. \A y \in U : y <= h
  <2>1. ASSUME NEW y \in U PROVE y <= h
    <3>1. y \in 0 .. n /\ h \in 0 .. n /\ ~(n - y < n - h)
      BY <1>1, <1>5, <1>6
    <3> QED BY <3>1
  <2> QED BY <2>1
<1>8. h \in U /\ \A y \in U : y <= h
  BY <1>5, <1>7
<1> QED BY <1>8 DEF Latest, U

LEMMA EmitsTyped ==
    ASSUME TypesOK, NEW S, S \subseteq 1 .. Len(log), Emits(S)
    PROVE  /\ {cursor', saved'} \subseteq 0 .. Len(log)
           /\ room'.lastSeq \in 0 .. Len(log)
           /\ room'.applied \subseteq 1 .. Len(log)
           /\ room.lastSeq <= room'.lastSeq
           /\ room'.lastSeq \in {room.lastSeq} \cup S
<1>1. /\ cursor \in 0 .. Len(log) /\ saved \in 0 .. Len(log) /\ room.lastSeq \in 0 .. Len(log)
      /\ room.applied \subseteq 1 .. Len(log) /\ Len(log) \in Nat
  BY ConnTyped DEF TypesOK
<1> DEFINE F == {e \in S : e > cursor}
           N == {e \in F : e > room.lastSeq}
<1>2. /\ cursor' = Latest(F, cursor)
      /\ room' = IF N = {} THEN room
                 ELSE [lastSeq |-> Latest(N, 0), applied |-> room.applied \cup N]
      /\ saved' = Latest(N, saved)
  BY DEF Emits, Unseen
<1>3. F \subseteq 1 .. Len(log) /\ N \subseteq 1 .. Len(log) /\ N \subseteq S
  OBVIOUS
<1>4. \A e \in N : room.lastSeq <= e
  BY <1>1, <1>3
<1> HIDE DEF F, N
<1>5. Latest(F, cursor) \in F \cup {cursor} /\ Latest(N, saved) \in N \cup {saved}
  BY <1>1, <1>3, LatestExists
<1>a. {cursor', saved'} \subseteq 0 .. Len(log)
  <2>1. F \cup {cursor} \subseteq 0 .. Len(log) /\ N \cup {saved} \subseteq 0 .. Len(log)
    <3>1. 1 .. Len(log) \subseteq 0 .. Len(log)
      BY <1>1
    <3> QED BY <1>1, <1>3, <3>1, Zenon
  <2> QED BY <1>2, <1>5, <2>1, Zenon
<1>6. {cursor', saved'} \subseteq 0 .. Len(log) /\ 0 \in 0 .. Len(log)
  BY <1>1, <1>a
<1>7. CASE N = {}
  BY <1>1, <1>2, <1>6, <1>7
<1>8. CASE N # {}
  <2>1. Latest(N, 0) \in N \cup {0} /\ \A y \in N \cup {0} : y <= Latest(N, 0)
    BY <1>1, <1>3, <1>6, LatestExists
  <2>2. Latest(N, 0) \in N
    <3>1. PICK y \in N : TRUE
      BY <1>8
    <3>2. y \in 1 .. Len(log) /\ y <= Latest(N, 0)
      BY <1>3, <2>1
    <3>3. Latest(N, 0) # 0
      BY <3>2
    <3> QED BY <2>1, <3>3
  <2>3. room'.lastSeq = Latest(N, 0) /\ room'.applied = room.applied \cup N
    BY <1>2, <1>8
  <2>4. /\ room'.lastSeq \in N /\ room'.lastSeq \in S /\ room'.lastSeq \in 1 .. Len(log)
        /\ room.lastSeq <= room'.lastSeq
    BY <1>3, <1>4, <2>2, <2>3
  <2>5. room'.applied \subseteq 1 .. Len(log)
    BY <1>1, <1>3, <2>3
  <2> QED BY <1>1, <1>6, <2>4, <2>5
<1> QED BY <1>7, <1>8

\* The blocks that a replay reads, where the history is the log.
LEMMA BlocksRead ==
    ASSUME InStep, core \in Seq(Nat), NEW from \in Nat, NEW len \in 0 .. Len(core)
    PROVE  {core[i] : i \in from + 1 .. len} = from + 1 .. len
<1>1. \A i \in from + 1 .. len : core[i] = i
  BY LenProperties DEF InStep
<1> QED BY <1>1

\* What the blocks of a batch are, in step or not.
LEMMA BlocksAppended ==
    ASSUME NEW k \in Seq(Nat), NEW b \in Batch, b.lo <= b.hi
    PROVE  /\ k \o SeqsOf(b) \in Seq(Nat)
           /\ Len(k) \in Nat /\ Len(k \o SeqsOf(b)) \in Nat
           /\ Len(k) <= Len(k \o SeqsOf(b))
           /\ \A i \in 1 .. Len(k) : (k \o SeqsOf(b))[i] = k[i]
           /\ \A i \in Len(k) + 1 .. Len(k \o SeqsOf(b)) :
                 (k \o SeqsOf(b))[i] \in b.lo .. b.hi
<1>1. b.lo \in Nat /\ b.hi \in Nat /\ Len(k) \in Nat
  BY LenProperties DEF Batch
<1> DEFINE n == b.hi + 1 - b.lo
           t == SeqsOf(b)
           j == k \o t
<1>2. n \in Nat /\ n > 0
  BY <1>1
<1>3. t \in [1 .. n -> b.lo .. b.hi] /\ b.lo .. b.hi \subseteq Nat
  BY <1>1 DEF SeqsOf
<1>4. t \in Seq(Nat) /\ Len(t) = n
  <2>1. t \in Seq(Nat)
    BY <1>2, <1>3, SeqDef
  <2>2. DOMAIN t = 1 .. n /\ DOMAIN t = 1 .. Len(t)
    BY <1>3, <2>1, LenProperties
  <2> QED BY <1>2, <2>1, <2>2, LenProperties
<1>5. \A i \in 1 .. n : t[i] \in b.lo .. b.hi
  BY <1>3
<1> HIDE DEF t, n
<1>6. /\ j \in Seq(Nat) /\ Len(j) = Len(k) + n
      /\ \A i \in 1 .. Len(k) + n : j[i] = IF i <= Len(k) THEN k[i] ELSE t[i - Len(k)]
  BY <1>4, ConcatProperties
<1> HIDE DEF j
<1>7. \A i \in Len(k) + 1 .. Len(j) : i - Len(k) \in 1 .. n /\ j[i] = t[i - Len(k)]
  BY <1>1, <1>2, <1>6
<1>8. /\ \A i \in 1 .. Len(k) : j[i] = k[i]
      /\ Len(j) \in Nat /\ Len(k) <= Len(j)
  BY <1>1, <1>2, <1>6
<1>9. \A i \in Len(k) + 1 .. Len(j) : j[i] \in b.lo .. b.hi
  <2>1. ASSUME NEW i \in Len(k) + 1 .. Len(j) PROVE j[i] \in b.lo .. b.hi
    <3>1. i - Len(k) \in 1 .. n /\ j[i] = t[i - Len(k)]
      BY <1>7
    <3> QED BY <1>5, <3>1
  <2> QED BY <2>1
<1> QED BY <1>1, <1>6, <1>8, <1>9 DEF j, t

\* Once an event has overtaken start(), that is so.
LEMMA RacedStays ==
    ASSUME TypesOK, [Next]_vars
    PROVE  raced' \in BOOLEAN /\ (raced => raced')
<1>0. raced \in BOOLEAN
  BY DEF TypesOK
<1>1. ASSUME NEW e, Logs(e)
      PROVE  raced' \in BOOLEAN /\ (raced => raced')
  BY <1>0, <1>1, Zenon DEF Logs
<1>2. ASSUME UNCHANGED raced
      PROVE  raced' \in BOOLEAN /\ (raced => raced')
  BY <1>0, <1>2
<1>3. CASE Starts
  BY <1>0, <1>3, Zenon DEF Starts
<1>4. ASSUME NEW c \in Conns, AuthorityReceives(c)
      PROVE  UNCHANGED raced \/ Logs("start")
  BY <1>4 DEF AuthorityReceives
<1>5. ASSUME NEW c \in Conns, AuthorityCloses(c)
      PROVE  UNCHANGED raced \/ Logs("end")
  BY <1>5 DEF AuthorityCloses
<1>6. CASE AuthorityStep
  <2>1. OthersSubmit => Logs("other")
    BY DEF OthersSubmit
  <2>2. Publish \/ AuthorityCrashes \/ (\E c \in Conns : AuthorityAttaches(c)) => UNCHANGED raced
    BY DEF Publish, AuthorityCrashes, AuthorityAttaches
  <2> QED BY <1>1, <1>2, <1>3, <1>4, <1>5, <1>6, <2>1, <2>2 DEF AuthorityStep
<1>7. CASE PeerStep \/ (\E c \in Conns : Breaks(c)) \/ UNCHANGED vars
  <2>1. UNCHANGED raced
    BY <1>7 DEF PeerStep, PeerReceives, Grows, Joins, ReplayEnds, Connects, PeerCloses,
                PeerRestarts, Breaks, authVars, vars
  <2> QED BY <1>2, <2>1
<1> QED BY <1>6, <1>7 DEF Next

LEMMA HeadFacts ==
    ASSUME publishing \in Seq(Batch), publishing # <<>>
    PROVE  /\ Head(publishing) = publishing[1] /\ 1 \in 1 .. Len(publishing)
           /\ Head(publishing) \in Batch
BY HeadTailProperties, EmptySeq, LenProperties

LEMMA LogsTyped ==
    ASSUME TypesOK, NEW e \in Entries, Logs(e),
           UNCHANGED <<core, cursor, saved, length, replays, room>>
    PROVE  /\ log' \in Seq({"start", "end", "other"})
           /\ publishing' \in Seq(Batch)
           /\ {cursor', saved'} \subseteq 0 .. Len(log')
           /\ length' \in 0 .. Len(core')
           /\ replays' \subseteq 0 .. Len(log')
           /\ room'.lastSeq \in 0 .. Len(log')
           /\ room'.applied \subseteq 1 .. Len(log')
<1>1. /\ {cursor, saved} \subseteq 0 .. Len(log) /\ replays \subseteq 0 .. Len(log)
      /\ room.lastSeq \in 0 .. Len(log) /\ room.applied \subseteq 1 .. Len(log)
      /\ length \in 0 .. Len(core)
  BY DEF TypesOK
<1>2. /\ log' \in Seq(Entries) /\ Len(log) \in Nat /\ Len(log') = Len(log) + 1
      /\ publishing' \in Seq(Batch)
  BY LogsFacts
<1> HIDE DEF TypesOK
<1> QED BY <1>1, <1>2 DEF Entries

LEMMA AuthorityTyped ==
    ASSUME IInv, AuthorityStep, raced' \in BOOLEAN
    PROVE  TypesOK'
<1> USE DEF IInv, authVars, daemonVars, replayVars
<1>1. CASE OthersSubmit
  <2>1. Logs("other") /\ "other" \in Entries
    BY <1>1 DEF OthersSubmit, Entries
  <2>2. UNCHANGED <<core, cursor, saved, length, replays, room>>
    BY <1>1 DEF OthersSubmit
  <2> QED BY <1>1, <2>1, <2>2, LogsTyped DEF OthersSubmit, TypesOK
<1>2. CASE Publish
  <2>1. /\ Head(publishing) \in Batch /\ Tail(publishing) \in Seq(Batch)
        /\ publishing \in Seq(Batch) /\ core \in Seq(Nat)
        /\ Len(core) \in Nat /\ Len(log) \in Nat
    BY <1>2, HeadTailProperties, ConnTyped DEF Publish, TypesOK
  <2>2. Head(publishing).lo <= Head(publishing).hi
    BY <1>2, HeadFacts DEF Publish, BoundInv, TypesOK
  <2>4. core' \in Seq(Nat) /\ Len(core') \in Nat /\ Len(core) <= Len(core')
    BY <1>2, <2>1, <2>2, BlocksAppended DEF Publish
  <2>5. length \in 0 .. Len(core')
    BY <2>1, <2>4 DEF TypesOK
  <2>6. Events(Head(publishing)) \in DownMessage
    BY <2>1 DEF Events, Batch, DownMessage
  <2>7. conn' \in [Conns -> ConnType(proc)]
    BY <1>2, <2>6, SentOne, ConnTyped DEF Publish
  <2> QED BY <1>2, <2>1, <2>4, <2>5, <2>7 DEF Publish, TypesOK, ConnType
<1>3. CASE Starts
  <2>1. publishing' \in Seq(Batch)
    <3>1. Missing \in Batch
      BY ConnTyped DEF Missing, Batch
    <3> QED BY <1>3, <3>1, AppendProperties DEF Starts, TypesOK
  <2> QED BY <1>3, <2>1 DEF Starts, TypesOK
<1>4. CASE AuthorityCrashes
  <2>1. conn' \in [Conns -> ConnType(proc)]
    <3>1. ASSUME NEW d \in ConnType(proc)
          PROVE  [Broken(d) EXCEPT !.up = <<>>, !.authOpen = FALSE] \in ConnType(proc)
      BY EmptyType DEF Broken, ConnType
    <3> QED BY <1>4, <3>1, ConnTyped DEF AuthorityCrashes
  <2>2. publishing' \in Seq(Batch)
    BY <1>4, EmptyType DEF AuthorityCrashes, TypesOK
  <2>3. faults' \in Nat /\ phase' \in {"starting", "up"} /\ peers' = {}
    <3>1. faults \in Nat
      BY DEF TypesOK
    <3>2. faults' = faults + 1 /\ phase' = "starting" /\ peers' = {}
      BY <1>4 DEF AuthorityCrashes, Fault
    <3> QED BY <3>1, <3>2
  <2> QED BY <1>4, <2>1, <2>2, <2>3 DEF AuthorityCrashes, TypesOK, ConnType
<1>5. ASSUME NEW c \in Conns, AuthorityAttaches(c)
      PROVE  TypesOK'
  <2>1. conn' \in [Conns -> ConnType(proc)]
    <3>1. ASSUME NEW d \in ConnType(proc)
          PROVE  /\ [d EXCEPT !.authOpen = TRUE] \in ConnType(proc)
                 /\ [d EXCEPT !.up = <<>>] \in ConnType(proc)
      BY EmptyType DEF ConnType
    <3> QED BY <1>5, <3>1, ConnTyped DEF AuthorityAttaches
  <2>2. [proc |-> conn[c].proc, conn |-> c, hello |-> FALSE, joined |-> FALSE]
           \in [proc : 1 .. proc, conn : Conns, hello : BOOLEAN, joined : BOOLEAN]
    BY <1>5, ConnTyped DEF AuthorityAttaches, ConnInv
  <2> QED BY <1>5, <2>1, <2>2 DEF AuthorityAttaches, Registered, TypesOK, ConnType
<1>6. ASSUME NEW c \in Conns, AuthorityReceives(c)
      PROVE  TypesOK'
  <2>1. /\ conn[c].up \in Seq(UpMessage) /\ conn[c].up # <<>>
        /\ Tail(conn[c].up) \in Seq(UpMessage) /\ Head(conn[c].up) \in UpMessage
    BY <1>6, ConnTyped, HeadTailProperties DEF AuthorityReceives
  <2>2. ASSUME NEW d \in ConnType(proc)
        PROVE  [d EXCEPT !.up = Tail(conn[c].up)] \in ConnType(proc)
    BY <2>1 DEF ConnType
  <2>3. [conn EXCEPT ![c].up = Tail(@)] \in [Conns -> ConnType(proc)]
    BY <2>2, ConnTyped
  <2>4. CASE /\ \A q \in peers : q.proc # conn[c].proc
             /\ conn' = [conn EXCEPT ![c].up = Tail(@)]
             /\ UNCHANGED <<log, publishing, peers>>
    BY <1>6, <2>3, <2>4 DEF AuthorityReceives, TypesOK, ConnType
  <2>5. ASSUME NEW q \in peers,
               peers' = (peers \ {q}) \cup {[q EXCEPT !.hello = TRUE]},
               conn' = [[conn EXCEPT ![c].up = Tail(@)]
                           EXCEPT ![q.conn] = Sent(@, Answer(Head(conn[c].up).lastSeq))],
               UNCHANGED <<log, publishing>>
        PROVE  TypesOK'
    <3>1. q.conn \in Conns /\ [q EXCEPT !.hello = TRUE]
             \in [proc : 1 .. proc, conn : Conns, hello : BOOLEAN, joined : BOOLEAN]
      BY DEF TypesOK
    <3>2. conn' \in [Conns -> ConnType(proc)]
      <4>1. ASSUME NEW d \in ConnType(proc)
            PROVE  Sent(d, Answer(Head(conn[c].up).lastSeq)) \in ConnType(proc)
        BY <2>1, AnswerSent, ConnTyped DEF UpMessage
      <4> QED BY <2>3, <2>5, <3>1, <4>1
    <3> QED BY <1>6, <2>5, <3>1, <3>2 DEF AuthorityReceives, TypesOK, ConnType
  <2>6. ASSUME NEW q \in peers,
               Logs("start"),
               peers' = (peers \ {q}) \cup {[q EXCEPT !.joined = TRUE]},
               conn' = [conn EXCEPT ![c].up = Tail(@)]
        PROVE  TypesOK'
    <3>1. [q EXCEPT !.joined = TRUE]
             \in [proc : 1 .. proc, conn : Conns, hello : BOOLEAN, joined : BOOLEAN]
      BY DEF TypesOK
    <3>2. "start" \in Entries /\ UNCHANGED <<core, cursor, saved, length, replays, room>>
      BY <1>6 DEF AuthorityReceives, Entries
    <3> QED BY <1>6, <2>3, <2>6, <3>1, <3>2, LogsTyped DEF AuthorityReceives, TypesOK, ConnType
  <2> QED BY <1>6, <2>4, <2>5, <2>6 DEF AuthorityReceives
<1>7. ASSUME NEW c \in Conns, AuthorityCloses(c)
      PROVE  TypesOK'
  <2>1. conn' \in [Conns -> ConnType(proc)]
    <3>1. ASSUME NEW d \in ConnType(proc)
          PROVE  [d EXCEPT !.authOpen = FALSE, !.up = <<>>] \in ConnType(proc)
      BY EmptyType DEF ConnType
    <3> QED BY <1>7, <3>1, ConnTyped DEF AuthorityCloses
  <2>2. CASE Logs("end")
    <3>1. "end" \in Entries /\ UNCHANGED <<core, cursor, saved, length, replays, room>>
      BY <1>7 DEF AuthorityCloses, Entries
    <3> QED BY <1>7, <2>1, <2>2, <3>1, LogsTyped DEF AuthorityCloses, TypesOK, ConnType
  <2>3. CASE UNCHANGED <<log, publishing>>
    BY <1>7, <2>1, <2>3 DEF AuthorityCloses, TypesOK, ConnType
  <2> QED BY <1>7, <2>2, <2>3 DEF AuthorityCloses
<1> QED BY <1>1, <1>2, <1>3, <1>4, <1>5, <1>6, <1>7 DEF AuthorityStep

LEMMA PeerTyped ==
    ASSUME IInv, PeerStep
    PROVE  TypesOK'
<1> USE DEF IInv, authVars, daemonVars, replayVars
<1>0. Len(log) \in Nat /\ Len(core) \in Nat
  BY ConnTyped
<1>1. ASSUME NEW c \in Conns, PeerReceives(c)
      PROVE  TypesOK'
  <2> DEFINE msg == Head(conn[c].down)
             taken == [conn EXCEPT ![c].down = Tail(@)]
  <2>1. /\ conn[c].down \in Seq(DownMessage) /\ conn[c].down # <<>>
        /\ Tail(conn[c].down) \in Seq(DownMessage)
        /\ msg \in DownMessage /\ msg = conn[c].down[1]
        /\ 1 \in 1 .. Len(conn[c].down)
    BY <1>1, ConnTyped, TailFacts DEF PeerReceives
  <2>2. msg.hi \in 0 .. Len(log) /\ msg.lo \in Nat /\ (msg.type = "EVENTS" => msg.lo >= 1)
    BY <1>0, <2>1 DEF OrderInv, InOrder, Below, DownMessage
  <2>3. taken \in [Conns -> ConnType(proc)]
    <3>1. [conn[c] EXCEPT !.down = Tail(conn[c].down)] \in ConnType(proc)
      BY <2>1, ConnTyped DEF ConnType
    <3> QED BY <3>1, ConnTyped
  <2> HIDE DEF taken
  <2>4. CASE msg.type = "EVENTS" /\ Emits(msg.lo .. msg.hi) /\ conn' = taken /\ UNCHANGED welcomed
    <3>1. /\ {cursor', saved'} \subseteq 0 .. Len(log)
          /\ room'.lastSeq \in 0 .. Len(log)
          /\ room'.applied \subseteq 1 .. Len(log)
      <4>1. msg.lo .. msg.hi \subseteq 1 .. Len(log)
        BY <1>0, <2>2, <2>4
      <4> QED BY <2>4, <4>1, EmitsTyped
    <3> QED BY <1>1, <2>3, <2>4, <3>1 DEF PeerReceives, TypesOK, ConnType
  <2>5. CASE /\ msg.type = "WELCOME"
             /\ room' = Welcomed(msg.hi)
             /\ saved' = Later(msg.hi, saved)
             /\ welcomed' = (welcomed \/ c = channel)
             /\ conn' = IF channel = 0 THEN taken
                        ELSE [taken EXCEPT ![channel] = Submitted(@, Announce)]
             /\ UNCHANGED cursor
    <3>1. /\ {cursor', saved'} \subseteq 0 .. Len(log)
          /\ room'.lastSeq \in 0 .. Len(log)
          /\ room'.applied \subseteq 1 .. Len(log)
      BY <1>0, <2>2, <2>5 DEF Welcomed, Later, TypesOK
    <3>2. conn' \in [Conns -> ConnType(proc)]
      BY <2>3, <2>5, SubmittedTyped, ConnTyped DEF TypesOK
    <3>3. welcomed' \in BOOLEAN
      BY <2>5 DEF TypesOK
    <3> QED BY <1>1, <3>1, <3>2, <3>3 DEF PeerReceives, TypesOK, ConnType
  <2> QED BY <1>1, <2>4, <2>5 DEF PeerReceives, taken
<1>2. ASSUME NEW len \in Nat, Replays(len)
      PROVE  cursor' \in 0 .. Len(log) /\ replays' \subseteq 0 .. Len(log)
  BY <1>0, <1>2 DEF Replays, From, TypesOK
<1>3. CASE Grows
  <2>1. PICK c \in Conns, len \in length + 1 .. Len(core) :
           /\ length' = len
           /\ Replays(len)
           /\ UNCHANGED <<authVars, conn, proc, channel, daemonVars, joining, welcomed, faults>>
    BY <1>3 DEF Grows
  <2>2. len \in Nat /\ len \in 0 .. Len(core)
    BY <1>0 DEF TypesOK
  <2> QED BY <1>2, <2>1, <2>2 DEF TypesOK
<1>4. CASE Joins
  <2>1. cursor' \in 0 .. Len(log) /\ replays' \subseteq 0 .. Len(log)
    BY <1>0, <1>2, <1>4 DEF Joins, TypesOK
  <2> QED BY <1>4, <2>1 DEF Joins, TypesOK
<1>5. CASE ReplayEnds
  <2>1. PICK from \in replays :
           replays' = replays \ {from} /\ Emits({core[i] : i \in from + 1 .. length})
    BY <1>5 DEF ReplayEnds
  <2>2. from \in Nat /\ length \in 0 .. Len(core)
    BY <1>0 DEF TypesOK
  <2>3. {core[i] : i \in from + 1 .. length} \subseteq 1 .. Len(log)
    BY <1>0, <2>2 DEF BoundInv
  <2>4. /\ {cursor', saved'} \subseteq 0 .. Len(log)
        /\ room'.lastSeq \in 0 .. Len(log)
        /\ room'.applied \subseteq 1 .. Len(log)
    BY <2>1, <2>3, EmitsTyped
  <2> QED BY <1>5, <2>1, <2>4 DEF ReplayEnds, TypesOK
<1>6. ASSUME NEW c \in Conns, Connects(c)
      PROVE  TypesOK'
  <2>1. conn' \in [Conns -> ConnType(proc)]
    <3>1. ASSUME NEW d \in ConnType(proc)
          PROVE  [d EXCEPT !.down = <<>>] \in ConnType(proc)
      BY EmptyType, ConnTyped
    <3>2. [Unused EXCEPT !.proc = proc, !.alive = TRUE, !.peerOpen = TRUE, !.up = <<Hello>>]
             \in ConnType(proc)
      <4>1. Hello \in UpMessage
        BY DEF Hello, UpMessage, TypesOK
      <4>2. <<Hello>> \in Seq(UpMessage)
        BY <4>1
      <4>3. <<>> \in Seq(DownMessage) /\ proc \in 0 .. proc
        BY EmptyType, ConnTyped
      <4> QED BY <4>2, <4>3 DEF ConnType, Unused
    <3> QED BY <1>6, <3>1, <3>2, ConnTyped DEF Connects
  <2> QED BY <1>6, <2>1 DEF Connects, TypesOK, ConnType
<1>7. ASSUME NEW c \in Conns, PeerCloses(c)
      PROVE  TypesOK'
  <2>1. conn' \in [Conns -> ConnType(proc)]
    <3>1. ASSUME NEW d \in ConnType(proc)
          PROVE  [d EXCEPT !.peerOpen = FALSE, !.down = <<>>] \in ConnType(proc)
      BY EmptyType DEF ConnType
    <3> QED BY <1>7, <3>1, ConnTyped DEF PeerCloses
  <2> QED BY <1>7, <2>1 DEF PeerCloses, TypesOK, ConnType
<1>8. CASE PeerRestarts
  <2>1. conn' \in [Conns -> ConnType(proc')]
    <3>1. ASSUME NEW d \in ConnType(proc)
          PROVE  [Broken(d) EXCEPT !.down = <<>>, !.peerOpen = FALSE] \in ConnType(proc + 1)
      <4>1. <<>> \in Seq(DownMessage) /\ 0 .. proc \subseteq 0 .. proc + 1
        BY EmptyType, ConnTyped
      <4> QED BY <4>1 DEF Broken, ConnType
    <3>2. proc' = proc + 1 /\ conn' = [c \in Conns |->
              [Broken(conn[c]) EXCEPT !.down = <<>>, !.peerOpen = FALSE]]
      BY <1>8 DEF PeerRestarts
    <3> QED BY <3>1, <3>2, ConnTyped
  <2>0. /\ proc' = proc + 1 /\ faults' = faults + 1 /\ channel' = 0 /\ cursor' = saved
        /\ joining' = TRUE /\ replays' = {} /\ room' = Blank /\ welcomed' = FALSE
        /\ UNCHANGED <<peers, saved>>
    BY <1>8 DEF PeerRestarts, Fault
  <2>2. faults' \in Nat /\ proc' \in Nat
    BY <2>0 DEF TypesOK
  <2>3. peers' \subseteq [proc : 1 .. proc', conn : Conns, hello : BOOLEAN, joined : BOOLEAN]
    BY <2>0 DEF TypesOK
  <2>4. /\ {cursor', saved'} \subseteq 0 .. Len(log)
        /\ room'.lastSeq \in 0 .. Len(log) /\ room'.applied \subseteq 1 .. Len(log)
        /\ joining' \in BOOLEAN /\ replays' = {} /\ welcomed' \in BOOLEAN /\ channel' = 0
    <3>1. saved \in 0 .. Len(log)
      BY DEF TypesOK
    <3>2. room'.lastSeq = 0 /\ room'.applied = {}
      BY <2>0 DEF Blank
    <3>3. joining' \in BOOLEAN /\ welcomed' \in BOOLEAN
      BY <2>0
    <3>4. {cursor', saved'} \subseteq 0 .. Len(log)
      BY <2>0, <3>1
    <3>5. room'.lastSeq \in 0 .. Len(log) /\ room'.applied \subseteq 1 .. Len(log)
      BY <1>0, <3>2
    <3> QED BY <2>0, <3>3, <3>4, <3>5
  <2> QED BY <1>8, <2>1, <2>2, <2>3, <2>4 DEF PeerRestarts, TypesOK, ConnType
<1> QED BY <1>1, <1>3, <1>4, <1>5, <1>6, <1>7, <1>8 DEF PeerStep

LEMMA StepTyped ==
    ASSUME IInv, [Next]_vars
    PROVE  TypesOK'
<1>1. ASSUME NEW c \in Conns, Breaks(c)
      PROVE  TypesOK'
  <2>1. TypesOK
    BY DEF IInv
  <2>2. conn' \in [Conns -> ConnType(proc)]
    BY <1>1, <2>1, EmptyType, ConnTyped DEF Breaks
  <2>3. faults \in Nat
    BY <2>1 DEF TypesOK
  <2>4. faults' \in Nat
    BY <1>1, <2>3 DEF Breaks, Fault
  <2> QED BY <1>1, <2>1, <2>2, <2>4 DEF Breaks, TypesOK, ConnType, authVars, daemonVars, replayVars
<1>2. CASE UNCHANGED vars
  BY <1>2 DEF IInv, TypesOK, vars, authVars, daemonVars, replayVars
<1>3. raced' \in BOOLEAN
  BY RacedStays DEF IInv
<1> QED BY <1>1, <1>2, <1>3, AuthorityTyped, PeerTyped DEF Next
-----------------------------------------------------------------------------
(***************************************************************************)
(* What each step does to the connections, field by field.                 *)
(***************************************************************************)
LEMMA PublishEffect ==
    ASSUME TypesOK, Publish
    PROVE  /\ Head(publishing) \in Batch
           /\ \A b \in Conns :
                 /\ conn'[b].proc = conn[b].proc /\ conn'[b].alive = conn[b].alive
                 /\ conn'[b].authOpen = conn[b].authOpen /\ conn'[b].up = conn[b].up
                 /\ conn'[b].down =
                       IF conn[b].alive /\ \E q \in peers : q.conn = b
                       THEN Append(conn[b].down, Events(Head(publishing)))
                       ELSE conn[b].down
<1>1. Head(publishing) \in Batch
  BY HeadTailProperties DEF Publish, TypesOK
<1>2. Events(Head(publishing)) \in DownMessage
  BY <1>1 DEF Events, Batch, DownMessage
<1>3. \A b \in Conns : conn[b] \in ConnType(proc) /\ proc \in Nat
  BY ConnTyped
<1>4. \A b \in Conns : conn'[b] = IF \E q \in peers : q.conn = b
                                  THEN Sent(conn[b], <<Events(Head(publishing))>>)
                                  ELSE conn[b]
  BY DEF Publish
<1> QED BY <1>1, <1>2, <1>3, <1>4, SentOne DEF SameButDown

LEMMA AuthorityCrashesEffect ==
    ASSUME TypesOK, AuthorityCrashes
    PROVE  \A b \in Conns :
              /\ conn'[b].proc = conn[b].proc /\ ~conn'[b].alive /\ ~conn'[b].authOpen
              /\ conn'[b].up = <<>> /\ conn'[b].down = conn[b].down
BY ConnTyped DEF AuthorityCrashes, Broken, ConnType

LEMMA AuthorityAttachesEffect ==
    ASSUME TypesOK, NEW c \in Conns, AuthorityAttaches(c)
    PROVE  \A b \in Conns :
              /\ conn'[b].proc = conn[b].proc /\ conn'[b].alive = conn[b].alive
              /\ conn'[b].authOpen = (conn[b].authOpen \/ b = c)
              /\ conn'[b].up = IF b # c /\ conn[b].proc = conn[c].proc
                               THEN <<>> ELSE conn[b].up
              /\ conn'[b].down = conn[b].down
<1>1. \A b \in Conns : conn[b] \in ConnType(proc)
  BY ConnTyped
<1> QED BY <1>1 DEF AuthorityAttaches, ConnType

\* q is whom the answer to HELLO goes to; without one, nothing is sent.
LEMMA AuthorityReceivesEffect ==
    ASSUME TypesOK, NEW c \in Conns, AuthorityReceives(c)
    PROVE  /\ conn[c].authOpen /\ conn[c].up # <<>> /\ Head(conn[c].up) = conn[c].up[1]
           /\ \A b \in Conns :
                 /\ conn'[b].proc = conn[b].proc /\ conn'[b].alive = conn[b].alive
                 /\ conn'[b].authOpen = conn[b].authOpen
                 /\ conn'[b].up = IF b = c THEN Tail(conn[c].up) ELSE conn[b].up
                 /\ \/ conn'[b].down = conn[b].down
                    \/ /\ UNCHANGED log
                       /\ conn[b].alive
                       /\ Answered(conn[b].down, conn'[b].down)
                       /\ \E q \in peers : q.conn = b
<1>0. /\ conn[c].authOpen /\ conn[c].up # <<>> /\ Head(conn[c].up) = conn[c].up[1]
      /\ Tail(conn[c].up) \in Seq(UpMessage) /\ Head(conn[c].up) \in UpMessage
      /\ proc \in Nat /\ Len(log) \in Nat /\ Len(core) \in Nat
  BY ConnTyped, HeadTailProperties DEF AuthorityReceives
<1> DEFINE took == [conn EXCEPT ![c].up = Tail(@)]
           lastSeq == Head(conn[c].up).lastSeq
<1>1. took \in [Conns -> ConnType(proc)]
  <2>1. [conn[c] EXCEPT !.up = Tail(conn[c].up)] \in ConnType(proc)
    BY <1>0, ConnTyped DEF ConnType
  <2> QED BY <2>1, ConnTyped
<1>2. \A b \in Conns :
         /\ took[b].proc = conn[b].proc /\ took[b].alive = conn[b].alive
         /\ took[b].authOpen = conn[b].authOpen /\ took[b].down = conn[b].down
         /\ took[b].up = IF b = c THEN Tail(conn[c].up) ELSE conn[b].up
  BY ConnTyped DEF ConnType
<1>3. conn' = took \/ \E q \in peers :
         UNCHANGED log /\ conn' = [took EXCEPT ![q.conn] = Sent(@, Answer(lastSeq))]
  BY DEF AuthorityReceives
<1>4. lastSeq \in Nat
  BY <1>0 DEF UpMessage
<1> HIDE DEF took, lastSeq
<1>5. CASE conn' = took
  BY <1>0, <1>2, <1>5
<1>6. ASSUME NEW q \in peers, UNCHANGED log,
             conn' = [took EXCEPT ![q.conn] = Sent(@, Answer(lastSeq))],
             NEW b \in Conns
      PROVE  /\ conn'[b].proc = took[b].proc /\ conn'[b].alive = took[b].alive
             /\ conn'[b].authOpen = took[b].authOpen
             /\ conn'[b].up = took[b].up
             /\ \/ conn'[b].down = took[b].down
                \/ took[b].alive /\ Answered(took[b].down, conn'[b].down) /\ q.conn = b
  <2>1. CASE b # q.conn
    BY <1>1, <1>6, <2>1
  <2>2. CASE b = q.conn
    <3>1. conn'[b] = Sent(took[b], Answer(lastSeq)) /\ took[b] \in ConnType(proc)
      BY <1>1, <1>6, <2>2
    <3>2. /\ SameButDown(Sent(took[b], Answer(lastSeq)), took[b])
          /\ IF took[b].alive
             THEN Answered(took[b].down, Sent(took[b], Answer(lastSeq)).down)
             ELSE Sent(took[b], Answer(lastSeq)).down = took[b].down
      BY <1>0, <1>4, <3>1, AnswerSent, SMTT(30)
    <3> QED BY <2>2, <3>1, <3>2 DEF SameButDown
  <2> QED BY <2>1, <2>2
<1>7. ASSUME NEW q \in peers, UNCHANGED log,
             conn' = [took EXCEPT ![q.conn] = Sent(@, Answer(lastSeq))]
      PROVE  \A b \in Conns :
                /\ conn'[b].proc = conn[b].proc /\ conn'[b].alive = conn[b].alive
                /\ conn'[b].authOpen = conn[b].authOpen
                /\ conn'[b].up = IF b = c THEN Tail(conn[c].up) ELSE conn[b].up
                /\ \/ conn'[b].down = conn[b].down
                   \/ /\ UNCHANGED log
                      /\ conn[b].alive
                      /\ Answered(conn[b].down, conn'[b].down)
                      /\ \E p \in peers : p.conn = b
  <2> SUFFICES ASSUME NEW b \in Conns
               PROVE  /\ conn'[b].proc = conn[b].proc /\ conn'[b].alive = conn[b].alive
                      /\ conn'[b].authOpen = conn[b].authOpen
                      /\ conn'[b].up = IF b = c THEN Tail(conn[c].up) ELSE conn[b].up
                      /\ \/ conn'[b].down = conn[b].down
                         \/ /\ UNCHANGED log
                            /\ conn[b].alive
                            /\ Answered(conn[b].down, conn'[b].down)
                            /\ \E p \in peers : p.conn = b
    OBVIOUS
  <2>1. /\ conn'[b].proc = took[b].proc /\ conn'[b].alive = took[b].alive
        /\ conn'[b].authOpen = took[b].authOpen
        /\ conn'[b].up = took[b].up
        /\ \/ conn'[b].down = took[b].down
           \/ took[b].alive /\ Answered(took[b].down, conn'[b].down) /\ q.conn = b
    BY <1>6, <1>7
  <2>2. /\ took[b].proc = conn[b].proc /\ took[b].alive = conn[b].alive
        /\ took[b].authOpen = conn[b].authOpen /\ took[b].down = conn[b].down
        /\ took[b].up = IF b = c THEN Tail(conn[c].up) ELSE conn[b].up
    BY <1>2
  <2> QED BY <1>7, <2>1, <2>2
<1> QED BY <1>0, <1>3, <1>5, <1>7

LEMMA AuthorityClosesEffect ==
    ASSUME TypesOK, NEW c \in Conns, AuthorityCloses(c)
    PROVE  \A b \in Conns :
              /\ conn'[b].proc = conn[b].proc /\ conn'[b].alive = conn[b].alive
              /\ conn'[b].authOpen = (conn[b].authOpen /\ b # c)
              /\ conn'[b].up = IF b = c THEN <<>> ELSE conn[b].up
              /\ conn'[b].down = conn[b].down
<1>1. \A b \in Conns : conn[b] \in ConnType(proc)
  BY ConnTyped
<1> QED BY <1>1, ConnTyped DEF AuthorityCloses, ConnType

LEMMA PeerReceivesEffect ==
    ASSUME TypesOK, NEW c \in Conns, PeerReceives(c)
    PROVE  \A b \in Conns :
              /\ conn'[b].proc = conn[b].proc /\ conn'[b].alive = conn[b].alive
              /\ conn'[b].authOpen = conn[b].authOpen
              /\ \/ conn'[b].up = conn[b].up
                 \/ conn[b].alive /\ conn'[b].up = Append(conn[b].up, Announce)
              /\ conn'[b].down = IF b = c THEN Tail(conn[c].down) ELSE conn[b].down
<1>0. /\ Tail(conn[c].down) \in Seq(DownMessage)
      /\ proc \in Nat /\ channel \in Conns \cup {0}
  BY ConnTyped, HeadTailProperties DEF PeerReceives, TypesOK
<1> DEFINE taken == [conn EXCEPT ![c].down = Tail(@)]
<1>1. taken \in [Conns -> ConnType(proc)]
  <2>1. [conn[c] EXCEPT !.down = Tail(conn[c].down)] \in ConnType(proc)
    BY <1>0, ConnTyped DEF ConnType
  <2> QED BY <2>1, ConnTyped
<1>2. \A b \in Conns :
         /\ taken[b].proc = conn[b].proc /\ taken[b].alive = conn[b].alive
         /\ taken[b].authOpen = conn[b].authOpen /\ taken[b].up = conn[b].up
         /\ taken[b].down = IF b = c THEN Tail(conn[c].down) ELSE conn[b].down
  BY ConnTyped DEF ConnType
<1>3. conn' = taken \/ conn' = [taken EXCEPT ![channel] = Submitted(@, Announce)]
  BY DEF PeerReceives
<1> HIDE DEF taken
<1>4. ASSUME NEW b \in Conns
      PROVE  \/ conn'[b] = taken[b]
             \/ /\ SameButUp(conn'[b], taken[b])
                /\ conn'[b].up = IF taken[b].alive THEN Append(taken[b].up, Announce)
                                 ELSE taken[b].up
  <2>1. taken[b] \in ConnType(proc)
    BY <1>1
  <2>2. conn'[b] = taken[b] \/ conn'[b] = Submitted(taken[b], Announce)
    BY <1>0, <1>1, <1>3
  <2> QED BY <1>0, <2>1, <2>2, SubmittedTyped
<1>5. ASSUME NEW b \in Conns
      PROVE  /\ conn'[b].proc = conn[b].proc /\ conn'[b].alive = conn[b].alive
             /\ conn'[b].authOpen = conn[b].authOpen
             /\ \/ conn'[b].up = conn[b].up
                \/ conn[b].alive /\ conn'[b].up = Append(conn[b].up, Announce)
             /\ conn'[b].down = IF b = c THEN Tail(conn[c].down) ELSE conn[b].down
  <2>1. /\ taken[b].proc = conn[b].proc /\ taken[b].alive = conn[b].alive
        /\ taken[b].authOpen = conn[b].authOpen /\ taken[b].up = conn[b].up
        /\ taken[b].down = IF b = c THEN Tail(conn[c].down) ELSE conn[b].down
    BY <1>2
  <2>2. CASE conn'[b] = taken[b]
    BY <2>1, <2>2
  <2>3. CASE SameButUp(conn'[b], taken[b])
    <3>1. conn'[b].up = conn[b].up \/ (conn[b].alive /\ conn'[b].up = Append(conn[b].up, Announce))
      BY <1>4, <2>1
    <3> QED BY <2>1, <2>3, <3>1 DEF SameButUp
  <2> QED BY <1>4, <2>2, <2>3
<1> QED BY <1>5

LEMMA ConnectsEffect ==
    ASSUME TypesOK, NEW c \in Conns, Connects(c)
    PROVE  \A b \in Conns :
              /\ conn'[b].proc = IF b = c THEN proc ELSE conn[b].proc
              /\ conn'[b].alive = (b = c \/ conn[b].alive)
              /\ conn'[b].authOpen = (conn[b].authOpen /\ b # c)
              /\ conn'[b].up = IF b = c THEN <<Hello>> ELSE conn[b].up
              /\ conn'[b].down = <<>>
              /\ b = c => ~conn[b].authOpen
<1>1. \A b \in Conns : conn[b] \in ConnType(proc)
  BY ConnTyped
<1>2. \A b \in Conns :
         conn'[b] = IF b = c THEN [Unused EXCEPT !.proc = proc, !.alive = TRUE,
                                                 !.peerOpen = TRUE, !.up = <<Hello>>]
                    ELSE [conn[b] EXCEPT !.down = <<>>]
  BY DEF Connects
<1>3. ~conn[c].authOpen
  BY DEF Connects, Unused
<1>4. ASSUME NEW b \in Conns, b # c
      PROVE  /\ conn'[b].proc = conn[b].proc /\ conn'[b].alive = conn[b].alive
             /\ conn'[b].authOpen = conn[b].authOpen /\ conn'[b].up = conn[b].up
             /\ conn'[b].down = <<>>
  BY <1>1, <1>2, <1>4 DEF ConnType
<1>5. /\ conn'[c].proc = proc /\ conn'[c].alive /\ ~conn'[c].authOpen
      /\ conn'[c].up = <<Hello>> /\ conn'[c].down = <<>>
  BY <1>2 DEF Unused
<1>6. \A b \in Conns : conn[b].alive \in BOOLEAN /\ conn[b].authOpen \in BOOLEAN
  BY <1>1 DEF ConnType
<1>7. conn'[c].alive \in BOOLEAN /\ conn'[c].authOpen \in BOOLEAN
  BY <1>2 DEF Unused
<1> QED BY <1>3, <1>4, <1>5, <1>6, <1>7

LEMMA PeerClosesEffect ==
    ASSUME TypesOK, NEW c \in Conns, PeerCloses(c)
    PROVE  \A b \in Conns :
              /\ conn'[b].proc = conn[b].proc /\ conn'[b].alive = conn[b].alive
              /\ conn'[b].authOpen = conn[b].authOpen /\ conn'[b].up = conn[b].up
              /\ conn'[b].down = IF b = c THEN <<>> ELSE conn[b].down
<1>1. \A b \in Conns : conn[b] \in ConnType(proc)
  BY ConnTyped
<1> QED BY <1>1, ConnTyped DEF PeerCloses, ConnType

LEMMA PeerRestartsEffect ==
    ASSUME TypesOK, PeerRestarts
    PROVE  \A b \in Conns :
              /\ conn'[b].proc = conn[b].proc /\ ~conn'[b].alive
              /\ conn'[b].authOpen = conn[b].authOpen /\ conn'[b].up = conn[b].up
              /\ conn'[b].down = <<>>
BY ConnTyped DEF PeerRestarts, Broken, ConnType

LEMMA BreaksEffect ==
    ASSUME TypesOK, NEW c \in Conns, Breaks(c)
    PROVE  \A b \in Conns :
              /\ conn'[b].proc = conn[b].proc
              /\ conn'[b].alive = (conn[b].alive /\ b # c)
              /\ conn'[b].authOpen = conn[b].authOpen /\ conn'[b].up = conn[b].up
              /\ conn'[b].down = conn[b].down
<1>1. \A b \in Conns : conn[b] \in ConnType(proc)
  BY ConnTyped
<1> QED BY <1>1, ConnTyped DEF Breaks, Broken, ConnType
-----------------------------------------------------------------------------
(***************************************************************************)
(* The history.                                                            *)
(***************************************************************************)
LEMMA BatchesMore ==
    ASSUME NEW p \in Seq(Batch), NEW b \in Batch, NEW n \in Nat, NEW m \in Nat, n <= m,
           \A i \in 1 .. Len(p) : 1 <= p[i].lo /\ p[i].lo <= p[i].hi /\ p[i].hi <= n,
           1 <= b.lo, b.lo <= b.hi, b.hi <= m
    PROVE  \A i \in 1 .. Len(Append(p, b)) :
              /\ 1 <= Append(p, b)[i].lo /\ Append(p, b)[i].lo <= Append(p, b)[i].hi
              /\ Append(p, b)[i].hi <= m
<1>1. /\ Len(Append(p, b)) = Len(p) + 1 /\ Len(p) \in Nat
      /\ Append(p, b)[Len(p) + 1] = b
      /\ \A i \in 1 .. Len(p) : Append(p, b)[i] = p[i] /\ p[i] \in Batch
  BY AppendProperties, LenProperties, ElementOfSeq
<1>2. \A i \in 1 .. Len(p) : p[i].hi \in Nat
  BY <1>1 DEF Batch
<1> QED BY <1>1, <1>2

LEMMA LogsBound ==
    ASSUME TypesOK, BoundInv, NEW e \in Entries, Logs(e), UNCHANGED core
    PROVE  BoundInv'
<1> DEFINE b == [lo |-> Len(log) + 1, hi |-> Len(log) + 1]
<1>1. /\ Len(log') = Len(log) + 1 /\ Len(log) \in Nat /\ publishing \in Seq(Batch)
      /\ publishing' = Append(publishing, b)
  BY LogsFacts DEF TypesOK
<1>2. b \in Batch /\ b.lo = Len(log) + 1 /\ b.hi = Len(log) + 1
  BY <1>1 DEF Batch
<1> HIDE DEF b
<1>3. \A i \in 1 .. Len(publishing') :
         /\ 1 <= publishing'[i].lo /\ publishing'[i].lo <= publishing'[i].hi
         /\ publishing'[i].hi <= Len(log')
  BY <1>1, <1>2, BatchesMore, SMTT(30) DEF BoundInv
<1>4. \A i \in 1 .. Len(core') : core'[i] \in 1 .. Len(log')
  BY <1>1 DEF BoundInv
<1> QED BY <1>3, <1>4 DEF BoundInv

LEMMA StepBound ==
    ASSUME IInv, [Next]_vars
    PROVE  BoundInv'
<1>0. /\ TypesOK /\ BoundInv /\ publishing \in Seq(Batch) /\ core \in Seq(Nat)
      /\ Len(core) \in Nat /\ Len(log) \in Nat
  BY ConnTyped DEF IInv, TypesOK
<1>1. CASE UNCHANGED <<log, core, publishing>>
  BY <1>0, <1>1 DEF BoundInv
<1>2. ASSUME NEW e \in Entries, Logs(e), UNCHANGED core
      PROVE  BoundInv'
  BY <1>0, <1>2, LogsBound
<1>3. CASE Publish
  <2> DEFINE b == Head(publishing)
  <2>1. /\ publishing # <<>> /\ UNCHANGED log /\ core' = core \o SeqsOf(b)
        /\ publishing' = Tail(publishing)
    BY <1>3 DEF Publish
  <2>2. /\ b \in Batch /\ 1 <= b.lo /\ b.lo <= b.hi /\ b.hi <= Len(log)
    BY <1>0, <2>1, HeadFacts DEF BoundInv
  <2>3. b.lo \in Nat /\ b.hi \in Nat
    BY <2>2 DEF Batch
  <2> HIDE DEF b
  <2>4. /\ Len(core') \in Nat
        /\ \A i \in 1 .. Len(core) : core'[i] = core[i]
        /\ \A i \in Len(core) + 1 .. Len(core') : core'[i] \in b.lo .. b.hi
    BY <1>0, <2>1, <2>2, BlocksAppended
  <2>5. \A i \in 1 .. Len(core') : core'[i] \in 1 .. Len(log')
    <3> SUFFICES ASSUME NEW i \in 1 .. Len(core') PROVE core'[i] \in 1 .. Len(log)
      BY <2>1
    <3>1. CASE i <= Len(core)
      BY <1>0, <2>4, <3>1 DEF BoundInv
    <3>2. CASE i > Len(core)
      BY <1>0, <2>2, <2>3, <2>4, <3>2
    <3> QED BY <1>0, <3>1, <3>2
  <2>6. \A i \in 1 .. Len(publishing') : i + 1 \in 1 .. Len(publishing)
                                         /\ publishing'[i] = publishing[i + 1]
    BY <1>0, <2>1, HeadTailProperties, LenProperties
  <2> QED BY <1>0, <2>1, <2>5, <2>6 DEF BoundInv
<1>4. CASE Starts
  <2>1. UNCHANGED <<log, core>>
    BY <1>4 DEF Starts
  <2>2. CASE UNCHANGED publishing
    BY <1>0, <2>1, <2>2 DEF BoundInv
  <2>3. CASE publishing' = Append(publishing, Missing) /\ Missing.lo <= Missing.hi
    <3>1. Missing \in Batch /\ 1 <= Missing.lo /\ Missing.hi <= Len(log)
      BY <1>0 DEF Missing, Batch
    <3>2. \A i \in 1 .. Len(publishing') :
             /\ 1 <= publishing'[i].lo /\ publishing'[i].lo <= publishing'[i].hi
             /\ publishing'[i].hi <= Len(log)
      <4> DEFINE b == Missing
      <4>1. b \in Batch /\ 1 <= b.lo /\ b.lo <= b.hi /\ b.hi <= Len(log)
        BY <2>3, <3>1
      <4>2. publishing' = Append(publishing, b)
        BY <2>3
      <4> HIDE DEF b
      <4> QED BY <1>0, <4>1, <4>2, BatchesMore DEF BoundInv
    <3> QED BY <1>0, <2>1, <3>2 DEF BoundInv
  <2> QED BY <1>0, <1>4, <2>2, <2>3 DEF Starts, Missing
<1>5. CASE AuthorityCrashes
  <2>1. UNCHANGED <<log, core>> /\ publishing' = <<>> /\ Len(<<>>) = 0
    BY <1>5, EmptySeq DEF AuthorityCrashes
  <2> QED BY <1>0, <2>1 DEF BoundInv
<1>6. CASE AuthorityStep
  <2>1. OthersSubmit => Logs("other") /\ UNCHANGED core
    BY DEF OthersSubmit
  <2>2. ASSUME NEW c \in Conns,
               AuthorityAttaches(c) \/ AuthorityReceives(c) \/ AuthorityCloses(c)
        PROVE  UNCHANGED core /\ (UNCHANGED <<log, publishing>> \/ Logs("start") \/ Logs("end"))
    BY <2>2 DEF AuthorityAttaches, AuthorityReceives, AuthorityCloses
  <2>3. {"start", "end", "other"} \subseteq Entries
    BY DEF Entries
  <2> QED BY <1>1, <1>2, <1>3, <1>4, <1>5, <1>6, <2>1, <2>2, <2>3 DEF AuthorityStep
<1>7. CASE PeerStep \/ (\E c \in Conns : Breaks(c)) \/ UNCHANGED vars
  <2>1. UNCHANGED <<log, core, publishing>>
    BY <1>7 DEF PeerStep, PeerReceives, Grows, Joins, ReplayEnds, Connects, PeerCloses,
                PeerRestarts, Breaks, authVars, vars
  <2> QED BY <1>1, <2>1
<1> QED BY <1>6, <1>7 DEF Next

\* An event that does not overtake start() is behind what is on its way.
LEMMA LogsLead ==
    ASSUME TypesOK, HistoryInv, NEW e \in Entries, Logs(e), ~raced',
           UNCHANGED <<phase, core>>
    PROVE  HistoryInv'
<1>1. /\ Len(log') = Len(log) + 1 /\ Len(log) \in Nat /\ Len(core) \in Nat
      /\ publishing' = Append(publishing, [lo |-> Len(log) + 1, hi |-> Len(log) + 1])
      /\ publishing \in Seq(Batch)
  BY LogsFacts, ConnTyped DEF TypesOK
<1>2. Leads(publishing, Len(core), Len(log))
  <2>1. CASE phase = "up" \/ publishing # <<>>
    BY <2>1 DEF HistoryInv
  <2>2. CASE phase # "up" /\ publishing = <<>>
    <3>1. Len(core) = Len(log)
      BY <2>2 DEF Logs, Reached, TypesOK
    <3> QED BY <2>2, <3>1, EmptySeq DEF Leads
  <2> QED BY <2>1, <2>2
<1>3. Leads(publishing', Len(core), Len(log) + 1)
  <2>1. Len(log) + 1 \in Nat /\ Len(log) < Len(log) + 1
    BY <1>1
  <2> QED BY <1>1, <1>2, <2>1, LeadsMore
<1> QED BY <1>1, <1>3 DEF HistoryInv, InStep

\* What leaves the authority's variables alone.
LEMMA HistoryStays ==
    ASSUME HistoryInv, UNCHANGED <<phase, log, core, publishing>>
    PROVE  HistoryInv'
BY DEF HistoryInv, InStep

LEMMA AuthorityHistory ==
    ASSUME IInv, ~raced, AuthorityStep, ~raced'
    PROVE  HistoryInv'
<1>0. TypesOK /\ HistoryInv /\ phase \in {"starting", "up"}
  BY DEF IInv, ExactInv, TypesOK
<1>1. CASE OthersSubmit
  BY <1>0, <1>1, LogsLead DEF OthersSubmit, Entries
<1>2. CASE Publish
  <2>1. /\ publishing \in Seq(Batch) /\ publishing # <<>>
        /\ Leads(publishing, Len(core), Len(log)) /\ Len(core) \in Nat /\ Len(log) \in Nat
        /\ core \in Seq(Nat)
    BY <1>0, <1>2, ConnTyped DEF Publish, HistoryInv, TypesOK
  <2>2. /\ Head(publishing) \in Batch /\ Head(publishing).lo = Len(core) + 1
        /\ Head(publishing).lo <= Head(publishing).hi
        /\ Head(publishing).hi <= Len(log)
        /\ Leads(Tail(publishing), Head(publishing).hi, Len(log))
    BY <2>1, LeadsFewer DEF Batch
  <2>3. \A i \in 1 .. Len(core) : core[i] = i
    BY <1>0, <2>1, LenProperties DEF HistoryInv, InStep
  <2>4. /\ core' \in Seq(Nat) /\ Len(core') = Head(publishing).hi
        /\ \A i \in 1 .. Len(core') : core'[i] = i
    BY <1>2, <2>1, <2>2, <2>3, SeqsAppended DEF Publish
  <2>5. DOMAIN core' = 1 .. Len(core')
    BY <2>4, LenProperties
  <2>6. publishing' = Tail(publishing) /\ log' = log
    BY <1>2 DEF Publish
  <2> QED BY <2>2, <2>4, <2>5, <2>6 DEF HistoryInv, InStep
<1>3. CASE Starts
  <2>1. /\ publishing = <<>> /\ phase' = "up" /\ UNCHANGED <<log, core>>
        /\ Len(core) \in Nat /\ Len(log) \in Nat /\ Len(core) <= Len(log)
        /\ publishing \in Seq(Batch)
    BY <1>0, <1>3, ConnTyped DEF Starts, HistoryInv, TypesOK
  <2>2. CASE Len(core) = Len(log)
    <3>1. publishing' = <<>>
      BY <1>3, <2>1, <2>2 DEF Starts, Missing
    <3>2. Leads(publishing', Len(core), Len(log))
      BY <2>2, <3>1, EmptySeq DEF Leads
    <3> QED BY <1>0, <2>1, <3>2 DEF HistoryInv, InStep
  <2>3. CASE Len(core) < Len(log)
    <3>1. publishing' = Append(publishing, [lo |-> Len(core) + 1, hi |-> Len(log)])
      BY <1>3, <2>1, <2>3 DEF Starts, Missing
    <3>2. Leads(publishing, Len(core), Len(core))
      BY <2>1, EmptySeq DEF Leads
    <3>3. Leads(publishing', Len(core), Len(log))
      BY <2>1, <2>3, <3>1, <3>2, LeadsMore
    <3> QED BY <1>0, <2>1, <3>3 DEF HistoryInv, InStep
  <2> QED BY <2>1, <2>2, <2>3
<1>4. CASE AuthorityCrashes
  <2>1. phase' = "starting" /\ publishing' = <<>> /\ UNCHANGED <<log, core>>
    BY <1>4 DEF AuthorityCrashes
  <2> QED BY <1>0, <2>1 DEF HistoryInv, InStep
<1>5. ASSUME NEW c \in Conns,
             AuthorityAttaches(c) \/ AuthorityReceives(c) \/ AuthorityCloses(c)
      PROVE  HistoryInv'
  <2>1. /\ UNCHANGED <<phase, core>>
        /\ UNCHANGED <<log, publishing>> \/ Logs("start") \/ Logs("end")
    BY <1>5 DEF AuthorityAttaches, AuthorityReceives, AuthorityCloses
  <2>2. CASE UNCHANGED <<log, publishing>>
    BY <1>0, <2>1, <2>2, HistoryStays
  <2>3. CASE Logs("start") \/ Logs("end")
    BY <1>0, <2>1, <2>3, LogsLead DEF Entries
  <2> QED BY <2>1, <2>2, <2>3
<1> QED BY <1>1, <1>2, <1>3, <1>4, <1>5 DEF AuthorityStep

LEMMA StepHistory ==
    ASSUME IInv, ~raced, [Next]_vars, ~raced'
    PROVE  HistoryInv'
<1>1. CASE PeerStep \/ (\E c \in Conns : Breaks(c)) \/ UNCHANGED vars
  <2>1. UNCHANGED <<phase, log, core, publishing>>
    BY <1>1 DEF PeerStep, PeerReceives, Grows, Joins, ReplayEnds, Connects, PeerCloses,
                PeerRestarts, Breaks, authVars, vars
  <2> QED BY <2>1, HistoryStays DEF IInv, ExactInv
<1> QED BY <1>1, AuthorityHistory DEF Next
-----------------------------------------------------------------------------
(***************************************************************************)
(* Connections.                                                            *)
(***************************************************************************)
LEMMA PeersTyped ==
    TypesOK => /\ channel \in Conns \cup {0} /\ 0 \notin Conns /\ proc \in Nat
               /\ \A q \in peers : q \in [proc : 1 .. proc, conn : Conns,
                                          hello : BOOLEAN, joined : BOOLEAN]
BY DEF TypesOK, Conns

\* What changes neither who is connected nor how.
LEMMA ConnStays ==
    ASSUME TypesOK, ConnInv, UNCHANGED <<proc, channel>>,
           \A b \in Conns : /\ conn'[b].proc = conn[b].proc
                            /\ conn'[b].alive => conn[b].alive
                            /\ conn'[b].authOpen = conn[b].authOpen
                            /\ conn'[b].down = <<>> \/ conn[b].down # <<>>
                               \/ (conn[b].alive /\ \E q \in peers : q.conn = b),
           \A b \in Conns : conn'[b].alive /\ ~conn'[b].authOpen => welcomed' = welcomed,
           \A q \in peers' : \E p \in peers : p.conn = q.conn /\ p.proc = q.proc,
           \A p \in peers : \E q \in peers' : p.conn = q.conn,
           \A p, q \in peers' : p.proc = q.proc => p = q
    PROVE  ConnInv'
<1>1. proc' > 0
  BY DEF ConnInv
<1>2. \A c \in Conns : conn'[c].alive => c = channel' /\ conn'[c].proc = proc'
  BY DEF ConnInv
<1>3. \A c \in Conns : conn'[c].down # <<>> => c = channel'
  BY DEF ConnInv
<1>4. \A c \in Conns : conn'[c].alive /\ conn'[c].authOpen => \E q \in peers' : q.conn = c
  BY DEF ConnInv
<1>5. \A c \in Conns : conn'[c].alive /\ ~conn'[c].authOpen => conn'[c].down = <<>> /\ ~welcomed'
  <2>1. ASSUME NEW c \in Conns, conn'[c].alive, ~conn'[c].authOpen
        PROVE  conn'[c].down = <<>> /\ ~welcomed'
    <3>1. conn[c].alive /\ ~conn[c].authOpen /\ conn[c].down = <<>> /\ ~welcomed
      BY <2>1 DEF ConnInv
    <3>2. ~\E q \in peers : q.conn = c
      BY <3>1 DEF ConnInv
    <3> QED BY <2>1, <3>1, <3>2
  <2> QED BY <2>1
<1>6. \A q \in peers' : conn'[q.conn].authOpen /\ conn'[q.conn].proc = q.proc
  BY PeersTyped DEF ConnInv
<1> QED BY <1>1, <1>2, <1>3, <1>4, <1>5, <1>6 DEF ConnInv

LEMMA AuthorityConn ==
    ASSUME IInv, AuthorityStep
    PROVE  ConnInv'
<1>0. TypesOK /\ ConnInv
  BY DEF IInv
<1>1. CASE OthersSubmit \/ Starts
  BY <1>0, <1>1 DEF OthersSubmit, Starts, ConnInv
<1>2. CASE Publish
  <2>1. UNCHANGED <<proc, channel, peers, welcomed>>
    BY <1>2 DEF Publish
  <2>2. \A b \in Conns : /\ conn'[b].proc = conn[b].proc /\ conn'[b].alive = conn[b].alive
                         /\ conn'[b].authOpen = conn[b].authOpen
                         /\ \/ conn'[b].down = conn[b].down
                            \/ conn[b].alive /\ \E q \in peers : q.conn = b
    BY <1>0, <1>2, PublishEffect
  <2>3. \A p, q \in peers : p.proc = q.proc => p = q
    BY <1>0 DEF ConnInv
  <2> QED BY <1>0, <2>1, <2>2, <2>3, ConnStays
<1>3. CASE AuthorityCrashes
  <2>1. UNCHANGED <<proc, channel>> /\ peers' = {}
    BY <1>3 DEF AuthorityCrashes
  <2> QED BY <1>0, <1>3, <2>1, AuthorityCrashesEffect DEF ConnInv
<1>4. ASSUME NEW c \in Conns, AuthorityAttaches(c)
      PROVE  ConnInv'
  <2> DEFINE new == [proc |-> conn[c].proc, conn |-> c, hello |-> FALSE, joined |-> FALSE]
  <2>1. /\ UNCHANGED <<proc, channel, welcomed>> /\ conn[c].alive /\ ~conn[c].authOpen
        /\ peers' = {q \in peers : q.proc # conn[c].proc} \cup {new}
    BY <1>4 DEF AuthorityAttaches, Registered
  <2>2. \A b \in Conns : /\ conn'[b].proc = conn[b].proc /\ conn'[b].alive = conn[b].alive
                         /\ conn'[b].authOpen = (conn[b].authOpen \/ b = c)
                         /\ conn'[b].down = conn[b].down
    BY <1>0, <1>4, AuthorityAttachesEffect
  <2>3. \A b \in Conns : conn[b].alive => b = c
    BY <1>0, <2>1 DEF ConnInv
  <2>4. \A b \in Conns : conn'[b].alive /\ conn'[b].authOpen => \E q \in peers' : q.conn = b
    <3>1. new \in peers' /\ new.conn = c
      BY <2>1
    <3>2. \A b \in Conns : conn'[b].alive => b = c
      BY <2>2, <2>3
    <3> HIDE DEF new
    <3> QED BY <3>1, <3>2
  <2>5. \A q \in peers' : conn'[q.conn].authOpen /\ conn'[q.conn].proc = q.proc
    <3>1. ASSUME NEW q \in peers, q.proc # conn[c].proc
          PROVE  conn'[q.conn].authOpen /\ conn'[q.conn].proc = q.proc
      BY <1>0, <2>2, PeersTyped, ZenonT(30) DEF ConnInv
    <3>2. conn'[c].authOpen /\ conn'[c].proc = conn[c].proc
      BY <2>2
    <3> QED BY <2>1, <3>1, <3>2
  <2>6. \A p, q \in peers' : p.proc = q.proc => p = q
    <3>1. new.proc = conn[c].proc
      OBVIOUS
    <3>2. \A p, q \in peers : p.proc = q.proc => p = q
      BY <1>0 DEF ConnInv
    <3> HIDE DEF new
    <3> QED BY <2>1, <3>1, <3>2
  <2>7. \A b \in Conns : conn'[b].alive /\ ~conn'[b].authOpen => conn'[b].down = <<>> /\ ~welcomed'
    BY <2>2, <2>3
  <2>8. /\ proc' > 0
        /\ \A b \in Conns : conn'[b].alive => b = channel' /\ conn'[b].proc = proc'
        /\ \A b \in Conns : conn'[b].down # <<>> => b = channel'
    BY <1>0, <2>1, <2>2 DEF ConnInv
  <2> QED BY <2>4, <2>5, <2>6, <2>7, <2>8 DEF ConnInv
<1>5. ASSUME NEW c \in Conns, AuthorityReceives(c)
      PROVE  ConnInv'
  <2>1. UNCHANGED <<proc, channel, welcomed>>
    BY <1>5 DEF AuthorityReceives
  <2>2. \A b \in Conns : /\ conn'[b].proc = conn[b].proc /\ conn'[b].alive = conn[b].alive
                         /\ conn'[b].authOpen = conn[b].authOpen
                         /\ \/ conn'[b].down = conn[b].down
                            \/ conn[b].alive /\ \E q \in peers : q.conn = b
    BY <1>0, <1>5, AuthorityReceivesEffect
  <2>3. /\ \A q \in peers' : \E p \in peers : p.conn = q.conn /\ p.proc = q.proc
        /\ \A p \in peers : \E q \in peers' : p.conn = q.conn
        /\ \A p, q \in peers' : p.proc = q.proc => p = q
    <3>0. \A p, q \in peers : p.proc = q.proc => p = q
      BY <1>0 DEF ConnInv
    <3>1. CASE peers' = peers
      BY <3>0, <3>1
    <3>2. ASSUME NEW q \in peers, NEW r, peers' = (peers \ {q}) \cup {r},
                 r.conn = q.conn, r.proc = q.proc
          PROVE  /\ \A s \in peers' : \E p \in peers : p.conn = s.conn /\ p.proc = s.proc
                 /\ \A p \in peers : \E s \in peers' : p.conn = s.conn
                 /\ \A p, s \in peers' : p.proc = s.proc => p = s
      BY <3>0, <3>2
    <3>3. \A q \in peers : /\ [q EXCEPT !.hello = TRUE].conn = q.conn
                           /\ [q EXCEPT !.hello = TRUE].proc = q.proc
                           /\ [q EXCEPT !.joined = TRUE].conn = q.conn
                           /\ [q EXCEPT !.joined = TRUE].proc = q.proc
      BY <1>0, PeersTyped
    <3>4. \/ peers' = peers
          \/ \E q \in peers : peers' = (peers \ {q}) \cup {[q EXCEPT !.hello = TRUE]}
          \/ \E q \in peers : peers' = (peers \ {q}) \cup {[q EXCEPT !.joined = TRUE]}
      BY <1>5 DEF AuthorityReceives
    <3> QED BY <3>1, <3>2, <3>3, <3>4
  <2> QED BY <1>0, <2>1, <2>2, <2>3, ConnStays
<1>6. ASSUME NEW c \in Conns, AuthorityCloses(c)
      PROVE  ConnInv'
  <2>1. UNCHANGED <<proc, channel, welcomed>> /\ ~conn[c].alive
    BY <1>6 DEF AuthorityCloses
  <2>2. \A b \in Conns : /\ conn'[b].proc = conn[b].proc /\ conn'[b].alive = conn[b].alive
                         /\ conn'[b].authOpen = (conn[b].authOpen /\ b # c)
                         /\ conn'[b].down = conn[b].down
    BY <1>0, <1>6, AuthorityClosesEffect
  <2>3. peers' \subseteq peers /\ \A q \in peers : q \in peers' <=> q.conn # c
    <3>1. \A p, q \in peers : p.conn = q.conn => p = q
      BY <1>0 DEF ConnInv
    <3> QED BY <1>6, <3>1 DEF AuthorityCloses
  <2>a. /\ ~conn'[c].authOpen
        /\ \A b \in Conns \ {c} : conn'[b].authOpen = (conn[b].authOpen /\ TRUE)
    BY <2>2
  <2>b. \A b \in Conns \ {c} : conn'[b].authOpen <=> conn[b].authOpen
    BY <2>a
  <2>4. \A b \in Conns : conn'[b].alive /\ conn'[b].authOpen => \E q \in peers' : q.conn = b
    <3>1. ASSUME NEW b \in Conns, conn'[b].alive, conn'[b].authOpen
          PROVE  \E q \in peers' : q.conn = b
      <4>1. b # c /\ conn[b].alive /\ conn[b].authOpen
        BY <2>2, <2>a, <2>b, <3>1
      <4> QED BY <1>0, <2>3, <4>1 DEF ConnInv
    <3> QED BY <3>1
  <2>5. \A q \in peers' : conn'[q.conn].authOpen /\ conn'[q.conn].proc = q.proc
    <3>1. ASSUME NEW q \in peers'
          PROVE  conn'[q.conn].authOpen /\ conn'[q.conn].proc = q.proc
      <4>1. q \in peers /\ q.conn \in Conns \ {c}
        BY <1>0, <2>3, PeersTyped
      <4> QED BY <1>0, <2>2, <2>b, <4>1 DEF ConnInv
    <3> QED BY <3>1
  <2>6. \A b \in Conns : conn'[b].alive /\ ~conn'[b].authOpen => conn'[b].down = <<>> /\ ~welcomed'
    BY <1>0, <2>1, <2>2 DEF ConnInv
  <2>7. /\ proc' > 0
        /\ \A b \in Conns : conn'[b].alive => b = channel' /\ conn'[b].proc = proc'
        /\ \A b \in Conns : conn'[b].down # <<>> => b = channel'
        /\ \A p, q \in peers' : p.proc = q.proc => p = q
    BY <1>0, <2>1, <2>2, <2>3 DEF ConnInv
  <2> QED BY <2>4, <2>5, <2>6, <2>7 DEF ConnInv
<1> QED BY <1>1, <1>2, <1>3, <1>4, <1>5, <1>6 DEF AuthorityStep

LEMMA PeerConn ==
    ASSUME IInv, PeerStep \/ \E c \in Conns : Breaks(c)
    PROVE  ConnInv'
<1>0. TypesOK /\ ConnInv /\ \A p, q \in peers : p.proc = q.proc => p = q
  BY DEF IInv, ConnInv
<1>1. ASSUME NEW c \in Conns, PeerReceives(c)
      PROVE  ConnInv'
  <2>1. UNCHANGED <<proc, channel, peers>> /\ conn[c].down # <<>>
    BY <1>1 DEF PeerReceives, authVars
  <2>2. \A b \in Conns : /\ conn'[b].proc = conn[b].proc /\ conn'[b].alive = conn[b].alive
                         /\ conn'[b].authOpen = conn[b].authOpen
                         /\ b # c => conn'[b].down = conn[b].down
    BY <1>0, <1>1, PeerReceivesEffect
  <2>3. \A b \in Conns : conn'[b].alive /\ ~conn'[b].authOpen => welcomed' = welcomed
    <3>1. ASSUME NEW b \in Conns, conn[b].alive, ~conn[b].authOpen
          PROVE  FALSE \/ c # channel
      BY <1>0, <2>1, <3>1 DEF ConnInv
    <3>2. c # channel => welcomed' = welcomed
      BY <1>0, <1>1 DEF PeerReceives, TypesOK
    <3> QED BY <2>2, <3>1, <3>2
  <2> QED BY <1>0, <2>1, <2>2, <2>3, ConnStays
<1>2. CASE Grows \/ Joins \/ ReplayEnds
  <2>1. UNCHANGED <<proc, channel, conn, peers, welcomed>>
    BY <1>2 DEF Grows, Joins, ReplayEnds, authVars
  <2> QED BY <1>0, <2>1 DEF ConnInv
<1>3. ASSUME NEW c \in Conns, Connects(c)
      PROVE  ConnInv'
  <2>1. /\ UNCHANGED <<proc, peers>> /\ channel' = c /\ ~welcomed'
        /\ \A b \in Conns : conn[b].proc = proc => ~conn[b].alive
    BY <1>3 DEF Connects, authVars
  <2>2. \A b \in Conns : /\ conn'[b].proc = IF b = c THEN proc ELSE conn[b].proc
                         /\ conn'[b].alive = (b = c \/ conn[b].alive)
                         /\ conn'[b].authOpen = (conn[b].authOpen /\ b # c)
                         /\ conn'[b].down = <<>>
                         /\ b = c => ~conn[b].authOpen
    BY <1>0, <1>3, ConnectsEffect
  <2>3. \A b \in Conns : ~conn[b].alive
    BY <1>0, <2>1 DEF ConnInv
  <2>4. \A q \in peers' : conn'[q.conn].authOpen /\ conn'[q.conn].proc = q.proc
    <3>1. ASSUME NEW q \in peers
          PROVE  conn'[q.conn].authOpen /\ conn'[q.conn].proc = q.proc
      <4>1. q.conn \in Conns /\ conn[q.conn].authOpen /\ conn[q.conn].proc = q.proc
        BY <1>0, PeersTyped DEF ConnInv
      <4>2. q.conn # c
        BY <2>2, <4>1
      <4>3. conn'[q.conn].authOpen = (conn[q.conn].authOpen /\ TRUE)
        BY <2>2, <4>1, <4>2
      <4> QED BY <2>2, <4>1, <4>2, <4>3
    <3> QED BY <2>1, <3>1
  <2>5. \A b \in Conns : conn'[b].alive => b = channel' /\ conn'[b].proc = proc'
    BY <2>1, <2>2, <2>3
  <2>6. \A b \in Conns : conn'[b].alive => ~conn'[b].authOpen
    BY <2>2, <2>3
  <2> QED BY <1>0, <2>1, <2>2, <2>4, <2>5, <2>6 DEF ConnInv
<1>4. ASSUME NEW c \in Conns, PeerCloses(c)
      PROVE  ConnInv'
  <2>1. /\ UNCHANGED <<proc, peers, welcomed>> /\ ~conn[c].alive
        /\ channel' = IF channel = c THEN 0 ELSE channel
    BY <1>4 DEF PeerCloses, authVars
  <2>2. \A b \in Conns : /\ conn'[b].proc = conn[b].proc /\ conn'[b].alive = conn[b].alive
                         /\ conn'[b].authOpen = conn[b].authOpen
                         /\ conn'[b].down = IF b = c THEN <<>> ELSE conn[b].down
    BY <1>0, <1>4, PeerClosesEffect
  <2>3. \A b \in Conns : conn'[b].alive => b = channel' /\ conn'[b].proc = proc'
    BY <1>0, <2>1, <2>2 DEF ConnInv
  <2>4. \A b \in Conns : conn'[b].down # <<>> => b = channel'
    BY <1>0, <2>1, <2>2 DEF ConnInv
  <2>5. \A q \in peers' : conn'[q.conn].authOpen /\ conn'[q.conn].proc = q.proc
    BY <1>0, <2>1, <2>2, PeersTyped DEF ConnInv
  <2>6. /\ \A b \in Conns : conn'[b].alive /\ conn'[b].authOpen => \E q \in peers' : q.conn = b
        /\ \A b \in Conns : conn'[b].alive /\ ~conn'[b].authOpen
                                => conn'[b].down = <<>> /\ ~welcomed'
    BY <1>0, <2>1, <2>2 DEF ConnInv
  <2> QED BY <1>0, <2>1, <2>3, <2>4, <2>5, <2>6 DEF ConnInv
<1>5. CASE PeerRestarts
  <2>1. UNCHANGED peers /\ proc' = proc + 1
    BY <1>5 DEF PeerRestarts, authVars
  <2>2. \A b \in Conns : /\ conn'[b].proc = conn[b].proc /\ ~conn'[b].alive
                         /\ conn'[b].authOpen = conn[b].authOpen /\ conn'[b].down = <<>>
    BY <1>0, <1>5, PeerRestartsEffect
  <2>3. \A q \in peers' : conn'[q.conn].authOpen /\ conn'[q.conn].proc = q.proc
    BY <1>0, <2>1, <2>2, PeersTyped DEF ConnInv
  <2>4. proc' > 0
    BY <1>0, <2>1, PeersTyped DEF ConnInv
  <2> QED BY <1>0, <2>1, <2>2, <2>3, <2>4 DEF ConnInv
<1>6. ASSUME NEW c \in Conns, Breaks(c)
      PROVE  ConnInv'
  <2>1. UNCHANGED <<proc, channel, peers, welcomed>>
    BY <1>6 DEF Breaks, authVars
  <2>2. \A b \in Conns : /\ conn'[b].proc = conn[b].proc
                         /\ conn'[b].alive = (conn[b].alive /\ b # c)
                         /\ conn'[b].authOpen = conn[b].authOpen
                         /\ conn'[b].down = conn[b].down
    BY <1>0, <1>6, BreaksEffect
  <2> QED BY <1>0, <2>1, <2>2, ConnStays
<1> QED BY <1>1, <1>2, <1>3, <1>4, <1>5, <1>6 DEF PeerStep

LEMMA StepConn ==
    ASSUME IInv, [Next]_vars
    PROVE  ConnInv'
<1>1. CASE UNCHANGED vars
  BY <1>1 DEF IInv, ConnInv, vars, authVars
<1> QED BY <1>1, AuthorityConn, PeerConn DEF Next
-----------------------------------------------------------------------------
(***************************************************************************)
(* Greetings.                                                              *)
(***************************************************************************)
LEMMA ActiveLog ==
    ASSUME TypesOK, NEW e \in Entries, Logs(e)
    PROVE  /\ e = "start" => Active(log')
           /\ e = "other" => (Active(log) => Active(log'))
<1>1. /\ log' \in Seq(Entries) /\ log \in Seq(Entries)
      /\ Len(log) \in Nat /\ Len(log') = Len(log) + 1
      /\ \A i \in 1 .. Len(log) : log'[i] = log[i]
      /\ log'[Len(log) + 1] = e
  BY LogsFacts DEF TypesOK, Entries
<1>2. DOMAIN log = 1 .. Len(log) /\ DOMAIN log' = 1 .. Len(log')
  BY <1>1, LenProperties
<1>3. ASSUME e = "start" PROVE Active(log')
  <2>1. Len(log) + 1 \in DOMAIN log' /\ log'[Len(log) + 1] = "start"
    BY <1>1, <1>2, <1>3
  <2>2. \A j \in Len(log) + 1 .. Len(log') : log'[j] # "end"
    BY <1>1, <1>3
  <2> QED BY <2>1, <2>2 DEF Active
<1>4. ASSUME e = "other", Active(log) PROVE Active(log')
  <2>1. PICK i \in DOMAIN log : log[i] = "start" /\ \A j \in i .. Len(log) : log[j] # "end"
    BY <1>4 DEF Active
  <2>2. i \in DOMAIN log' /\ log'[i] = "start"
    BY <1>1, <1>2, <2>1
  <2>3. \A j \in i .. Len(log') : log'[j] # "end"
    <3>1. ASSUME NEW j \in i .. Len(log') PROVE log'[j] # "end"
      <4>1. CASE j = Len(log) + 1
        BY <1>1, <1>4, <4>1
      <4>2. CASE j # Len(log) + 1
        <5>1. j \in i .. Len(log) /\ j \in 1 .. Len(log)
          BY <1>1, <1>2, <2>1, <4>2
        <5> QED BY <1>1, <2>1, <5>1
      <4> QED BY <4>1, <4>2
    <3> QED BY <3>1
  <2> QED BY <2>2, <2>3 DEF Active
<1> QED BY <1>3, <1>4

\* Only what the peer announces comes up.
LEMMA GreetStays ==
    ASSUME TypesOK, ConnInv, GreetInv, peers' = peers,
           \A b \in Conns : /\ conn'[b].proc = conn[b].proc
                            /\ conn'[b].alive => conn[b].alive
                            /\ conn'[b].authOpen = conn[b].authOpen
                            /\ \/ conn'[b].up = conn[b].up
                               \/ conn[b].alive /\ conn'[b].up = Append(conn[b].up, Announce),
           Active(log) => Active(log')
    PROVE  GreetInv'
<1>1. \A b \in Conns : HelloFirst(conn[b].up) => HelloFirst(conn'[b].up)
  <2>1. ASSUME NEW u \in Seq(UpMessage), HelloFirst(u)
        PROVE  HelloFirst(Append(u, Announce))
    <3>1. Announce \in UpMessage
      BY DEF Announce, UpMessage
    <3>2. 1 \in 1 .. Len(u) /\ Len(u) \in Nat
      BY <2>1, LenProperties, EmptySeq DEF HelloFirst
    <3>3. /\ Append(u, Announce) \in Seq(UpMessage) /\ Len(Append(u, Announce)) = Len(u) + 1
          /\ Append(u, Announce)[1] = u[1]
      BY <3>1, <3>2, AppendProperties
    <3>4. Append(u, Announce) # <<>>
      BY <3>2, <3>3, EmptySeq
    <3> QED BY <2>1, <3>3, <3>4 DEF HelloFirst
  <2> QED BY <2>1, ConnTyped
<1>2. \A q \in peers' : ~q.hello => HelloFirst(conn'[q.conn].up)
  BY <1>1, PeersTyped DEF GreetInv
<1>3. \A c \in Conns : conn'[c].alive /\ ~conn'[c].authOpen => HelloFirst(conn'[c].up)
  BY <1>1 DEF GreetInv
<1>4. ASSUME NEW q \in peers', NEW c \in Conns, c # q.conn, conn'[c].proc = q.proc,
             conn'[c].authOpen
      PROVE  conn'[c].up = <<>>
  <2>1. conn[c].authOpen /\ conn[c].proc = q.proc /\ conn[c].up = <<>>
    BY <1>4 DEF GreetInv
  <2>2. ~conn[c].alive
    <3>1. ASSUME conn[c].alive PROVE FALSE
      <4>1. PICK r \in peers : r.conn = c
        BY <2>1, <3>1 DEF ConnInv
      <4>2. r = q
        BY <1>4, <2>1, <4>1 DEF ConnInv
      <4> QED BY <1>4, <4>1, <4>2
    <3> QED BY <3>1
  <2> QED BY <2>1, <2>2
<1>5. RejoinStands' /\ \A q \in peers' : q.joined => q.hello
  BY DEF GreetInv, RejoinStands
<1> QED BY <1>2, <1>3, <1>4, <1>5 DEF GreetInv

LEMMA AuthorityGreet ==
    ASSUME IInv, AuthorityStep
    PROVE  GreetInv'
<1>0. TypesOK /\ ConnInv /\ GreetInv
  BY DEF IInv
<1>1. CASE OthersSubmit
  <2>1. Logs("other") /\ UNCHANGED <<peers, conn>>
    BY <1>1 DEF OthersSubmit
  <2>2. Active(log) => Active(log')
    BY <1>0, <2>1, ActiveLog DEF Entries
  <2> QED BY <1>0, <2>1, <2>2, GreetStays
<1>2. CASE Publish
  <2>1. UNCHANGED <<peers, log>>
    BY <1>2 DEF Publish
  <2>2. \A b \in Conns : /\ conn'[b].proc = conn[b].proc /\ conn'[b].alive = conn[b].alive
                         /\ conn'[b].authOpen = conn[b].authOpen /\ conn'[b].up = conn[b].up
    BY <1>0, <1>2, PublishEffect
  <2> QED BY <1>0, <2>1, <2>2, GreetStays
<1>3. CASE Starts
  BY <1>0, <1>3, GreetStays DEF Starts
<1>4. CASE AuthorityCrashes
  <2>1. peers' = {}
    BY <1>4 DEF AuthorityCrashes
  <2>2. \A b \in Conns : ~conn'[b].alive
    BY <1>0, <1>4, AuthorityCrashesEffect
  <2> QED BY <2>1, <2>2 DEF GreetInv, RejoinStands
<1>5. ASSUME NEW c \in Conns, AuthorityAttaches(c)
      PROVE  GreetInv'
  <2> DEFINE new == [proc |-> conn[c].proc, conn |-> c, hello |-> FALSE, joined |-> FALSE]
  <2>1. /\ UNCHANGED log /\ conn[c].alive /\ ~conn[c].authOpen
        /\ peers' = {q \in peers : q.proc # conn[c].proc} \cup {new}
    BY <1>5 DEF AuthorityAttaches, Registered
  <2>2. \A b \in Conns : /\ conn'[b].proc = conn[b].proc /\ conn'[b].alive = conn[b].alive
                         /\ conn'[b].up = IF b # c /\ conn[b].proc = conn[c].proc
                                          THEN <<>> ELSE conn[b].up
                         /\ b # c => conn'[b].authOpen = conn[b].authOpen
                         /\ conn'[c].authOpen
    <3>1. \A b \in Conns : /\ conn'[b].proc = conn[b].proc /\ conn'[b].alive = conn[b].alive
                           /\ conn'[b].authOpen = (conn[b].authOpen \/ b = c)
                           /\ conn'[b].up = IF b # c /\ conn[b].proc = conn[c].proc
                                            THEN <<>> ELSE conn[b].up
      BY <1>0, <1>5, AuthorityAttachesEffect
    <3>2. \A b \in Conns : conn[b].authOpen \in BOOLEAN
      BY <1>0, ConnTyped DEF ConnType
    <3> QED BY <3>1, <3>2
  <2>3. \A b \in Conns : conn[b].alive => b = c
    BY <1>0, <2>1 DEF ConnInv
  <2>4. new.proc = conn[c].proc /\ new.conn = c /\ ~new.hello /\ ~new.joined
    OBVIOUS
  <2> HIDE DEF new
  <2>5. \A q \in peers' : (q.joined => Active(log')) /\ (q.joined => q.hello)
    BY <1>0, <2>1, <2>4 DEF GreetInv, RejoinStands
  <2>6. \A q \in peers' : ~q.hello => HelloFirst(conn'[q.conn].up)
    <3>1. HelloFirst(conn'[c].up)
      BY <1>0, <2>1, <2>2 DEF GreetInv
    <3>2. ASSUME NEW q \in peers, q.proc # conn[c].proc, ~q.hello
          PROVE  HelloFirst(conn'[q.conn].up)
      <4>1. q.conn \in Conns /\ conn[q.conn].proc = q.proc
        BY <1>0, PeersTyped DEF ConnInv
      <4> QED BY <1>0, <2>2, <3>2, <4>1 DEF GreetInv
    <3> QED BY <2>1, <2>4, <3>1, <3>2
  <2>7. \A b \in Conns : conn'[b].alive /\ ~conn'[b].authOpen => HelloFirst(conn'[b].up)
    BY <2>2, <2>3
  <2>8. ASSUME NEW q \in peers', NEW b \in Conns, b # q.conn, conn'[b].proc = q.proc,
               conn'[b].authOpen
        PROVE  conn'[b].up = <<>>
    <3>1. CASE q = new
      BY <2>2, <2>4, <2>8, <3>1
    <3>2. CASE q \in peers /\ q.proc # conn[c].proc
      BY <1>0, <2>2, <2>8, <3>2 DEF GreetInv
    <3> QED BY <2>1, <3>1, <3>2
  <2> QED BY <2>5, <2>6, <2>7, <2>8 DEF GreetInv, RejoinStands
<1>6. ASSUME NEW c \in Conns, AuthorityReceives(c)
      PROVE  GreetInv'
  <2>1. /\ conn[c].authOpen /\ conn[c].up # <<>> /\ Head(conn[c].up) = conn[c].up[1]
        /\ \A b \in Conns : /\ conn'[b].proc = conn[b].proc /\ conn'[b].alive = conn[b].alive
                            /\ conn'[b].authOpen = conn[b].authOpen
                            /\ b # c => conn'[b].up = conn[b].up
    BY <1>0, <1>6, AuthorityReceivesEffect
  <2>2. \A b \in Conns : conn'[b].alive /\ ~conn'[b].authOpen => HelloFirst(conn'[b].up)
    BY <1>0, <2>1 DEF GreetInv
  <2>3. ASSUME peers' = peers, UNCHANGED log, \A q \in peers : q.proc # conn[c].proc
        PROVE  GreetInv'
    <3>1. \A q \in peers : q.conn \in Conns \ {c}
      BY <1>0, <2>3, PeersTyped DEF ConnInv
    <3>2. \A q \in peers' : ~q.hello => HelloFirst(conn'[q.conn].up)
      BY <1>0, <2>1, <2>3, <3>1 DEF GreetInv
    <3>3. ASSUME NEW q \in peers', NEW b \in Conns, b # q.conn, conn'[b].proc = q.proc,
                 conn'[b].authOpen
          PROVE  conn'[b].up = <<>>
      <4>1. b # c
        BY <2>1, <2>3, <3>3
      <4> QED BY <1>0, <2>1, <2>3, <3>3, <4>1 DEF GreetInv
    <3> QED BY <1>0, <2>2, <2>3, <3>2, <3>3 DEF GreetInv, RejoinStands
  <2>4. ASSUME NEW q \in peers, q.proc = conn[c].proc, NEW r,
               peers' = (peers \ {q}) \cup {r}, r.proc = q.proc, r.conn = q.conn,
               r.hello, Active(log) => Active(log'), r.joined => (q.joined \/ Active(log'))
        PROVE  GreetInv'
    <3>1. q.conn = c
      BY <1>0, <2>1, <2>4 DEF GreetInv
    <3>2. \A p \in peers : p # q => p.proc # conn[c].proc /\ p.conn \in Conns \ {c}
      BY <1>0, <2>4, PeersTyped DEF ConnInv
    <3>3. \A p \in peers' : (p.joined => Active(log')) /\ (p.joined => p.hello)
      BY <1>0, <2>4 DEF GreetInv, RejoinStands
    <3>4. \A p \in peers' : ~p.hello => HelloFirst(conn'[p.conn].up)
      BY <1>0, <2>1, <2>4, <3>2 DEF GreetInv
    <3>5. ASSUME NEW p \in peers', NEW b \in Conns, b # p.conn, conn'[b].proc = p.proc,
                 conn'[b].authOpen
          PROVE  conn'[b].up = <<>>
      <4>1. CASE p = r
        BY <1>0, <2>1, <2>4, <3>1, <3>5, <4>1 DEF GreetInv
      <4>2. CASE p \in peers /\ p # q
        <5>1. b # c
          BY <2>1, <3>2, <3>5, <4>2
        <5> QED BY <1>0, <2>1, <3>5, <4>2, <5>1 DEF GreetInv
      <4> QED BY <2>4, <4>1, <4>2
    <3> QED BY <2>2, <3>3, <3>4, <3>5 DEF GreetInv, RejoinStands
  <2>5. ASSUME NEW q \in peers, q.proc = conn[c].proc, UNCHANGED log,
               peers' = (peers \ {q}) \cup {[q EXCEPT !.hello = TRUE]}
        PROVE  GreetInv'
    <3> DEFINE r == [q EXCEPT !.hello = TRUE]
    <3>1. r.proc = q.proc /\ r.conn = q.conn /\ r.hello /\ r.joined = q.joined
      BY <1>0, PeersTyped
    <3> HIDE DEF r
    <3>2. peers' = (peers \ {q}) \cup {r}
      BY <2>5 DEF r
    <3> QED BY <2>4, <2>5, <3>1, <3>2
  <2>6. ASSUME NEW q \in peers, q.proc = conn[c].proc, Logs("start"),
               Head(conn[c].up).type = "SUBMIT",
               peers' = (peers \ {q}) \cup {[q EXCEPT !.joined = TRUE]}
        PROVE  GreetInv'
    <3> DEFINE r == [q EXCEPT !.joined = TRUE]
    <3>1. r.proc = q.proc /\ r.conn = q.conn /\ r.hello = q.hello
      BY <1>0, PeersTyped
    <3> HIDE DEF r
    <3>2. peers' = (peers \ {q}) \cup {r}
      BY <2>6 DEF r
    <3>3. Active(log')
      BY <1>0, <2>6, ActiveLog DEF Entries
    <3>4. q.conn = c
      BY <1>0, <2>1, <2>6 DEF GreetInv
    <3>5. q.hello
      BY <1>0, <2>1, <2>6, <3>4 DEF GreetInv, HelloFirst
    <3> QED BY <2>4, <2>6, <3>1, <3>2, <3>3, <3>5
  <2> QED BY <1>6, <2>3, <2>5, <2>6 DEF AuthorityReceives
<1>7. ASSUME NEW c \in Conns, AuthorityCloses(c)
      PROVE  GreetInv'
  <2>1. /\ ~conn[c].alive
        /\ \A b \in Conns : /\ conn'[b].proc = conn[b].proc /\ conn'[b].alive = conn[b].alive
                            /\ b # c => conn'[b].authOpen = conn[b].authOpen
                            /\ conn'[b].up = IF b = c THEN <<>> ELSE conn[b].up
                            /\ ~conn'[c].authOpen
    <3>1. \A b \in Conns : /\ conn'[b].proc = conn[b].proc /\ conn'[b].alive = conn[b].alive
                           /\ conn'[b].authOpen = (conn[b].authOpen /\ b # c)
                           /\ conn'[b].up = IF b = c THEN <<>> ELSE conn[b].up
      BY <1>0, <1>7, AuthorityClosesEffect
    <3>2. \A b \in Conns : conn[b].authOpen \in BOOLEAN
      BY <1>0, ConnTyped DEF ConnType
    <3>3. ~conn[c].alive
      BY <1>7 DEF AuthorityCloses
    <3> QED BY <3>1, <3>2, <3>3
  <2>2. peers' \subseteq peers /\ \A q \in peers' : q.conn \in Conns \ {c}
    <3>1. \A p, q \in peers : p.conn = q.conn => p = q
      BY <1>0 DEF ConnInv
    <3> QED BY <1>0, <1>7, <3>1, PeersTyped DEF AuthorityCloses
  <2>3. \A q \in peers' : q.joined => Active(log')
    <3>1. CASE UNCHANGED log
      BY <1>0, <2>2, <3>1 DEF GreetInv, RejoinStands
    <3>2. ASSUME NEW q \in peers, peers' = peers \ {q}, ~SessionReconnected(q)
          PROVE  \A p \in peers' : ~p.joined
      BY <1>0, <3>2 DEF GreetInv, SessionReconnected
    <3>3. UNCHANGED log \/ \E q \in peers : peers' = peers \ {q} /\ ~SessionReconnected(q)
      BY <1>7 DEF AuthorityCloses
    <3> QED BY <3>1, <3>2, <3>3
  <2>4. \A q \in peers' : ~q.hello => HelloFirst(conn'[q.conn].up)
    BY <1>0, <2>1, <2>2 DEF GreetInv
  <2>5. \A b \in Conns : conn'[b].alive /\ ~conn'[b].authOpen => HelloFirst(conn'[b].up)
    BY <1>0, <2>1 DEF GreetInv
  <2>6. ASSUME NEW q \in peers', NEW b \in Conns, b # q.conn, conn'[b].proc = q.proc,
               conn'[b].authOpen
        PROVE  conn'[b].up = <<>>
    <3>1. b # c
      BY <2>1, <2>6
    <3> QED BY <1>0, <2>1, <2>2, <2>6, <3>1 DEF GreetInv
  <2>7. \A q \in peers' : q.joined => q.hello
    BY <1>0, <2>2 DEF GreetInv
  <2> QED BY <2>3, <2>4, <2>5, <2>6, <2>7 DEF GreetInv, RejoinStands
<1> QED BY <1>1, <1>2, <1>3, <1>4, <1>5, <1>6, <1>7 DEF AuthorityStep

LEMMA PeerGreet ==
    ASSUME IInv, PeerStep \/ \E c \in Conns : Breaks(c)
    PROVE  GreetInv'
<1>0. TypesOK /\ ConnInv /\ GreetInv
  BY DEF IInv
<1>1. UNCHANGED <<log, peers>>
  BY DEF PeerStep, PeerReceives, Grows, Joins, ReplayEnds, Connects, PeerCloses,
         PeerRestarts, Breaks, authVars
<1>2. ASSUME NEW c \in Conns, PeerReceives(c)
      PROVE  GreetInv'
  BY <1>0, <1>1, <1>2, PeerReceivesEffect, GreetStays
<1>3. CASE Grows \/ Joins \/ ReplayEnds
  <2>1. UNCHANGED conn
    BY <1>3 DEF Grows, Joins, ReplayEnds
  <2> QED BY <1>0, <1>1, <2>1, GreetStays
<1>4. ASSUME NEW c \in Conns, Connects(c)
      PROVE  GreetInv'
  <2>1. \A b \in Conns : ~conn[b].alive
    BY <1>0, <1>4 DEF Connects, ConnInv
  <2>2. \A b \in Conns : /\ b # c => /\ conn'[b].proc = conn[b].proc
                                     /\ conn'[b].authOpen = conn[b].authOpen
                                     /\ conn'[b].up = conn[b].up
                                     /\ ~conn'[b].alive
                         /\ ~conn[c].authOpen /\ ~conn'[c].authOpen
                         /\ conn'[c].up = <<Hello>>
    <3>1. \A b \in Conns : /\ conn'[b].proc = IF b = c THEN proc ELSE conn[b].proc
                           /\ conn'[b].alive = (b = c \/ conn[b].alive)
                           /\ conn'[b].authOpen = (conn[b].authOpen /\ b # c)
                           /\ conn'[b].up = IF b = c THEN <<Hello>> ELSE conn[b].up
                           /\ b = c => ~conn[b].authOpen
      BY <1>0, <1>4, ConnectsEffect
    <3>2. \A b \in Conns : conn[b].authOpen \in BOOLEAN
      BY <1>0, ConnTyped DEF ConnType
    <3> QED BY <2>1, <3>1, <3>2
  <2>3. HelloFirst(<<Hello>>)
    BY DEF HelloFirst, Hello
  <2>4. \A q \in peers' : q.conn \in Conns \ {c}
    BY <1>0, <1>1, <2>2, PeersTyped DEF ConnInv
  <2>5. \A q \in peers' : ~q.hello => HelloFirst(conn'[q.conn].up)
    BY <1>0, <1>1, <2>2, <2>4 DEF GreetInv
  <2>6. \A b \in Conns : conn'[b].alive /\ ~conn'[b].authOpen => HelloFirst(conn'[b].up)
    BY <2>2, <2>3
  <2>7. \A q \in peers', b \in Conns :
            b # q.conn /\ conn'[b].proc = q.proc /\ conn'[b].authOpen => conn'[b].up = <<>>
    BY <1>0, <1>1, <2>2 DEF GreetInv
  <2> QED BY <1>0, <1>1, <2>5, <2>6, <2>7 DEF GreetInv, RejoinStands
<1>5. ASSUME NEW c \in Conns, PeerCloses(c)
      PROVE  GreetInv'
  BY <1>0, <1>1, <1>5, PeerClosesEffect, GreetStays
<1>6. CASE PeerRestarts
  BY <1>0, <1>1, <1>6, PeerRestartsEffect, GreetStays
<1>7. ASSUME NEW c \in Conns, Breaks(c)
      PROVE  GreetInv'
  <2>1. \A b \in Conns : /\ conn'[b].proc = conn[b].proc
                         /\ conn'[b].alive = (conn[b].alive /\ b # c)
                         /\ conn'[b].authOpen = conn[b].authOpen /\ conn'[b].up = conn[b].up
    BY <1>0, <1>7, BreaksEffect
  <2> QED BY <1>0, <1>1, <2>1, GreetStays
<1> QED BY <1>2, <1>3, <1>4, <1>5, <1>6, <1>7 DEF PeerStep

LEMMA StepGreet ==
    ASSUME IInv, [Next]_vars
    PROVE  GreetInv'
<1>1. CASE UNCHANGED vars
  BY <1>1 DEF IInv, GreetInv, RejoinStands, vars, authVars
<1> QED BY <1>1, AuthorityGreet, PeerGreet DEF Next
-----------------------------------------------------------------------------
(***************************************************************************)
(* The order of the frames, whatever the Hypercore holds.                  *)
(***************************************************************************)
LEMMA NewerMore ==
    ASSUME NEW d \in Seq(DownMessage), NEW e \in DownMessage, NEW m, Newer(d, m),
           e.type = "WELCOME" => m <= e.hi
    PROVE  Newer(Append(d, e), m)
<1>1. /\ Len(Append(d, e)) = Len(d) + 1 /\ Len(d) \in Nat
      /\ Append(d, e)[Len(d) + 1] = e
      /\ \A j \in 1 .. Len(d) : Append(d, e)[j] = d[j]
  BY AppendProperties, LenProperties
<1> QED BY <1>1 DEF Newer

LEMMA WelcomeIs ==
    ASSUME Len(log) \in Nat, Len(core) \in Nat
    PROVE  /\ Welcome \in DownMessage /\ Welcome.type = "WELCOME"
           /\ Welcome.lo = Len(core) /\ Welcome.hi = Len(log)
BY DEF Welcome, DownMessage

LEMMA NewerAnswered ==
    ASSUME NEW d \in Seq(DownMessage), NEW a, Answered(d, a), Len(log) \in Nat,
           Len(core) \in Nat, NEW m \in 0 .. Len(log), Newer(d, m)
    PROVE  Newer(a, m)
<1> DEFINE e == Append(d, Welcome)
<1>1. e \in Seq(DownMessage) /\ Newer(e, m)
  BY WelcomeIs, NewerMore, AppendProperties
<1> HIDE DEF e
<1>2. a = e \/ \E f \in DownMessage : f.type = "EVENTS" /\ a = Append(e, f)
  BY DEF Answered, e
<1> QED BY <1>1, <1>2, NewerMore

\* More blocks say nothing new of those that were there.
LEMMA KnownStays ==
    ASSUME NEW d, NEW k, NEW j, NEW n, Known(d, k, n), Len(k) \in Nat, Len(j) \in Nat,
           Len(k) <= Len(j), \A i \in 1 .. Len(k) : j[i] = k[i],
           \A i \in 1 .. Len(d) : d[i].lo \in Nat
    PROVE  Known(d, j, n)
BY DEF Known

LEMMA OrderEmpty ==
    ASSUME NEW d, d = <<>>, NEW l, NEW s, NEW k, NEW n
    PROVE  Below(d, l) /\ Rising(d) /\ Newer(d, s) /\ Known(d, k, n)
<1>1. 1 .. Len(d) = {}
  BY EmptySeq
<1> QED BY <1>1 DEF Below, Rising, Newer, Known

\* A connection whose frames stay.
LEMMA OrderStays ==
    ASSUME TypesOK, NEW c \in Conns, InOrder(conn[c].down), conn'[c].down = conn[c].down,
           Len(log') \in Nat, Len(log) <= Len(log'), UNCHANGED <<room, core, length>>
    PROVE  InOrder(conn[c].down)'
<1>1. \A i \in 1 .. Len(conn[c].down) : conn[c].down[i] \in DownMessage
  BY ConnTyped
<1>2. \A i \in 1 .. Len(conn[c].down) : conn[c].down[i].hi \in Nat
  BY <1>1 DEF DownMessage
<1>3. Below(conn[c].down, Len(log'))
  BY <1>2, ConnTyped DEF InOrder, Below
<1> QED BY <1>3 DEF InOrder

LEMMA PublishOrder ==
    ASSUME IInv, Publish
    PROVE  OrderInv'
<1> DEFINE b == Head(publishing)
           e == Events(b)
<1>0. TypesOK /\ OrderInv /\ BoundInv
  BY DEF IInv
<1>1. /\ publishing # <<>> /\ core' = core \o SeqsOf(b)
      /\ UNCHANGED <<log, room, length>>
  BY DEF Publish, daemonVars, replayVars
<1>2. /\ b \in Batch /\ 1 <= b.lo /\ b.lo <= b.hi /\ b.hi <= Len(log)
      /\ core \in Seq(Nat) /\ Len(log) \in Nat /\ Len(core) \in Nat
  BY <1>0, <1>1, HeadFacts, ConnTyped DEF BoundInv, TypesOK
<1>3. /\ Len(core') \in Nat /\ Len(core) <= Len(core')
      /\ \A i \in 1 .. Len(core) : core'[i] = core[i]
  <2> HIDE DEF b
  <2> QED BY <1>1, <1>2, BlocksAppended
<1>4. /\ e \in DownMessage /\ e.type = "EVENTS" /\ e.lo >= 1 /\ e.hi <= Len(log)
      /\ e.type # "WELCOME"
  BY <1>2 DEF Events, DownMessage, Batch
<1>5. ASSUME NEW c \in Conns PROVE InOrder(conn[c].down)'
  <2> DEFINE d == conn[c].down
  <2>1. conn'[c].down = d \/ conn'[c].down = Append(d, e)
    BY <1>0, PublishEffect
  <2>2. /\ d \in Seq(DownMessage) /\ \A i \in 1 .. Len(d) : d[i] \in DownMessage
    BY <1>0, ConnTyped
  <2>3. \A i \in 1 .. Len(d) : d[i].lo \in Nat
    BY <2>2 DEF DownMessage
  <2>4. /\ Below(d, Len(log)) /\ Rising(d) /\ Newer(d, room.lastSeq)
        /\ Known(d, core, length)
    BY <1>0 DEF OrderInv, InOrder
  <2> HIDE DEF d, e
  <2>5. Known(d, core', length)
    BY <1>2, <1>3, <2>3, <2>4, KnownStays
  <2>6. /\ Below(Append(d, e), Len(log)) /\ Rising(Append(d, e))
    BY <1>2, <1>4, <2>2, <2>4, OrderOfMore
  <2>7. Newer(Append(d, e), room.lastSeq) /\ Known(Append(d, e), core', length)
    BY <1>4, <2>2, <2>4, <2>5, NewerMore, KnownMore
  <2> QED BY <1>1, <2>1, <2>4, <2>5, <2>6, <2>7 DEF InOrder
<1> QED BY <1>5 DEF OrderInv

\* The answer to HELLO follows what has been sent.
LEMMA AnswerOrder ==
    ASSUME TypesOK, BoundInv, NEW c \in Conns, InOrder(conn[c].down),
           Answered(conn[c].down, conn'[c].down), UNCHANGED <<log, room, core, length>>
    PROVE  InOrder(conn[c].down)'
<1> DEFINE d == conn[c].down
           e == Append(d, Welcome)
<1>1. /\ d \in Seq(DownMessage) /\ Len(log) \in Nat /\ Len(core) \in Nat
      /\ room.lastSeq \in 0 .. Len(log) /\ length \in 0 .. Len(core)
  BY ConnTyped DEF TypesOK
<1>2. /\ Below(d, Len(log)) /\ Rising(d) /\ Newer(d, room.lastSeq) /\ Known(d, core, length)
  BY DEF InOrder
<1>3. /\ Welcome \in DownMessage /\ Welcome.type = "WELCOME"
      /\ Welcome.lo = Len(core) /\ Welcome.hi = Len(log)
  BY <1>1, WelcomeIs
<1>4. \A j \in 1 .. Len(core) : core[j] <= Len(log)
  BY <1>1 DEF BoundInv
<1> HIDE DEF d
<1>5. e \in Seq(DownMessage)
  BY <1>1, <1>3, AppendProperties
<1>6. Below(e, Len(log)) /\ Rising(e)
  BY <1>1, <1>2, <1>3, OrderOfMore
<1>7. Newer(e, room.lastSeq)
  BY <1>1, <1>2, <1>3, NewerMore
<1>8. Known(e, core, length)
  BY <1>1, <1>2, <1>3, <1>4, KnownMore
<1>9. \/ conn'[c].down = e
      \/ \E m \in DownMessage : /\ m.type = "EVENTS" /\ 1 <= m.lo /\ m.hi = Len(log)
                                /\ conn'[c].down = Append(e, m)
  BY DEF Answered, d
<1> HIDE DEF e
<1>10. ASSUME NEW m \in DownMessage, m.type = "EVENTS", 1 <= m.lo, m.hi = Len(log)
       PROVE  /\ Below(Append(e, m), Len(log)) /\ Rising(Append(e, m))
              /\ Newer(Append(e, m), room.lastSeq) /\ Known(Append(e, m), core, length)
  <2>1. m.hi <= Len(log) /\ m.lo >= 1 /\ m.type # "WELCOME"
    BY <1>1, <1>10 DEF DownMessage
  <2>2. Below(Append(e, m), Len(log)) /\ Rising(Append(e, m))
    BY <1>1, <1>5, <1>6, <1>10, <2>1, OrderOfMore
  <2>3. Newer(Append(e, m), room.lastSeq) /\ Known(Append(e, m), core, length)
    BY <1>5, <1>7, <1>8, <2>1, NewerMore, KnownMore
  <2> QED BY <2>2, <2>3
<1> QED BY <1>6, <1>7, <1>8, <1>9, <1>10 DEF InOrder

LEMMA AuthorityOrder ==
    ASSUME IInv, AuthorityStep
    PROVE  OrderInv'
<1>0. TypesOK /\ BoundInv /\ OrderInv /\ Len(log) \in Nat
  BY ConnTyped DEF IInv
<1>1. ASSUME UNCHANGED <<room, core, length>>,
             log' = log \/ (\E e \in Entries : Logs(e)),
             \A c \in Conns : conn'[c].down = conn[c].down
      PROVE  OrderInv'
  <2>1. Len(log') \in Nat /\ Len(log) <= Len(log')
    BY <1>0, <1>1, LogsFacts
  <2> QED BY <1>0, <1>1, <2>1, OrderStays DEF OrderInv
<1>2. CASE OthersSubmit \/ Starts
  <2>1. /\ UNCHANGED <<room, core, length, conn>>
        /\ log' = log \/ Logs("other")
    BY <1>2 DEF OthersSubmit, Starts, daemonVars, replayVars
  <2> QED BY <1>1, <2>1 DEF Entries
<1>3. CASE AuthorityCrashes
  <2>1. UNCHANGED <<room, core, length, log>>
    BY <1>3 DEF AuthorityCrashes, daemonVars, replayVars
  <2> QED BY <1>0, <1>1, <1>3, <2>1, AuthorityCrashesEffect
<1>4. ASSUME NEW c \in Conns, AuthorityAttaches(c)
      PROVE  OrderInv'
  <2>1. UNCHANGED <<room, core, length, log>>
    BY <1>4 DEF AuthorityAttaches, daemonVars, replayVars
  <2> QED BY <1>0, <1>1, <1>4, <2>1, AuthorityAttachesEffect
<1>5. ASSUME NEW c \in Conns, AuthorityCloses(c)
      PROVE  OrderInv'
  <2>1. UNCHANGED <<room, core, length>> /\ (log' = log \/ Logs("end"))
    BY <1>5 DEF AuthorityCloses, daemonVars, replayVars
  <2> QED BY <1>0, <1>1, <1>5, <2>1, AuthorityClosesEffect DEF Entries
<1>6. ASSUME NEW c \in Conns, AuthorityReceives(c)
      PROVE  OrderInv'
  <2>1. UNCHANGED <<room, core, length>> /\ (log' = log \/ Logs("start"))
    BY <1>6 DEF AuthorityReceives, daemonVars, replayVars
  <2>2. Len(log') \in Nat /\ Len(log) <= Len(log')
    BY <1>0, <2>1, LogsFacts DEF Entries
  <2>3. ASSUME NEW b \in Conns PROVE InOrder(conn[b].down)'
    <3>1. \/ conn'[b].down = conn[b].down
          \/ UNCHANGED log /\ Answered(conn[b].down, conn'[b].down)
      BY <1>0, <1>6, AuthorityReceivesEffect
    <3>2. InOrder(conn[b].down)
      BY <1>0 DEF OrderInv
    <3> QED BY <1>0, <2>1, <2>2, <3>1, <3>2, OrderStays, AnswerOrder
  <2> QED BY <2>3 DEF OrderInv
<1> QED BY <1>2, <1>3, <1>4, <1>5, <1>6, PublishOrder DEF AuthorityStep

\* What takes a frame: nothing that it brings is newer than a WELCOME behind it.
LEMMA PeerReceivesOrder ==
    ASSUME IInv, NEW c \in Conns, PeerReceives(c)
    PROVE  OrderInv' /\ room.lastSeq <= room'.lastSeq
<1> DEFINE d == conn[c].down
           msg == Head(conn[c].down)
<1>0. TypesOK /\ ConnInv /\ OrderInv
  BY DEF IInv
<1>1. /\ d \in Seq(DownMessage) /\ d # <<>> /\ msg = d[1] /\ msg \in DownMessage
      /\ 1 \in 1 .. Len(d)
      /\ Len(log) \in Nat /\ room.lastSeq \in Nat /\ c = channel
  <2>1. d \in Seq(DownMessage) /\ d # <<>> /\ c = channel
    BY <1>0, ConnTyped DEF PeerReceives, ConnInv
  <2>2. Len(log) \in Nat /\ room.lastSeq \in Nat
    BY <1>0, ConnTyped DEF TypesOK
  <2> QED BY <2>1, <2>2, TailFacts
<1>2. /\ UNCHANGED <<log, core, length>>
  BY DEF PeerReceives, authVars, replayVars
<1>3. /\ Below(d, Len(log)) /\ Rising(d) /\ Newer(d, room.lastSeq) /\ Known(d, core, length)
  BY <1>0 DEF OrderInv, InOrder
<1>4. msg.lo \in Nat /\ msg.hi \in Nat /\ (msg.type = "EVENTS" => msg.lo >= 1) /\ msg.hi <= Len(log)
  BY <1>1, <1>3 DEF DownMessage, Below
<1>5. /\ room.lastSeq <= room'.lastSeq
      /\ room'.lastSeq = room.lastSeq \/ (room'.lastSeq \in Nat /\ room'.lastSeq <= msg.hi)
  <2>1. CASE msg.type = "EVENTS" /\ Emits(msg.lo .. msg.hi)
    <3>1. msg.lo .. msg.hi \subseteq 1 .. Len(log)
      BY <1>1, <1>4, <2>1
    <3>2. /\ room.lastSeq <= room'.lastSeq
          /\ room'.lastSeq \in {room.lastSeq} \cup (msg.lo .. msg.hi)
      BY <1>0, <2>1, <3>1, EmitsTyped
    <3> QED BY <1>4, <3>2
  <2>2. CASE msg.type = "WELCOME" /\ room' = Welcomed(msg.hi)
    <3>1. room'.lastSeq = msg.hi
      BY <2>2 DEF Welcomed
    <3>2. room.lastSeq <= msg.hi
      BY <1>1, <1>3, <2>2 DEF Newer
    <3> QED BY <1>4, <3>1, <3>2
  <2> QED BY <2>1, <2>2 DEF PeerReceives
<1>6. \A b \in Conns : conn'[b].down = IF b = c THEN Tail(d) ELSE conn[b].down
  BY <1>0, PeerReceivesEffect
<1>7. ASSUME NEW b \in Conns, b # c PROVE InOrder(conn[b].down)'
  <2>1. conn'[b].down = <<>>
    BY <1>0, <1>1, <1>6, <1>7 DEF ConnInv
  <2> QED BY <2>1, OrderEmpty DEF InOrder
<1>8. InOrder(conn[c].down)'
  <2>1. conn'[c].down = Tail(d)
    BY <1>6
  <2>2. d[1].hi = msg.hi
    BY <1>1
  <2> HIDE DEF d, msg
  <2>3. /\ Rising(Tail(d)) /\ Newer(Tail(d), d[1].hi)
        /\ \A m \in Nat : Newer(d, m) => Newer(Tail(d), m)
        /\ \A m \in Nat : Below(d, m) => Below(Tail(d), m)
    BY <1>1, <1>3, OrderOfFewer
  <2>4. Known(Tail(d), core, length)
    BY <1>1, <1>3, KnownFewer
  <2>5. Newer(Tail(d), room'.lastSeq)
    <3>1. CASE room'.lastSeq = room.lastSeq
      BY <1>1, <1>3, <2>3, <3>1
    <3>2. CASE room'.lastSeq \in Nat /\ room'.lastSeq <= msg.hi
      <4>1. \A i \in 1 .. Len(Tail(d)) : Tail(d)[i] \in DownMessage
        BY <1>1, TailFacts, ElementOfSeq
      <4>2. \A i \in 1 .. Len(Tail(d)) : Tail(d)[i].hi \in Nat
        BY <4>1 DEF DownMessage
      <4> QED BY <1>4, <2>2, <2>3, <3>2, <4>2 DEF Newer
    <3> QED BY <1>5, <3>1, <3>2
  <2> QED BY <1>1, <1>2, <1>3, <2>1, <2>3, <2>4, <2>5 DEF InOrder
<1> QED BY <1>5, <1>7, <1>8 DEF OrderInv

\* What reads the Hypercore: a WELCOME on its way is not older than any block there.
LEMMA ReplayEndsOrder ==
    ASSUME IInv, ReplayEnds
    PROVE  OrderInv' /\ room.lastSeq <= room'.lastSeq
<1>0. TypesOK /\ OrderInv /\ BoundInv
  BY DEF IInv
<1>1. PICK from \in replays : Emits({core[i] : i \in from + 1 .. length})
  BY DEF ReplayEnds
<1> DEFINE S == {core[i] : i \in from + 1 .. length}
<1>2. /\ Len(log) \in Nat /\ room.lastSeq \in Nat /\ from \in Nat /\ Len(core) \in Nat
      /\ length \in 0 .. Len(core)
  BY <1>0, ConnTyped DEF TypesOK
<1>3. \A i \in from + 1 .. length : i \in 1 .. Len(core) /\ core[i] \in 1 .. Len(log)
  BY <1>0, <1>2 DEF BoundInv
<1>4. S \subseteq 1 .. Len(log)
  BY <1>3
<1>5. UNCHANGED <<conn, log, core, length>>
  BY DEF ReplayEnds, authVars
<1>6. room.lastSeq <= room'.lastSeq /\ room'.lastSeq \in {room.lastSeq} \cup S
  <2> HIDE DEF S
  <2>1. Emits(S)
    BY <1>1 DEF S
  <2> QED BY <1>0, <1>4, <2>1, EmitsTyped
<1>7. ASSUME NEW c \in Conns PROVE InOrder(conn[c].down)'
  <2> DEFINE d == conn[c].down
  <2>1. Newer(d, room.lastSeq) /\ Known(d, core, length)
    BY <1>0 DEF OrderInv, InOrder
  <2>2. \A i \in 1 .. Len(d) : d[i] \in DownMessage
    BY <1>0, ConnTyped
  <2>3. ASSUME NEW i \in 1 .. Len(d), d[i].type = "WELCOME", NEW j \in from + 1 .. length
        PROVE  core[j] <= d[i].hi
    <3>1. d[i].lo \in Nat
      BY <2>2 DEF DownMessage
    <3>2. length <= d[i].lo /\ \A n \in 1 .. d[i].lo : core[n] <= d[i].hi
      BY <2>1, <2>3 DEF Known
    <3> QED BY <1>2, <3>1, <3>2
  <2>4. Newer(d, room'.lastSeq)
    BY <1>6, <2>1, <2>3 DEF Newer
  <2> QED BY <1>0, <1>5, <2>4 DEF OrderInv, InOrder
<1> QED BY <1>6, <1>7 DEF OrderInv

LEMMA PeerOrder ==
    ASSUME IInv, PeerStep \/ \E c \in Conns : Breaks(c)
    PROVE  OrderInv'
<1>0. TypesOK /\ ConnInv /\ OrderInv /\ Len(log) \in Nat
  BY ConnTyped DEF IInv
<1>1. CASE Grows
  <2>1. PICK c \in Conns, len \in length + 1 .. Len(core) :
           /\ conn[c].alive
           /\ \A i \in DOMAIN conn[c].down :
                 conn[c].down[i].type = "WELCOME" => len <= conn[c].down[i].lo
           /\ length' = len
           /\ UNCHANGED <<conn, log, core, room>>
    BY <1>1 DEF Grows, authVars, daemonVars
  <2>2. ASSUME NEW b \in Conns PROVE InOrder(conn[b].down)'
    <3>1. CASE b # c
      <4>1. conn'[b].down = <<>>
        BY <1>0, <2>1, <3>1 DEF ConnInv
      <4> QED BY <4>1, OrderEmpty DEF InOrder
    <3>2. CASE b = c
      <4>1. InOrder(conn[c].down) /\ conn[c].down \in Seq(DownMessage)
        BY <1>0, ConnTyped DEF OrderInv
      <4>2. DOMAIN conn[c].down = 1 .. Len(conn[c].down)
        BY <4>1, LenProperties
      <4>3. Known(conn[c].down, core, length')
        BY <2>1, <4>1, <4>2 DEF InOrder, Known
      <4> QED BY <2>1, <3>2, <4>1, <4>3 DEF InOrder
    <3> QED BY <3>1, <3>2
  <2> QED BY <2>2 DEF OrderInv
<1>2. ASSUME UNCHANGED <<room, log, core, length>>,
             \A c \in Conns : conn'[c].down = conn[c].down \/ conn'[c].down = <<>>
      PROVE  OrderInv'
  <2>1. ASSUME NEW c \in Conns PROVE InOrder(conn[c].down)'
    <3>1. CASE conn'[c].down = <<>>
      BY <3>1, OrderEmpty DEF InOrder
    <3>2. CASE conn'[c].down = conn[c].down
      BY <1>0, <1>2, <3>2 DEF OrderInv, InOrder
    <3> QED BY <1>2, <3>1, <3>2
  <2> QED BY <2>1 DEF OrderInv
<1>3. CASE Joins
  BY <1>2, <1>3 DEF Joins, authVars, daemonVars
<1>4. ASSUME NEW c \in Conns, Connects(c)
      PROVE  OrderInv'
  <2>1. UNCHANGED <<room, log, core, length>>
    BY <1>4 DEF Connects, authVars, daemonVars, replayVars
  <2> QED BY <1>0, <1>2, <1>4, <2>1, ConnectsEffect
<1>5. ASSUME NEW c \in Conns, PeerCloses(c)
      PROVE  OrderInv'
  <2>1. UNCHANGED <<room, log, core, length>>
    BY <1>5 DEF PeerCloses, authVars, daemonVars, replayVars
  <2> QED BY <1>0, <1>2, <1>5, <2>1, PeerClosesEffect
<1>6. ASSUME NEW c \in Conns, Breaks(c)
      PROVE  OrderInv'
  <2>1. UNCHANGED <<room, log, core, length>>
    BY <1>6 DEF Breaks, authVars, daemonVars, replayVars
  <2> QED BY <1>0, <1>2, <1>6, <2>1, BreaksEffect
<1>7. CASE PeerRestarts
  <2>1. \A c \in Conns : conn'[c].down = <<>>
    BY <1>0, <1>7, PeerRestartsEffect
  <2> QED BY <2>1, OrderEmpty DEF OrderInv, InOrder
<1> QED BY <1>1, <1>3, <1>4, <1>5, <1>6, <1>7, PeerReceivesOrder, ReplayEndsOrder DEF PeerStep

LEMMA StepOrder ==
    ASSUME IInv, [Next]_vars
    PROVE  OrderInv'
<1>1. CASE UNCHANGED vars
  BY <1>1 DEF IInv, OrderInv, InOrder, vars, authVars, daemonVars, replayVars
<1> QED BY <1>1, AuthorityOrder, PeerOrder DEF Next
-----------------------------------------------------------------------------
(***************************************************************************)
(* The room of the peer.                                                   *)
(***************************************************************************)
LEMMA RoomTyped ==
    TypesOK => /\ Len(log) \in Nat /\ Len(core) \in Nat
               /\ room.lastSeq \in 0 .. Len(log) /\ cursor \in 0 .. Len(log)
               /\ saved \in 0 .. Len(log) /\ length \in 0 .. Len(core)
               /\ replays \subseteq 0 .. Len(log) /\ welcomed \in BOOLEAN
BY ConnTyped DEF TypesOK

\* Events without a gap before them leave a room without a gap.
LEMMA EmitsRoom ==
    ASSUME TypesOK, WholeRoom, NEW lo \in Nat, NEW hi \in Nat, Emits(lo .. hi),
           welcomed => cursor <= room.lastSeq /\ lo - 1 <= room.lastSeq
    PROVE  /\ room.lastSeq <= room'.lastSeq
           /\ room'.lastSeq \in {room.lastSeq, hi}
           /\ cursor' \in {cursor, hi}
           /\ welcomed => /\ hi <= room'.lastSeq
                          /\ cursor' <= room'.lastSeq
                          /\ room'.applied = 1 .. room'.lastSeq
<1>1. cursor \in Nat /\ saved \in Nat /\ room.lastSeq \in Nat
  BY RoomTyped
<1>2. CASE lo <= hi /\ cursor < hi /\ room.lastSeq < hi
  <2>1. /\ cursor' = hi /\ room'.lastSeq = hi
        /\ room'.applied = room.applied \cup
              {e \in lo .. hi : cursor < e /\ room.lastSeq < e}
    BY <1>1, <1>2, EmitsRange
  <2>2. ASSUME welcomed PROVE room'.applied = 1 .. hi
    <3>1. room.applied = 1 .. room.lastSeq
      BY <2>2 DEF WholeRoom
    <3> QED BY <1>1, <1>2, <2>1, <2>2, <3>1
  <2> QED BY <1>1, <1>2, <2>1, <2>2
<1>3. CASE ~(lo <= hi /\ cursor < hi /\ room.lastSeq < hi)
  <2>1. room' = room /\ cursor' = IF lo <= hi /\ cursor < hi THEN hi ELSE cursor
    BY <1>1, <1>3, EmitsRange
  <2> QED BY <1>1, <1>3, <2>1 DEF WholeRoom
<1> QED BY <1>2, <1>3

\* What comes of a frame.
LEMMA FrameRead ==
    ASSUME IInv, ~raced, NEW c \in Conns, PeerReceives(c)
    PROVE  /\ c = channel /\ conn[c].down # <<>>
           /\ conn[c].down[1].hi \in Nat
           /\ welcomed' \in BOOLEAN
           /\ welcomed' <=> (welcomed \/ conn[c].down[1].type = "WELCOME")
           /\ room.lastSeq <= room'.lastSeq
           /\ room'.lastSeq \in {room.lastSeq, conn[c].down[1].hi}
           /\ cursor' \in {cursor, conn[c].down[1].hi}
           /\ welcomed' => /\ conn[c].down[1].hi <= room'.lastSeq
                           /\ cursor' <= room'.lastSeq
                           /\ room'.applied = 1 .. room'.lastSeq
           /\ RoomInv'
<1> DEFINE d == conn[c].down
           msg == Head(conn[c].down)
<1>0. TypesOK /\ ConnInv /\ OrderInv /\ FramesInv /\ RoomInv
  BY DEF IInv, ExactInv
<1>1. d \in Seq(DownMessage) /\ d # <<>>
  BY <1>0, ConnTyped DEF PeerReceives
<1>2. c = channel
  BY <1>0, <1>1 DEF ConnInv
<1>3. msg = d[1] /\ msg \in DownMessage /\ Len(d) \in Nat \ {0}
  BY <1>1, TailFacts, 1 \in 1 .. Len(d)
<1>4. msg.lo \in Nat /\ msg.hi \in Nat /\ msg.type \in {"WELCOME", "EVENTS"}
  BY <1>3 DEF DownMessage
<1>5. /\ NoGap(d, welcomed, room.lastSeq) /\ Newer(d, room.lastSeq) /\ Newer(d, cursor)
      /\ \A from \in replays : Newer(d, from)
  BY <1>0 DEF FramesInv, FrameInv, OrderInv, InOrder
<1>6. /\ room.lastSeq \in Nat /\ cursor \in Nat /\ replays \subseteq Nat
      /\ welcomed \in BOOLEAN
  BY <1>0, RoomTyped
<1>7. replays' = replays
  BY DEF PeerReceives, replayVars
<1>8. CASE msg.type = "EVENTS" /\ Emits(msg.lo .. msg.hi) /\ UNCHANGED welcomed
  <2>1. ASSUME welcomed PROVE cursor <= room.lastSeq /\ msg.lo - 1 <= room.lastSeq
    <3>1. Awaits(d, welcomed, 1)
      BY <2>1 DEF Awaits
    <3>2. Reaches(d, welcomed, room.lastSeq, 1, msg.lo - 1)
      BY <1>3, <1>5, <1>8, <3>1 DEF NoGap
    <3>3. msg.lo - 1 <= room.lastSeq
      BY <3>2 DEF Reaches
    <3> QED BY <1>0, <2>1, <3>3 DEF RoomInv
  <2>2. /\ room.lastSeq <= room'.lastSeq
        /\ room'.lastSeq \in {room.lastSeq, msg.hi}
        /\ cursor' \in {cursor, msg.hi}
        /\ welcomed => /\ msg.hi <= room'.lastSeq
                       /\ cursor' <= room'.lastSeq
                       /\ room'.applied = 1 .. room'.lastSeq
    BY <1>0, <1>4, <1>8, <2>1, EmitsRoom DEF RoomInv
  <2>3. RoomInv'
    <3>1. ASSUME welcomed, NEW from \in replays PROVE from <= room'.lastSeq
      <4>1. from <= room.lastSeq /\ from \in Nat
        BY <1>0, <1>6, <3>1 DEF RoomInv
      <4> QED BY <1>4, <1>6, <2>2, <4>1
    <3> QED BY <1>7, <1>8, <2>2, <3>1 DEF RoomInv, WholeRoom
  <2>4. welcomed' <=> (welcomed \/ msg.type = "WELCOME")
    BY <1>8
  <2> QED BY <1>1, <1>2, <1>3, <1>4, <1>6, <1>8, <2>2, <2>3, <2>4
<1>9. CASE msg.type = "WELCOME"
  <2>1. /\ room' = [lastSeq |-> msg.hi, applied |-> 1 .. msg.hi]
        /\ welcomed' = (welcomed \/ c = channel) /\ cursor' = cursor
    BY <1>9 DEF PeerReceives, Welcomed
  <2>2. room.lastSeq <= msg.hi /\ cursor <= msg.hi /\ \A from \in replays : from <= msg.hi
    BY <1>3, <1>5, <1>9 DEF Newer
  <2>3. welcomed' = TRUE
    BY <1>2, <2>1
  <2>4. RoomInv'
    BY <1>7, <2>1, <2>2 DEF RoomInv, WholeRoom
  <2> QED BY <1>1, <1>2, <1>3, <1>4, <1>9, <2>1, <2>2, <2>3, <2>4
<1> QED BY <1>4, <1>8, <1>9 DEF PeerReceives

\* What comes of a replay.
LEMMA BlocksTaken ==
    ASSUME IInv, ~raced, ReplayEnds
    PROVE  /\ room.lastSeq <= room'.lastSeq
           /\ room'.lastSeq \in {room.lastSeq, length}
           /\ cursor' \in {cursor, length}
           /\ replays' \subseteq replays
           /\ RoomInv'
<1>0. TypesOK /\ InStep /\ RoomInv
  BY DEF IInv, ExactInv, HistoryInv
<1>1. PICK from \in replays :
         replays' = replays \ {from} /\ Emits({core[i] : i \in from + 1 .. length})
  BY DEF ReplayEnds
<1>2. /\ room.lastSeq \in Nat /\ cursor \in Nat /\ replays \subseteq Nat /\ from \in Nat
      /\ length \in Nat /\ length \in 0 .. Len(core)
  BY <1>0, RoomTyped
<1>3. Emits(from + 1 .. length)
  <2>1. core \in Seq(Nat)
    BY <1>0 DEF TypesOK
  <2>2. {core[i] : i \in from + 1 .. length} = from + 1 .. length
    BY <1>0, <1>2, <2>1, BlocksRead
  <2> QED BY <1>1, <2>2
<1>4. from + 1 \in Nat
  BY <1>2
<1>5. welcomed => cursor <= room.lastSeq /\ (from + 1) - 1 <= room.lastSeq
  BY <1>0, <1>2 DEF RoomInv
<1>6. /\ room.lastSeq <= room'.lastSeq
      /\ room'.lastSeq \in {room.lastSeq, length}
      /\ cursor' \in {cursor, length}
      /\ welcomed => /\ length <= room'.lastSeq
                     /\ cursor' <= room'.lastSeq
                     /\ room'.applied = 1 .. room'.lastSeq
  BY <1>0, <1>2, <1>3, <1>4, <1>5, EmitsRoom DEF RoomInv
<1>7. welcomed' = welcomed
  BY DEF ReplayEnds
<1>8. RoomInv'
  <2>1. ASSUME welcomed, NEW f \in replays PROVE f <= room'.lastSeq
    <3>1. f <= room.lastSeq /\ f \in Nat
      BY <1>0, <1>2, <2>1 DEF RoomInv
    <3> QED BY <1>2, <1>6, <3>1
  <2> QED BY <1>1, <1>6, <1>7, <2>1 DEF RoomInv, WholeRoom
<1> QED BY <1>1, <1>6, <1>8

LEMMA StepRoom ==
    ASSUME IInv, ~raced, [Next]_vars
    PROVE  RoomInv'
<1>0. TypesOK /\ RoomInv
  BY DEF IInv, ExactInv
<1>1. /\ room.lastSeq \in Nat /\ cursor \in Nat /\ replays \subseteq Nat
  BY <1>0, RoomTyped
<1>2. CASE UNCHANGED <<room, cursor, replays, welcomed>>
  BY <1>0, <1>2 DEF RoomInv, WholeRoom
<1>3. CASE ~welcomed'
  BY <1>3 DEF RoomInv, WholeRoom
<1>4. ASSUME NEW len \in Nat, Replays(len), UNCHANGED <<room, welcomed>>
      PROVE  RoomInv'
  <2>1. From(len) \in {0, cursor}
    BY DEF From
  <2>2. welcomed => From(len) <= room.lastSeq
    BY <1>0, <1>1, <2>1 DEF RoomInv
  <2>3. /\ cursor' = From(len) /\ replays' = replays \cup {From(len)}
    BY <1>4 DEF Replays
  <2> QED BY <1>0, <1>4, <2>2, <2>3 DEF RoomInv, WholeRoom
<1>5. CASE Grows
  <2>1. PICK len \in length + 1 .. Len(core) : Replays(len)
    BY <1>5 DEF Grows
  <2>2. UNCHANGED <<room, welcomed>> /\ len \in Nat
    BY <1>0, <1>5, RoomTyped DEF Grows, daemonVars
  <2> QED BY <1>4, <2>1, <2>2
<1>6. CASE Joins
  <2>1. Replays(length) /\ UNCHANGED <<room, welcomed>> /\ length \in Nat
    BY <1>0, <1>6, RoomTyped DEF Joins, daemonVars
  <2> QED BY <1>4, <2>1
<1>7. CASE AuthorityStep
  <2>1. UNCHANGED <<room, cursor, replays, welcomed>>
    BY <1>7 DEF AuthorityStep, OthersSubmit, Publish, Starts, AuthorityCrashes,
                AuthorityAttaches, AuthorityReceives, AuthorityCloses, daemonVars, replayVars
  <2> QED BY <1>2, <2>1
<1>8. ASSUME NEW c \in Conns, PeerCloses(c) \/ Breaks(c)
      PROVE  RoomInv'
  <2>1. UNCHANGED <<room, cursor, replays, welcomed>>
    BY <1>8 DEF PeerCloses, Breaks, daemonVars, replayVars
  <2> QED BY <1>2, <2>1
<1>9. (\E c \in Conns : Connects(c)) \/ PeerRestarts => ~welcomed'
  BY DEF Connects, PeerRestarts
<1>10. CASE UNCHANGED vars
  BY <1>2, <1>10 DEF vars, daemonVars, replayVars
<1> QED BY <1>3, <1>5, <1>6, <1>7, <1>8, <1>9, <1>10, FrameRead, BlocksTaken
        DEF Next, PeerStep
-----------------------------------------------------------------------------
(***************************************************************************)
(* Frames.                                                                 *)
(***************************************************************************)

\* A connection whose frames stay.
LEMMA FramesStay ==
    ASSUME NEW c \in Conns, FrameInv(c), conn'[c].down = conn[c].down,
           UNCHANGED <<room, cursor, replays, welcomed, core>>,
           conn'[c].alive /\ conn'[c].authOpen
              => EndsAt(conn[c].down, welcomed, room.lastSeq, Len(core))
    PROVE  FrameInv(c)'
BY DEF FrameInv

LEMMA FramesEmpty ==
    ASSUME NEW c \in Conns, conn'[c].down = <<>>, ~conn'[c].alive \/ ~welcomed'
    PROVE  FrameInv(c)'
<1>1. Len(<<>>) = 0
  BY EmptySeq
<1>2. \A i \in 1 .. 0 : FALSE
  OBVIOUS
<1>3. ~welcomed' => ~Awaits(<<>>, welcomed', 0 + 1)
  BY DEF Awaits
<1>4. (conn'[c].alive /\ conn'[c].authOpen)
         => EndsAt(<<>>, welcomed', room'.lastSeq, Len(core'))
  BY <1>1, <1>3 DEF EndsAt
<1> QED BY <1>1, <1>2, <1>4 DEF FrameInv, NoGap, Newer

\* What appends nothing to the frames nor to the Hypercore.
LEMMA QuietFrames ==
    ASSUME FramesInv, UNCHANGED <<room, cursor, replays, welcomed, core>>,
           \A c \in Conns : /\ conn'[c].down = conn[c].down
                            /\ conn'[c].alive => conn[c].alive
                            /\ conn'[c].alive /\ conn'[c].authOpen => conn[c].authOpen
    PROVE  FramesInv'
<1>2. ASSUME NEW c \in Conns PROVE FrameInv(c)'
  <2>1. FrameInv(c)
    BY DEF FramesInv
  <2>2. conn'[c].alive /\ conn'[c].authOpen
           => EndsAt(conn[c].down, welcomed, room.lastSeq, Len(core))
    BY <2>1 DEF FrameInv
  <2> QED BY <2>1, <2>2, FramesStay
<1> QED BY <1>2 DEF FramesInv

\* What the order of the frames knows of the peer.
LEMMA NewerRange ==
    ASSUME TypesOK, HistoryInv, NEW c \in Conns, InOrder(conn[c].down), FrameInv(c)
    PROVE  /\ conn[c].down \in Seq(DownMessage) /\ Len(log) \in Nat /\ Len(core) \in Nat
           /\ Len(core) <= Len(log) /\ room.lastSeq \in Nat /\ cursor \in Nat
           /\ length \in Nat /\ replays \subseteq Nat /\ welcomed \in BOOLEAN
           /\ \A m \in {room.lastSeq, cursor, length} \cup replays : Newer(conn[c].down, m)
<1> DEFINE d == conn[c].down
<1>1. /\ d \in Seq(DownMessage) /\ Len(log) \in Nat /\ Len(core) \in Nat
      /\ Len(core) <= Len(log) /\ room.lastSeq \in Nat /\ cursor \in Nat
      /\ length \in Nat /\ replays \subseteq Nat /\ welcomed \in BOOLEAN
  BY RoomTyped, ConnTyped DEF HistoryInv
<1>2. ASSUME NEW i \in 1 .. Len(d), d[i].type = "WELCOME"
      PROVE  length <= d[i].hi
  <2>1. /\ length <= d[i].lo /\ d[i].lo <= Len(core)
        /\ \A j \in 1 .. d[i].lo : core[j] <= d[i].hi
    BY <1>2 DEF InOrder, Known
  <2>2. d[i] \in DownMessage
    BY ConnTyped
  <2>3. d[i].lo \in Nat /\ d[i].hi \in Nat
    BY <2>2 DEF DownMessage
  <2>4. CASE length = 0
    BY <2>3, <2>4
  <2>5. CASE length # 0
    <3>1. length \in 1 .. d[i].lo /\ length \in DOMAIN core
      <4>1. core \in Seq(Nat) /\ length \in 0 .. Len(core)
        BY DEF TypesOK
      <4>2. DOMAIN core = 1 .. Len(core)
        BY <4>1, LenProperties
      <4> HIDE DEF d
      <4> QED BY <1>1, <2>1, <2>3, <2>5, <4>1, <4>2
    <3>2. core[length] = length
      BY <3>1 DEF HistoryInv, InStep
    <3> HIDE DEF d
    <3> QED BY <2>1, <3>1, <3>2
  <2> QED BY <2>4, <2>5
<1>3. Newer(d, length)
  BY <1>2 DEF Newer
<1> QED BY <1>1, <1>3 DEF FrameInv, InOrder

LEMMA PublishFrames ==
    ASSUME IInv, ~raced, Publish
    PROVE  FramesInv'
<1>0. TypesOK /\ HistoryInv /\ ConnInv /\ OrderInv /\ FramesInv
  BY DEF IInv, ExactInv
<1> DEFINE b == Head(publishing)
           e == Events(b)
<1>1. /\ publishing # <<>> /\ core' = core \o SeqsOf(b)
      /\ UNCHANGED <<log, room, cursor, length, replays, welcomed>>
  BY DEF Publish, daemonVars, replayVars
<1>2. Leads(publishing, Len(core), Len(log))
  BY <1>0, <1>1 DEF HistoryInv
<1>3. publishing \in Seq(Batch) /\ Len(core) \in Nat /\ Len(log) \in Nat /\ core \in Seq(Nat)
  BY <1>0, RoomTyped DEF TypesOK
<1>4. b \in Batch /\ b.lo = Len(core) + 1 /\ Len(core) < b.hi /\ b.hi <= Len(log)
  BY <1>1, <1>2, <1>3, LeadsFewer
<1>5. \A i \in 1 .. Len(core) : core[i] = i
  BY <1>0, <1>3, LenProperties DEF HistoryInv, InStep
<1>6. b.lo <= b.hi
  BY <1>3, <1>4 DEF Batch
<1>7. Len(core') = b.hi
  BY <1>1, <1>3, <1>4, <1>5, <1>6, SeqsAppended
<1>8. /\ e \in DownMessage /\ e.type = "EVENTS" /\ e.hi = b.hi /\ e.lo = b.lo
      /\ e.lo - 1 = Len(core) /\ e.lo >= 1 /\ e.lo - 1 \in Int
  BY <1>3, <1>4 DEF Events, DownMessage, Batch
<1> HIDE DEF e
<1>9. ASSUME NEW c \in Conns PROVE FrameInv(c)'
  <2>1. FrameInv(c)
    BY <1>0 DEF FramesInv
  <2>2. /\ conn'[c].alive = conn[c].alive /\ conn'[c].authOpen = conn[c].authOpen
        /\ conn'[c].down = IF conn[c].alive /\ \E q \in peers : q.conn = c
                           THEN Append(conn[c].down, e) ELSE conn[c].down
    BY <1>0, PublishEffect DEF e
  <2>3. CASE conn[c].alive /\ \E q \in peers : q.conn = c
    <3> DEFINE d == conn[c].down
    <3>1. conn[c].authOpen
      BY <1>0, <2>3 DEF ConnInv
    <3>2. /\ NoGap(d, welcomed, room.lastSeq)
          /\ EndsAt(d, welcomed, room.lastSeq, e.lo - 1)
      BY <1>8, <2>1, <2>3, <3>1 DEF FrameInv
    <3>3. d \in Seq(DownMessage) /\ room.lastSeq \in Nat /\ welcomed \in BOOLEAN
      BY <1>0, RoomTyped, ConnTyped
    <3>a. Newer(d, cursor) /\ \A from \in replays : Newer(d, from)
      BY <2>1 DEF FrameInv
    <3>4. conn'[c].down = Append(d, e)
      BY <2>2, <2>3
    <3> HIDE DEF d
    <3>5. /\ NoGap(Append(d, e), welcomed, room.lastSeq)
          /\ EndsAt(Append(d, e), welcomed, room.lastSeq, e.hi)
      BY <1>8, <3>2, <3>3, EventsSent
    <3>6. ASSUME NEW m, Newer(d, m) PROVE Newer(Append(d, e), m)
      BY <1>8, <3>3, <3>6, NewerMore
    <3>7. Newer(Append(d, e), cursor) /\ \A from \in replays : Newer(Append(d, e), from)
      BY <3>a, <3>6
    <3> QED BY <1>1, <1>7, <1>8, <3>4, <3>5, <3>7 DEF FrameInv
  <2>4. CASE ~(conn[c].alive /\ \E q \in peers : q.conn = c)
    <3>1. ~(conn[c].alive /\ conn[c].authOpen)
      BY <1>0, <2>4 DEF ConnInv
    <3> QED BY <1>1, <2>1, <2>2, <2>4, <3>1 DEF FrameInv
  <2> QED BY <2>3, <2>4
<1> QED BY <1>9 DEF FramesInv

\* The answer to HELLO follows what has been sent, and holds all of the log.
LEMMA AnswerFrames ==
    ASSUME NEW d \in Seq(DownMessage), NEW w \in BOOLEAN, NEW s \in Nat, NEW n \in Nat,
           Len(log) \in Nat, Len(core) \in Nat, n <= Len(log), NEW a, Answered(d, a),
           NoGap(d, w, s)
    PROVE  NoGap(a, w, s) /\ EndsAt(a, w, s, n)
<1> DEFINE e == Append(d, Welcome)
<1>1. Welcome \in DownMessage /\ Welcome.type = "WELCOME" /\ Welcome.hi = Len(log)
  BY DEF Welcome, DownMessage
<1>2. e \in Seq(DownMessage)
  BY <1>1, AppendProperties
<1>4. \A k \in Int : k <= Len(log) => NoGap(e, w, s) /\ EndsAt(e, w, s, k)
  BY <1>1, WelcomeSent
<1>5. CASE a = e
  BY <1>4, <1>5
<1>6. ASSUME NEW m \in DownMessage, m.type = "EVENTS", 1 <= m.lo, m.lo <= m.hi,
             m.hi = Len(log), a = Append(e, m)
      PROVE  NoGap(a, w, s) /\ EndsAt(a, w, s, n)
  <2>1. m.lo - 1 \in Int /\ m.lo - 1 <= Len(log) /\ m.lo >= 1
    BY <1>6 DEF DownMessage
  <2>2. NoGap(e, w, s) /\ EndsAt(e, w, s, m.lo - 1)
    BY <1>4, <2>1
  <2> HIDE DEF e
  <2>3. NoGap(a, w, s) /\ EndsAt(a, w, s, Len(log))
    BY <1>2, <1>6, <2>2, EventsSent
  <2>5. EndsAt(a, w, s, n)
    <3>1. a \in Seq(DownMessage)
      BY <1>2, <1>6, AppendProperties
    <3>a. \A j \in 1 .. Len(a) : a[j] \in DownMessage
      BY <3>1, ElementOfSeq
    <3>2. \A j \in 1 .. Len(a) : a[j].hi \in Nat
      BY <3>a DEF DownMessage
    <3>3. ASSUME Reaches(a, w, s, Len(a) + 1, Len(log)) PROVE Reaches(a, w, s, Len(a) + 1, n)
      <4>1. Len(a) \in Nat
        BY <3>1, LenProperties
      <4> QED BY <3>2, <3>3, <4>1 DEF Reaches
    <3> QED BY <2>3, <3>3 DEF EndsAt
  <2> QED BY <2>3, <2>5
<1> QED BY <1>5, <1>6 DEF Answered

LEMMA ReceivesFrames ==
    ASSUME IInv, ~raced, NEW c \in Conns, AuthorityReceives(c)
    PROVE  FramesInv'
<1>0. TypesOK /\ HistoryInv /\ ConnInv /\ OrderInv /\ FramesInv
  BY DEF IInv, ExactInv
<1>1. UNCHANGED <<room, cursor, length, replays, welcomed, core>>
  BY DEF AuthorityReceives, daemonVars, replayVars
<1>4. ASSUME NEW b \in Conns PROVE FrameInv(b)'
  <2>1. FrameInv(b)
    BY <1>0 DEF FramesInv
  <2>2. /\ conn'[b].alive = conn[b].alive /\ conn'[b].authOpen = conn[b].authOpen
        /\ \/ conn'[b].down = conn[b].down
           \/ UNCHANGED log /\ Answered(conn[b].down, conn'[b].down)
    BY <1>0, AuthorityReceivesEffect
  <2>3. CASE conn'[b].down = conn[b].down
    <3>1. conn'[b].alive /\ conn'[b].authOpen
             => EndsAt(conn[b].down, welcomed, room.lastSeq, Len(core))
      BY <2>1, <2>2 DEF FrameInv
    <3> QED BY <1>1, <2>1, <2>3, <3>1, FramesStay
  <2>4. CASE UNCHANGED log /\ Answered(conn[b].down, conn'[b].down)
    <3> DEFINE d == conn[b].down
               a == conn'[b].down
    <3>1. /\ d \in Seq(DownMessage) /\ Len(log) \in Nat /\ Len(core) \in Nat
          /\ Len(core) <= Len(log) /\ room.lastSeq \in Nat /\ welcomed \in BOOLEAN
          /\ cursor \in 0 .. Len(log) /\ replays \subseteq 0 .. Len(log)
      BY <1>0, RoomTyped, ConnTyped DEF HistoryInv
    <3>2. /\ NoGap(d, welcomed, room.lastSeq) /\ Newer(d, cursor)
          /\ \A from \in replays : Newer(d, from)
      BY <2>1 DEF FrameInv
    <3>3. Answered(d, a)
      BY <2>4
    <3> HIDE DEF d, a
    <3>4. NoGap(a, welcomed, room.lastSeq) /\ EndsAt(a, welcomed, room.lastSeq, Len(core))
      BY <3>1, <3>2, <3>3, AnswerFrames
    <3>5. Newer(a, cursor) /\ \A from \in replays : Newer(a, from)
      <4>1. ASSUME NEW m \in 0 .. Len(log), Newer(d, m) PROVE Newer(a, m)
        BY <3>1, <3>3, <4>1, NewerAnswered
      <4> QED BY <3>1, <3>2, <4>1
    <3> QED BY <1>1, <2>4, <3>4, <3>5 DEF FrameInv, a
  <2> QED BY <2>2, <2>3, <2>4
<1> QED BY <1>4 DEF FramesInv

LEMMA AuthorityFrames ==
    ASSUME IInv, ~raced, AuthorityStep
    PROVE  FramesInv'
<1>0. TypesOK /\ ConnInv /\ FramesInv
  BY DEF IInv, ExactInv
<1>1. CASE OthersSubmit \/ Starts
  <2>1. UNCHANGED <<conn, room, cursor, replays, welcomed, core>>
    BY <1>1 DEF OthersSubmit, Starts, daemonVars, replayVars
  <2> QED BY <1>0, <2>1, QuietFrames
<1>2. CASE AuthorityCrashes
  <2>1. UNCHANGED <<log, room, cursor, length, replays, welcomed, core>>
    BY <1>2 DEF AuthorityCrashes, daemonVars, replayVars
  <2> QED BY <1>0, <1>2, <2>1, AuthorityCrashesEffect, QuietFrames
<1>3. ASSUME NEW c \in Conns, AuthorityAttaches(c)
      PROVE  FramesInv'
  <2>1. /\ UNCHANGED <<log, room, cursor, length, replays, welcomed, core>>
        /\ conn[c].alive /\ ~conn[c].authOpen
    BY <1>3 DEF AuthorityAttaches, daemonVars, replayVars
  <2>2. \A b \in Conns : conn'[b].alive = conn[b].alive /\ conn'[b].down = conn[b].down
    BY <1>0, <1>3, AuthorityAttachesEffect
  <2>3. ASSUME NEW b \in Conns PROVE FrameInv(b)'
    <3>1. CASE b = c
      <4>1. conn'[b].down = <<>> /\ ~welcomed'
        BY <1>0, <2>1, <2>2, <3>1 DEF ConnInv
      <4> QED BY <4>1, FramesEmpty
    <3>2. CASE b # c
      <4>1. ~conn'[b].alive
        BY <1>0, <2>1, <2>2, <3>2 DEF ConnInv
      <4>2. FrameInv(b)
        BY <1>0 DEF FramesInv
      <4> QED BY <2>1, <2>2, <4>1, <4>2, FramesStay
    <3> QED BY <3>1, <3>2
  <2> QED BY <2>3 DEF FramesInv
<1>4. ASSUME NEW c \in Conns, AuthorityCloses(c)
      PROVE  FramesInv'
  <2>1. UNCHANGED <<room, cursor, replays, welcomed, core>>
    BY <1>4 DEF AuthorityCloses, daemonVars, replayVars
  <2>2. \A b \in Conns : /\ conn'[b].alive = conn[b].alive
                         /\ conn'[b].authOpen = (conn[b].authOpen /\ b # c)
                         /\ conn'[b].down = conn[b].down
    BY <1>0, <1>4, AuthorityClosesEffect
  <2>3. \A b \in Conns : conn'[b].authOpen => conn[b].authOpen
    BY <2>2
  <2> QED BY <1>0, <2>1, <2>2, <2>3, QuietFrames
<1> QED BY <1>1, <1>2, <1>3, <1>4, PublishFrames, ReceivesFrames DEF AuthorityStep

LEMMA PeerFrames ==
    ASSUME IInv, ~raced, PeerStep \/ \E c \in Conns : Breaks(c)
    PROVE  FramesInv'
<1>0. TypesOK /\ HistoryInv /\ ConnInv /\ OrderInv /\ FramesInv
  BY DEF IInv, ExactInv
<1>1. UNCHANGED <<log, core>> /\ Len(log) \in Nat /\ Len(core) \in Nat
  BY <1>0, RoomTyped DEF PeerStep, PeerReceives, Grows, Joins, ReplayEnds, Connects,
         PeerCloses, PeerRestarts, Breaks, authVars
<1>2. ASSUME NEW c \in Conns, PeerReceives(c)
      PROVE  FramesInv'
  <2> DEFINE d == conn[c].down
  <2>1. /\ c = channel /\ d # <<>> /\ d[1].hi \in Nat /\ welcomed' \in BOOLEAN
        /\ welcomed' <=> (welcomed \/ d[1].type = "WELCOME")
        /\ room.lastSeq <= room'.lastSeq
        /\ room'.lastSeq \in {room.lastSeq, d[1].hi}
        /\ cursor' \in {cursor, d[1].hi}
        /\ welcomed' => d[1].hi <= room'.lastSeq
    BY <1>2, FrameRead
  <2>2. UNCHANGED <<length, replays>>
    BY <1>2 DEF PeerReceives, replayVars
  <2>3. \A b \in Conns : /\ conn'[b].alive = conn[b].alive
                         /\ conn'[b].authOpen = conn[b].authOpen
                         /\ conn'[b].down = IF b = c THEN Tail(d) ELSE conn[b].down
    BY <1>0, <1>2, PeerReceivesEffect
  <2>4. ASSUME NEW b \in Conns, b # c PROVE FrameInv(b)'
    <3>1. conn'[b].down = <<>> /\ ~conn'[b].alive
      BY <1>0, <2>1, <2>3, <2>4 DEF ConnInv
    <3> QED BY <3>1, FramesEmpty
  <2>5. FrameInv(c)'
    <3>1. FrameInv(c)
      BY <1>0 DEF FramesInv
    <3>2. d \in Seq(DownMessage) /\ room.lastSeq \in Nat /\ welcomed \in BOOLEAN
      BY <1>0, RoomTyped, ConnTyped
    <3>3. /\ NoGap(d, welcomed, room.lastSeq) /\ Rising(d) /\ Newer(d, cursor)
          /\ \A from \in replays : Newer(d, from)
      BY <1>0, <3>1 DEF FrameInv, OrderInv, InOrder
    <3>4. conn'[c].down = Tail(d)
      BY <2>3
    <3>5. room'.lastSeq \in Nat
      BY <2>1, <3>2
    <3>6. conn[c].alive /\ conn[c].authOpen => EndsAt(d, welcomed, room.lastSeq, Len(core))
      BY <3>1 DEF FrameInv
    <3> HIDE DEF d
    <3>7. /\ NoGap(Tail(d), welcomed', room'.lastSeq)
          /\ \A n \in Int : EndsAt(d, welcomed, room.lastSeq, n)
                               => EndsAt(Tail(d), welcomed', room'.lastSeq, n)
      BY <2>1, <3>2, <3>3, <3>5, FrameTaken
    <3>8. /\ Newer(Tail(d), d[1].hi)
          /\ \A m \in Nat : Newer(d, m) => Newer(Tail(d), m)
      BY <2>1, <3>2, <3>3, OrderOfFewer
    <3>9. cursor \in Nat /\ replays \subseteq Nat
      BY <1>0, RoomTyped
    <3>10. Newer(Tail(d), cursor') /\ \A from \in replays : Newer(Tail(d), from)
      BY <2>1, <3>3, <3>8, <3>9
    <3>11. conn'[c].alive /\ conn'[c].authOpen
              => EndsAt(Tail(d), welcomed', room'.lastSeq, Len(core))
      BY <1>1, <2>3, <3>6, <3>7
    <3> QED BY <1>1, <2>2, <3>4, <3>7, <3>10, <3>11 DEF FrameInv
  <2> QED BY <2>4, <2>5 DEF FramesInv
<1>3. ASSUME NEW len \in Nat, Replays(len), UNCHANGED <<conn, room, welcomed>>
      PROVE  FramesInv'
  <2>1. /\ cursor' = From(len) /\ replays' = replays \cup {From(len)}
        /\ From(len) \in {0, cursor}
    BY <1>3 DEF Replays, From
  <2>2. ASSUME NEW c \in Conns PROVE FrameInv(c)'
    <3>1. FrameInv(c)
      BY <1>0 DEF FramesInv
    <3>2. Newer(conn[c].down, 0)
      <4>1. \A i \in 1 .. Len(conn[c].down) : conn[c].down[i] \in DownMessage
        BY <1>0, ConnTyped
      <4>2. \A i \in 1 .. Len(conn[c].down) : conn[c].down[i].hi \in Nat
        BY <4>1 DEF DownMessage
      <4> QED BY <4>2 DEF Newer
    <3>3. Newer(conn[c].down, From(len))
      BY <2>1, <3>1, <3>2 DEF FrameInv
    <3> QED BY <1>1, <1>3, <2>1, <3>1, <3>3 DEF FrameInv
  <2> QED BY <2>2 DEF FramesInv
<1>4. CASE Grows
  <2>1. \E len \in length + 1 .. Len(core) : Replays(len) /\ UNCHANGED <<conn, room, welcomed>>
    BY <1>4 DEF Grows, daemonVars
  <2>2. length \in Nat
    BY <1>0, RoomTyped
  <2>3. \E len \in Nat : Replays(len) /\ UNCHANGED <<conn, room, welcomed>>
    BY <1>1, <2>1, <2>2
  <2> QED BY <1>3, <2>3
<1>5. CASE Joins
  <2>1. Replays(length) /\ UNCHANGED <<conn, room, welcomed>> /\ length \in Nat
    BY <1>0, <1>5, RoomTyped DEF Joins, daemonVars
  <2> QED BY <1>3, <2>1
<1>6. CASE ReplayEnds
  <2>1. /\ room.lastSeq <= room'.lastSeq
        /\ room'.lastSeq \in {room.lastSeq, length}
        /\ cursor' \in {cursor, length}
        /\ replays' \subseteq replays
    BY <1>6, BlocksTaken
  <2>2. UNCHANGED <<conn, length, welcomed>>
    BY <1>6 DEF ReplayEnds
  <2>3. ASSUME NEW c \in Conns PROVE FrameInv(c)'
    <3> DEFINE d == conn[c].down
    <3>1. FrameInv(c)
      BY <1>0 DEF FramesInv
    <3>2. Newer(d, cursor') /\ \A from \in replays' : Newer(d, from)
      <4>1. \A m \in {cursor, length} \cup replays : Newer(d, m)
        BY <1>0, <3>1, NewerRange DEF OrderInv
      <4> QED BY <2>1, <4>1
    <3>3. /\ Len(d) \in Nat /\ \A i \in 1 .. Len(d) : d[i] \in DownMessage
      BY <1>0, ConnTyped
    <3>4. /\ welcomed \in BOOLEAN /\ room.lastSeq \in Nat /\ length \in Nat
          /\ room'.lastSeq \in Nat
      BY <1>0, <2>1, RoomTyped
    <3>5. /\ NoGap(d, welcomed, room.lastSeq) => NoGap(d, welcomed, room'.lastSeq)
          /\ \A n \in Int : EndsAt(d, welcomed, room.lastSeq, n)
                               => EndsAt(d, welcomed, room'.lastSeq, n)
      <4> HIDE DEF d
      <4> QED BY <2>1, <3>3, <3>4, RoomMovesOn
    <3> QED BY <1>1, <2>2, <3>1, <3>2, <3>5 DEF FrameInv
  <2> QED BY <2>3 DEF FramesInv
<1>7. ASSUME NEW c \in Conns, Connects(c)
      PROVE  FramesInv'
  <2>1. ~welcomed'
    BY <1>7 DEF Connects
  <2> QED BY <1>0, <1>7, <2>1, ConnectsEffect, FramesEmpty DEF FramesInv
<1>8. ASSUME NEW c \in Conns, PeerCloses(c)
      PROVE  FramesInv'
  <2>1. UNCHANGED <<room, cursor, length, replays, welcomed>> /\ ~conn[c].alive
    BY <1>8 DEF PeerCloses, daemonVars, replayVars
  <2>2. \A b \in Conns : /\ conn'[b].alive = conn[b].alive
                         /\ conn'[b].authOpen = conn[b].authOpen
                         /\ conn'[b].down = IF b = c THEN <<>> ELSE conn[b].down
    BY <1>0, <1>8, PeerClosesEffect
  <2>3. ASSUME NEW b \in Conns PROVE FrameInv(b)'
    <3>1. CASE b = c
      BY <2>1, <2>2, <3>1, FramesEmpty
    <3>2. CASE b # c
      <4>1. FrameInv(b)
        BY <1>0 DEF FramesInv
      <4> QED BY <1>1, <2>1, <2>2, <3>2, <4>1 DEF FrameInv
    <3> QED BY <3>1, <3>2
  <2> QED BY <2>3 DEF FramesInv
<1>9. CASE PeerRestarts
  BY <1>0, <1>9, PeerRestartsEffect, FramesEmpty DEF FramesInv
<1>10. ASSUME NEW c \in Conns, Breaks(c)
       PROVE  FramesInv'
  <2>1. UNCHANGED <<room, cursor, length, replays, welcomed>>
    BY <1>10 DEF Breaks, daemonVars, replayVars
  <2>2. \A b \in Conns : /\ conn'[b].alive = (conn[b].alive /\ b # c)
                         /\ conn'[b].authOpen = conn[b].authOpen
                         /\ conn'[b].down = conn[b].down
    BY <1>0, <1>10, BreaksEffect
  <2>3. \A b \in Conns : conn'[b].alive => conn[b].alive
    BY <2>2
  <2> QED BY <1>0, <1>1, <2>1, <2>2, <2>3, QuietFrames
<1> QED BY <1>2, <1>4, <1>5, <1>6, <1>7, <1>8, <1>9, <1>10 DEF PeerStep

LEMMA StepFrames ==
    ASSUME IInv, ~raced, [Next]_vars
    PROVE  FramesInv'
<1>1. CASE UNCHANGED vars
  BY <1>1 DEF IInv, ExactInv, FramesInv, FrameInv, vars, authVars, daemonVars, replayVars
<1> QED BY <1>1, AuthorityFrames, PeerFrames DEF Next
-----------------------------------------------------------------------------
(***************************************************************************)
(* The theorems.                                                           *)
(***************************************************************************)
LEMMA InitInv == Init => IInv
<1> SUFFICES ASSUME Init PROVE IInv
  OBVIOUS
<1>1. TypesOK
  BY InitTyped
<1>2. /\ core = <<>> /\ log = <<>> /\ publishing = <<>> /\ peers = {} /\ replays = {}
      /\ phase = "starting" /\ proc = 1 /\ channel = 0 /\ ~welcomed
      /\ \A c \in Conns : /\ conn[c].down = <<>> /\ ~conn[c].alive /\ ~conn[c].authOpen
  BY DEF Init, Unused
<1>3. Len(core) = 0 /\ Len(log) = 0 /\ DOMAIN core = {} /\ Len(publishing) = 0
  BY <1>2, EmptySeq
<1>4. HistoryInv /\ BoundInv
  BY <1>2, <1>3 DEF HistoryInv, InStep, BoundInv
<1>5. ConnInv
  BY <1>2 DEF ConnInv
<1>6. GreetInv
  BY <1>2 DEF GreetInv, RejoinStands
<1>7. OrderInv
  BY <1>2, OrderEmpty DEF OrderInv, InOrder
<1>8. FramesInv
  <2>1. \A i \in 1 .. 0 : FALSE
    OBVIOUS
  <2>2. Len(<<>>) = 0
    BY EmptySeq
  <2> QED BY <1>2, <2>1, <2>2
          DEF FramesInv, FrameInv, NoGap, Newer
<1>9. RoomInv
  BY <1>2 DEF RoomInv, WholeRoom
<1> QED BY <1>1, <1>4, <1>5, <1>6, <1>7, <1>8, <1>9 DEF IInv, ExactInv

\* What is exact stays so, until an event overtakes start().
LEMMA StepExact ==
    ASSUME IInv, [Next]_vars
    PROVE  raced' \/ ExactInv'
<1>1. SUFFICES ASSUME ~raced' PROVE ExactInv'
  OBVIOUS
<1>2. ~raced
  BY <1>1, RacedStays DEF IInv
<1> QED BY <1>1, <1>2, StepHistory, StepFrames, StepRoom DEF ExactInv

LEMMA StepInv == IInv /\ [Next]_vars => IInv'
<1> SUFFICES ASSUME IInv, [Next]_vars PROVE IInv'
  OBVIOUS
<1>1. TypesOK' /\ BoundInv' /\ ConnInv' /\ GreetInv' /\ OrderInv'
  BY StepTyped, StepBound, StepConn, StepGreet, StepOrder
<1>2. raced' \/ ExactInv'
  BY StepExact
<1> QED BY <1>1, <1>2 DEF IInv

\* The inductive invariant holds of every behaviour, however many connections and
\* events there are, and whether or not an event overtakes start().
THEOREM Invariance == Spec => []IInv
BY InitInv, StepInv, PTL DEF Spec

\* Every variable holds what its declaration says: no cursor, saved position or
\* room state is ever beyond the log, whatever order the messages come in and
\* whatever the Hypercore holds.
THEOREM TypesHold == Spec => []TypesOK
<1>1. IInv => TypesOK
  BY DEF IInv
<1> QED BY <1>1, Invariance, PTL

\* Until an event overtakes start(), the replicated history is the log: what a
\* crash kept from the Hypercore is appended before anything newer, and nothing is
\* appended twice.
THEOREM HistoryIsExact == Spec => []HistoryIsTheLog
<1>1. IInv => HistoryIsTheLog
  BY DEF IInv, ExactInv, HistoryInv, HistoryIsTheLog
<1> QED BY <1>1, Invariance, PTL

\* WELCOME, the frames that follow and the blocks of a Hypercore that is the log,
\* in whatever order they come, leave a room state without a gap.
THEOREM ReplicasAreExact == Spec => []ReplicaIsExact
<1>1. IInv => ReplicaIsExact
  BY DEF IInv, ExactInv, RoomInv, WholeRoom, ReplicaIsExact
<1> QED BY <1>1, Invariance, PTL

\* The late close of a connection ends no session of a process that has rejoined
\* over another, whenever the authority began to listen.
THEOREM RejoinsStand == Spec => []RejoinStands
<1>1. IInv => RejoinStands
  BY DEF IInv, GreetInv
<1> QED BY <1>1, Invariance, PTL

LEMMA StepForward ==
    ASSUME IInv, [Next]_vars
    PROVE  [proc' = proc => room'.lastSeq >= room.lastSeq]_vars
<1>1. room.lastSeq \in Nat /\ proc \in Nat
  BY RoomTyped, ConnTyped DEF IInv
<1>2. CASE UNCHANGED room
  BY <1>1, <1>2
<1>3. CASE PeerRestarts
  <2>1. proc' = proc + 1
    BY <1>3 DEF PeerRestarts
  <2> QED BY <1>1, <2>1
<1>4. CASE (\E c \in Conns : PeerReceives(c)) \/ ReplayEnds
  <2>1. room.lastSeq <= room'.lastSeq
    BY <1>4, PeerReceivesOrder, ReplayEndsOrder
  <2>2. room'.lastSeq >= room.lastSeq
    BY <2>1
  <2> QED BY <2>2
<1>5. CASE AuthorityStep
  <2>1. UNCHANGED room
    BY <1>5 DEF AuthorityStep, OthersSubmit, Publish, Starts, AuthorityCrashes,
                AuthorityAttaches, AuthorityReceives, AuthorityCloses, daemonVars
  <2> QED BY <1>2, <2>1
<1>6. CASE \/ Grows \/ Joins \/ (\E c \in Conns : Connects(c) \/ PeerCloses(c) \/ Breaks(c))
  <2>1. UNCHANGED room
    BY <1>6 DEF Grows, Joins, Connects, PeerCloses, Breaks, daemonVars
  <2> QED BY <1>2, <2>1
<1>7. CASE UNCHANGED vars
  BY <1>7
<1> QED BY <1>3, <1>4, <1>5, <1>6, <1>7 DEF Next, PeerStep

\* A daemon's room state never goes back while its process runs: no WELCOME is
\* older than what frames and replays have brought before it, even the replay of a
\* history that is not the log.
THEOREM NeverGoesBack == Spec => NeverBack
<1>1. IInv /\ [Next]_vars => [proc' = proc => room'.lastSeq >= room.lastSeq]_vars
  BY StepForward
<1> QED BY <1>1, Invariance, PTL DEF Spec, NeverBack
=============================================================================
