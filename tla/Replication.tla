---------------------------- MODULE Replication -----------------------------
(***************************************************************************)
(* How the room's log gets from the authority to a peer laptop.            *)
(*                                                                         *)
(* The authority (authority-transport.ts, p2p/server.ts) appends what its  *)
(* RoomCore logged to a Hypercore, then sends it as a frame to everybody   *)
(* connected.  A peer (p2p/transport.ts, daemon.ts) hears of an event in   *)
(* three ways, which race: WELCOME carries a whole room state, frames      *)
(* carry the events after, and the replicated Hypercore is read whenever   *)
(* it grows.  Connections break and overlap, both processes restart.       *)
(*                                                                         *)
(* An event is its seq.  Of its content the log keeps only whether it      *)
(* starts or ends the peer's session.  The peers do not interact but by    *)
(* the log, so there is one; the others are part of OthersSubmit.          *)
(***************************************************************************)
EXTENDS Integers, Sequences, FiniteSets

CONSTANTS
    MaxOthers,  \* bound: events of others
    MaxConns,   \* bound: connections, and a fault less: each costs one
    MaxStray    \* bound: blocks a peer replicates of a history that is not the log

ASSUME BoundAssumption == {MaxOthers, MaxConns, MaxStray} \subseteq Nat

VARIABLES
    phase,      \* the authority: "starting", while it listens already, or "up"
    log,        \* RoomCore's log, durable: "start" and "end" of the peer's session, "other"
    core,       \* the Hypercore, durable: the seq in each block
    publishing, \* appends to it under way, in order: ranges of seqs
    peers,      \* P2PRoomServer.peers: [proc, conn, hello, joined]
    raced,      \* history: has an event overtaken start()?
    conn,       \* the connections, by number
    proc,       \* the peer's process, by number: its Noise key
    channel,    \* P2PRoomTransport.channel: a connection, or 0
    cursor,     \* P2PRoomTransport.cursor
    saved,      \* CursorStore, on the peer's disk
    joining,    \* is the replay at the end of start() still to come?
    length,     \* eventCore.length at the peer
    replays,    \* the blocks that calls of replay() under way began at
    room,       \* LaptopDaemon.roomState: [lastSeq, applied]
    welcomed,   \* history: has the newest channel brought its WELCOME?
    faults      \* broken connections, crashes and restarts so far, for the bound

authVars == <<phase, log, core, publishing, peers, raced>>
daemonVars == <<saved, room>>
replayVars == <<joining, length, replays>>
vars == <<authVars, conn, proc, channel, cursor, daemonVars, replayVars, welcomed, faults>>
-----------------------------------------------------------------------------
(***************************************************************************)
(* Connections.  proc is 0 while the connection is not used; up and down   *)
(* are the frames on their way to the authority and to the peer.  A side   *)
(* is open until its close callback has run, which may be late.            *)
(***************************************************************************)
Conns == 1 .. MaxConns

UpMessage == [type : {"HELLO", "SUBMIT"}, lastSeq : Nat]

\* The events from lo to hi; or a room state at event hi, sent when the Hypercore
\* had lo blocks.
DownMessage == [type : {"WELCOME", "EVENTS"}, lo : Nat, hi : Nat]

Unused == [proc |-> 0, alive |-> FALSE, up |-> <<>>, down |-> <<>>,
           peerOpen |-> FALSE, authOpen |-> FALSE]

Hello     == [type |-> "HELLO", lastSeq |-> cursor]
Announce  == [type |-> "SUBMIT", lastSeq |-> 0]
Welcome   == [type |-> "WELCOME", lo |-> Len(core), hi |-> Len(log)]
Events(b) == [type |-> "EVENTS", lo |-> b.lo, hi |-> b.hi]

\* What is sent over a connection that broke arrives nowhere.
Sent(d, msgs)     == IF d.alive THEN [d EXCEPT !.down = @ \o msgs] ELSE d
Submitted(d, msg) == IF d.alive THEN [d EXCEPT !.up = Append(@, msg)] ELSE d

Broken(d) == [d EXCEPT !.alive = FALSE]

Fault ==
    /\ faults + 1 < MaxConns
    /\ faults' = faults + 1
-----------------------------------------------------------------------------
(***************************************************************************)
(* The authority.                                                          *)
(***************************************************************************)
Batch == [lo : Nat, hi : Nat]

\* The seqs of a batch, in order.
SeqsOf(b) == [i \in 1 .. b.hi + 1 - b.lo |-> b.lo + i - 1]

Active(l) == \E i \in DOMAIN l : l[i] = "start" /\ \A j \in i .. Len(l) : l[j] # "end"

\* The seq that the Hypercore will be at after the appends under way.
Reached == IF publishing = <<>> THEN Len(core) ELSE publishing[Len(publishing)].hi

\* submit and publish: the log at once, the Hypercore when its turn comes.  The
\* server listens before start() sees what a crash kept from the Hypercore, and an
\* event logged by then goes ahead of it.
Logs(entry) ==
    /\ log' = Append(log, entry)
    /\ publishing' = Append(publishing, [lo |-> Len(log) + 1, hi |-> Len(log) + 1])
    /\ raced' = (raced \/ (phase = "starting" /\ Reached # Len(log)))

\* The authority's own daemon, the expiry poll, other laptops.
OthersSubmit ==
    /\ Cardinality({i \in DOMAIN log : log[i] = "other"}) < MaxOthers
    /\ Logs("other")
    /\ UNCHANGED <<phase, core, peers, conn, proc, channel, cursor, daemonVars,
                   replayVars, welcomed, faults>>

\* P2PRoomServer.publish: frames go to whoever is connected when the append is done.
Publish ==
    /\ publishing # <<>>
    /\ core' = core \o SeqsOf(Head(publishing))
    /\ publishing' = Tail(publishing)
    /\ conn' = [c \in Conns |-> IF \E q \in peers : q.conn = c
                                THEN Sent(conn[c], <<Events(Head(publishing))>>)
                                ELSE conn[c]]
    /\ UNCHANGED <<phase, log, peers, raced, proc, channel, cursor, daemonVars, replayVars,
                   welcomed, faults>>

FaultyMissing == IF core = <<>> THEN [lo |-> 1, hi |-> Len(log)]
                                ELSE [lo |-> Len(core), hi |-> Len(log)]

\* core.eventsAfter(server.historyLength): what a crash kept from the Hypercore.
Missing == [lo |-> Len(core) + 1, hi |-> Len(log)]

\* The rest of start(), once the server listens.  What is logged but still on its
\* way to the Hypercore counts as missing, and is appended twice.
Starts ==
    /\ phase = "starting"
    /\ phase' = "up"
    /\ publishing' = IF Missing.lo > Missing.hi THEN publishing ELSE Append(publishing, Missing)
    /\ raced' = (raced \/ publishing # <<>>)
    /\ UNCHANGED <<log, core, peers, conn, proc, channel, cursor, daemonVars, replayVars,
                   welcomed, faults>>

\* The process dies and the next one begins.  The log and the Hypercore stay.
AuthorityCrashes ==
    /\ Fault
    /\ phase' = "starting"
    /\ publishing' = <<>>
    /\ peers' = {}
    /\ conn' = [c \in Conns |-> [Broken(conn[c]) EXCEPT !.up = <<>>, !.authOpen = FALSE]]
    /\ UNCHANGED <<log, core, raced, proc, channel, cursor, daemonVars, replayVars, welcomed>>

FaultyRegistered(c) ==
    IF \E q \in peers : q.proc = conn[c].proc THEN peers
    ELSE peers \cup {[proc |-> conn[c].proc, conn |-> c, hello |-> FALSE, joined |-> FALSE]}

\* attach: a newer connection of a process takes the place of its older one.
Registered(c) ==
    {q \in peers : q.proc # conn[c].proc}
        \cup {[proc |-> conn[c].proc, conn |-> c, hello |-> FALSE, joined |-> FALSE]}

AuthorityAttaches(c) ==
    /\ conn[c].alive
    /\ ~conn[c].authOpen
    /\ conn' = [b \in Conns |->
                    IF b = c THEN [conn[b] EXCEPT !.authOpen = TRUE]
                    ELSE IF conn[b].proc = conn[c].proc THEN [conn[b] EXCEPT !.up = <<>>]
                    ELSE conn[b]]
    /\ peers' = Registered(c)
    /\ UNCHANGED <<phase, log, core, publishing, raced, proc, channel, cursor, daemonVars,
                   replayVars, welcomed, faults>>

\* RoomCore.welcome: the state, then what the peer says it lacks.
Answer(lastSeq) ==
    LET from == IF lastSeq > Len(log) THEN 0 ELSE lastSeq
    IN IF from = Len(log) THEN <<Welcome>>
       ELSE <<Welcome, Events([lo |-> from + 1, hi |-> Len(log)])>>

\* receive looks the peer up by its process, so the answer goes out on that
\* process' newest connection.
AuthorityReceives(c) ==
    LET msg == Head(conn[c].up)
    IN /\ conn[c].authOpen
       /\ conn[c].up # <<>>
       /\ \/ /\ \A q \in peers : q.proc # conn[c].proc
             /\ conn' = [conn EXCEPT ![c].up = Tail(@)]
             /\ UNCHANGED <<log, publishing, peers, raced>>
          \/ \E q \in peers :
                /\ q.proc = conn[c].proc
                /\ msg.type = "HELLO"
                /\ peers' = (peers \ {q}) \cup {[q EXCEPT !.hello = TRUE]}
                /\ conn' = [[conn EXCEPT ![c].up = Tail(@)]
                              EXCEPT ![q.conn] = Sent(@, Answer(msg.lastSeq))]
                /\ UNCHANGED <<log, publishing, raced>>
          \/ \E q \in peers :
                /\ q.proc = conn[c].proc
                /\ msg.type = "SUBMIT"
                /\ Logs("start")
                /\ peers' = (peers \ {q}) \cup {[q EXCEPT !.joined = TRUE]}
                /\ conn' = [conn EXCEPT ![c].up = Tail(@)]
       /\ UNCHANGED <<phase, core, proc, channel, cursor, daemonVars, replayVars,
                      welcomed, faults>>

FaultySessionReconnected(q) == FALSE

\* Has another connection said HELLO for the session already?
SessionReconnected(q) == \E p \in peers \ {q} : p.hello

\* The close callback of the server.  It knows the session from HELLO only, and
\* leaves alone a process whose newer connection has been registered.
AuthorityCloses(c) ==
    /\ conn[c].authOpen
    /\ ~conn[c].alive
    /\ conn' = [conn EXCEPT ![c].authOpen = FALSE, ![c].up = <<>>]
    /\ \/ /\ \A q \in peers : q.conn # c
          /\ UNCHANGED <<log, publishing, peers, raced>>
       \/ \E q \in peers :
             /\ q.conn = c
             /\ peers' = peers \ {q}
             /\ IF q.hello /\ ~SessionReconnected(q) /\ Active(log)
                THEN Logs("end")
                ELSE UNCHANGED <<log, publishing, raced>>
    /\ UNCHANGED <<phase, core, proc, channel, cursor, daemonVars, replayVars,
                   welcomed, faults>>
-----------------------------------------------------------------------------
(***************************************************************************)
(* The peer's daemon.                                                      *)
(***************************************************************************)
Blank == [lastSeq |-> 0, applied |-> {}]

\* The largest of two seqs, and of a set of them and one more.
Later(a, b)  == IF a > b THEN a ELSE b
Latest(S, a) == CHOOSE x \in S \cup {a} : \A y \in S \cup {a} : y <= x

\* LaptopDaemon.receive leaves out what its room state holds already.
Unseen(S) == {e \in S : e > room.lastSeq}

\* emit, and the daemon's listener: events come sorted.
Emits(S) ==
    LET fresh == {e \in S : e > cursor}
        new   == Unseen(fresh)
    IN /\ cursor' = Latest(fresh, cursor)
       /\ room' = IF new = {} THEN room
                  ELSE [lastSeq |-> Latest(new, 0), applied |-> room.applied \cup new]
       /\ saved' = Latest(new, saved)

FaultyWelcomed(m) == IF room = Blank THEN [lastSeq |-> m, applied |-> 1 .. m] ELSE room

\* The daemon takes the room state of a WELCOME as it is.
Welcomed(m) == [lastSeq |-> m, applied |-> 1 .. m]

\* A frame.  After a WELCOME the daemon announces its session, on whatever
\* channel the transport has by then.
PeerReceives(c) ==
    LET msg   == Head(conn[c].down)
        taken == [conn EXCEPT ![c].down = Tail(@)]
    IN /\ conn[c].peerOpen
       /\ conn[c].down # <<>>
       /\ \/ /\ msg.type = "EVENTS"
             /\ Emits(msg.lo .. msg.hi)
             /\ conn' = taken
             /\ UNCHANGED welcomed
          \/ /\ msg.type = "WELCOME"
             /\ room' = Welcomed(msg.hi)
             /\ saved' = Later(msg.hi, saved)
             /\ welcomed' = (welcomed \/ c = channel)
             /\ conn' = IF channel = 0 THEN taken
                        ELSE [taken EXCEPT ![channel] = Submitted(@, Announce)]
             /\ UNCHANGED cursor
       /\ UNCHANGED <<authVars, proc, channel, replayVars, faults>>

\* The replicated Hypercore has grown: another call of replay() begins.  A cursor
\* beyond the end starts over.
From(len) == IF len < cursor THEN 0 ELSE cursor

Replays(len) ==
    /\ cursor' = From(len)
    /\ replays' = replays \cup {From(len)}

\* A connection carries both protocols in one stream, so a block does not
\* overtake a WELCOME that was sent before the block was there.
Grows ==
    \E c \in Conns, len \in length + 1 .. Len(core) :
        /\ conn[c].alive /\ conn[c].peerOpen /\ conn[c].authOpen
        /\ \A i \in DOMAIN conn[c].down :
              conn[c].down[i].type = "WELCOME" => len <= conn[c].down[i].lo
        /\ raced => len <= MaxStray
        /\ length' = len
        /\ Replays(len)
        /\ UNCHANGED <<authVars, conn, proc, channel, daemonVars, joining, welcomed, faults>>

\* The call at the end of start().
Joins ==
    /\ joining
    /\ joining' = FALSE
    /\ Replays(length)
    /\ UNCHANGED <<authVars, conn, proc, channel, daemonVars, length, welcomed, faults>>

\* A call has read its blocks, up to the length of now, and emits them.  Two that
\* began at the same block come to the same: what one of them leaves for the
\* other has grown since, and that began a third.
ReplayEnds ==
    /\ \E from \in replays :
          /\ replays' = replays \ {from}
          /\ Emits({core[i] : i \in from + 1 .. length})
    /\ UNCHANGED <<authVars, conn, proc, channel, joining, length, welcomed, faults>>

\* A connection comes up and the peer attaches to it: HELLO is its first frame.
\* The swarm keeps one stream per key.  It gives up an older one before it
\* reports a newer, so nothing is read from the older any more, but the close
\* callback of the older may come later.
Connects(c) ==
    /\ conn[c] = Unused
    /\ \A b \in 1 .. c - 1 : conn[b] # Unused
    /\ \A b \in Conns : conn[b].proc = proc => ~conn[b].alive
    /\ conn' = [b \in Conns |->
                    IF b = c THEN [Unused EXCEPT !.proc = proc, !.alive = TRUE,
                                                 !.peerOpen = TRUE, !.up = <<Hello>>]
                    ELSE [conn[b] EXCEPT !.down = <<>>]]
    /\ channel' = c
    /\ welcomed' = FALSE
    /\ UNCHANGED <<authVars, proc, cursor, daemonVars, replayVars, faults>>

Breaks(c) ==
    /\ Fault
    /\ conn[c].alive
    /\ conn' = [conn EXCEPT ![c] = Broken(@)]
    /\ UNCHANGED <<authVars, proc, channel, cursor, daemonVars, replayVars, welcomed>>

\* The close callback of the peer: a late one leaves the new channel alone.
PeerCloses(c) ==
    /\ conn[c].peerOpen
    /\ ~conn[c].alive
    /\ conn' = [conn EXCEPT ![c].peerOpen = FALSE, ![c].down = <<>>]
    /\ channel' = IF channel = c THEN 0 ELSE channel
    /\ UNCHANGED <<authVars, proc, cursor, daemonVars, replayVars, welcomed, faults>>

\* The peer's daemon dies and is started again.  Its cursor and its copy of the
\* Hypercore stay, its room state does not.
PeerRestarts ==
    /\ Fault
    /\ proc' = proc + 1
    /\ channel' = 0
    /\ cursor' = saved
    /\ joining' = TRUE
    /\ replays' = {}
    /\ room' = Blank
    /\ welcomed' = FALSE
    /\ conn' = [c \in Conns |-> [Broken(conn[c]) EXCEPT !.down = <<>>, !.peerOpen = FALSE]]
    /\ UNCHANGED <<authVars, saved, length>>
-----------------------------------------------------------------------------
Init ==
    /\ phase = "starting"
    /\ log = <<>>
    /\ core = <<>>
    /\ publishing = <<>>
    /\ peers = {}
    /\ raced = FALSE
    /\ conn = [c \in Conns |-> Unused]
    /\ proc = 1
    /\ channel = 0
    /\ cursor = 0
    /\ saved = 0
    /\ joining = TRUE
    /\ length = 0
    /\ replays = {}
    /\ room = Blank
    /\ welcomed = FALSE
    /\ faults = 0

AuthorityStep ==
    \/ OthersSubmit
    \/ Publish
    \/ Starts
    \/ AuthorityCrashes
    \/ \E c \in Conns : AuthorityAttaches(c)
    \/ \E c \in Conns : AuthorityReceives(c)
    \/ \E c \in Conns : AuthorityCloses(c)

PeerStep ==
    \/ \E c \in Conns : PeerReceives(c)
    \/ Grows
    \/ Joins
    \/ ReplayEnds
    \/ \E c \in Conns : Connects(c)
    \/ \E c \in Conns : PeerCloses(c)
    \/ PeerRestarts

Next == AuthorityStep \/ PeerStep \/ \E c \in Conns : Breaks(c)

Spec == Init /\ [][Next]_vars

\* The event loops go on, an append to the Hypercore ends, a process that died is
\* started, a broken connection is noticed on both sides, the swarm connects
\* again, and what is sent over a connection that stays up arrives.  Each of these
\* happens finitely often between two steps of others, so fairness of them all
\* together is fairness of each.  Nothing is assumed of the Hypercore's
\* replication, of restarts, or of those who submit.
Progress ==
    \/ Publish
    \/ Starts
    \/ \E c \in Conns : \/ AuthorityAttaches(c)
                        \/ AuthorityReceives(c)
                        \/ AuthorityCloses(c)
                        \/ PeerReceives(c)
                        \/ PeerCloses(c)
                        \/ Connects(c)

Fairness == WF_vars(Progress)

FairSpec == Spec /\ Fairness
-----------------------------------------------------------------------------
(***************************************************************************)
(* Properties.                                                             *)
(***************************************************************************)

\* Every variable holds what its declaration says.
TypesOK ==
    /\ phase \in {"starting", "up"}
    /\ log \in Seq({"start", "end", "other"})
    /\ core \in Seq(Nat)
    /\ publishing \in Seq(Batch)
    /\ peers \subseteq [proc : 1 .. proc, conn : Conns, hello : BOOLEAN, joined : BOOLEAN]
    /\ conn \in [Conns -> [proc : 0 .. proc, alive : BOOLEAN, up : Seq(UpMessage),
                           down : Seq(DownMessage), peerOpen : BOOLEAN, authOpen : BOOLEAN]]
    /\ raced \in BOOLEAN
    /\ proc \in Nat
    /\ channel \in Conns \cup {0}
    /\ {cursor, saved} \subseteq 0 .. Len(log)
    /\ joining \in BOOLEAN
    /\ length \in 0 .. Len(core)
    /\ replays \subseteq 0 .. Len(log)
    /\ room.lastSeq \in 0 .. Len(log)
    /\ room.applied \subseteq 1 .. Len(log)
    /\ welcomed \in BOOLEAN
    /\ faults \in Nat

\* The replicated history is the room's log: block i holds event i + 1, over
\* crashes between the two writes.  Peers read it by position.  The exception is an
\* event that overtook start(): one logged ahead of what a crash had lost, or still
\* on its way to the Hypercore when start() looked.
InStep == \A i \in DOMAIN core : core[i] = i

HistoryIsTheLog == raced \/ InStep

\* From the WELCOME of its newest connection on, connected or not, a peer's room
\* state is what the authority's was after the same event, with nothing left out.
\* A history that is not the log may leave a gap, for it is read by position.
ReplicaIsExact == welcomed => raced \/ room.applied = 1 .. room.lastSeq

\* A daemon's room state never goes back, so that it handles no event twice,
\* whatever order WELCOME, frames and the Hypercore come in.
NeverBack == [][proc' = proc => room'.lastSeq >= room.lastSeq]_vars

\* The late close of an older connection, of this process or of one before it,
\* never ends the session of a process that has rejoined.
RejoinStands == \A q \in peers : q.joined => Active(log)

\* Every event reaches the peer's room state in the end, whatever broke before, by
\* frames and WELCOME: unless the history that is not the log left it out.
CatchesUp == \A n \in 1 .. MaxConns : n <= Len(log) ~> raced \/ n \in room.applied
=============================================================================
