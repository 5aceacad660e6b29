--------------------------- MODULE SignalingServer ---------------------------
(***************************************************************************)
(* The signaling server as its goroutines run it (server/ws.go over the    *)
(* registry of module Hub).  Every connection has a readPump, a writePump  *)
(* and a goroutine that waits for the handshake timeout.  An operation of  *)
(* the hub is one step, under Hub.mu; what the goroutines do between two   *)
(* operations is not: a join is the locked registration, the close of      *)
(* joinedChan, the walk over room.Peers without the lock, and a blocking   *)
(* send of the acknowledgement.                                            *)
(*                                                                         *)
(* Identifiers are random, so each one serves a single connection.         *)
(***************************************************************************)
EXTENDS Hub

CONSTANT MaxRouted  \* bound: messages for other peers, over all connections
ASSUME RoutedAssumption == MaxRouted \in Nat

VARIABLES
  pump,       \* readPump
  writer,     \* writePump
  timer,      \* the handshake goroutine
  sock,       \* the server's side of the socket
  gone,       \* the client closed, vanished or stalled for good
  signalled,  \* joinedChan is closed
  touched,    \* peers put into or taken out of room.Peers during the walk
  roster,     \* the peers of the acknowledgement in hand
  view,       \* the client's own list of the others in its room
  full,       \* the connection's queue has been full
  routed,     \* messages for other peers so far
  crashed     \* the runtime ended the process

pumps      == <<pump, writer, timer>>
wires      == <<sock, gone>>
joining    == <<signalled, roster>>
serving    == <<hubVars, pumps>>
serverVars == <<hubVars, pumps, wires, joining, touched, view, full, routed, crashed>>

Serving == {"read", "joined", "walk", "ack", "exit"}

(* Every variable has its type; nobody is told of itself as another peer.   *)
ServerTypeOK ==
  /\ pump \in [Peers -> Serving \cup {"none", "close", "done"}]
  /\ writer \in [Peers -> {"none", "run", "done"}]
  /\ timer \in [Peers -> {"none", "wait", "drop", "done"}]
  /\ sock \in [Peers -> {"none", "open", "closed"}]
  /\ gone \in [Peers -> BOOLEAN] /\ signalled \in [Peers -> BOOLEAN]
  /\ touched \in [Peers -> SUBSET Peers]
  /\ roster \in [Peers -> SUBSET Peers] /\ \A p \in Peers : p \notin roster[p]
  /\ view \in [Peers -> SUBSET Peers]
  /\ full \in [Peers -> BOOLEAN]
  /\ routed \in 0 .. MaxRouted /\ crashed \in BOOLEAN

ServerInit ==
  /\ HubInit
  /\ pump = [p \in Peers |-> "none"]
  /\ writer = pump /\ timer = pump /\ sock = pump
  /\ gone = [p \in Peers |-> FALSE] /\ signalled = gone /\ full = gone
  /\ touched = [p \in Peers |-> {}] /\ roster = touched /\ view = touched
  /\ routed = 0 /\ crashed = FALSE

At(p, label)   == pump[p] = label
GoTo(p, label) == pump' = [pump EXCEPT ![p] = label]
Shut(p)        == sock' = [sock EXCEPT ![p] = "closed"]
-----------------------------------------------------------------------------
(* serveWs, from the registration to the three goroutines.  A refused       *)
(* registration is answered and closed, and leaves nothing behind.          *)
Accept(p) ==
  /\ At(p, "none")
  /\ RegisterPeer(p)
  /\ GoTo(p, "read")
  /\ writer' = [writer EXCEPT ![p] = "run"]
  /\ timer' = [timer EXCEPT ![p] = "wait"]
  /\ sock' = [sock EXCEPT ![p] = "open"]
  /\ UNCHANGED <<gone, joining, view, routed>>

Leave(p) ==
  /\ sock[p] = "open" /\ ~gone[p]
  /\ gone' = [gone EXCEPT ![p] = TRUE]
  /\ view' = [view EXCEPT ![p] = {}]
  /\ UNCHANGED <<hubVars, pumps, sock, joining, routed>>

(* readPump leaves its loop.  Drop: a message over the rate, malformed, of  *)
(* an unknown type, a join refused or repeated, or anything else before the *)
(* join; the client may send one at any time.                               *)
Exit(p) ==
  /\ At(p, "read") /\ Free(p)
  /\ GoTo(p, "exit")
  /\ UNCHANGED <<hubVars, writer, timer, wires, joining, view, routed>>

Drop(p)      == sock[p] = "open" /\ Exit(p)
ReadError(p) == (sock[p] = "closed" \/ gone[p]) /\ Exit(p)

(* The deferred function: out of the hub, then close. *)
Unregister(p) ==
  /\ At(p, "exit")
  /\ UnregisterPeer(p)
  /\ GoTo(p, "close")
  /\ view' = [view EXCEPT ![p] = {}]
  /\ UNCHANGED <<writer, timer, wires, joining, routed>>

Close(p) ==
  /\ At(p, "close")
  /\ Shut(p)
  /\ GoTo(p, "done")
  /\ UNCHANGED <<hubVars, writer, timer, gone, joining, view, routed>>

(* A join.  Frames read before a close are still handled after it, so       *)
(* neither sock nor gone is a guard.                                        *)
Join(p) ==
  /\ At(p, "read")
  /\ \E c \in Codes : CreateChosen(p, c) \/ CreateGenerated(p, c) \/ JoinRoom(p, c)
  /\ GoTo(p, "joined")
  /\ UNCHANGED <<writer, timer, wires, joining, view, routed>>

\* mutant: the recovered goroutine returns without its deferred function
CloseUncleaned(p) ==
  /\ At(p, "joined")
  /\ IF signalled[p] THEN GoTo(p, "close") ELSE GoTo(p, "walk")
  /\ signalled' = [signalled EXCEPT ![p] = TRUE]
  /\ UNCHANGED <<hubVars, writer, timer, wires, roster, view, routed>>

(* close(joinedChan): a second close, by a connection that joins again      *)
(* after its room was reaped, panics; recover ends the connection.          *)
CloseJoinedChan(p) ==
  /\ At(p, "joined")
  /\ IF signalled[p] THEN GoTo(p, "exit") ELSE GoTo(p, "walk")
  /\ signalled' = [signalled EXCEPT ![p] = TRUE]
  /\ UNCHANGED <<hubVars, writer, timer, wires, roster, view, routed>>

(* The range over room.Peers ends.  If the map was written meanwhile, an    *)
(* entry that came or went may be seen or not, or the runtime notices and   *)
(* ends the process.                                                        *)
WalkRoom(p) ==
  /\ At(p, "walk")
  /\ \E seen \in SUBSET touched[p] :
       roster' = [roster EXCEPT ![p] =
                    ((members[roomCode[p]] \ touched[p]) \cup seen) \ {p}]
  /\ GoTo(p, "ack")
  /\ UNCHANGED <<hubVars, writer, timer, wires, signalled, view, routed>>

AckHandedOver(p) ==  \* mutant: the channel has no buffer, writePump must take it
  /\ At(p, "ack") /\ writer[p] = "run"
  /\ QueueAck(p, roster[p])
  /\ roster' = [roster EXCEPT ![p] = {}]
  /\ GoTo(p, "read")
  /\ UNCHANGED <<writer, timer, wires, signalled, view, routed>>

(* c.peer.Send <- ackData, which waits for room in the queue. *)
Acknowledge(p) ==
  /\ At(p, "ack")
  /\ QueueAck(p, roster[p])
  /\ roster' = [roster EXCEPT ![p] = {}]
  /\ GoTo(p, "read")
  /\ UNCHANGED <<writer, timer, wires, signalled, view, routed>>
-----------------------------------------------------------------------------
(* Messages for other peers.  RouteMessage's errors (another room, no such  *)
(* recipient, a full queue) are written by readPump itself, beside          *)
(* writePump: gorilla/websocket panics in one of two writers that overlap,  *)
(* and the recover there ends that goroutine and the socket.                *)
Relayed == routed < MaxRouted /\ routed' = routed + 1

Route(p) ==
  /\ At(p, "read") /\ Relayed
  /\ \E q \in Peers, room \in Codes \cup {NoRoom} : RouteMessage(p, room, q)
  /\ UNCHANGED <<pumps, wires, joining, view>>

RouteFails(p) ==
  /\ At(p, "read") /\ Free(p) /\ roomCode[p] # NoRoom /\ Relayed
  /\ writer[p] = "run"
  /\ \/ GoTo(p, "exit") /\ UNCHANGED <<writer, sock>>
     \/ /\ writer' = [writer EXCEPT ![p] = "done"]
        /\ Shut(p) /\ UNCHANGED pump
  /\ UNCHANGED <<hubVars, timer, gone, joining, view>>

AskRelay(p) ==
  /\ At(p, "read") /\ Relayed
  /\ \E q \in Peers : RelayLookup(p, q)
  /\ UNCHANGED <<pumps, wires, joining, view>>

AnswerRelay(p) ==
  /\ RelayRefused(p) \/ RelayApproved(p)
  /\ UNCHANGED <<pumps, wires, joining, view, routed>>
-----------------------------------------------------------------------------
\* mutant: the acknowledgement replaces what the client knows
SeenAnew(p, m) == CASE m.type = "joined"      -> m.about
                    [] m.type = "peer-joined" -> view[p] \cup m.about
                    [] m.type = "peer-left"   -> view[p] \ m.about
                    [] OTHER                  -> view[p]

(* writePump.  What web/src/signaling.ts and go-transport.ts make of a      *)
(* delivered message is the client's view: joined and peer-joined add to    *)
(* it, peer-left takes away.                                                *)
Seen(p, m) == CASE m.type \in {"joined", "peer-joined"} -> view[p] \cup m.about
                [] m.type = "peer-left"                 -> view[p] \ m.about
                [] OTHER                                -> view[p]

Deliver(p) ==
  /\ writer[p] = "run" /\ sock[p] = "open"
  /\ TakeMessage(p)
  /\ view' = [view EXCEPT ![p] = IF gone[p] \/ p \notin peers THEN {} ELSE Seen(p, Head(send[p]))]
  /\ UNCHANGED <<pumps, wires, joining, routed>>

\* mutant: no pings
WriteFailsUnpinged(p) ==
  /\ writer[p] = "run" /\ (sock[p] = "closed" \/ gone[p])
  /\ TakeMessage(p)
  /\ writer' = [writer EXCEPT ![p] = "done"]
  /\ Shut(p)
  /\ UNCHANGED <<pump, timer, gone, joining, view, routed>>

(* A write or a ping fails. *)
WriteFails(p) ==
  /\ writer[p] = "run" /\ (sock[p] = "closed" \/ gone[p])
  /\ TakeMessage(p) \/ UNCHANGED hubVars
  /\ writer' = [writer EXCEPT ![p] = "done"]
  /\ Shut(p)
  /\ UNCHANGED <<pump, timer, gone, joining, view, routed>>
-----------------------------------------------------------------------------
(* The handshake goroutine: the timeout looks at RoomCode under the lock    *)
(* and acts on it after the unlock.  If the connection joins in between,    *)
(* its error may collide with writePump's writes and the close be skipped.  *)
TimeoutFires(p) ==
  /\ timer[p] = "wait"
  /\ timer' = [timer EXCEPT ![p] = IF roomCode[p] # NoRoom THEN "done" ELSE "drop"]
  /\ UNCHANGED <<hubVars, pump, writer, wires, joining, view, routed>>

TimeoutDropsNobody(p) ==  \* mutant: the error is sent, the socket stays
  /\ timer[p] = "drop"
  /\ timer' = [timer EXCEPT ![p] = "done"]
  /\ UNCHANGED <<hubVars, pump, writer, wires, joining, view, routed>>

TimeoutDrops(p) ==
  /\ timer[p] = "drop"
  /\ timer' = [timer EXCEPT ![p] = "done"]
  /\ Shut(p) \/ (signalled[p] /\ writer[p] = "run" /\ UNCHANGED sock)
  /\ UNCHANGED <<hubVars, pump, writer, gone, joining, view, routed>>

TimeoutCancelled(p) ==
  /\ timer[p] = "wait" /\ signalled[p]
  /\ timer' = [timer EXCEPT ![p] = "done"]
  /\ UNCHANGED <<hubVars, pump, writer, wires, joining, view, routed>>

(* The reaper.  RoomTTL (30 minutes) is far longer than a walk or than      *)
(* HandshakeTimeout (10 seconds), so a room does not become idle meanwhile. *)
Settled(p) == pump[p] \notin {"joined", "walk"} /\ timer[p] = "done"

Reaper ==
  /\ \/ ReapRooms
     \/ \E c \in Codes : Elapse(c) /\ \A p \in members[c] : Settled(p)
  /\ UNCHANGED <<pumps, wires, joining, view, routed>>
-----------------------------------------------------------------------------
PumpStep(p)  == \/ CloseJoinedChan(p) \/ WalkRoom(p) \/ Acknowledge(p)
                \/ AnswerRelay(p) \/ Unregister(p) \/ Close(p)
WriteStep(p) == Deliver(p) \/ WriteFails(p)
TimerStep(p) == TimeoutFires(p) \/ TimeoutDrops(p) \/ TimeoutCancelled(p)

Step(p) == \/ Accept(p) \/ Leave(p) \/ Drop(p) \/ ReadError(p) \/ Join(p)
           \/ Route(p) \/ RouteFails(p) \/ AskRelay(p)
           \/ PumpStep(p) \/ WriteStep(p) \/ TimerStep(p)

(* What every step does to the walks under way, and to the queues' record.  *)
Changed(c) == (members[c] \ members'[c]) \cup (members'[c] \ members[c])

Watch ==
  /\ touched' = [p \in Peers |-> IF At(p, "walk") /\ pump'[p] = "walk"
                                 THEN touched[p] \cup Changed(roomCode[p])
                                 ELSE {}]
  /\ full' = [p \in Peers |-> /\ full[p] \/ Len(send'[p]) = SendCap
                              /\ p \in peers' /\ ~gone'[p]]
  /\ \/ crashed' = FALSE
     \/ /\ \E p \in Peers : At(p, "walk") /\ Changed(roomCode[p]) # {}
        /\ crashed' = TRUE

Runs(step) == ~crashed /\ step /\ Watch

ServerNext == Runs(Reaper) \/ \E p \in Peers : Runs(Step(p))

ServerSpec == ServerInit /\ [][ServerNext]_serverVars

(* The scheduler runs every goroutine, timers go off, a dead client is      *)
(* noticed by the pong deadline or a write timeout.  A closed socket holds  *)
(* finitely many frames already read, so its readPump, however often it     *)
(* finds one, comes to the error: strong fairness.                          *)
ServerFairness ==
  \A p \in Peers : /\ WF_serving(~crashed /\ PumpStep(p))
                  /\ SF_serving(~crashed /\ ReadError(p))
                  /\ WF_serving(~crashed /\ WriteStep(p))
                  /\ WF_serving(~crashed /\ TimerStep(p))

FairServerSpec == ServerSpec /\ ServerFairness
-----------------------------------------------------------------------------
(***************************************************************************)
(* Properties.                                                             *)
(***************************************************************************)

(* A connection counts against the limits exactly while its readPump runs,  *)
(* it is in a room while it walks one, and only then; in particular every   *)
(* way out of readPump gives the place back.                                *)
ServedExactly ==
  \A p \in Peers :
    /\ p \in peers <=> pump[p] \in Serving
    /\ ~Free(p) => At(p, "read")
    /\ At(p, "joined") \/ At(p, "walk") => roomCode[p] \in rooms

(* A client whose queue was never full knows every other member of its room *)
(* as soon as it has read what was sent to it: walking the room without the *)
(* lock, and acknowledging after others were told, loses nobody.            *)
CaughtUp(p) == /\ At(p, "read") /\ roomCode[p] # NoRoom /\ ~gone[p] /\ ~full[p]
               /\ writer[p] = "run" /\ sock[p] = "open" /\ send[p] = <<>>

NobodyMissed ==
  \A p \in Peers : CaughtUp(p) => members[roomCode[p]] \ {p} \subseteq view[p]

(* A connection that ends, from either side, is out of the registry and     *)
(* leaves no goroutine behind; unless its acknowledgement waits for room in *)
(* a queue that nobody empties any more.                                    *)
AckStuck(p) == At(p, "ack") /\ writer[p] = "done" /\ Len(send[p]) = SendCap

ConnectionsEnd ==
  \A p \in Peers : sock[p] = "closed" \/ gone[p] ~>
    \/ p \notin peers /\ At(p, "done") /\ writer[p] = "done" /\ timer[p] = "done"
    \/ AckStuck(p) \/ crashed

(* A join that the registry has granted comes to its end, whatever becomes  *)
(* of the client and of writePump meanwhile: readPump reads on, with the    *)
(* acknowledgement queued, or the connection is unregistered; with the same *)
(* exception.                                                               *)
JoinsEnd ==
  \A p \in Peers : pump[p] \in {"joined", "walk", "ack"} ~>
    At(p, "read") \/ p \notin peers \/ AckStuck(p) \/ crashed

(* A connection that does not join is dropped (SPEC.md:213).                *)
HandshakeEnforced ==
  \A p \in Peers : At(p, "read") /\ ~signalled[p] ~>
    signalled[p] \/ sock[p] = "closed" \/ crashed
=============================================================================
