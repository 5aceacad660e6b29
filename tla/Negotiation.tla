------------------------------ MODULE Negotiation ------------------------------
(***************************************************************************)
(* How the browsers of a room connect to each other                        *)
(* (PeerConnectionManager in web/src/peer.ts, between the events and the   *)
(* messages of signaling.ts, with the part of GoTransport that shows a     *)
(* peer and chooses its path).  Of two peers the one with the lower id     *)
(* makes the offer.                                                        *)
(*                                                                         *)
(* A browser whose WebSocket drops joins again under a new id, and keeps   *)
(* its connections; one that leaves closes those that its map still holds. *)
(* The server is what joinOrCreateRoom, the walk over room.Peers and the   *)
(* acknowledgement of it are to its clients; it routes a message in the    *)
(* step that sends it, and loses none (an inbox is a WebSocket).  A        *)
(* handler that awaits is two steps, and never goes on after its           *)
(* connection was closed.                                                  *)
(***************************************************************************)
EXTENDS Naturals, Sequences

CONSTANTS
  Browsers, Host,   \* the host's browser is one of them
  Ids,              \* bound: the ids that the server draws
  None              \* undefined, or no entry in a Map

Connections ==
  [mine : Ids, sig : {"offering", "offered", "answering", "stable", "idle"},
   link : {"new", "connected", "disconnected", "failed"},
   got  : BOOLEAN,     \* it has candidates of the other end
   open : BOOLEAN]     \* its data channel has been handed on

\* a connection that another took the place of in the map, and whether its
\* GoTransport was left since: what is not in the map is not closed
ReplacedConnections == [peer : Ids, conn : Connections, left : BOOLEAN]

ASSUME IdAssumption   == Ids \subseteq Nat /\ None \notin Ids \cup Connections
ASSUME HostAssumption == Host \in Browsers

VARIABLES
  step, list,       \* of each id: how far its join is, the peers it will tell
  inbox,            \* messages to the connection of each id
  id,               \* of each browser: the id of its connection
  self,             \* selfId
  pc,               \* connections
  old,              \* the replaced connections of each browser
  channels, relayMode,
  shown,            \* the state that the page shows of a peer
  again,            \* history: ids of browsers that kept earlier connections
  raced             \* history: notices that came while a join was acknowledged

server == <<step, list, inbox, raced>>
page   == <<channels, relayMode, shown>>
vars   == <<server, id, self, pc, old, page, again>>

Members == {i \in Ids : step[i] \in {"registered", "walked", "joined"}}

Replaced(b, j) == \E o \in old[b] : o.peer = j

Messages ==
  [type : {"joined"}, peers : SUBSET Ids]
    \cup [type : {"peer-joined", "peer-left", "offer", "answer", "ice"}, from : Ids]

(* Every variable has its type; a browser has an id of its own; a channel   *)
(* kept for a peer has a connection to that peer, or a replaced one.        *)
TypeOK ==
  /\ step \in [Ids -> {"free", "registered", "walked", "joined", "gone"}]
  /\ list \in [Ids -> SUBSET Ids] /\ inbox \in [Ids -> Seq(Messages)]
  /\ id \in [Browsers -> Ids \cup {None}] /\ self \in [Browsers -> Ids \cup {None}]
  /\ pc \in [Browsers -> [Ids -> Connections \cup {None}]]
  /\ old \in [Browsers -> SUBSET ReplacedConnections]
  /\ channels \in [Browsers -> SUBSET Ids] /\ relayMode \in [Browsers -> SUBSET Ids]
  /\ shown \in [Browsers -> [Ids -> {"none", "connecting", "connected"}]]
  /\ again \subseteq Ids /\ raced \in [Ids -> SUBSET Ids]
  /\ \A b, c \in Browsers : id[b] # None /\ id[b] = id[c] => b = c
  /\ \A b \in Browsers : \A j \in channels[b] : pc[b][j] # None \/ Replaced(b, j)

NoConnections == [j \in Ids |-> None]
NothingShown  == [j \in Ids |-> "none"]

Init ==
  /\ step = [i \in Ids |-> "free"] /\ list = [i \in Ids |-> {}]
  /\ inbox = [i \in Ids |-> <<>>] /\ raced = list
  /\ id = [b \in Browsers |-> None] /\ self = id
  /\ pc = [b \in Browsers |-> NoConnections] /\ old = [b \in Browsers |-> {}]
  /\ channels = old /\ relayMode = old /\ shown = [b \in Browsers |-> NothingShown]
  /\ again = {}
-----------------------------------------------------------------------------
(* The server.                                                              *)
Notify(i, type) ==
  /\ inbox' = [j \in Ids |-> IF j \in Members \ {i}
                             THEN Append(inbox[j], [type |-> type, from |-> i]) ELSE <<>>]
  /\ raced' = [j \in Ids |-> IF j = i THEN {} ELSE IF step[j] = "walked" THEN raced[j] \cup {i}
                                              ELSE raced[j]]

(* What an earlier connection to the server has left with the browser, but  *)
(* for what a replaced connection shows.                                    *)
Kept(b) ==
  \/ self[b] # None \/ pc[b] # NoConnections
  \/ \E j \in Ids : shown[b][j] # "none" /\ ~Replaced(b, j)

(* A browser connects and joins: the host when there is no room of its      *)
(* code, a guest when there is.                                             *)
Register(b, i) ==
  /\ id[b] = None /\ step[i] = "free" /\ (b = Host) = (Members = {})
  /\ step' = [step EXCEPT ![i] = "registered"] /\ Notify(i, "peer-joined")
  /\ id' = [id EXCEPT ![b] = i]
  /\ again' = IF Kept(b) THEN again \cup {i} ELSE again
  /\ UNCHANGED <<list, self, pc, old, page>>

Walk(i) ==
  /\ step[i] = "registered" /\ step' = [step EXCEPT ![i] = "walked"]
  /\ list' = [list EXCEPT ![i] = Members \ {i}]
  /\ UNCHANGED <<inbox, raced, id, self, pc, old, page, again>>

Acknowledge(i) ==
  /\ step[i] = "walked" /\ step' = [step EXCEPT ![i] = "joined"]
  /\ inbox' = [inbox EXCEPT ![i] = Append(@, [type |-> "joined", peers |-> list[i]])]
  /\ list' = [list EXCEPT ![i] = {}]
  /\ UNCHANGED <<raced, id, self, pc, old, page, again>>

Unregister(b) ==
  /\ id[b] # None /\ id' = [id EXCEPT ![b] = None]
  /\ step' = [step EXCEPT ![id[b]] = "gone"] /\ Notify(id[b], "peer-left")

(* The WebSocket drops: nothing tells the connections.  (Bound: while there *)
(* is an id to come back with.)                                             *)
Drop(b) ==
  /\ \E i \in Ids : step[i] = "free"
  /\ Unregister(b) /\ UNCHANGED <<list, self, pc, old, page, again>>

(* leave(): closeAll closes what the map holds, and the maps are cleared.   *)
(* What was replaced stays open.                                            *)
Leave(b) ==
  /\ Unregister(b)
  /\ self' = [self EXCEPT ![b] = None] /\ pc' = [pc EXCEPT ![b] = NoConnections]
  /\ old' = [old EXCEPT ![b] = {[o EXCEPT !.left = TRUE] : o \in @}]
  /\ channels' = [channels EXCEPT ![b] = {}] /\ relayMode' = [relayMode EXCEPT ![b] = {}]
  /\ shown' = [shown EXCEPT ![b] = NothingShown]
  /\ UNCHANGED <<list, again>>

(* sendOffer or sendAnswer, and sendIce of the candidates that setting the  *)
(* local description has gathered: dropped without a connection; refused to *)
(* one who is not in the room.                                              *)
Send(b, j, type) ==
  inbox' = IF id[b] # None /\ j \in Members
           THEN [inbox EXCEPT ![j] = @ \o <<[type |-> type, from |-> id[b]],
                                           [type |-> "ice", from |-> id[b]]>>]
           ELSE inbox
-----------------------------------------------------------------------------
Show(b, j, st) == shown' = [shown EXCEPT ![b][j] = st]

(* handlePeerState "failed": the peer counts as reachable over the relay.   *)
Failed(b, j) ==
  relayMode' = [relayMode EXCEPT ![b] = @ \cup {j}] /\ Show(b, j, "connected")

NewConnection(b, offers) ==
  [mine |-> id[b], sig |-> IF offers THEN "offering" ELSE "answering",
   link |-> "new", got |-> FALSE, open |-> offers]

(* initiateConnection to each: what the map held is replaced, not closed.   *)
(* For some the constructor throws: nothing is made, and the peer is over   *)
(* the relay.                                                               *)
Initiate(b, js) ==
  \E made \in SUBSET js :
    /\ pc' = [pc EXCEPT ![b] =
                [j \in Ids |-> IF j \in made THEN NewConnection(b, TRUE) ELSE pc[b][j]]]
    /\ old' = [old EXCEPT ![b] = @ \cup
         {[peer |-> j, conn |-> pc[b][j], left |-> FALSE] : j \in {k \in made : pc[b][k] # None}}]
    /\ channels' = [channels EXCEPT ![b] = @ \cup made]
    /\ relayMode' = [relayMode EXCEPT ![b] = @ \cup (js \ made)]

Update(b, j, c) == pc' = [pc EXCEPT ![b][j] = c]

Receive(b, type) ==
  /\ id[b] # None /\ inbox[id[b]] # <<>> /\ Head(inbox[id[b]]).type = type
  /\ inbox' = [inbox EXCEPT ![id[b]] = Tail(@)]

From(b) == Head(inbox[id[b]]).from

OnJoined(b) ==
  /\ Receive(b, "joined") /\ self' = [self EXCEPT ![b] = id[b]]
  /\ LET peers == Head(inbox[id[b]]).peers IN
     /\ Initiate(b, {j \in peers : id[b] < j})
     /\ shown' = [shown EXCEPT ![b] = [j \in Ids |-> IF j \in peers THEN "connecting" ELSE @[j]]]
  /\ UNCHANGED <<step, list, raced, id, again>>

\* mutant: both of a pair make an offer
OnPeerJoinedAlways(b) ==
  /\ Receive(b, "peer-joined")
  /\ Initiate(b, {j \in {From(b)} : self[b] # None}) /\ Show(b, From(b), "connecting")
  /\ UNCHANGED <<step, list, raced, id, self, again>>

(* A notice that comes before joined finds no selfId, or an earlier one.    *)
OnPeerJoined(b) ==
  /\ Receive(b, "peer-joined")
  /\ Initiate(b, {j \in {From(b)} : self[b] # None /\ self[b] < j})
  /\ Show(b, From(b), "connecting")
  /\ UNCHANGED <<step, list, raced, id, self, again>>

\* mutant: a peer that left is still shown
OnPeerLeftKeeps(b) ==
  /\ Receive(b, "peer-left") /\ Update(b, From(b), None)
  /\ channels' = [channels EXCEPT ![b] = @ \ {From(b)}]
  /\ UNCHANGED <<step, list, raced, id, self, old, relayMode, shown, again>>

\* mutant: the connection goes, its channel stays
OnPeerLeftChannel(b) ==
  /\ Receive(b, "peer-left") /\ Update(b, From(b), None)
  /\ Show(b, From(b), "none")
  /\ UNCHANGED <<step, list, raced, id, self, old, channels, relayMode, again>>

(* closeConnection.  relayMode keeps the peer.                              *)
OnPeerLeft(b) ==
  /\ Receive(b, "peer-left") /\ Update(b, From(b), None)
  /\ channels' = [channels EXCEPT ![b] = @ \ {From(b)}]
  /\ Show(b, From(b), "none")
  /\ UNCHANGED <<step, list, raced, id, self, old, relayMode, again>>

(* An offer makes a connection, unless the constructor throws.  One that is *)
(* there takes the offer over its own, or throws.                           *)
OnOffer(b) ==
  /\ Receive(b, "offer")
  /\ LET j == From(b) IN
     \/ /\ Update(b, j, IF pc[b][j] = None THEN NewConnection(b, FALSE)
                        ELSE [pc[b][j] EXCEPT !.sig = "answering"])
        /\ UNCHANGED page
     \/ Failed(b, j) /\ UNCHANGED <<pc, channels>>
  /\ UNCHANGED <<step, list, raced, id, self, old, again>>

(* An answer that no offer waits for throws; one that an offer waits for    *)
(* may.                                                                     *)
OnAnswer(b) ==
  /\ Receive(b, "answer")
  /\ LET j == From(b) IN
     \/ pc[b][j] = None /\ UNCHANGED <<pc, page>>
     \/ /\ pc[b][j] # None /\ pc[b][j].sig = "offered"
        /\ Update(b, j, [pc[b][j] EXCEPT !.sig = "stable"]) /\ UNCHANGED page
     \/ pc[b][j] # None /\ Failed(b, j) /\ UNCHANGED <<pc, channels>>
  /\ UNCHANGED <<step, list, raced, id, self, old, again>>

(* A candidate is lost without a connection that knows the other end.       *)
Remote(c) == c # None /\ c.sig \in {"answering", "stable"}

OnIce(b) ==
  /\ Receive(b, "ice")
  /\ LET j == From(b) IN
     IF Remote(pc[b][j]) THEN Update(b, j, [pc[b][j] EXCEPT !.got = TRUE]) ELSE UNCHANGED pc
  /\ UNCHANGED <<step, list, raced, id, self, old, page, again>>
-----------------------------------------------------------------------------
(* A description is made and set, and goes to the peer.                     *)
OfferMade(b, j) ==
  /\ pc[b][j] # None /\ pc[b][j].sig = "offering"
  /\ Update(b, j, [pc[b][j] EXCEPT !.sig = "offered"]) /\ Send(b, j, "offer")
  /\ UNCHANGED <<step, list, raced, id, self, old, page, again>>

\* mutant: the answer is made and not sent
AnswerMadeUnsent(b, j) ==
  /\ pc[b][j] # None /\ pc[b][j].sig = "answering"
  /\ Update(b, j, [pc[b][j] EXCEPT !.sig = "stable"])
  /\ UNCHANGED <<server, id, self, old, page, again>>

AnswerMade(b, j) ==
  /\ pc[b][j] # None /\ pc[b][j].sig = "answering"
  /\ Update(b, j, [pc[b][j] EXCEPT !.sig = "stable"]) /\ Send(b, j, "answer")
  /\ UNCHANGED <<step, list, raced, id, self, old, page, again>>

(* Or it cannot be made or set: nothing is sent, and the peer is over the   *)
(* relay.                                                                   *)
DescriptionFails(b, j) ==
  /\ pc[b][j] # None /\ pc[b][j].sig \in {"offering", "answering"}
  /\ Update(b, j, [pc[b][j] EXCEPT !.sig = "idle"]) /\ Failed(b, j)
  /\ UNCHANGED <<server, id, self, old, channels, again>>

(* The other end of a connection has the same two ids, and may have been    *)
(* replaced.                                                                *)
Reaches(c, j) ==
  \E d \in Browsers :
    \E e \in {pc[d][c.mine]} \cup {o.conn : o \in {q \in old[d] : q.peer = c.mine}} :
      e # None /\ e.mine = j /\ e.sig = "stable"

Connects(c, j) ==
  /\ c.sig = "stable" /\ Reaches(c, j)
  /\ (c.link = "new" /\ c.got) \/ c.link = "disconnected"

(* onconnectionstatechange.  The ends look for a path.                      *)
Checking(b, j) ==
  /\ pc[b][j] # None /\ pc[b][j].sig = "stable" /\ pc[b][j].link = "new"
  /\ Show(b, j, "connecting")
  /\ UNCHANGED <<server, id, self, pc, old, channels, relayMode, again>>

(* A direct path is found, or is not.             *)
Connected(b, j) ==
  /\ pc[b][j] # None /\ Connects(pc[b][j], j)
  /\ Update(b, j, [pc[b][j] EXCEPT !.link = "connected"]) /\ Show(b, j, "connected")
  /\ UNCHANGED <<server, id, self, old, channels, relayMode, again>>

Fails(b, j) ==
  /\ pc[b][j] # None /\ pc[b][j].sig = "stable" /\ pc[b][j].link \in {"new", "disconnected"}
  /\ Update(b, j, [pc[b][j] EXCEPT !.link = "failed"]) /\ Failed(b, j)
  /\ UNCHANGED <<server, id, self, old, channels, again>>

(* The channel goes for good, although the connection may recover.          *)
Disconnected(b, j) ==
  /\ pc[b][j] # None /\ pc[b][j].link = "connected"
  /\ Update(b, j, [pc[b][j] EXCEPT !.link = "disconnected"])
  /\ channels' = [channels EXCEPT ![b] = @ \ {j}] /\ Show(b, j, "none")
  /\ UNCHANGED <<server, id, self, old, relayMode, again>>

(* ondatachannel of the one that answered.                                  *)
DataChannel(b, j) ==
  /\ pc[b][j] # None /\ pc[b][j].link = "connected" /\ ~pc[b][j].open
  /\ Update(b, j, [pc[b][j] EXCEPT !.open = TRUE])
  /\ channels' = [channels EXCEPT ![b] = @ \cup {j}]
  /\ UNCHANGED <<server, id, self, old, relayMode, shown, again>>

(* A replaced connection lives on, past leave() too, and calls the same     *)
(* handlers; those of a GoTransport that was left reach the page only.      *)
OldState(b, o, st) ==
  /\ Show(b, o.peer, IF st = "disconnected" THEN "none" ELSE "connected")
  /\ channels' = IF st = "disconnected" /\ ~o.left
                 THEN [channels EXCEPT ![b] = @ \ {o.peer}] ELSE channels
  /\ relayMode' = IF st = "failed" /\ ~o.left
                  THEN [relayMode EXCEPT ![b] = @ \cup {o.peer}] ELSE relayMode

OldBecomes(b, o, c) == old' = [old EXCEPT ![b] = (@ \ {o}) \cup {[o EXCEPT !.conn = c]}]

OldDescription(b, o) ==
  /\ o.conn.sig \in {"offering", "answering"}
  /\ LET offers == o.conn.sig = "offering" IN
     \/ /\ OldBecomes(b, o, [o.conn EXCEPT !.sig = IF offers THEN "offered" ELSE "stable"])
        /\ IF o.left THEN UNCHANGED inbox
           ELSE Send(b, o.peer, IF offers THEN "offer" ELSE "answer")
        /\ UNCHANGED page
     \/ /\ OldBecomes(b, o, [o.conn EXCEPT !.sig = "idle"]) /\ OldState(b, o, "failed")
        /\ UNCHANGED inbox
  /\ UNCHANGED <<step, list, raced>>

OldLink(b, o) ==
  \/ /\ o.conn.sig = "stable" /\ o.conn.link = "new"
     /\ Show(b, o.peer, "connecting") /\ UNCHANGED <<server, old, channels, relayMode>>
  \/ \E st \in {"connected", "failed", "disconnected"} :
       /\ CASE st = "connected"    -> Connects(o.conn, o.peer)
            [] st = "failed"       -> o.conn.sig = "stable" /\ o.conn.link \in {"new", "disconnected"}
            [] st = "disconnected" -> o.conn.link = "connected"
       /\ OldBecomes(b, o, [o.conn EXCEPT !.link = st]) /\ OldState(b, o, st)
       /\ UNCHANGED server

OldChannel(b, o) ==
  /\ o.conn.link = "connected" /\ ~o.conn.open
  /\ OldBecomes(b, o, [o.conn EXCEPT !.open = TRUE])
  /\ channels' = IF o.left THEN channels ELSE [channels EXCEPT ![b] = @ \cup {o.peer}]
  /\ UNCHANGED <<server, relayMode, shown>>

OldEvent(b) ==
  /\ \E o \in old[b] : OldDescription(b, o) \/ OldLink(b, o) \/ OldChannel(b, o)
  /\ UNCHANGED <<id, self, pc, again>>
-----------------------------------------------------------------------------
Handler(b) == \/ OnJoined(b) \/ OnPeerJoined(b) \/ OnPeerLeft(b)
              \/ OnOffer(b) \/ OnAnswer(b) \/ OnIce(b)

Await(b, j) == OfferMade(b, j) \/ AnswerMade(b, j) \/ DescriptionFails(b, j)

Next ==
  \/ \E i \in Ids : Walk(i) \/ Acknowledge(i) \/ \E b \in Browsers : Register(b, i)
  \/ \E b \in Browsers : \/ Drop(b) \/ Leave(b) \/ Handler(b) \/ OldEvent(b)
                         \/ \E j \in Ids : \/ Await(b, j) \/ Checking(b, j) \/ Connected(b, j) \/ Fails(b, j)
                                           \/ Disconnected(b, j) \/ DataChannel(b, j)

(* The server serves, events are handled, promises settle, and ICE ends.    *)
Decided(b, j) == pc[b][j] # None /\ pc[b][j].link = "new" /\ (Connected(b, j) \/ Fails(b, j))

Progress ==
  \/ \E i \in Ids : Walk(i) \/ Acknowledge(i)
  \/ \E b \in Browsers : Handler(b) \/ \E j \in Ids : Await(b, j) \/ Decided(b, j)

Spec == Init /\ [][Next]_vars /\ WF_vars(Progress)
-----------------------------------------------------------------------------
(***************************************************************************)
(* Properties.                                                             *)
(***************************************************************************)

(* A pair has a single offerer (docs/tasks/05-frontend-peer-connection.md:  *)
(* "avoid glare by keeping a single offerer"), and signals come in order:   *)
(* an offer finds no connection, an answer the offer it answers, and a      *)
(* candidate the description it belongs to, unless an error there sent the  *)
(* peer over the relay; between browsers that did not bring connections     *)
(* along from an earlier id.                                                *)
Fits(m, c, relayed) ==
  CASE m.type = "offer"  -> c = None
    [] m.type = "answer" -> c # None /\ c.sig = "offered"
    [] m.type = "ice"    -> Remote(c) \/ m.from \in relayed
    [] OTHER             -> TRUE

MessagesFit ==
  \A b \in Browsers :
    id[b] # None /\ id[b] \notin again /\ inbox[id[b]] # <<>> =>
      LET m == Head(inbox[id[b]]) IN
      m.type \in {"offer", "answer", "ice"} /\ m.from \notin again =>
        Fits(m, pc[b][m.from], relayMode[b])

(* Nobody is shown who has gone, unless the news is on its way, or came     *)
(* between the server's walk and its acknowledgement, or a connection to    *)
(* that peer was replaced (leave() does not close it).                      *)
NoGhosts ==
  \A b \in Browsers, j \in Ids :
    id[b] # None /\ again \cap {id[b], j} = {} /\ shown[b][j] # "none" =>
      \/ Replaced(b, j) \/ j \in Members \/ j \in raced[id[b]]
      \/ \E n \in DOMAIN inbox[id[b]] : inbox[id[b]][n] = [type |-> "peer-left", from |-> j]

(* Two peers of a room, of whom the offerer did not miss the other's        *)
(* notice, end with a direct connection or the relay at both of them, or an *)
(* error undid the connection at one of them: that one is on the relay, and *)
(* the other may wait for ever.  (Joins end: there are finitely many ids.)  *)
Together(i, j) == {i, j} \subseteq Members /\ again \cap {i, j} = {} /\ j \notin raced[i]

Settled(i, j) ==
  \A b \in Browsers : id[b] = i => pc[b][j] # None /\ pc[b][j].link # "new"

Undone(i, j) ==
  \E b \in Browsers :
    id[b] = i /\ j \in relayMode[b] /\ (pc[b][j] = None \/ pc[b][j].sig # "stable")

PairsConnect ==
  []<>(\A i, j \in Ids : i < j /\ Together(i, j) =>
         (Settled(i, j) /\ Settled(j, i)) \/ Undone(i, j) \/ Undone(j, i))
=============================================================================
