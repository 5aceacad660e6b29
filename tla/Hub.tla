--------------------------------- MODULE Hub ---------------------------------
(***************************************************************************)
(* The rendezvous registry of the Go signaling server (server/hub.go): the *)
(* registered connections, the rooms, the per-IP counters and the outgoing *)
(* queue of every connection.  Every operation runs under Hub.mu, so each  *)
(* one is a single step; the only one that is not, HandleRelayRequest, is  *)
(* two steps with the unlocked gap between them.                           *)
(*                                                                         *)
(* Time is abstracted to what ReapRooms can tell apart: a room is idle or  *)
(* not, where idle means that LastActive lies more than RoomTTL back.      *)
(* Marshalled messages are records of a type and the peers they name.      *)
(***************************************************************************)
EXTENDS Integers, FiniteSets, Sequences

CONSTANTS
  Peers,            \* connection identifiers (GeneratePeerID)
  IPs,              \* client addresses
  Codes,            \* room codes
  IPOf,             \* the address each connection comes from
  MaxGlobalConns, MaxIPConns, MaxGlobalRooms, MaxIPRooms,  \* Config
  MaxMembers,       \* Room.MaxMembers
  SendCap,          \* capacity of Peer.Send
  DrawsMayCollide,  \* may all five draws of GenerateRoomCode be taken codes?
  NoRoom            \* the empty RoomCode

ASSUME FiniteAssumption == IsFiniteSet(Peers) /\ IsFiniteSet(Codes)
ASSUME IPAssumption     == IPs # {} /\ IPOf \in [Peers -> IPs]
ASSUME LimitAssumption  == /\ MaxGlobalConns \in Nat /\ MaxIPConns \in Nat
                           /\ MaxGlobalRooms \in Nat /\ MaxIPRooms \in Nat
                           /\ MaxMembers \in Nat \ {0} /\ SendCap \in Nat
ASSUME NoRoomAssumption == NoRoom \notin Codes
ASSUME DrawAssumption   == DrawsMayCollide \in BOOLEAN

VARIABLES
  peers,     \* Hub.peers: the registered connections
  roomCode,  \* Peer.RoomCode
  role,      \* Peer.Role
  rooms,     \* the codes in Hub.rooms
  members,   \* Room.Peers of the room under each code
  hostIP,    \* Room.HostIP of the room under each code
  idle,      \* now - Room.LastActive > RoomTTL
  ipConns,   \* Hub.ipConns, an absent key read as 0
  ipRooms,   \* Hub.ipRooms, an absent key read as 0
  send,      \* Peer.Send
  relayReq   \* what HandleRelayRequest of each connection holds in its gap

membership == <<roomCode, role, members>>
registry   == <<rooms, hostIP, idle, ipRooms>>
conns      == <<peers, ipConns>>
hubVars    == <<peers, roomCode, role, rooms, members, hostIP, idle, ipConns,
                ipRooms, send, relayReq>>

MsgTypes == {"joined", "peer-joined", "peer-left", "signal", "error",
             "relay-approved"}
Msg(type, who) == [type |-> type, about |-> who]
Messages       == [type : MsgTypes, about : SUBSET Peers]

AnyIP == CHOOSE ip \in IPs : TRUE

NoReq      == [to |-> {}, room |-> NoRoom]
Requests   == [to : {{q} : q \in Peers}, room : Codes]

(* A connection's own readPump makes its calls, one at a time. *)
Free(p) == relayReq[p] = NoReq

(* select { case Send <- m: default: } to every peer of S *)
OfferUnbounded(q, m) == Append(q, m)  \* mutant: the channel has no capacity
Offer(q, m) == IF Len(q) < SendCap THEN Append(q, m) ELSE q
Push(S, m) == [p \in Peers |-> IF p \in S THEN Offer(send[p], m) ELSE send[p]]

(* counter--; if counter <= 0 { delete } *)
Dec(f, k) == [f EXCEPT ![k] = IF @ - 1 <= 0 THEN 0 ELSE @ - 1]
Inc(f, k) == [f EXCEPT ![k] = @ + 1]

(* Every variable has its type, and no queue holds more than its channel    *)
(* (Peer.Send) can.                                                         *)
TypeOK ==
  /\ peers \subseteq Peers
  /\ roomCode \in [Peers -> Codes \cup {NoRoom}]
  /\ role \in [Peers -> {"", "host", "guest"}]
  /\ rooms \subseteq Codes
  /\ members \in [Codes -> SUBSET Peers]
  /\ hostIP \in [Codes -> IPs]
  /\ idle \in [Codes -> BOOLEAN]
  /\ ipConns \in [IPs -> Nat]
  /\ ipRooms \in [IPs -> Nat]
  /\ send \in [Peers -> Seq(Messages)]
  /\ \A p \in Peers : Len(send[p]) <= SendCap
  /\ relayReq \in [Peers -> Requests \cup {NoReq}]

HubInit ==
  /\ peers = {}
  /\ roomCode = [p \in Peers |-> NoRoom]
  /\ role = [p \in Peers |-> ""]
  /\ rooms = {}
  /\ members = [c \in Codes |-> {}]
  /\ hostIP = [c \in Codes |-> AnyIP]
  /\ idle = [c \in Codes |-> FALSE]
  /\ ipConns = [ip \in IPs |-> 0]
  /\ ipRooms = [ip \in IPs |-> 0]
  /\ send = [p \in Peers |-> <<>>]
  /\ relayReq = [p \in Peers |-> NoReq]
-----------------------------------------------------------------------------
(* serveWs makes a Peer with a fresh random identifier and registers it.    *)
(* Taking the identifier of a dropped connection again is the same, once no *)
(* call refers to it any more.                                              *)
RegisterPeer(p) ==
  /\ p \notin peers
  /\ \A q \in Peers : p \notin relayReq[q].to
  /\ Cardinality(peers) < MaxGlobalConns
  /\ ipConns[IPOf[p]] < MaxIPConns
  /\ peers' = peers \cup {p}
  /\ ipConns' = Inc(ipConns, IPOf[p])
  /\ send' = [send EXCEPT ![p] = <<>>]
  /\ UNCHANGED <<membership, registry, relayReq>>

\* mutant: the per-IP count of rooms is not released
DeleteRoomsKeepCount(C) ==
  /\ rooms' = rooms \ C
  /\ hostIP' = [c \in Codes |-> IF c \in C THEN AnyIP ELSE hostIP[c]]
  /\ UNCHANGED ipRooms

(* deleteRoomInternal for every room of C, with its members already told;   *)
(* the attributes of a deleted room are reset, as nothing reads them.       *)
DeleteRooms(C) ==
  /\ rooms' = rooms \ C
  /\ ipRooms' = [ip \in IPs |->
       LET left == ipRooms[ip] - Cardinality({c \in C : hostIP[c] = ip})
       IN  IF left <= 0 THEN 0 ELSE left]
  /\ hostIP' = [c \in Codes |-> IF c \in C THEN AnyIP ELSE hostIP[c]]

(* The hub never reads the dropped Peer's own fields again: they are reset. *)
UnregisterPeer(p) ==
  /\ p \in peers
  /\ Free(p)
  /\ peers' = peers \ {p}
  /\ ipConns' = Dec(ipConns, IPOf[p])
  /\ roomCode' = [roomCode EXCEPT ![p] = NoRoom]
  /\ role' = [role EXCEPT ![p] = ""]
  /\ LET c == roomCode[p]
     IN  IF c \notin rooms
         THEN /\ send' = [send EXCEPT ![p] = <<>>]
              /\ UNCHANGED <<members, registry>>
         ELSE /\ members' = [members EXCEPT ![c] = @ \ {p}]
              /\ idle' = [idle EXCEPT ![c] = FALSE]
              /\ send' = [Push(members[c] \ {p}, Msg("peer-left", {p}))
                            EXCEPT ![p] = <<>>]
              /\ DeleteRooms(IF members[c] \ {p} = {} THEN {c} ELSE {})
  /\ UNCHANGED relayReq

(* JoinOrCreateRoom, split by the branch it takes.  A refused call changes  *)
(* nothing: it is not a step here, and CanCreate, CanJoin say when it is.   *)
ReadyInAnyRoom(p) == p \in peers /\ Free(p)  \* mutant: "already in a room" unchecked
Ready(p) == p \in peers /\ Free(p) /\ roomCode[p] = NoRoom

CanCreate(p) == /\ Ready(p)
                /\ Cardinality(rooms) < MaxGlobalRooms
                /\ ipRooms[IPOf[p]] < MaxIPRooms

(* The room object is put under its code, whatever was there before. *)
InstallRoom(p, c) ==
  /\ roomCode' = [roomCode EXCEPT ![p] = c]
  /\ role' = [role EXCEPT ![p] = "host"]
  /\ members' = [members EXCEPT ![c] = {p}]
  /\ rooms' = rooms \cup {c}
  /\ hostIP' = [hostIP EXCEPT ![c] = IPOf[p]]
  /\ idle' = [idle EXCEPT ![c] = FALSE]
  /\ ipRooms' = Inc(ipRooms, IPOf[p])
  /\ UNCHANGED <<conns, send, relayReq>>

\* mutant: "code-taken" unchecked
CreateChosenTaken(p, c) == CanCreate(p) /\ InstallRoom(p, c)

CreateChosen(p, c) == CanCreate(p) /\ c \notin rooms /\ InstallRoom(p, c)

(* The loop leaves with a free code, or with the fifth draw, unchecked. *)
CreateGenerated(p, c) ==
  /\ CanCreate(p)
  /\ c \notin rooms \/ DrawsMayCollide
  /\ InstallRoom(p, c)

\* mutant: one member too many
CanJoinFull(p, c) == /\ Ready(p)
                     /\ c \in rooms
                     /\ Cardinality(members[c]) <= MaxMembers

CanJoin(p, c) == /\ Ready(p)
                 /\ c \in rooms
                 /\ Cardinality(members[c]) < MaxMembers

JoinRoom(p, c) ==
  /\ CanJoin(p, c)
  /\ roomCode' = [roomCode EXCEPT ![p] = c]
  /\ role' = [role EXCEPT ![p] = "guest"]
  /\ members' = [members EXCEPT ![c] = @ \cup {p}]
  /\ idle' = [idle EXCEPT ![c] = FALSE]
  /\ send' = Push(members[c] \ {p}, Msg("peer-joined", {p}))
  /\ UNCHANGED <<conns, rooms, hostIP, ipRooms, relayReq>>
-----------------------------------------------------------------------------
(* Messages into the room.  Every early return before the activity stamp    *)
(* leaves the state alone; after it, only the delivery can fail.            *)
Attached(p) == p \in peers /\ Free(p) /\ roomCode[p] \in rooms

(* Where RouteMessage delivers: the recipient, if it is in the room. *)
RecipientsAnywhere(p, q) == peers \cap {q}  \* mutant: looked up in Hub.peers
Recipients(p, q) == members[roomCode[p]] \cap {q}

RouteMessage(p, room, q) ==
  /\ Attached(p)
  /\ room \in {NoRoom, roomCode[p]}
  /\ idle' = [idle EXCEPT ![roomCode[p]] = FALSE]
  /\ send' = Push(Recipients(p, q), Msg("signal", {p}))
  /\ UNCHANGED <<conns, membership, rooms, hostIP, ipRooms, relayReq>>

ReapRooms ==
  LET expired == {c \in rooms : idle[c]}
      evicted == UNION {members[c] : c \in expired}
  IN  /\ expired # {}
      /\ roomCode' = [p \in Peers |->
                        IF p \in evicted THEN NoRoom ELSE roomCode[p]]
      /\ send' = [p \in Peers |-> IF p \in evicted
                                  THEN Offer(send[p], Msg("error", {p}))
                                  ELSE send[p]]
      /\ members' = [c \in Codes |-> IF c \in expired THEN {} ELSE members[c]]
      /\ idle' = [c \in Codes |-> IF c \in expired THEN FALSE ELSE idle[c]]
      /\ DeleteRooms(expired)
      /\ UNCHANGED <<conns, role, relayReq>>

(* HandleRelayRequest up to its unlock: the sender, its room and the        *)
(* recipient are looked up and kept.                                        *)
RelayLookup(p, q) ==
  /\ Attached(p)
  /\ q \in members[roomCode[p]]
  /\ relayReq' = [relayReq EXCEPT ![p] = [to |-> {q}, room |-> roomCode[p]]]
  /\ UNCHANGED <<conns, membership, registry, send>>

(* After the unlock: Validate or CreateSession refused, an error goes to    *)
(* the sender.                                                              *)
RelayRefused(p) ==
  /\ ~Free(p)
  /\ send' = Push({p}, Msg("error", {p}))
  /\ relayReq' = [relayReq EXCEPT ![p] = NoReq]
  /\ UNCHANGED <<conns, membership, registry>>

(* Both agreed: the approval goes to the two peers looked up before, the    *)
(* host's copy first.                                                       *)
RelayApproved(p) ==
  /\ ~Free(p)
  /\ send' = [r \in Peers |->
       LET m == Msg("relay-approved", {p})
           first == IF r = p THEN Offer(send[r], m) ELSE send[r]
       IN  IF r \in relayReq[p].to THEN Offer(first, m) ELSE first]
  /\ relayReq' = [relayReq EXCEPT ![p] = NoReq]
  /\ UNCHANGED <<conns, membership, registry>>
-----------------------------------------------------------------------------
(* The rest of the server: readPump's Send <- ackData after a join, which   *)
(* waits for room; writePump takes the next message; time passes.           *)
QueueAck(p, others) ==
  /\ p \in peers /\ Free(p)
  /\ Len(send[p]) < SendCap
  /\ send' = [send EXCEPT ![p] = Append(@, Msg("joined", others))]
  /\ UNCHANGED <<conns, membership, registry, relayReq>>

TakeMessage(p) ==
  /\ send[p] # <<>>
  /\ send' = [send EXCEPT ![p] = Tail(@)]
  /\ UNCHANGED <<conns, membership, registry, relayReq>>

Elapse(c) ==
  /\ c \in rooms /\ ~idle[c]
  /\ idle' = [idle EXCEPT ![c] = TRUE]
  /\ UNCHANGED <<conns, membership, rooms, hostIP, ipRooms, send, relayReq>>

HubNext ==
  \/ ReapRooms
  \/ \E p \in Peers :
       \/ RegisterPeer(p)
       \/ UnregisterPeer(p)
       \/ RelayRefused(p)
       \/ RelayApproved(p)
       \/ TakeMessage(p)
       \/ \E others \in SUBSET Peers : QueueAck(p, others)
       \/ \E c \in Codes : \/ CreateChosen(p, c)
                           \/ CreateGenerated(p, c)
                           \/ JoinRoom(p, c)
       \/ \E q \in Peers : \/ RelayLookup(p, q)
                           \/ \E room \in Codes \cup {NoRoom} :
                                RouteMessage(p, room, q)
  \/ \E c \in Codes : Elapse(c)

HubSpec == HubInit /\ [][HubNext]_hubVars
-----------------------------------------------------------------------------
(***************************************************************************)
(* Properties.                                                             *)
(***************************************************************************)

(* The two records of membership, Peer.RoomCode and Room.Peers, agree, no   *)
(* connection is left holding the code of a room that is gone, and no room  *)
(* keeps a connection that is.                                              *)
MembershipAgrees ==
  /\ \A c \in Codes : members[c] = {p \in Peers : roomCode[p] = c}
  /\ \A p \in Peers : roomCode[p] \in rooms \cup {NoRoom}
  /\ \A p \in Peers \ peers : roomCode[p] = NoRoom

(* The per-IP counters are what they count, whatever was created, joined,   *)
(* left or reaped: a count that leaks locks its address out for good.       *)
ConnsOf(ip) == {p \in peers : IPOf[p] = ip}
RoomsOf(ip) == {c \in rooms : hostIP[c] = ip}

CountersExact ==
  \A ip \in IPs : /\ ipConns[ip] = Cardinality(ConnsOf(ip))
                  /\ ipRooms[ip] = Cardinality(RoomsOf(ip))

(* No limit of the configuration is ever exceeded, and no empty room is     *)
(* left behind to use one up.                                               *)
ConnLimits == /\ Cardinality(peers) <= MaxGlobalConns
              /\ \A ip \in IPs : Cardinality(ConnsOf(ip)) <= MaxIPConns
RoomLimits == /\ Cardinality(rooms) <= MaxGlobalRooms
              /\ \A ip \in IPs : Cardinality(RoomsOf(ip)) <= MaxIPRooms
SizeLimits == \A c \in rooms : Cardinality(members[c]) \in 1 .. MaxMembers

WithinLimits == ConnLimits /\ RoomLimits /\ SizeLimits

(* RouteMessage consults only the sender's room: even so, a signal is put   *)
(* into the queue of a connection that itself holds the sender's code, and  *)
(* both are registered (SPEC section 9).                                    *)
Received(q, type, p) ==  \* this step queued such a message about p for q
  /\ Len(send'[q]) > Len(send[q])
  /\ send'[q][Len(send'[q])] = Msg(type, {p})

SignalsStayInRoom ==
  [][\A p, q \in Peers : Received(q, "signal", p) =>
        {p, q} \subseteq peers /\ roomCode[p] = roomCode[q]
                               /\ roomCode[p] \in rooms]_hubVars

(* The registry keeps the promise of the abstract specification, with       *)
(* Peer.RoomCode as the room a peer is in.                                  *)
Membership == INSTANCE Rendezvous WITH home <- roomCode

ImplementsRendezvous == Membership!Spec
=============================================================================
