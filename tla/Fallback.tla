------------------------------- MODULE Fallback -------------------------------
(***************************************************************************)
(* How a browser changes from the serverless transport to the Go server    *)
(* (ConnectionOrchestrator in web/src/orchestrator.ts, over                *)
(* trystero-transport.ts and go-transport.ts, under main.ts).              *)
(*                                                                         *)
(* A Trystero room is left asynchronously: until it is gone its events     *)
(* still reach the closures of the transport that made it.  A GoTransport  *)
(* closes at once, but for the connections that others replaced in its map *)
(* (Negotiation): these go on to call its closures, and so do its errors.  *)
(* Serverless and Go peers have ids of their own.  A Trystero transport is *)
(* a slot of Rooms, which is used again when its room is gone and nobody   *)
(* refers to it; the GoTransports that were left are one.                  *)
(***************************************************************************)
EXTENDS Naturals

CONSTANTS
  Rooms,             \* bound: Trystero rooms, live or being left, at a time
  TPeers, GPeers,    \* peers met over Trystero and over the Go server
  Codes,             \* room codes
  None,
  MaxLeaked          \* bound: forgotten timers at a time

ASSUME NoneAssumption ==
  /\ None \notin Rooms \cup {"go", "left"} \cup [role : {"host", "guest"}, code : Codes]
  /\ Rooms \cap {"go", "left"} = {}
ASSUME PeerAssumption == TPeers \cap GPeers = {} /\ MaxLeaked \in Nat

Peers == TPeers \cup GPeers

VARIABLES
  role, code,        \* of the orchestrator
  trystero, go,      \* its transports
  timer,             \* the timer behind guestFallbackTimer runs
  leaked,            \* timers that run and that no variable holds
  peerTransport,
  replaced,          \* peers of whose connections the Go transport holds a later one
  haunting,          \* the same of Go transports that were left
  guestLeft,         \* a guest's Go transport was left
  activeGuests,      \* what the page shows of each peer
  inRoom,            \* the page shows the room and not the lobby
  rescan,            \* the code that the scanner has read twice and will join again
  state, roleOf,     \* of each Trystero transport
  watched,           \* peers of each whose connection it listens to
  met, late, twice   \* history: see the properties

orchestrator == <<role, code, trystero, go, timer, leaked, peerTransport>>
goes         == <<replaced, haunting, guestLeft>>
page         == <<activeGuests, inRoom, rescan>>
rooms        == <<state, roleOf, watched>>
history      == <<met, late, twice>>
vars         == <<orchestrator, goes, page, rooms, history>>

Roles      == {"host", "guest"}
Transports == Rooms \cup {"go", "left"}
NoPeers    == [p \in Peers |-> None]
Hidden     == [p \in Peers |-> "none"]

(* Every variable has its type; the Trystero transport that the             *)
(* orchestrator holds has not been left.                                    *)
TypeOK ==
  /\ role \in Roles /\ code \in Codes
  /\ trystero \in Rooms \cup {None} /\ go \in [role : Roles, code : Codes] \cup {None}
  /\ timer \in BOOLEAN /\ leaked \in 0 .. MaxLeaked
  /\ peerTransport \in [Peers -> Transports \cup {None}]
  /\ replaced \subseteq GPeers /\ haunting \subseteq GPeers /\ guestLeft \in BOOLEAN
  /\ activeGuests \in [Peers -> {"none", "connecting", "connected"}]
  /\ inRoom \in BOOLEAN /\ rescan \in Codes \cup {None}
  /\ state \in [Rooms -> {"gone", "live", "leaving"}] /\ roleOf \in [Rooms -> Roles]
  /\ watched \in [Rooms -> SUBSET TPeers]
  /\ met \in BOOLEAN /\ late \in BOOLEAN /\ twice \in BOOLEAN
  /\ trystero # None => state[trystero] = "live" /\ roleOf[trystero] = role
  /\ go = None => replaced = {}

Init ==
  /\ role = "guest" /\ code \in Codes /\ trystero = None /\ go = None
  /\ timer = FALSE /\ leaked = 0 /\ peerTransport = NoPeers
  /\ replaced = {} /\ haunting = {} /\ guestLeft = FALSE
  /\ activeGuests = Hidden /\ inRoom = FALSE /\ rescan = None
  /\ state = [t \in Rooms |-> "gone"] /\ roleOf = [t \in Rooms |-> "guest"]
  /\ watched = [t \in Rooms |-> {}]
  /\ met = FALSE /\ late = FALSE /\ twice = FALSE
-----------------------------------------------------------------------------
(* Transports.                                                              *)
Unused(t) == state[t] = "gone" /\ \A p \in Peers : peerTransport[p] # t

(* new TrysteroTransport and its start().                                   *)
StartTrystero(t, r) ==
  /\ Unused(t) /\ trystero' = t
  /\ state' = [state EXCEPT ![t] = "live"] /\ roleOf' = [roleOf EXCEPT ![t] = r]
  /\ watched' = [watched EXCEPT ![t] = {}]

\* mutant: what was left is still held
LeaveTrysteroKeeps ==
  /\ UNCHANGED trystero
  /\ state' = [t \in Rooms |-> IF t = trystero THEN "leaving" ELSE state[t]]

(* leave() of the transport, if there is one.                               *)
LeaveTrystero ==
  /\ trystero' = None
  /\ state' = [t \in Rooms |-> IF t = trystero THEN "leaving" ELSE state[t]]

(* startGo does nothing when there is a Go transport already.               *)
StartGo(r, c) == go' = IF go = None THEN [role |-> r, code |-> c] ELSE go

\* mutant: the page is not told that the peers of the serverless room are gone
FallbackGuestToGoQuietly(running) ==
  IF go # None \/ role # "guest"
  THEN timer' = running /\ UNCHANGED <<trystero, go, peerTransport, activeGuests, state>>
  ELSE /\ timer' = FALSE /\ UNCHANGED activeGuests
       /\ LeaveTrystero /\ peerTransport' = NoPeers /\ StartGo("guest", code)

(* fallbackGuestToGo; running is what it leaves of the timer when it        *)
(* returns at once.                                                         *)
FallbackGuestToGo(running) ==
  IF go # None \/ role # "guest"
  THEN timer' = running /\ UNCHANGED <<trystero, go, peerTransport, activeGuests, state>>
  ELSE /\ timer' = FALSE
       /\ activeGuests' = [p \in Peers |->
            IF trystero # None /\ peerTransport[p] = trystero THEN "none" ELSE activeGuests[p]]
       /\ LeaveTrystero /\ peerTransport' = NoPeers /\ StartGo("guest", code)

(* onPeerState of the page.                                                 *)
ShowPeer(p, st) == activeGuests' = [activeGuests EXCEPT ![p] = st]
-----------------------------------------------------------------------------
(* The user.  The host has both transports from the start; that joinRoom of *)
(* Trystero throws is only a warning to it.                                 *)
CreateRoom(c) ==
  /\ ~inRoom /\ inRoom' = TRUE
  /\ role' = "host" /\ code' = c /\ StartGo("host", c)
  /\ \/ \E t \in Rooms : StartTrystero(t, "host")
     \/ trystero' = None /\ UNCHANGED rooms
  /\ met' = FALSE
  /\ UNCHANGED <<timer, leaked, peerTransport, goes, activeGuests, rescan, late, twice>>

(* joinRoom forgets a transport and a timer that are still there.           *)
Join(c) ==
  /\ inRoom' = TRUE /\ role' = "guest" /\ code' = c
  /\ \E t \in Rooms : StartTrystero(t, "guest")
  /\ timer' = TRUE /\ leaked' = (IF timer THEN leaked + 1 ELSE leaked) /\ leaked' <= MaxLeaked
  /\ met' = FALSE
  /\ UNCHANGED <<go, peerTransport, goes, activeGuests, late>>

JoinRoom(c) ==
  /\ ~inRoom /\ Join(c) /\ rescan' \in {None, c} /\ UNCHANGED twice

(* The scanner calls back again before it has stopped.                      *)
JoinAgain ==
  /\ rescan # None /\ rescan' = None /\ Join(rescan) /\ twice' = TRUE

(* joinRoom of Trystero throws: the guest falls back at once, and the timer *)
(* starts after that.                                                       *)
JoinFails(c) ==
  /\ ~inRoom /\ inRoom' = TRUE /\ role' = "guest" /\ code' = c
  /\ timer' = TRUE /\ StartGo("guest", c)
  /\ peerTransport' = (IF go = None THEN NoPeers ELSE peerTransport)
  /\ trystero' = None /\ met' = FALSE
  /\ UNCHANGED <<leaked, goes, activeGuests, rescan, rooms, late, twice>>

LeaveGo ==
  /\ go' = None /\ replaced' = {} /\ haunting' = haunting \cup replaced
  /\ guestLeft' = (guestLeft \/ (go # None /\ go.role = "guest"))

\* mutant: the timer runs on
LeavesTimer ==
  /\ UNCHANGED timer /\ LeaveTrystero /\ LeaveGo /\ peerTransport' = NoPeers
  /\ activeGuests' = Hidden /\ inRoom' = FALSE
  /\ UNCHANGED <<role, code, leaked, rescan, roleOf, watched, history>>

(* leave() and resetToLobby.                                                *)
Leaves ==
  /\ timer' = FALSE /\ LeaveTrystero /\ LeaveGo /\ peerTransport' = NoPeers
  /\ activeGuests' = Hidden /\ inRoom' = FALSE
  /\ UNCHANGED <<role, code, leaked, rescan, roleOf, watched, history>>

LeaveRoom == inRoom /\ Leaves

(* An error of a guest's Go transport, left or not, ends what goes on       *)
(* behind the lobby.                                                        *)
GoError == ((go # None /\ go.role = "guest") \/ guestLeft) /\ ~inRoom /\ Leaves

(* Eight seconds have passed.                                               *)
TimerFires ==
  /\ timer /\ FallbackGuestToGo(FALSE)
  /\ UNCHANGED <<role, code, leaked, goes, inRoom, rescan, roleOf, watched, history>>

LeakedTimerFires ==
  /\ leaked > 0 /\ leaked' = leaked - 1 /\ FallbackGuestToGo(timer)
  /\ UNCHANGED <<role, code, goes, inRoom, rescan, roleOf, watched, history>>
-----------------------------------------------------------------------------
(* Events of a Trystero room that is there or is being left.                *)
Open(t) == state[t] # "gone"
Note(t) == late' = (late \/ t # trystero)

(* A peer is connected: it is the transport's, and a guest stops its timer. *)
PeerJoin(t, p) ==
  /\ Open(t) /\ Note(t) /\ p \notin watched[t]
  /\ peerTransport' = [peerTransport EXCEPT ![p] = t]
  /\ timer' = (timer /\ roleOf[t] = "host")
  /\ ShowPeer(p, "connected")
  /\ watched' = IF state[t] = "live" THEN [watched EXCEPT ![t] = @ \cup {p}] ELSE watched
  /\ met' = (met \/ t = trystero)
  /\ UNCHANGED <<role, code, trystero, go, leaked, goes, inRoom, rescan, state, roleOf, twice>>

(* The peer leaves, or only its connection closes.                          *)
PeerLeave(t, p) ==
  /\ Open(t) /\ p \in watched[t] /\ ShowPeer(p, "none")
  /\ watched' \in {watched, [watched EXCEPT ![t] = @ \ {p}]}
  /\ UNCHANGED <<orchestrator, goes, inRoom, rescan, state, roleOf, history>>

(* The connection to a peer fails: the guest falls back, the host drops the *)
(* peer.                                                                    *)
LinkFails(t, p) ==
  /\ Open(t) /\ Note(t) /\ p \in watched[t]
  /\ IF roleOf[t] = "guest"
     THEN FallbackGuestToGo(timer)
     ELSE /\ peerTransport' = [peerTransport EXCEPT ![p] = None] /\ ShowPeer(p, "none")
          /\ UNCHANGED <<timer, trystero, go, state>>
  /\ UNCHANGED <<role, code, leaked, goes, inRoom, rescan, roleOf, watched, met, twice>>

\* mutant: an error stops the timer and leaves it at that
JoinErrorQuiet(t) ==
  /\ Open(t) /\ Note(t) /\ roleOf[t] = "guest" /\ timer' = FALSE
  /\ UNCHANGED <<role, code, trystero, go, leaked, peerTransport, goes, page, rooms, met, twice>>

JoinError(t) ==
  /\ Open(t) /\ Note(t) /\ roleOf[t] = "guest" /\ FallbackGuestToGo(timer)
  /\ UNCHANGED <<role, code, leaked, goes, inRoom, rescan, roleOf, watched, met, twice>>

(* room.leave() has done its work.                                          *)
RoomGone(t) ==
  /\ state[t] = "leaving" /\ state' = [state EXCEPT ![t] = "gone"]
  /\ watched' = [watched EXCEPT ![t] = {}]
  /\ UNCHANGED <<orchestrator, goes, page, roleOf, history>>

(* onPeerState of a Go transport: it does not ask whether it was left.      *)
Report(g, p, st) ==
  /\ ShowPeer(p, st)
  /\ peerTransport' = IF st = "none" THEN peerTransport ELSE [peerTransport EXCEPT ![p] = g]

(* A rejoin may make another connection to a peer that was met before.      *)
GoPeer(p, st) ==
  /\ go # None /\ Report("go", p, st)
  /\ \/ UNCHANGED replaced
     \/ st = "connecting" /\ peerTransport[p] # None /\ replaced' = replaced \cup {p}
  /\ UNCHANGED <<role, code, trystero, go, timer, leaked, haunting, guestLeft, inRoom, rescan, rooms,
                 history>>

LeftGoPeer(p, st) ==
  /\ p \in haunting /\ Report("left", p, st)
  /\ UNCHANGED <<role, code, trystero, go, timer, leaked, goes, inRoom, rescan, rooms, history>>
-----------------------------------------------------------------------------
User     == (\E c \in Codes : CreateRoom(c) \/ JoinRoom(c) \/ JoinFails(c)) \/ JoinAgain \/ LeaveRoom
Timers   == TimerFires \/ LeakedTimerFires
TryEvent == \E t \in Rooms : \/ JoinError(t) \/ RoomGone(t)
                             \/ \E p \in TPeers : PeerJoin(t, p) \/ PeerLeave(t, p) \/ LinkFails(t, p)
GoEvent  == GoError \/ \E p \in GPeers, st \in {"none", "connecting", "connected"} :
                         GoPeer(p, st) \/ LeftGoPeer(p, st)

Next == User \/ Timers \/ TryEvent \/ GoEvent
Spec == Init /\ [][Next]_vars
-----------------------------------------------------------------------------
(***************************************************************************)
(* Properties.                                                             *)
(***************************************************************************)

(* leave() is final, and what runs is what the user last asked for: nothing *)
(* is connected behind the lobby, no Trystero room is joined that the       *)
(* orchestrator has lost sight of, and the Go transport is in the room and  *)
(* the role that the page shows; unless an event of a room that was being   *)
(* left came in between, or a code was scanned twice.                       *)
Owned == \A t \in Rooms : state[t] = "live" => t = trystero

Wanted ==
  ~late /\ ~twice =>
    /\ Owned
    /\ ~inRoom => trystero = None /\ go = None /\ ~timer
    /\ go # None => go = [role |-> role, code |-> code]

(* A file can be sent to every peer that the page shows as connected: its   *)
(* transport is there and not left; unless an event of a room that was      *)
(* being left came in between, a code was scanned twice, or a connection to *)
(* that peer outlived the leave() of its Go transport.                      *)
CanSend(p) == /\ peerTransport[p] \notin {None, "left"} /\ (peerTransport[p] = "go" => go # None)
              /\ peerTransport[p] \in Rooms => state[peerTransport[p]] = "live"

Sendable ==
  ~late /\ ~twice =>
    \A p \in Peers \ haunting : activeGuests[p] = "connected" => CanSend(p)

(* A guest is never left with nothing to come: it has met a peer over       *)
(* Trystero, or falls back when its timer fires, or has; unless an event of *)
(* a room that was being left came in between.                              *)
GuestServed == inRoom /\ role = "guest" /\ ~late => met \/ timer \/ go # None
=============================================================================
