---------------------------- MODULE FallbackProofs ----------------------------
(***************************************************************************)
(* Theorems about Fallback, for any number of rooms, peers and codes.      *)
(***************************************************************************)
EXTENDS Fallback, TLAPS

(* Without a code that was scanned twice no timer is ever forgotten.        *)
NoneLeaked == ~late /\ ~twice => leaked = 0

FallbackInv == TypeOK /\ Wanted /\ Sendable /\ GuestServed /\ NoneLeaked

(* What a transport that starts, or is left, does to the rooms.             *)
LEMMA Starts ==
  ASSUME TypeOK, NEW t \in Rooms, NEW r \in Roles, StartTrystero(t, r)
  PROVE  /\ trystero' = t /\ state[t] = "gone" /\ trystero # t
         /\ state' \in [Rooms -> {"gone", "live", "leaving"}] /\ state'[t] = "live"
         /\ \A u \in Rooms \ {t} : state'[u] = state[u]
         /\ roleOf' \in [Rooms -> Roles] /\ roleOf'[t] = r
         /\ watched' \in [Rooms -> SUBSET TPeers]
BY NoneAssumption DEF TypeOK, StartTrystero, Unused

LEMMA Left ==
  ASSUME TypeOK, LeaveTrystero
  PROVE  /\ trystero' = None /\ state' \in [Rooms -> {"gone", "live", "leaving"}]
         /\ \A u \in Rooms : state'[u] = IF u = trystero THEN "leaving" ELSE state[u]
BY DEF TypeOK, LeaveTrystero

(* Behind the lobby there is no peer to send to.                            *)
LEMMA NobodyInTheLobby ==
  ASSUME FallbackInv, ~late, ~twice, ~inRoom
  PROVE  /\ trystero = None /\ go = None /\ ~timer /\ leaked = 0
         /\ \A p \in Peers \ haunting : activeGuests[p] # "connected"
<1>1. trystero = None /\ go = None /\ ~timer /\ leaked = 0 /\ Owned
  BY DEF FallbackInv, Wanted, NoneLeaked
<1>2. \A t \in Rooms : state[t] # "live"
  BY <1>1, NoneAssumption DEF Owned
<1>3. \A p \in Peers : ~CanSend(p)
  <2>1. \A p \in Peers : peerTransport[p] \in Rooms \cup {"go", "left", None}
    BY DEF FallbackInv, TypeOK, Transports
  <2> QED BY <1>1, <1>2, <2>1 DEF CanSend
<1> QED BY <1>1, <1>3 DEF FallbackInv, Sendable

(* Where the guest falls back, what held goes on to hold.                   *)
LEMMA FallsBack ==
  ASSUME FallbackInv, NEW running \in BOOLEAN, FallbackGuestToGo(running),
         UNCHANGED <<role, code, goes, inRoom, rescan, roleOf, watched, met, twice>>,
         leaked' \in 0 .. MaxLeaked, leaked' <= leaked, late' \in BOOLEAN, late => late',
         running => timer, ~late' /\ ~twice => inRoom
  PROVE  FallbackInv'
<1> USE NoneAssumption DEF FallbackInv, goes
<1>1. CASE go # None \/ role # "guest"
  <2>1. timer' = running /\ UNCHANGED <<trystero, go, peerTransport, activeGuests, state>>
    BY <1>1 DEF FallbackGuestToGo
  <2>2. TypeOK'
    BY <2>1 DEF TypeOK
  <2>3. Wanted' /\ NoneLeaked'
    BY <2>1, PeerAssumption DEF Wanted, Owned, NoneLeaked, TypeOK
  <2>4. Sendable' /\ GuestServed'
    BY <1>1, <2>1 DEF Sendable, CanSend, GuestServed
  <2> QED BY <2>2, <2>3, <2>4
<1>2. CASE go = None /\ role = "guest"
  <2>1. /\ timer' = FALSE /\ LeaveTrystero /\ peerTransport' = NoPeers
        /\ go' = [role |-> "guest", code |-> code]
        /\ activeGuests' = [p \in Peers |->
             IF trystero # None /\ peerTransport[p] = trystero THEN "none" ELSE activeGuests[p]]
    BY <1>2 DEF FallbackGuestToGo, StartGo
  <2>2. go' \in [role : Roles, code : Codes] /\ go' # None
    BY <2>1 DEF TypeOK, Roles
  <2>3. TypeOK'
    BY <2>1, <2>2, Left DEF TypeOK, NoPeers
  <2>4. Wanted' /\ NoneLeaked'
    <3>1. ~late' /\ ~twice' => Owned /\ inRoom /\ leaked' = 0
      BY PeerAssumption DEF Wanted, NoneLeaked, TypeOK
    <3>2. Owned => Owned'
      BY <2>1, Left DEF Owned
    <3> QED BY <1>2, <2>1, <3>1, <3>2 DEF Wanted, NoneLeaked
  <2>5. Sendable'
    <3>1. ASSUME ~late', ~twice', NEW p \in Peers \ haunting PROVE activeGuests'[p] # "connected"
      <4>1. Owned /\ (activeGuests[p] = "connected" => CanSend(p))
        BY <3>1 DEF Wanted, Sendable
      <4>2. CanSend(p) => peerTransport[p] \in Rooms /\ peerTransport[p] = trystero
        BY <1>2, <4>1 DEF CanSend, Owned, TypeOK, Transports
      <4> QED BY <2>1, <4>1, <4>2
    <3> QED BY <3>1 DEF Sendable
  <2>6. GuestServed'
    BY <2>2 DEF GuestServed
  <2> QED BY <2>3, <2>4, <2>5, <2>6
<1> QED BY <1>1, <1>2
-----------------------------------------------------------------------------
(* The user.                                                                *)
LEMMA CreateRoomKeeps ==
  ASSUME FallbackInv, NEW c \in Codes, CreateRoom(c) PROVE FallbackInv'
<1> USE NoneAssumption DEF FallbackInv
<1>1. /\ ~inRoom /\ inRoom' = TRUE /\ role' = "host" /\ code' = c /\ StartGo("host", c) /\ met' = FALSE
      /\ UNCHANGED <<timer, leaked, peerTransport, replaced, haunting, guestLeft, activeGuests, rescan, late,
                     twice>>
  BY DEF CreateRoom, goes
<1>2. /\ go' \in [role : Roles, code : Codes] /\ go' # None
      /\ go = None => go' = [role |-> "host", code |-> c]
      /\ go # None => go' = go
  BY <1>1 DEF StartGo, TypeOK, Roles
<1>3. /\ trystero' \in Rooms \cup {None} /\ state' \in [Rooms -> {"gone", "live", "leaving"}]
      /\ roleOf' \in [Rooms -> Roles] /\ watched' \in [Rooms -> SUBSET TPeers]
      /\ trystero' # None => state'[trystero'] = "live" /\ roleOf'[trystero'] = "host"
      /\ \A u \in Rooms : state'[u] = state[u] \/ (u = trystero' /\ state'[u] = "live")
  <2>1. CASE \E t \in Rooms : StartTrystero(t, "host")
    BY <2>1, Starts DEF Roles
  <2>2. CASE trystero' = None /\ UNCHANGED rooms
    BY <2>2 DEF rooms, TypeOK
  <2> QED BY <2>1, <2>2 DEF CreateRoom
<1>4. TypeOK'
  BY <1>1, <1>2, <1>3 DEF TypeOK, Roles
<1>5. Wanted' /\ NoneLeaked'
  <2>1. ASSUME ~late, ~twice PROVE trystero = None /\ go = None /\ leaked = 0 /\ Owned'
    BY <1>1, <1>3, <2>1, NobodyInTheLobby DEF Wanted, Owned
  <2> QED BY <1>1, <1>2, <2>1 DEF Wanted, NoneLeaked
<1>6. Sendable' /\ GuestServed'
  BY <1>1, NobodyInTheLobby DEF Sendable, GuestServed
<1> QED BY <1>4, <1>5, <1>6

(* A guest joins: from the lobby, or for the second time.                   *)
LEMMA JoinKeeps ==
  ASSUME FallbackInv, NEW c \in Codes, Join(c), rescan' \in Codes \cup {None},
         twice' \in BOOLEAN, twice => twice', ~twice' => ~inRoom
  PROVE  FallbackInv'
<1> USE NoneAssumption DEF FallbackInv
<1>1. /\ inRoom' = TRUE /\ role' = "guest" /\ code' = c /\ timer' = TRUE /\ met' = FALSE
      /\ leaked' = (IF timer THEN leaked + 1 ELSE leaked) /\ leaked' <= MaxLeaked
      /\ UNCHANGED <<go, peerTransport, replaced, haunting, guestLeft, activeGuests, late>>
  BY DEF Join, goes
<1>2. PICK t \in Rooms : StartTrystero(t, "guest")
  BY DEF Join
<1>3. /\ trystero' = t /\ state' \in [Rooms -> {"gone", "live", "leaving"}] /\ state'[t] = "live"
      /\ \A u \in Rooms \ {t} : state'[u] = state[u]
      /\ roleOf' \in [Rooms -> Roles] /\ roleOf'[t] = "guest"
      /\ watched' \in [Rooms -> SUBSET TPeers]
  BY <1>2, Starts DEF Roles
<1>4. TypeOK'
  <2>1. leaked' \in 0 .. MaxLeaked
    BY <1>1, PeerAssumption DEF TypeOK
  <2> QED BY <1>1, <1>3, <2>1 DEF TypeOK, Roles
<1>5. Wanted' /\ NoneLeaked'
  <2>1. ASSUME ~late, ~twice' PROVE go = None /\ leaked' = 0 /\ Owned'
    BY <1>1, <1>3, <2>1, NobodyInTheLobby DEF Wanted, Owned
  <2> QED BY <1>1, <2>1 DEF Wanted, NoneLeaked
<1>6. Sendable' /\ GuestServed'
  BY <1>1, NobodyInTheLobby DEF Sendable, GuestServed
<1> QED BY <1>4, <1>5, <1>6

LEMMA JoinFailsKeeps ==
  ASSUME FallbackInv, NEW c \in Codes, JoinFails(c) PROVE FallbackInv'
<1> USE NoneAssumption DEF FallbackInv
<1>1. /\ ~inRoom /\ inRoom' = TRUE /\ role' = "guest" /\ code' = c /\ timer' = TRUE
      /\ StartGo("guest", c) /\ peerTransport' = (IF go = None THEN NoPeers ELSE peerTransport)
      /\ trystero' = None /\ met' = FALSE
      /\ UNCHANGED <<leaked, replaced, haunting, guestLeft, activeGuests, rescan, rooms, late, twice>>
  BY DEF JoinFails, goes
<1>2. /\ go' \in [role : Roles, code : Codes] /\ go' # None
      /\ go = None => go' = [role |-> "guest", code |-> c]
  BY <1>1 DEF StartGo, TypeOK, Roles
<1>3. TypeOK'
  BY <1>1, <1>2 DEF TypeOK, Roles, NoPeers, rooms
<1>4. Wanted' /\ NoneLeaked'
  <2>1. ASSUME ~late, ~twice PROVE go = None /\ leaked = 0 /\ Owned'
    BY <1>1, <2>1, NobodyInTheLobby DEF Wanted, Owned, rooms
  <2> QED BY <1>1, <1>2, <2>1 DEF Wanted, NoneLeaked
<1>5. Sendable' /\ GuestServed'
  BY <1>1, NobodyInTheLobby DEF Sendable, GuestServed
<1> QED BY <1>3, <1>4, <1>5

LEMMA LeavesKeeps ==
  ASSUME FallbackInv, Leaves PROVE FallbackInv'
<1> USE NoneAssumption DEF FallbackInv
<1>1. /\ timer' = FALSE /\ LeaveTrystero /\ go' = None /\ peerTransport' = NoPeers
      /\ replaced' = {} /\ haunting' = haunting \cup replaced /\ guestLeft' \in BOOLEAN
      /\ activeGuests' = Hidden /\ inRoom' = FALSE
      /\ UNCHANGED <<role, code, leaked, rescan, roleOf, watched, met, late, twice>>
  BY DEF Leaves, LeaveGo, history, TypeOK
<1>2. TypeOK'
  BY <1>1, Left DEF TypeOK, NoPeers, Hidden
<1>3. Wanted' /\ NoneLeaked'
  <2>1. Owned => Owned'
    BY <1>1, Left DEF Owned
  <2> QED BY <1>1, <2>1, Left DEF Wanted, NoneLeaked
<1>4. Sendable' /\ GuestServed'
  BY <1>1 DEF Sendable, GuestServed, Hidden
<1> QED BY <1>2, <1>3, <1>4
-----------------------------------------------------------------------------
(* Events of the rooms and of the Go transport.                             *)
LEMMA PeerJoinKeeps ==
  ASSUME FallbackInv, NEW t \in Rooms, NEW p \in TPeers, PeerJoin(t, p) PROVE FallbackInv'
<1> USE NoneAssumption DEF FallbackInv
<1>1. /\ late' = (late \/ t # trystero) /\ met' = (met \/ t = trystero)
      /\ peerTransport' = [peerTransport EXCEPT ![p] = t]
      /\ timer' = (timer /\ roleOf[t] = "host")
      /\ activeGuests' = [activeGuests EXCEPT ![p] = "connected"]
      /\ watched' = IF state[t] = "live" THEN [watched EXCEPT ![t] = @ \cup {p}] ELSE watched
      /\ UNCHANGED <<role, code, trystero, go, leaked, replaced, haunting, guestLeft, inRoom, rescan, state,
                     roleOf, twice>>
  BY DEF PeerJoin, Note, ShowPeer, goes
<1>2. p \in Peers /\ late' \in BOOLEAN /\ met' \in BOOLEAN /\ timer' \in BOOLEAN
  BY <1>1 DEF Peers, TypeOK
<1>3. watched' \in [Rooms -> SUBSET TPeers]
  BY <1>1 DEF TypeOK
<1>4. TypeOK'
  BY <1>1, <1>2, <1>3 DEF TypeOK, Transports
<1>5. Wanted' /\ NoneLeaked'
  BY <1>1 DEF Wanted, Owned, NoneLeaked
<1>6. Sendable'
  <2>1. ASSUME ~late', ~twice', NEW q \in Peers \ haunting, activeGuests'[q] = "connected" PROVE CanSend(q)'
    <3>1. CASE q = p
      <4>1. peerTransport'[p] = t /\ t = trystero /\ state'[t] = "live"
        BY <1>1, <1>2, <2>1 DEF TypeOK
      <4> QED BY <3>1, <4>1 DEF CanSend
    <3>2. CASE q # p
      <4>1. activeGuests[q] = "connected" /\ peerTransport'[q] = peerTransport[q]
        BY <1>1, <1>2, <2>1, <3>2 DEF TypeOK
      <4>2. CanSend(q)
        BY <1>1, <2>1, <4>1 DEF Sendable
      <4> QED BY <1>1, <4>1, <4>2 DEF CanSend
    <3> QED BY <3>1, <3>2
  <2> QED BY <1>1, <2>1 DEF Sendable
<1>7. GuestServed'
  BY <1>1 DEF GuestServed
<1> QED BY <1>4, <1>5, <1>6, <1>7

LEMMA PeerLeaveKeeps ==
  ASSUME FallbackInv, NEW t \in Rooms, NEW p \in TPeers, PeerLeave(t, p) PROVE FallbackInv'
<1> USE DEF FallbackInv
<1>1. /\ activeGuests' = [activeGuests EXCEPT ![p] = "none"]
      /\ UNCHANGED <<role, code, trystero, go, timer, leaked, peerTransport, replaced, haunting, guestLeft,
                     inRoom, rescan, state, roleOf, met, late, twice>>
  BY DEF PeerLeave, ShowPeer, orchestrator, goes, history
<1>2. watched' \in [Rooms -> SUBSET TPeers]
  BY DEF PeerLeave, TypeOK
<1>3. TypeOK'
  BY <1>1, <1>2 DEF TypeOK
<1>4. Wanted' /\ NoneLeaked' /\ GuestServed'
  BY <1>1 DEF Wanted, Owned, NoneLeaked, GuestServed
<1>5. Sendable'
  BY <1>1 DEF Sendable, CanSend, TypeOK
<1> QED BY <1>3, <1>4, <1>5

LEMMA LinkFailsKeeps ==
  ASSUME FallbackInv, NEW t \in Rooms, NEW p \in TPeers, LinkFails(t, p) PROVE FallbackInv'
<1> USE NoneAssumption DEF FallbackInv
<1>1. /\ late' = (late \/ t # trystero)
      /\ UNCHANGED <<role, code, leaked, goes, inRoom, rescan, roleOf, watched, met, twice>>
  BY DEF LinkFails, Note
<1>2. ~late' /\ ~twice => inRoom
  BY <1>1 DEF Wanted
<1>3. CASE roleOf[t] = "guest"
  <2>1. FallbackGuestToGo(timer)
    BY <1>3 DEF LinkFails
  <2>2. /\ timer \in BOOLEAN /\ late' \in BOOLEAN /\ (late => late')
        /\ leaked' \in 0 .. MaxLeaked /\ leaked' <= leaked
    BY <1>1, PeerAssumption DEF TypeOK
  <2> QED BY <1>1, <1>2, <2>1, <2>2, FallsBack
<1>4. CASE roleOf[t] # "guest"
  <2>1. /\ peerTransport' = [peerTransport EXCEPT ![p] = None]
        /\ activeGuests' = [activeGuests EXCEPT ![p] = "none"]
        /\ UNCHANGED <<timer, trystero, go, state>>
    BY <1>4 DEF LinkFails, ShowPeer
  <2>2. TypeOK'
    BY <1>1, <2>1 DEF TypeOK, goes
  <2>3. Wanted' /\ NoneLeaked' /\ GuestServed'
    BY <1>1, <2>1 DEF Wanted, Owned, NoneLeaked, GuestServed
  <2>4. Sendable'
    BY <1>1, <2>1 DEF Sendable, CanSend, TypeOK, goes
  <2> QED BY <2>2, <2>3, <2>4
<1> QED BY <1>3, <1>4

LEMMA JoinErrorKeeps ==
  ASSUME FallbackInv, NEW t \in Rooms, JoinError(t) PROVE FallbackInv'
<1> USE NoneAssumption DEF FallbackInv
<1>1. /\ late' = (late \/ t # trystero) /\ FallbackGuestToGo(timer)
      /\ UNCHANGED <<role, code, leaked, goes, inRoom, rescan, roleOf, watched, met, twice>>
  BY DEF JoinError, Note
<1>2. ~late' /\ ~twice => inRoom
  BY <1>1 DEF Wanted
<1>3. /\ timer \in BOOLEAN /\ late' \in BOOLEAN /\ (late => late')
      /\ leaked' \in 0 .. MaxLeaked /\ leaked' <= leaked
  BY <1>1, PeerAssumption DEF TypeOK
<1> QED BY <1>1, <1>2, <1>3, FallsBack

LEMMA TimerKeeps ==
  ASSUME FallbackInv, TimerFires \/ LeakedTimerFires PROVE FallbackInv'
<1> USE DEF FallbackInv
<1>1. UNCHANGED <<role, code, goes, inRoom, rescan, roleOf, watched, met, late, twice>>
  BY DEF TimerFires, LeakedTimerFires, history
<1>2. timer \in BOOLEAN /\ late \in BOOLEAN /\ leaked \in 0 .. MaxLeaked /\ MaxLeaked \in Nat
  BY PeerAssumption DEF TypeOK
<1>3. CASE TimerFires
  <2>1. timer /\ leaked' = leaked /\ FallbackGuestToGo(FALSE)
    BY <1>3 DEF TimerFires
  <2>2. ~late' /\ ~twice => inRoom
    BY <1>1, <2>1 DEF Wanted
  <2>3. leaked' \in 0 .. MaxLeaked /\ leaked' <= leaked /\ late' \in BOOLEAN /\ (late => late')
    BY <1>1, <1>2, <2>1
  <2>4. FALSE \in BOOLEAN
    OBVIOUS
  <2> QED BY <1>1, <2>1, <2>2, <2>3, <2>4, FallsBack
<1>4. CASE LeakedTimerFires
  <2>1. leaked > 0 /\ leaked' = leaked - 1 /\ FallbackGuestToGo(timer)
    BY <1>4 DEF LeakedTimerFires
  <2>2. leaked' \in 0 .. MaxLeaked /\ leaked' <= leaked /\ (~late /\ ~twice => inRoom)
    BY <1>2, <2>1 DEF NoneLeaked
  <2> QED BY <1>1, <1>2, <2>1, <2>2, FallsBack
<1> QED BY <1>3, <1>4

LEMMA RoomGoneKeeps ==
  ASSUME FallbackInv, NEW t \in Rooms, RoomGone(t) PROVE FallbackInv'
<1> USE DEF FallbackInv
<1>1. /\ state[t] = "leaving" /\ state' = [state EXCEPT ![t] = "gone"]
      /\ watched' = [watched EXCEPT ![t] = {}]
      /\ UNCHANGED <<role, code, trystero, go, timer, leaked, peerTransport, replaced, haunting, guestLeft,
                     activeGuests, inRoom, rescan, roleOf, met, late, twice>>
  BY DEF RoomGone, orchestrator, goes, page, history
<1>2. state' \in [Rooms -> {"gone", "live", "leaving"}] /\ \A u \in Rooms : state'[u] = "live" <=> state[u] = "live"
  BY <1>1 DEF TypeOK
<1>3. TypeOK'
  BY <1>1, <1>2 DEF TypeOK
<1>4. Wanted' /\ NoneLeaked' /\ GuestServed'
  BY <1>1, <1>2 DEF Wanted, Owned, NoneLeaked, GuestServed
<1>5. Sendable'
  BY <1>1, <1>2 DEF Sendable, CanSend
<1> QED BY <1>3, <1>4, <1>5

LEMMA GoPeerKeeps ==
  ASSUME FallbackInv, NEW p \in GPeers, NEW st \in {"none", "connecting", "connected"}, GoPeer(p, st)
  PROVE  FallbackInv'
<1> USE NoneAssumption DEF FallbackInv
<1>1. /\ go # None /\ activeGuests' = [activeGuests EXCEPT ![p] = st]
      /\ peerTransport' = IF st = "none" THEN peerTransport ELSE [peerTransport EXCEPT ![p] = "go"]
      /\ replaced' = replaced \/ replaced' = replaced \cup {p}
      /\ UNCHANGED <<role, code, trystero, go, timer, leaked, haunting, guestLeft, inRoom, rescan, state,
                     roleOf, watched, met, late, twice>>
  BY DEF GoPeer, Report, ShowPeer, rooms, history
<1>2. TypeOK'
  BY <1>1 DEF TypeOK, Transports
<1>3. Wanted' /\ NoneLeaked' /\ GuestServed'
  BY <1>1 DEF Wanted, Owned, NoneLeaked, GuestServed
<1>4. Sendable'
  BY <1>1 DEF Sendable, CanSend, TypeOK, Peers
<1> QED BY <1>2, <1>3, <1>4

(* What a Go transport that was left reports is of a peer that haunts.      *)
LEMMA LeftGoPeerKeeps ==
  ASSUME FallbackInv, NEW p \in GPeers, NEW st \in {"none", "connecting", "connected"}, LeftGoPeer(p, st)
  PROVE  FallbackInv'
<1> USE NoneAssumption DEF FallbackInv
<1>1. /\ p \in haunting /\ activeGuests' = [activeGuests EXCEPT ![p] = st]
      /\ peerTransport' = IF st = "none" THEN peerTransport ELSE [peerTransport EXCEPT ![p] = "left"]
      /\ UNCHANGED <<role, code, trystero, go, timer, leaked, replaced, haunting, guestLeft, inRoom,
                     rescan, state, roleOf, watched, met, late, twice>>
  BY DEF LeftGoPeer, Report, ShowPeer, goes, rooms, history
<1>2. TypeOK'
  BY <1>1 DEF TypeOK, Transports
<1>3. Wanted' /\ NoneLeaked' /\ GuestServed'
  BY <1>1 DEF Wanted, Owned, NoneLeaked, GuestServed
<1>4. Sendable'
  <2>1. ASSUME NEW q \in Peers \ haunting
        PROVE  activeGuests'[q] = activeGuests[q] /\ peerTransport'[q] = peerTransport[q]
    BY <1>1 DEF TypeOK
  <2> QED BY <1>1, <2>1 DEF Sendable, CanSend
<1> QED BY <1>2, <1>3, <1>4
-----------------------------------------------------------------------------
LEMMA FallbackInit ==
  ASSUME Init PROVE FallbackInv
<1>1. TypeOK
  <2>1. leaked \in 0 .. MaxLeaked
    BY PeerAssumption DEF Init
  <2>2. /\ timer \in BOOLEAN /\ inRoom \in BOOLEAN
        /\ met \in BOOLEAN /\ late \in BOOLEAN /\ twice \in BOOLEAN
    BY DEF Init
  <2>3. /\ state \in [Rooms -> {"gone", "live", "leaving"}] /\ roleOf \in [Rooms -> Roles]
        /\ watched \in [Rooms -> SUBSET TPeers]
    BY DEF Init, Roles
  <2>4. /\ peerTransport \in [Peers -> Transports \cup {None}]
        /\ activeGuests \in [Peers -> {"none", "connecting", "connected"}]
    BY DEF Init, NoPeers, Hidden
  <2> QED BY <2>1, <2>2, <2>3, <2>4 DEF Init, TypeOK, Roles
<1>2. Wanted /\ NoneLeaked
  BY NoneAssumption DEF Init, Wanted, Owned, NoneLeaked
<1>3. Sendable /\ GuestServed
  BY DEF Init, Sendable, GuestServed, Hidden
<1> QED BY <1>1, <1>2, <1>3 DEF FallbackInv

LEMMA FallbackNext ==
  ASSUME FallbackInv, [Next]_vars PROVE FallbackInv'
<1>1. CASE UNCHANGED vars
  BY <1>1 DEF vars, orchestrator, goes, page, rooms, history, FallbackInv, TypeOK, Wanted, Owned, Sendable,
              CanSend, GuestServed, NoneLeaked
<1>2. CASE User
  <2>1. \A c \in Codes : JoinRoom(c) => FallbackInv'
    BY JoinKeeps DEF JoinRoom, FallbackInv, TypeOK
  <2>2. JoinAgain => FallbackInv'
    BY JoinKeeps DEF JoinAgain, FallbackInv, TypeOK
  <2> QED BY <1>2, <2>1, <2>2, CreateRoomKeeps, JoinFailsKeeps, LeavesKeeps DEF User, LeaveRoom
<1>3. CASE Timers
  BY <1>3, TimerKeeps DEF Timers
<1>4. CASE TryEvent
  BY <1>4, JoinErrorKeeps, RoomGoneKeeps, PeerJoinKeeps, PeerLeaveKeeps, LinkFailsKeeps DEF TryEvent
<1>5. CASE GoEvent
  BY <1>5, LeavesKeeps, GoPeerKeeps, LeftGoPeerKeeps DEF GoEvent, GoError
<1> QED BY <1>1, <1>2, <1>3, <1>4, <1>5 DEF Next

LEMMA FallbackInvariant == Spec => []FallbackInv
BY FallbackInit, FallbackNext, PTL DEF Spec

-----------------------------------------------------------------------------
(* Every variable has its type, and the serverless transport that the       *)
(* orchestrator holds has not been left (orchestrator.ts).                  *)
THEOREM FallbackTyped == Spec => []TypeOK
<1>1. FallbackInv => TypeOK
  BY DEF FallbackInv
<1> QED BY <1>1, FallbackInvariant, PTL

(* After leave() nothing runs, and what runs is what the user asked for     *)
(* last, unless a late event or a second scan came in between.              *)
THEOREM AsWanted == Spec => []Wanted
<1>1. FallbackInv => Wanted
  BY DEF FallbackInv
<1> QED BY <1>1, FallbackInvariant, PTL

(* A peer that the page shows as connected has a transport that takes       *)
(* files, unless an event of a room that was being left or a second scan    *)
(* came in between, or a connection to that peer outlived the leave() of    *)
(* its Go transport.                                                        *)
THEOREM ShownCanReceive == Spec => []Sendable
<1>1. FallbackInv => Sendable
  BY DEF FallbackInv
<1> QED BY <1>1, FallbackInvariant, PTL

(* A guest in a room has met a peer, has its fallback timer, or is on the   *)
(* Go server, unless an event of a room that was being left came in between.*)
THEOREM GuestHasAWay == Spec => []GuestServed
<1>1. FallbackInv => GuestServed
  BY DEF FallbackInv
<1> QED BY <1>1, FallbackInvariant, PTL
=============================================================================
