------------------------------ MODULE HubProofs ------------------------------
(***************************************************************************)
(* Proofs about the registry of Hub, for every set of connections, codes   *)
(* and addresses and every configuration of the limits.                    *)
(***************************************************************************)
EXTENDS Hub, FiniteSetTheorems, TLAPS

(* Offering a message to a typed queue gives a typed queue within bounds.   *)
LEMMA OfferType ==
  ASSUME NEW q \in Seq(Messages), Len(q) <= SendCap, NEW m \in Messages
  PROVE  Offer(q, m) \in Seq(Messages) /\ Len(Offer(q, m)) <= SendCap
BY LimitAssumption DEF Offer

QueuesOK(s) == /\ s \in [Peers -> Seq(Messages)]
               /\ \A p \in Peers : Len(s[p]) <= SendCap

(* A broadcast leaves every queue typed and within its capacity.            *)
LEMMA PushType ==
  ASSUME QueuesOK(send), NEW S, NEW m \in Messages
  PROVE  QueuesOK(Push(S, m))
BY OfferType DEF QueuesOK, Push

LEMMA MsgType ==
  ASSUME NEW t \in MsgTypes, NEW p \in Peers
  PROVE  Msg(t, {p}) \in Messages
BY DEF Msg, Messages

(* Emptying one queue keeps all of them typed.                              *)
LEMMA ClearType ==
  ASSUME NEW s, QueuesOK(s), NEW p \in Peers
  PROVE  QueuesOK([s EXCEPT ![p] = <<>>])
<1>1. <<>> \in Seq(Messages) /\ Len(<<>>) <= SendCap
  BY LimitAssumption
<1> QED BY <1>1 DEF QueuesOK

LEMMA AnyIPType == AnyIP \in IPs
BY IPAssumption DEF AnyIP

(* A counter stays a natural number.                                        *)
LEMMA CounterType ==
  ASSUME NEW f \in [IPs -> Nat], NEW p \in Peers
  PROVE  Inc(f, IPOf[p]) \in [IPs -> Nat] /\ Dec(f, IPOf[p]) \in [IPs -> Nat]
<1>1. IPOf[p] \in IPs
  BY IPAssumption
<1>2. \A n \in Nat : n + 1 \in Nat /\ (IF n - 1 <= 0 THEN 0 ELSE n - 1) \in Nat
  OBVIOUS
<1> QED BY <1>1, <1>2 DEF Inc, Dec

(* Subsets of the finite constants have a cardinality.                      *)
LEMMA CodesFinite ==
  ASSUME NEW C \in SUBSET Codes
  PROVE  IsFiniteSet(C) /\ Cardinality(C) \in Nat
BY FiniteAssumption, FS_Subset, FS_CardinalityType

LEMMA PeersFinite ==
  ASSUME NEW S \in SUBSET Peers
  PROVE  IsFiniteSet(S) /\ Cardinality(S) \in Nat
BY FiniteAssumption, FS_Subset, FS_CardinalityType

(* Deleting rooms keeps the tables typed.                                   *)
LEMMA DeleteRoomsType ==
  ASSUME TypeOK, NEW C \in SUBSET rooms, DeleteRooms(C)
  PROVE  /\ rooms' \subseteq Codes
         /\ hostIP' \in [Codes -> IPs]
         /\ ipRooms' \in [IPs -> Nat]
<1>1. rooms' \subseteq Codes /\ hostIP' \in [Codes -> IPs]
  BY AnyIPType DEF TypeOK, DeleteRooms
<1>2. ipRooms' \in [IPs -> Nat]
  <2> DEFINE gone(ip) == Cardinality({c \in C : hostIP[c] = ip})
             left(ip) == IF ipRooms[ip] - gone(ip) <= 0 THEN 0 ELSE ipRooms[ip] - gone(ip)
  <2>1. ASSUME NEW ip \in IPs PROVE gone(ip) \in Nat
    BY CodesFinite DEF TypeOK
  <2>2. ipRooms' = [ip \in IPs |-> left(ip)]
    BY DEF DeleteRooms
  <2> HIDE DEF gone
  <2>3. ASSUME NEW ip \in IPs PROVE left(ip) \in Nat
    <3>1. ipRooms[ip] \in Nat
      BY DEF TypeOK
    <3> QED BY <2>1, <3>1
  <2> HIDE DEF left
  <2> QED BY <2>2, <2>3
<1> QED BY <1>1, <1>2

(* The initial state is typed. *)
LEMMA InitTyped == HubInit => TypeOK
<1> SUFFICES ASSUME HubInit PROVE TypeOK
  OBVIOUS
<1>1. QueuesOK(send)
  <2>1. <<>> \in Seq(Messages) /\ Len(<<>>) <= SendCap
    BY LimitAssumption
  <2> QED BY <2>1 DEF HubInit, QueuesOK
<1> QED BY <1>1, AnyIPType DEF HubInit, TypeOK, QueuesOK

(* Every step of the registry keeps the state typed, one case per action.   *)
LEMMA StepTyped == TypeOK /\ [HubNext]_hubVars => TypeOK'
<1> SUFFICES ASSUME TypeOK, [HubNext]_hubVars PROVE TypeOK'
  OBVIOUS
<1> USE DEF conns, membership, registry
<1>q. QueuesOK(send)
  BY DEF TypeOK, QueuesOK
<1>1. CASE ReapRooms
  <2> DEFINE expired == {c \in rooms : idle[c]}
             evicted == UNION {members[c] : c \in expired}
  <2>1. QueuesOK(send')
    <3>1. \A p \in Peers : Msg("error", {p}) \in Messages
      BY MsgType DEF MsgTypes
    <3>2. \A p \in Peers : /\ Offer(send[p], Msg("error", {p})) \in Seq(Messages)
                           /\ Len(Offer(send[p], Msg("error", {p}))) <= SendCap
      BY <1>q, <3>1, OfferType DEF QueuesOK
    <3>3. send' = [p \in Peers |-> IF p \in evicted
                                   THEN Offer(send[p], Msg("error", {p})) ELSE send[p]]
      BY <1>1 DEF ReapRooms
    <3> QED BY <3>2, <3>3, <1>q DEF QueuesOK
  <2>2. expired \in SUBSET rooms /\ DeleteRooms(expired)
    BY <1>1 DEF ReapRooms
  <2>3. rooms' \subseteq Codes /\ hostIP' \in [Codes -> IPs] /\ ipRooms' \in [IPs -> Nat]
    BY <2>2, DeleteRoomsType
  <2> QED BY <1>1, <2>1, <2>3 DEF ReapRooms, TypeOK, QueuesOK
<1>2. ASSUME NEW p \in Peers, RegisterPeer(p) PROVE TypeOK'
  <2>1. ipConns' \in [IPs -> Nat]
    BY <1>2, CounterType DEF RegisterPeer, TypeOK
  <2>2. <<>> \in Seq(Messages) /\ Len(<<>>) <= SendCap
    BY LimitAssumption
  <2>3. QueuesOK(send')
    BY <1>2, <1>q, <2>2 DEF RegisterPeer, QueuesOK
  <2> QED BY <1>2, <2>1, <2>3 DEF RegisterPeer, TypeOK, QueuesOK
<1>3. ASSUME NEW p \in Peers, UnregisterPeer(p) PROVE TypeOK'
  <2> DEFINE c == roomCode[p]
  <2>1. ipConns' \in [IPs -> Nat]
    BY <1>3, CounterType DEF UnregisterPeer, TypeOK
  <2>2. peers' \subseteq Peers /\ relayReq' \in [Peers -> Requests \cup {NoReq}]
        /\ roomCode' \in [Peers -> Codes \cup {NoRoom}]
        /\ role' \in [Peers -> {"", "host", "guest"}]
    BY <1>3 DEF UnregisterPeer, TypeOK
  <2>3. CASE c \notin rooms
    <3>1. QueuesOK(send')
      BY <1>3, <2>3, <1>q, ClearType DEF UnregisterPeer
    <3> QED BY <1>3, <2>1, <2>2, <2>3, <3>1 DEF UnregisterPeer, TypeOK, QueuesOK
  <2>4. CASE c \in rooms
    <3> DEFINE D == IF members[c] \ {p} = {} THEN {c} ELSE {}
    <3>1. QueuesOK(Push(members[c] \ {p}, Msg("peer-left", {p})))
      BY <1>q, PushType, MsgType DEF MsgTypes
    <3>2. QueuesOK(send')
      <4> DEFINE told == Push(members[c] \ {p}, Msg("peer-left", {p}))
      <4>1. send' = [told EXCEPT ![p] = <<>>]
        BY <1>3, <2>4 DEF UnregisterPeer
      <4> HIDE DEF told
      <4>2. QueuesOK(told)
        BY <3>1 DEF told
      <4> QED BY <4>1, <4>2, ClearType
    <3>3. D \in SUBSET rooms /\ DeleteRooms(D)
      BY <1>3, <2>4 DEF UnregisterPeer
    <3>4. rooms' \subseteq Codes /\ hostIP' \in [Codes -> IPs] /\ ipRooms' \in [IPs -> Nat]
      <4> HIDE DEF D
      <4> QED BY <3>3, DeleteRoomsType
    <3>5. /\ members' = [members EXCEPT ![c] = @ \ {p}]
          /\ idle' = [idle EXCEPT ![c] = FALSE]
      BY <1>3, <2>4 DEF UnregisterPeer
    <3>6. members' \in [Codes -> SUBSET Peers] /\ idle' \in [Codes -> BOOLEAN]
      <4> HIDE DEF c
      <4> QED BY <3>5 DEF TypeOK
    <3> QED BY <2>1, <2>2, <3>2, <3>4, <3>6 DEF TypeOK, QueuesOK
  <2> QED BY <2>3, <2>4
<1>4. ASSUME NEW p \in Peers, NEW c \in Codes, CanCreate(p), InstallRoom(p, c) PROVE TypeOK'
  <2>1. ipRooms' \in [IPs -> Nat] /\ hostIP' \in [Codes -> IPs]
    BY <1>4, CounterType, IPAssumption DEF InstallRoom, TypeOK
  <2> QED BY <1>4, <2>1 DEF InstallRoom, TypeOK
<1>5. ASSUME NEW p \in Peers, NEW c \in Codes, JoinRoom(p, c) PROVE TypeOK'
  <2>1. QueuesOK(send')
    BY <1>5, <1>q, PushType, MsgType DEF JoinRoom, MsgTypes
  <2> QED BY <1>5, <2>1 DEF JoinRoom, TypeOK, QueuesOK
<1>6. ASSUME NEW p \in Peers, NEW q \in Peers, NEW room, RouteMessage(p, room, q)
      PROVE  TypeOK'
  <2>1. QueuesOK(send')
    BY <1>6, <1>q, PushType, MsgType DEF RouteMessage, MsgTypes
  <2> QED BY <1>6, <2>1 DEF RouteMessage, TypeOK, QueuesOK
<1>7. ASSUME NEW p \in Peers, NEW q \in Peers, RelayLookup(p, q) PROVE TypeOK'
  <2>1. roomCode[p] \in Codes
    BY <1>7 DEF RelayLookup, Attached, TypeOK
  <2>2. [to |-> {q}, room |-> roomCode[p]] \in Requests
    BY <2>1 DEF Requests
  <2> QED BY <1>7, <2>2 DEF RelayLookup, TypeOK
<1>8. ASSUME NEW p \in Peers, RelayRefused(p) PROVE TypeOK'
  <2>1. QueuesOK(send')
    BY <1>8, <1>q, PushType, MsgType DEF RelayRefused, MsgTypes
  <2> QED BY <1>8, <2>1 DEF RelayRefused, TypeOK, QueuesOK
<1>9. ASSUME NEW p \in Peers, RelayApproved(p) PROVE TypeOK'
  <2> DEFINE m == Msg("relay-approved", {p})
             first(r) == IF r = p THEN Offer(send[r], m) ELSE send[r]
             both(r) == IF r \in relayReq[p].to THEN Offer(first(r), m) ELSE first(r)
  <2>1. m \in Messages
    BY DEF Msg, Messages, MsgTypes
  <2> HIDE DEF m
  <2>2. ASSUME NEW r \in Peers
        PROVE  first(r) \in Seq(Messages) /\ Len(first(r)) <= SendCap
    BY <1>q, <2>1, OfferType DEF QueuesOK
  <2> HIDE DEF first
  <2>3. ASSUME NEW r \in Peers
        PROVE  both(r) \in Seq(Messages) /\ Len(both(r)) <= SendCap
    BY <2>1, <2>2, OfferType
  <2>4. send' = [r \in Peers |-> both(r)]
    BY <1>9 DEF RelayApproved, first, m
  <2>5. QueuesOK(send')
    <3> HIDE DEF both
    <3> QED BY <2>3, <2>4 DEF QueuesOK
  <2> QED BY <1>9, <2>5 DEF RelayApproved, TypeOK, QueuesOK
<1>10. ASSUME NEW p \in Peers, TakeMessage(p) PROVE TypeOK'
  <2>1. Tail(send[p]) \in Seq(Messages) /\ Len(Tail(send[p])) <= SendCap
    <3>1. send[p] \in Seq(Messages) /\ send[p] # <<>> /\ Len(send[p]) <= SendCap
      BY <1>10, <1>q DEF TakeMessage, QueuesOK
    <3>2. \A s \in Seq(Messages) : s # <<>> =>
            Tail(s) \in Seq(Messages) /\ Len(Tail(s)) = Len(s) - 1 /\ Len(s) \in Nat
      OBVIOUS
    <3> QED BY <3>1, <3>2, LimitAssumption
  <2>2. QueuesOK(send')
    BY <1>10, <1>q, <2>1 DEF TakeMessage, QueuesOK
  <2> QED BY <1>10, <2>2 DEF TakeMessage, TypeOK, QueuesOK
<1>11. ASSUME NEW c \in Codes, Elapse(c) PROVE TypeOK'
  BY <1>11 DEF Elapse, TypeOK
<1>12. CASE UNCHANGED hubVars
  BY <1>12 DEF hubVars, TypeOK
<1>13. ASSUME NEW p \in Peers, NEW others \in SUBSET Peers, QueueAck(p, others) PROVE TypeOK'
  <2> DEFINE m == Msg("joined", others)
  <2>1. m \in Messages
    BY DEF Msg, Messages, MsgTypes
  <2>2. send[p] \in Seq(Messages) /\ Len(send[p]) < SendCap
    BY <1>13, <1>q DEF QueueAck, QueuesOK
  <2>3. \A s \in Seq(Messages), x \in Messages :
          Append(s, x) \in Seq(Messages) /\ Len(Append(s, x)) = Len(s) + 1 /\ Len(s) \in Nat
    OBVIOUS
  <2>4. Append(send[p], m) \in Seq(Messages) /\ Len(Append(send[p], m)) <= SendCap
    <3> HIDE DEF m
    <3> QED BY <2>1, <2>2, <2>3, LimitAssumption
  <2>5. send' = [send EXCEPT ![p] = Append(send[p], m)]
    BY <1>13 DEF QueueAck
  <2>6. QueuesOK(send')
    <3> HIDE DEF m
    <3> QED BY <1>q, <2>4, <2>5 DEF QueuesOK
  <2> QED BY <1>13, <2>6 DEF QueueAck, TypeOK, QueuesOK
<1> QED
  BY <1>1, <1>2, <1>3, <1>4, <1>5, <1>6, <1>7, <1>8, <1>9, <1>10, <1>11, <1>12, <1>13
     DEF HubNext, CreateChosen, CreateGenerated

(* Every reachable state is typed, and no outgoing queue exceeds its        *)
(* channel's capacity.                                                      *)
THEOREM Typed == HubSpec => []TypeOK
BY InitTyped, StepTyped, PTL DEF HubSpec
-----------------------------------------------------------------------------
(***************************************************************************)
(* The two records of membership.  What follows assumes that five draws of *)
(* the code generator in a row do not all collide: when they do, a room is *)
(* replaced under its code and every statement below fails.                *)
(***************************************************************************)
LEMMA InitAgrees == HubInit => MembershipAgrees
<1> SUFFICES ASSUME HubInit PROVE MembershipAgrees
  OBVIOUS
<1>1. (\A p \in Peers : roomCode[p] = NoRoom) /\ (\A c \in Codes : members[c] = {})
  BY DEF HubInit
<1>2. \A c \in Codes : {p \in Peers : roomCode[p] = c} = {}
  BY <1>1, NoRoomAssumption
<1> QED BY <1>1, <1>2 DEF MembershipAgrees

(* The agreement element by element, which is how the provers use it.       *)
LEMMA MemberIff ==
  ASSUME MembershipAgrees
  PROVE  /\ \A c \in Codes : members[c] \subseteq Peers
         /\ \A c \in Codes, p \in Peers : p \in members[c] <=> roomCode[p] = c
BY DEF MembershipAgrees

(* InstallRoom under a free code.                                           *)
LEMMA InstallAgrees ==
  ASSUME TypeOK, MembershipAgrees, NEW p \in Peers, NEW c \in Codes \ rooms,
         CanCreate(p), InstallRoom(p, c)
  PROVE  MembershipAgrees'
<1>1. members[c] = {} /\ p \in peers /\ roomCode[p] = NoRoom
  <2>1. \A q \in Peers : roomCode[q] \in rooms \cup {NoRoom}
    BY DEF MembershipAgrees
  <2>2. c # NoRoom
    BY NoRoomAssumption
  <2>3. \A q \in Peers : roomCode[q] # c
    BY <2>1, <2>2
  <2>4. members[c] = {q \in Peers : roomCode[q] = c}
    BY DEF MembershipAgrees
  <2>5. members[c] = {}
    BY <2>3, <2>4
  <2> QED BY <2>5 DEF CanCreate, Ready
<1> USE DEF TypeOK, conns
<1>2. roomCode' = [roomCode EXCEPT ![p] = c] /\ members' = [members EXCEPT ![c] = {p}]
      /\ rooms' = rooms \cup {c} /\ peers' = peers
  BY DEF InstallRoom
<1>3. ASSUME NEW d \in Codes PROVE members'[d] = {r \in Peers : roomCode'[r] = d}
  <2>1. \A r \in Peers : roomCode'[r] = IF r = p THEN c ELSE roomCode[r]
    BY <1>2
  <2>2. members'[d] = IF d = c THEN {p} ELSE members[d]
    BY <1>2
  <2>3. members[d] \subseteq Peers /\ \A r \in Peers : r \in members[d] <=> roomCode[r] = d
    BY MemberIff
  <2>4. \A r \in Peers : r \in members'[d] <=> roomCode'[r] = d
    BY <1>1, <2>1, <2>2, <2>3, NoRoomAssumption
  <2> QED BY <2>2, <2>3, <2>4
<1> QED BY <1>1, <1>2, <1>3 DEF MembershipAgrees

LEMMA StepAgrees ==
  ASSUME ~DrawsMayCollide
  PROVE  TypeOK /\ MembershipAgrees /\ [HubNext]_hubVars => MembershipAgrees'
<1> SUFFICES ASSUME TypeOK, MembershipAgrees, [HubNext]_hubVars PROVE MembershipAgrees'
  OBVIOUS
<1> USE DEF conns, membership, registry
<1>1. CASE ReapRooms
  <2> DEFINE expired == {c \in rooms : idle[c]}
             evicted == UNION {members[c] : c \in expired}
  <2>1. /\ roomCode' = [p \in Peers |-> IF p \in evicted THEN NoRoom ELSE roomCode[p]]
        /\ members' = [c \in Codes |-> IF c \in expired THEN {} ELSE members[c]]
        /\ rooms' = rooms \ expired /\ peers' = peers
    BY <1>1 DEF ReapRooms, DeleteRooms
  <2>2. ASSUME NEW p \in Peers PROVE p \in evicted <=> roomCode[p] \in expired
    <3>1. \A c \in expired : c \in Codes
      BY DEF TypeOK
    <3>2. \A c \in expired : p \in members[c] <=> roomCode[p] = c
      BY <3>1, MemberIff
    <3> HIDE DEF expired
    <3> QED BY <3>2
  <2> HIDE DEF evicted
  <2>3. ASSUME NEW c \in Codes PROVE members'[c] = {p \in Peers : roomCode'[p] = c}
    <3>1. members'[c] = IF c \in expired THEN {} ELSE members[c]
      BY <2>1
    <3>2. \A p \in Peers : roomCode'[p] = IF roomCode[p] \in expired THEN NoRoom ELSE roomCode[p]
      BY <2>1, <2>2
    <3>3. members[c] \subseteq Peers /\ \A p \in Peers : p \in members[c] <=> roomCode[p] = c
      BY MemberIff
    <3> HIDE DEF expired
    <3>4. \A p \in Peers : p \in members'[c] <=> roomCode'[p] = c
      BY <3>1, <3>2, <3>3, NoRoomAssumption
    <3> QED BY <3>1, <3>3, <3>4
  <2>4. \A p \in Peers : roomCode'[p] \in rooms' \cup {NoRoom}
    BY <2>1, <2>2 DEF MembershipAgrees, TypeOK
  <2> QED BY <2>1, <2>3, <2>4 DEF MembershipAgrees, TypeOK
<1>2. ASSUME NEW p \in Peers, UnregisterPeer(p) PROVE MembershipAgrees'
  <2>1. peers' = peers \ {p} /\ roomCode' = [roomCode EXCEPT ![p] = NoRoom]
    BY <1>2 DEF UnregisterPeer
  <2>2. CASE roomCode[p] \notin rooms
    <3>1. roomCode[p] = NoRoom /\ members' = members /\ rooms' = rooms
      BY <1>2, <2>2 DEF UnregisterPeer, MembershipAgrees
    <3> QED BY <2>1, <3>1 DEF MembershipAgrees, TypeOK
  <2>3. CASE roomCode[p] \in rooms
    <3> DEFINE c == roomCode[p]
    <3>1. members' = [members EXCEPT ![c] = @ \ {p}]
          /\ rooms' = rooms \ (IF members[c] \ {p} = {} THEN {c} ELSE {})
      BY <1>2, <2>3 DEF UnregisterPeer, DeleteRooms
    <3>2. ASSUME NEW d \in Codes PROVE members'[d] = {q \in Peers : roomCode'[q] = d}
      <4> HIDE DEF c
      <4>1. members[d] = {q \in Peers : roomCode[q] = d}
        BY DEF MembershipAgrees
      <4>2. members'[d] = members[d] \ {p}
        BY <3>1, <4>1 DEF TypeOK, c
      <4>3. \A q \in Peers : roomCode'[q] = IF q = p THEN NoRoom ELSE roomCode[q]
        BY <2>1 DEF TypeOK
      <4> QED BY <4>1, <4>2, <4>3, NoRoomAssumption
    <3>3. \A q \in Peers : roomCode'[q] \in rooms' \cup {NoRoom}
      <4>1. \A q \in Peers \ {p} : roomCode[q] = c => q \in members[c] \ {p}
        <5>1. c \in Codes
          BY <2>3 DEF TypeOK
        <5> HIDE DEF c
        <5> QED BY <5>1, MemberIff
      <4> HIDE DEF c
      <4> QED BY <2>1, <3>1, <4>1 DEF MembershipAgrees, TypeOK
    <3> QED BY <2>1, <3>2, <3>3 DEF MembershipAgrees, TypeOK
  <2> QED BY <2>2, <2>3
<1>3. ASSUME NEW p \in Peers, NEW c \in Codes,
             CreateChosen(p, c) \/ CreateGenerated(p, c)
      PROVE  MembershipAgrees'
  BY <1>3, InstallAgrees DEF CreateChosen, CreateGenerated
<1>4. ASSUME NEW p \in Peers, NEW c \in Codes, JoinRoom(p, c) PROVE MembershipAgrees'
  <2>1. /\ p \in peers /\ roomCode[p] = NoRoom /\ c \in rooms
        /\ roomCode' = [roomCode EXCEPT ![p] = c]
        /\ members' = [members EXCEPT ![c] = @ \cup {p}]
        /\ UNCHANGED <<peers, rooms>>
    BY <1>4 DEF JoinRoom, CanJoin, Ready
  <2>2. ASSUME NEW d \in Codes PROVE members'[d] = {q \in Peers : roomCode'[q] = d}
    <3>1. members[d] = {q \in Peers : roomCode[q] = d}
      BY DEF MembershipAgrees
    <3>2. members'[d] = IF d = c THEN members[d] \cup {p} ELSE members[d]
      BY <2>1, <3>1 DEF TypeOK
    <3>3. \A q \in Peers : roomCode'[q] = IF q = p THEN c ELSE roomCode[q]
      BY <2>1 DEF TypeOK
    <3> QED BY <2>1, <3>1, <3>2, <3>3, NoRoomAssumption
  <2> QED BY <2>1, <2>2 DEF MembershipAgrees, TypeOK
<1>5. ASSUME NEW p \in Peers, RegisterPeer(p) PROVE MembershipAgrees'
  BY <1>5 DEF RegisterPeer, MembershipAgrees
<1>6. ASSUME UNCHANGED <<peers, roomCode, members, rooms>> PROVE MembershipAgrees'
  BY <1>6 DEF MembershipAgrees
<1>7. ASSUME NEW p \in Peers,
             \/ RelayRefused(p) \/ RelayApproved(p) \/ TakeMessage(p)
             \/ \E others \in SUBSET Peers : QueueAck(p, others)
             \/ \E q \in Peers : \/ RelayLookup(p, q)
                                 \/ \E room \in Codes \cup {NoRoom} : RouteMessage(p, room, q)
      PROVE  UNCHANGED <<peers, roomCode, members, rooms>>
  BY <1>7 DEF RelayRefused, RelayApproved, TakeMessage, QueueAck, RelayLookup, RouteMessage
<1>8. ASSUME NEW c \in Codes, Elapse(c) PROVE UNCHANGED <<peers, roomCode, members, rooms>>
  BY <1>8 DEF Elapse
<1>9. CASE UNCHANGED hubVars
  BY <1>6, <1>9 DEF hubVars
<1> QED
  BY <1>1, <1>2, <1>3, <1>4, <1>5, <1>6, <1>7, <1>8, <1>9 DEF HubNext

(* Peer.RoomCode and Room.Peers never disagree, whatever joins, leaves and  *)
(* expires.                                                                 *)
THEOREM Agrees ==
  ASSUME ~DrawsMayCollide
  PROVE  HubSpec => []MembershipAgrees
<1>1. HubInit => TypeOK /\ MembershipAgrees
  BY InitTyped, InitAgrees
<1>2. TypeOK /\ MembershipAgrees /\ [HubNext]_hubVars => (TypeOK /\ MembershipAgrees)'
  BY StepTyped, StepAgrees
<1> QED BY <1>1, <1>2, PTL DEF HubSpec
-----------------------------------------------------------------------------
(***************************************************************************)
(* Counters and limits.                                                    *)
(***************************************************************************)
LEMMA ConnsFinite ==
  ASSUME TypeOK, NEW ip \in IPs
  PROVE  /\ IsFiniteSet(peers) /\ Cardinality(peers) \in Nat
         /\ IsFiniteSet(ConnsOf(ip)) /\ Cardinality(ConnsOf(ip)) \in Nat
<1>1. peers \in SUBSET Peers /\ ConnsOf(ip) \in SUBSET Peers
  BY DEF TypeOK, ConnsOf
<1> QED BY <1>1, PeersFinite

LEMMA RoomsFinite ==
  ASSUME TypeOK, NEW ip \in IPs
  PROVE  /\ IsFiniteSet(rooms) /\ Cardinality(rooms) \in Nat
         /\ IsFiniteSet(RoomsOf(ip)) /\ Cardinality(RoomsOf(ip)) \in Nat
<1>1. rooms \in SUBSET Codes /\ RoomsOf(ip) \in SUBSET Codes
  BY DEF TypeOK, RoomsOf
<1> QED BY <1>1, CodesFinite

ConnCountsExact == \A ip \in IPs : ipConns[ip] = Cardinality(ConnsOf(ip))
RoomCountsExact == \A ip \in IPs : ipRooms[ip] = Cardinality(RoomsOf(ip))

(* Deleting rooms takes exactly them out of the per-IP counts: the clamp at *)
(* zero never hides anything.                                               *)
LEMMA DeleteRoomsCounts ==
  ASSUME TypeOK, RoomCountsExact, NEW C \in SUBSET rooms, DeleteRooms(C)
  PROVE  RoomCountsExact' /\ \A ip \in IPs : RoomsOf(ip)' \subseteq RoomsOf(ip)
<1> SUFFICES ASSUME NEW ip \in IPs
             PROVE  /\ ipRooms'[ip] = Cardinality(RoomsOf(ip)')
                    /\ RoomsOf(ip)' \subseteq RoomsOf(ip)
  BY DEF RoomCountsExact
<1> DEFINE gone == {c \in C : hostIP[c] = ip}
<1>1. RoomsOf(ip)' = RoomsOf(ip) \ gone
  BY DEF DeleteRooms, RoomsOf, TypeOK
<1>2. RoomsOf(ip) \cap gone = gone
  BY DEF RoomsOf
<1>3. gone \in SUBSET Codes
  BY DEF TypeOK
<1>4. IsFiniteSet(gone) /\ Cardinality(gone) \in Nat
  BY <1>3, CodesFinite
<1>5. ipRooms'[ip] = IF ipRooms[ip] - Cardinality(gone) <= 0 THEN 0
                     ELSE ipRooms[ip] - Cardinality(gone)
  BY DEF DeleteRooms
<1> HIDE DEF gone
<1>6. Cardinality(RoomsOf(ip) \ gone) = Cardinality(RoomsOf(ip)) - Cardinality(gone)
      /\ Cardinality(RoomsOf(ip) \ gone) \in Nat
  BY <1>2, RoomsFinite, FS_Difference, FS_CardinalityType
<1>7. ipRooms[ip] = Cardinality(RoomsOf(ip)) /\ Cardinality(RoomsOf(ip)) \in Nat
  BY RoomsFinite DEF RoomCountsExact
<1> QED BY <1>1, <1>4, <1>5, <1>6, <1>7

(* A new room under a free code is counted once.                            *)
LEMMA InstallCounts ==
  ASSUME TypeOK, RoomCountsExact, NEW p \in Peers, NEW c \in Codes \ rooms,
         InstallRoom(p, c)
  PROVE  /\ RoomCountsExact'
         /\ \A ip \in IPs : Cardinality(RoomsOf(ip)') =
              Cardinality(RoomsOf(ip)) + (IF ip = IPOf[p] THEN 1 ELSE 0)
<1> SUFFICES ASSUME NEW ip \in IPs
             PROVE  /\ ipRooms'[ip] = Cardinality(RoomsOf(ip)')
                    /\ Cardinality(RoomsOf(ip)') =
                         Cardinality(RoomsOf(ip)) + (IF ip = IPOf[p] THEN 1 ELSE 0)
  BY DEF RoomCountsExact
<1>1. RoomsOf(ip)' = IF ip = IPOf[p] THEN RoomsOf(ip) \cup {c} ELSE RoomsOf(ip)
  BY DEF InstallRoom, RoomsOf, TypeOK
<1>2. ipRooms'[ip] = IF ip = IPOf[p] THEN ipRooms[ip] + 1 ELSE ipRooms[ip]
  BY DEF InstallRoom, Inc, TypeOK
<1>3. c \notin RoomsOf(ip)
  BY DEF RoomsOf
<1>4. Cardinality(RoomsOf(ip) \cup {c}) = Cardinality(RoomsOf(ip)) + 1
  BY <1>3, RoomsFinite, FS_AddElement
<1>5. ipRooms[ip] = Cardinality(RoomsOf(ip)) /\ Cardinality(RoomsOf(ip)) \in Nat
  BY RoomsFinite DEF RoomCountsExact
<1> QED BY <1>1, <1>2, <1>4, <1>5

(* A step that leaves a table alone leaves its counts alone.                *)
LEMMA RoomsKept ==
  ASSUME UNCHANGED <<rooms, hostIP, ipRooms>>
  PROVE  (RoomCountsExact => RoomCountsExact') /\ \A ip \in IPs : RoomsOf(ip)' = RoomsOf(ip)
BY DEF RoomCountsExact, RoomsOf

LEMMA ConnsKept ==
  ASSUME UNCHANGED conns
  PROVE  (ConnCountsExact => ConnCountsExact') /\ \A ip \in IPs : ConnsOf(ip)' = ConnsOf(ip)
BY DEF ConnCountsExact, ConnsOf, conns

(* Connections are counted and limited through every step.                  *)
LEMMA StepConns ==
  TypeOK /\ ConnCountsExact /\ ConnLimits /\ [HubNext]_hubVars
    => ConnCountsExact' /\ ConnLimits'
<1> SUFFICES ASSUME TypeOK, ConnCountsExact, ConnLimits, [HubNext]_hubVars
             PROVE  ConnCountsExact' /\ ConnLimits'
  OBVIOUS
<1>1. ASSUME NEW p \in Peers, RegisterPeer(p) PROVE ConnCountsExact' /\ ConnLimits'
  <2>1. /\ p \notin peers /\ peers' = peers \cup {p}
        /\ ipConns' = Inc(ipConns, IPOf[p])
        /\ Cardinality(peers) < MaxGlobalConns /\ ipConns[IPOf[p]] < MaxIPConns
    BY <1>1 DEF RegisterPeer
  <2>2. ASSUME NEW ip \in IPs
        PROVE  /\ ipConns'[ip] = Cardinality(ConnsOf(ip)')
               /\ Cardinality(ConnsOf(ip)') <= MaxIPConns
    <3>1. ConnsOf(ip)' = IF ip = IPOf[p] THEN ConnsOf(ip) \cup {p} ELSE ConnsOf(ip)
      BY <2>1 DEF ConnsOf
    <3>2. ipConns'[ip] = IF ip = IPOf[p] THEN ipConns[ip] + 1 ELSE ipConns[ip]
      BY <2>1 DEF Inc, TypeOK
    <3>3. p \notin ConnsOf(ip)
      BY <2>1 DEF ConnsOf
    <3>4. Cardinality(ConnsOf(ip) \cup {p}) = Cardinality(ConnsOf(ip)) + 1
      BY <3>3, ConnsFinite, FS_AddElement
    <3>5. /\ ipConns[ip] = Cardinality(ConnsOf(ip)) /\ Cardinality(ConnsOf(ip)) \in Nat
          /\ Cardinality(ConnsOf(ip)) <= MaxIPConns
      BY ConnsFinite DEF ConnCountsExact, ConnLimits
    <3> QED BY <2>1, <3>1, <3>2, <3>4, <3>5, LimitAssumption
  <2>3. Cardinality(peers') <= MaxGlobalConns
    <3>1. IsFiniteSet(peers) /\ Cardinality(peers) \in Nat
      BY PeersFinite DEF TypeOK
    <3>2. Cardinality(peers \cup {p}) = Cardinality(peers) + 1
      BY <2>1, <3>1, FS_AddElement
    <3> QED BY <2>1, <3>1, <3>2, LimitAssumption
  <2> QED BY <2>2, <2>3 DEF ConnCountsExact, ConnLimits
<1>2. ASSUME NEW p \in Peers, UnregisterPeer(p) PROVE ConnCountsExact' /\ ConnLimits'
  <2>1. p \in peers /\ peers' = peers \ {p} /\ ipConns' = Dec(ipConns, IPOf[p])
    BY <1>2 DEF UnregisterPeer
  <2>2. ASSUME NEW ip \in IPs
        PROVE  /\ ipConns'[ip] = Cardinality(ConnsOf(ip)')
               /\ Cardinality(ConnsOf(ip)') <= MaxIPConns
    <3>1. ConnsOf(ip)' = IF ip = IPOf[p] THEN ConnsOf(ip) \ {p} ELSE ConnsOf(ip)
      BY <2>1 DEF ConnsOf
    <3>2. ipConns'[ip] = IF ip = IPOf[p]
                         THEN IF ipConns[ip] - 1 <= 0 THEN 0 ELSE ipConns[ip] - 1
                         ELSE ipConns[ip]
      BY <2>1 DEF Dec, TypeOK
    <3>3. ip = IPOf[p] => p \in ConnsOf(ip)
      BY <2>1 DEF ConnsOf
    <3>4. ip = IPOf[p] => /\ Cardinality(ConnsOf(ip) \ {p}) = Cardinality(ConnsOf(ip)) - 1
                          /\ Cardinality(ConnsOf(ip) \ {p}) \in Nat
      BY <3>3, ConnsFinite, FS_RemoveElement, FS_CardinalityType
    <3>5. /\ ipConns[ip] = Cardinality(ConnsOf(ip)) /\ Cardinality(ConnsOf(ip)) \in Nat
          /\ Cardinality(ConnsOf(ip)) <= MaxIPConns
      BY ConnsFinite DEF ConnCountsExact, ConnLimits
    <3> QED BY <3>1, <3>2, <3>4, <3>5, LimitAssumption
  <2>3. Cardinality(peers') <= MaxGlobalConns
    <3>1. IsFiniteSet(peers) /\ Cardinality(peers) \in Nat
      BY PeersFinite DEF TypeOK
    <3>2. Cardinality(peers \ {p}) = Cardinality(peers) - 1
      BY <2>1, <3>1, FS_RemoveElement
    <3> QED BY <2>1, <3>1, <3>2, LimitAssumption DEF ConnLimits
  <2> QED BY <2>2, <2>3 DEF ConnCountsExact, ConnLimits
<1>3. ASSUME UNCHANGED conns PROVE ConnCountsExact' /\ ConnLimits'
  <2>1. \A ip \in IPs : ConnsOf(ip)' = ConnsOf(ip)
    BY <1>3, ConnsKept
  <2> QED BY <1>3, <2>1, ConnsKept DEF ConnLimits, conns
<1>4. ASSUME NEW p \in Peers, NEW c \in Codes,
             CreateChosen(p, c) \/ CreateGenerated(p, c) \/ JoinRoom(p, c) \/ Elapse(c)
      PROVE  UNCHANGED conns
  BY <1>4 DEF CreateChosen, CreateGenerated, InstallRoom, JoinRoom, Elapse
<1>5. ASSUME NEW p \in Peers,
             \/ RelayRefused(p) \/ RelayApproved(p) \/ TakeMessage(p)
             \/ \E others \in SUBSET Peers : QueueAck(p, others)
             \/ \E q \in Peers : \/ RelayLookup(p, q)
                                 \/ \E room \in Codes \cup {NoRoom} : RouteMessage(p, room, q)
      PROVE  UNCHANGED conns
  BY <1>5 DEF RelayRefused, RelayApproved, TakeMessage, QueueAck, RelayLookup, RouteMessage
<1>6. ASSUME ReapRooms \/ (\E c \in Codes : Elapse(c)) \/ UNCHANGED hubVars PROVE UNCHANGED conns
  BY <1>6 DEF ReapRooms, Elapse, hubVars, conns
<1> QED BY <1>1, <1>2, <1>3, <1>4, <1>5, <1>6 DEF HubNext

(* Rooms are counted and limited through every step.                        *)
LEMMA StepRooms ==
  ASSUME ~DrawsMayCollide
  PROVE  TypeOK /\ RoomCountsExact /\ RoomLimits /\ [HubNext]_hubVars
           => RoomCountsExact' /\ RoomLimits'
<1> SUFFICES ASSUME TypeOK, RoomCountsExact, RoomLimits, [HubNext]_hubVars
             PROVE  RoomCountsExact' /\ RoomLimits'
  OBVIOUS
<1>1. ASSUME NEW C \in SUBSET rooms, DeleteRooms(C) PROVE RoomCountsExact' /\ RoomLimits'
  <2>1. RoomCountsExact' /\ \A ip \in IPs : RoomsOf(ip)' \in SUBSET RoomsOf(ip)
    BY <1>1, DeleteRoomsCounts
  <2>2. \A ip \in IPs : Cardinality(RoomsOf(ip)') <= MaxIPRooms
    <3> SUFFICES ASSUME NEW ip \in IPs PROVE Cardinality(RoomsOf(ip)') <= MaxIPRooms
      OBVIOUS
    <3>1. /\ IsFiniteSet(RoomsOf(ip)) /\ Cardinality(RoomsOf(ip)) \in Nat
          /\ Cardinality(RoomsOf(ip)) <= MaxIPRooms
      BY RoomsFinite DEF RoomLimits
    <3>2. /\ Cardinality(RoomsOf(ip)') <= Cardinality(RoomsOf(ip))
          /\ Cardinality(RoomsOf(ip)') \in Nat
      BY <2>1, <3>1, FS_Subset, FS_CardinalityType
    <3> QED BY <3>1, <3>2, LimitAssumption
  <2>3. Cardinality(rooms') <= MaxGlobalRooms
    <3>1. rooms' \in SUBSET rooms
      BY <1>1 DEF DeleteRooms
    <3>2. IsFiniteSet(rooms) /\ Cardinality(rooms) \in Nat
      BY CodesFinite DEF TypeOK
    <3>3. Cardinality(rooms') <= Cardinality(rooms) /\ Cardinality(rooms') \in Nat
      BY <3>1, <3>2, FS_Subset, FS_CardinalityType
    <3> QED BY <3>2, <3>3, LimitAssumption DEF RoomLimits
  <2> QED BY <2>1, <2>2, <2>3 DEF RoomLimits
<1>2. ASSUME NEW p \in Peers, NEW c \in Codes,
             CreateChosen(p, c) \/ CreateGenerated(p, c)
      PROVE  RoomCountsExact' /\ RoomLimits'
  <2>1. c \notin rooms /\ CanCreate(p) /\ InstallRoom(p, c)
    BY <1>2 DEF CreateChosen, CreateGenerated
  <2>2. /\ RoomCountsExact'
        /\ \A ip \in IPs : Cardinality(RoomsOf(ip)') =
             Cardinality(RoomsOf(ip)) + (IF ip = IPOf[p] THEN 1 ELSE 0)
    BY <2>1, InstallCounts
  <2>3. ipRooms[IPOf[p]] < MaxIPRooms /\ Cardinality(rooms) < MaxGlobalRooms
    BY <2>1 DEF CanCreate
  <2>4. \A ip \in IPs : Cardinality(RoomsOf(ip)') <= MaxIPRooms
    <3> SUFFICES ASSUME NEW ip \in IPs PROVE Cardinality(RoomsOf(ip)') <= MaxIPRooms
      OBVIOUS
    <3>1. /\ ipRooms[ip] = Cardinality(RoomsOf(ip)) /\ Cardinality(RoomsOf(ip)) \in Nat
          /\ Cardinality(RoomsOf(ip)) <= MaxIPRooms
      BY RoomsFinite DEF RoomLimits, RoomCountsExact
    <3> QED BY <2>2, <2>3, <3>1, LimitAssumption
  <2>5. Cardinality(rooms') <= MaxGlobalRooms
    <3>1. IsFiniteSet(rooms) /\ Cardinality(rooms) \in Nat
      BY CodesFinite DEF TypeOK
    <3>2. rooms' = rooms \cup {c}
      BY <2>1 DEF InstallRoom
    <3>3. Cardinality(rooms') = Cardinality(rooms) + 1
      BY <2>1, <3>1, <3>2, FS_AddElement
    <3> QED BY <2>3, <3>1, <3>3, LimitAssumption
  <2> QED BY <2>2, <2>4, <2>5 DEF RoomLimits
<1>3. ASSUME UNCHANGED <<rooms, hostIP, ipRooms>> PROVE RoomCountsExact' /\ RoomLimits'
  <2>1. \A ip \in IPs : RoomsOf(ip)' = RoomsOf(ip)
    BY <1>3, RoomsKept
  <2> QED BY <1>3, <2>1, RoomsKept DEF RoomLimits
<1>4. CASE ReapRooms
  <2> DEFINE expired == {c \in rooms : idle[c]}
  <2>1. expired \in SUBSET rooms /\ DeleteRooms(expired)
    BY <1>4 DEF ReapRooms
  <2> QED BY <2>1, <1>1
<1>5. ASSUME NEW p \in Peers, UnregisterPeer(p) PROVE RoomCountsExact' /\ RoomLimits'
  <2>1. CASE roomCode[p] \notin rooms
    <3>1. UNCHANGED <<rooms, hostIP, ipRooms>>
      BY <1>5, <2>1 DEF UnregisterPeer, registry
    <3> QED BY <3>1, <1>3
  <2>2. CASE roomCode[p] \in rooms
    <3> DEFINE D == IF members[roomCode[p]] \ {p} = {} THEN {roomCode[p]} ELSE {}
    <3>1. D \in SUBSET rooms /\ DeleteRooms(D)
      BY <1>5, <2>2 DEF UnregisterPeer
    <3> HIDE DEF D
    <3> QED BY <3>1, <1>1
  <2> QED BY <2>1, <2>2
<1>6. ASSUME NEW p \in Peers, NEW c \in Codes, JoinRoom(p, c) \/ Elapse(c)
      PROVE  UNCHANGED <<rooms, hostIP, ipRooms>>
  BY <1>6 DEF JoinRoom, Elapse
<1>7. ASSUME NEW p \in Peers,
             \/ RegisterPeer(p) \/ RelayRefused(p) \/ RelayApproved(p) \/ TakeMessage(p)
             \/ \E others \in SUBSET Peers : QueueAck(p, others)
             \/ \E q \in Peers : \/ RelayLookup(p, q)
                                 \/ \E room \in Codes \cup {NoRoom} : RouteMessage(p, room, q)
      PROVE  UNCHANGED <<rooms, hostIP, ipRooms>>
  BY <1>7 DEF RegisterPeer, RelayRefused, RelayApproved, TakeMessage, QueueAck, RelayLookup,
              RouteMessage, registry
<1>8. ASSUME (\E c \in Codes : Elapse(c)) \/ UNCHANGED hubVars
      PROVE  UNCHANGED <<rooms, hostIP, ipRooms>>
  BY <1>8 DEF Elapse, hubVars
<1> QED BY <1>2, <1>3, <1>4, <1>5, <1>6, <1>7, <1>8 DEF HubNext

(* No room is empty and none is over its member limit, through every step.  *)
LEMMA StepSizes ==
  ASSUME ~DrawsMayCollide
  PROVE  TypeOK /\ MembershipAgrees /\ SizeLimits /\ [HubNext]_hubVars => SizeLimits'
<1> SUFFICES ASSUME TypeOK, MembershipAgrees, SizeLimits, [HubNext]_hubVars
             PROVE  SizeLimits'
  OBVIOUS
<1>m. ASSUME NEW c \in Codes
      PROVE  IsFiniteSet(members[c]) /\ Cardinality(members[c]) \in Nat
  <2>1. members[c] \in SUBSET Peers
    BY <1>m DEF TypeOK
  <2> QED BY <2>1, PeersFinite
<1>1. CASE ReapRooms
  <2> DEFINE expired == {c \in rooms : idle[c]}
  <2>1. /\ rooms' = rooms \ expired
        /\ members' = [c \in Codes |-> IF c \in expired THEN {} ELSE members[c]]
    BY <1>1 DEF ReapRooms, DeleteRooms
  <2>2. \A c \in rooms' : c \in rooms /\ members'[c] = members[c]
    BY <2>1 DEF TypeOK
  <2> QED BY <2>2 DEF SizeLimits
<1>2. ASSUME NEW p \in Peers, UnregisterPeer(p) PROVE SizeLimits'
  <2> DEFINE c == roomCode[p]
  <2>1. CASE c \notin rooms
    BY <1>2, <2>1 DEF UnregisterPeer, SizeLimits, registry
  <2>2. CASE c \in rooms
    <3>1. /\ members' = [members EXCEPT ![c] = @ \ {p}]
          /\ rooms' = rooms \ (IF members[c] \ {p} = {} THEN {c} ELSE {})
      BY <1>2, <2>2 DEF UnregisterPeer, DeleteRooms
    <3>2. c \in Codes /\ p \in members[c]
      BY <2>2, MemberIff DEF TypeOK
    <3>3. IsFiniteSet(members[c]) /\ Cardinality(members[c]) \in 1 .. MaxMembers
      BY <2>2, <3>2, <1>m DEF SizeLimits
    <3>4. /\ Cardinality(members[c] \ {p}) = Cardinality(members[c]) - 1
          /\ members[c] \ {p} # {} => Cardinality(members[c] \ {p}) # 0
      BY <3>2, <3>3, FS_RemoveElement, FS_EmptySet
    <3> HIDE DEF c
    <3>5. members[c] \ {p} # {} => Cardinality(members[c] \ {p}) \in 1 .. MaxMembers
      BY <3>3, <3>4, LimitAssumption
    <3>6. \A d \in rooms' : /\ d \in rooms
                            /\ members'[d] = IF d = c THEN members[c] \ {p} ELSE members[d]
      BY <3>1 DEF TypeOK
    <3>7. c \in rooms' => members[c] \ {p} # {}
      BY <3>1
    <3> QED BY <3>5, <3>6, <3>7 DEF SizeLimits
  <2> QED BY <2>1, <2>2
<1>3. ASSUME NEW p \in Peers, NEW c \in Codes,
             CreateChosen(p, c) \/ CreateGenerated(p, c)
      PROVE  SizeLimits'
  <2>1. members' = [members EXCEPT ![c] = {p}] /\ rooms' = rooms \cup {c}
    BY <1>3 DEF CreateChosen, CreateGenerated, InstallRoom
  <2>2. \A d \in rooms' : members'[d] = IF d = c THEN {p} ELSE members[d]
    BY <2>1 DEF TypeOK
  <2>3. Cardinality({p}) = 1 /\ 1 \in 1 .. MaxMembers
    <3>1. Cardinality({p}) = 1
      BY FS_Singleton
    <3> QED BY <3>1, LimitAssumption
  <2> QED BY <2>1, <2>2, <2>3 DEF SizeLimits
<1>4. ASSUME NEW p \in Peers, NEW c \in Codes, JoinRoom(p, c) PROVE SizeLimits'
  <2>1. /\ members' = [members EXCEPT ![c] = @ \cup {p}] /\ rooms' = rooms
        /\ c \in rooms /\ roomCode[p] = NoRoom /\ Cardinality(members[c]) < MaxMembers
    BY <1>4 DEF JoinRoom, CanJoin, Ready
  <2>2. p \notin members[c]
    BY <2>1, MemberIff, NoRoomAssumption
  <2>3. Cardinality(members[c] \cup {p}) = Cardinality(members[c]) + 1
    BY <2>2, <1>m, FS_AddElement
  <2>4. Cardinality(members[c] \cup {p}) \in 1 .. MaxMembers
    BY <2>1, <2>3, <1>m, LimitAssumption
  <2>5. \A d \in rooms : members'[d] = IF d = c THEN members[c] \cup {p} ELSE members[d]
    BY <2>1 DEF TypeOK
  <2> QED BY <2>1, <2>4, <2>5 DEF SizeLimits
<1>5. ASSUME UNCHANGED <<rooms, members>> PROVE SizeLimits'
  BY <1>5 DEF SizeLimits
<1>6. ASSUME NEW p \in Peers,
             \/ RegisterPeer(p) \/ RelayRefused(p) \/ RelayApproved(p) \/ TakeMessage(p)
             \/ \E others \in SUBSET Peers : QueueAck(p, others)
             \/ \E q \in Peers : \/ RelayLookup(p, q)
                                 \/ \E room \in Codes \cup {NoRoom} : RouteMessage(p, room, q)
      PROVE  UNCHANGED <<rooms, members>>
  BY <1>6 DEF RegisterPeer, RelayRefused, RelayApproved, TakeMessage, QueueAck, RelayLookup,
              RouteMessage, registry, membership
<1>7. ASSUME (\E c \in Codes : Elapse(c)) \/ UNCHANGED hubVars
      PROVE  UNCHANGED <<rooms, members>>
  BY <1>7 DEF Elapse, hubVars, membership
<1> QED BY <1>1, <1>2, <1>3, <1>4, <1>5, <1>6, <1>7 DEF HubNext

(* The inductive invariant of the registry. *)
HubInv == TypeOK /\ MembershipAgrees /\ CountersExact /\ WithinLimits

LEMMA InitCounted == HubInit => CountersExact /\ WithinLimits
<1> SUFFICES ASSUME HubInit PROVE CountersExact /\ WithinLimits
  OBVIOUS
<1>1. peers = {} /\ rooms = {} /\ \A ip \in IPs : ipConns[ip] = 0 /\ ipRooms[ip] = 0
  BY DEF HubInit
<1>2. \A ip \in IPs : ConnsOf(ip) = {} /\ RoomsOf(ip) = {}
  BY <1>1 DEF ConnsOf, RoomsOf
<1> QED BY <1>1, <1>2, FS_EmptySet, LimitAssumption
        DEF CountersExact, WithinLimits, ConnLimits, RoomLimits, SizeLimits

LEMMA CountersSplit == CountersExact <=> ConnCountsExact /\ RoomCountsExact
BY DEF CountersExact, ConnCountsExact, RoomCountsExact

LEMMA HubStep ==
  ASSUME ~DrawsMayCollide
  PROVE  HubInv /\ [HubNext]_hubVars => HubInv'
<1> SUFFICES ASSUME HubInv, [HubNext]_hubVars PROVE HubInv'
  OBVIOUS
<1>1. TypeOK' /\ MembershipAgrees'
  BY StepTyped, StepAgrees DEF HubInv
<1>2. ConnCountsExact' /\ ConnLimits'
  BY StepConns, CountersSplit DEF HubInv, WithinLimits
<1>3. RoomCountsExact' /\ RoomLimits'
  BY StepRooms, CountersSplit DEF HubInv, WithinLimits
<1>4. SizeLimits'
  BY StepSizes DEF HubInv, WithinLimits
<1>5. CountersExact'
  BY <1>2, <1>3 DEF CountersExact, ConnCountsExact, RoomCountsExact
<1> QED BY <1>1, <1>2, <1>3, <1>4, <1>5 DEF HubInv, WithinLimits

LEMMA HubInvariant ==
  ASSUME ~DrawsMayCollide
  PROVE  HubSpec => []HubInv
<1>1. HubInit => HubInv
  BY InitTyped, InitAgrees, InitCounted DEF HubInv
<1>2. HubInv /\ [HubNext]_hubVars => HubInv'
  BY HubStep
<1> QED BY <1>1, <1>2, PTL DEF HubSpec

(* No per-IP count ever leaks or goes short: each equals the number of      *)
(* connections or rooms it stands for.                                      *)
THEOREM Counted ==
  ASSUME ~DrawsMayCollide
  PROVE  HubSpec => []CountersExact
<1>1. HubInv => CountersExact
  BY DEF HubInv
<1> QED BY <1>1, HubInvariant, PTL

(* Every limit on connections, rooms and members holds, and no empty room   *)
(* is kept.                                                                 *)
THEOREM Limited ==
  ASSUME ~DrawsMayCollide
  PROVE  HubSpec => []WithinLimits
<1>1. HubInv => WithinLimits
  BY DEF HubInv
<1> QED BY <1>1, HubInvariant, PTL
-----------------------------------------------------------------------------
(***************************************************************************)
(* Isolation of rooms, and the refinement of Rendezvous.                   *)
(***************************************************************************)
LEMMA OfferLast ==
  ASSUME NEW q \in Seq(Messages), NEW m \in Messages,
         Len(Offer(q, m)) > Len(q)
  PROVE  Offer(q, m)[Len(Offer(q, m))] = m
BY DEF Offer

(* What a broadcast adds to a queue is the message, and only in its set.    *)
LEMMA PushLast ==
  ASSUME TypeOK, NEW S, NEW m \in Messages, NEW q \in Peers,
         send'[q] = Push(S, m)[q], Len(send'[q]) > Len(send[q])
  PROVE  q \in S /\ send'[q][Len(send'[q])] = m
<1>1. send[q] \in Seq(Messages)
  BY DEF TypeOK
<1>2. send'[q] = IF q \in S THEN Offer(send[q], m) ELSE send[q]
  BY DEF Push
<1> QED BY <1>1, <1>2, OfferLast

LEMMA TailShorter ==
  ASSUME NEW s \in Seq(Messages), s # <<>>
  PROVE  Len(Tail(s)) = Len(s) - 1 /\ Len(s) \in Nat
OBVIOUS

LEMMA MsgInjective ==
  ASSUME NEW t, NEW S, NEW u, NEW T, Msg(t, S) = Msg(u, T)
  PROVE  t = u /\ S = T
BY DEF Msg

LEMMA StepIsolated ==
  ASSUME HubInv, [HubNext]_hubVars, NEW p \in Peers, NEW q \in Peers,
         Received(q, "signal", p)
  PROVE  {p, q} \subseteq peers /\ roomCode[p] = roomCode[q] /\ roomCode[p] \in rooms
<1> DEFINE Goal == {p, q} \subseteq peers /\ roomCode[p] = roomCode[q]
                   /\ roomCode[p] \in rooms
<1> USE DEF HubInv
<1>1. Len(send'[q]) > Len(send[q]) /\ send'[q][Len(send'[q])] = Msg("signal", {p})
  BY DEF Received
<1>s. send[q] \in Seq(Messages) /\ Len(send[q]) \in Nat
  <2>1. send[q] \in Seq(Messages)
    BY DEF TypeOK
  <2>2. \A s \in Seq(Messages) : Len(s) \in Nat
    OBVIOUS
  <2> QED BY <2>1, <2>2
<1>2. ASSUME send'[q] = send[q] PROVE FALSE
  BY <1>1, <1>2, <1>s
<1>3. ASSUME NEW S, NEW r \in Peers, NEW t \in MsgTypes, t # "signal",
             send'[q] = Push(S, Msg(t, {r}))[q]
      PROVE  FALSE
  <2>1. Msg(t, {r}) = Msg("signal", {p})
    BY <1>1, <1>3, PushLast, MsgType
  <2> QED BY <2>1, <1>3, MsgInjective
<1>4. CASE ReapRooms
  <2>1. \/ send'[q] = send[q]
        \/ send'[q] = Offer(send[q], Msg("error", {q}))
    BY <1>4 DEF ReapRooms
  <2>2. CASE send'[q] = Offer(send[q], Msg("error", {q}))
    <3>1. Msg("error", {q}) \in Messages
      BY MsgType DEF MsgTypes
    <3>2. Msg("error", {q}) = Msg("signal", {p})
      BY <1>1, <1>s, <2>2, <3>1, OfferLast
    <3> QED BY <3>2, MsgInjective
  <2> QED BY <2>1, <2>2, <1>2
<1>5. ASSUME NEW r \in Peers, UnregisterPeer(r) PROVE Goal
  <2>1. CASE q = r
    <3>1. send'[q] = <<>>
      BY <1>5, <2>1 DEF UnregisterPeer, Push, TypeOK
    <3> QED BY <1>1, <1>s, <3>1
  <2>2. CASE q # r /\ roomCode[r] \notin rooms
    BY <1>2, <1>5, <2>2 DEF UnregisterPeer, TypeOK
  <2>3. CASE q # r /\ roomCode[r] \in rooms
    <3>1. send'[q] = Push(members[roomCode[r]] \ {r}, Msg("peer-left", {r}))[q]
      BY <1>5, <2>3 DEF UnregisterPeer, Push
    <3> QED BY <1>3, <3>1 DEF MsgTypes
  <2> QED BY <2>1, <2>2, <2>3
<1>6. ASSUME NEW r \in Peers, NEW c \in Codes, JoinRoom(r, c) PROVE Goal
  <2>1. send' = Push(members[c] \ {r}, Msg("peer-joined", {r}))
    BY <1>6 DEF JoinRoom
  <2> QED BY <1>3, <2>1 DEF MsgTypes
<1>7. ASSUME NEW r \in Peers, RelayRefused(r) PROVE Goal
  <2>1. send' = Push({r}, Msg("error", {r}))
    BY <1>7 DEF RelayRefused
  <2> QED BY <1>3, <2>1 DEF MsgTypes
<1>8. ASSUME NEW r \in Peers, RelayApproved(r) PROVE Goal
  <2> DEFINE m == Msg("relay-approved", {r})
             first == IF q = r THEN Offer(send[q], m) ELSE send[q]
  <2>1. m \in Messages
    BY DEF Msg, Messages, MsgTypes
  <2>2. send'[q] = IF q \in relayReq[r].to THEN Offer(first, m) ELSE first
    BY <1>8 DEF RelayApproved
  <2>3. first \in Seq(Messages)
    BY <1>s, <2>1 DEF Offer
  <2> HIDE DEF m
  <2>4. Len(first) > Len(send[q]) => first[Len(first)] = m
    BY <1>s, <2>1, OfferLast
  <2> HIDE DEF first
  <2>5. Len(Offer(first, m)) > Len(first) => Offer(first, m)[Len(Offer(first, m))] = m
    BY <2>1, <2>3, OfferLast
  <2>6. Offer(first, m) = first \/ Len(Offer(first, m)) > Len(first)
    BY <2>1, <2>3 DEF Offer
  <2>7. send'[q][Len(send'[q])] = m
    BY <1>1, <2>2, <2>4, <2>5, <2>6
  <2> QED BY <1>1, <2>7, MsgInjective DEF m
<1>9. ASSUME NEW r \in Peers, TakeMessage(r) PROVE Goal
  <2>1. send'[q] = send[q] \/ (send[q] # <<>> /\ send'[q] = Tail(send[q]))
    BY <1>9 DEF TakeMessage, TypeOK
  <2>2. CASE send[q] # <<>> /\ send'[q] = Tail(send[q])
    <3>1. Len(send'[q]) = Len(send[q]) - 1
      BY <1>s, <2>2, TailShorter
    <3> QED BY <1>1, <1>s, <3>1
  <2> QED BY <1>2, <2>1, <2>2
<1>10. ASSUME NEW r \in Peers, NEW d \in Peers, NEW room, RouteMessage(r, room, d) PROVE Goal
  <2>1. send'[q] = Push(Recipients(r, d), Msg("signal", {r}))[q]
    BY <1>10 DEF RouteMessage
  <2>2. Msg("signal", {r}) \in Messages
    BY MsgType DEF MsgTypes
  <2>3. q \in Recipients(r, d) /\ Msg("signal", {r}) = Msg("signal", {p})
    BY <1>1, <2>1, <2>2, PushLast
  <2>4. r = p
    BY <2>3, MsgInjective
  <2>5. /\ p \in peers /\ roomCode[p] \in rooms /\ roomCode[p] \in Codes
        /\ q \in members[roomCode[p]]
    BY <1>10, <2>3, <2>4 DEF RouteMessage, Attached, Recipients, TypeOK
  <2>6. roomCode[q] = roomCode[p] /\ roomCode[p] # NoRoom
    BY <2>5, MemberIff, NoRoomAssumption
  <2> QED BY <2>5, <2>6 DEF MembershipAgrees
<1>13. ASSUME NEW r \in Peers, NEW others \in SUBSET Peers, QueueAck(r, others) PROVE Goal
  <2>1. CASE r # q
    <3>1. send'[q] = send[q]
      BY <1>13, <2>1 DEF QueueAck, TypeOK
    <3> QED BY <1>2, <3>1
  <2>2. CASE r = q
    <3> DEFINE m == Msg("joined", others)
    <3>0. m \in Messages
      BY DEF Msg, Messages, MsgTypes
    <3>1. send'[q] = Append(send[q], m)
      BY <1>13, <2>2 DEF QueueAck, TypeOK
    <3>2. \A s \in Seq(Messages), x \in Messages : Append(s, x)[Len(Append(s, x))] = x
      OBVIOUS
    <3>3. send'[q][Len(send'[q])] = m
      <4> HIDE DEF m
      <4> QED BY <1>s, <3>0, <3>1, <3>2
    <3>4. m = Msg("signal", {p})
      BY <1>1, <3>3
    <3>5. "joined" = "signal"
      BY <3>4, MsgInjective
    <3> QED BY <3>5
  <2> QED BY <2>1, <2>2
<1>14. ASSUME NEW r \in Peers, RegisterPeer(r) PROVE Goal
  <2>1. send'[q] = send[q] \/ send'[q] = <<>>
    BY <1>14 DEF RegisterPeer, TypeOK
  <2>2. CASE send'[q] = <<>>
    BY <1>1, <1>s, <2>2
  <2> QED BY <1>2, <2>1, <2>2
<1>11. ASSUME NEW r \in Peers,
              \/ \E d \in Peers : RelayLookup(r, d)
              \/ \E c \in Codes : CreateChosen(r, c) \/ CreateGenerated(r, c)
       PROVE  send' = send
  BY <1>11 DEF RelayLookup, CreateChosen, CreateGenerated, InstallRoom
<1>12. ASSUME (\E c \in Codes : Elapse(c)) \/ UNCHANGED hubVars PROVE send' = send
  BY <1>12 DEF Elapse, hubVars
<1> QED BY <1>2, <1>4, <1>5, <1>6, <1>7, <1>8, <1>9, <1>10, <1>11, <1>12, <1>13, <1>14 DEF HubNext

(* A signal only ever reaches a connection that holds the sender's code.    *)
THEOREM Isolated ==
  ASSUME ~DrawsMayCollide
  PROVE  HubSpec => SignalsStayInRoom
<1>1. HubInv /\ [HubNext]_hubVars =>
        [\A p, q \in Peers : Received(q, "signal", p) =>
            {p, q} \subseteq peers /\ roomCode[p] = roomCode[q]
                                   /\ roomCode[p] \in rooms]_hubVars
  BY StepIsolated
<1> QED BY <1>1, HubInvariant, PTL DEF HubSpec, SignalsStayInRoom

(* Every step of the registry is a step of the abstract specification, or   *)
(* leaves membership alone: no peer is ever in two rooms, moved from one to *)
(* another, or let in over the limit.                                       *)
THEOREM Refines ==
  ASSUME ~DrawsMayCollide
  PROVE  HubSpec => ImplementsRendezvous
<1>1. HubInit => Membership!Init
  BY DEF HubInit, Membership!Init
<1>2. ASSUME HubInv, [HubNext]_hubVars PROVE [Membership!Next]_roomCode
  <2> USE DEF HubInv
  <2>o. ASSUME NEW c \in Codes PROVE Membership!Occupants(c) = members[c]
    BY <1>2, <2>o DEF Membership!Occupants, MembershipAgrees
  <2>1. CASE ReapRooms
    <3> DEFINE expired == {c \in rooms : idle[c]}
               evicted == UNION {members[c] : c \in expired}
    <3>1. roomCode' = [p \in Peers |-> IF p \in evicted THEN NoRoom ELSE roomCode[p]]
      BY <2>1 DEF ReapRooms
    <3>2. expired \in SUBSET Codes
      BY <1>2 DEF TypeOK
    <3>3. ASSUME NEW p \in Peers PROVE p \in evicted <=> roomCode[p] \in expired
      <4>1. \A c \in expired : p \in members[c] <=> roomCode[p] = c
        BY <1>2, <3>2, MemberIff
      <4> HIDE DEF expired
      <4> QED BY <4>1
    <3> HIDE DEF expired, evicted
    <3>4. Membership!Expire(expired)
      BY <3>1, <3>3 DEF Membership!Expire
    <3> QED BY <3>2, <3>4 DEF Membership!Next
  <2>2. ASSUME NEW p \in Peers, UnregisterPeer(p) PROVE [Membership!Next]_roomCode
    <3>1. roomCode' = [roomCode EXCEPT ![p] = NoRoom]
      BY <2>2 DEF UnregisterPeer
    <3>2. roomCode[p] = NoRoom => roomCode' = roomCode
      BY <1>2, <3>1 DEF TypeOK
    <3>3. roomCode[p] # NoRoom => Membership!Leave(p)
      BY <3>1 DEF Membership!Leave
    <3> QED BY <3>2, <3>3 DEF Membership!Next
  <2>3. ASSUME NEW p \in Peers, NEW c \in Codes,
               CreateChosen(p, c) \/ CreateGenerated(p, c)
        PROVE  [Membership!Next]_roomCode
    <3>1. c \notin rooms /\ roomCode[p] = NoRoom /\ roomCode' = [roomCode EXCEPT ![p] = c]
      BY <2>3 DEF CreateChosen, CreateGenerated, CanCreate, Ready, InstallRoom
    <3>2. Membership!Occupants(c) = {}
      BY <1>2, <3>1, NoRoomAssumption DEF MembershipAgrees, Membership!Occupants
    <3> QED BY <3>1, <3>2 DEF Membership!Create, Membership!Next
  <2>4. ASSUME NEW p \in Peers, NEW c \in Codes, JoinRoom(p, c)
        PROVE  [Membership!Next]_roomCode
    <3>1. /\ c \in rooms /\ Cardinality(members[c]) < MaxMembers
          /\ roomCode[p] = NoRoom /\ roomCode' = [roomCode EXCEPT ![p] = c]
      BY <2>4 DEF JoinRoom, CanJoin, Ready
    <3>2. Cardinality(members[c]) \in 1 .. MaxMembers
      BY <1>2, <3>1 DEF WithinLimits, SizeLimits
    <3>3. Cardinality(Membership!Occupants(c)) \in 1 .. MaxMembers - 1
      <4>1. \A n \in 1 .. MaxMembers : n < MaxMembers => n \in 1 .. MaxMembers - 1
        BY LimitAssumption
      <4>2. Membership!Occupants(c) = members[c]
        BY <2>o
      <4> QED BY <3>1, <3>2, <4>1, <4>2
    <3>4. \A S : Membership!Cardinality(S) = Cardinality(S)
      BY DEF Membership!Cardinality, Cardinality
    <3>5. Membership!Join(p, c)
      BY <3>1, <3>3, <3>4 DEF Membership!Join
    <3> QED BY <3>5 DEF Membership!Next
  <2>5. ASSUME NEW p \in Peers,
               \/ RegisterPeer(p) \/ RelayRefused(p) \/ RelayApproved(p) \/ TakeMessage(p)
               \/ \E others \in SUBSET Peers : QueueAck(p, others)
               \/ \E q \in Peers : \/ RelayLookup(p, q)
                                   \/ \E room \in Codes \cup {NoRoom} : RouteMessage(p, room, q)
        PROVE  roomCode' = roomCode
    BY <2>5 DEF RegisterPeer, RelayRefused, RelayApproved, TakeMessage, QueueAck, RelayLookup,
                RouteMessage, membership
  <2>6. ASSUME (\E c \in Codes : Elapse(c)) \/ UNCHANGED hubVars PROVE roomCode' = roomCode
    BY <2>6 DEF Elapse, hubVars, membership
  <2> QED BY <1>2, <2>1, <2>2, <2>3, <2>4, <2>5, <2>6 DEF HubNext
<1> QED BY <1>1, <1>2, HubInvariant, PTL DEF HubSpec, ImplementsRendezvous, Membership!Spec
=============================================================================
