----------------------------- MODULE ServerProofs -----------------------------
(***************************************************************************)
(* Proofs about SignalingServer, for any number of connections: its        *)
(* goroutines drive the registry as module Hub says, so that what HubProofs *)
(* shows of the registry holds in the server; a connection is registered   *)
(* exactly while its readPump runs; and a client whose queue was never     *)
(* full misses nobody.                                                     *)
(***************************************************************************)
EXTENDS SignalingServer, HubProofs

(* A room that a connection is just entering is not idle, so it is not      *)
(* reaped under the walk.                                                   *)
Entering(p) == At(p, "joined") \/ At(p, "walk")
EntersFresh == \A p \in Peers : Entering(p) => ~idle[roomCode[p]]

ServerInv == HubInv /\ ServerTypeOK /\ ServedExactly /\ EntersFresh

(* Every step of a goroutine is a step of the registry, or leaves it alone. *)
LEMMA StepUsesHub ==
  ASSUME ServerTypeOK, [ServerNext]_serverVars
  PROVE  [HubNext]_hubVars
<1>1. ASSUME NEW p \in Peers,
             Leave(p) \/ Drop(p) \/ ReadError(p) \/ RouteFails(p) \/ TimerStep(p)
             \/ CloseJoinedChan(p) \/ WalkRoom(p) \/ Close(p)
      PROVE  UNCHANGED hubVars
  BY <1>1 DEF Leave, Drop, ReadError, Exit, RouteFails, TimerStep, TimeoutFires, TimeoutDrops,
              TimeoutCancelled, CloseJoinedChan, WalkRoom, Close
<1>2. ASSUME NEW p \in Peers, Accept(p) \/ Unregister(p) \/ Join(p) PROVE HubNext
  BY <1>2 DEF Accept, Unregister, Join, HubNext
<1>3. ASSUME NEW p \in Peers, Route(p) \/ AskRelay(p) \/ AnswerRelay(p) PROVE HubNext
  BY <1>3 DEF Route, AskRelay, AnswerRelay, HubNext
<1>4. ASSUME NEW p \in Peers, WriteStep(p) PROVE [HubNext]_hubVars
  BY <1>4 DEF WriteStep, Deliver, WriteFails, HubNext
<1>5. ASSUME NEW p \in Peers, Acknowledge(p) PROVE HubNext
  <2>1. roster[p] \in SUBSET Peers
    BY DEF ServerTypeOK
  <2> QED BY <1>5, <2>1 DEF Acknowledge, HubNext
<1>6. CASE Reaper
  BY <1>6 DEF Reaper, HubNext
<1>7. CASE UNCHANGED serverVars
  BY <1>7 DEF serverVars
<1>8. ASSUME NEW p \in Peers, Step(p) PROVE [HubNext]_hubVars
  <2>1. \/ Accept(p) \/ Unregister(p) \/ Join(p)
        \/ Route(p) \/ AskRelay(p) \/ AnswerRelay(p)
        \/ WriteStep(p) \/ Acknowledge(p)
        \/ Leave(p) \/ Drop(p) \/ ReadError(p) \/ RouteFails(p) \/ TimerStep(p)
        \/ CloseJoinedChan(p) \/ WalkRoom(p) \/ Close(p)
    BY <1>8 DEF Step, PumpStep
  <2> QED BY <1>1, <1>2, <1>3, <1>4, <1>5, <2>1
<1>9. CASE ServerNext
  BY <1>6, <1>8, <1>9 DEF ServerNext, Runs
<1> QED BY <1>7, <1>9

LEMMA InitServer ==
  ASSUME ServerInit
  PROVE  ServerTypeOK /\ ServedExactly /\ EntersFresh
<1>1. ServerTypeOK
  <2>1. routed \in 0 .. MaxRouted
    BY RoutedAssumption DEF ServerInit
  <2>2. gone \in [Peers -> BOOLEAN] /\ signalled \in [Peers -> BOOLEAN]
        /\ full \in [Peers -> BOOLEAN] /\ crashed \in BOOLEAN
    BY DEF ServerInit
  <2>3. touched \in [Peers -> SUBSET Peers] /\ roster \in [Peers -> SUBSET Peers]
        /\ view \in [Peers -> SUBSET Peers]
    BY DEF ServerInit
  <2> QED BY <2>1, <2>2, <2>3 DEF ServerInit, ServerTypeOK, Serving
<1>2. ServedExactly /\ EntersFresh
  BY DEF ServerInit, HubInit, ServedExactly, EntersFresh, Entering, At, Free, Serving
<1> QED BY <1>1, <1>2

(* What the walks, the queues' record and the crash are after a step.       *)
LEMMA WatchTyped ==
  ASSUME ServerInv, TypeOK', Watch
  PROVE  touched' \in [Peers -> SUBSET Peers] /\ full' \in [Peers -> BOOLEAN]
         /\ crashed' \in BOOLEAN
<1>1. \A c \in Codes : Changed(c) \subseteq Peers
  BY DEF ServerInv, HubInv, TypeOK, Changed
<1>2. \A p \in Peers : At(p, "walk") => roomCode[p] \in Codes
  BY DEF ServerInv, ServedExactly, HubInv, TypeOK
<1>3. \A p \in Peers : (IF At(p, "walk") /\ pump'[p] = "walk"
                        THEN touched[p] \cup Changed(roomCode[p]) ELSE {}) \in SUBSET Peers
  BY <1>1, <1>2 DEF ServerInv, ServerTypeOK
<1>4. touched' \in [Peers -> SUBSET Peers]
  BY <1>3 DEF Watch
<1>5. full' \in [Peers -> BOOLEAN]
  BY DEF Watch
<1>6. crashed' \in BOOLEAN
  BY DEF Watch
<1> QED BY <1>4, <1>5, <1>6

LEMMA SeenTyped ==
  ASSUME ServerInv, NEW p \in Peers, send[p] # <<>>
  PROVE  Seen(p, Head(send[p])) \in SUBSET Peers
<1>1. send[p] \in Seq(Messages)
  BY DEF ServerInv, HubInv, TypeOK
<1>2. Head(send[p]) \in Messages
  <2>1. \A s \in Seq(Messages) : s # <<>> => Head(s) \in Messages
    OBVIOUS
  <2> QED BY <1>1, <2>1
<1>3. view[p] \in SUBSET Peers
  BY DEF ServerInv, ServerTypeOK
<1> HIDE <1>1
<1> QED
  <2>1. ASSUME NEW m \in Messages PROVE Seen(p, m) \in SUBSET Peers
    <3>1. m.about \in SUBSET Peers
      BY DEF Messages
    <3> QED BY <1>3, <3>1 DEF Seen
  <2> QED BY <1>2, <2>1

LEMMA StepServerTyped ==
  ASSUME ServerInv, TypeOK', [ServerNext]_serverVars
  PROVE  ServerTypeOK'
<1> DEFINE Rest == touched' \in [Peers -> SUBSET Peers] /\ full' \in [Peers -> BOOLEAN]
                   /\ crashed' \in BOOLEAN
<1>t. ServerTypeOK
  BY DEF ServerInv
<1> USE DEF pumps, wires, joining, GoTo, Shut, Serving
<1>0. CASE UNCHANGED serverVars
  BY <1>t, <1>0 DEF serverVars, ServerTypeOK
<1>1. ASSUME NEW p \in Peers, Rest, Accept(p) \/ Leave(p) PROVE ServerTypeOK'
  <2>1. CASE Accept(p)
    BY <1>t, <1>1, <2>1 DEF Accept, ServerTypeOK
  <2>2. CASE Leave(p)
    <3>1. gone' \in [Peers -> BOOLEAN]
      BY <1>t, <2>2 DEF Leave, ServerTypeOK
    <3>2. view' \in [Peers -> SUBSET Peers]
      BY <1>t, <2>2 DEF Leave, ServerTypeOK
    <3> QED BY <1>t, <1>1, <2>2, <3>1, <3>2 DEF Leave, ServerTypeOK
  <2> QED BY <1>1, <2>1, <2>2
<1>2. ASSUME NEW p \in Peers, Rest, Drop(p) \/ ReadError(p) \/ Unregister(p) \/ Close(p)
      PROVE  ServerTypeOK'
  BY <1>t, <1>2 DEF Drop, ReadError, Exit, Unregister, Close, ServerTypeOK
<1>3. ASSUME NEW p \in Peers, Rest, Join(p) \/ CloseJoinedChan(p) \/ Acknowledge(p)
      PROVE  ServerTypeOK'
  <2>1. CASE Join(p) \/ Acknowledge(p)
    BY <1>t, <1>3, <2>1 DEF Join, Acknowledge, ServerTypeOK
  <2>2. CASE CloseJoinedChan(p)
    <3>1. signalled' \in [Peers -> BOOLEAN]
      BY <1>t, <2>2 DEF CloseJoinedChan, ServerTypeOK
    <3>2. pump' = [pump EXCEPT ![p] = "exit"] \/ pump' = [pump EXCEPT ![p] = "walk"]
      BY <2>2 DEF CloseJoinedChan
    <3>3. pump' \in [Peers -> Serving \cup {"none", "close", "done"}]
      BY <1>t, <3>2 DEF ServerTypeOK
    <3> QED BY <1>t, <1>3, <2>2, <3>1, <3>3 DEF CloseJoinedChan, ServerTypeOK
  <2> QED BY <1>3, <2>1, <2>2
<1>4. ASSUME NEW p \in Peers, Rest, WalkRoom(p) PROVE ServerTypeOK'
  <2>1. members[roomCode[p]] \subseteq Peers
    BY <1>4 DEF WalkRoom, ServerInv, ServedExactly, HubInv, TypeOK
  <2>2. PICK seen \in SUBSET touched[p] :
          roster' = [roster EXCEPT ![p] =
                       ((members[roomCode[p]] \ touched[p]) \cup seen) \ {p}]
    BY <1>4 DEF WalkRoom
  <2>3. roster' \in [Peers -> SUBSET Peers]
    BY <1>t, <2>1, <2>2 DEF ServerTypeOK
  <2> QED BY <1>t, <1>4, <2>3 DEF WalkRoom, ServerTypeOK
<1>5. ASSUME NEW p \in Peers, Rest, Route(p) \/ AskRelay(p) \/ RouteFails(p)
      PROVE  ServerTypeOK'
  <2>1. routed' \in 0 .. MaxRouted
    BY <1>t, <1>5, RoutedAssumption DEF Route, AskRelay, RouteFails, Relayed, ServerTypeOK
  <2> QED BY <1>t, <1>5, <2>1 DEF Route, AskRelay, RouteFails, ServerTypeOK
<1>6. ASSUME NEW p \in Peers, Rest, AnswerRelay(p) PROVE ServerTypeOK'
  BY <1>t, <1>6 DEF AnswerRelay, ServerTypeOK
<1>7. ASSUME NEW p \in Peers, Rest, WriteStep(p) PROVE ServerTypeOK'
  <2>1. CASE Deliver(p)
    <3>1. view' = [view EXCEPT ![p] = IF gone[p] \/ p \notin peers THEN {}
                                      ELSE Seen(p, Head(send[p]))]
          /\ send[p] # <<>>
      BY <2>1 DEF Deliver, TakeMessage
    <3>2. view' \in [Peers -> SUBSET Peers]
      BY <1>t, <3>1, SeenTyped DEF ServerTypeOK
    <3> QED BY <1>t, <1>7, <2>1, <3>2 DEF Deliver, ServerTypeOK
  <2>2. CASE WriteFails(p)
    BY <1>t, <1>7, <2>2 DEF WriteFails, ServerTypeOK
  <2> QED BY <1>7, <2>1, <2>2 DEF WriteStep
<1>8. ASSUME NEW p \in Peers, Rest, TimerStep(p) PROVE ServerTypeOK'
  BY <1>t, <1>8 DEF TimerStep, TimeoutFires, TimeoutDrops, TimeoutCancelled, ServerTypeOK
<1>9. ASSUME Rest, Reaper PROVE ServerTypeOK'
  BY <1>t, <1>9 DEF Reaper, ServerTypeOK
<1>10. ASSUME NEW p \in Peers, Step(p), Rest PROVE ServerTypeOK'
  <2> HIDE DEF Rest
  <2> QED BY <1>1, <1>2, <1>3, <1>4, <1>5, <1>6, <1>7, <1>8, <1>10 DEF Step, PumpStep
<1>11. CASE ServerNext
  <2>1. Rest
    BY <1>11, WatchTyped DEF ServerNext, Runs
  <2> HIDE DEF Rest
  <2> QED BY <1>9, <1>10, <1>11, <2>1 DEF ServerNext, Runs
<1> QED BY <1>0, <1>11
-----------------------------------------------------------------------------
(* A connection that takes its own steps only: the others are served as     *)
(* they were.                                                               *)
ServedAs(p) == /\ p \in peers <=> pump[p] \in Serving
               /\ ~Free(p) => At(p, "read")
InRoom(p)   == Entering(p) => roomCode[p] \in rooms /\ ~idle[roomCode[p]]

LEMMA Restated ==
  ServedExactly /\ EntersFresh <=> \A p \in Peers : ServedAs(p) /\ InRoom(p)
BY DEF ServedExactly, EntersFresh, ServedAs, InRoom, Entering

(* A peer that is entering a room is one of its members. *)
LEMMA EnteringIn ==
  ASSUME ServerInv, NEW p \in Peers, Entering(p)
  PROVE  /\ roomCode[p] \in rooms /\ roomCode[p] \in Codes /\ ~idle[roomCode[p]]
         /\ p \in members[roomCode[p]]
         /\ \A c \in Codes : p \in members[c] => c = roomCode[p]
BY DEF ServerInv, HubInv, TypeOK, MembershipAgrees, ServedExactly, EntersFresh, Entering

LEMMA StepServed ==
  ASSUME ServerInv, [ServerNext]_serverVars
  PROVE  \A p \in Peers : ServedAs(p)'
<1>t. TypeOK /\ ServerTypeOK /\ \A p \in Peers : ServedAs(p)
  BY Restated DEF ServerInv, HubInv
<1> SUFFICES ASSUME NEW p \in Peers PROVE ServedAs(p)'
  OBVIOUS
<1>p. ServedAs(p)
  BY <1>t
<1> USE DEF pumps, wires, joining, GoTo, Serving, conns
<1>0. ASSUME pump'[p] = pump[p], peers' = peers, relayReq'[p] = relayReq[p] PROVE ServedAs(p)'
  BY <1>p, <1>0 DEF ServedAs, Free, At
<1>1. ASSUME NEW q \in Peers, Accept(q) PROVE ServedAs(p)'
  <2>1. /\ pump[q] = "none" /\ peers' = peers \cup {q} /\ relayReq' = relayReq
        /\ pump' = [pump EXCEPT ![q] = "read"]
    BY <1>1 DEF Accept, RegisterPeer, At
  <2>2. pump'[p] = IF p = q THEN "read" ELSE pump[p]
    BY <1>t, <2>1 DEF ServerTypeOK
  <2> QED BY <1>p, <2>1, <2>2 DEF ServedAs, Free, At
<1>2. ASSUME NEW q \in Peers, Unregister(q) PROVE ServedAs(p)'
  <2>1. /\ Free(q) /\ peers' = peers \ {q} /\ relayReq' = relayReq
        /\ pump' = [pump EXCEPT ![q] = "close"]
    BY <1>2 DEF Unregister, UnregisterPeer
  <2>2. pump'[p] = IF p = q THEN "close" ELSE pump[p]
    BY <1>t, <2>1 DEF ServerTypeOK
  <2> QED BY <1>p, <2>1, <2>2 DEF ServedAs, Free, At
<1>3. ASSUME NEW q \in Peers, Drop(q) \/ ReadError(q) \/ Join(q) \/ RouteFails(q)
      PROVE  ServedAs(p)'
  <2>1. /\ pump[q] = "read" /\ Free(q) /\ peers' = peers /\ relayReq' = relayReq
        /\ \/ pump' = [pump EXCEPT ![q] = "exit"]
           \/ pump' = [pump EXCEPT ![q] = "joined"]
           \/ pump' = pump
    <3>1. CASE Drop(q) \/ ReadError(q)
      BY <3>1 DEF Drop, ReadError, Exit, At, hubVars
    <3>2. CASE RouteFails(q)
      BY <3>2 DEF RouteFails, At, hubVars
    <3>3. CASE Join(q)
      BY <3>3 DEF Join, At, CreateChosen, CreateGenerated, JoinRoom, CanCreate, CanJoin, Ready,
                  InstallRoom
    <3> QED BY <1>3, <3>1, <3>2, <3>3
  <2>2. CASE pump' = pump
    BY <1>0, <2>1, <2>2
  <2>3. CASE pump' # pump
    <3>1. pump'[p] = pump[p] \/ (p = q /\ pump'[p] \in {"exit", "joined"})
      BY <1>t, <2>1, <2>3 DEF ServerTypeOK
    <3> QED BY <1>p, <2>1, <3>1 DEF ServedAs, Free, At
  <2> QED BY <2>2, <2>3
<1>4. ASSUME NEW q \in Peers,
             CloseJoinedChan(q) \/ WalkRoom(q) \/ Acknowledge(q) \/ Close(q)
      PROVE  ServedAs(p)'
  <2>1. /\ peers' = peers /\ relayReq' = relayReq
        /\ \/ /\ pump[q] \in {"joined", "walk", "ack"}
              /\ \E l \in {"exit", "walk", "ack", "read"} : pump' = [pump EXCEPT ![q] = l]
           \/ pump[q] = "close" /\ pump' = [pump EXCEPT ![q] = "done"]
    <3>1. CASE CloseJoinedChan(q)
      BY <3>1 DEF CloseJoinedChan, At, hubVars
    <3>2. CASE WalkRoom(q)
      BY <3>2 DEF WalkRoom, At, hubVars
    <3>3. CASE Acknowledge(q)
      BY <3>3 DEF Acknowledge, At, QueueAck
    <3>4. CASE Close(q)
      BY <3>4 DEF Close, At, hubVars
    <3> QED BY <1>4, <3>1, <3>2, <3>3, <3>4
  <2>2. \/ pump'[p] = pump[p]
        \/ /\ p = q
           /\ \/ /\ pump[p] \in {"joined", "walk", "ack"}
                 /\ pump'[p] \in {"exit", "walk", "ack", "read"}
              \/ pump[p] = "close" /\ pump'[p] = "done"
    BY <1>t, <2>1 DEF ServerTypeOK
  <2> QED BY <1>p, <2>1, <2>2 DEF ServedAs, Free, At
<1>5. ASSUME NEW q \in Peers, AskRelay(q) PROVE ServedAs(p)'
  <2>1. pump[q] = "read" /\ pump' = pump /\ peers' = peers
        /\ (p # q => relayReq'[p] = relayReq[p])
    BY <1>t, <1>5 DEF AskRelay, RelayLookup, At, TypeOK
  <2> QED BY <1>p, <2>1 DEF ServedAs, Free, At
<1>6. ASSUME NEW q \in Peers, AnswerRelay(q) PROVE ServedAs(p)'
  <2>1. pump' = pump /\ peers' = peers
        /\ relayReq'[p] = IF p = q THEN NoReq ELSE relayReq[p]
    BY <1>t, <1>6 DEF AnswerRelay, RelayRefused, RelayApproved, TypeOK
  <2> QED BY <1>p, <2>1 DEF ServedAs, Free, At
<1>7. ASSUME NEW q \in Peers, Leave(q) \/ Route(q) \/ WriteStep(q) \/ TimerStep(q)
      PROVE  UNCHANGED <<pump, peers, relayReq>>
  BY <1>7 DEF Leave, Route, RouteMessage, WriteStep, Deliver, WriteFails, TakeMessage,
              TimerStep, TimeoutFires, TimeoutDrops, TimeoutCancelled, hubVars
<1>8. CASE Reaper \/ UNCHANGED serverVars
  <2>1. UNCHANGED <<pump, peers, relayReq>>
    BY <1>8 DEF Reaper, ReapRooms, Elapse, serverVars, hubVars
  <2> QED BY <1>0, <2>1
<1>9. ASSUME NEW q \in Peers, Step(q) PROVE ServedAs(p)'
  BY <1>0, <1>1, <1>2, <1>3, <1>4, <1>5, <1>6, <1>7, <1>9 DEF Step, PumpStep
<1> QED BY <1>8, <1>9 DEF ServerNext, Runs
(* The room under a walk stays: nobody but the walker's own readPump takes  *)
(* the walker out of it, and it is not idle, so it is not reaped.           *)
LEMMA StepEnters ==
  ASSUME ServerInv, [ServerNext]_serverVars
  PROVE  \A p \in Peers : InRoom(p)'
<1>t. TypeOK /\ ServerTypeOK /\ \A p \in Peers : ServedAs(p) /\ InRoom(p)
  BY Restated DEF ServerInv, HubInv
<1> SUFFICES ASSUME NEW p \in Peers, Entering(p)' PROVE roomCode'[p] \in rooms' /\ ~idle'[roomCode'[p]]
  BY DEF InRoom
<1> DEFINE c == roomCode[p]
           Kept == roomCode'[p] = c /\ c \in rooms' /\ ~idle'[c]
<1> USE DEF pumps, wires, joining, GoTo, conns, membership, registry
<1>0. ASSUME pump'[p] = pump[p], UNCHANGED <<roomCode, rooms, idle>> PROVE Kept
  BY <1>t, <1>0 DEF InRoom, Entering, At
<1>1. ASSUME NEW q \in Peers, Join(q) PROVE roomCode'[p] \in rooms' /\ ~idle'[roomCode'[p]]
  <2>1. PICK d \in Codes : CreateChosen(q, d) \/ CreateGenerated(q, d) \/ JoinRoom(q, d)
    BY <1>1 DEF Join
  <2>2. roomCode' = [roomCode EXCEPT ![q] = d] /\ idle' = [idle EXCEPT ![d] = FALSE]
        /\ d \in rooms' /\ rooms \subseteq rooms'
    <3>1. CASE CreateChosen(q, d) \/ CreateGenerated(q, d)
      BY <3>1 DEF CreateChosen, CreateGenerated, InstallRoom
    <3>2. CASE JoinRoom(q, d)
      BY <3>2 DEF JoinRoom, CanJoin
    <3> QED BY <2>1, <3>1, <3>2
  <2>3. \A e \in Codes : ~idle[e] => ~idle'[e]
    BY <1>t, <2>2 DEF TypeOK
  <2>4. CASE p = q
    BY <1>t, <2>2, <2>4 DEF TypeOK
  <2>5. CASE p # q
    <3>1. pump'[p] = pump[p] /\ roomCode'[p] = c
      BY <1>t, <1>1, <2>2, <2>5 DEF Join, ServerTypeOK, TypeOK
    <3>2. c \in Codes /\ c \in rooms /\ ~idle[c]
      BY <3>1, EnteringIn DEF Entering, At
    <3> QED BY <2>2, <2>3, <3>1, <3>2
  <2> QED BY <2>4, <2>5
<1>2. ASSUME NEW q \in Peers, Unregister(q) PROVE Kept
  <2>1. p # q /\ pump'[p] = pump[p]
    BY <1>t, <1>2 DEF Unregister, ServerTypeOK, Entering, At
  <2>2. c \in rooms /\ c \in Codes /\ ~idle[c] /\ p \in members[c]
    BY <2>1, EnteringIn DEF Entering, At
  <2>3. roomCode'[p] = c
    BY <1>t, <1>2, <2>1 DEF Unregister, UnregisterPeer, TypeOK
  <2>4. CASE roomCode[q] \notin rooms
    BY <1>2, <2>2, <2>3, <2>4 DEF Unregister, UnregisterPeer
  <2>5. CASE roomCode[q] \in rooms
    <3>1. /\ idle' = [idle EXCEPT ![roomCode[q]] = FALSE]
          /\ DeleteRooms(IF members[roomCode[q]] \ {q} = {} THEN {roomCode[q]} ELSE {})
      BY <1>2, <2>5 DEF Unregister, UnregisterPeer
    <3>2. roomCode[q] = c => members[roomCode[q]] \ {q} # {}
      BY <2>1, <2>2
    <3>3. c \in rooms'
      BY <2>2, <3>1, <3>2 DEF DeleteRooms
    <3>4. ~idle'[c]
      BY <1>t, <2>2, <3>1 DEF TypeOK
    <3> QED BY <2>3, <3>3, <3>4
  <2> QED BY <2>4, <2>5
<1>3. CASE Reaper
  <2>1. pump' = pump
    BY <1>3 DEF Reaper
  <2>2. /\ c \in rooms /\ c \in Codes /\ ~idle[c] /\ p \in members[c]
        /\ \A d \in Codes : p \in members[d] => d = c
    BY <2>1, EnteringIn DEF Entering, At
  <2>3. CASE ReapRooms
    <3> DEFINE expired == {d \in rooms : idle[d]}
    <3>1. /\ roomCode' = [r \in Peers |-> IF r \in UNION {members[d] : d \in expired}
                                        THEN NoRoom ELSE roomCode[r]]
          /\ idle' = [d \in Codes |-> IF d \in expired THEN FALSE ELSE idle[d]]
          /\ rooms' = rooms \ expired
      BY <2>3 DEF ReapRooms, DeleteRooms
    <3>2. c \notin expired
      BY <2>2
    <3>3. p \notin UNION {members[d] : d \in expired}
      <4> SUFFICES ASSUME NEW d \in expired, p \in members[d] PROVE FALSE
        OBVIOUS
      <4>1. d \in Codes
        BY <1>t DEF TypeOK
      <4>2. d = c
        BY <2>2, <4>1
      <4> QED BY <3>2, <4>2
    <3> QED BY <2>2, <3>1, <3>2, <3>3
  <2>4. ASSUME NEW d \in Codes, Elapse(d), \A r \in members[d] : Settled(r) PROVE Kept
    <3>1. d # c
      <4>1. ~Settled(p)
        BY <2>1 DEF Settled, Entering, At
      <4> QED BY <2>2, <2>4, <4>1
    <3>2. idle' = [idle EXCEPT ![d] = TRUE] /\ UNCHANGED <<roomCode, rooms>>
      BY <2>4 DEF Elapse
    <3>3. idle'[c] = idle[c]
      BY <1>t, <2>2, <3>1, <3>2 DEF TypeOK
    <3> QED BY <2>2, <3>2, <3>3
  <2> QED BY <1>3, <2>3, <2>4 DEF Reaper
<1>4. ASSUME NEW q \in Peers, Route(q) PROVE Kept
  <2>1. UNCHANGED <<pump, roomCode, rooms>> /\ idle' = [idle EXCEPT ![roomCode[q]] = FALSE]
    BY <1>4 DEF Route, RouteMessage
  <2>2. c \in rooms /\ c \in Codes /\ ~idle[c]
    BY <2>1, EnteringIn DEF Entering, At
  <2>3. ~idle'[c]
    BY <1>t, <2>1, <2>2 DEF TypeOK
  <2> QED BY <2>1, <2>2, <2>3
<1>5. ASSUME NEW q \in Peers, CloseJoinedChan(q) PROVE Kept
  <2>1. UNCHANGED <<roomCode, rooms, idle>>
    BY <1>5 DEF CloseJoinedChan, hubVars
  <2>2. Entering(p)
    BY <1>t, <1>5 DEF CloseJoinedChan, ServerTypeOK, Entering, At
  <2> QED BY <2>1, <2>2, EnteringIn
<1>6. ASSUME NEW q \in Peers,
             \/ Accept(q) \/ Drop(q) \/ ReadError(q) \/ RouteFails(q)
             \/ WalkRoom(q) \/ Acknowledge(q) \/ Close(q)
      PROVE  UNCHANGED <<roomCode, rooms, idle>> /\ pump'[p] = pump[p]
  <2>1. UNCHANGED <<roomCode, rooms, idle>>
    BY <1>6 DEF Accept, RegisterPeer, Drop, ReadError, Exit, RouteFails, WalkRoom,
                Acknowledge, QueueAck, Close, hubVars
  <2>2. \/ pump' = pump
        \/ \E l \in {"read", "exit", "ack", "done"} : pump' = [pump EXCEPT ![q] = l]
    BY <1>6 DEF Accept, Drop, ReadError, Exit, RouteFails, WalkRoom, Acknowledge, Close
  <2> QED BY <1>t, <2>1, <2>2 DEF ServerTypeOK, Entering, At
<1>7. ASSUME NEW q \in Peers,
             Leave(q) \/ AskRelay(q) \/ AnswerRelay(q) \/ WriteStep(q) \/ TimerStep(q)
      PROVE  UNCHANGED <<roomCode, rooms, idle, pump>>
  BY <1>7 DEF Leave, AskRelay, RelayLookup, AnswerRelay, RelayRefused, RelayApproved,
              WriteStep, Deliver, WriteFails, TakeMessage,
              TimerStep, TimeoutFires, TimeoutDrops, TimeoutCancelled, hubVars
<1>8. CASE UNCHANGED serverVars
  BY <1>0, <1>8 DEF serverVars, hubVars
<1>9. ASSUME NEW q \in Peers, Step(q) PROVE roomCode'[p] \in rooms' /\ ~idle'[roomCode'[p]]
  <2>1. CASE Join(q)
    BY <1>1, <2>1
  <2>2. CASE Unregister(q) \/ Route(q) \/ CloseJoinedChan(q)
    BY <1>2, <1>4, <1>5, <2>2
  <2> QED BY <1>0, <1>6, <1>7, <1>9, <2>1, <2>2 DEF Step, PumpStep
<1> QED BY <1>3, <1>8, <1>9 DEF ServerNext, Runs
-----------------------------------------------------------------------------
LEMMA ServerStep ==
  ASSUME ~DrawsMayCollide, ServerInv, [ServerNext]_serverVars
  PROVE  ServerInv'
<1>1. HubInv'
  BY StepUsesHub, HubStep DEF ServerInv
<1>2. ServerTypeOK'
  BY <1>1, StepServerTyped DEF HubInv
<1>3. \A p \in Peers : ServedAs(p)' /\ InRoom(p)'
  BY StepServed, StepEnters
<1>4. ServedExactly' /\ EntersFresh'
  BY <1>3 DEF ServedExactly, EntersFresh, ServedAs, InRoom, Entering
<1> QED BY <1>1, <1>2, <1>4 DEF ServerInv

LEMMA ServerInvariant ==
  ASSUME ~DrawsMayCollide
  PROVE  ServerSpec => []ServerInv
<1>1. ServerInit => ServerInv
  BY InitServer, InitTyped, InitAgrees, InitCounted DEF ServerInv, HubInv, ServerInit
<1>2. ServerInv /\ [ServerNext]_serverVars => ServerInv'
  BY ServerStep
<1> QED BY <1>1, <1>2, PTL DEF ServerSpec

(* Every way out of readPump gives the connection's place back, and none    *)
(* gives it back early (the deferred function of readPump, ws.go:191-199).  *)
THEOREM Served ==
  ASSUME ~DrawsMayCollide
  PROVE  ServerSpec => []ServedExactly
BY ServerInvariant, PTL DEF ServerInv

(* What the registry promises alone it keeps in the running server: no      *)
(* count leaks, no limit is exceeded, no membership is left dangling.       *)
THEOREM ServerKeepsRegistry ==
  ASSUME ~DrawsMayCollide
  PROVE  ServerSpec => [](MembershipAgrees /\ CountersExact /\ WithinLimits)
BY ServerInvariant, PTL DEF ServerInv, HubInv
-----------------------------------------------------------------------------
(***************************************************************************)
(* What a client will have heard: its view, and the messages that wait for *)
(* it.                                                                     *)
(***************************************************************************)
Names(m, q)   == m.type \in {"joined", "peer-joined"} /\ q \in m.about
Unnames(m, q) == m.type = "peer-left" /\ q \in m.about

(* p has heard of q, or will when it has read its queue.                    *)
Knows(p, q) ==
  \/ q \in view[p] /\ \A i \in DOMAIN send[p] : ~Unnames(send[p][i], q)
  \/ \E i \in DOMAIN send[p] :
       /\ Names(send[p][i], q)
       /\ \A j \in DOMAIN send[p] : j > i => ~Unnames(send[p][j], q)

(* The walk under way, or the acknowledgement in hand, will name q to p.    *)
Due(p, q) == \/ At(p, "walk") /\ q \notin touched[p]
             \/ At(p, "ack") /\ q \in roster[p]

Following(p) == /\ pump[p] \in {"walk", "ack", "read"} /\ roomCode[p] # NoRoom
                /\ ~gone[p] /\ ~full[p] /\ writer[p] = "run"

Informed == \A p, q \in Peers :
  p # q /\ Following(p) /\ roomCode[q] = roomCode[p] => Knows(p, q) \/ Due(p, q)

Spacious == \A p \in peers : ~gone[p] /\ ~full[p] => Len(send[p]) < SendCap

RosterInv == ServerInv /\ Informed /\ Spacious

(* A queue that only grew, and not by a notice that q left.                 *)
Grown(s, t, q) == /\ DOMAIN s \subseteq DOMAIN t
                  /\ \A i \in DOMAIN s : t[i] = s[i]
                  /\ \A j \in DOMAIN t \ DOMAIN s : ~Unnames(t[j], q)

LEMMA OfferGrows ==
  ASSUME NEW s \in Seq(Messages), NEW m \in Messages, NEW q, ~Unnames(m, q)
  PROVE  Grown(s, Offer(s, m), q) /\ Offer(s, m) \in Seq(Messages)
<1>1. Grown(s, s, q)
  BY DEF Grown
<1>2. Grown(s, Append(s, m), q) /\ Append(s, m) \in Seq(Messages)
  <2>1. /\ Append(s, m) \in Seq(Messages) /\ DOMAIN s \subseteq DOMAIN Append(s, m)
        /\ \A i \in DOMAIN s : Append(s, m)[i] = s[i]
        /\ \A j \in DOMAIN Append(s, m) \ DOMAIN s : Append(s, m)[j] = m
    OBVIOUS
  <2> QED BY <2>1 DEF Grown
<1> QED BY <1>1, <1>2 DEF Offer

LEMMA PushGrows ==
  ASSUME TypeOK, NEW S, NEW m \in Messages, NEW p \in Peers, NEW q, ~Unnames(m, q),
         send'[p] = Push(S, m)[p]
  PROVE  Grown(send[p], send'[p], q)
<1>1. send[p] \in Seq(Messages)
  BY DEF TypeOK
<1>2. Grown(send[p], send[p], q) /\ Grown(send[p], Offer(send[p], m), q)
  BY <1>1, OfferGrows DEF Grown
<1> QED BY <1>2 DEF Push

LEMMA GrownTwice ==
  ASSUME NEW s, NEW t, NEW u, NEW q, Grown(s, t, q), Grown(t, u, q)
  PROVE  Grown(s, u, q)
BY DEF Grown

(* What is known stays known when the queue grows, and a message at its end *)
(* that names q makes q known.                                              *)
LEMMA KnownStays ==
  ASSUME NEW p \in Peers, NEW q, Knows(p, q), TypeOK, TypeOK', view'[p] = view[p],
         Grown(send[p], send'[p], q)
  PROVE  Knows(p, q)'
<1>1. CASE q \in view[p] /\ \A i \in DOMAIN send[p] : ~Unnames(send[p][i], q)
  BY <1>1 DEF Knows, Grown
<1>2. ASSUME NEW i \in DOMAIN send[p], Names(send[p][i], q),
             \A j \in DOMAIN send[p] : j > i => ~Unnames(send[p][j], q)
      PROVE  Knows(p, q)'
  <2>1. i \in DOMAIN send'[p] /\ Names(send'[p][i], q)
    BY <1>2 DEF Grown
  <2>2. ASSUME NEW j \in DOMAIN send'[p], j > i PROVE ~Unnames(send'[p][j], q)
    BY <1>2, <2>2 DEF Grown
  <2> QED BY <2>1, <2>2 DEF Knows
<1> QED BY <1>1, <1>2 DEF Knows

LEMMA LastNames ==
  ASSUME NEW p \in Peers, NEW q, NEW m \in Messages, Names(m, q), TypeOK,
         send'[p] = Append(send[p], m)
  PROVE  Knows(p, q)'
<1> DEFINE n == Len(send[p]) + 1
<1>1. send[p] \in Seq(Messages)
  BY DEF TypeOK
<1>2. n \in DOMAIN send'[p] /\ send'[p][n] = m /\ \A j \in DOMAIN send'[p] : ~(j > n)
  BY <1>1
<1> QED BY <1>2 DEF Knows

(* The next message is read: what it says moves from the queue to the view. *)
LEMMA ReadKnows ==
  ASSUME ServerInv, NEW p \in Peers, NEW q \in Peers, Knows(p, q), Deliver(p), p \in peers, ~gone[p]
  PROVE  Knows(p, q)'
<1>1. send[p] \in Seq(Messages) /\ send[p] # <<>> /\ view[p] \subseteq Peers
  BY DEF ServerInv, HubInv, TypeOK, ServerTypeOK, Deliver, TakeMessage
<1>2. send'[p] = Tail(send[p]) /\ view'[p] = Seen(p, Head(send[p]))
  BY DEF ServerInv, HubInv, TypeOK, ServerTypeOK, Deliver, TakeMessage
<1>3. /\ Head(send[p]) = send[p][1] /\ 1 \in DOMAIN send[p]
      /\ \A i \in DOMAIN send'[p] : i + 1 \in DOMAIN send[p] /\ i + 1 > 1 /\ send'[p][i] = send[p][i + 1]
      /\ \A i \in DOMAIN send[p] : i # 1 => i - 1 \in DOMAIN send'[p] /\ send'[p][i - 1] = send[p][i]
      /\ DOMAIN send[p] \subseteq Nat /\ DOMAIN send'[p] \subseteq Nat
  BY <1>1, <1>2
<1>4. CASE q \in view[p] /\ \A i \in DOMAIN send[p] : ~Unnames(send[p][i], q)
  <2>1. \A i \in DOMAIN send'[p] : ~Unnames(send'[p][i], q)
    BY <1>3, <1>4
  <2>2. q \in view'[p]
    BY <1>2, <1>3, <1>4 DEF Seen, Unnames
  <2> QED BY <2>1, <2>2 DEF Knows
<1>5. ASSUME NEW i \in DOMAIN send[p], Names(send[p][i], q),
             \A j \in DOMAIN send[p] : j > i => ~Unnames(send[p][j], q)
      PROVE  Knows(p, q)'
  <2>1. CASE i = 1
    <3>1. q \in view'[p]
      BY <1>2, <1>3, <1>5, <2>1 DEF Seen, Names
    <3>2. \A j \in DOMAIN send'[p] : ~Unnames(send'[p][j], q)
      BY <1>3, <1>5, <2>1
    <3> QED BY <3>1, <3>2 DEF Knows
  <2>2. CASE i # 1
    <3>1. i - 1 \in DOMAIN send'[p] /\ Names(send'[p][i - 1], q)
      BY <1>3, <1>5, <2>2
    <3>2. ASSUME NEW j \in DOMAIN send'[p], j > i - 1 PROVE ~Unnames(send'[p][j], q)
      <4>1. j + 1 \in DOMAIN send[p] /\ j + 1 > i /\ send'[p][j] = send[p][j + 1]
        BY <1>3, <3>2
      <4> QED BY <1>5, <4>1
    <3> QED BY <3>1, <3>2 DEF Knows
  <2> QED BY <2>1, <2>2
<1> QED BY <1>4, <1>5 DEF Knows

(* A step of one connection's goroutines leaves what is another's alone,    *)
(* but for its queue.                                                       *)
Own(p) == <<pump[p], writer[p], gone[p], roster[p], view[p], roomCode[p]>>

LEMMA Elsewhere ==
  ASSUME ServerInv, NEW r \in Peers, Step(r), NEW p \in Peers, p # r
  PROVE  UNCHANGED Own(p)
<1>t. TypeOK /\ ServerTypeOK
  BY DEF ServerInv, HubInv
<1> USE DEF pumps, wires, joining, GoTo, membership
<1>1. CASE Accept(r) \/ Leave(r) \/ Drop(r) \/ ReadError(r) \/ Close(r)
  <2>1. /\ UNCHANGED <<roomCode, roster>>
        /\ pump' = pump \/ \E l \in {"read", "exit", "done"} : pump' = [pump EXCEPT ![r] = l]
        /\ writer' = writer \/ writer' = [writer EXCEPT ![r] = "run"]
        /\ gone' = gone \/ gone' = [gone EXCEPT ![r] = TRUE]
        /\ view' = view \/ view' = [view EXCEPT ![r] = {}]
    BY <1>1 DEF Accept, RegisterPeer, Leave, Drop, ReadError, Exit, Close, hubVars
  <2> QED BY <1>t, <2>1 DEF Own, ServerTypeOK
<1>2. CASE Unregister(r)
  <2>1. /\ UNCHANGED <<writer, gone, roster>> /\ pump' = [pump EXCEPT ![r] = "close"]
        /\ view' = [view EXCEPT ![r] = {}] /\ roomCode' = [roomCode EXCEPT ![r] = NoRoom]
    BY <1>2 DEF Unregister, UnregisterPeer
  <2> QED BY <1>t, <2>1 DEF Own, TypeOK, ServerTypeOK
<1>3. CASE Join(r)
  <2>1. /\ UNCHANGED <<writer, gone, roster, view>> /\ pump' = [pump EXCEPT ![r] = "joined"]
        /\ \E c \in Codes : roomCode' = [roomCode EXCEPT ![r] = c]
    BY <1>3 DEF Join, CreateChosen, CreateGenerated, InstallRoom, JoinRoom
  <2> QED BY <1>t, <2>1 DEF Own, TypeOK, ServerTypeOK
<1>4. CASE CloseJoinedChan(r) \/ Acknowledge(r)
  <2>1. /\ UNCHANGED <<writer, gone, view, roomCode>>
        /\ \E l \in {"exit", "walk", "read"} : pump' = [pump EXCEPT ![r] = l]
        /\ roster' = roster \/ roster' = [roster EXCEPT ![r] = {}]
    BY <1>4 DEF CloseJoinedChan, Acknowledge, QueueAck, hubVars
  <2> QED BY <1>t, <2>1 DEF Own, ServerTypeOK
<1>5. CASE WalkRoom(r)
  BY <1>t, <1>5 DEF WalkRoom, hubVars, Own, TypeOK, ServerTypeOK
<1>6. CASE Route(r) \/ RouteFails(r) \/ AskRelay(r) \/ AnswerRelay(r)
  BY <1>t, <1>6 DEF Route, RouteMessage, RouteFails, AskRelay, RelayLookup, AnswerRelay, RelayRefused,
                    RelayApproved, hubVars, Own, TypeOK, ServerTypeOK
<1>7. CASE WriteStep(r) \/ TimerStep(r)
  BY <1>t, <1>7 DEF WriteStep, Deliver, WriteFails, TakeMessage, TimerStep, TimeoutFires, TimeoutDrops,
                    TimeoutCancelled, hubVars, Own, TypeOK, ServerTypeOK
<1> QED BY <1>1, <1>2, <1>3, <1>4, <1>5, <1>6, <1>7 DEF Step, PumpStep

(* A step that is neither the writer's of p nor p's coming or going only    *)
(* adds to p's queue; that q left is told by q's own unregistration alone.  *)
LEMMA StepGrows ==
  ASSUME ServerInv, NEW p \in Peers, NEW q \in Peers, NEW r \in Peers, Step(r),
         r = q => ~Unregister(r),
         r = p => ~Accept(r) /\ ~Unregister(r) /\ ~WriteStep(r)
  PROVE  Grown(send[p], send'[p], q)
<1>t. TypeOK /\ ServerTypeOK /\ send[p] \in Seq(Messages)
  BY DEF ServerInv, HubInv, TypeOK
<1>m. \A t \in MsgTypes : Msg(t, {r}) \in Messages /\ (t # "peer-left" \/ q # r => ~Unnames(Msg(t, {r}), q))
  BY MsgType DEF Msg, Unnames
<1>m2. {"joined", "peer-joined", "peer-left", "signal", "error", "relay-approved"} \subseteq MsgTypes
  BY DEF MsgTypes
<1>0. ASSUME send'[p] = send[p] PROVE Grown(send[p], send'[p], q)
  BY <1>0 DEF Grown
<1>1. CASE Accept(r)
  BY <1>t, <1>0, <1>1 DEF Accept, RegisterPeer, TypeOK
<1>2. CASE Unregister(r)
  <2>1. CASE roomCode[r] \notin rooms
    BY <1>t, <1>0, <1>2, <2>1 DEF Unregister, UnregisterPeer, TypeOK
  <2>2. CASE roomCode[r] \in rooms
    <3> DEFINE S == members[roomCode[r]] \ {r}
               m == Msg("peer-left", {r})
    <3>1. send'[p] = Push(S, m)[p]
      BY <1>2, <2>2 DEF Unregister, UnregisterPeer, Push
    <3>2. m \in Messages /\ ~Unnames(m, q)
      BY <1>2, <1>m, <1>m2
    <3> QED BY <1>t, <3>1, <3>2, PushGrows
  <2> QED BY <2>1, <2>2
<1>3. CASE Join(r)
  <2>1. PICK c \in Codes : CreateChosen(r, c) \/ CreateGenerated(r, c) \/ JoinRoom(r, c)
    BY <1>3 DEF Join
  <2>2. CASE JoinRoom(r, c)
    <3>1. send'[p] = Push(members[c] \ {r}, Msg("peer-joined", {r}))[p]
      BY <2>2 DEF JoinRoom
    <3> QED BY <1>t, <1>m, <1>m2, <3>1, PushGrows
  <2> QED BY <1>0, <2>1, <2>2 DEF CreateChosen, CreateGenerated, InstallRoom
<1>4. CASE Acknowledge(r)
  <2>1. CASE r = p
    <3> DEFINE m == Msg("joined", roster[p])
    <3>1. m \in Messages /\ ~Unnames(m, q)
      BY <1>t, <1>m2 DEF ServerTypeOK, Msg, Messages, Unnames
    <3>2. send'[p] = Offer(send[p], m)
      BY <1>t, <1>4, <2>1 DEF Acknowledge, QueueAck, Offer, TypeOK
    <3> QED BY <1>t, <3>1, <3>2, OfferGrows
  <2> QED BY <1>t, <1>0, <1>4, <2>1 DEF Acknowledge, QueueAck, TypeOK
<1>5. CASE Route(r)
  <2>1. PICK x \in Peers : send' = Push(Recipients(r, x), Msg("signal", {r}))
    BY <1>5 DEF Route, RouteMessage
  <2> QED BY <1>t, <1>m, <1>m2, <2>1, PushGrows
<1>6. CASE AnswerRelay(r)
  <2>1. CASE RelayRefused(r)
    <3>1. send'[p] = Push({r}, Msg("error", {r}))[p]
      BY <2>1 DEF RelayRefused
    <3> QED BY <1>t, <1>m, <1>m2, <3>1, PushGrows
  <2>2. CASE RelayApproved(r)
    <3> DEFINE m == Msg("relay-approved", {r})
               first == IF p = r THEN Offer(send[p], m) ELSE send[p]
    <3>1. send'[p] = IF p \in relayReq[r].to THEN Offer(first, m) ELSE first
      BY <2>2 DEF RelayApproved
    <3>2. m \in Messages /\ ~Unnames(m, q)
      BY <1>m, <1>m2
    <3>3. Grown(send[p], send[p], q)
      BY DEF Grown
    <3>4. Grown(send[p], first, q) /\ first \in Seq(Messages)
      BY <1>t, <3>2, <3>3, OfferGrows
    <3> HIDE DEF first, m
    <3>5. Grown(first, Offer(first, m), q)
      BY <3>2, <3>4, OfferGrows
    <3>6. Grown(send[p], Offer(first, m), q)
      BY <3>4, <3>5, GrownTwice
    <3> QED BY <3>1, <3>4, <3>6
  <2> QED BY <1>6, <2>1, <2>2 DEF AnswerRelay
<1>7. CASE WriteStep(r)
  <2>1. r # p
    BY <1>7
  <2> QED BY <1>t, <1>0, <1>7, <2>1 DEF WriteStep, Deliver, WriteFails, TakeMessage, hubVars, TypeOK
<1>8. CASE \/ Leave(r) \/ Drop(r) \/ ReadError(r) \/ RouteFails(r) \/ TimerStep(r) \/ CloseJoinedChan(r)
           \/ WalkRoom(r) \/ Close(r) \/ AskRelay(r)
  BY <1>0, <1>8 DEF Leave, Drop, ReadError, Exit, RouteFails, TimerStep, TimeoutFires, TimeoutDrops,
                    TimeoutCancelled, CloseJoinedChan, WalkRoom, Close, AskRelay, RelayLookup, hubVars
<1> QED BY <1>1, <1>2, <1>3, <1>4, <1>5, <1>6, <1>7, <1>8 DEF Step, PumpStep

(* The reaper's steps add to queues and leave the goroutines alone.         *)
LEMMA ReaperGrows ==
  ASSUME ServerInv, Reaper, NEW p \in Peers, NEW q \in Peers, roomCode'[p] # NoRoom
  PROVE  /\ Grown(send[p], send'[p], q)
         /\ UNCHANGED <<pump, writer, gone, roster, view>>
         /\ roomCode'[p] = roomCode[p]
         /\ roomCode'[q] # NoRoom => roomCode'[q] = roomCode[q]
<1>t. TypeOK /\ send[p] \in Seq(Messages)
  BY DEF ServerInv, HubInv, TypeOK
<1>1. UNCHANGED <<pump, writer, gone, roster, view>>
  BY DEF Reaper, pumps, wires, joining
<1>2. CASE ReapRooms
  <2> DEFINE evicted == UNION {members[c] : c \in {c \in rooms : idle[c]}}
  <2>1. roomCode' = [x \in Peers |-> IF x \in evicted THEN NoRoom ELSE roomCode[x]]
    BY <1>2 DEF ReapRooms
  <2>2. send' = [x \in Peers |-> IF x \in evicted THEN Offer(send[x], Msg("error", {x})) ELSE send[x]]
    BY <1>2 DEF ReapRooms
  <2>3. p \notin evicted
    BY <2>1
  <2>4. send'[p] = send[p]
    BY <2>2, <2>3
  <2>5. Grown(send[p], send'[p], q)
    BY <2>4 DEF Grown
  <2> QED BY <1>1, <2>1, <2>5
<1>3. ASSUME NEW c \in Codes, Elapse(c) PROVE UNCHANGED <<roomCode, send>>
  BY <1>3 DEF Elapse, membership
<1>4. Grown(send[p], send[p], q)
  BY DEF Grown
<1> QED BY <1>1, <1>2, <1>3, <1>4 DEF Reaper

LEMMA StaysSpacious ==
  ASSUME TypeOK', ServerTypeOK', Watch
  PROVE  Spacious'
<1> SUFFICES ASSUME NEW p \in peers', ~gone'[p], ~full'[p] PROVE Len(send'[p]) < SendCap
  BY DEF Spacious
<1>1. p \in Peers /\ send'[p] \in Seq(Messages) /\ Len(send'[p]) <= SendCap
  BY DEF TypeOK
<1>2. Len(send'[p]) # SendCap
  BY <1>1 DEF Watch
<1>3. Len(send'[p]) \in Nat /\ SendCap \in Nat
  BY <1>1, LimitAssumption
<1> QED BY <1>1, <1>2, <1>3

(* Who follows its room after a step is registered, and its queue was never *)
(* full.                                                                    *)
LEMMA FollowingKept ==
  ASSUME ServerInv', Watch, NEW p \in Peers, Following(p)'
  PROVE  p \in peers' /\ ~full[p]
<1>1. p \in peers'
  BY DEF ServerInv, HubInv, MembershipAgrees, Following
<1> QED BY <1>1 DEF Watch, Following

(* A step that changes neither p's own state nor q's room keeps q told or   *)
(* due.                                                                     *)
LEMMA Carried ==
  ASSUME RosterInv, ServerInv', Watch, NEW p \in Peers, NEW q \in Peers, p # q,
         Following(p)', roomCode'[q] = roomCode'[p],
         UNCHANGED Own(p), roomCode'[q] = roomCode[q], Grown(send[p], send'[p], q)
  PROVE  Knows(p, q)' \/ Due(p, q)'
<1>1. Following(p)
  BY FollowingKept DEF Following, Own
<1>2. Knows(p, q) \/ Due(p, q)
  BY <1>1 DEF RosterInv, Informed, Own
<1>3. CASE Knows(p, q)
  BY <1>3, KnownStays DEF RosterInv, ServerInv, HubInv, Own
<1>4. CASE At(p, "walk") /\ q \notin touched[p]
  <2>1. roomCode[p] \in Codes /\ q \in members[roomCode[p]] /\ q \in members'[roomCode[p]]
    <3>1. TypeOK /\ MembershipAgrees /\ MembershipAgrees'
      BY DEF RosterInv, ServerInv, HubInv
    <3>2. roomCode[p] \in Codes /\ roomCode[q] = roomCode[p] /\ roomCode'[q] = roomCode[p]
      BY <1>1, <3>1 DEF TypeOK, Following, Own
    <3> QED BY <3>1, <3>2 DEF MembershipAgrees
  <2>2. q \notin Changed(roomCode[p])
    BY <2>1 DEF Changed
  <2>3. pump'[p] = "walk" /\ q \notin touched'[p]
    BY <1>4, <2>2 DEF Watch, At, Own
  <2> QED BY <2>3 DEF Due, At
<1>5. CASE At(p, "ack") /\ q \in roster[p]
  BY <1>5 DEF Due, At, Own
<1> QED BY <1>2, <1>3, <1>4, <1>5 DEF Due

(* q joins the room that p follows: p is told at once.                      *)
LEMMA JoinTells ==
  ASSUME ~DrawsMayCollide, RosterInv, ServerInv', Watch, NEW p \in Peers, NEW q \in Peers, p # q,
         Following(p)', roomCode'[q] = roomCode'[p], Join(q), Step(q)
  PROVE  Knows(p, q)'
<1>t. TypeOK /\ ServerTypeOK /\ MembershipAgrees
  BY DEF RosterInv, ServerInv, HubInv
<1>1. UNCHANGED Own(p)
  BY Elsewhere DEF RosterInv
<1>2. PICK c \in Codes : CreateChosen(q, c) \/ CreateGenerated(q, c) \/ JoinRoom(q, c)
  BY DEF Join
<1>3. roomCode' = [roomCode EXCEPT ![q] = c]
  BY <1>2 DEF CreateChosen, CreateGenerated, InstallRoom, JoinRoom
<1>4. roomCode[p] = c /\ c \in rooms /\ p \in members[c]
  BY <1>t, <1>1, <1>3, NoRoomAssumption DEF Own, TypeOK, MembershipAgrees
<1>5. JoinRoom(q, c)
  BY <1>2, <1>4 DEF CreateChosen, CreateGenerated
<1>6. p \in peers /\ ~gone[p] /\ ~full[p]
  BY <1>1, <1>5, FollowingKept DEF JoinRoom, conns, Following, Own
<1>7. Len(send[p]) < SendCap
  BY <1>6 DEF RosterInv, Spacious
<1> DEFINE m == Msg("peer-joined", {q})
<1>8. m \in Messages /\ Names(m, q)
  BY MsgType DEF Msg, Names, MsgTypes
<1>9. send'[p] = Append(send[p], m)
  BY <1>4, <1>5, <1>7 DEF JoinRoom, Push, Offer
<1> QED BY <1>t, <1>8, <1>9, LastNames

(* The steps of p's own goroutines.                                         *)
LEMMA OwnStepInforms ==
  ASSUME ~DrawsMayCollide, RosterInv, ServerInv', Watch, NEW p \in Peers, NEW q \in Peers, p # q,
         Following(p)', roomCode'[q] = roomCode'[p], Step(p)
  PROVE  Knows(p, q)' \/ Due(p, q)'
<1>t. TypeOK /\ ServerTypeOK /\ MembershipAgrees /\ TypeOK' /\ ServerInv
  BY DEF RosterInv, ServerInv, HubInv
<1>f. p \in peers' /\ ~full[p]
  BY FollowingKept
<1>q. roomCode'[q] = roomCode[q]
  BY <1>t, Elsewhere DEF Own
<1>g. ASSUME ~Accept(p), ~Unregister(p), ~WriteStep(p) PROVE Grown(send[p], send'[p], q)
  BY <1>t, <1>g, StepGrows
<1> USE DEF pumps, wires, joining, GoTo, membership
<1>1. ~Accept(p) /\ ~Unregister(p)
  <2>1. CASE Accept(p)
    BY <1>t, <2>1 DEF Accept, RegisterPeer, MembershipAgrees, Following
  <2>2. CASE Unregister(p)
    BY <1>f, <2>2 DEF Unregister, UnregisterPeer
  <2> QED BY <2>1, <2>2
<1>2. ~Leave(p) /\ ~Drop(p) /\ ~ReadError(p) /\ ~Close(p) /\ ~Join(p) /\ ~WriteFails(p) /\ ~RouteFails(p)
  <2>1. ~Leave(p)
    BY <1>t DEF Leave, ServerTypeOK, Following
  <2>2. ~Drop(p) /\ ~ReadError(p) /\ ~Close(p) /\ ~Join(p)
    BY <1>t DEF Drop, ReadError, Exit, Close, Join, ServerTypeOK, Following
  <2>3. ~WriteFails(p)
    BY <1>t DEF WriteFails, ServerTypeOK, Following
  <2>4. ~RouteFails(p)
    BY <1>t DEF RouteFails, ServerTypeOK, Following
  <2> QED BY <2>1, <2>2, <2>3, <2>4
<1>3. CASE CloseJoinedChan(p)
  <2>1. pump[p] = "joined" /\ pump'[p] = "walk"
    BY <1>t, <1>3 DEF CloseJoinedChan, At, ServerTypeOK, Following
  <2>2. touched'[p] = {}
    BY <2>1 DEF Watch, At
  <2> QED BY <2>1, <2>2 DEF Due, At
<1>4. CASE WalkRoom(p)
  <2>1. pump[p] = "walk" /\ pump'[p] = "ack" /\ UNCHANGED <<hubVars, writer, gone, view>>
    BY <1>t, <1>4 DEF WalkRoom, At, ServerTypeOK
  <2>2. Following(p)
    BY <1>f, <2>1 DEF Following, hubVars
  <2>3. q \in members[roomCode[p]]
    BY <1>t, <1>q, <2>1, <2>2 DEF hubVars, TypeOK, MembershipAgrees, Following
  <2>4. Knows(p, q) \/ q \notin touched[p]
    BY <1>q, <2>1, <2>2 DEF RosterInv, Informed, Due, At, hubVars
  <2>5. CASE Knows(p, q)
    BY <2>1, <2>5 DEF Knows, hubVars
  <2>6. CASE q \notin touched[p]
    <3>1. PICK seen \in SUBSET touched[p] :
            roster' = [roster EXCEPT ![p] = ((members[roomCode[p]] \ touched[p]) \cup seen) \ {p}]
      BY <1>4 DEF WalkRoom
    <3>2. q \in roster'[p]
      BY <1>t, <2>3, <2>6, <3>1 DEF ServerTypeOK
    <3> QED BY <2>1, <3>2 DEF Due, At
  <2> QED BY <2>4, <2>5, <2>6
<1>5. CASE Acknowledge(p)
  <2>1. /\ pump[p] = "ack" /\ UNCHANGED <<roomCode, writer, gone, view>>
        /\ send'[p] = Append(send[p], Msg("joined", roster[p]))
    BY <1>t, <1>5 DEF Acknowledge, QueueAck, At, TypeOK
  <2>2. Following(p)
    BY <1>f, <2>1 DEF Following
  <2>3. Knows(p, q) \/ q \in roster[p]
    BY <1>q, <2>1, <2>2 DEF RosterInv, Informed, Due, At
  <2>4. CASE Knows(p, q)
    <3>1. ~WriteStep(p)
      BY <1>t, <1>2, <1>5 DEF WriteStep, Deliver, Acknowledge, ServerTypeOK, At
    <3>2. Grown(send[p], send'[p], q)
      BY <1>1, <1>g, <3>1
    <3> QED BY <1>t, <2>1, <2>4, <3>2, KnownStays
  <2>5. CASE q \in roster[p]
    <3> DEFINE m == Msg("joined", roster[p])
    <3>1. m \in Messages /\ Names(m, q)
      BY <1>t, <2>5 DEF ServerTypeOK, Msg, Messages, MsgTypes, Names
    <3> QED BY <1>t, <2>1, <3>1, LastNames
  <2> QED BY <2>3, <2>4, <2>5
<1>6. CASE Deliver(p)
  <2>1. UNCHANGED <<pump, writer, gone, roster, roomCode, members, peers>>
    BY <1>6 DEF Deliver, TakeMessage, conns
  <2>2. Following(p) /\ p \in peers /\ ~gone[p]
    BY <1>f, <2>1 DEF Following
  <2>3. Knows(p, q) \/ Due(p, q)
    BY <1>q, <2>1, <2>2 DEF RosterInv, Informed
  <2>4. CASE Knows(p, q)
    BY <1>t, <1>6, <2>2, <2>4, ReadKnows
  <2>5. CASE At(p, "walk") /\ q \notin touched[p]
    <3>1. q \notin Changed(roomCode[p])
      BY <2>1 DEF Changed
    <3> QED BY <2>1, <2>5, <3>1 DEF Watch, Due, At
  <2>6. CASE At(p, "ack") /\ q \in roster[p]
    BY <2>1, <2>6 DEF Due, At
  <2> QED BY <2>3, <2>4, <2>5, <2>6 DEF Due
<1>7. CASE ~Deliver(p) /\ (Route(p) \/ AskRelay(p) \/ AnswerRelay(p) \/ TimerStep(p))
  <2>1. UNCHANGED Own(p)
    BY <1>7 DEF Route, RouteMessage, AskRelay, RelayLookup, AnswerRelay, RelayRefused, RelayApproved,
                TimerStep, TimeoutFires, TimeoutDrops, TimeoutCancelled, hubVars, Own
  <2>2. Grown(send[p], send'[p], q)
    BY <1>1, <1>2, <1>7, <1>g DEF WriteStep
  <2> QED BY <1>q, <2>1, <2>2, Carried
<1> QED BY <1>1, <1>2, <1>3, <1>4, <1>5, <1>6, <1>7 DEF Step, PumpStep, WriteStep

LEMMA RoomKept ==
  ASSUME NEW r \in Peers, Step(r), ~Join(r), ~Unregister(r)
  PROVE  UNCHANGED roomCode
<1>1. CASE Accept(r) \/ Leave(r) \/ Drop(r) \/ ReadError(r) \/ Close(r)
  BY <1>1 DEF Accept, RegisterPeer, Leave, Drop, ReadError, Exit, Close, hubVars, membership
<1>2. CASE CloseJoinedChan(r) \/ WalkRoom(r) \/ Acknowledge(r)
  BY <1>2 DEF CloseJoinedChan, WalkRoom, Acknowledge, QueueAck, hubVars, membership
<1>3. CASE Route(r) \/ RouteFails(r) \/ AskRelay(r) \/ AnswerRelay(r)
  BY <1>3 DEF Route, RouteMessage, RouteFails, AskRelay, RelayLookup, AnswerRelay, RelayRefused,
              RelayApproved, hubVars, membership
<1>4. CASE WriteStep(r) \/ TimerStep(r)
  BY <1>4 DEF WriteStep, Deliver, WriteFails, TakeMessage, TimerStep, TimeoutFires, TimeoutDrops,
              TimeoutCancelled, hubVars, membership
<1> QED BY <1>1, <1>2, <1>3, <1>4 DEF Step, PumpStep

LEMMA StepInforms ==
  ASSUME ~DrawsMayCollide, RosterInv, ServerInv', Watch, NEW r \in Peers, Step(r)
  PROVE  Informed'
<1>t. ServerInv /\ TypeOK /\ MembershipAgrees /\ MembershipAgrees'
  BY DEF RosterInv, ServerInv, HubInv
<1> SUFFICES ASSUME NEW p \in Peers, NEW q \in Peers, p # q, Following(p)', roomCode'[q] = roomCode'[p]
             PROVE  Knows(p, q)' \/ Due(p, q)'
  BY DEF Informed
<1>1. CASE r = p
  BY <1>1, OwnStepInforms
<1>2. CASE r = q
  <2>1. UNCHANGED Own(p)
    BY <1>t, <1>2, Elsewhere
  <2>2. ~Unregister(q)
    BY <1>t DEF Unregister, UnregisterPeer, MembershipAgrees, Following
  <2>3. CASE Join(q)
    BY <1>2, <2>3, JoinTells
  <2>4. CASE ~Join(q)
    <3>1. roomCode'[q] = roomCode[q]
      BY <1>2, <2>2, <2>4, RoomKept
    <3>2. Grown(send[p], send'[p], q)
      BY <1>t, <1>2, <2>2, StepGrows
    <3> QED BY <2>1, <3>1, <3>2, Carried
  <2> QED BY <2>3, <2>4
<1>3. CASE r # p /\ r # q
  <2>1. UNCHANGED Own(p) /\ UNCHANGED Own(q)
    BY <1>t, <1>3, Elsewhere
  <2>2. Grown(send[p], send'[p], q)
    BY <1>t, <1>3, StepGrows
  <2> QED BY <2>1, <2>2, Carried DEF Own
<1> QED BY <1>1, <1>2, <1>3

LEMMA ReaperInforms ==
  ASSUME RosterInv, ServerInv', Watch, Reaper
  PROVE  Informed'
<1> SUFFICES ASSUME NEW p \in Peers, NEW q \in Peers, p # q, Following(p)', roomCode'[q] = roomCode'[p]
             PROVE  Knows(p, q)' \/ Due(p, q)'
  BY DEF Informed
<1>1. /\ Grown(send[p], send'[p], q) /\ UNCHANGED <<pump, writer, gone, roster, view>>
      /\ roomCode'[p] = roomCode[p] /\ roomCode'[q] = roomCode[q]
  BY ReaperGrows DEF RosterInv, Following
<1> QED BY <1>1, Carried DEF Own

(* Whoever follows its room knows each of its other members, or has it      *)
(* named by a message in its queue that no later one takes back, by the     *)
(* walk it is in or by the acknowledgement it holds.                        *)
LEMMA RosterInvariant ==
  ASSUME ~DrawsMayCollide
  PROVE  ServerSpec => []RosterInv
<1>1. ServerInit => Informed /\ Spacious
  BY DEF ServerInit, HubInit, Informed, Spacious, Following
<1>2. RosterInv /\ ServerInv' /\ [ServerNext]_serverVars => RosterInv'
  <2> SUFFICES ASSUME RosterInv, ServerInv', [ServerNext]_serverVars PROVE RosterInv'
    OBVIOUS
  <2>1. CASE UNCHANGED serverVars
    BY <2>1 DEF RosterInv, Informed, Spacious, Following, Knows, Due, At, serverVars, hubVars, pumps,
                wires, joining
  <2>2. ASSUME Watch, Reaper \/ \E r \in Peers : Step(r) PROVE RosterInv'
    <3>1. Informed'
      BY <2>2, StepInforms, ReaperInforms
    <3>2. Spacious'
      BY <2>2, StaysSpacious DEF ServerInv, HubInv
    <3> QED BY <3>1, <3>2 DEF RosterInv
  <2> QED BY <2>1, <2>2 DEF ServerNext, Runs
<1> QED BY <1>1, <1>2, ServerInvariant, PTL DEF ServerSpec, RosterInv

(* A client that has read all that was sent to it knows every other member  *)
(* of its room, for any number of connections and rooms and any capacity of *)
(* the queue: the walk without the lock and the late acknowledgement lose   *)
(* nobody, as long as the queue was never full.                             *)
THEOREM NobodyIsMissed ==
  ASSUME ~DrawsMayCollide
  PROVE  ServerSpec => []NobodyMissed
<1>1. RosterInv => NobodyMissed
  <2> SUFFICES ASSUME RosterInv, NEW p \in Peers, CaughtUp(p), NEW q \in members[roomCode[p]] \ {p}
               PROVE  q \in view[p]
    BY DEF NobodyMissed
  <2>1. TypeOK /\ MembershipAgrees
    BY DEF RosterInv, ServerInv, HubInv
  <2>2. roomCode[p] \in Codes /\ Following(p) /\ DOMAIN send[p] = {}
    <3>1. p \in Peers /\ send[p] = <<>> /\ DOMAIN <<>> = {}
      BY DEF CaughtUp
    <3>2. roomCode[p] \in Codes /\ Following(p)
      BY <2>1, <3>1 DEF TypeOK, CaughtUp, Following, At
    <3> QED BY <3>1, <3>2
  <2>3. q \in Peers /\ roomCode[q] = roomCode[p]
    BY <2>1, <2>2 DEF MembershipAgrees
  <2>4. Knows(p, q) \/ Due(p, q)
    BY <2>2, <2>3 DEF RosterInv, Informed
  <2> QED BY <2>2, <2>4 DEF Knows, Due, CaughtUp, At
<1> QED BY <1>1, RosterInvariant, PTL
=============================================================================
