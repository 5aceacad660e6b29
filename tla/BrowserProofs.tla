----------------------------- MODULE BrowserProofs ----------------------------
(***************************************************************************)
(* Theorems about SignalingClient, for any number of sockets and drops,    *)
(* and about Negotiation, for any number of browsers and ids.              *)
(***************************************************************************)
EXTENDS SignalingClient, Negotiation, SequenceTheorems, TLAPS

(* Until the client leaves, this.ws is the only socket in use, its onclose  *)
(* the only one to come, and the timer runs only without one; afterwards    *)
(* every onclose finds an explicit close.                                   *)
ClientInv ==
  /\ sock \in [Sockets -> {"unused", "connecting", "open", "ending"}]
  /\ ws \in Sockets \cup {NoSocket}
  /\ ~left => \A s \in Sockets : sock[s] # "unused" => ws = s
  /\ left => explicit
  /\ OneConnection /\ LeaveIsFinal

LEMMA ClientStarts == ASSUME ClientInit PROVE ClientInv
BY DEF ClientInit, ClientInv, OneConnection, LeaveIsFinal

LEMMA ClientGoesOn ==
  ASSUME ClientInv, [ClientNext]_clientVars PROVE ClientInv'
<1> USE SocketAssumption
<1>0. CASE UNCHANGED clientVars
  BY <1>0 DEF clientVars, client, net, ClientInv, OneConnection, LeaveIsFinal
<1>1. ASSUME NEW s \in Sockets, Reconnect(s) PROVE ClientInv'
  <2>1. ws = NoSocket /\ ~left /\ timer
    BY <1>1 DEF Reconnect, ClientInv, OneConnection, LeaveIsFinal
  <2>2. \A t \in Sockets : sock[t] = "unused"
    BY <2>1 DEF ClientInv
  <2>3. /\ ws' = s /\ ~timer' /\ left' = left
        /\ sock' = [Ended EXCEPT ![s] = "connecting"]
    BY <1>1 DEF Reconnect, Connect
  <2>4. Ended = [t \in Sockets |-> "unused"]
    BY <2>1, <2>2 DEF Ended
  <2>5. sock' = [[t \in Sockets |-> "unused"] EXCEPT ![s] = "connecting"]
    BY <2>3, <2>4
  <2> QED BY <2>1, <2>3, <2>5 DEF ClientInv, OneConnection, LeaveIsFinal
<1>2. ASSUME NEW s \in Sockets, OnOpen(s) PROVE ClientInv'
  <2>1. sock[s] = "connecting" /\ sock' = [sock EXCEPT ![s] = "open"] /\ ~timer'
        /\ UNCHANGED <<ws, lastRoom, explicit, left>>
    BY <1>2 DEF OnOpen
  <2> QED BY <2>1 DEF ClientInv, OneConnection, LeaveIsFinal
<1>3. ASSUME NEW s \in Sockets, OnMessage(s) PROVE ClientInv'
  <2>1. ~left
    BY <1>3 DEF OnMessage, ClientInv, LeaveIsFinal
  <2> QED BY <1>3, <2>1 DEF OnMessage, ClientInv, OneConnection, LeaveIsFinal
<1>4. ASSUME NEW s \in Sockets, OnClose(s) PROVE ClientInv'
  <2>1. sock[s] = "ending" /\ sock' = [sock EXCEPT ![s] = "unused"] /\ ws' = NoSocket
        /\ UNCHANGED <<lastRoom, explicit, left>>
    BY <1>4 DEF OnClose
  <2>2. CASE ~left
    <3>1. \A t \in Sockets : sock'[t] = "unused"
      BY <2>1, <2>2 DEF ClientInv
    <3> QED BY <2>1, <2>2, <3>1 DEF ClientInv, OneConnection, LeaveIsFinal
  <2>3. CASE left
    <3>1. explicit /\ ~timer
      BY <2>3 DEF ClientInv, LeaveIsFinal
    <3>2. ~timer'
      BY <1>4, <3>1 DEF OnClose
    <3> QED BY <2>1, <2>3, <3>1, <3>2 DEF ClientInv, OneConnection, LeaveIsFinal
  <2> QED BY <2>2, <2>3
<1>5. CASE ExplicitClose
  <2>1. ~left /\ left' /\ explicit' /\ ~lastRoom' /\ ~timer' /\ ws' = NoSocket
        /\ sock' = [s \in Sockets |-> IF s = ws THEN "ending" ELSE sock[s]]
    BY <1>5 DEF ExplicitClose, Ended
  <2>2. \A s \in Sockets : sock'[s] \in {"ending", "unused"}
    BY <2>1 DEF ClientInv
  <2>3. sock' \in [Sockets -> {"unused", "connecting", "open", "ending"}]
    BY <2>1, <2>2
  <2> QED BY <2>1, <2>2, <2>3 DEF ClientInv, OneConnection, LeaveIsFinal
<1>6. ASSUME NEW s \in Sockets, Lose(s) PROVE ClientInv'
  BY <1>6 DEF Lose, client, ClientInv, OneConnection, LeaveIsFinal
<1>7. ASSUME NEW s \in Sockets, ServerCloses(s) PROVE ClientInv'
  BY <1>7 DEF ServerCloses, client, ClientInv, OneConnection, LeaveIsFinal
<1>8. ASSUME NEW s \in Sockets, ServeJoin(s) \/ ServerNotices(s) PROVE ClientInv'
  BY <1>8 DEF ServeJoin, ServerNotices, client, ClientInv, OneConnection, LeaveIsFinal
<1>9. CASE OtherMoves
  BY <1>9 DEF OtherMoves, client, ClientInv, OneConnection, LeaveIsFinal
<1> QED BY <1>0, <1>1, <1>2, <1>3, <1>4, <1>5, <1>6, <1>7, <1>8, <1>9
       DEF ClientNext, SocketStep, ServerStep

(* The inductive invariant: a socket that this.ws does not name is ending or *)
(* gone, and a timer is set only without one.                               *)
THEOREM ClientInvariant == ClientSpec => []ClientInv
<1>1. ClientInit => ClientInv
  BY ClientStarts
<1>2. ClientInv /\ [ClientNext]_clientVars => ClientInv'
  BY ClientGoesOn
<1> QED BY <1>1, <1>2, PTL DEF ClientSpec

(* One connection at a time, whatever the network and the server do         *)
(* (SignalingClient's onclose, attemptReconnect and connect).               *)
THEOREM Single == ClientSpec => []OneConnection
<1>1. ClientInv => OneConnection
  BY DEF ClientInv
<1> QED BY <1>1, ClientInvariant, PTL

(* leave() is final, whatever callbacks were still to come (close()).       *)
THEOREM Final == ClientSpec => []LeaveIsFinal
<1>1. ClientInv => LeaveIsFinal
  BY DEF ClientInv
<1> QED BY <1>1, ClientInvariant, PTL

-----------------------------------------------------------------------------
(***************************************************************************)
(* Negotiation.                                                            *)
(***************************************************************************)
Note(t, j) == [type |-> t, from |-> j]
Places(i)  == 1 .. Len(inbox[i])

(* What a step does to the inbox of i: it takes the first message, or adds  *)
(* some behind the others.                                                  *)
Shifted(i) ==
  /\ 1 \in Places(i) /\ Len(inbox'[i]) = Len(inbox[i]) - 1
  /\ \A n \in 1 .. Len(inbox[i]) - 1 : inbox'[i][n] = inbox[i][n + 1]

Grown(i, k) ==
  /\ Len(inbox'[i]) = Len(inbox[i]) + k
  /\ \A n \in Places(i) : inbox'[i][n] = inbox[i][n]

Place(i, k) == inbox'[i][Len(inbox[i]) + k]

LEMMA InboxTyped ==
  ASSUME TypeOK, NEW i \in Ids
  PROVE  /\ inbox \in [Ids -> Seq(Messages)] /\ inbox[i] \in Seq(Messages) /\ Len(inbox[i]) \in Nat
         /\ \A n \in Places(i) : inbox[i][n] \in Messages
<1>1. inbox \in [Ids -> Seq(Messages)] /\ inbox[i] \in Seq(Messages)
  BY DEF TypeOK
<1> QED BY <1>1 DEF Places

LEMMA NoteTyped ==
  ASSUME NEW j \in Ids, NEW t \in {"peer-joined", "peer-left", "offer", "answer", "ice"}
  PROVE  Note(t, j) \in Messages
BY DEF Note, Messages

(* A handler's message.                                                     *)
LEMMA Received ==
  ASSUME TypeOK, NEW b \in Browsers, NEW t, Receive(b, t)
  PROVE  \E i \in Ids, m \in Messages :
           /\ id[b] = i /\ m = inbox[i][1] /\ m = Head(inbox[i]) /\ m.type = t
           /\ Shifted(i) /\ inbox' \in [Ids -> Seq(Messages)]
           /\ \A l \in Ids : l # i => inbox'[l] = inbox[l]
           /\ t = "joined" => m.peers \subseteq Ids
           /\ t # "joined" => From(b) \in Ids /\ m = Note(t, From(b))
<1>1. PICK i \in Ids : id[b] = i
  BY DEF Receive, TypeOK
<1>2. /\ inbox[i] # <<>> /\ Head(inbox[i]).type = t
      /\ inbox' = [inbox EXCEPT ![i] = Tail(@)]
  BY <1>1 DEF Receive
<1>3. inbox \in [Ids -> Seq(Messages)] /\ inbox[i] \in Seq(Messages) /\ Len(inbox[i]) \in Nat
  BY <1>1, InboxTyped
<1> PICK q \in Seq(Messages), k \in Nat : q = inbox[i] /\ k = Len(q)
  BY <1>3
<1>4. /\ k # 0 /\ Head(q) = q[1] /\ Head(q) \in Messages /\ Tail(q) \in Seq(Messages)
      /\ Len(Tail(q)) = k - 1 /\ \A n \in 1 .. k - 1 : Tail(q)[n] = q[n + 1]
  BY <1>2, HeadTailProperties
<1>5. inbox'[i] = Tail(q) /\ \A l \in Ids : l # i => inbox'[l] = inbox[l]
  BY <1>2, <1>3
<1>6. Shifted(i)
  BY <1>4, <1>5 DEF Shifted, Places
<1>7. inbox' \in [Ids -> Seq(Messages)]
  BY <1>2, <1>3, <1>4
<1>8. Head(q).type = "joined" => Head(q).peers \subseteq Ids
  BY <1>4 DEF Messages
<1>9. Head(q).type # "joined" => Head(q).from \in Ids /\ Head(q) = Note(Head(q).type, Head(q).from)
  BY <1>4 DEF Messages, Note
<1>10. From(b) = Head(q).from
  BY <1>1 DEF From
<1> QED BY <1>1, <1>2, <1>4, <1>5, <1>6, <1>7, <1>8, <1>9, <1>10

(* Offers and answers, with the candidate that follows them.                *)
LEMMA Sent ==
  ASSUME TypeOK, NEW b \in Browsers, NEW j \in Ids, NEW t \in {"offer", "answer"}, Send(b, j, t)
  PROVE  /\ inbox' \in [Ids -> Seq(Messages)]
         /\ \A l \in Ids : l # j => inbox'[l] = inbox[l]
         /\ ~(id[b] # None /\ j \in Members) => inbox' = inbox
         /\ id[b] # None /\ j \in Members =>
              id[b] \in Ids /\ Grown(j, 2) /\ Place(j, 1) = Note(t, id[b]) /\ Place(j, 2) = Note("ice", id[b])
<1>1. inbox \in [Ids -> Seq(Messages)] /\ inbox[j] \in Seq(Messages) /\ Len(inbox[j]) \in Nat
  BY InboxTyped
<1>2. CASE ~(id[b] # None /\ j \in Members)
  BY <1>1, <1>2 DEF Send
<1>3. CASE id[b] # None /\ j \in Members
  <2> PICK i \in Ids : i = id[b]
    BY <1>3 DEF TypeOK
  <2> PICK x \in Messages, y \in Messages : x = Note(t, i) /\ y = Note("ice", i)
    BY NoteTyped
  <2> PICK q \in Seq(Messages), k \in Nat : q = inbox[j] /\ k = Len(q)
    BY <1>1
  <2>1. inbox' = [inbox EXCEPT ![j] = q \o <<x, y>>]
    BY <1>3 DEF Send, Note
  <2>2. /\ q \o <<x, y>> \in Seq(Messages) /\ Len(q \o <<x, y>>) = k + 2
        /\ \A n \in 1 .. k : (q \o <<x, y>>)[n] = q[n]
        /\ (q \o <<x, y>>)[k + 1] = x /\ (q \o <<x, y>>)[k + 2] = y
    <3>1. <<x, y>> \in Seq(Messages) /\ Len(<<x, y>>) = 2 /\ <<x, y>>[1] = x /\ <<x, y>>[2] = y
      OBVIOUS
    <3> PICK r \in Seq(Messages) : r = <<x, y>>
      BY <3>1
    <3>2. /\ q \o r \in Seq(Messages) /\ Len(q \o r) = k + 2
          /\ \A n \in 1 .. k + 2 : (q \o r)[n] = IF n <= k THEN q[n] ELSE r[n - k]
      BY <3>1, ConcatProperties
    <3>3. (q \o r)[k + 1] = r[1] /\ (q \o r)[k + 2] = r[2]
      <4>1. k + 1 \in 1 .. k + 2 /\ ~(k + 1 <= k) /\ (k + 1) - k = 1
            /\ k + 2 \in 1 .. k + 2 /\ ~(k + 2 <= k) /\ (k + 2) - k = 2
        OBVIOUS
      <4> QED BY <3>2, <4>1
    <3>4. \A n \in 1 .. k : (q \o r)[n] = q[n]
      BY <3>2
    <3> QED BY <3>1, <3>2, <3>3, <3>4
  <2>3. inbox'[j] = q \o <<x, y>> /\ \A l \in Ids : l # j => inbox'[l] = inbox[l]
    BY <1>1, <2>1
  <2> QED BY <1>1, <1>3, <2>1, <2>2, <2>3 DEF Grown, Place, Places
<1> QED BY <1>2, <1>3

(* The notices of one who comes or goes.                                    *)
LEMMA Notified ==
  ASSUME TypeOK, NEW i \in Ids, NEW t \in {"peer-joined", "peer-left"}, Notify(i, t)
  PROVE  /\ inbox' \in [Ids -> Seq(Messages)] /\ raced' \in [Ids -> SUBSET Ids]
         /\ \A j \in Members : j # i => Grown(j, 1) /\ Place(j, 1) = Note(t, i)
         /\ \A j \in Ids : j \notin Members \ {i} => inbox'[j] = <<>>
         /\ \A j \in Ids : j # i => /\ raced[j] \subseteq raced'[j]
                                    /\ step[j] = "walked" => i \in raced'[j]
<1>1. inbox \in [Ids -> Seq(Messages)] /\ raced \in [Ids -> SUBSET Ids] /\ Note(t, i) \in Messages
  BY NoteTyped DEF TypeOK
<1>2. inbox' = [j \in Ids |-> IF j \in Members \ {i} THEN Append(inbox[j], Note(t, i)) ELSE <<>>]
  BY DEF Notify, Note
<1>3. ASSUME NEW j \in Ids
      PROVE  /\ Append(inbox[j], Note(t, i)) \in Seq(Messages) /\ Len(inbox[j]) \in Nat
             /\ Len(Append(inbox[j], Note(t, i))) = Len(inbox[j]) + 1
             /\ Append(inbox[j], Note(t, i))[Len(inbox[j]) + 1] = Note(t, i)
             /\ \A n \in 1 .. Len(inbox[j]) : Append(inbox[j], Note(t, i))[n] = inbox[j][n]
  <2>1. inbox[j] \in Seq(Messages)
    BY <1>1
  <2> QED BY <1>1, <2>1, AppendProperties
<1>4. inbox' \in [Ids -> Seq(Messages)]
  BY <1>2, <1>3, EmptySeq
<1>5. ASSUME NEW j \in Members, j # i PROVE Grown(j, 1) /\ Place(j, 1) = Note(t, i)
  <2>1. j \in Ids /\ inbox'[j] = Append(inbox[j], Note(t, i))
    BY <1>2, <1>5 DEF Members
  <2> QED BY <1>3, <2>1 DEF Grown, Place, Places
<1>6. \A j \in Ids : j \notin Members \ {i} => inbox'[j] = <<>>
  BY <1>2
<1>7. raced' = [j \in Ids |-> IF j = i THEN {} ELSE IF step[j] = "walked" THEN raced[j] \cup {i}
                                              ELSE raced[j]]
  BY DEF Notify
<1>8. raced' \in [Ids -> SUBSET Ids]
  BY <1>1, <1>7
<1>9. ASSUME NEW j \in Ids, j # i
      PROVE  /\ raced[j] \subseteq raced'[j]
             /\ step[j] = "walked" => i \in raced'[j]
  BY <1>1, <1>7, <1>9
<1> QED BY <1>4, <1>5, <1>6, <1>8, <1>9

(* What the inductive invariant says of ids: of one that is still free      *)
(* nothing is known anywhere; who has an id is a member; a browser that is  *)
(* told no selfId has replaced nothing since it left; only one who has gone *)
(* has left.                                                                *)
Sig(b, j)   == IF pc[b][j] = None THEN "none" ELSE pc[b][j].sig
Names(m, j) == IF m.type = "joined" THEN j \in m.peers ELSE m.from = j
Lists(m, j) == m.type = "joined" /\ j \in m.peers

NewIds ==
  \A j \in Ids : step[j] = "free" =>
    /\ j \notin again /\ \A b \in Browsers : pc[b][j] = None
    /\ \A i \in Ids : j \notin list[i] /\ \A n \in Places(i) : ~Names(inbox[i][n], j)

IdsInv ==
  /\ NewIds
  /\ \A b \in Browsers : /\ id[b] # None => id[b] \in Members
                         /\ self[b] = None => \A o \in old[b] : o.left
  /\ \A i, j \in Ids : \A n \in Places(i) : inbox[i][n] = Note("peer-left", j) => step[j] = "gone"

(* How the parts of a browser's state are written.                          *)
LEMMA ConnectionUpdates ==
  ASSUME NEW c \in Connections
  PROVE  /\ c # None /\ c.sig \in {"offering", "offered", "answering", "stable", "idle"}
         /\ \A s \in {"offering", "offered", "answering", "stable", "idle"} :
              [c EXCEPT !.sig = s] \in Connections /\ [c EXCEPT !.sig = s].sig = s
         /\ \A l \in {"new", "connected", "disconnected", "failed"} :
              [c EXCEPT !.link = l] \in Connections /\ [c EXCEPT !.link = l].sig = c.sig
         /\ [c EXCEPT !.got = TRUE] \in Connections /\ [c EXCEPT !.got = TRUE].sig = c.sig
         /\ [c EXCEPT !.open = TRUE] \in Connections /\ [c EXCEPT !.open = TRUE].sig = c.sig
<1>1. c # None
  BY IdAssumption
<1> QED BY <1>1 DEF Connections

LEMMA ReplacedUpdates ==
  ASSUME NEW o \in ReplacedConnections, NEW c \in Connections
  PROVE  /\ o.peer \in Ids /\ o.conn \in Connections /\ o.left \in BOOLEAN
         /\ [o EXCEPT !.conn = c] \in ReplacedConnections
         /\ [o EXCEPT !.conn = c].peer = o.peer /\ [o EXCEPT !.conn = c].left = o.left
         /\ [o EXCEPT !.left = TRUE] \in ReplacedConnections
         /\ [o EXCEPT !.left = TRUE].peer = o.peer /\ [o EXCEPT !.left = TRUE].left
BY DEF ReplacedConnections

(* A replaced connection is never forgotten.                                *)
Keeps(b)  == \A o \in old[b] : \E p \in old'[b] : p.peer = o.peer
Handed(b) == /\ Keeps(b)
             /\ \A p \in old'[b] : \E o \in old[b] : o.peer = p.peer /\ o.left = p.left

LEMMA StillReplaced ==
  ASSUME NEW b, NEW j, Keeps(b), Replaced(b, j)
  PROVE  Replaced(b, j)'
<1>1. \E p \in old'[b] : p.peer = j
  BY DEF Keeps, Replaced
<1> QED BY <1>1 DEF Replaced

LEMMA Unreplaced ==
  ASSUME NEW b, old'[b] = old[b]
  PROVE  Keeps(b) /\ Handed(b)
BY DEF Keeps, Handed

LEMMA ChannelsKept ==
  ASSUME TypeOK, \A a \in Browsers : Keeps(a),
         \A a \in Browsers, j \in Ids : pc[a][j] # None => pc'[a][j] # None,
         \A a \in Browsers : \A j \in channels'[a] : j \in channels[a] \/ pc'[a][j] # None \/ Replaced(a, j)
  PROVE  \A a \in Browsers : \A j \in channels'[a] : pc'[a][j] # None \/ Replaced(a, j)'
<1> SUFFICES ASSUME NEW a \in Browsers, NEW j \in channels'[a], pc'[a][j] = None PROVE Replaced(a, j)'
  OBVIOUS
<1>1. Replaced(a, j)
  <2>1. CASE j \in channels[a]
    <3>1. j \in Ids /\ (pc[a][j] # None \/ Replaced(a, j))
      BY <2>1 DEF TypeOK
    <3> QED BY <3>1
  <2> QED BY <2>1
<1> QED BY <1>1, StillReplaced

LEMMA Signed ==
  ASSUME NEW b \in Browsers, NEW j \in Ids, pc[b][j] \in Connections PROVE Sig(b, j) # "none"
<1>1. \A c \in Connections : c.sig # "none" /\ c # None
  BY IdAssumption DEF Connections
<1> QED BY <1>1 DEF Sig

LEMMA NewConnections ==
  ASSUME TypeOK, NEW b \in Browsers, id[b] # None
  PROVE  /\ NewConnection(b, TRUE) \in Connections /\ NewConnection(b, FALSE) \in Connections
         /\ NewConnection(b, TRUE) # None /\ NewConnection(b, FALSE) # None
         /\ NewConnection(b, TRUE).sig = "offering" /\ NewConnection(b, FALSE).sig = "answering"
<1>1. id[b] \in Ids
  BY DEF TypeOK
<1>2. NewConnection(b, TRUE) \in Connections /\ NewConnection(b, FALSE) \in Connections
  BY <1>1 DEF NewConnection, Connections
<1> QED BY <1>2, IdAssumption DEF NewConnection

LEMMA Updated ==
  ASSUME TypeOK, NEW b \in Browsers, NEW j \in Ids, NEW c \in Connections \cup {None}, Update(b, j, c)
  PROVE  /\ pc' \in [Browsers -> [Ids -> Connections \cup {None}]] /\ pc'[b][j] = c
         /\ \A l \in Ids : l # j => pc'[b][l] = pc[b][l]
         /\ \A a \in Browsers : a # b => pc'[a] = pc[a]
BY DEF Update, TypeOK

LEMMA Shows ==
  ASSUME TypeOK, NEW b \in Browsers, NEW j \in Ids,
         NEW st \in {"none", "connecting", "connected"}, Show(b, j, st)
  PROVE  /\ shown' \in [Browsers -> [Ids -> {"none", "connecting", "connected"}]]
         /\ shown'[b][j] = st /\ \A l \in Ids : l # j => shown'[b][l] = shown[b][l]
         /\ \A a \in Browsers : a # b => shown'[a] = shown[a]
BY DEF Show, TypeOK

LEMMA Fell ==
  ASSUME TypeOK, NEW b \in Browsers, NEW j \in Ids, Failed(b, j)
  PROVE  /\ relayMode' \in [Browsers -> SUBSET Ids]
         /\ j \in relayMode'[b] /\ relayMode[b] \subseteq relayMode'[b]
         /\ \A a \in Browsers : a # b => relayMode'[a] = relayMode[a]
         /\ shown' \in [Browsers -> [Ids -> {"none", "connecting", "connected"}]]
         /\ \A l \in Ids : l # j => shown'[b][l] = shown[b][l]
         /\ \A a \in Browsers : a # b => shown'[a] = shown[a]
<1>1. Show(b, j, "connected")
  BY DEF Failed
<1>2. /\ relayMode' \in [Browsers -> SUBSET Ids]
      /\ j \in relayMode'[b] /\ relayMode[b] \subseteq relayMode'[b]
      /\ \A a \in Browsers : a # b => relayMode'[a] = relayMode[a]
  BY DEF Failed, TypeOK
<1> QED BY <1>1, <1>2, Shows

LEMMA Initiated ==
  ASSUME TypeOK, NEW b \in Browsers, id[b] # None, NEW js \in SUBSET Ids, Initiate(b, js)
  PROVE  \E made \in SUBSET js :
         /\ pc' \in [Browsers -> [Ids -> Connections \cup {None}]]
         /\ \A j \in made : pc'[b][j] # None /\ pc'[b][j].sig = "offering"
         /\ \A j \in Ids \ made : pc'[b][j] = pc[b][j]
         /\ \A a \in Browsers : a # b => /\ pc'[a] = pc[a] /\ old'[a] = old[a]
                                      /\ channels'[a] = channels[a] /\ relayMode'[a] = relayMode[a]
         /\ old' \in [Browsers -> SUBSET ReplacedConnections]
         /\ \A o \in old'[b] : o \in old[b] \/ (o.peer \in made /\ pc[b][o.peer] # None)
         /\ \A a \in Browsers : Keeps(a)
         /\ channels' \in [Browsers -> SUBSET Ids] /\ relayMode' \in [Browsers -> SUBSET Ids]
         /\ \A a \in Browsers : \A j \in channels'[a] : pc'[a][j] # None \/ Replaced(a, j)'
         /\ relayMode[b] \subseteq relayMode'[b]
<1> PICK nc \in Connections : nc = NewConnection(b, TRUE) /\ nc # None /\ nc.sig = "offering"
  BY NewConnections
<1> PICK made \in SUBSET js :
      /\ pc' = [pc EXCEPT ![b] = [j \in Ids |-> IF j \in made THEN nc ELSE pc[b][j]]]
      /\ old' = [old EXCEPT ![b] = @ \cup
           {[peer |-> j, conn |-> pc[b][j], left |-> FALSE] : j \in {k \in made : pc[b][k] # None}}]
      /\ channels' = [channels EXCEPT ![b] = @ \cup made]
      /\ relayMode' = [relayMode EXCEPT ![b] = @ \cup (js \ made)]
  BY DEF Initiate
<1>1. pc \in [Browsers -> [Ids -> Connections \cup {None}]]
  BY DEF TypeOK
<1>2. made \subseteq Ids
  OBVIOUS
<1>3. /\ pc' \in [Browsers -> [Ids -> Connections \cup {None}]]
      /\ pc'[b] = [j \in Ids |-> IF j \in made THEN nc ELSE pc[b][j]]
      /\ \A a \in Browsers : a # b => pc'[a] = pc[a]
  BY <1>1
<1>4. /\ \A j \in made : pc'[b][j] # None /\ pc'[b][j].sig = "offering"
      /\ \A j \in Ids \ made : pc'[b][j] = pc[b][j]
  BY <1>2, <1>3
<1>5. PICK r : r = {[peer |-> j, conn |-> pc[b][j], left |-> FALSE] : j \in {k \in made : pc[b][k] # None}}
  OBVIOUS
<1>6. r \subseteq ReplacedConnections /\ \A o \in r : o.peer \in made /\ pc[b][o.peer] # None
  <2> SUFFICES ASSUME NEW o \in r
               PROVE  o \in ReplacedConnections /\ o.peer \in made /\ pc[b][o.peer] # None
    OBVIOUS
  <2>1. PICK j \in made : pc[b][j] # None /\ o = [peer |-> j, conn |-> pc[b][j], left |-> FALSE]
    BY <1>5
  <2>2. pc[b][j] \in Connections /\ j \in Ids
    BY <1>1, <1>2, <2>1
  <2> QED BY <2>1, <2>2 DEF ReplacedConnections
<1>7. old \in [Browsers -> SUBSET ReplacedConnections] /\ old' = [old EXCEPT ![b] = @ \cup r]
  BY <1>5 DEF TypeOK
<1>8. /\ old' \in [Browsers -> SUBSET ReplacedConnections] /\ old'[b] = old[b] \cup r
      /\ \A a \in Browsers : a # b => old'[a] = old[a]
  BY <1>6, <1>7
<1>9. /\ channels' \in [Browsers -> SUBSET Ids] /\ channels'[b] = channels[b] \cup made
      /\ \A a \in Browsers : a # b => channels'[a] = channels[a]
  BY <1>2 DEF TypeOK
<1>10. /\ relayMode' \in [Browsers -> SUBSET Ids] /\ relayMode[b] \subseteq relayMode'[b]
       /\ \A a \in Browsers : a # b => relayMode'[a] = relayMode[a]
  BY DEF TypeOK
<1>11. \A a \in Browsers : Keeps(a)
  BY <1>8 DEF Keeps
<1>12. \A a \in Browsers, j \in Ids : pc[a][j] # None => pc'[a][j] # None
  BY <1>3, <1>4
<1>13. \A a \in Browsers : \A j \in channels'[a] : j \in channels[a] \/ pc'[a][j] # None
  BY <1>4, <1>9
<1>14. \A a \in Browsers : \A j \in channels'[a] : pc'[a][j] # None \/ Replaced(a, j)'
  BY <1>11, <1>12, <1>13, ChannelsKept
<1>15. \A o \in old'[b] : o \in old[b] \/ (o.peer \in made /\ pc[b][o.peer] # None)
  BY <1>6, <1>8
<1>16. \A a \in Browsers : a # b => /\ pc'[a] = pc[a] /\ old'[a] = old[a]
                                   /\ channels'[a] = channels[a] /\ relayMode'[a] = relayMode[a]
  BY <1>3, <1>8, <1>9, <1>10
<1> QED BY <1>3, <1>4, <1>8, <1>9, <1>10, <1>11, <1>14, <1>15, <1>16

(* And of a browser b that came with nothing under its id i, of peers that  *)
(* did so too.  Towards one with a higher id it offers, towards one with a  *)
(* lower id it answers, and it replaces no connection to them.              *)
Sides(b, i) ==
  /\ \A j \in Ids \ again :
       \/ Sig(b, j) \in {"none", "idle"}
       \/ i < j /\ Sig(b, j) \in {"offering", "offered", "stable"}
       \/ j < i /\ Sig(b, j) \in {"answering", "stable"}
  /\ \A o \in old[b] : o.left \/ o.peer \in again

(* It has no selfId, and has offered nothing, until its one joined.         *)
Own(b, i) ==
  /\ self[b] \in {None, i}
  /\ self[b] = None => \A j \in Ids \ again : i < j => Sig(b, j) = "none"
  /\ step[i] \in {"registered", "walked"} =>
       self[b] = None /\ \A n \in Places(i) : inbox[i][n].type # "joined"
  /\ \A n \in Places(i) : inbox[i][n].type = "joined" =>
       self[b] = None /\ \A m \in Places(i) : inbox[i][m].type = "joined" => m = n

(* A peer is announced once, before a joined that lists it.                 *)
Noticed(b, i) ==
  \A j \in Ids \ again, n \in Places(i) : inbox[i][n] = Note("peer-joined", j) =>
    /\ self[b] # None /\ i < j => Sig(b, j) = "none"
    /\ \A m \in Places(i) : /\ inbox[i][m] = Note("peer-joined", j) => m = n
                            /\ Lists(inbox[i][m], j) => n < m

(* Its messages fit, wherever in the inbox they are; a candidate does not   *)
(* when an error has sent the peer over the relay.                          *)
Mail(b, i) ==
  \A j \in Ids \ again, n \in Places(i) :
    /\ inbox[i][n] = Note("offer", j) =>
         j < i /\ Sig(b, j) = "none" /\ \A m \in Places(i) : inbox[i][m] = Note("offer", j) => m = n
    /\ inbox[i][n] = Note("answer", j) =>
         /\ i < j /\ Sig(b, j) = "offered"
         /\ \A m \in Places(i) : /\ inbox[i][m] = Note("answer", j) => m = n
                                 /\ inbox[i][m] = Note("peer-left", j) => n < m
    /\ inbox[i][n] = Note("ice", j) =>
         IF n = 1 THEN Sig(b, j) \in {"answering", "stable"} \/ j \in relayMode[b]
                  ELSE inbox[i][n - 1] \in {Note("offer", j), Note("answer", j)}

(* Who is shown, listed or announced is there; or the news that it has gone *)
(* is on its way, behind what names it; or was missed.  A replaced          *)
(* connection may show anybody.                                             *)
Heard(i, n, j) ==
  \/ j \in Members \cup raced[i]
  \/ \E m \in Places(i) : n < m /\ inbox[i][m] = Note("peer-left", j)

News(b, i) ==
  \A j \in Ids \ again :
    /\ Sig(b, j) # "none" => Heard(i, 0, j)
    /\ shown[b][j] # "none" => Heard(i, 0, j) \/ Replaced(b, j)
    /\ step[i] = "walked" /\ j \in list[i] => j \in Members \cup raced[i]
    /\ \A n \in Places(i) :
         inbox[i][n] \in {Note("peer-joined", j), Note("offer", j)} \/ Lists(inbox[i][n], j)
           => Heard(i, n, j)

New(b, i)   == id[b] = i /\ i \notin again
Whole(b, i) == Sides(b, i) /\ Own(b, i) /\ Noticed(b, i) /\ Mail(b, i) /\ News(b, i)
OneInv      == \A b \in Browsers, i \in Ids : New(b, i) => Whole(b, i)

(* Of two of them, b with the lower id: an offer of b, on its way or being  *)
(* answered, finds b waiting for the answer.                                *)
Queued(i, m) == \E n \in Places(i) : inbox[i][n] = m

Pair(b, i, c, j) ==
  /\ Sig(b, j) \in {"none", "offering", "idle"} => Sig(c, i) = "none" /\ ~Queued(j, Note("offer", i))
  /\ Sig(c, i) = "answering" \/ Queued(j, Note("offer", i)) =>
       Sig(b, j) = "offered" /\ ~Queued(i, Note("answer", j))

PairInv == \A b, c \in Browsers, i, j \in Ids : New(b, i) /\ New(c, j) /\ i < j => Pair(b, i, c, j)

NegotiationInv == TypeOK /\ IdsInv /\ OneInv /\ PairInv

-----------------------------------------------------------------------------
(* What the handler of a message does, for any browser, and for a new one.  *)
Others(b) ==
  \A a \in Browsers : a # b => /\ pc'[a] = pc[a] /\ old'[a] = old[a]
                               /\ self'[a] = self[a] /\ shown'[a] = shown[a]
                               /\ relayMode'[a] = relayMode[a]

Handled(b, i) ==
  /\ id[b] = i /\ Shifted(i) /\ \A l \in Ids : l # i => inbox'[l] = inbox[l]
  /\ UNCHANGED <<step, list, raced, id, again>>
  /\ Others(b)
  /\ \A j \in Ids : pc[b][j] = None /\ ~Names(inbox[i][1], j) => pc'[b][j] = None
  /\ self'[b] = None => self[b] = None /\ old'[b] \subseteq old[b]

Initiates(b, i, j) ==
  i < j /\ (Lists(inbox[i][1], j) \/ (inbox[i][1] = Note("peer-joined", j) /\ self[b] # None))

\* a message that has no effect on the connection, for an error
Moved(b, i, j) ==
  \/ Sig(b, j)' = IF Initiates(b, i, j) THEN "offering"
                  ELSE IF inbox[i][1] = Note("offer", j) THEN "answering"
                  ELSE IF inbox[i][1] = Note("answer", j) THEN "stable"
                  ELSE IF inbox[i][1] = Note("peer-left", j) THEN "none" ELSE Sig(b, j)
  \/ /\ Sig(b, j)' = Sig(b, j) /\ inbox[i][1] # Note("peer-left", j)
     /\ inbox[i][1] \in {Note("offer", j), Note("answer", j)} => j \in relayMode'[b]

Moves(b, i) ==
  /\ self'[b] = IF inbox[i][1].type = "joined" THEN i ELSE self[b]
  /\ \A o \in old'[b] : o.left \/ o.peer \in again
  /\ Keeps(b) /\ relayMode[b] \subseteq relayMode'[b]
  /\ \A j \in Ids \ again :
       /\ Moved(b, i, j)
       /\ shown'[b][j] # "none" => /\ inbox[i][1] # Note("peer-left", j)
                                   /\ \/ Sig(b, j) # "none" \/ shown[b][j] # "none"
                                      \/ inbox[i][1] \in {Note("peer-joined", j), Note("offer", j)}
                                      \/ Lists(inbox[i][1], j)

LEMMA JoinedMoves ==
  ASSUME TypeOK, NEW b \in Browsers, OnJoined(b)
  PROVE  /\ TypeOK'
         /\ \E i \in Ids : Handled(b, i) /\ (i \notin again /\ Whole(b, i) => Moves(b, i))
<1>1. Receive(b, "joined")
  BY DEF OnJoined
<1>2. PICK i \in Ids, m \in Messages :
        /\ id[b] = i /\ m = inbox[i][1] /\ m = Head(inbox[i]) /\ m.type = "joined"
        /\ Shifted(i) /\ inbox' \in [Ids -> Seq(Messages)]
        /\ \A l \in Ids : l # i => inbox'[l] = inbox[l]
        /\ m.peers \subseteq Ids
  BY <1>1, Received
<1> PICK js \in SUBSET Ids : js = {j \in m.peers : i < j}
  BY <1>2
<1>3. /\ self' = [self EXCEPT ![b] = i] /\ Initiate(b, js)
      /\ shown' = [shown EXCEPT ![b] = [j \in Ids |-> IF j \in m.peers THEN "connecting" ELSE shown[b][j]]]
      /\ UNCHANGED <<step, list, raced, id, again>>
  BY <1>2 DEF OnJoined
<1>4. id[b] # None
  BY <1>1 DEF Receive
<1>5. PICK made \in SUBSET js :
      /\ pc' \in [Browsers -> [Ids -> Connections \cup {None}]]
      /\ \A j \in made : pc'[b][j] # None /\ pc'[b][j].sig = "offering"
      /\ \A j \in Ids \ made : pc'[b][j] = pc[b][j]
      /\ \A a \in Browsers : a # b => /\ pc'[a] = pc[a] /\ old'[a] = old[a]
                                   /\ channels'[a] = channels[a] /\ relayMode'[a] = relayMode[a]
      /\ old' \in [Browsers -> SUBSET ReplacedConnections]
      /\ \A o \in old'[b] : o \in old[b] \/ (o.peer \in made /\ pc[b][o.peer] # None)
      /\ \A a \in Browsers : Keeps(a)
      /\ channels' \in [Browsers -> SUBSET Ids] /\ relayMode' \in [Browsers -> SUBSET Ids]
      /\ \A a \in Browsers : \A j \in channels'[a] : pc'[a][j] # None \/ Replaced(a, j)'
      /\ relayMode[b] \subseteq relayMode'[b]
  BY <1>3, <1>4, Initiated
<1>6. /\ self' \in [Browsers -> Ids \cup {None}] /\ self'[b] = i
      /\ \A a \in Browsers : a # b => self'[a] = self[a]
  BY <1>3 DEF TypeOK
<1>7. /\ shown' \in [Browsers -> [Ids -> {"none", "connecting", "connected"}]]
      /\ \A j \in Ids \ m.peers : shown'[b][j] = shown[b][j]
      /\ \A a \in Browsers : a # b => shown'[a] = shown[a]
  BY <1>3 DEF TypeOK
<1>9. TypeOK'
  BY <1>2, <1>3, <1>5, <1>6, <1>7 DEF TypeOK
<1>10. Handled(b, i)
  <2>1. \A j \in Ids : pc[b][j] = None /\ ~Names(m, j) => pc'[b][j] = None
    BY <1>2, <1>5 DEF Names
  <2>2. self'[b] # None
    BY <1>6, IdAssumption
  <2>3. Others(b)
    BY <1>5, <1>6, <1>7 DEF Others
  <2> QED BY <1>2, <1>3, <2>1, <2>2, <2>3 DEF Handled
<1>11. ASSUME i \notin again, Whole(b, i) PROVE Moves(b, i)
  <2>1. 1 \in Places(i)
    BY <1>2 DEF Shifted
  <2>2. self[b] = None /\ \A j \in Ids \ again : i < j => Sig(b, j) = "none"
    BY <1>2, <1>11, <2>1 DEF Whole, Own
  <2>3. \A o \in old'[b] : o.left \/ o.peer \in again
    <3> SUFFICES ASSUME NEW o \in old'[b], o \notin old[b] PROVE o.peer \in again
      BY <1>11 DEF Whole, Sides
    <3>1. o.peer \in js /\ pc[b][o.peer] # None
      BY <1>5
    <3>2. pc[b][o.peer] \in Connections
      BY <3>1 DEF TypeOK
    <3>3. Sig(b, o.peer) # "none"
      BY <3>1, <3>2, Signed
    <3> QED BY <2>2, <3>1, <3>3
  <2>4. ASSUME NEW j \in Ids
        PROVE  /\ ~\E t \in {"peer-joined", "peer-left", "offer", "answer"} : m = Note(t, j)
               /\ Initiates(b, i, j) <=> j \in js
    BY <1>2 DEF Note, Initiates, Lists
  <2>5. \A j \in Ids : Sig(b, j)' = (IF j \in js THEN "offering" ELSE Sig(b, j)) \/ Sig(b, j)' = Sig(b, j)
    BY <1>5 DEF Sig
  <2>6. \A j \in Ids : shown'[b][j] # "none" => shown[b][j] # "none" \/ Lists(m, j)
    BY <1>2, <1>7 DEF Lists
  <2>7. \A j \in Ids : Moved(b, i, j)
    BY <1>2, <2>4, <2>5 DEF Moved
  <2>8. /\ self'[b] = IF m.type = "joined" THEN i ELSE self[b]
        /\ Keeps(b) /\ relayMode[b] \subseteq relayMode'[b]
    BY <1>2, <1>5, <1>6
  <2> QED BY <1>2, <2>3, <2>4, <2>6, <2>7, <2>8 DEF Moves
<1> QED BY <1>9, <1>10, <1>11

LEMMA PeerJoinedMoves ==
  ASSUME TypeOK, IdsInv, NEW b \in Browsers, OnPeerJoined(b)
  PROVE  /\ TypeOK'
         /\ \E i \in Ids : Handled(b, i) /\ (i \notin again /\ Whole(b, i) => Moves(b, i))
<1>1. Receive(b, "peer-joined")
  BY DEF OnPeerJoined
<1>2. PICK i \in Ids, m \in Messages :
        /\ id[b] = i /\ m = inbox[i][1] /\ m.type = "peer-joined"
        /\ Shifted(i) /\ inbox' \in [Ids -> Seq(Messages)]
        /\ \A l \in Ids : l # i => inbox'[l] = inbox[l]
        /\ From(b) \in Ids /\ m = Note("peer-joined", From(b))
  BY <1>1, Received
<1> PICK k \in Ids : k = From(b)
  BY <1>2
<1> PICK js \in SUBSET Ids : js = {j \in {k} : self[b] # None /\ self[b] < j}
  OBVIOUS
<1>3. /\ Initiate(b, js) /\ Show(b, k, "connecting")
      /\ UNCHANGED <<step, list, raced, id, self, again>>
  BY DEF OnPeerJoined
<1>4. id[b] # None
  BY <1>1 DEF Receive
<1>5. PICK made \in SUBSET js :
      /\ pc' \in [Browsers -> [Ids -> Connections \cup {None}]]
      /\ \A j \in made : pc'[b][j] # None /\ pc'[b][j].sig = "offering"
      /\ \A j \in Ids \ made : pc'[b][j] = pc[b][j]
      /\ \A a \in Browsers : a # b => /\ pc'[a] = pc[a] /\ old'[a] = old[a]
                                   /\ channels'[a] = channels[a] /\ relayMode'[a] = relayMode[a]
      /\ old' \in [Browsers -> SUBSET ReplacedConnections]
      /\ \A o \in old'[b] : o \in old[b] \/ (o.peer \in made /\ pc[b][o.peer] # None)
      /\ \A a \in Browsers : Keeps(a)
      /\ channels' \in [Browsers -> SUBSET Ids] /\ relayMode' \in [Browsers -> SUBSET Ids]
      /\ \A a \in Browsers : \A j \in channels'[a] : pc'[a][j] # None \/ Replaced(a, j)'
      /\ relayMode[b] \subseteq relayMode'[b]
  BY <1>3, <1>4, Initiated
<1>6. /\ shown' \in [Browsers -> [Ids -> {"none", "connecting", "connected"}]]
      /\ shown'[b][k] = "connecting" /\ \A l \in Ids : l # k => shown'[b][l] = shown[b][l]
      /\ \A a \in Browsers : a # b => shown'[a] = shown[a]
  BY <1>3, Shows
<1>8. TypeOK'
  BY <1>2, <1>3, <1>5, <1>6 DEF TypeOK
<1>9. Handled(b, i)
  <2>1. \A j \in Ids : pc[b][j] = None /\ ~Names(m, j) => pc'[b][j] = None
    <3>1. Names(m, k)
      BY <1>2 DEF Names, Note
    <3>2. made \subseteq {k}
      OBVIOUS
    <3> QED BY <1>5, <3>1, <3>2
  <2>2. Others(b)
    BY <1>3, <1>5, <1>6 DEF Others
  <2>3. self'[b] = None => self[b] = None /\ old'[b] \subseteq old[b]
    <3>1. self[b] = None => js = {}
      OBVIOUS
    <3> QED BY <1>3, <1>5, <3>1
  <2> QED BY <1>2, <1>3, <2>1, <2>2, <2>3 DEF Handled
<1>10. ASSUME i \notin again, Whole(b, i) PROVE Moves(b, i)
  <2>1. 1 \in Places(i)
    BY <1>2 DEF Shifted
  <2>2. self[b] \in {None, i} /\ i # None
    BY <1>10, IdAssumption DEF Whole, Own
  <2>3. k \notin again /\ k \in js => Sig(b, k) = "none"
    <3> SUFFICES ASSUME k \notin again, k \in js PROVE Sig(b, k) = "none"
      OBVIOUS
    <3>1. self[b] # None /\ i < k
      BY <2>2
    <3> QED BY <1>2, <1>10, <2>1, <3>1 DEF Whole, Noticed
  <2>4. \A o \in old'[b] : o.left \/ o.peer \in again
    <3> SUFFICES ASSUME NEW o \in old'[b], o \notin old[b] PROVE o.peer \in again
      BY <1>10 DEF Whole, Sides
    <3>1. o.peer \in js /\ o.peer = k /\ pc[b][k] # None
      BY <1>5
    <3>2. pc[b][k] \in Connections
      BY <3>1 DEF TypeOK
    <3>3. Sig(b, k) # "none"
      BY <3>2, Signed
    <3> QED BY <2>3, <3>1, <3>3
  <2>5. ASSUME NEW j \in Ids
        PROVE  /\ ~\E t \in {"peer-left", "offer", "answer"} : m = Note(t, j)
               /\ m = Note("peer-joined", j) <=> j = k
               /\ Initiates(b, i, j) <=> j \in js
    <3>1. /\ ~\E t \in {"peer-left", "offer", "answer"} : m = Note(t, j)
          /\ m = Note("peer-joined", j) <=> j = k
          /\ ~Lists(m, j)
      BY <1>2 DEF Note, Lists
    <3>2. Initiates(b, i, j) <=> i < j /\ j = k /\ self[b] # None
      BY <1>2, <3>1 DEF Initiates
    <3>3. j \in js <=> j = k /\ self[b] # None /\ i < j
      BY <2>2
    <3> QED BY <3>1, <3>2, <3>3
  <2>6. \A j \in Ids : Sig(b, j)' = (IF j \in js THEN "offering" ELSE Sig(b, j)) \/ Sig(b, j)' = Sig(b, j)
    BY <1>5 DEF Sig
  <2>7. self'[b] = IF m.type = "joined" THEN i ELSE self[b]
    BY <1>2, <1>3
  <2>8. \A j \in Ids : Moved(b, i, j)
    BY <1>2, <2>5, <2>6 DEF Moved
  <2>9. Keeps(b) /\ relayMode[b] \subseteq relayMode'[b]
    BY <1>5
  <2> QED BY <1>2, <1>6, <2>4, <2>5, <2>7, <2>8, <2>9 DEF Moves
<1> QED BY <1>8, <1>9, <1>10

LEMMA PeerLeftMoves ==
  ASSUME TypeOK, NEW b \in Browsers, OnPeerLeft(b)
  PROVE  /\ TypeOK'
         /\ \E i \in Ids : Handled(b, i) /\ (i \notin again /\ Whole(b, i) => Moves(b, i))
<1>1. Receive(b, "peer-left")
  BY DEF OnPeerLeft
<1>2. PICK i \in Ids, m \in Messages :
        /\ id[b] = i /\ m = inbox[i][1] /\ m.type = "peer-left"
        /\ Shifted(i) /\ inbox' \in [Ids -> Seq(Messages)]
        /\ \A l \in Ids : l # i => inbox'[l] = inbox[l]
        /\ From(b) \in Ids /\ m = Note("peer-left", From(b))
  BY <1>1, Received
<1> PICK k \in Ids : k = From(b)
  BY <1>2
<1>3. /\ Update(b, k, None) /\ Show(b, k, "none") /\ channels' = [channels EXCEPT ![b] = @ \ {k}]
      /\ UNCHANGED <<step, list, raced, id, self, old, relayMode, again>>
  BY DEF OnPeerLeft
<1>4. /\ pc' \in [Browsers -> [Ids -> Connections \cup {None}]] /\ pc'[b][k] = None
      /\ \A l \in Ids : l # k => pc'[b][l] = pc[b][l]
      /\ \A a \in Browsers : a # b => pc'[a] = pc[a]
  BY <1>3, Updated
<1>5. /\ shown' \in [Browsers -> [Ids -> {"none", "connecting", "connected"}]]
      /\ shown'[b][k] = "none" /\ \A l \in Ids : l # k => shown'[b][l] = shown[b][l]
      /\ \A a \in Browsers : a # b => shown'[a] = shown[a]
  BY <1>3, Shows
<1>6. /\ channels' \in [Browsers -> SUBSET Ids] /\ channels'[b] = channels[b] \ {k}
      /\ \A a \in Browsers : a # b => channels'[a] = channels[a]
  BY <1>3 DEF TypeOK
<1>7. \A a \in Browsers : \A j \in channels'[a] : pc'[a][j] # None \/ Replaced(a, j)'
  <2> SUFFICES ASSUME NEW a \in Browsers, NEW j \in channels'[a], pc'[a][j] = None PROVE Replaced(a, j)'
    OBVIOUS
  <2>1. j \in Ids /\ j \in channels[a] /\ (pc[a][j] # None \/ Replaced(a, j))
    BY <1>6 DEF TypeOK
  <2>2. Replaced(a, j)
    BY <1>4, <1>6, <2>1
  <2> QED BY <1>3, <2>2, Unreplaced, StillReplaced
<1>8. TypeOK'
  BY <1>2, <1>3, <1>4, <1>5, <1>6, <1>7 DEF TypeOK
<1>9. Handled(b, i)
  <2>1. \A j \in Ids : pc[b][j] = None => pc'[b][j] = None
    BY <1>4
  <2>2. Others(b)
    BY <1>3, <1>4, <1>5 DEF Others
  <2> QED BY <1>2, <1>3, <2>1, <2>2 DEF Handled
<1>10. ASSUME i \notin again, Whole(b, i) PROVE Moves(b, i)
  <2>1. \A o \in old'[b] : o.left \/ o.peer \in again
    BY <1>3, <1>10 DEF Whole, Sides
  <2>2. ASSUME NEW j \in Ids
        PROVE  /\ ~\E t \in {"peer-joined", "offer", "answer"} : m = Note(t, j)
               /\ m = Note("peer-left", j) <=> j = k
               /\ ~Lists(m, j)
    BY <1>2 DEF Note, Lists
  <2>3. \A j \in Ids : Sig(b, j)' = IF j = k THEN "none" ELSE Sig(b, j)
    BY <1>4 DEF Sig
  <2>4. self'[b] = IF m.type = "joined" THEN i ELSE self[b]
    BY <1>2, <1>3
  <2>5. \A j \in Ids : Moved(b, i, j)
    BY <1>2, <2>2, <2>3 DEF Moved, Initiates
  <2>6. Keeps(b) /\ relayMode[b] \subseteq relayMode'[b]
    BY <1>3, Unreplaced
  <2> QED BY <1>2, <1>5, <2>1, <2>2, <2>4, <2>5, <2>6 DEF Moves
<1> QED BY <1>8, <1>9, <1>10

(* A signal of k reached the connection to k, or failed.                    *)
LEMMA Signalled ==
  ASSUME TypeOK, NEW b \in Browsers, NEW i \in Ids, NEW k \in Ids, NEW t \in {"offer", "answer", "ice"},
         id[b] = i, inbox[i][1] = Note(t, k), Shifted(i), inbox' \in [Ids -> Seq(Messages)],
         \A l \in Ids : l # i => inbox'[l] = inbox[l],
         UNCHANGED <<step, list, raced, id, self, old, again, channels>>,
         \/ UNCHANGED pc
         \/ \E c \in Connections : Update(b, k, c),
         UNCHANGED <<relayMode, shown>> \/ Failed(b, k)
  PROVE  /\ TypeOK' /\ Handled(b, i)
         /\ /\ Whole(b, i)
            /\ shown'[b][k] # "none" => shown[b][k] # "none" \/ Sig(b, k) # "none" \/ t = "offer"
            /\ \/ Sig(b, k)' = IF t = "offer" THEN "answering" ELSE IF t = "answer" THEN "stable" ELSE Sig(b, k)
               \/ Sig(b, k)' = Sig(b, k) /\ k \in relayMode'[b]
            => Moves(b, i)
         /\ Whole(b, i) /\ k \in again => Moves(b, i)
<1>1. /\ pc' \in [Browsers -> [Ids -> Connections \cup {None}]]
      /\ \A l \in Ids : l # k => pc'[b][l] = pc[b][l]
      /\ \A a \in Browsers : a # b => pc'[a] = pc[a]
      /\ pc[b][k] # None => pc'[b][k] # None
  <2>1. CASE UNCHANGED pc
    BY <2>1 DEF TypeOK
  <2>2. CASE \E c \in Connections : Update(b, k, c)
    <3> PICK c \in Connections : Update(b, k, c)
      BY <2>2
    <3>1. c \in Connections \cup {None} /\ c # None
      BY ConnectionUpdates
    <3> QED BY <3>1, Updated
  <2> QED BY <2>1, <2>2
<1>2. /\ shown' \in [Browsers -> [Ids -> {"none", "connecting", "connected"}]]
      /\ relayMode' \in [Browsers -> SUBSET Ids]
      /\ relayMode[b] \subseteq relayMode'[b]
      /\ \A l \in Ids : l # k => shown'[b][l] = shown[b][l]
      /\ \A a \in Browsers : a # b => shown'[a] = shown[a] /\ relayMode'[a] = relayMode[a]
  <2>1. CASE UNCHANGED <<relayMode, shown>>
    BY <2>1 DEF TypeOK
  <2>2. CASE Failed(b, k)
    BY <2>2, Fell
  <2> QED BY <2>1, <2>2
<1>3. \A a \in Browsers : \A j \in channels'[a] : pc'[a][j] # None \/ Replaced(a, j)'
  <2>1. \A a \in Browsers, j \in Ids : pc[a][j] # None => pc'[a][j] # None
    BY <1>1
  <2> QED BY <2>1, Unreplaced, ChannelsKept
<1>4. TypeOK'
  BY <1>1, <1>2, <1>3 DEF TypeOK
<1>5. inbox[i][1].type = t
  BY DEF Note
<1>6. ASSUME NEW j \in Ids
      PROVE  /\ \A u \in {"peer-joined", "peer-left", "offer", "answer"} :
                  inbox[i][1] = Note(u, j) <=> j = k /\ t = u
             /\ ~Lists(inbox[i][1], j) /\ ~Initiates(b, i, j)
             /\ Names(inbox[i][1], j) <=> j = k
  BY DEF Note, Lists, Initiates, Names
<1>7. Handled(b, i)
  <2>1. \A j \in Ids : pc[b][j] = None /\ ~Names(inbox[i][1], j) => pc'[b][j] = None
    BY <1>1, <1>6
  <2>2. Others(b)
    BY <1>1, <1>2 DEF Others
  <2> QED BY <2>1, <2>2 DEF Handled
<1>8. ASSUME Whole(b, i)
      PROVE  /\ self'[b] = IF inbox[i][1].type = "joined" THEN i ELSE self[b]
             /\ \A o \in old'[b] : o.left \/ o.peer \in again
             /\ Keeps(b) /\ relayMode[b] \subseteq relayMode'[b]
             /\ \A j \in Ids : j # k => Sig(b, j)' = Sig(b, j) /\ shown'[b][j] = shown[b][j]
  BY <1>1, <1>2, <1>5, <1>8, Unreplaced DEF Whole, Sides, Sig
<1>9. ASSUME NEW j \in Ids, j # k, Whole(b, i) PROVE Moved(b, i, j)
  BY <1>6, <1>8, <1>9 DEF Moved
<1>10. ASSUME Whole(b, i),
              shown'[b][k] # "none" => shown[b][k] # "none" \/ Sig(b, k) # "none" \/ t = "offer",
              \/ Sig(b, k)' = IF t = "offer" THEN "answering" ELSE IF t = "answer" THEN "stable" ELSE Sig(b, k)
              \/ Sig(b, k)' = Sig(b, k) /\ k \in relayMode'[b]
       PROVE  Moves(b, i)
  <2>1. Moved(b, i, k)
    BY <1>6, <1>10 DEF Moved
  <2>2. \A j \in Ids : Moved(b, i, j)
    BY <1>9, <1>10, <2>1
  <2> QED BY <1>6, <1>8, <1>10, <2>2 DEF Moves
<1>11. ASSUME Whole(b, i), k \in again PROVE Moves(b, i)
  <2>1. \A j \in Ids \ again : j # k /\ Moved(b, i, j)
    BY <1>9, <1>11
  <2> QED BY <1>6, <1>8, <1>11, <2>1 DEF Moves
<1> QED BY <1>4, <1>7, <1>10, <1>11

LEMMA OfferMoves ==
  ASSUME TypeOK, NEW b \in Browsers, OnOffer(b)
  PROVE  /\ TypeOK'
         /\ \E i \in Ids : Handled(b, i) /\ (i \notin again /\ Whole(b, i) => Moves(b, i))
<1>1. Receive(b, "offer")
  BY DEF OnOffer
<1>2. PICK i \in Ids, m \in Messages :
        /\ id[b] = i /\ m = inbox[i][1]
        /\ Shifted(i) /\ inbox' \in [Ids -> Seq(Messages)]
        /\ \A l \in Ids : l # i => inbox'[l] = inbox[l]
        /\ From(b) \in Ids /\ m = Note("offer", From(b))
  BY <1>1, Received
<1> PICK k \in Ids : k = From(b)
  BY <1>2
<1>3. /\ \/ /\ Update(b, k, IF pc[b][k] = None THEN NewConnection(b, FALSE)
                            ELSE [pc[b][k] EXCEPT !.sig = "answering"])
            /\ UNCHANGED <<channels, relayMode, shown>>
         \/ Failed(b, k) /\ UNCHANGED <<pc, channels>>
      /\ UNCHANGED <<step, list, raced, id, self, old, again>>
  BY DEF OnOffer, page
<1> PICK c \in Connections :
      /\ c = IF pc[b][k] = None THEN NewConnection(b, FALSE) ELSE [pc[b][k] EXCEPT !.sig = "answering"]
      /\ c # None /\ c.sig = "answering"
  <2>1. CASE pc[b][k] = None
    BY <1>1, <2>1, NewConnections DEF Receive
  <2>2. CASE pc[b][k] # None
    <3>1. pc[b][k] \in Connections
      BY <2>2 DEF TypeOK
    <3> QED BY <2>2, <3>1, ConnectionUpdates
  <2> QED BY <2>1, <2>2
<1>4. /\ UNCHANGED pc \/ \E d \in Connections : Update(b, k, d)
      /\ UNCHANGED <<relayMode, shown>> \/ Failed(b, k)
      /\ UNCHANGED channels
  BY <1>3
<1>5. /\ TypeOK' /\ Handled(b, i)
      /\ Whole(b, i) /\ (Sig(b, k)' = "answering" \/ (Sig(b, k)' = Sig(b, k) /\ k \in relayMode'[b]))
           => Moves(b, i)
      /\ Whole(b, i) /\ k \in again => Moves(b, i)
  <2> PICK t \in {"offer", "answer", "ice"} : t = "offer"
    OBVIOUS
  <2> QED BY <1>2, <1>3, <1>4, Signalled
<1>6. ASSUME i \notin again, Whole(b, i), k \notin again PROVE Moves(b, i)
  <2>1. 1 \in Places(i)
    BY <1>2 DEF Shifted
  <2>2. Sig(b, k) = "none"
    BY <1>2, <1>6, <2>1 DEF Whole, Mail
  <2>3. pc[b][k] = None
    <3>1. pc[b][k] \in Connections => Sig(b, k) # "none"
      BY Signed
    <3> QED BY <2>2, <3>1 DEF TypeOK
  <2>4. CASE Update(b, k, c)
    <3>1. c \in Connections \cup {None}
      OBVIOUS
    <3>2. pc'[b][k] = c
      BY <2>4, <3>1, Updated
    <3> QED BY <1>5, <1>6, <3>2 DEF Sig
  <2>5. CASE Failed(b, k) /\ UNCHANGED pc
    <3>1. Sig(b, k)' = Sig(b, k) /\ k \in relayMode'[b]
      BY <2>5, Fell DEF Sig
    <3> QED BY <1>5, <1>6, <3>1
  <2> QED BY <1>3, <2>3, <2>4, <2>5
<1> QED BY <1>5, <1>6

LEMMA AnswerMoves ==
  ASSUME TypeOK, NEW b \in Browsers, OnAnswer(b)
  PROVE  /\ TypeOK'
         /\ \E i \in Ids : Handled(b, i) /\ (i \notin again /\ Whole(b, i) => Moves(b, i))
<1>1. Receive(b, "answer")
  BY DEF OnAnswer
<1>2. PICK i \in Ids, m \in Messages :
        /\ id[b] = i /\ m = inbox[i][1]
        /\ Shifted(i) /\ inbox' \in [Ids -> Seq(Messages)]
        /\ \A l \in Ids : l # i => inbox'[l] = inbox[l]
        /\ From(b) \in Ids /\ m = Note("answer", From(b))
  BY <1>1, Received
<1> PICK k \in Ids : k = From(b)
  BY <1>2
<1>3. /\ \/ pc[b][k] = None /\ UNCHANGED <<pc, channels, relayMode, shown>>
         \/ /\ pc[b][k] # None /\ pc[b][k].sig = "offered"
            /\ Update(b, k, [pc[b][k] EXCEPT !.sig = "stable"])
            /\ UNCHANGED <<channels, relayMode, shown>>
         \/ pc[b][k] # None /\ Failed(b, k) /\ UNCHANGED <<pc, channels>>
      /\ UNCHANGED <<step, list, raced, id, self, old, again>>
  BY DEF OnAnswer, page
<1>4. pc[b][k] # None => /\ [pc[b][k] EXCEPT !.sig = "stable"] \in Connections
                         /\ [pc[b][k] EXCEPT !.sig = "stable"] # None
                         /\ [pc[b][k] EXCEPT !.sig = "stable"].sig = "stable"
  <2>1. pc[b][k] # None => pc[b][k] \in Connections
    BY DEF TypeOK
  <2> QED BY <2>1, ConnectionUpdates
<1>5. /\ UNCHANGED pc \/ \E d \in Connections : Update(b, k, d)
      /\ UNCHANGED <<relayMode, shown>> \/ Failed(b, k)
      /\ UNCHANGED channels
  BY <1>3, <1>4
<1>6. /\ TypeOK' /\ Handled(b, i)
      /\ /\ Whole(b, i)
         /\ shown'[b][k] # "none" => shown[b][k] # "none" \/ Sig(b, k) # "none"
         /\ Sig(b, k)' = "stable" \/ (Sig(b, k)' = Sig(b, k) /\ k \in relayMode'[b])
         => Moves(b, i)
      /\ Whole(b, i) /\ k \in again => Moves(b, i)
  <2> PICK t \in {"offer", "answer", "ice"} : t = "answer"
    OBVIOUS
  <2> QED BY <1>2, <1>3, <1>5, Signalled
<1>7. ASSUME i \notin again, Whole(b, i), k \notin again PROVE Moves(b, i)
  <2>1. 1 \in Places(i)
    BY <1>2 DEF Shifted
  <2>2. Sig(b, k) = "offered"
    BY <1>2, <1>7, <2>1 DEF Whole, Mail
  <2>3. pc[b][k] # None /\ pc[b][k].sig = "offered"
    BY <2>2 DEF Sig
  <2>4. CASE Update(b, k, [pc[b][k] EXCEPT !.sig = "stable"])
    <3>1. pc'[b][k] = [pc[b][k] EXCEPT !.sig = "stable"]
      BY <1>4, <2>3, <2>4, Updated
    <3>2. Sig(b, k)' = "stable"
      BY <1>4, <2>3, <3>1 DEF Sig
    <3> QED BY <1>6, <1>7, <2>2, <3>2
  <2>5. CASE Failed(b, k) /\ UNCHANGED pc
    <3>1. Sig(b, k)' = Sig(b, k) /\ k \in relayMode'[b]
      BY <2>5, Fell DEF Sig
    <3> QED BY <1>6, <1>7, <2>2, <3>1
  <2> QED BY <1>3, <2>3, <2>4, <2>5
<1> QED BY <1>6, <1>7

LEMMA IceMoves ==
  ASSUME TypeOK, NEW b \in Browsers, OnIce(b)
  PROVE  /\ TypeOK'
         /\ \E i \in Ids : Handled(b, i) /\ (i \notin again /\ Whole(b, i) => Moves(b, i))
<1>1. Receive(b, "ice")
  BY DEF OnIce
<1>2. PICK i \in Ids, m \in Messages :
        /\ id[b] = i /\ m = inbox[i][1]
        /\ Shifted(i) /\ inbox' \in [Ids -> Seq(Messages)]
        /\ \A l \in Ids : l # i => inbox'[l] = inbox[l]
        /\ From(b) \in Ids /\ m = Note("ice", From(b))
  BY <1>1, Received
<1> PICK k \in Ids : k = From(b)
  BY <1>2
<1>3. /\ IF Remote(pc[b][k]) THEN Update(b, k, [pc[b][k] EXCEPT !.got = TRUE]) ELSE UNCHANGED pc
      /\ UNCHANGED <<step, list, raced, id, self, old, channels, relayMode, shown, again>>
  BY DEF OnIce, page
<1>4. pc[b][k] # None => /\ [pc[b][k] EXCEPT !.got = TRUE] \in Connections
                         /\ [pc[b][k] EXCEPT !.got = TRUE] # None
                         /\ [pc[b][k] EXCEPT !.got = TRUE].sig = pc[b][k].sig
  <2>1. pc[b][k] # None => pc[b][k] \in Connections
    BY DEF TypeOK
  <2> QED BY <2>1, ConnectionUpdates
<1>5. /\ UNCHANGED pc \/ \E d \in Connections : Update(b, k, d)
      /\ Sig(b, k)' = Sig(b, k)
  <2>1. CASE UNCHANGED pc
    BY <2>1 DEF Sig
  <2>2. CASE pc[b][k] # None /\ Update(b, k, [pc[b][k] EXCEPT !.got = TRUE])
    <3>1. pc'[b][k] = [pc[b][k] EXCEPT !.got = TRUE]
      BY <1>4, <2>2, Updated
    <3> QED BY <1>4, <2>2, <3>1 DEF Sig
  <2> QED BY <1>3, <2>1, <2>2 DEF Remote
<1>6. TypeOK' /\ Handled(b, i) /\ (Whole(b, i) => Moves(b, i))
  <2> PICK t \in {"offer", "answer", "ice"} : t = "ice"
    OBVIOUS
  <2> QED BY <1>2, <1>3, <1>5, Signalled
<1> QED BY <1>6

-----------------------------------------------------------------------------
(* A message that is taken leaves a new browser whole.                      *)
LEMMA Behind ==
  ASSUME TypeOK, NEW i \in Ids, Shifted(i), UNCHANGED <<step, raced>>
  PROVE  /\ 1 \in Places(i)
         /\ \A n \in Places(i)' : /\ n \in Nat /\ n >= 1 /\ n + 1 \in Places(i)
                                  /\ inbox'[i][n] = inbox[i][n + 1]
         /\ \A n \in Places(i) : n \in Nat /\ n >= 1
         /\ \A n \in Places(i) : n # 1 => n - 1 \in Places(i)' /\ inbox'[i][n - 1] = inbox[i][n]
         /\ Members' = Members
         /\ \A j \in Ids, n \in Places(i) : Heard(i, n, j) => Heard(i, n - 1, j)'
         /\ \A j \in Ids : Heard(i, 0, j) /\ inbox[i][1] # Note("peer-left", j) => Heard(i, 0, j)'
<1> PICK k \in Nat : k = Len(inbox[i])
  BY InboxTyped
<1>1. /\ 1 \in Places(i) /\ Places(i) = 1 .. k /\ Places(i)' = 1 .. k - 1
      /\ \A n \in 1 .. k - 1 : inbox'[i][n] = inbox[i][n + 1]
  BY DEF Shifted, Places
<1>2. /\ \A n \in Places(i)' : n \in Nat /\ n >= 1 /\ n + 1 \in Places(i) /\ inbox'[i][n] = inbox[i][n + 1]
      /\ \A n \in Places(i) : n \in Nat /\ n >= 1
  BY <1>1
<1>3. ASSUME NEW n \in Places(i), n # 1 PROVE n - 1 \in Places(i)' /\ inbox'[i][n - 1] = inbox[i][n]
  <2>1. n - 1 \in 1 .. k - 1 /\ (n - 1) + 1 = n
    BY <1>1, <1>3
  <2> QED BY <1>1, <2>1
<1>4. Members' = Members
  BY DEF Members
<1>5. ASSUME NEW j \in Ids, NEW n \in Places(i), Heard(i, n, j) PROVE Heard(i, n - 1, j)'
  <2>1. CASE j \in Members \cup raced[i]
    BY <1>4, <2>1 DEF Heard
  <2>2. CASE \E m \in Places(i) : n < m /\ inbox[i][m] = Note("peer-left", j)
    <3> PICK m \in Places(i) : n < m /\ inbox[i][m] = Note("peer-left", j)
      BY <2>2
    <3>1. m # 1 /\ n - 1 < m - 1
      BY <1>2
    <3>2. m - 1 \in Places(i)' /\ inbox'[i][m - 1] = inbox[i][m]
      BY <1>3, <3>1
    <3>3. inbox'[i][m - 1] = Note("peer-left", j)
      BY <3>2
    <3>4. \E q \in Places(i)' : n - 1 < q /\ inbox'[i][q] = Note("peer-left", j)
      BY <3>1, <3>2, <3>3
    <3> QED BY <3>4 DEF Heard, Note
  <2> QED BY <1>5, <2>1, <2>2 DEF Heard
<1>6. ASSUME NEW j \in Ids, Heard(i, 0, j), inbox[i][1] # Note("peer-left", j) PROVE Heard(i, 0, j)'
  <2>1. CASE j \in Members \cup raced[i]
    BY <1>4, <2>1 DEF Heard
  <2>2. CASE \E m \in Places(i) : 0 < m /\ inbox[i][m] = Note("peer-left", j)
    <3> PICK m \in Places(i) : inbox[i][m] = Note("peer-left", j)
      BY <2>2
    <3>1. m # 1
      BY <1>6
    <3>2. m - 1 \in Places(i)' /\ inbox'[i][m - 1] = inbox[i][m] /\ 0 < m - 1
      BY <1>2, <1>3, <3>1
    <3>3. inbox'[i][m - 1] = Note("peer-left", j)
      BY <3>2
    <3>4. \E q \in Places(i)' : 0 < q /\ inbox'[i][q] = Note("peer-left", j)
      BY <3>2, <3>3
    <3> QED BY <3>4 DEF Heard, Note
  <2> QED BY <1>6, <2>1, <2>2 DEF Heard
<1> QED BY <1>1, <1>2, <1>3, <1>4, <1>5, <1>6

LEMMA StaysWhole ==
  ASSUME TypeOK, NEW b \in Browsers, NEW i \in Ids, i \notin again,
         Whole(b, i), Handled(b, i), Moves(b, i)
  PROVE  Whole(b, i)'
<1>1. /\ Shifted(i) /\ UNCHANGED <<step, list, raced, id, again>>
      /\ step'[i] = step[i] /\ list'[i] = list[i] /\ again' = again
  BY DEF Handled
<1>2. /\ 1 \in Places(i)
      /\ \A n \in Places(i)' : n \in Nat /\ n >= 1 /\ n + 1 \in Places(i) /\ inbox'[i][n] = inbox[i][n + 1]
      /\ \A n \in Places(i) : n \in Nat /\ n >= 1
      /\ \A n \in Places(i) : n # 1 => n - 1 \in Places(i)' /\ inbox'[i][n - 1] = inbox[i][n]
      /\ Members' = Members
      /\ \A j \in Ids, n \in Places(i) : Heard(i, n, j) => Heard(i, n - 1, j)'
      /\ \A j \in Ids : Heard(i, 0, j) /\ inbox[i][1] # Note("peer-left", j) => Heard(i, 0, j)'
  BY <1>1, Behind
<1> PICK f : f = inbox[i][1]
  OBVIOUS
<1>3. ASSUME NEW j \in Ids \ again
      PROVE  /\ \/ Sig(b, j)' = IF Initiates(b, i, j) THEN "offering"
                                ELSE IF f = Note("offer", j) THEN "answering"
                                ELSE IF f = Note("answer", j) THEN "stable"
                                ELSE IF f = Note("peer-left", j) THEN "none" ELSE Sig(b, j)
                \/ /\ Sig(b, j)' = Sig(b, j) /\ f # Note("peer-left", j)
                   /\ f \in {Note("offer", j), Note("answer", j)} => j \in relayMode'[b]
             /\ Initiates(b, i, j) => i < j /\ Sig(b, j) = "none" /\ (Lists(f, j) \/ f = Note("peer-joined", j))
             /\ f = Note("offer", j) => j < i /\ Sig(b, j) = "none"
             /\ f = Note("answer", j) => i < j /\ Sig(b, j) = "offered"
  <2>1. f = Note("offer", j) => j < i /\ Sig(b, j) = "none"
    BY <1>2 DEF Whole, Mail
  <2>2. f = Note("answer", j) => i < j /\ Sig(b, j) = "offered"
    BY <1>2 DEF Whole, Mail
  <2>3. Initiates(b, i, j) => i < j /\ Sig(b, j) = "none" /\ (Lists(f, j) \/ f = Note("peer-joined", j))
    <3> SUFFICES ASSUME Initiates(b, i, j) PROVE Sig(b, j) = "none"
      BY DEF Initiates
    <3>1. CASE Lists(f, j)
      BY <1>2, <3>1 DEF Whole, Own, Lists, Initiates
    <3>2. CASE f = Note("peer-joined", j) /\ self[b] # None
      BY <1>2, <3>2 DEF Whole, Noticed, Initiates
    <3> QED BY <3>1, <3>2 DEF Initiates
  <2> QED BY <2>1, <2>2, <2>3 DEF Moves, Moved
<1>4. Sides(b, i)'
  <2>1. ASSUME NEW j \in Ids \ again
        PROVE  \/ Sig(b, j)' \in {"none", "idle"}
               \/ i < j /\ Sig(b, j)' \in {"offering", "offered", "stable"}
               \/ j < i /\ Sig(b, j)' \in {"answering", "stable"}
    BY <1>3 DEF Whole, Sides
  <2>2. \A o \in old'[b] : o.left \/ o.peer \in again
    BY DEF Moves
  <2> QED BY <1>1, <2>1, <2>2 DEF Sides
<1>5. self'[b] = IF f.type = "joined" THEN i ELSE self[b]
  BY DEF Moves
<1>6. i # None
  BY IdAssumption
<1>7. Own(b, i)'
  <2>1. self'[b] \in {None, i}
    BY <1>5 DEF Whole, Own
  <2>2. ASSUME self'[b] = None, NEW j \in Ids \ again, i < j PROVE Sig(b, j)' = "none"
    <3>1. f.type # "joined" /\ self[b] = None
      BY <1>5, <1>6, <2>2
    <3>2. Sig(b, j) = "none" /\ ~Initiates(b, i, j)
      BY <2>2, <3>1 DEF Whole, Own, Initiates, Lists
    <3> QED BY <1>3, <2>2, <3>2, IdAssumption
  <2>3. ASSUME step'[i] \in {"registered", "walked"}
        PROVE  self'[b] = None /\ \A n \in Places(i)' : inbox'[i][n].type # "joined"
    <3>1. self[b] = None /\ \A n \in Places(i) : inbox[i][n].type # "joined"
      BY <1>1, <2>3 DEF Whole, Own
    <3> QED BY <1>2, <1>5, <3>1
  <2>4. ASSUME NEW n \in Places(i)', inbox'[i][n].type = "joined"
        PROVE  self'[b] = None /\ \A m \in Places(i)' : inbox'[i][m].type = "joined" => m = n
    <3>1. n + 1 \in Places(i) /\ inbox[i][n + 1].type = "joined" /\ n \in Nat
      BY <1>2, <2>4
    <3>2. self[b] = None /\ \A m \in Places(i) : inbox[i][m].type = "joined" => m = n + 1
      BY <3>1 DEF Whole, Own
    <3>3. f.type # "joined"
      BY <1>2, <2>4, <3>1, <3>2
    <3>4. ASSUME NEW m \in Places(i)', inbox'[i][m].type = "joined" PROVE m = n
      <4>1. m + 1 \in Places(i) /\ inbox[i][m + 1].type = "joined" /\ m \in Nat
        BY <1>2, <3>4
      <4>2. m + 1 = n + 1
        BY <3>2, <4>1
      <4> QED BY <3>1, <4>1, <4>2
    <3> QED BY <1>5, <3>2, <3>3, <3>4
  <2> QED BY <1>1, <2>1, <2>2, <2>3, <2>4 DEF Own
<1>8. Noticed(b, i)'
  <2> SUFFICES ASSUME NEW j \in Ids \ again, NEW n \in Places(i)', inbox'[i][n] = Note("peer-joined", j)
               PROVE  /\ self'[b] # None /\ i < j => Sig(b, j)' = "none"
                      /\ \A m \in Places(i)' : /\ inbox'[i][m] = Note("peer-joined", j) => m = n
                                               /\ Lists(inbox'[i][m], j) => n < m
    BY <1>1 DEF Noticed, Note, Lists
  <2>1. n + 1 \in Places(i) /\ inbox[i][n + 1] = Note("peer-joined", j) /\ n \in Nat /\ n >= 1
    BY <1>2
  <2>2. /\ self[b] # None /\ i < j => Sig(b, j) = "none"
        /\ \A m \in Places(i) : /\ inbox[i][m] = Note("peer-joined", j) => m = n + 1
                                /\ Lists(inbox[i][m], j) => n + 1 < m
    BY <2>1 DEF Whole, Noticed
  <2>3. ~Lists(f, j) /\ f # Note("peer-joined", j)
    BY <1>2, <2>1, <2>2
  <2>4. ASSUME self'[b] # None, i < j PROVE Sig(b, j)' = "none"
    <3>1. Sig(b, j) = "none"
      <4>1. CASE self[b] = None
        BY <2>4, <4>1 DEF Whole, Own
      <4> QED BY <2>2, <2>4, <4>1
    <3>2. ~Initiates(b, i, j)
      BY <2>3 DEF Initiates
    <3> QED BY <1>3, <2>4, <3>1, <3>2, IdAssumption
  <2>5. ASSUME NEW m \in Places(i)'
        PROVE  /\ inbox'[i][m] = Note("peer-joined", j) => m = n
               /\ Lists(inbox'[i][m], j) => n < m
    <3>1. m + 1 \in Places(i) /\ inbox'[i][m] = inbox[i][m + 1] /\ m \in Nat
      BY <1>2
    <3> QED BY <2>1, <2>2, <3>1
  <2> QED BY <2>4, <2>5
<1>9. \A j \in Ids : /\ f = Note("offer", j) => ~Initiates(b, i, j)
                     /\ f = Note("answer", j) => /\ ~Initiates(b, i, j) /\ f # Note("offer", j)
                                                /\ f # Note("peer-left", j)
  BY DEF Initiates, Lists, Note
<1>10. Mail(b, i)'
  <2>1. ASSUME NEW j \in Ids \ again, NEW n \in Places(i)', inbox'[i][n] = Note("offer", j)
        PROVE  /\ j < i /\ Sig(b, j)' = "none"
               /\ \A m \in Places(i)' : inbox'[i][m] = Note("offer", j) => m = n
    <3>1. n + 1 \in Places(i) /\ inbox[i][n + 1] = Note("offer", j) /\ n \in Nat /\ n >= 1
      BY <1>2, <2>1
    <3>2. /\ j < i /\ Sig(b, j) = "none"
          /\ \A m \in Places(i) : inbox[i][m] = Note("offer", j) => m = n + 1
      BY <3>1 DEF Whole, Mail
    <3>3. f # Note("offer", j)
      BY <1>2, <3>1, <3>2
    <3>4. Sig(b, j)' = "none"
      <4>1. i \in Nat /\ j \in Nat /\ ~(i < j)
        BY <3>2, IdAssumption
      <4> QED BY <1>3, <3>2, <3>3, <4>1
    <3>5. ASSUME NEW m \in Places(i)', inbox'[i][m] = Note("offer", j) PROVE m = n
      <4>1. m + 1 \in Places(i) /\ inbox[i][m + 1] = Note("offer", j) /\ m \in Nat
        BY <1>2, <3>5
      <4>2. m + 1 = n + 1
        BY <3>2, <4>1
      <4> QED BY <3>1, <4>1, <4>2
    <3> QED BY <3>2, <3>4, <3>5
  <2>2. ASSUME NEW j \in Ids \ again, NEW n \in Places(i)', inbox'[i][n] = Note("answer", j)
        PROVE  /\ i < j /\ Sig(b, j)' = "offered"
               /\ \A m \in Places(i)' : /\ inbox'[i][m] = Note("answer", j) => m = n
                                        /\ inbox'[i][m] = Note("peer-left", j) => n < m
    <3>1. n + 1 \in Places(i) /\ inbox[i][n + 1] = Note("answer", j) /\ n \in Nat /\ n >= 1
      BY <1>2, <2>2
    <3>2. /\ i < j /\ Sig(b, j) = "offered"
          /\ \A m \in Places(i) : /\ inbox[i][m] = Note("answer", j) => m = n + 1
                                  /\ inbox[i][m] = Note("peer-left", j) => n + 1 < m
      BY <3>1 DEF Whole, Mail
    <3>3. f # Note("answer", j) /\ f # Note("peer-left", j)
      BY <1>2, <3>1, <3>2
    <3>4. Sig(b, j)' = "offered"
      BY <1>3, <3>2, <3>3
    <3>5. ASSUME NEW m \in Places(i)'
          PROVE  /\ inbox'[i][m] = Note("answer", j) => m = n
                 /\ inbox'[i][m] = Note("peer-left", j) => n < m
      <4>1. m + 1 \in Places(i) /\ inbox'[i][m] = inbox[i][m + 1] /\ m \in Nat
        BY <1>2, <3>5
      <4> QED BY <3>1, <3>2, <4>1
    <3> QED BY <3>2, <3>4, <3>5
  <2>3. ASSUME NEW j \in Ids \ again, NEW n \in Places(i)', inbox'[i][n] = Note("ice", j)
        PROVE  IF n = 1 THEN Sig(b, j)' \in {"answering", "stable"} \/ j \in relayMode'[b]
                        ELSE inbox'[i][n - 1] \in {Note("offer", j), Note("answer", j)}
    <3>1. n + 1 \in Places(i) /\ inbox[i][n + 1] = Note("ice", j) /\ n \in Nat /\ n >= 1
          /\ (n + 1) - 1 = n /\ n + 1 # 1
      BY <1>2, <2>3
    <3>2. inbox[i][n] \in {Note("offer", j), Note("answer", j)}
      BY <3>1 DEF Whole, Mail
    <3>3. CASE n = 1
      BY <1>3, <1>9, <3>2, <3>3
    <3>4. CASE n # 1
      <4>1. n \in Places(i)
        <5>1. n - 1 \in Nat /\ n <= Len(inbox[i]) /\ Len(inbox[i]) \in Nat
          BY <3>1, InboxTyped DEF Places
        <5> QED BY <3>1, <5>1 DEF Places
      <4>2. inbox'[i][n - 1] = inbox[i][n]
        BY <1>2, <3>4, <4>1
      <4> QED BY <3>2, <3>4, <4>2
    <3> QED BY <3>3, <3>4
  <2> QED BY <1>1, <2>1, <2>2, <2>3 DEF Mail, Note
<1>11. News(b, i)'
  <2> SUFFICES ASSUME NEW j \in Ids \ again
               PROVE  /\ Sig(b, j)' # "none" => Heard(i, 0, j)'
                      /\ shown'[b][j] # "none" => Heard(i, 0, j)' \/ Replaced(b, j)'
                      /\ step'[i] = "walked" /\ j \in list'[i] => j \in Members' \cup raced'[i]
                      /\ \A n \in Places(i)' :
                           inbox'[i][n] \in {Note("peer-joined", j), Note("offer", j)} \/ Lists(inbox'[i][n], j)
                             => Heard(i, n, j)'
    BY <1>1 DEF News, Lists, Note
  <2>1. ASSUME f \in {Note("peer-joined", j), Note("offer", j)} \/ Lists(f, j) PROVE Heard(i, 0, j)'
    <3>1. Heard(i, 1, j)
      BY <1>2, <2>1 DEF Whole, News
    <3>2. Heard(i, 1 - 1, j)' /\ 1 - 1 = 0
      BY <1>2, <3>1
    <3> QED BY <3>2
  <2>2. ASSUME f # Note("peer-left", j)
        PROVE  /\ Sig(b, j) # "none" => Heard(i, 0, j)'
               /\ shown[b][j] # "none" => Heard(i, 0, j)' \/ Replaced(b, j)'
    <3>1. Replaced(b, j) => Replaced(b, j)'
      BY StillReplaced DEF Moves
    <3> QED BY <1>2, <2>2, <3>1 DEF Whole, News
  <2>3. ASSUME Sig(b, j)' # "none" PROVE Heard(i, 0, j)'
    BY <1>3, <1>9, <2>1, <2>2, <2>3
  <2>4. ASSUME shown'[b][j] # "none" PROVE Heard(i, 0, j)' \/ Replaced(b, j)'
    BY <2>1, <2>2, <2>4 DEF Moves
  <2>5. step'[i] = "walked" /\ j \in list'[i] => j \in Members' \cup raced'[i]
    BY <1>1, <1>2 DEF Whole, News
  <2>6. ASSUME NEW n \in Places(i)',
               inbox'[i][n] \in {Note("peer-joined", j), Note("offer", j)} \/ Lists(inbox'[i][n], j)
        PROVE  Heard(i, n, j)'
    <3>1. n + 1 \in Places(i) /\ inbox[i][n + 1] = inbox'[i][n] /\ n \in Nat
      BY <1>2, <2>6
    <3>2. Heard(i, n + 1, j)
      BY <2>6, <3>1 DEF Whole, News
    <3>3. Heard(i, (n + 1) - 1, j)' /\ (n + 1) - 1 = n
      BY <1>2, <3>1, <3>2
    <3> QED BY <3>3
  <2> QED BY <2>3, <2>4, <2>5, <2>6
<1> QED BY <1>4, <1>7, <1>8, <1>10, <1>11 DEF Whole

(* A step that leaves its inbox alone: its connections stay as they were,   *)
(* or have their description made, or fail to.                              *)
Stays(b, j) ==
  \/ Sig(b, j)' = Sig(b, j)
  \/ Sig(b, j) \in {"offering", "answering"} /\ Sig(b, j)' = "idle" /\ j \in relayMode'[b]

Advances(b, j) ==
  \/ Stays(b, j)
  \/ Sig(b, j) = "offering" /\ Sig(b, j)' = "offered"
  \/ Sig(b, j) = "answering" /\ Sig(b, j)' = "stable"

Alone(b, i) ==
  /\ inbox'[i] = inbox[i] /\ self'[b] = self[b]
  /\ again \subseteq again' /\ raced[i] \subseteq raced'[i] /\ Members \subseteq Members'
  /\ Handed(b) /\ relayMode[b] \subseteq relayMode'[b]
  /\ \A j \in Ids \ again : Advances(b, j)
  /\ \A j \in Ids \ again :
       shown'[b][j] # "none" => shown[b][j] # "none" \/ Sig(b, j) # "none" \/ Replaced(b, j)
  /\ \/ step'[i] = step[i] /\ list'[i] = list[i]
     \/ step[i] = "registered" /\ step'[i] = "walked" /\ list'[i] \subseteq Members

LEMMA AloneWhole ==
  ASSUME TypeOK, NEW b \in Browsers, NEW i \in Ids, Whole(b, i), Alone(b, i)
  PROVE  Whole(b, i)'
<1>1. /\ inbox'[i] = inbox[i] /\ self'[b] = self[b] /\ Places(i)' = Places(i)
      /\ again \subseteq again' /\ raced[i] \subseteq raced'[i] /\ Members \subseteq Members'
  BY DEF Alone, Places
<1>2. \A j \in Ids \ again' : j \in Ids \ again /\ Advances(b, j)
  BY DEF Alone
<1>3. Sides(b, i)'
  <2>1. \A o \in old'[b] : o.left \/ o.peer \in again'
    BY <1>1 DEF Alone, Handed, Whole, Sides
  <2>2. ASSUME NEW j \in Ids \ again'
        PROVE  \/ Sig(b, j)' \in {"none", "idle"}
               \/ i < j /\ Sig(b, j)' \in {"offering", "offered", "stable"}
               \/ j < i /\ Sig(b, j)' \in {"answering", "stable"}
    BY <1>2 DEF Whole, Sides, Advances, Stays
  <2> QED BY <2>1, <2>2 DEF Sides
<1>4. Own(b, i)'
  <2>1. step'[i] \in {"registered", "walked"} => step[i] \in {"registered", "walked"}
    BY DEF Alone
  <2>2. self[b] = None => \A j \in Ids \ again' : i < j => Sig(b, j)' = "none"
    BY <1>2 DEF Whole, Own, Advances, Stays
  <2> QED BY <1>1, <2>1, <2>2 DEF Whole, Own
<1>5. Noticed(b, i)'
  <2> SUFFICES ASSUME NEW j \in Ids \ again', NEW n \in Places(i)', inbox'[i][n] = Note("peer-joined", j)
               PROVE  /\ self'[b] # None /\ i < j => Sig(b, j)' = "none"
                      /\ \A m \in Places(i)' : /\ inbox'[i][m] = Note("peer-joined", j) => m = n
                                               /\ Lists(inbox'[i][m], j) => n < m
    BY DEF Noticed, Note, Lists
  <2>1. n \in Places(i) /\ inbox[i][n] = Note("peer-joined", j)
    BY <1>1
  <2>2. /\ self[b] # None /\ i < j => Sig(b, j) = "none"
        /\ \A m \in Places(i) : /\ inbox[i][m] = Note("peer-joined", j) => m = n
                                /\ Lists(inbox[i][m], j) => n < m
    BY <1>2, <2>1 DEF Whole, Noticed
  <2>3. self'[b] # None /\ i < j => Sig(b, j)' = "none"
    BY <1>1, <1>2, <2>2 DEF Advances, Stays
  <2> QED BY <1>1, <2>2, <2>3
<1>6. Mail(b, i)'
  <2>1. ASSUME NEW j \in Ids \ again', NEW n \in Places(i)
        PROVE  /\ inbox[i][n] = Note("offer", j) =>
                    /\ j < i /\ Sig(b, j)' = "none"
                    /\ \A m \in Places(i) : inbox[i][m] = Note("offer", j) => m = n
               /\ inbox[i][n] = Note("answer", j) =>
                    /\ i < j /\ Sig(b, j)' = "offered"
                    /\ \A m \in Places(i) : /\ inbox[i][m] = Note("answer", j) => m = n
                                            /\ inbox[i][m] = Note("peer-left", j) => n < m
               /\ inbox[i][n] = Note("ice", j) =>
                    IF n = 1 THEN Sig(b, j)' \in {"answering", "stable"} \/ j \in relayMode'[b]
                             ELSE inbox[i][n - 1] \in {Note("offer", j), Note("answer", j)}
    BY <1>2 DEF Whole, Mail, Alone, Advances, Stays
  <2>2. ASSUME NEW j \in Ids \ again', NEW n \in Places(i)'
        PROVE  /\ inbox'[i][n] = Note("offer", j) =>
                    /\ j < i /\ Sig(b, j)' = "none"
                    /\ \A m \in Places(i)' : inbox'[i][m] = Note("offer", j) => m = n
               /\ inbox'[i][n] = Note("answer", j) =>
                    /\ i < j /\ Sig(b, j)' = "offered"
                    /\ \A m \in Places(i)' : /\ inbox'[i][m] = Note("answer", j) => m = n
                                             /\ inbox'[i][m] = Note("peer-left", j) => n < m
               /\ inbox'[i][n] = Note("ice", j) =>
                    IF n = 1 THEN Sig(b, j)' \in {"answering", "stable"} \/ j \in relayMode'[b]
                             ELSE inbox'[i][n - 1] \in {Note("offer", j), Note("answer", j)}
    BY <1>1, <2>1
  <2> QED BY <2>2 DEF Mail, Note
<1>7. News(b, i)'
  <2>1. ASSUME NEW j \in Ids, NEW n, Heard(i, n, j) PROVE Heard(i, n, j)'
    BY <1>1, <2>1 DEF Heard, Note
  <2> SUFFICES ASSUME NEW j \in Ids \ again'
               PROVE  /\ Sig(b, j)' # "none" => Heard(i, 0, j)'
                      /\ shown'[b][j] # "none" => Heard(i, 0, j)' \/ Replaced(b, j)'
                      /\ step'[i] = "walked" /\ j \in list'[i] => j \in Members' \cup raced'[i]
                      /\ \A n \in Places(i) :
                           inbox[i][n] \in {Note("peer-joined", j), Note("offer", j)} \/ Lists(inbox[i][n], j)
                             => Heard(i, n, j)'
    BY <1>1 DEF News, Lists, Note
  <2>2. /\ Sig(b, j)' # "none" => Heard(i, 0, j)'
        /\ shown'[b][j] # "none" => Heard(i, 0, j)' \/ Replaced(b, j)'
    <3>1. Sig(b, j)' # "none" => Sig(b, j) # "none"
      BY <1>2 DEF Advances, Stays
    <3>2. shown'[b][j] # "none" => shown[b][j] # "none" \/ Sig(b, j) # "none" \/ Replaced(b, j)
      BY <1>2 DEF Alone
    <3>3. Replaced(b, j) => Replaced(b, j)'
      BY StillReplaced DEF Alone, Handed
    <3> QED BY <1>2, <2>1, <3>1, <3>2, <3>3 DEF Whole, News
  <2>3. step'[i] = "walked" /\ j \in list'[i] => j \in Members' \cup raced'[i]
    BY <1>1, <1>2 DEF Alone, Whole, News
  <2>4. \A n \in Places(i) :
          inbox[i][n] \in {Note("peer-joined", j), Note("offer", j)} \/ Lists(inbox[i][n], j)
            => Heard(i, n, j)'
    BY <1>2, <2>1 DEF Whole, News
  <2> QED BY <2>2, <2>3, <2>4
<1> QED BY <1>3, <1>4, <1>5, <1>6, <1>7 DEF Whole

(* A step that puts messages into its inbox, and does nothing else to it.   *)
Welcome(b, i, m) ==
  /\ m.type = "joined" => self[b] = None /\ \A n \in Places(i) : inbox[i][n].type # "joined"
  /\ \A j \in Ids \ again :
       /\ m = Note("peer-joined", j) =>
            Sig(b, j) = "none" /\ ~Queued(i, m) /\ \A n \in Places(i) : ~Lists(inbox[i][n], j)
       /\ m = Note("offer", j) => j < i /\ Sig(b, j) = "none" /\ ~Queued(i, m)
       /\ m = Note("answer", j) =>
            i < j /\ Sig(b, j) = "offered" /\ ~Queued(i, m) /\ ~Queued(i, Note("peer-left", j))

Same(b) ==
  /\ self'[b] = self[b] /\ pc'[b] = pc[b] /\ old'[b] = old[b]
  /\ shown'[b] = shown[b] /\ relayMode'[b] = relayMode[b]

LEMMA GrowsWhole ==
  ASSUME TypeOK, NEW b \in Browsers, NEW i \in Ids, Whole(b, i), Same(b), again \subseteq again',
         NEW k \in {1, 2}, NEW m, NEW x \in Ids,
         Grown(i, k), m = Place(i, 1), m.type # "ice", Welcome(b, i, m),
         k = 2 => Place(i, 2) = Note("ice", x) /\ m \in {Note("offer", x), Note("answer", x)},
         \A j \in Ids, n \in 0 .. Len(inbox[i]) : Heard(i, n, j) => Heard(i, n, j)',
         step'[i] \in {"registered", "walked"} => step[i] = step'[i] /\ m.type # "joined",
         \A j \in Ids \ again : step'[i] = "walked" /\ j \in list'[i] => j \in Members' \cup raced'[i],
         \A j \in Ids \ again : m \in {Note("peer-joined", j), Note("offer", j)} \/ Lists(m, j)
                                  => j \in Members' \cup raced'[i]
  PROVE  Whole(b, i)'
<1> PICK l \in Nat : l = Len(inbox[i])
  BY InboxTyped
<1> PICK p \in Nat : p = l + 1
  OBVIOUS
<1>1. /\ Places(i) = 1 .. l /\ Places(i)' = 1 .. l + k /\ inbox'[i][p] = m /\ p \in Places(i)'
      /\ \A n \in Places(i) : n \in Nat /\ n \in Places(i)' /\ inbox'[i][n] = inbox[i][n] /\ n < p
  BY DEF Grown, Place, Places
<1>2. ASSUME NEW n \in Places(i)'
      PROVE  \/ n \in Places(i) /\ inbox'[i][n] = inbox[i][n]
             \/ n = p /\ inbox'[i][n] = m
             \/ k = 2 /\ n = p + 1 /\ inbox'[i][n] = Note("ice", x)
  <2>1. n \in 1 .. l \/ n = l + 1 \/ (k = 2 /\ n = l + 2)
    BY <1>1
  <2>2. k = 2 => inbox'[i][l + 2] = Note("ice", x)
    BY DEF Place
  <2> QED BY <1>1, <2>1, <2>2
<1>3. /\ \A j \in Ids : \A t \in {"peer-joined", "peer-left", "offer", "answer"} : Note("ice", x) # Note(t, j)
      /\ Note("ice", x).type # "joined" /\ \A j \in Ids : ~Lists(Note("ice", x), j)
      /\ \A j \in Ids : m # Note("ice", j)
  BY DEF Note, Lists
<1>4. \A j \in Ids \ again' : j \in Ids \ again /\ Sig(b, j)' = Sig(b, j)
  BY DEF Same, Sig
<1>5. Sides(b, i)'
  BY <1>4 DEF Whole, Sides, Same
<1>6. Own(b, i)'
  <2>1. self'[b] \in {None, i} /\ (self'[b] = None => \A j \in Ids \ again' : i < j => Sig(b, j)' = "none")
    BY <1>4 DEF Whole, Own, Same
  <2>2. step'[i] \in {"registered", "walked"} =>
          self'[b] = None /\ \A n \in Places(i)' : inbox'[i][n].type # "joined"
    BY <1>2, <1>3 DEF Whole, Own, Same
  <2>3. ASSUME NEW n \in Places(i)', inbox'[i][n].type = "joined"
        PROVE  self'[b] = None /\ \A q \in Places(i)' : inbox'[i][q].type = "joined" => q = n
    BY <1>2, <1>3, <2>3 DEF Whole, Own, Same, Welcome
  <2> QED BY <2>1, <2>2, <2>3 DEF Own
<1>7. Noticed(b, i)'
  <2> SUFFICES ASSUME NEW j \in Ids \ again', NEW n \in Places(i)', inbox'[i][n] = Note("peer-joined", j)
               PROVE  /\ self'[b] # None /\ i < j => Sig(b, j)' = "none"
                      /\ \A q \in Places(i)' : /\ inbox'[i][q] = Note("peer-joined", j) => q = n
                                               /\ Lists(inbox'[i][q], j) => n < q
    BY DEF Noticed, Note, Lists
  <2>1. CASE n \in Places(i) /\ inbox[i][n] = Note("peer-joined", j)
    <3>1. /\ self[b] # None /\ i < j => Sig(b, j) = "none"
          /\ \A q \in Places(i) : /\ inbox[i][q] = Note("peer-joined", j) => q = n
                                  /\ Lists(inbox[i][q], j) => n < q
      BY <1>4, <2>1 DEF Whole, Noticed
    <3>2. m # Note("peer-joined", j)
      BY <1>4, <2>1 DEF Welcome, Queued
    <3> QED BY <1>1, <1>2, <1>3, <1>4, <2>1, <3>1, <3>2 DEF Same
  <2>2. CASE n = p /\ m = Note("peer-joined", j)
    <3>1. /\ Sig(b, j) = "none"
          /\ \A q \in Places(i) : inbox[i][q] # Note("peer-joined", j) /\ ~Lists(inbox[i][q], j)
      BY <1>4, <2>2 DEF Welcome, Queued
    <3>2. ~Lists(m, j)
      BY <2>2 DEF Lists, Note
    <3> QED BY <1>2, <1>3, <1>4, <2>2, <3>1, <3>2
  <2> QED BY <1>2, <1>3, <2>1, <2>2
<1>8. Mail(b, i)'
  <2>1. ASSUME NEW j \in Ids \ again', NEW n \in Places(i)', inbox'[i][n] = Note("offer", j)
        PROVE  /\ j < i /\ Sig(b, j)' = "none"
               /\ \A q \in Places(i)' : inbox'[i][q] = Note("offer", j) => q = n
    <3>1. CASE n \in Places(i) /\ inbox[i][n] = Note("offer", j)
      <4>1. /\ j < i /\ Sig(b, j) = "none"
            /\ \A q \in Places(i) : inbox[i][q] = Note("offer", j) => q = n
        BY <1>4, <3>1 DEF Whole, Mail
      <4>2. m # Note("offer", j)
        BY <1>4, <3>1 DEF Welcome, Queued
      <4> QED BY <1>2, <1>3, <1>4, <4>1, <4>2
    <3>2. CASE n = p /\ m = Note("offer", j)
      <4>1. j < i /\ Sig(b, j) = "none" /\ \A q \in Places(i) : inbox[i][q] # Note("offer", j)
        BY <1>4, <3>2 DEF Welcome, Queued
      <4> QED BY <1>2, <1>3, <1>4, <3>2, <4>1
    <3> QED BY <1>2, <1>3, <2>1, <3>1, <3>2
  <2>2. ASSUME NEW j \in Ids \ again', NEW n \in Places(i)', inbox'[i][n] = Note("answer", j)
        PROVE  /\ i < j /\ Sig(b, j)' = "offered"
               /\ \A q \in Places(i)' : /\ inbox'[i][q] = Note("answer", j) => q = n
                                        /\ inbox'[i][q] = Note("peer-left", j) => n < q
    <3>1. CASE n \in Places(i) /\ inbox[i][n] = Note("answer", j)
      <4>1. /\ i < j /\ Sig(b, j) = "offered"
            /\ \A q \in Places(i) : /\ inbox[i][q] = Note("answer", j) => q = n
                                    /\ inbox[i][q] = Note("peer-left", j) => n < q
        BY <1>4, <3>1 DEF Whole, Mail
      <4>2. m # Note("answer", j)
        BY <1>4, <3>1 DEF Welcome, Queued
      <4> QED BY <1>1, <1>2, <1>3, <1>4, <3>1, <4>1, <4>2
    <3>2. CASE n = p /\ m = Note("answer", j)
      <4>1. /\ i < j /\ Sig(b, j) = "offered"
            /\ \A q \in Places(i) : /\ inbox[i][q] # Note("answer", j)
                                    /\ inbox[i][q] # Note("peer-left", j)
        BY <1>4, <3>2 DEF Welcome, Queued
      <4>2. m # Note("peer-left", j)
        BY <3>2 DEF Note
      <4> QED BY <1>2, <1>3, <1>4, <3>2, <4>1, <4>2
    <3> QED BY <1>2, <1>3, <2>2, <3>1, <3>2
  <2>3. ASSUME NEW j \in Ids \ again', NEW n \in Places(i)', inbox'[i][n] = Note("ice", j)
        PROVE  IF n = 1 THEN Sig(b, j)' \in {"answering", "stable"} \/ j \in relayMode'[b]
                        ELSE inbox'[i][n - 1] \in {Note("offer", j), Note("answer", j)}
    <3>1. CASE n \in Places(i) /\ inbox[i][n] = Note("ice", j)
      <4>1. IF n = 1 THEN Sig(b, j) \in {"answering", "stable"} \/ j \in relayMode[b]
                     ELSE inbox[i][n - 1] \in {Note("offer", j), Note("answer", j)}
        BY <1>4, <3>1 DEF Whole, Mail
      <4>2. n # 1 => n - 1 \in Places(i)
        BY <1>1, <3>1
      <4> QED BY <1>1, <1>4, <4>1, <4>2 DEF Same
    <3>2. CASE k = 2 /\ n = p + 1 /\ inbox'[i][n] = Note("ice", x)
      <4>1. n - 1 = p /\ n # 1
        BY <3>2
      <4>2. j = x
        BY <2>3, <3>2 DEF Note
      <4> QED BY <1>1, <3>2, <4>1, <4>2
    <3> QED BY <1>2, <1>3, <2>3, <3>1, <3>2
  <2> QED BY <2>1, <2>2, <2>3 DEF Mail, Note
<1>9. News(b, i)'
  <2> SUFFICES ASSUME NEW j \in Ids \ again'
               PROVE  /\ Sig(b, j)' # "none" => Heard(i, 0, j)'
                      /\ shown'[b][j] # "none" => Heard(i, 0, j)' \/ Replaced(b, j)'
                      /\ step'[i] = "walked" /\ j \in list'[i] => j \in Members' \cup raced'[i]
                      /\ \A n \in Places(i)' :
                           inbox'[i][n] \in {Note("peer-joined", j), Note("offer", j)} \/ Lists(inbox'[i][n], j)
                             => Heard(i, n, j)'
    BY DEF News, Lists, Note
  <2>1. /\ Sig(b, j)' # "none" => Heard(i, 0, j)'
        /\ shown'[b][j] # "none" => Heard(i, 0, j)' \/ Replaced(b, j)'
    <3>1. /\ Sig(b, j) # "none" => Heard(i, 0, j)
          /\ shown[b][j] # "none" => Heard(i, 0, j) \/ Replaced(b, j)
      BY <1>4 DEF Whole, News
    <3>2. 0 \in 0 .. Len(inbox[i])
      OBVIOUS
    <3>3. Replaced(b, j) => Replaced(b, j)'
      BY Unreplaced, StillReplaced DEF Same
    <3> QED BY <1>4, <3>1, <3>2, <3>3 DEF Same
  <2>2. ASSUME NEW n \in Places(i)',
               inbox'[i][n] \in {Note("peer-joined", j), Note("offer", j)} \/ Lists(inbox'[i][n], j)
        PROVE  Heard(i, n, j)'
    <3>1. CASE n \in Places(i) /\ inbox'[i][n] = inbox[i][n]
      <4>1. Heard(i, n, j)
        BY <1>4, <2>2, <3>1 DEF Whole, News
      <4>2. n \in 0 .. Len(inbox[i])
        BY <1>1, <3>1
      <4> QED BY <4>1, <4>2
    <3>2. CASE inbox'[i][n] = m
      BY <1>4, <2>2, <3>2 DEF Heard
    <3>3. CASE inbox'[i][n] = Note("ice", x)
      BY <1>3, <2>2, <3>3
    <3> QED BY <1>2, <3>1, <3>2, <3>3
  <2> QED BY <2>1, <2>2
<1> QED BY <1>5, <1>6, <1>7, <1>8, <1>9 DEF Whole

-----------------------------------------------------------------------------
(* The invariant, group of actions by group of actions.                     *)
LEMMA IdsKept ==
  ASSUME TypeOK, IdsInv,
         \A j \in Ids : /\ step'[j] = "free" => step[j] = "free" /\ (j \notin again => j \notin again')
                        /\ step[j] = "gone" => step'[j] = "gone",
         \A b \in Browsers, j \in Ids : step'[j] = "free" /\ pc[b][j] = None => pc'[b][j] = None,
         \A i, j \in Ids : step'[j] = "free" /\ j \in list'[i] => j \in list[i],
         \A i \in Ids : \A n \in Places(i)' :
           \/ \E k \in Places(i) : inbox'[i][n] = inbox[i][k]
           \/ \A j \in Ids : /\ Names(inbox'[i][n], j) => step'[j] # "free"
                             /\ inbox'[i][n] = Note("peer-left", j) => step'[j] = "gone",
         \A b \in Browsers : /\ id'[b] # None => id'[b] \in Members'
                             /\ self'[b] = None => \A o \in old'[b] : o.left
  PROVE  IdsInv'
<1>1. ASSUME NEW j \in Ids, step'[j] = "free"
      PROVE  /\ j \notin again' /\ \A b \in Browsers : pc'[b][j] = None
             /\ \A i \in Ids : j \notin list'[i] /\ \A n \in Places(i)' : ~Names(inbox'[i][n], j)
  <2>1. /\ j \notin again /\ \A b \in Browsers : pc[b][j] = None
        /\ \A i \in Ids : j \notin list[i] /\ \A n \in Places(i) : ~Names(inbox[i][n], j)
    BY <1>1 DEF IdsInv, NewIds
  <2>2. ASSUME NEW i \in Ids, NEW n \in Places(i)' PROVE ~Names(inbox'[i][n], j)
    <3>1. CASE \E k \in Places(i) : inbox'[i][n] = inbox[i][k]
      <4> PICK k \in Places(i) : inbox'[i][n] = inbox[i][k]
        BY <3>1
      <4> PICK m : m = inbox[i][k]
        OBVIOUS
      <4>1. ~Names(m, j) /\ inbox'[i][n] = m
        BY <2>1
      <4> QED BY <4>1 DEF Names
    <3> QED BY <1>1, <3>1
  <2> QED BY <1>1, <2>1, <2>2
<1>2. ASSUME NEW i \in Ids, NEW j \in Ids, NEW n \in Places(i)', inbox'[i][n] = Note("peer-left", j)
      PROVE  step'[j] = "gone"
  <2>1. CASE \E k \in Places(i) : inbox'[i][n] = inbox[i][k]
    BY <1>2, <2>1 DEF IdsInv
  <2> QED BY <1>2, <2>1
<1> QED BY <1>1, <1>2 DEF IdsInv, NewIds, Names, Note

LEMMA HandlersKeep ==
  ASSUME NegotiationInv, TypeOK', NEW b \in Browsers, NEW i \in Ids,
         Handled(b, i), i \notin again /\ Whole(b, i) => Moves(b, i)
  PROVE  NegotiationInv'
<1>1. TypeOK /\ IdsInv /\ OneInv /\ PairInv
  BY DEF NegotiationInv
<1>2. /\ id[b] = i /\ Shifted(i) /\ \A l \in Ids : l # i => inbox'[l] = inbox[l]
      /\ step' = step /\ list' = list /\ raced' = raced /\ id' = id /\ again' = again
      /\ Others(b) /\ Members' = Members
  BY DEF Handled, Members
<1>3. /\ 1 \in Places(i)
      /\ \A n \in Places(i)' : n + 1 \in Places(i) /\ inbox'[i][n] = inbox[i][n + 1]
  BY <1>1, <1>2, Behind
<1>4. IdsInv'
  <2>1. ASSUME NEW a \in Browsers, NEW j \in Ids, step'[j] = "free", pc[a][j] = None PROVE pc'[a][j] = None
    <3>1. ~Names(inbox[i][1], j)
      BY <1>1, <1>2, <1>3, <2>1 DEF IdsInv, NewIds
    <3>2. CASE a = b
      BY <2>1, <3>1, <3>2 DEF Handled
    <3>3. CASE a # b
      BY <1>2, <2>1, <3>3 DEF Others
    <3> QED BY <3>2, <3>3
  <2>2. ASSUME NEW l \in Ids, NEW n \in Places(l)' PROVE \E k \in Places(l) : inbox'[l][n] = inbox[l][k]
    <3>1. CASE l = i
      BY <1>3, <2>2, <3>1
    <3>2. CASE l # i
      BY <1>2, <2>2, <3>2 DEF Places
    <3> QED BY <3>1, <3>2
  <2>3. ASSUME NEW a \in Browsers
        PROVE  /\ id'[a] # None => id'[a] \in Members'
               /\ self'[a] = None => \A o \in old'[a] : o.left
    <3>1. /\ id[a] # None => id[a] \in Members
          /\ self[a] = None => \A o \in old[a] : o.left
      BY <1>1 DEF IdsInv
    <3>2. CASE a = b
      BY <1>2, <3>1, <3>2 DEF Handled
    <3>3. CASE a # b
      BY <1>2, <3>1, <3>3 DEF Others
    <3> QED BY <3>2, <3>3
  <2> QED BY <1>1, <1>2, <2>1, <2>2, <2>3, IdsKept
<1>5. \A a \in Browsers, l \in Ids : New(a, l)' => New(a, l) /\ Whole(a, l) /\ (a = b <=> l = i)
  BY <1>1, <1>2, IdAssumption DEF New, OneInv, TypeOK
<1>6. OneInv'
  <2> SUFFICES ASSUME NEW a \in Browsers, NEW l \in Ids, New(a, l)' PROVE Whole(a, l)'
    BY DEF OneInv
  <2>1. CASE a = b
    BY <1>1, <1>5, <2>1, StaysWhole DEF New
  <2>2. CASE a # b
    <3>1. /\ l # i /\ inbox'[l] = inbox[l] /\ pc'[a] = pc[a] /\ old'[a] = old[a]
          /\ self'[a] = self[a] /\ shown'[a] = shown[a] /\ relayMode'[a] = relayMode[a]
      BY <1>2, <1>5, <2>2 DEF Others
    <3>2. \A j \in Ids : Advances(a, j)
      BY <3>1 DEF Advances, Stays, Sig
    <3>3. Alone(a, l)
      BY <1>2, <3>1, <3>2, Unreplaced DEF Alone
    <3> QED BY <1>1, <1>5, <3>3, AloneWhole
  <2> QED BY <2>1, <2>2
<1>7. PairInv'
  <2> SUFFICES ASSUME NEW a \in Browsers, NEW c \in Browsers, NEW p \in Ids, NEW q \in Ids,
                      New(a, p)', New(c, q)', p < q
               PROVE  Pair(a, p, c, q)'
    BY DEF PairInv
  <2>1. New(a, p) /\ New(c, q) /\ Pair(a, p, c, q) /\ p # q /\ ~(q < p) /\ p \notin again /\ q \notin again
    <3>1. p \in Nat /\ q \in Nat /\ New(a, p) /\ New(c, q)
      BY <1>5, IdAssumption
    <3> QED BY <1>1, <3>1 DEF PairInv, New
  <2>2. ~Queued(p, Note("peer-left", q)) /\ ~Queued(q, Note("peer-left", p))
    <3>1. step[p] # "gone" /\ step[q] # "gone"
      BY <1>1, <2>1, IdAssumption DEF IdsInv, Members, New
    <3> QED BY <1>1, <3>1 DEF Queued, IdsInv
  <2>3. \A m \in {Note("offer", p), Note("answer", q)} :
          \A l \in {p, q} : (\E n \in Places(l)' : inbox'[l][n] = m) => Queued(l, m)
    <3> SUFFICES ASSUME NEW m, NEW l \in {p, q}, NEW n \in Places(l)', inbox'[l][n] = m PROVE Queued(l, m)
      OBVIOUS
    <3>1. CASE l = i
      BY <1>3, <3>1 DEF Queued
    <3>2. CASE l # i
      BY <1>2, <3>2 DEF Queued, Places
    <3> QED BY <3>1, <3>2
  <2>4. Queued(q, Note("offer", p))' => Queued(q, Note("offer", p))
    BY <2>3 DEF Queued, Note
  <2>5. Queued(p, Note("answer", q))' => Queued(p, Note("answer", q))
    BY <2>3 DEF Queued, Note
  <2>6. CASE a # b /\ c # b
    <3>1. Sig(a, q)' = Sig(a, q) /\ Sig(c, p)' = Sig(c, p)
      BY <1>2, <2>6 DEF Others, Sig
    <3> QED BY <2>1, <2>4, <2>5, <3>1 DEF Pair
  <2>7. CASE a = b
    <3>1. p = i /\ c # b /\ Sig(c, p)' = Sig(c, p) /\ inbox'[q] = inbox[q]
      BY <1>2, <1>5, <2>1, <2>7 DEF Others, Sig
    <3>2. Moved(b, i, q)
      BY <1>5, <2>1, <2>7, <3>1 DEF Moves
    <3>3. /\ inbox[i][1] # Note("peer-left", q)
          /\ inbox[i][1] = Note("answer", q) => Queued(i, Note("answer", q)) /\ Sig(b, q) = "offered"
          /\ inbox[i][1] # Note("offer", q)
      BY <1>3, <1>5, <2>1, <2>2, <2>7, <3>1 DEF Queued, Whole, Mail
    <3>4. Initiates(b, i, q) => Sig(b, q) = "none"
      BY <1>3, <1>5, <2>1, <2>7, <3>1 DEF Initiates, Whole, Own, Noticed, Lists
    <3> QED BY <2>1, <2>4, <2>5, <2>7, <3>1, <3>2, <3>3, <3>4 DEF Pair, Moved
  <2>8. CASE c = b
    <3>1. q = i /\ a # b /\ Sig(a, q)' = Sig(a, q) /\ inbox'[p] = inbox[p]
      BY <1>2, <1>5, <2>1, <2>8 DEF Others, Sig
    <3>2. Moved(b, i, p)
      BY <1>5, <2>1, <2>8, <3>1 DEF Moves
    <3>3. /\ inbox[i][1] # Note("peer-left", p) /\ ~Initiates(b, i, p)
          /\ inbox[i][1] = Note("offer", p) => Queued(i, Note("offer", p))
          /\ inbox[i][1] # Note("answer", p)
      BY <1>3, <1>5, <2>1, <2>2, <2>8, <3>1 DEF Queued, Whole, Mail, Initiates
    <3> QED BY <2>1, <2>4, <2>5, <2>8, <3>1, <3>2, <3>3 DEF Pair, Moved
  <2> QED BY <2>6, <2>7, <2>8
<1> QED BY <1>4, <1>6, <1>7 DEF NegotiationInv

LEMMA HeardGrows ==
  ASSUME TypeOK, NEW i \in Ids, NEW k \in Nat, Grown(i, k),
         NEW j \in Ids, NEW n \in 0 .. Len(inbox[i]), Heard(i, n, j),
         j \in Members \cup raced[i] => j \in Members' \cup raced'[i]
  PROVE  Heard(i, n, j)'
<1> PICK l \in Nat : l = Len(inbox[i])
  BY InboxTyped
<1>1. \A m \in Places(i) : m \in Places(i)' /\ inbox'[i][m] = inbox[i][m]
  BY DEF Grown, Places
<1>2. CASE j \in Members \cup raced[i]
  BY <1>2 DEF Heard
<1>3. CASE \E m \in Places(i) : n < m /\ inbox[i][m] = Note("peer-left", j)
  <2>1. \E m \in Places(i)' : n < m /\ inbox'[i][m] = Note("peer-left", j)
    BY <1>1, <1>3
  <2> QED BY <2>1 DEF Heard, Note
<1> QED BY <1>2, <1>3 DEF Heard

LEMMA Apart ==
  ASSUME \A a \in Browsers, c \in Browsers : id[a] # None /\ id[a] = id[c] => a = c,
         NEW a \in Browsers, NEW c \in Browsers, NEW p \in Ids, New(a, p), New(c, p)
  PROVE  a = c
BY IdAssumption DEF New

LEMMA SendsKeep ==
  ASSUME NegotiationInv, TypeOK', NEW b \in Browsers, NEW j \in Ids, NEW t \in {"offer", "answer"},
         Send(b, j, t), UNCHANGED <<step, list, raced, id, again>>,
         Others(b), self'[b] = self[b], shown'[b] = shown[b], relayMode'[b] = relayMode[b], Handed(b),
         \A k \in Ids : /\ pc[b][k] = None => pc'[b][k] = None
                        /\ k # j => Sig(b, k)' = Sig(b, k),
         \/ t = "offer" /\ Sig(b, j) = "offering" /\ Sig(b, j)' = "offered"
         \/ t = "answer" /\ Sig(b, j) = "answering" /\ Sig(b, j)' = "stable"
         \/ Sig(b, j)' = Sig(b, j) /\ \E o \in old[b] : o.peer = j /\ ~o.left
  PROVE  NegotiationInv'
<1>1. TypeOK /\ IdsInv /\ OneInv /\ PairInv
  BY DEF NegotiationInv
<1>2. /\ step' = step /\ list' = list /\ raced' = raced /\ id' = id /\ again' = again
      /\ Members' = Members
  BY DEF Members
<1> PICK x : x = id[b]
  OBVIOUS
<1>3. /\ \A l \in Ids : l # j => inbox'[l] = inbox[l]
      /\ ~(x # None /\ j \in Members) => inbox' = inbox
      /\ x # None /\ j \in Members =>
           x \in Ids /\ Grown(j, 2) /\ Place(j, 1) = Note(t, x) /\ Place(j, 2) = Note("ice", x)
  BY <1>1, Sent
<1>4. ASSUME NEW l \in Ids, NEW n \in Places(l)'
      PROVE  \/ n \in Places(l) /\ inbox'[l][n] = inbox[l][n]
             \/ l = j /\ x # None /\ j \in Members /\ inbox'[l][n] \in {Note(t, x), Note("ice", x)}
  <2>1. CASE l = j /\ x # None /\ j \in Members
    <3> PICK k \in Nat : k = Len(inbox[j])
      BY <1>1, InboxTyped
    <3>1. n \in 1 .. k \/ n = k + 1 \/ n = k + 2
      BY <1>3, <2>1 DEF Grown, Places
    <3> QED BY <1>3, <2>1, <3>1 DEF Grown, Place, Places
  <2>2. CASE inbox'[l] = inbox[l]
    BY <2>2 DEF Places
  <2> QED BY <1>3, <2>1, <2>2
<1>5. x # None => x \in Members
  BY <1>1 DEF IdsInv
<1>6. IdsInv'
  <2>1. ASSUME NEW l \in Ids, NEW n \in Places(l)'
        PROVE  \/ \E k \in Places(l) : inbox'[l][n] = inbox[l][k]
               \/ \A k \in Ids : /\ Names(inbox'[l][n], k) => step'[k] # "free"
                                 /\ inbox'[l][n] = Note("peer-left", k) => step'[k] = "gone"
    <3>1. CASE n \in Places(l) /\ inbox'[l][n] = inbox[l][n]
      BY <3>1
    <3>2. CASE x # None /\ inbox'[l][n] \in {Note(t, x), Note("ice", x)}
      <4>1. step'[x] # "free"
        BY <1>2, <1>5, <3>2 DEF Members
      <4> QED BY <3>2, <4>1 DEF Names, Note
    <3> QED BY <1>4, <3>1, <3>2
  <2>2. \A a \in Browsers, k \in Ids : pc[a][k] = None => pc'[a][k] = None
    BY DEF Others
  <2>3. ASSUME NEW a \in Browsers
        PROVE  /\ id'[a] # None => id'[a] \in Members'
               /\ self'[a] = None => \A o \in old'[a] : o.left
    <3>1. /\ id[a] # None => id[a] \in Members
          /\ self[a] = None => \A o \in old[a] : o.left
      BY <1>1 DEF IdsInv
    <3>2. self'[a] = self[a] /\ Handed(a)
      BY Unreplaced DEF Others
    <3> QED BY <1>2, <3>1, <3>2 DEF Handed
  <2> QED BY <1>1, <1>2, <2>1, <2>2, <2>3, IdsKept
<1>7. \A a \in Browsers, l \in Ids : New(a, l)' => New(a, l) /\ Whole(a, l) /\ (a = b <=> l = x)
  BY <1>1, <1>2, IdAssumption DEF New, OneInv, TypeOK
<1>8. ASSUME x \in Ids, New(b, x)
      PROVE  \/ j \in again
             \/ t = "offer" /\ Sig(b, j) = "offering" /\ Sig(b, j)' = "offered" /\ x < j
             \/ t = "answer" /\ Sig(b, j) = "answering" /\ Sig(b, j)' = "stable" /\ j < x
  BY <1>1, <1>8 DEF OneInv, Whole, Sides
<1>9. New(b, x) /\ x \in Ids => x # j
  BY <1>8, IdAssumption DEF New
<1>10. OneInv'
  <2> SUFFICES ASSUME NEW a \in Browsers, NEW l \in Ids, New(a, l)' PROVE Whole(a, l)'
    BY DEF OneInv
  <2>1. CASE inbox'[l] = inbox[l]
    <3>1. \A k \in Ids : Advances(a, k)
      <4>1. CASE a = b
        BY <4>1 DEF Advances, Stays
      <4>2. CASE a # b
        BY <4>2 DEF Others, Advances, Stays, Sig
      <4> QED BY <4>1, <4>2
    <3>2. /\ self'[a] = self[a] /\ shown'[a] = shown[a] /\ relayMode'[a] = relayMode[a]
          /\ Handed(a)
      BY Unreplaced DEF Others
    <3>3. Alone(a, l)
      BY <1>2, <2>1, <3>1, <3>2 DEF Alone
    <3> QED BY <1>1, <1>7, <3>3, AloneWhole
  <2>2. CASE inbox'[l] # inbox[l]
    <3>1. l = j /\ x # None /\ j \in Members /\ x \in Ids
      BY <1>3, <2>2
    <3>2. a # b /\ New(a, j) /\ Whole(a, j)
      BY <1>7, <1>9, <3>1
    <3> PICK m : m = Note(t, x)
      OBVIOUS
    <3>3. Grown(j, 2) /\ m = Place(j, 1) /\ Place(j, 2) = Note("ice", x)
      BY <1>3, <3>1
    <3>4. /\ m.type = t /\ \A k \in Ids : ~Lists(m, k) /\ m # Note("peer-joined", k)
          /\ \A k \in Ids, u \in {"offer", "answer"} : m = Note(u, k) <=> (k = x /\ u = t)
      BY DEF Note, Lists
    <3>5. Welcome(a, j, m)
      <4>1. ASSUME x \notin again
            PROVE  \/ t = "offer" /\ x < j /\ Sig(a, x) = "none" /\ ~Queued(j, m)
                   \/ /\ t = "answer" /\ j < x /\ Sig(a, x) = "offered" /\ ~Queued(j, m)
                      /\ ~Queued(j, Note("peer-left", x))
        <5>1. New(b, x) /\ j \notin again
          BY <3>2, <4>1 DEF New
        <5>2. CASE t = "offer" /\ Sig(b, j) = "offering" /\ x < j
          <6>1. Pair(b, x, a, j)
            BY <1>1, <3>1, <3>2, <5>1, <5>2 DEF PairInv
          <6> QED BY <5>2, <6>1 DEF Pair
        <5>3. CASE t = "answer" /\ Sig(b, j) = "answering" /\ j < x
          <6>1. Pair(a, j, b, x)
            BY <1>1, <3>1, <3>2, <5>1, <5>3 DEF PairInv
          <6>2. ~Queued(j, Note("peer-left", x))
            BY <1>1, <1>5, <3>1 DEF Queued, IdsInv, Members
          <6> QED BY <5>3, <6>1, <6>2 DEF Pair
        <5> QED BY <1>8, <3>1, <5>1, <5>2, <5>3
      <4> QED BY <3>4, <4>1 DEF Welcome
    <3>6. Same(a)
      BY <3>2 DEF Others, Same
    <3>7. \A k \in Ids, n \in 0 .. Len(inbox[j]) : Heard(j, n, k) => Heard(j, n, k)'
      BY <1>1, <1>2, <3>3, HeardGrows
    <3>8. \A k \in Ids \ again : step'[j] = "walked" /\ k \in list'[j] => k \in Members' \cup raced'[j]
      BY <1>2, <3>2 DEF Whole, News
    <3>9. \A k \in Ids \ again : m \in {Note("peer-joined", k), Note("offer", k)} \/ Lists(m, k)
                                   => k \in Members' \cup raced'[j]
      BY <1>2, <1>5, <3>1, <3>4
    <3> QED BY <1>1, <1>2, <3>1, <3>2, <3>3, <3>4, <3>5, <3>6, <3>7, <3>8, <3>9, GrowsWhole
  <2> QED BY <2>1, <2>2
<1>11. PairInv'
  <2> SUFFICES ASSUME NEW a \in Browsers, NEW c \in Browsers, NEW p \in Ids, NEW q \in Ids,
                      New(a, p)', New(c, q)', p < q
               PROVE  Pair(a, p, c, q)'
    BY DEF PairInv
  <2>1. /\ New(a, p) /\ New(c, q) /\ Pair(a, p, c, q) /\ a # c /\ ~(q < p)
        /\ p \notin again /\ q \notin again /\ (a = b <=> p = x) /\ (c = b <=> q = x)
        /\ Whole(a, p) /\ Whole(c, q)
    BY <1>1, <1>7, IdAssumption DEF PairInv, New
  <2>2. ASSUME NEW m, NEW l \in Ids, l # j \/ m \notin {Note(t, x), Note("ice", x)}
        PROVE  (\E n \in Places(l)' : inbox'[l][n] = m) => Queued(l, m)
    BY <1>4, <2>2 DEF Queued
  <2>3. ~(q = j /\ p = x /\ t = "offer") => (Queued(q, Note("offer", p))' => Queued(q, Note("offer", p)))
    <3>1. Note("offer", p) \in {Note(t, x), Note("ice", x)} => p = x /\ t = "offer"
      BY DEF Note
    <3> QED BY <2>2, <3>1 DEF Queued, Note
  <2>4. ~(p = j /\ q = x /\ t = "answer") => (Queued(p, Note("answer", q))' => Queued(p, Note("answer", q)))
    <3>1. Note("answer", q) \in {Note(t, x), Note("ice", x)} => q = x /\ t = "answer"
      BY DEF Note
    <3> QED BY <2>2, <3>1 DEF Queued, Note
  <2>5. /\ ~(a = b /\ q = j) => Sig(a, q)' = Sig(a, q)
        /\ ~(c = b /\ p = j) => Sig(c, p)' = Sig(c, p)
    BY DEF Others, Sig
  <2>6. CASE ~(a = b /\ q = j) /\ ~(c = b /\ p = j)
    BY <2>1, <2>3, <2>4, <2>5, <2>6 DEF Pair
  <2>7. CASE a = b /\ q = j
    <3>1. t = "offer" /\ Sig(b, j) = "offering" /\ Sig(b, j)' = "offered"
      BY <1>8, <2>1, <2>7
    <3>2. Sig(a, q) = "offering" /\ Sig(a, q)' = "offered" /\ Sig(c, p)' = Sig(c, p)
      BY <2>1, <2>5, <2>7, <3>1
    <3>3. ~Queued(p, Note("answer", q))
      BY <2>1, <3>2 DEF Queued, Whole, Mail
    <3>4. ~Queued(p, Note("answer", q))'
      BY <2>4, <3>1, <3>3
    <3> QED BY <3>2, <3>4 DEF Pair
  <2>8. CASE c = b /\ p = j
    <3>1. t = "answer" /\ Sig(b, j) = "answering" /\ Sig(b, j)' = "stable"
      BY <1>8, <2>1, <2>8
    <3>2. Sig(c, p) = "answering" /\ Sig(c, p)' = "stable" /\ Sig(a, q)' = Sig(a, q)
      BY <2>1, <2>5, <2>8, <3>1
    <3>3. ~Queued(q, Note("offer", p))
      BY <2>1, <3>2 DEF Queued, Whole, Mail
    <3>4. ~Queued(q, Note("offer", p))'
      BY <2>3, <3>1, <3>3
    <3>5. Sig(a, q) = "offered"
      BY <2>1, <3>2 DEF Pair
    <3> QED BY <3>2, <3>4, <3>5 DEF Pair
  <2> QED BY <2>6, <2>7, <2>8
<1> QED BY <1>6, <1>10, <1>11 DEF NegotiationInv

(* A step that is not about a signal, of those that have their ids.         *)
LEMMA PairsKept ==
  ASSUME OneInv, PairInv,
         \A a \in Browsers, l \in Ids :
           New(a, l)' => New(a, l) /\ \A k \in Ids : Stays(a, k),
         \A l, j \in Ids : \A n \in Places(l)' : \A m \in {Note("offer", j), Note("answer", j)} :
           inbox'[l][n] = m => Queued(l, m)
  PROVE  PairInv'
<1> SUFFICES ASSUME NEW a \in Browsers, NEW c \in Browsers, NEW p \in Ids, NEW q \in Ids,
                    New(a, p)', New(c, q)', p < q
             PROVE  Pair(a, p, c, q)'
  BY DEF PairInv
<1>1. New(a, p) /\ Pair(a, p, c, q) /\ Stays(a, q) /\ Stays(c, p)
  BY DEF PairInv
<1>4. Sig(a, q) # "answering"
  <2>1. Whole(a, p) /\ q \notin again' /\ p \in Nat /\ q \in Nat /\ ~(q < p)
    BY <1>1, IdAssumption DEF OneInv, New
  <2>2. q \notin again
    BY DEF New
  <2> QED BY <2>1, <2>2 DEF Whole, Sides
<1>2. Queued(q, Note("offer", p))' => Queued(q, Note("offer", p))
  BY DEF Queued, Note
<1>3. Queued(p, Note("answer", q))' => Queued(p, Note("answer", q))
  BY DEF Queued, Note
<1> QED BY <1>1, <1>2, <1>3, <1>4 DEF Pair, Stays

LEMMA LocalKeeps ==
  ASSUME NegotiationInv, TypeOK', NEW b \in Browsers,
         UNCHANGED <<step, list, raced, inbox, id, again>>, Others(b), self'[b] = self[b],
         Handed(b), relayMode[b] \subseteq relayMode'[b],
         \A k \in Ids : /\ pc[b][k] = None => pc'[b][k] = None
                        /\ Stays(b, k)
                        /\ shown'[b][k] # "none" =>
                             shown[b][k] # "none" \/ Sig(b, k) # "none" \/ Replaced(b, k)
  PROVE  NegotiationInv'
<1>1. TypeOK /\ IdsInv /\ OneInv /\ PairInv
  BY DEF NegotiationInv
<1>2. /\ step' = step /\ list' = list /\ raced' = raced /\ id' = id /\ again' = again /\ inbox' = inbox
      /\ Members' = Members /\ \A l \in Ids : Places(l)' = Places(l)
  BY DEF Members, Places
<1>3. IdsInv'
  <2>1. \A a \in Browsers, k \in Ids : pc[a][k] = None => pc'[a][k] = None
    BY DEF Others
  <2>2. ASSUME NEW a \in Browsers
        PROVE  /\ id'[a] # None => id'[a] \in Members'
               /\ self'[a] = None => \A o \in old'[a] : o.left
    <3>1. /\ id[a] # None => id[a] \in Members
          /\ self[a] = None => \A o \in old[a] : o.left
      BY <1>1 DEF IdsInv
    <3>2. self'[a] = self[a] /\ Handed(a)
      BY Unreplaced DEF Others
    <3> QED BY <1>2, <3>1, <3>2 DEF Handed
  <2> QED BY <1>1, <1>2, <2>1, <2>2, IdsKept
<1>4. \A a \in Browsers, k \in Ids : Stays(a, k)
  <2> SUFFICES ASSUME NEW a \in Browsers, NEW k \in Ids, a # b PROVE Stays(a, k)
    OBVIOUS
  <2> QED BY DEF Others, Stays, Sig
<1>5. \A a \in Browsers, l \in Ids : New(a, l)' => New(a, l) /\ Whole(a, l)
  BY <1>1, <1>2 DEF New, OneInv
<1>6. OneInv'
  <2> SUFFICES ASSUME NEW a \in Browsers, NEW l \in Ids, New(a, l)' PROVE Whole(a, l)'
    BY DEF OneInv
  <2>1. \A k \in Ids : Advances(a, k)
    BY <1>4 DEF Advances
  <2>2. ASSUME NEW k \in Ids \ again, shown'[a][k] # "none"
        PROVE  shown[a][k] # "none" \/ Sig(a, k) # "none" \/ Replaced(a, k)
    <3>1. a # b => shown'[a] = shown[a]
      BY DEF Others
    <3> QED BY <2>2, <3>1
  <2>3. self'[a] = self[a] /\ Handed(a) /\ relayMode[a] \subseteq relayMode'[a]
    BY Unreplaced DEF Others
  <2>4. Alone(a, l)
    BY <1>2, <2>1, <2>2, <2>3 DEF Alone
  <2> QED BY <1>1, <1>5, <2>4, AloneWhole
<1>7. PairInv'
  BY <1>1, <1>2, <1>4, <1>5, PairsKept DEF Queued
<1> QED BY <1>3, <1>6, <1>7 DEF NegotiationInv

LEMMA WalkKeeps ==
  ASSUME NegotiationInv, NEW i \in Ids, Walk(i)
  PROVE  NegotiationInv'
<1>1. TypeOK /\ IdsInv /\ OneInv /\ PairInv
  BY DEF NegotiationInv
<1>2. /\ step[i] = "registered" /\ step' = [step EXCEPT ![i] = "walked"]
      /\ list' = [list EXCEPT ![i] = Members \ {i}]
      /\ inbox' = inbox /\ raced' = raced /\ id' = id /\ self' = self /\ pc' = pc /\ old' = old
      /\ channels' = channels /\ relayMode' = relayMode /\ shown' = shown /\ again' = again
  BY DEF Walk, page
<1>3. /\ step'[i] = "walked" /\ list'[i] = Members \ {i}
      /\ \A j \in Ids : j # i => step'[j] = step[j] /\ list'[j] = list[j]
  BY <1>1, <1>2 DEF TypeOK
<1>4. Members' = Members
  BY <1>2, <1>3 DEF Members
<1>5. TypeOK'
  <2>1. step' \in [Ids -> {"free", "registered", "walked", "joined", "gone"}] /\ list' \in [Ids -> SUBSET Ids]
    BY <1>1, <1>2 DEF TypeOK, Members
  <2> QED BY <1>1, <1>2, <2>1 DEF TypeOK, Replaced
<1>6. IdsInv'
  <2>1. \A j \in Ids : /\ step'[j] = "free" => step[j] = "free"
                       /\ step[j] = "gone" => step'[j] = "gone"
    BY <1>2, <1>3
  <2>2. \A l, j \in Ids : step'[j] = "free" /\ j \in list'[l] => j \in list[l]
    BY <1>3, <2>1 DEF Members
  <2>3. \A a \in Browsers : /\ id'[a] # None => id'[a] \in Members'
                            /\ self'[a] = None => \A o \in old'[a] : o.left
    BY <1>1, <1>2, <1>4 DEF IdsInv
  <2> QED BY <1>1, <1>2, <2>1, <2>2, <2>3, IdsKept DEF Places
<1>7. \A a \in Browsers, l \in Ids : New(a, l)' => New(a, l) /\ Whole(a, l)
  BY <1>1, <1>2 DEF New, OneInv
<1>8. \A a \in Browsers, k \in Ids : Sig(a, k)' = Sig(a, k)
  BY <1>2 DEF Sig
<1>9. OneInv'
  <2> SUFFICES ASSUME NEW a \in Browsers, NEW l \in Ids, New(a, l)' PROVE Whole(a, l)'
    BY DEF OneInv
  <2>1. \A k \in Ids : Advances(a, k)
    BY <1>8 DEF Advances, Stays
  <2>2. \/ step'[l] = step[l] /\ list'[l] = list[l]
        \/ step[l] = "registered" /\ step'[l] = "walked" /\ list'[l] \subseteq Members
    BY <1>2, <1>3
  <2>3. Alone(a, l)
    BY <1>2, <1>4, <2>1, <2>2, Unreplaced DEF Alone
  <2> QED BY <1>1, <1>7, <2>3, AloneWhole
<1>10. PairInv'
  BY <1>1, <1>2, <1>7, <1>8, PairsKept DEF Queued, Places, Stays
<1> QED BY <1>5, <1>6, <1>9, <1>10 DEF NegotiationInv

LEMMA AcknowledgeKeeps ==
  ASSUME NegotiationInv, NEW i \in Ids, Acknowledge(i)
  PROVE  NegotiationInv'
<1>1. TypeOK /\ IdsInv /\ OneInv /\ PairInv
  BY DEF NegotiationInv
<1> PICK m : m = [type |-> "joined", peers |-> list[i]]
  OBVIOUS
<1>2. /\ step[i] = "walked" /\ step' = [step EXCEPT ![i] = "joined"]
      /\ list' = [list EXCEPT ![i] = {}] /\ inbox' = [inbox EXCEPT ![i] = Append(inbox[i], m)]
      /\ raced' = raced /\ id' = id /\ self' = self /\ pc' = pc /\ old' = old
      /\ channels' = channels /\ relayMode' = relayMode /\ shown' = shown /\ again' = again
  BY DEF Acknowledge, page
<1>3. /\ step'[i] = "joined" /\ list'[i] = {}
      /\ \A j \in Ids : j # i => step'[j] = step[j] /\ list'[j] = list[j] /\ inbox'[j] = inbox[j]
  BY <1>1, <1>2 DEF TypeOK
<1>4. Members' = Members
  BY <1>2, <1>3 DEF Members
<1>5. m \in Messages /\ m.type = "joined" /\ \A j \in Ids : Names(m, j) <=> j \in list[i]
  BY <1>1 DEF TypeOK, Messages, Names
<1>6. /\ inbox' \in [Ids -> Seq(Messages)] /\ Grown(i, 1) /\ Place(i, 1) = m
  <2> PICK q \in Seq(Messages) : q = inbox[i]
    BY <1>1, InboxTyped
  <2>1. /\ Append(q, m) \in Seq(Messages) /\ Len(Append(q, m)) = Len(q) + 1
        /\ Append(q, m)[Len(q) + 1] = m /\ \A n \in 1 .. Len(q) : Append(q, m)[n] = q[n]
    BY <1>5, AppendProperties
  <2>2. inbox \in [Ids -> Seq(Messages)] /\ inbox'[i] = Append(q, m)
    BY <1>1, <1>2, InboxTyped
  <2> QED BY <1>2, <2>1, <2>2 DEF Grown, Place, Places
<1>7. TypeOK'
  <2>1. step' \in [Ids -> {"free", "registered", "walked", "joined", "gone"}] /\ list' \in [Ids -> SUBSET Ids]
    BY <1>1, <1>2 DEF TypeOK
  <2> QED BY <1>1, <1>2, <1>6, <2>1 DEF TypeOK, Replaced
<1>8. ASSUME NEW l \in Ids, NEW n \in Places(l)'
      PROVE  \/ n \in Places(l) /\ inbox'[l][n] = inbox[l][n]
             \/ l = i /\ inbox'[l][n] = m
  <2>1. CASE l = i
    <3> PICK k \in Nat : k = Len(inbox[i])
      BY <1>1, InboxTyped
    <3>1. n \in 1 .. k \/ n = k + 1
      BY <1>6, <2>1 DEF Grown, Places
    <3> QED BY <1>6, <2>1, <3>1 DEF Grown, Place, Places
  <2>2. CASE l # i
    BY <1>3, <2>2 DEF Places
  <2> QED BY <2>1, <2>2
<1>9. IdsInv'
  <2>1. \A j \in Ids : /\ step'[j] = "free" => step[j] = "free"
                       /\ step[j] = "gone" => step'[j] = "gone"
    BY <1>2, <1>3
  <2>2. \A l, j \in Ids : step'[j] = "free" /\ j \in list'[l] => j \in list[l]
    BY <1>3
  <2>3. \A a \in Browsers : /\ id'[a] # None => id'[a] \in Members'
                            /\ self'[a] = None => \A o \in old'[a] : o.left
    BY <1>1, <1>2, <1>4 DEF IdsInv
  <2>4. ASSUME NEW l \in Ids, NEW n \in Places(l)'
        PROVE  \/ \E k \in Places(l) : inbox'[l][n] = inbox[l][k]
               \/ \A k \in Ids : /\ Names(inbox'[l][n], k) => step'[k] # "free"
                                 /\ inbox'[l][n] = Note("peer-left", k) => step'[k] = "gone"
    <3>1. CASE n \in Places(l) /\ inbox'[l][n] = inbox[l][n]
      BY <3>1
    <3>2. CASE inbox'[l][n] = m
      <4>1. \A k \in Ids : k \in list[i] => step'[k] # "free"
        BY <1>1, <2>1 DEF IdsInv, NewIds
      <4>2. \A k \in Ids : m # Note("peer-left", k)
        BY <1>5 DEF Note
      <4>3. \A k \in Ids : Names(inbox'[l][n], k) <=> k \in list[i]
        BY <1>5, <3>2 DEF Names
      <4> QED BY <3>2, <4>1, <4>2, <4>3
    <3> QED BY <1>8, <3>1, <3>2
  <2> QED BY <1>1, <1>2, <2>1, <2>2, <2>3, <2>4, IdsKept
<1>10. \A a \in Browsers, l \in Ids : New(a, l)' => New(a, l) /\ Whole(a, l)
  BY <1>1, <1>2 DEF New, OneInv
<1>11. \A a \in Browsers, k \in Ids : Sig(a, k)' = Sig(a, k)
  BY <1>2 DEF Sig
<1>12. OneInv'
  <2> SUFFICES ASSUME NEW a \in Browsers, NEW l \in Ids, New(a, l)' PROVE Whole(a, l)'
    BY DEF OneInv
  <2>1. CASE l # i
    <3>1. Alone(a, l)
      BY <1>2, <1>3, <1>4, <1>11, <2>1, Unreplaced DEF Alone, Advances, Stays
    <3> QED BY <1>1, <1>10, <3>1, AloneWhole
  <2>2. CASE l = i
    <3>1. Whole(a, i)
      BY <1>10, <2>2
    <3>2. \A k \in Ids, u \in {"peer-joined", "offer", "answer"} : m # Note(u, k)
      BY <1>5 DEF Note
    <3>3. Welcome(a, i, m)
      BY <1>2, <1>5, <3>1, <3>2 DEF Welcome, Whole, Own
    <3>4. Same(a)
      BY <1>2 DEF Same
    <3>5. \A k \in Ids, n \in 0 .. Len(inbox[i]) : Heard(i, n, k) => Heard(i, n, k)'
      BY <1>1, <1>2, <1>4, <1>6, HeardGrows
    <3>6. \A k \in Ids \ again : Lists(m, k) => k \in Members' \cup raced'[i]
      BY <1>2, <1>4, <1>5, <3>1 DEF Lists, Whole, News
    <3> PICK k \in {1, 2} : k = 1
      OBVIOUS
    <3>7. /\ Grown(i, k) /\ m = Place(i, 1) /\ m.type # "ice"
          /\ k = 2 => Place(i, 2) = Note("ice", i) /\ m \in {Note("offer", i), Note("answer", i)}
          /\ again \subseteq again' /\ step'[i] \notin {"registered", "walked"}
      BY <1>2, <1>3, <1>5, <1>6
    <3> QED BY <1>1, <2>2, <3>1, <3>2, <3>3, <3>4, <3>5, <3>6, <3>7, GrowsWhole
  <2> QED BY <2>1, <2>2
<1>13. PairInv'
  <2>1. ASSUME NEW l \in Ids, NEW j \in Ids, NEW n \in Places(l)',
               NEW x \in {Note("offer", j), Note("answer", j)}, inbox'[l][n] = x
        PROVE  Queued(l, x)
    <3>1. m # x
      BY <1>5 DEF Note
    <3> QED BY <1>8, <2>1, <3>1 DEF Queued
  <2> QED BY <1>1, <1>10, <1>11, <2>1, PairsKept DEF Stays
<1> QED BY <1>7, <1>9, <1>12, <1>13 DEF NegotiationInv

(* Somebody comes or goes.                                                  *)
LEMMA NoticePlaces ==
  ASSUME TypeOK, NEW i \in Ids, NEW t \in {"peer-joined", "peer-left"}, Notify(i, t),
         NEW l \in Ids, NEW n \in Places(l)'
  PROVE  \/ n \in Places(l) /\ inbox'[l][n] = inbox[l][n]
         \/ inbox'[l][n] = Note(t, i)
<1>1. CASE l \in Members \ {i}
  <2> PICK k \in Nat : k = Len(inbox[l])
    BY InboxTyped
  <2>1. Grown(l, 1) /\ Place(l, 1) = Note(t, i)
    BY <1>1, Notified
  <2>2. n \in 1 .. k \/ n = k + 1
    BY <2>1 DEF Grown, Places
  <2> QED BY <2>1, <2>2 DEF Grown, Place, Places
<1>2. CASE l \notin Members \ {i}
  <2>1. inbox'[l] = <<>>
    BY <1>2, Notified
  <2> QED BY <2>1, EmptySeq DEF Places
<1> QED BY <1>1, <1>2

LEMMA NoticeQueue ==
  ASSUME TypeOK, NEW i \in Ids, NEW t \in {"peer-joined", "peer-left"}, Notify(i, t),
         NEW l \in Ids, NEW j \in Ids, NEW n \in Places(l)',
         NEW m \in {Note("offer", j), Note("answer", j)}, inbox'[l][n] = m
  PROVE  Queued(l, m)
<1>1. Note(t, i) # m
  BY DEF Note
<1>2. n \in Places(l) /\ inbox'[l][n] = inbox[l][n]
  BY <1>1, NoticePlaces
<1> QED BY <1>2 DEF Queued

LEMMA NoticeWhole ==
  ASSUME TypeOK, IdsInv, NEW a \in Browsers, NEW l \in Ids, New(a, l), Whole(a, l),
         NEW i \in Ids, l # i, NEW t \in {"peer-joined", "peer-left"}, Notify(i, t), Same(a),
         again \subseteq again', step'[l] = step[l], list'[l] = list[l],
         \/ t = "peer-joined" /\ step[i] = "free" /\ Members' = Members \cup {i}
         \/ t = "peer-left" /\ Members' = Members \ {i}
  PROVE  Whole(a, l)'
<1> PICK m : m = Note(t, i)
  OBVIOUS
<1>1. l \in Members
  BY IdAssumption DEF IdsInv, New
<1>2. /\ Grown(l, 1) /\ Place(l, 1) = m /\ raced[l] \subseteq raced'[l]
      /\ step[l] = "walked" => i \in raced'[l]
  BY <1>1, Notified
<1>3. /\ m.type = t /\ \A j \in Ids : ~Lists(m, j) /\ m # Note("offer", j) /\ m # Note("answer", j)
      /\ \A j \in Ids, u \in {"peer-joined", "peer-left"} : m = Note(u, j) <=> (j = i /\ u = t)
  BY DEF Note, Lists
<1>4. Welcome(a, l, m)
  <2>1. ASSUME t = "peer-joined"
        PROVE  Sig(a, i) = "none" /\ ~Queued(l, m) /\ \A n \in Places(l) : ~Lists(inbox[l][n], i)
    <3>1. pc[a][i] = None /\ \A n \in Places(l) : ~Names(inbox[l][n], i)
      BY <2>1 DEF IdsInv, NewIds
    <3>2. Names(m, i)
      BY DEF Names, Note
    <3> QED BY <3>1, <3>2 DEF Sig, Queued, Names, Lists
  <2> QED BY <1>3, <2>1 DEF Welcome
<1>5. ASSUME NEW j \in Ids, NEW n \in 0 .. Len(inbox[l]), Heard(l, n, j) PROVE Heard(l, n, j)'
  <2>1. CASE t = "peer-left" /\ j = i
    <3> PICK k \in Nat : k = Len(inbox[l]) + 1
      BY InboxTyped
    <3>1. Len(inbox[l]) \in Nat /\ n < k /\ k \in Places(l)' /\ inbox'[l][k] = Note("peer-left", j)
      BY <1>2, <2>1, InboxTyped DEF Grown, Place, Places
    <3>2. \E q \in Places(l)' : n < q /\ inbox'[l][q] = Note("peer-left", j)
      BY <3>1
    <3> QED BY <3>2 DEF Heard, Note
  <2>2. CASE ~(t = "peer-left" /\ j = i)
    BY <1>2, <1>5, <2>2, HeardGrows
  <2> QED BY <2>1, <2>2
<1>6. \A j \in Ids \ again : step'[l] = "walked" /\ j \in list'[l] => j \in Members' \cup raced'[l]
  <2> SUFFICES ASSUME NEW j \in Ids \ again, step[l] = "walked", j \in list[l]
               PROVE  j \in Members' \cup raced'[l]
    OBVIOUS
  <2>1. j \in Members \cup raced[l]
    BY DEF Whole, News
  <2> QED BY <1>2, <2>1
<1>7. \A j \in Ids \ again : m \in {Note("peer-joined", j), Note("offer", j)} \/ Lists(m, j)
                               => j \in Members' \cup raced'[l]
  BY <1>3
<1> PICK k \in {1, 2} : k = 1
  OBVIOUS
<1>8. /\ Grown(l, k) /\ m = Place(l, 1) /\ m.type # "ice" /\ m.type # "joined"
      /\ k = 2 => Place(l, 2) = Note("ice", i) /\ m \in {Note("offer", i), Note("answer", i)}
  BY <1>2, <1>3
<1> QED BY <1>4, <1>5, <1>6, <1>7, <1>8, GrowsWhole

LEMMA RegisterKeeps ==
  ASSUME NegotiationInv, NEW b \in Browsers, NEW i \in Ids, Register(b, i)
  PROVE  NegotiationInv'
<1>1. TypeOK /\ IdsInv /\ OneInv /\ PairInv
  BY DEF NegotiationInv
<1> PICK t \in {"peer-joined", "peer-left"} : t = "peer-joined"
  OBVIOUS
<1>2. /\ id[b] = None /\ step[i] = "free" /\ step' = [step EXCEPT ![i] = "registered"]
      /\ Notify(i, t) /\ id' = [id EXCEPT ![b] = i]
      /\ again' = (IF Kept(b) THEN again \cup {i} ELSE again)
      /\ list' = list /\ self' = self /\ pc' = pc /\ old' = old
      /\ channels' = channels /\ relayMode' = relayMode /\ shown' = shown
  BY DEF Register, page
<1>3. /\ step'[i] = "registered" /\ \A j \in Ids : j # i => step'[j] = step[j]
      /\ id'[b] = i /\ \A a \in Browsers : a # b => id'[a] = id[a]
      /\ again \subseteq again' /\ again' \subseteq again \cup {i}
  BY <1>1, <1>2 DEF TypeOK
<1>4. Members' = Members \cup {i} /\ i \notin Members
  BY <1>2, <1>3 DEF Members
<1>5. \A a \in Browsers : id[a] # i
  BY <1>1, <1>4, IdAssumption DEF IdsInv
<1>6. TypeOK'
  <2>1. /\ step' \in [Ids -> {"free", "registered", "walked", "joined", "gone"}]
        /\ id' \in [Browsers -> Ids \cup {None}] /\ again' \subseteq Ids
    BY <1>1, <1>2, <1>3 DEF TypeOK
  <2>2. inbox' \in [Ids -> Seq(Messages)] /\ raced' \in [Ids -> SUBSET Ids]
    BY <1>1, <1>2, Notified
  <2>3. ASSUME NEW a \in Browsers, NEW c \in Browsers, id'[a] # None, id'[a] = id'[c] PROVE a = c
    <3>1. id[a] # None /\ id[a] = id[c] => a = c
      BY <1>1 DEF TypeOK
    <3> QED BY <1>3, <1>5, <2>3, <3>1
  <2> QED BY <1>1, <1>2, <2>1, <2>2, <2>3 DEF TypeOK, Replaced
<1>7. IdsInv'
  <2>1. \A j \in Ids : /\ step'[j] = "free" => step[j] = "free" /\ (j \notin again => j \notin again')
                       /\ step[j] = "gone" => step'[j] = "gone"
    BY <1>2, <1>3
  <2>2. \A a \in Browsers : /\ id'[a] # None => id'[a] \in Members'
                            /\ self'[a] = None => \A o \in old'[a] : o.left
    BY <1>1, <1>2, <1>3, <1>4 DEF IdsInv
  <2>3. ASSUME NEW l \in Ids, NEW n \in Places(l)'
        PROVE  \/ \E k \in Places(l) : inbox'[l][n] = inbox[l][k]
               \/ \A k \in Ids : /\ Names(inbox'[l][n], k) => step'[k] # "free"
                                 /\ inbox'[l][n] = Note("peer-left", k) => step'[k] = "gone"
    <3>1. CASE n \in Places(l) /\ inbox'[l][n] = inbox[l][n]
      BY <3>1
    <3>2. CASE inbox'[l][n] = Note(t, i)
      BY <1>3, <3>2 DEF Names, Note
    <3> QED BY <1>1, <1>2, <3>1, <3>2, NoticePlaces
  <2> QED BY <1>1, <1>2, <2>1, <2>2, <2>3, IdsKept
<1>8. inbox'[i] = <<>> /\ Places(i)' = {}
  <2>1. inbox'[i] = <<>>
    BY <1>1, <1>2, <1>4, Notified
  <2> QED BY <2>1, EmptySeq DEF Places
<1>9. ASSUME New(b, i)'
      PROVE  /\ self'[b] = None /\ \A o \in old'[b] : o.left
             /\ \A j \in Ids : Sig(b, j)' = "none" /\ (shown'[b][j] = "none" \/ Replaced(b, j)')
  <2>1. ~Kept(b)
    BY <1>2, <1>9 DEF New
  <2>2. /\ self[b] = None /\ pc[b] = NoConnections
        /\ \A j \in Ids : shown[b][j] = "none" \/ Replaced(b, j)
    BY <2>1 DEF Kept
  <2> QED BY <1>1, <1>2, <2>2 DEF IdsInv, NoConnections, Replaced, Sig
<1>10. \A a \in Browsers, l \in Ids : New(a, l)' =>
         \/ a = b /\ l = i
         \/ a # b /\ l # i /\ New(a, l) /\ Whole(a, l)
  BY <1>1, <1>3, <1>5, IdAssumption DEF New, OneInv
<1>11. OneInv'
  <2> SUFFICES ASSUME NEW a \in Browsers, NEW l \in Ids, New(a, l)' PROVE Whole(a, l)'
    BY DEF OneInv
  <2>1. CASE a = b /\ l = i
    <3>1. Sides(b, i)'
      BY <1>9, <2>1 DEF Sides
    <3>2. Own(b, i)' /\ Noticed(b, i)' /\ Mail(b, i)'
      BY <1>8, <1>9, <2>1 DEF Own, Noticed, Mail
    <3>3. News(b, i)'
      BY <1>3, <1>8, <1>9, <2>1 DEF News
    <3> QED BY <2>1, <3>1, <3>2, <3>3 DEF Whole
  <2>2. CASE a # b /\ l # i /\ New(a, l) /\ Whole(a, l)
    <3>1. Same(a) /\ step'[l] = step[l] /\ list'[l] = list[l]
      BY <1>2, <1>3, <2>2 DEF Same
    <3> QED BY <1>1, <1>2, <1>3, <1>4, <2>2, <3>1, NoticeWhole
  <2> QED BY <1>10, <2>1, <2>2
<1>12. \A a \in Browsers, k \in Ids : Sig(a, k)' = Sig(a, k)
  BY <1>2 DEF Sig
<1>13. ASSUME NEW l \in Ids, NEW j \in Ids, NEW n \in Places(l)',
              NEW x \in {Note("offer", j), Note("answer", j)}, inbox'[l][n] = x
       PROVE  Queued(l, x)
  BY <1>1, <1>2, <1>13, NoticeQueue
<1>14. PairInv'
  <2> SUFFICES ASSUME NEW a \in Browsers, NEW c \in Browsers, NEW p \in Ids, NEW q \in Ids,
                      New(a, p)', New(c, q)', p < q
               PROVE  Pair(a, p, c, q)'
    BY DEF PairInv
  <2>1. Queued(q, Note("offer", p))' => Queued(q, Note("offer", p))
    BY <1>13 DEF Queued, Note
  <2>2. Queued(p, Note("answer", q))' => Queued(p, Note("answer", q))
    BY <1>13 DEF Queued, Note
  <2>3. CASE a # b /\ c # b
    <3>1. Pair(a, p, c, q)
      BY <1>1, <1>10, <2>3 DEF PairInv
    <3> QED BY <1>12, <2>1, <2>2, <3>1 DEF Pair
  <2>4. CASE a = b
    <3>1. p = i /\ Sig(a, q)' = "none"
      BY <1>9, <1>10, <2>4
    <3>2. pc[c][i] = None /\ \A n \in Places(q) : ~Names(inbox[q][n], i)
      BY <1>1, <1>2 DEF IdsInv, NewIds
    <3>3. Names(Note("offer", i), i)
      BY DEF Names, Note
    <3>4. Sig(c, p)' = "none" /\ ~Queued(q, Note("offer", p))'
      BY <1>12, <2>1, <3>1, <3>2, <3>3 DEF Sig, Queued
    <3> QED BY <3>1, <3>4 DEF Pair
  <2>5. CASE c = b
    <3>1. q = i /\ Sig(c, p)' = "none"
      BY <1>9, <1>10, <2>5
    <3>2. ~Queued(q, Note("offer", p))'
      BY <1>8, <3>1 DEF Queued
    <3> QED BY <3>1, <3>2 DEF Pair
  <2> QED BY <2>3, <2>4, <2>5
<1> QED BY <1>6, <1>7, <1>11, <1>14 DEF NegotiationInv

LEMMA UnregisterKeeps ==
  ASSUME NegotiationInv, NEW b \in Browsers, Unregister(b), Others(b), UNCHANGED <<list, again>>,
         self' \in [Browsers -> Ids \cup {None}],
         pc' \in [Browsers -> [Ids -> Connections \cup {None}]],
         old' \in [Browsers -> SUBSET ReplacedConnections],
         channels' \in [Browsers -> SUBSET Ids], relayMode' \in [Browsers -> SUBSET Ids],
         shown' \in [Browsers -> [Ids -> {"none", "connecting", "connected"}]],
         \A a \in Browsers : \A j \in channels'[a] : pc'[a][j] # None \/ Replaced(a, j)',
         \A j \in Ids : pc[b][j] = None => pc'[b][j] = None,
         self'[b] = None => \A o \in old'[b] : o.left
  PROVE  NegotiationInv'
<1>1. TypeOK /\ IdsInv /\ OneInv /\ PairInv
  BY DEF NegotiationInv
<1> PICK t \in {"peer-joined", "peer-left"} : t = "peer-left"
  OBVIOUS
<1> PICK i \in Ids : i = id[b]
  BY <1>1 DEF TypeOK, Unregister
<1>2. /\ id' = [id EXCEPT ![b] = None] /\ step' = [step EXCEPT ![i] = "gone"] /\ Notify(i, t)
      /\ list' = list /\ again' = again
  BY DEF Unregister
<1>3. /\ step'[i] = "gone" /\ \A j \in Ids : j # i => step'[j] = step[j]
      /\ id'[b] = None /\ \A a \in Browsers : a # b => id'[a] = id[a] /\ id[a] # i
  BY <1>1, <1>2, IdAssumption DEF TypeOK
<1>4. Members' = Members \ {i} /\ i \in Members
  <2>1. i \in Members
    BY <1>1, IdAssumption DEF IdsInv
  <2>2. \A j \in Ids : j \in Members' <=> j \in Members /\ j # i
    BY <1>3 DEF Members
  <2>3. Members \subseteq Ids /\ Members' \subseteq Ids
    BY DEF Members
  <2> QED BY <2>1, <2>2, <2>3
<1>5. TypeOK'
  <2>1. /\ step' \in [Ids -> {"free", "registered", "walked", "joined", "gone"}]
        /\ id' \in [Browsers -> Ids \cup {None}]
    BY <1>1, <1>2 DEF TypeOK
  <2>2. inbox' \in [Ids -> Seq(Messages)] /\ raced' \in [Ids -> SUBSET Ids]
    BY <1>1, <1>2, Notified
  <2>3. ASSUME NEW a \in Browsers, NEW c \in Browsers, id'[a] # None, id'[a] = id'[c] PROVE a = c
    <3>1. id[a] # None /\ id[a] = id[c] => a = c
      BY <1>1 DEF TypeOK
    <3> QED BY <1>3, <2>3, <3>1
  <2> QED BY <1>1, <1>2, <2>1, <2>2, <2>3 DEF TypeOK
<1>6. IdsInv'
  <2>1. \A j \in Ids : /\ step'[j] = "free" => step[j] = "free"
                       /\ step[j] = "gone" => step'[j] = "gone"
    BY <1>3
  <2>2. ASSUME NEW a \in Browsers
        PROVE  /\ id'[a] # None => id'[a] \in Members'
               /\ self'[a] = None => \A o \in old'[a] : o.left
    <3>1. /\ id[a] # None => id[a] \in Members
          /\ self[a] = None => \A o \in old[a] : o.left
      BY <1>1 DEF IdsInv
    <3> QED BY <1>3, <1>4, <3>1 DEF Others
  <2>3. ASSUME NEW l \in Ids, NEW n \in Places(l)'
        PROVE  \/ \E k \in Places(l) : inbox'[l][n] = inbox[l][k]
               \/ \A k \in Ids : /\ Names(inbox'[l][n], k) => step'[k] # "free"
                                 /\ inbox'[l][n] = Note("peer-left", k) => step'[k] = "gone"
    <3>1. CASE n \in Places(l) /\ inbox'[l][n] = inbox[l][n]
      BY <3>1
    <3>2. CASE inbox'[l][n] = Note(t, i)
      BY <1>3, <3>2 DEF Names, Note
    <3> QED BY <1>1, <1>2, <3>1, <3>2, NoticePlaces
  <2>4. \A a \in Browsers, j \in Ids : pc[a][j] = None => pc'[a][j] = None
    BY DEF Others
  <2> QED BY <1>1, <1>2, <2>1, <2>2, <2>3, <2>4, IdsKept
<1>7. \A a \in Browsers, l \in Ids :
        New(a, l)' => a # b /\ l # i /\ New(a, l) /\ Whole(a, l) /\ Same(a)
  BY <1>1, <1>2, <1>3, IdAssumption DEF New, OneInv, Others, Same
<1>8. OneInv'
  <2> SUFFICES ASSUME NEW a \in Browsers, NEW l \in Ids, New(a, l)' PROVE Whole(a, l)'
    BY DEF OneInv
  <2>1. l # i /\ New(a, l) /\ Whole(a, l) /\ Same(a) /\ step'[l] = step[l] /\ list'[l] = list[l]
    BY <1>2, <1>3, <1>7
  <2> QED BY <1>1, <1>2, <1>4, <2>1, NoticeWhole
<1>9. PairInv'
  <2>1. \A a \in Browsers, l \in Ids : New(a, l)' => New(a, l) /\ \A k \in Ids : Stays(a, k)
    BY <1>7 DEF Same, Stays, Sig
  <2>2. ASSUME NEW l \in Ids, NEW j \in Ids, NEW n \in Places(l)',
               NEW x \in {Note("offer", j), Note("answer", j)}, inbox'[l][n] = x
        PROVE  Queued(l, x)
    BY <1>1, <1>2, <2>2, NoticeQueue
  <2> QED BY <1>1, <2>1, <2>2, PairsKept
<1> QED BY <1>5, <1>6, <1>8, <1>9 DEF NegotiationInv

(* The actions of a browser that are no handlers.                           *)
LEMMA AwaitKeeps ==
  ASSUME NegotiationInv, NEW b \in Browsers, NEW j \in Ids, OfferMade(b, j) \/ AnswerMade(b, j)
  PROVE  NegotiationInv'
<1>1. TypeOK
  BY DEF NegotiationInv
<1> PICK t \in {"offer", "answer"}, s \in {"offered", "stable"} :
      \/ t = "offer" /\ s = "offered" /\ OfferMade(b, j)
      \/ t = "answer" /\ s = "stable" /\ AnswerMade(b, j)
  OBVIOUS
<1>2. /\ pc[b][j] # None
      /\ \/ t = "offer" /\ s = "offered" /\ pc[b][j].sig = "offering"
         \/ t = "answer" /\ s = "stable" /\ pc[b][j].sig = "answering"
      /\ Update(b, j, [pc[b][j] EXCEPT !.sig = s]) /\ Send(b, j, t)
      /\ UNCHANGED <<step, list, raced, id, self, old, channels, relayMode, shown, again>>
  BY DEF OfferMade, AnswerMade, page
<1> PICK c : c = [pc[b][j] EXCEPT !.sig = s]
  OBVIOUS
<1>3. c \in Connections /\ c # None /\ c.sig = s
  <2>1. pc[b][j] \in Connections
    BY <1>1, <1>2 DEF TypeOK
  <2>2. s \in {"offering", "offered", "answering", "stable", "idle"}
    OBVIOUS
  <2> QED BY <2>1, <2>2, ConnectionUpdates
<1>4. /\ pc' \in [Browsers -> [Ids -> Connections \cup {None}]] /\ pc'[b][j] = c
      /\ \A l \in Ids : l # j => pc'[b][l] = pc[b][l]
      /\ \A a \in Browsers : a # b => pc'[a] = pc[a]
  <2>1. c \in Connections \cup {None} /\ Update(b, j, c)
    BY <1>2, <1>3
  <2> QED BY <1>1, <2>1, Updated
<1>5. inbox' \in [Ids -> Seq(Messages)]
  BY <1>1, <1>2, Sent
<1>6. \A a \in Browsers : \A k \in channels'[a] : pc'[a][k] # None \/ Replaced(a, k)'
  <2>1. \A a \in Browsers, k \in Ids : pc[a][k] # None => pc'[a][k] # None
    BY <1>3, <1>4
  <2>2. old' = old /\ channels' = channels
    BY <1>2
  <2> QED BY <1>1, <2>1, <2>2, Unreplaced, ChannelsKept
<1>7. TypeOK'
  BY <1>1, <1>2, <1>4, <1>5, <1>6 DEF TypeOK
<1>8. Others(b) /\ Handed(b)
  BY <1>2, <1>4, Unreplaced DEF Others
<1>9. \A k \in Ids : /\ pc[b][k] = None => pc'[b][k] = None
                     /\ k # j => Sig(b, k)' = Sig(b, k)
  BY <1>2, <1>4 DEF Sig
<1>10. \/ t = "offer" /\ Sig(b, j) = "offering" /\ Sig(b, j)' = "offered"
       \/ t = "answer" /\ Sig(b, j) = "answering" /\ Sig(b, j)' = "stable"
  BY <1>2, <1>3, <1>4 DEF Sig
<1> QED BY <1>2, <1>7, <1>8, <1>9, <1>10, SendsKeep

LEMMA LinkKeeps ==
  ASSUME NegotiationInv, NEW b \in Browsers, NEW j \in Ids,
         \/ DescriptionFails(b, j) \/ Checking(b, j) \/ Connected(b, j) \/ Fails(b, j)
         \/ Disconnected(b, j) \/ DataChannel(b, j)
  PROVE  NegotiationInv'
<1>1. TypeOK
  BY DEF NegotiationInv
<1>2. /\ pc[b][j] # None
      /\ step' = step /\ list' = list /\ inbox' = inbox /\ raced' = raced /\ id' = id
      /\ self' = self /\ old' = old /\ again' = again
  BY DEF DescriptionFails, Checking, Connected, Fails, Disconnected, DataChannel, server
<1>3. pc[b][j] \in Connections
  BY <1>1, <1>2 DEF TypeOK
<1>4. PICK c \in Connections :
        /\ \/ c # None /\ Update(b, j, c)
           \/ UNCHANGED pc /\ c = pc[b][j]
        /\ \/ c.sig = pc[b][j].sig
           \/ DescriptionFails(b, j) /\ pc[b][j].sig \in {"offering", "answering"} /\ c.sig = "idle"
  <2>1. CASE Connected(b, j)
    <3> PICK d : d = [pc[b][j] EXCEPT !.link = "connected"]
      OBVIOUS
    <3>1. d \in Connections /\ d # None /\ d.sig = pc[b][j].sig
      BY <1>3, ConnectionUpdates
    <3> QED BY <2>1, <3>1 DEF Connected
  <2>2. CASE Fails(b, j)
    <3> PICK d : d = [pc[b][j] EXCEPT !.link = "failed"]
      OBVIOUS
    <3>1. d \in Connections /\ d # None /\ d.sig = pc[b][j].sig
      BY <1>3, ConnectionUpdates
    <3> QED BY <2>2, <3>1 DEF Fails
  <2>3. CASE Disconnected(b, j)
    <3> PICK d : d = [pc[b][j] EXCEPT !.link = "disconnected"]
      OBVIOUS
    <3>1. d \in Connections /\ d # None /\ d.sig = pc[b][j].sig
      BY <1>3, ConnectionUpdates
    <3> QED BY <2>3, <3>1 DEF Disconnected
  <2>4. CASE DataChannel(b, j)
    <3> PICK d : d = [pc[b][j] EXCEPT !.open = TRUE]
      OBVIOUS
    <3>1. d \in Connections /\ d # None /\ d.sig = pc[b][j].sig
      BY <1>3, ConnectionUpdates
    <3> QED BY <2>4, <3>1 DEF DataChannel
  <2>5. CASE DescriptionFails(b, j)
    <3> PICK d : d = [pc[b][j] EXCEPT !.sig = "idle"]
      OBVIOUS
    <3>1. d \in Connections /\ d # None /\ d.sig = "idle"
      BY <1>3, ConnectionUpdates
    <3> QED BY <2>5, <3>1 DEF DescriptionFails
  <2>6. CASE Checking(b, j)
    BY <1>2, <1>3, <2>6 DEF Checking
  <2> QED BY <2>1, <2>2, <2>3, <2>4, <2>5, <2>6
<1>5. /\ shown' \in [Browsers -> [Ids -> {"none", "connecting", "connected"}]]
      /\ \A l \in Ids : l # j => shown'[b][l] = shown[b][l]
      /\ \A a \in Browsers : a # b => shown'[a] = shown[a] /\ relayMode'[a] = relayMode[a]
      /\ relayMode' \in [Browsers -> SUBSET Ids] /\ relayMode[b] \subseteq relayMode'[b]
      /\ DescriptionFails(b, j) => j \in relayMode'[b]
  <2>1. CASE DescriptionFails(b, j) \/ Fails(b, j)
    BY <1>1, <2>1, Fell DEF DescriptionFails, Fails
  <2>2. ASSUME ~(DescriptionFails(b, j) \/ Fails(b, j))
        PROVE  relayMode' = relayMode /\ (UNCHANGED shown \/ \E st \in {"none", "connecting", "connected"} : Show(b, j, st))
    BY <2>2 DEF Checking, Connected, Disconnected, DataChannel
  <2>3. CASE ~(DescriptionFails(b, j) \/ Fails(b, j))
    <3>1. CASE UNCHANGED shown
      BY <1>1, <2>2, <2>3, <3>1 DEF TypeOK
    <3>2. CASE \E st \in {"none", "connecting", "connected"} : Show(b, j, st)
      BY <1>1, <2>2, <2>3, <3>2, Shows DEF TypeOK
    <3> QED BY <2>2, <2>3, <3>1, <3>2
  <2> QED BY <2>1, <2>3
<1>6. /\ channels' \in [Browsers -> SUBSET Ids]
      /\ \A a \in Browsers : channels'[a] \subseteq channels[a] \/ (a = b /\ channels'[a] = channels[a] \cup {j})
  <2>1. channels \in [Browsers -> SUBSET Ids]
    BY <1>1 DEF TypeOK
  <2>2. CASE channels' = channels
    BY <2>1, <2>2
  <2>3. CASE channels' = [channels EXCEPT ![b] = @ \ {j}]
    BY <2>1, <2>3
  <2>4. CASE channels' = [channels EXCEPT ![b] = @ \cup {j}]
    BY <2>1, <2>4
  <2> QED BY <2>2, <2>3, <2>4 DEF DescriptionFails, Checking, Connected, Fails, Disconnected, DataChannel
<1>7. /\ pc' \in [Browsers -> [Ids -> Connections \cup {None}]] /\ pc'[b][j] = c
      /\ \A l \in Ids : l # j => pc'[b][l] = pc[b][l]
      /\ \A a \in Browsers : a # b => pc'[a] = pc[a]
  <2>1. c \in Connections \cup {None}
    OBVIOUS
  <2>2. CASE UNCHANGED pc /\ c = pc[b][j]
    BY <1>1, <2>2 DEF TypeOK
  <2>3. CASE Update(b, j, c)
    BY <1>1, <2>1, <2>3, Updated
  <2> QED BY <1>4, <2>2, <2>3
<1>8. \A a \in Browsers : \A k \in channels'[a] : pc'[a][k] # None \/ Replaced(a, k)'
  <2>1. \A a \in Browsers, k \in Ids : pc[a][k] # None => pc'[a][k] # None
    BY <1>4, <1>7, IdAssumption
  <2>2. \A a \in Browsers : \A k \in channels'[a] : k \in channels[a] \/ pc'[a][k] # None
    BY <1>4, <1>6, <1>7, IdAssumption
  <2>3. \A a \in Browsers : Keeps(a)
    BY <1>2, Unreplaced
  <2> QED BY <1>1, <2>1, <2>2, <2>3, ChannelsKept
<1>9. TypeOK'
  BY <1>1, <1>2, <1>5, <1>6, <1>7, <1>8 DEF TypeOK
<1>10. Others(b) /\ Handed(b)
  BY <1>2, <1>5, <1>7, Unreplaced DEF Others
<1>11. ASSUME NEW k \in Ids
       PROVE  /\ pc[b][k] = None => pc'[b][k] = None
              /\ Stays(b, k)
              /\ shown'[b][k] # "none" => shown[b][k] # "none" \/ Sig(b, k) # "none"
  <2>1. pc[b][j].sig # "none" /\ c # None
    BY <1>3, ConnectionUpdates
  <2>2. CASE k = j
    BY <1>2, <1>4, <1>5, <1>7, <2>1, <2>2 DEF Sig, Stays
  <2>3. CASE k # j
    BY <1>5, <1>7, <2>3 DEF Sig, Stays
  <2> QED BY <2>2, <2>3
<1> QED BY <1>2, <1>5, <1>9, <1>10, <1>11, LocalKeeps

(* A replaced connection becomes another, or only calls a handler.          *)
LEMMA BecomesAnother ==
  ASSUME TypeOK, NEW b \in Browsers, NEW o \in old[b], NEW c \in Connections, OldBecomes(b, o, c)
  PROVE  /\ old' \in [Browsers -> SUBSET ReplacedConnections]
         /\ \A a \in Browsers : a # b => old'[a] = old[a]
         /\ Handed(b)
<1>1. o \in ReplacedConnections /\ old \in [Browsers -> SUBSET ReplacedConnections]
  BY DEF TypeOK
<1> PICK p : p = [o EXCEPT !.conn = c]
  OBVIOUS
<1>2. p \in ReplacedConnections /\ p.peer = o.peer /\ p.left = o.left
  BY <1>1, ReplacedUpdates
<1>3. /\ old'[b] = (old[b] \ {o}) \cup {p} /\ old' \in [Browsers -> SUBSET ReplacedConnections]
      /\ \A a \in Browsers : a # b => old'[a] = old[a]
  BY <1>1, <1>2 DEF OldBecomes
<1> QED BY <1>2, <1>3 DEF Handed, Keeps

LEMMA ReplacedShows ==
  ASSUME TypeOK, NEW b \in Browsers, NEW o \in old[b], NEW st \in {"connected", "failed", "disconnected"},
         OldState(b, o, st)
  PROVE  /\ shown' \in [Browsers -> [Ids -> {"none", "connecting", "connected"}]]
         /\ \A l \in Ids : l # o.peer => shown'[b][l] = shown[b][l]
         /\ \A a \in Browsers : a # b => shown'[a] = shown[a] /\ relayMode'[a] = relayMode[a]
         /\ channels' \in [Browsers -> SUBSET Ids] /\ \A a \in Browsers : channels'[a] \subseteq channels[a]
         /\ relayMode' \in [Browsers -> SUBSET Ids] /\ relayMode[b] \subseteq relayMode'[b]
<1>1. o.peer \in Ids
  BY DEF TypeOK, ReplacedConnections
<1>2. \E r \in {"none", "connecting", "connected"} : Show(b, o.peer, r)
  BY DEF OldState
<1>3. /\ shown' \in [Browsers -> [Ids -> {"none", "connecting", "connected"}]]
      /\ \A l \in Ids : l # o.peer => shown'[b][l] = shown[b][l]
      /\ \A a \in Browsers : a # b => shown'[a] = shown[a]
  BY <1>1, <1>2, Shows
<1>4. channels' \in [Browsers -> SUBSET Ids] /\ \A a \in Browsers : channels'[a] \subseteq channels[a]
  <2>1. channels' = channels \/ channels' = [channels EXCEPT ![b] = @ \ {o.peer}]
    BY DEF OldState
  <2>2. channels \in [Browsers -> SUBSET Ids]
    BY DEF TypeOK
  <2>3. CASE channels' = channels
    BY <2>2, <2>3
  <2>4. CASE channels' = [channels EXCEPT ![b] = @ \ {o.peer}]
    BY <2>2, <2>4
  <2> QED BY <2>1, <2>3, <2>4
<1>5. /\ relayMode' \in [Browsers -> SUBSET Ids] /\ relayMode[b] \subseteq relayMode'[b]
      /\ \A a \in Browsers : a # b => relayMode'[a] = relayMode[a]
  <2>1. relayMode' = relayMode \/ relayMode' = [relayMode EXCEPT ![b] = @ \cup {o.peer}]
    BY DEF OldState
  <2>2. relayMode \in [Browsers -> SUBSET Ids]
    BY DEF TypeOK
  <2>3. CASE relayMode' = relayMode
    BY <2>2, <2>3
  <2>4. CASE relayMode' = [relayMode EXCEPT ![b] = @ \cup {o.peer}]
    BY <1>1, <2>2, <2>4
  <2> QED BY <2>1, <2>3, <2>4
<1> QED BY <1>3, <1>4, <1>5

(* What a replaced connection does, but for a description that is sent.     *)
LEMMA ReplacedKeeps ==
  ASSUME NegotiationInv, NEW b \in Browsers, NEW o \in old[b],
         UNCHANGED <<step, list, raced, inbox, id, self, pc, again>>,
         UNCHANGED old \/ \E c \in Connections : OldBecomes(b, o, c),
         shown' \in [Browsers -> [Ids -> {"none", "connecting", "connected"}]],
         \A l \in Ids : l # o.peer => shown'[b][l] = shown[b][l],
         \A a \in Browsers : a # b => shown'[a] = shown[a] /\ relayMode'[a] = relayMode[a],
         channels' \in [Browsers -> SUBSET Ids],
         \A a \in Browsers : \A j \in channels'[a] : j \in channels[a] \/ (a = b /\ j = o.peer),
         relayMode' \in [Browsers -> SUBSET Ids], relayMode[b] \subseteq relayMode'[b]
  PROVE  NegotiationInv'
<1>1. TypeOK
  BY DEF NegotiationInv
<1>2. /\ old' \in [Browsers -> SUBSET ReplacedConnections] /\ Handed(b)
      /\ \A a \in Browsers : a # b => old'[a] = old[a]
  <2>1. CASE UNCHANGED old
    BY <1>1, <2>1, Unreplaced DEF TypeOK
  <2>2. CASE \E c \in Connections : OldBecomes(b, o, c)
    BY <1>1, <2>2, BecomesAnother
  <2> QED BY <2>1, <2>2
<1>3. \A a \in Browsers : Keeps(a)
  BY <1>2, Unreplaced DEF Handed
<1>4. Replaced(b, o.peer)
  BY DEF Replaced
<1>5. \A a \in Browsers : \A j \in channels'[a] : pc'[a][j] # None \/ Replaced(a, j)'
  <2>1. \A a \in Browsers, j \in Ids : pc[a][j] # None => pc'[a][j] # None
    OBVIOUS
  <2>2. \A a \in Browsers : \A j \in channels'[a] : j \in channels[a] \/ pc'[a][j] # None \/ Replaced(a, j)
    BY <1>4
  <2> QED BY <1>1, <1>3, <2>1, <2>2, ChannelsKept
<1>6. TypeOK'
  BY <1>1, <1>2, <1>5 DEF TypeOK
<1>7. Others(b)
  BY <1>2 DEF Others
<1>8. ASSUME NEW k \in Ids
      PROVE  /\ pc[b][k] = None => pc'[b][k] = None
             /\ Stays(b, k)
             /\ shown'[b][k] # "none" =>
                  shown[b][k] # "none" \/ Sig(b, k) # "none" \/ Replaced(b, k)
  BY <1>4 DEF Stays, Sig
<1> QED BY <1>2, <1>6, <1>7, <1>8, LocalKeeps

LEMMA OldEventKeeps ==
  ASSUME NegotiationInv, NEW b \in Browsers, OldEvent(b)
  PROVE  NegotiationInv'
<1>1. TypeOK
  BY DEF NegotiationInv
<1>2. /\ id' = id /\ self' = self /\ pc' = pc /\ again' = again
  BY DEF OldEvent
<1>3. PICK o \in old[b] : OldDescription(b, o) \/ OldLink(b, o) \/ OldChannel(b, o)
  BY DEF OldEvent
<1>4. o \in ReplacedConnections /\ o.peer \in Ids /\ o.conn \in Connections /\ o.left \in BOOLEAN
  BY <1>1 DEF TypeOK, ReplacedConnections
<1>5. ASSUME UNCHANGED <<step, list, raced, inbox>>,
             UNCHANGED old \/ \E c \in Connections : OldBecomes(b, o, c),
             UNCHANGED <<channels, relayMode, shown>>
      PROVE  NegotiationInv'
  <2>1. /\ shown' \in [Browsers -> [Ids -> {"none", "connecting", "connected"}]]
        /\ channels' \in [Browsers -> SUBSET Ids] /\ relayMode' \in [Browsers -> SUBSET Ids]
    BY <1>1, <1>5 DEF TypeOK
  <2> QED BY <1>2, <1>5, <2>1, ReplacedKeeps
<1>6. ASSUME UNCHANGED <<step, list, raced, inbox>>,
             \E c \in Connections : OldBecomes(b, o, c),
             \E st \in {"connected", "failed", "disconnected"} : OldState(b, o, st)
      PROVE  NegotiationInv'
  <2>1. /\ shown' \in [Browsers -> [Ids -> {"none", "connecting", "connected"}]]
        /\ \A l \in Ids : l # o.peer => shown'[b][l] = shown[b][l]
        /\ \A a \in Browsers : a # b => shown'[a] = shown[a] /\ relayMode'[a] = relayMode[a]
        /\ channels' \in [Browsers -> SUBSET Ids] /\ \A a \in Browsers : channels'[a] \subseteq channels[a]
        /\ relayMode' \in [Browsers -> SUBSET Ids] /\ relayMode[b] \subseteq relayMode'[b]
    BY <1>1, <1>6, ReplacedShows
  <2>2. \A a \in Browsers : \A j \in channels'[a] : j \in channels[a] \/ (a = b /\ j = o.peer)
    BY <2>1
  <2> QED BY <1>2, <1>6, <2>1, <2>2, ReplacedKeeps
<1>7. CASE OldDescription(b, o)
  <2>1. PICK t \in {"offer", "answer"}, s \in {"offered", "stable"} :
          \/ /\ OldBecomes(b, o, [o.conn EXCEPT !.sig = s]) /\ UNCHANGED <<channels, relayMode, shown>>
             /\ IF o.left THEN UNCHANGED inbox ELSE Send(b, o.peer, t)
          \/ /\ OldBecomes(b, o, [o.conn EXCEPT !.sig = "idle"]) /\ OldState(b, o, "failed")
             /\ UNCHANGED inbox
    <3>1. CASE o.conn.sig = "offering"
      BY <1>7, <3>1 DEF OldDescription, page
    <3>2. CASE o.conn.sig # "offering"
      BY <1>7, <3>2 DEF OldDescription, page
    <3> QED BY <3>1, <3>2
  <2>2. UNCHANGED <<step, list, raced>>
    BY <1>7 DEF OldDescription
  <2>3. \A r \in {"offered", "stable", "idle"} : [o.conn EXCEPT !.sig = r] \in Connections
    BY <1>4, ConnectionUpdates
  <2>4. CASE /\ OldBecomes(b, o, [o.conn EXCEPT !.sig = s]) /\ UNCHANGED <<channels, relayMode, shown>>
             /\ IF o.left THEN UNCHANGED inbox ELSE Send(b, o.peer, t)
    <3>1. CASE o.left
      BY <1>5, <2>2, <2>3, <2>4, <3>1
    <3>2. CASE ~o.left
      <4>1. Send(b, o.peer, t) /\ inbox' \in [Ids -> Seq(Messages)]
        BY <1>1, <1>4, <2>4, <3>2, Sent
      <4>2. /\ old' \in [Browsers -> SUBSET ReplacedConnections] /\ Handed(b)
            /\ \A a \in Browsers : a # b => old'[a] = old[a]
        BY <1>1, <2>3, <2>4, BecomesAnother
      <4>3. \A a \in Browsers : Keeps(a)
        BY <4>2, Unreplaced DEF Handed
      <4>4. \A a \in Browsers : \A j \in channels'[a] : pc'[a][j] # None \/ Replaced(a, j)'
        BY <1>1, <1>2, <2>4, <4>3, ChannelsKept
      <4>5. TypeOK'
        BY <1>1, <1>2, <2>2, <2>4, <4>1, <4>2, <4>4 DEF TypeOK
      <4>6. Others(b)
        BY <1>2, <2>4, <4>2 DEF Others
      <4>7. \A k \in Ids : Sig(b, k)' = Sig(b, k)
        BY <1>2 DEF Sig
      <4> QED BY <1>2, <1>4, <2>2, <2>4, <3>2, <4>1, <4>2, <4>5, <4>6, <4>7, SendsKeep
    <3> QED BY <1>4, <3>1, <3>2
  <2>5. CASE /\ OldBecomes(b, o, [o.conn EXCEPT !.sig = "idle"]) /\ OldState(b, o, "failed")
             /\ UNCHANGED inbox
    BY <1>6, <2>2, <2>3, <2>5
  <2> QED BY <2>1, <2>4, <2>5
<1>8. CASE OldLink(b, o)
  <2>1. UNCHANGED <<step, list, raced, inbox>>
    BY <1>8 DEF OldLink, server
  <2>2. CASE Show(b, o.peer, "connecting") /\ UNCHANGED <<old, channels, relayMode>>
    <3>1. /\ shown' \in [Browsers -> [Ids -> {"none", "connecting", "connected"}]]
          /\ \A l \in Ids : l # o.peer => shown'[b][l] = shown[b][l]
          /\ \A a \in Browsers : a # b => shown'[a] = shown[a]
      BY <1>1, <1>4, <2>2, Shows
    <3>2. channels' \in [Browsers -> SUBSET Ids] /\ relayMode' \in [Browsers -> SUBSET Ids]
      BY <1>1, <2>2 DEF TypeOK
    <3> QED BY <1>2, <2>1, <2>2, <3>1, <3>2, ReplacedKeeps
  <2>3. CASE \E st \in {"connected", "failed", "disconnected"} :
               OldBecomes(b, o, [o.conn EXCEPT !.link = st]) /\ OldState(b, o, st)
    <3>1. \A st \in {"connected", "failed", "disconnected"} : [o.conn EXCEPT !.link = st] \in Connections
      BY <1>4, ConnectionUpdates
    <3> QED BY <1>6, <2>1, <2>3, <3>1
  <2> QED BY <1>8, <2>2, <2>3 DEF OldLink
<1>9. CASE OldChannel(b, o)
  <2> PICK c : c = [o.conn EXCEPT !.open = TRUE]
    OBVIOUS
  <2>1. c \in Connections /\ OldBecomes(b, o, c)
    BY <1>4, <1>9, ConnectionUpdates DEF OldChannel
  <2>2. UNCHANGED <<step, list, raced, inbox, relayMode, shown>>
    BY <1>9 DEF OldChannel, server
  <2>3. /\ channels' \in [Browsers -> SUBSET Ids]
        /\ \A a \in Browsers : \A j \in channels'[a] : j \in channels[a] \/ (a = b /\ j = o.peer)
    <3>1. channels' = channels \/ channels' = [channels EXCEPT ![b] = @ \cup {o.peer}]
      BY <1>9 DEF OldChannel
    <3>2. channels \in [Browsers -> SUBSET Ids]
      BY <1>1 DEF TypeOK
    <3>3. CASE channels' = channels
      BY <3>2, <3>3
    <3>4. CASE channels' = [channels EXCEPT ![b] = @ \cup {o.peer}]
      BY <1>4, <3>2, <3>4
    <3> QED BY <3>1, <3>3, <3>4
  <2>4. /\ shown' \in [Browsers -> [Ids -> {"none", "connecting", "connected"}]]
        /\ relayMode' \in [Browsers -> SUBSET Ids]
    BY <1>1, <2>2 DEF TypeOK
  <2> QED BY <1>2, <2>1, <2>2, <2>3, <2>4, ReplacedKeeps
<1> QED BY <1>3, <1>7, <1>8, <1>9

LEMMA DepartureKeeps ==
  ASSUME NegotiationInv, NEW b \in Browsers, Drop(b) \/ Leave(b)
  PROVE  NegotiationInv'
<1>1. TypeOK /\ IdsInv
  BY DEF NegotiationInv
<1>2. Unregister(b) /\ UNCHANGED <<list, again>>
  BY DEF Drop, Leave
<1>3. CASE Drop(b)
  <2>1. /\ self' = self /\ pc' = pc /\ old' = old
        /\ channels' = channels /\ relayMode' = relayMode /\ shown' = shown
    BY <1>3 DEF Drop, page
  <2>2. \A a \in Browsers : \A j \in channels'[a] : pc'[a][j] # None \/ Replaced(a, j)'
    <3>1. /\ \A a \in Browsers : Keeps(a)
          /\ \A a \in Browsers : \A j \in channels'[a] : j \in channels[a]
          /\ \A a \in Browsers, j \in Ids : pc[a][j] # None => pc'[a][j] # None
      BY <2>1, Unreplaced
    <3> QED BY <1>1, <3>1, ChannelsKept
  <2>3. /\ self' \in [Browsers -> Ids \cup {None}]
        /\ pc' \in [Browsers -> [Ids -> Connections \cup {None}]]
        /\ old' \in [Browsers -> SUBSET ReplacedConnections]
        /\ channels' \in [Browsers -> SUBSET Ids] /\ relayMode' \in [Browsers -> SUBSET Ids]
        /\ shown' \in [Browsers -> [Ids -> {"none", "connecting", "connected"}]]
        /\ self'[b] = None => \A o \in old'[b] : o.left
    BY <1>1, <2>1 DEF TypeOK, IdsInv
  <2>4. Others(b)
    BY <2>1 DEF Others
  <2> QED BY <1>2, <2>1, <2>2, <2>3, <2>4, UnregisterKeeps
<1>4. CASE Leave(b)
  <2>1. /\ self' = [self EXCEPT ![b] = None] /\ pc' = [pc EXCEPT ![b] = NoConnections]
        /\ old' = [old EXCEPT ![b] = {[o EXCEPT !.left = TRUE] : o \in @}]
        /\ channels' = [channels EXCEPT ![b] = {}] /\ relayMode' = [relayMode EXCEPT ![b] = {}]
        /\ shown' = [shown EXCEPT ![b] = NothingShown]
    BY <1>4 DEF Leave
  <2>2. /\ NoConnections \in [Ids -> Connections \cup {None}]
        /\ NothingShown \in [Ids -> {"none", "connecting", "connected"}]
        /\ \A j \in Ids : NoConnections[j] = None
    BY DEF NoConnections, NothingShown
  <2> PICK r : r = {[o EXCEPT !.left = TRUE] : o \in old[b]}
    OBVIOUS
  <2>3. r \subseteq ReplacedConnections /\ \A o \in r : o.left
    <3> SUFFICES ASSUME NEW o \in r PROVE o \in ReplacedConnections /\ o.left
      OBVIOUS
    <3> PICK p \in old[b] : o = [p EXCEPT !.left = TRUE]
      OBVIOUS
    <3>1. p \in ReplacedConnections
      BY <1>1 DEF TypeOK
    <3> QED BY <3>1 DEF ReplacedConnections
  <2>4. /\ old' \in [Browsers -> SUBSET ReplacedConnections] /\ old'[b] = r
        /\ \A a \in Browsers : a # b => old'[a] = old[a]
    BY <1>1, <2>1, <2>3 DEF TypeOK
  <2>5. /\ self' \in [Browsers -> Ids \cup {None}]
        /\ pc' \in [Browsers -> [Ids -> Connections \cup {None}]]
        /\ channels' \in [Browsers -> SUBSET Ids] /\ relayMode' \in [Browsers -> SUBSET Ids]
        /\ shown' \in [Browsers -> [Ids -> {"none", "connecting", "connected"}]]
    BY <1>1, <2>1, <2>2 DEF TypeOK
  <2>6. /\ channels'[b] = {} /\ \A j \in Ids : pc'[b][j] = None
        /\ \A a \in Browsers : a # b => channels'[a] = channels[a] /\ pc'[a] = pc[a]
    BY <1>1, <2>1, <2>2 DEF TypeOK
  <2>7. Others(b)
    BY <1>1, <2>1, <2>4, <2>6 DEF TypeOK, Others
  <2>8. ASSUME NEW a \in Browsers, NEW j \in channels'[a] PROVE pc'[a][j] # None \/ Replaced(a, j)'
    <3>1. a # b /\ j \in channels[a] /\ old'[a] = old[a] /\ pc'[a] = pc[a]
      BY <2>4, <2>6
    <3>2. pc[a][j] # None \/ Replaced(a, j)
      BY <1>1, <3>1 DEF TypeOK
    <3> QED BY <3>1, <3>2, Unreplaced, StillReplaced
  <2> QED BY <1>2, <2>3, <2>4, <2>5, <2>6, <2>7, <2>8, UnregisterKeeps
<1> QED BY <1>3, <1>4

LEMMA HandlerKeeps ==
  ASSUME NegotiationInv, NEW b \in Browsers, Handler(b)
  PROVE  NegotiationInv'
<1>1. TypeOK /\ IdsInv
  BY DEF NegotiationInv
<1>2. /\ TypeOK'
      /\ \E i \in Ids : Handled(b, i) /\ (i \notin again /\ Whole(b, i) => Moves(b, i))
  BY <1>1, JoinedMoves, PeerJoinedMoves, PeerLeftMoves, OfferMoves, AnswerMoves, IceMoves DEF Handler
<1> QED BY <1>2, HandlersKeep

LEMMA NothingKeeps ==
  ASSUME NegotiationInv, UNCHANGED vars
  PROVE  NegotiationInv'
<1>1. /\ step' = step /\ list' = list /\ inbox' = inbox /\ raced' = raced /\ id' = id /\ self' = self
      /\ pc' = pc /\ old' = old /\ channels' = channels /\ relayMode' = relayMode /\ shown' = shown
      /\ again' = again
  BY DEF vars, server, page
<1>2. TypeOK'
  BY <1>1 DEF NegotiationInv, TypeOK, Replaced
<1>3. Others(Host) /\ Handed(Host)
  BY <1>1, Unreplaced DEF Others
<1>4. \A k \in Ids : Stays(Host, k)
  BY <1>1 DEF Sig, Stays
<1> QED BY <1>1, <1>2, <1>3, <1>4, HostAssumption, LocalKeeps

LEMMA NegotiationStarts == Init => NegotiationInv
<1> SUFFICES ASSUME Init PROVE NegotiationInv
  OBVIOUS
<1>1. /\ step = [i \in Ids |-> "free"] /\ list = [i \in Ids |-> {}]
      /\ inbox = [i \in Ids |-> <<>>] /\ raced = list
      /\ id = [b \in Browsers |-> None] /\ self = id
      /\ pc = [b \in Browsers |-> NoConnections] /\ old = [b \in Browsers |-> {}]
      /\ channels = old /\ relayMode = old /\ shown = [b \in Browsers |-> NothingShown]
      /\ again = {}
  BY DEF Init
<1>2. TypeOK
  <2>1. /\ NoConnections \in [Ids -> Connections \cup {None}]
        /\ NothingShown \in [Ids -> {"none", "connecting", "connected"}]
    BY DEF NoConnections, NothingShown
  <2>2. inbox \in [Ids -> Seq(Messages)]
    BY <1>1, EmptySeq
  <2> QED BY <1>1, <2>1, <2>2 DEF TypeOK
<1>3. /\ \A b \in Browsers : id[b] = None /\ old[b] = {} /\ \A j \in Ids : pc[b][j] = None
      /\ \A i \in Ids : Places(i) = {} /\ list[i] = {}
  BY <1>1, EmptySeq DEF NoConnections, Places
<1>4. IdsInv
  BY <1>1, <1>3 DEF IdsInv, NewIds
<1>5. OneInv /\ PairInv
  BY <1>3, IdAssumption DEF OneInv, PairInv, New
<1> QED BY <1>2, <1>4, <1>5 DEF NegotiationInv

LEMMA NegotiationGoesOn == NegotiationInv /\ [Next]_vars => NegotiationInv'
<1> SUFFICES ASSUME NegotiationInv, [Next]_vars PROVE NegotiationInv'
  OBVIOUS
<1>1. CASE UNCHANGED vars
  BY <1>1, NothingKeeps
<1>2. CASE \E i \in Ids : Walk(i) \/ Acknowledge(i) \/ \E b \in Browsers : Register(b, i)
  BY <1>2, WalkKeeps, AcknowledgeKeeps, RegisterKeeps
<1>3. CASE \E b \in Browsers : Drop(b) \/ Leave(b)
  BY <1>3, DepartureKeeps
<1>4. CASE \E b \in Browsers : Handler(b)
  BY <1>4, HandlerKeeps
<1>5. CASE \E b \in Browsers : OldEvent(b)
  BY <1>5, OldEventKeeps
<1>6. CASE \E b \in Browsers, j \in Ids : OfferMade(b, j) \/ AnswerMade(b, j)
  BY <1>6, AwaitKeeps
<1>7. CASE \E b \in Browsers, j \in Ids :
             \/ DescriptionFails(b, j) \/ Checking(b, j) \/ Connected(b, j) \/ Fails(b, j)
             \/ Disconnected(b, j) \/ DataChannel(b, j)
  BY <1>7, LinkKeeps
<1> QED BY <1>1, <1>2, <1>3, <1>4, <1>5, <1>6, <1>7 DEF Next, Await

(* The invariant of the negotiation, for any number of browsers and ids:    *)
(* what peer.ts and go-transport.ts keep of a peer agrees with what the     *)
(* server has told and what is still on its way (signaling.ts, hub.go).     *)
THEOREM NegotiationInvariant == Spec => []NegotiationInv
BY NegotiationStarts, NegotiationGoesOn, PTL DEF Spec

(* Every variable has its type, no two browsers share an id, and the        *)
(* channels of go-transport.ts belong to connections of peer.ts.            *)
THEOREM NegotiationTyped == Spec => []TypeOK
<1>1. NegotiationInv => TypeOK
  BY DEF NegotiationInv
<1> QED BY <1>1, NegotiationInvariant, PTL

(* No glare between new browsers: handleOffer finds no connection,          *)
(* handleAnswer the offer it answers, and handleIce a description it        *)
(* belongs to or a peer that an error has put on the relay, whatever the    *)
(* order of joins, notices and acknowledgements.                            *)
THEOREM SignalsFit == Spec => []MessagesFit
<1>1. NegotiationInv => MessagesFit
  <2> SUFFICES ASSUME NegotiationInv, NEW b \in Browsers,
                      id[b] # None, id[b] \notin again, inbox[id[b]] # <<>>
               PROVE  LET m == Head(inbox[id[b]]) IN
                      m.type \in {"offer", "answer", "ice"} /\ m.from \notin again =>
                        Fits(m, pc[b][m.from], relayMode[b])
    BY DEF MessagesFit
  <2>1. TypeOK /\ OneInv
    BY DEF NegotiationInv
  <2> PICK i \in Ids : i = id[b]
    BY <2>1 DEF TypeOK
  <2>2. PICK m \in Messages : m = Head(inbox[i]) /\ m = inbox[i][1] /\ 1 \in Places(i)
    <3> PICK q \in Seq(Messages) : q = inbox[i]
      BY <2>1, InboxTyped
    <3>1. q # <<>>
      OBVIOUS
    <3>2. Len(q) \in Nat /\ Len(q) # 0 /\ Head(q) = q[1] /\ q[1] \in Messages
      BY <3>1
    <3> QED BY <3>2 DEF Places
  <2>3. SUFFICES ASSUME m.type \in {"offer", "answer", "ice"}, m.from \notin again
                 PROVE  Fits(m, pc[b][m.from], relayMode[b])
    BY <2>2
  <2> PICK j \in Ids \ again : j = m.from /\ m = Note(m.type, j)
    BY <2>3 DEF Messages, Note
  <2>4. Mail(b, i)
    BY <2>1 DEF OneInv, New, Whole
  <2>5. pc[b][j] # None => pc[b][j].sig # "none"
    <3>1. pc[b][j] # None => pc[b][j] \in Connections
      BY <2>1 DEF TypeOK
    <3> QED BY <3>1, ConnectionUpdates
  <2>6. CASE m.type = "offer"
    <3>1. Sig(b, j) = "none"
      BY <2>2, <2>4, <2>6 DEF Mail
    <3> QED BY <2>5, <2>6, <3>1 DEF Fits, Sig
  <2>7. CASE m.type = "answer"
    <3>1. Sig(b, j) = "offered"
      BY <2>2, <2>4, <2>7 DEF Mail
    <3> QED BY <2>7, <3>1 DEF Fits, Sig
  <2>8. CASE m.type = "ice"
    <3>1. Sig(b, j) \in {"answering", "stable"} \/ j \in relayMode[b]
      BY <2>2, <2>4, <2>8 DEF Mail
    <3> QED BY <2>8, <3>1 DEF Fits, Remote, Sig
  <2> QED BY <2>3, <2>6, <2>7, <2>8
<1> QED BY <1>1, NegotiationInvariant, PTL

(* Nobody who left stays on the page of a new browser, unless the news is   *)
(* on its way, the notice fell between the server's walk over the room and  *)
(* its acknowledgement, or a connection to that peer was replaced, which    *)
(* leave() does not close.                                                  *)
THEOREM GhostsGo == Spec => []NoGhosts
<1>1. NegotiationInv => NoGhosts
  <2> SUFFICES ASSUME NegotiationInv, NEW b \in Browsers, NEW j \in Ids,
                      id[b] # None, again \cap {id[b], j} = {}, shown[b][j] # "none"
               PROVE  \/ Replaced(b, j) \/ j \in Members \/ j \in raced[id[b]]
                      \/ \E n \in DOMAIN inbox[id[b]] : inbox[id[b]][n] = [type |-> "peer-left", from |-> j]
    BY DEF NoGhosts
  <2>1. TypeOK /\ OneInv
    BY DEF NegotiationInv
  <2> PICK i \in Ids : i = id[b]
    BY <2>1 DEF TypeOK
  <2>2. Heard(i, 0, j) \/ Replaced(b, j)
    BY <2>1 DEF OneInv, New, Whole, News
  <2>3. DOMAIN inbox[i] = Places(i)
    BY <2>1, InboxTyped DEF Places
  <2> QED BY <2>2, <2>3 DEF Heard, Note
<1> QED BY <1>1, NegotiationInvariant, PTL
=============================================================================
