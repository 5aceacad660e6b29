---------------------------- MODULE SignalingClient ----------------------------
(***************************************************************************)
(* The browser's signaling connection (web/src/signaling.ts, started and   *)
(* left by GoTransport in web/src/go-transport.ts): one WebSocket after    *)
(* another, a reconnect timer, and the room to return to.  Every callback  *)
(* is one task of the event loop; a socket that close() or a newer one has *)
(* replaced still delivers its onclose.                                    *)
(*                                                                         *)
(* Of the server (module SignalingServer) what a connection meets is kept: *)
(* a join is answered, refused or, repeated, the end of the connection; a  *)
(* connection that was lost stays in the room until the server notices.    *)
(***************************************************************************)
EXTENDS Naturals, Sequences

CONSTANTS
  Sockets,     \* WebSocket objects, used again once both sides are done
  NoSocket,    \* this.ws = null
  Role,        \* the transport's role: "host" or "guest"
  MaxDrops,    \* bound: connections that the network loses
  OthersMove   \* may the other party enter and leave the room?

ASSUME SocketAssumption == NoSocket \notin Sockets
ASSUME RoleAssumption   == Role \in {"host", "guest"}
ASSUME DropAssumption   == MaxDrops \in Nat /\ OthersMove \in BOOLEAN

VARIABLES
  ws,         \* this.ws
  lastRoom,   \* this.lastRoom is set
  explicit,   \* this.isExplicitClose
  timer,      \* this.reconnectTimer is set
  left,       \* GoTransport.leave was called
  sock,       \* the client's side of each socket
  up, down,   \* messages under way to and from the server
  srv,        \* the server's side of each connection
  others,     \* the other party is in the room
  drops       \* connections lost so far

client     == <<ws, lastRoom, explicit, timer, left>>
net        == <<sock, up, down, srv, others, drops>>
clientVars == <<client, net>>

(* GoTransport.start connects; the other party came first or will come.     *)
ClientInit ==
  /\ ws \in Sockets
  /\ sock = [s \in Sockets |-> IF s = ws THEN "connecting" ELSE "unused"]
  /\ lastRoom = FALSE /\ explicit = FALSE /\ timer = FALSE /\ left = FALSE
  /\ up = [s \in Sockets |-> <<>>] /\ down = up
  /\ srv = [s \in Sockets |-> "none"]
  /\ others = (Role = "guest") /\ drops = 0
-----------------------------------------------------------------------------
(* close(), also when connect() finds a socket: it ends the current one.    *)
Ended == [s \in Sockets |-> IF s = ws THEN "ending" ELSE sock[s]]

(* connect() on a new socket.  After its own close() the connection counts  *)
(* as explicitly closed.                                                    *)
Fresh(s) == sock[s] = "unused" /\ srv[s] = "none"

Connect(s) ==
  /\ Fresh(s)
  /\ ws' = s
  /\ sock' = [Ended EXCEPT ![s] = "connecting"]
  /\ explicit' = (ws # NoSocket)
  /\ lastRoom' = (lastRoom /\ ws = NoSocket)
  /\ up' = [up EXCEPT ![s] = <<>>] /\ down' = [down EXCEPT ![s] = <<>>]

Reconnect(s) ==
  /\ timer /\ timer' = FALSE
  /\ Connect(s)
  /\ UNCHANGED <<left, srv, others, drops>>

(* onopen: GoTransport's onOpen joins, and then the auto-rejoin does.  Both *)
(* go out on this.ws.                                                       *)
OnOpen(s) ==
  /\ sock[s] = "connecting" /\ sock' = [sock EXCEPT ![s] = "open"]
  /\ srv' = [srv EXCEPT ![s] = "registered"]
  /\ timer' = FALSE
  /\ up' = [up EXCEPT ![s] = IF ws # s THEN @
                             ELSE IF lastRoom THEN <<"join", "join">> ELSE <<"join">>]
  /\ UNCHANGED <<ws, lastRoom, explicit, left, down, others, drops>>

OnMessage(s) ==
  /\ sock[s] = "open" /\ down[s] # <<>>
  /\ down' = [down EXCEPT ![s] = Tail(@)]
  /\ lastRoom' = (lastRoom \/ Head(down[s]) = "joined")
  /\ UNCHANGED <<ws, explicit, timer, left, sock, up, srv, others, drops>>

OnCloseQuietly(s) ==  \* mutant: no reconnect before the room was joined
  /\ sock[s] = "ending" /\ sock' = [sock EXCEPT ![s] = "unused"]
  /\ ws' = NoSocket
  /\ timer' = (timer \/ (lastRoom /\ ~explicit))
  /\ UNCHANGED <<lastRoom, explicit, left, up, down, srv, others, drops>>

(* onclose, of whichever socket, forgets this.ws.                           *)
OnClose(s) ==
  /\ sock[s] = "ending" /\ sock' = [sock EXCEPT ![s] = "unused"]
  /\ ws' = NoSocket
  /\ timer' = (timer \/ ~explicit)
  /\ UNCHANGED <<lastRoom, explicit, left, up, down, srv, others, drops>>

ExplicitCloseKeepsTimer ==  \* mutant: the reconnect timer is not cleared
  /\ ~left /\ left' = TRUE
  /\ explicit' = TRUE /\ lastRoom' = FALSE
  /\ sock' = Ended /\ ws' = NoSocket
  /\ UNCHANGED <<timer, up, down, srv, others, drops>>

(* GoTransport.leave: signaling.close().                                    *)
ExplicitClose ==
  /\ ~left /\ left' = TRUE
  /\ explicit' = TRUE /\ lastRoom' = FALSE /\ timer' = FALSE
  /\ sock' = Ended /\ ws' = NoSocket
  /\ UNCHANGED <<up, down, srv, others, drops>>
-----------------------------------------------------------------------------
(* The network and the server.                                              *)
LoseAndRetry(s) ==  \* mutant: onerror starts a reconnect as well
  /\ drops < MaxDrops /\ drops' = drops + 1
  /\ sock[s] \in {"connecting", "open"} /\ sock' = [sock EXCEPT ![s] = "ending"]
  /\ timer' = TRUE
  /\ UNCHANGED <<ws, lastRoom, explicit, left, up, down, srv, others>>

(* A connection is refused or lost: onerror, and onclose to come.           *)
Lose(s) ==
  /\ drops < MaxDrops /\ drops' = drops + 1
  /\ sock[s] \in {"connecting", "open"} /\ sock' = [sock EXCEPT ![s] = "ending"]
  /\ UNCHANGED <<client, up, down, srv, others>>

RoomExists == others \/ \E s \in Sockets : srv[s] = "joined"
Admitted   == IF Role = "host" THEN ~RoomExists ELSE RoomExists

(* A join reaches the server, on a connection that may be lost already.     *)
ServeJoin(s) ==
  /\ srv[s] \in {"registered", "joined"} /\ up[s] # <<>>
  /\ up' = [up EXCEPT ![s] = Tail(@)]
  /\ IF srv[s] = "registered" /\ Admitted
     THEN /\ srv' = [srv EXCEPT ![s] = "joined"]
          /\ down' = [down EXCEPT ![s] = Append(@, "joined")]
     ELSE /\ srv' = [srv EXCEPT ![s] = "closing"]
          /\ IF srv[s] = "registered"
             THEN down' = [down EXCEPT ![s] = Append(@, "error")]
             ELSE UNCHANGED down
  /\ UNCHANGED <<client, sock, others, drops>>

(* The server closes; what was not written yet is lost.                     *)
ServerCloses(s) ==
  /\ srv[s] = "closing" /\ srv' = [srv EXCEPT ![s] = "none"]
  /\ sock' = [sock EXCEPT ![s] = IF @ = "open" THEN "ending" ELSE @]
  /\ UNCHANGED <<client, up, down, others, drops>>

(* The server notices that the client is gone: a close frame, a failed      *)
(* write or the pong deadline.                                              *)
ServerNotices(s) ==
  /\ srv[s] \in {"registered", "joined"} /\ sock[s] \in {"ending", "unused"}
  /\ srv' = [srv EXCEPT ![s] = "none"]
  /\ UNCHANGED <<client, sock, up, down, others, drops>>

OtherMoves ==
  /\ OthersMove
  /\ others' = ~others
  /\ Role = "guest" \/ others \/ RoomExists  \* guests need the room to enter
  /\ UNCHANGED <<client, sock, up, down, srv, drops>>
-----------------------------------------------------------------------------
SocketStep(s) == OnOpen(s) \/ OnMessage(s) \/ OnClose(s)
ServerStep(s) == ServeJoin(s) \/ ServerCloses(s) \/ ServerNotices(s)

ClientNext ==
  \/ \E s \in Sockets : Reconnect(s) \/ SocketStep(s) \/ ServerStep(s) \/ Lose(s)
  \/ ExplicitClose \/ OtherMoves

ClientSpec == ClientInit /\ [][ClientNext]_clientVars

(* Connections open, messages and close events arrive, timers go off, the   *)
(* server reads and notices.                                                *)
FairSpec == /\ ClientSpec
            /\ WF_clientVars(\E s \in Sockets : Reconnect(s))
            /\ \A s \in Sockets : WF_clientVars(SocketStep(s)) /\ WF_clientVars(ServerStep(s))
-----------------------------------------------------------------------------
(***************************************************************************)
(* Properties.                                                             *)
(***************************************************************************)

(* There is one connection at a time, the one that messages are sent on: no *)
(* late onclose makes the client forget a socket that lives, and the timer  *)
(* never runs beside a connection.                                          *)
OneConnection ==
  /\ \A s \in Sockets : sock[s] \in {"connecting", "open"} => ws = s
  /\ timer => ws = NoSocket

(* After leave() nothing comes back to life: no timer, no connection.       *)
LeaveIsFinal ==
  left => /\ ~timer /\ ws = NoSocket /\ ~lastRoom
          /\ \A s \in Sockets : sock[s] \in {"ending", "unused"}

(* The client that did not leave never gives up: however its connection     *)
(* ends, it comes to another.                                               *)
KeepsTrying == ws = NoSocket ~> ws # NoSocket \/ left

(* "automatically rejoins the active room" (README.md:152): the client      *)
(* comes to stay in its room, unless it leaves.                             *)
InRoom  == ws # NoSocket /\ sock[ws] = "open" /\ srv[ws] = "joined"
Settles == <>[](left \/ InRoom)
=============================================================================
