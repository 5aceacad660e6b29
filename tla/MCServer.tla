------------------------------ MODULE MCServer ------------------------------
(* Small instances of SignalingServer: a few connections from one address. *)
EXTENDS SignalingServer, TLC

CONSTANT ip

MCIPOf == [p \in Peers |-> ip]

(* No guard looks at what a queue, an acknowledgement or a client's view    *)
(* holds; a queue's length decides.                                         *)
Moving == <<peers, roomCode, role, rooms, members, hostIP, idle, ipConns, ipRooms,
            relayReq, pumps, wires, signalled, routed, crashed,
            [p \in Peers |-> Len(send[p])]>>

(* Of a message that is not about the room's members, and of a queue whose  *)
(* client is gone or whose connection is unregistered, only the number      *)
(* matters: Seen ignores the one and Deliver the other.                     *)
Other     == [type |-> "other", about |-> {}]
Unread(p) == [i \in DOMAIN send[p] |->
                IF /\ p \in peers /\ ~gone[p]
                   /\ send[p][i].type \in {"joined", "peer-joined", "peer-left"}
                THEN send[p][i] ELSE Other]
Told == <<peers, roomCode, role, rooms, members, hostIP, idle, ipConns, ipRooms,
          relayReq, pumps, wires, joining, touched, view, full, routed, crashed,
          [p \in Peers |-> Unread(p)]>>

PeerSymmetry == Permutations(Peers)
=============================================================================
