------------------------------- MODULE MCHub -------------------------------
(* Small instances of Hub: four connections from two addresses.            *)
EXTENDS Hub, TLC

CONSTANTS p1, p2, p3, p4, ip1, ip2

(* Three share an address, so per-IP limits bind before global ones. *)
MCIPOf == (p1 :> ip1) @@ (p2 :> ip1) @@ (p3 :> ip1) @@ (p4 :> ip2)

(* Connections of one address are interchangeable, and so are codes. *)
Symmetry == Permutations({p1, p2, p3}) \cup Permutations(Codes)

(* No step looks at what a queue holds, only at whether there is room. *)
Lengths == <<peers, roomCode, role, rooms, members, hostIP, idle, ipConns,
             ipRooms, relayReq, [p \in Peers |-> Len(send[p])]>>
=============================================================================
