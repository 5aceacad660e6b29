----------------------------- MODULE Rendezvous -----------------------------
(***************************************************************************)
(* What the registry of the signaling server promises about membership,    *)
(* without counters, queues, clocks or records kept twice: every peer is in *)
(* at most one room; a room comes into being with one peer in it, others   *)
(* come in one at a time up to the member limit, and it ends when the last *)
(* one leaves or when it expires with all of them at once.                 *)
(***************************************************************************)
EXTENDS FiniteSets, Integers

CONSTANTS Peers, Codes, NoRoom, MaxMembers

VARIABLE home

Occupants(c) == {p \in Peers : home[p] = c}

Init == home = [p \in Peers |-> NoRoom]

Create(p, c) ==
  /\ home[p] = NoRoom
  /\ Occupants(c) = {}
  /\ home' = [home EXCEPT ![p] = c]

Join(p, c) ==
  /\ home[p] = NoRoom
  /\ Cardinality(Occupants(c)) \in 1 .. MaxMembers - 1
  /\ home' = [home EXCEPT ![p] = c]

Leave(p) ==
  /\ home[p] # NoRoom
  /\ home' = [home EXCEPT ![p] = NoRoom]

Expire(C) ==
  home' = [p \in Peers |-> IF home[p] \in C THEN NoRoom ELSE home[p]]

Next == \/ \E p \in Peers : \/ Leave(p)
                            \/ \E c \in Codes : Create(p, c) \/ Join(p, c)
        \/ \E C \in SUBSET Codes : Expire(C)

Spec == Init /\ [][Next]_home
=============================================================================
