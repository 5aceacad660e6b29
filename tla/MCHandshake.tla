----------------------------- MODULE MCHandshake -----------------------------
(* Small instances of RelayHandshake. *)
EXTENDS RelayHandshake, TLC

SendSymmetry == Permutations(Sends) \cup Permutations(Peers)
=============================================================================
