------------------------------ MODULE MCFallback ------------------------------
(* Small instances of Fallback. *)
EXTENDS Fallback, TLC

FallbackSymmetry == Permutations(Rooms) \cup Permutations(TPeers) \cup Permutations(Codes)
=============================================================================
