------------------------------ MODULE MCClient ------------------------------
(* Small instances of SignalingClient; sockets are model values, and not    *)
(* taken for symmetric, since every run has a liveness property.            *)
EXTENDS SignalingClient
=============================================================================
