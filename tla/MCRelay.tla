------------------------------- MODULE MCRelay -------------------------------
(* Small instances of RelayManager.  Each token is asked for by the host h  *)
(* for a guest; the other peer may try the token too.                       *)
EXTENDS RelayManager

CONSTANTS h, g
=============================================================================
