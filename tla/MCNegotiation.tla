----------------------------- MODULE MCNegotiation -----------------------------
(* Small instances of Negotiation. *)
EXTENDS Negotiation
=============================================================================
