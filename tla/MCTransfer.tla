------------------------------ MODULE MCTransfer ------------------------------
(* Small instances of Transfer. *)
EXTENDS Transfer
=============================================================================
