------------------------------- MODULE MCRate -------------------------------
(* A small instance of RateLimiter: half a token comes back in a tick.      *)
EXTENDS RateLimiter, TLC

Addresses == Permutations(IPs)
=============================================================================
