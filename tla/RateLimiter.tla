------------------------------ MODULE RateLimiter ------------------------------
(***************************************************************************)
(* The token buckets of server/limiter.go, one per address, with the       *)
(* removal of the ones nobody uses (IPRateLimiter.Prune, called by the     *)
(* reaper).  A connection's own message limiter is the same bucket,        *)
(* without removal.  Each operation runs under a mutex.                    *)
(*                                                                         *)
(* Time passes in ticks and tokens come in Scale parts, where the code has *)
(* seconds and floating-point numbers.                                     *)
(***************************************************************************)
EXTENDS Integers

CONSTANTS
  IPs,       \* client addresses
  Burst,     \* capacity of a bucket, in tokens
  Rate,      \* parts of a token that come back in a tick
  Scale,     \* parts of a token
  MaxIdle,   \* Prune's maxIdle (an hour), in ticks
  MaxTime    \* bound: ticks

Cap == Scale * Burst

ASSUME RateAssumption == /\ Burst \in Nat \ {0} /\ Scale \in Nat \ {0}
                         /\ Rate \in Nat /\ MaxTime \in Nat
(* A bucket is full again before it is removed: an hour refills any of the  *)
(* bursts (10 tokens at 2 per second at most for connections and logins).   *)
ASSUME IdleAssumption == MaxIdle \in Nat /\ Rate * MaxIdle >= Cap

VARIABLES
  now,      \* time.Now()
  limiters, \* the addresses that have a bucket
  tokens,   \* TokenBucket.tokens of each
  refilled, \* TokenBucket.lastRefilled
  access,   \* limiterEntry.lastAccess
  granted   \* history: how often Allow has said yes since each time

rateVars == <<now, limiters, tokens, refilled, access, granted>>

Times == 0 .. MaxTime

RateInit ==
  /\ now = 0 /\ limiters = {}
  /\ tokens = [ip \in IPs |-> Cap]
  /\ refilled = [ip \in IPs |-> 0] /\ access = refilled
  /\ granted = [ip \in IPs |-> [t \in Times |-> 0]]

(* What is there now, with what came back since the last request.           *)
Level(ip) == LET refill == tokens[ip] + Rate * (now - refilled[ip])
             IN  IF ip \notin limiters \/ refill > Cap THEN Cap ELSE refill

Grant(ip) ==
  granted' = [granted EXCEPT ![ip] = [t \in Times |-> IF t <= now THEN @[t] + 1 ELSE @[t]]]

AllowForgets(ip) ==  \* mutant: what has come back is lost when it is not enough
  /\ limiters' = limiters \cup {ip}
  /\ refilled' = [refilled EXCEPT ![ip] = now]
  /\ access' = [access EXCEPT ![ip] = now]
  /\ IF Level(ip) >= Scale
     THEN /\ tokens' = [tokens EXCEPT ![ip] = Level(ip) - Scale]
          /\ Grant(ip)
     ELSE UNCHANGED <<tokens, granted>>
  /\ UNCHANGED now

Allow(ip) ==
  /\ limiters' = limiters \cup {ip}
  /\ refilled' = [refilled EXCEPT ![ip] = now]
  /\ access' = [access EXCEPT ![ip] = now]
  /\ IF Level(ip) >= Scale
     THEN /\ tokens' = [tokens EXCEPT ![ip] = Level(ip) - Scale]
          /\ Grant(ip)
     ELSE tokens' = [tokens EXCEPT ![ip] = Level(ip)] /\ UNCHANGED granted
  /\ UNCHANGED now

PruneAll ==  \* mutant: buckets in use are removed as well
  /\ limiters # {}
  /\ limiters' = {}
  /\ UNCHANGED <<now, tokens, refilled, access, granted>>

Prune ==
  LET unused == {ip \in limiters : now - access[ip] > MaxIdle}
  IN  /\ unused # {}
      /\ limiters' = limiters \ unused
      /\ UNCHANGED <<now, tokens, refilled, access, granted>>

Tick == /\ now < MaxTime
        /\ now' = now + 1
        /\ UNCHANGED <<limiters, tokens, refilled, access, granted>>

RateNext == Tick \/ Prune \/ \E ip \in IPs : Allow(ip)

RateSpec == RateInit /\ [][RateNext]_rateVars
-----------------------------------------------------------------------------
(* The reference: a request fits when no stretch of time up to it holds     *)
(* more than a burst and what the stretch gives back.                       *)
Fits(ip) == \A since \in 0 .. now :
              Scale * (granted[ip][since] + 1) <= Cap + Rate * (now - since)

(* The bucket, its lazy refill and its removal admit a request exactly when *)
(* it fits: none too many, and none refused that had a right to be let in.  *)
AdmitsWhatFits == \A ip \in IPs : Level(ip) >= Scale <=> Fits(ip)

(* Removing a bucket, or asking it in vain, changes nothing for the next    *)
(* request: only a grant and the time do.                                   *)
NothingForgotten ==
  [][now' = now /\ granted' = granted
       => \A ip \in IPs : Level(ip)' = Level(ip)]_rateVars
=============================================================================
