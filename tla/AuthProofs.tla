------------------------------ MODULE AuthProofs ------------------------------
(***************************************************************************)
(* Theorems about the two parts behind POST /login, which HandleLogin      *)
(* asks in turn: the rate limiter (RateLimiter), for any rate, burst and    *)
(* time, and the passwords (PasswordStore), for any passwords, logins and   *)
(* commands.                                                                *)
(***************************************************************************)
EXTENDS PasswordStore, RateLimiter, TLAPS

LimitInv ==
  /\ now \in Times
  /\ limiters \subseteq IPs
  /\ tokens \in [IPs -> 0 .. Cap]
  /\ refilled \in [IPs -> 0 .. now] /\ access = refilled
  /\ granted \in [IPs -> [Times -> Nat]]

LEMMA CapNat == Cap \in Nat
<1>1. \A a, b \in Nat : a * b \in Nat
  OBVIOUS
<1> QED BY <1>1, RateAssumption DEF Cap

(* What comes back in a while is a natural number, and more in a longer one.*)
LEMMA Refill ==
  ASSUME NEW d \in Nat, NEW e \in Nat, e <= d
  PROVE  Rate * d \in Nat /\ Rate * e <= Rate * d
<1>1. \A a, b, c \in Nat : b <= c => a * c \in Nat /\ a * b <= a * c
  OBVIOUS
<1> QED BY <1>1, RateAssumption

LEMMA LevelTyped ==
  ASSUME LimitInv, NEW ip \in IPs PROVE Level(ip) \in 0 .. Cap
<1>1. now - refilled[ip] \in Nat /\ tokens[ip] \in 0 .. Cap
  BY RateAssumption DEF LimitInv, Times
<1>2. Rate * (now - refilled[ip]) \in Nat
  BY <1>1, Refill
<1> DEFINE back == Rate * (now - refilled[ip])
<1>3. Level(ip) = IF ip \notin limiters \/ tokens[ip] + back > Cap THEN Cap ELSE tokens[ip] + back
  BY DEF Level
<1>4. back \in Nat
  BY <1>2
<1> HIDE DEF back
<1> QED BY <1>1, <1>3, <1>4, CapNat

LEMMA LimitNext ==
  ASSUME LimitInv, [RateNext]_rateVars PROVE LimitInv'
<1>1. CASE UNCHANGED rateVars
  BY <1>1 DEF rateVars, LimitInv
<1>2. CASE Tick
  <2>1. now' \in Times /\ 0 .. now \subseteq 0 .. now'
    BY <1>2, RateAssumption DEF Tick, LimitInv, Times
  <2> QED BY <1>2, <2>1 DEF Tick, LimitInv
<1>3. CASE Prune
  BY <1>3 DEF Prune, LimitInv
<1>4. ASSUME NEW ip \in IPs, Allow(ip) PROVE LimitInv'
  <2>1. Level(ip) \in 0 .. Cap
    BY LevelTyped
  <2>2. now \in 0 .. now
    BY RateAssumption DEF LimitInv, Times
  <2>3. refilled' \in [IPs -> 0 .. now] /\ access' = refilled'
    BY <1>4, <2>2 DEF Allow, LimitInv
  <2>4. CASE Level(ip) >= Scale
    <3>1. Level(ip) - Scale \in 0 .. Cap
      BY <2>1, <2>4, CapNat, RateAssumption
    <3>2. tokens' \in [IPs -> 0 .. Cap]
      BY <1>4, <2>4, <3>1 DEF Allow, LimitInv
    <3>3. granted' \in [IPs -> [Times -> Nat]]
      BY <1>4, <2>4 DEF Allow, Grant, LimitInv
    <3> QED BY <1>4, <2>3, <3>2, <3>3 DEF Allow, LimitInv
  <2>5. CASE ~(Level(ip) >= Scale)
    <3>1. tokens' \in [IPs -> 0 .. Cap] /\ granted' = granted
      BY <1>4, <2>1, <2>5 DEF Allow, LimitInv
    <3> QED BY <1>4, <2>3, <3>1 DEF Allow, LimitInv
  <2> QED BY <2>4, <2>5
<1> QED BY <1>1, <1>2, <1>3, <1>4 DEF RateNext

(* A bucket that Prune removes has refilled: a new one is no better.        *)
LEMMA PruneForgetsNothing ==
  ASSUME LimitInv, Prune, NEW ip \in IPs PROVE Level(ip)' = Level(ip)
<1>1. UNCHANGED <<now, tokens, refilled>>
  BY DEF Prune
<1>2. CASE ip \in limiters <=> ip \in limiters'
  BY <1>1, <1>2 DEF Level
<1>3. CASE ip \in limiters /\ ip \notin limiters'
  <2>1. now - refilled[ip] \in Nat /\ now - refilled[ip] > MaxIdle
    BY <1>3, RateAssumption DEF Prune, LimitInv, Times
  <2> DEFINE back == Rate * (now - refilled[ip])
  <2>2. back \in Nat /\ Rate * MaxIdle <= back /\ Rate * MaxIdle \in Nat
    BY <2>1, Refill, IdleAssumption
  <2>3. tokens[ip] \in Nat
    BY CapNat DEF LimitInv
  <2>4. Level(ip) = IF tokens[ip] + back > Cap THEN Cap ELSE tokens[ip] + back
    BY <1>3 DEF Level
  <2>5. Cap <= Rate * MaxIdle
    BY IdleAssumption, CapNat, <2>2
  <2> HIDE DEF back
  <2> DEFINE hour == Rate * MaxIdle
  <2>6. hour \in Nat /\ hour <= back /\ Cap <= hour
    BY <2>2, <2>5
  <2> HIDE DEF hour
  <2>7. Level(ip) = Cap
    BY <2>2, <2>3, <2>4, <2>6, CapNat
  <2>8. Level(ip)' = Cap
    BY <1>3 DEF Level
  <2> QED BY <2>7, <2>8
<1> QED BY <1>2, <1>3 DEF Prune

(* A request in vain only writes down what has come back.                   *)
LEMMA RefusalForgetsNothing ==
  ASSUME LimitInv, NEW jp \in IPs, Allow(jp), granted' = granted, NEW ip \in IPs
  PROVE  Level(ip)' = Level(ip)
<1>1. ~(Level(jp) >= Scale)
  <2> SUFFICES ASSUME Level(jp) >= Scale PROVE FALSE
    OBVIOUS
  <2>1. now \in Times /\ now <= now /\ granted[jp][now] \in Nat
    BY RateAssumption DEF LimitInv, Times
  <2>2. granted'[jp][now] = granted[jp][now] + 1
    BY <2>1 DEF Allow, Grant, LimitInv
  <2> QED BY <2>1, <2>2
<1>2. /\ tokens' = [tokens EXCEPT ![jp] = Level(jp)] /\ now' = now
      /\ refilled' = [refilled EXCEPT ![jp] = now] /\ limiters' = limiters \cup {jp}
  BY <1>1 DEF Allow
<1>3. CASE ip # jp
  <2>1. tokens'[ip] = tokens[ip] /\ refilled'[ip] = refilled[ip]
        /\ (ip \in limiters' <=> ip \in limiters)
    BY <1>2, <1>3 DEF LimitInv
  <2> QED BY <1>2, <2>1 DEF Level
<1>4. CASE ip = jp
  <2>1. tokens'[ip] = Level(ip) /\ refilled'[ip] = now /\ ip \in limiters'
    BY <1>2, <1>4 DEF LimitInv
  <2>2. Level(ip)' = IF tokens'[ip] + Rate * (now' - refilled'[ip]) > Cap THEN Cap
                     ELSE tokens'[ip] + Rate * (now' - refilled'[ip])
    BY <2>1 DEF Level
  <2>3. now' - refilled'[ip] = 0
    BY <1>2, <2>1, RateAssumption DEF LimitInv, Times
  <2>4. Rate * (now' - refilled'[ip]) = 0
    BY <2>3, RateAssumption
  <2>5. Level(ip) \in 0 .. Cap
    BY LevelTyped
  <2> DEFINE held == Level(ip)
  <2>6. held \in 0 .. Cap /\ Level(ip)' = IF held + 0 > Cap THEN Cap ELSE held + 0
    BY <2>1, <2>2, <2>4, <2>5
  <2> HIDE DEF held
  <2>7. Level(ip)' = held
    BY <2>6, CapNat
  <2> QED BY <2>7 DEF held
<1> QED BY <1>3, <1>4

(* The level of a bucket and what it granted, against what it may grant: no *)
(* stretch of time is beyond the rate, one is at it unless the bucket is    *)
(* full, and nothing is granted ahead of time.                              *)
Used(ip, t)    == Level(ip) + Scale * granted[ip][t]
Allowed(t)     == Cap + Rate * (now - t)
WithinRate(ip) == \A t \in 0 .. now : Used(ip, t) <= Allowed(t)
AtRate(ip)     == Level(ip) = Cap \/ \E t \in 0 .. now : Used(ip, t) = Allowed(t)
NotAhead(ip)   == \A t \in Times : t > now => granted[ip][t] = 0

Bucket(ip) == WithinRate(ip) /\ AtRate(ip) /\ NotAhead(ip)

RateInv == LimitInv /\ \A ip \in IPs : Bucket(ip)

LEMMA OneMore ==
  ASSUME NEW a \in Nat, NEW b \in Nat
  PROVE  a * b \in Nat /\ a * (b + 1) = a * b + a /\ a * 0 = 0
OBVIOUS

(* A bucket and its history as they were are as good as they were.          *)
LEMMA SameBucket ==
  ASSUME NEW ip \in IPs, Bucket(ip), Level(ip)' = Level(ip), now' = now,
         granted'[ip] = granted[ip]
  PROVE  Bucket(ip)'
<1>1. \A t : Used(ip, t)' = Used(ip, t) /\ Allowed(t)' = Allowed(t)
  BY DEF Used, Allowed
<1> QED BY <1>1 DEF Bucket, WithinRate, AtRate, NotAhead

(* Time brings Rate to the bucket, as to every stretch of time.             *)
LEMMA BucketTick ==
  ASSUME LimitInv, Tick, NEW ip \in IPs, Bucket(ip) PROVE Bucket(ip)'
<1>1. /\ now \in Nat /\ now' = now + 1 /\ now' \in Times
      /\ UNCHANGED <<limiters, tokens, refilled, granted>>
  BY RateAssumption DEF Tick, LimitInv, Times
<1>2. now - refilled[ip] \in Nat /\ tokens[ip] \in 0 .. Cap
  BY <1>1, RateAssumption DEF LimitInv, Times
<1> DEFINE held == Level(ip)
           back == Rate * (now - refilled[ip])
<1>3. back \in Nat /\ Rate * (now' - refilled[ip]) = back + Rate
  <2>1. now' - refilled[ip] = (now - refilled[ip]) + 1
    BY <1>1, RateAssumption DEF LimitInv, Times
  <2> QED BY <1>2, <2>1, OneMore, RateAssumption
<1>4. held = IF ip \notin limiters \/ tokens[ip] + back > Cap THEN Cap ELSE tokens[ip] + back
  BY DEF Level
<1>5. Level(ip)' = IF ip \notin limiters \/ tokens[ip] + (back + Rate) > Cap
                   THEN Cap ELSE tokens[ip] + (back + Rate)
  BY <1>1, <1>3 DEF Level
<1>6. back \in Nat
  BY <1>3
<1> HIDE DEF back, held
<1>7. Level(ip)' = IF held + Rate > Cap THEN Cap ELSE held + Rate
  BY <1>2, <1>4, <1>5, <1>6, CapNat, RateAssumption
<1>8. held \in 0 .. Cap
  BY LevelTyped DEF held
<1>9. ASSUME NEW t \in 0 .. now
      PROVE  /\ Used(ip, t) \in Nat /\ Used(ip, t)' = Used(ip, t) - held + Level(ip)'
             /\ Allowed(t) \in Nat /\ Allowed(t)' = Allowed(t) + Rate
  <2>1. t \in Times /\ granted[ip][t] \in Nat /\ now - t \in Nat
    BY <1>1, RateAssumption DEF LimitInv, Times
  <2> DEFINE used == Scale * granted[ip][t]
             gave == Rate * (now - t)
  <2>2. used \in Nat /\ gave \in Nat /\ now' - t = (now - t) + 1
    BY <1>1, <2>1, OneMore, RateAssumption
  <2>3. Rate * (now' - t) = gave + Rate
    BY <2>1, <2>2, OneMore, RateAssumption
  <2>4. /\ Used(ip, t) = held + used /\ Used(ip, t)' = Level(ip)' + used
        /\ Allowed(t) = Cap + gave /\ Allowed(t)' = Cap + (gave + Rate)
    BY <1>1, <2>3 DEF Used, Allowed, held
  <2> HIDE DEF used, gave
  <2> QED BY <1>7, <1>8, <2>2, <2>4, CapNat, RateAssumption
<1>10. granted[ip][now'] = 0
  BY <1>1 DEF Bucket, NotAhead
<1>11. WithinRate(ip)'
  <2> SUFFICES ASSUME NEW t \in 0 .. now' PROVE Used(ip, t)' <= Allowed(t)'
    BY DEF WithinRate
  <2>1. CASE t \in 0 .. now
    <3>1. Used(ip, t) <= Allowed(t)
      BY <2>1 DEF Bucket, WithinRate
    <3> QED BY <1>7, <1>8, <1>9, <2>1, <3>1, CapNat, RateAssumption
  <2>2. CASE t = now'
    <3>1. Scale * granted[ip][t] = 0 /\ Rate * (now' - t) = 0
      BY <1>1, <1>10, <2>2, OneMore, RateAssumption
    <3>2. Used(ip, t)' = Level(ip)' + 0 /\ Allowed(t)' = Cap + 0
      BY <1>1, <3>1 DEF Used, Allowed
    <3> QED BY <1>7, <1>8, <3>2, CapNat, RateAssumption
  <2> QED BY <1>1, <2>1, <2>2
<1>12. AtRate(ip)'
  <2>1. CASE held = Cap \/ held + Rate > Cap
    BY <1>7, <1>8, <2>1, CapNat, RateAssumption DEF AtRate
  <2>2. CASE held # Cap /\ ~(held + Rate > Cap)
    <3>1. PICK t \in 0 .. now : Used(ip, t) = Allowed(t)
      BY <2>2 DEF Bucket, AtRate, held
    <3>2. Used(ip, t)' = Allowed(t)' /\ t \in 0 .. now'
      BY <1>1, <1>7, <1>8, <1>9, <2>2, <3>1, CapNat, RateAssumption
    <3> QED BY <3>2 DEF AtRate
  <2> QED BY <2>1, <2>2
<1>13. NotAhead(ip)'
  BY <1>1 DEF Bucket, NotAhead, Times
<1> QED BY <1>11, <1>12, <1>13 DEF Bucket

(* A grant takes from the bucket what it adds to every stretch of time.     *)
LEMMA BucketGrant ==
  ASSUME LimitInv, NEW ip \in IPs, Allow(ip), Level(ip) >= Scale, Bucket(ip) PROVE Bucket(ip)'
<1>1. /\ now \in Nat /\ now \in Times /\ now' = now /\ tokens'[ip] = Level(ip) - Scale
      /\ refilled'[ip] = now /\ ip \in limiters'
      /\ granted'[ip] = [t \in Times |-> IF t <= now THEN granted[ip][t] + 1 ELSE granted[ip][t]]
  BY RateAssumption DEF Allow, Grant, LimitInv, Times
<1> DEFINE held == Level(ip)
<1>2. held \in 0 .. Cap /\ held >= Scale
  BY LevelTyped
<1>3. now' - refilled'[ip] = 0 /\ Rate * (now' - refilled'[ip]) = 0
  BY <1>1, OneMore, RateAssumption
<1>4. Level(ip)' = IF held - Scale + 0 > Cap THEN Cap ELSE held - Scale + 0
  BY <1>1, <1>3 DEF Level
<1> HIDE DEF held
<1>5. Level(ip)' = held - Scale
  BY <1>2, <1>4, CapNat, RateAssumption
<1>6. ASSUME NEW t \in 0 .. now PROVE Used(ip, t)' = Used(ip, t) /\ Allowed(t)' = Allowed(t)
  <2>1. t \in Times /\ granted[ip][t] \in Nat /\ granted'[ip][t] = granted[ip][t] + 1
    BY <1>1, RateAssumption DEF LimitInv, Times
  <2> DEFINE used == Scale * granted[ip][t]
  <2>2. used \in Nat /\ Scale * granted'[ip][t] = used + Scale
    BY <2>1, OneMore, RateAssumption
  <2>3. Used(ip, t) = held + used /\ Used(ip, t)' = (held - Scale) + (used + Scale)
    BY <1>5, <2>2 DEF Used, held
  <2> HIDE DEF used
  <2>4. Used(ip, t)' = Used(ip, t)
    BY <1>2, <2>2, <2>3, CapNat, RateAssumption
  <2> QED BY <1>1, <2>4 DEF Allowed
<1>7. WithinRate(ip)'
  BY <1>1, <1>6 DEF Bucket, WithinRate
<1>8. \E t \in 0 .. now : Used(ip, t) = Allowed(t)
  <2>1. CASE held = Cap
    <3>1. granted[ip][now] \in Nat /\ now \in 0 .. now /\ now - now = 0
      BY <1>1 DEF LimitInv
    <3>2. Scale * granted[ip][now] \in Nat /\ Rate * (now - now) = 0
      BY <3>1, OneMore, RateAssumption
    <3>3. Used(ip, now) <= Allowed(now)
      BY <3>1 DEF Bucket, WithinRate
    <3>4. Used(ip, now) = Cap + Scale * granted[ip][now] /\ Allowed(now) = Cap + 0
      BY <2>1, <3>2 DEF Used, Allowed, held
    <3> DEFINE used == Scale * granted[ip][now]
    <3>5. used \in Nat /\ Used(ip, now) = Cap + used
      BY <3>2, <3>4
    <3> HIDE DEF used
    <3>6. Used(ip, now) = Allowed(now)
      BY <3>3, <3>4, <3>5, CapNat
    <3> QED BY <3>1, <3>6
  <2>2. CASE held # Cap
    BY <2>2 DEF Bucket, AtRate, held
  <2> QED BY <2>1, <2>2
<1>9. AtRate(ip)'
  BY <1>1, <1>6, <1>8 DEF AtRate
<1>10. NotAhead(ip)'
  BY <1>1 DEF Bucket, NotAhead, Times
<1> QED BY <1>7, <1>9, <1>10 DEF Bucket

LEMMA RateStep ==
  ASSUME RateInv, [RateNext]_rateVars PROVE RateInv'
<1>0. LimitInv /\ LimitInv'
  BY LimitNext DEF RateInv
<1> SUFFICES ASSUME NEW ip \in IPs PROVE Bucket(ip)'
  BY <1>0 DEF RateInv
<1>b. Bucket(ip)
  BY DEF RateInv
<1>1. CASE UNCHANGED rateVars
  <2>1. Level(ip)' = Level(ip)
    BY <1>1 DEF rateVars, Level
  <2> QED BY <1>1, <1>b, <2>1, SameBucket DEF rateVars
<1>2. CASE Tick
  BY <1>0, <1>2, <1>b, BucketTick
<1>3. CASE Prune
  <2>1. now' = now /\ granted' = granted
    BY <1>3 DEF Prune
  <2> QED BY <1>0, <1>3, <1>b, <2>1, PruneForgetsNothing, SameBucket
<1>4. ASSUME NEW jp \in IPs, Allow(jp) PROVE Bucket(ip)'
  <2>1. now' = now
    BY <1>4 DEF Allow
  <2>2. CASE Level(jp) >= Scale /\ jp = ip
    BY <1>0, <1>4, <1>b, <2>2, BucketGrant
  <2>3. CASE Level(jp) >= Scale /\ jp # ip
    <3>1. /\ tokens'[ip] = tokens[ip] /\ refilled'[ip] = refilled[ip]
          /\ granted'[ip] = granted[ip] /\ (ip \in limiters' <=> ip \in limiters)
      BY <1>0, <1>4, <2>3 DEF Allow, Grant, LimitInv
    <3>2. Level(ip)' = Level(ip)
      BY <2>1, <3>1 DEF Level
    <3> QED BY <1>b, <2>1, <3>1, <3>2, SameBucket
  <2>4. CASE ~(Level(jp) >= Scale)
    <3>1. granted' = granted
      BY <1>4, <2>4 DEF Allow
    <3>2. Level(ip)' = Level(ip)
      BY <1>0, <1>4, <3>1, RefusalForgetsNothing
    <3> QED BY <1>b, <2>1, <3>1, <3>2, SameBucket
  <2> QED BY <2>2, <2>3, <2>4
<1> QED BY <1>1, <1>2, <1>3, <1>4 DEF RateNext

LEMMA RateStart ==
  ASSUME RateInit PROVE RateInv
<1>1. LimitInv
  <2>1. 0 \in Times /\ 0 \in 0 .. 0 /\ Cap \in 0 .. Cap
    BY RateAssumption, CapNat DEF Times
  <2> QED BY <2>1 DEF RateInit, LimitInv
<1> SUFFICES ASSUME NEW ip \in IPs PROVE Bucket(ip)
  BY <1>1 DEF RateInv
<1>2. Level(ip) = Cap
  BY DEF RateInit, Level
<1>3. \A t \in Times : granted[ip][t] = 0
  BY DEF RateInit
<1>4. now = 0 /\ 0 \in Times
  BY RateAssumption DEF RateInit, Times
<1>5. ASSUME NEW t \in 0 .. now PROVE Used(ip, t) = Cap + 0 /\ Allowed(t) = Cap + 0
  <2>1. t = 0 /\ now - t = 0 /\ granted[ip][t] = 0
    BY <1>3, <1>4
  <2>2. Scale * granted[ip][t] = 0 /\ Rate * (now - t) = 0
    BY <2>1, OneMore, RateAssumption
  <2> QED BY <1>2, <2>2 DEF Used, Allowed
<1>6. WithinRate(ip)
  BY <1>5, CapNat DEF WithinRate
<1> QED BY <1>2, <1>3, <1>6 DEF Bucket, AtRate, NotAhead

(* The inductive invariant: the level of a bucket and its grants are within *)
(* the rate in every stretch of time, and at it in one unless it is full.   *)
THEOREM RateInvariant == RateSpec => []RateInv
<1>1. RateInit => RateInv
  BY RateStart
<1>2. RateInv /\ [RateNext]_rateVars => RateInv'
  BY RateStep
<1> QED BY <1>1, <1>2, PTL DEF RateSpec

(* Enough is left for a request exactly when it fits.                       *)
LEMMA LevelFits ==
  ASSUME RateInv, NEW ip \in IPs PROVE Level(ip) >= Scale <=> Fits(ip)
<1> DEFINE held == Level(ip)
<1>1. held \in 0 .. Cap /\ Scale \in Nat
  BY LevelTyped, RateAssumption DEF RateInv
<1>2. Scale <= Cap
  <2>1. \A a, b \in Nat : b # 0 => a <= a * b
    OBVIOUS
  <2> QED BY <2>1, RateAssumption DEF Cap
<1>3. now \in Nat /\ now \in Times
  BY RateAssumption DEF RateInv, LimitInv, Times
<1>4. ASSUME NEW t \in 0 .. now
      PROVE  /\ Used(ip, t) \in Nat /\ Allowed(t) \in Nat
             /\ Scale * (granted[ip][t] + 1) = Used(ip, t) - held + Scale
  <2>1. t \in Times /\ granted[ip][t] \in Nat /\ now - t \in Nat
    BY <1>3, RateAssumption DEF RateInv, LimitInv, Times
  <2> DEFINE used == Scale * granted[ip][t]
             gave == Rate * (now - t)
  <2>2. used \in Nat /\ gave \in Nat /\ Scale * (granted[ip][t] + 1) = used + Scale
    BY <2>1, OneMore, RateAssumption
  <2>3. Used(ip, t) = held + used /\ Allowed(t) = Cap + gave
    BY DEF Used, Allowed
  <2> HIDE DEF used, gave, held
  <2> QED BY <1>1, <2>2, <2>3, CapNat
<1>5. Fits(ip) <=> \A t \in 0 .. now : Scale * (granted[ip][t] + 1) <= Allowed(t)
  BY DEF Fits, Allowed
<1>6. Fits(ip) <=> \A t \in 0 .. now : Used(ip, t) - held + Scale <= Allowed(t)
  BY <1>4, <1>5
<1>7. WithinRate(ip) /\ (held = Cap \/ \E t \in 0 .. now : Used(ip, t) = Allowed(t))
  BY DEF RateInv, Bucket, AtRate
<1> HIDE DEF held
<1>8. ASSUME held >= Scale, NEW t \in 0 .. now PROVE Used(ip, t) - held + Scale <= Allowed(t)
  BY <1>1, <1>4, <1>7, <1>8 DEF WithinRate
<1>9. ASSUME NEW t \in 0 .. now, Used(ip, t) = Allowed(t),
             Used(ip, t) - held + Scale <= Allowed(t)
      PROVE  held >= Scale
  BY <1>1, <1>4, <1>9
<1>10. held >= Scale <=> Fits(ip)
  BY <1>1, <1>2, <1>6, <1>7, <1>8, <1>9, CapNat
<1> QED BY <1>10 DEF held

(* For any rate and burst, a bucket with its lazy refill and its removal    *)
(* admits exactly the requests that keep every stretch of time within a     *)
(* burst and what the stretch gives back (TokenBucket.Allow).               *)
THEOREM Admits == RateSpec => []AdmitsWhatFits
<1>1. RateInv => AdmitsWhatFits
  BY LevelFits DEF AdmitsWhatFits
<1> QED BY <1>1, RateInvariant, PTL

(* Removing a bucket, or asking it in vain, changes nothing for the next    *)
(* request, at any rate (IPRateLimiter.Prune, TokenBucket.Allow).           *)
THEOREM Unforgetting == RateSpec => NothingForgotten
<1>1. RateInit => LimitInv
  BY RateStart DEF RateInv
<1>2. LimitInv /\ [RateNext]_rateVars => LimitInv'
  BY LimitNext
<1> DEFINE Kept == now' = now /\ granted' = granted => \A ip \in IPs : Level(ip)' = Level(ip)
<1>3. LimitInv /\ [RateNext]_rateVars => [Kept]_rateVars
  <2> SUFFICES ASSUME LimitInv, RateNext, now' = now, granted' = granted, NEW ip \in IPs
               PROVE  Level(ip)' = Level(ip)
    BY DEF rateVars
  <2>1. ~Tick
    BY RateAssumption DEF Tick, LimitInv, Times
  <2> QED BY <2>1, PruneForgetsNothing, RefusalForgetsNothing DEF RateNext
<1> QED BY <1>1, <1>2, <1>3, PTL DEF RateSpec, NothingForgotten
-----------------------------------------------------------------------------
(* The lock is held exactly while a save or a load is under way, and a save *)
(* that has not reached the file yet has only taken records away.           *)
LockHeld ==
  /\ phase = "none" <=> holder = Nobody
  /\ phase # "none" => up
  /\ phase = "read" <=> holder \in {"reload", "start"}
  /\ phase \in {"write", "read"} => newer

UpToDate ==
  /\ up /\ ~newer /\ phase = "none" => Readable /\ InStep
  /\ up /\ ~newer /\ phase = "open" => Readable /\ records \subseteq file

StoreInv == TypeOK /\ LockHeld /\ UpToDate

LEMMA InitStore == ASSUME Init PROVE StoreInv
BY CommandAssumption, RecordAssumption, HolderAssumption
   DEF Init, StoreInv, TypeOK, LockHeld, UpToDate, Commands, Holders, Readable

LEMMA WriteTyped ==
  ASSUME TypeOK, NEW S \in SUBSET Passwords, WriteOut(S)
  PROVE  /\ file' \subseteq Passwords /\ torn' \in {"whole", "cut", "broken"}
         /\ newer' = TRUE /\ fresh' = FALSE /\ file' \in {S, file}
BY DEF WriteOut, Changed, TypeOK

(* Steps of a login. *)
LEMMA LoginKeeps ==
  ASSUME StoreInv, NEW l \in Logins, LoginStep(l) PROVE StoreInv'
<1> USE DEF StoreInv, disk, lock, mtime, shell
<1>1. CASE Consume(l)
  <2>1. CASE Secret[l] \notin records \ expired
    BY <1>1, <2>1 DEF Consume, Answer, TypeOK, LockHeld, UpToDate, Readable, InStep
  <2>2. CASE Secret[l] \in records \ expired /\ Secret[l] \notin OneTime
    BY <1>1, <2>2 DEF Consume, Answer, TypeOK, LockHeld, UpToDate, Readable, InStep
  <2>3. CASE Secret[l] \in records \ expired /\ Secret[l] \in OneTime
    <3>1. /\ up /\ holder = Nobody /\ holder' = l /\ phase' = "open"
          /\ records' = records \ {Secret[l]}
          /\ UNCHANGED <<login, file, torn, newer, fresh, cli, copy, expired, failed, up>>
      BY <1>1, <2>3 DEF Consume, Take
    <3>2. l \notin {"prune", "reload", "start", Nobody}
      BY HolderAssumption
    <3>3. TypeOK'
      BY <3>1 DEF TypeOK, Holders
    <3>4. LockHeld'
      BY <3>1, <3>2 DEF LockHeld
    <3>5. UpToDate'
      BY <3>1 DEF LockHeld, UpToDate, Readable, InStep
    <3> QED BY <3>3, <3>4, <3>5
  <2> QED BY <2>1, <2>2, <2>3
<1>2. CASE Issue(l) \/ SessionExpires(l) \/ Validate(l)
  BY <1>2 DEF Issue, SessionExpires, Validate, Answer, TypeOK, LockHeld, UpToDate,
              Readable, InStep
<1> QED BY <1>1, <1>2 DEF LoginStep

(* Steps of a command. *)
LEMMA CommandKeeps ==
  ASSUME StoreInv, NEW c \in Commands, CommandStep(c) PROVE StoreInv'
<1> USE DEF StoreInv, disk, lock, mtime, shell
<1>1. CASE OpenStore(c) \/ Kill(c)
  <2>1. cli' \in [Commands -> {"new", "loaded", "writing", "done", "failed", "killed"}]
    BY <1>1 DEF OpenStore, Kill, Move, TypeOK
  <2>2. copy' \in [Commands -> SUBSET Passwords]
    BY <1>1 DEF OpenStore, Kill, TypeOK
  <2> QED BY <1>1, <2>1, <2>2 DEF OpenStore, Kill, TypeOK, LockHeld, UpToDate,
                                  Readable, InStep
<1>2. CASE OpenForWriting(c)
  BY <1>2 DEF OpenForWriting, Truncate, Changed, Move, TypeOK, LockHeld, UpToDate
<1>3. CASE Finish(c)
  <2>1. Edited(c) \in SUBSET Passwords
    BY CommandAssumption DEF Edited, TypeOK
  <2>2. file' \subseteq Passwords /\ torn' \in {"whole", "cut", "broken"}
        /\ newer' = TRUE /\ fresh' = FALSE
    BY <1>3, <2>1, WriteTyped DEF Finish
  <2>3. cli' \in [Commands -> {"new", "loaded", "writing", "done", "failed", "killed"}]
    BY <1>3 DEF Finish, Move, TypeOK
  <2> QED BY <1>3, <2>2, <2>3 DEF Finish, TypeOK, LockHeld, UpToDate
<1> QED BY <1>1, <1>2, <1>3 DEF CommandStep

(* Steps of the server's own. *)
LEMMA ServerKeeps ==
  ASSUME StoreInv, PruneSessions \/ PruneStore \/ Reload \/ Start \/ Crash PROVE StoreInv'
<1> USE DEF StoreInv, disk, lock, mtime, shell
<1>1. CASE PruneSessions
  BY <1>1 DEF PruneSessions, TypeOK, LockHeld, UpToDate, Readable, InStep
<1>2. CASE PruneStore
  <2>1. "prune" \in Holders /\ "prune" # Nobody
    BY HolderAssumption DEF Holders
  <2> QED BY <1>2, <2>1 DEF PruneStore, Take, TypeOK, LockHeld, UpToDate, Readable, InStep
<1>3. CASE Reload \/ Start
  <2>1. {"reload", "start"} \subseteq Holders /\ Nobody \notin {"reload", "start"}
    BY HolderAssumption DEF Holders
  <2> QED BY <1>3, <2>1 DEF Reload, Start, Take, TypeOK, LockHeld, UpToDate
<1>4. CASE Crash
  <2>1. login' \in [Logins -> {"new", "refused", "won", "live", "expired", "over"}]
    BY <1>4 DEF Crash, TypeOK
  <2>2. Nobody \notin {"reload", "start"}
    BY HolderAssumption
  <2> QED BY <1>4, <2>1, <2>2 DEF Crash, GiveBack, TypeOK, LockHeld, UpToDate
<1> QED BY <1>1, <1>2, <1>3, <1>4

(* Steps of whoever holds the lock. *)
LEMMA StoreKeeps ==
  ASSUME StoreInv, StoreStep PROVE StoreInv'
<1> USE DEF StoreInv, disk, lock, mtime, shell
<1>n. Nobody \notin {"reload", "start"}
  BY HolderAssumption
<1>r. Release => login' \in [Logins -> {"new", "refused", "won", "live", "expired", "over"}]
  BY DEF Release, TypeOK
<1>1. CASE OpenFile
  <2>1. CASE Truncate /\ phase' = "write" /\ UNCHANGED <<holder, login, failed>>
    <3>1. file' = {} /\ torn' = "cut" /\ newer' = TRUE /\ fresh' = FALSE
      BY <2>1 DEF Truncate, Changed
    <3>2. phase = "open" /\ UNCHANGED <<cli, copy, expired, records, up>>
      BY <1>1 DEF OpenFile
    <3>3. failed' = failed
      BY <2>1
    <3> QED BY <2>1, <3>1, <3>2, <3>3 DEF TypeOK, LockHeld, UpToDate
  <2>2. CASE failed' = TRUE /\ Release /\ UNCHANGED <<disk, mtime>>
    <3>1. /\ phase = "open" /\ phase' = "none" /\ holder' = Nobody
          /\ UNCHANGED <<file, torn, newer, fresh, cli, copy, expired, records, up>>
      BY <1>1, <2>2 DEF OpenFile, Release, GiveBack
    <3>2. TypeOK'
      BY <1>r, <2>2, <3>1 DEF TypeOK
    <3>3. LockHeld'
      BY <1>n, <3>1 DEF LockHeld
    <3>4. UpToDate'
      BY <2>2, <3>1 DEF LockHeld, UpToDate, Readable, InStep
    <3> QED BY <3>2, <3>3, <3>4
  <2> QED BY <1>1, <2>1, <2>2 DEF OpenFile
<1>2. CASE Save
  <2>1. file' \subseteq Passwords /\ torn' \in {"whole", "cut", "broken"}
        /\ newer' = TRUE /\ fresh' = FALSE
    BY <1>2, WriteTyped DEF Save, TypeOK
  <2> QED BY <1>2, <1>n, <1>r, <2>1 DEF Save, Release, GiveBack, TypeOK, LockHeld, UpToDate
<1>3. CASE Load
  <2>1. /\ phase = "read" /\ phase' = "none" /\ holder' = Nobody
        /\ UNCHANGED <<file, torn, fresh, cli, copy, expired, failed, login>>
    BY <1>3 DEF Load, GiveBack
  <2>2. CASE Readable
    <3>1. records' = file /\ newer' = ~fresh /\ up' = up
      BY <1>3, <2>2 DEF Load
    <3>2. newer' \in BOOLEAN
      BY <3>1
    <3>3. TypeOK'
      BY <2>1, <3>1, <3>2 DEF TypeOK
    <3> QED BY <1>n, <2>1, <2>2, <3>1, <3>3 DEF LockHeld, UpToDate, Readable, InStep
  <2>3. CASE ~Readable
    <3>1. up' = (holder # "start") /\ records' = records /\ newer' = newer
      BY <1>3, <2>3 DEF Load
    <3>2. up' \in BOOLEAN
      BY <3>1
    <3>3. newer
      BY <1>n, <2>1, <2>3 DEF LockHeld
    <3>4. TypeOK'
      BY <2>1, <3>1, <3>2 DEF TypeOK
    <3> QED BY <1>n, <2>1, <3>1, <3>3, <3>4 DEF LockHeld, UpToDate
  <2> QED BY <2>2, <2>3
<1> QED BY <1>1, <1>2, <1>3 DEF StoreStep

LEMMA StoreNext ==
  ASSUME StoreInv, [Next]_vars PROVE StoreInv'
<1>1. CASE UNCHANGED vars
  BY <1>1 DEF vars, disk, lock, mtime, shell, StoreInv, TypeOK, LockHeld, UpToDate, Readable,
              InStep
<1>2. ASSUME NEW w \in Passwords, Expire(w) PROVE StoreInv'
  BY <1>2 DEF Expire, disk, lock, mtime, shell, StoreInv, TypeOK, LockHeld, UpToDate,
              Readable, InStep
<1> QED BY <1>1, <1>2, LoginKeeps, CommandKeeps, ServerKeeps, StoreKeeps DEF Next

(* The inductive invariant: who holds PasswordStore.mu, what the file has   *)
(* since the server last read it, and what it has not written yet.          *)
THEOREM StoreInvariant == Spec => []StoreInv
<1>1. Init => StoreInv
  BY InitStore
<1>2. StoreInv /\ [Next]_vars => StoreInv'
  BY StoreNext
<1> QED BY <1>1, <1>2, PTL DEF Spec

(* Every variable keeps its type. *)
THEOREM StoreTyped == Spec => []TypeOK
<1>1. StoreInv => TypeOK
  BY DEF StoreInv
<1> QED BY <1>1, StoreInvariant, PTL

(* The server that sees no change of the file holds what the file holds,    *)
(* whatever the commands do, whichever dies (ReloadIfChanged).              *)
THEOREM Follows == Spec => []FollowsFile
<1>1. StoreInv => FollowsFile
  BY DEF StoreInv, LockHeld, UpToDate, FollowsFile
<1> QED BY <1>1, StoreInvariant, PTL
-----------------------------------------------------------------------------
(* As long as no save has failed and no command has written the file, a     *)
(* one-time password that was used is gone from the memory and from the     *)
(* file, whatever is left of the file after a crash; and the login that is  *)
(* being answered is the only one that holds it.                            *)
Spent(w) == \E l \in Logins : Admitted(l) /\ Secret[l] = w

Gone ==
  /\ \A w \in OneTime : Spent(w) => w \notin records /\ w \notin file
  /\ \A l \in Logins : holder = l => /\ Secret[l] \in OneTime /\ ~Spent(Secret[l])
                                     /\ Secret[l] \notin records /\ login[l] = "new"
  /\ phase = "write" => file = {}

OnceInv == StoreInv /\ (Undisturbed => OneTimeOnce /\ Gone)

LEMMA InitOnce == ASSUME Init PROVE OnceInv
<1>1. StoreInv
  BY InitStore
<1>2. \A l \in Logins : ~Admitted(l) /\ holder # l
  BY HolderAssumption DEF Init, Admitted
<1> QED BY <1>1, <1>2 DEF Init, OnceInv, OneTimeOnce, Gone, Spent

(* Logins whose admission does not change and a lock that stays put: the    *)
(* records and the file may only lose one-time passwords that are spent.    *)
LEMMA SameAdmitted ==
  ASSUME OneTimeOnce, Gone,
         \A l \in Logins : Admitted(l)' = Admitted(l),
         \A l \in Logins : holder' = l => holder = l /\ login'[l] = login[l],
         \A w \in OneTime : w \notin records /\ w \notin file => w \notin records' /\ w \notin file',
         (\E l \in Logins : holder' = l) => records' \subseteq records,
         phase' = "write" => file' = {}
  PROVE  OneTimeOnce' /\ Gone'
<1>1. \A w : Spent(w)' = Spent(w)
  BY DEF Spent
<1>2. OneTimeOnce'
  BY DEF OneTimeOnce
<1>3. Gone'
  BY <1>1 DEF Gone
<1> QED BY <1>2, <1>3

(* A login is admitted: one of a lasting password, or the one that held the *)
(* lock.                                                                    *)
LEMMA NewlyAdmitted ==
  ASSUME TypeOK, OneTimeOnce, Gone, NEW l \in Logins,
         login' = [login EXCEPT ![l] = "won"],
         Secret[l] \in OneTime => /\ ~Spent(Secret[l])
                                  /\ Secret[l] \notin records' /\ Secret[l] \notin file',
         \A w \in OneTime : w \notin records /\ w \notin file => w \notin records' /\ w \notin file',
         \A m \in Logins : holder' # m,
         phase' = "write" => file' = {}
  PROVE  OneTimeOnce' /\ Gone'
<1>t. login \in [Logins -> {"new", "refused", "won", "live", "expired", "over"}]
  BY DEF TypeOK
<1>1. \A m \in Logins : Admitted(m)' <=> Admitted(m) \/ m = l
  BY <1>t DEF Admitted
<1>2. \A w : Spent(w)' <=> Spent(w) \/ w = Secret[l]
  BY <1>1 DEF Spent
<1>3. OneTimeOnce'
  <2> SUFFICES ASSUME NEW m \in Logins, NEW n \in Logins, m # n, Admitted(m)', Admitted(n)',
                      Secret[m] = Secret[n], Secret[m] \in OneTime
               PROVE  FALSE
    BY DEF OneTimeOnce
  <2>1. CASE m # l /\ n # l
    BY <1>1, <2>1 DEF OneTimeOnce
  <2>2. CASE m = l \/ n = l
    BY <1>1, <2>2 DEF Spent
  <2> QED BY <2>1, <2>2
<1>4. Gone'
  BY <1>2 DEF Gone
<1> QED BY <1>3, <1>4

(* Once a save has failed or a command has written, that remains so.        *)
LEMMA DisturbedForGood ==
  ASSUME TypeOK, [Next]_vars, Undisturbed' PROVE Undisturbed
<1> USE DEF disk, lock, mtime, shell, Undisturbed
<1>1. CASE UNCHANGED vars
  BY <1>1 DEF vars
<1>2. ASSUME NEW l \in Logins, LoginStep(l) PROVE Undisturbed
  BY <1>2 DEF LoginStep, Consume, Issue, SessionExpires, Validate
<1>3. ASSUME NEW c \in Commands, CommandStep(c) PROVE Undisturbed
  <2>1. failed' = failed /\ cli[c] # "done"
        /\ \A d \in Commands : d # c => cli'[d] = cli[d]
    BY <1>3 DEF CommandStep, OpenStore, OpenForWriting, Finish, Kill, Move, TypeOK
  <2> QED BY <2>1
<1>4. CASE PruneSessions \/ PruneStore \/ Reload \/ Start \/ Crash
  BY <1>4 DEF PruneSessions, PruneStore, Reload, Start, Crash
<1>5. CASE StoreStep
  BY <1>5 DEF StoreStep, OpenFile, Save, Load
<1>6. ASSUME NEW w \in Passwords, Expire(w) PROVE Undisturbed
  BY <1>6 DEF Expire
<1> QED BY <1>1, <1>2, <1>3, <1>4, <1>5, <1>6 DEF Next

LEMMA OnceNext ==
  ASSUME OnceInv, [Next]_vars PROVE OnceInv'
<1> USE DEF disk, lock, mtime, shell
<1>i. StoreInv'
  BY StoreNext DEF OnceInv
<1> SUFFICES ASSUME Undisturbed' PROVE OneTimeOnce' /\ Gone'
  BY <1>i DEF OnceInv
<1>u. Undisturbed
  BY DisturbedForGood DEF OnceInv, StoreInv
<1>t. TypeOK /\ LockHeld /\ Gone
  BY <1>u DEF OnceInv, StoreInv
<1>o. OneTimeOnce
  BY <1>u DEF OnceInv
<1>0. CASE UNCHANGED vars
  BY <1>0, <1>t, <1>o, SameAdmitted DEF vars, Admitted, Gone
<1>1. ASSUME NEW l \in Logins, Consume(l) PROVE OneTimeOnce' /\ Gone'
  <2>1. CASE Secret[l] \notin records \ expired
    <3>1. login' = [login EXCEPT ![l] = "refused"] /\ login[l] = "new" /\ holder = Nobody
          /\ UNCHANGED <<records, file, holder, phase>>
      BY <1>1, <2>1 DEF Consume, Answer
    <3>2. \A m \in Logins : Admitted(m)' = Admitted(m) /\ holder # m
      BY <1>t, <3>1, HolderAssumption DEF Admitted, TypeOK
    <3> QED BY <1>t, <3>1, <3>2, <1>o, SameAdmitted DEF Gone
  <2>2. CASE Secret[l] \in records \ expired /\ Secret[l] \notin OneTime
    <3>1. login' = [login EXCEPT ![l] = "won"] /\ holder = Nobody
          /\ UNCHANGED <<records, file, holder, phase>>
      BY <1>1, <2>2 DEF Consume, Answer
    <3>2. \A m \in Logins : holder # m
      BY <3>1, HolderAssumption
    <3> QED BY <1>t, <2>2, <3>1, <3>2, <1>o, NewlyAdmitted DEF Gone
  <2>3. CASE Secret[l] \in records \ expired /\ Secret[l] \in OneTime
    <3>1. /\ records' = records \ {Secret[l]} /\ holder' = l /\ phase' = "open"
          /\ login[l] = "new" /\ UNCHANGED <<login, file>>
      BY <1>1, <2>3 DEF Consume, Take
    <3>2. ~Spent(Secret[l])
      BY <1>t, <2>3 DEF Gone
    <3>3. OneTimeOnce'
      BY <1>o, <3>1 DEF OneTimeOnce, Admitted
    <3>4. \A w : Spent(w)' = Spent(w)
      BY <3>1 DEF Spent, Admitted
    <3>5. Gone'
      BY <1>t, <2>3, <3>1, <3>2, <3>4 DEF Gone
    <3> QED BY <3>3, <3>5
  <2> QED BY <2>1, <2>2, <2>3
<1>2. ASSUME NEW l \in Logins, Issue(l) \/ SessionExpires(l) \/ Validate(l)
      PROVE  OneTimeOnce' /\ Gone'
  <2>1. PICK state \in {"live", "expired", "over"} : login' = [login EXCEPT ![l] = state]
    BY <1>2 DEF Issue, SessionExpires, Validate, Answer
  <2>2. login[l] \in {"won", "live", "expired"} /\ UNCHANGED <<records, file, holder, phase>>
    BY <1>2 DEF Issue, SessionExpires, Validate
  <2>3. \A m \in Logins : Admitted(m)' = Admitted(m)
    BY <1>t, <2>1, <2>2 DEF Admitted, TypeOK
  <2>4. \A m \in Logins : holder = m => m # l
    BY <1>t, <2>2 DEF Gone
  <2>5. \A m \in Logins : holder = m => login'[m] = login[m]
    BY <1>t, <2>1, <2>4 DEF TypeOK
  <2> QED BY <1>t, <2>2, <2>3, <2>5, <1>o, SameAdmitted DEF Gone
<1>3. CASE PruneSessions
  <2>1. login' = [l \in Logins |-> IF login[l] = "expired" THEN "over" ELSE login[l]]
        /\ UNCHANGED <<records, file, holder, phase>>
    BY <1>3 DEF PruneSessions
  <2>2. \A l \in Logins : login'[l] = (IF login[l] = "expired" THEN "over" ELSE login[l])
    BY <2>1
  <2>3. \A l \in Logins : Admitted(l)' = Admitted(l)
    BY <2>2 DEF Admitted
  <2>4. \A l \in Logins : holder = l => login'[l] = login[l]
    BY <1>t, <2>2 DEF Gone
  <2> QED BY <1>t, <2>1, <2>3, <2>4, <1>o, SameAdmitted DEF Gone
<1>4. CASE PruneStore \/ Reload \/ Start
  <2>1. \A l \in Logins : holder' # l
    BY <1>4, HolderAssumption DEF PruneStore, Reload, Start, Take
  <2>2. UNCHANGED <<login, file>> /\ phase' # "write" /\ records' \subseteq records
    BY <1>4 DEF PruneStore, Reload, Start, Take
  <2> QED BY <2>1, <2>2, <1>o, <1>t, SameAdmitted DEF Admitted
<1>5. CASE OpenFile
  <2>1. ~failed'
    BY DEF Undisturbed
  <2>2. file' = {} /\ UNCHANGED <<records, holder, login>>
    BY <1>5, <2>1 DEF OpenFile, Truncate
  <2> QED BY <1>t, <2>2, <1>o, SameAdmitted DEF Admitted
<1>6. CASE Save
  <2>1. file' \in {records, file} /\ file = {} /\ phase' = "none" /\ holder' = Nobody
        /\ UNCHANGED records
    BY <1>6, <1>t, WriteTyped DEF Save, Release, GiveBack, TypeOK, Gone
  <2>2. \A l \in Logins : holder' # l
    BY <2>1, HolderAssumption
  <2>3. login' = [l \in Logins |-> IF l = holder THEN "won" ELSE login[l]]
    BY <1>6 DEF Save, Release
  <2>4. CASE holder \in Logins
    <3>1. login' = [login EXCEPT ![holder] = "won"]
      BY <1>t, <2>3, <2>4 DEF TypeOK
    <3> QED BY <1>t, <2>1, <2>2, <2>4, <3>1, <1>o, NewlyAdmitted DEF Gone
  <2>5. CASE holder \notin Logins
    <3>1. login' = login
      BY <1>t, <2>3, <2>5 DEF TypeOK
    <3> QED BY <2>1, <2>2, <3>1, <1>o, <1>t, SameAdmitted DEF Admitted
  <2> QED BY <2>4, <2>5
<1>7. CASE Load
  <2>1. holder' = Nobody /\ phase' = "none" /\ records' \in {file, records}
        /\ UNCHANGED <<login, file>>
    BY <1>7 DEF Load, GiveBack
  <2>2. \A l \in Logins : holder' # l
    BY <2>1, HolderAssumption
  <2> QED BY <2>1, <2>2, <1>o, <1>t, SameAdmitted DEF Admitted
<1>8. CASE Crash
  <2>1. holder' = Nobody /\ phase' = "none" /\ records' = {} /\ UNCHANGED file
        /\ login' = [l \in Logins |-> IF l = holder THEN "refused"
                       ELSE IF login[l] \in {"won", "live", "expired"} THEN "over" ELSE login[l]]
    BY <1>8 DEF Crash, GiveBack
  <2>2. \A l \in Logins : holder' # l
    BY <2>1, HolderAssumption
  <2>3. \A l \in Logins : login'[l] = IF l = holder THEN "refused"
                       ELSE IF login[l] \in {"won", "live", "expired"} THEN "over" ELSE login[l]
    BY <2>1
  <2>4. \A l \in Logins : Admitted(l)' = Admitted(l)
    BY <1>t, <2>3 DEF Admitted, Gone
  <2> QED BY <2>1, <2>2, <2>4, <1>o, <1>t, SameAdmitted
<1>9. ASSUME NEW w \in Passwords, Expire(w) PROVE OneTimeOnce' /\ Gone'
  BY <1>9, <1>t, <1>o, SameAdmitted DEF Expire, Admitted, Gone
<1>10. ASSUME NEW c \in Commands, CommandStep(c) PROVE OneTimeOnce' /\ Gone'
  <2>1. UNCHANGED <<records, holder, phase, login>>
    BY <1>10 DEF CommandStep, OpenStore, OpenForWriting, Finish, Kill
  <2>2. ~Finish(c)
    BY <1>t DEF Finish, Move, Undisturbed, TypeOK
  <2>3. file' = file \/ file' = {}
    BY <1>10, <2>2 DEF CommandStep, OpenStore, OpenForWriting, Kill, Truncate
  <2> QED BY <1>t, <2>1, <2>3, <1>o, SameAdmitted DEF Admitted, Gone
<1> QED BY <1>0, <1>1, <1>2, <1>3, <1>4, <1>5, <1>6, <1>7, <1>8, <1>9, <1>10
       DEF Next, LoginStep, StoreStep

(* While every save of the server reached the file and no command has       *)
(* written it, no two logins succeed with the same one-time password: not   *)
(* by racing each other, not across a reload, not across a crash between    *)
(* any two steps.                                                           *)
THEOREM Once == Spec => []OnceUndisturbed
<1>1. Init => OnceInv
  BY InitOnce
<1>2. OnceInv /\ [Next]_vars => OnceInv'
  BY OnceNext
<1>3. OnceInv => OnceUndisturbed
  BY DEF OnceInv, OnceUndisturbed
<1> QED BY <1>1, <1>2, <1>3, PTL DEF Spec
=============================================================================
