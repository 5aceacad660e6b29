--------------------------- MODULE HandshakeProofs ---------------------------
(***************************************************************************)
(* Theorems about RelayHandshake, for any number of sends, guests and      *)
(* login attempts.                                                         *)
(***************************************************************************)
EXTENDS RelayHandshake, TLAPS

Begun(s) == stage[s] \notin {"idle", "keygen"}

(* A request was made, in the name of its send.                             *)
Asked(r) == r \in Requests /\ r[2] <= tries[r[1]]

(* The prompt that is remembered is of a send that has a try left, and      *)
(* nobody is logged in while it is open; before the send's first try the    *)
(* slot holds its own key.                                                  *)
Prompted ==
  /\ \A s \in Sends : ask[s] = "prompt" => tries[s] < 2
  /\ loginPending # None => ask[loginPending] = "prompt" /\ ~loggedIn
  /\ loginPending # None /\ tries[loginPending] = 0 => pendingHostPubKey = loginPending

(* Where a send is tells what its two promises can be.                      *)
Staged ==
  \A s \in Sends :
    /\ stage[s] \in {"idle", "keygen", "export"} => ask[s] = "none" /\ tries[s] = 0
    /\ ~Begun(s) => key[s] = "none"
    /\ Begun(s) => key[s] # "none"
    /\ stage[s] = "both" => /\ ask[s] \in {"prompt", "request", "token"}
                            /\ key[s] \in {"wait", "got"}
                            /\ ~(ask[s] = "token" /\ key[s] = "got")
    /\ stage[s] \in {"relay", "done"} => ask[s] = "token" /\ key[s] = "got"
    /\ ask[s] = "request" => tries[s] >= 1

(* What is under way or was used belongs to a request, and a token or a key *)
(* is of a request to the same guest.                                       *)
Traced ==
  /\ \A i \in DOMAIN up : Asked(up[i])
  /\ \A i \in DOMAIN down : down[i].type \in {"approved", "key"} => Asked(down[i].req)
  /\ \A r \in approvals \cup relayTimers : Asked(r)
  /\ \A s \in keyTimers : Begun(s)
  /\ \A d \in deriving : /\ Begun(d.owner) /\ peer[d.owner] = d.from
                         /\ Asked(d.req) /\ peer[d.req[1]] = d.from
  /\ \A s \in Sends : ask[s] = "token" =>
       token[s] # None /\ Asked(token[s]) /\ peer[token[s][1]] = peer[s]
  /\ \A s \in Sends : key[s] = "got" =>
       /\ shared[s] \in [host : {s}, guest : Requests]
       /\ Asked(shared[s].guest) /\ peer[shared[s].guest[1]] = peer[s]

(* A send with its guest to itself owns the entries that its timers look    *)
(* for.                                                                     *)
Timed ==
  \A s \in Sends : Alone(s) =>
    /\ Begun(s) /\ key[s] = "wait" /\ peer[s] \in present /\ stage[s] # "failed" => KeyTimed(s)
    /\ ask[s] = "request" /\ tries[s] = 1 => AskTimed(s)

HandshakeInv == TypeOK /\ Prompted /\ OwnKeyFirst /\ Staged /\ Traced /\ Timed

-----------------------------------------------------------------------------
(* Lemmas about sequences, about Promise.all and about a request.           *)
LEMMA TailKeeps ==
  ASSUME NEW S, NEW q \in Seq(S), q # <<>>
  PROVE  /\ Tail(q) \in Seq(S) /\ Head(q) \in S /\ 1 \in DOMAIN q /\ Head(q) = q[1]
         /\ \A i \in DOMAIN Tail(q) : \E j \in DOMAIN q : Tail(q)[i] = q[j]
<1>1. /\ Tail(q) \in Seq(S) /\ Head(q) \in S /\ 1 \in DOMAIN q /\ Head(q) = q[1]
  OBVIOUS
<1>2. ASSUME NEW i \in DOMAIN Tail(q) PROVE i + 1 \in DOMAIN q /\ Tail(q)[i] = q[i + 1]
  OBVIOUS
<1> QED BY <1>1, <1>2

LEMMA AppendKeeps ==
  ASSUME NEW S, NEW q \in Seq(S), NEW e \in S
  PROVE  /\ Append(q, e) \in Seq(S)
         /\ \A i \in DOMAIN Append(q, e) :
              Append(q, e)[i] = e \/ \E j \in DOMAIN q : Append(q, e)[i] = q[j]
<1>1. Append(q, e) \in Seq(S) /\ Append(q, e)[Len(q) + 1] = e
  OBVIOUS
<1>2. ASSUME NEW i \in DOMAIN Append(q, e), i # Len(q) + 1
      PROVE  i \in DOMAIN q /\ Append(q, e)[i] = q[i]
  BY <1>2
<1> QED BY <1>1, <1>2

Stages == {"idle", "keygen", "export", "both", "relay", "done", "failed"}

LEMMA Settling ==
  ASSUME NEW st \in [Sends -> Stages], PromiseAll(st)
  PROVE  /\ stage' \in [Sends -> Stages]
         /\ \A s \in Sends :
              /\ st[s] # "both" => stage'[s] = st[s]
              /\ st[s] = "both" =>
                   \/ "failed" \in {ask'[s], key'[s]} /\ stage'[s] = "failed"
                   \/ ask'[s] = "token" /\ key'[s] = "got" /\ stage'[s] = "relay"
                   \/ /\ ask'[s] # "failed" /\ key'[s] # "failed"
                      /\ ~(ask'[s] = "token" /\ key'[s] = "got") /\ stage'[s] = "both"
BY DEF PromiseAll, Outcome, Stages

LEMMA RequestMade ==
  ASSUME TypeOK, NEW s \in Sends, NEW k \in Sends \cup {None}, tries[s] < 2, ask[s] # "request",
         Request(s, k), UNCHANGED <<peer, key, pendingRelayKeys>>,
         NEW r, r = <<s, tries[s] + 1>>
  PROVE  /\ r \in Requests /\ r[1] = s /\ r[2] = tries'[s]
         /\ ask' \in [Sends -> {"none", "prompt", "request", "token", "failed"}]
         /\ tries' \in [Sends -> 0 .. 2]
         /\ ask'[s] = "request" /\ tries'[s] = tries[s] + 1
         /\ \A t \in Sends \ {s} : ask'[t] = ask[t] /\ tries'[t] = tries[t]
         /\ pendingRelay' \in [Peers -> Requests \cup {None}] /\ pendingRelay'[peer[s]] = r
         /\ \A p \in Peers \ {peer[s]} : pendingRelay'[p] = pendingRelay[p]
         /\ pendingHostPubKey' = None /\ relayTimers' = relayTimers \cup {r}
         /\ keySent' \in [Requests -> Sends \cup {None}] /\ keySent'[r] = k
         /\ \A q \in Requests \ {r} : keySent'[q] = keySent[q]
         /\ up' \in Seq(Requests)
         /\ \A i \in DOMAIN up' : up'[i] = r \/ \E j \in DOMAIN up : up'[i] = up[j]
         /\ Unsettled'
<1> USE DEF TypeOK, SendsTyped, PendingTyped, OutsideTyped
<1>1. r \in Requests /\ r[1] = s /\ r[2] = tries[s] + 1
  BY DEF Requests
<1>2. /\ ask' = [ask EXCEPT ![s] = "request"] /\ tries' = [tries EXCEPT ![s] = @ + 1]
      /\ pendingRelay' = [pendingRelay EXCEPT ![peer[s]] = r] /\ pendingHostPubKey' = None
      /\ relayTimers' = relayTimers \cup {r} /\ keySent' = [keySent EXCEPT ![r] = k]
      /\ up' = IF left THEN up ELSE Append(up, r)
  BY DEF Request
<1>3. tries' \in [Sends -> 0 .. 2] /\ tries'[s] = tries[s] + 1
  BY <1>2
<1>4. /\ up' \in Seq(Requests)
      /\ \A i \in DOMAIN up' : up'[i] = r \/ \E j \in DOMAIN up : up'[i] = up[j]
  BY <1>1, <1>2, AppendKeeps
<1>5. Unsettled'
  <2>1. ASSUME NEW p \in Peers, NEW t \in Sends, NEW n \in {1, 2}, pendingRelay'[p] = <<t, n>>
        PROVE  ask'[t] = "request" /\ tries'[t] = n /\ peer'[t] = p
    <3>1. CASE p = peer[s]
      <4>1. <<t, n>> = <<s, tries[s] + 1>>
        BY <1>2, <2>1, <3>1
      <4>2. t = s /\ n = tries[s] + 1
        BY <4>1
      <4> QED BY <1>2, <1>3, <3>1, <4>2
    <3>2. CASE p # peer[s]
      <4>1. pendingRelay[p] = <<t, n>>
        BY <1>2, <2>1, <3>2
      <4>2. ask[t] = "request" /\ tries[t] = n /\ peer[t] = p
        BY <4>1 DEF Unsettled
      <4> QED BY <1>2, <4>2
    <3> QED BY <3>1, <3>2
  <2>2. \A p \in Peers, t \in Sends : pendingRelayKeys'[p] = t => key'[t] = "wait" /\ peer'[t] = p
    BY DEF Unsettled
  <2> QED BY <2>1, <2>2 DEF Unsettled
<1> QED BY <1>1, <1>2, <1>3, <1>4, <1>5
LEMMA SameStage ==
  ASSUME SendsTyped, Staged, PromiseAll(stage),
         NEW s \in Sends, ask'[s] = ask[s], key'[s] = key[s]
  PROVE  stage'[s] = stage[s]
<1>1. stage \in [Sends -> Stages]
  BY DEF SendsTyped, Stages
<1> QED BY <1>1, Settling DEF Staged

LEMMA Told ==
  ASSUME OutsideTyped, NEW m \in Messages, Tell(m)
  PROVE  /\ down' \in Seq(Messages)
         /\ \A i \in DOMAIN down' : down'[i] = m \/ \E j \in DOMAIN down : down'[i] = down[j]
<1>1. down \in Seq(Messages)
  BY DEF OutsideTyped
<1>2. CASE left
  BY <1>1, <1>2 DEF Tell
<1>3. CASE ~left
  <2>1. down' = Append(down, m)
    BY <1>3 DEF Tell
  <2> QED BY <1>1, <2>1, AppendKeeps
<1> QED BY <1>2, <1>3

LEMMA Received ==
  ASSUME OutsideTyped, NEW type, Receive(type)
  PROVE  /\ down' \in Seq(Messages) /\ Head(down) \in Messages /\ Head(down).type = type
         /\ 1 \in DOMAIN down /\ Head(down) = down[1]
         /\ \A i \in DOMAIN down' : \E j \in DOMAIN down : down'[i] = down[j]
<1>1. down \in Seq(Messages) /\ down # <<>> /\ down' = Tail(down) /\ Head(down).type = type
  BY DEF Receive, OutsideTyped
<1> QED BY <1>1, TailKeeps

LEMMA ReceivedAsked ==
  ASSUME OutsideTyped, Traced, NEW type \in {"approved", "key"}, Receive(type)
  PROVE  Head(down).req \in Requests /\ Asked(Head(down).req)
BY Received DEF Traced, Asked
-----------------------------------------------------------------------------
LEMMA SendFileKeeps ==
  ASSUME HandshakeInv, NEW s \in Sends, SendFile(s) PROVE HandshakeInv'
<1> USE NoneAssumption, LoginAssumption DEF HandshakeInv
<1>1. SendsTyped'
  BY DEF TypeOK, SendsTyped, SendFile
<1>2. PendingTyped'
  BY DEF TypeOK, PendingTyped, SendFile, pendings
<1>3. OutsideTyped'
  BY DEF TypeOK, OutsideTyped, SendFile, login, network
<1>4. Unsettled'
  BY DEF TypeOK, Unsettled, SendFile, pendings
<1>5. Prompted'
  BY DEF Prompted, SendFile, pendings, login
<1>6. OwnKeyFirst'
  BY DEF OwnKeyFirst, SendFile, network
<1>7. Staged'
  BY DEF Staged, Begun, SendFile
<1>8. Traced'
  BY DEF Traced, Begun, Asked, SendFile, pendings, network
<1>9. Timed'
  BY DEF Staged, Timed, KeyTimed, AskTimed, Alone, SendFile, pendings, network
<1> QED BY <1>1, <1>2, <1>3, <1>4, <1>5, <1>6, <1>7, <1>8, <1>9 DEF TypeOK

LEMMA KeyPairReadyKeeps ==
  ASSUME HandshakeInv, NEW s \in Sends, KeyPairReady(s) PROVE HandshakeInv'
<1> USE NoneAssumption, LoginAssumption DEF HandshakeInv
<1>1. SendsTyped'
  BY DEF TypeOK, SendsTyped, KeyPairReady
<1>2. PendingTyped'
  BY DEF TypeOK, PendingTyped, KeyPairReady
<1>3. OutsideTyped'
  BY DEF TypeOK, OutsideTyped, KeyPairReady, login, network
<1>4. Unsettled'
  BY DEF TypeOK, SendsTyped, Unsettled, KeyPairReady
<1>5. Prompted'
  BY DEF Prompted, KeyPairReady, login
<1>6. OwnKeyFirst'
  BY DEF OwnKeyFirst, KeyPairReady, network
<1>7. Staged'
  BY DEF TypeOK, SendsTyped, Staged, Begun, KeyPairReady
<1>8. Traced'
  BY DEF TypeOK, SendsTyped, Traced, Begun, Asked, KeyPairReady, network
<1>9. Timed'
  BY DEF TypeOK, SendsTyped, PendingTyped, Staged, Traced, Timed, KeyTimed, AskTimed, Alone, KeyPairReady, network
<1> QED BY <1>1, <1>2, <1>3, <1>4, <1>5, <1>6, <1>7, <1>8, <1>9 DEF TypeOK

LEMMA KeyExportedKeeps ==
  ASSUME HandshakeInv, NEW s \in Sends, KeyExported(s) PROVE HandshakeInv'
<1> USE NoneAssumption DEF HandshakeInv
<1>1. /\ stage[s] = "export" /\ ask[s] = "none" /\ tries[s] = 0 /\ key[s] # "none"
      /\ loggedIn' \in BOOLEAN /\ (loggedIn' => loginPending = None)
      /\ UNCHANGED <<peer, token, key, shared, pendingRelayKeys, keyTimers, deriving, logins, down,
                     approvals, present, left>>
  <2>1. stage[s] = "export" /\ loggedIn' \in {loggedIn, FALSE}
        /\ UNCHANGED <<peer, token, key, shared, pendingRelayKeys, keyTimers, deriving, logins,
                       down, approvals, present, left>>
    BY DEF KeyExported, HasValidToken
  <2>2. ask[s] = "none" /\ tries[s] = 0 /\ key[s] # "none"
    BY <2>1 DEF Staged, Begun
  <2>3. loggedIn \in BOOLEAN /\ (loggedIn => loginPending = None)
    BY DEF TypeOK, OutsideTyped, Prompted
  <2>4. loggedIn' \in BOOLEAN
    BY <2>1, <2>3
  <2>5. loggedIn' => loginPending = None
    BY <2>1, <2>3
  <2> QED BY <2>1, <2>2, <2>4, <2>5
<1>2. /\ ask' \in [Sends -> {"none", "prompt", "request", "token", "failed"}]
      /\ ask'[s] \in {"prompt", "request"} /\ \A t \in Sends \ {s} : ask'[t] = ask[t]
  BY DEF KeyExported, Prompt, Request, TypeOK, SendsTyped
<1>3. /\ stage' \in [Sends -> Stages]
      /\ \A t \in Sends \ {s} : stage'[t] = stage[t]
      /\ \/ stage'[s] = "both" /\ key[s] \in {"wait", "got"}
         \/ stage'[s] = "failed" /\ key[s] = "failed"
  <2> DEFINE st == [stage EXCEPT ![s] = "both"]
  <2>1. st \in [Sends -> Stages] /\ st[s] = "both" /\ \A t \in Sends \ {s} : st[t] = stage[t]
    BY DEF TypeOK, SendsTyped, Stages
  <2>2. PromiseAll(st)
    BY DEF KeyExported
  <2> HIDE DEF st
  <2>3. /\ stage' \in [Sends -> Stages]
        /\ \A t \in Sends :
             /\ st[t] # "both" => stage'[t] = st[t]
             /\ st[t] = "both" =>
                  \/ "failed" \in {ask'[t], key'[t]} /\ stage'[t] = "failed"
                  \/ ask'[t] = "token" /\ key'[t] = "got" /\ stage'[t] = "relay"
                  \/ /\ ask'[t] # "failed" /\ key'[t] # "failed"
                     /\ ~(ask'[t] = "token" /\ key'[t] = "got") /\ stage'[t] = "both"
    BY <2>1, <2>2, Settling
  <2>4. \A t \in Sends \ {s} : stage'[t] = stage[t]
    BY <1>1, <1>2, <2>1, <2>3 DEF Staged
  <2>5. key[s] \in {"wait", "got", "failed"}
    BY <1>1 DEF TypeOK, SendsTyped
  <2> QED BY <1>1, <1>2, <2>1, <2>3, <2>4, <2>5
<1>5. \A t \in Sends : Alone(t)' => Alone(t)
  BY <1>1, <1>3 DEF Alone
<1>4. \A t \in Sends : Begun(t) => stage'[t] \notin {"idle", "keygen"}
  BY <1>3 DEF Begun
<1>6. CASE loggedIn'
  <2>1. PICK r : r = <<s, tries[s] + 1>>
    OBVIOUS
  <2>2. Request(s, s) /\ UNCHANGED loginPending
    BY <1>6 DEF KeyExported
  <2>3. /\ r \in Requests /\ r[1] = s /\ r[2] = tries'[s]
        /\ ask' \in [Sends -> {"none", "prompt", "request", "token", "failed"}]
        /\ tries' \in [Sends -> 0 .. 2]
        /\ ask'[s] = "request" /\ tries'[s] = tries[s] + 1
        /\ \A t \in Sends \ {s} : ask'[t] = ask[t] /\ tries'[t] = tries[t]
        /\ pendingRelay' \in [Peers -> Requests \cup {None}] /\ pendingRelay'[peer[s]] = r
        /\ \A p \in Peers \ {peer[s]} : pendingRelay'[p] = pendingRelay[p]
        /\ pendingHostPubKey' = None /\ relayTimers' = relayTimers \cup {r}
        /\ keySent' \in [Requests -> Sends \cup {None}] /\ keySent'[r] = s
        /\ \A q \in Requests \ {r} : keySent'[q] = keySent[q]
        /\ up' \in Seq(Requests)
        /\ \A i \in DOMAIN up' : up'[i] = r \/ \E j \in DOMAIN up : up'[i] = up[j]
        /\ Unsettled'
    <3>1. tries[s] < 2 /\ ask[s] # "request" /\ s \in Sends \cup {None}
      BY <1>1
    <3> QED BY <1>1, <2>1, <2>2, <3>1, RequestMade
  <2>4. SendsTyped'
    BY <1>1, <1>3, <2>3 DEF TypeOK, SendsTyped, Stages
  <2>5. PendingTyped' /\ OutsideTyped'
    BY <1>1, <2>2, <2>3 DEF TypeOK, PendingTyped, OutsideTyped
  <2>6. Prompted'
    BY <1>1, <1>6, <2>2, <2>3 DEF Prompted
  <2>7. OwnKeyFirst'
    <3>1. ASSUME NEW t \in Sends, t # s PROVE <<t, 1>> \in Requests \ {r}
      BY <2>3, <3>1 DEF Requests
    <3>2. r = <<s, 1>>
      BY <1>1, <2>1
    <3> QED BY <2>3, <3>1, <3>2 DEF OwnKeyFirst
  <2>8. Staged'
    BY <1>1, <1>3, <2>3 DEF Staged, Begun, TypeOK, SendsTyped
  <2>9. Traced'
    <3>1. \A q \in Requests : q[2] <= tries[q[1]] => q[2] <= tries'[q[1]]
      BY <2>3 DEF Requests, TypeOK, SendsTyped
    <3>2. r[2] <= tries'[r[1]]
      BY <2>3 DEF Requests, SendsTyped
    <3>3. \A t \in Sends : ask'[t] = "token" => ask[t] = "token"
      BY <2>3
    <3>4. \A i \in DOMAIN up' : up'[i] \in Requests /\ up'[i][2] <= tries'[up'[i][1]]
      BY <2>3, <3>1, <3>2 DEF Traced, Asked
    <3>5. /\ \A t \in keyTimers : stage'[t] \notin {"idle", "keygen"}
          /\ \A d \in deriving : /\ stage'[d.owner] \notin {"idle", "keygen"}
                                 /\ peer[d.owner] = d.from /\ d.req \in Requests
                                 /\ d.req[2] <= tries'[d.req[1]] /\ peer[d.req[1]] = d.from
      BY <1>4, <3>1 DEF Traced, Asked, TypeOK, PendingTyped
    <3> QED BY <1>1, <2>3, <3>1, <3>2, <3>3, <3>4, <3>5 DEF Traced, Asked, Begun
  <2>10. Timed'
    <3>1. ASSUME NEW t \in Sends, Alone(t)', Begun(t)', key'[t] = "wait", peer'[t] \in present',
                 stage'[t] # "failed"
          PROVE  KeyTimed(t)'
      BY <1>1, <1>3, <1>5, <3>1 DEF Timed, KeyTimed, Begun
    <3>2. ASSUME NEW t \in Sends, Alone(t)', ask'[t] = "request", tries'[t] = 1
          PROVE  AskTimed(t)'
      <4>1. CASE t = s
        BY <1>1, <2>1, <2>3, <4>1 DEF AskTimed
      <4>2. CASE t # s
        <5>1. Alone(t) /\ AskTimed(t)
          BY <1>5, <2>3, <3>2, <4>2 DEF Timed
        <5>2. peer[t] # peer[s]
          BY <1>1, <3>2, <4>2, <5>1 DEF Alone
        <5>3. peer[t] \in Peers
          BY DEF TypeOK, SendsTyped
        <5> QED BY <1>1, <2>3, <4>2, <5>1, <5>2, <5>3 DEF AskTimed
      <4> QED BY <4>1, <4>2
    <3> QED BY <3>1, <3>2 DEF Timed
  <2> QED BY <2>3, <2>4, <2>5, <2>6, <2>7, <2>8, <2>9, <2>10 DEF TypeOK
<1>7. CASE ~loggedIn'
  <2>1. /\ ask' = [ask EXCEPT ![s] = "prompt"] /\ loginPending' = s /\ pendingHostPubKey' = s
        /\ UNCHANGED <<tries, pendingRelay, relayTimers, keySent, up>>
    BY <1>7 DEF KeyExported, Prompt
  <2>2. SendsTyped'
    BY <1>1, <1>2, <1>3, <2>1 DEF TypeOK, SendsTyped, Stages
  <2>3. PendingTyped' /\ OutsideTyped'
    BY <1>1, <2>1 DEF TypeOK, PendingTyped, OutsideTyped
  <2>4. Unsettled'
    BY <1>1, <1>2, <2>1 DEF TypeOK, Unsettled
  <2>5. Prompted'
    BY <1>1, <1>2, <1>7, <2>1 DEF Prompted, TypeOK, SendsTyped
  <2>6. OwnKeyFirst'
    BY <2>1 DEF OwnKeyFirst
  <2>7. Staged'
    BY <1>1, <1>2, <1>3, <2>1 DEF Staged, Begun, TypeOK, SendsTyped
  <2>8. Traced'
    <3>1. \A t \in Sends : ask'[t] = "token" => ask[t] = "token"
      BY <1>2
    <3>2. /\ \A t \in keyTimers : stage'[t] \notin {"idle", "keygen"}
          /\ \A d \in deriving : stage'[d.owner] \notin {"idle", "keygen"}
      BY <1>4 DEF Traced, TypeOK, PendingTyped
    <3> QED BY <1>1, <2>1, <3>1, <3>2 DEF Traced, Asked, Begun
  <2>9. Timed'
    BY <1>1, <1>2, <1>3, <1>5, <2>1 DEF Timed, KeyTimed, AskTimed, Begun, TypeOK, SendsTyped
  <2> QED BY <2>2, <2>3, <2>4, <2>5, <2>6, <2>7, <2>8, <2>9 DEF TypeOK
<1> QED BY <1>6, <1>7

LEMMA SubmitLoginKeeps ==
  ASSUME HandshakeInv, SubmitLogin \/ LoginRefused PROVE HandshakeInv'
<1> USE NoneAssumption, LoginAssumption DEF HandshakeInv
<1>1. SendsTyped'
  BY DEF TypeOK, SendsTyped, SubmitLogin, LoginRefused, sending
<1>2. PendingTyped'
  BY DEF TypeOK, PendingTyped, SubmitLogin, LoginRefused, pendings
<1>3. OutsideTyped'
  BY DEF TypeOK, OutsideTyped, SubmitLogin, LoginRefused, network
<1>4. Unsettled'
  BY DEF TypeOK, Unsettled, SubmitLogin, LoginRefused, sending, pendings
<1>5. Prompted'
  BY DEF Prompted, SubmitLogin, LoginRefused, sending, pendings
<1>6. OwnKeyFirst'
  BY DEF OwnKeyFirst, SubmitLogin, LoginRefused, sending, network
<1>7. Staged'
  BY DEF Staged, Begun, SubmitLogin, LoginRefused, sending
<1>8. Traced'
  BY DEF Traced, Begun, Asked, SubmitLogin, LoginRefused, sending, pendings, network
<1>9. Timed'
  BY DEF TypeOK, SendsTyped, Staged, Traced, Timed, KeyTimed, AskTimed, Alone, SubmitLogin, LoginRefused, sending, pendings, network
<1> QED BY <1>1, <1>2, <1>3, <1>4, <1>5, <1>6, <1>7, <1>8, <1>9 DEF TypeOK

LEMMA LoginAcceptedKeeps ==
  ASSUME HandshakeInv, LoginAccepted PROVE HandshakeInv'
<1> USE NoneAssumption, LoginAssumption DEF HandshakeInv
<1>1. /\ loggedIn' = TRUE /\ logins' \in 0 .. MaxLogins /\ loginPending' = None
      /\ UNCHANGED <<peer, stage, token, key, shared, pendingRelayKeys, keyTimers, deriving, down,
                     approvals, present, left>>
  BY DEF LoginAccepted, NewSession, TypeOK, OutsideTyped
<1>2. CASE loginPending = None
  <2>1. UNCHANGED <<ask, tries, pendingRelay, pendingHostPubKey, relayTimers, keySent, up>>
    BY <1>2 DEF LoginAccepted
  <2>2. TypeOK'
    BY <1>1, <2>1 DEF TypeOK, SendsTyped, PendingTyped, OutsideTyped, Unsettled
  <2>3. Prompted' /\ OwnKeyFirst' /\ Staged'
    BY <1>1, <2>1 DEF Prompted, OwnKeyFirst, Staged, Begun
  <2>4. Traced' /\ Timed'
    BY <1>1, <2>1 DEF Traced, Timed, KeyTimed, AskTimed, Alone, Asked, Begun
  <2> QED BY <2>2, <2>3, <2>4
<1>3. CASE loginPending # None
  <2>1. PICK s \in Sends : s = loginPending
    BY <1>3 DEF TypeOK, OutsideTyped
  <2>2. /\ Request(s, pendingHostPubKey) /\ ask[s] = "prompt" /\ tries[s] < 2
        /\ stage[s] \in {"both", "failed"} /\ Begun(s)
        /\ (tries[s] = 0 => pendingHostPubKey = s) /\ pendingHostPubKey \in Sends \cup {None}
    BY <1>3, <2>1 DEF LoginAccepted, Prompted, Staged, Begun, TypeOK, PendingTyped, SendsTyped
  <2>3. PICK r : r = <<s, tries[s] + 1>>
    OBVIOUS
  <2>4. /\ r \in Requests /\ r[1] = s /\ r[2] = tries'[s]
        /\ ask' \in [Sends -> {"none", "prompt", "request", "token", "failed"}]
        /\ tries' \in [Sends -> 0 .. 2]
        /\ ask'[s] = "request" /\ tries'[s] = tries[s] + 1
        /\ \A t \in Sends \ {s} : ask'[t] = ask[t] /\ tries'[t] = tries[t]
        /\ pendingRelay' \in [Peers -> Requests \cup {None}] /\ pendingRelay'[peer[s]] = r
        /\ \A p \in Peers \ {peer[s]} : pendingRelay'[p] = pendingRelay[p]
        /\ pendingHostPubKey' = None /\ relayTimers' = relayTimers \cup {r}
        /\ keySent' \in [Requests -> Sends \cup {None}] /\ keySent'[r] = pendingHostPubKey
        /\ \A q \in Requests \ {r} : keySent'[q] = keySent[q]
        /\ up' \in Seq(Requests)
        /\ \A i \in DOMAIN up' : up'[i] = r \/ \E j \in DOMAIN up : up'[i] = up[j]
        /\ Unsettled'
    <3>1. ask[s] # "request"
      BY <2>2
    <3> QED BY <1>1, <2>2, <2>3, <3>1, RequestMade
  <2>5. SendsTyped'
    BY <1>1, <2>4 DEF TypeOK, SendsTyped
  <2>6. PendingTyped' /\ OutsideTyped'
    BY <1>1, <2>4 DEF TypeOK, PendingTyped, OutsideTyped
  <2>7. Prompted'
    BY <1>1, <2>4 DEF Prompted
  <2>8. OwnKeyFirst'
    <3>1. ASSUME NEW t \in Sends, tries'[t] >= 1 PROVE keySent'[<<t, 1>>] = t
      <4>1. CASE t = s /\ tries[s] = 0
        BY <2>2, <2>3, <2>4, <4>1
      <4>2. CASE ~(t = s /\ tries[s] = 0)
        <5>1. tries[t] >= 1 /\ tries[s] \in 0 .. 2
          BY <2>4, <3>1, <4>2 DEF TypeOK, SendsTyped
        <5>2. <<t, 1>> \in Requests \ {r}
          BY <2>3, <4>2, <5>1 DEF Requests
        <5> QED BY <2>4, <5>1, <5>2 DEF OwnKeyFirst
      <4> QED BY <4>1, <4>2
    <3> QED BY <3>1 DEF OwnKeyFirst
  <2>9. Staged'
    BY <1>1, <2>2, <2>4 DEF Staged, Begun, TypeOK, SendsTyped
  <2>10. Traced'
    <3>1. \A q \in Requests : q[2] <= tries[q[1]] => q[2] <= tries'[q[1]]
      BY <2>4 DEF Requests, TypeOK, SendsTyped
    <3>2. r[2] <= tries'[r[1]]
      BY <2>4 DEF Requests, SendsTyped
    <3>3. \A t \in Sends : ask'[t] = "token" => ask[t] = "token"
      BY <2>4
    <3> QED BY <1>1, <2>4, <3>1, <3>2, <3>3 DEF Traced, Asked, Begun
  <2>11. Timed'
    <3>1. \A t \in Sends : Alone(t)' = Alone(t)
      BY <1>1 DEF Alone
    <3>2. ASSUME NEW t \in Sends, Alone(t)', ask'[t] = "request", tries'[t] = 1
          PROVE  AskTimed(t)'
      <4>1. CASE t = s
        BY <1>1, <2>3, <2>4, <3>2, <4>1 DEF AskTimed
      <4>2. CASE t # s
        <5>1. Alone(t) /\ AskTimed(t)
          BY <2>4, <3>1, <3>2, <4>2 DEF Timed
        <5>2. peer[t] # peer[s]
          BY <2>2, <4>2, <5>1 DEF Alone, Begun
        <5>3. peer[t] \in Peers
          BY DEF TypeOK, SendsTyped
        <5> QED BY <1>1, <2>4, <4>2, <5>1, <5>2, <5>3 DEF AskTimed
      <4> QED BY <4>1, <4>2
    <3>3. ASSUME NEW t \in Sends, Alone(t)', Begun(t)', key'[t] = "wait", peer'[t] \in present',
                 stage'[t] # "failed"
          PROVE  KeyTimed(t)'
      BY <1>1, <3>1, <3>3 DEF Timed, KeyTimed, Begun
    <3> QED BY <3>2, <3>3 DEF Timed
  <2> QED BY <2>4, <2>5, <2>6, <2>7, <2>8, <2>9, <2>10, <2>11 DEF TypeOK
<1> QED BY <1>2, <1>3

LEMMA PromptFailsKeeps ==
  ASSUME HandshakeInv, CancelLogin \/ LoginExpired PROVE HandshakeInv'
<1> USE NoneAssumption, LoginAssumption DEF HandshakeInv
<1>0. PromptFails /\ loggedIn' \in BOOLEAN /\ logins' \in 0 .. MaxLogins
  <2>1. loggedIn \in BOOLEAN /\ logins \in 0 .. MaxLogins
    BY DEF TypeOK, OutsideTyped
  <2>2. CASE CancelLogin
    BY <2>1, <2>2 DEF CancelLogin
  <2>3. CASE LoginExpired
    <3>1. PromptFails /\ logins > 0 /\ logins' = logins - 1 /\ loggedIn' = FALSE
      BY <2>3 DEF LoginExpired, NewSession
    <3>2. logins' \in 0 .. MaxLogins
      BY <2>1, <3>1
    <3> QED BY <3>1, <3>2
  <2> QED BY <2>2, <2>3
<1>1. SendsTyped'
  BY <1>0 DEF TypeOK, SendsTyped, PromptFails, PromiseAll, Outcome
<1>2. PendingTyped'
  BY <1>0 DEF TypeOK, PendingTyped, PromptFails, pendings
<1>3. OutsideTyped'
  BY <1>0 DEF TypeOK, OutsideTyped, PromptFails, network
<1>4. Unsettled'
  BY <1>0 DEF TypeOK, Unsettled, Prompted, PromptFails, pendings
<1>5. Prompted'
  BY <1>0 DEF Prompted, PromptFails
<1>6. OwnKeyFirst'
  BY <1>0 DEF OwnKeyFirst, PromptFails, network
<1>7. Staged'
  BY <1>0 DEF Prompted, Staged, Begun, PromptFails, PromiseAll, Outcome
<1>8. Traced'
  BY <1>0 DEF TypeOK, PendingTyped, Traced, Begun, Asked, PromptFails, pendings, network, PromiseAll, Outcome
<1>9. Timed'
  BY <1>0 DEF Staged, Timed, KeyTimed, AskTimed, Alone, PromptFails, pendings, network, PromiseAll, Outcome
<1> QED BY <1>1, <1>2, <1>3, <1>4, <1>5, <1>6, <1>7, <1>8, <1>9 DEF TypeOK

(* What the timers look for does not change with what is on its way.        *)
LEMMA TimedUnmoved ==
  ASSUME Timed, UNCHANGED <<sending, pendings, present>> PROVE Timed'
<1>1. /\ peer' = peer /\ stage' = stage /\ ask' = ask /\ tries' = tries /\ key' = key
      /\ pendingRelay' = pendingRelay /\ pendingRelayKeys' = pendingRelayKeys
      /\ relayTimers' = relayTimers /\ keyTimers' = keyTimers /\ present' = present
  BY DEF sending, pendings
<1>2. ASSUME NEW s \in Sends, Alone(s)'
      PROVE  /\ Alone(s) /\ Begun(s)' = Begun(s)
             /\ KeyTimed(s)' = KeyTimed(s) /\ AskTimed(s)' = AskTimed(s)
  BY <1>1, <1>2 DEF Alone, Begun, KeyTimed, AskTimed
<1> QED BY <1>1, <1>2 DEF Timed

LEMMA ServeKeeps ==
  ASSUME HandshakeInv, Serve PROVE HandshakeInv'
<1> USE NoneAssumption, LoginAssumption DEF HandshakeInv
<1>a. up \in Seq(Requests) /\ up # <<>> /\ down \in Seq(Messages) /\ up' = Tail(up)
  BY DEF Serve, TypeOK, OutsideTyped
<1>b. /\ Head(up) \in Requests /\ Asked(Head(up)) /\ up' \in Seq(Requests)
      /\ \A i \in DOMAIN up' : \E j \in DOMAIN up : up'[i] = up[j]
  BY <1>a, TailKeeps DEF Traced
<1>c. /\ down' \in Seq(Messages) /\ approvals' \subseteq approvals \cup {Head(up)}
      /\ \A i \in DOMAIN down' : \/ \E j \in DOMAIN down : down'[i] = down[j]
                                \/ down'[i] = [type |-> "approved", req |-> Head(up)]
                                \/ down'[i] = [type |-> "login"]
  <2>1. [type |-> "approved", req |-> Head(up)] \in Messages /\ [type |-> "login"] \in Messages
    BY <1>b DEF Messages
  <2>2. CASE Tell([type |-> "approved", req |-> Head(up)]) /\ approvals' = approvals \cup {Head(up)}
    BY <2>1, <2>2, Told DEF TypeOK
  <2>3. CASE Tell([type |-> "login"]) /\ UNCHANGED approvals
    BY <2>1, <2>3, Told DEF TypeOK
  <2>4. CASE UNCHANGED <<down, approvals>>
    BY <1>a, <2>4
  <2> QED BY <2>2, <2>3, <2>4 DEF Serve
<1>1. SendsTyped'
  BY DEF TypeOK, SendsTyped, Serve, Tell, sending
<1>2. PendingTyped'
  BY DEF TypeOK, PendingTyped, Serve, Tell, pendings
<1>3. OutsideTyped'
  BY <1>b, <1>c DEF TypeOK, OutsideTyped, Serve, login
<1>4. Unsettled'
  BY DEF TypeOK, Unsettled, Serve, Tell, sending, pendings
<1>5. Prompted'
  BY DEF Prompted, Serve, Tell, sending, pendings, login
<1>6. OwnKeyFirst'
  BY DEF OwnKeyFirst, Serve, Tell, sending
<1>7. Staged'
  BY DEF Staged, Begun, Serve, Tell, sending
<1>8. Traced'
  <2>1. \A i \in DOMAIN up' : Asked(up'[i])
    BY <1>b DEF Traced
  <2>2. \A i \in DOMAIN down' : down'[i].type \in {"approved", "key"} => Asked(down'[i].req)
    BY <1>b, <1>c DEF Traced
  <2>3. \A r \in approvals' : Asked(r)
    BY <1>b, <1>c DEF Traced
  <2> QED BY <2>1, <2>2, <2>3 DEF Serve, sending, pendings, Traced, Asked, Begun
<1>9. Timed'
  BY TimedUnmoved DEF Serve
<1> QED BY <1>1, <1>2, <1>3, <1>4, <1>5, <1>6, <1>7, <1>8, <1>9 DEF TypeOK

LEMMA GuestAnswersKeeps ==
  ASSUME HandshakeInv, NEW r \in approvals, GuestAnswers(r) PROVE HandshakeInv'
<1> USE NoneAssumption, LoginAssumption DEF HandshakeInv
<1>a. down \in Seq(Messages) /\ r \in Requests /\ Asked(r)
  BY DEF TypeOK, OutsideTyped, Traced
<1>b. /\ down' \in Seq(Messages) /\ approvals' \subseteq approvals
      /\ \A i \in DOMAIN down' : \/ \E j \in DOMAIN down : down'[i] = down[j]
                                \/ down'[i] = [type |-> "key", req |-> r]
  <2>1. [type |-> "key", req |-> r] \in Messages
    BY <1>a DEF Messages
  <2>2. CASE Tell([type |-> "key", req |-> r])
    BY <2>1, <2>2, Told DEF TypeOK, GuestAnswers
  <2>3. CASE UNCHANGED down
    BY <1>a, <2>3 DEF GuestAnswers
  <2> QED BY <2>2, <2>3 DEF GuestAnswers
<1>1. SendsTyped'
  BY DEF TypeOK, SendsTyped, GuestAnswers, Tell, sending
<1>2. PendingTyped'
  BY DEF TypeOK, PendingTyped, GuestAnswers, Tell, pendings
<1>3. OutsideTyped'
  BY <1>b DEF TypeOK, OutsideTyped, GuestAnswers, login
<1>4. Unsettled'
  BY DEF TypeOK, Unsettled, GuestAnswers, Tell, sending, pendings
<1>5. Prompted'
  BY DEF Prompted, GuestAnswers, Tell, sending, pendings, login
<1>6. OwnKeyFirst'
  BY DEF OwnKeyFirst, GuestAnswers, Tell, sending
<1>7. Staged'
  BY DEF Staged, Begun, GuestAnswers, Tell, sending
<1>8. Traced'
  <2>1. \A i \in DOMAIN down' : down'[i].type \in {"approved", "key"} => Asked(down'[i].req)
    BY <1>a, <1>b DEF Traced
  <2> QED BY <1>b, <2>1 DEF GuestAnswers, sending, pendings, Traced, Asked, Begun
<1>9. Timed'
  BY TimedUnmoved DEF GuestAnswers
<1> QED BY <1>1, <1>2, <1>3, <1>4, <1>5, <1>6, <1>7, <1>8, <1>9 DEF TypeOK

LEMMA GuestLeavesKeeps ==
  ASSUME HandshakeInv, NEW p \in Peers, GuestLeaves(p) PROVE HandshakeInv'
<1> USE NoneAssumption, LoginAssumption DEF HandshakeInv
<1>1. SendsTyped'
  BY DEF TypeOK, SendsTyped, GuestLeaves, Tell, sending
<1>2. PendingTyped'
  BY DEF TypeOK, PendingTyped, GuestLeaves, Tell, pendings
<1>3. OutsideTyped'
  BY DEF TypeOK, OutsideTyped, Messages, GuestLeaves, Tell, login
<1>4. Unsettled'
  BY DEF TypeOK, Unsettled, GuestLeaves, Tell, sending, pendings
<1>5. Prompted'
  BY DEF Prompted, GuestLeaves, Tell, sending, pendings, login
<1>6. OwnKeyFirst'
  BY DEF OwnKeyFirst, GuestLeaves, Tell, sending
<1>7. Staged'
  BY DEF Staged, Begun, GuestLeaves, Tell, sending
<1>8. Traced'
  BY DEF Traced, Begun, Asked, GuestLeaves, Tell, sending, pendings
<1>9. Timed'
  BY TimedUnmoved DEF GuestLeaves
<1> QED BY <1>1, <1>2, <1>3, <1>4, <1>5, <1>6, <1>7, <1>8, <1>9 DEF TypeOK

LEMMA OnApprovedKeeps ==
  ASSUME HandshakeInv, OnApproved PROVE HandshakeInv'
<1> USE NoneAssumption DEF HandshakeInv
<1> DEFINE r == Head(down).req
           p == peer[r[1]]
<1>1. /\ r \in Requests /\ Asked(r) /\ p \in Peers /\ down' \in Seq(Messages)
      /\ \A i \in DOMAIN down' : \E j \in DOMAIN down : down'[i] = down[j]
  <2>1. Receive("approved")
    BY DEF OnApproved
  <2>2. r \in Requests /\ Asked(r)
    BY <2>1, ReceivedAsked DEF TypeOK
  <2>3. p \in Peers
    BY <2>2 DEF Requests, TypeOK, SendsTyped
  <2> QED BY <2>1, <2>2, <2>3, Received DEF TypeOK
<1>2. UNCHANGED <<peer, tries, key, shared, pendingRelayKeys, pendingHostPubKey, relayTimers,
                  keyTimers, deriving, login, keySent, up, approvals, present, left>>
  BY DEF OnApproved
<1>3. OutsideTyped' /\ OwnKeyFirst'
  BY <1>1, <1>2 DEF TypeOK, OutsideTyped, OwnKeyFirst, login
<1>4. PromiseAll(stage)
  BY DEF OnApproved
<1>7. \/ pendingRelay[p] = None /\ UNCHANGED <<ask, token, pendingRelay>>
      \/ /\ pendingRelay[p] # None
         /\ ask' = [ask EXCEPT ![pendingRelay[p][1]] = "token"]
         /\ token' = [token EXCEPT ![pendingRelay[p][1]] = r]
         /\ pendingRelay' = [pendingRelay EXCEPT ![p] = None]
  BY DEF OnApproved
<1> HIDE DEF r, p
<1>5. CASE pendingRelay[p] = None
  <2>1. UNCHANGED <<ask, token, pendingRelay>>
    BY <1>7, <1>5
  <2>2. \A s \in Sends : stage'[s] = stage[s]
    BY <1>2, <1>4, <2>1, SameStage DEF TypeOK
  <2>3. stage' = stage
    BY <1>4, <2>2 DEF PromiseAll, TypeOK, SendsTyped
  <2>4. TypeOK'
    BY <1>2, <1>3, <2>1, <2>3 DEF TypeOK, SendsTyped, PendingTyped, Unsettled
  <2>5. Prompted' /\ Staged' /\ Timed'
    BY <1>2, <2>1, <2>3 DEF Prompted, Staged, Timed, KeyTimed, AskTimed, Alone, Begun, login
  <2>6. Traced'
    BY <1>1, <1>2, <2>1, <2>3 DEF Traced, Asked, Begun
  <2> QED BY <1>3, <2>4, <2>5, <2>6
<1>6. CASE pendingRelay[p] # None
  <2> DEFINE t == pendingRelay[p][1]
             n == pendingRelay[p][2]
  <2>1. /\ t \in Sends /\ n \in {1, 2} /\ pendingRelay[p] = <<t, n>>
        /\ ask' = [ask EXCEPT ![t] = "token"] /\ token' = [token EXCEPT ![t] = r]
        /\ pendingRelay' = [pendingRelay EXCEPT ![p] = None]
    <3>1. pendingRelay[p] \in Requests
      BY <1>1, <1>6 DEF TypeOK, PendingTyped
    <3>2. t \in Sends /\ n \in {1, 2} /\ pendingRelay[p] = <<t, n>>
      BY <3>1 DEF Requests
    <3> QED BY <1>7, <1>6, <3>2
  <2>2. ask[t] = "request" /\ tries[t] = n /\ peer[t] = p
    BY <1>1, <2>1 DEF TypeOK, Unsettled
  <2> HIDE DEF t, n
  <2>3. /\ stage' \in [Sends -> Stages] /\ \A s \in Sends \ {t} : stage'[s] = stage[s]
        /\ \/ stage[t] = "both" /\ key[t] = "got" /\ stage'[t] = "relay"
           \/ stage[t] = "both" /\ key[t] = "wait" /\ stage'[t] = "both"
           \/ stage[t] = "failed" /\ stage'[t] = "failed"
    <3>1. stage \in [Sends -> Stages]
      BY DEF TypeOK, SendsTyped, Stages
    <3>2. \A s \in Sends \ {t} : stage'[s] = stage[s]
      BY <1>2, <1>4, <2>1, SameStage DEF TypeOK, SendsTyped
    <3>3. stage[t] \in {"both", "failed"} /\ (stage[t] = "both" => key[t] \in {"wait", "got"})
      BY <2>1, <2>2, <3>1 DEF Staged, Stages
    <3>4. ask'[t] = "token" /\ key'[t] = key[t]
      BY <1>2, <2>1 DEF TypeOK, SendsTyped
    <3>5. /\ stage' \in [Sends -> Stages]
          /\ stage[t] # "both" => stage'[t] = stage[t]
          /\ stage[t] = "both" =>
               \/ "failed" \in {ask'[t], key'[t]} /\ stage'[t] = "failed"
               \/ ask'[t] = "token" /\ key'[t] = "got" /\ stage'[t] = "relay"
               \/ /\ ask'[t] # "failed" /\ key'[t] # "failed"
                  /\ ~(ask'[t] = "token" /\ key'[t] = "got") /\ stage'[t] = "both"
      BY <1>4, <2>1, <3>1, Settling
    <3> QED BY <3>2, <3>3, <3>4, <3>5
  <2>4. SendsTyped' /\ PendingTyped'
    BY <1>1, <1>2, <2>1, <2>3 DEF TypeOK, SendsTyped, PendingTyped, Stages
  <2>5. Unsettled'
    <3>1. ASSUME NEW q \in Peers, NEW s \in Sends, NEW m \in {1, 2}, pendingRelay'[q] = <<s, m>>
          PROVE  ask'[s] = "request" /\ tries'[s] = m /\ peer'[s] = q
      <4>1. q # p /\ pendingRelay[q] = <<s, m>>
        BY <1>1, <2>1, <3>1 DEF TypeOK, PendingTyped, Requests
      <4>2. ask[s] = "request" /\ tries[s] = m /\ peer[s] = q
        BY <4>1 DEF TypeOK, Unsettled
      <4> QED BY <1>2, <2>1, <2>2, <4>1, <4>2 DEF TypeOK, SendsTyped
    <3> QED BY <1>2, <3>1 DEF TypeOK, Unsettled
  <2>6. Prompted'
    BY <1>2, <2>1, <2>2 DEF Prompted, login, TypeOK, SendsTyped, OutsideTyped
  <2>7. Staged'
    BY <1>2, <2>1, <2>2, <2>3 DEF Staged, Begun, TypeOK, SendsTyped
  <2>8. Traced'
    <3>1. /\ \A i \in DOMAIN down' : down'[i].type \in {"approved", "key"} => Asked(down'[i].req)
          /\ \A s \in Sends : Begun(s) => stage'[s] \notin {"idle", "keygen"}
      BY <1>1, <2>3 DEF Traced, Begun
    <3>2. \A s \in Sends : ask'[s] = "token" =>
            token'[s] # None /\ Asked(token'[s]) /\ peer[token'[s][1]] = peer[s]
      <4>1. r # None /\ peer[r[1]] = p
        BY <1>1 DEF p, Requests
      <4>2. ASSUME NEW s \in Sends, s # t, ask'[s] = "token"
            PROVE  token'[s] = token[s] /\ ask[s] = "token"
        BY <2>1, <4>2 DEF TypeOK, SendsTyped
      <4>3. token'[t] = r
        BY <2>1 DEF TypeOK, SendsTyped
      <4> QED BY <1>1, <2>2, <4>1, <4>2, <4>3 DEF Traced
    <3>3. /\ \A s \in keyTimers : stage'[s] \notin {"idle", "keygen"}
          /\ \A d \in deriving : stage'[d.owner] \notin {"idle", "keygen"}
      BY <3>1 DEF Traced, TypeOK, PendingTyped
    <3> QED BY <1>2, <3>1, <3>2, <3>3 DEF Traced, Asked, Begun
  <2>9. Timed'
    <3>1. \A s \in Sends : Alone(s)' => Alone(s)
      BY <1>2, <2>3 DEF Alone
    <3>2. ASSUME NEW s \in Sends, Alone(s)', ask'[s] = "request", tries'[s] = 1 PROVE AskTimed(s)'
      <4>1. s # t /\ Alone(s) /\ AskTimed(s)
        BY <1>2, <2>1, <3>1, <3>2 DEF Timed, TypeOK, SendsTyped
      <4>2. peer[s] # p
        BY <2>2, <2>1, <2>3, <4>1 DEF Alone
      <4> QED BY <1>2, <2>1, <4>1, <4>2 DEF AskTimed, TypeOK, SendsTyped, PendingTyped
    <3>3. ASSUME NEW s \in Sends, Alone(s)', Begun(s)', key'[s] = "wait", peer'[s] \in present',
                 stage'[s] # "failed"
          PROVE  KeyTimed(s)'
      BY <1>2, <2>3, <3>1, <3>3 DEF Timed, KeyTimed, Begun
    <3> QED BY <3>2, <3>3 DEF Timed
  <2> QED BY <1>3, <2>4, <2>5, <2>6, <2>7, <2>8, <2>9 DEF TypeOK
<1> QED BY <1>5, <1>6

LEMMA OnLoginRequiredKeeps ==
  ASSUME HandshakeInv, OnLoginRequired PROVE HandshakeInv'
<1> USE NoneAssumption DEF HandshakeInv
<1>1. /\ loggedIn' = FALSE /\ pendingRelay' = [p \in Peers |-> None] /\ PromiseAll(stage)
      /\ UNCHANGED <<peer, tries, token, key, shared, pendingRelayKeys, pendingHostPubKey,
                     relayTimers, keyTimers, deriving, logins, keySent, up, approvals, present, left>>
  BY DEF OnLoginRequired
<1>2. /\ down' \in Seq(Messages) /\ \A i \in DOMAIN down' : \E j \in DOMAIN down : down'[i] = down[j]
  BY Received DEF OnLoginRequired, TypeOK
<1>3. \A s \in Sends, n \in {1, 2} : s \in Waiting(n) => ask[s] = "request" /\ tries[s] = n
  <2>1. \A s \in Sends : peer[s] \in Peers
    BY DEF TypeOK, SendsTyped
  <2> QED BY <2>1 DEF Waiting, TypeOK, Unsettled
<1>4. /\ ask' \in [Sends -> {"none", "prompt", "request", "token", "failed"}]
      /\ \A s \in Sends :
           \/ s \in Waiting(1) /\ ask'[s] = "prompt"
           \/ s \in Waiting(2) /\ s \notin Waiting(1) /\ ask'[s] = "failed"
           \/ s \notin Waiting(1) \cup Waiting(2) /\ ask'[s] = ask[s]
  BY DEF OnLoginRequired, TypeOK, SendsTyped
<1>5. \/ Waiting(1) = {} /\ loginPending' = loginPending
      \/ loginPending' \in Waiting(1) /\ loginPending' \in Sends
  BY DEF OnLoginRequired, Waiting
<1> HIDE DEF Waiting
<1>6. /\ stage' \in [Sends -> Stages]
      /\ \A s \in Sends :
           \/ stage'[s] = stage[s]
           \/ stage[s] = "both" /\ ask'[s] = "failed" /\ stage'[s] = "failed"
  <2>1. stage \in [Sends -> Stages]
    BY DEF TypeOK, SendsTyped, Stages
  <2>2. /\ stage' \in [Sends -> Stages]
        /\ \A s \in Sends :
             /\ stage[s] # "both" => stage'[s] = stage[s]
             /\ stage[s] = "both" =>
                  \/ "failed" \in {ask'[s], key'[s]} /\ stage'[s] = "failed"
                  \/ ask'[s] = "token" /\ key'[s] = "got" /\ stage'[s] = "relay"
                  \/ /\ ask'[s] # "failed" /\ key'[s] # "failed"
                     /\ ~(ask'[s] = "token" /\ key'[s] = "got") /\ stage'[s] = "both"
    BY <1>1, <2>1, Settling
  <2> QED BY <1>1, <1>3, <1>4, <2>2 DEF Staged
<1>7. SendsTyped' /\ PendingTyped'
  BY <1>1, <1>4, <1>6 DEF TypeOK, SendsTyped, PendingTyped, Stages
<1>8. OutsideTyped'
  BY <1>1, <1>2, <1>5 DEF TypeOK, OutsideTyped
<1>9. Unsettled'
  <2>1. ASSUME NEW p \in Peers, NEW s \in Sends, NEW n \in {1, 2} PROVE pendingRelay'[p] # <<s, n>>
    BY <1>1
  <2> QED BY <1>1, <2>1 DEF TypeOK, Unsettled
<1>10. Prompted'
  BY <1>1, <1>3, <1>4, <1>5 DEF Prompted, TypeOK, OutsideTyped
<1>11. OwnKeyFirst'
  BY <1>1 DEF OwnKeyFirst
<1>12. Staged'
  <2>1. ASSUME NEW s \in Sends, ask'[s] # ask[s]
        PROVE  ask[s] = "request" /\ tries[s] >= 1 /\ stage[s] \in {"both", "failed"}
               /\ ask'[s] \in {"prompt", "failed"}
    <3>1. ask[s] = "request" /\ ask'[s] \in {"prompt", "failed"}
      BY <1>3, <1>4, <2>1
    <3>2. stage[s] \in Stages
      BY DEF TypeOK, SendsTyped, Stages
    <3> QED BY <3>1, <3>2 DEF Staged, Stages
  <2>2. ASSUME NEW s \in Sends, stage'[s] = "both" PROVE stage[s] = "both" /\ ask'[s] # "failed"
    <3>1. stage[s] = "both"
      BY <1>6, <2>2
    <3>2. ask'[s] # "failed"
      <4>1. stage[s] # "failed" /\ stage \in [Sends -> Stages]
        BY <3>1 DEF TypeOK, SendsTyped, Stages
      <4> QED BY <1>1, <2>2, <3>1, <4>1, Settling
    <3> QED BY <3>1, <3>2
  <2> QED BY <1>1, <1>6, <2>1, <2>2 DEF Staged, Begun
<1>13. Traced'
  <2>1. /\ \A i \in DOMAIN down' : down'[i].type \in {"approved", "key"} => Asked(down'[i].req)
        /\ \A s \in Sends : Begun(s) => stage'[s] \notin {"idle", "keygen"}
        /\ \A s \in Sends : ask'[s] = "token" => ask[s] = "token"
    BY <1>2, <1>4, <1>6 DEF Traced, Begun
  <2>2. /\ \A s \in keyTimers : stage'[s] \notin {"idle", "keygen"}
        /\ \A d \in deriving : stage'[d.owner] \notin {"idle", "keygen"}
    BY <2>1 DEF Traced, TypeOK, PendingTyped
  <2> QED BY <1>1, <2>1, <2>2 DEF Traced, Asked, Begun
<1>14. Timed'
  <2>1. \A s \in Sends : Alone(s)' => Alone(s)
    BY <1>1, <1>6 DEF Alone
  <2>2. ASSUME NEW s \in Sends, Alone(s)', ask'[s] = "request" PROVE tries'[s] # 1
    <3>1. ask[s] = "request" /\ s \notin Waiting(1) /\ tries' = tries
      BY <1>1, <1>4, <2>2
    <3>2. tries[s] = 1 => AskTimed(s)
      BY <2>1, <2>2, <3>1 DEF Timed
    <3> QED BY <3>1, <3>2 DEF AskTimed, Waiting
  <2>3. ASSUME NEW s \in Sends, Alone(s)', Begun(s)', key'[s] = "wait", peer'[s] \in present',
               stage'[s] # "failed"
        PROVE  KeyTimed(s)'
    BY <1>1, <1>6, <2>1, <2>3 DEF Timed, KeyTimed, Begun
  <2> QED BY <2>2, <2>3 DEF Timed
<1> QED BY <1>7, <1>8, <1>9, <1>10, <1>11, <1>12, <1>13, <1>14 DEF TypeOK

LEMMA OnRelayKeyKeeps ==
  ASSUME HandshakeInv, OnRelayKey PROVE HandshakeInv'
<1> USE NoneAssumption DEF HandshakeInv
<1> DEFINE r == Head(down).req
           p == peer[r[1]]
           d == [owner |-> pendingRelayKeys[p], from |-> p, req |-> r]
<1>1. /\ UNCHANGED <<sending, pendingRelay, pendingRelayKeys, pendingHostPubKey, relayTimers,
                     keyTimers, login, keySent, up, approvals, present, left>>
      /\ deriving' = IF pendingRelayKeys[p] = None THEN deriving ELSE deriving \cup {d}
  BY DEF OnRelayKey
<1>2. /\ down' \in Seq(Messages) /\ \A i \in DOMAIN down' : \E j \in DOMAIN down : down'[i] = down[j]
  BY Received DEF OnRelayKey, TypeOK
<1>3. r \in Requests /\ Asked(r) /\ r[1] \in Sends /\ p \in Peers
  <2>1. r \in Requests /\ Asked(r)
    BY ReceivedAsked DEF OnRelayKey, TypeOK
  <2> QED BY <2>1 DEF Requests, TypeOK, SendsTyped
<1>4. pendingRelayKeys[p] # None =>
        d \in [owner : Sends, from : Peers, req : Requests] /\ Begun(d.owner) /\ peer[d.owner] = p
  <2>1. pendingRelayKeys[p] \in Sends \cup {None}
    BY <1>3 DEF TypeOK, PendingTyped
  <2>2. ASSUME pendingRelayKeys[p] # None
        PROVE  d.owner \in Sends /\ key[d.owner] = "wait" /\ peer[d.owner] = p
    BY <1>3, <2>1, <2>2 DEF TypeOK, Unsettled
  <2> QED BY <1>3, <2>2 DEF Staged
<1>5. \A e \in deriving' : e \in deriving \/ (e = d /\ pendingRelayKeys[p] # None)
  BY <1>1
<1>6. d.from = p /\ d.req = r
  OBVIOUS
<1> HIDE DEF r, p, d
<1>7. TypeOK'
  BY <1>1, <1>2, <1>4, <1>5 DEF TypeOK, SendsTyped, PendingTyped, OutsideTyped, Unsettled, sending, login
<1>8. Prompted' /\ OwnKeyFirst' /\ Staged' /\ Timed'
  BY <1>1 DEF Prompted, OwnKeyFirst, Staged, Timed, KeyTimed, AskTimed, Alone, Begun, sending, login
<1>9. Traced'
  <2>1. \A e \in deriving' : /\ stage[e.owner] \notin {"idle", "keygen"} /\ peer[e.owner] = e.from
                             /\ Asked(e.req) /\ peer[e.req[1]] = e.from
    <3>1. peer[r[1]] = p
      BY DEF p
    <3> QED BY <1>3, <1>4, <1>5, <1>6, <3>1 DEF Traced, Begun
  <2>2. \A i \in DOMAIN down' : down'[i].type \in {"approved", "key"} => Asked(down'[i].req)
    BY <1>2 DEF Traced
  <2> QED BY <1>1, <2>1, <2>2 DEF Traced, Asked, Begun, sending
<1> QED BY <1>7, <1>8, <1>9

LEMMA DerivedKeeps ==
  ASSUME HandshakeInv, NEW d \in deriving, NEW ok \in BOOLEAN, Derived(d, ok) PROVE HandshakeInv'
<1> USE NoneAssumption DEF HandshakeInv
<1> DEFINE o == d.owner
<1>1. /\ o \in Sends /\ d.from \in Peers /\ d.req \in Requests
      /\ Begun(o) /\ peer[o] = d.from /\ Asked(d.req) /\ peer[d.req[1]] = d.from
  BY DEF TypeOK, PendingTyped, Traced
<1>2. /\ deriving' \subseteq deriving
      /\ pendingRelayKeys' = [pendingRelayKeys EXCEPT ![d.from] = None]
      /\ PromiseAll(stage)
      /\ UNCHANGED <<peer, ask, tries, token, pendingRelay, pendingHostPubKey, relayTimers, keyTimers,
                     login, network>>
  BY DEF Derived
<1>3. /\ key' \in [Sends -> {"none", "wait", "got", "failed"}]
      /\ shared' \in [Sends -> [host : Sends, guest : Requests] \cup {None}]
      /\ \A s \in Sends \ {o} : key'[s] = key[s] /\ shared'[s] = shared[s]
      /\ \/ key[o] # "wait" /\ key'[o] = key[o] /\ shared'[o] = shared[o]
         \/ key[o] = "wait" /\ key'[o] = "got" /\ shared'[o] = [host |-> o, guest |-> d.req]
         \/ key[o] = "wait" /\ key'[o] = "failed" /\ shared'[o] = shared[o]
  <2>1. /\ key \in [Sends -> {"none", "wait", "got", "failed"}]
        /\ shared \in [Sends -> [host : Sends, guest : Requests] \cup {None}]
    BY DEF TypeOK, SendsTyped
  <2>2. [host |-> o, guest |-> d.req] \in [host : Sends, guest : Requests]
    BY <1>1
  <2>3. PICK k : k = [host |-> o, guest |-> d.req]
    OBVIOUS
  <2>4. \/ key[o] # "wait" /\ key' = key /\ shared' = shared
        \/ /\ key[o] = "wait" /\ key' = [key EXCEPT ![o] = "got"]
           /\ shared' = [shared EXCEPT ![o] = k]
        \/ /\ key[o] = "wait" /\ key' = [key EXCEPT ![o] = "failed"]
           /\ shared' = [shared EXCEPT ![o] = shared[o]]
    BY <2>3 DEF Derived, SharedKey
  <2> HIDE DEF o
  <2>5. /\ key' \in [Sends -> {"none", "wait", "got", "failed"}]
        /\ \A s \in Sends \ {o} : key'[s] = key[s]
    BY <1>1, <2>1, <2>4
  <2>6. /\ shared' \in [Sends -> [host : Sends, guest : Requests] \cup {None}]
        /\ \A s \in Sends \ {o} : shared'[s] = shared[s]
    <3> DEFINE K == [host : Sends, guest : Requests]
    <3>1. k \in K /\ shared \in [Sends -> K \cup {None}]
      BY <2>1, <2>2, <2>3
    <3> HIDE DEF K
    <3>2. shared' \in [Sends -> K \cup {None}] /\ \A s \in Sends \ {o} : shared'[s] = shared[s]
      BY <1>1, <2>4, <3>1
    <3> QED BY <3>2 DEF K
  <2>7. \/ key[o] # "wait" /\ key'[o] = key[o] /\ shared'[o] = shared[o]
        \/ key[o] = "wait" /\ key'[o] = "got" /\ shared'[o] = k
        \/ key[o] = "wait" /\ key'[o] = "failed" /\ shared'[o] = shared[o]
    BY <1>1, <2>1, <2>4
  <2> QED BY <2>3, <2>5, <2>6, <2>7
<1> HIDE DEF o
<1>4. /\ stage' \in [Sends -> Stages] /\ \A s \in Sends \ {o} : stage'[s] = stage[s]
      /\ \/ stage'[o] = stage[o] /\ (stage[o] = "both" => key'[o] = key[o])
         \/ /\ stage[o] = "both" /\ key'[o] = "got" /\ ask[o] = "token" /\ stage'[o] = "relay"
         \/ /\ stage[o] = "both" /\ key'[o] = "got" /\ ask[o] # "token" /\ stage'[o] = "both"
         \/ stage[o] = "both" /\ key'[o] = "failed" /\ stage'[o] = "failed"
  <2>1. stage \in [Sends -> Stages]
    BY DEF TypeOK, SendsTyped, Stages
  <2>2. \A s \in Sends \ {o} : stage'[s] = stage[s]
    BY <1>2, <1>3, SameStage DEF TypeOK
  <2>3. key'[o] = key[o] => stage'[o] = stage[o]
    BY <1>1, <1>2, SameStage DEF TypeOK
  <2>4. /\ stage' \in [Sends -> Stages]
        /\ stage[o] # "both" => stage'[o] = stage[o]
        /\ stage[o] = "both" =>
             \/ "failed" \in {ask'[o], key'[o]} /\ stage'[o] = "failed"
             \/ ask'[o] = "token" /\ key'[o] = "got" /\ stage'[o] = "relay"
             \/ /\ ask'[o] # "failed" /\ key'[o] # "failed"
                /\ ~(ask'[o] = "token" /\ key'[o] = "got") /\ stage'[o] = "both"
    BY <1>1, <1>2, <2>1, Settling
  <2>5. stage[o] = "both" => ask'[o] # "failed" /\ ask'[o] = ask[o]
    BY <1>1, <1>2 DEF Staged
  <2> QED BY <1>3, <2>2, <2>3, <2>4, <2>5
<1>5. \A s \in Sends : stage[s] \notin {"idle", "keygen"} <=> stage'[s] \notin {"idle", "keygen"}
  BY <1>4
<1>6. SendsTyped'
  BY <1>2, <1>3, <1>4 DEF TypeOK, SendsTyped, Stages
<1>7. PendingTyped' /\ OutsideTyped'
  BY <1>1, <1>2 DEF TypeOK, PendingTyped, OutsideTyped, login, network
<1>8. Unsettled'
  <2>1. ASSUME NEW p \in Peers, NEW s \in Sends, pendingRelayKeys'[p] = s
        PROVE  key'[s] = "wait" /\ peer[s] = p
    <3>1. p # d.from /\ pendingRelayKeys[p] = s
      BY <1>2, <2>1 DEF TypeOK, PendingTyped
    <3>2. key[s] = "wait" /\ peer[s] = p
      BY <3>1 DEF TypeOK, Unsettled
    <3> QED BY <1>1, <1>3, <3>1, <3>2
  <2> QED BY <1>2, <2>1 DEF TypeOK, Unsettled
<1>9. Prompted' /\ OwnKeyFirst'
  BY <1>2 DEF Prompted, OwnKeyFirst, login, network
<1>10. Staged'
  <2>1. ASSUME NEW s \in Sends PROVE stage'[s] \in {"idle", "keygen"} => key'[s] = "none"
    <3>1. stage'[s] \in {"idle", "keygen"} => s # o /\ key[s] = "none"
      BY <1>1, <1>5 DEF Staged, Begun
    <3> QED BY <1>3, <3>1
  <2>2. ASSUME NEW s \in Sends, s # o PROVE stage'[s] = stage[s] /\ key'[s] = key[s]
    BY <1>3, <1>4, <2>2
  <2>3. key'[o] # "none" /\ (stage'[o] = "relay" => ask[o] = "token" /\ key'[o] = "got")
    BY <1>1, <1>3, <1>4 DEF Staged
  <2>4. stage'[o] = "done" => ask[o] = "token" /\ key'[o] = "got"
    BY <1>1, <1>3, <1>4 DEF Staged
  <2>5. stage'[o] = "export" => ask[o] = "none" /\ tries[o] = 0
    BY <1>1, <1>4 DEF Staged
  <2>6. stage'[o] = "both" => /\ ask[o] \in {"prompt", "request", "token"}
                              /\ key'[o] \in {"wait", "got"}
                              /\ ~(ask[o] = "token" /\ key'[o] = "got")
    BY <1>1, <1>4 DEF Staged
  <2> QED BY <1>1, <1>2, <1>5, <2>1, <2>2, <2>3, <2>4, <2>5, <2>6 DEF Staged, Begun
<1>11. Traced'
  <2>1. \A s \in Sends : key'[s] = "got" =>
          /\ shared'[s] \in [host : {s}, guest : Requests]
          /\ Asked(shared'[s].guest) /\ peer[shared'[s].guest[1]] = peer[s]
    <3>1. ASSUME NEW s \in Sends, key'[s] = "got", shared'[s] = shared[s], key[s] = "got"
          PROVE  /\ shared'[s] \in [host : {s}, guest : Requests]
                 /\ Asked(shared'[s].guest) /\ peer[shared'[s].guest[1]] = peer[s]
      BY <3>1 DEF Traced
    <3>2. ASSUME shared'[o] = [host |-> o, guest |-> d.req]
          PROVE  /\ shared'[o] \in [host : {o}, guest : Requests]
                 /\ Asked(shared'[o].guest) /\ peer[shared'[o].guest[1]] = peer[o]
      <4>1. shared'[o].guest = d.req /\ shared'[o] \in [host : {o}, guest : Requests]
        BY <1>1, <3>2
      <4> QED BY <1>1, <4>1
    <3>3. ASSUME NEW s \in Sends, s # o, key'[s] = "got" PROVE shared'[s] = shared[s] /\ key[s] = "got"
      BY <1>3, <3>3
    <3>4. key'[o] = "got" => \/ key[o] = "got" /\ shared'[o] = shared[o]
                             \/ shared'[o] = [host |-> o, guest |-> d.req]
      BY <1>3
    <3> QED BY <1>1, <3>1, <3>2, <3>3, <3>4
  <2>2. /\ \A s \in keyTimers : stage'[s] \notin {"idle", "keygen"}
        /\ \A e \in deriving' : stage'[e.owner] \notin {"idle", "keygen"}
    BY <1>2, <1>5 DEF Traced, Begun, TypeOK, PendingTyped
  <2> QED BY <1>2, <2>1, <2>2 DEF Traced, Asked, Begun, network
<1>12. Timed'
  <2>1. \A s \in Sends : Alone(s)' => Alone(s)
    BY <1>2, <1>4 DEF Alone
  <2>2. ASSUME NEW s \in Sends, Alone(s)', ask'[s] = "request", tries'[s] = 1 PROVE AskTimed(s)'
    BY <1>2, <2>1, <2>2 DEF Timed, AskTimed
  <2>3. ASSUME NEW s \in Sends, Alone(s)', Begun(s)', key'[s] = "wait", peer'[s] \in present',
               stage'[s] # "failed"
        PROVE  KeyTimed(s)'
    <3>1. s # o
      BY <1>3, <2>3
    <3>2. KeyTimed(s)
      BY <1>2, <1>3, <1>4, <2>1, <2>3, <3>1 DEF Timed, Begun, network
    <3>3. peer[s] # d.from
      BY <1>1, <2>1, <2>3, <3>1 DEF Alone, Begun
    <3> QED BY <1>2, <3>2, <3>3 DEF KeyTimed, TypeOK, SendsTyped, PendingTyped
  <2> QED BY <2>2, <2>3 DEF Timed
<1> QED BY <1>6, <1>7, <1>8, <1>9, <1>10, <1>11, <1>12 DEF TypeOK

LEMMA OnPeerLeftKeeps ==
  ASSUME HandshakeInv, OnPeerLeft PROVE HandshakeInv'
<1> USE NoneAssumption, LoginAssumption DEF HandshakeInv
<1>1. SendsTyped'
  BY DEF TypeOK, SendsTyped, OnPeerLeft, sending
<1>2. PendingTyped'
  BY DEF TypeOK, PendingTyped, OnPeerLeft
<1>3. OutsideTyped'
  BY DEF TypeOK, OutsideTyped, OnPeerLeft, Receive, login
<1>4. Unsettled'
  BY DEF TypeOK, Unsettled, OnPeerLeft, sending
<1>5. Prompted'
  BY DEF Prompted, OnPeerLeft, sending, login
<1>6. OwnKeyFirst'
  BY DEF OwnKeyFirst, OnPeerLeft, sending
<1>7. Staged'
  BY DEF Staged, Begun, OnPeerLeft, sending
<1>8. Traced'
  BY DEF TypeOK, OutsideTyped, Traced, Begun, Asked, OnPeerLeft, Receive, sending
<1>9. Timed'
  BY DEF Staged, Timed, KeyTimed, AskTimed, Alone, OnPeerLeft, sending
<1> QED BY <1>1, <1>2, <1>3, <1>4, <1>5, <1>6, <1>7, <1>8, <1>9 DEF TypeOK

LEMMA KeyTimeoutKeeps ==
  ASSUME HandshakeInv, NEW s \in Sends, KeyTimeout(s) PROVE HandshakeInv'
<1> USE NoneAssumption DEF HandshakeInv
<1>1. /\ keyTimers' = keyTimers \ {s} /\ PromiseAll(stage) /\ peer[s] \in Peers
      /\ UNCHANGED <<peer, ask, tries, token, shared, pendingRelay, pendingHostPubKey, relayTimers,
                     deriving, login, network>>
      /\ \/ pendingRelayKeys[peer[s]] = None /\ UNCHANGED <<key, pendingRelayKeys>>
         \/ /\ pendingRelayKeys[peer[s]] # None
            /\ pendingRelayKeys' = [pendingRelayKeys EXCEPT ![peer[s]] = None]
            /\ key' = [key EXCEPT ![s] = IF @ = "wait" THEN "failed" ELSE @]
  BY DEF KeyTimeout, TypeOK, SendsTyped
<1>2. Begun(s)
  <2>1. s \in keyTimers
    BY DEF KeyTimeout
  <2> QED BY <2>1 DEF Traced
<1>3. /\ key' \in [Sends -> {"none", "wait", "got", "failed"}]
      /\ \A t \in Sends \ {s} : key'[t] = key[t]
      /\ key'[s] = key[s] \/ (key[s] = "wait" /\ key'[s] = "failed")
      /\ pendingRelayKeys' \in [Peers -> Sends \cup {None}]
      /\ \A p \in Peers \ {peer[s]} : pendingRelayKeys'[p] = pendingRelayKeys[p]
      /\ pendingRelayKeys'[peer[s]] = None
  BY <1>1 DEF TypeOK, SendsTyped, PendingTyped
<1>4. /\ stage' \in [Sends -> Stages] /\ \A t \in Sends \ {s} : stage'[t] = stage[t]
      /\ \/ stage'[s] = stage[s] /\ (stage[s] = "both" => key'[s] = key[s])
         \/ stage[s] = "both" /\ key'[s] = "failed" /\ stage'[s] = "failed"
  <2>1. stage \in [Sends -> Stages]
    BY DEF TypeOK, SendsTyped, Stages
  <2>2. \A t \in Sends : key'[t] = key[t] => stage'[t] = stage[t]
    BY <1>1, SameStage DEF TypeOK
  <2>3. /\ stage' \in [Sends -> Stages]
        /\ stage[s] # "both" => stage'[s] = stage[s]
        /\ stage[s] = "both" /\ key'[s] = "failed" => stage'[s] = "failed"
    BY <1>1, <2>1, Settling
  <2> QED BY <1>3, <2>2, <2>3
<1>5. SendsTyped' /\ PendingTyped' /\ OutsideTyped'
  BY <1>1, <1>3, <1>4 DEF TypeOK, SendsTyped, PendingTyped, OutsideTyped, Stages, login, network
<1>6. Unsettled'
  <2>1. ASSUME NEW p \in Peers, NEW t \in Sends, pendingRelayKeys'[p] = t
        PROVE  key'[t] = "wait" /\ peer[t] = p
    <3>1. p # peer[s] /\ pendingRelayKeys[p] = t
      BY <1>3, <2>1
    <3>2. key[t] = "wait" /\ peer[t] = p
      BY <3>1 DEF TypeOK, Unsettled
    <3> QED BY <1>3, <3>1, <3>2
  <2> QED BY <1>1, <2>1 DEF TypeOK, Unsettled
<1>7. Prompted' /\ OwnKeyFirst'
  BY <1>1 DEF Prompted, OwnKeyFirst, login, network
<1>8. Staged'
  BY <1>1, <1>2, <1>3, <1>4 DEF Staged, Begun
<1>9. Traced'
  <2>1. /\ \A t \in keyTimers' : stage'[t] \notin {"idle", "keygen"}
        /\ \A d \in deriving : stage'[d.owner] \notin {"idle", "keygen"}
    BY <1>1, <1>4 DEF Traced, Begun, TypeOK, PendingTyped
  <2>2. \A t \in Sends : key'[t] = "got" => key[t] = "got"
    BY <1>3
  <2> QED BY <1>1, <2>1, <2>2 DEF Traced, Asked, Begun, network
<1>10. Timed'
  <2>1. \A t \in Sends : Alone(t)' => Alone(t)
    BY <1>1, <1>4 DEF Alone
  <2>2. ASSUME NEW t \in Sends, Alone(t)', ask'[t] = "request", tries'[t] = 1 PROVE AskTimed(t)'
    BY <1>1, <2>1, <2>2 DEF Timed, AskTimed
  <2>3. ASSUME NEW t \in Sends, Alone(t)', Begun(t)', key'[t] = "wait", peer'[t] \in present',
               stage'[t] # "failed"
        PROVE  KeyTimed(t)'
    <3>1. KeyTimed(t) /\ key[t] = "wait"
      BY <1>1, <1>3, <1>4, <2>1, <2>3 DEF Timed, Begun, network
    <3>2. t # s
      <4>1. t = s => pendingRelayKeys[peer[s]] # None
        BY <3>1 DEF KeyTimed
      <4> QED BY <1>1, <2>3, <3>1, <4>1 DEF TypeOK, SendsTyped
    <3>3. peer[t] # peer[s]
      BY <1>2, <2>1, <2>3, <3>2 DEF Alone, Begun
    <3> QED BY <1>1, <1>3, <3>1, <3>2, <3>3 DEF KeyTimed, TypeOK, SendsTyped
  <2> QED BY <2>2, <2>3 DEF Timed
<1> QED BY <1>5, <1>6, <1>7, <1>8, <1>9, <1>10 DEF TypeOK

LEMMA RelayTimeoutKeeps ==
  ASSUME HandshakeInv, NEW r \in relayTimers, RelayTimeout(r) PROVE HandshakeInv'
<1> USE NoneAssumption DEF HandshakeInv
<1> DEFINE s == r[1]
<1>1. r \in Requests /\ s \in Sends /\ r = <<s, r[2]>> /\ r[2] \in {1, 2} /\ r[2] <= tries[s]
  <2>1. r \in Requests /\ Asked(r)
    BY DEF TypeOK, PendingTyped, Traced
  <2> QED BY <2>1 DEF Requests, Asked
<1>2. /\ relayTimers' = relayTimers \ {r} /\ PromiseAll(stage)
      /\ UNCHANGED <<peer, tries, token, key, shared, pendingRelayKeys, pendingHostPubKey, keyTimers,
                     deriving, login, network>>
      /\ \/ pendingRelay[peer[s]] = None /\ UNCHANGED <<ask, pendingRelay>>
         \/ /\ pendingRelay[peer[s]] # None
            /\ pendingRelay' = [pendingRelay EXCEPT ![peer[s]] = None]
            /\ ask' = [ask EXCEPT ![s] = IF @ = "request" /\ tries[s] = r[2] THEN "failed" ELSE @]
  BY DEF RelayTimeout
<1> HIDE DEF s
<1>3. /\ ask' \in [Sends -> {"none", "prompt", "request", "token", "failed"}]
      /\ \A t \in Sends \ {s} : ask'[t] = ask[t]
      /\ \/ ask'[s] = ask[s]
         \/ ask[s] = "request" /\ ask'[s] = "failed"
      /\ pendingRelay' \in [Peers -> Requests \cup {None}]
      /\ \A p \in Peers \ {peer[s]} : pendingRelay'[p] = pendingRelay[p]
      /\ pendingRelay'[peer[s]] = None
  BY <1>1, <1>2 DEF TypeOK, SendsTyped, PendingTyped
<1>4. /\ stage' \in [Sends -> Stages] /\ \A t \in Sends \ {s} : stage'[t] = stage[t]
      /\ \/ stage'[s] = stage[s] /\ ask'[s] = ask[s]
         \/ ask'[s] = "failed" /\ stage[s] \in {"both", "failed"} /\ stage'[s] = "failed"
  <2>1. stage \in [Sends -> Stages]
    BY DEF TypeOK, SendsTyped, Stages
  <2>2. \A t \in Sends : ask'[t] = ask[t] => stage'[t] = stage[t]
    BY <1>2, SameStage DEF TypeOK
  <2>3. ask[s] = "request" => stage[s] \in {"both", "failed"}
    BY <1>1, <2>1 DEF Staged, Stages
  <2>4. /\ stage' \in [Sends -> Stages]
        /\ stage[s] # "both" => stage'[s] = stage[s]
        /\ stage[s] = "both" /\ ask'[s] = "failed" => stage'[s] = "failed"
    BY <1>1, <1>2, <2>1, Settling
  <2> QED BY <1>1, <1>3, <2>2, <2>3, <2>4
<1>5. SendsTyped' /\ PendingTyped' /\ OutsideTyped'
  BY <1>2, <1>3, <1>4 DEF TypeOK, SendsTyped, PendingTyped, OutsideTyped, Stages, login, network
<1>6. Unsettled'
  <2>1. ASSUME NEW p \in Peers, NEW t \in Sends, NEW n \in {1, 2}, pendingRelay'[p] = <<t, n>>
        PROVE  ask'[t] = "request" /\ tries[t] = n /\ peer[t] = p
    <3>1. p # peer[s] /\ pendingRelay[p] = <<t, n>>
      <4>1. <<t, n>> \in Requests
        BY DEF Requests
      <4> QED BY <1>3, <2>1, <4>1 DEF Requests
    <3>2. ask[t] = "request" /\ tries[t] = n /\ peer[t] = p
      BY <3>1 DEF TypeOK, Unsettled
    <3> QED BY <1>3, <3>1, <3>2
  <2>2. \A p \in Peers, t \in Sends : pendingRelayKeys'[p] = t => key'[t] = "wait" /\ peer'[t] = p
    BY <1>2 DEF TypeOK, Unsettled
  <2> QED BY <1>2, <2>1, <2>2 DEF Unsettled
<1>7. Prompted' /\ OwnKeyFirst'
  BY <1>2, <1>3 DEF Prompted, OwnKeyFirst, TypeOK, OutsideTyped, login, network
<1>8. Staged'
  BY <1>1, <1>2, <1>3, <1>4 DEF Staged, Begun
<1>9. Traced'
  <2>1. /\ \A t \in keyTimers : stage'[t] \notin {"idle", "keygen"}
        /\ \A d \in deriving : stage'[d.owner] \notin {"idle", "keygen"}
    BY <1>4 DEF Traced, Begun, TypeOK, PendingTyped
  <2>2. \A t \in Sends : ask'[t] = "token" => ask[t] = "token"
    BY <1>3
  <2> QED BY <1>2, <2>1, <2>2 DEF Traced, Asked, Begun, network
<1>10. Timed'
  <2>1. \A t \in Sends : Alone(t)' => Alone(t)
    BY <1>2, <1>4 DEF Alone
  <2>2. ASSUME NEW t \in Sends, Alone(t)', ask'[t] = "request", tries'[t] = 1 PROVE AskTimed(t)'
    <3>1. ask[t] = "request" /\ tries[t] = 1 /\ AskTimed(t)
      BY <1>2, <1>3, <2>1, <2>2 DEF Timed
    <3>2. pendingRelay[peer[t]] = <<t, 1>> /\ <<t, 1>> \in relayTimers
      BY <3>1 DEF AskTimed
    <3>3. t # s
      <4>1. SUFFICES ASSUME t = s PROVE FALSE
        OBVIOUS
      <4>2. r = <<t, 1>>
        BY <1>1, <3>1, <4>1
      <4>3. pendingRelay[peer[s]] # None
        BY <3>2, <4>1 DEF Requests
      <4>4. ask'[s] = "failed"
        BY <1>1, <1>2, <3>1, <4>1, <4>2, <4>3 DEF TypeOK, SendsTyped
      <4> QED BY <2>2, <4>1, <4>4
    <3>4. peer[s] # peer[t]
      BY <1>1, <2>1, <2>2, <3>3 DEF Alone, Staged
    <3>5. pendingRelay'[peer[t]] = <<t, 1>> /\ <<t, 1>> # r
      BY <1>1, <1>3, <3>2, <3>3, <3>4 DEF TypeOK, SendsTyped
    <3> QED BY <1>2, <2>2, <3>2, <3>5 DEF AskTimed
  <2>3. ASSUME NEW t \in Sends, Alone(t)', Begun(t)', key'[t] = "wait", peer'[t] \in present',
               stage'[t] # "failed"
        PROVE  KeyTimed(t)'
    BY <1>2, <1>4, <2>1, <2>3 DEF Timed, KeyTimed, Begun, network
  <2> QED BY <2>2, <2>3 DEF Timed
<1> QED BY <1>5, <1>6, <1>7, <1>8, <1>9, <1>10 DEF TypeOK

LEMMA StreamKeeps ==
  ASSUME HandshakeInv, NEW s \in Sends, NEW ok \in BOOLEAN, Stream(s, ok) PROVE HandshakeInv'
<1> USE NoneAssumption, LoginAssumption DEF HandshakeInv
<1>1. SendsTyped'
  BY DEF TypeOK, SendsTyped, Stream
<1>2. PendingTyped'
  BY DEF TypeOK, PendingTyped, Stream, pendings
<1>3. OutsideTyped'
  BY DEF TypeOK, OutsideTyped, Stream, login, network
<1>4. Unsettled'
  BY DEF TypeOK, Unsettled, Stream, pendings
<1>5. Prompted'
  BY DEF Prompted, Stream, pendings, login
<1>6. OwnKeyFirst'
  BY DEF OwnKeyFirst, Stream, network
<1>7. Staged'
  BY DEF Staged, Begun, Stream
<1>8. Traced'
  BY DEF Traced, Begun, Asked, Stream, pendings, network
<1>9. Timed'
  BY DEF Unsettled, Staged, Timed, KeyTimed, AskTimed, Alone, Stream, pendings, network
<1> QED BY <1>1, <1>2, <1>3, <1>4, <1>5, <1>6, <1>7, <1>8, <1>9 DEF TypeOK

LEMMA LeaveKeeps ==
  ASSUME HandshakeInv, Leave PROVE HandshakeInv'
<1> USE NoneAssumption DEF HandshakeInv
<1>1. /\ up' = <<>> /\ down' = <<>> /\ approvals' = {} /\ present' = {} /\ loginPending' = None
      /\ pendingRelay' = [p \in Peers |-> None] /\ pendingRelayKeys' = [p \in Peers |-> None]
      /\ left' = TRUE /\ PromiseAll(stage)
      /\ UNCHANGED <<peer, tries, token, shared, pendingHostPubKey, relayTimers, keyTimers, deriving,
                     loggedIn, logins, keySent>>
  BY DEF Leave, ResetToLobby
<1>2. /\ ask' \in [Sends -> {"none", "prompt", "request", "token", "failed"}]
      /\ \A s \in Sends :
           \/ ask'[s] = ask[s] /\ s \notin Waiting(1)
           \/ (s = loginPending \/ s \in Waiting(1) \cup Waiting(2)) /\ ask'[s] = "failed"
  BY DEF Leave, TypeOK, SendsTyped
<1>3. \A s \in Sends : ask'[s] = ask[s] \/ (ask[s] \in {"prompt", "request"} /\ ask'[s] = "failed")
  <2>1. \A s \in Sends : s = loginPending => ask[s] = "prompt"
    BY DEF Prompted
  <2>2. \A s \in Sends : s \in Waiting(1) \cup Waiting(2) => ask[s] = "request"
    BY DEF Waiting, TypeOK, SendsTyped, Unsettled
  <2> QED BY <1>2, <2>1, <2>2
<1>4. /\ key' \in [Sends -> {"none", "wait", "got", "failed"}]
      /\ \A s \in Sends : key'[s] = key[s] \/ (key[s] = "wait" /\ key'[s] = "failed")
  <2>1. key' = [s \in Sends |-> IF pendingRelayKeys[peer[s]] = s THEN "failed" ELSE key[s]]
    BY DEF Leave
  <2>2. \A s \in Sends : pendingRelayKeys[peer[s]] = s => key[s] = "wait"
    BY DEF TypeOK, SendsTyped, Unsettled
  <2> QED BY <2>1, <2>2 DEF TypeOK, SendsTyped
<1>5. \A s \in Sends : ask'[s] # ask[s] => stage[s] \in {"both", "failed"}
  <2>1. stage \in [Sends -> Stages]
    BY DEF TypeOK, SendsTyped, Stages
  <2> QED BY <1>3, <2>1 DEF Staged, Stages
<1>6. /\ stage' \in [Sends -> Stages]
      /\ \A s \in Sends :
           \/ stage'[s] = stage[s] /\ (stage[s] = "both" => ask'[s] = ask[s] /\ key'[s] = key[s])
           \/ stage[s] = "both" /\ stage'[s] = "failed"
  <2>1. stage \in [Sends -> Stages]
    BY DEF TypeOK, SendsTyped, Stages
  <2>2. /\ stage' \in [Sends -> Stages]
        /\ \A s \in Sends :
             /\ stage[s] # "both" => stage'[s] = stage[s]
             /\ stage[s] = "both" /\ "failed" \in {ask'[s], key'[s]} => stage'[s] = "failed"
    BY <1>1, <2>1, Settling
  <2>3. \A s \in Sends : ask'[s] = ask[s] /\ key'[s] = key[s] => stage'[s] = stage[s]
    BY <1>1, SameStage DEF TypeOK
  <2> QED BY <1>3, <1>4, <2>2, <2>3
<1>7. SendsTyped' /\ PendingTyped'
  BY <1>1, <1>2, <1>4, <1>6 DEF TypeOK, SendsTyped, PendingTyped, Stages
<1>8. OutsideTyped'
  BY <1>1 DEF TypeOK, OutsideTyped
<1>9. Unsettled'
  <2>1. \A p \in Peers, s \in Sends, n \in {1, 2} : pendingRelay'[p] # <<s, n>>
    BY <1>1
  <2>2. \A p \in Peers, s \in Sends : pendingRelayKeys'[p] # s
    BY <1>1
  <2> QED BY <2>1, <2>2 DEF Unsettled
<1>10. Prompted' /\ OwnKeyFirst'
  BY <1>1, <1>3 DEF Prompted, OwnKeyFirst
<1>11. Staged'
  <2>1. \A s \in Sends : ~Begun(s) <=> stage'[s] \in {"idle", "keygen"}
    BY <1>6 DEF Begun
  <2>2. ASSUME NEW s \in Sends
        PROVE  /\ stage'[s] \in {"idle", "keygen", "export"} => ask'[s] = "none" /\ tries[s] = 0
               /\ ask'[s] = "request" => tries[s] >= 1
    BY <1>3, <1>5, <1>6 DEF Staged
  <2>3. ASSUME NEW s \in Sends
        PROVE  /\ ~Begun(s) => key'[s] = "none"
               /\ Begun(s) => key'[s] # "none"
    BY <1>4 DEF Staged
  <2>4. ASSUME NEW s \in Sends
        PROVE  /\ stage'[s] = "both" => /\ ask'[s] \in {"prompt", "request", "token"}
                                        /\ key'[s] \in {"wait", "got"}
                                        /\ ~(ask'[s] = "token" /\ key'[s] = "got")
               /\ stage'[s] \in {"relay", "done"} => ask'[s] = "token" /\ key'[s] = "got"
    <3>1. CASE stage'[s] = "both"
      BY <1>6, <3>1 DEF Staged
    <3>2. CASE stage'[s] \in {"relay", "done"}
      <4>1. stage[s] \in {"relay", "done"} /\ ask[s] = "token" /\ key[s] = "got"
        BY <1>6, <3>2 DEF Staged
      <4> QED BY <1>3, <1>4, <3>2, <4>1
    <3> QED BY <3>1, <3>2
  <2> QED BY <1>1, <2>1, <2>2, <2>3, <2>4 DEF Staged, Begun
<1>12. Traced'
  <2>1. /\ \A s \in Sends : ask'[s] = "token" => ask[s] = "token"
        /\ \A s \in Sends : key'[s] = "got" => key[s] = "got"
    BY <1>3, <1>4
  <2>2. /\ \A s \in keyTimers : stage'[s] \notin {"idle", "keygen"}
        /\ \A d \in deriving : stage'[d.owner] \notin {"idle", "keygen"}
    BY <1>6 DEF Traced, Begun, TypeOK, PendingTyped
  <2> QED BY <1>1, <2>1, <2>2 DEF Traced, Asked, Begun
<1>13. Timed'
  <2>1. \A s \in Sends : Alone(s)' => Alone(s)
    BY <1>1, <1>6 DEF Alone
  <2>2. ASSUME NEW s \in Sends, Alone(s)', ask'[s] = "request" PROVE tries'[s] # 1
    <3>1. ask[s] = "request" /\ s \notin Waiting(1)
      BY <1>2, <1>3, <2>2
    <3>2. tries[s] = 1 => AskTimed(s)
      BY <2>1, <2>2, <3>1 DEF Timed
    <3> QED BY <1>1, <3>1, <3>2 DEF AskTimed, Waiting
  <2> QED BY <1>1, <2>2 DEF Timed
<1> QED BY <1>7, <1>8, <1>9, <1>10, <1>11, <1>12, <1>13 DEF TypeOK
-----------------------------------------------------------------------------
LEMMA HandshakeInit ==
  ASSUME Init PROVE HandshakeInv
<1> USE NoneAssumption, LoginAssumption DEF Init
<1>1. SendsTyped /\ PendingTyped /\ OutsideTyped
  <2>1. SendsTyped
    BY DEF SendsTyped
  <2>2. PendingTyped
    BY DEF PendingTyped
  <2>3. up \in Seq(Requests) /\ down \in Seq(Messages)
    OBVIOUS
  <2>4. keySent \in [Requests -> Sends \cup {None}]
    OBVIOUS
  <2>5. logins \in 0 .. MaxLogins
    OBVIOUS
  <2>6. loggedIn \in BOOLEAN /\ left \in BOOLEAN
    OBVIOUS
  <2>7. OutsideTyped
    BY <2>3, <2>4, <2>5, <2>6 DEF OutsideTyped
  <2> QED BY <2>1, <2>2, <2>7
<1>2. Unsettled
  <2>1. \A p \in Peers, s \in Sends, n \in {1, 2} : pendingRelay[p] # <<s, n>>
    OBVIOUS
  <2> QED BY <2>1 DEF Unsettled
<1>3. Prompted /\ OwnKeyFirst /\ Staged
  BY DEF Prompted, OwnKeyFirst, Staged, Begun
<1>4. Traced /\ Timed
  BY DEF Traced, Timed, Begun
<1> QED BY <1>1, <1>2, <1>3, <1>4 DEF HandshakeInv, TypeOK

LEMMA HandshakeNext ==
  ASSUME HandshakeInv, [Next]_vars PROVE HandshakeInv'
<1>1. CASE UNCHANGED vars
  <2>1. UNCHANGED <<peer, stage, ask, tries, token, key, shared, pendingRelay, pendingRelayKeys,
                    pendingHostPubKey, relayTimers, keyTimers, deriving>>
    BY <1>1 DEF vars, sending, pendings
  <2>2. UNCHANGED <<loggedIn, loginPending, logins, keySent, up, down, approvals, present, left>>
    BY <1>1 DEF vars, login, network
  <2>3. TypeOK'
    BY <2>1, <2>2 DEF HandshakeInv, TypeOK, SendsTyped, PendingTyped, OutsideTyped, Unsettled
  <2>4. Prompted' /\ OwnKeyFirst' /\ Staged'
    BY <2>1, <2>2 DEF HandshakeInv, Prompted, OwnKeyFirst, Staged, Begun
  <2>5. Traced' /\ Timed'
    BY <2>1, <2>2 DEF HandshakeInv, Traced, Timed, Begun, Asked, Alone, KeyTimed, AskTimed
  <2> QED BY <2>3, <2>4, <2>5 DEF HandshakeInv
<1>2. CASE \E s \in Sends : SendFile(s) \/ SendStep(s) \/ KeyTimeout(s)
  BY <1>2, SendFileKeeps, KeyPairReadyKeeps, KeyExportedKeeps, StreamKeeps, KeyTimeoutKeeps
     DEF SendStep
<1>3. CASE \E r \in relayTimers : RelayTimeout(r)
  BY <1>3, RelayTimeoutKeeps
<1>4. CASE \E d \in deriving, ok \in BOOLEAN : Derived(d, ok)
  BY <1>4, DerivedKeeps
<1>5. CASE Login
  BY <1>5, SubmitLoginKeeps, LoginAcceptedKeeps, PromptFailsKeeps DEF Login
<1>6. CASE Outside
  BY <1>6, ServeKeeps, GuestAnswersKeeps, GuestLeavesKeeps DEF Outside
<1>7. CASE OnMessage
  BY <1>7, OnApprovedKeeps, OnLoginRequiredKeeps, OnRelayKeyKeeps, OnPeerLeftKeeps DEF OnMessage
<1>8. CASE Leave
  BY <1>8, LeaveKeeps
<1> QED BY <1>1, <1>2, <1>3, <1>4, <1>5, <1>6, <1>7, <1>8 DEF Next

LEMMA Invariant == Spec => []HandshakeInv
BY HandshakeInit, HandshakeNext, PTL DEF Spec

(* A send with its guest to itself that streams got the token of its first  *)
(* request and the key of the guest that was asked by it.                   *)
LEMMA InvAgrees ==
  ASSUME HandshakeInv PROVE KeysAgree
<1> USE NoneAssumption DEF HandshakeInv
<1> SUFFICES ASSUME NEW s \in Sends, stage[s] \in {"relay", "done"}, Alone(s), tries[s] = 1
             PROVE  token[s] # None /\ shared[s] = GuestKey(token[s])
  BY DEF KeysAgree
<1>1. ASSUME NEW r \in Requests, Asked(r), peer[r[1]] = peer[s] PROVE r = <<s, 1>>
  <2>1. r[1] \in Sends /\ r[2] \in {1, 2} /\ r = <<r[1], r[2]>> /\ r[2] <= tries[r[1]]
    BY <1>1 DEF Requests, Asked
  <2>2. r[1] = s
    <3>1. r[1] # s => tries[r[1]] = 0
      BY <1>1, <2>1 DEF Alone, Staged
    <3> QED BY <2>1, <3>1
  <2> QED BY <2>1, <2>2
<1>2. /\ token[s] # None /\ token[s] \in Requests /\ token[s] = <<s, 1>>
      /\ shared[s] \in [host : {s}, guest : Requests] /\ shared[s].guest = <<s, 1>>
  <2>1. ask[s] = "token" /\ key[s] = "got"
    BY DEF Staged
  <2>2. token[s] # None /\ Asked(token[s]) /\ peer[token[s][1]] = peer[s]
    BY <2>1 DEF Traced
  <2>3. /\ shared[s] \in [host : {s}, guest : Requests]
        /\ Asked(shared[s].guest) /\ peer[shared[s].guest[1]] = peer[s]
    BY <2>1 DEF Traced
  <2> QED BY <1>1, <2>2, <2>3 DEF Asked
<1>3. keySent[<<s, 1>>] = s
  BY DEF OwnKeyFirst
<1>4. shared[s] = [host |-> s, guest |-> <<s, 1>>]
  BY <1>2
<1> QED BY <1>2, <1>3, <1>4 DEF GuestKey, SharedKey

(* What a send waits for is under a timer that finds the send's own entry,  *)
(* or the user has the prompt.                                              *)
LEMMA InvTimed ==
  ASSUME HandshakeInv PROVE NotStranded
<1> USE DEF HandshakeInv
<1> SUFFICES ASSUME NEW s \in Sends, stage[s] = "both", Alone(s), peer[s] \in present, tries[s] < 2
             PROVE  \/ key[s] = "wait" /\ KeyTimed(s)
                    \/ key[s] = "got" /\ (AskTimed(s) \/ ask[s] = "prompt")
  BY DEF NotStranded
<1>1. /\ key[s] \in {"wait", "got"} /\ Begun(s) /\ (key[s] = "got" => ask[s] \in {"prompt", "request"})
      /\ ask[s] = "request" => tries[s] >= 1
  BY DEF Staged, Begun
<1>2. key[s] = "wait" => KeyTimed(s)
  BY <1>1 DEF Timed
<1>3. ask[s] = "request" => AskTimed(s)
  <2>1. tries[s] \in 0 .. 2
    BY DEF TypeOK, SendsTyped
  <2> QED BY <1>1, <2>1 DEF Timed
<1> QED BY <1>1, <1>2, <1>3

-----------------------------------------------------------------------------
(* Every variable has its type, and the maps of the relay handshake         *)
(* (go-transport.ts) only hold promises that are still to be settled.       *)
THEOREM HandshakeTyped == Spec => []TypeOK
<1>1. HandshakeInv => TypeOK
  BY DEF HandshakeInv
<1> QED BY <1>1, Invariant, PTL

(* The first relay request of a send carries the send's own public key,     *)
(* however the sends share the slot pendingHostPubKey and the prompt.       *)
THEOREM OwnKey == Spec => []OwnKeyFirst
<1>1. HandshakeInv => OwnKeyFirst
  BY DEF HandshakeInv
<1> QED BY <1>1, Invariant, PTL

(* A send alone with its guest and asked for once encrypts with the key the *)
(* guest of its relay session decrypts with.                                *)
THEOREM Agree == Spec => []KeysAgree
BY Invariant, InvAgrees, PTL

(* A send alone with its guest is never left waiting without a timer that   *)
(* rejects it or a prompt in front of the user.                             *)
THEOREM Unstranded == Spec => []NotStranded
BY Invariant, InvTimed, PTL
=============================================================================
