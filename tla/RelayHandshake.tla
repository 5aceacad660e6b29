---------------------------- MODULE RelayHandshake ----------------------------
(***************************************************************************)
(* How a host comes to stream a file through the server's relay            *)
(* (GoTransport.sendFile in web/src/go-transport.ts, with the login prompt *)
(* of main.ts and the login of auth.ts): an ephemeral key, a login, a      *)
(* request for a token, the guest's key in answer, all at once for several *)
(* sends.  Each step is one task of the event loop with the microtasks     *)
(* that follow it: what waits on a promise continues in the step that      *)
(* settles it.                                                             *)
(*                                                                         *)
(* A send asks at most twice, so its requests are <<s, 1>> and <<s, 2>>; a *)
(* request stands for the token the server draws for it, and for the key   *)
(* pair its guest makes.  Time is abstract: a timer that runs may go off.  *)
(***************************************************************************)
EXTENDS Naturals, Sequences

CONSTANTS
  Sends, Peers,
  None,        \* undefined, or no entry in a Map
  MaxLogins    \* bound: POST /login calls under way

ASSUME NoneAssumption  == None \notin Sends \cup (Sends \X {1, 2}) /\ Peers # {}
ASSUME LoginAssumption == MaxLogins \in Nat

Requests == Sends \X {1, 2}

VARIABLES
  peer, stage,        \* the guest of a send, where sendFile is
  ask, tries, token,  \* requestRelayAuthenticated of each send
  key, shared,        \* waitForSharedKey of each send
  pendingRelay, pendingRelayKeys, pendingHostPubKey,
  relayTimers, keyTimers,
  deriving,           \* calls of handleRelayKey that await WebCrypto
  loggedIn,           \* auth.hasValidToken()
  loginPending,       \* the send whose prompt main.ts remembers
  logins,             \* POST /login calls under way
  keySent,            \* the public key that a request carried
  up, down,           \* requests to the server and messages from it
  approvals,          \* approvals on their way to the guests
  present,            \* guests that the host knows of
  left                \* the user has left

sending  == <<peer, stage, ask, tries, token, key, shared>>
pendings == <<pendingRelay, pendingRelayKeys, pendingHostPubKey, relayTimers, keyTimers, deriving>>
login    == <<loggedIn, loginPending, logins>>
network  == <<keySent, up, down, approvals, present, left>>
vars     == <<sending, pendings, login, network>>

(* ECDH: both ends have the same key when each used the other's public one. *)
SharedKey(hostKey, r) == [host |-> hostKey, guest |-> r]
GuestKey(r)           == SharedKey(keySent[r], r)

Messages ==
  [type : {"approved"}, req : Requests] \cup [type : {"login"}]
    \cup [type : {"key"}, req : Requests] \cup [type : {"left"}, from : Peers]

SendsTyped ==
  /\ peer \in [Sends -> Peers]
  /\ stage \in [Sends -> {"idle", "keygen", "export", "both", "relay", "done", "failed"}]
  /\ ask \in [Sends -> {"none", "prompt", "request", "token", "failed"}]
  /\ tries \in [Sends -> 0 .. 2] /\ token \in [Sends -> Requests \cup {None}]
  /\ key \in [Sends -> {"none", "wait", "got", "failed"}]
  /\ shared \in [Sends -> [host : Sends, guest : Requests] \cup {None}]

PendingTyped ==
  /\ pendingRelay \in [Peers -> Requests \cup {None}]
  /\ pendingRelayKeys \in [Peers -> Sends \cup {None}]
  /\ pendingHostPubKey \in Sends \cup {None}
  /\ relayTimers \subseteq Requests /\ keyTimers \subseteq Sends
  /\ deriving \subseteq [owner : Sends, from : Peers, req : Requests]

OutsideTyped ==
  /\ loggedIn \in BOOLEAN /\ loginPending \in Sends \cup {None} /\ logins \in 0 .. MaxLogins
  /\ keySent \in [Requests -> Sends \cup {None}]
  /\ up \in Seq(Requests) /\ down \in Seq(Messages) /\ approvals \subseteq Requests
  /\ present \subseteq Peers /\ left \in BOOLEAN

Unsettled ==
  /\ \A p \in Peers, s \in Sends, n \in {1, 2} :
       pendingRelay[p] = <<s, n>> => ask[s] = "request" /\ tries[s] = n /\ peer[s] = p
  /\ \A p \in Peers, s \in Sends :
       pendingRelayKeys[p] = s => key[s] = "wait" /\ peer[s] = p

(* Every variable has its type, and the two maps only hold promises that    *)
(* are still to be settled, each under its guest.                           *)
TypeOK == SendsTyped /\ PendingTyped /\ OutsideTyped /\ Unsettled

Init ==
  /\ peer \in [Sends -> Peers] /\ stage = [s \in Sends |-> "idle"]
  /\ ask = [s \in Sends |-> "none"] /\ tries = [s \in Sends |-> 0]
  /\ token = [s \in Sends |-> None] /\ key = ask /\ shared = token
  /\ pendingRelay = [p \in Peers |-> None] /\ pendingRelayKeys = pendingRelay
  /\ pendingHostPubKey = None /\ relayTimers = {} /\ keyTimers = {} /\ deriving = {}
  /\ loggedIn = FALSE /\ loginPending = None /\ logins = 0
  /\ keySent = [r \in Requests |-> None] /\ up = <<>> /\ down = <<>> /\ approvals = {}
  /\ present = Peers /\ left = FALSE
-----------------------------------------------------------------------------
(* await Promise.all([token, key]) goes on with both or fails with either.  *)
Outcome(st, a, k) ==
  CASE st # "both"                             -> st
    [] st = "both" /\ "failed" \in {a, k}      -> "failed"
    [] st = "both" /\ a = "token" /\ k = "got" -> "relay"
    [] OTHER                                   -> "both"

PromiseAll(st) == stage' = [s \in Sends |-> Outcome(st[s], ask'[s], key'[s])]

(* requestRelay, with the key it finds; a request of a closed connection is *)
(* dropped.                                                                 *)
Request(s, k) ==
  LET r == <<s, tries[s] + 1>> IN
  /\ ask' = [ask EXCEPT ![s] = "request"] /\ tries' = [tries EXCEPT ![s] = @ + 1]
  /\ pendingRelay' = [pendingRelay EXCEPT ![peer[s]] = r]
  /\ pendingHostPubKey' = None
  /\ relayTimers' = relayTimers \cup {r}
  /\ keySent' = [keySent EXCEPT ![r] = k]
  /\ up' = IF left THEN up ELSE Append(up, r)

(* hasValidToken: a session may have run out since it was last looked at.   *)
HasValidToken == {loggedIn, FALSE}

(* promptRelayLogin: the new prompt takes the place of another's.           *)
Prompt(s) == ask' = [ask EXCEPT ![s] = "prompt"] /\ loginPending' = s

(* The user sends a file to a guest that cannot be reached directly.        *)
SendFile(s) ==
  /\ stage[s] = "idle" /\ peer[s] \in present
  /\ stage' = [stage EXCEPT ![s] = "keygen"]
  /\ UNCHANGED <<peer, ask, tries, token, key, shared, pendings, login, network>>

(* prepareKeyExchange: the key pair is there; its place in the map and its  *)
(* fifteen seconds begin.                                                   *)
KeyPairReady(s) ==
  /\ stage[s] = "keygen" /\ stage' = [stage EXCEPT ![s] = "export"]
  /\ key' = [key EXCEPT ![s] = "wait"]
  /\ pendingRelayKeys' = [pendingRelayKeys EXCEPT ![peer[s]] = s]
  /\ keyTimers' = keyTimers \cup {s}
  /\ UNCHANGED <<peer, ask, tries, token, shared, pendingRelay, pendingHostPubKey,
                 relayTimers, deriving, login, network>>

(* The public key is exported: the send asks for a token, or has the user   *)
(* log in first.                                                            *)
KeyExported(s) ==
  /\ stage[s] = "export"
  /\ loggedIn' \in HasValidToken
  /\ IF loggedIn'
     THEN Request(s, s) /\ UNCHANGED loginPending
     ELSE /\ Prompt(s) /\ pendingHostPubKey' = s
          /\ UNCHANGED <<tries, pendingRelay, relayTimers, keySent, up>>
  /\ UNCHANGED key /\ PromiseAll([stage EXCEPT ![s] = "both"])
  /\ UNCHANGED <<peer, token, shared, pendingRelayKeys, keyTimers, deriving, logins,
                 down, approvals, present, left>>
-----------------------------------------------------------------------------
(* The login prompt.  Enter submits although a login is under way.          *)
SubmitLogin ==
  /\ loginPending # None /\ logins < MaxLogins /\ logins' = logins + 1
  /\ UNCHANGED <<sending, pendings, loggedIn, loginPending, network>>

LoginRefused ==
  /\ logins > 0 /\ logins' = logins - 1
  /\ UNCHANGED <<sending, pendings, loggedIn, loginPending, network>>

(* login(): the server's answer has a session token; by this browser's      *)
(* clock it may be at its end already.                                      *)
NewSession(valid) == logins > 0 /\ logins' = logins - 1 /\ loggedIn' = valid

(* Whichever prompt is remembered by now is resolved, and its send asks     *)
(* with the key that lies in the slot.                                      *)
LoginAccepted ==
  /\ NewSession(TRUE) /\ loginPending' = None
  /\ IF loginPending = None
     THEN UNCHANGED <<ask, tries, pendingRelay, pendingHostPubKey, relayTimers, keySent, up>>
     ELSE Request(loginPending, pendingHostPubKey)
  /\ UNCHANGED <<peer, stage, token, key, shared, pendingRelayKeys, keyTimers, deriving,
                 down, approvals, present, left>>

PromptFails ==
  /\ loginPending # None /\ loginPending' = None
  /\ ask' = [ask EXCEPT ![loginPending] = "failed"]
  /\ UNCHANGED key /\ PromiseAll(stage)
  /\ UNCHANGED <<peer, tries, token, shared, pendings, network>>

(* ensureAuth looks at the new session, too, before it lets the send ask.   *)
LoginExpired == NewSession(FALSE) /\ PromptFails

CancelLogin == PromptFails /\ UNCHANGED <<loggedIn, logins>>
-----------------------------------------------------------------------------
(* The server and the guests.  A guest has gone when the host has been, or  *)
(* will be told.                                                            *)
Gone(p) == p \notin present \/ \E i \in DOMAIN down : down[i] = [type |-> "left", from |-> p]

Tell(m) == down' = IF left THEN down ELSE Append(down, m)

(* A request is approved, unless the guest is gone; the login it came with  *)
(* is refused; or it is refused for another reason, or the answer is lost,  *)
(* which leaves no trace at the host.                                       *)
Serve ==
  /\ up # <<>> /\ up' = Tail(up)
  /\ LET r == Head(up) IN
     \/ /\ ~Gone(peer[r[1]])
        /\ Tell([type |-> "approved", req |-> r])
        /\ approvals' = approvals \cup {r}
     \/ Tell([type |-> "login"]) /\ UNCHANGED approvals
     \/ UNCHANGED <<down, approvals>>
  /\ UNCHANGED <<sending, pendings, login, keySent, present, left>>

(* receiveOverRelay of the guest: without the host's key it reports an      *)
(* error and sends nothing.                                                 *)
GuestAnswers(r) ==
  /\ r \in approvals /\ approvals' = approvals \ {r}
  /\ ~Gone(peer[r[1]])
  /\ IF keySent[r] = None THEN UNCHANGED down ELSE Tell([type |-> "key", req |-> r])
  /\ UNCHANGED <<sending, pendings, login, keySent, up, present, left>>

GuestLeaves(p) ==
  /\ ~Gone(p) /\ ~left
  /\ Tell([type |-> "left", from |-> p])
  /\ UNCHANGED <<sending, pendings, login, keySent, up, approvals, present, left>>
-----------------------------------------------------------------------------
Receive(type) == down # <<>> /\ Head(down).type = type /\ down' = Tail(down)

\* mutant: the token goes to the send that asked, whatever the map holds
OnApprovedByRequest ==
  /\ Receive("approved")
  /\ LET r == Head(down).req IN
     /\ ask' = [ask EXCEPT ![r[1]] = "token"] /\ token' = [token EXCEPT ![r[1]] = r]
     /\ UNCHANGED pendingRelay
  /\ UNCHANGED key /\ PromiseAll(stage)
  /\ UNCHANGED <<peer, tries, shared, pendingRelayKeys, pendingHostPubKey, relayTimers,
                 keyTimers, deriving, login, keySent, up, approvals, present, left>>

(* handleRelayApproved: the token goes to whichever send waits for this     *)
(* guest.                                                                   *)
OnApproved ==
  /\ Receive("approved")
  /\ LET r == Head(down).req
         p == peer[r[1]]
     IN IF pendingRelay[p] = None
        THEN UNCHANGED <<ask, token, pendingRelay>>
        ELSE /\ ask' = [ask EXCEPT ![pendingRelay[p][1]] = "token"]
             /\ token' = [token EXCEPT ![pendingRelay[p][1]] = r]
             /\ pendingRelay' = [pendingRelay EXCEPT ![p] = None]
  /\ UNCHANGED key /\ PromiseAll(stage)
  /\ UNCHANGED <<peer, tries, shared, pendingRelayKeys, pendingHostPubKey, relayTimers,
                 keyTimers, deriving, login, keySent, up, approvals, present, left>>

(* login-required: every request that waits is rejected.  A first one has   *)
(* the user log in again, where the last prompt is the one remembered; a    *)
(* second one fails.                                                        *)
Waiting(n) == {s \in Sends : pendingRelay[peer[s]] = <<s, n>>}

OnLoginRequired ==
  /\ Receive("login")
  /\ loggedIn' = FALSE
  /\ ask' = [s \in Sends |-> IF s \in Waiting(1) THEN "prompt"
                             ELSE IF s \in Waiting(2) THEN "failed" ELSE ask[s]]
  /\ IF Waiting(1) = {} THEN UNCHANGED loginPending ELSE loginPending' \in Waiting(1)
  /\ pendingRelay' = [p \in Peers |-> None]
  /\ UNCHANGED key /\ PromiseAll(stage)
  /\ UNCHANGED <<peer, tries, token, shared, pendingRelayKeys, pendingHostPubKey, relayTimers,
                 keyTimers, deriving, logins, keySent, up, approvals, present, left>>

\* mutant: the key is taken for the exchange of any guest
OnRelayKeyOfAny ==
  /\ Receive("key")
  /\ \E q \in Peers :
       LET r == Head(down).req
       IN deriving' = IF pendingRelayKeys[q] = None THEN deriving
                      ELSE deriving \cup {[owner |-> pendingRelayKeys[q], from |-> q, req |-> r]}
  /\ UNCHANGED <<sending, pendingRelay, pendingRelayKeys, pendingHostPubKey, relayTimers,
                 keyTimers, login, keySent, up, approvals, present, left>>

(* handleRelayKey looks the private key up, awaits WebCrypto, and then      *)
(* removes whatever the map holds for this guest.                           *)
OnRelayKey ==
  /\ Receive("key")
  /\ LET r == Head(down).req
         p == peer[r[1]]
     IN deriving' = IF pendingRelayKeys[p] = None THEN deriving
                    ELSE deriving \cup {[owner |-> pendingRelayKeys[p], from |-> p, req |-> r]}
  /\ UNCHANGED <<sending, pendingRelay, pendingRelayKeys, pendingHostPubKey, relayTimers,
                 keyTimers, login, keySent, up, approvals, present, left>>

Derived(d, ok) ==
  /\ d \in deriving /\ deriving' = deriving \ {d}
  /\ pendingRelayKeys' = [pendingRelayKeys EXCEPT ![d.from] = None]
  /\ IF key[d.owner] # "wait" THEN UNCHANGED <<key, shared>>
     ELSE /\ key' = [key EXCEPT ![d.owner] = IF ok THEN "got" ELSE "failed"]
          /\ shared' = [shared EXCEPT ![d.owner] = IF ok THEN SharedKey(d.owner, d.req) ELSE @]
  /\ UNCHANGED ask /\ PromiseAll(stage)
  /\ UNCHANGED <<peer, tries, token, pendingRelay, pendingHostPubKey, relayTimers, keyTimers,
                 login, network>>

(* onPeerLeft drops the key exchange without settling it.                   *)
OnPeerLeft ==
  /\ Receive("left")
  /\ LET p == Head(down).from IN
     /\ present' = present \ {p}
     /\ pendingRelayKeys' = [pendingRelayKeys EXCEPT ![p] = None]
  /\ UNCHANGED <<sending, pendingRelay, pendingHostPubKey, relayTimers, keyTimers, deriving,
                 login, keySent, up, approvals, left>>
-----------------------------------------------------------------------------
\* mutant: the entry is dropped without rejecting the send
RelayTimeoutQuietly(r) ==
  /\ r \in relayTimers /\ relayTimers' = relayTimers \ {r}
  /\ pendingRelay' = [pendingRelay EXCEPT ![peer[r[1]]] = None]
  /\ UNCHANGED <<sending, pendingRelayKeys, pendingHostPubKey, keyTimers, deriving, login, network>>

(* The timers are never cleared: one that finds an entry, of whatever send, *)
(* removes it and rejects the promise it was made for.                      *)
KeyTimeout(s) ==
  /\ s \in keyTimers /\ keyTimers' = keyTimers \ {s}
  /\ IF pendingRelayKeys[peer[s]] = None
     THEN UNCHANGED <<key, pendingRelayKeys>>
     ELSE /\ key' = [key EXCEPT ![s] = IF @ = "wait" THEN "failed" ELSE @]
          /\ pendingRelayKeys' = [pendingRelayKeys EXCEPT ![peer[s]] = None]
  /\ UNCHANGED ask /\ PromiseAll(stage)
  /\ UNCHANGED <<peer, tries, token, shared, pendingRelay, pendingHostPubKey, relayTimers,
                 deriving, login, network>>

RelayTimeout(r) ==
  /\ r \in relayTimers /\ relayTimers' = relayTimers \ {r}
  /\ LET s == r[1] IN
     IF pendingRelay[peer[s]] = None
     THEN UNCHANGED <<ask, pendingRelay>>
     ELSE /\ ask' = [ask EXCEPT ![s] = IF @ = "request" /\ tries[s] = r[2] THEN "failed" ELSE @]
          /\ pendingRelay' = [pendingRelay EXCEPT ![peer[s]] = None]
  /\ UNCHANGED key /\ PromiseAll(stage)
  /\ UNCHANGED <<peer, tries, token, shared, pendingRelayKeys, pendingHostPubKey, keyTimers,
                 deriving, login, network>>

(* connectRelay, the stream and its end, well or not (module Transfer).     *)
Stream(s, ok) ==
  /\ stage[s] = "relay" /\ stage' = [stage EXCEPT ![s] = IF ok THEN "done" ELSE "failed"]
  /\ UNCHANGED <<peer, ask, tries, token, key, shared, pendings, login, network>>

(* The lobby has no guests and no prompt.                                   *)
ResetToLobby == present' = {} /\ loginPending' = None

(* leave() rejects what the maps hold; resetToLobby cancels the prompt.     *)
Leave ==
  /\ ~left /\ left' = TRUE /\ up' = <<>> /\ down' = <<>> /\ approvals' = {}
  /\ ask' = [s \in Sends |-> IF s = loginPending \/ s \in Waiting(1) \cup Waiting(2)
                             THEN "failed" ELSE ask[s]]
  /\ key' = [s \in Sends |-> IF pendingRelayKeys[peer[s]] = s THEN "failed" ELSE key[s]]
  /\ pendingRelay' = [p \in Peers |-> None] /\ pendingRelayKeys' = [p \in Peers |-> None]
  /\ ResetToLobby /\ PromiseAll(stage)
  /\ UNCHANGED <<peer, tries, token, shared, pendingHostPubKey, relayTimers, keyTimers, deriving,
                 loggedIn, logins, keySent>>
-----------------------------------------------------------------------------
SendStep(s) == \/ KeyPairReady(s) \/ KeyExported(s)
               \/ \E ok \in BOOLEAN : Stream(s, ok)
Login       == SubmitLogin \/ LoginRefused \/ LoginAccepted \/ LoginExpired \/ CancelLogin
Outside     == Serve \/ (\E r \in approvals : GuestAnswers(r)) \/ \E p \in Peers : GuestLeaves(p)
OnMessage   == OnApproved \/ OnLoginRequired \/ OnRelayKey \/ OnPeerLeft

Next ==
  \/ \E s \in Sends : SendFile(s) \/ SendStep(s) \/ KeyTimeout(s)
  \/ \E r \in relayTimers : RelayTimeout(r)
  \/ \E d \in deriving, ok \in BOOLEAN : Derived(d, ok)
  \/ Login \/ Outside \/ OnMessage \/ Leave

Spec == Init /\ [][Next]_vars
-----------------------------------------------------------------------------
(***************************************************************************)
(* Properties.                                                             *)
(***************************************************************************)

(* The single slot pendingHostPubKey and the single prompt never mix up two *)
(* sends: the first request of a send carries its own public key            *)
(* (go-transport.ts:276 and 311).                                           *)
OwnKeyFirst == \A s \in Sends : tries[s] >= 1 => keySent[<<s, 1>>] = s

Alone(s) == \A t \in Sends \ {s} : stage[t] = "idle" \/ peer[t] # peer[s]

(* A send that has its guest to itself, and was not made to log in again,   *)
(* encrypts with the key that the guest at the other end of its relay       *)
(* session decrypts with.                                                   *)
KeysAgree ==
  \A s \in Sends :
    stage[s] \in {"relay", "done"} /\ Alone(s) /\ tries[s] = 1
      => token[s] # None /\ shared[s] = GuestKey(token[s])

(* Such a send never waits for ever for the server or for its guest: while  *)
(* the guest is there, either a timer runs that finds the send's own entry  *)
(* and rejects it, or the user has been asked for the password.  (The timer *)
(* of a first request deletes the entry of a second.)                       *)
KeyTimed(s) == pendingRelayKeys[peer[s]] = s /\ s \in keyTimers
AskTimed(s) ==
  LET r == <<s, tries[s]>> IN
  ask[s] = "request" /\ pendingRelay[peer[s]] = r /\ r \in relayTimers

NotStranded ==
  \A s \in Sends :
    stage[s] = "both" /\ Alone(s) /\ peer[s] \in present /\ tries[s] < 2
      => \/ key[s] = "wait" /\ KeyTimed(s)
         \/ key[s] = "got" /\ (AskTimed(s) \/ ask[s] = "prompt")
=============================================================================
