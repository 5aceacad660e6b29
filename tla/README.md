# dl_share_p2p in TLA+

dl_share_p2p shares files between two browsers. A Go server (`src/server`) lets
the browsers find each other under a room code, passes their WebRTC signals on
and, where no direct connection comes up, relays the encrypted file for those
who have a password. The browser client (`src/web/src`) keeps the signaling
connection, negotiates WebRTC and sends the file; it may also start on a
serverless transport (Trystero) and fall back to the Go server.

This directory holds TLA+ modules translated from that code, configurations
that TLC checks on small instances, and proofs that TLAPS checks for every
instance. Paths below are relative to the repository's root.

    tlc -workers 2 -config HubRegistry.cfg MCHub     # one run
    tlapm HubProofs.tla                              # one module of proofs

`PROJECT.json` lists components, runs, the mutants that show each property can
fail, the source lines of every definition, the findings, the hazards and the
theorems.

## 1. Inventory

| component | source | state it keeps | operations |
|---|---|---|---|
| registry | `server/hub.go`, `room.go` | peers, rooms with their members, per-IP counts, outgoing queues | RegisterPeer, UnregisterPeer, JoinOrCreateRoom, RouteMessage, ReapRooms, HandleRelayRequest |
| connection | `server/ws.go` | three goroutines per connection, the socket, `joinedChan` | serveWs, readPump, writePump, the handshake timeout |
| relay | `server/relay.go` | sessions by token, two socket slots each, `activeCount` | CreateSession, ConnectPeer, runBridge |
| rate limiter | `server/limiter.go` | a token bucket per address | Allow, Prune |
| password store | `server/store.go` | records, `modTime`, the JSON file | Consume, Prune, Add, Remove, load, save, ReloadIfChanged |
| login sessions | `server/auth.go` | session tokens | Login, Validate, Prune |
| passwd commands | `server/passwd.go` | a copy of the file each | generate, invalidate, list |
| server process | `server/main.go`, `config.go` | tickers, HTTP listener | start, reload ticker, SIGHUP, shutdown |
| signaling connection | `web/src/signaling.ts` | socket, last room, reconnect timer | connect, send, close, the socket's callbacks |
| Go transport | `web/src/go-transport.ts` | pending relay requests and key exchanges, the peers of the room, `selfId` | start, leave, sendFile over the relay, the server's messages |
| negotiation | `web/src/peer.ts` | one RTCPeerConnection and data channel per peer | offers, answers, candidates, the library's events |
| file framing | `web/src/transfer.ts`, `relay-transfer.ts` | progress of a transfer, what was received of a file | send and receive frames |
| orchestrator | `web/src/orchestrator.ts`, `trystero-transport.ts`, `transport.ts` | both transports, the fallback timer, each peer's transport | createRoom, joinRoom, leave, fallbackGuestToGo, the transports' callbacks |
| user interface | `web/src/main.ts`, `index.html` | DOM, the list of peers, the login prompt's promise | events |
| browser login, config | `web/src/auth.ts`, `config.ts` | a token in sessionStorage | login, hasValidToken |
| cryptography, codes | `web/src/crypto.ts`, `roomcode.ts` | none | pure |

How they meet: the goroutines of a connection call the registry, which does
each operation under `Hub.mu` and answers through the peers' buffered `Send`
channels; the registry asks the relay for a session while *not* holding its
lock; the two relay sockets come back over HTTP with the session's token. The
relay request also carries a login token, which `AuthManager` checks; its
passwords come from a file that other processes write. In the browser all is
callbacks: the socket's, the timers', WebRTC's, and the continuations of
promises. The page talks to the orchestrator, the orchestrator to its
transports; the Go transport owns the signaling connection, the negotiation
with each peer and the relay handshake, and hands a channel or a relay socket to
the framing.

What is hard, in short (PROJECT.json `hazards` has each at its line): two
records of one fact, changed by five operations (membership; the per-IP
counts); critical sections that end before the work does (the walk over
`room.Peers`, the approval of a relay session, the handshake timeout); queues
that drop or block when full; goroutines that must all end, whichever starts
to; the same file rewritten whole by several processes and truncated before it
is written; a count compared at one step and raised at a later one; late
callbacks of a socket, a room or a connection that was replaced; promises that
are kept by peer although two sends may have the same one; timers that are never
cleared; single slots (a public key, a prompt, a listener) that a second user
takes over; messages of a pair that arrive before the connection they are for.

What makes each component correct:

* registry: membership is one fact, counters count, limits hold, a message
  stays in its room;
* connection: it is registered exactly as long as it is served, it ends
  completely, each client learns who is in its room;
* relay: a bridge has its own two sockets, carries what was sent up to the
  limit, ends, and is counted for as long as it runs;
* limiter: what it admits is what the configured rate and burst allow;
* passwords: the server follows the file, a one-time password admits once;
* signaling connection: one at a time, again after each loss, never after
  leave();
* relay handshake: both ends of a relayed file derive one key, and a send waits
  only where a timer or the user can end the wait;
* framing: what the guest saves is what was sent, and each send ends;
* negotiation: a message meets the connection that it is for, nobody is shown who
  has gone, and two peers of a room end with a connection or with the relay;
* orchestrator: what runs is what the user asked for last, and a guest always
  has a way to its host.

## 2. Modules

| module | models | composes |
|---|---|---|
| `Rendezvous` | what the registry promises: who is in which room | |
| `Hub` | the registry, one step per critical section of `Hub.mu` | implements `Rendezvous` |
| `SignalingServer` | the goroutines of every connection | extends `Hub`, whose actions its steps call |
| `RelayManager` | sessions, attachment, the bridge's two goroutines | |
| `PasswordStore` | store, sessions, commands, the file, crashes | |
| `RateLimiter` | token buckets and an independent definition of the rate | |
| `SignalingClient` | the browser's signaling connection and the server's answers | |
| `RelayHandshake` | how a host comes to stream over the relay: key, login, token, guest's key | |
| `Transfer` | the frames of a file, over a data channel or the relay | |
| `Fallback` | the orchestrator over its two transports | |
| `Negotiation` | the pairs of browsers of a room, the server between them | |
| `MCHub`, `MCServer`, `MCRelay`, `MCPassword`, `MCRate`, `MCClient`, `MCHandshake`, `MCTransfer`, `MCFallback`, `MCNegotiation` | constants, symmetry and views for TLC | |
| `HubProofs`, `ServerProofs`, `RelayProofs`, `HandshakeProofs`, `TransferProofs`, `FallbackProofs` | theorems of the module of that name | extend it |
| `AuthProofs` | theorems of `PasswordStore` and `RateLimiter` | extends both |
| `BrowserProofs` | theorems of `SignalingClient` and `Negotiation` | extends both |

Definitions with a comment `mutant: ...` are variants of an operation,
as a plausible slip would leave it; no specification uses them. They
show that each property can fail.

**Hub.** `peers`, `roomCode`, `role` are `Hub.peers` with `Peer.RoomCode` and
`Peer.Role`; `rooms`, `members`, `hostIP` are `Hub.rooms` with `Room.Peers` and
`Room.HostIP`; `ipConns`, `ipRooms` the two counter maps; `send` the `Send`
channels. `idle` says that `LastActive` is older than `RoomTTL`, which is all
that ReapRooms asks of it. `relayReq` is what HandleRelayRequest remembers
between its unlock and the answer; the connection's readPump is inside that
call, so it does nothing else meanwhile (`Free`). A refused call changes
nothing and is not a step. `Offer` is the `select` with a `default`: a full
queue drops the message. Error answers written by the caller belong to
`SignalingServer`.

**SignalingServer.** `pump`, `writer` and `timer` are the places of the three
goroutines; `sock` the server's side of the socket, `gone` the client's.
A join is four steps, as in `ws.go`: the locked registration, `close(joinedChan)`
(a second close panics and ends the goroutine through its deferred function),
the walk over `room.Peers` without the lock, and the blocking
`Send <- ackData`. `touched` collects what other goroutines did to the map
during the walk: those entries may be seen or not, and Go's runtime may end the
process (`crashed`). `view` is what a client makes of the messages delivered to
it. Frames already read from the socket are handled after it is closed, so
`Join` has no guard on `sock`. Messages for other peers are bounded by
`MaxRouted`.

**RelayManager.** `approved` and `issued` are the sessions of the map and those
there ever were, `hostConn` and `guestConn` the slots. `CreateSession` also
starts the goroutine that is `Sweep`; a token's age is `Expire`. The
bridge is two goroutines: the reader, which reads a frame,
compares the count with the limit, writes it and reports to `errChan` (a
buffered channel of `ErrCap` places), twice on its way out (an error, and the
deferred nil); and the main one, which selects between `errChan` and the
session's timer, closes both sockets and decrements `activeCount`. A frame is a
number: its content is opaque to the server.

**PasswordStore.** `file` and `torn` are the JSON file: `os.WriteFile`
truncates (`Truncate`) and writes (`WriteOut`) in two steps, between which the
process may die or another may write; one text over a longer one leaves it
unreadable. `newer` is the comparison ReloadIfChanged makes, and `fresh` whether
the file changed since the Stat of a load under way. `holder` and `phase` are
the server's `PasswordStore.mu` over the steps of a save or load. Commands do
not share that lock: `copy` is what each has read. `failed` is a history
variable that the code does not have; nothing but properties reads it.

**RateLimiter.** `TokenBucket` and its lazy refill, in exact fractions
(`Scale` units per token) instead of floats. `AdmitsWhatFits` compares it with
a definition that knows no buckets, from the history variable `granted`: how
often each address was admitted since each time. The names of its Init, Next and
Spec carry `Rate`, those of SignalingClient `Client`, because a proof module
extends each of them together with another.

**SignalingClient.** The fields of `SignalingClient` as they are (`ws`,
`lastRoom`, `explicit`, `timer`), the sockets with their messages under way,
and of the server what `ws.go` does with a join. `ExplicitClose` is close(), as
GoTransport's leave() calls it. A socket, once closed on both
sides, may serve again as a new one.

**RelayHandshake.** `stage` is where `sendFile` is, `ask` and `key` are the two
promises it awaits together, `pendingRelay`, `pendingRelayKeys` and
`pendingHostPubKey` the fields of GoTransport of those names. A send asks at most
twice, so its requests are `<<s, 1>>` and `<<s, 2>>`, and the token that the
server draws and the key pair that the guest makes are named after the request.
`relayTimers` and `keyTimers` are the `setTimeout`s under way, none of which is
ever cleared; `deriving` are the calls of `handleRelayKey` that await WebCrypto.
A step is one task of the event loop with the microtasks that follow, which is
why a promise's settlement and its continuation (`PromiseAll`) are one step. The
server and the guests are external: `Serve` approves, asks for a login or loses
the request, as RelayManager and the registry may.

**Transfer.** `sendFileToDataChannel` and `sendFileOverRelay` with what they
await (a chunk of the file, room in the buffer, an encryption), the frames on the
shared channel (`wire`) and on each relay socket, and the receivers: the one of
the channel, which keeps one file at a time, and the relay's, which decrypts
frames concurrently (`decrypting`). `listener` is the channel's single
`onbufferedamountlow`. `trouble` is a history variable: which sends overlapped,
or were overtaken.

**Fallback.** The fields of ConnectionOrchestrator and what main.ts shows. A
Trystero room is left asynchronously, so a transport is live, being left or gone,
and events of one that is being left still reach the closures made for it. A
GoTransport closes at once, except for connections that were replaced in its map
(see Negotiation): `replaced` are their peers, `haunting` the same of transports
that were left since, and `LeftGoPeer` is what such a connection goes on to
report, as `orchestrator.ts:132-137` never asks whether its transport is the
current one. Nor do errors ask (`guestLeft`). A timer that is overwritten while it
runs is counted in `leaked`. `late` and `twice` are history variables: an event of
a room being left was acted on, a scanned code joined twice.

**Negotiation.** For each browser its id (a new one for every connection to the
server), `pc`, which is the map `connections` of PeerConnectionManager with the
state of each RTCPeerConnection, the `channels` and `relayMode` of GoTransport,
what the page shows, and the messages between browsers in order. The server
acknowledges a join in one step and walks the room in another, as
`SignalingServer` does in more detail, so a notice may overtake the
acknowledgement; `raced` remembers for whom that happened. `createPeerConnection`
overwrites an entry of the map without closing what it held: `old` keeps these
connections, which go on to gather, connect, fail and call the same handlers, past
`leave()` too, since `closeAll` closes what the map holds (`left` marks those:
what their GoTransport does then reaches the page only). The three `catch` blocks
are steps: the constructor that throws (`Initiate`, `OnOffer`), a description that
cannot be made or set (`DescriptionFails`), an answer that is refused
(`OnAnswer`). Each puts the peer on the relay and sends nothing. The WebRTC
library is external: it makes answers after the remote description is set, opens
channels when both descriptions are there, and may fail or disconnect at any time.

## 3. Runs

`expect: pass`, each over all behaviours of its instance:

| run | instance | properties | what it shows |
|---|---|---|---|
| HubRegistry | 4 connections, 3 of one address; 2 codes; 3 connections, 2 rooms; 2 connections, 1 room per address; 2 members; queues of 1 | TypeOK, MembershipAgrees, CountersExact, WithinLimits, SignalsStayInRoom, ImplementsRendezvous | every limit is reached and refuses, every queue overflows, rooms expire with members and come back under the same code; membership, counts and limits stay right |
| RelayBridge | 1 token, 3 sockets, 1 place, limit of 2 frames, 3 sent | TypeOK, ActiveCountExact, SessionShape, FramesCarried, BridgesEnd | sockets attach, leave and try again, tokens expire and are swept, the limit and the timer strike: a bridge has its own two sockets, what was sent arrives, and it ends with nothing left behind and its place given back |
| ServerRoster | 2 connections, 1 code, queues of 3, 1 message for another peer | NobodyMissed, ServedExactly | the goroutines of both connections interleave in every way, sockets die, rooms expire, joins repeat |
| ServerEnds | the same with queues of 1 and no such message | ConnectionsEnd, HandshakeEnforced, JoinsEnd | with fair goroutines every connection that ends is released, whoever does not join is dropped, and a join that was granted does not hang readPump, although its acknowledgement may have to wait for room |
| PasswordFile | 3 records (one-time, expiring, generated), 3 logins, 1 generate, 1 invalidate, saves may fail | TypeOK, FollowsFile, OnceUndisturbed, CatchesUp | every interleaving of server and commands on the file, with crashes |
| RateLimits | 2 addresses, burst 2, half a token per tick, 7 ticks | AdmitsWhatFits, NothingForgotten | the lazy bucket admits what the sliding definition admits, removals included |
| ClientLife | host, 3 sockets, 3 losses | OneConnection, LeaveIsFinal, KeepsTrying | losses, refusals and leave() at any moment |
| HandshakeKeys | 2 sends to 2 guests or to 1, 1 login at a time | TypeOK, KeysAgree, NotStranded | both sends share the prompt and the slot, timers outlive what they were set for, logins are asked for at any moment: the key is right and no wait is without an end |
| Transfers | 2 sends of up to 2 chunks, each direct or relayed, a buffer of 1 chunk | TypeOK, Intact, Delivered, SendsSettle | sends overlap or follow each other, the channel closes, reads and decryption fail or overtake |
| FallbackToGo | 2 Trystero rooms at a time, 1 serverless and 1 Go peer, 2 codes, 1 forgotten timer | TypeOK, Wanted, Sendable, GuestServed | the timer, late pairings, failures and leave() in every order, rooms one after the other, connections that outlive their transport |
| Pairs | 2 browsers, 3 ids | TypeOK, MessagesFit, NoGhosts, PairsConnect | a host and a guest meet, one of them reconnects under a new id: notices, offers, answers and candidates in every order the server and the network allow, every `catch`, and connections that were replaced |

`expect: violation`, a finding in PROJECT.json: **ClientRejoin** (a reconnect
joins twice and is closed, for ever).

**Why the bounds are enough.** Limits differ from each other and from the number
of actors, so that each can be the one that refuses. Two codes and four peers
are one more room and one more member than an operation looks at. The bridge
sends one frame more than the limit, and a limit of 2 separates the first frame
from the last; with three sockets one of them can always be of the wrong peer, or
one too many. That sessions compete for the places is left to the theorems
CountExact and Shaped, which hold for any number of tokens. In
ServerRoster two peers suffice for what one goroutine can do between two steps
of another, and a queue of three holds all that the other can cause between a
join and its acknowledgement; `MaxRouted` only keeps the run finite. Rate and
scale make refills fractional; seven ticks hold an idle time, a removal and a
new bucket. Three sockets are one more than can be in use at once. Two sends are
what share a slot, a prompt, a channel or a guest; with two guests they may also
share nothing. Two chunks have an order, and a buffer of one makes each of them
wait. Two Trystero rooms are the one in use and the one being left; a
peer of each transport is enough for what is shown of one peer, and the theorems
hold for any number. Two browsers with a third id are a pair one of which comes
back: it may then replace a connection, leave, and hear from what was replaced.
That it joins once more after that takes a fourth id, and is left to the theorems,
which hold for any ids and browsers; random behaviours of three browsers with five
ids (12 million states) met no violation of the three invariants.

**Symmetry and views.** Symmetry is used where a run checks no liveness:
connections of one address, codes, sockets, sends, guests and rooms, none of which the
specifications tell apart (`AnyIP`, `AnyPeer` choose only values of fields that
are not in use, before the first step). `Lengths` (HubRegistry) keeps of the
queues their lengths: no guard of the registry reads a message, and the two
properties that look at one look at the last one put there in the step itself.
`Told` (ServerRoster) merges messages that `Seen` ignores, and those to a client
that is gone. `Moving` (ServerEnds) also leaves out what the acknowledgement and
the client know, which no guard and none of the properties reads; two states with the
same view have the same steps, up to the view, so it is a bisimulation and sound
for the liveness properties.

**Deadlock** is checked in HubRegistry, PasswordFile and RateLimits (whose last
tick still lets requests in). The others may stop: each connection, session,
socket, send or id is used once, all bridges end, and a client that left is done.

**Fairness**, and what justifies it:

* ServerEnds: weak fairness for each goroutine's next step (the Go scheduler)
  and each timer. A vanished client is noticed by the pong deadline or a write
  deadline. Strong fairness for the read error: between two reads readPump
  handles frames that had arrived before the close, of which there are finitely
  many, so the error is enabled again and again and finally taken.
* RelayBridge: weak fairness for the two goroutines, the session's timer and
  the token's. Nothing is assumed of the remote ends.
* PasswordFile: the holder of the lock goes on; the ticker polls every 2 s.
* Transfers: an open channel sends what it buffers, a chunk is read, a relay
  sender goes on. Nothing is assumed of the network or of the guest, for sending
  ends when the frames have left the buffer.
* Pairs: one weak fairness for all that has begun (the server's steps, handlers,
  awaits, the end of a connection attempt): while something of it can go on,
  something does. Nobody has to join, leave or reconnect. There are finitely many
  ids, so joins end; PairsConnect says that after the last of them a state in which
  every pair is settled comes again and again.
* ClientLife, ClientRejoin: sockets open or close, events are delivered, the
  reconnect timer goes off, the server reads and notices.

## 4. Proofs

All theorems hold for any values of the constants that satisfy the named
assumptions, and `tlapm` checks every leaf.

| module | theorems | argument |
|---|---|---|
| HubProofs | Typed, Agrees, Counted, Limited, Isolated, Refines | `HubInv` = types, membership, counters and limits together: the counters are exact only if a room's disappearance and its members' are the same step, and limits follow from guards on the counters. Cardinality facts about adding and removing one element are lemmas |
| ServerProofs | Served, ServerKeepsRegistry, NobodyIsMissed | `ServerInv` adds to `HubInv` where readPump is; each of its actions calls one of the registry's or leaves the registry alone (the lemma StepUsesHub), so the registry's invariants carry over. For NobodyIsMissed, `Informed`: whoever follows its room knows each other member, or has it named in its queue by a message that no later one takes back, or by the walk it is in or the acknowledgement it holds; `Spacious` says that a queue that was never full has room for the next notice |
| RelayProofs | Typed, Shaped, Carried, CountExact | `RelayInv` ties the places of the two goroutines to the results in errChan, the sockets and the frame counts; the bound on `errs` is why `errChan` needs two places |
| AuthProofs (passwords) | StoreInvariant, StoreTyped, Follows, Once | `LockHeld` and `UpToDate` say what a save or load under way may assume of the file; for `Once`, `Gone`: a spent password is neither in memory nor in the file, and the login being answered is the only one that holds it |
| AuthProofs (rate) | RateInvariant, Admits, Unforgetting | for each time t, what is left in the bucket and what was admitted since t is compared with what t allows. `WithinRate`: never more; so what the bucket has, fits. `AtRate`: for some t just as much, or the bucket is full; so what fits, the bucket has. `NotAhead`: nothing is recorded for times to come. A removed bucket was full (`IdleAssumption`) |
| BrowserProofs (connection) | ClientInvariant, Single, Final | which sockets may exist beside `ws` and the timer |
| BrowserProofs (negotiation) | NegotiationInvariant, NegotiationTyped, SignalsFit, GhostsGo | `NegotiationInv` = types, ids, single browsers and pairs; see below |
| HandshakeProofs | HandshakeTyped, OwnKey, Agree, Unstranded | `HandshakeInv`: `Staged` says which values the two promises of a send can have at each stage; `Traced`, that every token, key, message and timer belongs to a request that was made, and those of a send to its own guest; `Prompted`, that the slot of the public key holds the key of the send whose prompt is remembered until its first try; `Timed`, that a send alone with its guest owns the entries its timers look for. For a send alone with its guest, asked once, `Traced` leaves a single request that its token and its key can come from, and `OwnKeyFirst` says which key that carried |
| TransferProofs | TransferInvariant, TransferTyped, FilesIntact, FilesDelivered | `TransferInv`: how far each send is, the frames on the channel and in each relay session, and what is not lost; see below |
| FallbackProofs | FallbackTyped, AsWanted, ShownCanReceive, GuestHasAWay | the three properties and `TypeOK` are inductive together with `NoneLeaked` (a timer is forgotten only by a second join): Sendable needs that no room but the orchestrator's is live, which is part of Wanted, and Wanted needs that no forgotten timer falls back behind the lobby. What a left GoTransport reports is only ever about a peer in `haunting`, and that set never shrinks |

The theorems of HubProofs (but for Typed) and ServerProofs assume
`~DrawsMayCollide`: one of the five draws of a room code is free. With 210^3
codes and 500 rooms that is all but certain; the code itself does not ensure it
(section 6).

**Negotiation.** A browser keeps what it knows of a peer in four places
(`pc`, `channels`, `relayMode`, the page), the server has its members, and the
news travels in inboxes. The two properties speak of heads of inboxes, so the
invariant has to speak of all of each inbox.

* `IdsInv`: of an id that is still free nothing is known anywhere, and a
  `peer-left` is only about one who has gone. Hence an id that is drawn is news
  to everybody.
* `Whole` is about one browser that is under its first id (`New`). `Sides`:
  towards a higher id it offers, towards a lower one it answers. This alone rules
  glare out, and it needs `Own`: before its one `joined`, a browser does not know
  its id and has offered nothing. `Noticed`: a peer is announced once, before a
  `joined` that lists it, so no second connection replaces the first: what such a
  browser replaced was left, or is of a peer that came back. `Mail`: at most one
  offer and one answer per peer are in the inbox, wherever they are, and a
  candidate follows its description directly, and finds it set unless an error
  there put the peer on the relay. `News`: whoever is named by the page, a list or
  a message is there, or the `peer-left` comes behind, or was missed (`raced`), or
  is the peer of a replaced connection.
* `Pair` is about two such browsers, the first with the lower id: while an offer
  is on its way or being answered, the first waits and no answer is on its way.
  Without it an answer could meet a connection that is stable already.

A handler changes one browser's entry for one peer and takes one message, so
most of the proof is done once, for any step of that shape (`Handled`, `Moves`),
and each handler is shown to have it. NegotiationInv was first checked by TLC:
for two browsers in all states, for three in as many as fit.

**Transfer.** `DirectInv`: each frame on the channel follows the one before it,
the first one what the receiver has, and the next frame of each sender the last
one (`Follows`), except where both belong to sends that overlapped. What the
receiver gathers for a file that nobody disturbed is then a prefix of it, and the
end frame comes when it is whole. `RelayInv`, for each session: frames wait in the order of
the file, those being decrypted came before them, and every chunk taken is there
once; without reordering, taken chunks also come first (`InOrder`). That all
chunks were taken when their number is right, whatever their order, is the
pigeonhole lemma `AllChunks`. `CompleteInv` is what Delivered needs: nothing of
an undisturbed send is lost while it goes on, and its last frame is somewhere
until the file is saved.

Every invariant and every action property of a passing run is a theorem, as is
the refinement ImplementsRendezvous. **Only model-checked** are the liveness
properties: ConnectionsEnd, HandshakeEnforced, JoinsEnd, BridgesEnd,
CatchesUp, KeepsTrying, SendsSettle, PairsConnect. They rest on fairness, hence
on ENABLED, which the prover does not handle.

## 5. Abstractions

* **Time.** A room is idle or not; a token has expired or not; a timer may go
  off at any moment while it runs. Two relations between durations are used:
  `RoomTTL` (30 min) exceeds a walk and `HandshakeTimeout` (10 s), so a room
  that was just joined does not expire (`Settled`); and a bucket idle for
  Prune's hour is full again (`IdleAssumption`).
* **File times.** Each write gives the file a newer modification time, as with
  the resolution of current file systems. A save fails only by not opening the
  file; a failure in the middle is the same file state as a crash there.
* **Password expiry.** A password is expired or not at the step that looks.
* **Messages** are a type and the peers they name. Serialisation, the message
  rate and size limits, origin checks and CORS are left out, except that each of
  them may end a connection (`Drop`).
* **Data races.** The walk over `room.Peers` is modelled with the outcomes of a
  Go map race. Two others are taken as atomic: the stamps of `LastActive` under
  a read lock, and readPump's unlocked read of `RoomCode`.
* **Browser.** `new WebSocket` does not throw, the backoff is some delay. A step
  of RelayHandshake, Transfer or Fallback is a task of the event loop with its
  microtasks; what awaits WebCrypto, a file or the network continues in a step of
  its own.
* **Keys.** Two ends have the same key when each used the other's public one; a
  derivation or a decryption may fail at any time.
* **Inboxes** of Negotiation lose nothing and keep their order, as a WebSocket does;
  that the server drops what a full queue has no room for is in Hub and
  SignalingServer only. A message to a browser whose connection has dropped is
  lost.
* **WebRTC and Trystero** are external: Negotiation and Fallback have of them what
  the code relies on, and nothing that it does not ask for.
* **Exceptions in properties.** ConnectionsEnd excludes a readPump that blocks
  in `Send <- ackData` on a full queue after writePump ended: nothing wakes it
  (`AckStuck`), and the connection keeps its place. CatchesUp excludes a file no
  process can parse, which the server ignores while it runs and refuses to start
  with. NobodyMissed excludes a client whose queue was once full. FollowsFile
  asks for inclusion only once a save has failed. KeysAgree and NotStranded are
  about a send that has its guest to itself and was not made to log in again, and
  NotStranded about a guest that is still there; Intact, Delivered and SendsSettle
  name the disturbance they except (`trouble`, a stolen listener, a closed
  channel); Wanted, Sendable and GuestServed except a late event of a room being
  left, the first two a second scan, and Sendable a peer of whom a connection
  outlived the leave() of its Go transport; NoGhosts and PairsConnect except a pair
  of which one was told of the other before its own acknowledgement, and a
  browser that came back; NoGhosts also a peer of whom a connection was replaced.
  PairsConnect lets the other side of an error wait: where one end gave the
  connection up (`Undone`) it is on the relay, and nothing tells the other. JoinsEnd
  has the exception of ConnectionsEnd. Section 6 says what happens in each of these
  cases.

## 6. Where code and documents part

With a run, ClientRejoin: `signaling.ts:192-199` joins after
`go-transport.ts:99-105` has joined, and the server drops a connection that joins
twice (`ws.go:240-243`); `README.md:152` promises an automatic rejoin. Others,
read off the code while modelling it; each has its place in the model, and none a
run.

In the server:

* `relay.go:134-137`: a session is counted when both sockets are attached, and
  the limit is compared only at its approval, so all sessions approved within a
  token's thirty seconds become active (`SPEC.md:163`).
* `ws.go:260`: readPump ranges over `room.Peers` without the lock while others
  insert and delete; the runtime may end the process (`crashed`), which no
  recover catches (`SPEC.md:230`).
* `passwd.go:85`: a command writes back what it read before a login consumed a
  one-time password, and the server reloads it (`store.go:28-29`); the definition
  `OneTimeOnce` in PasswordStore fails, and OnceUndisturbed says until when it
  holds.
* `hub.go:369` does not look at the sender's role: a guest's relay request is
  approved, with the guest as session host (`docs/decisions/relay-auth.md:20`).
* `hub.go:385`: the recipient may leave between the check and the approval
  (`relay-auth.md:21`).
* `hub.go:213`: the fifth draw of a code is used unchecked and replaces the room
  that has it (`hub.go:212`); with `DrawsMayCollide = TRUE` MembershipAgrees and
  CountersExact fail.
* `ws.go:288`: a message whose room is not the sender's is answered with an error
  and the connection stays open (`SPEC.md:226` and `:266` have it dropped).
* `hub.go:416`, `hub.go:350`: an error is queued and the connection stays open
  (`PROTOCOL.md:113`).
* `ws.go:274`: the acknowledgement may list a member whose `peer-left` was
  queued before it, so the client keeps it in its list (`PROTOCOL.md:88`).
* `store.go:127`: a one-time password whose removal could not be saved is valid
  again after a restart (`auth.go:42`).
* `store.go:77`: a save from older records brings an invalidated password back
  (`store.go:28`).

In the browser:

* `go-transport.ts:269`: the 15 s of the key exchange start before the user is
  asked for the password, so a slow login fails the send.
* `go-transport.ts:276`: the second request, after login-required, carries no
  public key; the guest then answers with an error and the send can only fail.
  The 10 s timer of the first request deletes the entry of the second without
  rejecting it.
* `main.ts:488`: the page remembers one prompt. When two sends need a login, the
  first waits until its key exchange times out.
* `go-transport.ts:81`: a guest that leaves takes the entry of the key exchange
  with it, its promise is never settled, and `sendFile` never returns.
* Two sends to one guest take each other's token, and `handleRelayKey`, when it
  is done, removes the entry of whichever send is there by then.
* `transfer.ts:55`: a sender that waits for room in the buffer listens to
  `onbufferedamountlow` only: when the channel closes meanwhile, its promise is
  never settled and `sendFile` never returns.
* `README.md:151` says that a transfer goes on when the signaling connection drops.
  The server tells the others `peer-left` (`hub.go:136-149`), and they close their
  end of the connection (`peer.ts:35`), so it goes on only until that arrives.
* `transfer.ts:41`: two files sent to one guest at once mix their chunks, and the
  second takes the listener the first waits for. `main.ts:214-222` and `352-358`
  allow it: the button is enabled again when another file is chosen.
* `relay-transfer.ts:136`: frames are handled as their decryption ends, not in the
  order they came (`docs/tasks/06` asks for chunks in order); a chunk that ends
  after the frame of the end is lost, and the size check reports it.
* `orchestrator.ts`: events of a Trystero room that is being left still fall back
  to the Go server in the lobby, stop the timer of a later room, or fall back
  with an earlier code (`transport.ts`: "Tear down the transport and any
  underlying connections").
* `main.ts`: the scanner may call back twice; the second join forgets the first
  transport and its timer.
* `go-transport.ts:64`: a member that joins between the server's walk and the
  acknowledgement is announced before `selfId` is known and is not in the list:
  neither offers if the own id is the lower. One that leaves in between is in the
  list although it has gone, and stays on the page.
* `go-transport.ts`: a rejoin keeps the connections of before. An offer finds a
  stale one, and with a stale `selfId` both may offer. `relayMode` is never cleared
  of a peer that left, and a `disconnected` that heals has lost its channel for
  good.
* `peer.ts:80-82`: a connection that is replaced in the map is never closed, not by
  `closeAll` either (`peer.ts:166`: "Close all active peer connections";
  `transport.ts`: "Tear down the transport and any underlying connections"). Its
  events put the peer on the relay or off the page, and after leave() they reach
  the page through the closures of the left GoTransport: a peer is shown in the
  lobby or in a later room, with a transport that cannot send to it. Without
  `Replaced` and `haunting` in them, NoGhosts (with a fourth id) and Sendable fail.
* `peer.ts:50-53` and `120-123`: a browser that cannot make a connection, an offer
  or an answer shows the peer as connected over the relay and sends nothing; the
  other waits in "connecting" until somebody leaves. Without `Undone`, PairsConnect
  fails.
* A host that reconnects while its guest keeps the room is refused with
  code-taken. The documents have the host offer; in the code it is the lower id.

## 7. Not modelled, and the plan

Left out: flag and environment parsing, HTTP listener and shutdown, logging,
the DOM, WebCrypto calls, packaging and deployment, the end-to-end test in
`test/`. `HandleLogin`'s request decoding and `passwd list` only read. The relay's
bandwidth throttle is a delay between steps.

Done in this order: Hub, RelayManager, SignalingServer, PasswordStore,
RateLimiter, SignalingClient, RelayHandshake, Transfer, Fallback, Negotiation.
What is left, by importance:

1. RelayHandshake over RelayManager's sessions and the guest's own code, in
   place of `Serve` and `GuestAnswers`.
2. Three browsers in Negotiation, to the end, for PairsConnect; for its safety
   the theorems hold for any number.
3. What the theorems say of a pair of which one reconnects (`again`): nothing is
   promised there yet beyond types and ids; of one that was `raced`, MessagesFit only.
