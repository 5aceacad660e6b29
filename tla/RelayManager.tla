---------------------------- MODULE RelayManager ----------------------------
(***************************************************************************)
(* The data relay of the Go server (server/relay.go): sessions approved    *)
(* under a single-use token, the two sockets that attach to one, and the   *)
(* bridge that carries the host's frames to the guest.                     *)
(*                                                                         *)
(* CreateSession, ConnectPeer and the token sweeper run under              *)
(* RelayManager.mu and are one step each.  The bridge is two goroutines,   *)
(* the main one in its select and the reader, which share errChan.  A      *)
(* frame counts for one unit of the byte limit; tokens, sessions and       *)
(* sockets are never reused.                                               *)
(***************************************************************************)
EXTENDS Integers, FiniteSets

CONSTANTS
  Tokens, Conns, Peers,
  MaxSessions,  \* RelayManager.maxSessions
  ByteLimit,    \* maxBytes, in frames
  MaxFrames,    \* bound: frames a host sends in one session
  NoConn        \* a nil *websocket.Conn

ASSUME SetAssumption   == IsFiniteSet(Tokens) /\ NoConn \notin Conns /\ Peers # {}
ASSUME BoundAssumption == MaxSessions \in Nat /\ ByteLimit \in Nat /\ MaxFrames \in Nat

VARIABLES
  issued,       \* the tokens drawn so far
  approved,     \* the keys of RelayManager.approved
  host, guest,  \* ApprovedRelay.HostID, GuestID
  hostConn, guestConn,
  active,       \* ApprovedRelay.Active
  expired,      \* more than tokenTimeout since CreatedAt
  activeCount,
  conn,         \* each socket: not yet made, open or closed by the server
  gone,         \* the remote end of the socket left or stalled for good
  main,         \* where runBridge of each session is
  late,         \* the ten minutes of the session's timeoutTimer are over
  reader,       \* where the reader goroutine of each session is
  errs,         \* messages in errChan
  sent, read, delivered  \* frames written by the host, read, and given to the guest

approval == <<issued, approved, host, guest, expired>>
sockets  == <<hostConn, guestConn, conn, gone>>
bridge   == <<active, activeCount, main, late, reader, errs>>
frames   == <<sent, read, delivered>>
vars     == <<approval, sockets, bridge, frames>>

ErrCapOne == 1  \* mutant: room for one result only
ErrCap    == 2  \* make(chan error, 2)

MainStates   == {"off", "select", "closing", "counting", "done"}
ReaderStates == {"off", "read", "write", "return", "done"}

(* Every variable has its type; errChan never holds more than its capacity. *)
TypeOK ==
  /\ issued \subseteq Tokens /\ approved \subseteq issued
  /\ host \in [Tokens -> Peers] /\ guest \in [Tokens -> Peers]
  /\ hostConn \in [Tokens -> Conns \cup {NoConn}]
  /\ guestConn \in [Tokens -> Conns \cup {NoConn}]
  /\ active \in [Tokens -> BOOLEAN] /\ expired \in [Tokens -> BOOLEAN]
  /\ activeCount \in Int
  /\ conn \in [Conns -> {"new", "open", "closed"}]
  /\ gone \in [Conns -> BOOLEAN]
  /\ main \in [Tokens -> MainStates]
  /\ late \in [Tokens -> BOOLEAN]
  /\ reader \in [Tokens -> ReaderStates]
  /\ errs \in [Tokens -> 0 .. ErrCap]
  /\ sent \in [Tokens -> Nat] /\ read \in [Tokens -> Nat]
  /\ delivered \in [Tokens -> Nat]

AnyPeer == CHOOSE p \in Peers : TRUE

Init ==
  /\ issued = {} /\ approved = {}
  /\ host = [t \in Tokens |-> AnyPeer] /\ guest = host
  /\ hostConn = [t \in Tokens |-> NoConn] /\ guestConn = hostConn
  /\ active = [t \in Tokens |-> FALSE] /\ expired = active /\ late = active
  /\ activeCount = 0
  /\ conn = [k \in Conns |-> "new"] /\ gone = [k \in Conns |-> FALSE]
  /\ main = [t \in Tokens |-> "off"] /\ reader = main
  /\ errs = [t \in Tokens |-> 0] /\ sent = errs /\ read = errs /\ delivered = errs
-----------------------------------------------------------------------------
(* A refusal at the session limit changes nothing and is not a step. *)
CreateSession(t, h, g) ==
  /\ t \notin issued
  /\ activeCount < MaxSessions
  /\ issued' = issued \cup {t}
  /\ approved' = approved \cup {t}
  /\ host' = [host EXCEPT ![t] = h]
  /\ guest' = [guest EXCEPT ![t] = g]
  /\ UNCHANGED <<expired, sockets, bridge, frames>>

(* The token's thirty seconds pass; then its sweeper goroutine runs. *)
Expire(t) ==
  /\ t \in issued /\ ~expired[t]
  /\ expired' = [expired EXCEPT ![t] = TRUE]
  /\ UNCHANGED <<issued, approved, host, guest, sockets, bridge, frames>>

Sweep(t) ==
  /\ expired[t] /\ t \in approved /\ ~active[t]
  /\ approved' = approved \ {t}
  /\ UNCHANGED <<issued, host, guest, expired, sockets, bridge, frames>>

(* The slot of the session that ConnectPeer gives to p, the host's first. *)
Valid(t)         == t \in approved /\ ~expired[t]
HostSlot(t, p)   == p = host[t] /\ hostConn[t] = NoConn
GuestSlot(t, p)  == p # host[t] /\ p = guest[t] /\ guestConn[t] = NoConn

(* Both sockets attached and not yet active: start the bridge. *)
ActivateTwice(t) ==  \* mutant: the session is counted at each attachment
  /\ activeCount' = activeCount + 1
  /\ IF hostConn'[t] # NoConn /\ guestConn'[t] # NoConn
     THEN /\ active' = [active EXCEPT ![t] = TRUE]
          /\ approved' = approved \ {t}
          /\ main' = [main EXCEPT ![t] = "select"]
          /\ reader' = [reader EXCEPT ![t] = "read"]
     ELSE UNCHANGED <<active, approved, main, reader>>

ActivateKeepsToken(t) ==  \* mutant: the token can be presented again
  IF hostConn'[t] # NoConn /\ guestConn'[t] # NoConn /\ ~active[t]
  THEN /\ active' = [active EXCEPT ![t] = TRUE]
       /\ activeCount' = activeCount + 1
       /\ main' = [main EXCEPT ![t] = "select"]
       /\ reader' = [reader EXCEPT ![t] = "read"]
       /\ UNCHANGED approved
  ELSE UNCHANGED <<active, approved, activeCount, main, reader>>

Activate(t) ==
  IF hostConn'[t] # NoConn /\ guestConn'[t] # NoConn /\ ~active[t]
  THEN /\ active' = [active EXCEPT ![t] = TRUE]
       /\ approved' = approved \ {t}
       /\ activeCount' = activeCount + 1
       /\ main' = [main EXCEPT ![t] = "select"]
       /\ reader' = [reader EXCEPT ![t] = "read"]
  ELSE UNCHANGED <<active, approved, activeCount, main, reader>>

ConnectPeer(t, p, k) ==
  /\ conn[k] = "new"
  /\ Valid(t)
  /\ \/ /\ HostSlot(t, p)
        /\ hostConn' = [hostConn EXCEPT ![t] = k]
        /\ UNCHANGED guestConn
     \/ /\ GuestSlot(t, p)
        /\ guestConn' = [guestConn EXCEPT ![t] = k]
        /\ UNCHANGED hostConn
  /\ conn' = [conn EXCEPT ![k] = "open"]
  /\ Activate(t)
  /\ UNCHANGED <<issued, host, guest, expired, gone, late, errs, frames>>

(* An error: ServeRelay answers and closes; a token found expired is dropped *)
ConnectRefused(t, p, k) ==
  /\ conn[k] = "new"
  /\ ~(Valid(t) /\ (HostSlot(t, p) \/ GuestSlot(t, p)))
  /\ conn' = [conn EXCEPT ![k] = "closed"]
  /\ approved' = IF expired[t] THEN approved \ {t} ELSE approved
  /\ UNCHANGED <<issued, host, guest, expired, hostConn, guestConn, gone, bridge, frames>>
-----------------------------------------------------------------------------
(* The remote ends (web/src/relay-transfer.ts): the host writes frames as   *)
(* soon as its socket is open, either side may leave or stop reading.       *)
HostSends(t) ==
  /\ hostConn[t] # NoConn /\ conn[hostConn[t]] = "open" /\ ~gone[hostConn[t]]
  /\ sent[t] < MaxFrames
  /\ sent' = [sent EXCEPT ![t] = @ + 1]
  /\ UNCHANGED <<approval, sockets, bridge, read, delivered>>

Leave(k) ==
  /\ conn[k] = "open" /\ ~gone[k]
  /\ gone' = [gone EXCEPT ![k] = TRUE]
  /\ UNCHANGED <<approval, hostConn, guestConn, conn, bridge, frames>>

SessionTimeout(t) ==
  /\ main[t] = "select" /\ ~late[t]
  /\ late' = [late EXCEPT ![t] = TRUE]
  /\ UNCHANGED <<approval, sockets, active, activeCount, main, reader, errs, frames>>
-----------------------------------------------------------------------------
(* The reader goroutine.  errChan <- err blocks when the channel is full.   *)
Report(t, next) ==
  /\ errs[t] < ErrCap
  /\ errs' = [errs EXCEPT ![t] = @ + 1]
  /\ reader' = [reader EXCEPT ![t] = next]
  /\ UNCHANGED <<approval, sockets, active, activeCount, main, late>>

Moves(t, next) ==
  /\ reader' = [reader EXCEPT ![t] = next]
  /\ UNCHANGED <<approval, sockets, active, activeCount, main, late, errs>>

ReadWithin(t) ==
  /\ reader[t] = "read" /\ read[t] < sent[t]
  /\ read[t] < ByteLimit
  /\ read' = [read EXCEPT ![t] = @ + 1]
  /\ Moves(t, "write")
  /\ UNCHANGED <<sent, delivered>>

ReadOverLimit(t) ==
  /\ reader[t] = "read" /\ read[t] < sent[t]
  /\ read[t] >= ByteLimit
  /\ read' = [read EXCEPT ![t] = @ + 1]
  /\ Report(t, "return")
  /\ UNCHANGED <<sent, delivered>>

\* mutant: a departed host ends the read although frames of it are unread
ReadErrorEarly(t) ==
  /\ reader[t] = "read"
  /\ conn[hostConn[t]] = "closed" \/ gone[hostConn[t]]
  /\ Report(t, "return")
  /\ UNCHANGED frames

ReadError(t) ==
  /\ reader[t] = "read"
  /\ conn[hostConn[t]] = "closed" \/ (gone[hostConn[t]] /\ read[t] = sent[t])
  /\ Report(t, "return")
  /\ UNCHANGED frames

(* A write to a guest that left may still succeed, into the void. *)
WriteFrame(t) ==
  /\ reader[t] = "write" /\ conn[guestConn[t]] = "open"
  /\ delivered' = IF gone[guestConn[t]] THEN delivered
                  ELSE [delivered EXCEPT ![t] = @ + 1]
  /\ Moves(t, "read")
  /\ UNCHANGED <<sent, read>>

WriteError(t) ==
  /\ reader[t] = "write"
  /\ conn[guestConn[t]] = "closed" \/ gone[guestConn[t]]
  /\ Report(t, "return")
  /\ UNCHANGED frames

(* The deferred errChan <- nil. *)
ReaderReturns(t) == reader[t] = "return" /\ Report(t, "done") /\ UNCHANGED frames

(* The main goroutine: select, then the deferred closes and the count. *)
SelectDrains(t) ==  \* mutant: the timeout's branch also takes a result
  /\ main[t] = "select"
  /\ errs[t] > 0 \/ late[t]
  /\ errs' = [errs EXCEPT ![t] = @ - 1]
  /\ main' = [main EXCEPT ![t] = "closing"]
  /\ UNCHANGED <<approval, sockets, active, activeCount, late, reader, frames>>

Select(t) ==
  /\ main[t] = "select"
  /\ errs[t] > 0 \/ late[t]
  /\ \/ errs[t] > 0 /\ errs' = [errs EXCEPT ![t] = @ - 1]
     \/ late[t] /\ UNCHANGED errs
  /\ main' = [main EXCEPT ![t] = "closing"]
  /\ UNCHANGED <<approval, sockets, active, activeCount, late, reader, frames>>

CloseBoth(t) ==
  /\ main[t] = "closing"
  /\ conn' = [conn EXCEPT ![hostConn[t]] = "closed", ![guestConn[t]] = "closed"]
  /\ main' = [main EXCEPT ![t] = "counting"]
  /\ UNCHANGED <<approval, hostConn, guestConn, gone, active, activeCount, late,
                 reader, errs, frames>>

Uncount(t) ==
  /\ main[t] = "counting"
  /\ activeCount' = activeCount - 1
  /\ main' = [main EXCEPT ![t] = "done"]
  /\ UNCHANGED <<approval, sockets, active, late, reader, errs, frames>>

ReaderStep(t) == \/ ReadWithin(t) \/ ReadOverLimit(t) \/ ReadError(t)
                 \/ WriteFrame(t) \/ WriteError(t) \/ ReaderReturns(t)
MainStep(t)   == Select(t) \/ CloseBoth(t) \/ Uncount(t)

Next ==
  \E t \in Tokens :
    \/ \E h, g \in Peers : CreateSession(t, h, g)
    \/ Expire(t) \/ Sweep(t)
    \/ \E p \in Peers, k \in Conns : ConnectPeer(t, p, k) \/ ConnectRefused(t, p, k)
    \/ HostSends(t) \/ SessionTimeout(t)
    \/ \E k \in {hostConn[t], guestConn[t]} \ {NoConn} : Leave(k)
    \/ ReaderStep(t) \/ MainStep(t)

Spec == Init /\ [][Next]_vars

(* Goroutines are scheduled, and both timers go off.  Nothing is assumed of *)
(* the remote ends.                                                         *)
Fairness == \A t \in Tokens : /\ WF_vars(ReaderStep(t)) /\ WF_vars(MainStep(t))
                              /\ WF_vars(SessionTimeout(t))
                              /\ WF_vars(Expire(t)) /\ WF_vars(Sweep(t))
FairSpec == Spec /\ Fairness
-----------------------------------------------------------------------------
(* activeCount is the number of bridges that have not yet counted           *)
(* themselves out: it neither leaks, which would in the end refuse every    *)
(* session, nor goes short, which would admit too many.                     *)
Bridging == {t \in Tokens : main[t] \in {"select", "closing", "counting"}}

ActiveCountExact == activeCount = Cardinality(Bridging)

(* A bridge has its two sockets, attached while the token was valid, and    *)
(* they serve nothing else; its token is spent.                             *)
Slots(t) == {hostConn[t], guestConn[t]} \ {NoConn}

SessionShape ==
  /\ \A t \in Tokens : main[t] # "off" =>
       /\ t \in issued \ approved
       /\ hostConn[t] # NoConn /\ guestConn[t] # NoConn /\ hostConn[t] # guestConn[t]
  /\ \A t, u \in Tokens : t # u => Slots(t) \cap Slots(u) = {}

(* No frame passes before the bridge starts (docs/tasks/14, "Auth before    *)
(* bytes") and never more than the limit; and unless the guest left or the  *)
(* session ran out of time, a bridge that has ended has delivered every     *)
(* frame the host sent, up to the limit.                                    *)
FramesCarried ==
  \A t \in Tokens :
    /\ main[t] = "off" => delivered[t] = 0
    /\ delivered[t] <= ByteLimit /\ delivered[t] <= sent[t]
    /\ main[t] = "done" /\ ~late[t] /\ ~gone[guestConn[t]] =>
         delivered[t] = sent[t] \/ delivered[t] = ByteLimit

(* Every bridge ends: its sockets are closed, its place in the session      *)
(* count is given back, and its reader goroutine does not stay behind       *)
(* blocked on errChan.                                                      *)
BridgesEnd ==
  \A t \in Tokens : main[t] = "select" ~>
    /\ main[t] = "done" /\ reader[t] = "done"
    /\ conn[hostConn[t]] = "closed" /\ conn[guestConn[t]] = "closed"
=============================================================================
