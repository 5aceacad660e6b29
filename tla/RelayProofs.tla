----------------------------- MODULE RelayProofs -----------------------------
(***************************************************************************)
(* Proofs about RelayManager, for every set of tokens, sockets and peers   *)
(* and every limit.                                                        *)
(***************************************************************************)
EXTENDS RelayManager, FiniteSetTheorems, TLAPS

(* Where the two goroutines of a session can be with respect to each other  *)
(* and to the sockets.                                                      *)
Phase(t) ==
  /\ active[t] <=> main[t] # "off"
  /\ main[t] = "off" <=> reader[t] = "off"
  /\ main[t] = "off" => errs[t] = 0 /\ ~late[t]
  /\ errs[t] > 0 => reader[t] \in {"return", "done"}
  /\ main[t] \in {"closing", "counting", "done"} /\ ~late[t] =>
       reader[t] \in {"return", "done"}
  /\ \A k \in Slots(t) :
       /\ conn[k] # "new"
       /\ conn[k] = "closed" => main[t] \in {"counting", "done"}

Phases == \A t \in Tokens : Phase(t)

(* How many frames are where, and why the reader may have stopped.          *)
FlowOf(t) ==
  /\ read[t] <= sent[t] /\ delivered[t] <= read[t]
  /\ main[t] = "off" => read[t] = 0
  /\ reader[t] = "write" => delivered[t] < read[t]
  /\ reader[t] \in {"read", "write"} =>
       /\ read[t] <= ByteLimit
       /\ ~gone[guestConn[t]] =>
            read[t] = delivered[t] + (IF reader[t] = "write" THEN 1 ELSE 0)
  /\ delivered[t] <= ByteLimit
  /\ reader[t] \in {"return", "done"} /\ ~late[t] /\ ~gone[guestConn[t]] =>
       \/ delivered[t] = ByteLimit
       \/ gone[hostConn[t]] /\ delivered[t] = sent[t]

Flow == \A t \in Tokens : FlowOf(t)

RelayInv == TypeOK /\ SessionShape /\ Phases /\ Flow
-----------------------------------------------------------------------------
LEMMA InitInv == Init => RelayInv
<1> SUFFICES ASSUME Init PROVE RelayInv
  OBVIOUS
<1>1. TypeOK
  BY SetAssumption DEF Init, TypeOK, AnyPeer, ErrCap, MainStates, ReaderStates
<1>2. \A t \in Tokens : /\ main[t] = "off" /\ reader[t] = "off" /\ ~active[t] /\ ~late[t]
                        /\ errs[t] = 0 /\ sent[t] = 0 /\ read[t] = 0 /\ delivered[t] = 0
                        /\ Slots(t) = {}
  BY DEF Init, Slots
<1>3. SessionShape
  BY <1>2 DEF SessionShape
<1>4. Phases
  BY <1>2 DEF Phases, Phase
<1>5. Flow
  BY <1>2, BoundAssumption DEF Flow, FlowOf
<1> QED BY <1>1, <1>3, <1>4, <1>5 DEF RelayInv

LEMMA StepTyped == RelayInv /\ [Next]_vars => TypeOK'
<1> SUFFICES ASSUME RelayInv, [Next]_vars PROVE TypeOK'
  OBVIOUS
<1> USE DEF approval, sockets, bridge, frames, MainStates, ReaderStates, ErrCap
<1>t. TypeOK
  BY DEF RelayInv
<1>0. CASE UNCHANGED vars
  BY <1>t, <1>0 DEF vars, TypeOK
<1>1. ASSUME NEW t \in Tokens, NEW h \in Peers, NEW g \in Peers, CreateSession(t, h, g)
      PROVE  TypeOK'
  BY <1>t, <1>1 DEF CreateSession, TypeOK
<1>2. ASSUME NEW t \in Tokens, Expire(t) \/ Sweep(t) PROVE TypeOK'
  BY <1>t, <1>2 DEF Expire, Sweep, TypeOK
<1>3. ASSUME NEW t \in Tokens, NEW p \in Peers, NEW k \in Conns, ConnectPeer(t, p, k)
      PROVE  TypeOK'
  <2>1. /\ hostConn' \in [Tokens -> Conns \cup {NoConn}]
        /\ guestConn' \in [Tokens -> Conns \cup {NoConn}]
        /\ conn' \in [Conns -> {"new", "open", "closed"}]
    BY <1>t, <1>3 DEF ConnectPeer, TypeOK
  <2>2. /\ approved' \subseteq issued' /\ active' \in [Tokens -> BOOLEAN]
        /\ activeCount' \in Int /\ main' \in [Tokens -> MainStates]
        /\ reader' \in [Tokens -> ReaderStates]
    <3>1. issued' = issued /\ Activate(t)
      BY <1>3 DEF ConnectPeer
    <3>2. CASE UNCHANGED <<active, approved, activeCount, main, reader>>
      BY <1>t, <3>1, <3>2 DEF TypeOK
    <3>3. CASE /\ active' = [active EXCEPT ![t] = TRUE]
               /\ approved' = approved \ {t}
               /\ activeCount' = activeCount + 1
               /\ main' = [main EXCEPT ![t] = "select"]
               /\ reader' = [reader EXCEPT ![t] = "read"]
      BY <1>t, <3>1, <3>3 DEF TypeOK
    <3> QED BY <3>1, <3>2, <3>3 DEF Activate
  <2> QED BY <1>t, <1>3, <2>1, <2>2 DEF ConnectPeer, TypeOK
<1>4. ASSUME NEW t \in Tokens, NEW p \in Peers, NEW k \in Conns, ConnectRefused(t, p, k)
      PROVE  TypeOK'
  BY <1>t, <1>4 DEF ConnectRefused, TypeOK
<1>5. ASSUME NEW t \in Tokens, HostSends(t) \/ SessionTimeout(t) PROVE TypeOK'
  <2>1. CASE HostSends(t)
    <3>1. sent' \in [Tokens -> Nat]
      BY <1>t, <2>1 DEF HostSends, TypeOK
    <3> QED BY <1>t, <2>1, <3>1 DEF HostSends, TypeOK
  <2>2. CASE SessionTimeout(t)
    BY <1>t, <2>2 DEF SessionTimeout, TypeOK
  <2> QED BY <1>5, <2>1, <2>2
<1>6. ASSUME NEW t \in Tokens, NEW k \in Slots(t), Leave(k) PROVE TypeOK'
  BY <1>t, <1>6 DEF Leave, TypeOK
<1>7. ASSUME NEW t \in Tokens, ReadWithin(t) \/ WriteFrame(t) PROVE TypeOK'
  BY <1>t, <1>7 DEF ReadWithin, WriteFrame, Moves, TypeOK
<1>8. ASSUME NEW t \in Tokens,
             ReadOverLimit(t) \/ ReadError(t) \/ WriteError(t) \/ ReaderReturns(t)
      PROVE  TypeOK'
  <2>1. errs' \in [Tokens -> 0 .. ErrCap] /\ reader' \in [Tokens -> ReaderStates]
    BY <1>t, <1>8 DEF ReadOverLimit, ReadError, WriteError, ReaderReturns, Report, TypeOK
  <2>2. read' \in [Tokens -> Nat]
    BY <1>t, <1>8 DEF ReadOverLimit, ReadError, WriteError, ReaderReturns, TypeOK
  <2> QED BY <1>t, <1>8, <2>1, <2>2
          DEF ReadOverLimit, ReadError, WriteError, ReaderReturns, Report, TypeOK
<1>9. ASSUME NEW t \in Tokens, MainStep(t) PROVE TypeOK'
  <2>1. CASE Select(t)
    BY <1>t, <2>1 DEF Select, TypeOK
  <2>2. CASE CloseBoth(t)
    BY <1>t, <2>2 DEF CloseBoth, TypeOK
  <2>3. CASE Uncount(t)
    BY <1>t, <2>3 DEF Uncount, TypeOK
  <2> QED BY <1>9, <2>1, <2>2, <2>3 DEF MainStep
<1> QED BY <1>0, <1>1, <1>2, <1>3, <1>4, <1>5, <1>6, <1>7, <1>8, <1>9
        DEF Next, ReaderStep, Slots

(* The sockets of the sessions change only in ConnectPeer, which takes one  *)
(* that no session has.                                                     *)
LEMMA FreshSocket ==
  ASSUME TypeOK, Phases, NEW k \in Conns, conn[k] = "new", NEW t \in Tokens
  PROVE  k \notin Slots(t)
BY DEF Phases, Phase

LEMMA SlotsAfterConnect ==
  ASSUME TypeOK, NEW t \in Tokens, NEW p \in Peers, NEW k \in Conns, ConnectPeer(t, p, k)
  PROVE  /\ Slots(t)' = Slots(t) \cup {k}
         /\ \A u \in Tokens \ {t} : Slots(u)' = Slots(u)
         /\ \A u \in Tokens \ {t} : hostConn'[u] = hostConn[u] /\ guestConn'[u] = guestConn[u]
         /\ k # NoConn
<1>1. k # NoConn
  BY SetAssumption
<1>2. CASE HostSlot(t, p) /\ hostConn' = [hostConn EXCEPT ![t] = k] /\ UNCHANGED guestConn
  BY <1>1, <1>2 DEF Slots, HostSlot, TypeOK
<1>3. CASE GuestSlot(t, p) /\ guestConn' = [guestConn EXCEPT ![t] = k] /\ UNCHANGED hostConn
  BY <1>1, <1>3 DEF Slots, GuestSlot, TypeOK
<1> QED BY <1>1, <1>2, <1>3 DEF ConnectPeer

(* What a step that attaches nothing leaves alone.                          *)
LEMMA Attachments ==
  ASSUME [Next]_vars,
         ~(\E t \in Tokens, p \in Peers, k \in Conns : ConnectPeer(t, p, k))
  PROVE  UNCHANGED <<hostConn, guestConn>> /\ \A t \in Tokens : Slots(t)' = Slots(t)
<1>1. UNCHANGED <<hostConn, guestConn>>
  <2> USE DEF approval, sockets, bridge, frames
  <2>1. CASE UNCHANGED vars
    BY <2>1 DEF vars
  <2>2. ASSUME NEW t \in Tokens,
               \/ \E h, g \in Peers : CreateSession(t, h, g)
               \/ Expire(t) \/ Sweep(t)
               \/ \E p \in Peers, k \in Conns : ConnectRefused(t, p, k)
               \/ HostSends(t) \/ SessionTimeout(t)
               \/ \E k \in Slots(t) : Leave(k)
        PROVE  UNCHANGED <<hostConn, guestConn>>
    BY <2>2 DEF CreateSession, Expire, Sweep, ConnectRefused, HostSends, SessionTimeout, Leave
  <2>3. ASSUME NEW t \in Tokens, ReaderStep(t) \/ MainStep(t)
        PROVE  UNCHANGED <<hostConn, guestConn>>
    BY <2>3 DEF ReaderStep, MainStep, ReadWithin, ReadOverLimit, ReadError, WriteFrame,
                WriteError, ReaderReturns, Moves, Report, Select, CloseBoth, Uncount
  <2> QED BY <2>1, <2>2, <2>3 DEF Next, Slots
<1> QED BY <1>1 DEF Slots

LEMMA StepShape == RelayInv /\ [Next]_vars => SessionShape'
<1> SUFFICES ASSUME RelayInv, [Next]_vars PROVE SessionShape'
  OBVIOUS
<1>t. TypeOK /\ SessionShape /\ Phases /\ TypeOK'
  BY StepTyped DEF RelayInv
<1>1. ASSUME NEW t \in Tokens, NEW p \in Peers, NEW k \in Conns, ConnectPeer(t, p, k)
      PROVE  SessionShape'
  <2>1. conn[k] = "new" /\ t \in approved /\ issued' = issued
    BY <1>1 DEF ConnectPeer, Valid
  <2>2. \A u \in Tokens : k \notin Slots(u)
    BY <1>t, <2>1, FreshSocket
  <2>3. \A u, w \in Tokens : u # w => Slots(u)' \cap Slots(w)' = {}
    BY <1>t, <1>1, <2>2, SlotsAfterConnect DEF SessionShape
  <2>4. ASSUME NEW u \in Tokens \ {t}, main'[u] # "off"
        PROVE  /\ u \in issued' \ approved'
               /\ hostConn'[u] # NoConn /\ guestConn'[u] # NoConn /\ hostConn'[u] # guestConn'[u]
    <3>1. main'[u] = main[u] /\ approved' \subseteq approved
      BY <1>t, <1>1 DEF ConnectPeer, Activate, TypeOK
    <3> QED BY <1>t, <1>1, <2>1, <2>4, <3>1, SlotsAfterConnect DEF SessionShape
  <2>5. ASSUME main'[t] # "off"
        PROVE  /\ t \in issued' \ approved'
               /\ hostConn'[t] # NoConn /\ guestConn'[t] # NoConn /\ hostConn'[t] # guestConn'[t]
    <3>1. main[t] = "off"
      BY <1>t, <2>1 DEF SessionShape
    <3>2. /\ hostConn'[t] # NoConn /\ guestConn'[t] # NoConn
          /\ approved' = approved \ {t}
      BY <1>1, <2>5, <3>1 DEF ConnectPeer, Activate
    <3>3. hostConn'[t] # guestConn'[t]
      <4>1. \/ hostConn'[t] = k /\ guestConn'[t] = guestConn[t]
            \/ guestConn'[t] = k /\ hostConn'[t] = hostConn[t]
        BY <1>t, <1>1 DEF ConnectPeer, TypeOK
      <4> QED BY <2>2, <3>2, <4>1 DEF Slots
    <3> QED BY <1>t, <2>1, <3>2, <3>3 DEF TypeOK
  <2> QED BY <2>3, <2>4, <2>5 DEF SessionShape
<1>2. CASE ~(\E t \in Tokens, p \in Peers, k \in Conns : ConnectPeer(t, p, k))
  <2>1. UNCHANGED <<hostConn, guestConn>> /\ \A t \in Tokens : Slots(t)' = Slots(t)
    BY <1>2, Attachments
  <2>2. ASSUME NEW t \in Tokens, main'[t] # "off" PROVE main[t] # "off"
    <3> USE <1>t DEF approval, sockets, bridge, frames
    <3>1. CASE UNCHANGED main
      BY <2>2, <3>1
    <3>2. ASSUME NEW u \in Tokens, MainStep(u) PROVE main[t] # "off"
      BY <2>2, <3>2 DEF MainStep, Select, CloseBoth, Uncount, TypeOK
    <3>3. ASSUME NEW u \in Tokens, ReaderStep(u) PROVE UNCHANGED main
      BY <3>3 DEF ReaderStep, ReadWithin, ReadOverLimit, ReadError, WriteFrame,
                  WriteError, ReaderReturns, Moves, Report
    <3>4. ASSUME NEW u \in Tokens,
                 \/ \E h, g \in Peers : CreateSession(u, h, g)
                 \/ Expire(u) \/ Sweep(u)
                 \/ \E p \in Peers, k \in Conns : ConnectRefused(u, p, k)
                 \/ HostSends(u) \/ SessionTimeout(u)
                 \/ \E k \in Slots(u) : Leave(k)
          PROVE  UNCHANGED main
      BY <3>4 DEF CreateSession, Expire, Sweep, ConnectRefused, HostSends, SessionTimeout, Leave
    <3>5. CASE UNCHANGED vars
      BY <3>5, <3>1 DEF vars
    <3> QED BY <1>2, <3>1, <3>2, <3>3, <3>4, <3>5 DEF Next, Slots
  <2>3. ASSUME NEW t \in issued \ approved PROVE t \in issued' \ approved'
    <3> USE <1>t DEF approval, sockets, bridge, frames
    <3>1. CASE UNCHANGED <<issued, approved>>
      BY <2>3, <3>1
    <3>2. ASSUME NEW u \in Tokens,
                 \/ \E h, g \in Peers : CreateSession(u, h, g)
                 \/ Expire(u) \/ Sweep(u)
                 \/ \E p \in Peers, k \in Conns : ConnectRefused(u, p, k)
          PROVE  t \in issued' \ approved'
      BY <2>3, <3>2 DEF CreateSession, Expire, Sweep, ConnectRefused, TypeOK
    <3>3. ASSUME NEW u \in Tokens,
                 \/ HostSends(u) \/ SessionTimeout(u) \/ \E k \in Slots(u) : Leave(k)
                 \/ ReaderStep(u) \/ MainStep(u)
          PROVE  UNCHANGED <<issued, approved>>
      BY <3>3 DEF HostSends, SessionTimeout, Leave, ReaderStep, ReadWithin, ReadOverLimit,
                  ReadError, WriteFrame, WriteError, ReaderReturns, Moves, Report,
                  MainStep, Select, CloseBoth, Uncount
    <3>4. CASE UNCHANGED vars
      BY <3>1, <3>4 DEF vars
    <3> QED BY <1>2, <3>1, <3>2, <3>3, <3>4 DEF Next, Slots
  <2> QED BY <1>t, <2>1, <2>2, <2>3 DEF SessionShape
<1> QED BY <1>1, <1>2
-----------------------------------------------------------------------------
(* A step of one session does not disturb the phase of another.             *)
LEMMA PhaseKept ==
  ASSUME NEW u \in Tokens, Phase(u),
         active'[u] = active[u], main'[u] = main[u], reader'[u] = reader[u],
         errs'[u] = errs[u], late'[u] = late[u], Slots(u)' = Slots(u),
         \A k \in Slots(u) : conn'[k] = conn[k]
  PROVE  Phase(u)'
BY DEF Phase

LEMMA StepPhases == RelayInv /\ [Next]_vars => Phases'
<1> SUFFICES ASSUME RelayInv, [Next]_vars PROVE Phases'
  OBVIOUS
<1>t. TypeOK /\ SessionShape /\ Phases
  BY DEF RelayInv
<1> USE <1>t DEF approval, sockets, bridge, frames
<1>0. CASE UNCHANGED vars
  BY <1>0, PhaseKept DEF vars, Phases, Slots
<1>1. ASSUME NEW t \in Tokens,
             \/ \E h, g \in Peers : CreateSession(t, h, g)
             \/ Expire(t) \/ Sweep(t) \/ HostSends(t) \/ \E k \in Slots(t) : Leave(k)
      PROVE  Phases'
  <2>1. UNCHANGED <<active, main, reader, errs, late, hostConn, guestConn, conn>>
    BY <1>1 DEF CreateSession, Expire, Sweep, HostSends, Leave
  <2> QED BY <2>1, PhaseKept DEF Phases, Slots
<1>2. ASSUME NEW t \in Tokens, NEW p \in Peers, NEW k \in Conns, ConnectPeer(t, p, k)
      PROVE  Phases'
  <2>1. conn[k] = "new" /\ conn' = [conn EXCEPT ![k] = "open"] /\ Activate(t)
        /\ UNCHANGED <<late, errs>> /\ t \in approved
    BY <1>2 DEF ConnectPeer, Valid
  <2>2. \A u \in Tokens : k \notin Slots(u)
    BY <2>1, FreshSocket
  <2>3. ASSUME NEW u \in Tokens \ {t} PROVE Phase(u)'
    <3>1. active'[u] = active[u] /\ main'[u] = main[u] /\ reader'[u] = reader[u]
      BY <2>1 DEF Activate, TypeOK
    <3>2. \A j \in Slots(u) : conn'[j] = conn[j]
      BY <2>1, <2>2 DEF TypeOK, Slots
    <3>3. errs'[u] = errs[u] /\ late'[u] = late[u] /\ Slots(u)' = Slots(u)
      BY <1>2, <2>1, SlotsAfterConnect
    <3> QED BY <3>1, <3>2, <3>3, PhaseKept DEF Phases
  <2>4. Phase(t)'
    <3>1. main[t] = "off" /\ reader[t] = "off" /\ ~active[t] /\ errs[t] = 0 /\ ~late[t]
      BY <2>1 DEF SessionShape, Phases, Phase
    <3>2. \A j \in Slots(t)' : j \in Conns /\ conn'[j] = "open"
      <4>1. \A j \in Slots(t) : j \in Conns /\ j # k /\ conn[j] = "open"
        BY <2>2, <3>1 DEF Slots, TypeOK, Phases, Phase
      <4> QED BY <1>2, <2>1, <4>1, SlotsAfterConnect DEF TypeOK
    <3>3. errs'[t] = 0 /\ ~late'[t]
      BY <2>1, <3>1
    <3>4. \/ ~active'[t] /\ main'[t] = "off" /\ reader'[t] = "off"
          \/ active'[t] /\ main'[t] = "select" /\ reader'[t] = "read"
      BY <2>1, <3>1 DEF Activate, TypeOK
    <3> QED BY <3>2, <3>3, <3>4 DEF Phase
  <2> QED BY <2>3, <2>4 DEF Phases
<1>3. ASSUME NEW t \in Tokens, NEW p \in Peers, NEW k \in Conns, ConnectRefused(t, p, k)
      PROVE  Phases'
  <2>1. conn[k] = "new" /\ conn' = [conn EXCEPT ![k] = "closed"]
        /\ UNCHANGED <<active, main, reader, errs, late, hostConn, guestConn>>
    BY <1>3 DEF ConnectRefused
  <2>2. \A u \in Tokens : Slots(u)' = Slots(u) /\ \A j \in Slots(u) : conn'[j] = conn[j]
    BY <2>1, FreshSocket DEF Slots, TypeOK
  <2> QED BY <2>1, <2>2, PhaseKept DEF Phases
<1>4. ASSUME NEW t \in Tokens, ReaderStep(t) \/ SessionTimeout(t) \/ Select(t) \/ Uncount(t)
      PROVE  Phases'
  <2>1. UNCHANGED <<conn, active, hostConn, guestConn>>
    BY <1>4 DEF ReaderStep, ReadWithin, ReadOverLimit, ReadError, WriteFrame, WriteError,
                ReaderReturns, Moves, Report, SessionTimeout, Select, Uncount
  <2>2. ASSUME NEW u \in Tokens \ {t} PROVE Phase(u)'
    <3>1. main'[u] = main[u] /\ reader'[u] = reader[u] /\ errs'[u] = errs[u]
          /\ late'[u] = late[u]
      <4>1. CASE SessionTimeout(t)
        BY <4>1 DEF SessionTimeout, TypeOK
      <4>2. CASE Select(t) \/ Uncount(t)
        BY <4>2 DEF Select, Uncount, TypeOK
      <4>3. CASE ReaderStep(t)
        BY <4>3 DEF ReaderStep, ReadWithin, ReadOverLimit, ReadError, WriteFrame, WriteError,
                    ReaderReturns, Moves, Report, TypeOK
      <4> QED BY <1>4, <4>1, <4>2, <4>3
    <3> QED BY <2>1, <3>1, PhaseKept DEF Phases, Slots
  <2>3. Phase(t)'
    <3>p. Phase(t) /\ Slots(t)' = Slots(t)
      BY <2>1 DEF Phases, Slots
    <3>1. CASE SessionTimeout(t)
      <4>1. main[t] = "select" /\ late'[t] /\ UNCHANGED <<main, reader, errs>>
        BY <3>1 DEF SessionTimeout, TypeOK
      <4> QED BY <2>1, <3>p, <4>1 DEF Phase
    <3>2. CASE Select(t)
      <4>1. /\ main[t] = "select" /\ main'[t] = "closing" /\ UNCHANGED <<reader, late>>
            /\ errs[t] > 0 \/ late[t]
            /\ errs'[t] = errs[t] \/ errs'[t] = errs[t] - 1
            /\ errs[t] \in Int
        BY <3>2 DEF Select, TypeOK
      <4>2. late[t] \/ reader[t] \in {"return", "done"}
        BY <3>p, <4>1 DEF Phase
      <4>3. errs'[t] > 0 => errs[t] > 0
        BY <4>1
      <4> QED BY <2>1, <3>p, <4>1, <4>2, <4>3 DEF Phase
    <3>3. CASE Uncount(t)
      <4>1. main[t] = "counting" /\ main'[t] = "done" /\ UNCHANGED <<reader, late, errs>>
        BY <3>3 DEF Uncount, TypeOK
      <4> QED BY <2>1, <3>p, <4>1 DEF Phase
    <3>4. CASE ReadWithin(t) \/ WriteFrame(t)
      <4>1. /\ reader[t] \in {"read", "write"} /\ reader'[t] \in {"read", "write"}
            /\ UNCHANGED <<main, late, errs>>
        BY <3>4 DEF ReadWithin, WriteFrame, Moves, TypeOK
      <4> QED BY <2>1, <3>p, <4>1 DEF Phase
    <3>5. CASE ReadOverLimit(t) \/ ReadError(t) \/ WriteError(t) \/ ReaderReturns(t)
      <4>1. /\ reader[t] \in {"read", "write", "return"} /\ reader'[t] \in {"return", "done"}
            /\ UNCHANGED <<main, late>>
        BY <3>5 DEF ReadOverLimit, ReadError, WriteError, ReaderReturns, Report, TypeOK
      <4> QED BY <2>1, <3>p, <4>1 DEF Phase
    <3> QED BY <1>4, <3>1, <3>2, <3>3, <3>4, <3>5 DEF ReaderStep
  <2> QED BY <2>2, <2>3 DEF Phases
<1>5. ASSUME NEW t \in Tokens, CloseBoth(t) PROVE Phases'
  <2>1. /\ main[t] = "closing" /\ main' = [main EXCEPT ![t] = "counting"]
        /\ conn' = [conn EXCEPT ![hostConn[t]] = "closed", ![guestConn[t]] = "closed"]
        /\ UNCHANGED <<active, reader, errs, late, hostConn, guestConn>>
    BY <1>5 DEF CloseBoth
  <2>2. \A u \in Tokens : Slots(u)' = Slots(u)
    BY <2>1 DEF Slots
  <2>3. ASSUME NEW k \in Conns
        PROVE  conn'[k] = IF k \in {hostConn[t], guestConn[t]} THEN "closed" ELSE conn[k]
    BY <2>1 DEF TypeOK
  <2>4. ASSUME NEW u \in Tokens \ {t} PROVE Phase(u)'
    <3>1. hostConn[t] \in Slots(t) /\ guestConn[t] \in Slots(t)
      BY <2>1 DEF SessionShape, Slots
    <3>2. \A k \in Slots(u) : k \in Conns /\ k \notin {hostConn[t], guestConn[t]}
      <4>1. Slots(t) \cap Slots(u) = {}
        BY DEF SessionShape
      <4>2. \A k \in Slots(u) : k \in Conns
        BY DEF Slots, TypeOK
      <4> QED BY <3>1, <4>1, <4>2
    <3>3. \A k \in Slots(u) : conn'[k] = conn[k]
      BY <2>3, <3>2
    <3>4. main'[u] = main[u]
      BY <2>1 DEF TypeOK
    <3> QED BY <2>1, <2>2, <3>3, <3>4, PhaseKept DEF Phases
  <2>5. Phase(t)'
    <3>1. \A k \in Slots(t) : conn'[k] # "new"
      BY <2>3 DEF Slots, TypeOK, Phases, Phase
    <3>2. main'[t] = "counting"
      BY <2>1 DEF TypeOK
    <3> QED BY <2>1, <2>2, <3>1, <3>2 DEF Phases, Phase
  <2> QED BY <2>4, <2>5 DEF Phases
<1> QED BY <1>0, <1>1, <1>2, <1>3, <1>4, <1>5 DEF Next, MainStep, Slots
-----------------------------------------------------------------------------
(* Nor does it disturb the other's frames: a remote end that leaves does so *)
(* for good, and only sockets of the session matter to it.                  *)
LEMMA FlowKept ==
  ASSUME NEW u \in Tokens, FlowOf(u),
         read'[u] = read[u], sent'[u] = sent[u], delivered'[u] = delivered[u],
         main'[u] = main[u], reader'[u] = reader[u], late'[u] = late[u],
         hostConn'[u] = hostConn[u], guestConn'[u] = guestConn[u],
         \A k \in Conns : gone[k] => gone'[k],
         reader[u] # "off" => hostConn[u] \in Conns /\ guestConn[u] \in Conns
  PROVE  FlowOf(u)'
BY DEF FlowOf

(* A reader that runs has both its sockets. *)
LEMMA BridgeSockets ==
  ASSUME TypeOK, SessionShape, Phases, NEW u \in Tokens, reader[u] # "off"
  PROVE  /\ hostConn[u] \in Conns /\ guestConn[u] \in Conns /\ main[u] # "off"
         /\ hostConn[u] \in Slots(u) /\ guestConn[u] \in Slots(u)
<1>1. main[u] # "off"
  BY DEF Phases, Phase
<1> QED BY <1>1 DEF SessionShape, TypeOK, Slots

LEMMA StepFlow == RelayInv /\ [Next]_vars => Flow'
<1> SUFFICES ASSUME RelayInv, [Next]_vars PROVE Flow'
  OBVIOUS
<1>t. TypeOK /\ SessionShape /\ Phases /\ Flow
  BY DEF RelayInv
<1> USE <1>t DEF approval, sockets, bridge, frames
<1>b. \A u \in Tokens : reader[u] # "off" => hostConn[u] \in Conns /\ guestConn[u] \in Conns
  BY BridgeSockets
<1>0. CASE UNCHANGED vars
  BY <1>0, <1>b, FlowKept DEF vars, Flow
<1>1. ASSUME NEW t \in Tokens,
             \/ \E h, g \in Peers : CreateSession(t, h, g)
             \/ Expire(t) \/ Sweep(t) \/ CloseBoth(t)
             \/ \E p \in Peers, k \in Conns : ConnectRefused(t, p, k)
             \/ Select(t) \/ Uncount(t)
      PROVE  Flow'
  <2>1. UNCHANGED <<hostConn, guestConn, gone, late, reader, frames>>
    BY <1>1 DEF CreateSession, Expire, Sweep, CloseBoth, ConnectRefused, Select, Uncount
  <2>2. ASSUME NEW u \in Tokens PROVE main'[u] = "off" => main[u] = "off"
    <3>1. CASE CloseBoth(t) \/ Select(t) \/ Uncount(t)
      BY <3>1 DEF CloseBoth, Select, Uncount, TypeOK
    <3>2. CASE UNCHANGED main
      BY <3>2
    <3> QED BY <1>1, <3>1, <3>2 DEF CreateSession, Expire, Sweep, ConnectRefused
  <2> QED BY <2>1, <2>2 DEF Flow, FlowOf
<1>2. ASSUME NEW t \in Tokens, NEW p \in Peers, NEW k \in Conns, ConnectPeer(t, p, k)
      PROVE  Flow'
  <2>1. Activate(t) /\ UNCHANGED <<gone, late, frames>> /\ t \in approved
    BY <1>2 DEF ConnectPeer, Valid
  <2>2. ASSUME NEW u \in Tokens \ {t} PROVE FlowOf(u)'
    <3>1. main'[u] = main[u] /\ reader'[u] = reader[u]
      BY <2>1 DEF Activate, TypeOK
    <3>2. hostConn'[u] = hostConn[u] /\ guestConn'[u] = guestConn[u]
      BY <1>2, SlotsAfterConnect
    <3> QED BY <1>b, <2>1, <3>1, <3>2, FlowKept DEF Flow
  <2>3. FlowOf(t)'
    <3>1. main[t] = "off" /\ reader[t] = "off" /\ read[t] = 0 /\ delivered[t] = 0
      BY <2>1 DEF SessionShape, Phases, Phase, Flow, FlowOf, TypeOK
    <3>2. reader'[t] \in {"off", "read"}
      BY <2>1, <3>1 DEF Activate, TypeOK
    <3>3. sent[t] \in Nat
      BY DEF TypeOK
    <3> QED BY <2>1, <3>1, <3>2, <3>3, BoundAssumption DEF FlowOf
  <2> QED BY <2>2, <2>3 DEF Flow
<1>3. ASSUME NEW t \in Tokens, NEW k \in Slots(t), Leave(k) PROVE Flow'
  <2>1. gone' = [gone EXCEPT ![k] = TRUE]
        /\ UNCHANGED <<hostConn, guestConn, main, late, reader, frames>>
    BY <1>3 DEF Leave
  <2>2. \A j \in Conns : gone[j] => gone'[j]
    BY <2>1 DEF TypeOK
  <2> QED BY <1>b, <2>1, <2>2, FlowKept DEF Flow
<1>4. ASSUME NEW t \in Tokens, SessionTimeout(t) PROVE Flow'
  <2>1. late' = [late EXCEPT ![t] = TRUE]
        /\ UNCHANGED <<hostConn, guestConn, gone, main, reader, frames>>
    BY <1>4 DEF SessionTimeout
  <2>2. \A u \in Tokens : late[u] => late'[u]
    BY <2>1 DEF TypeOK
  <2> QED BY <2>1, <2>2 DEF Flow, FlowOf
<1>5. ASSUME NEW t \in Tokens, HostSends(t) PROVE Flow'
  <2>1. /\ ~gone[hostConn[t]] /\ sent' = [sent EXCEPT ![t] = @ + 1]
        /\ UNCHANGED <<hostConn, guestConn, gone, main, late, reader, read, delivered>>
    BY <1>5 DEF HostSends
  <2>2. ASSUME NEW u \in Tokens PROVE sent'[u] = IF u = t THEN sent[u] + 1 ELSE sent[u]
    BY <2>1 DEF TypeOK
  <2>3. \A u \in Tokens : sent[u] \in Nat /\ read[u] \in Nat
    BY DEF TypeOK
  <2> QED BY <2>1, <2>2, <2>3 DEF Flow, FlowOf
<1>6. ASSUME NEW t \in Tokens, ReaderStep(t) PROVE Flow'
  <2>1. UNCHANGED <<hostConn, guestConn, gone, conn, main, late, sent>>
    BY <1>6 DEF ReaderStep, ReadWithin, ReadOverLimit, ReadError, WriteFrame, WriteError,
                ReaderReturns, Moves, Report
  <2>2. ASSUME NEW u \in Tokens \ {t} PROVE FlowOf(u)'
    <3>1. reader'[u] = reader[u]
      BY <1>6 DEF ReaderStep, ReadWithin, ReadOverLimit, ReadError, WriteFrame, WriteError,
                  ReaderReturns, Moves, Report, TypeOK
    <3>2. read'[u] = read[u] /\ delivered'[u] = delivered[u]
      BY <1>6 DEF ReaderStep, ReadWithin, ReadOverLimit, ReadError, WriteFrame, WriteError,
                  ReaderReturns, TypeOK
    <3> QED BY <1>b, <2>1, <3>1, <3>2, FlowKept DEF Flow
  <2>3. FlowOf(t)'
    <3>f. FlowOf(t) /\ read[t] \in Nat /\ sent[t] \in Nat /\ delivered[t] \in Nat
      BY DEF Flow, TypeOK
    <3>g. reader[t] # "off" /\ guestConn[t] \in Slots(t) /\ hostConn[t] \in Slots(t)
          /\ main[t] # "off"
      BY <1>6, BridgeSockets DEF ReaderStep, ReadWithin, ReadOverLimit, ReadError, WriteFrame,
                  WriteError, ReaderReturns
    <3>c. reader[t] \in {"read", "write"} /\ ~late[t] =>
            conn[guestConn[t]] # "closed" /\ conn[hostConn[t]] # "closed"
      BY <3>g DEF Phases, Phase
    <3>1. CASE ReadWithin(t)
      <4>1. /\ reader[t] = "read" /\ reader'[t] = "write" /\ read[t] < sent[t]
            /\ read[t] < ByteLimit /\ read'[t] = read[t] + 1 /\ delivered' = delivered
        BY <3>1 DEF ReadWithin, Moves, TypeOK
      <4> QED BY <2>1, <3>f, <3>g, <4>1, BoundAssumption DEF FlowOf
    <3>2. CASE ReadOverLimit(t)
      <4>1. /\ reader[t] = "read" /\ reader'[t] = "return" /\ read[t] < sent[t]
            /\ read[t] >= ByteLimit /\ read'[t] = read[t] + 1 /\ delivered' = delivered
        BY <3>2 DEF ReadOverLimit, Report, TypeOK
      <4> QED BY <2>1, <3>f, <3>g, <4>1, BoundAssumption DEF FlowOf
    <3>3. CASE ReadError(t)
      <4>1. /\ reader[t] = "read" /\ reader'[t] = "return" /\ UNCHANGED frames
            /\ conn[hostConn[t]] = "closed" \/ (gone[hostConn[t]] /\ read[t] = sent[t])
        BY <3>3 DEF ReadError, Report, TypeOK
      <4> QED BY <2>1, <3>f, <3>g, <3>c, <4>1 DEF FlowOf
    <3>4. CASE WriteFrame(t)
      <4>1. /\ reader[t] = "write" /\ reader'[t] = "read" /\ read' = read
            /\ delivered'[t] = IF gone[guestConn[t]] THEN delivered[t] ELSE delivered[t] + 1
        BY <3>4 DEF WriteFrame, Moves, TypeOK
      <4> QED BY <2>1, <3>f, <3>g, <4>1, BoundAssumption DEF FlowOf
    <3>5. CASE WriteError(t)
      <4>1. /\ reader[t] = "write" /\ reader'[t] = "return" /\ UNCHANGED frames
            /\ conn[guestConn[t]] = "closed" \/ gone[guestConn[t]]
        BY <3>5 DEF WriteError, Report, TypeOK
      <4> QED BY <2>1, <3>f, <3>g, <3>c, <4>1 DEF FlowOf
    <3>6. CASE ReaderReturns(t)
      <4>1. reader[t] = "return" /\ reader'[t] = "done" /\ UNCHANGED frames
        BY <3>6 DEF ReaderReturns, Report, TypeOK
      <4> QED BY <2>1, <3>f, <3>g, <4>1 DEF FlowOf
    <3> QED BY <1>6, <3>1, <3>2, <3>3, <3>4, <3>5, <3>6 DEF ReaderStep
  <2> QED BY <2>2, <2>3 DEF Flow
<1> QED BY <1>0, <1>1, <1>2, <1>3, <1>4, <1>5, <1>6 DEF Next, MainStep, Slots
-----------------------------------------------------------------------------
LEMMA RelayInvariant == Spec => []RelayInv
<1>1. RelayInv /\ [Next]_vars => RelayInv'
  BY StepTyped, StepShape, StepPhases, StepFlow DEF RelayInv
<1> QED BY <1>1, InitInv, PTL DEF Spec

(* Every variable of the relay manager keeps its type; in particular        *)
(* errChan never holds more results than its capacity.                      *)
THEOREM Typed == Spec => []TypeOK
BY RelayInvariant, PTL DEF RelayInv

(* A bridge serves exactly two sockets, which no other session has, and its *)
(* token has been spent (ConnectPeer, relay.go:100-143).                    *)
THEOREM Shaped == Spec => []SessionShape
BY RelayInvariant, PTL DEF RelayInv

(* No frame before activation, none over the limit, and a bridge that ends  *)
(* by itself has delivered what the host sent (runBridge).                  *)
THEOREM Carried == Spec => []FramesCarried
<1>1. RelayInv => FramesCarried
  <2> SUFFICES ASSUME RelayInv, NEW t \in Tokens
               PROVE  /\ main[t] = "off" => delivered[t] = 0
                      /\ delivered[t] <= ByteLimit /\ delivered[t] <= sent[t]
                      /\ main[t] = "done" /\ ~late[t] /\ ~gone[guestConn[t]] =>
                           delivered[t] = sent[t] \/ delivered[t] = ByteLimit
    BY DEF FramesCarried
  <2>1. Phase(t) /\ FlowOf(t) /\ read[t] \in Nat /\ sent[t] \in Nat /\ delivered[t] \in Nat
    BY DEF RelayInv, Phases, Flow, TypeOK
  <2>2. main[t] = "done" /\ ~late[t] => reader[t] \in {"return", "done"}
    BY <2>1 DEF Phase
  <2> QED BY <2>1, <2>2, BoundAssumption DEF FlowOf
<1> QED BY <1>1, RelayInvariant, PTL
-----------------------------------------------------------------------------
(* activeCount moves with the set of bridges: up when ConnectPeer starts    *)
(* one, down when the bridge's deferred function counts itself out.         *)
LEMMA BridgingFinite == IsFiniteSet(Bridging)
BY SetAssumption, FS_Subset DEF Bridging

LEMMA CountMoves ==
  ASSUME RelayInv, [Next]_vars
  PROVE  \/ Bridging' = Bridging /\ activeCount' = activeCount
         \/ \E t \in Tokens \ Bridging :
              Bridging' = Bridging \cup {t} /\ activeCount' = activeCount + 1
         \/ \E t \in Bridging :
              Bridging' = Bridging \ {t} /\ activeCount' = activeCount - 1
<1>t. TypeOK /\ SessionShape
  BY DEF RelayInv
<1> USE DEF approval, sockets, bridge, frames
<1>k. ASSUME UNCHANGED <<main, activeCount>> PROVE Bridging' = Bridging /\ activeCount' = activeCount
  BY <1>k DEF Bridging
<1>1. ASSUME NEW t \in Tokens, NEW p \in Peers, NEW k \in Conns, ConnectPeer(t, p, k)
      PROVE  \/ Bridging' = Bridging /\ activeCount' = activeCount
             \/ /\ t \in Tokens \ Bridging
                /\ Bridging' = Bridging \cup {t} /\ activeCount' = activeCount + 1
  <2>1. main[t] = "off" /\ Activate(t)
    BY <1>t, <1>1 DEF ConnectPeer, Valid, SessionShape
  <2>2. CASE main' = [main EXCEPT ![t] = "select"] /\ activeCount' = activeCount + 1
    <3>1. \A u \in Tokens : main'[u] = IF u = t THEN "select" ELSE main[u]
      BY <1>t, <2>2 DEF TypeOK
    <3> QED BY <2>1, <2>2, <3>1 DEF Bridging
  <2> QED BY <1>k, <2>1, <2>2 DEF Activate
<1>2. ASSUME NEW t \in Tokens, Select(t) \/ CloseBoth(t)
      PROVE  Bridging' = Bridging /\ activeCount' = activeCount
  <2>1. /\ main[t] \in {"select", "closing"}
        /\ \A u \in Tokens : u # t => main'[u] = main[u]
        /\ main'[t] \in {"closing", "counting"} /\ activeCount' = activeCount
    BY <1>t, <1>2 DEF Select, CloseBoth, TypeOK
  <2>2. \A u \in Tokens : u \in Bridging' <=> u \in Bridging
    BY <2>1 DEF Bridging
  <2> QED BY <2>1, <2>2 DEF Bridging
<1>3. ASSUME NEW t \in Tokens, Uncount(t)
      PROVE  /\ t \in Bridging
             /\ Bridging' = Bridging \ {t} /\ activeCount' = activeCount - 1
  <2>1. /\ main[t] = "counting" /\ activeCount' = activeCount - 1
        /\ \A u \in Tokens : main'[u] = IF u = t THEN "done" ELSE main[u]
    BY <1>t, <1>3 DEF Uncount, TypeOK
  <2> QED BY <2>1 DEF Bridging
<1>4. ASSUME NEW t \in Tokens,
             \/ \E h, g \in Peers : CreateSession(t, h, g)
             \/ Expire(t) \/ Sweep(t)
             \/ \E p \in Peers, k \in Conns : ConnectRefused(t, p, k)
             \/ HostSends(t) \/ SessionTimeout(t)
             \/ \E k \in Slots(t) : Leave(k)
      PROVE  UNCHANGED <<main, activeCount>>
  BY <1>4 DEF CreateSession, Expire, Sweep, ConnectRefused, HostSends, SessionTimeout, Leave
<1>5. ASSUME NEW t \in Tokens, ReaderStep(t) PROVE UNCHANGED <<main, activeCount>>
  BY <1>5 DEF ReaderStep, ReadWithin, ReadOverLimit, ReadError, WriteFrame, WriteError,
              ReaderReturns, Moves, Report
<1>6. CASE UNCHANGED vars
  BY <1>6, <1>k DEF vars
<1>7. CASE Next
  <2>1. PICK t \in Tokens :
          \/ \E p \in Peers, k \in Conns : ConnectPeer(t, p, k)
          \/ Select(t) \/ CloseBoth(t) \/ Uncount(t)
          \/ UNCHANGED <<main, activeCount>>
    BY <1>4, <1>5, <1>7 DEF Next, MainStep, Slots
  <2> QED BY <1>1, <1>2, <1>3, <1>k, <2>1
<1> QED BY <1>6, <1>7

(* The session count is exact at every moment: no path through the bridge's *)
(* goroutines leaks a place or gives one back twice.                        *)
THEOREM CountExact == Spec => []ActiveCountExact
<1>1. Init => ActiveCountExact
  <2> SUFFICES ASSUME Init PROVE ActiveCountExact
    OBVIOUS
  <2>1. Bridging = {}
    BY DEF Init, Bridging
  <2> QED BY <2>1, FS_EmptySet DEF ActiveCountExact, Init
<1>2. RelayInv /\ ActiveCountExact /\ [Next]_vars => ActiveCountExact'
  <2> SUFFICES ASSUME RelayInv, ActiveCountExact, [Next]_vars PROVE ActiveCountExact'
    OBVIOUS
  <2>1. CASE Bridging' = Bridging /\ activeCount' = activeCount
    BY <2>1 DEF ActiveCountExact
  <2>2. ASSUME NEW t \in Tokens \ Bridging,
               Bridging' = Bridging \cup {t}, activeCount' = activeCount + 1
        PROVE  ActiveCountExact'
    <3>1. Cardinality(Bridging \cup {t}) = Cardinality(Bridging) + 1
      BY <2>2, BridgingFinite, FS_AddElement
    <3> QED BY <2>2, <3>1 DEF ActiveCountExact
  <2>3. ASSUME NEW t \in Bridging,
               Bridging' = Bridging \ {t}, activeCount' = activeCount - 1
        PROVE  ActiveCountExact'
    <3>1. Cardinality(Bridging \ {t}) = Cardinality(Bridging) - 1
      BY <2>3, BridgingFinite, FS_RemoveElement
    <3> QED BY <2>3, <3>1 DEF ActiveCountExact
  <2> QED BY <2>1, <2>2, <2>3, CountMoves
<1> QED BY <1>1, <1>2, RelayInvariant, PTL DEF Spec
=============================================================================
