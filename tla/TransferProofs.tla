---------------------------- MODULE TransferProofs ----------------------------
(***************************************************************************)
(* Theorems about Transfer, for any number of sends, sizes of files and    *)
(* water marks.                                                            *)
(***************************************************************************)
EXTENDS Transfer, FiniteSetTheorems, SequenceTheorems, TLAPS

Labels    == {"metadata", "check", "chunk", "eof"}
FrameAt(s, n) == IF n = 0 THEN Meta(s) ELSE IF n = size[s] + 1 THEN Eof(s) ELSE Chunk(s, n)
Proper(f) == f.n <= size[f.of] + 1 /\ f = FrameAt(f.of, f.n)

(* How far each send is, in each of its phases.                             *)
PhaseInv ==
  /\ TypeOK
  /\ \A s \in Sends :
       /\ phase[s] \in {"idle", "metadata"} => offset[s] = 0
       /\ phase[s] \in {"reading", "waiting", "check", "chunk"} => offset[s] < size[s]
       /\ phase[s] \in {"eof", "done"} => offset[s] = size[s]
  /\ listener # None => phase[listener] = "waiting"

(* The data channel: its frames follow each other, and the receiver's file, *)
(* unless sends overlap.                                                    *)
Overlapped == {s \in Sends : "overlap" \in trouble[s]}

Spot(i) == IF i = 0 THEN [of |-> receiver.file, n |-> Len(receiver.chunks)]
                    ELSE [of |-> wire[i].of, n |-> wire[i].n]

Follows(x, y) == \/ y.n = 0
                 \/ x.of = y.of /\ y.n = x.n + 1
                 \/ x.of \in Overlapped \cup {None} /\ y.of \in Overlapped

ReceiverInv ==
  /\ receiver.file = None => receiver.chunks = <<>>
  /\ receiver.file \in Sends \ Overlapped =>
       \A i \in 1 .. Len(receiver.chunks) : receiver.chunks[i] = Chunk(receiver.file, i)

WireInv ==
  /\ \A i \in 1 .. Len(wire) : Proper(wire[i]) /\ Follows(Spot(i - 1), wire[i])
  /\ \A t \in Sending : Follows(Spot(Len(wire)), FrameAt(t, offset[t] + 1))

Exclusive == \A s, t \in Sending : s # t => s \in Overlapped

DirectInv == open => ReceiverInv /\ WireInv /\ Exclusive

(* A relay session: the frames under way are in the order of the file, each *)
(* once, and what was taken comes before what is in the session.            *)
Sent(s) == IF phase[s] \in {"check", "chunk", "eof"} THEN offset[s] + 1
           ELSE IF phase[s] \in {"done", "failed"} THEN size[s] + 2 ELSE 0

Taken(s) == relayReceiver[s].chunks

Pending(s) ==
  /\ \A i \in 1 .. Len(relayWire[s]) :
       /\ relayWire[s][i].of = s /\ Proper(relayWire[s][i]) /\ relayWire[s][i].n < Sent(s)
       /\ \A j \in 1 .. Len(relayWire[s]) : i < j => relayWire[s][i].n < relayWire[s][j].n
       /\ \A f \in decrypting[s] : f.n < relayWire[s][i].n
       /\ \A j \in 1 .. Len(Taken(s)) : Taken(s)[j].n < relayWire[s][i].n
  /\ \A f \in decrypting[s] : f.of = s /\ Proper(f) /\ f.n < Sent(s)

Once(s) ==
  \A i \in 1 .. Len(Taken(s)) :
    /\ Taken(s)[i].n \in 1 .. size[s] /\ Taken(s)[i] = Chunk(s, Taken(s)[i].n)
    /\ Taken(s)[i].n < Sent(s)
    /\ \A j \in 1 .. Len(Taken(s)) : i # j => Taken(s)[i].n # Taken(s)[j].n
    /\ \A f \in decrypting[s] : f.n # Taken(s)[i].n

InOrder(s) ==
  \A i \in 1 .. Len(Taken(s)) :
    /\ i <= Taken(s)[i].n
    /\ \A j \in i .. Len(Taken(s)) : j - i <= Taken(s)[j].n - Taken(s)[i].n
    /\ \A f \in decrypting[s] : Taken(s)[i].n < f.n

Opened(s) ==
  /\ relayReceiver[s].file \in {s, None}
  /\ relayReceiver[s].file = s => /\ 0 < Sent(s) /\ \A f \in decrypting[s] : 0 < f.n
                                  /\ \A i \in 1 .. Len(relayWire[s]) : 0 < relayWire[s][i].n

Session(s) == /\ Pending(s) /\ Once(s) /\ Opened(s)
              /\ "reorder" \notin trouble[s] => InOrder(s)

RelayInv == \A s \in Sends : Session(s)

(* Nothing of an undisturbed send is missing.                               *)
Processed(s) == IF relayReceiver[s].file = None THEN 0 ELSE Len(Taken(s)) + 1
InSession(s, f) == f \in decrypting[s] \/ \E i \in 1 .. Len(relayWire[s]) : relayWire[s][i] = f

Relayed(s) ==
  /\ guestOpen[s] /\ (phase[s] \in Labels => hostOpen[s])
  /\ relayReceiver[s].file = None => Taken(s) = <<>>
  /\ \A n \in 0 .. size[s] + 1 :
       n < Sent(s) => n < Processed(s) \/ InSession(s, FrameAt(s, n))

CompleteInv ==
  \A s \in Sends :
    phase[s] \in Labels \cup {"done"} /\ trouble[s] = {} =>
      \/ \E f \in received : f.file = s
      \/ open /\ \E i \in 1 .. Len(wire) : wire[i] = Eof(s)
      \/ Relayed(s)

TransferInv == PhaseInv /\ DirectInv /\ RelayInv /\ CompleteInv /\ Intact
-----------------------------------------------------------------------------
LEMMA SizeNat ==
  ASSUME TypeOK, NEW s \in Sends PROVE size[s] \in Nat /\ size[s] <= MaxChunks
BY WaterAssumption DEF TypeOK

(* The frame at a place of a file.                                          *)
LEMMA FrameTyped ==
  ASSUME TypeOK, NEW s \in Sends, NEW n \in 0 .. size[s] + 1
  PROVE  /\ size[s] \in Nat /\ size[s] <= MaxChunks
         /\ FrameAt(s, n) \in Frames /\ FrameAt(s, n).of = s /\ FrameAt(s, n).n = n
         /\ Proper(FrameAt(s, n))
         /\ FrameAt(s, n).type = "metadata" <=> n = 0
         /\ FrameAt(s, n).type = "eof" <=> n = size[s] + 1
         /\ n \in 1 .. size[s] => FrameAt(s, n) = Chunk(s, n)
<1>1. size[s] \in Nat /\ size[s] <= MaxChunks
  BY SizeNat
<1>2. n \in 0 .. MaxChunks + 1
  BY <1>1, WaterAssumption
<1> QED BY <1>1, <1>2 DEF FrameAt, Proper, Meta, Eof, Chunk, Frames

(* What a step of a send over the channel queues.                           *)
Queues(s, o) ==
  /\ open /\ open' /\ size' = size /\ receiver' = receiver /\ received' = received
  /\ wire' \in Seq(Frames)
  /\ Len(wire') = IF o = size[s] THEN Len(wire) + 2 ELSE Len(wire) + 1
  /\ buffered' = buffered + (Len(wire') - Len(wire))
  /\ \A i \in 1 .. Len(wire) : wire'[i] = wire[i]
  /\ wire'[Len(wire) + 1] = FrameAt(s, o)
  /\ o = size[s] => wire'[Len(wire) + 2] = Eof(s)
  /\ offset' = [offset EXCEPT ![s] = o]
  /\ \E p \in {"reading", "waiting", "done"} :
       /\ phase' = [phase EXCEPT ![s] = p] /\ (p = "done" <=> o = size[s])
       /\ listener' = IF p = "waiting" THEN s ELSE listener
  /\ UNCHANGED relay

LEMMA NextFrame ==
  ASSUME TypeOK, NEW s \in Sends, NEW o \in 0 .. size[s], open, UNCHANGED <<size, open, receiver, relay, received>>,
         ReadNextChunk(s, o, <<FrameAt(s, o)>>, buffered)
  PROVE  Queues(s, o)
<1> DEFINE f == FrameAt(s, o)
           e == Eof(s)
           all == IF o = size[s] THEN Append(<<f>>, e) ELSE <<f>>
<1>1. size[s] \in Nat /\ f \in Frames
  <2>1. size[s] \in Nat /\ o \in 0 .. size[s] + 1
    BY SizeNat
  <2> QED BY <2>1, FrameTyped
<1>2. e \in Frames
  <2>1. size[s] + 1 \in 0 .. size[s] + 1 /\ size[s] + 1 # 0
    BY <1>1
  <2>2. e = FrameAt(s, size[s] + 1)
    BY <2>1 DEF FrameAt
  <2> QED BY <2>1, <2>2, FrameTyped
<1>3. /\ wire' = wire \o all /\ buffered' = buffered + Len(all)
      /\ offset' = [offset EXCEPT ![s] = o]
      /\ phase' = [phase EXCEPT ![s] = IF o = size[s] THEN "done"
                     ELSE IF ~(o = size[s]) /\ buffered + Len(<<f>>) > HighWater THEN "waiting" ELSE "reading"]
      /\ listener' = IF ~(o = size[s]) /\ buffered + Len(<<f>>) > HighWater THEN s ELSE listener
  BY DEF ReadNextChunk
<1>4. all \in Seq(Frames) /\ all[1] = f /\ Len(all) = IF o = size[s] THEN 2 ELSE 1
  <2> HIDE DEF f, e
  <2> QED BY <1>1, <1>2
<1>5. o = size[s] => all[2] = e
  <2> HIDE DEF f, e
  <2> QED BY <1>1, <1>2
<1> HIDE DEF all, f, e
<1>6. wire \in Seq(Frames) /\ Len(wire) \in Nat
  BY DEF TypeOK
<1>7. /\ wire' \in Seq(Frames) /\ Len(wire') = Len(wire) + Len(all)
      /\ \A i \in 1 .. Len(wire) + Len(all) :
           wire'[i] = IF i <= Len(wire) THEN wire[i] ELSE all[i - Len(wire)]
  BY <1>3, <1>4, <1>6, ConcatProperties
<1>8. /\ wire'[Len(wire) + 1] = f /\ (o = size[s] => wire'[Len(wire) + 2] = e)
      /\ \A i \in 1 .. Len(wire) : wire'[i] = wire[i]
  <2> DEFINE k == Len(wire)
             m == Len(all)
  <2>1. k \in Nat /\ m \in Nat /\ 1 <= m /\ (o = size[s] => m = 2)
    BY <1>4, <1>6
  <2>2. \A i \in 1 .. k + m : wire'[i] = IF i <= k THEN wire[i] ELSE all[i - k]
    BY <1>7
  <2> HIDE DEF k, m
  <2>3. \A i \in 1 .. k : wire'[i] = wire[i]
    BY <2>1, <2>2
  <2>4. wire'[k + 1] = all[1]
    <3>1. k + 1 \in 1 .. k + m /\ ~(k + 1 <= k) /\ (k + 1) - k = 1
      BY <2>1
    <3> QED BY <2>2, <3>1
  <2>5. ASSUME o = size[s] PROVE wire'[k + 2] = all[2]
    <3>1. k + 2 \in 1 .. k + m /\ ~(k + 2 <= k) /\ (k + 2) - k = 2
      BY <2>1, <2>5
    <3> QED BY <2>2, <3>1
  <2> QED BY <1>4, <1>5, <2>3, <2>4, <2>5 DEF k
<1>9. \E p \in {"reading", "waiting", "done"} :
       /\ phase' = [phase EXCEPT ![s] = p] /\ (p = "done" <=> o = size[s])
       /\ listener' = IF p = "waiting" THEN s ELSE listener
  <2>1. CASE o = size[s]
    BY <1>3, <2>1
  <2>2. CASE o # size[s]
    BY <1>3, <2>2
  <2> QED BY <2>1, <2>2
<1>10. buffered' = buffered + (Len(wire') - Len(wire))
       /\ Len(wire') = IF o = size[s] THEN Len(wire) + 2 ELSE Len(wire) + 1
  BY <1>3, <1>4, <1>6, <1>7
<1> QED BY <1>3, <1>7, <1>8, <1>9, <1>10 DEF Queues, f, e

(* A step of the sender's on the channel: the metadata or a chunk.          *)
LEMMA SendStarts ==
  ASSUME PhaseInv, NEW s \in Sends, SendDirect(s)
  PROVE  Queues(s, 0) /\ 0 \in 0 .. size[s]
<1>1. 0 \in 0 .. size[s] /\ FrameAt(s, 0) = Meta(s)
  BY WaterAssumption DEF PhaseInv, TypeOK, FrameAt
<1> QED BY <1>1, NextFrame DEF SendDirect, PhaseInv

LEMMA SendGoesOn ==
  ASSUME PhaseInv, NEW s \in Sends, ChunkRead(s), open
  PROVE  Queues(s, offset[s] + 1) /\ offset[s] + 1 \in 1 .. size[s]
<1>1. offset[s] \in Nat /\ size[s] \in Nat /\ offset[s] < size[s]
  BY WaterAssumption DEF PhaseInv, TypeOK, ChunkRead
<1>2. offset[s] + 1 \in 1 .. size[s] /\ FrameAt(s, offset[s] + 1) = Chunk(s, offset[s] + 1)
  BY <1>1 DEF FrameAt
<1> QED BY <1>2, NextFrame DEF ChunkRead, PhaseInv

(* Type correctness and the phases, action by action.                       *)
LEMMA PhaseQueues ==
  ASSUME PhaseInv, NEW s \in Sends, NEW o \in 0 .. size[s], Queues(s, o),
         phase[s] \in {"idle", "reading"},
         trouble' \in [Sends -> SUBSET {"overlap", "reorder", "cut"}]
  PROVE  PhaseInv'
<1>1. PICK p \in {"reading", "waiting", "done"} :
        /\ phase' = [phase EXCEPT ![s] = p] /\ (p = "done" <=> o = size[s])
        /\ listener' = IF p = "waiting" THEN s ELSE listener
  BY DEF Queues
<1>2. size[s] \in Nat /\ Len(wire) \in Nat /\ o \in Nat /\ Len(wire') \in Nat
  BY SizeNat DEF PhaseInv, TypeOK, Queues
<1>3. listener' # None => phase'[listener'] = "waiting"
  BY <1>1 DEF PhaseInv, TypeOK
<1>4. offset' = [offset EXCEPT ![s] = o] /\ size' = size
  BY DEF Queues
<1>5. /\ phase' \in [Sends -> {"idle", "reading", "waiting", "metadata", "check", "chunk", "eof",
                               "done", "failed"}]
      /\ listener' \in Sends \cup {None} /\ offset' \in [Sends -> Nat]
      /\ \A t \in Sends : offset'[t] <= size'[t]
  BY <1>1, <1>2, <1>4 DEF PhaseInv, TypeOK
<1>6. buffered' \in Nat /\ (open' => buffered' <= Len(wire'))
  <2> DEFINE k == Len(wire)
             l == Len(wire')
  <2>1. k \in Nat /\ l \in Nat /\ k <= l /\ buffered' = buffered + (l - k)
        /\ buffered \in Nat /\ (open => buffered <= k) /\ open
    BY <1>2 DEF Queues, PhaseInv, TypeOK
  <2> HIDE DEF k, l
  <2>2. buffered' \in Nat /\ buffered' <= l
    BY <2>1
  <2> QED BY <2>2 DEF l
<1>7. \A t \in Sends :
       /\ phase'[t] \in {"idle", "metadata"} => offset'[t] = 0
       /\ phase'[t] \in {"reading", "waiting", "check", "chunk"} => offset'[t] < size'[t]
       /\ phase'[t] \in {"eof", "done"} => offset'[t] = size'[t]
  BY <1>1, <1>2, <1>4 DEF PhaseInv, TypeOK
<1>8. TypeOK'
  BY <1>5, <1>6 DEF PhaseInv, TypeOK, Queues, relay
<1> QED BY <1>3, <1>7, <1>8 DEF PhaseInv

LEMMA PhaseNext ==
  ASSUME PhaseInv, [Next]_vars PROVE PhaseInv'
<1> USE DEF sender, channel, relay
<1>t. /\ TypeOK /\ WaterAssumption /\ NoneAssumption
      /\ \A s \in Sends : size[s] \in Nat /\ size[s] <= MaxChunks
  BY SizeNat, WaterAssumption, NoneAssumption DEF PhaseInv
<1>0. CASE UNCHANGED vars
  BY <1>0 DEF vars, PhaseInv, TypeOK
<1>1. ASSUME NEW s \in Sends, SendDirect(s) PROVE PhaseInv'
  <2>1. trouble' \in [Sends -> SUBSET {"overlap", "reorder", "cut"}]
    BY <1>1, <1>t DEF SendDirect, TypeOK
  <2>2. phase[s] = "idle"
    BY <1>1 DEF SendDirect
  <2> QED BY <1>1, <2>1, <2>2, SendStarts, PhaseQueues
<1>2. ASSUME NEW s \in Sends, ChunkRead(s) PROVE PhaseInv'
  <2>1. CASE open
    <3>1. trouble' \in [Sends -> SUBSET {"overlap", "reorder", "cut"}] /\ phase[s] = "reading"
      BY <1>2, <1>t DEF ChunkRead, TypeOK
    <3>2. offset[s] + 1 \in 0 .. size[s] /\ Queues(s, offset[s] + 1)
      BY <1>2, <1>t, <2>1, SendGoesOn
    <3> QED BY <3>1, <3>2, PhaseQueues
  <2>2. CASE ~open
    BY <1>2, <2>2 DEF ChunkRead, PhaseInv, TypeOK
  <2> QED BY <2>1, <2>2
<1>3. ASSUME NEW s \in Sends, ReadFails(s) PROVE PhaseInv'
  BY <1>3 DEF ReadFails, PhaseInv, TypeOK
<1>4. ASSUME NEW s \in Sends, SendRelayed(s) PROVE PhaseInv'
  BY <1>4 DEF SendRelayed, PhaseInv, TypeOK
<1>5. ASSUME NEW s \in Sends, NEW f \in Frames, Put(s, f)
      PROVE  relayWire' \in [Sends -> Seq(Frames)]
  <2>1. Append(relayWire[s], f) \in Seq(Frames) /\ relayWire[s] \in Seq(Frames)
    BY <1>t, AppendProperties DEF TypeOK
  <2> QED BY <1>5, <1>t, <2>1 DEF Put, TypeOK
<1>6. ASSUME NEW s \in Sends, MetadataSent(s) PROVE PhaseInv'
  <2>1. Meta(s) \in Frames
    BY WaterAssumption DEF Meta, Frames
  <2>2. relayWire' \in [Sends -> Seq(Frames)]
    BY <1>5, <1>6, <2>1 DEF MetadataSent
  <2>3. phase' = [phase EXCEPT ![s] = IF 0 < size[s] THEN "check" ELSE "eof"]
        /\ offset[s] = 0 /\ phase[s] = "metadata"
    BY <1>6 DEF MetadataSent, While, PhaseInv
  <2> QED BY <1>6, <1>t, <2>2, <2>3 DEF MetadataSent, PhaseInv, TypeOK
<1>7. ASSUME NEW s \in Sends, CheckSocket(s) PROVE PhaseInv'
  BY <1>7 DEF CheckSocket, PhaseInv, TypeOK
<1>8. ASSUME NEW s \in Sends, ChunkSent(s) PROVE PhaseInv'
  <2>1. offset[s] \in Nat /\ size[s] \in Nat /\ offset[s] < size[s] /\ phase[s] = "chunk"
    BY <1>8, <1>t DEF ChunkSent, PhaseInv, TypeOK
  <2>2. Chunk(s, offset[s] + 1) \in Frames
    BY <1>t, <2>1, WaterAssumption DEF Chunk, Frames
  <2>3. relayWire' \in [Sends -> Seq(Frames)]
    BY <1>5, <1>8, <2>2 DEF ChunkSent
  <2>4. offset' = [offset EXCEPT ![s] = offset[s] + 1]
        /\ phase' = [phase EXCEPT ![s] = IF offset[s] + 1 < size[s] THEN "check" ELSE "eof"]
    BY <1>8, <1>t DEF ChunkSent, While, TypeOK
  <2> QED BY <1>8, <1>t, <2>1, <2>3, <2>4 DEF ChunkSent, PhaseInv, TypeOK
<1>9. ASSUME NEW s \in Sends, EofSent(s) PROVE PhaseInv'
  <2>1. Eof(s) \in Frames
    BY <1>t, WaterAssumption DEF Eof, Frames
  <2>2. relayWire' \in [Sends -> Seq(Frames)]
    BY <1>5, <1>9, <2>1 DEF EofSent
  <2> QED BY <1>9, <2>2 DEF EofSent, PhaseInv, TypeOK
<1>10. ASSUME NEW s \in Sends, CutRelay(s) PROVE PhaseInv'
  BY <1>10 DEF CutRelay, PhaseInv, TypeOK
<1>11. ASSUME NEW s \in Sends, Arrive(s) PROVE PhaseInv'
  <2>1. Head(relayWire[s]) \in Frames /\ Tail(relayWire[s]) \in Seq(Frames)
    BY <1>11, <1>t, HeadTailProperties DEF Arrive, TypeOK
  <2> QED BY <1>11, <2>1 DEF Arrive, PhaseInv, TypeOK
<1>12. ASSUME NEW s \in Sends, NEW f \in decrypting[s], Decrypted(s, f) PROVE PhaseInv'
  <2>1. f \in Frames /\ f.of \in Sends /\ relayReceiver[s] \in Receivers
    BY <1>t DEF TypeOK, Frames
  <2>2. Append(relayReceiver[s].chunks, f) \in Seq(Frames)
    BY <2>1, AppendProperties DEF Receivers
  <2>3. relayReceiver' \in [Sends -> Receivers]
    <3>1. \/ relayReceiver' = relayReceiver
          \/ relayReceiver' = [relayReceiver EXCEPT ![s].file = f.of]
          \/ relayReceiver' = [relayReceiver EXCEPT ![s].chunks = Append(@, f)]
      BY <1>12 DEF Decrypted
    <3>2. CASE relayReceiver' = [relayReceiver EXCEPT ![s].file = f.of]
      BY <1>t, <2>1, <3>2 DEF TypeOK, Receivers
    <3>3. CASE relayReceiver' = [relayReceiver EXCEPT ![s].chunks = Append(@, f)]
      BY <1>t, <2>1, <2>2, <3>3 DEF TypeOK, Receivers
    <3> QED BY <1>t, <3>1, <3>2, <3>3 DEF TypeOK
  <2>4. received' \subseteq [file : Sends, path : {"direct", "relay"}, chunks : Seq(Frames)]
    <3> DEFINE r == relayReceiver[s]
               file == [file |-> r.file, path |-> "relay", chunks |-> r.chunks]
    <3>1. received' = received \/ (r.file # None /\ received' = received \cup {file})
      BY <1>12 DEF Decrypted
    <3>2. r.file # None => file \in [file : Sends, path : {"direct", "relay"}, chunks : Seq(Frames)]
      BY <2>1 DEF Receivers
    <3> HIDE DEF r, file
    <3> QED BY <1>t, <3>1, <3>2 DEF TypeOK
  <2>5. guestOpen' \in [Sends -> BOOLEAN] /\ decrypting' \in [Sends -> SUBSET Frames]
        /\ trouble' \in [Sends -> SUBSET {"overlap", "reorder", "cut"}]
    BY <1>12, <1>t DEF Decrypted, TypeOK
  <2>6. UNCHANGED <<sender, channel, hostOpen, relayWire>>
    BY <1>12 DEF Decrypted
  <2> QED BY <2>3, <2>4, <2>5, <2>6 DEF PhaseInv, TypeOK
<1>13. ASSUME NEW s \in Sends, NEW f \in decrypting[s], DecryptFails(s, f) PROVE PhaseInv'
  BY <1>13 DEF DecryptFails, PhaseInv, TypeOK
<1>14. CASE Transmit
  <2>1. buffered' \in Nat /\ (open' => buffered' <= Len(wire')) /\ Len(wire) \in Nat
    BY <1>14, <1>t DEF Transmit, TypeOK
  <2>2. CASE buffered = LowWater + 1 /\ listener # None
    BY <1>14, <2>1, <2>2 DEF Transmit, PhaseInv, TypeOK
  <2>3. CASE ~(buffered = LowWater + 1 /\ listener # None)
    BY <1>14, <2>1, <2>3 DEF Transmit, PhaseInv, TypeOK
  <2> QED BY <2>2, <2>3
<1>15. CASE Deliver
  <2>1. wire \in Seq(Frames) /\ buffered \in Nat /\ Len(wire) > buffered /\ open
        /\ wire' = Tail(wire) /\ UNCHANGED <<sender, open, buffered, listener, relay, trouble>>
    BY <1>15, <1>t DEF Deliver, TypeOK
  <2>2. wire # <<>>
    BY <2>1
  <2>3. Head(wire) \in Frames /\ Tail(wire) \in Seq(Frames) /\ Len(Tail(wire)) = Len(wire) - 1
    BY <2>1, <2>2, HeadTailProperties
  <2> DEFINE f == Head(wire)
  <2>4. f.of \in Sends /\ receiver \in Receivers /\ Append(receiver.chunks, f) \in Seq(Frames)
    BY <1>t, <2>3, AppendProperties DEF Frames, TypeOK, Receivers
  <2>5. OnMetadata(f) \/ OnChunk(f) \/ FinalizeTransfer
    BY <1>15 DEF Deliver
  <2>6. receiver' \in Receivers
    <3>1. CASE OnMetadata(f)
      BY <2>4, <3>1, EmptySeq DEF OnMetadata, Receivers
    <3>2. CASE OnChunk(f)
      BY <2>4, <3>2 DEF OnChunk, Receivers
    <3>3. CASE FinalizeTransfer
      <4>1. Fresh \in Receivers
        BY EmptySeq DEF Receivers, Fresh
      <4> QED BY <2>4, <3>3, <4>1 DEF FinalizeTransfer
    <3> QED BY <2>5, <3>1, <3>2, <3>3
  <2>7. received' \subseteq [file : Sends, path : {"direct", "relay"}, chunks : Seq(Frames)]
    BY <1>t, <2>4, <2>5 DEF OnMetadata, OnChunk, FinalizeTransfer, Receivers, TypeOK
  <2>8. Len(wire) \in Nat /\ buffered' <= Len(wire')
    BY <2>1, <2>3
  <2> QED BY <2>1, <2>3, <2>6, <2>7, <2>8 DEF PhaseInv, TypeOK
<1>16. CASE CloseChannel
  <2>1. <<>> \in Seq(Frames) /\ trouble' \in [Sends -> SUBSET {"overlap", "reorder", "cut"}]
    BY <1>16, <1>t DEF CloseChannel, TypeOK
  <2> QED BY <1>16, <2>1 DEF CloseChannel, PhaseInv, TypeOK
<1> QED BY <1>0, <1>1, <1>2, <1>3, <1>4, <1>6, <1>7, <1>8, <1>9, <1>10, <1>11, <1>12, <1>13,
           <1>14, <1>15, <1>16 DEF Next, RelayStep

-----------------------------------------------------------------------------
(* The chain of frames: an overlap, once there, only adds to what may       *)
(* follow, and steps that leave the channel alone leave the chain alone.    *)
LEMMA FollowsStill ==
  ASSUME Overlapped \subseteq Overlapped', NEW x, NEW y, Follows(x, y)
  PROVE  Follows(x, y)'
BY DEF Follows

LEMMA ProperStill ==
  ASSUME size' = size, NEW f PROVE Proper(f)' <=> Proper(f)
BY DEF Proper, FrameAt, Meta, Eof, Chunk

LEMMA DirectSame ==
  ASSUME PhaseInv, DirectInv, UNCHANGED <<size, open, wire, receiver>>,
         Sending' \subseteq Sending, \A t \in Sending' : offset'[t] = offset[t],
         Overlapped' = Overlapped
  PROVE  DirectInv'
<1>1. \A x, y : Follows(x, y)' <=> Follows(x, y)
  BY DEF Follows
<1>2. \A i : Spot(i)' = Spot(i)
  BY DEF Spot
<1>3. \A t \in Sending' : FrameAt(t, offset[t] + 1)' = FrameAt(t, offset[t] + 1)
  BY DEF FrameAt, Meta, Eof, Chunk
<1>4. ReceiverInv => ReceiverInv'
  BY DEF ReceiverInv, Chunk
<1>5. WireInv => WireInv'
  BY <1>1, <1>2, <1>3, ProperStill DEF WireInv
<1>6. Exclusive => Exclusive'
  BY DEF Exclusive
<1> QED BY <1>4, <1>5, <1>6 DEF DirectInv

(* A frame that a send queues follows the one before it.                    *)
LEMMA DirectQueues ==
  ASSUME PhaseInv, DirectInv, NEW s \in Sends, NEW o \in 0 .. size[s], Queues(s, o),
         o = 0 \/ (s \in Sending /\ o = offset[s] + 1),
         Overlapped \subseteq Overlapped',
         \A t \in Sending : t # s => s \in Overlapped' /\ t \in Overlapped'
  PROVE  DirectInv'
<1>s. TypeOK /\ size[s] \in Nat
  BY SizeNat DEF PhaseInv
<1>l. PICK k \in Nat : k = Len(wire)
  BY <1>s DEF TypeOK
<1>k. k \in Nat /\ k + 1 # 0 /\ k + 2 # 0 /\ o + 1 \in 0 .. size[s] + 1
  BY <1>s
<1>1. /\ open /\ ReceiverInv /\ WireInv /\ Exclusive /\ TypeOK /\ k \in Nat /\ size' = size
      /\ size[s] \in Nat /\ o \in 0 .. size[s] + 1
  BY <1>s, <1>k DEF DirectInv, Queues
<1>q. /\ Len(wire') = IF o = size[s] THEN k + 2 ELSE k + 1
      /\ \A i \in 1 .. k : wire'[i] = wire[i]
      /\ wire'[k + 1] = FrameAt(s, o) /\ (o = size[s] => wire'[k + 2] = Eof(s))
  BY <1>l DEF Queues
<1>2. ReceiverInv'
  BY <1>1 DEF ReceiverInv, Queues, Chunk
<1>3. PICK p \in {"reading", "waiting", "done"} :
        phase' = [phase EXCEPT ![s] = p] /\ (p = "done" <=> o = size[s])
  BY DEF Queues
<1>4. /\ \A t \in Sending' : t \in Sends /\ (t # s => t \in Sending)
      /\ s \in Sending' => o # size[s]
      /\ offset' = [offset EXCEPT ![s] = o]
  BY <1>1, <1>3 DEF Sending, Queues, TypeOK
<1>5. Exclusive'
  BY <1>1, <1>4 DEF Exclusive
<1>6. \A x, y : Follows(x, y) => Follows(x, y)'
  BY FollowsStill
<1>7. \A t \in Sends, n \in Nat : FrameAt(t, n)' = FrameAt(t, n)
  BY <1>1 DEF FrameAt, Meta, Eof, Chunk
<1>8. FrameAt(s, o).of = s /\ FrameAt(s, o).n = o /\ Proper(FrameAt(s, o))
  BY <1>1, FrameTyped
<1>9. ASSUME NEW i \in 0 .. k PROVE Spot(i)' = Spot(i)
  BY <1>1, <1>q, <1>9 DEF Spot, Queues
<1>10. Spot(k + 1)' = [of |-> s, n |-> o]
  BY <1>k, <1>q, <1>8 DEF Spot
<1>11. Follows(Spot(k), FrameAt(s, o))
  <2>1. CASE o = 0
    BY <1>8, <2>1 DEF Follows
  <2>2. CASE s \in Sending /\ o = offset[s] + 1
    BY <1>1, <1>l, <2>2 DEF WireInv
  <2> QED BY <2>1, <2>2
<1>12. o = size[s] => /\ wire'[k + 2] = FrameAt(s, o + 1) /\ Spot(k + 2)' = [of |-> s, n |-> o + 1]
                      /\ Proper(wire'[k + 2]) /\ wire'[k + 2].of = s /\ wire'[k + 2].n = o + 1
  <2> SUFFICES ASSUME o = size[s]
               PROVE  /\ wire'[k + 2] = FrameAt(s, o + 1) /\ Spot(k + 2)' = [of |-> s, n |-> o + 1]
                      /\ Proper(wire'[k + 2]) /\ wire'[k + 2].of = s /\ wire'[k + 2].n = o + 1
    OBVIOUS
  <2>1. wire'[k + 2] = FrameAt(s, o + 1)
    BY <1>1, <1>q, <1>k DEF FrameAt
  <2>2. o + 1 \in 0 .. size[s] + 1
    BY <1>1
  <2>3. FrameAt(s, o + 1).of = s /\ FrameAt(s, o + 1).n = o + 1 /\ Proper(FrameAt(s, o + 1))
    BY <1>1, <2>2, FrameTyped
  <2>4. Spot(k + 2)' = [of |-> s, n |-> o + 1]
    BY <1>k, <2>1, <2>3 DEF Spot
  <2> QED BY <2>1, <2>3, <2>4
<1>h. WireInv <=>
        /\ \A i \in 1 .. k : Proper(wire[i]) /\ Follows(Spot(i - 1), wire[i])
        /\ \A t \in Sending : Follows(Spot(k), FrameAt(t, offset[t] + 1))
  BY <1>l DEF WireInv
<1>13. ASSUME NEW i \in 1 .. Len(wire') PROVE Proper(wire[i])' /\ Follows(Spot(i - 1), wire[i])'
  <2>1. i \in 1 .. k \/ i = k + 1 \/ (i = k + 2 /\ o = size[s])
    BY <1>1, <1>q
  <2>2. CASE i \in 1 .. k
    <3>1. wire'[i] = wire[i] /\ Proper(wire[i]) /\ Follows(Spot(i - 1), wire[i])
      BY <1>1, <1>h, <1>q, <2>2
    <3>2. i - 1 \in 0 .. k
      BY <1>1, <2>2
    <3>3. Spot(i - 1)' = Spot(i - 1)
      BY <1>9, <3>2
    <3> QED BY <1>1, <1>6, <3>1, <3>3, ProperStill
  <2>3. CASE i = k + 1
    <3>1. wire'[i] = FrameAt(s, o) /\ i - 1 = k /\ k \in 0 .. k
      BY <1>1, <1>q, <2>3
    <3>2. Spot(i - 1)' = Spot(k)
      BY <1>9, <3>1
    <3> QED BY <1>1, <1>6, <1>8, <1>11, <3>1, <3>2, ProperStill
  <2>4. CASE i = k + 2 /\ o = size[s]
    <3>1. i - 1 = k + 1
      BY <1>1, <2>4
    <3>2. Spot(i - 1)' = [of |-> s, n |-> o]
      BY <1>10, <3>1
    <3>3. Follows([of |-> s, n |-> o], wire'[k + 2])
      BY <1>12, <2>4 DEF Follows
    <3> QED BY <1>1, <1>6, <1>12, <2>4, <3>2, <3>3, ProperStill
  <2> QED BY <2>1, <2>2, <2>3, <2>4
<1>14. ASSUME NEW t \in Sending' PROVE Follows(Spot(Len(wire)), FrameAt(t, offset[t] + 1))'
  <2>1. Spot(Len(wire))' = [of |-> s, n |-> IF o = size[s] THEN o + 1 ELSE o]
    BY <1>10, <1>12, <1>q
  <2>2. t \in Sends /\ offset'[t] \in Nat /\ (t = s => offset'[t] = o)
    BY <1>1, <1>4 DEF TypeOK
  <2>3. offset'[t] + 1 \in Nat
    BY <2>2
  <2>4. FrameAt(t, offset[t] + 1)' = FrameAt(t, offset'[t] + 1)
    BY <1>7, <2>2, <2>3
  <2>5. FrameAt(t, offset'[t] + 1).of = t /\ FrameAt(t, offset'[t] + 1).n = offset'[t] + 1
    BY <2>2 DEF FrameAt, Eof, Chunk
  <2>6. CASE t = s
    BY <1>4, <2>1, <2>2, <2>4, <2>5, <2>6 DEF Follows
  <2>7. CASE t # s
    <3>1. s \in Overlapped' /\ t \in Overlapped'
      BY <1>4, <2>7
    <3> QED BY <2>1, <2>4, <2>5, <3>1 DEF Follows
  <2> QED BY <2>6, <2>7
<1>15. WireInv'
  BY <1>13, <1>14 DEF WireInv
<1> QED BY <1>2, <1>5, <1>15 DEF DirectInv

(* A chunk sequence as long as its file is the file.                        *)
LEMMA AllOfIt ==
  ASSUME TypeOK, NEW s \in Sends, NEW c \in Seq(Frames), Len(c) = size[s],
         \A i \in 1 .. Len(c) : c[i] = Chunk(s, i)
  PROVE  c = Whole(s)
<1>1. c \in [1 .. Len(c) -> Frames]
  BY LenProperties
<1>2. c = [i \in 1 .. size[s] |-> c[i]]
  BY <1>1
<1> QED BY <1>2 DEF Whole

(* The receiver takes a frame that follows what it has.                     *)
Handed(f) == \/ f.type = "metadata" /\ OnMetadata(f)
             \/ f.type = "chunk" /\ OnChunk(f)
             \/ f.type = "eof" /\ FinalizeTransfer

LEMMA Handover ==
  ASSUME TypeOK, ReceiverInv, NEW f \in Frames, Proper(f), Follows(Spot(0), f), Handed(f),
         UNCHANGED <<size, trouble>>
  PROVE  /\ ReceiverInv'
         /\ \A y \in Frames : Proper(y) /\ Follows(f, y) => Follows(Spot(0), y)'
         /\ f.type = "eof" /\ f.of \notin Overlapped => \E g \in received' : g.file = f.of
<1> PICK r, c : r = receiver.file /\ c = receiver.chunks
  OBVIOUS
<1>1. /\ r \in Sends \cup {None} /\ c \in Seq(Frames) /\ Len(c) \in Nat /\ f.of \in Sends
      /\ f.n \in Nat /\ Overlapped' = Overlapped
  BY WaterAssumption DEF TypeOK, Receivers, Frames, Overlapped
<1>2. Spot(0) = [of |-> r, n |-> Len(c)]
  BY DEF Spot
<1>3. /\ size[f.of] \in Nat /\ f.n \in 0 .. size[f.of] + 1 /\ f = FrameAt(f.of, f.n)
      /\ f.type = "metadata" <=> f.n = 0
      /\ f.type = "eof" <=> f.n = size[f.of] + 1
      /\ f.n \in 1 .. size[f.of] => f = Chunk(f.of, f.n)
  <2>1. size[f.of] \in Nat /\ f.n \in 0 .. size[f.of] + 1 /\ f = FrameAt(f.of, f.n)
    BY <1>1, SizeNat DEF Proper
  <2> QED BY <1>1, <2>1, FrameTyped
<1>4. \A x, y : Follows(x, y)' <=> Follows(x, y)
  BY <1>1 DEF Follows
<1>5. CASE f.type = "metadata" /\ OnMetadata(f)
  <2>1. receiver' = [file |-> f.of, chunks |-> <<>>]
    BY <1>5 DEF OnMetadata
  <2>2. Spot(0)' = [of |-> f.of, n |-> 0] /\ f.n = 0
    BY <1>3, <1>5, <2>1 DEF Spot
  <2>3. ReceiverInv'
    BY <2>1, NoneAssumption, <1>1 DEF ReceiverInv
  <2>4. \A y : Follows(f, y) => Follows([of |-> f.of, n |-> 0], y)
    BY <2>2 DEF Follows
  <2> QED BY <1>4, <1>5, <2>2, <2>3, <2>4
<1>6. CASE f.type = "chunk" /\ OnChunk(f)
  <2>0. f.n # 0 /\ f.n # size[f.of] + 1 /\ f = Chunk(f.of, f.n)
    BY <1>1, <1>3, <1>6
  <2>1. CASE r = None
    <3>1. receiver' = receiver
      BY <1>6, <2>1 DEF OnChunk
    <3>2. f.of \in Overlapped
      BY <1>1, <1>2, <2>0, <2>1, NoneAssumption DEF Follows
    <3>3. ReceiverInv' /\ Spot(0)' = [of |-> None, n |-> Len(c)]
      BY <1>1, <2>1, <3>1 DEF ReceiverInv, Spot, Chunk
    <3>4. \A y : Follows(f, y) => Follows([of |-> None, n |-> Len(c)], y)
      BY <3>2 DEF Follows
    <3> QED BY <1>4, <1>6, <3>3, <3>4
  <2>2. CASE r # None
    <3>1. /\ receiver' = [receiver EXCEPT !.chunks = Append(c, f)]
          /\ receiver'.file = r /\ receiver'.chunks = Append(c, f)
      BY <1>6, <2>2, <1>1 DEF OnChunk, TypeOK, Receivers
    <3>2. /\ Len(Append(c, f)) = Len(c) + 1 /\ Append(c, f)[Len(c) + 1] = f
          /\ \A i \in 1 .. Len(c) : Append(c, f)[i] = c[i]
      BY <1>1, AppendProperties
    <3>3. Spot(0)' = [of |-> r, n |-> Len(c) + 1]
      BY <3>1, <3>2 DEF Spot
    <3>4. CASE r \in Overlapped
      <4>1. f.of \in Overlapped
        BY <1>1, <1>2, <2>0, <3>4, NoneAssumption DEF Follows
      <4>2. ReceiverInv'
        BY <1>1, <2>2, <3>1, <3>4 DEF ReceiverInv
      <4>3. \A y : Follows(f, y) => Follows([of |-> r, n |-> Len(c) + 1], y)
        BY <3>4, <4>1 DEF Follows
      <4> QED BY <1>4, <1>6, <3>3, <4>2, <4>3
    <3>5. CASE r \notin Overlapped
      <4>1. f.of = r /\ f.n = Len(c) + 1
        BY <1>1, <1>2, <2>0, <2>2, <3>5, NoneAssumption DEF Follows
      <4>2. \A i \in 1 .. Len(c) : c[i] = Chunk(r, i)
        BY <1>1, <2>2, <3>5 DEF ReceiverInv
      <4>3. ASSUME NEW i \in 1 .. Len(Append(c, f)) PROVE Append(c, f)[i] = Chunk(r, i)
        BY <1>1, <2>0, <3>2, <4>1, <4>2
      <4>4. ReceiverInv'
        BY <1>1, <2>2, <3>1, <4>3 DEF ReceiverInv, Chunk
      <4>5. \A y : Follows(f, y) => Follows([of |-> r, n |-> Len(c) + 1], y)
        BY <4>1 DEF Follows
      <4> QED BY <1>4, <1>6, <3>3, <4>4, <4>5
    <3> QED BY <3>4, <3>5
  <2> QED BY <2>1, <2>2
<1>7. CASE f.type = "eof" /\ FinalizeTransfer
  <2>0. f.n = size[f.of] + 1 /\ f.n # 0
    BY <1>3, <1>7
  <2>1. ASSUME NEW y \in Frames, Proper(y), Follows(f, y)
        PROVE  y.n = 0 \/ y.of \in Overlapped
    <3>1. ~(f.of = y.of /\ y.n = f.n + 1)
      <4>1. y.n \in Nat
        BY WaterAssumption DEF Frames
      <4> QED BY <1>3, <2>0, <2>1, <4>1 DEF Proper
    <3> QED BY <2>1, <3>1 DEF Follows
  <2>2. f.of \notin Overlapped => f.of = r /\ Len(c) = size[r]
    BY <1>1, <1>2, <1>3, <2>0, NoneAssumption DEF Follows
  <2>3. CASE r # None /\ Len(c) = size[r]
    <3>1. receiver' = Fresh /\ [file |-> r, path |-> "direct", chunks |-> c] \in received'
      BY <1>7, <2>3 DEF FinalizeTransfer
    <3>2. ReceiverInv' /\ Spot(0)' = [of |-> None, n |-> 0]
      BY <3>1, NoneAssumption DEF ReceiverInv, Fresh, Spot
    <3>3. \A y \in Frames : Proper(y) /\ Follows(f, y) => Follows([of |-> None, n |-> 0], y)
      BY <2>1 DEF Follows
    <3> QED BY <1>4, <2>2, <3>1, <3>2, <3>3
  <2>4. CASE ~(r # None /\ Len(c) = size[r])
    <3>1. receiver' = receiver
      BY <1>7, <2>4 DEF FinalizeTransfer
    <3>2. f.of \in Overlapped
      BY <2>2, <2>4, <1>1, NoneAssumption
    <3>3. r \in Overlapped \cup {None}
      BY <1>1, <1>2, <2>0, <3>2, NoneAssumption DEF Follows
    <3>4. ReceiverInv' /\ Spot(0)' = [of |-> r, n |-> Len(c)]
      BY <1>1, <3>1 DEF ReceiverInv, Spot, Chunk
    <3>5. \A y \in Frames : Proper(y) /\ Follows(f, y) => Follows([of |-> r, n |-> Len(c)], y)
      BY <2>1, <3>3 DEF Follows
    <3> QED BY <1>4, <3>2, <3>4, <3>5
  <2> QED BY <2>3, <2>4
<1> QED BY <1>5, <1>6, <1>7 DEF Handed

(* What a delivery is: the first frame is handed over, the others move up.  *)
LEMMA Delivery ==
  ASSUME PhaseInv, DirectInv, Deliver
  PROVE  \E f \in Frames, k \in Nat \ {0} :
           /\ k = Len(wire) /\ f = wire[1] /\ Proper(f) /\ Follows(Spot(0), f) /\ Handed(f)
           /\ Len(wire') = k - 1 /\ \A i \in 1 .. k - 1 : wire'[i] = wire[i + 1]
           /\ ReceiverInv /\ WireInv /\ Exclusive /\ open
           /\ UNCHANGED <<sender, open, buffered, listener, relay, trouble>>
<1> USE DEF PhaseInv
<1>1. /\ wire \in Seq(Frames) /\ buffered \in Nat /\ Len(wire) > buffered /\ open
      /\ wire' = Tail(wire) /\ UNCHANGED <<sender, open, buffered, listener, relay, trouble>>
      /\ Handed(Head(wire)) /\ ReceiverInv /\ WireInv /\ Exclusive
  BY DEF Deliver, TypeOK, Handed, DirectInv
<1>2. wire # <<>> /\ Len(wire) \in Nat \ {0} /\ 1 \in 1 .. Len(wire)
  BY <1>1
<1>3. /\ Head(wire) = wire[1] /\ Head(wire) \in Frames
      /\ Len(wire') = Len(wire) - 1 /\ \A i \in 1 .. Len(wire) - 1 : wire'[i] = wire[i + 1]
  BY <1>1, <1>2, HeadTailProperties
<1>4. Proper(wire[1]) /\ Follows(Spot(0), wire[1])
  <2>1. Proper(wire[1]) /\ Follows(Spot(1 - 1), wire[1])
    BY <1>1, <1>2 DEF WireInv
  <2>2. 1 - 1 = 0
    OBVIOUS
  <2> QED BY <2>1, <2>2
<1> QED BY <1>1, <1>2, <1>3, <1>4

LEMMA DirectDeliver ==
  ASSUME PhaseInv, DirectInv, Deliver PROVE DirectInv'
<1>1. PICK f \in Frames, k \in Nat \ {0} :
           /\ k = Len(wire) /\ f = wire[1] /\ Proper(f) /\ Follows(Spot(0), f) /\ Handed(f)
           /\ Len(wire') = k - 1 /\ \A i \in 1 .. k - 1 : wire'[i] = wire[i + 1]
           /\ ReceiverInv /\ WireInv /\ Exclusive /\ open
           /\ UNCHANGED <<sender, open, buffered, listener, relay, trouble>>
  BY Delivery
<1>2. TypeOK /\ UNCHANGED <<size, phase, offset, trouble>> /\ open'
  BY <1>1 DEF PhaseInv, sender
<1>3. ReceiverInv' /\ \A y \in Frames : Proper(y) /\ Follows(f, y) => Follows(Spot(0), y)'
  BY <1>1, <1>2, Handover
<1>4. Overlapped' = Overlapped /\ Sending' = Sending
  BY <1>2 DEF Overlapped, Sending
<1>5. \A x, y : Follows(x, y) => Follows(x, y)'
  BY <1>4, FollowsStill
<1>6. ASSUME NEW i \in 1 .. k - 1 PROVE Spot(i)' = Spot(i + 1)
  <2>1. i # 0 /\ i + 1 # 0
    OBVIOUS
  <2> QED BY <1>1, <2>1 DEF Spot
<1>7. \A y : Follows(Spot(1), y) <=> Follows(f, y)
  BY <1>1 DEF Spot, Follows
<1>8. ASSUME NEW i \in 1 .. k - 1 PROVE Proper(wire[i])' /\ Follows(Spot(i - 1), wire[i])'
  <2>1. i + 1 \in 1 .. k /\ wire'[i] = wire[i + 1] /\ (i + 1) - 1 = i
    BY <1>1
  <2>2. Proper(wire[i + 1]) /\ Follows(Spot(i), wire[i + 1]) /\ wire[i + 1] \in Frames
    BY <1>1, <1>2, <2>1 DEF WireInv, TypeOK
  <2>3. Proper(wire[i])'
    BY <1>2, <2>1, <2>2, ProperStill
  <2>4. CASE i = 1
    <3>1. PICK y : y = wire[i + 1]
      OBVIOUS
    <3>2. Follows(f, y) /\ Proper(y) /\ y \in Frames
      BY <1>7, <2>2, <2>4, <3>1
    <3>3. Follows(Spot(0), y)' /\ i - 1 = 0
      BY <1>3, <2>4, <3>2
    <3> QED BY <2>1, <2>3, <3>1, <3>3
  <2>5. CASE i # 1
    <3>1. i - 1 \in 1 .. k - 1 /\ (i - 1) + 1 = i
      BY <2>5
    <3>2. Spot(i - 1)' = Spot(i)
      BY <1>6, <3>1
    <3> QED BY <1>5, <2>1, <2>2, <2>3, <3>2
  <2> QED BY <2>4, <2>5
<1>9. ASSUME NEW t \in Sending' PROVE Follows(Spot(Len(wire)), FrameAt(t, offset[t] + 1))'
  <2>1. t \in Sends /\ t \in Sending /\ offset[t] \in Nat /\ offset[t] < size[t] /\ size[t] \in Nat
    BY <1>2, <1>4, SizeNat DEF Sending, PhaseInv, TypeOK
  <2>2. offset[t] + 1 \in 0 .. size[t] + 1
    BY <2>1
  <2> DEFINE y == FrameAt(t, offset[t] + 1)
  <2>3. y \in Frames /\ Proper(y)
    BY <1>2, <2>1, <2>2, FrameTyped
  <2>4. y' = y
    BY <1>2 DEF FrameAt, Meta, Eof, Chunk
  <2>5. Follows(Spot(k), y)
    BY <1>1, <2>1 DEF WireInv
  <2>6. CASE k = 1
    <3>1. Len(wire') = 0
      BY <1>1, <2>6
    <3>2. PICK z : z = y
      OBVIOUS
    <3>3. Follows(f, z) /\ z \in Frames /\ Proper(z)
      BY <1>7, <2>3, <2>5, <2>6, <3>2
    <3>4. Follows(Spot(0), z)'
      BY <1>3, <3>3
    <3> QED BY <2>4, <3>1, <3>2, <3>4
  <2>7. CASE k # 1
    <3>1. k - 1 \in 1 .. k - 1 /\ (k - 1) + 1 = k /\ Len(wire') = k - 1
      BY <1>1, <2>7
    <3>2. Spot(k - 1)' = Spot(k)
      BY <1>6, <3>1
    <3>3. PICK z : z = y
      OBVIOUS
    <3>4. PICK x : x = Spot(k)
      OBVIOUS
    <3>5. Follows(x, z)'
      BY <1>5, <2>5, <3>3, <3>4
    <3> QED BY <2>4, <3>1, <3>2, <3>3, <3>4, <3>5
  <2> QED BY <2>6, <2>7
<1>10. WireInv'
  BY <1>1, <1>8, <1>9 DEF WireInv
<1>11. Exclusive'
  BY <1>1, <1>4 DEF Exclusive
<1> QED BY <1>3, <1>10, <1>11 DEF DirectInv

LEMMA DirectNext ==
  ASSUME PhaseInv, DirectInv, [Next]_vars PROVE DirectInv'
<1> USE DEF sender, channel, relay
<1>t. /\ size \in [Sends -> 0 .. MaxChunks] /\ offset \in [Sends -> Nat]
      /\ phase \in [Sends -> {"idle", "reading", "waiting", "metadata", "check", "chunk", "eof",
                          "done", "failed"}]
      /\ trouble \in [Sends -> SUBSET {"overlap", "reorder", "cut"}]
  BY DEF PhaseInv, TypeOK
<1>0. CASE UNCHANGED vars
  BY <1>0, DirectSame DEF vars, Sending, Overlapped
<1>1. ASSUME NEW s \in Sends, SendDirect(s) PROVE DirectInv'
  <2>1. trouble' = [t \in Sends |-> IF Sending # {} /\ t \in Sending \cup {s}
                                    THEN trouble[t] \cup {"overlap"} ELSE trouble[t]]
    BY <1>1 DEF SendDirect
  <2>2. Overlapped \subseteq Overlapped'
    BY <1>t, <2>1 DEF Overlapped
  <2>3. \A t \in Sending : t # s => s \in Overlapped' /\ t \in Overlapped'
    BY <1>t, <2>1 DEF Overlapped, Sending
  <2> QED BY <1>1, <2>2, <2>3, SendStarts, DirectQueues
<1>2. ASSUME NEW s \in Sends, ChunkRead(s) PROVE DirectInv'
  <2>1. CASE open
    <3>1. Overlapped' = Overlapped /\ s \in Sending
      BY <1>2 DEF ChunkRead, Overlapped, Sending
    <3>2. \A t \in Sending : t # s => s \in Overlapped' /\ t \in Overlapped'
      BY <2>1, <3>1 DEF DirectInv, Exclusive
    <3>3. Queues(s, offset[s] + 1) /\ offset[s] + 1 \in 0 .. size[s]
      BY <1>2, <2>1, SendGoesOn
    <3> QED BY <3>1, <3>2, <3>3, DirectQueues
  <2>2. CASE ~open
    BY <1>2, <2>2 DEF ChunkRead, DirectInv
  <2> QED BY <2>1, <2>2
<1>3. ASSUME NEW s \in Sends, NEW p \in {"metadata", "check", "chunk", "eof", "done", "failed"},
             phase' = [phase EXCEPT ![s] = p], UNCHANGED <<size, open, wire, receiver, trouble>>,
             offset' = offset \/ (s \notin Sending /\ \E o : offset' = [offset EXCEPT ![s] = o])
      PROVE  DirectInv'
  <2>1. \A t \in Sending' : t \in Sending /\ t # s
    BY <1>t, <1>3 DEF Sending
  <2>2. \A t \in Sending' : offset'[t] = offset[t]
    BY <1>t, <1>3, <2>1 DEF Sending
  <2>3. Overlapped' = Overlapped
    BY <1>3 DEF Overlapped
  <2> QED BY <1>3, <2>1, <2>2, <2>3, DirectSame
<1>4. ASSUME NEW s \in Sends, ReadFails(s) \/ SendRelayed(s) \/ CheckSocket(s) \/ EofSent(s)
      PROVE  DirectInv'
  <2>1. PICK p \in {"metadata", "check", "chunk", "eof", "done", "failed"} :
          phase' = [phase EXCEPT ![s] = p]
    BY <1>4 DEF ReadFails, SendRelayed, CheckSocket, EofSent
  <2> QED BY <1>3, <1>4, <2>1 DEF ReadFails, SendRelayed, CheckSocket, EofSent
<1>5. ASSUME NEW s \in Sends, MetadataSent(s) PROVE DirectInv'
  BY <1>3, <1>5 DEF MetadataSent, While
<1>6. ASSUME NEW s \in Sends, ChunkSent(s) PROVE DirectInv'
  <2>1. PICK p \in {"check", "eof"} : phase' = [phase EXCEPT ![s] = p]
    BY <1>6 DEF ChunkSent, While
  <2>2. s \notin Sending /\ \E o : offset' = [offset EXCEPT ![s] = o]
    BY <1>6 DEF ChunkSent, Sending
  <2> QED BY <1>3, <1>6, <2>1, <2>2 DEF ChunkSent
<1>7. ASSUME UNCHANGED <<sender, channel>>,
             NEW s \in Sends, NEW w \in {"reorder", "cut"},
             trouble' = trouble \/ trouble' = [trouble EXCEPT ![s] = @ \cup {w}]
      PROVE  DirectInv'
  <2>1. Overlapped' = Overlapped
    BY <1>t, <1>7 DEF Overlapped
  <2> QED BY <1>7, <2>1, DirectSame DEF Sending
<1>8. ASSUME NEW s \in Sends, CutRelay(s) \/ Arrive(s) PROVE DirectInv'
  BY <1>7, <1>8 DEF CutRelay, Arrive
<1>9. ASSUME NEW s \in Sends, NEW f \in decrypting[s], Decrypted(s, f) \/ DecryptFails(s, f)
      PROVE  DirectInv'
  <2>1. /\ UNCHANGED <<sender, channel>>
        /\ \/ trouble' = trouble \/ trouble' = [trouble EXCEPT ![s] = @ \cup {"reorder"}]
           \/ trouble' = [trouble EXCEPT ![s] = @ \cup {"cut"}]
    BY <1>9 DEF Decrypted, DecryptFails
  <2> QED BY <1>7, <2>1
<1>10. CASE Transmit
  <2>1. UNCHANGED <<size, open, wire, receiver, offset, trouble>>
    BY <1>10 DEF Transmit
  <2>2. Sending' = Sending
    BY <1>t, <1>10 DEF Transmit, Sending, PhaseInv
  <2> QED BY <2>1, <2>2, DirectSame DEF Overlapped
<1>11. CASE CloseChannel
  BY <1>11 DEF CloseChannel, DirectInv
<1> QED BY <1>0, <1>1, <1>2, <1>4, <1>5, <1>6, <1>8, <1>9, <1>10, <1>11, DirectDeliver
       DEF Next, RelayStep

-----------------------------------------------------------------------------
(* What a session's facts are about is typed.                               *)
LEMMA SessionTyped ==
  ASSUME TypeOK, NEW s \in Sends
  PROVE  /\ relayWire[s] \in Seq(Frames) /\ Len(relayWire[s]) \in Nat
         /\ \A i \in 1 .. Len(relayWire[s]) : relayWire[s][i] \in Frames
         /\ decrypting[s] \subseteq Frames
         /\ Taken(s) \in Seq(Frames) /\ Len(Taken(s)) \in Nat
         /\ \A i \in 1 .. Len(Taken(s)) : Taken(s)[i] \in Frames
         /\ relayReceiver[s].file \in Sends \cup {None}
         /\ \A f \in Frames : f.n \in Nat /\ f.of \in Sends
<1>1. /\ relayWire[s] \in Seq(Frames) /\ decrypting[s] \subseteq Frames /\ Taken(s) \in Seq(Frames)
      /\ relayReceiver[s].file \in Sends \cup {None}
  BY DEF TypeOK, Taken, Receivers
<1>2. \A f \in Frames : f.n \in Nat /\ f.of \in Sends
  BY WaterAssumption DEF Frames
<1> QED BY <1>1, <1>2

(* A frame is its place in its file.                                        *)
LEMMA SamePlace ==
  ASSUME NEW f, NEW g, Proper(f), Proper(g), f.of = g.of, f.n = g.n PROVE f = g
BY DEF Proper

LEMMA SentNat ==
  ASSUME PhaseInv, NEW s \in Sends PROVE Sent(s) \in Nat /\ Sent(s) <= size[s] + 2
BY SizeNat DEF PhaseInv, TypeOK, Sent

(* A session keeps its facts when nothing of it changes, when frames are    *)
(* lost, and when the send goes on.                                         *)
LEMMA SessionLess ==
  ASSUME PhaseInv, NEW s \in Sends, Session(s),
         size' = size, Sent(s)' \in Nat, Sent(s) <= Sent(s)',
         relayReceiver'[s] = relayReceiver[s],
         relayWire'[s] = relayWire[s] \/ relayWire'[s] = <<>>,
         decrypting'[s] \subseteq decrypting[s],
         "reorder" \in trouble[s] => "reorder" \in trouble'[s]
  PROVE  Session(s)'
<1>1. Sent(s) \in Nat /\ TypeOK
  BY SentNat DEF PhaseInv
<1>2. Taken(s)' = Taken(s)
  BY DEF Taken
<1>3. /\ \A i \in 1 .. Len(relayWire'[s]) : i \in 1 .. Len(relayWire[s]) /\ relayWire'[s][i] = relayWire[s][i]
  OBVIOUS
<1>4. Pending(s)'
  <2>1. \A i \in 1 .. Len(relayWire[s]) : relayWire[s][i].n \in Nat
    BY <1>1, SessionTyped
  <2>2. \A f \in decrypting[s] : f.n \in Nat
    BY <1>1, SessionTyped
  <2>3. ASSUME NEW f \in decrypting'[s] PROVE f.of = s /\ Proper(f)' /\ f.n < Sent(s)'
    <3>1. f \in decrypting[s] /\ f.n \in Nat /\ f.of = s /\ Proper(f) /\ f.n < Sent(s)
      BY <2>2, <2>3 DEF Session, Pending
    <3> QED BY <1>1, <3>1, ProperStill
  <2>4. ASSUME NEW i \in 1 .. Len(relayWire'[s])
        PROVE  /\ relayWire'[s][i].of = s /\ Proper(relayWire[s][i])' /\ relayWire'[s][i].n < Sent(s)'
               /\ \A j \in 1 .. Len(relayWire'[s]) : i < j => relayWire'[s][i].n < relayWire'[s][j].n
               /\ \A f \in decrypting'[s] : f.n < relayWire'[s][i].n
               /\ \A j \in 1 .. Len(Taken(s)) : Taken(s)[j].n < relayWire'[s][i].n
    <3>1. i \in 1 .. Len(relayWire[s]) /\ relayWire'[s] = relayWire[s]
      BY <1>3
    <3>2. relayWire[s][i].of = s /\ Proper(relayWire[s][i]) /\ relayWire[s][i].n < Sent(s)
      BY <3>1 DEF Session, Pending
    <3>3. relayWire'[s][i].n < Sent(s)'
      BY <1>1, <2>1, <3>1, <3>2
    <3>4. Proper(relayWire[s][i])'
      BY <3>1, <3>2, ProperStill
    <3> QED BY <3>1, <3>2, <3>3, <3>4 DEF Session, Pending
  <2> QED BY <1>2, <2>3, <2>4 DEF Pending
<1>5. Once(s)'
  BY <1>1, <1>2, SessionTyped DEF Once, Session, Chunk
<1>6. Opened(s)'
  BY <1>1, <1>3 DEF Opened, Session
<1>7. "reorder" \notin trouble'[s] => InOrder(s)'
  BY <1>2 DEF InOrder, Session
<1> QED BY <1>4, <1>5, <1>6, <1>7 DEF Session

(* The next frame of the file goes to the relay.                            *)
LEMMA SessionPut ==
  ASSUME PhaseInv, NEW s \in Sends, Session(s), NEW n \in 0 .. size[s] + 1, n = Sent(s),
         Put(s, FrameAt(s, n)), Sent(s)' \in Nat, n < Sent(s)',
         UNCHANGED <<size, decrypting, relayReceiver, trouble>>
  PROVE  Session(s)'
<1> DEFINE f == FrameAt(s, n)
<1>1. /\ TypeOK /\ f \in Frames /\ f.of = s /\ f.n = n /\ Proper(f)
      /\ relayWire \in [Sends -> Seq(Frames)]
  BY FrameTyped DEF PhaseInv, TypeOK
<1>2. CASE ~hostOpen[s]
  <2>1. relayWire'[s] = relayWire[s]
    BY <1>1, <1>2 DEF Put
  <2> QED BY <2>1, SessionLess, SentNat
<1>3. CASE hostOpen[s]
  <2> PICK w \in Seq(Frames), k \in Nat : w = relayWire[s] /\ k = Len(w)
    BY <1>1, SessionTyped
  <2>1. relayWire'[s] = Append(w, f)
    BY <1>1, <1>3 DEF Put
  <2>2. /\ w \in Seq(Frames) /\ Len(Append(w, f)) = k + 1 /\ Append(w, f)[k + 1] = f
        /\ \A i \in 1 .. k : Append(w, f)[i] = w[i]
    BY <1>1, SessionTyped, AppendProperties
  <2> HIDE DEF f
  <2>3. Taken(s)' = Taken(s) /\ decrypting'[s] = decrypting[s]
    BY DEF Taken
  <2>4. ASSUME NEW i \in 1 .. k + 1
        PROVE  /\ relayWire'[s][i].of = s /\ Proper(relayWire'[s][i]) /\ relayWire'[s][i].n < Sent(s)'
               /\ \A j \in 1 .. k + 1 : i < j => relayWire'[s][i].n < relayWire'[s][j].n
               /\ \A g \in decrypting[s] : g.n < relayWire'[s][i].n
               /\ \A j \in 1 .. Len(Taken(s)) : Taken(s)[j].n < relayWire'[s][i].n
    <3>1. CASE i \in 1 .. k
      <4>1. /\ w[i].of = s /\ Proper(w[i]) /\ w[i].n < n /\ w[i].n \in Nat
            /\ \A j \in 1 .. k : i < j => w[i].n < w[j].n
            /\ \A g \in decrypting[s] : g.n < w[i].n
            /\ \A j \in 1 .. Len(Taken(s)) : Taken(s)[j].n < w[i].n
        BY <1>1, <3>1, SessionTyped DEF Session, Pending
      <4>2. \A j \in 1 .. k + 1 : i < j => w[i].n < Append(w, f)[j].n
        BY <1>1, <2>2, <3>1, <4>1
      <4> QED BY <2>1, <2>2, <3>1, <4>1, <4>2
    <3>2. CASE i = k + 1
      <4>1. relayWire'[s][i] = f /\ \A j \in 1 .. k + 1 : ~(i < j)
        BY <2>1, <2>2, <3>2
      <4>2. \A g \in decrypting[s] : g.n < n
        BY DEF Session, Pending
      <4>3. \A j \in 1 .. Len(Taken(s)) : Taken(s)[j].n < n
        BY DEF Session, Once
      <4> QED BY <1>1, <4>1, <4>2, <4>3
    <3> QED BY <3>1, <3>2
  <2>5. Pending(s)'
    <3>1. \A g \in decrypting[s] : g.of = s /\ Proper(g) /\ g.n < Sent(s)'
      <4>1. \A g \in decrypting[s] : g.n \in Nat /\ g.n < n /\ g.of = s /\ Proper(g)
        BY <1>1, SessionTyped DEF Session, Pending
      <4> QED BY <4>1
    <3>2. Len(relayWire'[s]) = k + 1
      BY <2>1, <2>2
    <3> QED BY <2>3, <2>4, <3>1, <3>2, ProperStill DEF Pending
  <2>6. Once(s)'
    <3>1. \A j \in 1 .. Len(Taken(s)) : Taken(s)[j].n < Sent(s)'
      BY <1>1, SessionTyped DEF Session, Once
    <3> QED BY <2>3, <3>1 DEF Session, Once, Chunk
  <2>7. Opened(s)'
    <3>1. relayReceiver[s].file = s => \A i \in 1 .. k + 1 : 0 < relayWire'[s][i].n
      BY <1>1, <2>1, <2>2 DEF Session, Opened
    <3>2. Len(relayWire'[s]) = k + 1 /\ 0 < Sent(s)'
      BY <2>1, <2>2
    <3> QED BY <2>3, <3>1, <3>2 DEF Session, Opened
  <2>8. "reorder" \notin trouble'[s] => InOrder(s)'
    BY <2>3 DEF Session, InOrder
  <2> QED BY <2>5, <2>6, <2>7, <2>8 DEF Session
<1> QED BY <1>2, <1>3

(* A frame arrives: the first of the session goes to decryption.            *)
LEMMA SessionArrive ==
  ASSUME PhaseInv, NEW s \in Sends, Session(s), Arrive(s), Sent(s)' = Sent(s) PROVE Session(s)'
<1>1. /\ TypeOK /\ relayWire[s] # <<>> /\ size' = size /\ relayReceiver' = relayReceiver
      /\ trouble' = trouble
  BY DEF PhaseInv, Arrive, sender
<1> PICK w \in Seq(Frames), k \in Nat : w = relayWire[s] /\ k = Len(w)
  BY <1>1, SessionTyped
<1> PICK h : h = w[1]
  OBVIOUS
<1>2. k # 0
  BY <1>1
<1>3. /\ relayWire'[s] = Tail(w) /\ Len(Tail(w)) = k - 1 /\ h \in Frames /\ Head(w) = h
      /\ \A i \in 1 .. k - 1 : Tail(w)[i] = w[i + 1]
  BY <1>1, <1>2, HeadTailProperties DEF Arrive, TypeOK
<1>4. decrypting'[s] \subseteq decrypting[s] \cup {h}
  BY <1>1, <1>3 DEF Arrive, TypeOK
<1>5. Taken(s)' = Taken(s) /\ \A f \in Frames : f.n \in Nat
  BY <1>1, SessionTyped DEF Taken
<1>6. ASSUME NEW i \in 1 .. k
      PROVE  /\ w[i].of = s /\ Proper(w[i]) /\ w[i].n < Sent(s)
             /\ \A j \in 1 .. k : i < j => w[i].n < w[j].n
             /\ \A f \in decrypting[s] : f.n < w[i].n
             /\ \A j \in 1 .. Len(Taken(s)) : Taken(s)[j].n < w[i].n
  BY DEF Session, Pending
<1>7. /\ h.of = s /\ Proper(h) /\ h.n < Sent(s)
      /\ \A j \in 1 .. k : 1 < j => h.n < w[j].n
      /\ \A j \in 1 .. Len(Taken(s)) : Taken(s)[j].n < h.n
      /\ relayReceiver[s].file = s => 0 < h.n
  <2>1. 1 \in 1 .. k
    BY <1>2
  <2> QED BY <1>6, <2>1 DEF Session, Opened
<1>8. Pending(s)'
  <2>1. ASSUME NEW i \in 1 .. k - 1
        PROVE  /\ relayWire'[s][i].of = s /\ Proper(relayWire[s][i])' /\ relayWire'[s][i].n < Sent(s)
               /\ \A j \in 1 .. k - 1 : i < j => relayWire'[s][i].n < relayWire'[s][j].n
               /\ \A f \in decrypting'[s] : f.n < relayWire'[s][i].n
               /\ \A j \in 1 .. Len(Taken(s)) : Taken(s)[j].n < relayWire'[s][i].n
    <3>1. i + 1 \in 1 .. k /\ 1 < i + 1 /\ \A j \in 1 .. k - 1 : j + 1 \in 1 .. k /\ (i < j => i + 1 < j + 1)
      BY <1>2
    <3>2. relayWire'[s][i] = w[i + 1] /\ \A j \in 1 .. k - 1 : relayWire'[s][j] = w[j + 1]
      BY <1>3
    <3>3. Proper(relayWire[s][i])'
      BY <1>1, <1>6, <3>1, <3>2, ProperStill
    <3>4. \A f \in decrypting'[s] : f.n < relayWire'[s][i].n
      BY <1>4, <1>6, <1>7, <3>1, <3>2
    <3> QED BY <1>6, <3>1, <3>2, <3>3, <3>4
  <2>2. \A f \in decrypting'[s] : f.of = s /\ Proper(f)' /\ f.n < Sent(s)
    BY <1>1, <1>4, <1>7, ProperStill DEF Session, Pending
  <2>3. Len(relayWire'[s]) = k - 1
    BY <1>3
  <2> QED BY <1>5, <2>1, <2>2, <2>3 DEF Pending
<1>9. Once(s)'
  <2>1. ASSUME NEW i \in 1 .. Len(Taken(s)), NEW f \in decrypting'[s] PROVE f.n # Taken(s)[i].n
    <3>1. f \in decrypting[s] \/ f = h
      BY <1>4
    <3>2. Taken(s)[i].n < h.n /\ h.n \in Nat /\ Taken(s)[i].n \in Nat
      BY <1>1, <1>3, <1>5, <1>7, SessionTyped
    <3> QED BY <3>1, <3>2 DEF Session, Once
  <2> QED BY <1>1, <1>5, <2>1 DEF Session, Once, Chunk
<1>10. Opened(s)'
  <2>1. relayReceiver[s].file = s => \A f \in decrypting'[s] : 0 < f.n
    BY <1>4, <1>7 DEF Session, Opened
  <2>2. relayReceiver[s].file = s => \A i \in 1 .. k - 1 : 0 < relayWire'[s][i].n
    <3>1. \A i \in 1 .. k - 1 : i + 1 \in 1 .. k /\ relayWire'[s][i] = w[i + 1]
      BY <1>2, <1>3
    <3> QED BY <3>1 DEF Session, Opened
  <2>3. Len(relayWire'[s]) = k - 1
    BY <1>3
  <2> QED BY <1>1, <2>1, <2>2, <2>3 DEF Session, Opened
<1>11. "reorder" \notin trouble'[s] => InOrder(s)'
  BY <1>1, <1>4, <1>5, <1>7 DEF Session, InOrder
<1> QED BY <1>8, <1>9, <1>10, <1>11 DEF Session

(* A frame is decrypted and taken.                                          *)
LEMMA SessionTake ==
  ASSUME PhaseInv, NEW s \in Sends, Session(s), NEW f \in decrypting[s], Decrypted(s, f),
         Sent(s)' = Sent(s)
  PROVE  Session(s)'
<1>1. /\ TypeOK /\ size' = size /\ relayWire' = relayWire
      /\ decrypting'[s] = decrypting[s] \ {f}
      /\ "reorder" \in trouble[s] => "reorder" \in trouble'[s]
  BY DEF PhaseInv, Decrypted, sender, TypeOK
<1>2. f \in Frames /\ f.of = s /\ Proper(f) /\ f.n < Sent(s) /\ f.n \in Nat
  BY <1>1, SessionTyped DEF Session, Pending
<1>3. /\ size[s] \in Nat /\ f.n \in 0 .. size[s] + 1
      /\ f.type = "metadata" <=> f.n = 0
      /\ f.type = "eof" <=> f.n = size[s] + 1
      /\ f.n \in 1 .. size[s] => f = Chunk(s, f.n)
  <2>1. size[s] \in Nat /\ f.n \in 0 .. size[s] + 1 /\ f = FrameAt(s, f.n)
    BY <1>1, <1>2, SizeNat DEF Proper
  <2> QED BY <1>1, <2>1, FrameTyped
<1>4. \A g \in decrypting'[s] : g \in decrypting[s] /\ g.of = s /\ Proper(g) /\ g.n \in Nat /\ g.n # f.n
  <2>1. \A g \in decrypting[s] : g.of = s /\ Proper(g) /\ g.n \in Nat
    BY <1>1, SessionTyped DEF Session, Pending
  <2> QED BY <1>1, <1>2, <2>1, SamePlace
<1>5. "reorder" \notin trouble'[s] => \A g \in decrypting'[s] : f.n < g.n
  <2>1. "reorder" \notin trouble'[s] => \A g \in decrypting[s] : ~(g.n < f.n)
    BY <1>1 DEF Decrypted, TypeOK
  <2> QED BY <1>2, <1>4, <2>1
<1>6. Sent(s) \in Nat
  BY SentNat
<1>7. CASE f.type = "metadata" /\ relayReceiver' = [relayReceiver EXCEPT ![s].file = f.of]
  <2>1. relayReceiver'[s].file = s /\ Taken(s)' = Taken(s)
    BY <1>1, <1>2, <1>7 DEF TypeOK, Taken, Receivers
  <2>2. Pending(s)'
    BY <1>1, <1>4, <2>1, ProperStill DEF Session, Pending
  <2>3. Once(s)'
    BY <1>1, <1>4, <2>1 DEF Session, Once, Chunk
  <2>4. Opened(s)'
    <3>1. f.n = 0
      BY <1>3, <1>7
    <3>2. \A g \in decrypting'[s] : 0 < g.n
      BY <1>4, <3>1
    <3>3. \A i \in 1 .. Len(relayWire[s]) : 0 < relayWire[s][i].n
      BY <3>1 DEF Session, Pending
    <3> QED BY <1>1, <1>2, <2>1, <3>1, <3>2, <3>3 DEF Opened
  <2>5. "reorder" \notin trouble'[s] => InOrder(s)'
    BY <1>1, <1>4, <2>1 DEF Session, InOrder
  <2> QED BY <2>2, <2>3, <2>4, <2>5 DEF Session
<1>8. CASE f.type = "chunk" /\ relayReceiver' = [relayReceiver EXCEPT ![s].chunks = Append(@, f)]
  <2> PICK c \in Seq(Frames), k \in Nat : c = Taken(s) /\ k = Len(c)
    BY <1>1, SessionTyped
  <2>1. relayReceiver'[s].file = relayReceiver[s].file /\ Taken(s)' = Append(c, f)
    BY <1>1, <1>8 DEF TypeOK, Taken, Receivers
  <2>2. /\ Len(Append(c, f)) = k + 1 /\ Append(c, f)[k + 1] = f
        /\ \A i \in 1 .. k : Append(c, f)[i] = c[i]
    BY <1>2, AppendProperties
  <2>3. f.n \in 1 .. size[s] /\ f = Chunk(s, f.n)
    BY <1>3, <1>8
  <2>4. \A i \in 1 .. k : c[i].n \in Nat
    BY <1>1, SessionTyped
  <2>5. Pending(s)'
    <3>1. \A i \in 1 .. Len(relayWire[s]), j \in 1 .. k + 1 : Append(c, f)[j].n < relayWire[s][i].n
      <4>1. \A i \in 1 .. Len(relayWire[s]) : f.n < relayWire[s][i].n
                                              /\ \A j \in 1 .. k : c[j].n < relayWire[s][i].n
        BY DEF Session, Pending
      <4> QED BY <2>2, <4>1
    <3> QED BY <1>1, <1>4, <2>1, <2>2, <3>1, ProperStill DEF Session, Pending
  <2>6. Once(s)'
    <3>1. ASSUME NEW i \in 1 .. k
          PROVE  /\ c[i].n \in 1 .. size[s] /\ c[i] = Chunk(s, c[i].n) /\ c[i].n < Sent(s)
                 /\ \A j \in 1 .. k : i # j => c[i].n # c[j].n
                 /\ \A g \in decrypting'[s] : g.n # c[i].n
                 /\ c[i].n # f.n
      BY <1>4 DEF Session, Once
    <3>2. ASSUME NEW i \in 1 .. k + 1
          PROVE  /\ Append(c, f)[i].n \in 1 .. size[s]
                 /\ Append(c, f)[i] = Chunk(s, Append(c, f)[i].n)
                 /\ Append(c, f)[i].n < Sent(s)
                 /\ \A j \in 1 .. k + 1 : i # j => Append(c, f)[i].n # Append(c, f)[j].n
                 /\ \A g \in decrypting'[s] : g.n # Append(c, f)[i].n
      <4>1. CASE i \in 1 .. k
        BY <2>2, <3>1, <4>1
      <4>2. CASE i = k + 1
        BY <1>2, <1>4, <2>2, <2>3, <3>1, <4>2
      <4> QED BY <4>1, <4>2
    <3> QED BY <1>1, <2>1, <2>2, <3>2 DEF Once, Chunk
  <2>7. Opened(s)'
    BY <1>1, <1>4, <2>1 DEF Session, Opened
  <2>8. ASSUME "reorder" \notin trouble'[s] PROVE InOrder(s)'
    <3>1. "reorder" \notin trouble[s]
      BY <1>1, <2>8
    <3>2. ASSUME NEW i \in 1 .. k
          PROVE  /\ i <= c[i].n /\ c[i].n < f.n
                 /\ \A j \in i .. k : j - i <= c[j].n - c[i].n
                 /\ \A g \in decrypting'[s] : c[i].n < g.n
      BY <1>4, <3>1 DEF Session, InOrder
    <3>3. k + 1 <= f.n
      <4>1. CASE k = 0
        BY <2>3, <4>1
      <4>2. CASE k # 0
        <5>1. k \in 1 .. k
          BY <4>2
        <5>2. k <= c[k].n /\ c[k].n < f.n /\ c[k].n \in Nat
          BY <2>4, <3>2, <5>1
        <5> QED BY <1>2, <5>2
      <4> QED BY <4>1, <4>2
    <3>4. ASSUME NEW i \in 1 .. k PROVE k + 1 - i <= f.n - c[i].n
      <4>1. k \in 1 .. k /\ k \in i .. k
        OBVIOUS
      <4>2. k - i <= c[k].n - c[i].n /\ c[k].n < f.n /\ c[k].n \in Nat /\ c[i].n \in Nat
        BY <2>4, <3>2, <4>1
      <4> QED BY <1>2, <4>2
    <3>5. ASSUME NEW i \in 1 .. k + 1
          PROVE  /\ i <= Append(c, f)[i].n
                 /\ \A j \in i .. k + 1 : j - i <= Append(c, f)[j].n - Append(c, f)[i].n
                 /\ \A g \in decrypting'[s] : Append(c, f)[i].n < g.n
      <4>1. CASE i \in 1 .. k
        <5>1. Append(c, f)[i] = c[i]
          BY <2>2, <4>1
        <5>2. ASSUME NEW j \in i .. k + 1 PROVE j - i <= Append(c, f)[j].n - c[i].n
          <6>1. CASE j \in i .. k
            <7>1. j \in 1 .. k
              BY <4>1, <6>1
            <7> QED BY <2>2, <3>2, <4>1, <6>1, <7>1
          <6>2. CASE j = k + 1
            BY <2>2, <3>4, <4>1, <6>2
          <6> QED BY <4>1, <6>1, <6>2
        <5> QED BY <3>2, <4>1, <5>1, <5>2
      <4>2. CASE i = k + 1
        <5>1. Append(c, f)[i] = f
          BY <2>2, <4>2
        <5>2. ASSUME NEW j \in i .. k + 1 PROVE j = i
          BY <4>2
        <5> QED BY <1>2, <1>5, <2>8, <3>3, <4>2, <5>1, <5>2
      <4> QED BY <4>1, <4>2
    <3> QED BY <2>1, <2>2, <3>5 DEF InOrder
  <2> QED BY <2>5, <2>6, <2>7, <2>8 DEF Session
<1>9. CASE f.type = "eof" /\ UNCHANGED relayReceiver
  BY <1>1, <1>6, <1>9, SessionLess
<1> QED BY <1>7, <1>8, <1>9 DEF Decrypted

(* A send never goes back.                                                  *)
LEMMA SentGrows ==
  ASSUME PhaseInv, [Next]_vars, NEW t \in Sends
  PROVE  size' = size /\ Sent(t)' \in Nat /\ Sent(t) <= Sent(t)'
<1> USE DEF sender, channel, relay
<1>1. /\ size[t] \in Nat /\ offset[t] \in Nat /\ offset[t] <= size[t]
      /\ phase \in [Sends -> {"idle", "reading", "waiting", "metadata", "check", "chunk", "eof",
                              "done", "failed"}]
      /\ offset \in [Sends -> Nat]
      /\ listener # None => phase[listener] = "waiting"
  BY SizeNat DEF PhaseInv, TypeOK
<1>2. size' = size
  BY DEF Next, vars, SendDirect, ChunkRead, ReadFails, SendRelayed, RelayStep, MetadataSent,
         CheckSocket, ChunkSent, EofSent, CutRelay, Arrive, Decrypted, DecryptFails, Transmit,
         Deliver, CloseChannel
<1>3. Sent(t)' \in Nat
  <2>1. PhaseInv'
    BY PhaseNext
  <2>2. size'[t] \in Nat /\ offset'[t] \in Nat
    BY <1>1, <1>2, <2>1 DEF PhaseInv, TypeOK
  <2> QED BY <2>2 DEF Sent
<1>4. Sent(t) \in Nat /\ (phase[t] \in {"idle", "reading", "waiting", "metadata"} => Sent(t) = 0)
  BY <1>1 DEF Sent
<1>5. CASE phase'[t] = phase[t] /\ offset'[t] = offset[t]
  BY <1>2, <1>3, <1>4, <1>5 DEF Sent
<1>6. CASE phase[t] \in {"idle", "reading", "waiting", "metadata"}
  BY <1>2, <1>3, <1>4, <1>6
<1>7. CASE phase[t] \in {"check", "chunk"} /\ phase'[t] = "failed"
  BY <1>1, <1>2, <1>3, <1>7 DEF Sent
<1>8. CASE phase[t] = "check" /\ phase'[t] = "chunk" /\ offset'[t] = offset[t]
  BY <1>1, <1>2, <1>3, <1>8 DEF Sent
<1>9. CASE phase[t] = "chunk" /\ phase'[t] \in {"check", "eof"} /\ offset'[t] = offset[t] + 1
  BY <1>1, <1>2, <1>3, <1>9 DEF Sent
<1>10. CASE phase[t] = "eof" /\ phase'[t] = "done"
  <2>1. offset[t] = size[t]
    BY <1>10 DEF PhaseInv
  <2> QED BY <1>1, <1>2, <1>3, <1>10, <2>1 DEF Sent
<1>11. ASSUME NEW s \in Sends, SendDirect(s) \/ (ChunkRead(s) /\ open)
       PROVE  phase[s] \in {"idle", "reading"} /\ \A u \in Sends : u # s => phase'[u] = phase[u] /\ offset'[u] = offset[u]
  <2>1. PICK o : Queues(s, o)
    BY <1>11, SendStarts, SendGoesOn
  <2> QED BY <1>1, <1>11, <2>1 DEF SendDirect, ChunkRead, Queues
<1>12. ASSUME NEW s \in Sends, SendDirect(s) \/ ChunkRead(s) PROVE Sent(t) <= Sent(t)'
  <2>1. CASE t # s
    <3>1. phase'[t] = phase[t] /\ offset'[t] = offset[t]
      BY <1>1, <1>11, <1>12, <2>1 DEF ChunkRead
    <3> QED BY <1>5, <3>1
  <2>2. CASE t = s
    BY <1>6, <1>12, <2>2 DEF SendDirect, ChunkRead
  <2> QED BY <2>1, <2>2
<1>15. ASSUME NEW s \in Sends, NEW p, phase' = [phase EXCEPT ![s] = p], s # t,
              offset' = offset \/ \E o : offset' = [offset EXCEPT ![s] = o]
       PROVE  Sent(t) <= Sent(t)'
  <2>1. phase'[t] = phase[t] /\ offset'[t] = offset[t]
    BY <1>1, <1>15
  <2> QED BY <1>5, <2>1
<1>16. ASSUME NEW s \in Sends, ReadFails(s) \/ SendRelayed(s) PROVE Sent(t) <= Sent(t)'
  BY <1>1, <1>6, <1>7, <1>15, <1>16 DEF ReadFails, SendRelayed
<1>17. ASSUME NEW s \in Sends, MetadataSent(s) \/ CheckSocket(s) PROVE Sent(t) <= Sent(t)'
  BY <1>1, <1>6, <1>7, <1>8, <1>15, <1>17 DEF MetadataSent, CheckSocket
<1>18. ASSUME NEW s \in Sends, ChunkSent(s) \/ EofSent(s) PROVE Sent(t) <= Sent(t)'
  BY <1>1, <1>9, <1>10, <1>15, <1>18 DEF ChunkSent, EofSent, While
<1>13. CASE Transmit
  <2>1. CASE t = listener /\ listener # None
    BY <1>1, <1>2, <1>3, <1>6, <2>1
  <2>2. CASE ~(t = listener /\ listener # None)
    BY <1>1, <1>5, <1>13, <2>2 DEF Transmit
  <2> QED BY <2>1, <2>2
<1>14. CASE UNCHANGED sender
  BY <1>5, <1>14
<1> QED BY <1>2, <1>3, <1>12, <1>13, <1>14, <1>16, <1>17, <1>18
       DEF Next, RelayStep, vars, CutRelay, Arrive, Decrypted, DecryptFails, Deliver, CloseChannel

(* A step about one send leaves the sessions of the others alone.           *)
LEMMA RelayNext ==
  ASSUME PhaseInv, RelayInv, [Next]_vars PROVE RelayInv'
<1> USE DEF sender, channel, relay
<1> SUFFICES ASSUME NEW t \in Sends PROVE Session(t)'
  BY DEF RelayInv
<1>1. Session(t) /\ size' = size /\ Sent(t)' \in Nat /\ Sent(t) <= Sent(t)'
  BY SentGrows DEF RelayInv
<1>t. /\ size[t] \in Nat /\ offset[t] \in Nat /\ relayWire \in [Sends -> Seq(Frames)]
      /\ decrypting \in [Sends -> SUBSET Frames] /\ relayReceiver \in [Sends -> Receivers]
      /\ trouble \in [Sends -> SUBSET {"overlap", "reorder", "cut"}]
      /\ phase \in [Sends -> {"idle", "reading", "waiting", "metadata", "check", "chunk", "eof",
                              "done", "failed"}]
      /\ offset \in [Sends -> Nat]
  BY SizeNat DEF PhaseInv, TypeOK
<1>2. CASE /\ relayReceiver'[t] = relayReceiver[t]
           /\ relayWire'[t] = relayWire[t] \/ relayWire'[t] = <<>>
           /\ decrypting'[t] \subseteq decrypting[t]
           /\ "reorder" \in trouble[t] => "reorder" \in trouble'[t]
  BY <1>1, <1>2, SessionLess
<1>3. ASSUME NEW s \in Sends, SendDirect(s) \/ ChunkRead(s) \/ ReadFails(s) \/ SendRelayed(s)
                              \/ CheckSocket(s)
      PROVE  Session(t)'
  BY <1>2, <1>3, <1>t DEF SendDirect, ChunkRead, ReadFails, SendRelayed, CheckSocket
<1>4. ASSUME NEW s \in Sends, NEW f, Put(s, f), s # t, UNCHANGED <<decrypting, relayReceiver, trouble>>
      PROVE  Session(t)'
  BY <1>2, <1>4, <1>t DEF Put
<1>5. ASSUME NEW s \in Sends, MetadataSent(s) PROVE Session(t)'
  <2>1. UNCHANGED <<decrypting, relayReceiver, trouble>> /\ Put(s, Meta(s)) /\ phase[s] = "metadata"
        /\ phase' = [phase EXCEPT ![s] = While(s, 0)] /\ offset' = offset
    BY <1>5 DEF MetadataSent
  <2>2. CASE s = t
    <3>1. Sent(t) = 0 /\ 0 < Sent(t)' /\ FrameAt(t, 0) = Meta(t) /\ 0 \in 0 .. size[t] + 1
      BY <1>t, <2>1, <2>2 DEF Sent, While, FrameAt
    <3> QED BY <1>1, <2>1, <2>2, <3>1, SessionPut
  <2> QED BY <1>4, <2>1, <2>2
<1>6. ASSUME NEW s \in Sends, ChunkSent(s) PROVE Session(t)'
  <2>1. UNCHANGED <<decrypting, relayReceiver, trouble>> /\ Put(s, Chunk(s, offset[s] + 1))
        /\ phase[s] = "chunk" /\ phase' = [phase EXCEPT ![s] = While(s, offset'[s])]
        /\ offset' = [offset EXCEPT ![s] = @ + 1]
    BY <1>6 DEF ChunkSent
  <2>2. CASE s = t
    <3>1. offset[t] < size[t]
      BY <2>1, <2>2 DEF PhaseInv
    <3>2. Sent(t) = offset[t] + 1 /\ offset[t] + 1 < Sent(t)' /\ offset[t] + 1 \in 0 .. size[t] + 1
          /\ FrameAt(t, offset[t] + 1) = Chunk(t, offset[t] + 1)
      BY <1>t, <2>1, <2>2, <3>1 DEF Sent, While, FrameAt
    <3> QED BY <1>1, <2>1, <2>2, <3>2, SessionPut
  <2> QED BY <1>4, <2>1, <2>2
<1>7. ASSUME NEW s \in Sends, EofSent(s) PROVE Session(t)'
  <2>1. UNCHANGED <<decrypting, relayReceiver, trouble>> /\ Put(s, Eof(s))
        /\ phase[s] = "eof" /\ phase' = [phase EXCEPT ![s] = "done"] /\ UNCHANGED <<size, offset>>
    BY <1>7 DEF EofSent
  <2>2. CASE s = t
    <3>1. offset[t] = size[t]
      BY <2>1, <2>2 DEF PhaseInv
    <3>2. Sent(t) = size[t] + 1 /\ size[t] + 1 < Sent(t)' /\ size[t] + 1 \in 0 .. size[t] + 1
          /\ FrameAt(t, size[t] + 1) = Eof(t)
      BY <1>t, <2>1, <2>2, <3>1 DEF Sent, FrameAt
    <3> QED BY <1>1, <2>1, <2>2, <3>2, SessionPut
  <2> QED BY <1>4, <2>1, <2>2
<1>8. ASSUME NEW s \in Sends, CutRelay(s) PROVE Session(t)'
  BY <1>2, <1>8, <1>t DEF CutRelay
<1>9. ASSUME NEW s \in Sends, Arrive(s) PROVE Session(t)'
  <2>1. CASE s = t
    <3>1. Sent(t)' = Sent(t)
      BY <1>9 DEF Arrive, Sent
    <3> QED BY <1>1, <1>9, <2>1, <3>1, SessionArrive
  <2>2. CASE s # t
    BY <1>2, <1>9, <1>t, <2>2 DEF Arrive
  <2> QED BY <2>1, <2>2
<1>10. ASSUME NEW s \in Sends, NEW f \in decrypting[s], Decrypted(s, f) PROVE Session(t)'
  <2>1. CASE s = t
    <3>1. Sent(t)' = Sent(t)
      BY <1>10 DEF Decrypted, Sent
    <3> QED BY <1>1, <1>10, <2>1, <3>1, SessionTake
  <2>2. CASE s # t
    <3>1. relayReceiver'[t] = relayReceiver[t] /\ relayWire' = relayWire /\ decrypting'[t] = decrypting[t]
          /\ trouble'[t] = trouble[t]
      BY <1>10, <1>t, <2>2 DEF Decrypted
    <3> QED BY <1>2, <3>1
  <2> QED BY <2>1, <2>2
<1>11. ASSUME NEW s \in Sends, NEW f \in decrypting[s], DecryptFails(s, f) PROVE Session(t)'
  BY <1>2, <1>11, <1>t DEF DecryptFails
<1>12. CASE Transmit \/ Deliver \/ CloseChannel
  <2>1. UNCHANGED relay
    BY <1>12 DEF Transmit, Deliver, CloseChannel
  <2>2. trouble' = trouble \/ CloseChannel
    BY <1>12 DEF Transmit, Deliver
  <2>3. "reorder" \in trouble[t] => "reorder" \in trouble'[t]
    <3>1. CASE CloseChannel
      <4>1. trouble'[t] \in {trouble[t], trouble[t] \cup {"cut"}}
        BY <3>1 DEF CloseChannel
      <4> QED BY <4>1
    <3> QED BY <2>2, <3>1
  <2> QED BY <1>2, <2>1, <2>3
<1>13. CASE UNCHANGED vars
  BY <1>2, <1>13 DEF vars
<1> QED BY <1>3, <1>5, <1>6, <1>7, <1>8, <1>9, <1>10, <1>11, <1>12, <1>13 DEF Next, RelayStep

-----------------------------------------------------------------------------
(* What happened to a send stays on record.                                 *)
LEMMA TroubleGrows ==
  ASSUME PhaseInv, [Next]_vars, NEW t \in Sends PROVE trouble[t] \subseteq trouble'[t]
<1>1. trouble \in [Sends -> SUBSET {"overlap", "reorder", "cut"}]
  BY DEF PhaseInv, TypeOK
<1>2. CASE trouble' = trouble
  BY <1>2
<1>3. ASSUME NEW s \in Sends, NEW w, trouble' = [trouble EXCEPT ![s] = @ \cup {w}]
      PROVE  trouble[t] \subseteq trouble'[t]
  BY <1>1, <1>3
<1>4. ASSUME NEW s \in Sends, SendDirect(s) PROVE trouble[t] \subseteq trouble'[t]
  <2>1. trouble'[t] \in {trouble[t], trouble[t] \cup {"overlap"}}
    BY <1>4 DEF SendDirect
  <2> QED BY <2>1
<1>5. CASE CloseChannel
  <2>1. trouble'[t] \in {trouble[t], trouble[t] \cup {"cut"}}
    BY <1>5 DEF CloseChannel
  <2> QED BY <2>1
<1>6. ASSUME NEW s \in Sends, NEW f \in decrypting[s], Decrypted(s, f) \/ DecryptFails(s, f)
      PROVE  trouble[t] \subseteq trouble'[t]
  BY <1>2, <1>3, <1>6 DEF Decrypted, DecryptFails
<1>7. ASSUME NEW s \in Sends, CutRelay(s) PROVE trouble[t] \subseteq trouble'[t]
  BY <1>3, <1>7 DEF CutRelay
<1>8. ASSUME NEW s \in Sends, ChunkRead(s) \/ ReadFails(s) \/ SendRelayed(s) \/ RelayStep(s) \/ Arrive(s)
      PROVE  trouble' = trouble
  BY <1>8 DEF ChunkRead, ReadFails, SendRelayed, RelayStep, MetadataSent, CheckSocket, ChunkSent,
         EofSent, Arrive
<1>9. ASSUME Transmit \/ Deliver PROVE trouble' = trouble
  BY <1>9 DEF Transmit, Deliver
<1> QED BY <1>2, <1>4, <1>5, <1>6, <1>7, <1>8, <1>9 DEF Next, vars

(* As many different chunks as a file has are all of them.                  *)
LEMMA AllChunks ==
  ASSUME NEW m \in Nat, NEW h \in [1 .. m -> 1 .. m], \A i, j \in 1 .. m : i # j => h[i] # h[j],
         NEW n \in 1 .. m
  PROVE  \E j \in 1 .. m : h[j] = n
<1> SUFFICES ASSUME \A j \in 1 .. m : h[j] # n PROVE FALSE
  OBVIOUS
<1>1. IsFiniteSet(1 .. m) /\ Cardinality(1 .. m) = m
  BY FS_Interval
<1>2. IsFiniteSet((1 .. m) \ {n}) /\ Cardinality((1 .. m) \ {n}) = m - 1
  BY <1>1, FS_RemoveElement
<1>3. h \in [1 .. m -> (1 .. m) \ {n}] /\ m - 1 < m
  OBVIOUS
<1>4. \E x, y \in 1 .. m : x # y /\ h[x] = h[y]
  BY <1>1, <1>2, <1>3, FS_PigeonHole
<1> QED BY <1>4

(* What a relay session has taken, once it is as long as the file.          *)
LEMMA TakenWhole ==
  ASSUME TypeOK, NEW s \in Sends, Session(s), Len(Taken(s)) = size[s]
  PROVE  /\ \A i \in 1 .. size[s] : \E j \in DOMAIN Taken(s) : Taken(s)[j] = Chunk(s, i)
         /\ "reorder" \notin trouble[s] => Taken(s) = Whole(s)
<1> PICK c \in Seq(Frames), m \in Nat : c = Taken(s) /\ m = size[s] /\ m = Len(c)
  BY SessionTyped, SizeNat
<1>1. \A i \in 1 .. m : /\ c[i].n \in 1 .. m /\ c[i] = Chunk(s, c[i].n)
                        /\ \A j \in 1 .. m : i # j => c[i].n # c[j].n
  BY DEF Session, Once
<1>2. DOMAIN c = 1 .. m
  BY LenProperties
<1>3. ASSUME NEW n \in 1 .. m PROVE \E j \in 1 .. m : c[j] = Chunk(s, n)
  <2> DEFINE h == [i \in 1 .. m |-> c[i].n]
  <2>1. h \in [1 .. m -> 1 .. m] /\ \A i, j \in 1 .. m : i # j => h[i] # h[j]
    BY <1>1
  <2>2. \A j \in 1 .. m : h[j] = c[j].n
    OBVIOUS
  <2> HIDE DEF h
  <2>3. PICK j \in 1 .. m : h[j] = n
    BY <2>1, AllChunks
  <2> QED BY <1>1, <2>2, <2>3
<1>4. ASSUME "reorder" \notin trouble[s] PROVE c = Whole(s)
  <2>1. ASSUME NEW i \in 1 .. m PROVE c[i] = Chunk(s, i)
    <3>1. m \in 1 .. m /\ m \in i .. m
      OBVIOUS
    <3>2. i <= c[i].n /\ m - i <= c[m].n - c[i].n
      BY <1>4, <2>1, <3>1 DEF Session, InOrder
    <3>3. c[m].n <= m /\ c[m].n \in Nat /\ c[i].n \in Nat
      BY <1>1, <3>1
    <3>4. c[i].n = i
      BY <3>2, <3>3
    <3> QED BY <1>1, <3>4
  <2> QED BY <2>1, AllOfIt
<1> QED BY <1>2, <1>3, <1>4

(* What is handed out is what was sent.                                     *)
Genuine(f) ==
  \/ f.chunks = Whole(f.file)
  \/ f.path = "direct" /\ "overlap" \in trouble[f.file]
  \/ /\ f.path = "relay" /\ "reorder" \in trouble[f.file]
     /\ Len(f.chunks) = size[f.file]
     /\ \A i \in 1 .. size[f.file] : \E j \in DOMAIN f.chunks : f.chunks[j] = Chunk(f.file, i)

LEMMA IntactNext ==
  ASSUME PhaseInv, DirectInv, RelayInv, Intact, [Next]_vars PROVE Intact'
<1> USE DEF sender, channel, relay
<1>t. TypeOK /\ received \subseteq [file : Sends, path : {"direct", "relay"}, chunks : Seq(Frames)]
  BY DEF PhaseInv, TypeOK
<1>1. ASSUME NEW s \in Sends PROVE size'[s] = size[s] /\ Whole(s)' = Whole(s) /\ trouble[s] \subseteq trouble'[s]
  <2>1. size' = size
    BY SentGrows
  <2> QED BY <2>1, TroubleGrows DEF Whole, Chunk
<1>2. ASSUME NEW g, g.file \in Sends, Genuine(g) PROVE Genuine(g)'
  BY <1>1, <1>2 DEF Genuine, Chunk
<1>3. CASE received' = received
  BY <1>t, <1>2, <1>3 DEF Intact, Genuine
<1>4. ASSUME NEW g, g.file \in Sends, received' \subseteq received \cup {g}, Genuine(g) PROVE Intact'
  BY <1>t, <1>2, <1>4 DEF Intact, Genuine
<1>5. ASSUME Deliver PROVE Intact'
  <2>1. PICK f \in Frames, k \in Nat \ {0} : Handed(f) /\ ReceiverInv
    BY <1>5, Delivery
  <2> DEFINE g == [file |-> receiver.file, path |-> "direct", chunks |-> receiver.chunks]
  <2>2. \/ received' = received
        \/ /\ received' = received \cup {g} /\ receiver.file # None
           /\ Len(receiver.chunks) = size[receiver.file]
    BY <2>1 DEF Handed, OnMetadata, OnChunk, FinalizeTransfer
  <2>3. CASE /\ received' = received \cup {g} /\ receiver.file # None
             /\ Len(receiver.chunks) = size[receiver.file]
    <3>1. receiver.file \in Sends /\ receiver.chunks \in Seq(Frames)
      BY <1>t, <2>3 DEF TypeOK, Receivers
    <3>2. receiver.file \in Overlapped \/ receiver.chunks = Whole(receiver.file)
      BY <1>t, <2>1, <2>3, <3>1, AllOfIt DEF ReceiverInv
    <3>3. Genuine(g) /\ g.file \in Sends
      BY <3>1, <3>2 DEF Genuine, Overlapped
    <3> HIDE DEF g
    <3> QED BY <1>4, <2>3, <3>3
  <2> QED BY <1>3, <2>2, <2>3
<1>6. ASSUME NEW s \in Sends, NEW f \in decrypting[s], Decrypted(s, f) PROVE Intact'
  <2> DEFINE g == [file |-> s, path |-> "relay", chunks |-> Taken(s)]
  <2>1. Session(s)
    BY DEF RelayInv
  <2>2. \/ received' = received
        \/ received' = received \cup {g} /\ Len(Taken(s)) = size[s]
    BY <1>6, <2>1 DEF Decrypted, Session, Opened, Taken
  <2>3. CASE received' = received \cup {g} /\ Len(Taken(s)) = size[s]
    <3>1. /\ \A i \in 1 .. size[s] : \E j \in DOMAIN Taken(s) : Taken(s)[j] = Chunk(s, i)
          /\ "reorder" \notin trouble[s] => Taken(s) = Whole(s)
      BY <1>t, <2>1, <2>3, TakenWhole
    <3>2. Genuine(g) /\ g.file = s
      BY <2>3, <3>1 DEF Genuine
    <3> HIDE DEF g
    <3> QED BY <1>4, <2>3, <3>2
  <2> QED BY <1>3, <2>2, <2>3
<1>7. ASSUME NEW s \in Sends,
             \/ SendDirect(s) \/ ChunkRead(s) \/ ReadFails(s) \/ SendRelayed(s) \/ RelayStep(s)
             \/ CutRelay(s) \/ Arrive(s) \/ \E f \in decrypting[s] : DecryptFails(s, f)
      PROVE  received' = received
  BY <1>7 DEF SendDirect, ChunkRead, ReadFails, SendRelayed, RelayStep, MetadataSent, CheckSocket,
         ChunkSent, EofSent, CutRelay, Arrive, DecryptFails
<1>8. ASSUME Transmit \/ CloseChannel PROVE received' = received
  BY <1>8 DEF Transmit, CloseChannel
<1> QED BY <1>3, <1>5, <1>6, <1>7, <1>8 DEF Next, vars

-----------------------------------------------------------------------------
(* Nothing is missing: the session of an undisturbed send holds every frame *)
(* that was sent and not yet taken.                                         *)
LEMMA RelayedSame ==
  ASSUME NEW t \in Sends, Relayed(t), size' = size, Sent(t)' = Sent(t),
         guestOpen'[t] = guestOpen[t], hostOpen'[t] = hostOpen[t],
         phase'[t] \in Labels => phase[t] \in Labels,
         decrypting'[t] = decrypting[t], relayWire'[t] = relayWire[t],
         relayReceiver'[t] = relayReceiver[t]
  PROVE  Relayed(t)'
<1>1. Taken(t)' = Taken(t) /\ Processed(t)' = Processed(t)
  BY DEF Taken, Processed
<1>2. \A n : FrameAt(t, n)' = FrameAt(t, n)
  BY DEF FrameAt, Meta, Eof, Chunk
<1>3. \A f : InSession(t, f)' <=> InSession(t, f)
  BY DEF InSession
<1> QED BY <1>1, <1>2, <1>3 DEF Relayed

LEMMA RelayedPut ==
  ASSUME PhaseInv, NEW t \in Sends, Relayed(t), hostOpen[t],
         NEW n \in 0 .. size[t] + 1, n = Sent(t), Put(t, FrameAt(t, n)), Sent(t)' = n + 1,
         phase'[t] \in Labels => hostOpen'[t], UNCHANGED <<size, guestOpen, decrypting, relayReceiver>>
  PROVE  Relayed(t)'
<1> PICK w \in Seq(Frames), k \in Nat : w = relayWire[t] /\ k = Len(w)
  BY SessionTyped DEF PhaseInv
<1> PICK f : f = FrameAt(t, n)
  OBVIOUS
<1>1. f \in Frames /\ relayWire \in [Sends -> Seq(Frames)] /\ size[t] \in Nat
  BY FrameTyped DEF PhaseInv, TypeOK
<1>2. Taken(t)' = Taken(t) /\ Processed(t)' = Processed(t)
  BY DEF Taken, Processed
<1>3. \A m : FrameAt(t, m)' = FrameAt(t, m)
  BY DEF FrameAt, Meta, Eof, Chunk
<1>4. /\ Len(relayWire'[t]) = k + 1 /\ relayWire'[t][k + 1] = f
      /\ \A i \in 1 .. k : relayWire'[t][i] = w[i]
  <2>1. relayWire'[t] = Append(w, f)
    BY <1>1 DEF Put
  <2> QED BY <1>1, <2>1, AppendProperties
<1>5. ASSUME NEW g, InSession(t, g) PROVE InSession(t, g)'
  <2>1. CASE g \in decrypting[t]
    BY <2>1 DEF InSession
  <2>2. ASSUME NEW i \in 1 .. k, w[i] = g PROVE InSession(t, g)'
    <3>1. i \in 1 .. k + 1 /\ relayWire'[t][i] = g
      BY <1>4, <2>2
    <3> QED BY <1>4, <3>1 DEF InSession
  <2> QED BY <1>5, <2>1, <2>2 DEF InSession
<1>6. InSession(t, f)'
  <2>1. k + 1 \in 1 .. k + 1
    OBVIOUS
  <2> QED BY <1>4, <2>1 DEF InSession
<1>7. ASSUME NEW m \in 0 .. size[t] + 1, m < n + 1
      PROVE  m < Processed(t)' \/ InSession(t, FrameAt(t, m))'
  <2>1. CASE m = n
    BY <1>3, <1>6, <2>1
  <2>2. CASE m # n
    <3>1. m < Sent(t)
      BY <1>1, <1>7, <2>2
    <3>2. m < Processed(t) \/ InSession(t, FrameAt(t, m))
      BY <3>1 DEF Relayed
    <3> QED BY <1>2, <1>3, <1>5, <3>2
  <2> QED BY <2>1, <2>2
<1> QED BY <1>2, <1>7 DEF Relayed

LEMMA RelayedArrive ==
  ASSUME PhaseInv, NEW t \in Sends, Relayed(t), Arrive(t) PROVE Relayed(t)'
<1> PICK w \in Seq(Frames), k \in Nat : w = relayWire[t] /\ k = Len(w)
  BY SessionTyped DEF PhaseInv
<1>1. /\ w # <<>> /\ guestOpen[t] /\ UNCHANGED <<sender, hostOpen, guestOpen, relayReceiver>>
      /\ relayWire \in [Sends -> Seq(Frames)] /\ decrypting \in [Sends -> SUBSET Frames]
  BY DEF Arrive, Relayed, PhaseInv, TypeOK
<1>2. /\ k # 0 /\ Head(w) = w[1] /\ Len(Tail(w)) = k - 1
      /\ \A i \in 1 .. k - 1 : Tail(w)[i] = w[i + 1]
  BY <1>1, HeadTailProperties
<1>3. relayWire'[t] = Tail(w) /\ decrypting'[t] = decrypting[t] \cup {w[1]}
  BY <1>1, <1>2 DEF Arrive
<1>4. /\ Taken(t)' = Taken(t) /\ Processed(t)' = Processed(t) /\ Sent(t)' = Sent(t)
      /\ phase' = phase /\ size' = size
  BY <1>1 DEF Taken, Processed, Sent, sender
<1>5. \A m : FrameAt(t, m)' = FrameAt(t, m)
  BY <1>4 DEF FrameAt, Meta, Eof, Chunk
<1>6. ASSUME NEW g, InSession(t, g) PROVE InSession(t, g)'
  <2>1. CASE g \in decrypting[t]
    BY <1>3, <2>1 DEF InSession
  <2>2. ASSUME NEW i \in 1 .. k, w[i] = g PROVE InSession(t, g)'
    <3>1. CASE i = 1
      BY <1>3, <2>2, <3>1 DEF InSession
    <3>2. CASE i # 1
      <4>1. i - 1 \in 1 .. k - 1 /\ (i - 1) + 1 = i
        BY <3>2
      <4>2. relayWire'[t][i - 1] = g
        BY <1>2, <1>3, <2>2, <4>1
      <4> QED BY <1>2, <1>3, <4>1, <4>2 DEF InSession
    <3> QED BY <3>1, <3>2
  <2> QED BY <1>6, <2>1, <2>2 DEF InSession
<1> QED BY <1>1, <1>4, <1>5, <1>6 DEF Relayed

LEMMA RelayedTake ==
  ASSUME PhaseInv, NEW t \in Sends, Session(t), Relayed(t), NEW f \in decrypting[t], Decrypted(t, f),
         trouble[t] = {}, trouble'[t] = {}
  PROVE  Relayed(t)' \/ \E g \in received' : g.file = t
<1>1. /\ TypeOK /\ UNCHANGED <<size, relayWire, hostOpen, phase, offset>>
      /\ decrypting'[t] = decrypting[t] \ {f} /\ Sent(t)' = Sent(t)
  BY DEF PhaseInv, Decrypted, sender, TypeOK, Sent
<1>2. ASSUME NEW g \in decrypting[t]
      PROVE  g \in Frames /\ g.of = t /\ Proper(g) /\ g.n < Sent(t) /\ g.n \in Nat /\ ~(g.n < f.n)
  <2>1. g \in Frames /\ g.of = t /\ Proper(g) /\ g.n < Sent(t) /\ g.n \in Nat
    BY <1>1, SessionTyped DEF Session, Pending
  <2>2. ~(g.n < f.n)
    BY <1>1 DEF Decrypted, TypeOK
  <2> QED BY <2>1, <2>2
<1>3. /\ size[t] \in Nat /\ f.n \in 0 .. size[t] + 1
      /\ f.type = "metadata" <=> f.n = 0
      /\ f.type = "eof" <=> f.n = size[t] + 1
  <2>1. size[t] \in Nat /\ f.n \in 0 .. size[t] + 1 /\ f = FrameAt(t, f.n)
    BY <1>1, <1>2, SizeNat DEF Proper
  <2> QED BY <1>1, <2>1, FrameTyped
<1> PICK c \in Seq(Frames), k \in Nat : c = Taken(t) /\ k = Len(c)
  BY <1>1, SessionTyped
<1> PICK r \in {t, None} : r = relayReceiver[t].file
  BY DEF Session, Opened
<1>4. /\ Processed(t) = IF r = None THEN 0 ELSE k + 1
      /\ r = None => c = <<>>
      /\ t # None
  BY NoneAssumption DEF Processed, Relayed
<1> PICK p \in Nat : p = Processed(t)
  BY <1>4
<1>5. p <= f.n
  <2>1. CASE r = None
    BY <1>2, <1>4, <2>1
  <2>2. CASE r = t
    <3>1. 0 < f.n
      BY <2>2 DEF Session, Opened
    <3>2. CASE k = 0
      BY <1>2, <1>4, <2>2, <3>1, <3>2
    <3>3. CASE k # 0
      <4>1. k \in 1 .. k
        BY <3>3
      <4>2. k <= c[k].n /\ c[k].n < f.n
        BY <4>1 DEF Session, InOrder
      <4>3. c[k].n \in Nat
        BY <1>1, <4>1, SessionTyped
      <4> QED BY <1>2, <1>4, <2>2, <4>2, <4>3
    <3> QED BY <3>2, <3>3
  <2> QED BY <2>1, <2>2
<1>6. f.n <= p
  <2> SUFFICES ASSUME p < f.n PROVE FALSE
    BY <1>2
  <2>1. p \in 0 .. size[t] + 1 /\ p < Sent(t) /\ ~(p < Processed(t))
    <3>1. Sent(t) \in Nat /\ f.n < Sent(t) /\ f.n \in Nat
      BY <1>2, SentNat
    <3> QED BY <1>3, <3>1
  <2>2. InSession(t, FrameAt(t, p))
    BY <2>1 DEF Relayed
  <2>3. FrameAt(t, p).n = p
    BY <1>1, <2>1, FrameTyped
  <2>4. CASE FrameAt(t, p) \in decrypting[t]
    BY <1>2, <2>3, <2>4
  <2>5. ASSUME NEW i \in 1 .. Len(relayWire[t]), relayWire[t][i] = FrameAt(t, p) PROVE FALSE
    <3>1. f.n < p
      BY <2>3, <2>5 DEF Session, Pending
    <3> QED BY <1>2, <3>1
  <2> QED BY <2>2, <2>4, <2>5 DEF InSession
<1>7. f.n = p
  BY <1>2, <1>5, <1>6
<1>8. \A m : FrameAt(t, m)' = FrameAt(t, m)
  BY <1>1 DEF FrameAt, Meta, Eof, Chunk
<1>9. \A g : InSession(t, g) /\ g # f => InSession(t, g)'
  BY <1>1 DEF InSession
<1>10. ASSUME Processed(t)' = p + 1, guestOpen' = guestOpen, relayReceiver'[t].file # None
       PROVE  Relayed(t)'
  <2>1. ASSUME NEW m \in 0 .. size[t] + 1, m < Sent(t)
        PROVE  m < Processed(t)' \/ InSession(t, FrameAt(t, m))'
    <3>1. CASE m < p
      BY <1>10, <3>1
    <3>2. CASE m = p
      BY <1>10, <3>2
    <3>3. CASE p < m
      <4>1. InSession(t, FrameAt(t, m))
        BY <2>1, <3>3 DEF Relayed
      <4>2. FrameAt(t, m).n = m
        BY <1>1, FrameTyped
      <4> QED BY <1>7, <1>8, <1>9, <3>3, <4>1, <4>2
    <3> QED BY <1>3, <3>1, <3>2, <3>3
  <2> QED BY <1>1, <1>10, <2>1 DEF Relayed
<1>11. CASE /\ f.type = "metadata" /\ relayReceiver' = [relayReceiver EXCEPT ![t].file = f.of]
            /\ guestOpen' = guestOpen
  <2>1. relayReceiver'[t].file = t /\ Taken(t)' = c
    BY <1>1, <1>2, <1>11 DEF TypeOK, Taken, Receivers
  <2>2. p = 0 /\ r = None
    BY <1>3, <1>4, <1>7, <1>11
  <2>3. Len(c) = 0
    BY <1>4, <2>2
  <2>4. Processed(t)' = p + 1
    BY <1>4, <2>1, <2>2, <2>3 DEF Processed
  <2> QED BY <1>4, <1>10, <1>11, <2>1, <2>4
<1>12. CASE /\ f.type = "chunk" /\ relayReceiver' = [relayReceiver EXCEPT ![t].chunks = Append(@, f)]
            /\ guestOpen' = guestOpen
  <2>1. relayReceiver'[t].file = r /\ Taken(t)' = Append(c, f)
    BY <1>1, <1>12 DEF TypeOK, Taken, Receivers
  <2>2. r # None /\ p = k + 1
    BY <1>3, <1>4, <1>7, <1>12
  <2>3. Len(Append(c, f)) = k + 1
    BY <1>2, AppendProperties
  <2>4. Processed(t)' = p + 1
    BY <2>1, <2>2, <2>3 DEF Processed
  <2> QED BY <1>10, <1>12, <2>1, <2>2, <2>4
<1>13. CASE /\ f.type = "eof"
            /\ received' = IF r # None /\ Len(c) = size[r]
                           THEN received \cup {[file |-> r, path |-> "relay", chunks |-> c]} ELSE received
  <2>1. r = t /\ k = size[t]
    BY <1>3, <1>4, <1>7, <1>13
  <2>2. [file |-> t, path |-> "relay", chunks |-> c] \in received'
    BY <1>4, <1>13, <2>1
  <2> QED BY <2>2
<1> QED BY <1>11, <1>12, <1>13 DEF Decrypted, Taken

-----------------------------------------------------------------------------
(* The end of an undisturbed file stays in the channel until it is taken,   *)
(* and then the file is there.                                              *)
LEMMA EofStays ==
  ASSUME PhaseInv, DirectInv, [Next]_vars, NEW t \in Sends, trouble[t] = {}, trouble'[t] = {},
         open, NEW i \in 1 .. Len(wire), wire[i] = Eof(t)
  PROVE  \/ \E g \in received' : g.file = t
         \/ open' /\ \E j \in 1 .. Len(wire') : wire'[j] = Eof(t)'
<1> USE DEF sender, channel, relay
<1> PICK k \in Nat : k = Len(wire)
  BY DEF PhaseInv, TypeOK
<1> PICK e : e = Eof(t)
  OBVIOUS
<1>1. size' = size /\ Eof(t)' = e /\ e.type = "eof" /\ e.of = t /\ e = wire[i]
  <2>1. size' = size
    BY SentGrows
  <2> QED BY <2>1 DEF Eof
<1>2. CASE open' = open /\ wire' = wire
  BY <1>1, <1>2
<1>3. ASSUME NEW s \in Sends, NEW o, Queues(s, o)
      PROVE  open' /\ \E j \in 1 .. Len(wire') : wire'[j] = e
  <2>1. open' /\ wire'[i] = e /\ Len(wire') \in Nat /\ Len(wire') >= k
    BY <1>1, <1>3 DEF Queues
  <2>2. i \in 1 .. Len(wire')
    BY <2>1
  <2> QED BY <2>1, <2>2
<1>4. ASSUME NEW s \in Sends, SendDirect(s)
      PROVE  open' /\ \E j \in 1 .. Len(wire') : wire'[j] = e
  BY <1>3, <1>4, SendStarts
<1>5. ASSUME NEW s \in Sends, ChunkRead(s)
      PROVE  open' /\ \E j \in 1 .. Len(wire') : wire'[j] = e
  BY <1>3, <1>5, SendGoesOn
<1>6. CASE Deliver
  <2>1. PICK f \in Frames, l \in Nat \ {0} :
           /\ l = Len(wire) /\ f = wire[1] /\ Proper(f) /\ Follows(Spot(0), f) /\ Handed(f)
           /\ Len(wire') = l - 1 /\ \A j \in 1 .. l - 1 : wire'[j] = wire[j + 1]
           /\ ReceiverInv /\ WireInv /\ Exclusive /\ open
           /\ UNCHANGED <<sender, open, buffered, listener, relay, trouble>>
    BY <1>6, Delivery
  <2>2. CASE i = 1
    <3>1. f.type = "eof" /\ f.of = t /\ t \notin Overlapped
      BY <1>1, <2>1, <2>2 DEF Overlapped
    <3>2. TypeOK /\ UNCHANGED <<size, trouble>>
      BY <2>1 DEF PhaseInv
    <3> QED BY <2>1, <3>1, <3>2, Handover
  <2>3. CASE i # 1
    <3>1. i - 1 \in 1 .. l - 1 /\ (i - 1) + 1 = i
      BY <2>1, <2>3
    <3>2. wire'[i - 1] = e
      BY <1>1, <2>1, <3>1
    <3>3. Len(wire') = l - 1 /\ open'
      BY <2>1
    <3> QED BY <1>1, <3>1, <3>2, <3>3
  <2> QED BY <2>2, <2>3
<1>7. CASE CloseChannel
  <2>1. i \in DOMAIN wire /\ wire[i].of = t
    BY <1>1, LenProperties DEF PhaseInv, TypeOK
  <2>2. "cut" \in trouble'[t]
    BY <1>7, <2>1 DEF CloseChannel
  <2> QED BY <2>2
<1>8. ASSUME NEW s \in Sends,
             \/ ReadFails(s) \/ SendRelayed(s) \/ RelayStep(s) \/ CutRelay(s) \/ Arrive(s)
             \/ \E f \in decrypting[s] : Decrypted(s, f) \/ DecryptFails(s, f)
      PROVE  open' = open /\ wire' = wire
  BY <1>8 DEF ReadFails, SendRelayed, RelayStep, MetadataSent, CheckSocket, ChunkSent, EofSent,
         CutRelay, Arrive, Decrypted, DecryptFails
<1>9. ASSUME Transmit PROVE open' = open /\ wire' = wire
  BY <1>9 DEF Transmit
<1> QED BY <1>1, <1>2, <1>4, <1>5, <1>6, <1>7, <1>8, <1>9 DEF Next, vars

(* A session goes on complete, or the file is there.                        *)
LEMMA RelayedNext ==
  ASSUME PhaseInv, RelayInv, [Next]_vars, NEW t \in Sends, Relayed(t),
         phase[t] \in Labels \cup {"done"}, phase'[t] \in Labels \cup {"done"},
         trouble[t] = {}, trouble'[t] = {}
  PROVE  Relayed(t)' \/ \E g \in received' : g.file = t
<1> USE DEF sender, channel, relay
<1>t. /\ size[t] \in Nat /\ offset \in [Sends -> Nat] /\ relayWire \in [Sends -> Seq(Frames)]
      /\ decrypting \in [Sends -> SUBSET Frames] /\ relayReceiver \in [Sends -> Receivers]
      /\ trouble \in [Sends -> SUBSET {"overlap", "reorder", "cut"}]
      /\ phase \in [Sends -> {"idle", "reading", "waiting", "metadata", "check", "chunk", "eof",
                              "done", "failed"}]
      /\ hostOpen \in [Sends -> BOOLEAN] /\ guestOpen \in [Sends -> BOOLEAN]
      /\ listener # None => phase[listener] = "waiting"
      /\ phase[t] \in {"metadata", "check", "chunk", "eof", "done"}
      /\ phase'[t] \in {"metadata", "check", "chunk", "eof", "done"}
  BY SizeNat DEF PhaseInv, TypeOK, Labels
<1>1. size' = size /\ Session(t) /\ (phase[t] \in Labels => hostOpen[t])
  BY SentGrows DEF RelayInv, Relayed
<1>2. ASSUME phase'[t] = phase[t], offset'[t] = offset[t], guestOpen'[t] = guestOpen[t],
             hostOpen'[t] = hostOpen[t], decrypting'[t] = decrypting[t],
             relayWire'[t] = relayWire[t], relayReceiver'[t] = relayReceiver[t]
      PROVE  Relayed(t)'
  <2>1. Sent(t)' = Sent(t)
    BY <1>1, <1>2 DEF Sent
  <2> QED BY <1>1, <1>2, <2>1, RelayedSame
<1>3. ASSUME NEW s \in Sends, SendDirect(s) \/ ChunkRead(s) PROVE Relayed(t)'
  <2>1. s # t /\ UNCHANGED relay
    BY <1>3, <1>t DEF SendDirect, ChunkRead
  <2>2. phase'[t] = phase[t] /\ offset'[t] = offset[t]
    <3>1. CASE open
      <4>1. PICK o : Queues(s, o)
        BY <1>3, <3>1, SendStarts, SendGoesOn
      <4> QED BY <1>t, <2>1, <4>1 DEF Queues
    <3>2. CASE ~open
      BY <1>3, <1>t, <2>1, <3>2 DEF SendDirect, ChunkRead
    <3> QED BY <3>1, <3>2
  <2> QED BY <1>2, <2>1, <2>2
<1>4. ASSUME NEW s \in Sends, ReadFails(s) PROVE Relayed(t)'
  <2>1. s # t
    BY <1>4, <1>t DEF ReadFails
  <2> QED BY <1>2, <1>4, <1>t, <2>1 DEF ReadFails
<1>5. ASSUME NEW s \in Sends, SendRelayed(s) PROVE Relayed(t)'
  <2>1. s # t
    BY <1>5, <1>t DEF SendRelayed
  <2> QED BY <1>2, <1>5, <1>t, <2>1 DEF SendRelayed
<1>6. ASSUME NEW s \in Sends, CheckSocket(s) PROVE Relayed(t)'
  <2>1. CASE s # t
    BY <1>2, <1>6, <1>t, <2>1 DEF CheckSocket
  <2>2. CASE s = t
    <3>1. phase[t] = "check" /\ phase'[t] = "chunk" /\ offset' = offset /\ UNCHANGED relay
      BY <1>6, <1>t, <2>2 DEF CheckSocket
    <3>2. Sent(t)' = Sent(t)
      BY <3>1 DEF Sent
    <3> QED BY <1>1, <3>1, <3>2, RelayedSame DEF Labels
  <2> QED BY <2>1, <2>2
<1>7. ASSUME NEW s \in Sends, MetadataSent(s) PROVE Relayed(t)'
  <2>1. /\ UNCHANGED <<decrypting, relayReceiver, hostOpen, guestOpen, offset>>
        /\ Put(s, Meta(s)) /\ phase[s] = "metadata" /\ phase' = [phase EXCEPT ![s] = While(s, 0)]
    BY <1>7 DEF MetadataSent
  <2>2. CASE s = t
    <3>1. offset[t] = 0
      BY <2>1, <2>2 DEF PhaseInv
    <3>2. /\ Sent(t) = 0 /\ Sent(t)' = 0 + 1 /\ FrameAt(t, 0) = Meta(t)
          /\ 0 \in 0 .. size[t] + 1 /\ hostOpen[t]
      BY <1>1, <1>t, <2>1, <2>2, <3>1 DEF Sent, While, FrameAt, Labels
    <3> QED BY <1>1, <2>1, <2>2, <3>2, RelayedPut
  <2>3. CASE s # t
    BY <1>2, <1>t, <2>1, <2>3 DEF Put
  <2> QED BY <2>2, <2>3
<1>8. ASSUME NEW s \in Sends, ChunkSent(s) PROVE Relayed(t)'
  <2>1. /\ UNCHANGED <<decrypting, relayReceiver, hostOpen, guestOpen>>
        /\ Put(s, Chunk(s, offset[s] + 1)) /\ phase[s] = "chunk"
        /\ phase' = [phase EXCEPT ![s] = While(s, offset'[s])]
        /\ offset' = [offset EXCEPT ![s] = @ + 1]
    BY <1>8 DEF ChunkSent
  <2>2. CASE s = t
    <3>1. offset[t] < size[t]
      BY <2>1, <2>2 DEF PhaseInv
    <3>2. /\ Sent(t) = offset[t] + 1 /\ Sent(t)' = offset[t] + 1 + 1
          /\ FrameAt(t, offset[t] + 1) = Chunk(t, offset[t] + 1)
          /\ offset[t] + 1 \in 0 .. size[t] + 1 /\ hostOpen[t]
      BY <1>1, <1>t, <2>1, <2>2, <3>1 DEF Sent, While, FrameAt, Labels
    <3> QED BY <1>1, <2>1, <2>2, <3>2, RelayedPut
  <2>3. CASE s # t
    BY <1>2, <1>t, <2>1, <2>3 DEF Put
  <2> QED BY <2>2, <2>3
<1>9. ASSUME NEW s \in Sends, EofSent(s) PROVE Relayed(t)'
  <2>1. /\ UNCHANGED <<decrypting, relayReceiver, guestOpen, offset>>
        /\ Put(s, Eof(s)) /\ phase[s] = "eof" /\ phase' = [phase EXCEPT ![s] = "done"]
        /\ hostOpen' = [hostOpen EXCEPT ![s] = FALSE]
    BY <1>9 DEF EofSent
  <2>2. CASE s = t
    <3>1. offset[t] = size[t]
      BY <2>1, <2>2 DEF PhaseInv
    <3>2. /\ Sent(t) = size[t] + 1 /\ Sent(t)' = size[t] + 1 + 1
          /\ FrameAt(t, size[t] + 1) = Eof(t) /\ phase'[t] \notin Labels
          /\ size[t] + 1 \in 0 .. size[t] + 1 /\ hostOpen[t]
      BY <1>1, <1>t, <2>1, <2>2, <3>1 DEF Sent, While, FrameAt, Labels
    <3> QED BY <1>1, <2>1, <2>2, <3>2, RelayedPut
  <2>3. CASE s # t
    BY <1>2, <1>t, <2>1, <2>3 DEF Put
  <2> QED BY <2>2, <2>3
<1>10. ASSUME NEW s \in Sends, CutRelay(s) PROVE Relayed(t)'
  <2>1. s # t
    BY <1>10, <1>t DEF CutRelay
  <2> QED BY <1>2, <1>10, <1>t, <2>1 DEF CutRelay
<1>11. ASSUME NEW s \in Sends, Arrive(s) PROVE Relayed(t)'
  <2>1. CASE s = t
    BY <1>11, <2>1, RelayedArrive
  <2>2. CASE s # t
    BY <1>2, <1>11, <1>t, <2>2 DEF Arrive
  <2> QED BY <2>1, <2>2
<1>12. ASSUME NEW s \in Sends, NEW f \in decrypting[s], Decrypted(s, f)
       PROVE  Relayed(t)' \/ \E g \in received' : g.file = t
  <2>1. CASE s = t
    BY <1>1, <1>12, <2>1, RelayedTake
  <2>2. CASE s # t
    <3>1. /\ relayReceiver'[t] = relayReceiver[t] /\ decrypting'[t] = decrypting[t]
          /\ guestOpen'[t] = guestOpen[t] /\ UNCHANGED <<phase, offset, hostOpen, relayWire>>
      BY <1>12, <1>t, <2>2 DEF Decrypted
    <3> QED BY <1>2, <3>1
  <2> QED BY <2>1, <2>2
<1>13. ASSUME NEW s \in Sends, NEW f \in decrypting[s], DecryptFails(s, f) PROVE Relayed(t)'
  <2>1. s # t
    BY <1>13, <1>t DEF DecryptFails
  <2> QED BY <1>2, <1>13, <1>t, <2>1 DEF DecryptFails
<1>14. ASSUME Transmit PROVE Relayed(t)'
  <2>1. UNCHANGED <<offset, relay>> /\ phase'[t] = phase[t]
    BY <1>14, <1>t DEF Transmit
  <2> QED BY <1>2, <2>1
<1>15. ASSUME Deliver \/ CloseChannel \/ UNCHANGED vars PROVE Relayed(t)'
  <2>1. UNCHANGED <<sender, relay>>
    BY <1>15 DEF Deliver, CloseChannel, vars
  <2> QED BY <1>2, <2>1
<1> QED BY <1>3, <1>4, <1>5, <1>6, <1>7, <1>8, <1>9, <1>10, <1>11, <1>12, <1>13, <1>14, <1>15
       DEF Next, RelayStep

LEMMA CompleteNext ==
  ASSUME PhaseInv, DirectInv, RelayInv, CompleteInv, [Next]_vars PROVE CompleteInv'
<1> USE DEF sender, channel, relay
<1> SUFFICES ASSUME NEW t \in Sends, phase'[t] \in Labels \cup {"done"}, trouble'[t] = {}
             PROVE  \/ \E g \in received' : g.file = t
                    \/ open' /\ \E i \in 1 .. Len(wire') : wire'[i] = Eof(t)'
                    \/ Relayed(t)'
  BY DEF CompleteInv
<1>t. /\ offset \in [Sends -> Nat]
      /\ phase \in [Sends -> {"idle", "reading", "waiting", "metadata", "check", "chunk", "eof",
                              "done", "failed"}]
      /\ guestOpen \in [Sends -> BOOLEAN] /\ hostOpen \in [Sends -> BOOLEAN]
  BY DEF PhaseInv, TypeOK
<1>1. trouble[t] = {} /\ size' = size /\ Session(t) /\ Eof(t)' = Eof(t)
  BY TroubleGrows, SentGrows DEF RelayInv, Eof
<1>2. received \subseteq received'
  BY DEF Next, vars, SendDirect, ChunkRead, ReadFails, SendRelayed, RelayStep, MetadataSent,
         CheckSocket, ChunkSent, EofSent, CutRelay, Arrive, Decrypted, DecryptFails, Transmit,
         CloseChannel, Deliver, OnMetadata, OnChunk, FinalizeTransfer
<1>3. CASE phase[t] \in Labels \cup {"done"}
  <2>1. CASE \E g \in received : g.file = t
    BY <1>2, <2>1
  <2>2. CASE open /\ \E i \in 1 .. Len(wire) : wire[i] = Eof(t)
    BY <1>1, <2>2, EofStays
  <2>3. CASE Relayed(t)
    BY <1>1, <1>3, <2>3, RelayedNext
  <2> QED BY <1>1, <1>3, <2>1, <2>2, <2>3 DEF CompleteInv
<1>4. CASE phase[t] \notin Labels \cup {"done"}
  <2>1. ASSUME NEW s \in Sends, NEW o, Queues(s, o)
        PROVE  open' /\ \E i \in 1 .. Len(wire') : wire'[i] = Eof(t)
    <3>1. s = t /\ o = size[t]
      <4>1. PICK p \in {"reading", "waiting", "done"} :
              phase' = [phase EXCEPT ![s] = p] /\ (p = "done" <=> o = size[s])
        BY <2>1 DEF Queues
      <4> QED BY <1>4, <1>t, <4>1 DEF Labels
    <3>2. PICK k \in Nat : k = Len(wire)
      BY DEF PhaseInv, TypeOK
    <3>3. Len(wire') = k + 2 /\ wire'[k + 2] = Eof(t) /\ open'
      BY <2>1, <3>1, <3>2 DEF Queues
    <3>4. k + 2 \in 1 .. k + 2
      OBVIOUS
    <3> QED BY <3>3, <3>4
  <2>2. ASSUME NEW s \in Sends, SendDirect(s)
        PROVE  open' /\ \E i \in 1 .. Len(wire') : wire'[i] = Eof(t)
    BY <2>1, <2>2, SendStarts
  <2>3. ASSUME NEW s \in Sends, ChunkRead(s)
        PROVE  open' /\ \E i \in 1 .. Len(wire') : wire'[i] = Eof(t)
    <3>1. CASE open
      BY <2>1, <2>3, <3>1, SendGoesOn
    <3>2. CASE ~open
      BY <1>4, <1>t, <2>3, <3>2 DEF ChunkRead, Labels
    <3> QED BY <3>1, <3>2
  <2>4. ASSUME NEW s \in Sends, SendRelayed(s) PROVE Relayed(t)'
    <3>1. s = t /\ phase[t] = "idle" /\ UNCHANGED <<offset, relayReceiver>>
      BY <1>4, <1>t, <2>4 DEF SendRelayed
    <3>2. guestOpen'[t] /\ hostOpen'[t] /\ phase'[t] = "metadata"
      BY <1>t, <2>4, <3>1 DEF SendRelayed
    <3>3. Sent(t) = 0 /\ Sent(t)' = 0
      BY <3>1, <3>2 DEF Sent
    <3>4. Taken(t) = <<>>
      <4>1. PICK c \in Seq(Frames), k \in Nat : c = Taken(t) /\ k = Len(c)
        BY SessionTyped DEF PhaseInv
      <4>2. ASSUME k # 0 PROVE FALSE
        <5>1. 1 \in 1 .. k
          BY <4>2
        <5>2. c[1].n < 0 /\ c[1].n \in Nat
          BY <1>1, <3>3, <4>1, <5>1 DEF Session, Once
        <5> QED BY <5>2
      <4> QED BY <4>1, <4>2
    <3>5. Taken(t)' = Taken(t)
      BY <3>1 DEF Taken
    <3>6. \A n \in 0 .. size'[t] + 1 : ~(n < 0)
      OBVIOUS
    <3> QED BY <3>2, <3>3, <3>4, <3>5, <3>6 DEF Relayed
  <2>5. ASSUME NEW s \in Sends, NEW p, phase' = [phase EXCEPT ![s] = p], p \notin Labels \cup {"done"}
        PROVE  FALSE
    BY <1>4, <1>t, <2>5
  <2>6. ASSUME NEW s \in Sends, ReadFails(s) PROVE FALSE
    BY <2>5, <2>6 DEF ReadFails, Labels
  <2>7. ASSUME NEW s \in Sends, RelayStep(s) PROVE FALSE
    <3>1. phase[s] \in Labels /\ \A u \in Sends : u # s => phase'[u] = phase[u]
      BY <1>t, <2>7 DEF RelayStep, MetadataSent, CheckSocket, ChunkSent, EofSent, Labels
    <3> QED BY <1>4, <3>1
  <2>8. CASE phase' = phase
    BY <1>4, <2>8
  <2>9. ASSUME Transmit PROVE phase'[t] \notin Labels \cup {"done"}
    BY <1>4, <1>t, <2>9 DEF Transmit, Labels
  <2>10. ASSUME NEW s \in Sends, CutRelay(s) \/ Arrive(s)
                \/ \E f \in decrypting[s] : Decrypted(s, f) \/ DecryptFails(s, f)
         PROVE  phase' = phase
    BY <2>10 DEF CutRelay, Arrive, Decrypted, DecryptFails
  <2>11. ASSUME Deliver \/ CloseChannel \/ UNCHANGED vars PROVE phase' = phase
    BY <2>11 DEF Deliver, CloseChannel, vars
  <2> QED BY <1>1, <2>2, <2>3, <2>4, <2>6, <2>7, <2>8, <2>9, <2>10, <2>11 DEF Next
<1> QED BY <1>3, <1>4

(* The initial states: nothing is under way.                                *)
LEMMA TransferInit ==
  ASSUME Init PROVE TransferInv
<1>1. /\ <<>> \in Seq(Frames) /\ Len(<<>>) = 0 /\ Fresh \in Receivers
  BY EmptySeq DEF Fresh, Receivers
<1>2. /\ size \in [Sends -> 0 .. MaxChunks] /\ \A s \in Sends : size[s] \in Nat
  BY WaterAssumption DEF Init
<1>3. TypeOK
  <2>1. listener \in Sends \cup {None} /\ buffered \in Nat /\ buffered <= Len(wire)
    BY <1>1 DEF Init
  <2>2. ASSUME NEW s \in Sends PROVE offset[s] <= size[s]
    <3>1. offset[s] = 0 /\ size[s] \in Nat
      BY <1>2 DEF Init
    <3> QED BY <3>1
  <2> QED BY <1>1, <1>2, <2>1, <2>2 DEF Init, TypeOK
<1>4. PhaseInv
  BY <1>3 DEF PhaseInv, Init
<1>5. DirectInv
  <2>1. ReceiverInv
    BY NoneAssumption DEF ReceiverInv, Init, Fresh
  <2>2. Sending = {} /\ \A i \in 1 .. Len(wire) : FALSE
    BY <1>1 DEF Sending, Init
  <2> QED BY <2>1, <2>2 DEF DirectInv, WireInv, Exclusive
<1>6. ASSUME NEW s \in Sends PROVE Session(s)
  <2>1. /\ \A i \in 1 .. Len(relayWire[s]) : FALSE
        /\ \A i \in 1 .. Len(Taken(s)) : FALSE
        /\ decrypting[s] = {} /\ relayReceiver[s].file = None
    BY <1>1 DEF Init, Taken, Fresh
  <2>2. Pending(s)
    BY <2>1 DEF Pending
  <2>3. Once(s) /\ InOrder(s)
    BY <2>1 DEF Once, InOrder
  <2>4. Opened(s)
    BY <2>1, NoneAssumption DEF Opened
  <2> QED BY <2>2, <2>3, <2>4 DEF Session
<1>7. CompleteInv /\ Intact
  BY DEF CompleteInv, Intact, Init, Labels
<1> QED BY <1>4, <1>5, <1>6, <1>7 DEF TransferInv, RelayInv

(* All of the above holds in every reachable state: how far each send is,   *)
(* the chain of frames in the channel, the frames of each relay session, and *)
(* that nothing of an undisturbed send is missing.                          *)
THEOREM TransferInvariant == Spec => []TransferInv
<1>1. Init => TransferInv
  BY TransferInit
<1>2. TransferInv /\ [Next]_vars => TransferInv'
  BY PhaseNext, DirectNext, RelayNext, CompleteNext, IntactNext DEF TransferInv
<1> QED BY <1>1, <1>2, PTL DEF Spec

(* Every variable has its type in every reachable state: a send never passes *)
(* the end of its file, whatever is written to and read from the channel.   *)
THEOREM TransferTyped == Spec => []TypeOK
<1>1. TransferInv => TypeOK
  BY DEF TransferInv, PhaseInv
<1> QED BY <1>1, TransferInvariant, PTL

(* What either FileReceiver hands to the user is the file that was sent: its *)
(* chunks, all of them and in order, unless sends overlapped on the channel; *)
(* over the relay all of them, each once, even if decryption reordered them. *)
THEOREM FilesIntact == Spec => []Intact
<1>1. TransferInv => Intact
  BY DEF TransferInv
<1> QED BY <1>1, TransferInvariant, PTL

(* A send that is done, was not disturbed and has nothing under way has     *)
(* brought its file to the user.                                            *)
THEOREM FilesDelivered == Spec => []Delivered
<1>1. TransferInv => Delivered
  <2> SUFFICES ASSUME TransferInv, NEW s \in Sends, phase[s] = "done", trouble[s] = {}, ~InFlight(s)
               PROVE  \E f \in received : f.file = s
    BY DEF Delivered
  <2>1. PhaseInv /\ TypeOK /\ Session(s) /\ InOrder(s) /\ size[s] \in Nat
    BY SizeNat DEF TransferInv, PhaseInv, RelayInv, Session
  <2>2. CASE \E f \in received : f.file = s
    BY <2>2
  <2>3. ASSUME NEW i \in 1 .. Len(wire), wire[i] = Eof(s) PROVE FALSE
    <3>1. i \in DOMAIN wire /\ wire[i].of = s
      BY <2>1, <2>3, LenProperties DEF TypeOK, Eof
    <3> QED BY <3>1 DEF InFlight
  <2>4. CASE Relayed(s)
    <3>1. PICK c \in Seq(Frames), k \in Nat : c = Taken(s) /\ k = Len(c)
      BY <2>1, SessionTyped
    <3>2. k <= size[s]
      <4>1. CASE k = 0
        BY <2>1, <4>1
      <4>2. CASE k # 0
        <5>1. k \in 1 .. k
          BY <4>2
        <5>2. k <= c[k].n /\ c[k].n \in 1 .. size[s]
          BY <2>1, <3>1, <5>1 DEF Session, Once, InOrder
        <5> QED BY <2>1, <5>2
      <4> QED BY <4>1, <4>2
    <3>3. /\ Sent(s) = size[s] + 2 /\ size[s] + 1 \in 0 .. size[s] + 1 /\ size[s] + 1 < size[s] + 2
          /\ ~(size[s] + 1 < Processed(s))
      BY <2>1, <3>1, <3>2 DEF Sent, Processed
    <3>4. InSession(s, FrameAt(s, size[s] + 1))
      BY <2>4, <3>3 DEF Relayed
    <3>5. decrypting[s] # {} \/ relayWire[s] # <<>>
      BY <2>1, <3>4 DEF InSession
    <3> QED BY <3>5 DEF InFlight
  <2> QED BY <2>2, <2>3, <2>4 DEF TransferInv, CompleteInv
<1> QED BY <1>1, TransferInvariant, PTL
=============================================================================
