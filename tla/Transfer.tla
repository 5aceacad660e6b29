------------------------------- MODULE Transfer -------------------------------
(***************************************************************************)
(* The bytes of files from one browser to another (web/src/transfer.ts and *)
(* relay-transfer.ts, as GoTransport.sendFile and main.ts use them): over  *)
(* the data channel as long as it is open, which several sends may share,  *)
(* and over a relay socket of its own otherwise.                           *)
(*                                                                         *)
(* A file is its chunks, all counted as one unit of size.  Each step is    *)
(* one task of the event loop of one of the two browsers.                  *)
(***************************************************************************)
EXTENDS Naturals, Sequences

CONSTANTS
  Sends,               \* clicks on "send", each of a file of its own
  None,
  MaxChunks,           \* bound: chunks of a file
  HighWater, LowWater  \* bufferedAmount that stops a send, and that resumes it

ASSUME NoneAssumption  == None \notin Sends
ASSUME WaterAssumption == /\ MaxChunks \in Nat /\ LowWater \in Nat /\ HighWater \in Nat
                          /\ LowWater <= HighWater

VARIABLES
  size,               \* of each file, in chunks
  phase, offset,      \* where each send is, and the chunks it has sent
  open,               \* the data channel is open and the pair not in relay mode
  wire, buffered,     \* frames in the channel; the last ones are the sender's bufferedAmount
  listener,           \* channel.onbufferedamountlow: the send it goes on with
  receiver,           \* the FileReceiver of the channel
  hostOpen, guestOpen,  \* ends of each send's relay socket
  relayWire,          \* frames in each relay session
  decrypting,         \* frames that the guest decrypts
  relayReceiver,      \* the receiver of each relay session
  received,           \* files handed to the user, with the chunks they are made of
  trouble             \* history: what happened to each send

sender  == <<size, phase, offset>>
channel == <<open, wire, buffered, listener, receiver>>
relay   == <<hostOpen, guestOpen, relayWire, decrypting, relayReceiver>>
vars    == <<sender, channel, relay, received, trouble>>

Meta(s)     == [type |-> "metadata", of |-> s, n |-> 0]
Chunk(s, i) == [type |-> "chunk", of |-> s, n |-> i]
Eof(s)      == [type |-> "eof", of |-> s, n |-> size[s] + 1]
Frames      == [type : {"metadata", "chunk", "eof"}, of : Sends, n : 0 .. MaxChunks + 1]
Whole(s)    == [i \in 1 .. size[s] |-> Chunk(s, i)]

Receivers == [file : Sends \cup {None}, chunks : Seq(Frames)]
Fresh     == [file |-> None, chunks |-> <<>>]

Sending == {s \in Sends : phase[s] \in {"reading", "waiting"}}

(* Every variable has its type; what is buffered is in the channel, and no  *)
(* send has sent more than its file.                                        *)
TypeOK ==
  /\ size \in [Sends -> 0 .. MaxChunks]
  /\ phase \in [Sends -> {"idle", "reading", "waiting", "metadata", "check", "chunk", "eof",
                          "done", "failed"}]
  /\ offset \in [Sends -> Nat] /\ \A s \in Sends : offset[s] <= size[s]
  /\ open \in BOOLEAN /\ wire \in Seq(Frames) /\ buffered \in Nat
  /\ open => buffered <= Len(wire)
  /\ listener \in Sends \cup {None} /\ receiver \in Receivers
  /\ hostOpen \in [Sends -> BOOLEAN] /\ guestOpen \in [Sends -> BOOLEAN]
  /\ relayWire \in [Sends -> Seq(Frames)] /\ decrypting \in [Sends -> SUBSET Frames]
  /\ relayReceiver \in [Sends -> Receivers]
  /\ received \subseteq [file : Sends, path : {"direct", "relay"}, chunks : Seq(Frames)]
  /\ trouble \in [Sends -> SUBSET {"overlap", "reorder", "cut"}]

Init ==
  /\ size \in [Sends -> 0 .. MaxChunks]
  /\ phase = [s \in Sends |-> "idle"] /\ offset = [s \in Sends |-> 0]
  /\ open = TRUE /\ wire = <<>> /\ buffered = 0 /\ listener = None /\ receiver = Fresh
  /\ hostOpen = [s \in Sends |-> FALSE] /\ guestOpen = hostOpen
  /\ relayWire = [s \in Sends |-> <<>>] /\ decrypting = [s \in Sends |-> {}]
  /\ relayReceiver = [s \in Sends |-> Fresh]
  /\ received = {} /\ trouble = decrypting
-----------------------------------------------------------------------------
\* mutant: the last chunk is not noticed
ReadNextChunkPast(s, o, fs, b) ==
  LET ended == o > size[s]
      full  == ~ended /\ b + Len(fs) > HighWater
      all   == IF ended THEN Append(fs, Eof(s)) ELSE fs
  IN /\ wire' = wire \o all /\ buffered' = b + Len(all)
     /\ offset' = [offset EXCEPT ![s] = o]
     /\ phase' = [phase EXCEPT ![s] = IF ended THEN "done"
                                      ELSE IF full THEN "waiting" ELSE "reading"]
     /\ listener' = IF full THEN s ELSE listener

(* The data channel, sender.  readNextChunk after o chunks, when the frames *)
(* fs have just been queued behind b others: the end of the file, a wait    *)
(* for the buffer to drain, or the next read.                               *)
ReadNextChunk(s, o, fs, b) ==
  LET ended == o = size[s]
      full  == ~ended /\ b + Len(fs) > HighWater
      all   == IF ended THEN Append(fs, Eof(s)) ELSE fs
  IN /\ wire' = wire \o all /\ buffered' = b + Len(all)
     /\ offset' = [offset EXCEPT ![s] = o]
     /\ phase' = [phase EXCEPT ![s] = IF ended THEN "done"
                                      ELSE IF full THEN "waiting" ELSE "reading"]
     /\ listener' = IF full THEN s ELSE listener

(* The user sends a file.  Choosing another file enables the button again,  *)
(* also while a send is under way.                                          *)
SendDirect(s) ==
  /\ phase[s] = "idle" /\ open
  /\ ReadNextChunk(s, 0, <<Meta(s)>>, buffered)
  /\ trouble' = [t \in Sends |->
       IF Sending # {} /\ t \in Sending \cup {s} THEN trouble[t] \cup {"overlap"} ELSE trouble[t]]
  /\ UNCHANGED <<size, open, receiver, relay, received>>

\* mutant: a send that throws is not rejected
ChunkReadQuietly(s) ==
  /\ phase[s] = "reading" /\ open
  /\ ReadNextChunk(s, offset[s] + 1, <<Chunk(s, offset[s] + 1)>>, buffered)
  /\ UNCHANGED <<size, open, receiver, relay, received, trouble>>

(* FileReader has a chunk; the channel may have closed meanwhile.           *)
ChunkRead(s) ==
  /\ phase[s] = "reading"
  /\ IF open
     THEN ReadNextChunk(s, offset[s] + 1, <<Chunk(s, offset[s] + 1)>>, buffered)
     ELSE phase' = [phase EXCEPT ![s] = "failed"] /\ UNCHANGED <<offset, wire, buffered, listener>>
  /\ UNCHANGED <<size, open, receiver, relay, received, trouble>>

(* A frame leaves the buffer; when it falls to the threshold, the listener  *)
(* is cleared and its send goes on.                                         *)
Transmit ==
  /\ open /\ buffered > 0
  /\ IF buffered = LowWater + 1 /\ listener # None
     THEN /\ listener' = None /\ phase' = [phase EXCEPT ![listener] = "reading"]
     ELSE UNCHANGED <<listener, phase>>
  /\ buffered' = buffered - 1
  /\ UNCHANGED <<size, offset, open, wire, receiver, relay, received, trouble>>

(* The connection fails or closes; what is in the channel is lost.          *)
CloseChannel ==
  /\ open /\ open' = FALSE /\ wire' = <<>>
  /\ trouble' = [s \in Sends |->
       IF s \in Sending \/ \E i \in DOMAIN wire : wire[i].of = s
       THEN trouble[s] \cup {"cut"} ELSE trouble[s]]
  /\ UNCHANGED <<sender, buffered, listener, receiver, relay, received>>

\* mutant: the chunks of a file that never ended are kept
OnMetadataKeeps(f) == receiver' = [receiver EXCEPT !.file = f.of] /\ UNCHANGED received

(* The data channel, receiver: FileReceiver.handleMessage.                  *)
OnMetadata(f) == receiver' = [file |-> f.of, chunks |-> <<>>] /\ UNCHANGED received

OnChunk(f) ==
  /\ receiver' = IF receiver.file = None THEN receiver ELSE [receiver EXCEPT !.chunks = Append(@, f)]
  /\ UNCHANGED received

(* An end without a file is ignored; one that does not match the size is an *)
(* error that leaves everything as it is.                                   *)
FinalizeTransfer ==
  IF receiver.file # None /\ Len(receiver.chunks) = size[receiver.file]
  THEN /\ receiver' = Fresh
       /\ received' = received \cup
            {[file |-> receiver.file, path |-> "direct", chunks |-> receiver.chunks]}
  ELSE UNCHANGED <<receiver, received>>

Deliver ==
  /\ open /\ Len(wire) > buffered /\ wire' = Tail(wire)
  /\ LET f == Head(wire) IN \/ f.type = "metadata" /\ OnMetadata(f)
                            \/ f.type = "chunk" /\ OnChunk(f)
                            \/ f.type = "eof" /\ FinalizeTransfer
  /\ UNCHANGED <<sender, open, buffered, listener, relay, trouble>>
-----------------------------------------------------------------------------
(* The relay, sender.  After the handshake (module RelayHandshake) both     *)
(* sockets are open.  A frame is encrypted and then sent, which a closed    *)
(* socket ignores.                                                          *)
SendRelayed(s) ==
  /\ phase[s] = "idle" /\ ~open
  /\ phase' = [phase EXCEPT ![s] = "metadata"]
  /\ hostOpen' = [hostOpen EXCEPT ![s] = TRUE] /\ guestOpen' = [guestOpen EXCEPT ![s] = TRUE]
  /\ UNCHANGED <<size, offset, channel, relayWire, decrypting, relayReceiver, received, trouble>>

Put(s, f) ==
  relayWire' = [relayWire EXCEPT ![s] = IF hostOpen[s] THEN Append(@, f) ELSE @]

While(s, o) == IF o < size[s] THEN "check" ELSE "eof"

MetadataSent(s) ==
  /\ phase[s] = "metadata" /\ Put(s, Meta(s))
  /\ phase' = [phase EXCEPT ![s] = While(s, 0)]
  /\ UNCHANGED <<size, offset, channel, hostOpen, guestOpen, decrypting, relayReceiver, received,
                 trouble>>

(* The loop's look at readyState, repeated while the buffer is full.        *)
CheckSocket(s) ==
  /\ phase[s] = "check"
  /\ phase' = [phase EXCEPT ![s] = IF hostOpen[s] THEN "chunk" ELSE "failed"]
  /\ UNCHANGED <<size, offset, channel, relay, received, trouble>>

ChunkSent(s) ==
  /\ phase[s] = "chunk" /\ Put(s, Chunk(s, offset[s] + 1))
  /\ offset' = [offset EXCEPT ![s] = @ + 1]
  /\ phase' = [phase EXCEPT ![s] = While(s, offset'[s])]
  /\ UNCHANGED <<size, channel, hostOpen, guestOpen, decrypting, relayReceiver, received, trouble>>

EofSent(s) ==
  /\ phase[s] = "eof" /\ Put(s, Eof(s))
  /\ phase' = [phase EXCEPT ![s] = "done"] /\ hostOpen' = [hostOpen EXCEPT ![s] = FALSE]
  /\ UNCHANGED <<size, offset, channel, guestOpen, decrypting, relayReceiver, received, trouble>>

(* The file cannot be read.                                                 *)
ReadFails(s) ==
  /\ phase[s] \in {"reading", "chunk"}
  /\ phase' = [phase EXCEPT ![s] = "failed"] /\ hostOpen' = [hostOpen EXCEPT ![s] = FALSE]
  /\ UNCHANGED <<size, offset, channel, guestOpen, relayWire, decrypting, relayReceiver, received,
                 trouble>>

(* The bridge ends: limit, timeout, a lost connection.                      *)
CutRelay(s) ==
  /\ phase[s] \in {"metadata", "check", "chunk", "eof"} \/ relayWire[s] # <<>>
  /\ "cut" \notin trouble[s]
  /\ hostOpen' = [hostOpen EXCEPT ![s] = FALSE] /\ guestOpen' = [guestOpen EXCEPT ![s] = FALSE]
  /\ relayWire' = [relayWire EXCEPT ![s] = <<>>]
  /\ trouble' = [trouble EXCEPT ![s] = @ \cup {"cut"}]
  /\ UNCHANGED <<sender, channel, decrypting, relayReceiver, received>>
-----------------------------------------------------------------------------
(* The relay, receiver: the frame is handed to WebCrypto, unless the guest  *)
(* has closed its socket.                                                   *)
Arrive(s) ==
  /\ relayWire[s] # <<>>
  /\ relayWire' = [relayWire EXCEPT ![s] = Tail(@)]
  /\ decrypting' = [decrypting EXCEPT ![s] =
       IF guestOpen[s] THEN @ \cup {Head(relayWire[s])} ELSE @]
  /\ UNCHANGED <<sender, channel, hostOpen, guestOpen, relayReceiver, received, trouble>>

\* mutant: the end of the file is not held against its size
DecryptedUnchecked(s, f) ==
  LET r == relayReceiver[s] IN
  /\ f \in decrypting[s] /\ decrypting' = [decrypting EXCEPT ![s] = @ \ {f}]
  /\ trouble' = IF \E g \in decrypting[s] : g.n < f.n
                THEN [trouble EXCEPT ![s] = @ \cup {"reorder"}] ELSE trouble
  /\ \/ /\ f.type = "metadata"
        /\ relayReceiver' = [relayReceiver EXCEPT ![s].file = f.of]
        /\ UNCHANGED <<guestOpen, received>>
     \/ /\ f.type = "chunk"
        /\ relayReceiver' = [relayReceiver EXCEPT ![s].chunks = Append(@, f)]
        /\ UNCHANGED <<guestOpen, received>>
     \/ /\ f.type = "eof"
        /\ guestOpen' = [guestOpen EXCEPT ![s] = FALSE]
        /\ received' = IF r.file # None
                       THEN received \cup {[file |-> r.file, path |-> "relay", chunks |-> r.chunks]}
                       ELSE received
        /\ UNCHANGED relayReceiver
  /\ UNCHANGED <<sender, channel, hostOpen, relayWire>>

(* Frames come out of decryption in any order and are taken as they come;   *)
(* complete or in error, the guest closes its socket.                       *)
Decrypted(s, f) ==
  LET r == relayReceiver[s] IN
  /\ f \in decrypting[s] /\ decrypting' = [decrypting EXCEPT ![s] = @ \ {f}]
  /\ trouble' = IF \E g \in decrypting[s] : g.n < f.n
                THEN [trouble EXCEPT ![s] = @ \cup {"reorder"}] ELSE trouble
  /\ \/ /\ f.type = "metadata"
        /\ relayReceiver' = [relayReceiver EXCEPT ![s].file = f.of]
        /\ UNCHANGED <<guestOpen, received>>
     \/ /\ f.type = "chunk"
        /\ relayReceiver' = [relayReceiver EXCEPT ![s].chunks = Append(@, f)]
        /\ UNCHANGED <<guestOpen, received>>
     \/ /\ f.type = "eof"
        /\ guestOpen' = [guestOpen EXCEPT ![s] = FALSE]
        /\ received' = IF r.file # None /\ Len(r.chunks) = size[r.file]
                       THEN received \cup {[file |-> r.file, path |-> "relay", chunks |-> r.chunks]}
                       ELSE received
        /\ UNCHANGED relayReceiver
  /\ UNCHANGED <<sender, channel, hostOpen, relayWire>>

(* Decryption fails, with a key that is not the host's.                     *)
DecryptFails(s, f) ==
  /\ f \in decrypting[s] /\ decrypting' = [decrypting EXCEPT ![s] = @ \ {f}]
  /\ guestOpen' = [guestOpen EXCEPT ![s] = FALSE]
  /\ trouble' = [trouble EXCEPT ![s] = @ \cup {"cut"}]
  /\ UNCHANGED <<sender, channel, hostOpen, relayWire, relayReceiver, received>>
-----------------------------------------------------------------------------
RelayStep(s) == MetadataSent(s) \/ CheckSocket(s) \/ ChunkSent(s) \/ EofSent(s)

Next ==
  \/ \E s \in Sends : \/ SendDirect(s) \/ ChunkRead(s) \/ ReadFails(s)
                      \/ SendRelayed(s) \/ RelayStep(s) \/ CutRelay(s) \/ Arrive(s)
                      \/ \E f \in decrypting[s] : Decrypted(s, f) \/ DecryptFails(s, f)
  \/ Transmit \/ Deliver \/ CloseChannel

(* The event loops run, files are read, and an open channel sends what it   *)
(* buffers.                                                                 *)
Spec ==
  /\ Init /\ [][Next]_vars
  /\ WF_vars(Transmit)
  /\ \A s \in Sends : WF_vars(ChunkRead(s)) /\ WF_vars(RelayStep(s))
-----------------------------------------------------------------------------
(***************************************************************************)
(* Properties.                                                             *)
(***************************************************************************)

(* What the receiver hands out as a file is that file: whatever happens, if *)
(* no other send shared the channel with it; and over the relay every chunk *)
(* exactly once, in order unless decryption overtook itself.                *)
Intact ==
  \A f \in received :
    \/ f.chunks = Whole(f.file)
    \/ f.path = "direct" /\ "overlap" \in trouble[f.file]
    \/ /\ f.path = "relay" /\ "reorder" \in trouble[f.file]
       /\ Len(f.chunks) = size[f.file]
       /\ \A i \in 1 .. size[f.file] : \E j \in DOMAIN f.chunks : f.chunks[j] = Chunk(f.file, i)

(* sendFile resolves before the file has arrived; but when all its frames   *)
(* have, the guest has the file, unless the send was disturbed.             *)
InFlight(s) == \/ \E i \in DOMAIN wire : wire[i].of = s
               \/ relayWire[s] # <<>> \/ decrypting[s] # {}

Delivered ==
  \A s \in Sends :
    phase[s] = "done" /\ trouble[s] = {} /\ ~InFlight(s) => \E f \in received : f.file = s

(* A send settles, unless another on its channel took its listener, or the  *)
(* channel closed while it waited for the buffer.                           *)
Settled(s) == phase[s] \in {"done", "failed"}
SendsSettle ==
  \A s \in Sends :
    phase[s] # "idle"
      ~> Settled(s) \/ (phase[s] = "waiting" /\ (listener # s \/ ~open))
=============================================================================
