------------------------------ MODULE IcyDemux ------------------------------
(***************************************************************************)
(* The ICY demultiplexer of src/icy.c: icy_init, icy_feed with one action  *)
(* per branch of its loop, and icy_free, fed with arbitrary chunks.        *)
(*                                                                         *)
(* icy_reset leaves ICY_AUDIO with audio_left = 0, and icy_feed then moves *)
(* to ICY_METADATA_LENGTH without consuming a byte (lines 59-62); icy_init *)
(* always sets audio_left = metaint > 0, so that branch is dead and has no *)
(* action: LoopProgress, proved in IcyDemux_proofs, says why.              *)
(***************************************************************************)
EXTENDS IcyBytes

CONSTANTS
  MaxChunk,   \* bound: bytes in one call of icy_feed
  MaxInput,   \* bound: bytes fed in all
  Garbage     \* content of a heap byte nobody has written

ASSUME BoundAssumption   == MaxChunk \in Nat /\ MaxInput \in Nat
ASSUME GarbageAssumption == Garbage \notin Byte

VARIABLES
  state,          \* icy_demuxer_t.state
  audio_left,     \* .audio_left
  metadata_left,  \* .metadata_left
  metadata_buf,   \* .metadata_buf, indexed from 1
  metadata_len,   \* .metadata_len
  metadata_cap,   \* .metadata_cap
  call,           \* "idle", "feeding", "failed" or "freed"
  buf,            \* icy_feed's buf[0 .. len-1], as a sequence
  pos,            \* icy_feed's pos
  stdout,         \* bytes written by write_stdout_audio
  stderr,         \* blocks written by log_metadata
  consumed        \* history: the bytes demultiplexed so far

demuxer == <<state, audio_left, metadata_left, metadata_buf, metadata_len,
             metadata_cap>>
vars == <<demuxer, call, buf, pos, stdout, stderr, consumed>>

(* icy_init after icy_reset, as stream_receive calls it. *)
Init ==
  /\ state = "ICY_AUDIO"
  /\ audio_left = MetaInt
  /\ metadata_left = 0
  /\ metadata_buf = <<>>
  /\ metadata_len = 0
  /\ metadata_cap = 0
  /\ call = "idle"
  /\ buf = <<>>
  /\ pos = 0
  /\ stdout = <<>>
  /\ stderr = <<>>
  /\ consumed = <<>>

-----------------------------------------------------------------------------
(* Faulty variants, used by the mutation checks of the README.             *)

NoGrow(cap, need) == cap
NoRefill == audio_left
WholeChunk(left) == Len(buf) - pos
CopyToStart(chunk) ==
  [i \in 1 .. metadata_cap |-> IF i \in 1 .. chunk THEN buf[pos + i]
                                                   ELSE metadata_buf[i]]
NeverComplete(chunk) == FALSE
CountBlock(chunk) == metadata_len + metadata_left

-----------------------------------------------------------------------------
(* One call of icy_feed. *)

(* The bytes of the current part that are in this chunk. *)
Chunk(left) == Min(left, Len(buf) - pos)

(* realloc is called only when the block does not fit. *)
GrownCap(cap, need) == IF cap < need THEN need ELSE cap

(* A block is over: the next metaint bytes are audio. *)
Refilled == MetaInt

(* memcpy(metadata_buf + metadata_len, buf + pos, chunk). *)
Copied(chunk) ==
  [i \in 1 .. metadata_cap |->
     IF i \in metadata_len + 1 .. metadata_len + chunk
     THEN buf[pos + i - metadata_len]
     ELSE metadata_buf[i]]

(* The length of the received prefix after a copy. *)
Received(chunk) == metadata_len + chunk

BlockComplete(chunk) == chunk = metadata_left

Run(chunk) == SubSeq(buf, pos + 1, pos + chunk)

Feed(bytes) ==
  /\ call = "idle"
  /\ Len(consumed) + Len(bytes) <= MaxInput
  /\ buf' = bytes
  /\ pos' = 0
  /\ call' = "feeding"
  /\ UNCHANGED <<demuxer, stdout, stderr, consumed>>

InLoop == call = "feeding" /\ pos < Len(buf)

AudioRun ==
  LET chunk == Chunk(audio_left) IN
  /\ InLoop
  /\ state = "ICY_AUDIO"
  /\ stdout' = stdout \o Run(chunk)
  /\ consumed' = consumed \o Run(chunk)
  /\ pos' = pos + chunk
  /\ audio_left' = audio_left - chunk
  /\ state' = IF audio_left = chunk THEN "ICY_METADATA_LENGTH" ELSE state
  /\ UNCHANGED <<metadata_left, metadata_buf, metadata_len, metadata_cap,
                 call, buf, stderr>>

(* write_stdout_audio fails after writing a proper prefix of the run. *)
AudioRunFails ==
  LET chunk == Chunk(audio_left) IN
  /\ InLoop
  /\ state = "ICY_AUDIO"
  /\ \E written \in 0 .. chunk - 1 : stdout' = stdout \o Run(written)
  /\ call' = "failed"
  /\ UNCHANGED <<demuxer, buf, pos, stderr, consumed>>

EmptyBlock ==
  /\ InLoop
  /\ state = "ICY_METADATA_LENGTH"
  /\ buf[pos + 1] = 0
  /\ pos' = pos + 1
  /\ consumed' = Append(consumed, buf[pos + 1])
  /\ metadata_left' = 0
  /\ metadata_len' = 0
  /\ audio_left' = Refilled
  /\ state' = "ICY_AUDIO"
  /\ UNCHANGED <<metadata_buf, metadata_cap, call, buf, stdout, stderr>>

BlockStart ==
  LET need == Unit * buf[pos + 1] IN
  /\ InLoop
  /\ state = "ICY_METADATA_LENGTH"
  /\ need # 0
  /\ pos' = pos + 1
  /\ consumed' = Append(consumed, buf[pos + 1])
  /\ metadata_left' = need
  /\ metadata_len' = 0
  /\ metadata_cap' = GrownCap(metadata_cap, need)
  /\ metadata_buf' = [i \in 1 .. GrownCap(metadata_cap, need) |->
                        IF i <= metadata_cap THEN metadata_buf[i] ELSE Garbage]
  /\ state' = "ICY_METADATA"
  /\ UNCHANGED <<audio_left, call, buf, stdout, stderr>>

(* realloc returns NULL: the old buffer stays, the call fails. *)
BlockStartFails ==
  LET need == Unit * buf[pos + 1] IN
  /\ InLoop
  /\ state = "ICY_METADATA_LENGTH"
  /\ metadata_cap < need
  /\ metadata_left' = need
  /\ metadata_len' = 0
  /\ pos' = pos + 1
  /\ call' = "failed"
  /\ UNCHANGED <<state, audio_left, metadata_buf, metadata_cap, buf, stdout,
                 stderr, consumed>>

MetadataRun ==
  LET chunk == Chunk(metadata_left) IN
  /\ InLoop
  /\ state = "ICY_METADATA"
  /\ metadata_buf' = Copied(chunk)
  /\ pos' = pos + chunk
  /\ consumed' = consumed \o Run(chunk)
  /\ metadata_left' = metadata_left - chunk
  /\ IF BlockComplete(chunk)
     THEN /\ stderr' = stderr \o Printed(SubSeq(metadata_buf', 1, Received(chunk)))
          /\ metadata_len' = 0
          /\ audio_left' = Refilled
          /\ state' = "ICY_AUDIO"
     ELSE /\ metadata_len' = Received(chunk)
          /\ UNCHANGED <<stderr, audio_left, state>>
  /\ UNCHANGED <<metadata_cap, call, buf, stdout>>

FeedReturn ==
  /\ call = "feeding"
  /\ pos = Len(buf)
  /\ call' = "idle"
  /\ buf' = <<>>
  /\ pos' = 0
  /\ UNCHANGED <<demuxer, stdout, stderr, consumed>>

FeedStep ==
  \/ AudioRun \/ AudioRunFails \/ EmptyBlock \/ BlockStart \/ BlockStartFails
  \/ MetadataRun \/ FeedReturn

(* icy_free, at the end of stream_receive. *)
Free ==
  /\ call \in {"idle", "failed"}
  /\ call' = "freed"
  /\ state' = "ICY_AUDIO"
  /\ audio_left' = 0
  /\ metadata_left' = 0
  /\ metadata_buf' = <<>>
  /\ metadata_len' = 0
  /\ metadata_cap' = 0
  /\ UNCHANGED <<buf, pos, stdout, stderr, consumed>>

Next ==
  \/ \E bytes \in Runs(MaxChunk) : Feed(bytes)
  \/ FeedStep
  \/ Free

Spec == Init /\ [][Next]_vars

(* icy_feed is a loop without waits: once called it keeps running. *)
FairSpec == Spec /\ WF_vars(FeedStep)

-----------------------------------------------------------------------------
(* The types of the demuxer's fields and of the call in progress. *)
TypeOK ==
  /\ state \in {"ICY_AUDIO", "ICY_METADATA_LENGTH", "ICY_METADATA"}
  /\ audio_left \in 0 .. MetaInt
  /\ metadata_left \in 0 .. Unit * MaxByte
  /\ metadata_cap \in 0 .. Unit * MaxByte
  /\ metadata_len \in 0 .. metadata_cap
  /\ metadata_buf \in [1 .. metadata_cap -> Byte \cup {Garbage}]
  /\ call \in {"idle", "feeding", "failed", "freed"}
  /\ buf \in Seq(Byte)
  /\ pos \in 0 .. Len(buf)
  /\ stdout \in Seq(Byte)
  /\ stderr \in Seq(Seq(Byte))
  /\ consumed \in Seq(Byte)

(* Memory safety of the memcpy at icy.c:117 over any split of a block into *)
(* chunks and any growth of the buffer by earlier blocks: what is still to *)
(* come always fits behind what was copied, so no byte is written past     *)
(* metadata_cap.                                                           *)
BlockFits ==
  state = "ICY_METADATA" =>
    metadata_len + metadata_left <= metadata_cap

(* Only bytes of the block at hand reach the log.  The heap buffer grows   *)
(* with uninitialised bytes and keeps those of earlier, longer blocks, but *)
(* its prefix that counts as received is, byte for byte, what the stream   *)
(* sent since the length byte of this block, and with the bytes still to   *)
(* come it is as long as that byte said (icy.c:97-127).                    *)
BlockWritten ==
  LET start == Len(consumed) - metadata_len IN
  state = "ICY_METADATA" =>
    /\ start > 0
    /\ metadata_len + metadata_left = Unit * consumed[start]
    /\ \A i \in 1 .. metadata_len : metadata_buf[i] = consumed[start + i]

InUse == call \in {"idle", "feeding"}

(* No iteration of the loop of icy_feed leaves every counter where it was: *)
(* the part the next byte belongs to is never already exhausted.           *)
LoopProgress ==
  /\ InUse /\ state = "ICY_AUDIO" => audio_left > 0
  /\ state = "ICY_METADATA" => metadata_left > 0

(* The bytes copied so far of the block in progress. *)
Block == IF InUse /\ state = "ICY_METADATA"
         THEN [i \in 1 .. metadata_len |-> metadata_buf[i]] ELSE <<>>

(* The part of the frame the next byte belongs to, and what it wants. *)
Phase == IF ~InUse THEN "over"
         ELSE CASE state = "ICY_AUDIO"           -> "audio"
                [] state = "ICY_METADATA_LENGTH" -> "length"
                [] state = "ICY_METADATA"        -> "metadata"

Left == IF ~InUse THEN 0
        ELSE CASE state = "ICY_AUDIO"           -> audio_left
               [] state = "ICY_METADATA_LENGTH" -> 0
               [] state = "ICY_METADATA"        -> metadata_left

Framing == INSTANCE IcyFraming WITH
  phase  <- Phase,
  left   <- Left,
  block  <- Block,
  audio  <- stdout,
  titles <- stderr

(* The demultiplexer implements the framing, whatever the chunks: every    *)
(* iteration of icy_feed is a step of IcyFraming or changes nothing there. *)
ImplementsFraming == Framing!Init /\ [][Framing!Next]_(Framing!vars)

(* Chunk independence: at every point of every call the output depends on  *)
(* the bytes received and not on how the network cut them into chunks; no  *)
(* audio byte reaches stderr and no metadata byte reaches stdout.          *)
Delivered ==
  InUse => stdout = AudioOf(consumed) /\ stderr = TitlesOf(consumed)

(* Every call of icy_feed returns: no chunk makes its loop spin. *)
FeedReturns == (call = "feeding") ~> (call # "feeding")
=============================================================================
