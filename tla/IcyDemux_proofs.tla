-------------------------- MODULE IcyDemux_proofs --------------------------
(***************************************************************************)
(* IcyDemux for every MetaInt, Unit and MaxByte, and chunks of any size:   *)
(* its types, the memory safety of its copy, the progress of its loop, and *)
(* that it implements IcyFraming.                                          *)
(***************************************************************************)
EXTENDS IcyDemux, SequenceTheorems, WellFoundedInduction, TLAPS

USE MetaIntAssumption, UnitAssumption, MaxByteAssumption, BoundAssumption,
    GarbageAssumption

-----------------------------------------------------------------------------
(* Facts about byte strings. *)

(* A nonempty set of numbers up to L has a largest one. *)
LEMMA Largest ==
  ASSUME NEW L \in Nat, NEW S \in SUBSET (0 .. L), S # {}
  PROVE  \E m \in S : \A k \in S : k <= m
<1>. DEFINE D == {L - i : i \in S}
<1>0. \A i \in S : i \in 0 .. L
  OBVIOUS
<1>1. D \subseteq Nat /\ D # {}
  <2>1. \A i \in S : L - i \in Nat
    BY <1>0
  <2>. QED
    BY <2>1
<1>2. PICK p \in D : \A q \in D : ~ (<<q, p>> \in OpToRel(<, Nat))
  BY <1>1, NatLessThanWellFounded, WFMin
<1>3. \A q \in D : p <= q
  <2>. SUFFICES ASSUME NEW q \in D PROVE p <= q
    OBVIOUS
  <2>1. p \in Nat /\ q \in Nat
    BY <1>1
  <2>2. ~ (<<q, p>> \in OpToRel(<, Nat))
    BY <1>2
  <2>. HIDE DEF D
  <2>. QED
    BY <2>1, <2>2 DEF OpToRel
<1>4. PICK m \in S : p = L - m
  OBVIOUS
<1>5. ASSUME NEW k \in S PROVE k <= m
  <2>1. L - k \in D
    OBVIOUS
  <2>2. L - m <= L - k
    BY <2>1, <1>3, <1>4
  <2>3. k \in Int /\ m \in Int
    BY <1>0
  <2>. QED
    BY <2>2, <2>3
<1>. QED
  BY <1>5

(* The length byte counts at most Unit * MaxByte metadata bytes. *)
LEMMA NeedBounds ==
  ASSUME NEW b \in Byte
  PROVE  /\ Unit * b \in 0 .. Unit * MaxByte
         /\ b # 0 <=> Unit * b # 0
<1>1. b \in Nat /\ b <= MaxByte
  BY DEF Byte
<1>2. Unit * b <= Unit * MaxByte /\ Unit * b \in Nat /\ Unit * MaxByte \in Nat
  BY <1>1
<1>3. b # 0 <=> Unit * b # 0
  BY <1>1
<1>. QED
  BY <1>2, <1>3

(* A chunk offered by the network is a sequence of bytes. *)
LEMMA RunsAreSequences ==
  ASSUME NEW n \in Nat, NEW run \in Runs(n)
  PROVE  run \in Seq(Byte) /\ Len(run) \in 1 .. n
<1>1. PICK k \in 1 .. n : run \in [1 .. k -> Byte]
  BY DEF Runs
<1>2. run \in Seq(Byte) /\ Len(run) = k
  BY <1>1, LenProperties, IsASeq
<1>. QED
  BY <1>1, <1>2

(* Trimming a block keeps a prefix of it. *)
LEMMA TrimType ==
  ASSUME NEW s \in Seq(Byte)
  PROVE  /\ TrimmedLen(s) \in 0 .. Len(s)
         /\ Printed(s) \in Seq(Seq(Byte))
<1>. DEFINE P(n) == /\ n > 0 => s[n] # 0
                    /\ \A i \in n + 1 .. Len(s) : s[i] = 0
            Nonzero == {i \in 1 .. Len(s) : s[i] # 0}
<1>1. Len(s) \in Nat
  OBVIOUS
<1>2. \E n \in 0 .. Len(s) : P(n)
  <2>1. CASE Nonzero = {}
    <3>1. P(0)
      BY <1>1, <2>1
    <3>. QED
      BY <3>1, <1>1
  <2>2. CASE Nonzero # {}
    <3>1. Nonzero \in SUBSET (0 .. Len(s))
      OBVIOUS
    <3>2. PICK n \in Nonzero : \A i \in Nonzero : i <= n
      <4>. HIDE DEF Nonzero
      <4>. QED
        BY <1>1, <2>2, <3>1, Largest
    <3>3. P(n)
      BY <1>1, <3>2
    <3>. QED
      BY <3>3, <1>1
  <2>. QED
    BY <2>1, <2>2
<1>3. TrimmedLen(s) \in 0 .. Len(s)
  BY <1>2 DEF TrimmedLen
<1>4. Trim(s) \in Seq(Byte)
  BY <1>1, <1>3, SubSeqProperties DEF Trim
<1>. QED
  BY <1>3, <1>4 DEF Printed

-----------------------------------------------------------------------------
(* The inductive invariant. *)

IInv == TypeOK /\ BlockFits /\ BlockWritten /\ LoopProgress

(* The received part of a block holds bytes, none of them uninitialised.   *)
LEMMA ReceivedBytes ==
  ASSUME TypeOK, BlockWritten, state = "ICY_METADATA"
  PROVE  \A i \in 1 .. metadata_len : metadata_buf[i] \in Byte
<1>1. consumed \in Seq(Byte) /\ Len(consumed) \in Nat /\ metadata_len \in Nat
  BY DEF TypeOK
<1>. SUFFICES ASSUME NEW i \in 1 .. metadata_len PROVE metadata_buf[i] \in Byte
  OBVIOUS
<1>2. metadata_buf[i] = consumed[Len(consumed) - metadata_len + i]
  BY DEF BlockWritten
<1>3. Len(consumed) - metadata_len + i \in 1 .. Len(consumed)
  BY <1>1 DEF BlockWritten
<1>. QED
  BY <1>1, <1>2, <1>3

(* The run of a chunk is a sequence of its bytes. *)
LEMMA RunType ==
  ASSUME TypeOK, NEW chunk \in 0 .. Len(buf) - pos
  PROVE  /\ Run(chunk) \in Seq(Byte)
         /\ Len(Run(chunk)) = chunk
         /\ \A i \in 1 .. chunk : Run(chunk)[i] = buf[pos + i]
<1>1. buf \in Seq(Byte) /\ pos \in Nat /\ Len(buf) \in Nat /\ pos <= Len(buf)
  BY DEF TypeOK
<1>2. pos + 1 \in 1 .. Len(buf) + 1 /\ pos + chunk \in pos .. Len(buf)
  BY <1>1
<1>. QED
  BY <1>1, <1>2, SubSeqProperties DEF Run

(* Inside the loop of icy_feed a chunk is between 1 and what is left. *)
LEMMA ChunkBounds ==
  ASSUME TypeOK, InLoop, NEW left \in Nat \ {0}
  PROVE  /\ Chunk(left) \in 1 .. left
         /\ Chunk(left) \in 1 .. Len(buf) - pos
         /\ buf[pos + 1] \in Byte
<1>1. buf \in Seq(Byte) /\ pos \in Nat /\ Len(buf) \in Nat /\ pos < Len(buf)
  BY DEF TypeOK, InLoop
<1>2. Chunk(left) \in 1 .. left /\ Chunk(left) \in 1 .. Len(buf) - pos
  BY <1>1 DEF Chunk, Min
<1>. QED
  BY <1>1, <1>2

(* icy_init establishes the invariant. *)
LEMMA InitInv == Init => IInv
<1>. SUFFICES ASSUME Init PROVE IInv
  OBVIOUS
<1>1. 0 \in 0 .. Unit * MaxByte
  BY NeedBounds DEF Byte
<1>2. metadata_buf \in [1 .. 0 -> Byte \cup {Garbage}]
  BY DEF Init
<1>3. TypeOK
  BY <1>1, <1>2 DEF Init, TypeOK
<1>. QED
  BY <1>3 DEF Init, IInv, BlockFits, BlockWritten, LoopProgress

(* Writing audio keeps the invariant. *)
LEMMA AudioInv == ASSUME IInv, AudioRun PROVE IInv'
<1>. DEFINE chunk == Chunk(audio_left)
<1>. USE DEF IInv
<1>1. audio_left \in 1 .. MetaInt
  BY DEF TypeOK, LoopProgress, AudioRun, InLoop, InUse
<1>2. chunk \in 1 .. audio_left /\ chunk \in 1 .. Len(buf) - pos
  BY <1>1, ChunkBounds DEF AudioRun
<1>3. Run(chunk) \in Seq(Byte)
  BY <1>2, RunType
<1>. HIDE DEF chunk
<1>4. /\ stdout' = stdout \o Run(chunk)
      /\ consumed' = consumed \o Run(chunk)
      /\ pos' = pos + chunk
      /\ audio_left' = audio_left - chunk
      /\ state' = IF audio_left = chunk THEN "ICY_METADATA_LENGTH" ELSE state
      /\ state = "ICY_AUDIO"
      /\ UNCHANGED <<metadata_left, metadata_buf, metadata_len, metadata_cap,
                     call, buf, stderr>>
  BY DEF AudioRun, chunk
<1>5. TypeOK'
  <2>1. stdout' \in Seq(Byte) /\ consumed' \in Seq(Byte)
    BY <1>3, <1>4, ConcatProperties DEF TypeOK
  <2>2. pos' \in 0 .. Len(buf') /\ audio_left' \in 0 .. MetaInt
    BY <1>1, <1>2, <1>4 DEF TypeOK
  <2>. QED
    BY <2>1, <2>2, <1>4 DEF TypeOK
<1>6. (BlockFits /\ BlockWritten)'
  BY <1>4 DEF BlockFits, BlockWritten
<1>7. LoopProgress'
  BY <1>1, <1>2, <1>4 DEF LoopProgress
<1>. QED
  BY <1>5, <1>6, <1>7

(* A failed write to stdout keeps the invariant. *)
LEMMA AudioFailsInv == ASSUME IInv, AudioRunFails PROVE IInv'
<1>. USE DEF IInv
<1>1. audio_left \in 1 .. MetaInt
  BY DEF TypeOK, LoopProgress, AudioRunFails, InLoop, InUse
<1>2. Chunk(audio_left) \in 1 .. Len(buf) - pos
  BY <1>1, ChunkBounds DEF AudioRunFails
<1>3. PICK written \in 0 .. Chunk(audio_left) - 1 :
        stdout' = stdout \o Run(written)
  BY DEF AudioRunFails
<1>4. Run(written) \in Seq(Byte)
  <2>1. pos \in Nat /\ Len(buf) \in Nat
    BY DEF TypeOK
  <2>2. written \in 0 .. Len(buf) - pos
    BY <1>2, <1>3, <2>1
  <2>. QED
    BY <2>2, RunType
<1>5. stdout' \in Seq(Byte)
  BY <1>3, <1>4, ConcatProperties DEF TypeOK
<1>6. /\ call' = "failed"
      /\ UNCHANGED <<demuxer, buf, pos, stderr, consumed>>
  BY DEF AudioRunFails
<1>. QED
  BY <1>5, <1>6
  DEF TypeOK, BlockFits, BlockWritten, LoopProgress, InUse, demuxer

(* A zero length byte keeps the invariant. *)
LEMMA EmptyBlockInv == ASSUME IInv, EmptyBlock PROVE IInv'
<1>. USE DEF IInv
<1>1. buf[pos + 1] \in Byte /\ pos + 1 \in 0 .. Len(buf)
  BY DEF EmptyBlock, InLoop, TypeOK
<1>2. consumed' \in Seq(Byte)
  BY <1>1, AppendProperties DEF EmptyBlock, TypeOK
<1>3. 0 \in 0 .. Unit * MaxByte
  BY NeedBounds DEF Byte
<1>4. TypeOK'
  BY <1>1, <1>2, <1>3 DEF EmptyBlock, TypeOK, Refilled
<1>. QED
  BY <1>4 DEF EmptyBlock, BlockFits, BlockWritten, LoopProgress, Refilled

(* Opening a block, with or without realloc, keeps the invariant. *)
LEMMA BlockStartInv == ASSUME IInv, BlockStart PROVE IInv'
<1>. USE DEF IInv
<1>. DEFINE need == Unit * buf[pos + 1]
            cap == GrownCap(metadata_cap, need)
<1>1. buf[pos + 1] \in Byte /\ pos + 1 \in 0 .. Len(buf)
  BY DEF BlockStart, InLoop, TypeOK
<1>2. need \in 1 .. Unit * MaxByte
  BY <1>1, NeedBounds DEF BlockStart
<1>. HIDE DEF need
<1>3. cap \in 0 .. Unit * MaxByte /\ need <= cap
  BY <1>2 DEF GrownCap, TypeOK
<1>4. consumed' \in Seq(Byte)
  BY <1>1, AppendProperties DEF BlockStart, TypeOK
<1>. HIDE DEF cap
<1>5. /\ pos' = pos + 1
      /\ metadata_left' = need
      /\ metadata_len' = 0
      /\ metadata_cap' = cap
      /\ metadata_buf' = [i \in 1 .. cap |->
                            IF i <= metadata_cap THEN metadata_buf[i]
                                                 ELSE Garbage]
      /\ state' = "ICY_METADATA"
      /\ UNCHANGED <<audio_left, call, buf, stdout, stderr>>
  BY DEF BlockStart, need, cap
<1>6. metadata_buf' \in [1 .. metadata_cap' -> Byte \cup {Garbage}]
  BY <1>3, <1>5 DEF TypeOK
<1>7. /\ metadata_len' \in 0 .. metadata_cap'
      /\ metadata_left' \in 0 .. Unit * MaxByte
      /\ metadata_cap' \in 0 .. Unit * MaxByte
  BY <1>2, <1>3, <1>5
<1>8. TypeOK'
  BY <1>1, <1>4, <1>5, <1>6, <1>7 DEF TypeOK
<1>9. BlockWritten'
  <2>1. consumed \in Seq(Byte) /\ consumed' = Append(consumed, buf[pos + 1])
    BY DEF BlockStart, TypeOK
  <2>2. /\ Len(consumed') = Len(consumed) + 1 /\ Len(consumed) \in Nat
        /\ consumed'[Len(consumed')] = buf[pos + 1]
    BY <1>1, <2>1, AppendProperties
  <2>3. need = Unit * buf[pos + 1] /\ need \in Nat
    BY <1>2 DEF need
  <2>. QED
    BY <1>5, <2>2, <2>3 DEF BlockWritten
<1>. QED
  BY <1>2, <1>3, <1>5, <1>8, <1>9 DEF BlockFits, LoopProgress

(* A failed realloc keeps the invariant. *)
LEMMA BlockStartFailsInv == ASSUME IInv, BlockStartFails PROVE IInv'
<1>. USE DEF IInv
<1>1. buf[pos + 1] \in Byte /\ pos + 1 \in 0 .. Len(buf)
  BY DEF BlockStartFails, InLoop, TypeOK
<1>2. Unit * buf[pos + 1] \in 0 .. Unit * MaxByte
  BY <1>1, NeedBounds
<1>3. TypeOK'
  BY <1>1, <1>2 DEF BlockStartFails, TypeOK
<1>. QED
  BY <1>3 DEF BlockStartFails, BlockFits, BlockWritten, LoopProgress, InUse

(* A call of icy_feed keeps the invariant. *)
LEMMA FeedInv ==
  ASSUME IInv, NEW bytes \in Runs(MaxChunk), Feed(bytes) PROVE IInv'
<1>1. bytes \in Seq(Byte)
  BY RunsAreSequences
<1>. QED
  BY <1>1
  DEF IInv, Feed, TypeOK, BlockFits, BlockWritten, LoopProgress, InUse, demuxer

(* The return of icy_feed keeps the invariant. *)
LEMMA FeedReturnInv == ASSUME IInv, FeedReturn PROVE IInv'
  BY DEF IInv, FeedReturn, TypeOK, BlockFits, BlockWritten, LoopProgress,
         InUse, demuxer

(* icy_free keeps the invariant. *)
LEMMA FreeInv == ASSUME IInv, Free PROVE IInv'
<1>1. 0 \in 0 .. Unit * MaxByte
  BY NeedBounds DEF Byte
<1>2. metadata_buf' \in [1 .. 0 -> Byte \cup {Garbage}]
  BY DEF Free
<1>. QED
  BY <1>1, <1>2
  DEF IInv, Free, TypeOK, BlockFits, BlockWritten, LoopProgress, InUse

(* The bytes copied by one iteration extend the received prefix. *)
LEMMA CopyAppends ==
  ASSUME IInv, NEW chunk \in 1 .. metadata_left,
         chunk \in 1 .. Len(buf) - pos, state = "ICY_METADATA"
  PROVE  /\ metadata_len + chunk \in 1 .. metadata_cap
         /\ Copied(chunk) \in [1 .. metadata_cap -> Byte \cup {Garbage}]
         /\ \A i \in 1 .. metadata_len + chunk :
              /\ Copied(chunk)[i] \in Byte
              /\ Copied(chunk)[i] = IF i <= metadata_len
                                    THEN metadata_buf[i]
                                    ELSE Run(chunk)[i - metadata_len]
<1>. DEFINE new == metadata_len + 1 .. metadata_len + chunk
<1>1. /\ metadata_left \in Nat /\ metadata_cap \in Nat /\ metadata_len \in Nat
      /\ pos \in Nat /\ Len(buf) \in Nat /\ buf \in Seq(Byte)
      /\ metadata_buf \in [1 .. metadata_cap -> Byte \cup {Garbage}]
  <2>1. Unit * MaxByte \in Nat
    OBVIOUS
  <2>. QED
    BY <2>1 DEF IInv, TypeOK
<1>2. metadata_len + chunk \in 1 .. metadata_cap
  BY <1>1 DEF IInv, BlockFits
<1>3. \A i \in new : /\ buf[pos + i - metadata_len] \in Byte
                     /\ buf[pos + i - metadata_len] = Run(chunk)[i - metadata_len]
  <2>. SUFFICES ASSUME NEW i \in new
                PROVE  /\ buf[pos + i - metadata_len] \in Byte
                       /\ buf[pos + i - metadata_len]
                            = Run(chunk)[i - metadata_len]
    OBVIOUS
  <2>1. i - metadata_len \in 1 .. chunk
    BY <1>1
  <2>2. pos + i - metadata_len = pos + (i - metadata_len)
    BY <1>1
  <2>3. pos + i - metadata_len \in 1 .. Len(buf)
    BY <1>1, <2>1
  <2>4. Run(chunk)[i - metadata_len] = buf[pos + (i - metadata_len)]
    BY <2>1, RunType, <1>1 DEF IInv
  <2>. QED
    BY <1>1, <2>2, <2>3, <2>4
<1>4. \A i \in 1 .. metadata_len : metadata_buf[i] \in Byte /\ i \notin new
  BY <1>1, ReceivedBytes DEF IInv
<1>5. \A i \in 1 .. metadata_cap :
        Copied(chunk)[i] = IF i \in new THEN buf[pos + i - metadata_len]
                                        ELSE metadata_buf[i]
  BY DEF Copied
<1>6. Copied(chunk) \in [1 .. metadata_cap -> Byte \cup {Garbage}]
  BY <1>1, <1>3 DEF Copied
<1>7. ASSUME NEW i \in 1 .. metadata_len + chunk
      PROVE  /\ Copied(chunk)[i] \in Byte
             /\ Copied(chunk)[i] = IF i <= metadata_len
                                   THEN metadata_buf[i]
                                   ELSE Run(chunk)[i - metadata_len]
  <2>1. i \in 1 .. metadata_cap
    BY <1>1, <1>2
  <2>2. CASE i <= metadata_len
    BY <1>1, <1>4, <1>5, <2>1, <2>2
  <2>3. CASE ~ (i <= metadata_len)
    <3>1. i \in new
      BY <1>1, <2>3
    <3>. QED
      BY <1>3, <1>5, <2>1, <2>3, <3>1
  <2>. QED
    BY <2>2, <2>3
<1>. QED
  BY <1>2, <1>6, <1>7

(* Copying metadata, and completing a block, keeps the invariant. *)
LEMMA MetadataInv == ASSUME IInv, MetadataRun PROVE IInv'
<1>. DEFINE chunk == Chunk(metadata_left)
            received == SubSeq(Copied(chunk), 1, metadata_len + chunk)
<1>1. /\ metadata_left \in Nat \ {0} /\ Unit * MaxByte \in Nat
      /\ metadata_cap \in Nat /\ metadata_len \in Nat
      /\ pos \in Nat /\ Len(buf) \in Nat /\ buf \in Seq(Byte)
      /\ pos < Len(buf)
      /\ metadata_left <= Unit * MaxByte
  <2>1. Unit * MaxByte \in Nat
    OBVIOUS
  <2>. QED
    BY <2>1 DEF IInv, TypeOK, LoopProgress, MetadataRun, InLoop
<1>2. chunk \in 1 .. metadata_left /\ chunk \in 1 .. Len(buf) - pos
  BY <1>1, ChunkBounds DEF MetadataRun, IInv
<1>3. /\ metadata_len + chunk \in 1 .. metadata_cap
      /\ Copied(chunk) \in [1 .. metadata_cap -> Byte \cup {Garbage}]
      /\ \A i \in 1 .. metadata_len + chunk :
           /\ Copied(chunk)[i] \in Byte
           /\ Copied(chunk)[i] = IF i <= metadata_len THEN metadata_buf[i]
                                 ELSE Run(chunk)[i - metadata_len]
  BY <1>2, CopyAppends DEF MetadataRun
<1>4. Run(chunk) \in Seq(Byte)
  BY <1>2, RunType DEF IInv
<1>5. Printed(received) \in Seq(Seq(Byte))
  <2>1. Copied(chunk) \in Seq(Byte \cup {Garbage})
    BY <1>1, <1>3, IsASeq
  <2>2. Len(Copied(chunk)) = metadata_cap
    BY <1>1, <1>3
  <2>3. /\ received \in Seq(Byte \cup {Garbage})
        /\ Len(received) = metadata_len + chunk
        /\ \A i \in 1 .. metadata_len + chunk : received[i] = Copied(chunk)[i]
    BY <1>1, <1>2, <1>3, <2>1, <2>2, SubSeqProperties
  <2>4. received \in Seq(Byte)
    BY <1>3, <2>3, ElementOfSeq, IsASeq
  <2>. QED
    BY <2>4, TrimType
<1>. HIDE DEF chunk, received
<1>6. /\ metadata_buf' = Copied(chunk)
      /\ pos' = pos + chunk
      /\ consumed' = consumed \o Run(chunk)
      /\ metadata_left' = metadata_left - chunk
      /\ IF chunk = metadata_left
         THEN /\ stderr' = stderr \o Printed(received)
              /\ metadata_len' = 0
              /\ audio_left' = MetaInt
              /\ state' = "ICY_AUDIO"
         ELSE /\ metadata_len' = metadata_len + chunk
              /\ UNCHANGED <<stderr, audio_left, state>>
      /\ state = "ICY_METADATA"
      /\ UNCHANGED <<metadata_cap, call, buf, stdout>>
  <2>1. metadata_buf' = Copied(chunk)
    BY DEF MetadataRun, chunk
  <2>. QED
    BY <2>1 DEF MetadataRun, chunk, received, BlockComplete, Received, Refilled
<1>7. TypeOK'
  <2>1. consumed' \in Seq(Byte)
    BY <1>4, <1>6, ConcatProperties DEF IInv, TypeOK
  <2>2. stderr' \in Seq(Seq(Byte))
    <3>1. stderr \in Seq(Seq(Byte))
      BY DEF IInv, TypeOK
    <3>2. stderr \o Printed(received) \in Seq(Seq(Byte))
      BY <1>5, <3>1, ConcatProperties
    <3>. QED
      BY <1>6, <3>1, <3>2
  <2>3. /\ metadata_left' \in 0 .. Unit * MaxByte
        /\ metadata_len' \in 0 .. metadata_cap'
        /\ pos' \in 0 .. Len(buf')
    BY <1>1, <1>2, <1>3, <1>6
  <2>4. audio_left' \in 0 .. MetaInt
    BY <1>6 DEF IInv, TypeOK
  <2>. QED
    BY <1>3, <1>6, <2>1, <2>2, <2>3, <2>4 DEF IInv, TypeOK
<1>8. BlockFits'
  <2>1. metadata_len + metadata_left <= metadata_cap
    BY <1>6 DEF IInv, BlockFits
  <2>. QED
    BY <1>1, <1>2, <1>3, <1>6, <2>1 DEF BlockFits
<1>9. BlockWritten'
  <2>. DEFINE start == Len(consumed) - metadata_len
  <2>. SUFFICES ASSUME chunk # metadata_left PROVE BlockWritten'
    BY <1>6 DEF BlockWritten
  <2>1. /\ consumed \in Seq(Byte) /\ Len(consumed) \in Nat /\ start \in Nat \ {0}
        /\ metadata_len + metadata_left = Unit * consumed[start]
        /\ \A i \in 1 .. metadata_len : metadata_buf[i] = consumed[start + i]
    <3>1. consumed \in Seq(Byte) /\ Len(consumed) \in Nat
      BY DEF IInv, TypeOK
    <3>2. /\ start > 0
          /\ metadata_len + metadata_left = Unit * consumed[start]
          /\ \A i \in 1 .. metadata_len : metadata_buf[i] = consumed[start + i]
      BY <1>6 DEF IInv, BlockWritten
    <3>. QED
      BY <1>1, <3>1, <3>2
  <2>2. Len(Run(chunk)) = chunk
    BY <1>2, RunType DEF IInv
  <2>3. /\ Len(consumed') = Len(consumed) + chunk
        /\ \A i \in 1 .. Len(consumed) + chunk :
             consumed'[i] = IF i <= Len(consumed) THEN consumed[i]
                            ELSE Run(chunk)[i - Len(consumed)]
    <3>1. consumed \in Seq(Byte) /\ Run(chunk) \in Seq(Byte)
      BY <1>4, <2>1
    <3>2. consumed' = consumed \o Run(chunk) /\ Len(Run(chunk)) = chunk
      BY <1>6, <2>2
    <3>3. /\ Len(consumed \o Run(chunk)) = Len(consumed) + chunk
          /\ \A i \in 1 .. Len(consumed) + chunk :
               (consumed \o Run(chunk))[i] = IF i <= Len(consumed) THEN consumed[i]
                                             ELSE Run(chunk)[i - Len(consumed)]
      BY <3>1, <3>2, ConcatProperties
    <3>. QED
      BY <3>2, <3>3
  <2>4. Len(consumed') - metadata_len' = start /\ consumed'[start] = consumed[start]
    BY <1>1, <1>2, <1>6, <2>1, <2>3
  <2>5. metadata_len' + metadata_left' = Unit * consumed'[start]
    BY <1>1, <1>2, <1>6, <2>1, <2>4
  <2>6. ASSUME NEW i \in 1 .. metadata_len + chunk
        PROVE  metadata_buf'[i] = consumed'[start + i]
    <3>1. CASE i <= metadata_len
      BY <1>1, <1>2, <1>3, <1>6, <2>1, <2>3, <3>1
    <3>2. CASE i > metadata_len
      <4>1. start + i - Len(consumed) = i - metadata_len
        BY <1>1, <2>1
      <4>2. start + i \in Len(consumed) + 1 .. Len(consumed) + chunk
        BY <1>1, <1>2, <2>1, <3>2
      <4>3. consumed'[start + i] = Run(chunk)[i - metadata_len]
        BY <2>1, <2>3, <4>1, <4>2
      <4>. QED
        BY <1>1, <1>3, <1>6, <3>2, <4>3
    <3>. QED
      BY <1>1, <1>2, <3>1, <3>2
  <2>. HIDE DEF start
  <2>7. metadata_len' = metadata_len + chunk /\ start > 0
    BY <1>6, <2>1
  <2>. QED
    BY <2>4, <2>5, <2>6, <2>7 DEF BlockWritten
<1>10. LoopProgress'
  BY <1>1, <1>2, <1>6 DEF LoopProgress
<1>. QED
  BY <1>7, <1>8, <1>9, <1>10 DEF IInv

(* Every step keeps the invariant. *)
LEMMA InvStep == ASSUME IInv, [Next]_vars PROVE IInv'
<1>1. CASE \E bytes \in Runs(MaxChunk) : Feed(bytes)
  BY <1>1, FeedInv
<1>2. CASE FeedStep
  BY <1>2, AudioInv, AudioFailsInv, EmptyBlockInv, BlockStartInv,
     BlockStartFailsInv, MetadataInv, FeedReturnInv
  DEF FeedStep
<1>3. CASE Free
  BY <1>3, FreeInv
<1>4. CASE UNCHANGED vars
  BY <1>4 DEF vars, demuxer, IInv, TypeOK, BlockFits, BlockWritten,
              LoopProgress, InUse
<1>. QED
  BY <1>1, <1>2, <1>3, <1>4 DEF Next

(* The inductive invariant holds in every reachable state of icy.c. *)
THEOREM Invariance == Spec => []IInv
<1>. QED
  BY InitInv, InvStep, PTL DEF Spec

(* Every field of the demuxer keeps its type; in particular the parser     *)
(* state of icy.c never leaves its enumeration and no counter underflows.  *)
THEOREM TypeCorrect == Spec => []TypeOK
<1>1. IInv => TypeOK
  BY DEF IInv
<1>. QED
  BY <1>1, Invariance, PTL

(* The copy of icy.c:117 stays inside the heap buffer for every interval,  *)
(* every sequence of block sizes and every cut into chunks.                *)
THEOREM CopyIsInBounds == Spec => []BlockFits
<1>1. IInv => BlockFits
  BY DEF IInv
<1>. QED
  BY <1>1, Invariance, PTL

(* What log_metadata is handed is what the stream sent since the length    *)
(* byte of this block, however it was cut; no byte of an earlier block.    *)
THEOREM OnlyReceivedBytesLogged == Spec => []BlockWritten
<1>1. IInv => BlockWritten
  BY DEF IInv
<1>. QED
  BY <1>1, Invariance, PTL

(* icy_feed never spins: the part at hand always wants a byte.             *)
THEOREM LoopAdvances == Spec => []LoopProgress
<1>1. IInv => LoopProgress
  BY DEF IInv
<1>. QED
  BY <1>1, Invariance, PTL

-----------------------------------------------------------------------------
(* The refinement: under the mapping of IcyDemux every step of icy.c is a  *)
(* step of IcyFraming or changes nothing there.                            *)

(* The framing sees the same byte strings as the demuxer. *)
LEMMA SameBytes ==
  /\ Framing!Byte = Byte
  /\ \A n : Framing!Runs(n) = Runs(n)
  /\ \A s : Framing!Printed(s) = Printed(s)
BY DEF Framing!Byte, Byte, Framing!Runs, Runs, Framing!Printed, Printed,
       Framing!Trim, Trim, Framing!TrimmedLen, TrimmedLen

(* A run read from the buffer is a run the framing may take. *)
LEMMA RunIsRun ==
  ASSUME TypeOK, NEW n \in Nat, NEW chunk \in 1 .. n, chunk \in 1 .. Len(buf) - pos
  PROVE  Run(chunk) \in Framing!Runs(n) /\ Len(Run(chunk)) = chunk
<1>1. Run(chunk) \in Seq(Byte) /\ Len(Run(chunk)) = chunk
  BY RunType DEF TypeOK
<1>2. Run(chunk) \in [1 .. chunk -> Byte]
  BY <1>1, LenProperties
<1>. QED
  BY <1>1, <1>2, SameBytes DEF Runs

(* icy_init starts in the framing's initial state. *)
LEMMA InitRefines == Init => Framing!Init
BY DEF Init, Framing!Init, Block, InUse, Phase, Left

(* Writing audio is an audio run of the framing. *)
LEMMA AudioRefines == ASSUME IInv, AudioRun PROVE Framing!Next
<1>. DEFINE chunk == Chunk(audio_left)
<1>1. audio_left \in 1 .. MetaInt
  BY DEF IInv, TypeOK, LoopProgress, AudioRun, InLoop, InUse
<1>2. chunk \in 1 .. audio_left /\ chunk \in 1 .. Len(buf) - pos
  BY <1>1, ChunkBounds DEF AudioRun, IInv
<1>3. Run(chunk) \in Framing!Runs(audio_left) /\ Len(Run(chunk)) = chunk
  BY <1>1, <1>2, RunIsRun DEF IInv
<1>4. /\ stdout' = stdout \o Run(chunk)
      /\ consumed' = consumed \o Run(chunk)
      /\ audio_left' = audio_left - chunk
      /\ state' = IF audio_left = chunk THEN "ICY_METADATA_LENGTH" ELSE state
      /\ state = "ICY_AUDIO"
      /\ InUse /\ InUse'
      /\ UNCHANGED stderr
  BY DEF AudioRun, InLoop, InUse
<1>. HIDE DEF chunk
<1>5. Framing!Audio(Run(chunk))
  BY <1>1, <1>3, <1>4 DEF Framing!Audio, Block, Phase, Left
<1>. QED
  BY <1>3, <1>4, <1>5 DEF Framing!Next, Phase, Left

(* A failed write ends the framing after a proper prefix of the run. *)
LEMMA AudioFailsRefines == ASSUME IInv, AudioRunFails PROVE Framing!Next
<1>1. audio_left \in 1 .. MetaInt
  BY DEF IInv, TypeOK, LoopProgress, AudioRunFails, InLoop, InUse
<1>2. /\ Chunk(audio_left) \in 1 .. audio_left
      /\ Chunk(audio_left) \in 1 .. Len(buf) - pos
  BY <1>1, ChunkBounds DEF AudioRunFails, IInv
<1>3. PICK written \in 0 .. Chunk(audio_left) - 1 :
        stdout' = stdout \o Run(written)
  BY DEF AudioRunFails
<1>4. /\ state = "ICY_AUDIO"
      /\ InUse /\ ~InUse'
      /\ UNCHANGED <<stderr, consumed>>
  BY DEF AudioRunFails, InLoop, InUse
<1>5. Framing!End(Run(written))
  BY <1>3, <1>4 DEF Framing!End, Block, Phase, Left
<1>6. Run(written) \in {<<>>} \cup Framing!Runs(audio_left - 1)
  <2>1. CASE written = 0
    <3>1. Run(0) \in Seq(Byte) /\ Len(Run(0)) = 0
      BY <1>2, RunType DEF IInv, TypeOK
    <3>. QED
      BY <2>1, <3>1, EmptySeq
  <2>2. CASE written # 0
    BY <1>1, <1>2, <1>3, <2>2, RunIsRun DEF IInv, TypeOK
  <2>. QED
    BY <2>1, <2>2
<1>. QED
  BY <1>4, <1>5, <1>6 DEF Framing!Next, Phase, Left

(* Both outcomes of the length byte are its step in the framing. *)
LEMMA LengthRefines ==
  ASSUME IInv, EmptyBlock \/ BlockStart PROVE Framing!Next
<1>. DEFINE b == buf[pos + 1]
<1>1. /\ b \in Byte
      /\ consumed' = Append(consumed, b)
      /\ InUse /\ InUse'
      /\ state = "ICY_METADATA_LENGTH"
      /\ UNCHANGED <<stdout, stderr>>
  BY DEF EmptyBlock, BlockStart, InLoop, InUse, IInv, TypeOK
<1>2. b # 0 <=> Unit * b # 0
  BY <1>1, NeedBounds
<1>3. CASE EmptyBlock
  <2>1. /\ b = 0
        /\ audio_left' = MetaInt
        /\ state' = "ICY_AUDIO"
    BY <1>3 DEF EmptyBlock, Refilled
  <2>. HIDE DEF b
  <2>2. Framing!Length(b)
    BY <1>1, <2>1 DEF Framing!Length, Block, Phase, Left
  <2>. QED
    BY <1>1, <2>2, SameBytes DEF Framing!Next, Phase, Left
<1>4. CASE BlockStart
  <2>1. /\ b # 0
        /\ metadata_left' = Unit * b
        /\ metadata_len' = 0
        /\ state' = "ICY_METADATA"
    BY <1>2, <1>4 DEF BlockStart
  <2>. HIDE DEF b
  <2>2. Block' = <<>>
    BY <1>1, <2>1 DEF Block
  <2>3. Framing!Length(b)
    BY <1>1, <2>1, <2>2 DEF Framing!Length, Phase, Left
  <2>. QED
    BY <1>1, <2>3, SameBytes DEF Framing!Next, Phase, Left
<1>. QED
  BY <1>3, <1>4

(* Copying metadata is a metadata run of the framing. *)
LEMMA MetadataRefines == ASSUME IInv, MetadataRun PROVE Framing!Next
<1>. DEFINE chunk == Chunk(metadata_left)
            received == SubSeq(Copied(chunk), 1, metadata_len + chunk)
<1>1. /\ metadata_left \in Nat \ {0}
      /\ metadata_cap \in Nat /\ metadata_len \in Nat
      /\ metadata_len <= metadata_cap
      /\ metadata_buf \in [1 .. metadata_cap -> Byte \cup {Garbage}]
  <2>1. Unit * MaxByte \in Nat
    OBVIOUS
  <2>. QED
    BY <2>1 DEF IInv, TypeOK, LoopProgress, MetadataRun
<1>2. chunk \in 1 .. metadata_left /\ chunk \in 1 .. Len(buf) - pos
  BY <1>1, ChunkBounds DEF MetadataRun, IInv
<1>3. /\ metadata_len + chunk \in 1 .. metadata_cap
      /\ Copied(chunk) \in [1 .. metadata_cap -> Byte \cup {Garbage}]
      /\ \A i \in 1 .. metadata_len + chunk :
           Copied(chunk)[i] = IF i <= metadata_len
                              THEN metadata_buf[i]
                              ELSE Run(chunk)[i - metadata_len]
      /\ \A i \in 1 .. metadata_len + chunk : Copied(chunk)[i] \in Byte
  BY <1>2, CopyAppends DEF MetadataRun
<1>4. /\ Run(chunk) \in Framing!Runs(metadata_left)
      /\ Len(Run(chunk)) = chunk
      /\ Run(chunk) \in Seq(Byte)
  BY <1>1, <1>2, RunIsRun, RunType DEF IInv
<1>5. /\ metadata_buf' = Copied(chunk)
      /\ consumed' = consumed \o Run(chunk)
      /\ metadata_left' = metadata_left - chunk
      /\ IF chunk = metadata_left
         THEN /\ stderr' = stderr \o Printed(received)
              /\ audio_left' = MetaInt
              /\ state' = "ICY_AUDIO"
         ELSE /\ metadata_len' = metadata_len + chunk
              /\ UNCHANGED <<stderr, state>>
      /\ state = "ICY_METADATA"
      /\ InUse /\ InUse'
      /\ UNCHANGED stdout
  <2>1. metadata_buf' = Copied(chunk)
    BY DEF MetadataRun, chunk
  <2>. QED
    BY <2>1 DEF MetadataRun, chunk, received, BlockComplete, Received, Refilled,
                InLoop, InUse
<1>. HIDE DEF chunk
<1>6. Block \in Seq(Byte) /\ Len(Block) = metadata_len
      /\ \A i \in 1 .. metadata_len : Block[i] = metadata_buf[i]
  <2>1. Block = [i \in 1 .. metadata_len |-> metadata_buf[i]]
    BY <1>5 DEF Block
  <2>2. \A i \in 1 .. metadata_len : metadata_buf[i] \in Byte
    BY <1>5, ReceivedBytes DEF IInv
  <2>. QED
    BY <1>1, <2>1, <2>2, IsASeq
<1>7. /\ Block \o Run(chunk) \in Seq(Byte)
      /\ Len(Block \o Run(chunk)) = metadata_len + chunk
      /\ \A i \in 1 .. metadata_len + chunk :
           (Block \o Run(chunk))[i] = Copied(chunk)[i]
  <2>1. /\ Block \o Run(chunk) \in Seq(Byte)
        /\ Len(Block \o Run(chunk)) = metadata_len + chunk
        /\ \A i \in 1 .. metadata_len + chunk :
             (Block \o Run(chunk))[i] = IF i <= metadata_len THEN Block[i]
                                        ELSE Run(chunk)[i - metadata_len]
    BY <1>4, <1>6, ConcatProperties
  <2>2. ASSUME NEW i \in 1 .. metadata_len + chunk
        PROVE  (Block \o Run(chunk))[i] = Copied(chunk)[i]
    <3>1. i <= metadata_len => i \in 1 .. metadata_len
      BY <1>1
    <3>. QED
      BY <1>3, <1>6, <2>1, <3>1
  <2>. QED
    BY <2>1, <2>2
<1>8. received = Block \o Run(chunk)
  <2>1. Copied(chunk) \in Seq(Byte \cup {Garbage})
    BY <1>1, <1>3, IsASeq
  <2>2. Len(Copied(chunk)) = metadata_cap
    BY <1>1, <1>3
  <2>3. /\ received \in Seq(Byte \cup {Garbage})
        /\ Len(received) = metadata_len + chunk
        /\ \A i \in 1 .. metadata_len + chunk : received[i] = Copied(chunk)[i]
    BY <1>1, <1>2, <1>3, <2>1, <2>2, SubSeqProperties
  <2>4. Block \o Run(chunk) \in Seq(Byte \cup {Garbage})
    BY <1>7
  <2>. QED
    BY <1>7, <2>3, <2>4, SeqEqual
<1>9. CASE chunk = metadata_left
  <2>1. Block' = <<>>
    BY <1>5, <1>9 DEF Block
  <2>2. stderr' = stderr \o Framing!Printed(Block \o Run(chunk))
    BY <1>5, <1>8, <1>9, SameBytes
  <2>3. Framing!Metadata(Run(chunk))
    BY <1>4, <1>5, <1>9, <2>1, <2>2 DEF Framing!Metadata, Phase, Left
  <2>. QED
    BY <1>4, <1>5, <2>3 DEF Framing!Next, Phase, Left
<1>10. CASE chunk # metadata_left
  <2>1. Block' = [i \in 1 .. metadata_len + chunk |-> Copied(chunk)[i]]
    BY <1>5, <1>10 DEF Block
  <2>2. /\ Block' \in Seq(Byte)
        /\ Len(Block') = metadata_len + chunk
        /\ \A i \in 1 .. metadata_len + chunk : Block'[i] = Copied(chunk)[i]
    BY <1>1, <1>2, <1>3, <2>1, IsASeq
  <2>3. Block' = Block \o Run(chunk)
    BY <1>7, <2>2, SeqEqual
  <2>4. Framing!Metadata(Run(chunk))
    BY <1>4, <1>5, <1>10, <2>3 DEF Framing!Metadata, Phase, Left
  <2>. QED
    BY <1>4, <1>5, <2>4 DEF Framing!Next, Phase, Left
<1>. QED
  BY <1>9, <1>10

(* Giving up on a failed realloc, and icy_free, end the framing. *)
LEMMA EndRefines ==
  ASSUME IInv, BlockStartFails \/ Free
  PROVE  Framing!Next \/ UNCHANGED Framing!vars
<1>1. /\ ~InUse'
      /\ UNCHANGED <<stdout, stderr, consumed>>
  BY DEF BlockStartFails, Free, InUse
<1>2. CASE InUse
  <2>1. stdout' = stdout \o <<>>
    BY <1>1, ConcatEmptySeq DEF IInv, TypeOK
  <2>2. Framing!End(<<>>)
    BY <1>1, <1>2, <2>1 DEF Framing!End, Block, Phase, Left, IInv, TypeOK
  <2>. QED
    BY <2>2 DEF Framing!Next, Phase, Left
<1>3. CASE ~InUse
  BY <1>1, <1>3 DEF Framing!vars, Block, Phase, Left
<1>. QED
  BY <1>2, <1>3

(* Calling icy_feed and returning from it are not seen by the framing. *)
LEMMA CallStutters ==
  ASSUME IInv, (\E bytes \in Runs(MaxChunk) : Feed(bytes)) \/ FeedReturn
  PROVE  UNCHANGED Framing!vars
<1>1. /\ InUse /\ InUse'
      /\ UNCHANGED <<demuxer, stdout, stderr, consumed>>
  BY DEF Feed, FeedReturn, InUse
<1>. QED
  BY <1>1 DEF Framing!vars, Block, Phase, Left, demuxer

(* Every step is a step of the framing or a stutter. *)
LEMMA StepRefines == ASSUME IInv, [Next]_vars PROVE [Framing!Next]_(Framing!vars)
<1>1. CASE Next
  BY <1>1, AudioRefines, AudioFailsRefines, LengthRefines, MetadataRefines,
     EndRefines, CallStutters
  DEF Next, FeedStep
<1>2. CASE UNCHANGED vars
  BY <1>2 DEF vars, demuxer, Framing!vars, Block, Phase, Left, InUse
<1>. QED
  BY <1>1, <1>2

(* icy.c implements the chunk-free framing: whatever the network's cuts,   *)
(* stdout gets the audio and stderr the unpadded complete blocks, in the   *)
(* order of the stream, for every interval and block size.                 *)
THEOREM FramingImplemented == Spec => ImplementsFraming
<1>1. Init => Framing!Init
  BY InitRefines
<1>2. IInv /\ [Next]_vars => [Framing!Next]_(Framing!vars)
  BY StepRefines
<1>. QED
  BY <1>1, <1>2, Invariance, PTL DEF Spec, ImplementsFraming

-----------------------------------------------------------------------------
(* What the loop of icy_feed has written is what the frames of the bytes    *)
(* received say.  A frame of s is found by walking over the frames before  *)
(* it, so the functions AudioFrom and TitlesFrom are recursive; facts      *)
(* about them go from the end of s to its beginning.                       *)

(* A recursion over 0 .. L in which the indices in Done refer to one        *)
(* further on, and a function that satisfies it.                           *)
Forward(L, Done, next) == \A i \in Done : next[i] \in i + 1 .. L

Follows(g, L, Done, here, next) ==
  \A i \in 0 .. L : g[i] = IF i \in Done THEN here[i] \o g[next[i]] ELSE here[i]

(* There is one: it is extended index by index from L down to 0.           *)
LEMMA ForwardRecursion ==
  ASSUME NEW L \in Nat, NEW Done \in SUBSET (0 .. L), NEW here, NEW next,
         Forward(L, Done, next)
  PROVE  \E g : g = [i \in 0 .. L |-> g[i]] /\ Follows(g, L, Done, here, next)
<1>. DEFINE Good(m) ==
       \E g : g = [i \in m .. L |-> IF i \in Done THEN here[i] \o g[next[i]] ELSE here[i]]
            Bad == {m \in 0 .. L : ~Good(m)}
<1>1. Bad = {}
  <2>. SUFFICES ASSUME Bad # {} PROVE FALSE
    OBVIOUS
  <2>1. PICK m \in Bad : \A k \in Bad : k <= m
    <3>. HIDE DEF Bad
    <3>1. Bad \in SUBSET (0 .. L)
      BY DEF Bad
    <3>. QED
      BY <3>1, Largest
  <2>2. m \in 0 .. L /\ ~Good(m)
    OBVIOUS
  <2>3. \E f : f = [i \in m + 1 .. L |-> IF i \in Done THEN here[i] \o f[next[i]] ELSE here[i]]
    <3>1. CASE m = L
      <4>. DEFINE f == [i \in {} |-> here[i]]
      <4>1. m + 1 .. L = {}
        BY <2>2, <3>1
      <4>2. f = [i \in {} |-> IF i \in Done THEN here[i] \o f[next[i]] ELSE here[i]]
        OBVIOUS
      <4>. HIDE DEF f
      <4>. QED
        BY <4>1, <4>2
    <3>2. CASE m # L
      <4>1. m + 1 \in 0 .. L /\ m + 1 \notin Bad
        <5>. HIDE DEF Bad
        <5>. QED
          BY <2>1, <2>2, <3>2
      <4>2. Good(m + 1)
        BY <4>1
      <4>. QED
        BY <4>2
    <3>. QED
      BY <3>1, <3>2
  <2>4. PICK f : f = [i \in m + 1 .. L |-> IF i \in Done THEN here[i] \o f[next[i]] ELSE here[i]]
    BY <2>3
  <2>. DEFINE first == IF m \in Done THEN here[m] \o f[next[m]] ELSE here[m]
              g == [i \in m .. L |-> IF i = m THEN first ELSE f[i]]
  <2>5. g[m] = first /\ \A i \in m + 1 .. L : g[i] = f[i]
    <3>. HIDE DEF first
    <3>1. m \in m .. L /\ m + 1 .. L \subseteq m .. L /\ m \notin m + 1 .. L
      BY <2>2
    <3>. QED
      BY <3>1
  <2>6. g = [i \in m .. L |-> IF i \in Done THEN here[i] \o g[next[i]] ELSE here[i]]
    <3>1. \A i \in m .. L : i \in Done => next[i] \in m + 1 .. L
      BY <2>2 DEF Forward
    <3>. HIDE DEF g
    <3>2. \A i \in m .. L : g[i] = IF i \in Done THEN here[i] \o g[next[i]] ELSE here[i]
      <4>. SUFFICES ASSUME NEW i \in m .. L
                    PROVE  g[i] = IF i \in Done THEN here[i] \o g[next[i]] ELSE here[i]
        OBVIOUS
      <4>1. i \in Done => g[next[i]] = f[next[i]]
        BY <3>1, <2>5
      <4>2. CASE i = m
        BY <4>1, <4>2, <2>5
      <4>3. CASE i # m
        <5>1. i \in m + 1 .. L
          BY <4>3, <2>2
        <5>2. f[i] = IF i \in Done THEN here[i] \o f[next[i]] ELSE here[i]
          BY <5>1, <2>4
        <5>. QED
          BY <4>1, <5>1, <5>2, <2>5
      <4>. QED
        BY <4>2, <4>3
    <3>3. g = [i \in m .. L |-> g[i]]
      BY DEF g
    <3>. QED
      BY <3>2, <3>3
  <2>7. Good(m)
    <3>. HIDE DEF g
    <3>. QED
      BY <2>6
  <2>. QED
    BY <2>2, <2>7
<1>2. Good(0)
  <2>1. 0 \in 0 .. L /\ 0 \notin Bad
    <3>. HIDE DEF Bad
    <3>. QED
      BY <1>1
  <2>. QED
    BY <2>1
<1>3. PICK g : g = [i \in 0 .. L |-> IF i \in Done THEN here[i] \o g[next[i]] ELSE here[i]]
  BY <1>2
<1>4. Follows(g, L, Done, here, next)
  BY <1>3 DEF Follows
<1>5. g = [i \in 0 .. L |-> g[i]]
  BY <1>3
<1>. QED
  BY <1>4, <1>5

(* Its values are sequences if its parts are.                              *)
LEMMA ForwardType ==
  ASSUME NEW L \in Nat, NEW Done \in SUBSET (0 .. L), NEW here, NEW next, NEW T, NEW g,
         Forward(L, Done, next), Follows(g, L, Done, here, next),
         \A i \in 0 .. L : here[i] \in Seq(T)
  PROVE  \A i \in 0 .. L : g[i] \in Seq(T)
<1>. DEFINE Bad == {i \in 0 .. L : g[i] \notin Seq(T)}
<1>. SUFFICES ASSUME Bad # {} PROVE FALSE
  OBVIOUS
<1>1. Bad \in SUBSET (0 .. L)
  OBVIOUS
<1>2. PICK m \in Bad : \A k \in Bad : k <= m
  <2>. HIDE DEF Bad
  <2>. QED
    BY <1>1, Largest
<1>3. m \in 0 .. L /\ g[m] \notin Seq(T)
  OBVIOUS
<1>4. m \in Done /\ g[m] = here[m] \o g[next[m]]
  BY <1>3 DEF Follows
<1>5. next[m] \in 0 .. L /\ next[m] > m
  BY <1>3, <1>4 DEF Forward
<1>6. next[m] \notin Bad
  <2>. HIDE DEF Bad
  <2>. QED
    BY <1>2, <1>3, <1>5
<1>7. g[next[m]] \in Seq(T)
  BY <1>5, <1>6
<1>8. here[m] \o g[next[m]] \in Seq(T)
  BY <1>3, <1>7, ConcatProperties
<1>. QED
  BY <1>3, <1>4, <1>8

(* Two functions that satisfy the same recursion on the way to c and       *)
(* differ there by w at the end differ by w from the beginning.            *)
Alike(f, g, w, G, c, here, next, T) ==
  /\ c \in Nat /\ G \in SUBSET (0 .. c) /\ 0 \in G /\ w \in Seq(T)
  /\ g[c] = f[c] \o w
  /\ \A i \in G : f[i] \in Seq(T) /\ g[i] \in Seq(T)
  /\ \A i \in G : i # c =>
       /\ next[i] \in G /\ next[i] > i
       /\ here[i] \in Seq(T)
       /\ f[i] = here[i] \o f[next[i]]
       /\ g[i] = here[i] \o g[next[i]]

LEMMA Associative ==
  ASSUME NEW T, NEW a \in Seq(T), NEW b \in Seq(T), NEW c \in Seq(T)
  PROVE  (a \o b) \o c = a \o (b \o c)
BY ConcatAssociative

LEMMA SameWay ==
  ASSUME NEW T, NEW c, NEW G, NEW here, NEW next, NEW f, NEW g, NEW w,
         Alike(f, g, w, G, c, here, next, T)
  PROVE  g[0] = f[0] \o w
<1>. DEFINE Bad == {i \in G : g[i] # f[i] \o w}
<1>. SUFFICES ASSUME Bad # {} PROVE FALSE
  BY DEF Alike
<1>1. c \in Nat /\ Bad \in SUBSET (0 .. c) /\ w \in Seq(T)
  BY DEF Alike
<1>2. PICK m \in Bad : \A k \in Bad : k <= m
  <2>. HIDE DEF Bad
  <2>. QED
    BY <1>1, Largest
<1>3. m \in G /\ m # c /\ g[m] # f[m] \o w
  BY DEF Alike
<1>. DEFINE n == next[m]
            h == here[m]
            x == f[n]
<1>4. n \in G /\ n > m /\ m \in 0 .. c /\ n \in 0 .. c
  BY <1>3 DEF Alike
<1>5. n \notin Bad
  <2>. HIDE DEF Bad, n
  <2>. QED
    BY <1>2, <1>4
<1>6. g[n] = x \o w
  BY <1>4, <1>5
<1>7. h \in Seq(T) /\ x \in Seq(T)
  BY <1>3, <1>4 DEF Alike
<1>8. f[m] = h \o x /\ g[m] = h \o g[n]
  BY <1>3, <1>4 DEF Alike
<1>. HIDE DEF n, h, x
<1>9. (h \o x) \o w = h \o (x \o w)
  <2>. HIDE DEF Bad
  <2>. QED
    BY <1>1, <1>7, Associative
<1>. QED
  BY <1>3, <1>6, <1>8, <1>9

-----------------------------------------------------------------------------
(* Frames. *)

LEMMA FrameProperties ==
  ASSUME NEW s \in Seq(Byte), NEW i \in 0 .. Len(s), i + MetaInt < Len(s)
  PROVE  FrameEnd(s, i) \in Nat /\ FrameEnd(s, i) > i + MetaInt
<1>1. Len(s) \in Nat /\ i + MetaInt + 1 \in 1 .. Len(s)
  BY LenProperties
<1>2. s[i + MetaInt + 1] \in Byte
  BY <1>1, ElementOfSeq
<1>3. Unit * s[i + MetaInt + 1] \in Nat
  BY <1>2, SMT DEF Byte
<1>. QED
  BY <1>1, <1>3 DEF FrameEnd

LEMMA CompleteProperties ==
  ASSUME NEW s \in Seq(Byte), NEW i \in 0 .. Len(s), Complete(s, i)
  PROVE  FrameEnd(s, i) \in i + 1 .. Len(s) /\ i + MetaInt < Len(s)
         /\ FrameEnd(s, i) > i + MetaInt
<1>1. Len(s) \in Nat
  BY LenProperties
<1>. QED
  BY <1>1, FrameProperties DEF Complete

LEMMA PieceType ==
  ASSUME NEW s \in Seq(Byte), NEW a \in Nat, NEW b \in Int, b <= Len(s)
  PROVE  SubSeq(s, a + 1, b) \in Seq(Byte)
<1>1. Len(s) \in Nat /\ \A k \in 1 .. Len(s) : s[k] \in Byte
  BY LenProperties, ElementOfSeq
<1>2. \A k \in a + 1 .. b : s[k] \in Byte
  BY <1>1
<1>. QED
  BY <1>2, SubSeqProperties

(* AudioFrom and TitlesFrom satisfy their recursion.                       *)
LEMMA AudioEquation ==
  ASSUME NEW s \in Seq(Byte)
  PROVE  \A i \in 0 .. Len(s) :
           /\ AudioFrom(s)[i] = IF Complete(s, i)
                                THEN SubSeq(s, i + 1, i + MetaInt) \o AudioFrom(s)[FrameEnd(s, i)]
                                ELSE SubSeq(s, i + 1, Min(Len(s), i + MetaInt))
           /\ AudioFrom(s)[i] \in Seq(Byte)
<1>. DEFINE L == Len(s)
            Done == {k \in 0 .. L : Complete(s, k)}
            here == [k \in 0 .. L |-> IF Complete(s, k) THEN SubSeq(s, k + 1, k + MetaInt)
                                      ELSE SubSeq(s, k + 1, Min(L, k + MetaInt))]
            next == [k \in 0 .. L |-> FrameEnd(s, k)]
            Def(f) == [k \in 0 .. L |-> IF Complete(s, k)
                                        THEN SubSeq(s, k + 1, k + MetaInt) \o f[FrameEnd(s, k)]
                                        ELSE SubSeq(s, k + 1, Min(L, k + MetaInt))]
            F == AudioFrom(s)
<1>1. L \in Nat /\ Done \in SUBSET (0 .. L)
  BY LenProperties
<1>2. Forward(L, Done, next)
  BY CompleteProperties DEF Forward
<1>3. PICK g : g = [k \in 0 .. L |-> g[k]] /\ Follows(g, L, Done, here, next)
  <2>. HIDE DEF here, next, Done, L
  <2>. QED
    BY <1>1, <1>2, ForwardRecursion
<1>4. \A k \in 0 .. L : g[k] = IF Complete(s, k)
                               THEN SubSeq(s, k + 1, k + MetaInt) \o g[FrameEnd(s, k)]
                               ELSE SubSeq(s, k + 1, Min(L, k + MetaInt))
  BY <1>3 DEF Follows
<1>5. g = Def(g)
  <2>. HIDE DEF L
  <2>. QED
    BY <1>3, <1>4
<1>6. F = Def(F)
  <2>1. F = CHOOSE f : f = Def(f)
    BY DEF AudioFrom
  <2>. HIDE DEF Def, F
  <2>. QED
    BY <1>5, <2>1, Zenon
<1>. HIDE DEF F
<1>7. \A k \in 0 .. L : F[k] = IF Complete(s, k)
                               THEN SubSeq(s, k + 1, k + MetaInt) \o F[FrameEnd(s, k)]
                               ELSE SubSeq(s, k + 1, Min(L, k + MetaInt))
  BY <1>6
<1>8. Follows(F, L, Done, here, next)
  BY <1>7 DEF Follows
<1>9. \A k \in 0 .. L : here[k] \in Seq(Byte)
  <2>. SUFFICES ASSUME NEW k \in 0 .. L PROVE here[k] \in Seq(Byte)
    OBVIOUS
  <2>1. k \in Nat /\ k + MetaInt \in Int
    OBVIOUS
  <2>2. CASE Complete(s, k)
    <3>1. k + MetaInt <= Len(s)
      BY <1>1, <2>2, CompleteProperties
    <3>. QED
      BY <2>1, <2>2, <3>1, PieceType
  <2>3. CASE ~Complete(s, k)
    <3>1. Min(L, k + MetaInt) \in Int /\ Min(L, k + MetaInt) <= Len(s)
      BY <1>1 DEF Min
    <3>. QED
      BY <2>1, <2>3, <3>1, PieceType
  <2>. QED
    BY <2>2, <2>3
<1>10. \A k \in 0 .. L : F[k] \in Seq(Byte)
  <2>. HIDE DEF Done, here, next, L
  <2>. QED
    BY <1>1, <1>2, <1>8, <1>9, ForwardType
<1>. QED
  BY <1>7, <1>10 DEF F

LEMMA TitlesEquation ==
  ASSUME NEW s \in Seq(Byte)
  PROVE  \A i \in 0 .. Len(s) :
           /\ TitlesFrom(s)[i] = IF Complete(s, i)
                                 THEN Printed(SubSeq(s, i + MetaInt + 2, FrameEnd(s, i)))
                                        \o TitlesFrom(s)[FrameEnd(s, i)]
                                 ELSE <<>>
           /\ TitlesFrom(s)[i] \in Seq(Seq(Byte))
<1>. DEFINE L == Len(s)
            Done == {k \in 0 .. L : Complete(s, k)}
            here == [k \in 0 .. L |-> IF Complete(s, k)
                                      THEN Printed(SubSeq(s, k + MetaInt + 2, FrameEnd(s, k)))
                                      ELSE <<>>]
            next == [k \in 0 .. L |-> FrameEnd(s, k)]
            Def(f) == [k \in 0 .. L |-> IF Complete(s, k)
                                        THEN Printed(SubSeq(s, k + MetaInt + 2, FrameEnd(s, k)))
                                               \o f[FrameEnd(s, k)]
                                        ELSE <<>>]
            F == TitlesFrom(s)
<1>1. L \in Nat /\ Done \in SUBSET (0 .. L)
  BY LenProperties
<1>2. Forward(L, Done, next)
  BY CompleteProperties DEF Forward
<1>3. PICK g : g = [k \in 0 .. L |-> g[k]] /\ Follows(g, L, Done, here, next)
  <2>. HIDE DEF here, next, Done, L
  <2>. QED
    BY <1>1, <1>2, ForwardRecursion
<1>4. \A k \in 0 .. L : g[k] = IF Complete(s, k)
                               THEN Printed(SubSeq(s, k + MetaInt + 2, FrameEnd(s, k)))
                                      \o g[FrameEnd(s, k)]
                               ELSE <<>>
  BY <1>3 DEF Follows
<1>5. g = Def(g)
  <2>. HIDE DEF L
  <2>. QED
    BY <1>3, <1>4
<1>6. F = Def(F)
  <2>1. F = CHOOSE f : f = Def(f)
    BY DEF TitlesFrom
  <2>. HIDE DEF Def, F
  <2>. QED
    BY <1>5, <2>1, Zenon
<1>. HIDE DEF F
<1>7. \A k \in 0 .. L : F[k] = IF Complete(s, k)
                               THEN Printed(SubSeq(s, k + MetaInt + 2, FrameEnd(s, k)))
                                      \o F[FrameEnd(s, k)]
                               ELSE <<>>
  BY <1>6
<1>8. Follows(F, L, Done, here, next)
  BY <1>7 DEF Follows
<1>9. \A k \in 0 .. L : here[k] \in Seq(Seq(Byte))
  <2>. SUFFICES ASSUME NEW k \in 0 .. L PROVE here[k] \in Seq(Seq(Byte))
    OBVIOUS
  <2>1. CASE Complete(s, k)
    <3>1. k + MetaInt + 1 \in Nat /\ FrameEnd(s, k) \in Int /\ FrameEnd(s, k) <= Len(s)
      BY <1>1, <2>1, CompleteProperties
    <3>2. SubSeq(s, (k + MetaInt + 1) + 1, FrameEnd(s, k)) \in Seq(Byte)
      BY <3>1, PieceType
    <3>3. (k + MetaInt + 1) + 1 = k + MetaInt + 2
      OBVIOUS
    <3>. QED
      BY <2>1, <3>2, <3>3, TrimType
  <2>2. CASE ~Complete(s, k)
    BY <2>2
  <2>. QED
    BY <2>1, <2>2
<1>10. \A k \in 0 .. L : F[k] \in Seq(Seq(Byte))
  <2>. HIDE DEF Done, here, next, L
  <2>. QED
    BY <1>1, <1>2, <1>8, <1>9, ForwardType
<1>. QED
  BY <1>7, <1>10 DEF F

-----------------------------------------------------------------------------
(* The frames that lead from the beginning of s to c are complete.         *)
Frames(s, c, G) ==
  /\ G \in SUBSET (0 .. c) /\ 0 \in G
  /\ \A i \in G : i # c => i + MetaInt < c /\ FrameEnd(s, i) \in G

Starts(s, c) == \E G \in SUBSET (0 .. c) : Frames(s, c, G)

LEMMA Joins ==
  ASSUME NEW s \in Seq(Byte), NEW t \in Seq(Byte)
  PROVE  /\ s \o t \in Seq(Byte)
         /\ Len(s) \in Nat /\ Len(t) \in Nat /\ Len(s \o t) = Len(s) + Len(t)
         /\ \A i \in 1 .. Len(s) : (s \o t)[i] = s[i]
         /\ \A i \in 1 .. Len(t) : (s \o t)[Len(s) + i] = t[i]
<1>1. Len(s) \in Nat /\ Len(t) \in Nat
  BY LenProperties
<1>2. /\ s \o t \in Seq(Byte) /\ Len(s \o t) = Len(s) + Len(t)
      /\ \A i \in 1 .. Len(s) + Len(t) :
           (s \o t)[i] = IF i <= Len(s) THEN s[i] ELSE t[i - Len(s)]
  BY ConcatProperties
<1>. HIDE DEF Byte
<1>3. \A i \in 1 .. Len(t) : (s \o t)[Len(s) + i] = t[i]
  <2>. SUFFICES ASSUME NEW i \in 1 .. Len(t) PROVE (s \o t)[Len(s) + i] = t[i]
    OBVIOUS
  <2>1. Len(s) + i \in 1 .. Len(s) + Len(t) /\ ~(Len(s) + i <= Len(s)) /\ (Len(s) + i) - Len(s) = i
    BY <1>1
  <2>. QED
    BY <1>2, <2>1
<1>. QED
  BY <1>1, <1>2, <1>3

(* More bytes do not change a frame whose length byte is there.            *)
LEMMA FrameKept ==
  ASSUME NEW s \in Seq(Byte), NEW t \in Seq(Byte), NEW i \in 0 .. Len(s),
         i + MetaInt < Len(s)
  PROVE  FrameEnd(s \o t, i) = FrameEnd(s, i)
<1>1. i + MetaInt + 1 \in 1 .. Len(s)
  BY Joins
<1>2. (s \o t)[i + MetaInt + 1] = s[i + MetaInt + 1]
  BY <1>1, Joins
<1>. QED
  BY <1>2 DEF FrameEnd

LEMMA FramesKept ==
  ASSUME NEW s \in Seq(Byte), NEW t \in Seq(Byte), NEW c \in 0 .. Len(s), NEW G,
         Frames(s, c, G)
  PROVE  Frames(s \o t, c, G)
<1>1. ASSUME NEW i \in G, i # c PROVE i + MetaInt < c /\ FrameEnd(s \o t, i) \in G
  <2>1. i \in 0 .. c /\ i + MetaInt < c /\ FrameEnd(s, i) \in G
    BY <1>1 DEF Frames
  <2>2. i \in 0 .. Len(s) /\ i + MetaInt < Len(s)
    BY <2>1, LenProperties
  <2>. QED
    BY <2>1, <2>2, FrameKept
<1>. QED
  BY <1>1 DEF Frames

(* A complete frame leads on to the next one.                              *)
LEMMA FramesGrow ==
  ASSUME NEW s \in Seq(Byte), NEW c \in 0 .. Len(s), Starts(s, c), Complete(s, c)
  PROVE  Starts(s, FrameEnd(s, c))
<1>. DEFINE d == FrameEnd(s, c)
<1>1. PICK G : Frames(s, c, G)
  BY DEF Starts, Frames
<1>2. d \in c + 1 .. Len(s) /\ c + MetaInt < d
  BY CompleteProperties
<1>3. c \in Nat /\ Len(s) \in Nat
  BY LenProperties
<1>. HIDE DEF d
<1>4. G \cup {d} \in SUBSET (0 .. d) /\ 0 \in G \cup {d}
  BY <1>1, <1>2, <1>3 DEF Frames
<1>5. ASSUME NEW i \in G \cup {d}, i # d
      PROVE  i + MetaInt < d /\ FrameEnd(s, i) \in G \cup {d}
  <2>1. CASE i = c
    BY <1>2, <2>1 DEF d
  <2>2. CASE i # c
    <3>1. i \in 0 .. c /\ i + MetaInt < c /\ FrameEnd(s, i) \in G
      BY <1>1, <1>5, <2>2 DEF Frames
    <3>. QED
      BY <1>2, <1>3, <3>1
  <2>. QED
    BY <2>1, <2>2
<1>6. Frames(s, d, G \cup {d})
  BY <1>4, <1>5 DEF Frames
<1>. QED
  BY <1>6 DEF Starts, Frames, d

(* What more bytes add to the audio and the titles they add to those of    *)
(* the frame at hand.                                                      *)
LEMMA AudioGrows ==
  ASSUME NEW s \in Seq(Byte), NEW t \in Seq(Byte), NEW c \in 0 .. Len(s), Starts(s, c),
         NEW w \in Seq(Byte), AudioFrom(s \o t)[c] = AudioFrom(s)[c] \o w
  PROVE  AudioOf(s \o t) = AudioOf(s) \o w
<1>. DEFINE u == s \o t
            f == AudioFrom(s)
            g == AudioFrom(u)
            next == [i \in 0 .. c |-> FrameEnd(s, i)]
            here == [i \in 0 .. c |-> SubSeq(s, i + 1, i + MetaInt)]
<1>1. PICK G : Frames(s, c, G)
  BY DEF Starts, Frames
<1>2. Frames(u, c, G)
  BY <1>1, FramesKept
<1>3. /\ u \in Seq(Byte) /\ Len(s) \in Nat /\ Len(u) = Len(s) + Len(t) /\ Len(t) \in Nat
      /\ \A i \in 1 .. Len(s) : u[i] = s[i]
  BY Joins
<1>. HIDE DEF u
<1>4. \A i \in G : f[i] \in Seq(Byte) /\ g[i] \in Seq(Byte)
  <2>1. \A i \in G : i \in 0 .. c
    BY <1>1 DEF Frames
  <2>2. c \in 0 .. Len(s) /\ c \in 0 .. Len(u)
    BY <1>3
  <2>3. \A i \in G : i \in 0 .. Len(s) /\ i \in 0 .. Len(u)
    BY <1>3, <2>1, <2>2
  <2>. QED
    BY <1>3, <2>3, AudioEquation
<1>5. ASSUME NEW i \in G, i # c
      PROVE  /\ next[i] \in G /\ next[i] > i
             /\ here[i] \in Seq(Byte)
             /\ f[i] = here[i] \o f[next[i]]
             /\ g[i] = here[i] \o g[next[i]]
  <2>1. i \in 0 .. c /\ i + MetaInt < c /\ FrameEnd(s, i) \in G /\ FrameEnd(s, i) \in 0 .. c
    BY <1>1, <1>5 DEF Frames
  <2>2. FrameEnd(u, i) = FrameEnd(s, i)
    <3>1. i \in 0 .. Len(s) /\ i + MetaInt < Len(s)
      BY <1>3, <2>1
    <3>. QED
      BY <3>1, FrameKept DEF u
  <2>3. i \in 0 .. Len(s) /\ Complete(s, i) /\ i \in 0 .. Len(u) /\ Complete(u, i)
    BY <1>3, <2>1, <2>2 DEF Complete
  <2>4. next[i] = FrameEnd(s, i) /\ here[i] = SubSeq(s, i + 1, i + MetaInt)
    BY <2>1
  <2>5. next[i] > i
    <3>1. FrameEnd(s, i) \in i + 1 .. Len(s)
      BY <2>3, CompleteProperties
    <3>. QED
      BY <1>3, <2>1, <2>4, <3>1
  <2>6. SubSeq(s, i + 1, i + MetaInt) \in Seq(Byte)
    BY <1>3, <2>1, PieceType
  <2>7. SubSeq(u, i + 1, i + MetaInt) = SubSeq(s, i + 1, i + MetaInt)
    <3>1. i + 1 \in 1 .. Len(s) /\ i + MetaInt \in 1 .. Len(s)
      BY <1>3, <2>1
    <3>. QED
      BY <3>1, SubSeqOfConcat1 DEF u
  <2>8. f[i] = SubSeq(s, i + 1, i + MetaInt) \o f[FrameEnd(s, i)]
    BY <2>3, AudioEquation
  <2>9. g[i] = SubSeq(u, i + 1, i + MetaInt) \o g[FrameEnd(u, i)]
    BY <1>3, <2>3, AudioEquation
  <2>. HIDE DEF f, g, next, here
  <2>. QED
    BY <2>1, <2>2, <2>4, <2>5, <2>6, <2>7, <2>8, <2>9
<1>6. g[c] = f[c] \o w
  BY DEF u
<1>7. G \in SUBSET (0 .. c) /\ 0 \in G /\ c \in Nat
  BY <1>1 DEF Frames
<1>. HIDE DEF f, g, next, here
<1>8. Alike(f, g, w, G, c, here, next, Byte)
  BY <1>4, <1>5, <1>6, <1>7 DEF Alike
<1>9. g[0] = f[0] \o w
  BY <1>8, SameWay
<1>. QED
  BY <1>9 DEF f, g, u, AudioOf

LEMMA TitlesGrow ==
  ASSUME NEW s \in Seq(Byte), NEW t \in Seq(Byte), NEW c \in 0 .. Len(s), Starts(s, c),
         NEW w \in Seq(Seq(Byte)), TitlesFrom(s \o t)[c] = TitlesFrom(s)[c] \o w
  PROVE  TitlesOf(s \o t) = TitlesOf(s) \o w
<1>. DEFINE u == s \o t
            f == TitlesFrom(s)
            g == TitlesFrom(u)
            next == [i \in 0 .. c |-> FrameEnd(s, i)]
            here == [i \in 0 .. c |-> Printed(SubSeq(s, i + MetaInt + 2, FrameEnd(s, i)))]
<1>1. PICK G : Frames(s, c, G)
  BY DEF Starts, Frames
<1>3. /\ u \in Seq(Byte) /\ Len(s) \in Nat /\ Len(u) = Len(s) + Len(t) /\ Len(t) \in Nat
      /\ \A i \in 1 .. Len(s) : u[i] = s[i]
  BY Joins
<1>. HIDE DEF u
<1>4. \A i \in G : f[i] \in Seq(Seq(Byte)) /\ g[i] \in Seq(Seq(Byte))
  <2>1. \A i \in G : i \in 0 .. c
    BY <1>1 DEF Frames
  <2>2. c \in 0 .. Len(s) /\ c \in 0 .. Len(u)
    BY <1>3
  <2>3. \A i \in G : i \in 0 .. Len(s) /\ i \in 0 .. Len(u)
    BY <1>3, <2>1, <2>2
  <2>. QED
    BY <1>3, <2>3, TitlesEquation
<1>5. ASSUME NEW i \in G, i # c
      PROVE  /\ next[i] \in G /\ next[i] > i
             /\ here[i] \in Seq(Seq(Byte))
             /\ f[i] = here[i] \o f[next[i]]
             /\ g[i] = here[i] \o g[next[i]]
  <2>1. i \in 0 .. c /\ i + MetaInt < c /\ FrameEnd(s, i) \in G /\ FrameEnd(s, i) \in 0 .. c
    BY <1>1, <1>5 DEF Frames
  <2>2. FrameEnd(u, i) = FrameEnd(s, i)
    <3>1. i \in 0 .. Len(s) /\ i + MetaInt < Len(s)
      BY <1>3, <2>1
    <3>. QED
      BY <3>1, FrameKept DEF u
  <2>3. i \in 0 .. Len(s) /\ Complete(s, i) /\ i \in 0 .. Len(u) /\ Complete(u, i)
    BY <1>3, <2>1, <2>2 DEF Complete
  <2>. DEFINE block == SubSeq(s, i + MetaInt + 2, FrameEnd(s, i))
  <2>4. next[i] = FrameEnd(s, i) /\ here[i] = Printed(block)
    BY <2>1
  <2>5. next[i] > i
    <3>1. FrameEnd(s, i) \in i + 1 .. Len(s)
      BY <2>3, CompleteProperties
    <3>. QED
      BY <1>3, <2>1, <2>4, <3>1
  <2>6. block \in Seq(Byte)
    <3>1. i + MetaInt + 1 \in Nat /\ FrameEnd(s, i) \in Int /\ FrameEnd(s, i) <= Len(s)
          /\ (i + MetaInt + 1) + 1 = i + MetaInt + 2
      BY <1>3, <2>1
    <3>2. SubSeq(s, (i + MetaInt + 1) + 1, FrameEnd(s, i)) \in Seq(Byte)
      BY <3>1, PieceType
    <3>. QED
      BY <3>1, <3>2
  <2>7. SubSeq(u, i + MetaInt + 2, FrameEnd(s, i)) = block
    <3>1. i + MetaInt + 2 \in Nat /\ FrameEnd(s, i) \in 1 .. Len(s)
      BY <1>3, <2>1, <2>3, CompleteProperties
    <3>2. CASE i + MetaInt + 2 <= Len(s)
      <4>1. i + MetaInt + 2 \in 1 .. Len(s)
        BY <1>3, <2>1, <3>1, <3>2
      <4>. QED
        BY <3>1, <4>1, SubSeqOfConcat1 DEF u
    <3>3. CASE ~(i + MetaInt + 2 <= Len(s))
      <4>1. FrameEnd(s, i) < i + MetaInt + 2 /\ FrameEnd(s, i) \in Int /\ i + MetaInt + 2 \in Int
        BY <1>3, <3>1, <3>3
      <4>2. block = <<>> /\ SubSeq(u, i + MetaInt + 2, FrameEnd(s, i)) = <<>>
        BY <4>1, SubSeqEmpty
      <4>. QED
        BY <4>2
    <3>. QED
      BY <3>2, <3>3
  <2>8. f[i] = Printed(block) \o f[FrameEnd(s, i)]
    BY <2>3, TitlesEquation
  <2>9. g[i] = Printed(SubSeq(u, i + MetaInt + 2, FrameEnd(u, i))) \o g[FrameEnd(u, i)]
    BY <1>3, <2>3, TitlesEquation
  <2>10. Printed(block) \in Seq(Seq(Byte))
    BY <2>6, TrimType
  <2>. HIDE DEF f, g, next, here, block
  <2>. QED
    BY <2>1, <2>2, <2>4, <2>5, <2>7, <2>8, <2>9, <2>10
<1>6. g[c] = f[c] \o w
  BY DEF u
<1>7. G \in SUBSET (0 .. c) /\ 0 \in G /\ c \in Nat
  BY <1>1 DEF Frames
<1>. HIDE DEF f, g, next, here
<1>8. Alike(f, g, w, G, c, here, next, Seq(Byte))
  BY <1>4, <1>5, <1>6, <1>7 DEF Alike
<1>9. g[0] = f[0] \o w
  BY <1>8, SameWay
<1>. QED
  BY <1>9 DEF f, g, u, TitlesOf

-----------------------------------------------------------------------------
(* The bytes of s \o t after the first c are those of s and then t.        *)
LEMMA SuffixGrows ==
  ASSUME NEW s \in Seq(Byte), NEW t \in Seq(Byte), NEW c \in 0 .. Len(s)
  PROVE  SubSeq(s \o t, c + 1, Len(s \o t)) = SubSeq(s, c + 1, Len(s)) \o t
<1>. DEFINE u == s \o t
            x == SubSeq(u, c + 1, Len(u))
            y == SubSeq(s, c + 1, Len(s))
            z == y \o t
<1>1. /\ u \in Seq(Byte) /\ Len(s) \in Nat /\ Len(t) \in Nat /\ Len(u) = Len(s) + Len(t)
      /\ \A i \in 1 .. Len(s) : u[i] = s[i]
      /\ \A i \in 1 .. Len(t) : u[Len(s) + i] = t[i]
  BY Joins
<1>. HIDE DEF u
<1>2. (\A i \in c + 1 .. Len(u) : u[i] \in Byte) /\ (\A i \in c + 1 .. Len(s) : s[i] \in Byte)
  BY <1>1, ElementOfSeq
<1>3. /\ x \in Seq(Byte) /\ Len(x) = Len(u) - c
      /\ \A i \in 1 .. Len(u) - c : x[i] = u[c + i]
  <2>1. /\ x \in Seq(Byte) /\ Len(x) = IF c + 1 <= Len(u) THEN Len(u) - (c + 1) + 1 ELSE 0
        /\ \A i \in 1 .. Len(u) - (c + 1) + 1 : x[i] = u[c + 1 + i - 1]
    BY <1>1, <1>2, SubSeqProperties
  <2>2. /\ Len(u) - (c + 1) + 1 = Len(u) - c /\ (c + 1 <= Len(u) \/ Len(u) - c = 0)
        /\ \A i \in 1 .. Len(u) - c : c + 1 + i - 1 = c + i
    BY <1>1
  <2>. HIDE DEF x
  <2>. QED
    BY <2>1, <2>2
<1>4. /\ y \in Seq(Byte) /\ Len(y) = Len(s) - c
      /\ \A i \in 1 .. Len(s) - c : y[i] = s[c + i]
  <2>1. /\ y \in Seq(Byte) /\ Len(y) = IF c + 1 <= Len(s) THEN Len(s) - (c + 1) + 1 ELSE 0
        /\ \A i \in 1 .. Len(s) - (c + 1) + 1 : y[i] = s[c + 1 + i - 1]
    BY <1>1, <1>2, SubSeqProperties
  <2>2. /\ Len(s) - (c + 1) + 1 = Len(s) - c /\ (c + 1 <= Len(s) \/ Len(s) - c = 0)
        /\ \A i \in 1 .. Len(s) - c : c + 1 + i - 1 = c + i
    BY <1>1
  <2>. HIDE DEF y
  <2>. QED
    BY <2>1, <2>2
<1>. HIDE DEF x, y
<1>5. /\ z \in Seq(Byte) /\ Len(z) = Len(y) + Len(t)
      /\ \A i \in 1 .. Len(y) + Len(t) : z[i] = IF i <= Len(y) THEN y[i] ELSE t[i - Len(y)]
  BY <1>4, ConcatProperties
<1>. HIDE DEF z
<1>6. ASSUME NEW i \in 1 .. Len(x) PROVE x[i] = z[i]
  <2>1. i \in 1 .. Len(u) - c /\ i \in 1 .. Len(y) + Len(t) /\ x[i] = u[c + i]
    BY <1>1, <1>3, <1>4
  <2>2. CASE i <= Len(y)
    <3>1. i \in 1 .. Len(s) - c /\ c + i \in 1 .. Len(s)
      BY <1>1, <1>4, <2>1, <2>2
    <3>. QED
      BY <1>1, <1>4, <1>5, <2>1, <2>2, <3>1
  <2>3. CASE ~(i <= Len(y))
    <3>1. i - Len(y) \in 1 .. Len(t) /\ Len(s) + (i - Len(y)) = c + i
      BY <1>1, <1>4, <2>1, <2>3
    <3>. QED
      BY <1>1, <1>5, <2>1, <2>3, <3>1
  <2>. QED
    BY <2>2, <2>3
<1>7. Len(x) = Len(z)
  BY <1>1, <1>3, <1>4, <1>5
<1>8. x = z
  BY <1>3, <1>5, <1>6, <1>7, SeqEqual
<1>. QED
  BY <1>8 DEF x, z, y, u

(* Audio at hand is audio of the frame at hand.                            *)
LEMMA AudioAhead ==
  ASSUME NEW s \in Seq(Byte), NEW t \in Seq(Byte), NEW c \in 0 .. Len(s), Starts(s, c),
         Len(s) + Len(t) <= c + MetaInt
  PROVE  AudioOf(s \o t) = AudioOf(s) \o t /\ TitlesOf(s \o t) = TitlesOf(s)
<1>. DEFINE u == s \o t
<1>1. u \in Seq(Byte) /\ Len(s) \in Nat /\ Len(t) \in Nat /\ Len(u) = Len(s) + Len(t)
  BY Joins
<1>. HIDE DEF u
<1>2. c \in 0 .. Len(u) /\ 0 \in 0 .. Len(s) /\ ~Complete(s, c) /\ ~Complete(u, c)
  BY <1>1 DEF Complete
<1>3. Min(Len(s), c + MetaInt) = Len(s) /\ Min(Len(u), c + MetaInt) = Len(u)
  BY <1>1 DEF Min
<1>4. AudioFrom(s)[c] = SubSeq(s, c + 1, Len(s)) /\ AudioFrom(u)[c] = SubSeq(u, c + 1, Len(u))
  BY <1>1, <1>2, <1>3, AudioEquation
<1>5. AudioFrom(u)[c] = AudioFrom(s)[c] \o t
  BY <1>4, SuffixGrows DEF u
<1>6. AudioOf(u) = AudioOf(s) \o t
  BY <1>5, AudioGrows DEF u
<1>7. TitlesFrom(s)[c] = <<>> /\ TitlesFrom(u)[c] = <<>> /\ TitlesOf(s) \in Seq(Seq(Byte))
  BY <1>1, <1>2, TitlesEquation DEF TitlesOf
<1>8. <<>> \in Seq(Seq(Byte)) /\ TitlesFrom(u)[c] = TitlesFrom(s)[c] \o <<>>
  BY <1>7, ConcatEmptySeq
<1>9. TitlesOf(u) = TitlesOf(s) \o <<>>
  BY <1>8, TitlesGrow DEF u
<1>. QED
  BY <1>6, <1>7, <1>9, ConcatEmptySeq DEF u

(* Bytes behind the audio of the frame at hand are no audio; they add its   *)
(* title when they complete it.                                            *)
LEMMA MetadataAhead ==
  ASSUME NEW s \in Seq(Byte), NEW t \in Seq(Byte), NEW c \in 0 .. Len(s), Starts(s, c),
         c + MetaInt <= Len(s), ~Complete(s, c),
         Complete(s \o t, c) => FrameEnd(s \o t, c) = Len(s \o t)
  PROVE  /\ AudioOf(s \o t) = AudioOf(s)
         /\ TitlesOf(s \o t) = TitlesOf(s) \o
              (IF Complete(s \o t, c)
               THEN Printed(SubSeq(s \o t, c + MetaInt + 2, Len(s \o t))) ELSE <<>>)
         /\ Complete(s \o t, c) => Starts(s \o t, Len(s \o t))
<1>. DEFINE u == s \o t
            block == SubSeq(u, c + MetaInt + 2, Len(u))
            w == IF Complete(u, c) THEN Printed(block) ELSE <<>>
<1>1. u \in Seq(Byte) /\ Len(s) \in Nat /\ Len(t) \in Nat /\ Len(u) = Len(s) + Len(t)
  BY Joins
<1>2. Complete(u, c) => FrameEnd(u, c) = Len(u)
  OBVIOUS
<1>3. Starts(u, c)
  BY FramesKept DEF Starts, Frames
<1>. HIDE DEF u
<1>4. c \in 0 .. Len(u) /\ Len(u) \in 0 .. Len(u) /\ 0 \in 0 .. Len(s)
      /\ ~Complete(u, Len(u))
  BY <1>1 DEF Complete
<1>5. Min(Len(s), c + MetaInt) = c + MetaInt /\ Min(Len(u), c + MetaInt) = c + MetaInt
      /\ Min(Len(u), Len(u) + MetaInt) = Len(u)
  BY <1>1 DEF Min
<1>6. SubSeq(u, Len(u) + 1, Len(u)) = <<>>
  BY <1>1, SubSeqEmpty
<1>7. AudioFrom(u)[Len(u)] = <<>> /\ TitlesFrom(u)[Len(u)] = <<>>
  BY <1>1, <1>4, <1>5, <1>6, AudioEquation, TitlesEquation
<1>8. SubSeq(u, c + 1, c + MetaInt) = SubSeq(s, c + 1, c + MetaInt)
      /\ SubSeq(s, c + 1, c + MetaInt) \in Seq(Byte)
  <2>1. c + 1 \in 1 .. Len(s) /\ c + MetaInt \in 1 .. Len(s)
    BY <1>1
  <2>. QED
    BY <2>1, SubSeqOfConcat1, PieceType DEF u
<1>9. AudioFrom(s)[c] = SubSeq(s, c + 1, c + MetaInt) /\ TitlesFrom(s)[c] = <<>>
  BY <1>5, AudioEquation, TitlesEquation
<1>10. AudioFrom(u)[c] = AudioFrom(s)[c]
  <2>1. CASE Complete(u, c)
    <3>1. AudioFrom(u)[c] = SubSeq(u, c + 1, c + MetaInt) \o AudioFrom(u)[Len(u)]
      BY <1>1, <1>2, <1>4, <2>1, AudioEquation
    <3>. QED
      BY <1>7, <1>8, <1>9, <3>1, ConcatEmptySeq
  <2>2. CASE ~Complete(u, c)
    BY <1>1, <1>4, <1>5, <1>8, <1>9, <2>2, AudioEquation
  <2>. QED
    BY <2>1, <2>2
<1>11. AudioOf(u) = AudioOf(s)
  <2>1. AudioOf(s) \in Seq(Byte) /\ AudioFrom(s)[c] \in Seq(Byte)
    BY <1>4, <1>8, <1>9, AudioEquation DEF AudioOf
  <2>2. <<>> \in Seq(Byte) /\ AudioFrom(u)[c] = AudioFrom(s)[c] \o <<>>
    BY <1>10, <2>1, ConcatEmptySeq
  <2>3. AudioOf(u) = AudioOf(s) \o <<>>
    BY <2>2, AudioGrows DEF u
  <2>. QED
    BY <2>1, <2>3, ConcatEmptySeq
<1>12. block \in Seq(Byte)
  <2>1. c + MetaInt + 1 \in Nat /\ (c + MetaInt + 1) + 1 = c + MetaInt + 2 /\ Len(u) \in Int
        /\ Len(u) <= Len(u)
    BY <1>1
  <2>2. SubSeq(u, (c + MetaInt + 1) + 1, Len(u)) \in Seq(Byte)
    BY <1>1, <2>1, PieceType
  <2>. QED
    BY <2>1, <2>2
<1>. HIDE DEF block
<1>13. w \in Seq(Seq(Byte)) /\ Printed(block) \in Seq(Seq(Byte))
  BY <1>12, TrimType
<1>14. TitlesFrom(u)[c] = w
  <2>1. CASE Complete(u, c)
    <3>1. TitlesFrom(u)[c] = Printed(block) \o TitlesFrom(u)[Len(u)]
      BY <1>1, <1>2, <1>4, <2>1, TitlesEquation DEF block
    <3>. QED
      BY <1>7, <1>13, <2>1, <3>1, ConcatEmptySeq
  <2>2. CASE ~Complete(u, c)
    BY <1>1, <1>4, <2>2, TitlesEquation
  <2>. QED
    BY <2>1, <2>2
<1>15. TitlesOf(u) = TitlesOf(s) \o w
  <2>. HIDE DEF w
  <2>1. TitlesFrom(u)[c] = TitlesFrom(s)[c] \o w
    BY <1>9, <1>13, <1>14, ConcatEmptySeq
  <2>. QED
    BY <1>13, <2>1, TitlesGrow DEF u
<1>16. Complete(u, c) => Starts(u, Len(u))
  BY <1>1, <1>2, <1>3, <1>4, FramesGrow
<1>. QED
  BY <1>11, <1>15, <1>16 DEF u, w, block

-----------------------------------------------------------------------------
(* Where the framing stands in the bytes s it has consumed: the frame at    *)
(* hand begins after the first c of them, and left and block are what the  *)
(* rest of s says.                                                         *)
Stands(phase, left, block, s, c) ==
  /\ c \in 0 .. Len(s) /\ Starts(s, c)
  /\ phase \in {"audio", "length", "metadata"}
  /\ phase = "audio" => left \in Nat /\ Len(s) + left = c + MetaInt
  /\ phase = "length" => Len(s) = c + MetaInt
  /\ phase = "metadata" =>
       /\ left \in Nat \ {0}
       /\ c + MetaInt < Len(s) /\ FrameEnd(s, c) = Len(s) + left
       /\ block = SubSeq(s, c + MetaInt + 2, Len(s))

Framed(phase, left, block, s) ==
  \E c \in 0 .. Len(s) : Stands(phase, left, block, s, c)

LEMMA AudioFrames ==
  ASSUME NEW s \in Seq(Byte), NEW left, NEW block, Framed("audio", left, block, s),
         NEW t \in Seq(Byte), Len(t) <= left
  PROVE  /\ AudioOf(s \o t) = AudioOf(s) \o t /\ TitlesOf(s \o t) = TitlesOf(s)
         /\ Framed(IF left = Len(t) THEN "length" ELSE "audio", left - Len(t), block, s \o t)
<1>. DEFINE u == s \o t
            phase == IF left = Len(t) THEN "length" ELSE "audio"
<1>1. PICK c : Stands("audio", left, block, s, c)
  BY DEF Framed, Stands
<1>2. c \in 0 .. Len(s) /\ Starts(s, c) /\ left \in Nat /\ Len(s) + left = c + MetaInt
  BY <1>1 DEF Stands
<1>3. Len(s) \in Nat /\ Len(t) \in Nat /\ Len(u) = Len(s) + Len(t)
  BY Joins
<1>4. AudioOf(u) = AudioOf(s) \o t /\ TitlesOf(u) = TitlesOf(s)
  BY <1>2, <1>3, AudioAhead
<1>5. Starts(u, c)
  BY <1>2, FramesKept DEF Starts, Frames
<1>. HIDE DEF u
<1>6. /\ c \in 0 .. Len(u)
      /\ left - Len(t) \in Nat /\ Len(u) + (left - Len(t)) = c + MetaInt
      /\ phase = "length" => Len(u) = c + MetaInt
      /\ phase \in {"audio", "length"}
  BY <1>2, <1>3
<1>7. Stands(phase, left - Len(t), block, u, c)
  BY <1>5, <1>6 DEF Stands
<1>. QED
  BY <1>4, <1>7 DEF Framed, Stands, u

LEMMA LengthFrames ==
  ASSUME NEW s \in Seq(Byte), NEW left, NEW block, Framed("length", left, block, s),
         NEW b \in Byte
  PROVE  /\ AudioOf(Append(s, b)) = AudioOf(s) /\ TitlesOf(Append(s, b)) = TitlesOf(s)
         /\ Framed(IF b = 0 THEN "audio" ELSE "metadata",
                   IF b = 0 THEN MetaInt ELSE Unit * b, <<>>, Append(s, b))
<1>. DEFINE t == <<b>>
            u == s \o t
<1>1. PICK c : Stands("length", left, block, s, c)
  BY DEF Framed, Stands
<1>2. c \in 0 .. Len(s) /\ Starts(s, c) /\ Len(s) = c + MetaInt
  BY <1>1 DEF Stands
<1>3. t \in Seq(Byte) /\ Len(t) = 1 /\ t[1] = b
  OBVIOUS
<1>4. /\ u \in Seq(Byte) /\ Len(s) \in Nat /\ Len(u) = Len(s) + 1
      /\ Append(s, b) = u
  BY <1>3, Joins, AppendIsConcat
<1>5. u[Len(s) + 1] = b
  BY <1>3, Joins
<1>. HIDE DEF t, u
<1>6. FrameEnd(u, c) = Len(u) + Unit * b
  BY <1>2, <1>4, <1>5 DEF FrameEnd
<1>7. Unit * b \in Nat /\ (b = 0 <=> Unit * b = 0)
  BY NeedBounds DEF Byte
<1>8. Complete(u, c) <=> b = 0
  <2>. DEFINE n == Unit * b
  <2>1. n \in Nat /\ (b = 0 <=> n = 0) /\ FrameEnd(u, c) = Len(u) + n
    BY <1>6, <1>7
  <2>. HIDE DEF n
  <2>. QED
    BY <1>2, <1>4, <2>1 DEF Complete
<1>9. Complete(u, c) => FrameEnd(u, c) = Len(u)
  BY <1>4, <1>6, <1>7, <1>8
<1>10. ~Complete(s, c)
  BY <1>2, <1>4 DEF Complete
<1>11. SubSeq(u, c + MetaInt + 2, Len(u)) = <<>>
  BY <1>2, <1>4, SubSeqEmpty
<1>12. Printed(<<>>) = <<>>
  <2>. DEFINE none == <<>>
  <2>1. none \in Seq(Byte) /\ Len(none) = 0
    BY EmptySeq
  <2>. HIDE DEF none
  <2>2. TrimmedLen(none) \in 0 .. 0
    BY <2>1, TrimType
  <2>3. Printed(none) = <<>>
    BY <2>2 DEF Printed
  <2>. QED
    BY <2>3 DEF none
<1>13. /\ AudioOf(u) = AudioOf(s) /\ TitlesOf(u) = TitlesOf(s) \o <<>>
       /\ Complete(u, c) => Starts(u, Len(u))
  <2>1. c + MetaInt <= Len(s)
    BY <1>2, <1>4
  <2>2. /\ AudioOf(u) = AudioOf(s)
        /\ TitlesOf(u) = TitlesOf(s) \o
             (IF Complete(u, c) THEN Printed(SubSeq(u, c + MetaInt + 2, Len(u))) ELSE <<>>)
        /\ Complete(u, c) => Starts(u, Len(u))
    BY <1>2, <1>3, <1>9, <1>10, <2>1, MetadataAhead DEF u
  <2>. QED
    BY <1>11, <1>12, <2>2
<1>14. TitlesOf(s) \in Seq(Seq(Byte))
  BY <1>4, TitlesEquation DEF TitlesOf
<1>15. TitlesOf(u) = TitlesOf(s)
  BY <1>13, <1>14, ConcatEmptySeq
<1>16. CASE b = 0
  <2>1. Stands("audio", MetaInt, <<>>, u, Len(u))
    BY <1>4, <1>8, <1>13, <1>16 DEF Stands
  <2>. QED
    BY <1>4, <1>13, <1>15, <1>16, <2>1 DEF Framed, Stands
<1>17. CASE b # 0
  <2>1. Starts(u, c)
    BY <1>2, <1>3, FramesKept DEF Starts, Frames, u
  <2>2. c \in 0 .. Len(u) /\ c + MetaInt < Len(u) /\ Unit * b \in Nat \ {0}
    BY <1>2, <1>4, <1>7, <1>17
  <2>3. Stands("metadata", Unit * b, <<>>, u, c)
    BY <1>6, <1>11, <2>1, <2>2 DEF Stands
  <2>. QED
    BY <1>4, <1>13, <1>15, <1>17, <2>3 DEF Framed, Stands
<1>. QED
  BY <1>16, <1>17

LEMMA MetadataFrames ==
  ASSUME NEW s \in Seq(Byte), NEW left, NEW block, Framed("metadata", left, block, s),
         NEW t \in Seq(Byte), Len(t) <= left
  PROVE  /\ AudioOf(s \o t) = AudioOf(s)
         /\ TitlesOf(s \o t) = IF left = Len(t) THEN TitlesOf(s) \o Printed(block \o t)
                               ELSE TitlesOf(s)
         /\ left = Len(t) => Framed("audio", MetaInt, <<>>, s \o t)
         /\ left # Len(t) => Framed("metadata", left - Len(t), block \o t, s \o t)
<1>. DEFINE u == s \o t
<1>1. PICK c : Stands("metadata", left, block, s, c)
  BY DEF Framed, Stands
<1>2. /\ c \in 0 .. Len(s) /\ Starts(s, c) /\ left \in Nat \ {0}
      /\ c + MetaInt < Len(s) /\ FrameEnd(s, c) = Len(s) + left
      /\ block = SubSeq(s, c + MetaInt + 2, Len(s))
  BY <1>1 DEF Stands
<1>3. u \in Seq(Byte) /\ Len(s) \in Nat /\ Len(t) \in Nat /\ Len(u) = Len(s) + Len(t)
  BY Joins
<1>. HIDE DEF u
<1>4. FrameEnd(u, c) = Len(s) + left
  <2>1. FrameEnd(u, c) = FrameEnd(s, c)
    BY <1>2, FrameKept DEF u
  <2>. QED
    BY <1>2, <2>1
<1>5. ~Complete(s, c) /\ (Complete(u, c) <=> left = Len(t))
      /\ (Complete(u, c) => FrameEnd(u, c) = Len(u))
  <2>1. /\ c + MetaInt < Len(s) /\ c + MetaInt < Len(u)
        /\ ~(Len(s) + left <= Len(s))
        /\ Len(s) + left <= Len(u) <=> left = Len(t)
        /\ left = Len(t) => Len(s) + left = Len(u)
    <3>1. left \in Nat /\ left > 0 /\ Len(t) <= left /\ c \in Nat
      BY <1>2, <1>3
    <3>2. Len(s) + left <= Len(u) <=> left = Len(t)
      BY <1>3, <3>1
    <3>3. c + MetaInt < Len(s) /\ c + MetaInt < Len(u)
      BY <1>2, <1>3
    <3>. QED
      BY <1>3, <3>1, <3>2, <3>3
  <2>2. ~Complete(s, c)
    BY <1>2, <2>1 DEF Complete
  <2>3. Complete(u, c) <=> Len(s) + left <= Len(u)
    BY <1>4, <2>1 DEF Complete
  <2>4. Complete(u, c) <=> left = Len(t)
    BY <2>1, <2>3
  <2>5. left = Len(t) => FrameEnd(u, c) = Len(u)
    BY <1>4, <2>1
  <2>. QED
    BY <2>2, <2>4, <2>5, Zenon
<1>6. SubSeq(u, c + MetaInt + 2, Len(u)) = block \o t
  <2>1. c + MetaInt + 1 \in 0 .. Len(s) /\ (c + MetaInt + 1) + 1 = c + MetaInt + 2
    BY <1>2, <1>3
  <2>2. SubSeq(u, (c + MetaInt + 1) + 1, Len(u)) = SubSeq(s, (c + MetaInt + 1) + 1, Len(s)) \o t
    BY <2>1, SuffixGrows DEF u
  <2>. QED
    BY <1>2, <2>1, <2>2
<1>7. c + MetaInt <= Len(s)
  BY <1>2, <1>3
<1>8. /\ AudioOf(u) = AudioOf(s)
      /\ TitlesOf(u) = TitlesOf(s) \o (IF Complete(u, c) THEN Printed(block \o t) ELSE <<>>)
      /\ Complete(u, c) => Starts(u, Len(u))
  BY <1>2, <1>5, <1>6, <1>7, MetadataAhead DEF u
<1>9. TitlesOf(s) \in Seq(Seq(Byte))
  BY <1>3, TitlesEquation DEF TitlesOf
<1>10. CASE left = Len(t)
  <2>1. Stands("audio", MetaInt, <<>>, u, Len(u))
    BY <1>3, <1>5, <1>8, <1>10 DEF Stands
  <2>. QED
    BY <1>5, <1>8, <1>10, <2>1 DEF Framed, Stands, u
<1>11. CASE left # Len(t)
  <2>1. Starts(u, c)
    BY <1>2, FramesKept DEF Starts, Frames, u
  <2>2. /\ c \in 0 .. Len(u) /\ c + MetaInt < Len(u) /\ left - Len(t) \in Nat \ {0}
        /\ FrameEnd(u, c) = Len(u) + (left - Len(t))
    BY <1>2, <1>3, <1>4, <1>11
  <2>3. Stands("metadata", left - Len(t), block \o t, u, c)
    BY <1>6, <2>1, <2>2 DEF Stands
  <2>4. TitlesOf(u) = TitlesOf(s)
    BY <1>5, <1>8, <1>9, <1>11, ConcatEmptySeq
  <2>. QED
    BY <1>8, <1>11, <2>3, <2>4 DEF Framed, Stands, u
<1>. QED
  BY <1>10, <1>11

-----------------------------------------------------------------------------
(* The inductive invariant of the framing. *)
Reassembled ==
  InUse => /\ Framed(Phase, Left, Block, consumed)
           /\ stdout = AudioOf(consumed)
           /\ stderr = TitlesOf(consumed)

(* Nothing received, nothing written. *)
LEMMA InitReassembled == Init => Reassembled
<1>. SUFFICES ASSUME Init PROVE Reassembled
  OBVIOUS
<1>. DEFINE s == consumed
<1>1. /\ consumed = <<>> /\ stdout = <<>> /\ stderr = <<>>
      /\ Phase = "audio" /\ Left = MetaInt
  BY DEF Init, Phase, Left, InUse
<1>2. s \in Seq(Byte) /\ Len(s) = 0
  BY <1>1, EmptySeq
<1>. HIDE DEF s
<1>3. 0 \in 0 .. Len(s) /\ ~Complete(s, 0) /\ Min(Len(s), 0 + MetaInt) = 0
  BY <1>2 DEF Complete, Min
<1>4. AudioFrom(s)[0] = SubSeq(s, 0 + 1, 0) /\ TitlesFrom(s)[0] = <<>>
  BY <1>2, <1>3, AudioEquation, TitlesEquation
<1>5. SubSeq(s, 0 + 1, 0) = <<>>
  BY SubSeqEmpty
<1>6. Frames(s, 0, {0})
  BY DEF Frames
<1>7. Stands("audio", MetaInt, Block, s, 0)
  BY <1>2, <1>6 DEF Stands, Starts
<1>8. Framed("audio", MetaInt, Block, s)
  BY <1>3, <1>7 DEF Framed
<1>. QED
  BY <1>1, <1>4, <1>5, <1>8 DEF Reassembled, s, AudioOf, TitlesOf

(* Every step of the framing keeps it.  *)
LEMMA ReassembledStep ==
  ASSUME IInv, IInv', Reassembled, [Framing!Next]_(Framing!vars)
  PROVE  Reassembled'
<1>1. consumed \in Seq(Byte) /\ Left \in Nat
  <2>1. Unit * MaxByte \in Nat
    OBVIOUS
  <2>. QED
    BY <2>1 DEF IInv, TypeOK, Left
<1>2. InUse <=> Phase # "over"
  BY DEF Phase, IInv, TypeOK
<1>3. InUse' => Phase' # "over"
  BY DEF Phase, IInv, TypeOK
<1>4. Phase # "over" =>
        /\ Framed(Phase, Left, Block, consumed)
        /\ stdout = AudioOf(consumed)
        /\ stderr = TitlesOf(consumed)
  BY <1>2 DEF Reassembled
<1>5. ASSUME NEW run \in Framing!Runs(Left), Framing!Audio(run) PROVE Reassembled'
  <2>1. run \in Seq(Byte) /\ Len(run) \in 1 .. Left
    BY <1>1, SameBytes, RunsAreSequences
  <2>2. /\ Phase = "audio"
        /\ stdout' = stdout \o run /\ consumed' = consumed \o run
        /\ Left' = Left - Len(run)
        /\ Phase' = IF Left = Len(run) THEN "length" ELSE "audio"
        /\ Block' = Block /\ stderr' = stderr
    BY <1>5 DEF Framing!Audio
  <2>3. Framed("audio", Left, Block, consumed) /\ Len(run) <= Left
    BY <1>4, <2>1, <2>2
  <2>4. /\ AudioOf(consumed \o run) = AudioOf(consumed) \o run
        /\ TitlesOf(consumed \o run) = TitlesOf(consumed)
        /\ Framed(IF Left = Len(run) THEN "length" ELSE "audio", Left - Len(run), Block,
                  consumed \o run)
    BY <1>1, <2>1, <2>3, AudioFrames
  <2>. QED
    BY <1>4, <2>2, <2>4 DEF Reassembled
<1>6. ASSUME NEW b \in Framing!Byte, Framing!Length(b) PROVE Reassembled'
  <2>1. /\ Phase = "length"
        /\ consumed' = Append(consumed, b)
        /\ Block' = <<>>
        /\ Left' = IF b = 0 THEN MetaInt ELSE Unit * b
        /\ Phase' = IF b = 0 THEN "audio" ELSE "metadata"
        /\ stdout' = stdout /\ stderr' = stderr
    BY <1>6 DEF Framing!Length
  <2>2. Framed("length", Left, Block, consumed) /\ b \in Byte
    BY <1>4, <2>1, SameBytes
  <2>3. /\ AudioOf(Append(consumed, b)) = AudioOf(consumed)
        /\ TitlesOf(Append(consumed, b)) = TitlesOf(consumed)
        /\ Framed(IF b = 0 THEN "audio" ELSE "metadata",
                  IF b = 0 THEN MetaInt ELSE Unit * b, <<>>, Append(consumed, b))
    BY <1>1, <2>2, LengthFrames
  <2>. QED
    BY <1>4, <2>1, <2>3 DEF Reassembled
<1>7. ASSUME NEW run \in Framing!Runs(Left), Framing!Metadata(run) PROVE Reassembled'
  <2>1. run \in Seq(Byte) /\ Len(run) \in 1 .. Left
    BY <1>1, SameBytes, RunsAreSequences
  <2>2. /\ Phase = "metadata"
        /\ consumed' = consumed \o run /\ stdout' = stdout
        /\ IF Left = Len(run)
           THEN /\ stderr' = stderr \o Printed(Block \o run)
                /\ Block' = <<>> /\ Left' = MetaInt /\ Phase' = "audio"
           ELSE /\ Block' = Block \o run /\ Left' = Left - Len(run)
                /\ stderr' = stderr /\ Phase' = Phase
    BY <1>7, SameBytes DEF Framing!Metadata
  <2>3. Framed("metadata", Left, Block, consumed) /\ Len(run) <= Left
    BY <1>4, <2>1, <2>2
  <2>4. /\ AudioOf(consumed \o run) = AudioOf(consumed)
        /\ TitlesOf(consumed \o run) = IF Left = Len(run)
                                       THEN TitlesOf(consumed) \o Printed(Block \o run)
                                       ELSE TitlesOf(consumed)
        /\ Left = Len(run) => Framed("audio", MetaInt, <<>>, consumed \o run)
        /\ Left # Len(run) =>
             Framed("metadata", Left - Len(run), Block \o run, consumed \o run)
    BY <1>1, <2>1, <2>3, MetadataFrames
  <2>5. CASE Left = Len(run)
    BY <1>4, <2>2, <2>4, <2>5 DEF Reassembled
  <2>6. CASE Left # Len(run)
    BY <1>4, <2>2, <2>4, <2>6 DEF Reassembled
  <2>. QED
    BY <2>5, <2>6
<1>8. ASSUME NEW prefix, Framing!End(prefix) PROVE Reassembled'
  BY <1>3, <1>8 DEF Framing!End, Reassembled
<1>9. CASE UNCHANGED Framing!vars
  <2>1. /\ Phase' = Phase /\ Left' = Left /\ Block' = Block
        /\ stdout' = stdout /\ stderr' = stderr /\ consumed' = consumed
    BY <1>9 DEF Framing!vars
  <2>. QED
    BY <1>3, <1>4, <2>1 DEF Reassembled
<1>. QED
  BY <1>5, <1>6, <1>7, <1>8, <1>9 DEF Framing!Next

(* stdout is the audio and stderr the titles of the bytes received, frame  *)
(* by frame, at every point of every call and however the network cut them *)
(* into chunks: for every interval, block size and length of stream.       *)
THEOREM ChunksDoNotMatter == Spec => []Delivered
<1>1. Init => Reassembled
  BY InitReassembled
<1>2. IInv /\ Reassembled /\ [Next]_vars => Reassembled'
  BY StepRefines, ReassembledStep, InvStep
<1>3. Reassembled => Delivered
  BY DEF Reassembled, Delivered
<1>. QED
  BY <1>1, <1>2, <1>3, Invariance, PTL DEF Spec
=============================================================================
