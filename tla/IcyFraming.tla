----------------------------- MODULE IcyFraming -----------------------------
(***************************************************************************)
(* What the ICY demultiplexer promises, without chunks, positions or a     *)
(* heap buffer: the stream is consumed in runs that never cross a frame    *)
(* boundary; audio runs go to stdout, complete metadata blocks go to       *)
(* stderr without their padding.  IcyDemux implements this specification.  *)
(***************************************************************************)
EXTENDS IcyBytes

VARIABLES
  phase,     \* part of the frame the next byte belongs to, or "over"
  left,      \* bytes of that part still to come
  block,     \* bytes of the current metadata block received so far
  audio,     \* everything written to stdout
  titles,    \* the metadata blocks written to stderr
  consumed   \* everything demultiplexed (history)

vars == <<phase, left, block, audio, titles, consumed>>

Init ==
  /\ phase = "audio"
  /\ left = MetaInt
  /\ block = <<>>
  /\ audio = <<>>
  /\ titles = <<>>
  /\ consumed = <<>>

Audio(run) ==
  /\ phase = "audio"
  /\ audio' = audio \o run
  /\ consumed' = consumed \o run
  /\ left' = left - Len(run)
  /\ phase' = IF left = Len(run) THEN "length" ELSE "audio"
  /\ UNCHANGED <<block, titles>>

Length(b) ==
  /\ phase = "length"
  /\ consumed' = Append(consumed, b)
  /\ block' = <<>>
  /\ left' = IF b = 0 THEN MetaInt ELSE Unit * b
  /\ phase' = IF b = 0 THEN "audio" ELSE "metadata"
  /\ UNCHANGED <<audio, titles>>

Metadata(run) ==
  /\ phase = "metadata"
  /\ consumed' = consumed \o run
  /\ UNCHANGED audio
  /\ IF left = Len(run)
     THEN /\ titles' = titles \o Printed(block \o run)
          /\ block' = <<>>
          /\ left' = MetaInt
          /\ phase' = "audio"
     ELSE /\ block' = block \o run
          /\ left' = left - Len(run)
          /\ UNCHANGED <<titles, phase>>

(* The stream ends: freed after a normal close, or given up after a failed *)
(* write or allocation.  A failed write may have written a proper prefix   *)
(* of the audio at hand.                                                   *)
End(prefix) ==
  /\ phase # "over"
  /\ prefix # <<>> => phase = "audio"
  /\ audio' = audio \o prefix
  /\ phase' = "over"
  /\ left' = 0
  /\ block' = <<>>
  /\ UNCHANGED <<titles, consumed>>

Next ==
  \/ \E run \in Runs(left) : Audio(run) \/ Metadata(run)
  \/ \E b \in Byte : Length(b)
  \/ \E prefix \in {<<>>} \cup Runs(left - 1) : End(prefix)

Spec == Init /\ [][Next]_vars
=============================================================================
