------------------------------ MODULE IcyBytes ------------------------------
(***************************************************************************)
(* The constants of an ICY stream and the byte strings it is made of.      *)
(* A stream is MetaInt audio bytes, one length byte b, Unit*b bytes of     *)
(* metadata, MetaInt audio bytes, and so on.  In src/icy.c Unit is 16 and  *)
(* MaxByte is 255.                                                         *)
(***************************************************************************)
EXTENDS Integers, Sequences

CONSTANTS
  MetaInt,   \* the icy-metaint header: audio bytes between two blocks
  Unit,      \* metadata bytes counted by one unit of the length byte
  MaxByte    \* largest value of a byte

ASSUME MetaIntAssumption == MetaInt \in Nat \ {0}
ASSUME UnitAssumption    == Unit \in Nat \ {0}
ASSUME MaxByteAssumption == MaxByte \in Nat

Byte == 0 .. MaxByte

Min(a, b) == IF a < b THEN a ELSE b

(* The nonempty byte strings of at most n bytes. *)
Runs(n) == UNION {[1 .. k -> Byte] : k \in 1 .. n}

(* The length of s without the zero bytes it ends with (icy.c pads every   *)
(* metadata block with them).                                              *)
TrimmedLen(s) ==
  CHOOSE n \in 0 .. Len(s) :
    /\ n > 0 => s[n] # 0
    /\ \A i \in n + 1 .. Len(s) : s[i] = 0

Trim(s) == SubSeq(s, 1, TrimmedLen(s))

(* What reaches stderr for one complete metadata block: nothing when the   *)
(* block holds only padding.                                               *)
Printed(s) == IF TrimmedLen(s) = 0 THEN <<>> ELSE <<Trim(s)>>

(* The frame that starts after the first i bytes of s: where it ends, and   *)
(* whether s holds all of it, its length byte included.                    *)
FrameEnd(s, i) == i + MetaInt + 1 + Unit * s[i + MetaInt + 1]
Complete(s, i) == i + MetaInt < Len(s) /\ FrameEnd(s, i) <= Len(s)

(* The audio of the bytes of s after the first i: in each frame, what      *)
(* precedes the length byte.                                               *)
AudioFrom(s) ==
  LET From[i \in 0 .. Len(s)] ==
        IF Complete(s, i)
        THEN SubSeq(s, i + 1, i + MetaInt) \o From[FrameEnd(s, i)]
        ELSE SubSeq(s, i + 1, Min(Len(s), i + MetaInt))
  IN From

(* Their titles: in each complete frame, what follows the length byte,     *)
(* without padding and unless it is all padding.                           *)
TitlesFrom(s) ==
  LET From[i \in 0 .. Len(s)] ==
        IF Complete(s, i)
        THEN Printed(SubSeq(s, i + MetaInt + 2, FrameEnd(s, i))) \o From[FrameEnd(s, i)]
        ELSE <<>>
  IN From

AudioOf(s)  == AudioFrom(s)[0]
TitlesOf(s) == TitlesFrom(s)[0]
=============================================================================
